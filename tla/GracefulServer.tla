----------------------------- MODULE GracefulServer -----------------------------
(***************************************************************************)
(* httpok.GracefulServer (server.go): Run and the two goroutines it starts *)
(* (one serves, one waits for the request to stop), the hooks of the       *)
(* application, signals, TriggerShutdown and the requests being served.    *)
(*                                                                         *)
(* net/http is external and is modelled by its contract: Shutdown refuses  *)
(* new requests at once and returns nil when none is active, or an error   *)
(* when its context ends first or the listener does not close properly;    *)
(* ListenAndServe after Shutdown returns ErrServerClosed.  Fatalf ends the *)
(* process, and cuts what is active.                                       *)
(*                                                                         *)
(* Run is called once.  Time is counted in half seconds from the creation  *)
(* of the shutdown context.                                                *)
(***************************************************************************)
EXTENDS Naturals

CONSTANTS
    Requests,     \* requests of clients
    Timeouts,     \* values of ShutdownTimeout, in half seconds; 0 for none
    MaxClock,     \* bound: the clock stops here
    BeforeWaits   \* does BeforeStartFunc wait for the end of its context?

ASSUME ServerAssumption ==
    /\ MaxClock \in Nat
    /\ Timeouts \subseteq 0 .. MaxClock
    /\ BeforeWaits \in BOOLEAN

VARIABLES
    timeout,    \* ShutdownTimeout, set before Run
    supplied,   \* is the server a literal with a Context of its caller's?
    main,       \* Run: new, called, before, spawned, after, waiting, returned
    server,     \* ListenAndServe: none, ready, listening, closed
    stopper,    \* the shutdown goroutine: none, waiting, hook, closing, closed
    hasCancel,  \* is the field cancel set?
    cancelled,  \* has the runtime context ended?
    notified,   \* do signals go to sigChan?
    sigChan,    \* does sigChan, which has room for one, hold a signal?
    refusing,   \* has http.Server.Shutdown been called?
    request,    \* each request: none, active, served or cut
    clock,      \* half seconds since the shutdown context was created
    exit,       \* what made the process die, or "no"
    asked       \* history: a shutdown was requested, and not refused

vars == <<timeout, supplied, main, server, stopper, hasCancel, cancelled, notified, sigChan,
          refusing, request, clock, exit, asked>>

Active == {r \in Requests : request[r] = "active"}

Running == exit = "no"

\* NewGracefulServer sets Context and cancel; a GracefulServer literal leaves
\* cancel nil, and may have a Context.
Init ==
    /\ timeout \in Timeouts
    /\ supplied \in BOOLEAN
    /\ main = "new"
    /\ server = "none"
    /\ stopper = "none"
    /\ hasCancel \in BOOLEAN
    /\ supplied => ~hasCancel
    /\ cancelled = FALSE
    /\ notified = FALSE
    /\ sigChan = FALSE
    /\ refusing = FALSE
    /\ request = [r \in Requests |-> "none"]
    /\ clock = 0
    /\ exit = "no"
    /\ asked = FALSE

\* Logger.Fatalf: the process dies with whatever it was doing.
Fatalf(cause) ==
    /\ exit' = cause
    /\ request' = [r \in Requests |->
                      IF request[r] = "active" THEN "cut" ELSE request[r]]
    /\ UNCHANGED <<timeout, supplied, main, server, stopper, hasCancel, cancelled,
                   notified, sigChan, refusing, clock, asked>>

----------------------------------------------------------------------------
(* Requests to stop.                                                       *)

\* Faulty variant of Signal: the channel has no room, so that a signal is
\* dropped unless the goroutine is waiting for it.
SignalUnbuffered ==
    /\ Running
    /\ notified
    /\ sigChan' = (stopper = "waiting")
    /\ asked' = TRUE
    /\ UNCHANGED <<timeout, supplied, main, server, stopper, hasCancel, cancelled,
                   notified, refusing, request, clock, exit>>

\* os/signal sends without blocking: a second signal finds the channel full.
Signal ==
    /\ Running
    /\ notified
    /\ sigChan' = TRUE
    /\ asked' = TRUE
    /\ UNCHANGED <<timeout, supplied, main, server, stopper, hasCancel, cancelled,
                   notified, refusing, request, clock, exit>>

\* Without a cancel function it returns an error and changes nothing.
TriggerShutdown ==
    /\ Running
    /\ hasCancel
    /\ cancelled' = TRUE
    /\ asked' = TRUE
    /\ UNCHANGED <<timeout, supplied, main, server, stopper, hasCancel, notified,
                   sigChan, refusing, request, clock, exit>>

\* The Context a caller supplied ends, and with it the runtime context, which is
\* (or will be) derived from it: one more way of asking for a shutdown.
ContextEnds ==
    /\ Running
    /\ supplied
    /\ cancelled' = TRUE
    /\ asked' = TRUE
    /\ UNCHANGED <<timeout, supplied, main, server, stopper, hasCancel, notified,
                   sigChan, refusing, request, clock, exit>>

----------------------------------------------------------------------------
(* Run.                                                                    *)

RunCall ==
    /\ Running
    /\ main = "new"
    /\ main' = "called"
    /\ notified' = TRUE
    /\ UNCHANGED <<timeout, supplied, server, stopper, hasCancel, cancelled, sigChan,
                   refusing, request, clock, exit, asked>>

\* The field cancel is set, and with it the runtime context: it is derived from
\* the supplied one or from the background.
TakeContext ==
    /\ Running
    /\ main = "called"
    /\ main' = "before"
    /\ hasCancel' = TRUE
    /\ UNCHANGED <<timeout, supplied, server, stopper, cancelled, notified, sigChan,
                   refusing, request, clock, exit, asked>>

BeforeStartReturns ==
    /\ Running
    /\ main = "before"
    /\ BeforeWaits => cancelled
    /\ main' = "spawned"
    /\ server' = "ready"
    /\ UNCHANGED <<timeout, supplied, stopper, hasCancel, cancelled, notified, sigChan,
                   refusing, request, clock, exit, asked>>

BeforeStartFails == Running /\ main = "before" /\ Fatalf("before start hook")

StartStopper ==
    /\ Running
    /\ main = "spawned"
    /\ main' = "after"
    /\ stopper' = "waiting"
    /\ UNCHANGED <<timeout, supplied, server, hasCancel, cancelled, notified, sigChan,
                   refusing, request, clock, exit, asked>>

AfterStartReturns ==
    /\ Running
    /\ main = "after"
    /\ main' = "waiting"
    /\ UNCHANGED <<timeout, supplied, server, stopper, hasCancel, cancelled, notified,
                   sigChan, refusing, request, clock, exit, asked>>

AfterStartFails == Running /\ main = "after" /\ Fatalf("after start hook")

\* done is closed.
RunReturns ==
    /\ Running
    /\ main = "waiting"
    /\ stopper = "closed"
    /\ main' = "returned"
    /\ UNCHANGED <<timeout, supplied, server, stopper, hasCancel, cancelled, notified,
                   sigChan, refusing, request, clock, exit, asked>>

----------------------------------------------------------------------------
(* ListenAndServe and the requests.                                        *)

Listen ==
    /\ Running
    /\ server = "ready"
    /\ server' = IF refusing THEN "closed" ELSE "listening"
    /\ UNCHANGED <<timeout, supplied, main, stopper, hasCancel, cancelled, notified,
                   sigChan, refusing, request, clock, exit, asked>>

ListenFails ==
    /\ Running
    /\ server \in {"ready", "listening"}
    /\ ~refusing
    /\ Fatalf("listen")

ServerClosed ==
    /\ Running
    /\ server = "listening"
    /\ refusing
    /\ server' = "closed"
    /\ UNCHANGED <<timeout, supplied, main, stopper, hasCancel, cancelled, notified,
                   sigChan, refusing, request, clock, exit, asked>>

Accept(r) ==
    /\ Running
    /\ server = "listening"
    /\ ~refusing
    /\ request[r] = "none"
    /\ request' = [request EXCEPT ![r] = "active"]
    /\ UNCHANGED <<timeout, supplied, main, server, stopper, hasCancel, cancelled,
                   notified, sigChan, refusing, clock, exit, asked>>

Served(r) ==
    /\ Running
    /\ request[r] = "active"
    /\ request' = [request EXCEPT ![r] = "served"]
    /\ UNCHANGED <<timeout, supplied, main, server, stopper, hasCancel, cancelled,
                   notified, sigChan, refusing, clock, exit, asked>>

----------------------------------------------------------------------------
(* The shutdown goroutine.                                                 *)

\* Faulty variant of StopBySignal: the runtime context is left open.
StopWithoutCancel ==
    /\ Running
    /\ stopper = "waiting"
    /\ sigChan
    /\ sigChan' = FALSE
    /\ stopper' = "hook"
    /\ UNCHANGED <<timeout, supplied, main, server, hasCancel, cancelled, notified,
                   refusing, request, clock, exit, asked>>

\* Faulty variant of StopBySignal: signals are no longer caught from here on.
StopAndIgnore ==
    /\ Running
    /\ stopper = "waiting"
    /\ sigChan
    /\ sigChan' = FALSE
    /\ cancelled' = TRUE
    /\ notified' = FALSE
    /\ stopper' = "hook"
    /\ UNCHANGED <<timeout, supplied, main, server, hasCancel, refusing, request,
                   clock, exit, asked>>

StopBySignal ==
    /\ Running
    /\ stopper = "waiting"
    /\ sigChan
    /\ sigChan' = FALSE
    /\ cancelled' = TRUE
    /\ stopper' = "hook"
    /\ UNCHANGED <<timeout, supplied, main, server, hasCancel, notified, refusing,
                   request, clock, exit, asked>>

StopByContext ==
    /\ Running
    /\ stopper = "waiting"
    /\ cancelled
    /\ stopper' = "hook"
    /\ UNCHANGED <<timeout, supplied, main, server, hasCancel, cancelled, notified,
                   sigChan, refusing, request, clock, exit, asked>>

\* The hook has returned, and http.Server.Shutdown is called.
HookReturns ==
    /\ Running
    /\ stopper = "hook"
    /\ stopper' = "closing"
    /\ refusing' = TRUE
    /\ UNCHANGED <<timeout, supplied, main, server, hasCancel, cancelled, notified,
                   sigChan, request, clock, exit, asked>>

HookFails == Running /\ stopper = "hook" /\ Fatalf("shutdown hook")

\* Faulty variant of ShutdownReturns: Close instead of Shutdown.
CloseReturns ==
    /\ Running
    /\ stopper = "closing"
    /\ stopper' = "closed"
    /\ notified' = FALSE
    /\ UNCHANGED <<timeout, supplied, main, server, hasCancel, cancelled, sigChan,
                   refusing, request, clock, exit, asked>>

\* Nothing is active any more: the deferred signal.Stop, cancel and close.
ShutdownReturns ==
    /\ Running
    /\ stopper = "closing"
    /\ Active = {}
    /\ stopper' = "closed"
    /\ notified' = FALSE
    /\ cancelled' = TRUE
    /\ UNCHANGED <<timeout, supplied, main, server, hasCancel, sigChan, refusing,
                   request, clock, exit, asked>>

\* Faulty variant of Deadline: the timeout counts nanoseconds, not seconds.
DeadlineUnscaled == 0

\* time.Duration(ShutdownTimeout) * time.Second keeps whole seconds only.
Deadline == (timeout \div 2) * 2

\* The shutdown context ends before Shutdown has seen every connection idle: a
\* request is active, or was when Shutdown last looked, or a connection is new.
ShutdownFails ==
    /\ Running
    /\ stopper = "closing"
    /\ timeout > 0
    /\ clock >= Deadline
    /\ Fatalf("shutdown")

\* Nothing is active any more, but the listener did not close properly.
CloseFails ==
    /\ Running
    /\ stopper = "closing"
    /\ server \in {"listening", "closed"}
    /\ Active = {}
    /\ Fatalf("close listener")

Tick ==
    /\ Running
    /\ stopper \in {"hook", "closing"}
    /\ clock < MaxClock
    /\ clock' = clock + 1
    /\ UNCHANGED <<timeout, supplied, main, server, stopper, hasCancel, cancelled,
                   notified, sigChan, refusing, request, exit, asked>>

----------------------------------------------------------------------------

Stop == StopBySignal \/ StopByContext

Next ==
    \/ Signal \/ TriggerShutdown \/ ContextEnds
    \/ RunCall \/ TakeContext \/ BeforeStartReturns \/ BeforeStartFails
    \/ StartStopper \/ AfterStartReturns \/ AfterStartFails \/ RunReturns
    \/ Listen \/ ListenFails \/ ServerClosed
    \/ \E r \in Requests : Accept(r) \/ Served(r)
    \/ Stop \/ HookReturns \/ HookFails \/ ShutdownReturns \/ ShutdownFails
    \/ CloseFails \/ Tick

Spec == Init /\ [][Next]_vars

(* Goroutines run, and time goes on.  The application's part: the hooks     *)
(* return, AfterStartFunc at the latest when its context ends.  Requests    *)
(* need not be served in time; without a timeout they must be served.       *)
Fairness ==
    /\ WF_vars(TakeContext) /\ WF_vars(BeforeStartReturns)
    /\ WF_vars(StartStopper) /\ WF_vars(cancelled /\ AfterStartReturns)
    /\ WF_vars(RunReturns) /\ WF_vars(Stop)
    /\ WF_vars(HookReturns) /\ WF_vars(ShutdownReturns) /\ WF_vars(ShutdownFails)
    /\ WF_vars(Tick)
    /\ \A r \in Requests : WF_vars(timeout = 0 /\ Served(r))

FairSpec == Spec /\ Fairness

----------------------------------------------------------------------------
(* Properties.                                                             *)

\* Each goroutine exists only when the one that starts it has got that far;
\* a shutdown that has begun has ended the runtime context, and only a
\* shutdown makes the server refuse requests.
Order ==
    /\ stopper # "none" => main \in {"after", "waiting", "returned"}
    /\ stopper \in {"hook", "closing", "closed"} => cancelled
    /\ refusing <=> stopper \in {"closing", "closed"}

Flags ==
    /\ supplied \in BOOLEAN
    /\ hasCancel \in BOOLEAN /\ cancelled \in BOOLEAN /\ asked \in BOOLEAN
    /\ notified \in BOOLEAN /\ sigChan \in BOOLEAN /\ refusing \in BOOLEAN

Places ==
    /\ timeout \in Timeouts
    /\ main \in {"new", "called", "before", "spawned", "after", "waiting", "returned"}
    /\ server \in {"none", "ready", "listening", "closed"}
    /\ stopper \in {"none", "waiting", "hook", "closing", "closed"}
    /\ request \in [Requests -> {"none", "active", "served", "cut"}]
    /\ clock \in 0 .. MaxClock
    /\ exit \in {"no", "before start hook", "after start hook", "listen",
                 "shutdown hook", "shutdown", "close listener"}

(* The variables keep their types, and the goroutines their order.         *)
TypeOK == Flags /\ Places /\ Order

(* Run returns only from a finished shutdown: it was asked for, by a        *)
(* signal, by TriggerShutdown or by the end of the caller's context; the    *)
(* runtime context has ended, and every request it had accepted was         *)
(* answered.                                                                *)
ReturnIsGraceful ==
    main = "returned" =>
        /\ asked
        /\ cancelled
        /\ \A r \in Requests : request[r] \in {"none", "served"}

(* While a request is active, signals are caught: a second interrupt, in    *)
(* the middle of a shutdown, does not kill the process the default way.     *)
DrainIsUninterrupted == Active # {} => notified \/ ~Running

(* A request to stop is not lost, however early it comes: until the context *)
(* has ended it waits in sigChan, and nobody takes it from there without    *)
(* ending the context.  This is why ShutdownHappens holds.                  *)
RequestIsKept == asked => cancelled \/ sigChan

(* A shutdown requested by a signal, by TriggerShutdown or by the end of a  *)
(* supplied context happens, whenever the request comes, before Run and     *)
(* during the start hooks included: Run returns, or the process dies of an  *)
(* error it reports.  "The embedded context is canceled when shutdown is    *)
(* triggered by a signal or by TriggerShutdown" (server.go:58-60).          *)
ShutdownHappens ==
    (asked /\ main # "new") ~> (main = "returned" \/ ~Running)

(* ShutdownTimeout is "the shutdown timeout (in seconds)" (server.go:96):   *)
(* a shutdown does not give up on active requests before it is over.        *)
GracePeriod == exit = "shutdown" => clock >= timeout
===============================================================================
