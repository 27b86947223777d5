------------------------- MODULE GracefulServerProofs -------------------------
(***************************************************************************)
(* Proofs about GracefulServer, for any requests and any shutdown timeouts. *)
(*                                                                         *)
(* TypeOK is not inductive by itself: that a shutdown was asked for, that   *)
(* signals are caught while requests are active and that Run returns only   *)
(* after the other goroutine is done follow from how far each goroutine    *)
(* is, which Stages says.  ServerInv is inductive.                         *)
(***************************************************************************)
EXTENDS GracefulServer, TLAPS

\* The steps of Run after ListenAndServe has been started.
Serving == {"spawned", "after", "waiting", "returned"}

Stages ==
    /\ exit = "no" => \A r \in Requests : request[r] # "cut"
    /\ cancelled \/ sigChan <=> asked
    /\ server # "none" => main \in Serving
    /\ main # "new" /\ stopper # "closed" => notified
    /\ Active # {} => server # "none" /\ stopper # "closed"
    /\ main = "returned" => stopper = "closed" /\ exit = "no"

ServerInv == TypeOK /\ Stages

----------------------------------------------------------------------------

LEMMA ServerInit == Init => ServerInv
  <1> SUFFICES ASSUME Init
               PROVE  ServerInv
    OBVIOUS
  <1>1. Flags /\ Order
    BY DEF Init, Flags, Order
  <1>2. Places
    BY ServerAssumption DEF Init, Places
  <1>3. Active = {}
    BY DEF Init, Active
  <1>4. Stages
    BY <1>3 DEF Init, Stages
  <1>. QED
    BY <1>1, <1>2, <1>4 DEF ServerInv, TypeOK

LEMMA ActiveKept == UNCHANGED request => UNCHANGED Active
BY DEF Active

\* Fatalf leaves no request active, and everything else where it is.
LEMMA FatalfKeepsInv ==
    ASSUME ServerInv, main # "returned",
           NEW cause \in {"before start hook", "after start hook", "listen",
                          "shutdown hook", "shutdown", "close listener"},
           Fatalf(cause)
    PROVE  ServerInv'
  <1> USE DEF ServerInv, TypeOK
  <1>1. request' \in [Requests -> {"none", "active", "served", "cut"}]
    <2>1. \A r \in Requests : request[r] \in {"none", "active", "served", "cut"}
      BY DEF Places
    <2>. QED
      BY <2>1 DEF Fatalf
  <1>2. Active' = {}
    BY DEF Fatalf, Active
  <1>3. Flags'
    BY DEF Fatalf, Flags
  <1>4. Places'
    BY <1>1 DEF Fatalf, Places
  <1>5. Order'
    BY DEF Fatalf, Order
  <1>6. Stages'
    BY <1>2 DEF Stages, Fatalf
  <1>. QED
    BY <1>3, <1>4, <1>5, <1>6

LEMMA ServerStep == ServerInv /\ [Next]_vars => ServerInv'
<1> SUFFICES ASSUME ServerInv, [Next]_vars
             PROVE  ServerInv'
  OBVIOUS
<1> USE DEF ServerInv, TypeOK
<1>1. CASE Signal
  <2>1. Flags'
    BY <1>1 DEF Signal, Flags
  <2>2. Places'
    BY <1>1 DEF Signal, Places
  <2>3. Order'
    BY <1>1 DEF Signal, Order
  <2>4. Stages'
    BY <1>1, ActiveKept DEF Signal, Stages, Serving, Flags, Order
  <2>. QED
    BY <2>1, <2>2, <2>3, <2>4
<1>2. CASE TriggerShutdown
  <2>1. Flags'
    BY <1>2 DEF TriggerShutdown, Flags
  <2>2. Places'
    BY <1>2 DEF TriggerShutdown, Places
  <2>3. Order'
    BY <1>2 DEF TriggerShutdown, Order
  <2>4. Stages'
    BY <1>2, ActiveKept DEF TriggerShutdown, Stages, Serving, Flags, Order
  <2>. QED
    BY <2>1, <2>2, <2>3, <2>4
<1>3. CASE RunCall
  <2>1. Flags'
    BY <1>3 DEF RunCall, Flags
  <2>2. Places'
    BY <1>3 DEF RunCall, Places
  <2>3. Order'
    BY <1>3 DEF RunCall, Order
  <2>4. Stages'
    BY <1>3, ActiveKept DEF RunCall, Stages, Serving, Flags, Order
  <2>. QED
    BY <2>1, <2>2, <2>3, <2>4
<1>4. CASE TakeContext
  <2>1. Flags'
    BY <1>4 DEF TakeContext, Flags
  <2>2. Places'
    BY <1>4 DEF TakeContext, Places
  <2>3. Order'
    BY <1>4 DEF TakeContext, Order
  <2>4. Stages'
    BY <1>4, ActiveKept DEF TakeContext, Stages, Serving, Flags, Order
  <2>. QED
    BY <2>1, <2>2, <2>3, <2>4
<1>5. CASE BeforeStartReturns
  <2>1. Flags'
    BY <1>5 DEF BeforeStartReturns, Flags
  <2>2. Places'
    BY <1>5 DEF BeforeStartReturns, Places
  <2>3. Order'
    BY <1>5 DEF BeforeStartReturns, Order
  <2>4. Stages'
    BY <1>5, ActiveKept DEF BeforeStartReturns, Stages, Serving, Flags, Order
  <2>. QED
    BY <2>1, <2>2, <2>3, <2>4
<1>6. CASE StartStopper
  <2>1. Flags'
    BY <1>6 DEF StartStopper, Flags
  <2>2. Places'
    BY <1>6 DEF StartStopper, Places
  <2>3. Order'
    BY <1>6 DEF StartStopper, Order
  <2>4. Stages'
    BY <1>6, ActiveKept DEF StartStopper, Stages, Serving, Flags, Order
  <2>. QED
    BY <2>1, <2>2, <2>3, <2>4
<1>7. CASE AfterStartReturns
  <2>1. Flags'
    BY <1>7 DEF AfterStartReturns, Flags
  <2>2. Places'
    BY <1>7 DEF AfterStartReturns, Places
  <2>3. Order'
    BY <1>7 DEF AfterStartReturns, Order
  <2>4. Stages'
    BY <1>7, ActiveKept DEF AfterStartReturns, Stages, Serving, Flags, Order
  <2>. QED
    BY <2>1, <2>2, <2>3, <2>4
<1>8. CASE RunReturns
  <2>1. Flags'
    BY <1>8 DEF RunReturns, Running, Flags
  <2>2. Places'
    BY <1>8 DEF RunReturns, Running, Places
  <2>3. Order'
    BY <1>8 DEF RunReturns, Running, Order
  <2>4. Stages'
    BY <1>8, ActiveKept DEF RunReturns, Running, Stages, Serving, Flags, Order
  <2>. QED
    BY <2>1, <2>2, <2>3, <2>4
<1>9. CASE Listen
  <2>1. Flags'
    BY <1>9 DEF Listen, Flags
  <2>2. Places'
    BY <1>9 DEF Listen, Places
  <2>3. Order'
    BY <1>9 DEF Listen, Order
  <2>4. Stages'
    BY <1>9, ActiveKept DEF Listen, Stages, Serving, Flags, Order
  <2>. QED
    BY <2>1, <2>2, <2>3, <2>4
<1>10. CASE ServerClosed
  <2>1. Flags'
    BY <1>10 DEF ServerClosed, Flags
  <2>2. Places'
    BY <1>10 DEF ServerClosed, Places
  <2>3. Order'
    BY <1>10 DEF ServerClosed, Order
  <2>4. Stages'
    BY <1>10, ActiveKept DEF ServerClosed, Stages, Serving, Flags, Order
  <2>. QED
    BY <2>1, <2>2, <2>3, <2>4
<1>11. ASSUME NEW r \in Requests, Accept(r)
       PROVE  ServerInv'
  <2>1. Flags' /\ Order'
    BY <1>11 DEF Accept, Flags, Order
  <2>2. Places'
    BY <1>11 DEF Accept, Places
  <2>3. server # "none" /\ stopper # "closed"
    BY <1>11 DEF Accept, Order
  <2>4. Stages'
    BY <1>11, <2>3 DEF Accept, Places, Stages
  <2>. QED
    BY <2>1, <2>2, <2>4
<1>12. ASSUME NEW r \in Requests, Served(r)
       PROVE  ServerInv'
  <2>1. Flags' /\ Order'
    BY <1>12 DEF Served, Flags, Order
  <2>2. Places'
    BY <1>12 DEF Served, Places
  <2>3. Active' \subseteq Active
    BY <1>12 DEF Served, Places, Active
  <2>4. Stages'
    BY <1>12, <2>3 DEF Served, Places, Stages
  <2>. QED
    BY <2>1, <2>2, <2>4
<1>13. CASE StopBySignal
  <2>1. Flags'
    BY <1>13 DEF StopBySignal, Flags
  <2>2. Places'
    BY <1>13 DEF StopBySignal, Places
  <2>3. Order'
    BY <1>13 DEF StopBySignal, Order
  <2>4. Stages'
    BY <1>13, ActiveKept DEF StopBySignal, Stages, Serving, Flags, Order
  <2>. QED
    BY <2>1, <2>2, <2>3, <2>4
<1>14. CASE StopByContext
  <2>1. Flags'
    BY <1>14 DEF StopByContext, Flags
  <2>2. Places'
    BY <1>14 DEF StopByContext, Places
  <2>3. Order'
    BY <1>14 DEF StopByContext, Order
  <2>4. Stages'
    BY <1>14, ActiveKept DEF StopByContext, Stages, Serving, Flags, Order
  <2>. QED
    BY <2>1, <2>2, <2>3, <2>4
<1>15. CASE HookReturns
  <2>1. Flags'
    BY <1>15 DEF HookReturns, Flags
  <2>2. Places'
    BY <1>15 DEF HookReturns, Places
  <2>3. Order'
    BY <1>15 DEF HookReturns, Order
  <2>4. Stages'
    BY <1>15, ActiveKept DEF HookReturns, Stages, Serving, Flags, Order
  <2>. QED
    BY <2>1, <2>2, <2>3, <2>4
<1>16. CASE ShutdownReturns
  <2>1. Flags'
    BY <1>16 DEF ShutdownReturns, Flags
  <2>2. Places'
    BY <1>16 DEF ShutdownReturns, Places
  <2>3. Order'
    BY <1>16 DEF ShutdownReturns, Order
  <2>4. Stages'
    BY <1>16, ActiveKept DEF ShutdownReturns, Stages, Serving, Flags, Order
  <2>. QED
    BY <2>1, <2>2, <2>3, <2>4
<1>17. CASE Tick
  <2>1. Flags' /\ Order'
    BY <1>17 DEF Tick, Flags, Order
  <2>2. Places'
    <3>1. clock \in 0 .. MaxClock /\ clock < MaxClock /\ clock' = clock + 1
      BY <1>17 DEF Tick, Places
    <3>2. clock' \in 0 .. MaxClock
      BY <3>1, ServerAssumption
    <3>. QED
      BY <1>17, <3>2 DEF Tick, Places
  <2>3. Stages'
    BY <1>17, ActiveKept DEF Tick, Stages
  <2>. QED
    BY <2>1, <2>2, <2>3
<1>18. CASE BeforeStartFails \/ AfterStartFails
  BY <1>18, FatalfKeepsInv DEF BeforeStartFails, AfterStartFails
<1>19. CASE ListenFails \/ HookFails \/ ShutdownFails \/ CloseFails
  <2>1. main # "returned"
    BY <1>19 DEF ListenFails, HookFails, ShutdownFails, CloseFails, Order, Stages
  <2>. QED
    BY <1>19, <2>1, FatalfKeepsInv DEF ListenFails, HookFails, ShutdownFails, CloseFails
<1>20. CASE UNCHANGED vars
  <2>1. Flags'
    BY <1>20 DEF vars, Flags
  <2>2. Places'
    BY <1>20 DEF vars, Places
  <2>3. Order'
    BY <1>20 DEF vars, Order
  <2>4. Stages'
    BY <1>20, ActiveKept DEF vars, Stages, Serving, Flags, Order
  <2>. QED
    BY <2>1, <2>2, <2>3, <2>4
<1>21. CASE ContextEnds
  <2>1. Flags'
    BY <1>21 DEF ContextEnds, Flags
  <2>2. Places'
    BY <1>21 DEF ContextEnds, Places
  <2>3. Order'
    BY <1>21 DEF ContextEnds, Order
  <2>4. Stages'
    BY <1>21, ActiveKept DEF ContextEnds, Stages, Serving, Flags, Order
  <2>. QED
    BY <2>1, <2>2, <2>3, <2>4
<1>. QED
  BY <1>1, <1>2, <1>3, <1>4, <1>5, <1>6, <1>7, <1>8, <1>9, <1>10, <1>11, <1>12,
     <1>13, <1>14, <1>15, <1>16, <1>17, <1>18, <1>19, <1>20, <1>21
  DEF Next, Stop

LEMMA ServerInvHolds == Spec => []ServerInv
  <1>. QED
    BY ServerInit, ServerStep, PTL DEF Spec

----------------------------------------------------------------------------

(* The variables keep their types, and each goroutine exists only when the *)
(* one that starts it has got that far.                                    *)
THEOREM TypeCorrect == Spec => []TypeOK
  <1>1. ServerInv => TypeOK
    BY DEF ServerInv
  <1>. QED
    BY <1>1, ServerInvHolds, PTL

(* Run returns only from a finished shutdown that was asked for, and every  *)
(* request it accepted was answered, for any number of requests.            *)
THEOREM ReturnIsGracefulHolds == Spec => []ReturnIsGraceful
  <1>1. ServerInv => ReturnIsGraceful
    <2> SUFFICES ASSUME ServerInv, main = "returned"
                 PROVE  ReturnIsGraceful
      BY DEF ReturnIsGraceful
    <2> USE DEF ServerInv, TypeOK
    <2>1. stopper = "closed" /\ exit = "no"
      BY DEF Stages
    <2>2. cancelled
      BY <2>1 DEF Order
    <2>3. asked
      BY <2>2 DEF Stages
    <2>4. Active = {}
      BY <2>1 DEF Stages
    <2>5. ASSUME NEW r \in Requests
          PROVE  request[r] \in {"none", "served"}
      <3>1. request[r] \in {"none", "active", "served", "cut"}
        BY DEF Places
      <3>2. request[r] # "cut"
        BY <2>1 DEF Stages
      <3>3. request[r] # "active"
        BY <2>4 DEF Active
      <3>. QED
        BY <3>1, <3>2, <3>3
    <2>. QED
      BY <2>2, <2>3, <2>5 DEF ReturnIsGraceful
  <1>. QED
    BY <1>1, ServerInvHolds, PTL

(* While a request is active, signals are caught.                           *)
THEOREM DrainIsUninterruptedHolds == Spec => []DrainIsUninterrupted
  <1>1. ServerInv => DrainIsUninterrupted
    BY DEF ServerInv, Stages, DrainIsUninterrupted, Serving
  <1>. QED
    BY <1>1, ServerInvHolds, PTL

(* Whoever asks for a shutdown, and whenever, the request is not lost.      *)
THEOREM RequestIsKeptHolds == Spec => []RequestIsKept
  <1>1. ServerInv => RequestIsKept
    BY DEF ServerInv, Stages, RequestIsKept
  <1>. QED
    BY <1>1, ServerInvHolds, PTL

----------------------------------------------------------------------------
(* The grace period.                                                       *)

\* Every timeout is a whole number of seconds.
WholeSeconds == \A t \in Timeouts : t % 2 = 0

LEMMA DeadlineIsTimeout ==
    ASSUME WholeSeconds, timeout \in Timeouts
    PROVE  Deadline = timeout
  <1>1. timeout \in Nat /\ timeout % 2 = 0
    BY ServerAssumption DEF WholeSeconds
  <1>. QED
    BY <1>1 DEF Deadline

(* With timeouts of whole seconds a shutdown does not give up on active     *)
(* requests before ShutdownTimeout is over.  (With half a second it does.)  *)
THEOREM GracePeriodHolds == WholeSeconds => (Spec => []GracePeriod)
  <1> SUFFICES ASSUME WholeSeconds
               PROVE  Spec => []GracePeriod
    OBVIOUS
  <1>1. Init => GracePeriod
    BY DEF Init, GracePeriod
  <1>2. TypeOK /\ GracePeriod /\ [Next]_vars => GracePeriod'
    <2> SUFFICES ASSUME TypeOK, GracePeriod, [Next]_vars
                 PROVE  GracePeriod'
      OBVIOUS
    <2>1. CASE ShutdownFails
      BY <2>1, DeadlineIsTimeout
      DEF ShutdownFails, Fatalf, GracePeriod, TypeOK, Places
    <2>2. CASE exit' = exit /\ clock' = clock /\ timeout' = timeout
      BY <2>2 DEF GracePeriod
    <2>3. CASE exit' = exit /\ exit = "no"
      BY <2>3 DEF GracePeriod
    <2>4. CASE \E cause \in {"before start hook", "after start hook", "listen",
                             "shutdown hook", "close listener"} : Fatalf(cause)
      BY <2>4 DEF Fatalf, GracePeriod
    <2>. QED
      BY <2>1, <2>2, <2>3, <2>4
      DEF Next, vars, Running, Signal, TriggerShutdown, ContextEnds, RunCall, TakeContext,
          BeforeStartReturns, BeforeStartFails, StartStopper, AfterStartReturns,
          AfterStartFails, RunReturns, Listen, ListenFails, ServerClosed, Accept,
          Served, Stop, StopBySignal, StopByContext, HookReturns, HookFails,
          ShutdownReturns, CloseFails, Tick
  <1>. QED
    BY <1>1, <1>2, TypeCorrect, PTL DEF Spec
===============================================================================
