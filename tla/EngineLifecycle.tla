---------------------------- MODULE EngineLifecycle ----------------------------
(***************************************************************************)
(* StoreEngine.Start, Stop, Pause and Resume (session/store.go 184-261):   *)
(* the engine, its store, and the purge scheduler that each Start creates  *)
(* and runs in a goroutine of its own.                                     *)
(*                                                                         *)
(* One goroutine owns the engine and calls Start and Stop one after the    *)
(* other (the fields are not synchronised); Pause and Resume may be called *)
(* while it does.  The scheduler is the library schedulerok.  What is      *)
(* assumed of it is what the engine relies on: Run dispatches the purge    *)
(* job, never twice at a time (SkipOverlap), until Stop is called or its   *)
(* context is done, and returns once no job is running; Stop returns nil   *)
(* once no job is running, or an error when its own context is done        *)
(* first; Run's result is nil after Stop and may be the context's error    *)
(* when the context is done.                                               *)
(***************************************************************************)
EXTENDS Naturals

CONSTANT
    MaxStarts   \* bound: schedulers created over the life of the engine

ASSUME StartsAssumption == MaxStarts \in Nat

Schedulers == 1 .. MaxStarts

None == 0   \* the nil *Scheduler

VARIABLES
    requiresPurge,  \* what the store's RequiresPurge returns
    started,        \* e.started
    scheduler,      \* e.scheduler: the current scheduler, or None
    created,        \* how many schedulers there have been
    runner,         \* the goroutine of each: none, live or returned
    purging,        \* is a dispatched purge job running?
    asked,          \* has Stop been called on the scheduler?
    ctxDone,        \* is the context that Run got done?
    paused,         \* has Pause been called since the last Resume?
    done,           \* schedulerDone: empty, nil, error, or taken
    store,          \* the store's resources: open or closed
    pc              \* where the owner is: idle, or inside Start or Stop

schedulerVars == <<runner, purging, asked, ctxDone, paused, done>>
vars == <<requiresPurge, started, scheduler, created, schedulerVars, store, pc>>

Init ==
    /\ requiresPurge \in BOOLEAN
    /\ started = FALSE
    /\ scheduler = None
    /\ created = 0
    /\ runner = [k \in Schedulers |-> "none"]
    /\ purging = [k \in Schedulers |-> FALSE]
    /\ asked = [k \in Schedulers |-> FALSE]
    /\ ctxDone = [k \in Schedulers |-> FALSE]
    /\ paused = [k \in Schedulers |-> FALSE]
    /\ done = [k \in Schedulers |-> "empty"]
    /\ store = "closed"
    /\ pc = "idle"

----------------------------------------------------------------------------
(* Start.                                                                  *)

\* Faulty variant of StartCall: an engine that is running is started again.
StartAgain ==
    /\ pc = "idle"
    /\ created < MaxStarts
    /\ pc' = "opening"
    /\ UNCHANGED <<requiresPurge, started, scheduler, created, schedulerVars,
                   store>>

StartCall ==
    /\ pc = "idle"
    /\ ~started
    /\ created < MaxStarts
    /\ pc' = "opening"
    /\ UNCHANGED <<requiresPurge, started, scheduler, created, schedulerVars,
                   store>>

\* "store engine already started": nothing changes.
StartRefused ==
    /\ pc = "idle"
    /\ started
    /\ UNCHANGED vars

StoreStarts ==
    /\ pc = "opening"
    /\ store' = "open"
    /\ IF requiresPurge
       THEN pc' = "firstPurge" /\ UNCHANGED started
       ELSE pc' = "idle" /\ started' = TRUE
    /\ UNCHANGED <<requiresPurge, scheduler, created, schedulerVars>>

StoreStartFails ==
    /\ pc = "opening"
    /\ pc' = "idle"
    /\ UNCHANGED <<requiresPurge, started, scheduler, created, schedulerVars,
                   store>>

\* The purge inside Start: its error is logged, and Start goes on.
FirstPurge ==
    /\ pc = "firstPurge"
    /\ pc' = "scheduling"
    /\ UNCHANGED <<requiresPurge, started, scheduler, created, schedulerVars,
                   store>>

\* Faulty variant of ScheduleJob: the goroutine is forgotten.
ScheduleJobUnrun ==
    /\ pc = "scheduling"
    /\ created' = created + 1
    /\ scheduler' = created'
    /\ started' = TRUE
    /\ pc' = "idle"
    /\ UNCHANGED <<requiresPurge, schedulerVars, store>>

\* AddIntervalFunc accepts the job: the goroutine is spawned and Start returns.
ScheduleJob ==
    /\ pc = "scheduling"
    /\ created' = created + 1
    /\ scheduler' = created'
    /\ runner' = [runner EXCEPT ![created'] = "live"]
    /\ started' = TRUE
    /\ pc' = "idle"
    /\ UNCHANGED <<requiresPurge, purging, asked, ctxDone, paused, done, store>>

\* AddIntervalFunc refuses it (say, a negative PurgeDuration).
ScheduleJobFails ==
    /\ pc = "scheduling"
    /\ store' = "closed"
    /\ pc' = "idle"
    /\ UNCHANGED <<requiresPurge, started, scheduler, created, schedulerVars>>

----------------------------------------------------------------------------
(* Stop.                                                                   *)

\* scheduler.Stop(ctx) is called at once if there is a scheduler.
StopCall ==
    /\ pc = "idle"
    /\ IF scheduler = None
       THEN pc' = "closing" /\ UNCHANGED asked
       ELSE /\ pc' = "halting"
            /\ asked' = [asked EXCEPT ![scheduler] = TRUE]
    /\ UNCHANGED <<requiresPurge, started, scheduler, created, runner, purging,
                   ctxDone, paused, done, store>>

\* Stop's context is done before the job: the scheduler's is cancelled.
HaltTimesOut ==
    /\ pc = "halting"
    /\ ctxDone' = [ctxDone EXCEPT ![scheduler] = TRUE]
    /\ pc' = "idle"
    /\ UNCHANGED <<requiresPurge, started, scheduler, created, runner, purging,
                   asked, paused, done, store>>

\* Faulty variant of Halted: Stop does not wait for what Run returns.
HaltedNoWait ==
    /\ pc = "halting"
    /\ ctxDone' = [ctxDone EXCEPT ![scheduler] = TRUE]
    /\ scheduler' = None
    /\ pc' = "closing"
    /\ UNCHANGED <<requiresPurge, started, created, runner, purging, asked,
                   paused, done, store>>

Halted ==
    /\ pc = "halting"
    /\ ~purging[scheduler]
    /\ ctxDone' = [ctxDone EXCEPT ![scheduler] = TRUE]
    /\ pc' = "draining"
    /\ UNCHANGED <<requiresPurge, started, scheduler, created, runner, purging,
                   asked, paused, done, store>>

\* The result of Run was nil: the three scheduler fields are cleared.
Drained ==
    /\ pc = "draining"
    /\ done[scheduler] = "nil"
    /\ done' = [done EXCEPT ![scheduler] = "taken"]
    /\ scheduler' = None
    /\ pc' = "closing"
    /\ UNCHANGED <<requiresPurge, started, created, runner, purging, asked,
                   ctxDone, paused, store>>

\* The result was an error: Stop returns it and leaves the fields as they are.
DrainedError ==
    /\ pc = "draining"
    /\ done[scheduler] = "error"
    /\ done' = [done EXCEPT ![scheduler] = "taken"]
    /\ pc' = "idle"
    /\ UNCHANGED <<requiresPurge, started, scheduler, created, runner, purging,
                   asked, ctxDone, paused, store>>

\* Faulty variant of StoreStops: started is not reset.
StoreStopsOnly ==
    /\ pc = "closing"
    /\ store' = "closed"
    /\ pc' = "idle"
    /\ UNCHANGED <<requiresPurge, started, scheduler, created, schedulerVars>>

\* Store.Stop; whatever it returns, the engine is not started any more.
StoreStops ==
    /\ pc = "closing"
    /\ store' = "closed"
    /\ started' = FALSE
    /\ pc' = "idle"
    /\ UNCHANGED <<requiresPurge, scheduler, created, schedulerVars>>

----------------------------------------------------------------------------
(* Pause and Resume, and the owner of the context given to Start.          *)

Pause ==
    /\ scheduler # None
    /\ paused' = [paused EXCEPT ![scheduler] = TRUE]
    /\ UNCHANGED <<requiresPurge, started, scheduler, created, runner, purging,
                   asked, ctxDone, done, store, pc>>

Resume ==
    /\ scheduler # None
    /\ paused' = [paused EXCEPT ![scheduler] = FALSE]
    /\ UNCHANGED <<requiresPurge, started, scheduler, created, runner, purging,
                   asked, ctxDone, done, store, pc>>

ParentCancelled(k) ==
    /\ runner[k] = "live"
    /\ ctxDone' = [ctxDone EXCEPT ![k] = TRUE]
    /\ UNCHANGED <<requiresPurge, started, scheduler, created, runner, purging,
                   asked, paused, done, store, pc>>

----------------------------------------------------------------------------
(* The scheduler's goroutine.                                              *)

Dispatch(k) ==
    /\ runner[k] = "live"
    /\ ~purging[k] /\ ~asked[k] /\ ~ctxDone[k] /\ ~paused[k]
    /\ purging' = [purging EXCEPT ![k] = TRUE]
    /\ UNCHANGED <<requiresPurge, started, scheduler, created, runner, asked,
                   ctxDone, paused, done, store, pc>>

\* The job's error, if any, goes to the log.
PurgeEnds(k) ==
    /\ purging[k]
    /\ purging' = [purging EXCEPT ![k] = FALSE]
    /\ UNCHANGED <<requiresPurge, started, scheduler, created, runner, asked,
                   ctxDone, paused, done, store, pc>>

\* Faulty variant of RunReturns: a context that is done ends the goroutine
\* before it sends its result.
RunReturnsSilently(k) ==
    /\ runner[k] = "live"
    /\ ~purging[k]
    /\ runner' = [runner EXCEPT ![k] = "returned"]
    /\ \/ asked[k] /\ done' = [done EXCEPT ![k] = "nil"]
       \/ ctxDone[k] /\ UNCHANGED done
    /\ UNCHANGED <<requiresPurge, started, scheduler, created, purging, asked,
                   ctxDone, paused, store, pc>>

\* Run returns and its result goes into the buffered channel.
RunReturns(k) ==
    /\ runner[k] = "live"
    /\ ~purging[k]
    /\ runner' = [runner EXCEPT ![k] = "returned"]
    /\ \/ asked[k] /\ done' = [done EXCEPT ![k] = "nil"]
       \/ ctxDone[k] /\ done' = [done EXCEPT ![k] = "error"]
    /\ UNCHANGED <<requiresPurge, started, scheduler, created, purging, asked,
                   ctxDone, paused, store, pc>>

----------------------------------------------------------------------------

StartStep ==
    \/ StartCall \/ StartRefused \/ StoreStarts \/ StoreStartFails
    \/ FirstPurge \/ ScheduleJob \/ ScheduleJobFails

StopStep ==
    \/ StopCall \/ HaltTimesOut \/ Halted
    \/ Drained \/ DrainedError \/ StoreStops

SchedulerStep(k) == Dispatch(k) \/ PurgeEnds(k) \/ RunReturns(k)

Next ==
    \/ StartStep \/ StopStep \/ Pause \/ Resume
    \/ \E k \in Schedulers : SchedulerStep(k) \/ ParentCancelled(k)

Spec == Init /\ [][Next]_vars

(* A call of Start or Stop goes on as far as it can, a purge ends, and Run *)
(* returns when it may.                                                    *)
Fairness ==
    /\ WF_vars(pc # "idle" /\ (StartStep \/ StopStep))
    /\ \A k \in Schedulers : WF_vars(PurgeEnds(k)) /\ WF_vars(RunReturns(k))

FairSpec == Spec /\ Fairness

----------------------------------------------------------------------------
(* Properties.                                                             *)

Places == {"idle", "opening", "firstPurge", "scheduling", "halting",
           "draining", "closing"}

(* The variables keep their types, and only a scheduler that was created   *)
(* has a goroutine, runs a job or has delivered a result.                  *)
TypeOK ==
    /\ requiresPurge \in BOOLEAN
    /\ started \in BOOLEAN
    /\ scheduler \in Schedulers \cup {None}
    /\ created \in 0 .. MaxStarts
    /\ runner \in [Schedulers -> {"none", "live", "returned"}]
    /\ purging \in [Schedulers -> BOOLEAN]
    /\ asked \in [Schedulers -> BOOLEAN]
    /\ ctxDone \in [Schedulers -> BOOLEAN]
    /\ paused \in [Schedulers -> BOOLEAN]
    /\ done \in [Schedulers -> {"empty", "nil", "error", "taken"}]
    /\ store \in {"open", "closed"}
    /\ pc \in Places
    /\ scheduler <= created
    /\ \A k \in Schedulers : k > created <=> runner[k] = "none"

(* However often Start and Stop are called and whatever of them fails,     *)
(* there is never more than one purge goroutine, and it is the engine's    *)
(* current one: none is left running by a Stop that returned.              *)
OnePurger ==
    \A k \in Schedulers : runner[k] = "live" => k = scheduler

(* No purge job runs on a store that was never started or that Stop has    *)
(* released.                                                               *)
PurgesOpenStore ==
    \A k \in Schedulers : purging[k] => store = "open"

(* An engine that says it is started has an open store and, if the store   *)
(* requires it, a scheduler at work, unless a context was cancelled or a   *)
(* Stop failed on the way.                                                 *)
StartedIsAtWork ==
    (started /\ pc = "idle") =>
        /\ store = "open"
        /\ requiresPurge =>
              /\ scheduler # None
              /\ \/ runner[scheduler] = "live"
                 \/ asked[scheduler]
                 \/ ctxDone[scheduler]

\* Stop has already taken the result of Run, which was an error, from
\* schedulerDone, and left the scheduler in place: nobody sends a second
\* result, and a Stop that comes to wait for one waits for ever.
ResultIsGone == scheduler # None /\ done[scheduler] = "taken"

(* Stop never waits for a result that cannot come: unless an earlier one    *)
(* returned Run's error, the scheduler it waits for has been asked to stop  *)
(* and is alive, or has left the result it returned with in schedulerDone.  *)
(* This is why StopReturns holds.                                           *)
ResultIsComing ==
    (pc \in {"halting", "draining"} /\ ~ResultIsGone) =>
        \/ runner[scheduler] = "live" /\ asked[scheduler]
        \/ done[scheduler] \in {"nil", "error"}

(* A call of Stop returns, unless an earlier one returned Run's error:      *)
(* "Stop releases any resources held by the engine and performs cleanup     *)
(* using the provided context" (session/store.go:227-228).                  *)
StopReturns ==
    (pc \in {"halting", "draining", "closing"} /\ ~ResultIsGone) ~> pc = "idle"
===============================================================================
