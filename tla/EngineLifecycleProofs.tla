------------------------- MODULE EngineLifecycleProofs -------------------------
(***************************************************************************)
(* Theorems about the engine's lifecycle, for any number of starts, with   *)
(* every call inside Start and Stop failing or timing out.                 *)
(***************************************************************************)
EXTENDS EngineLifecycle, TLAPS

USE StartsAssumption

\* Where the owner may be, given the engine's fields and the store.
OwnerInv ==
    /\ scheduler # None => started
    /\ started => store = "open"
    /\ pc \in {"opening", "firstPurge", "scheduling"} => ~started /\ created < MaxStarts
    /\ pc \in {"firstPurge", "scheduling"} => store = "open"
    /\ pc \in {"halting", "draining"} => scheduler # None /\ asked[scheduler]
    /\ pc = "closing" => scheduler = None
    /\ (started /\ requiresPurge /\ pc # "closing") => scheduler # None

\* How far a scheduler is: alive it is the current one and has sent nothing;
\* once it has returned, somebody had asked it to and it sent its result.
SchedulerInv(k) ==
    /\ purging[k] => runner[k] = "live"
    /\ runner[k] = "live" => k = scheduler
    /\ runner[k] # "returned" => done[k] = "empty"
    /\ runner[k] = "returned" => done[k] # "empty" /\ (asked[k] \/ ctxDone[k])

SchedulersInv == \A k \in Schedulers : SchedulerInv(k)

EngineInv == TypeOK /\ OwnerInv /\ SchedulersInv

(***************************************************************************)
(* Type correctness.                                                       *)
(***************************************************************************)
LEMMA TypeInit == Init => TypeOK
<1> SUFFICES ASSUME Init PROVE TypeOK
  OBVIOUS
<1>1. created \in 0 .. MaxStarts /\ scheduler <= created /\ scheduler = None
  BY DEF Init, None
<1>2. \A k \in Schedulers : k > created <=> runner[k] = "none"
  BY DEF Init, Schedulers
<1>3. /\ purging \in [Schedulers -> BOOLEAN]
      /\ asked \in [Schedulers -> BOOLEAN]
      /\ ctxDone \in [Schedulers -> BOOLEAN]
      /\ paused \in [Schedulers -> BOOLEAN]
  BY DEF Init
<1>4. /\ runner \in [Schedulers -> {"none", "live", "returned"}]
      /\ done \in [Schedulers -> {"empty", "nil", "error", "taken"}]
  BY DEF Init
<1> QED
  BY <1>1, <1>2, <1>3, <1>4 DEF Init, TypeOK, Places

LEMMA CurrentIsAScheduler ==
    ASSUME TypeOK, scheduler # None
    PROVE  scheduler \in Schedulers
BY DEF TypeOK

LEMMA NextScheduler ==
    ASSUME TypeOK, created < MaxStarts
    PROVE  /\ created + 1 \in Schedulers
           /\ created + 1 \in 0 .. MaxStarts
           /\ created + 1 # None
           /\ \A k \in Schedulers : k > created + 1 <=> (k > created /\ k # created + 1)
BY DEF TypeOK, Schedulers, None

LEMMA TypeStep ==
    ASSUME TypeOK, OwnerInv, [Next]_vars
    PROVE  TypeOK'
<1>1. CASE StartCall \/ StoreStarts \/ StoreStartFails \/ FirstPurge
           \/ ScheduleJobFails \/ StoreStops
  BY <1>1 DEF StartCall, StoreStarts, StoreStartFails, FirstPurge, ScheduleJobFails,
              StoreStops, schedulerVars, TypeOK, Places
<1>2. CASE StartRefused \/ UNCHANGED vars
  BY <1>2 DEF StartRefused, vars, schedulerVars, TypeOK
<1>3. CASE ScheduleJob
  <2>1. created < MaxStarts
    BY <1>3 DEF ScheduleJob, OwnerInv
  <2>2. created' \in Schedulers /\ created' = created + 1 /\ created' \in 0 .. MaxStarts
    BY <1>3, <2>1, NextScheduler DEF ScheduleJob
  <2>3. runner' \in [Schedulers -> {"none", "live", "returned"}]
    BY <1>3, <2>2 DEF ScheduleJob, TypeOK
  <2>4. \A k \in Schedulers : k > created' <=> runner'[k] = "none"
    BY <1>3, <2>1, <2>2, NextScheduler DEF ScheduleJob, TypeOK
  <2>5. scheduler' \in Schedulers \cup {None} /\ scheduler' <= created'
    BY <1>3, <2>2 DEF ScheduleJob, Schedulers
  <2> QED
    BY <1>3, <2>2, <2>3, <2>4, <2>5 DEF ScheduleJob, TypeOK, Places
<1>4. CASE StopCall
  <2>1. asked' \in [Schedulers -> BOOLEAN]
    BY <1>4 DEF StopCall, TypeOK
  <2> QED
    BY <1>4, <2>1 DEF StopCall, TypeOK, Places
<1>5. CASE HaltTimesOut \/ Halted
  <2>1. ctxDone' \in [Schedulers -> BOOLEAN]
    BY <1>5 DEF HaltTimesOut, Halted, TypeOK
  <2> QED
    BY <1>5, <2>1 DEF HaltTimesOut, Halted, TypeOK, Places
<1>6. CASE Drained
  <2>1. done' \in [Schedulers -> {"empty", "nil", "error", "taken"}]
    BY <1>6 DEF Drained, TypeOK
  <2>2. None <= created
    BY DEF TypeOK, None
  <2> QED
    BY <1>6, <2>1, <2>2 DEF Drained, TypeOK, Places
<1>7. CASE DrainedError
  BY <1>7 DEF DrainedError, TypeOK, Places
<1>8. CASE Pause \/ Resume
  <2>1. paused' \in [Schedulers -> BOOLEAN]
    BY <1>8 DEF Pause, Resume, TypeOK
  <2> QED
    BY <1>8, <2>1 DEF Pause, Resume, TypeOK
<1>9. ASSUME NEW k \in Schedulers, ParentCancelled(k)
      PROVE  TypeOK'
  <2>1. ctxDone' \in [Schedulers -> BOOLEAN]
    BY <1>9 DEF ParentCancelled, TypeOK
  <2> QED
    BY <1>9, <2>1 DEF ParentCancelled, TypeOK
<1>10. ASSUME NEW k \in Schedulers, Dispatch(k) \/ PurgeEnds(k)
       PROVE  TypeOK'
  <2>1. purging' \in [Schedulers -> BOOLEAN]
    BY <1>10 DEF Dispatch, PurgeEnds, TypeOK
  <2> QED
    BY <1>10, <2>1 DEF Dispatch, PurgeEnds, TypeOK
<1>11. ASSUME NEW k \in Schedulers, RunReturns(k)
       PROVE  TypeOK'
  <2>1. runner' \in [Schedulers -> {"none", "live", "returned"}]
    BY <1>11 DEF RunReturns, TypeOK
  <2>2. done' \in [Schedulers -> {"empty", "nil", "error", "taken"}]
    BY <1>11 DEF RunReturns, TypeOK
  <2>3. \A j \in Schedulers : j > created <=> runner'[j] = "none"
    BY <1>11 DEF RunReturns, TypeOK
  <2> QED
    BY <1>11, <2>1, <2>2, <2>3 DEF RunReturns, TypeOK
<1> QED
  BY <1>1, <1>2, <1>3, <1>4, <1>5, <1>6, <1>7, <1>8, <1>9, <1>10, <1>11
  DEF Next, StartStep, StopStep, SchedulerStep

(***************************************************************************)
(* The owner.  Only Start and Stop change the fields of the engine.        *)
(***************************************************************************)
LEMMA OwnerStep ==
    ASSUME TypeOK, OwnerInv, [Next]_vars
    PROVE  OwnerInv'
<1>1. CASE StartCall \/ StoreStarts \/ StoreStartFails \/ FirstPurge
           \/ ScheduleJobFails \/ StoreStops
  BY <1>1 DEF StartCall, StoreStarts, StoreStartFails, FirstPurge, ScheduleJobFails,
              StoreStops, schedulerVars, OwnerInv
<1>2. CASE StartRefused \/ UNCHANGED vars
  BY <1>2 DEF StartRefused, vars, schedulerVars, OwnerInv
<1>3. CASE ScheduleJob
  <2>1. created' # None
    BY <1>3, NextScheduler DEF ScheduleJob, OwnerInv
  <2> QED
    BY <1>3, <2>1 DEF ScheduleJob, OwnerInv
<1>4. CASE StopCall
  <2>1. scheduler # None => asked'[scheduler]
    BY <1>4, CurrentIsAScheduler DEF StopCall, TypeOK
  <2> QED
    BY <1>4, <2>1 DEF StopCall, OwnerInv
<1>5. CASE HaltTimesOut \/ Halted \/ Drained \/ DrainedError
  BY <1>5 DEF HaltTimesOut, Halted, Drained, DrainedError, OwnerInv
<1>6. CASE Pause \/ Resume \/ \E k \in Schedulers : SchedulerStep(k) \/ ParentCancelled(k)
  BY <1>6 DEF Pause, Resume, SchedulerStep, Dispatch, PurgeEnds, RunReturns,
              ParentCancelled, OwnerInv
<1> QED
  BY <1>1, <1>2, <1>3, <1>4, <1>5, <1>6 DEF Next, StartStep, StopStep

(***************************************************************************)
(* The schedulers.                                                         *)
(***************************************************************************)
LEMMA SchedulersStep ==
    ASSUME TypeOK, OwnerInv, SchedulersInv, [Next]_vars
    PROVE  SchedulersInv'
<1> SUFFICES ASSUME NEW k \in Schedulers
             PROVE  SchedulerInv(k)'
  BY DEF SchedulersInv
<1> USE DEF SchedulersInv, SchedulerInv
<1>1. CASE StartCall \/ StoreStarts \/ StoreStartFails \/ FirstPurge
           \/ ScheduleJobFails \/ StoreStops
  BY <1>1 DEF StartCall, StoreStarts, StoreStartFails, FirstPurge, ScheduleJobFails,
              StoreStops, schedulerVars
<1>2. CASE StartRefused \/ UNCHANGED vars
  BY <1>2 DEF StartRefused, vars, schedulerVars
<1>3. CASE ScheduleJob
  <2>1. created < MaxStarts /\ scheduler = None
    BY <1>3 DEF ScheduleJob, OwnerInv
  <2>2. created' = created + 1 /\ created' \in Schedulers /\ k # None
    BY <1>3, <2>1, NextScheduler DEF ScheduleJob, Schedulers, None
  <2>3. runner[k] # "live" /\ ~purging[k]
    BY <2>1, <2>2
  <2>4. CASE k = created'
    <3>1. k > created /\ runner[k] = "none"
      BY <2>2, <2>4 DEF TypeOK, Schedulers
    <3>2. runner'[k] = "live" /\ scheduler' = k
      BY <1>3, <2>4 DEF ScheduleJob, TypeOK
    <3>3. purging' = purging /\ done' = done
      BY <1>3 DEF ScheduleJob
    <3> QED
      BY <2>3, <3>1, <3>2, <3>3
  <2>5. CASE k # created'
    <3>1. runner'[k] = runner[k]
      BY <1>3, <2>5 DEF ScheduleJob, TypeOK
    <3>2. purging' = purging /\ done' = done /\ asked' = asked /\ ctxDone' = ctxDone
      BY <1>3 DEF ScheduleJob
    <3> QED
      BY <2>3, <3>1, <3>2
  <2> QED
    BY <2>4, <2>5
<1>4. CASE StopCall
  <2>1. asked[k] => asked'[k]
    BY <1>4 DEF StopCall, TypeOK
  <2> QED
    BY <1>4, <2>1 DEF StopCall
<1>5. CASE HaltTimesOut \/ Halted
  <2>1. ctxDone[k] => ctxDone'[k]
    BY <1>5 DEF HaltTimesOut, Halted, TypeOK
  <2> QED
    BY <1>5, <2>1 DEF HaltTimesOut, Halted
<1>6. CASE Drained \/ DrainedError
  <2>1. scheduler # None
    BY <1>6 DEF Drained, DrainedError, OwnerInv
  <2>2. runner[scheduler] = "returned"
    BY <1>6, <2>1, CurrentIsAScheduler DEF Drained, DrainedError
  <2>3. runner[k] # "live"
    BY <2>2
  <2>4. runner[k] # "returned" => done'[k] = done[k]
    BY <1>6, <2>2 DEF Drained, DrainedError, TypeOK
  <2>5. runner[k] = "returned" => done'[k] # "empty"
    BY <1>6 DEF Drained, DrainedError, TypeOK
  <2> QED
    BY <1>6, <2>3, <2>4, <2>5 DEF Drained, DrainedError
<1>7. CASE Pause \/ Resume
  BY <1>7 DEF Pause, Resume
<1>8. ASSUME NEW j \in Schedulers, ParentCancelled(j)
      PROVE  SchedulerInv(k)'
  <2>1. ctxDone[k] => ctxDone'[k]
    BY <1>8 DEF ParentCancelled, TypeOK
  <2> QED
    BY <1>8, <2>1 DEF ParentCancelled
<1>9. ASSUME NEW j \in Schedulers, Dispatch(j) \/ PurgeEnds(j)
      PROVE  SchedulerInv(k)'
  <2>1. purging'[k] => purging[k] \/ runner[k] = "live"
    BY <1>9 DEF Dispatch, PurgeEnds, TypeOK
  <2> QED
    BY <1>9, <2>1 DEF Dispatch, PurgeEnds
<1>10. ASSUME NEW j \in Schedulers, RunReturns(j)
       PROVE  SchedulerInv(k)'
  <2>1. CASE k = j
    <3>1. runner'[k] = "returned" /\ ~purging[k] /\ (asked[k] \/ ctxDone[k])
      BY <1>10, <2>1 DEF RunReturns, TypeOK
    <3>2. done'[k] # "empty"
      BY <1>10, <2>1 DEF RunReturns, TypeOK
    <3> QED
      BY <1>10, <3>1, <3>2 DEF RunReturns
  <2>2. CASE k # j
    <3>1. runner'[k] = runner[k] /\ done'[k] = done[k]
      BY <1>10, <2>2 DEF RunReturns, TypeOK
    <3> QED
      BY <1>10, <3>1 DEF RunReturns
  <2> QED
    BY <2>1, <2>2
<1> QED
  BY <1>1, <1>2, <1>3, <1>4, <1>5, <1>6, <1>7, <1>8, <1>9, <1>10
  DEF Next, StartStep, StopStep, SchedulerStep

(***************************************************************************)
(* The theorems.                                                           *)
(***************************************************************************)
LEMMA EngineInit == Init => EngineInv
<1> SUFFICES ASSUME Init PROVE EngineInv
  OBVIOUS
<1>1. OwnerInv
  BY DEF Init, OwnerInv
<1>2. ASSUME NEW k \in Schedulers
      PROVE  SchedulerInv(k)
  BY DEF Init, SchedulerInv
<1> QED
  BY <1>1, <1>2, TypeInit DEF EngineInv, SchedulersInv

(* However starts and stops fail, the owner, the fields of the engine and  *)
(* its schedulers are only as far as each other allow.                     *)
THEOREM EngineInvariant == Spec => []EngineInv
<1>1. EngineInv /\ [Next]_vars => EngineInv'
  BY TypeStep, OwnerStep, SchedulersStep DEF EngineInv
<1> QED
  BY <1>1, EngineInit, PTL DEF Spec

(* Variables keep their types, and a goroutine belongs to a scheduler.     *)
THEOREM TypeCorrect == Spec => []TypeOK
<1>1. EngineInv => TypeOK
  BY DEF EngineInv
<1> QED
  BY <1>1, EngineInvariant, PTL

(* There is one purge goroutine at most, the engine's current one.         *)
THEOREM OnePurgerHolds == Spec => []OnePurger
<1>1. EngineInv => OnePurger
  BY DEF EngineInv, SchedulersInv, SchedulerInv, OnePurger
<1> QED
  BY <1>1, EngineInvariant, PTL

(* A purge job finds the store open.                                       *)
THEOREM PurgesOpenStoreHolds == Spec => []PurgesOpenStore
<1>1. EngineInv => PurgesOpenStore
  <2> SUFFICES ASSUME EngineInv, NEW k \in Schedulers, purging[k]
               PROVE  store = "open"
    BY DEF PurgesOpenStore
  <2>1. k = scheduler
    BY DEF EngineInv, SchedulersInv, SchedulerInv
  <2>2. scheduler # None
    BY <2>1 DEF Schedulers, None
  <2> QED
    BY <2>2 DEF EngineInv, OwnerInv
<1> QED
  BY <1>1, EngineInvariant, PTL

(* An engine that says it is started is, up to what was cancelled.         *)
THEOREM StartedIsAtWorkHolds == Spec => []StartedIsAtWork
<1>1. EngineInv => StartedIsAtWork
  <2> SUFFICES ASSUME EngineInv, started, pc = "idle"
               PROVE  /\ store = "open"
                      /\ requiresPurge =>
                            /\ scheduler # None
                            /\ \/ runner[scheduler] = "live"
                               \/ asked[scheduler]
                               \/ ctxDone[scheduler]
    BY DEF StartedIsAtWork
  <2>1. store = "open" /\ (requiresPurge => scheduler # None)
    BY DEF EngineInv, OwnerInv
  <2>2. ASSUME scheduler # None
        PROVE  \/ runner[scheduler] = "live"
               \/ asked[scheduler]
               \/ ctxDone[scheduler]
    <3>1. scheduler \in Schedulers /\ scheduler <= created
      BY <2>2, CurrentIsAScheduler DEF EngineInv, TypeOK
    <3>2. runner[scheduler] \in {"live", "returned"}
      BY <3>1 DEF EngineInv, TypeOK, Schedulers
    <3> QED
      BY <3>1, <3>2 DEF EngineInv, SchedulersInv, SchedulerInv
  <2> QED
    BY <2>1, <2>2
<1> QED
  BY <1>1, EngineInvariant, PTL

(* Stop waits only for a goroutine that will answer or has answered.       *)
THEOREM ResultIsComingHolds == Spec => []ResultIsComing
<1>1. EngineInv => ResultIsComing
  <2> SUFFICES ASSUME EngineInv, pc \in {"halting", "draining"}, ~ResultIsGone
               PROVE  \/ runner[scheduler] = "live" /\ asked[scheduler]
                      \/ done[scheduler] \in {"nil", "error"}
    BY DEF ResultIsComing
  <2>1. scheduler # None /\ asked[scheduler]
    BY DEF EngineInv, OwnerInv
  <2>2. scheduler \in Schedulers /\ scheduler <= created
    BY <2>1, CurrentIsAScheduler DEF EngineInv, TypeOK
  <2>3. runner[scheduler] \in {"live", "returned"}
    BY <2>2 DEF EngineInv, TypeOK, Schedulers
  <2>4. CASE runner[scheduler] = "returned"
    <3>1. done[scheduler] # "empty" /\ done[scheduler] # "taken"
      BY <2>1, <2>2, <2>4 DEF EngineInv, SchedulersInv, SchedulerInv, ResultIsGone
    <3> QED
      BY <2>2, <3>1 DEF EngineInv, TypeOK
  <2> QED
    BY <2>1, <2>3, <2>4
<1> QED
  BY <1>1, EngineInvariant, PTL
===============================================================================
