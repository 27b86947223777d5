--------------------------- MODULE TestRunnerProofs ---------------------------
(***************************************************************************)
(* Theorems about TestRunner, for any methods, verbs and paths and headers *)
(* of any size: what is set lasts as long as the test asked for, and the   *)
(* method comes back.                                                      *)
(***************************************************************************)
EXTENDS TestRunner, TLAPS

TypeInv ==
    /\ set \in Entries
    /\ unread \in BOOLEAN
    /\ clear \in SUBSET Settings
    /\ method \in Methods
    /\ path \in Paths
    /\ values \in BOOLEAN
    /\ handler \in BOOLEAN
    /\ pc \in {"idle", "running", "resetting", "restoring"}
    /\ previous \in {NoMethod} \cup Methods

\* The runner has what the test wants of it, and will clear what it is due to;
\* a body that is unread is one that was set.
AsWanted ==
    /\ set = wanted
    /\ clear = marked
    /\ unread => set["body"] = 1

\* A request is there only while its run is not reset, and was made from the
\* settings, which no step changes until then.
RequestIsMade ==
    request # NoRequest =>
        /\ pc = "resetting"
        /\ request.header = set["header"]
        /\ request.by = "function" <=> set["handlerFunc"] = 1
        /\ request.body => set["body"] = 1

\* The method to come back to is at hand for as long as a call is in progress.
MethodIsKept ==
    /\ pc = "idle" => previous = NoMethod
    /\ pc = "restoring" => previous # NoMethod
    /\ pc # "idle" => before = IF previous = NoMethod THEN method ELSE previous

RunnerInv == TypeInv /\ AsWanted /\ RequestIsMade /\ MethodIsKept

(***************************************************************************)
(* Lemmas about the operators.                                             *)
(***************************************************************************)
LEMMA EntriesTyped ==
    /\ Nothing \in Entries
    /\ \A e \in Entries, x \in Settings :
           (x = "header" => e[x] < MaxEntries) =>
               /\ Add(e, x) \in Entries
               /\ e["body"] = 1 => Add(e, x)["body"] = 1
               /\ x = "body" => Add(e, x)["body"] = 1
<1>1. MaxEntries \in Nat /\ 1 \in 0..MaxEntries
  BY RunnerAssumption
<1>2. Nothing \in Entries
  BY <1>1 DEF Nothing, Entries
<1>3. ASSUME NEW e \in Entries, NEW x \in Settings, x = "header" => e[x] < MaxEntries
      PROVE  /\ Add(e, x) \in Entries
             /\ e["body"] = 1 => Add(e, x)["body"] = 1
             /\ x = "body" => Add(e, x)["body"] = 1
  <2>1. e[x] \in 0..MaxEntries
    BY DEF Entries
  <2>2. (IF x = "header" THEN e[x] + 1 ELSE 1) \in 0..MaxEntries
    BY <1>1, <1>3, <2>1
  <2> QED
    BY <2>2 DEF Add, Entries, Settings
<1> QED
  BY <1>2, <1>3

\* What Reset leaves of the settings.
Cleared(entries, due) == [x \in Settings |-> IF x \in due THEN 0 ELSE entries[x]]

LEMMA ClearedTyped ==
    ASSUME NEW e \in Entries, NEW due
    PROVE  /\ Cleared(e, due) \in Entries
           /\ "body" \notin due => Cleared(e, due)["body"] = e["body"]
<1>1. 0 \in 0..MaxEntries
  BY RunnerAssumption
<1> QED
  BY <1>1 DEF Cleared, Entries, Settings

\* What a setting that is taken back leaves of the settings.
Without(entries, x) == [entries EXCEPT ![x] = 0]

LEMMA WithoutTyped ==
    ASSUME NEW e \in Entries, NEW x \in Settings
    PROVE  /\ Without(e, x) \in Entries
           /\ x # "body" => Without(e, x)["body"] = e["body"]
<1>1. 0 \in 0..MaxEntries
  BY RunnerAssumption
<1> QED
  BY <1>1 DEF Without, Entries, Settings

(* The request that RunMethod makes is not the one that stands for none,   *)
(* and is served by the handler function exactly if there is one.          *)
LEMMA RequestFacts ==
    /\ Request.header = set["header"]
    /\ Request.by = "function" <=> set["handlerFunc"] = 1
    /\ Request.body = unread
BY DEF Request, Server

(***************************************************************************)
(* The invariant.                                                          *)
(***************************************************************************)
LEMMA RunnerInit == Init => RunnerInv
<1> SUFFICES ASSUME Init PROVE RunnerInv
  OBVIOUS
<1>1. TypeInv
  BY RunnerAssumption, EntriesTyped DEF Init, TypeInv
<1>2. AsWanted /\ RequestIsMade /\ MethodIsKept
  BY DEF Init, AsWanted, RequestIsMade, MethodIsKept
<1> QED
  BY <1>1, <1>2 DEF RunnerInv

\* The builder methods, between runs.
Builds ==
    \/ Clear
    \/ \E x \in Settings : ClearAfter(x) \/ With(x) \/ WithNil(x)
    \/ WithHandler \/ WithValues
    \/ \E m \in Methods : WithMethod(m)
    \/ \E p \in Paths : WithPath(p)

LEMMA BuildsStep == RunnerInv /\ Builds => RunnerInv'
<1> SUFFICES ASSUME RunnerInv, Builds PROVE RunnerInv'
  OBVIOUS
<1> USE DEF RunnerInv
<1>1. pc = "idle" /\ pc' = "idle" /\ request' = request /\ previous' = previous
  BY DEF Builds, Clear, ClearAfter, With, WithNil, WithHandler, WithValues, WithMethod,
         WithPath, settings, history
<1>2. RequestIsMade'
  BY <1>1 DEF RequestIsMade
<1>3. MethodIsKept'
  BY <1>1 DEF MethodIsKept
<1>4. (TypeInv /\ AsWanted)'
  <2>1. CASE Clear
    BY <2>1, EntriesTyped DEF Clear, TypeInv, AsWanted
  <2>2. ASSUME NEW x \in Settings, ClearAfter(x)
        PROVE  (TypeInv /\ AsWanted)'
    BY <2>2 DEF ClearAfter, TypeInv, AsWanted, settings
  <2>3. ASSUME NEW x \in Settings, With(x)
        PROVE  (TypeInv /\ AsWanted)'
    <3>1. /\ Add(set, x) \in Entries
          /\ set["body"] = 1 => Add(set, x)["body"] = 1
          /\ x = "body" => Add(set, x)["body"] = 1
      BY <2>3, EntriesTyped DEF With, TypeInv
    <3> QED
      BY <2>3, <3>1 DEF With, TypeInv, AsWanted
  <2>4. CASE WithHandler
    BY <2>4 DEF WithHandler, TypeInv, AsWanted, history
  <2>5. CASE WithValues
    BY <2>5 DEF WithValues, TypeInv, AsWanted, history
  <2>6. ASSUME NEW m \in Methods, WithMethod(m)
        PROVE  (TypeInv /\ AsWanted)'
    BY <2>6 DEF WithMethod, TypeInv, AsWanted, settings, history
  <2>7. ASSUME NEW p \in Paths, WithPath(p)
        PROVE  (TypeInv /\ AsWanted)'
    BY <2>7 DEF WithPath, TypeInv, AsWanted, history
  <2>8. ASSUME NEW x \in Settings, WithNil(x)
        PROVE  (TypeInv /\ AsWanted)'
    <3>1. /\ Without(set, x) \in Entries
          /\ x # "body" => Without(set, x)["body"] = set["body"]
      BY WithoutTyped DEF TypeInv
    <3>2. set' = Without(set, x) /\ wanted' = Without(wanted, x)
      BY <2>8 DEF WithNil, Without
    <3> QED
      BY <2>8, <3>1, <3>2 DEF WithNil, TypeInv, AsWanted
  <2> QED
    BY <2>1, <2>2, <2>3, <2>4, <2>5, <2>6, <2>7, <2>8 DEF Builds
<1> QED
  BY <1>2, <1>3, <1>4

LEMMA RunnerStep == RunnerInv /\ [Next]_vars => RunnerInv'
<1> SUFFICES ASSUME RunnerInv, [Next]_vars PROVE RunnerInv'
  OBVIOUS
<1>1. CASE Builds
  BY <1>1, BuildsStep
<1>2. CASE RunCall
  <2>1. TypeInv' /\ AsWanted'
    BY <1>2 DEF RunCall, RunnerInv, TypeInv, AsWanted, settings
  <2>2. RequestIsMade' /\ MethodIsKept'
    BY <1>2 DEF RunCall, RunnerInv, RequestIsMade, MethodIsKept, settings
  <2> QED
    BY <2>1, <2>2 DEF RunnerInv
<1>3. ASSUME NEW verb \in Verbs, VerbCall(verb)
      PROVE  RunnerInv'
  <2>1. verb \in Methods /\ method \in Methods /\ method # NoMethod
    BY RunnerAssumption DEF RunnerInv, TypeInv
  <2>2. TypeInv' /\ AsWanted'
    BY <1>3, <2>1 DEF VerbCall, RunnerInv, TypeInv, AsWanted, settings
  <2>3. RequestIsMade' /\ MethodIsKept'
    BY <1>3, <2>1 DEF VerbCall, RunnerInv, RequestIsMade, MethodIsKept, settings
  <2> QED
    BY <2>2, <2>3 DEF RunnerInv
<1>4. CASE RunMethod
  <2>1. TypeInv' /\ AsWanted'
    BY <1>4 DEF RunMethod, RunnerInv, TypeInv, AsWanted, history
  <2>2. request' = Request /\ pc' = "resetting" /\ set' = set
    BY <1>4 DEF RunMethod
  <2>3. RequestIsMade'
    BY <2>2, RequestFacts DEF RunnerInv, AsWanted, RequestIsMade
  <2>4. MethodIsKept'
    BY <1>4 DEF RunMethod, RunnerInv, MethodIsKept, history
  <2> QED
    BY <2>1, <2>3, <2>4 DEF RunnerInv
<1>5. CASE RunFails
  <2>1. unread' \in BOOLEAN /\ (unread' => unread)
    <3>1. unread' = unread \/ unread' = FALSE
      BY <1>5 DEF RunFails
    <3>2. unread \in BOOLEAN
      BY DEF RunnerInv, TypeInv
    <3>3. CASE unread' = unread
      BY <3>2, <3>3
    <3>4. CASE unread' = FALSE
      BY <3>4
    <3> QED
      BY <3>1, <3>3, <3>4
  <2>2. /\ pc' = "resetting"
        /\ UNCHANGED <<set, clear, method, path, values, handler, previous, wanted, marked>>
    BY <1>5 DEF RunFails, history
  <2>3. TypeInv' /\ AsWanted'
    BY <2>1, <2>2 DEF RunnerInv, TypeInv, AsWanted
  <2>4. RequestIsMade' /\ MethodIsKept'
    BY <1>5 DEF RunFails, RunnerInv, RequestIsMade, MethodIsKept, history
  <2> QED
    BY <2>3, <2>4 DEF RunnerInv
<1>6. CASE Reset
  <2>1. set' = Cleared(set, clear) /\ wanted' = Cleared(wanted, marked)
    BY <1>6 DEF Reset, EndRun, Cleared
  <2>2. /\ Cleared(set, clear) \in Entries
        /\ "body" \notin clear => Cleared(set, clear)["body"] = set["body"]
    BY ClearedTyped DEF RunnerInv, TypeInv
  <2>3. TypeInv' /\ AsWanted'
    BY <1>6, <2>1, <2>2 DEF Reset, EndRun, RunnerInv, TypeInv, AsWanted
  <2>4. RequestIsMade' /\ MethodIsKept'
    BY <1>6 DEF Reset, EndRun, RunnerInv, RequestIsMade, MethodIsKept
  <2> QED
    BY <2>3, <2>4 DEF RunnerInv
<1>7. CASE ResetMethod
  <2>1. previous \in Methods
    BY <1>7 DEF ResetMethod, RunnerInv, TypeInv, MethodIsKept
  <2>2. TypeInv' /\ AsWanted'
    BY <1>7, <2>1 DEF ResetMethod, RunnerInv, TypeInv, AsWanted, settings, history
  <2>3. RequestIsMade' /\ MethodIsKept'
    BY <1>7 DEF ResetMethod, RunnerInv, RequestIsMade, MethodIsKept, settings
  <2> QED
    BY <2>2, <2>3 DEF RunnerInv
<1>8. CASE UNCHANGED vars
  BY <1>8 DEF vars, RunnerInv, TypeInv, AsWanted, RequestIsMade, MethodIsKept
<1> QED
  BY <1>1, <1>2, <1>3, <1>4, <1>5, <1>6, <1>7, <1>8 DEF Next, Builds

THEOREM RunnerInvariant == Spec => []RunnerInv
BY RunnerInit, RunnerStep, PTL DEF Spec

(***************************************************************************)
(* The theorems.                                                           *)
(***************************************************************************)
(* A setting is in every request from when it is made until it is due to   *)
(* be cleared, and in none after that, whether or not the runs succeed.    *)
THEOREM SettingsLastAsMarkedHolds == Spec => []SettingsLastAsMarked
<1>1. RunnerInv => SettingsLastAsMarked
  BY DEF RunnerInv, AsWanted, RequestIsMade, SettingsLastAsMarked
<1> QED
  BY <1>1, RunnerInvariant, PTL

(* Whatever the method was when a call began, it is that again when the    *)
(* call is over.                                                           *)
THEOREM MethodIsRestoredHolds == Spec => MethodIsRestored
<1>1. RunnerInv /\ [Next]_vars =>
          [(pc # "idle" /\ pc' = "idle") => method' = before]_vars
  <2> SUFFICES ASSUME RunnerInv, Next, pc # "idle", pc' = "idle"
               PROVE  method' = before
    OBVIOUS
  <2>1. CASE Reset
    BY <2>1 DEF Reset, EndRun, RunnerInv, MethodIsKept
  <2>2. CASE ResetMethod
    BY <2>2 DEF ResetMethod, RunnerInv, MethodIsKept
  <2>3. ~Builds
    BY DEF Builds, Clear, ClearAfter, With, WithNil, WithHandler, WithValues, WithMethod,
           WithPath
  <2>4. ~RunCall /\ ~RunMethod /\ ~RunFails /\ \A verb \in Verbs : ~VerbCall(verb)
    BY DEF RunCall, RunMethod, RunFails, VerbCall
  <2> QED
    BY <2>1, <2>2, <2>3, <2>4 DEF Next, Builds
<1> QED
  BY <1>1, RunnerInvariant, PTL DEF Spec, MethodIsRestored
===============================================================================
