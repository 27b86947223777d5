--------------------------- MODULE FileStoreProofs ---------------------------
(***************************************************************************)
(* Theorems about FileStore, for any number of goroutines, sessions and    *)
(* values and any AgeLimit, with file operations that fail or not: it      *)
(* keeps the contract of the store, crashes included.                      *)
(***************************************************************************)
EXTENDS FileStore, TLAPS

USE FileAssumption

\* What goroutine p calls is what it is doing.
CallInv(p) ==
    /\ pc[p] = "idle" <=> call[p] = NoCall
    /\ pc[p] \in {"listed", "sweeping", "removing"} => call[p].op = "purge"
    /\ pc[p] = "writing" => call[p].op = "set" /\ reply[p] = "ok"
    /\ pc[p] = "locked" => call[p].op # "purge"

\* A Set that writes finds the file it truncated, and a Purge that removes
\* finds the expired file it has looked at.
FileInv(p) ==
    /\ pc[p] = "writing" => /\ Present(file, call[p].id)
                            /\ file[call[p].id].value = Torn
    /\ pc[p] = "removing" => \E id \in Ids : /\ victim[p] = {id}
                                             /\ Present(file, id)
                                             /\ Expired(file[id])

\* Between two files, a Purge has none that it is about to remove.
VictimInv(p) == pc[p] # "removing" => victim[p] = {}

StoreInv == TypeOK /\ \A p \in Procs : CallInv(p) /\ FileInv(p) /\ VictimInv(p)

(***************************************************************************)
(* What the operations do to the directory.                                *)
(***************************************************************************)
Values == {Torn} \cup Data

Directory == [Ids -> {Absent} \cup Entry(Values)]

LEMMA AgesAreNumbers ==
    /\ 0 \in Ages
    /\ \A age \in Ages : Older(age) \in Ages
    /\ \A age \in Ages : age > AgeLimit => Older(age) > AgeLimit
BY DEF Ages, Older

LEMMA OperationsTyped ==
    ASSUME NEW st \in Directory, NEW id \in Ids
    PROVE  /\ \A v \in Values : Put(st, id, v) \in Directory
           /\ Remove(st, id) \in Directory
           /\ Present(st, id) => /\ st[id] \in Entry(Values)
                                 /\ Refresh(st, id) \in Directory
BY AgesAreNumbers DEF Put, Remove, Refresh, Present, Entry, Directory

LEMMA AgedTyped ==
    ASSUME NEW st \in Directory
    PROVE  Aged(st) \in Directory
BY AgesAreNumbers DEF Aged, Entry, Directory

LEMMA CallsTyped ==
    ASSUME NEW c \in Calls
    PROVE  /\ c.op \in {"set", "get", "exists", "touch", "delete", "purge"}
           /\ c.op # "purge" => c.id \in Ids
           /\ c.op = "set" => c.value \in Data
BY DEF Calls

\* Where goroutine p may go while the mutex stays as it is.
LEMMA MutexKept ==
    ASSUME TypeOK, NEW p \in Procs, NEW place \in Places, Goto(p, place),
           UNCHANGED <<writer, reading>>,
           \A q \in Procs \ {p} : call'[q] = call[q],
           \/ place = "finished" /\ pc[p] # "idle"
           \/ place \in {"writing", "sweeping", "removing"} /\ Writing(p)
           \/ place = "listed" /\ pc[p] = "called"
           \/ place = "called" /\ pc[p] = "idle"
    PROVE  MutexWorks'
<1>1. pc'[p] = place /\ \A q \in Procs \ {p} : pc'[q] = pc[q]
  BY DEF Goto, TypeOK
<1>2. \A q \in Procs \ {p} : Writing(q)' <=> Writing(q)
  BY <1>1 DEF Writing
<1>3. writer # Nobody => reading = {}
  BY DEF TypeOK, MutexWorks
<1>4. ASSUME writer # Nobody
      PROVE  (Writing(writer) \/ pc[writer] = "finished")'
  <2>1. writer \in Procs /\ (Writing(writer) \/ pc[writer] = "finished")
    BY <1>4 DEF TypeOK, MutexWorks
  <2>2. CASE writer = p
    BY <1>1, <2>1, <2>2 DEF Writing
  <2>3. CASE writer # p
    <3>1. pc'[writer] = pc[writer] /\ call'[writer] = call[writer]
      BY <1>1, <2>1, <2>3
    <3> QED
      BY <2>1, <3>1 DEF Writing
  <2> QED
    BY <2>2, <2>3
<1>5. ASSUME NEW q \in Procs
      PROVE  /\ Writing(q)' => writer' = q
             /\ pc'[q] = "locked" => q \in reading' \cup {writer'}
             /\ q \in reading' => pc'[q] \in {"locked", "finished"}
  <2>1. /\ Writing(q) => writer = q
        /\ pc[q] = "locked" => q \in reading \cup {writer}
        /\ q \in reading => pc[q] \in {"locked", "finished"}
    BY DEF TypeOK, MutexWorks
  <2>2. CASE q = p
    <3>1. p \in reading => ~Writing(p)
      BY <1>3, <2>1, <2>2
    <3> QED
      BY <1>1, <2>1, <2>2, <3>1 DEF Writing
  <2>3. CASE q # p
    BY <1>1, <1>2, <2>1, <2>3
  <2> QED
    BY <2>2, <2>3
<1> QED
  BY <1>3, <1>4, <1>5 DEF MutexWorks

LEMMA MutexLocked ==
    ASSUME TypeOK, NEW p \in Procs, Lock(p) \/ RLock(p)
    PROVE  MutexWorks'
<1>1. /\ writer = Nobody
      /\ ~Writing(p) /\ p \notin reading
      /\ pc'[p] \in {"locked", "sweeping"}
      /\ \A q \in Procs \ {p} : pc'[q] = pc[q]
      /\ call' = call
  BY DEF Lock, RLock, Goto, TypeOK, MutexWorks, Writing
<1>2. \A q \in Procs : ~Writing(q)
  BY <1>1 DEF TypeOK, MutexWorks
<1>3. \A q \in Procs \ {p} : ~Writing(q)'
  BY <1>1, <1>2 DEF Writing
<1>4. CASE Lock(p)
  <2>1. writer' = p /\ reading' = {} /\ reading = {}
    BY <1>4 DEF Lock
  <2>2. Writing(p)'
    BY <1>1, <1>4 DEF Lock, Goto, TypeOK, Writing, Readers
  <2>3. \A q \in Procs \ {p} : pc'[q] # "locked"
    BY <1>1, <2>1 DEF TypeOK, MutexWorks
  <2> QED
    BY <1>3, <2>1, <2>2, <2>3 DEF MutexWorks
<1>5. CASE RLock(p)
  <2>1. writer' = Nobody /\ reading' = reading \cup {p} /\ pc'[p] = "locked"
        /\ call[p].op \in Readers
    BY <1>1, <1>5 DEF RLock, Goto, TypeOK
  <2>2. ~Writing(p)'
    BY <1>1, <2>1 DEF Writing
  <2>3. \A q \in Procs : q \in reading => pc[q] \in {"locked", "finished"}
    BY DEF TypeOK, MutexWorks
  <2>4. \A q \in Procs : pc[q] = "locked" => q \in reading
    BY <1>1 DEF TypeOK, MutexWorks
  <2> QED
    BY <1>1, <1>3, <2>1, <2>2, <2>3, <2>4 DEF MutexWorks
<1> QED
  BY <1>4, <1>5

LEMMA MutexReturned ==
    ASSUME TypeOK, NEW p \in Procs, Return(p)
    PROVE  MutexWorks'
<1>1. /\ pc[p] = "finished" /\ pc'[p] = "idle"
      /\ \A q \in Procs \ {p} : pc'[q] = pc[q] /\ call'[q] = call[q]
      /\ reading' = reading \ {p}
      /\ writer' = IF writer = p THEN Nobody ELSE writer
  BY DEF Return, Goto, TypeOK
<1>2. \A q \in Procs \ {p} : Writing(q)' <=> Writing(q)
  BY <1>1 DEF Writing
<1>3. ~Writing(p)'
  BY <1>1 DEF Writing
<1>4. ASSUME writer' # Nobody
      PROVE  reading' = {} /\ (Writing(writer) \/ pc[writer] = "finished")'
  <2>1. writer' = writer /\ writer \in Procs \ {p}
    BY <1>1, <1>4 DEF TypeOK
  <2>2. reading = {} /\ (Writing(writer) \/ pc[writer] = "finished")
    BY <2>1 DEF TypeOK, MutexWorks
  <2>3. pc'[writer] = pc[writer] /\ call'[writer] = call[writer]
    BY <1>1, <2>1
  <2> QED
    BY <1>1, <2>1, <2>2, <2>3 DEF Writing
<1>5. ASSUME NEW q \in Procs
      PROVE  /\ Writing(q)' => writer' = q
             /\ pc'[q] = "locked" => q \in reading' \cup {writer'}
             /\ q \in reading' => pc'[q] \in {"locked", "finished"}
  BY <1>1, <1>2, <1>3 DEF TypeOK, MutexWorks
<1> QED
  BY <1>4, <1>5 DEF MutexWorks

(***************************************************************************)
(* Type correctness.                                                       *)
(***************************************************************************)
Replies == {Torn, "none", "ok", "error", "not found", "yes", "no"} \cup Data

LEMMA ActiveCall ==
    ASSUME StoreInv, NEW p \in Procs, pc[p] # "idle"
    PROVE  call[p] \in Calls
BY DEF StoreInv, CallInv, TypeOK

LEMMA GotoTyped ==
    ASSUME TypeOK, NEW p \in Procs, NEW place \in Places, Goto(p, place)
    PROVE  pc' \in [Procs -> Places]
BY DEF TypeOK, Goto

LEMMA FinishTyped ==
    ASSUME TypeOK, NEW p \in Procs, NEW answer \in Replies, Finish(p, answer), pc[p] # "idle",
           UNCHANGED <<writer, reading, call>>
    PROVE  /\ pc' \in [Procs -> Places]
           /\ reply' \in [Procs -> Replies]
           /\ MutexWorks'
<1>1. Goto(p, "finished") /\ "finished" \in Places
  BY DEF Finish, Places
<1>2. reply' \in [Procs -> Replies]
  BY DEF TypeOK, Finish, Replies
<1> QED
  BY <1>1, <1>2, GotoTyped, MutexKept

LEMMA TypeInit == Init => TypeOK
BY DEF Init, TypeOK, MutexWorks, Writing, Places

LEMMA TypeStep ==
    ASSUME StoreInv, [Next]_vars
    PROVE  TypeOK'
<1> TypeOK
  BY DEF StoreInv
<1>1. ASSUME NEW p \in Procs, NEW c \in Calls, Invoke(p, c)
      PROVE  TypeOK'
  <2>1. MutexWorks'
    BY <1>1, MutexKept DEF Invoke, Places, TypeOK
  <2>2. pc' \in [Procs -> Places]
    BY <1>1, GotoTyped DEF Invoke, Places
  <2> QED
    BY <1>1, <2>1, <2>2 DEF Invoke, TypeOK
<1>2. ASSUME NEW p \in Procs, Lock(p) \/ RLock(p)
      PROVE  TypeOK'
  <2>1. pc' \in [Procs -> Places]
    BY <1>2 DEF Lock, RLock, Goto, TypeOK, Places
  <2> QED
    BY <1>2, <2>1, MutexLocked DEF Lock, RLock, TypeOK
<1>3. ASSUME NEW p \in Procs, Return(p)
      PROVE  TypeOK'
  <2>1. pc' \in [Procs -> Places]
    BY <1>3, GotoTyped DEF Return, Places
  <2> QED
    BY <1>3, <2>1, MutexReturned DEF Return, TypeOK
<1>4. ASSUME NEW p \in Procs, Truncate(p)
      PROVE  TypeOK'
  <2>1. call[p].id \in Ids
    BY <1>4, ActiveCall, CallsTyped DEF Truncate, Holds
  <2>2. file' \in Directory
    BY <1>4, <2>1, OperationsTyped DEF Truncate, TypeOK, Directory, Values
  <2>3. Writing(p) /\ "writing" \in Places
    BY <1>4 DEF Truncate, Holds, Writing, Readers, Places
  <2>4. MutexWorks' /\ pc' \in [Procs -> Places]
    BY <1>4, <2>3, MutexKept, GotoTyped DEF Truncate
  <2> QED
    BY <1>4, <2>2, <2>4 DEF Truncate, TypeOK, Directory, Values
<1>5. ASSUME NEW p \in Procs, Write(p)
      PROVE  TypeOK'
  <2>1. call[p].id \in Ids /\ call[p].value \in Data
    BY <1>5, ActiveCall, CallsTyped DEF Write, StoreInv, CallInv
  <2>2. file' \in Directory
    BY <1>5, <2>1, OperationsTyped DEF Write, TypeOK, Directory, Values
  <2> QED
    BY <1>5, <2>2, FinishTyped DEF Write, TypeOK, Directory, Values, Replies
<1>6. ASSUME NEW p \in Procs, Touch(p) \/ Delete(p)
      PROVE  TypeOK'
  <2>1. call[p].id \in Ids
    BY <1>6, ActiveCall, CallsTyped DEF Touch, Delete, Holds
  <2>2. file' \in Directory
    <3>1. file \in Directory
      BY DEF TypeOK, Directory, Values
    <3>2. /\ Remove(file, call[p].id) \in Directory
          /\ Present(file, call[p].id) => Refresh(file, call[p].id) \in Directory
      BY <2>1, <3>1, OperationsTyped
    <3> QED
      BY <1>6, <3>1, <3>2 DEF Touch, Delete
  <2>3. pc' \in [Procs -> Places] /\ reply' \in [Procs -> Replies] /\ MutexWorks'
    BY <1>6, FinishTyped DEF Touch, Delete, Holds, Replies
  <2> QED
    BY <1>6, <2>2, <2>3 DEF Touch, Delete, TypeOK, Directory, Values, Replies
<1>7. ASSUME NEW p \in Procs, Get(p)
      PROVE  TypeOK'
  <2>1. call[p].id \in Ids
    BY <1>7, ActiveCall, CallsTyped DEF Get, Holds
  <2>2. Present(file, call[p].id) => file[call[p].id].value \in Values
    BY <2>1, OperationsTyped DEF TypeOK, Directory, Values, Entry
  <2> QED
    BY <1>7, <2>2, FinishTyped DEF Get, Holds, TypeOK, Replies, Values
<1>8. ASSUME NEW p \in Procs,
             WriteFails(p) \/ Exists(p) \/ OperationFails(p) \/ ReadDirFails(p)
                \/ PurgeEnds(p)
      PROVE  TypeOK'
  <2>1. pc' \in [Procs -> Places] /\ reply' \in [Procs -> Replies] /\ MutexWorks'
    BY <1>8, FinishTyped
    DEF WriteFails, Exists, OperationFails, ReadDirFails, PurgeEnds, Holds, Replies
  <2> QED
    BY <1>8, <2>1
    DEF WriteFails, Exists, OperationFails, ReadDirFails, PurgeEnds, TypeOK, Replies
<1>9. ASSUME NEW p \in Procs, ReadDir(p)
      PROVE  TypeOK'
  <2>1. MutexWorks' /\ pc' \in [Procs -> Places]
    BY <1>9, MutexKept, GotoTyped DEF ReadDir, Places
  <2> QED
    BY <1>9, <2>1 DEF ReadDir, TypeOK
<1>10. ASSUME NEW p \in Procs, Look(p)
       PROVE  TypeOK'
  <2>1. PICK id \in listing[p] :
            /\ pc[p] = "sweeping"
            /\ listing' = [listing EXCEPT ![p] = @ \ {id}]
            /\ \/ victim' = [victim EXCEPT ![p] = {id}] /\ Goto(p, "removing")
               \/ UNCHANGED <<victim, pc>>
            /\ UNCHANGED <<file, writer, reading, call, reply>>
    BY <1>10 DEF Look
  <2>2. id \in Ids
    BY <2>1 DEF TypeOK
  <2>3. listing' \in [Procs -> SUBSET Ids] /\ victim' \in [Procs -> SUBSET Ids]
    <3>1. listing[p] \ {id} \in SUBSET Ids /\ {id} \in SUBSET Ids
      BY <2>2 DEF TypeOK
    <3>2. listing' \in [Procs -> SUBSET Ids]
      BY <2>1, <3>1 DEF TypeOK
    <3>3. victim' = victim \/ victim' = [victim EXCEPT ![p] = {id}]
      BY <2>1
    <3>4. victim' \in [Procs -> SUBSET Ids]
      BY <3>1, <3>3 DEF TypeOK
    <3> QED
      BY <3>2, <3>4
  <2>4. MutexWorks' /\ pc' \in [Procs -> Places]
    <3>1. CASE Goto(p, "removing")
      BY <2>1, <3>1, MutexKept, GotoTyped DEF Places, Writing
    <3>2. CASE UNCHANGED pc
      BY <2>1, <3>2 DEF TypeOK, MutexWorks, Writing
    <3> QED
      BY <2>1, <3>1, <3>2
  <2> QED
    BY <2>1, <2>3, <2>4 DEF TypeOK
<1>11. ASSUME NEW p \in Procs, LookFails(p) \/ RemoveFails(p)
       PROVE  TypeOK'
  <2>1. pc' \in [Procs -> Places] /\ reply' \in [Procs -> Replies] /\ MutexWorks'
    BY <1>11, FinishTyped DEF LookFails, RemoveFails, Replies
  <2>2. listing' \in [Procs -> SUBSET Ids] /\ victim' \in [Procs -> SUBSET Ids]
    BY <1>11 DEF LookFails, RemoveFails, TypeOK
  <2> QED
    BY <1>11, <2>1, <2>2 DEF LookFails, RemoveFails, TypeOK, Replies
<1>12. ASSUME NEW p \in Procs, RemoveVictim(p)
       PROVE  TypeOK'
  <2>1. MutexWorks' /\ pc' \in [Procs -> Places]
    BY <1>12, MutexKept, GotoTyped DEF RemoveVictim, Places, Writing
  <2> QED
    BY <1>12, <2>1 DEF RemoveVictim, TypeOK
<1>13. CASE Tick
  <2>1. MutexWorks'
    BY <1>13 DEF Tick, TypeOK, MutexWorks, Writing
  <2> QED
    BY <1>13, <2>1, AgedTyped DEF Tick, TypeOK, Directory, Values
<1>14. CASE Crash
  BY <1>14 DEF Crash, TypeOK, MutexWorks, Writing, Places
<1>15. CASE UNCHANGED vars
  BY <1>15 DEF vars, TypeOK, MutexWorks, Writing
<1> QED
  BY <1>1, <1>2, <1>3, <1>4, <1>5, <1>6, <1>7, <1>8, <1>9, <1>10, <1>11, <1>12, <1>13,
     <1>14, <1>15 DEF Next, Body

(***************************************************************************)
(* The invariant.                                                          *)
(***************************************************************************)
\* A step of goroutine p, of whatever operation.
Step(p) ==
    (\E c \in Calls : Invoke(p, c)) \/ Lock(p) \/ RLock(p) \/ Body(p) \/ Return(p)

\* A step of p leaves the other goroutines where they are.
LEMMA OthersStay ==
    ASSUME TypeOK, NEW p \in Procs, Step(p), NEW q \in Procs \ {p}
    PROVE  /\ pc'[q] = pc[q] /\ call'[q] = call[q] /\ reply'[q] = reply[q]
           /\ victim'[q] = victim[q] /\ listing'[q] = listing[q]
<1>1. CASE \E c \in Calls : Invoke(p, c)
  BY <1>1 DEF Invoke, Goto, TypeOK
<1>2. CASE Lock(p) \/ RLock(p) \/ Return(p)
  BY <1>2 DEF Lock, RLock, Return, Goto, TypeOK
<1>3. CASE Truncate(p) \/ Write(p) \/ WriteFails(p) \/ Get(p) \/ Exists(p) \/ Touch(p)
           \/ Delete(p) \/ OperationFails(p)
  <2>1. /\ call' = call /\ victim' = victim /\ listing' = listing
        /\ \E answer : reply' = [reply EXCEPT ![p] = answer]
    BY <1>3 DEF Truncate, Write, WriteFails, Get, Exists, Touch, Delete, OperationFails, Finish
  <2>2. \E place : Goto(p, place)
    BY <1>3 DEF Truncate, Write, WriteFails, Get, Exists, Touch, Delete, OperationFails, Finish
  <2> QED
    BY <2>1, <2>2 DEF Goto, TypeOK
<1>4. CASE ReadDir(p) \/ ReadDirFails(p) \/ LookFails(p) \/ RemoveVictim(p)
           \/ RemoveFails(p) \/ PurgeEnds(p)
  BY <1>4 DEF ReadDir, ReadDirFails, LookFails, RemoveVictim, RemoveFails, PurgeEnds,
              Finish, Goto, TypeOK
<1>5. CASE Look(p)
  BY <1>5 DEF Look, Goto, TypeOK
<1> QED
  BY <1>1, <1>2, <1>3, <1>4, <1>5 DEF Step, Body

LEMMA CallStep ==
    ASSUME StoreInv, [Next]_vars, NEW q \in Procs
    PROVE  CallInv(q)'
<1> TypeOK /\ CallInv(q)
  BY DEF StoreInv
<1>1. ASSUME NEW p \in Procs, Step(p), p # q
      PROVE  CallInv(q)'
  BY <1>1, OthersStay DEF CallInv
<1>2. CASE \E c \in Calls : Invoke(q, c)
  BY <1>2 DEF Invoke, Goto, CallInv, TypeOK
<1>3. CASE Lock(q) \/ RLock(q)
  BY <1>3 DEF Lock, RLock, Goto, CallInv, TypeOK, Readers
<1>4. CASE Return(q)
  BY <1>4 DEF Return, Goto, CallInv, TypeOK
<1>5. CASE Truncate(q)
  BY <1>5 DEF Truncate, Holds, Goto, CallInv, TypeOK
<1>6. CASE Write(q) \/ WriteFails(q) \/ Get(q) \/ Exists(q) \/ Touch(q) \/ Delete(q)
           \/ OperationFails(q) \/ ReadDirFails(q) \/ LookFails(q) \/ RemoveFails(q)
           \/ PurgeEnds(q)
  <2>1. pc[q] # "idle" /\ pc'[q] = "finished" /\ call'[q] = call[q]
    BY <1>6 DEF Write, WriteFails, Get, Exists, Touch, Delete, OperationFails, ReadDirFails,
                LookFails, RemoveFails, PurgeEnds, Holds, Finish, Goto, TypeOK
  <2> QED
    BY <2>1 DEF CallInv
<1>7. CASE ReadDir(q) \/ Look(q) \/ RemoveVictim(q)
  BY <1>7 DEF ReadDir, Look, RemoveVictim, Goto, CallInv, TypeOK
<1>8. CASE Tick \/ UNCHANGED vars
  BY <1>8 DEF Tick, vars, CallInv
<1>9. CASE Crash
  BY <1>9 DEF Crash, CallInv
<1> QED
  BY <1>1, <1>2, <1>3, <1>4, <1>5, <1>6, <1>7, <1>8, <1>9 DEF Next, Step, Body

\* Only whoever works under the mutex for writing changes a file.
LEMMA FilesStay ==
    ASSUME StoreInv, NEW p \in Procs, Step(p), ~Writing(p)
    PROVE  file' = file
BY DEF Step, Body, Invoke, Lock, RLock, Return, Truncate, Write, WriteFails, Get, Exists,
       Touch, Delete, OperationFails, ReadDir, ReadDirFails, Look, LookFails, RemoveVictim,
       RemoveFails, PurgeEnds, Holds, Writing, Readers

LEMMA FileStep ==
    ASSUME StoreInv, [Next]_vars, NEW q \in Procs
    PROVE  FileInv(q)'
<1> TypeOK /\ CallInv(q) /\ FileInv(q)
  BY DEF StoreInv
<1>1. ASSUME NEW p \in Procs, Step(p), p # q
      PROVE  FileInv(q)'
  <2>1. CASE pc[q] \in {"writing", "removing"}
    <3>1. ~Writing(p)
      BY <1>1, <2>1 DEF TypeOK, MutexWorks, Writing
    <3> QED
      BY <1>1, <3>1, FilesStay, OthersStay DEF FileInv, Present
  <2>2. CASE pc[q] \notin {"writing", "removing"}
    BY <1>1, <2>2, OthersStay DEF FileInv
  <2> QED
    BY <2>1, <2>2
<1>2. CASE Step(q) /\ pc'[q] \notin {"writing", "removing"}
  BY <1>2 DEF FileInv
<1>3. CASE Truncate(q)
  <2>1. call[q].id \in Ids /\ call' = call /\ pc'[q] = "writing"
    BY <1>3, ActiveCall, CallsTyped DEF Truncate, Holds, Goto, TypeOK
  <2>2. file'[call[q].id] = [value |-> Torn, age |-> 0]
    BY <1>3, <2>1 DEF Truncate, Put, TypeOK
  <2>3. [value |-> Torn, age |-> 0] # Absent
    BY AgesAreNumbers DEF Entry
  <2> QED
    BY <2>1, <2>2, <2>3 DEF FileInv, Present
<1>4. CASE Look(q) /\ pc'[q] \in {"writing", "removing"}
  <2>1. PICK id \in listing[q] :
            /\ pc[q] = "sweeping"
            /\ Present(file, id)
            /\ IF Expired(file[id])
               THEN victim' = [victim EXCEPT ![q] = {id}] /\ Goto(q, "removing")
               ELSE UNCHANGED <<victim, pc>>
            /\ file' = file
    BY <1>4 DEF Look
  <2>2. pc'[q] = "removing" /\ Expired(file[id]) /\ victim'[q] = {id} /\ id \in Ids
    BY <1>4, <2>1 DEF Goto, TypeOK
  <2> QED
    BY <1>4, <2>1, <2>2 DEF FileInv, Present
<1>5. CASE Step(q) /\ ~Truncate(q) /\ ~Look(q)
  <2>1. pc'[q] \notin {"writing", "removing"}
    BY <1>5 DEF Step, Body, Invoke, Lock, RLock, Return, Write, WriteFails, Get, Exists, Touch,
                Delete, OperationFails, ReadDir, ReadDirFails, LookFails, RemoveVictim,
                RemoveFails, PurgeEnds, Finish, Goto, TypeOK
  <2> QED
    BY <2>1 DEF FileInv
<1>6. CASE Tick
  <2>1. \A id \in Ids : Present(file, id) =>
            /\ Present(file, id)'
            /\ file'[id].value = file[id].value
            /\ Expired(file[id]) => Expired(file'[id])
    <3> SUFFICES ASSUME NEW id \in Ids, Present(file, id)
                 PROVE  /\ Present(file, id)'
                        /\ file'[id].value = file[id].value
                        /\ Expired(file[id]) => Expired(file'[id])
      OBVIOUS
    <3>1. file'[id] = [value |-> file[id].value, age |-> Older(file[id].age)]
      BY <1>6 DEF Tick, Aged, Present, TypeOK
    <3>2. file[id].age \in Ages /\ file[id].value \in Values
      BY DEF TypeOK, Present, Entry, Values
    <3>3. file'[id] \in Entry(Values)
      BY <3>1, <3>2, AgesAreNumbers DEF Entry
    <3>4. file'[id] # Absent
      BY <3>3 DEF Values
    <3> QED
      BY <3>1, <3>2, <3>4, AgesAreNumbers DEF Present, Expired
  <2>2. pc[q] = "writing" => call[q].id \in Ids
    BY ActiveCall, CallsTyped DEF CallInv
  <2> QED
    BY <1>6, <2>1, <2>2 DEF Tick, FileInv
<1>7. CASE Crash \/ UNCHANGED vars
  BY <1>7 DEF Crash, vars, FileInv, Present
<1> QED
  BY <1>1, <1>2, <1>3, <1>4, <1>5, <1>6, <1>7 DEF Next, Step

LEMMA VictimStep ==
    ASSUME StoreInv, [Next]_vars, NEW q \in Procs
    PROVE  VictimInv(q)'
<1> TypeOK /\ VictimInv(q)
  BY DEF StoreInv
<1>1. ASSUME NEW p \in Procs, Step(p), p # q
      PROVE  VictimInv(q)'
  BY <1>1, OthersStay DEF VictimInv
<1>2. CASE Look(q)
  <2>1. PICK id \in listing[q] :
            /\ pc[q] = "sweeping"
            /\ \/ Goto(q, "removing")
               \/ UNCHANGED <<victim, pc>>
    BY <1>2 DEF Look
  <2> QED
    BY <2>1 DEF Goto, VictimInv, TypeOK
<1>3. CASE RemoveVictim(q) \/ RemoveFails(q)
  BY <1>3 DEF RemoveVictim, RemoveFails, VictimInv, TypeOK
<1>4. CASE Step(q) /\ ~Look(q) /\ ~RemoveVictim(q) /\ ~RemoveFails(q)
  <2>1. victim' = victim /\ pc[q] # "removing"
    BY <1>4 DEF Step, Body, Invoke, Lock, RLock, Return, Truncate, Write, WriteFails, Get,
                Exists, Touch, Delete, OperationFails, ReadDir, ReadDirFails, LookFails,
                PurgeEnds, Holds
  <2> QED
    BY <2>1 DEF VictimInv
<1>5. CASE Tick \/ Crash \/ UNCHANGED vars
  BY <1>5 DEF Tick, Crash, vars, VictimInv
<1> QED
  BY <1>1, <1>2, <1>3, <1>4, <1>5 DEF Next, Step

LEMMA InvariantInit == Init => StoreInv
<1> SUFFICES ASSUME Init PROVE StoreInv
  OBVIOUS
<1>1. ASSUME NEW p \in Procs
      PROVE  CallInv(p) /\ FileInv(p) /\ VictimInv(p)
  BY DEF Init, CallInv, FileInv, VictimInv
<1> QED
  BY <1>1, TypeInit DEF StoreInv

LEMMA InvariantStep == StoreInv /\ [Next]_vars => StoreInv'
  BY TypeStep, CallStep, FileStep, VictimStep DEF StoreInv

(* Every goroutine has the mutex its operation needs, whatever fails.      *)
THEOREM StoreInvariant == Spec => []StoreInv
  BY InvariantInit, InvariantStep, PTL DEF Spec

(* Variables keep their types, and the mutex keeps writers apart from      *)
(* everybody else.                                                         *)
THEOREM TypeCorrect == Spec => []TypeOK
<1>1. StoreInv => TypeOK
  BY DEF StoreInv
<1> QED
  BY <1>1, StoreInvariant, PTL

(***************************************************************************)
(* The contract.                                                           *)
(***************************************************************************)
LEMMA StatusGoes ==
    ASSUME TypeOK, NEW p \in Procs, NEW place \in Places, Goto(p, place)
    PROVE  Status' = [Status EXCEPT ![p] = StatusOf(place)]
BY DEF TypeOK, Goto, Status

LEMMA StatusOfPlaces ==
    /\ StatusOf("idle") = "idle"
    /\ \A place \in {"called", "listed", "locked", "sweeping", "removing"} :
           StatusOf(place) = "pending"
    /\ \A place \in {"writing", "finished"} : StatusOf(place) = "effective"
BY DEF StatusOf

LEMMA WriterStays ==
    ASSUME NEW p \in Procs, Step(p)
    PROVE  writer' = writer \/ (writer \in {Nobody, p} /\ writer' \in {Nobody, p})
BY DEF Step, Body, Invoke, Lock, RLock, Return, Truncate, Write, WriteFails, Get, Exists,
       Touch, Delete, OperationFails, ReadDir, ReadDirFails, Look, LookFails, RemoveVictim,
       RemoveFails, PurgeEnds

\* As long as nobody writes, the contents are those of the files.
LEMMA ContentsAreFiles ==
    ASSUME TypeOK, writer = Nobody \/ pc[writer] # "writing"
    PROVE  Contents = file
BY DEF TypeOK, Contents

LEMMA ContentsAreFilesNext ==
    ASSUME TypeOK', writer' = Nobody \/ pc'[writer'] # "writing"
    PROVE  Contents' = file'
BY DEF TypeOK, Contents

\* Before and after a step of p that is not writing, nothing is different but
\* the files it changed.
LEMMA ContentsOfHolder ==
    ASSUME StoreInv, TypeOK', NEW p \in Procs, Step(p), pc[p] # "writing", pc'[p] # "writing",
           Writing(p) \/ p \in reading
    PROVE  Contents = file /\ Contents' = file'
<1>1. writer \in {Nobody, p}
  BY DEF StoreInv, TypeOK, MutexWorks
<1>2. writer' \in {Nobody, p}
  BY <1>1, WriterStays
<1> QED
  BY <1>1, <1>2, ContentsAreFiles, ContentsAreFilesNext DEF StoreInv

LEMMA ContentsKept ==
    ASSUME StoreInv, TypeOK', NEW p \in Procs, Step(p), pc[p] # "writing", pc'[p] # "writing",
           file' = file
    PROVE  Contents' = Contents
<1> TypeOK
  BY DEF StoreInv
<1>1. CASE writer \in {Nobody, p} /\ writer' \in {Nobody, p}
  BY <1>1, ContentsAreFiles, ContentsAreFilesNext
<1>2. CASE writer' = writer /\ writer \notin {Nobody, p}
  <2>1. writer \in Procs \ {p}
    BY <1>2 DEF TypeOK
  <2>2. pc'[writer] = pc[writer] /\ call'[writer] = call[writer]
    BY <2>1, OthersStay
  <2> QED
    BY <1>2, <2>2 DEF Contents
<1> QED
  BY <1>1, <1>2, WriterStays

\* Of two changes of one entry the second remains.
LEMMA ExceptTwice ==
    ASSUME NEW st \in Directory, NEW id \in Ids, NEW a, NEW b
    PROVE  /\ [[st EXCEPT ![id] = a] EXCEPT ![id] = b] = [st EXCEPT ![id] = b]
           /\ [[st EXCEPT ![id] = a] EXCEPT ![id] = st[id]] = st
           /\ [st EXCEPT ![id] = a][id] = a
BY DEF Directory

LEMMA ExceptAgain ==
    ASSUME NEW st \in Directory, NEW id \in Ids, NEW a, NEW b, NEW once,
           once = [st EXCEPT ![id] = a]
    PROVE  [once EXCEPT ![id] = b] = [st EXCEPT ![id] = b]
BY DEF Directory

LEMMA RefinedInit == Init => Contract!Init
<1> SUFFICES ASSUME Init PROVE Contract!Init
  OBVIOUS
<1>1. Contents = [id \in Ids |-> Absent]
  BY DEF Init, Contents
<1>2. Status = [p \in Procs |-> "idle"]
  BY StatusOfPlaces DEF Init, Status
<1> QED
  BY <1>1, <1>2 DEF Init, Contract!Init

LEMMA RefinedStep ==
    ASSUME StoreInv, [Next]_vars
    PROVE  [Contract!Next]_Contract!vars
<1> USE DEF Contract!vars
<1> TypeOK /\ TypeOK'
  BY TypeStep DEF StoreInv
<1>0. \A p \in Procs : Status[p] = StatusOf(pc[p])
  BY DEF Status
<1>1. ASSUME NEW p \in Procs, NEW c \in Calls, Invoke(p, c)
      PROVE  Contract!Invoke(p, c)
  <2>1. pc[p] = "idle" /\ pc'[p] = "called" /\ Goto(p, "called") /\ "called" \in Places
    BY <1>1 DEF Invoke, Goto, TypeOK, Places
  <2>2. Contents' = Contents
    BY <1>1, <2>1, ContentsKept DEF Invoke, Step
  <2>3. Status[p] = "idle" /\ Status' = [Status EXCEPT ![p] = "pending"]
    BY <1>0, <2>1, StatusGoes, StatusOfPlaces
  <2> QED
    BY <1>1, <2>2, <2>3 DEF Invoke, Contract!Invoke
<1>2. ASSUME NEW p \in Procs, Lock(p) \/ RLock(p) \/ ReadDir(p) \/ Look(p)
      PROVE  UNCHANGED Contract!vars
  <2>1. /\ pc[p] \in {"called", "listed", "sweeping"}
        /\ \/ \E place \in {"locked", "listed", "sweeping", "removing"} : Goto(p, place)
           \/ pc' = pc
        /\ file' = file /\ call' = call /\ reply' = reply
    BY <1>2 DEF Lock, RLock, ReadDir, Look
  <2>2. pc'[p] \in {"called", "listed", "locked", "sweeping", "removing"}
    BY <2>1 DEF Goto, TypeOK
  <2>3. Contents' = Contents
    BY <1>2, <2>1, <2>2, ContentsKept DEF Step, Body
  <2>4. Status' = Status
    <3>1. \A q \in Procs : StatusOf(pc'[q]) = StatusOf(pc[q])
      <4>1. ASSUME NEW q \in Procs, q # p
            PROVE  pc'[q] = pc[q]
        BY <1>2, <4>1, OthersStay DEF Step, Body
      <4>2. StatusOf(pc'[p]) = "pending" /\ StatusOf(pc[p]) = "pending"
        BY <2>1, <2>2, StatusOfPlaces
      <4> QED
        BY <4>1, <4>2
    <3> QED
      BY <3>1 DEF Status
  <2> QED
    BY <2>1, <2>3, <2>4
\* What every step that finishes a pending call has in common.
<1>3. ASSUME NEW p \in Procs, NEW answer, Step(p), Finish(p, answer),
             pc[p] \in {"called", "locked", "sweeping", "removing"}
      PROVE  /\ Status[p] = "pending"
             /\ Status' = [Status EXCEPT ![p] = "effective"]
             /\ reply' = [reply EXCEPT ![p] = answer]
             /\ pc'[p] = "finished"
             /\ file' = file => Contents' = Contents
             /\ Writing(p) \/ p \in reading => Contents = file /\ Contents' = file'
  <2>1. Goto(p, "finished") /\ pc'[p] = "finished" /\ "finished" \in Places
    BY <1>3 DEF Finish, Goto, TypeOK, Places
  <2>2. Status[p] = "pending" /\ Status' = [Status EXCEPT ![p] = "effective"]
    BY <1>0, <1>3, <2>1, StatusGoes, StatusOfPlaces
  <2> QED
    BY <1>3, <2>1, <2>2, ContentsKept, ContentsOfHolder DEF Finish
<1>4. ASSUME NEW p \in Procs, Get(p)
      PROVE  Contract!GetTakes(p)
  <2>1. p \in reading /\ Step(p)
    BY <1>4 DEF Get, Holds, TypeOK, MutexWorks, Writing, Readers, Step, Body
  <2> QED
    BY <1>3, <1>4, <2>1
    DEF Get, Holds, Contract!GetTakes, Contract!Takes, Contract!Present, Present
<1>5. ASSUME NEW p \in Procs, Exists(p)
      PROVE  Contract!ExistsTakes(p)
  <2>1. p \in reading /\ Step(p)
    BY <1>5 DEF Exists, Holds, TypeOK, MutexWorks, Writing, Readers, Step, Body
  <2> QED
    BY <1>3, <1>5, <2>1
    DEF Exists, Holds, Contract!ExistsTakes, Contract!Takes, Contract!Present, Present
<1>6. ASSUME NEW p \in Procs, Touch(p)
      PROVE  Contract!TouchTakes(p)
  <2>1. Writing(p) /\ Step(p)
    BY <1>6 DEF Touch, Holds, Writing, Readers, Step, Body
  <2> QED
    BY <1>3, <1>6, <2>1
    DEF Touch, Holds, Refresh, Contract!TouchTakes, Contract!Takes, Contract!Present,
        Contract!Refresh, Present
<1>7. ASSUME NEW p \in Procs, Delete(p)
      PROVE  Contract!DeleteTakes(p)
  <2>1. Writing(p) /\ Step(p)
    BY <1>7 DEF Delete, Holds, Writing, Readers, Step, Body
  <2> QED
    BY <1>3, <1>7, <2>1
    DEF Delete, Holds, Remove, Contract!DeleteTakes, Contract!Takes, Contract!Remove
<1>8. ASSUME NEW p \in Procs, PurgeEnds(p)
      PROVE  Contract!PurgeTakes(p)
  <2>1. call[p].op = "purge" /\ Step(p)
    BY <1>8 DEF PurgeEnds, StoreInv, CallInv, Step, Body
  <2> QED
    BY <1>3, <1>8, <2>1 DEF PurgeEnds, Contract!PurgeTakes, Contract!Takes
<1>9. ASSUME NEW p \in Procs,
             OperationFails(p) \/ ReadDirFails(p) \/ LookFails(p) \/ RemoveFails(p)
      PROVE  Contract!Fails(p)
  <2>1. /\ pc[p] \in {"called", "locked", "sweeping", "removing"}
        /\ Finish(p, "error") /\ file' = file /\ call' = call /\ Step(p)
    BY <1>9 DEF OperationFails, ReadDirFails, LookFails, RemoveFails, Step, Body
  <2>2. call[p].op \in {"set", "get", "exists", "touch", "delete", "purge"}
    BY <2>1, ActiveCall, CallsTyped
  <2> QED
    BY <1>3, <2>1, <2>2 DEF Contract!Fails, Contract!Takes
<1>10. ASSUME NEW p \in Procs, Return(p)
       PROVE  Contract!Respond(p)
  <2>1. pc[p] = "finished" /\ Goto(p, "idle") /\ "idle" \in Places /\ Step(p)
    BY <1>10 DEF Return, Places, Step
  <2>2. Contents' = Contents
    BY <1>10, <2>1, ContentsKept DEF Return, Goto, TypeOK
  <2>3. Status[p] = "effective" /\ Status' = [Status EXCEPT ![p] = "idle"]
    BY <1>0, <2>1, StatusGoes, StatusOfPlaces
  <2> QED
    BY <1>10, <2>2, <2>3 DEF Return, Contract!Respond
<1>11. ASSUME NEW p \in Procs, RemoveVictim(p)
       PROVE  \E id \in Ids : Contract!PurgeDrops(p, id)
  <2>1. PICK id \in Ids : victim[p] = {id} /\ Present(file, id) /\ Expired(file[id])
    BY <1>11 DEF RemoveVictim, StoreInv, FileInv
  <2>2. pc[p] = "removing" /\ Goto(p, "sweeping") /\ "sweeping" \in Places
    BY <1>11 DEF RemoveVictim, Places
  <2>3. Contents = file /\ Contents' = file'
    BY <1>11, <2>2, ContentsOfHolder DEF Step, Body, Writing, Goto, TypeOK
  <2>4. file' = [file EXCEPT ![id] = Absent]
    BY <1>11, <2>1 DEF RemoveVictim, TypeOK
  <2>5. Status[p] = "pending" /\ Status' = Status
    <3>1. Status[p] = "pending" /\ Status' = [Status EXCEPT ![p] = "pending"]
      BY <1>0, <2>2, StatusGoes, StatusOfPlaces
    <3>2. \A s : s = Status /\ s[p] = "pending" => [s EXCEPT ![p] = "pending"] = Status
      BY DEF Status
    <3> QED
      BY <3>1, <3>2
  <2>6. call[p].op = "purge"
    BY <2>2 DEF StoreInv, CallInv
  <2> QED
    BY <1>11, <2>1, <2>3, <2>4, <2>5, <2>6
    DEF RemoveVictim, Contract!PurgeDrops, Contract!Present, Contract!Expired,
        Contract!Remove, Present, Expired
<1>12. ASSUME NEW p \in Procs, Truncate(p)
       PROVE  Contract!SetTakes(p)
  <2>1. /\ pc[p] = "locked" /\ Goto(p, "writing") /\ pc'[p] = "writing"
        /\ "writing" \in Places /\ writer = p /\ writer' = p
    BY <1>12 DEF Truncate, Holds, Goto, TypeOK, MutexWorks, Writing, Readers, Places
  <2>2. call[p].id \in Ids /\ call' = call
    BY <1>12, <2>1, ActiveCall, CallsTyped DEF Truncate, Holds
  <2>3. Contents = file
    BY <2>1, ContentsAreFiles
  <2>4. Contents' = Put(file, call[p].id, call[p].value)
    <3>1. file' = [file EXCEPT ![call[p].id] = [value |-> Torn, age |-> 0]]
      BY <1>12 DEF Truncate, Put
    <3>2. file'[call[p].id].age = 0
      BY <2>2, <3>1 DEF TypeOK
    <3>3. \A id \in Ids : id # call[p].id => file'[id] = file[id]
      BY <3>1 DEF TypeOK
    <3>4. Contents' = [id \in Ids |->
                          IF call[p].id = id
                          THEN [value |-> call[p].value, age |-> 0]
                          ELSE file[id]]
      BY <2>1, <2>2, <3>2, <3>3 DEF Contents
    <3> QED
      BY <2>2, <3>4 DEF Put, TypeOK
  <2>5. Status[p] = "pending" /\ Status' = [Status EXCEPT ![p] = "effective"]
    BY <1>0, <2>1, StatusGoes, StatusOfPlaces
  <2> QED
    BY <1>12, <2>2, <2>3, <2>4, <2>5
    DEF Truncate, Holds, Put, Contract!SetTakes, Contract!Takes, Contract!Put
<1>13. ASSUME NEW p \in Procs, pc[p] = "writing"
       PROVE  /\ call[p].id \in Ids /\ call[p].op = "set" /\ reply[p] = "ok"
              /\ writer = p
              /\ file[call[p].id] \in Entry(Values) /\ file[call[p].id].value = Torn
              /\ Contents = [file EXCEPT ![call[p].id] =
                                 [value |-> call[p].value, age |-> @.age]]
              /\ Contents[call[p].id] =
                     [value |-> call[p].value, age |-> file[call[p].id].age]
              /\ Contents[call[p].id] # Absent
              /\ Status[p] = "effective"
  <2>1. call[p].op = "set" /\ reply[p] = "ok" /\ call[p] \in Calls
    BY <1>13, ActiveCall DEF StoreInv, CallInv
  <2>2. call[p].id \in Ids /\ call[p].value \in Data
    BY <2>1, CallsTyped
  <2>3. writer = p /\ p # Nobody
    BY <1>13 DEF TypeOK, MutexWorks, Writing
  <2>4. Present(file, call[p].id) /\ file[call[p].id].value = Torn
    BY <1>13 DEF StoreInv, FileInv
  <2>5. file[call[p].id] \in Entry(Values)
    BY <2>2, <2>4 DEF TypeOK, Present, Values
  <2>6. [value |-> call[p].value, age |-> file[call[p].id].age] \in Entry(Values)
    BY <2>2, <2>5 DEF Entry, Values
  <2>7. Contents = [file EXCEPT ![call[p].id] =
                       [value |-> call[p].value, age |-> @.age]]
    BY <1>13, <2>2, <2>3 DEF Contents, TypeOK
  <2>8. Contents[call[p].id] = [value |-> call[p].value, age |-> file[call[p].id].age]
    BY <1>13, <2>2, <2>3 DEF Contents
  <2>9. Contents[call[p].id] # Absent
    BY <2>6, <2>8 DEF Values
  <2>10. Status[p] = "effective"
    BY <1>0, <1>13, StatusOfPlaces
  <2> QED
    BY <2>1, <2>2, <2>3, <2>4, <2>5, <2>7, <2>8, <2>9, <2>10
<1>14. ASSUME NEW p \in Procs, pc[p] = "writing", Goto(p, "finished"), writer' = writer
       PROVE  Status' = Status /\ Contents' = file'
  <2>1. "finished" \in Places /\ pc'[p] = "finished"
    BY <1>14 DEF Places, Goto, TypeOK
  <2>2. \A q \in Procs : StatusOf(pc'[q]) = StatusOf(pc[q])
    BY <1>14, <2>1, StatusOfPlaces DEF Goto, TypeOK
  <2>3. Contents' = file'
    BY <1>13, <1>14, <2>1, ContentsAreFilesNext
  <2> QED
    BY <2>2, <2>3 DEF Status
<1>15. ASSUME NEW p \in Procs, Write(p)
       PROVE  Contract!SetRefreshes(p)
  <2>1. /\ Status' = Status /\ Contents' = Put(file, call[p].id, call[p].value)
        /\ call' = call
    BY <1>14, <1>15 DEF Write, Finish
  <2>2. Contents[call[p].id] = [value |-> call[p].value, age |-> file[call[p].id].age]
    BY <1>13, <1>15 DEF Write
  <2>3. Contents' = [Contents EXCEPT ![call[p].id] =
                        [value |-> Contents[call[p].id].value, age |-> 0]]
    <3>1. /\ Contents = [file EXCEPT ![call[p].id] =
                             [value |-> call[p].value, age |-> file[call[p].id].age]]
          /\ Contents' = [file EXCEPT ![call[p].id] = [value |-> call[p].value, age |-> 0]]
          /\ Contents[call[p].id].value = call[p].value
      BY <1>13, <1>15, <2>1, <2>2 DEF Write, Put
    <3>2. file \in Directory /\ call[p].id \in Ids
      BY <1>13, <1>15 DEF Write, TypeOK, Directory, Values
    <3>3. [Contents EXCEPT ![call[p].id] = [value |-> call[p].value, age |-> 0]]
              = [file EXCEPT ![call[p].id] = [value |-> call[p].value, age |-> 0]]
      <4> DEFINE old == [value |-> call[p].value, age |-> file[call[p].id].age]
                 new == [value |-> call[p].value, age |-> 0]
      <4>1. Contents = [file EXCEPT ![call[p].id] = old]
        BY <3>1
      <4> HIDE DEF old, new
      <4>2. [Contents EXCEPT ![call[p].id] = new] = [file EXCEPT ![call[p].id] = new]
        BY <3>2, <4>1, ExceptAgain
      <4> QED
        BY <4>2 DEF new
    <3> QED
      BY <3>1, <3>3
  <2>4. reply' = reply
    <3>1. reply' = [reply EXCEPT ![p] = "ok"] /\ reply[p] = "ok"
      BY <1>13, <1>15 DEF Write, Finish
    <3> QED
      BY <3>1 DEF TypeOK
  <2> QED
    BY <1>13, <1>15, <2>1, <2>2, <2>3, <2>4
    DEF Write, Contract!SetRefreshes, Contract!Present, Contract!Refresh
<1>16. ASSUME NEW p \in Procs, WriteFails(p)
       PROVE  Contract!SetTears(p)
  <2>1. /\ Status' = Status /\ Contents' = file /\ call' = call
        /\ reply' = [reply EXCEPT ![p] = "error"] /\ pc[p] = "writing"
    BY <1>14, <1>16 DEF WriteFails, Finish
  <2>2. Contents[call[p].id] = [value |-> call[p].value, age |-> file[call[p].id].age]
    BY <1>13, <2>1
  <2>3. file[call[p].id] = [value |-> Torn, age |-> file[call[p].id].age]
    BY <1>13, <2>1 DEF Entry
  <2>4. Contents' = [Contents EXCEPT ![call[p].id] = [value |-> Torn, age |-> @.age]]
    <3>1. /\ Contents = [file EXCEPT ![call[p].id] =
                             [value |-> call[p].value, age |-> file[call[p].id].age]]
          /\ [value |-> Torn, age |-> Contents[call[p].id].age] = file[call[p].id]
      BY <1>13, <2>1, <2>2, <2>3
    <3>2. file \in Directory /\ call[p].id \in Ids
      BY <1>13, <2>1 DEF TypeOK, Directory, Values
    <3>3. [Contents EXCEPT ![call[p].id] = file[call[p].id]] = file
      BY <3>1, <3>2, ExceptTwice
    <3> QED
      BY <2>1, <3>1, <3>3
  <2> QED
    BY <1>13, <2>1, <2>2, <2>4 DEF Contract!SetTears, Contract!Present
<1>17. CASE Tick
  <2>1. Status' = Status
    BY <1>17 DEF Tick, Status
  <2>2. file' = Aged(file) /\ pc' = pc /\ writer' = writer /\ call' = call /\ reply' = reply
    BY <1>17 DEF Tick
  <2>3. CASE writer = Nobody \/ pc[writer] # "writing"
    <3>1. Contents = file /\ Contents' = file'
      BY <2>2, <2>3, ContentsAreFiles, ContentsAreFilesNext
    <3> QED
      BY <2>1, <2>2, <3>1
      DEF Aged, Older, Contract!Next, Contract!Tick, Contract!Aged, Contract!Older
  <2>4. CASE writer # Nobody /\ pc[writer] = "writing"
    <3>1. PICK p \in Procs : p = writer /\ pc[p] = "writing"
      BY <2>4 DEF TypeOK
    <3>2. file[call[p].id] # Absent /\ DOMAIN file = Ids /\ DOMAIN Contents = Ids
      <4>1. file[call[p].id] # Absent
        BY <1>13, <3>1 DEF Values
      <4>2. DOMAIN file = Ids /\ DOMAIN Contents = Ids
        BY DEF TypeOK, Contents
      <4> QED
        BY <4>1, <4>2
    <3>3. Contents' = Aged(Contents)
      <4>1. ASSUME NEW id \in Ids
            PROVE  Contents'[id] = Aged(Contents)[id]
        <5>1. CASE id = call[p].id
          <6>1. /\ Contents[id] = [value |-> call[p].value, age |-> file[id].age]
                /\ Contents[id] # Absent
            BY <1>13, <3>1, <5>1
          <6>2. Aged(Contents)[id] = [value |-> call[p].value, age |-> Older(file[id].age)]
            BY <3>2, <4>1, <6>1 DEF Aged
          <6>3. file'[id].age = Older(file[id].age)
            BY <2>2, <3>2, <4>1, <5>1 DEF Aged
          <6>4. Contents'[id] = [value |-> call[p].value, age |-> file'[id].age]
            BY <2>2, <2>4, <3>1, <4>1, <5>1 DEF Contents
          <6> QED
            BY <6>2, <6>3, <6>4
        <5>2. CASE id # call[p].id
          <6>1. Contents[id] = file[id] /\ Contents'[id] = file'[id]
            BY <2>2, <2>4, <3>1, <4>1, <5>2 DEF Contents
          <6> QED
            BY <2>2, <3>2, <4>1, <6>1 DEF Aged
        <5> QED
          BY <5>1, <5>2
      <4> QED
        BY <4>1 DEF Contents, Aged
    <3> QED
      BY <2>1, <2>2, <3>3
      DEF Aged, Older, Contract!Next, Contract!Tick, Contract!Aged, Contract!Older
  <2> QED
    BY <2>3, <2>4
<1>18. CASE Crash
  <2>1. /\ file' = file /\ call' = [p \in Procs |-> NoCall]
        /\ pc' = [p \in Procs |-> "idle"] /\ reply' = [p \in Procs |-> "none"]
        /\ writer' = Nobody
    BY <1>18 DEF Crash
  <2>2. Contents' = file /\ Status' = [p \in Procs |-> "idle"]
    BY <2>1, ContentsAreFilesNext, StatusOfPlaces DEF Status
  <2> DEFINE sets == {q \in Procs : Status[q] = "effective" /\ call[q].op = "set"}
             tear(torn) == [id \in Ids |->
                               IF id \in torn /\ Contract!Present(Contents, id)
                               THEN [value |-> Torn, age |-> Contents[id].age]
                               ELSE Contents[id]]
  <2>3. \E torn \in SUBSET {call[p].id : p \in sets} : file = tear(torn)
    <3>1. CASE writer = Nobody \/ pc[writer] # "writing"
      <4>1. Contents = file
        BY <3>1, ContentsAreFiles
      <4>2. file = tear({})
        BY <4>1 DEF TypeOK
      <4>3. {} \in SUBSET {call[p].id : p \in sets}
        OBVIOUS
      <4> HIDE DEF sets, tear
      <4> QED
        BY <4>2, <4>3
    <3>2. CASE writer # Nobody /\ pc[writer] = "writing"
      <4>1. PICK p \in Procs : p = writer /\ pc[p] = "writing"
        BY <3>2 DEF TypeOK
      <4>2. p \in sets
        BY <1>13, <4>1
      <4>3. ASSUME NEW id \in Ids
            PROVE  tear({call[p].id})[id] = file[id]
        <5>1. CASE id = call[p].id
          <6>1. Contents[id] = [value |-> call[p].value, age |-> file[id].age]
            BY <1>13, <4>1, <5>1
          <6>2. file[id] = [value |-> Torn, age |-> file[id].age]
            BY <1>13, <4>1, <5>1 DEF Entry
          <6>3. Contents[id] # Absent
            BY <1>13, <4>1, <5>1, <6>1
          <6> QED
            BY <5>1, <6>1, <6>2, <6>3 DEF Contract!Present
        <5>2. CASE id # call[p].id
          <6>1. Contents[id] = file[id]
            BY <3>2, <4>1, <4>3, <5>2 DEF Contents
          <6> QED
            BY <4>3, <5>2, <6>1
        <5> QED
          BY <5>1, <5>2
      <4>4. file = tear({call[p].id})
        BY <4>3 DEF TypeOK
      <4> QED
        BY <4>2, <4>4
    <3> QED
      BY <3>1, <3>2
  <2>4. Contract!Crash
    BY <2>1, <2>2, <2>3 DEF Contract!Crash
  <2> QED
    BY <2>4 DEF Contract!Next
<1>19. CASE UNCHANGED vars
  BY <1>19 DEF vars, Contents, Status
<1>20. ASSUME NEW p \in Procs, Body(p)
       PROVE  Contract!Next \/ UNCHANGED Contract!vars
  BY <1>2, <1>4, <1>5, <1>6, <1>7, <1>8, <1>9, <1>11, <1>12, <1>15, <1>16, <1>20
  DEF Body, Contract!Next
<1>21. ASSUME NEW p \in Procs, NEW c \in Calls, Invoke(p, c)
       PROVE  Contract!Next
  <2>1. c \in Contract!Calls
    BY DEF Calls, Contract!Calls
  <2> QED
    BY <1>1, <1>21, <2>1 DEF Contract!Next
<1>22. ASSUME NEW p \in Procs, Return(p)
       PROVE  Contract!Next
  BY <1>10, <1>22 DEF Contract!Next
<1> QED
  BY <1>2, <1>17, <1>18, <1>19, <1>20, <1>21, <1>22 DEF Next

(* FileStore, file operation by file operation and with crashes, behaves   *)
(* as the contract says: every call takes effect at one moment.            *)
THEOREM ImplementsContractHolds == Spec => ImplementsContract
<1>1. Spec => Contract!Spec
  BY RefinedInit, RefinedStep, StoreInvariant, PTL DEF Spec, Contract!Spec
<1> QED
  BY <1>1 DEF ImplementsContract

(***************************************************************************)
(* What a Purge leaves behind.                                             *)
(***************************************************************************)
\* A step of a sweeping Purge that neither ends nor fails it.
LEMMA SweepStep ==
    ASSUME StoreInv, NEW p \in Procs, Step(p), pc[p] \in {"sweeping", "removing"},
           reply'[p] # "error", NEW id \in listing[p] \cup victim[p]
    PROVE  \/ id \in listing'[p] \cup victim'[p]
           \/ ~Present(file, id)'
           \/ ~Expired(file[id])
<1> TypeOK /\ VictimInv(p)
  BY DEF StoreInv
<1>0. id \in Ids
  BY DEF TypeOK
<1>1. CASE Look(p)
  <2>1. PICK seen \in listing[p] :
            /\ listing' = [listing EXCEPT ![p] = @ \ {seen}]
            /\ IF Expired(file[seen])
               THEN victim' = [victim EXCEPT ![p] = {seen}]
               ELSE victim' = victim
            /\ pc[p] = "sweeping"
    BY <1>1 DEF Look
  <2>2. listing'[p] = listing[p] \ {seen}
    BY <2>1 DEF TypeOK
  <2>3. Expired(file[seen]) => victim'[p] = {seen}
    BY <2>1 DEF TypeOK
  <2>4. id \in listing[p]
    BY <2>1 DEF VictimInv
  <2> QED
    BY <2>2, <2>3, <2>4
<1>2. CASE RemoveVictim(p)
  <2>1. /\ file' = [k \in Ids |-> IF k \in victim[p] THEN Absent ELSE file[k]]
        /\ listing' = listing
    BY <1>2 DEF RemoveVictim
  <2>2. id \in victim[p] => ~Present(file, id)'
    BY <1>0, <2>1 DEF Present
  <2> QED
    BY <2>1, <2>2
<1>3. CASE PurgeEnds(p)
  BY <1>3 DEF PurgeEnds
<1>4. ~LookFails(p) /\ ~RemoveFails(p)
  BY DEF LookFails, RemoveFails, Finish, TypeOK
<1>5. Look(p) \/ LookFails(p) \/ RemoveVictim(p) \/ RemoveFails(p) \/ PurgeEnds(p)
  BY DEF Step, Body, Invoke, Lock, RLock, Return, Truncate, Write, WriteFails, Get, Exists,
         Touch, Delete, OperationFails, ReadDir, ReadDirFails, Holds
<1> QED
  BY <1>1, <1>2, <1>3, <1>4, <1>5

(* A Purge that meets no error drops no file of its listing unseen,        *)
(* whatever other goroutines do before it is done: each one is removed, or *)
(* was not older than AgeLimit when it was looked at.                      *)
THEOREM PurgeIsThoroughHolds ==
    Spec => PurgeIsThorough
<1>1. ASSUME StoreInv, [Next]_vars, NEW p \in Procs,
             pc[p] \in {"sweeping", "removing"}, pc'[p] # "idle", reply'[p] # "error",
             NEW id \in listing[p] \cup victim[p]
      PROVE  \/ id \in listing'[p] \cup victim'[p]
             \/ ~Present(file, id)'
             \/ ~Expired(file[id])
  <2>0. TypeOK
    BY <1>1 DEF StoreInv
  <2>1. CASE Step(p)
    BY <1>1, <2>1, SweepStep
  <2>2. CASE \E q \in Procs \ {p} : Step(q)
    <3>1. listing'[p] = listing[p] /\ victim'[p] = victim[p]
      BY <2>0, <2>2, OthersStay
    <3> QED
      BY <1>1, <3>1
  <2>3. CASE Tick \/ UNCHANGED vars
    BY <1>1, <2>3 DEF Tick, vars
  <2>4. ~Crash
    BY <1>1 DEF Crash
  <2> QED
    BY <1>1, <2>1, <2>2, <2>3, <2>4 DEF Next, Step
<1>2. StoreInv /\ [Next]_vars =>
          [\A p \in Procs :
              (pc[p] \in {"sweeping", "removing"} /\ pc'[p] # "idle" /\ reply'[p] # "error")
                  => \A id \in listing[p] \cup victim[p] :
                         \/ id \in listing'[p] \cup victim'[p]
                         \/ ~Present(file, id)'
                         \/ ~Expired(file[id])]_vars
  BY <1>1
<1> QED
  BY <1>2, StoreInvariant, PTL DEF Spec, PurgeIsThorough
===============================================================================
