------------------------------- MODULE FileStore -------------------------------
(***************************************************************************)
(* session.FileStore (session/file.go), file operation by file operation:  *)
(* one instance, its read-write mutex, and the directory it keeps sessions *)
(* in, which outlives a crash of the process.                              *)
(*                                                                         *)
(* A goroutine that calls the store waits for the mutex (called, or listed *)
(* for a Purge that has read the directory), works under it (locked,       *)
(* writing, sweeping, removing) and is finished, about to unlock and       *)
(* return.  Only ids that validSessionID accepts get that far: any other   *)
(* id is an error before the mutex is taken.                               *)
(***************************************************************************)
EXTENDS StoreOps, FiniteSets

CONSTANTS
    Procs,    \* goroutines that call the store
    Ids,      \* session ids the store accepts
    Data,     \* values that are stored
    Torn,     \* what a truncated or partly written file holds
    NoCall,   \* no call in progress
    Nobody,   \* nobody holds the mutex for writing
    Faulty    \* may file operations fail?

Calls ==
         [op : {"set"}, id : Ids, value : Data]
    \cup [op : {"get", "exists", "touch", "delete"}, id : Ids]
    \cup [op : {"purge"}]

Readers == {"get", "exists"}

ASSUME FileAssumption ==
    /\ AgeLimit \in Nat
    /\ Faulty \in BOOLEAN
    /\ NoCall \notin Calls
    /\ Nobody \notin Procs
    /\ Absent \notin Entry({Torn} \cup Data)

VARIABLES
    file,     \* the session files: contents, and time since modification
    writer,   \* who holds mu for writing
    reading,  \* who holds mu for reading
    call,     \* what each goroutine called
    pc,       \* how far its call is
    reply,    \* what it will return
    listing,  \* Purge: the files of ReadDir still to be looked at
    victim    \* Purge: the files found expired, about to be removed

vars == <<file, writer, reading, call, pc, reply, listing, victim>>

Init ==
    /\ file = [id \in Ids |-> Absent]
    /\ writer = Nobody
    /\ reading = {}
    /\ call = [p \in Procs |-> NoCall]
    /\ pc = [p \in Procs |-> "idle"]
    /\ reply = [p \in Procs |-> "none"]
    /\ listing = [p \in Procs |-> {}]
    /\ victim = [p \in Procs |-> {}]

Goto(p, place) == pc' = [pc EXCEPT ![p] = place]

\* The result is known; the deferred unlock and the return are still to come.
Finish(p, answer) ==
    /\ Goto(p, "finished")
    /\ reply' = [reply EXCEPT ![p] = answer]

\* The body of an operation other than Purge starts, under the mutex.
Holds(p, op) == pc[p] = "locked" /\ call[p].op = op

Invoke(p, c) ==
    /\ pc[p] = "idle"
    /\ call' = [call EXCEPT ![p] = c]
    /\ Goto(p, "called")
    /\ UNCHANGED <<file, writer, reading, reply, listing, victim>>

----------------------------------------------------------------------------
(* The mutex.                                                              *)

\* Faulty variant of Lock: readers do not keep writers out.
LockBesideReaders(p) ==
    /\ \/ pc[p] = "called" /\ call[p].op \in {"set", "touch", "delete"}
       \/ pc[p] = "listed"
    /\ writer = Nobody
    /\ writer' = p
    /\ Goto(p, IF pc[p] = "listed" THEN "sweeping" ELSE "locked")
    /\ UNCHANGED <<file, reading, call, reply, listing, victim>>

Lock(p) ==
    /\ \/ pc[p] = "called" /\ call[p].op \in {"set", "touch", "delete"}
       \/ pc[p] = "listed"
    /\ writer = Nobody
    /\ reading = {}
    /\ writer' = p
    /\ Goto(p, IF pc[p] = "listed" THEN "sweeping" ELSE "locked")
    /\ UNCHANGED <<file, reading, call, reply, listing, victim>>

\* Faulty variant of RLock: a reader does not wait for the writer.
RLockBesideWriter(p) ==
    /\ pc[p] = "called"
    /\ call[p].op \in Readers
    /\ reading' = reading \cup {p}
    /\ Goto(p, "locked")
    /\ UNCHANGED <<file, writer, call, reply, listing, victim>>

RLock(p) ==
    /\ pc[p] = "called"
    /\ call[p].op \in Readers
    /\ writer = Nobody
    /\ reading' = reading \cup {p}
    /\ Goto(p, "locked")
    /\ UNCHANGED <<file, writer, call, reply, listing, victim>>

\* Faulty variant of Return: an error path that forgets to unlock.
ReturnLocked(p) ==
    /\ pc[p] = "finished"
    /\ writer' = IF writer = p /\ reply[p] # "error" THEN Nobody ELSE writer
    /\ reading' = reading \ {p}
    /\ call' = [call EXCEPT ![p] = NoCall]
    /\ reply' = [reply EXCEPT ![p] = "none"]
    /\ Goto(p, "idle")
    /\ UNCHANGED <<file, listing, victim>>

Return(p) ==
    /\ pc[p] = "finished"
    /\ writer' = IF writer = p THEN Nobody ELSE writer
    /\ reading' = reading \ {p}
    /\ call' = [call EXCEPT ![p] = NoCall]
    /\ reply' = [reply EXCEPT ![p] = "none"]
    /\ Goto(p, "idle")
    /\ UNCHANGED <<file, listing, victim>>

----------------------------------------------------------------------------
(* Set, Get, Exists, Touch and Delete, under the mutex.                    *)

\* OpenFile with O_CREATE and O_TRUNC: the old contents are gone.
Truncate(p) ==
    /\ Holds(p, "set")
    /\ file' = Put(file, call[p].id, Torn)
    /\ reply' = [reply EXCEPT ![p] = "ok"]
    /\ Goto(p, "writing")
    /\ UNCHANGED <<writer, reading, call, listing, victim>>

Write(p) ==
    /\ pc[p] = "writing"
    /\ file' = Put(file, call[p].id, call[p].value)
    /\ Finish(p, "ok")
    /\ UNCHANGED <<writer, reading, call, listing, victim>>

\* The write fails, after some of the bytes or none.
WriteFails(p) ==
    /\ Faulty
    /\ pc[p] = "writing"
    /\ Finish(p, "error")
    /\ UNCHANGED <<file, writer, reading, call, listing, victim>>

Get(p) ==
    /\ Holds(p, "get")
    /\ Finish(p, IF Present(file, call[p].id)
                 THEN file[call[p].id].value
                 ELSE "not found")
    /\ UNCHANGED <<file, writer, reading, call, listing, victim>>

Exists(p) ==
    /\ Holds(p, "exists")
    /\ Finish(p, IF Present(file, call[p].id) THEN "yes" ELSE "no")
    /\ UNCHANGED <<file, writer, reading, call, listing, victim>>

Touch(p) ==
    /\ Holds(p, "touch")
    /\ IF Present(file, call[p].id)
       THEN file' = Refresh(file, call[p].id) /\ Finish(p, "ok")
       ELSE UNCHANGED file /\ Finish(p, "not found")
    /\ UNCHANGED <<writer, reading, call, listing, victim>>

Delete(p) ==
    /\ Holds(p, "delete")
    /\ file' = Remove(file, call[p].id)
    /\ Finish(p, "ok")
    /\ UNCHANGED <<writer, reading, call, listing, victim>>

\* Lstat, OpenFile, ReadFile, Chtimes or Remove fails: nothing was changed.
OperationFails(p) ==
    /\ Faulty
    /\ pc[p] = "locked"
    /\ Finish(p, "error")
    /\ UNCHANGED <<file, writer, reading, call, listing, victim>>

----------------------------------------------------------------------------
(* Purge.                                                                  *)

\* ReadDir, before the mutex is taken.
ReadDir(p) ==
    /\ pc[p] = "called"
    /\ call[p].op = "purge"
    /\ listing' = [listing EXCEPT ![p] = {id \in Ids : Present(file, id)}]
    /\ Goto(p, "listed")
    /\ UNCHANGED <<file, writer, reading, call, reply, victim>>

ReadDirFails(p) ==
    /\ Faulty
    /\ pc[p] = "called"
    /\ call[p].op = "purge"
    /\ Finish(p, "error")
    /\ UNCHANGED <<file, writer, reading, call, listing, victim>>

\* Faulty variant of Look: the first file that is kept ends the sweep.
LookStops(p) ==
    \E id \in listing[p] :
        /\ pc[p] = "sweeping"
        /\ Present(file, id)
        /\ IF Expired(file[id])
           THEN /\ victim' = [victim EXCEPT ![p] = {id}]
                /\ listing' = [listing EXCEPT ![p] = @ \ {id}]
                /\ Goto(p, "removing")
           ELSE /\ listing' = [listing EXCEPT ![p] = {}]
                /\ UNCHANGED <<victim, pc>>
        /\ UNCHANGED <<file, writer, reading, call, reply>>

\* Info of the next file: kept if it is not older than the limit.
Look(p) ==
    \E id \in listing[p] :
        /\ pc[p] = "sweeping"
        /\ Present(file, id)
        /\ listing' = [listing EXCEPT ![p] = @ \ {id}]
        /\ IF Expired(file[id])
           THEN /\ victim' = [victim EXCEPT ![p] = {id}]
                /\ Goto(p, "removing")
           ELSE UNCHANGED <<victim, pc>>
        /\ UNCHANGED <<file, writer, reading, call, reply>>

\* Info fails, always when the listed file is gone: its error ends the whole Purge.
LookFails(p) ==
    \E id \in listing[p] :
        /\ pc[p] = "sweeping"
        /\ Faulty \/ ~Present(file, id)
        /\ listing' = [listing EXCEPT ![p] = {}]
        /\ Finish(p, "error")
        /\ UNCHANGED <<file, writer, reading, call, victim>>

RemoveVictim(p) ==
    /\ pc[p] = "removing"
    /\ file' = [id \in Ids |-> IF id \in victim[p] THEN Absent ELSE file[id]]
    /\ victim' = [victim EXCEPT ![p] = {}]
    /\ Goto(p, "sweeping")
    /\ UNCHANGED <<writer, reading, call, reply, listing>>

RemoveFails(p) ==
    /\ Faulty
    /\ pc[p] = "removing"
    /\ listing' = [listing EXCEPT ![p] = {}]
    /\ victim' = [victim EXCEPT ![p] = {}]
    /\ Finish(p, "error")
    /\ UNCHANGED <<file, writer, reading, call>>

PurgeEnds(p) ==
    /\ pc[p] = "sweeping"
    /\ listing[p] = {}
    /\ Finish(p, "ok")
    /\ UNCHANGED <<file, writer, reading, call, listing, victim>>

----------------------------------------------------------------------------

Tick == file' = Aged(file) /\ UNCHANGED <<writer, reading, call, pc, reply,
                                          listing, victim>>

\* The process dies; the files stay as they are, and the mutex is a new one.
Crash ==
    /\ writer' = Nobody
    /\ reading' = {}
    /\ call' = [p \in Procs |-> NoCall]
    /\ pc' = [p \in Procs |-> "idle"]
    /\ reply' = [p \in Procs |-> "none"]
    /\ listing' = [p \in Procs |-> {}]
    /\ victim' = [p \in Procs |-> {}]
    /\ UNCHANGED file

Body(p) ==
    \/ Truncate(p) \/ Write(p) \/ WriteFails(p) \/ Get(p) \/ Exists(p)
    \/ Touch(p) \/ Delete(p) \/ OperationFails(p)
    \/ ReadDir(p) \/ ReadDirFails(p) \/ Look(p) \/ LookFails(p)
    \/ RemoveVictim(p) \/ RemoveFails(p) \/ PurgeEnds(p)

Next ==
    \/ \E p \in Procs :
           \/ \E c \in Calls : Invoke(p, c)
           \/ Lock(p) \/ RLock(p) \/ Body(p) \/ Return(p)
    \/ Tick \/ Crash

Spec == Init /\ [][Next]_vars

(* A call goes on whenever it can.  sync.RWMutex hands itself to everyone  *)
(* who waits for it in the end: a waiting writer keeps new readers out, and *)
(* the readers that waited for a writer go before the next one.            *)
Fairness ==
    \A p \in Procs : /\ WF_vars(Body(p) \/ Return(p))
                     /\ SF_vars(Lock(p)) /\ SF_vars(RLock(p))

FairSpec == Spec /\ Fairness

----------------------------------------------------------------------------
(* The contract the store implements.                                      *)

\* A Set counts from the moment it truncates the file, because nobody else
\* sees the file before the write is over.
Contents ==
    [id \in Ids |->
        IF writer # Nobody /\ pc[writer] = "writing" /\ call[writer].id = id
        THEN [value |-> call[writer].value, age |-> file[id].age]
        ELSE file[id]]

StatusOf(place) ==
    CASE place = "idle" -> "idle"
      [] place \in {"writing", "finished"} -> "effective"
      [] OTHER -> "pending"

Status == [p \in Procs |-> StatusOf(pc[p])]

Contract == INSTANCE StoreContract WITH entries <- Contents, status <- Status

----------------------------------------------------------------------------
(* Properties.                                                             *)

Writing(p) ==
    \/ pc[p] \in {"sweeping", "removing", "writing"}
    \/ pc[p] = "locked" /\ call[p].op \notin Readers

Places == {"idle", "called", "listed", "locked", "writing", "sweeping", "removing",
           "finished"}

\* Whoever changes files holds the mutex alone, whoever reads one holds it for
\* reading, and nobody holds it who is not about to unlock it.
MutexWorks ==
    /\ writer # Nobody => reading = {}
    /\ writer # Nobody => (Writing(writer) \/ pc[writer] = "finished")
    /\ \A p \in Procs :
           /\ Writing(p) => writer = p
           /\ pc[p] = "locked" => p \in reading \cup {writer}
           /\ p \in reading => pc[p] \in {"locked", "finished"}

(* The variables keep their types, and the mutex does its work.            *)
TypeOK ==
    /\ file \in [Ids -> {Absent} \cup Entry({Torn} \cup Data)]
    /\ writer \in {Nobody} \cup Procs
    /\ reading \in SUBSET Procs
    /\ call \in [Procs -> {NoCall} \cup Calls]
    /\ pc \in [Procs -> Places]
    /\ reply \in [Procs -> {Torn, "none", "ok", "error", "not found", "yes", "no"}
                               \cup Data]
    /\ listing \in [Procs -> SUBSET Ids]
    /\ victim \in [Procs -> SUBSET Ids]
    /\ MutexWorks

(* Whatever goroutines call at the same time and wherever the process      *)
(* crashes, the store behaves as if each call took effect at one moment:   *)
(* a Get sees a complete value of the last Set, or one torn by a crash or  *)
(* a failed write, and a Purge removes nothing but expired sessions.       *)
ImplementsContract == Contract!Spec

(* Every call returns: no path through an operation keeps the mutex.       *)
CallsReturn == \A p \in Procs : pc[p] # "idle" ~> pc[p] = "idle"

(* "Purge removes expired namespaced session files": as long as it has met  *)
(* no error, a Purge leaves no expired session of its listing behind; a     *)
(* listed file that is gone when its turn comes is such an error, and ends  *)
(* the Purge.                                                               *)
PurgeIsThorough ==
    [][\A p \in Procs :
          (pc[p] \in {"sweeping", "removing"} /\ pc'[p] # "idle" /\ reply'[p] # "error")
              => \A id \in listing[p] \cup victim[p] :
                     \/ id \in listing'[p] \cup victim'[p]
                     \/ ~Present(file, id)'
                     \/ ~Expired(file[id])]_vars
===============================================================================
