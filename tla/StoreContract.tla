----------------------------- MODULE StoreContract -----------------------------
(***************************************************************************)
(* What session.Store promises to goroutines that call it at the same time *)
(* (session/store.go 15-67): each call takes effect at one moment between  *)
(* its invocation and its response, except that a Purge removes expired    *)
(* entries one by one, that a Set may refresh its entry until it returns,  *)
(* and that a Set that fails, or that a crash interrupts, may leave a      *)
(* value that does not decode.                                             *)
(***************************************************************************)
EXTENDS StoreOps, FiniteSets

CONSTANTS
    Procs,   \* goroutines that call the store
    Ids,     \* session ids the store accepts
    Data,    \* values that are stored
    Torn,    \* a value that does not decode
    NoCall   \* no call in progress

Calls ==
         [op : {"set"}, id : Ids, value : Data]
    \cup [op : {"get", "exists", "touch", "delete"}, id : Ids]
    \cup [op : {"purge"}]

VARIABLES
    entries,  \* the stored entries
    call,     \* what each goroutine called
    status,   \* idle, pending (no effect yet) or effective
    reply     \* what an effective call will return

vars == <<entries, call, status, reply>>

Init ==
    /\ entries = [id \in Ids |-> Absent]
    /\ call = [p \in Procs |-> NoCall]
    /\ status = [p \in Procs |-> "idle"]
    /\ reply = [p \in Procs |-> "none"]

Invoke(p, c) ==
    /\ status[p] = "idle"
    /\ call' = [call EXCEPT ![p] = c]
    /\ status' = [status EXCEPT ![p] = "pending"]
    /\ UNCHANGED <<entries, reply>>

\* p's pending call of op takes effect and will return the reply.
Takes(p, op, answer) ==
    /\ status[p] = "pending"
    /\ call[p].op = op
    /\ status' = [status EXCEPT ![p] = "effective"]
    /\ reply' = [reply EXCEPT ![p] = answer]
    /\ UNCHANGED call

SetTakes(p) ==
    /\ Takes(p, "set", "ok")
    /\ entries' = Put(entries, call[p].id, call[p].value)

GetTakes(p) ==
    /\ Takes(p, "get", IF Present(entries, call[p].id)
                       THEN entries[call[p].id].value
                       ELSE "not found")
    /\ UNCHANGED entries

ExistsTakes(p) ==
    /\ Takes(p, "exists", IF Present(entries, call[p].id) THEN "yes" ELSE "no")
    /\ UNCHANGED entries

\* An entry that is there is refreshed, and keeps its value.
TouchTakes(p) ==
    /\ Takes(p, "touch", IF Present(entries, call[p].id) THEN "ok" ELSE "not found")
    /\ entries' = IF Present(entries, call[p].id)
                  THEN Refresh(entries, call[p].id)
                  ELSE entries

DeleteTakes(p) ==
    /\ Takes(p, "delete", "ok")
    /\ entries' = Remove(entries, call[p].id)

\* Only an entry that is expired at that very moment is dropped.
PurgeDrops(p, id) ==
    /\ status[p] = "pending"
    /\ call[p].op = "purge"
    /\ Present(entries, id)
    /\ Expired(entries[id])
    /\ entries' = Remove(entries, id)
    /\ UNCHANGED <<call, status, reply>>

PurgeTakes(p) == Takes(p, "purge", "ok") /\ UNCHANGED entries

\* An error before anything was done.
Fails(p) == \E op \in {"set", "get", "exists", "touch", "delete", "purge"} :
    Takes(p, op, "error") /\ UNCHANGED entries

SetRefreshes(p) ==
    /\ status[p] = "effective"
    /\ call[p].op = "set"
    /\ Present(entries, call[p].id)
    /\ entries' = Refresh(entries, call[p].id)
    /\ UNCHANGED <<call, status, reply>>

SetTears(p) ==
    /\ status[p] = "effective"
    /\ call[p].op = "set"
    /\ Present(entries, call[p].id)
    /\ entries' = [entries EXCEPT ![call[p].id] = [value |-> Torn, age |-> @.age]]
    /\ reply' = [reply EXCEPT ![p] = "error"]
    /\ UNCHANGED <<call, status>>

Respond(p) ==
    /\ status[p] = "effective"
    /\ call' = [call EXCEPT ![p] = NoCall]
    /\ status' = [status EXCEPT ![p] = "idle"]
    /\ reply' = [reply EXCEPT ![p] = "none"]
    /\ UNCHANGED entries

Tick == entries' = Aged(entries) /\ UNCHANGED <<call, status, reply>>

Crash ==
    /\ \E torn \in SUBSET {call[p].id : p \in {q \in Procs :
                               status[q] = "effective" /\ call[q].op = "set"}} :
           entries' = [id \in Ids |->
                          IF id \in torn /\ Present(entries, id)
                          THEN [value |-> Torn, age |-> entries[id].age]
                          ELSE entries[id]]
    /\ call' = [p \in Procs |-> NoCall]
    /\ status' = [p \in Procs |-> "idle"]
    /\ reply' = [p \in Procs |-> "none"]

Next ==
    \/ \E p \in Procs :
           \/ \E c \in Calls : Invoke(p, c)
           \/ SetTakes(p) \/ GetTakes(p) \/ ExistsTakes(p) \/ TouchTakes(p)
           \/ DeleteTakes(p) \/ PurgeTakes(p) \/ Fails(p)
           \/ \E id \in Ids : PurgeDrops(p, id)
           \/ SetRefreshes(p) \/ SetTears(p) \/ Respond(p)
    \/ Tick \/ Crash

Spec == Init /\ [][Next]_vars
===============================================================================
