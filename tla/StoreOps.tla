------------------------------- MODULE StoreOps -------------------------------
(***************************************************************************)
(* The effect of each operation of session.Store on the stored entries, as *)
(* MemoryStore implements it (session/memory.go).  MemoryStore takes its   *)
(* RWMutex around every operation, so each operator below is one atomic    *)
(* transformation of the map Data.                                         *)
(*                                                                         *)
(* A store is a function from ids to entries, with Absent for an id that   *)
(* has none.  The field LastTouched is kept as the age of the entry, the   *)
(* time since it was last touched, because the code only ever looks at     *)
(* time.Since(LastTouched) > maxAge.  Ages are counted in ticks and        *)
(* saturate one tick past AgeLimit: beyond that every comparison the code  *)
(* makes has the same result for ever.                                     *)
(***************************************************************************)
EXTENDS Naturals

CONSTANTS
    AgeLimit,   \* EngineProperties.AgeLimit, in ticks
    Absent      \* stands for "no entry" (the map has no such key)

Ages == 0 .. AgeLimit + 1

Entry(Values) == [value : Values, age : Ages]

Present(st, id) == st[id] # Absent

\* Store.Set: writes the value and always refreshes the time of last touch.
Put(st, id, v) == [st EXCEPT ![id] = [value |-> v, age |-> 0]]

\* Faulty variant of Refresh: the new time is written to a copy of the entry.
RefreshCopyOnly(st, id) == st

\* Store.Touch on an existing entry: refreshes the time, keeps the value.
Refresh(st, id) == [st EXCEPT ![id] = [value |-> st[id].value, age |-> 0]]

\* Store.Delete: idempotent.
Remove(st, id) == [st EXCEPT ![id] = Absent]

\* Faulty variant of Expired: an entry as old as the limit counts as expired.
ExpiredAtLimit(entry) == entry.age >= AgeLimit

\* memoryEntry.Expired: strictly older than the limit.
Expired(entry) == entry.age > AgeLimit

\* Store.Purge: every expired entry goes, every other one stays.
Purged(st) ==
    [id \in DOMAIN st |->
        IF st[id] # Absent /\ Expired(st[id]) THEN Absent ELSE st[id]]

\* One tick of the clock.
Older(age) == IF age > AgeLimit THEN age ELSE age + 1

Aged(st) ==
    [id \in DOMAIN st |->
        IF st[id] = Absent
        THEN Absent
        ELSE [value |-> st[id].value, age |-> Older(st[id].age)]]
===============================================================================
