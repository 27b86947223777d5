------------------------------- MODULE Sessioned -------------------------------
(***************************************************************************)
(* The session middleware (middleware/session.go, Sessioned) over a        *)
(* StoreEngine (session/store.go) over a store, with as many HTTP requests *)
(* in flight as net/http cares to run at once.                             *)
(*                                                                         *)
(* Every call of the Store interface is one atomic step, because each      *)
(* store holds its lock for the whole operation; everything between two    *)
(* calls may interleave with other requests, with the purge job, with the  *)
(* clock and with a crash of the process.  One request walks through       *)
(*                                                                         *)
(*   idle    no request yet                                                *)
(*   check   holds an id from its cookie, about to call SessionExists      *)
(*   lookup  in GetSession, about to call Store.Exists                     *)
(*   create  in GetSession, saw no entry, about to call Store.Set          *)
(*   read    in GetSession, about to call Store.Get                        *)
(*   touch   in GetSession, about to call Store.Touch and then Decode      *)
(*   handler the application handler runs with the session                 *)
(*   save    returned with Changed, about to call SaveSession              *)
(*   delete  returned with Destroyed, about to call DeleteSession          *)
(*                                                                         *)
(* and ends served, failed (status 500) or aborted (panic or crash).       *)
(*                                                                         *)
(* The data of a session is a set of keys, and the key a request sets is   *)
(* named after the request, so that data tells who wrote it.               *)
(***************************************************************************)
EXTENDS StoreOps, FiniteSets

CONSTANTS
    Clients,        \* user agents, each with one cookie jar
    Requests,       \* HTTP requests; each is made at most once
    ClientOf,       \* the client that makes a request
    FreshIds,       \* what NewId can still return
    StaleIds,       \* ids clients hold that this engine never issued
    RejectedIds,    \* the stale ids that the store refuses as malformed
    EmptyId,        \* the id that a cookie with an empty value carries
    NoId,           \* no cookie
    Nobody,         \* owner of an id not issued yet
    Torn,           \* a stored value that does not decode
    EnabledChoices, \* values EngineProperties.Enabled may have
    Faults,         \* ways in which a store call may fail
    Durable         \* does the store outlive the process?

Ids == FreshIds \cup StaleIds

Values == {Torn} \cup SUBSET Requests

ASSUME LimitAssumption == AgeLimit \in Nat
ASSUME ClientAssumption == ClientOf \in [Requests -> Clients]
ASSUME IdAssumption ==
    /\ FreshIds \cap StaleIds = {}
    /\ RejectedIds \subseteq StaleIds
    /\ EmptyId \in StaleIds
    /\ NoId \notin Ids
ASSUME DistinctAssumption ==
    /\ Nobody \notin Clients
    /\ \A entry \in Entry(Values) : entry # Absent
    /\ \A data \in SUBSET Requests : data # Torn
ASSUME ChoiceAssumption ==
    /\ EnabledChoices \subseteq {"nil", "true", "false"}
    /\ Faults \subseteq {"error", "torn"}
    /\ Durable \in BOOLEAN

VARIABLES
    enabled,     \* EngineProperties.Enabled: nil, or what it points to
    store,       \* the store's entries
    owner,       \* history: the client each fresh id was issued to
    jar,         \* the session cookie each client would send
    pc,          \* where each request is
    sid,         \* the session id each request works with
    cookie,      \* the id in a Set-Cookie header not yet delivered
    raw,         \* the bytes a request got from Store.Get
    sess,        \* the Session a request's handler works on
    held,        \* history: time since a request's last Touch
    invalidated  \* history: ids on which DeleteSession succeeded

requestVars == <<pc, sid, cookie, raw, sess, held>>
vars == <<enabled, store, owner, jar, requestVars, invalidated>>

Session == [data : SUBSET Requests, changed : BOOLEAN, destroyed : BOOLEAN]

Blank == [data |-> {}, changed |-> FALSE, destroyed |-> FALSE]

Loaded(value) == [data |-> value, changed |-> FALSE, destroyed |-> FALSE]

Ended == {"served", "failed", "aborted"}

\* Past the check of the cookie: the request will use its id on the store.
Admitted == {"lookup", "create", "read", "touch", "handler", "save", "delete"}

\* Has been through GetSession: works on a session of its own.
Holding == {"handler", "save", "delete"}

InFlight == Admitted \cup {"check"}

Places == InFlight \cup Ended \cup {"idle"}

Init ==
    /\ enabled \in EnabledChoices
    /\ store = [id \in Ids |-> Absent]
    /\ owner = [id \in FreshIds |-> Nobody]
    /\ jar \in [Clients -> StaleIds \cup {NoId}]
    /\ pc = [r \in Requests |-> "idle"]
    /\ sid = [r \in Requests |-> NoId]
    /\ cookie = [r \in Requests |-> NoId]
    /\ raw = [r \in Requests |-> {}]
    /\ sess = [r \in Requests |-> Blank]
    /\ held = [r \in Requests |-> 0]
    /\ invalidated = {}

\* The definitions called faulty variants are mistakes the code does not make.
\* They are not part of the specification: each replaces the definition after
\* it to show that a property of the model can fail.

(***************************************************************************)
(* Every engine operation begins with "Enabled == nil || Enabled ==        *)
(* &pFalse".  The second test compares a pointer with the address of a     *)
(* variable just declared, so it is never true: only nil disables.         *)
(***************************************************************************)
Disabled == enabled = "nil"

\* The request is over: nothing it held is used again.
Finish(r, outcome) ==
    /\ pc' = [pc EXCEPT ![r] = outcome]
    /\ sid' = [sid EXCEPT ![r] = NoId]
    /\ raw' = [raw EXCEPT ![r] = {}]
    /\ sess' = [sess EXCEPT ![r] = Blank]
    /\ held' = [held EXCEPT ![r] = 0]

Goto(r, place) == pc' = [pc EXCEPT ![r] = place]

\* Faulty variant of Unissued: an id may be drawn again once nothing is stored
\* under it.
NotStored == {id \in FreshIds : owner[id] = Nobody \/ ~Present(store, id)}

Unissued == {id \in FreshIds : owner[id] = Nobody}

\* Faulty variant of Issue: a generator that is seeded anew may repeat itself.
IssueRepeated(r) ==
    \E id \in FreshIds :
        /\ owner' = [owner EXCEPT ![id] = ClientOf[r]]
        /\ sid' = [sid EXCEPT ![r] = id]
        /\ cookie' = [cookie EXCEPT ![r] = id]
        /\ Goto(r, "lookup")

\* Faulty variant of Issue: the new id is assigned to a variable that shadows
\* the one GetSession is called with.
IssueShadowed(r) ==
    \E id \in Unissued :
        /\ owner' = [owner EXCEPT ![id] = ClientOf[r]]
        /\ sid' = [sid EXCEPT ![r] = NoId]
        /\ cookie' = [cookie EXCEPT ![r] = id]
        /\ Goto(r, "lookup")

\* NewId and setSessionCookie: the header waits for the response to be sent.
Issue(r) ==
    \E id \in Unissued :
        /\ owner' = [owner EXCEPT ![id] = ClientOf[r]]
        /\ sid' = [sid EXCEPT ![r] = id]
        /\ cookie' = [cookie EXCEPT ![r] = id]
        /\ Goto(r, "lookup")

----------------------------------------------------------------------------
(* The middleware, up to the call of GetSession.                           *)

\* The request carries a cookie that verifies: its id is to be checked.  Without
\* keys every cookie does, one with an empty value too.
BeginWithCookie(r) ==
    /\ pc[r] = "idle"
    /\ jar[ClientOf[r]] # NoId
    /\ sid' = [sid EXCEPT ![r] = jar[ClientOf[r]]]
    /\ Goto(r, "check")
    /\ UNCHANGED <<enabled, store, owner, jar, cookie, raw, sess, held,
                   invalidated>>

\* No cookie, or one that does not verify: a new id without any check.
BeginWithoutCookie(r) ==
    /\ pc[r] = "idle"
    /\ Issue(r)
    /\ UNCHANGED <<enabled, store, jar, raw, sess, held, invalidated>>

\* Faulty variant of CheckExists: an unknown id is adopted, not replaced.
AdoptUnknown(r) ==
    /\ pc[r] = "check"
    /\ ~Disabled
    /\ sid[r] \notin RejectedIds
    /\ Goto(r, "lookup")
    /\ UNCHANGED <<enabled, store, owner, jar, sid, cookie, raw, sess, held,
                   invalidated>>

\* SessionExists looks for an entry; it does not look at its age.
CheckExists(r) ==
    /\ pc[r] = "check"
    /\ ~Disabled
    /\ sid[r] \notin RejectedIds
    /\ \/ /\ Present(store, sid[r])
          /\ Goto(r, "lookup")
          /\ UNCHANGED <<owner, sid, cookie>>
       \/ /\ ~Present(store, sid[r])
          /\ Issue(r)
    /\ UNCHANGED <<enabled, store, jar, raw, sess, held, invalidated>>

\* The engine is disabled, the store rejects the form of the id, or GetSession
\* is called with an empty one: 500.
Refuse(r) ==
    /\ \/ pc[r] \in {"check", "lookup"} /\ Disabled
       \/ pc[r] = "check" /\ sid[r] \in RejectedIds
       \/ pc[r] = "lookup" /\ sid[r] = EmptyId
    /\ Finish(r, "failed")
    /\ UNCHANGED <<enabled, store, owner, jar, cookie, invalidated>>

----------------------------------------------------------------------------
(* StoreEngine.GetSession: four calls of the store.                        *)

Lookup(r) ==
    /\ pc[r] = "lookup"
    /\ ~Disabled
    /\ sid[r] # EmptyId
    /\ Goto(r, IF Present(store, sid[r]) THEN "read" ELSE "create")
    /\ UNCHANGED <<enabled, store, owner, jar, sid, cookie, raw, sess, held,
                   invalidated>>

Create(r) ==
    /\ pc[r] = "create"
    /\ store' = Put(store, sid[r], {})
    /\ Goto(r, "read")
    /\ UNCHANGED <<enabled, owner, jar, sid, cookie, raw, sess, held,
                   invalidated>>

Read(r) ==
    /\ pc[r] = "read"
    /\ \/ /\ Present(store, sid[r])
          /\ raw' = [raw EXCEPT ![r] = store[sid[r]].value]
          /\ Goto(r, "touch")
          /\ UNCHANGED <<sid, sess, held>>
       \/ /\ ~Present(store, sid[r])
          /\ Finish(r, "failed")
    /\ UNCHANGED <<enabled, store, owner, jar, cookie, invalidated>>

\* The entry is refreshed before its bytes are decoded.
Touch(r) ==
    /\ pc[r] = "touch"
    /\ \/ /\ Present(store, sid[r])
          /\ store' = Refresh(store, sid[r])
          /\ \/ /\ raw[r] = Torn
                /\ Finish(r, "failed")
             \/ /\ raw[r] # Torn
                /\ sess' = [sess EXCEPT ![r] = Loaded(raw[r])]
                /\ held' = [held EXCEPT ![r] = 0]
                /\ raw' = [raw EXCEPT ![r] = {}]
                /\ Goto(r, "handler")
                /\ UNCHANGED sid
       \/ /\ ~Present(store, sid[r])
          /\ Finish(r, "failed")
          /\ UNCHANGED store
    /\ UNCHANGED <<enabled, owner, jar, cookie, invalidated>>

----------------------------------------------------------------------------
(* The handler, through the methods of Session, and its return.            *)

Mutate(r, data) ==
    /\ sess' = [sess EXCEPT ![r] = [data |-> data, changed |-> TRUE,
                                    destroyed |-> sess[r].destroyed]]
    /\ UNCHANGED <<enabled, store, owner, jar, pc, sid, cookie, raw, held,
                   invalidated>>

Live(r) == pc[r] = "handler" /\ ~sess[r].destroyed

HandlerSet(r) == Live(r) /\ Mutate(r, sess[r].data \cup {r})

\* Changed is set even when the session has no such key.
HandlerDelete(r, key) == Live(r) /\ Mutate(r, sess[r].data \ {key})

\* Clear does not ask whether the session is destroyed.
HandlerClear(r) == pc[r] = "handler" /\ Mutate(r, {})

HandlerDestroy(r) ==
    /\ pc[r] = "handler"
    /\ sess' = [sess EXCEPT ![r] =
                    [data |-> {}, changed |-> TRUE, destroyed |-> TRUE]]
    /\ UNCHANGED <<enabled, store, owner, jar, pc, sid, cookie, raw, held,
                   invalidated>>

\* Faulty variant of HandlerReturns: Changed is not looked at.
SaveAlways(r) ==
    /\ pc[r] = "handler"
    /\ Goto(r, IF sess[r].destroyed THEN "delete" ELSE "save")
    /\ UNCHANGED <<enabled, store, owner, jar, sid, cookie, raw, sess, held,
                   invalidated>>

HandlerReturns(r) ==
    /\ pc[r] = "handler"
    /\ \/ /\ sess[r].destroyed
          /\ Goto(r, "delete")
          /\ UNCHANGED <<sid, raw, sess, held>>
       \/ /\ ~sess[r].destroyed
          /\ sess[r].changed
          /\ Goto(r, "save")
          /\ UNCHANGED <<sid, raw, sess, held>>
       \/ /\ ~sess[r].destroyed
          /\ ~sess[r].changed
          /\ Finish(r, "served")
    /\ UNCHANGED <<enabled, store, owner, jar, cookie, invalidated>>

\* net/http recovers the panic; the middleware has no defer, so the session
\* is neither deleted nor saved, and the connection is closed.
HandlerPanics(r) ==
    /\ pc[r] = "handler"
    /\ Finish(r, "aborted")
    /\ UNCHANGED <<enabled, store, owner, jar, cookie, invalidated>>

\* DeleteSession and SaveSession do nothing but return an error, which is
\* logged, when the id is empty.
DeleteSession(r) ==
    /\ pc[r] = "delete"
    /\ store' = IF sid[r] = EmptyId THEN store ELSE Remove(store, sid[r])
    /\ invalidated' = invalidated \cup ({sid[r]} \ {EmptyId})
    /\ Finish(r, "served")
    /\ UNCHANGED <<enabled, owner, jar, cookie>>

\* SaveSession writes the whole map: whatever was stored since is replaced.
SaveSession(r) ==
    /\ pc[r] = "save"
    /\ store' = IF sid[r] = EmptyId THEN store
                                    ELSE Put(store, sid[r], sess[r].data)
    /\ Finish(r, "served")
    /\ UNCHANGED <<enabled, owner, jar, cookie, invalidated>>

----------------------------------------------------------------------------
(* Store calls that fail.  Before the handler an error ends the request    *)
(* with status 500, except that the error of GetSession's Set is dropped;  *)
(* after the handler an error is only logged.                              *)

LoadFails(r) ==
    /\ "error" \in Faults
    /\ pc[r] \in {"check", "lookup", "read", "touch"}
    /\ Finish(r, "failed")
    /\ UNCHANGED <<enabled, store, owner, jar, cookie, invalidated>>

CreateFails(r) ==
    /\ "error" \in Faults
    /\ pc[r] = "create"
    /\ Goto(r, "read")
    /\ UNCHANGED <<enabled, store, owner, jar, sid, cookie, raw, sess, held,
                   invalidated>>

WriteBackFails(r) ==
    /\ "error" \in Faults
    /\ pc[r] \in {"save", "delete"}
    /\ Finish(r, "served")
    /\ UNCHANGED <<enabled, store, owner, jar, cookie, invalidated>>

\* FileStore.Set truncates the file and then writes it: a failed write
\* leaves a fresh file that does not decode.
CreateTears(r) ==
    /\ "torn" \in Faults
    /\ pc[r] = "create"
    /\ store' = Put(store, sid[r], Torn)
    /\ Goto(r, "read")
    /\ UNCHANGED <<enabled, owner, jar, sid, cookie, raw, sess, held,
                   invalidated>>

SaveTears(r) ==
    /\ "torn" \in Faults
    /\ pc[r] = "save"
    /\ sid[r] # EmptyId
    /\ store' = Put(store, sid[r], Torn)
    /\ Finish(r, "served")
    /\ UNCHANGED <<enabled, owner, jar, cookie, invalidated>>

----------------------------------------------------------------------------
(* The rest of the world.                                                  *)

\* The headers reach the client: when the handler flushes or returns, or
\* with the status 500 that a failed request gets.
Deliver(r) ==
    /\ cookie[r] # NoId
    /\ pc[r] \in {"handler", "save", "delete", "served", "failed"}
    /\ jar' = [jar EXCEPT ![ClientOf[r]] = cookie[r]]
    /\ cookie' = [cookie EXCEPT ![r] = NoId]
    /\ UNCHANGED <<enabled, store, owner, pc, sid, raw, sess, held,
                   invalidated>>

\* Faulty variant of Purge: an entry that does not decode is passed over.
PurgeSkipsTorn ==
    /\ ~Disabled
    /\ store' = [id \in Ids |->
                    IF Present(store, id) /\ store[id].value = Torn
                    THEN store[id]
                    ELSE Purged(store)[id]]
    /\ UNCHANGED <<enabled, owner, jar, requestVars, invalidated>>

Purge ==
    /\ ~Disabled
    /\ store' = Purged(store)
    /\ UNCHANGED <<enabled, owner, jar, requestVars, invalidated>>

\* FileStore.Purge gives up at the first error: only some entries are gone.
PurgeFails ==
    /\ "error" \in Faults
    /\ ~Disabled
    /\ \E gone \in SUBSET {id \in Ids : Present(store, id)
                                        /\ Expired(store[id])} :
           store' = [id \in Ids |-> IF id \in gone THEN Absent ELSE store[id]]
    /\ UNCHANGED <<enabled, owner, jar, requestVars, invalidated>>

Tick ==
    /\ store' = Aged(store)
    /\ held' = [r \in Requests |->
                   IF pc[r] \in Holding THEN Older(held[r]) ELSE held[r]]
    /\ UNCHANGED <<enabled, owner, jar, pc, sid, cookie, raw, sess,
                   invalidated>>

\* The process dies and is started again over the same or an empty store.
Crash ==
    /\ store' = IF Durable THEN store ELSE [id \in Ids |-> Absent]
    /\ pc' = [r \in Requests |-> IF pc[r] \in InFlight THEN "aborted" ELSE pc[r]]
    /\ sid' = [r \in Requests |-> NoId]
    /\ raw' = [r \in Requests |-> {}]
    /\ sess' = [r \in Requests |-> Blank]
    /\ held' = [r \in Requests |-> 0]
    /\ UNCHANGED <<enabled, owner, jar, cookie, invalidated>>

----------------------------------------------------------------------------

GetSessionStep(r) == Lookup(r) \/ Create(r) \/ Read(r) \/ Touch(r)

HandlerStep(r) ==
    \/ HandlerSet(r) \/ HandlerClear(r) \/ HandlerDestroy(r)
    \/ \E key \in Requests : HandlerDelete(r, key)

FaultStep(r) ==
    \/ LoadFails(r) \/ CreateFails(r) \/ WriteBackFails(r)
    \/ CreateTears(r) \/ SaveTears(r)

RequestStep(r) ==
    \/ BeginWithCookie(r) \/ BeginWithoutCookie(r)
    \/ CheckExists(r) \/ Refuse(r) \/ GetSessionStep(r)
    \/ HandlerStep(r) \/ HandlerReturns(r) \/ HandlerPanics(r)
    \/ DeleteSession(r) \/ SaveSession(r)
    \/ FaultStep(r) \/ Deliver(r)

Next ==
    \/ \E r \in Requests : RequestStep(r)
    \/ Purge \/ PurgeFails \/ Tick \/ Crash

Spec == Init /\ [][Next]_vars

\* Time passes, and the scheduler of the engine keeps running the purge job.
FairSpec == Spec /\ WF_vars(Tick) /\ WF_vars(Purge)

----------------------------------------------------------------------------
(* Properties.                                                             *)

(* The variables keep their types, and a request has an id to work with -  *)
(* its cookie's, which may be the empty one, or the one it was issued -    *)
(* exactly while it is in flight.                                          *)
TypeOK ==
    /\ enabled \in EnabledChoices
    /\ store \in [Ids -> {Absent} \cup Entry(Values)]
    /\ owner \in [FreshIds -> Clients \cup {Nobody}]
    /\ jar \in [Clients -> Ids \cup {NoId}]
    /\ pc \in [Requests -> Places]
    /\ sid \in [Requests -> Ids \cup {NoId}]
    /\ cookie \in [Requests -> FreshIds \cup {NoId}]
    /\ raw \in [Requests -> Values]
    /\ sess \in [Requests -> Session]
    /\ held \in [Requests -> Ages]
    /\ invalidated \in SUBSET Ids
    /\ \A r \in Requests : pc[r] \in InFlight <=> sid[r] # NoId

IssuedTo(client) == {id \in FreshIds : owner[id] = client}

(* Only ids that NewId issued ever name a stored session, whatever ids the *)
(* cookies carry, and past the check of its cookie a request works only    *)
(* under an id issued to its own client, never under a foreign or an empty *)
(* one: Sessioned replaces an id that the store does not know.             *)
OnlyIssuedIds ==
    /\ \A id \in Ids : Present(store, id) =>
           \E c \in Clients : id \in IssuedTo(c)
    /\ \A r \in Requests : pc[r] \in Admitted => sid[r] \in IssuedTo(ClientOf[r])

(* What one client's requests wrote is never seen by a handler that works  *)
(* for another client, however their requests, purges and crashes overlap. *)
Isolation ==
    \A r \in Requests : pc[r] \in Holding =>
        \A key \in sess[r].data : ClientOf[key] = ClientOf[r]

(* While a request holds its session, and for no longer than AgeLimit, the *)
(* entry stays in the store, no older than the Touch that GetSession made: *)
(* neither the purge job nor another request's failure takes it away; only *)
(* a DeleteSession does.                                                   *)
KeptAlive ==
    \A r \in Requests :
        (pc[r] \in Holding /\ held[r] <= AgeLimit /\ sid[r] \notin invalidated)
            => /\ Present(store, sid[r])
               /\ store[sid[r]].age <= held[r]

(* The id that a request has just been issued is its own: nothing is       *)
(* stored under it and no other request or cookie jar has it, so that the  *)
(* blank session GetSession stores cannot replace anybody's data.          *)
NewIdIsPrivate ==
    \A r \in Requests :
        (pc[r] \in {"lookup", "create"} /\ cookie[r] # NoId)
            => /\ ~Present(store, sid[r])
               /\ \A other \in Requests \ {r} : sid[other] # sid[r]
               /\ \A c \in Clients : jar[c] # sid[r]

\* An issued id without an entry that no request past its check works with.
Gone(id) ==
    /\ owner[id] # Nobody
    /\ ~Present(store, id)
    /\ \A r \in Requests : pc[r] \in Admitted => sid[r] # id

(* Once a session is deleted or purged and the requests that were already  *)
(* past their check are over, its id stays unknown for ever: no request    *)
(* brings it back, even though clients still send it.                      *)
GoneForGood == [][\A id \in FreshIds : Gone(id) => Gone(id)']_vars

(* A handler that did not change the session writes nothing: an entry's    *)
(* value is replaced only by a request whose handler changed its session,  *)
(* unless the entry is new, is removed, or is the blank one GetSession     *)
(* stores for an id that it did not find.                                  *)
OnlyChangesAreSaved ==
    [][\A id \in Ids :
          (/\ Present(store, id)
           /\ Present(store, id)'
           /\ store'[id].value # store[id].value)
              => \E r \in Requests :
                     /\ sid[r] = id
                     /\ \/ pc[r] = "save" /\ sess[r].changed
                        \/ pc[r] = "create"]_vars

(* Sessions nobody uses go away: once all requests are over, or stuck in   *)
(* their handlers, the purge job empties the store.                        *)
Drains == <>[](\A id \in Ids : ~Present(store, id))

(* "subsequent reads must not return the session": an id that a            *)
(* DeleteSession invalidated is not accepted from a cookie again.          *)
InvalidatedIsRefused ==
    [][\A r \in Requests :
          (pc[r] = "check" /\ sid[r] \in invalidated /\ pc'[r] # "check")
              => sid'[r] # sid[r]]_vars

(* "Missing, invalid, expired, or unknown session IDs are replaced": the   *)
(* id of an expired session is not accepted from a cookie.                 *)
ExpiredIsReplaced ==
    [][\A r \in Requests :
          (/\ pc[r] = "check"
           /\ Present(store, sid[r])
           /\ Expired(store[sid[r]])
           /\ pc'[r] # "check") => sid'[r] # sid[r]]_vars

(* "Enabled: Enables the engine": with Enabled false nothing is stored.    *)
DisabledStoresNothing ==
    enabled = "false" => \A id \in Ids : ~Present(store, id)
===============================================================================

