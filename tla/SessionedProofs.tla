---------------------------- MODULE SessionedProofs ----------------------------
(***************************************************************************)
(* Theorems about Sessioned, for any number of clients, requests and ids,  *)
(* any AgeLimit, with or without failing store calls, and with a store     *)
(* that survives a crash or does not.                                      *)
(***************************************************************************)
EXTENDS Sessioned, TLAPS

USE LimitAssumption, ClientAssumption, IdAssumption, DistinctAssumption,
    ChoiceAssumption

(***************************************************************************)
(* What the operations of a store return, whatever the ids and values.     *)
(***************************************************************************)
LEMMA AgesAreNumbers ==
    /\ 0 \in Ages
    /\ \A age \in Ages : Older(age) \in Ages
BY DEF Ages, Older

LEMMA StoreOperationsTyped ==
    ASSUME NEW st \in [Ids -> {Absent} \cup Entry(Values)],
           NEW id \in Ids
    PROVE  /\ \A v \in Values : Put(st, id, v) \in [Ids -> {Absent} \cup Entry(Values)]
           /\ Remove(st, id) \in [Ids -> {Absent} \cup Entry(Values)]
           /\ Present(st, id) => /\ st[id] \in Entry(Values)
                                 /\ Refresh(st, id) \in [Ids -> {Absent} \cup Entry(Values)]
BY AgesAreNumbers DEF Put, Remove, Refresh, Present, Entry

LEMMA StoreSweepsTyped ==
    ASSUME NEW st \in [Ids -> {Absent} \cup Entry(Values)]
    PROVE  /\ Purged(st) \in [Ids -> {Absent} \cup Entry(Values)]
           /\ Aged(st) \in [Ids -> {Absent} \cup Entry(Values)]
BY AgesAreNumbers DEF Purged, Aged, Entry

LEMMA FinishTyped ==
    ASSUME TypeOK, NEW r \in Requests, NEW outcome \in Ended, Finish(r, outcome)
    PROVE  /\ pc' \in [Requests -> Places]
           /\ sid' \in [Requests -> Ids \cup {NoId}]
           /\ raw' \in [Requests -> Values]
           /\ sess' \in [Requests -> Session]
           /\ held' \in [Requests -> Ages]
           /\ \A q \in Requests : pc'[q] \in InFlight <=> sid'[q] # NoId
BY AgesAreNumbers DEF TypeOK, Finish, Places, InFlight, Admitted, Ended, Session, Blank, Values

LEMMA IssueTyped ==
    ASSUME TypeOK, NEW r \in Requests, Issue(r)
    PROVE  /\ owner' \in [FreshIds -> Clients \cup {Nobody}]
           /\ sid' \in [Requests -> Ids \cup {NoId}]
           /\ cookie' \in [Requests -> FreshIds \cup {NoId}]
           /\ pc' \in [Requests -> Places]
           /\ \A q \in Requests : pc'[q] \in InFlight <=> sid'[q] # NoId
BY DEF TypeOK, Issue, Unissued, Goto, Places, InFlight, Admitted, Ids

LEMMA HeldIdIsAnId ==
    ASSUME TypeOK, NEW r \in Requests, pc[r] \in InFlight
    PROVE  sid[r] \in Ids
BY DEF TypeOK

LEMMA TypeInit == Init => TypeOK
BY AgesAreNumbers
DEF Init, TypeOK, Places, InFlight, Admitted, Ended, Session, Blank, Values, Ids

LEMMA TypeStep == TypeOK /\ [Next]_vars => TypeOK'
<1> SUFFICES ASSUME TypeOK, [Next]_vars
             PROVE  TypeOK'
  OBVIOUS
<1>1. ASSUME NEW r \in Requests, BeginWithCookie(r)
      PROVE  TypeOK'
  BY <1>1 DEF TypeOK, BeginWithCookie, Goto, Places, InFlight, Admitted, Ended
<1>2. ASSUME NEW r \in Requests, BeginWithoutCookie(r)
      PROVE  TypeOK'
  BY <1>2, IssueTyped DEF TypeOK, BeginWithoutCookie
<1>3. ASSUME NEW r \in Requests, CheckExists(r)
      PROVE  TypeOK'
  BY <1>3, IssueTyped
  DEF TypeOK, CheckExists, Goto, Places, InFlight, Admitted
<1>4. ASSUME NEW r \in Requests, Refuse(r)
      PROVE  TypeOK'
  BY <1>4, FinishTyped DEF TypeOK, Refuse, Ended
<1>5. ASSUME NEW r \in Requests, Lookup(r)
      PROVE  TypeOK'
  BY <1>5 DEF TypeOK, Lookup, Goto, Places, InFlight, Admitted, Ended
<1>6. ASSUME NEW r \in Requests, Create(r)
      PROVE  TypeOK'
  <2>1. sid[r] \in Ids /\ {} \in Values
    BY <1>6, HeldIdIsAnId DEF Create, InFlight, Admitted, Values
  <2>2. Put(store, sid[r], {}) \in [Ids -> {Absent} \cup Entry(Values)]
    BY <2>1, StoreOperationsTyped DEF TypeOK
  <2>. QED
    BY <1>6, <2>2 DEF TypeOK, Create, Goto, Places, InFlight, Admitted
<1>7. ASSUME NEW r \in Requests, Read(r)
      PROVE  TypeOK'
  BY <1>7, FinishTyped
  DEF TypeOK, Read, Goto, Places, InFlight, Admitted, Ended, Present, Entry
<1>8. ASSUME NEW r \in Requests, Touch(r)
      PROVE  TypeOK'
  <2>1. CASE ~Present(store, sid[r])
    BY <1>8, <2>1, FinishTyped DEF TypeOK, Touch, Ended
  <2>2. CASE Present(store, sid[r])
    <3>1. store' \in [Ids -> {Absent} \cup Entry(Values)]
      BY <1>8, <2>2, HeldIdIsAnId, StoreOperationsTyped DEF TypeOK, Touch, InFlight, Admitted
    <3>2. CASE raw[r] = Torn
      BY <1>8, <2>2, <3>1, <3>2, FinishTyped DEF TypeOK, Touch, Ended
    <3>3. CASE raw[r] # Torn
      <4>1. Loaded(raw[r]) \in Session
        BY <3>3 DEF TypeOK, Loaded, Session, Values
      <4>2. /\ sess' = [sess EXCEPT ![r] = Loaded(raw[r])]
            /\ held' = [held EXCEPT ![r] = 0]
            /\ raw' = [raw EXCEPT ![r] = {}]
            /\ pc[r] = "touch" /\ pc' = [pc EXCEPT ![r] = "handler"]
            /\ UNCHANGED <<enabled, owner, jar, sid, cookie, invalidated>>
        BY <1>8, <2>2, <3>3 DEF Touch, Goto
      <4>3. {} \in Values
        BY DEF Values
      <4>. QED
        BY <3>1, <4>1, <4>2, <4>3, AgesAreNumbers
        DEF TypeOK, Places, InFlight, Admitted
    <3>. QED
      BY <3>2, <3>3
  <2>. QED
    BY <2>1, <2>2
<1>9. ASSUME NEW r \in Requests, HandlerStep(r)
      PROVE  TypeOK'
  <2>1. \A data \in SUBSET Requests : Mutate(r, data) => TypeOK'
    BY DEF TypeOK, Mutate, Session
  <2>2. sess[r].data \in SUBSET Requests
    BY DEF TypeOK, Session
  <2>3. CASE HandlerDestroy(r)
    BY <2>3 DEF TypeOK, HandlerDestroy, Session
  <2>. QED
    BY <1>9, <2>1, <2>2, <2>3
    DEF HandlerStep, HandlerSet, HandlerDelete, HandlerClear
<1>10. ASSUME NEW r \in Requests, HandlerReturns(r)
      PROVE  TypeOK'
  BY <1>10, FinishTyped
  DEF TypeOK, HandlerReturns, Goto, Places, InFlight, Admitted, Ended
<1>11. ASSUME NEW r \in Requests, HandlerPanics(r)
      PROVE  TypeOK'
  BY <1>11, FinishTyped
  DEF TypeOK, HandlerPanics, Ended
<1>12. ASSUME NEW r \in Requests, DeleteSession(r)
      PROVE  TypeOK'
  <2>1. sid[r] \in Ids
    BY <1>12, HeldIdIsAnId DEF DeleteSession, InFlight, Admitted
  <2>. QED
    BY <1>12, <2>1, FinishTyped, StoreOperationsTyped
    DEF TypeOK, DeleteSession, Ended
<1>13. ASSUME NEW r \in Requests, SaveSession(r)
      PROVE  TypeOK'
  <2>1. sid[r] \in Ids
    BY <1>13, HeldIdIsAnId DEF SaveSession, InFlight, Admitted
  <2>2. sess[r].data \in Values
    BY DEF TypeOK, Session, Values
  <2>. QED
    BY <1>13, <2>1, <2>2, FinishTyped, StoreOperationsTyped
    DEF TypeOK, SaveSession, Ended
<1>14. ASSUME NEW r \in Requests, FaultStep(r)
      PROVE  TypeOK'
  <2>1. CASE LoadFails(r) \/ WriteBackFails(r)
    BY <2>1, FinishTyped DEF TypeOK, LoadFails, WriteBackFails, Ended
  <2>2. CASE CreateFails(r)
    BY <2>2 DEF TypeOK, CreateFails, Goto, Places, InFlight, Admitted
  <2>3. pc[r] \in {"create", "save"} =>
           Put(store, sid[r], Torn) \in [Ids -> {Absent} \cup Entry(Values)]
    BY HeldIdIsAnId, StoreOperationsTyped
    DEF TypeOK, InFlight, Admitted, Values
  <2>4. CASE CreateTears(r)
    BY <2>3, <2>4 DEF TypeOK, CreateTears, Goto, Places, InFlight, Admitted
  <2>5. CASE SaveTears(r)
    BY <2>3, <2>5, FinishTyped DEF TypeOK, SaveTears, Ended
  <2>. QED
    BY <1>14, <2>1, <2>2, <2>4, <2>5 DEF FaultStep
<1>15. ASSUME NEW r \in Requests, Deliver(r)
      PROVE  TypeOK'
  BY <1>15
  DEF TypeOK, Deliver, Ids
<1>16. CASE Purge
  BY <1>16, StoreSweepsTyped DEF TypeOK, Purge, requestVars
<1>17. CASE PurgeFails
  BY <1>17 DEF TypeOK, PurgeFails, requestVars, Entry
<1>18. CASE Tick
  BY <1>18, StoreSweepsTyped, AgesAreNumbers DEF TypeOK, Tick
<1>19. CASE Crash
  BY <1>19, AgesAreNumbers DEF TypeOK, Crash, Places, InFlight, Admitted, Ended, Session, Blank, Values
<1>20. CASE UNCHANGED vars
  BY <1>20 DEF TypeOK, vars, requestVars
<1>. QED
  BY <1>1, <1>2, <1>3, <1>4, <1>5, <1>6, <1>7, <1>8, <1>9, <1>10, <1>11, <1>12, <1>13, <1>14, <1>15, <1>16, <1>17, <1>18, <1>19, <1>20
  DEF Next, RequestStep, GetSessionStep

\* The variables keep their types, and a request has an id - its cookie's, which
\* may be the empty one, or the one it was issued - exactly while it is in flight.
THEOREM TypeCorrect == Spec => []TypeOK
BY TypeInit, TypeStep, PTL DEF Spec
----------------------------------------------------------------------------
(***************************************************************************)
(* Ownership.  An id belongs to the client it was issued to, and every     *)
(* place an id or a key can be - the store, a cookie jar, a request, a     *)
(* Set-Cookie header - agrees with that.  OnlyIssuedIds and Isolation      *)
(* speak of the store and of handlers only; the jars, the headers and the  *)
(* bytes in flight are what makes them inductive.                          *)
(***************************************************************************)
IdsAreOwned ==
    /\ \A id \in Ids : Present(store, id) => id \in FreshIds /\ owner[id] # Nobody
    /\ \A c \in Clients : jar[c] \in FreshIds => owner[jar[c]] = c
    /\ \A r \in Requests : sid[r] \in FreshIds => owner[sid[r]] = ClientOf[r]
    /\ \A r \in Requests : pc[r] \in Admitted => sid[r] \in FreshIds
    /\ \A r \in Requests : cookie[r] # NoId => owner[cookie[r]] = ClientOf[r]

KeysAreOwned ==
    /\ \A id \in FreshIds : Present(store, id) /\ store[id].value # Torn =>
           \A key \in store[id].value : ClientOf[key] = owner[id]
    /\ \A r \in Requests : raw[r] # Torn =>
           \A key \in raw[r] : ClientOf[key] = ClientOf[r]
    /\ \A r \in Requests : \A key \in sess[r].data : ClientOf[key] = ClientOf[r]

\* What the operations do to one id and to the others.
LEMMA StoreOperationsAt ==
    ASSUME NEW st \in [Ids -> {Absent} \cup Entry(Values)],
           NEW id \in Ids, NEW other \in Ids, NEW v \in Values
    PROVE  /\ Put(st, id, v)[other] =
                  IF other = id THEN [value |-> v, age |-> 0] ELSE st[other]
           /\ Remove(st, id)[other] = IF other = id THEN Absent ELSE st[other]
           /\ Refresh(st, id)[other] =
                  IF other = id THEN [value |-> st[id].value, age |-> 0]
                                ELSE st[other]
           /\ [value |-> v, age |-> 0] # Absent
           /\ Present(st, id) => [value |-> st[id].value, age |-> 0] # Absent
           /\ Present(Purged(st), id) => /\ Present(st, id)
                                         /\ Purged(st)[id] = st[id]
           /\ Present(Aged(st), id) => /\ Present(st, id)
                                       /\ Aged(st)[id].value = st[id].value
           /\ Present(st, id) => Present(Aged(st), id)
  <1>1. \A w \in Values : [value |-> w, age |-> 0] # Absent
    BY AgesAreNumbers DEF Entry
  <1>2. Present(st, id) => st[id].value \in Values /\ st[id].age \in Ages
    BY DEF Present, Entry
  <1>3. Present(st, id) => [value |-> st[id].value, age |-> Older(st[id].age)] # Absent
    BY <1>2, AgesAreNumbers DEF Entry
  <1>. QED
    BY <1>1, <1>2, <1>3 DEF Put, Remove, Refresh, Present, Purged, Aged

\* A request step other than those that issue an id or admit a request keeps
\* the ownership of ids.
IdInv == TypeOK /\ IdsAreOwned

LEMMA IssueKeepsOwnership ==
    ASSUME IdInv, NEW r \in Requests, Issue(r), UNCHANGED <<store, jar>>
    PROVE  IdsAreOwned'
BY DEF IdInv, TypeOK, IdsAreOwned, Issue, Unissued, Goto, Admitted, Present, Ids

LEMMA FinishKeepsOwnership ==
    ASSUME IdInv, NEW r \in Requests, NEW outcome \in Ended, Finish(r, outcome),
           UNCHANGED <<owner, jar, cookie>>,
           \A id \in Ids : Present(store, id)' => Present(store, id) \/ id = sid[r],
           pc[r] \in InFlight, pc[r] = "check" => UNCHANGED store
    PROVE  IdsAreOwned'
BY DEF IdInv, TypeOK, IdsAreOwned, Finish, Admitted, InFlight, Ended, Present, Ids

LEMMA IdsStayOwned == IdInv /\ [Next]_vars => IdsAreOwned'
<1> SUFFICES ASSUME IdInv, [Next]_vars
             PROVE  IdsAreOwned'
  OBVIOUS
<1>. USE DEF IdInv
<1>1. ASSUME NEW r \in Requests, BeginWithCookie(r)
      PROVE  IdsAreOwned'
  BY <1>1 DEF TypeOK, IdsAreOwned, BeginWithCookie, Goto, Present, Admitted
<1>2. ASSUME NEW r \in Requests, BeginWithoutCookie(r)
      PROVE  IdsAreOwned'
  BY <1>2, IssueKeepsOwnership DEF BeginWithoutCookie
<1>3. ASSUME NEW r \in Requests, CheckExists(r)
      PROVE  IdsAreOwned'
  <2>1. CASE Present(store, sid[r])
    BY <1>3, <2>1, HeldIdIsAnId
    DEF TypeOK, IdsAreOwned, CheckExists, Goto, Present, Admitted, InFlight
  <2>. QED
    BY <1>3, <2>1, IssueKeepsOwnership DEF CheckExists
<1>4. ASSUME NEW r \in Requests,
             Refuse(r) \/ HandlerPanics(r) \/ LoadFails(r) \/ WriteBackFails(r)
      PROVE  IdsAreOwned'
  BY <1>4, FinishKeepsOwnership
  DEF Refuse, HandlerPanics, LoadFails, WriteBackFails, Ended, InFlight,
      Admitted, Present
<1>5. ASSUME NEW r \in Requests, Lookup(r) \/ CreateFails(r)
      PROVE  IdsAreOwned'
  BY <1>5 DEF TypeOK, IdsAreOwned, Lookup, CreateFails, Goto, Present, Admitted
<1>6. ASSUME NEW r \in Requests, Create(r) \/ CreateTears(r)
      PROVE  IdsAreOwned'
  <2>1. sid[r] \in FreshIds /\ owner[sid[r]] # Nobody
    BY <1>6 DEF TypeOK, IdsAreOwned, Create, CreateTears, Admitted
  <2>2. PICK v \in Values : store' = Put(store, sid[r], v)
    BY <1>6 DEF Create, CreateTears, Values
  <2>3. \A id \in Ids : Present(store, id)' => Present(store, id) \/ id = sid[r]
    BY <2>1, <2>2 DEF TypeOK, Put, Present, Ids
  <2>. QED
    BY <1>6, <2>1, <2>3
    DEF TypeOK, IdsAreOwned, Create, CreateTears, Goto, Admitted
<1>7. ASSUME NEW r \in Requests, Read(r)
      PROVE  IdsAreOwned'
  <2>1. CASE Present(store, sid[r])
    BY <1>7, <2>1 DEF TypeOK, IdsAreOwned, Read, Goto, Present, Admitted
  <2>. QED
    BY <1>7, <2>1, FinishKeepsOwnership
    DEF Read, Ended, InFlight, Admitted, Present
<1>8. ASSUME NEW r \in Requests, Touch(r)
      PROVE  IdsAreOwned'
  <2>1. sid[r] \in FreshIds
    BY <1>8 DEF IdsAreOwned, Touch, Admitted
  <2>2. \A id \in Ids : Present(store, id)' => Present(store, id) \/ id = sid[r]
    BY <1>8, <2>1, StoreOperationsAt DEF TypeOK, Touch, Present, Refresh, Ids
  <2>3. CASE Finish(r, "failed")
    BY <1>8, <2>2, <2>3, FinishKeepsOwnership
    DEF Touch, Ended, InFlight, Admitted
  <2>. QED
    BY <1>8, <2>1, <2>2, <2>3
    DEF TypeOK, IdsAreOwned, Touch, Goto, Admitted
<1>9. ASSUME NEW r \in Requests, HandlerStep(r)
      PROVE  IdsAreOwned'
  BY <1>9
  DEF IdsAreOwned, HandlerStep, HandlerSet, HandlerDelete, HandlerClear,
      HandlerDestroy, Mutate, Present
<1>10. ASSUME NEW r \in Requests, HandlerReturns(r)
       PROVE  IdsAreOwned'
  <2>1. CASE Finish(r, "served")
    BY <1>10, <2>1, FinishKeepsOwnership
    DEF HandlerReturns, Ended, InFlight, Admitted, Present
  <2>. QED
    BY <1>10, <2>1
    DEF TypeOK, IdsAreOwned, HandlerReturns, Goto, Present, Admitted
<1>11. ASSUME NEW r \in Requests, DeleteSession(r) \/ SaveSession(r) \/ SaveTears(r)
       PROVE  IdsAreOwned'
  <2>1. sid[r] \in FreshIds /\ pc[r] \in InFlight /\ pc[r] # "check"
    BY <1>11 DEF IdsAreOwned, DeleteSession, SaveSession, SaveTears, Admitted, InFlight
  <2>2. sess[r].data \in Values /\ Torn \in Values
    BY DEF TypeOK, Session, Values
  <2>3. \A id \in Ids : Present(store, id)' => Present(store, id) \/ id = sid[r]
    BY <1>11, <2>1, <2>2
    DEF TypeOK, DeleteSession, SaveSession, SaveTears, Put, Remove, Present, Ids
  <2>. QED
    BY <1>11, <2>1, <2>3, FinishKeepsOwnership
    DEF DeleteSession, SaveSession, SaveTears, Ended
<1>12. ASSUME NEW r \in Requests, Deliver(r)
       PROVE  IdsAreOwned'
  BY <1>12 DEF TypeOK, IdsAreOwned, Deliver, Present
<1>13. CASE Purge \/ Tick
  <2>1. \A id \in Ids : Present(store, id)' => Present(store, id)
    BY <1>13 DEF TypeOK, Purge, Tick, Purged, Aged, Present
  <2>. QED
    BY <1>13, <2>1 DEF IdsAreOwned, Purge, Tick, requestVars
<1>14. CASE PurgeFails
  BY <1>14 DEF TypeOK, IdsAreOwned, PurgeFails, requestVars, Present
<1>15. CASE Crash
  BY <1>15
  DEF TypeOK, IdsAreOwned, Crash, Present, Ids, InFlight, Admitted
<1>16. CASE UNCHANGED vars
  BY <1>16 DEF IdsAreOwned, vars, requestVars, Present
<1>. QED
  BY <1>1, <1>2, <1>3, <1>4, <1>5, <1>6, <1>7, <1>8, <1>9, <1>10, <1>11,
     <1>12, <1>13, <1>14, <1>15, <1>16
  DEF Next, RequestStep, GetSessionStep, FaultStep

----------------------------------------------------------------------------
(* Keys: what a request reads, holds and writes back is its own client's.  *)

\* A request that ends drops its bytes and its session.
LEMMA FinishKeepsKeys ==
    ASSUME TypeOK, KeysAreOwned, NEW r \in Requests, NEW outcome, Finish(r, outcome),
           UNCHANGED owner,
           \A id \in FreshIds : Present(store, id)' /\ store'[id].value # Torn =>
               \A key \in store'[id].value : ClientOf[key] = owner[id]
    PROVE  KeysAreOwned'
BY DEF TypeOK, KeysAreOwned, Finish, Blank

\* A value written under the id of a request is its own client's.
LEMMA PutKeepsKeys ==
    ASSUME IdInv, KeysAreOwned, NEW r \in Requests, pc[r] \in Admitted,
           NEW v \in Values, store' = Put(store, sid[r], v), UNCHANGED owner,
           v # Torn => \A key \in v : ClientOf[key] = ClientOf[r]
    PROVE  \A id \in FreshIds : Present(store, id)' /\ store'[id].value # Torn =>
               \A key \in store'[id].value : ClientOf[key] = owner[id]
  <1>1. sid[r] \in FreshIds /\ owner[sid[r]] = ClientOf[r]
    BY DEF IdInv, IdsAreOwned
  <1>2. \A id \in FreshIds : store'[id] = IF id = sid[r]
                                          THEN [value |-> v, age |-> 0]
                                          ELSE store[id]
    BY <1>1 DEF IdInv, TypeOK, Put, Ids
  <1>3. ASSUME NEW id \in FreshIds, Present(store, id)', store'[id].value # Torn,
               NEW key \in store'[id].value
        PROVE  ClientOf[key] = owner[id]
    BY <1>1, <1>2, <1>3 DEF KeysAreOwned, Present
  <1>. QED
    BY <1>3

LEMMA KeysStayOwned == IdInv /\ KeysAreOwned /\ [Next]_vars => KeysAreOwned'
<1> SUFFICES ASSUME IdInv, KeysAreOwned, [Next]_vars
             PROVE  KeysAreOwned'
  OBVIOUS
<1>. USE DEF IdInv
<1>1. ASSUME NEW r \in Requests,
             \/ BeginWithCookie(r) \/ Lookup(r) \/ CreateFails(r) \/ Deliver(r)
      PROVE  KeysAreOwned'
  BY <1>1
  DEF TypeOK, KeysAreOwned, BeginWithCookie, Lookup, CreateFails, Deliver, Present
<1>2. ASSUME NEW r \in Requests, BeginWithoutCookie(r) \/ CheckExists(r)
      PROVE  KeysAreOwned'
  <2>1. \A id \in FreshIds : Present(store, id) => owner'[id] = owner[id]
    BY <1>2
    DEF TypeOK, IdsAreOwned, BeginWithoutCookie, CheckExists, Issue, Unissued, Ids
  <2>. QED
    BY <1>2, <2>1
    DEF TypeOK, KeysAreOwned, BeginWithoutCookie, CheckExists, Present
<1>3. ASSUME NEW r \in Requests,
             \/ Refuse(r) \/ HandlerPanics(r) \/ LoadFails(r) \/ WriteBackFails(r)
      PROVE  KeysAreOwned'
  BY <1>3, FinishKeepsKeys
  DEF TypeOK, KeysAreOwned, Refuse, HandlerPanics, LoadFails, WriteBackFails, Present
<1>4. ASSUME NEW r \in Requests, Create(r) \/ CreateTears(r)
      PROVE  KeysAreOwned'
  <2>1. pc[r] \in Admitted /\ UNCHANGED <<owner, raw, sess>>
    BY <1>4 DEF Create, CreateTears, Admitted
  <2>2. PICK v \in {{}, Torn} : store' = Put(store, sid[r], v)
    BY <1>4 DEF Create, CreateTears
  <2>3. v \in Values /\ (v # Torn => \A key \in v : ClientOf[key] = ClientOf[r])
    BY DEF Values
  <2>. QED
    BY <2>1, <2>2, <2>3, PutKeepsKeys DEF KeysAreOwned
<1>5. ASSUME NEW r \in Requests, Read(r)
      PROVE  KeysAreOwned'
  <2>1. CASE Present(store, sid[r])
    <3>1. sid[r] \in FreshIds /\ owner[sid[r]] = ClientOf[r]
      BY <1>5 DEF IdsAreOwned, Read, Admitted
    <3>. QED
      BY <1>5, <2>1, <3>1 DEF TypeOK, KeysAreOwned, Read, Present
  <2>. QED
    BY <1>5, <2>1, FinishKeepsKeys DEF TypeOK, KeysAreOwned, Read, Present
<1>6. ASSUME NEW r \in Requests, Touch(r)
      PROVE  KeysAreOwned'
  <2>1. sid[r] \in FreshIds
    BY <1>6 DEF IdsAreOwned, Touch, Admitted
  <2>2. \A id \in FreshIds : Present(store, id)' =>
            Present(store, id) /\ store'[id].value = store[id].value
    BY <1>6, <2>1 DEF TypeOK, Touch, Refresh, Present, Ids
  <2>3. CASE Finish(r, "failed")
    BY <1>6, <2>2, <2>3, FinishKeepsKeys DEF KeysAreOwned, Touch
  <2>4. CASE ~Finish(r, "failed")
    <3>1. /\ raw[r] # Torn /\ UNCHANGED owner
          /\ sess' = [sess EXCEPT ![r] = Loaded(raw[r])]
          /\ raw' = [raw EXCEPT ![r] = {}]
      BY <1>6, <2>4 DEF Touch
    <3>2. \A q \in Requests : raw'[q] # Torn =>
              \A key \in raw'[q] : ClientOf[key] = ClientOf[q]
      BY <3>1 DEF TypeOK, KeysAreOwned
    <3>3. \A q \in Requests : \A key \in sess'[q].data : ClientOf[key] = ClientOf[q]
      BY <3>1 DEF TypeOK, KeysAreOwned, Loaded
    <3>. QED
      BY <2>2, <3>1, <3>2, <3>3 DEF KeysAreOwned
  <2>. QED
    BY <2>3, <2>4
<1>7. ASSUME NEW r \in Requests, HandlerStep(r)
      PROVE  KeysAreOwned'
  <2>1. /\ UNCHANGED <<store, owner, raw>>
        /\ \A q \in Requests : q # r => sess'[q].data = sess[q].data
        /\ sess'[r].data \subseteq sess[r].data \cup {r}
    <3>1. CASE HandlerSet(r)
      BY <3>1 DEF TypeOK, HandlerSet, Mutate
    <3>2. CASE \E key \in Requests : HandlerDelete(r, key)
      BY <3>2 DEF TypeOK, HandlerDelete, Mutate
    <3>3. CASE HandlerClear(r)
      BY <3>3 DEF TypeOK, HandlerClear, Mutate
    <3>4. CASE HandlerDestroy(r)
      BY <3>4 DEF TypeOK, HandlerDestroy
    <3>. QED
      BY <1>7, <3>1, <3>2, <3>3, <3>4 DEF HandlerStep
  <2>2. \A q \in Requests : \A key \in sess'[q].data : ClientOf[key] = ClientOf[q]
    BY <2>1 DEF KeysAreOwned
  <2>. QED
    BY <2>1, <2>2 DEF KeysAreOwned, Present
<1>8. ASSUME NEW r \in Requests, HandlerReturns(r) \/ DeleteSession(r)
      PROVE  KeysAreOwned'
  <2>1. \A id \in FreshIds : Present(store, id)' =>
            Present(store, id) /\ store'[id] = store[id]
    BY <1>8 DEF TypeOK, HandlerReturns, DeleteSession, Remove, Present, Ids
  <2>2. CASE Finish(r, "served")
    BY <1>8, <2>1, <2>2, FinishKeepsKeys
    DEF KeysAreOwned, HandlerReturns, DeleteSession
  <2>. QED
    BY <1>8, <2>1, <2>2 DEF KeysAreOwned, HandlerReturns, DeleteSession
<1>9. ASSUME NEW r \in Requests, SaveSession(r) \/ SaveTears(r)
      PROVE  KeysAreOwned'
  <2>1. /\ pc[r] \in Admitted /\ UNCHANGED owner /\ Finish(r, "served")
        /\ sess[r].data \in SUBSET Requests
    BY <1>9 DEF TypeOK, SaveSession, SaveTears, Admitted, Session
  <2>2. sid[r] # EmptyId
    BY <2>1 DEF IdsAreOwned
  <2>3. PICK v \in {sess[r].data, Torn} : store' = Put(store, sid[r], v)
    BY <1>9, <2>2 DEF SaveSession, SaveTears
  <2>4. v \in Values /\ (v # Torn => \A key \in v : ClientOf[key] = ClientOf[r])
    BY <2>1 DEF Values, KeysAreOwned
  <2>5. \A id \in FreshIds : Present(store, id)' /\ store'[id].value # Torn =>
            \A key \in store'[id].value : ClientOf[key] = owner[id]
    BY <2>1, <2>3, <2>4, PutKeepsKeys
  <2>. QED
    BY <2>1, <2>5, FinishKeepsKeys
<1>10. CASE Purge \/ PurgeFails \/ Tick
  <2>1. \A id \in Ids : Present(store, id)' =>
            Present(store, id) /\ store'[id].value = store[id].value
    BY <1>10 DEF TypeOK, Purge, PurgeFails, Tick, Purged, Aged, Present
  <2>. QED
    BY <1>10, <2>1 DEF KeysAreOwned, Purge, PurgeFails, Tick, requestVars, Ids
<1>11. CASE Crash
  BY <1>11 DEF TypeOK, KeysAreOwned, Crash, Present, Ids, Blank
<1>12. CASE UNCHANGED vars
  BY <1>12 DEF KeysAreOwned, vars, requestVars, Present
<1>. QED
  BY <1>1, <1>2, <1>3, <1>4, <1>5, <1>6, <1>7, <1>8, <1>9, <1>10, <1>11, <1>12
  DEF Next, RequestStep, GetSessionStep, FaultStep

\* The inductive invariant of the two theorems below.
OwnershipInv == TypeOK /\ IdsAreOwned /\ KeysAreOwned

LEMMA OwnershipInvariant == Spec => []OwnershipInv
<1>1. Init => OwnershipInv
  BY TypeInit DEF Init, OwnershipInv, IdsAreOwned, KeysAreOwned, Present, Admitted,
                  Blank, Ids
<1>2. OwnershipInv /\ [Next]_vars => OwnershipInv'
  BY TypeStep, IdsStayOwned, KeysStayOwned DEF OwnershipInv, IdInv
<1>. QED
  BY <1>1, <1>2, PTL DEF Spec

\* Only ids that NewId issued name stored sessions, and a request works only
\* under an id of its own client: an unknown id from a cookie is replaced.
THEOREM OnlyIssuedIdsHolds == Spec => []OnlyIssuedIds
<1>1. OwnershipInv => OnlyIssuedIds
  BY DEF OwnershipInv, TypeOK, IdsAreOwned, OnlyIssuedIds, IssuedTo
<1>. QED
  BY <1>1, OwnershipInvariant, PTL

\* No handler ever sees what a request of another client wrote.
THEOREM IsolationHolds == Spec => []Isolation
<1>1. OwnershipInv => Isolation
  BY DEF OwnershipInv, KeysAreOwned, Isolation
<1>. QED
  BY <1>1, OwnershipInvariant, PTL

----------------------------------------------------------------------------
(***************************************************************************)
(* Sessions in use stay.  KeptAlive is inductive once typed: every store   *)
(* call but Purge, Delete and the clock leaves an entry as it was or as    *)
(* young as can be, and an entry younger than its holder is not purged     *)
(* before the holder's own time is over.                                   *)
(***************************************************************************)
LEMMA QuietStepsKeepAlive ==
    ASSUME TypeOK, KeptAlive,
           \A id \in Ids : (Present(store, id) /\ id \notin invalidated') =>
               \/ store'[id] = store[id]
               \/ Present(store, id)' /\ store'[id].age = 0,
           \A r \in Requests : pc'[r] \in Holding =>
               pc[r] \in Holding /\ sid'[r] = sid[r] /\ held'[r] = held[r],
           invalidated \subseteq invalidated'
    PROVE  KeptAlive'
<1> SUFFICES ASSUME NEW r \in Requests, pc'[r] \in Holding, held'[r] <= AgeLimit,
                    sid'[r] \notin invalidated'
             PROVE  Present(store, sid[r])' /\ store'[sid'[r]].age <= held'[r]
  BY DEF KeptAlive, Present
<1>1. pc[r] \in Holding /\ sid'[r] = sid[r] /\ held'[r] = held[r]
  OBVIOUS
<1>2. sid[r] \in Ids /\ held[r] \in Nat
  BY <1>1, HeldIdIsAnId DEF TypeOK, Holding, InFlight, Admitted, Ages
<1>3. Present(store, sid[r]) /\ store[sid[r]].age <= held[r]
  BY <1>1 DEF KeptAlive
<1>. QED
  BY <1>1, <1>2, <1>3 DEF Present

LEMMA PutIsYoung ==
    ASSUME TypeOK, NEW id \in Ids, NEW v \in Values, store' = Put(store, id, v)
    PROVE  \A other \in Ids : Present(store, other) =>
               \/ store'[other] = store[other]
               \/ Present(store, other)' /\ store'[other].age = 0
<1>1. [value |-> v, age |-> 0] # Absent
  BY AgesAreNumbers DEF Entry
<1>. QED
  BY <1>1 DEF TypeOK, Put, Present

LEMMA StaysAlive == TypeOK /\ KeptAlive /\ [Next]_vars => KeptAlive'
<1> SUFFICES ASSUME TypeOK, KeptAlive, [Next]_vars
             PROVE  KeptAlive'
  OBVIOUS
<1>1. ASSUME NEW r \in Requests,
             \/ BeginWithCookie(r) \/ BeginWithoutCookie(r) \/ CheckExists(r)
             \/ Lookup(r) \/ CreateFails(r) \/ HandlerStep(r) \/ Deliver(r)
      PROVE  KeptAlive'
  <2>1. /\ UNCHANGED <<store, held, invalidated>>
        /\ \A q \in Requests : pc'[q] \in Holding => pc[q] \in Holding /\ sid'[q] = sid[q]
    BY <1>1
    DEF TypeOK, BeginWithCookie, BeginWithoutCookie, CheckExists, Lookup,
        CreateFails, HandlerStep, HandlerSet, HandlerDelete, HandlerClear,
        HandlerDestroy, Mutate, Deliver, Issue, Goto, Holding
  <2>. QED
    BY <2>1, QuietStepsKeepAlive
<1>2. ASSUME NEW r \in Requests, Create(r) \/ CreateTears(r)
      PROVE  KeptAlive'
  <2>1. sid[r] \in Ids
    BY <1>2, HeldIdIsAnId DEF Create, CreateTears, InFlight, Admitted
  <2>2. PICK v \in {{}, Torn} : store' = Put(store, sid[r], v)
    BY <1>2 DEF Create, CreateTears
  <2>3. \A id \in Ids : Present(store, id) =>
            \/ store'[id] = store[id]
            \/ Present(store, id)' /\ store'[id].age = 0
    <3>1. v \in Values
      BY DEF Values
    <3>. QED
      BY <2>1, <2>2, <3>1, PutIsYoung
  <2>4. /\ UNCHANGED <<held, sid, invalidated>>
        /\ \A q \in Requests : pc'[q] \in Holding => pc[q] \in Holding
    BY <1>2 DEF TypeOK, Create, CreateTears, Goto, Holding
  <2>. QED
    BY <2>3, <2>4, QuietStepsKeepAlive
<1>3. ASSUME NEW r \in Requests, NEW outcome \in Ended, Finish(r, outcome),
             \A id \in Ids : (Present(store, id) /\ id \notin invalidated') =>
                 \/ store'[id] = store[id]
                 \/ Present(store, id)' /\ store'[id].age = 0,
             invalidated \subseteq invalidated'
      PROVE  KeptAlive'
  <2>1. \A q \in Requests : pc'[q] \in Holding =>
            pc[q] \in Holding /\ sid'[q] = sid[q] /\ held'[q] = held[q]
    BY <1>3 DEF TypeOK, Finish, Holding, Ended
  <2>. QED
    BY <1>3, <2>1, QuietStepsKeepAlive
<1>4. ASSUME NEW r \in Requests,
             \/ Refuse(r) \/ HandlerPanics(r) \/ LoadFails(r) \/ WriteBackFails(r)
      PROVE  KeptAlive'
  BY <1>4, <1>3
  DEF Refuse, HandlerPanics, LoadFails, WriteBackFails, Ended
<1>5. ASSUME NEW r \in Requests, Read(r) \/ HandlerReturns(r)
      PROVE  KeptAlive'
  <2>1. CASE \E outcome \in Ended : Finish(r, outcome)
    BY <1>5, <2>1, <1>3 DEF Read, HandlerReturns
  <2>2. CASE /\ UNCHANGED <<sid, held>>
             /\ \A q \in Requests : pc'[q] \in Holding => pc[q] \in Holding
    BY <1>5, <2>2, QuietStepsKeepAlive DEF Read, HandlerReturns
  <2>. QED
    BY <1>5, <2>1, <2>2 DEF TypeOK, Read, HandlerReturns, Goto, Holding, Ended
<1>6. ASSUME NEW r \in Requests, SaveSession(r) \/ SaveTears(r) \/ DeleteSession(r)
      PROVE  KeptAlive'
  <2>1. sid[r] \in Ids /\ sess[r].data \in Values /\ Torn \in Values
    BY <1>6, HeldIdIsAnId
    DEF TypeOK, SaveSession, SaveTears, DeleteSession, InFlight, Admitted,
        Session, Values
  <2>2. \A id \in Ids : (Present(store, id) /\ id \notin invalidated') =>
            \/ store'[id] = store[id]
            \/ Present(store, id)' /\ store'[id].age = 0
    <3>1. CASE DeleteSession(r)
      <4>1. \/ store' = store
            \/ store' = Remove(store, sid[r]) /\ sid[r] \in invalidated'
        BY <3>1 DEF DeleteSession
      <4>. QED
        BY <2>1, <4>1 DEF TypeOK, Remove
    <3>2. CASE SaveSession(r) \/ SaveTears(r)
      <4>1. \/ store' = store
            \/ \E v \in Values : store' = Put(store, sid[r], v)
        BY <2>1, <3>2 DEF SaveSession, SaveTears
      <4>. QED
        BY <2>1, <4>1, PutIsYoung
    <3>. QED
      BY <1>6, <3>1, <3>2
  <2>. QED
    BY <1>6, <1>3, <2>2 DEF SaveSession, SaveTears, DeleteSession, Ended
<1>7. ASSUME NEW r \in Requests, Touch(r)
      PROVE  KeptAlive'
  <2>1. sid[r] \in Ids
    BY <1>7, HeldIdIsAnId DEF Touch, InFlight, Admitted
  <2>2. \A id \in Ids : Present(store, id) =>
            \/ store'[id] = store[id]
            \/ Present(store, id)' /\ store'[id].age = 0
    <3>1. CASE Present(store, sid[r])
      <4>1. /\ store[sid[r]].value \in Values
            /\ store' = Put(store, sid[r], store[sid[r]].value)
        BY <1>7, <2>1, <3>1 DEF TypeOK, Touch, Refresh, Put, Present, Entry
      <4>. QED
        BY <2>1, <4>1, PutIsYoung
    <3>. QED
      BY <1>7, <3>1 DEF Touch
  <2>3. CASE Finish(r, "failed")
    BY <1>7, <2>2, <2>3, <1>3 DEF Touch, Ended
  <2>4. CASE /\ Present(store, sid[r])
             /\ store' = Refresh(store, sid[r])
             /\ held' = [held EXCEPT ![r] = 0]
             /\ Goto(r, "handler")
             /\ UNCHANGED sid
    <3>1. /\ Present(store, sid[r]) /\ store' = Refresh(store, sid[r])
          /\ held' = [held EXCEPT ![r] = 0]
          /\ pc' = [pc EXCEPT ![r] = "handler"]
          /\ UNCHANGED <<sid, invalidated>>
      BY <1>7, <2>4 DEF Touch, Goto
    <3>2. Present(store, sid[r])' /\ store'[sid[r]].age = 0
      <4>1. store'[sid[r]] = [value |-> store[sid[r]].value, age |-> 0]
        BY <2>1, <3>1 DEF TypeOK, Refresh
      <4>2. store'[sid[r]] # Absent
        BY <2>1, <2>2, <3>1 DEF Present
      <4>. QED
        BY <3>1, <4>1, <4>2 DEF Present
    <3>3. ASSUME NEW q \in Requests, q # r, pc'[q] \in Holding,
                 held'[q] <= AgeLimit, sid'[q] \notin invalidated'
          PROVE  Present(store, sid[q])' /\ store'[sid'[q]].age <= held'[q]
      <4>1. /\ pc[q] \in Holding /\ sid'[q] = sid[q] /\ held'[q] = held[q]
            /\ sid[q] \in Ids /\ held[q] \in Nat
        BY <3>1, <3>3, HeldIdIsAnId
        DEF TypeOK, Holding, InFlight, Admitted, Ages
      <4>2. Present(store, sid[q]) /\ store[sid[q]].age <= held[q]
        BY <3>1, <3>3, <4>1 DEF KeptAlive
      <4>. QED
        BY <2>2, <3>1, <4>1, <4>2 DEF Present
    <3>. QED
      BY <3>1, <3>2, <3>3 DEF KeptAlive, TypeOK, Present
  <2>. QED
    BY <1>7, <2>3, <2>4 DEF Touch
<1>8. CASE Purge \/ PurgeFails
  <2>1. /\ UNCHANGED <<pc, sid, held, invalidated>>
        /\ \A id \in Ids : (Present(store, id) /\ ~Expired(store[id])) =>
               store'[id] = store[id]
    BY <1>8 DEF TypeOK, Purge, PurgeFails, Purged, requestVars, Present
  <2>2. \A id \in Ids : Present(store, id) => store[id].age \in Nat
    BY DEF TypeOK, Present, Entry, Ages
  <2>3. \A r \in Requests : pc[r] \in Holding => sid[r] \in Ids /\ held[r] \in Nat
    BY HeldIdIsAnId DEF TypeOK, Holding, InFlight, Admitted, Ages
  <2>. QED
    BY <2>1, <2>2, <2>3 DEF KeptAlive, Expired, Present
<1>9. CASE Tick
  <2> SUFFICES ASSUME NEW r \in Requests, pc[r] \in Holding,
                      held'[r] <= AgeLimit, sid[r] \notin invalidated
               PROVE  Present(store, sid[r])' /\ store'[sid[r]].age <= held'[r]
    BY <1>9 DEF Tick, KeptAlive, Present
  <2>1. sid[r] \in Ids /\ held[r] \in Nat /\ held'[r] = Older(held[r])
    BY <1>9, HeldIdIsAnId DEF TypeOK, Tick, Holding, InFlight, Admitted, Ages
  <2>2. held[r] <= AgeLimit /\ held'[r] = held[r] + 1
    BY <2>1 DEF Older
  <2>3. /\ Present(store, sid[r]) /\ store[sid[r]].age <= held[r]
        /\ store[sid[r]].age \in Nat
    BY <2>1, <2>2 DEF KeptAlive, TypeOK, Present, Entry, Ages
  <2>4. Present(store, sid[r])' /\ store'[sid[r]].age = Older(store[sid[r]].age)
    <3>1. store'[sid[r]] = [value |-> store[sid[r]].value,
                            age |-> Older(store[sid[r]].age)]
      BY <1>9, <2>1, <2>3 DEF TypeOK, Tick, Aged, Present
    <3>2. store[sid[r]].value \in Values /\ store[sid[r]].age \in Ages
      BY <2>1, <2>3 DEF TypeOK, Present, Entry
    <3>3. store'[sid[r]] \in Entry(Values)
      BY <3>1, <3>2, AgesAreNumbers DEF Entry
    <3>. QED
      BY <1>9, <3>1, <3>3, DistinctAssumption DEF Tick, Present
  <2>. QED
    BY <2>1, <2>2, <2>3, <2>4 DEF Older
<1>10. CASE Crash
  BY <1>10 DEF TypeOK, Crash, KeptAlive, Holding, InFlight, Admitted
<1>11. CASE UNCHANGED vars
  BY <1>11 DEF vars, requestVars, KeptAlive, Present
<1>. QED
  BY <1>1, <1>2, <1>4, <1>5, <1>6, <1>7, <1>8, <1>9, <1>10, <1>11
  DEF Next, RequestStep, GetSessionStep, FaultStep

\* A session in use is not taken away by the purge job or by another request's
\* failure before its AgeLimit is over.
THEOREM KeptAliveHolds == Spec => []KeptAlive
<1>1. Init => KeptAlive
  BY DEF Init, KeptAlive, Holding
<1>2. TypeOK /\ KeptAlive /\ [Next]_vars => KeptAlive'
  BY StaysAlive
<1>. QED
  BY <1>1, <1>2, TypeCorrect, PTL DEF Spec

----------------------------------------------------------------------------
(***************************************************************************)
(* Ids that are gone.  One step cannot bring back an id that has no entry  *)
(* and no request past its check: NewId draws unissued ids only, and a     *)
(* check of the id finds nothing.                                          *)
(***************************************************************************)
LEMMA GoneStays ==
    ASSUME TypeOK, NEW id \in FreshIds, Gone(id), [Next]_vars
    PROVE  Gone(id)'
<1>. USE DEF Gone
<1>. DEFINE Unreached == \A r \in Requests : pc'[r] \in Admitted => sid'[r] # id
<1>0. id \in Ids
  BY DEF Ids
<1>1. ASSUME NEW r \in Requests, NEW outcome \in Ended, Finish(r, outcome)
      PROVE  Unreached
  BY <1>1 DEF TypeOK, Finish, Admitted, Ended
<1>2. ASSUME NEW r \in Requests, Issue(r)
      PROVE  Unreached /\ owner'[id] # Nobody
  <2>1. PICK new \in Unissued : /\ owner' = [owner EXCEPT ![new] = ClientOf[r]]
                                /\ sid' = [sid EXCEPT ![r] = new]
                                /\ pc' = [pc EXCEPT ![r] = "lookup"]
    BY <1>2 DEF Issue, Goto
  <2>2. new # id /\ new \in FreshIds
    BY DEF Unissued
  <2>. QED
    BY <2>1, <2>2 DEF TypeOK
<1>3. ASSUME NEW r \in Requests, pc[r] \in Admitted, NEW v, store' = Put(store, sid[r], v)
      PROVE  ~Present(store, id)'
  BY <1>0, <1>3 DEF TypeOK, Put, Present
<1>4. ASSUME NEW r \in Requests,
             BeginWithCookie(r) \/ BeginWithoutCookie(r) \/ CheckExists(r)
      PROVE  Gone(id)'
  BY <1>0, <1>2, <1>4
  DEF TypeOK, BeginWithCookie, BeginWithoutCookie, CheckExists, Goto, Present, Admitted
<1>5. ASSUME NEW r \in Requests,
             \/ Refuse(r) \/ HandlerPanics(r) \/ LoadFails(r) \/ WriteBackFails(r)
      PROVE  Gone(id)'
  BY <1>1, <1>5
  DEF Refuse, HandlerPanics, LoadFails, WriteBackFails, Ended, Present
<1>6. ASSUME NEW r \in Requests,
             \/ Lookup(r) \/ CreateFails(r) \/ HandlerStep(r) \/ Deliver(r)
      PROVE  Gone(id)'
  BY <1>6
  DEF TypeOK, Lookup, CreateFails, HandlerStep, HandlerSet, HandlerDelete,
      HandlerClear, HandlerDestroy, Mutate, Deliver, Goto, Present, Admitted
<1>7. ASSUME NEW r \in Requests, Create(r) \/ CreateTears(r)
      PROVE  Gone(id)'
  BY <1>3, <1>7 DEF TypeOK, Create, CreateTears, Goto, Admitted
<1>8. ASSUME NEW r \in Requests, SaveSession(r) \/ SaveTears(r)
      PROVE  Gone(id)'
  BY <1>1, <1>3, <1>8 DEF SaveSession, SaveTears, Admitted, Ended
<1>9. ASSUME NEW r \in Requests, DeleteSession(r)
      PROVE  Gone(id)'
  BY <1>0, <1>1, <1>9
  DEF TypeOK, DeleteSession, Remove, Present, Ended
<1>10. ASSUME NEW r \in Requests, Read(r) \/ HandlerReturns(r)
       PROVE  Gone(id)'
  <2>1. UNCHANGED <<owner, store>>
    BY <1>10 DEF Read, HandlerReturns
  <2>2. CASE \E outcome \in Ended : Finish(r, outcome)
    BY <1>1, <2>1, <2>2 DEF Present
  <2>. QED
    BY <1>10, <2>1, <2>2
    DEF TypeOK, Read, HandlerReturns, Goto, Present, Admitted, Ended
<1>11. ASSUME NEW r \in Requests, Touch(r)
       PROVE  Gone(id)'
  <2>1. ~Present(store, id)' /\ UNCHANGED owner
    BY <1>0, <1>11 DEF TypeOK, Touch, Refresh, Present, Admitted
  <2>2. CASE Finish(r, "failed")
    BY <1>1, <2>1, <2>2 DEF Ended
  <2>. QED
    BY <1>11, <2>1, <2>2 DEF TypeOK, Touch, Goto, Admitted
<1>12. CASE Purge \/ PurgeFails \/ Tick
  BY <1>0, <1>12
  DEF TypeOK, Purge, PurgeFails, Tick, Purged, Aged, Present, requestVars
<1>13. CASE Crash
  BY <1>0, <1>13 DEF TypeOK, Crash, Present, Ids, InFlight, Admitted
<1>14. CASE UNCHANGED vars
  BY <1>14 DEF vars, requestVars, Present
<1>. QED
  BY <1>4, <1>5, <1>6, <1>7, <1>8, <1>9, <1>10, <1>11, <1>12, <1>13, <1>14
  DEF Next, RequestStep, GetSessionStep, FaultStep

\* An id without entry and without a request past its check is never revived.
THEOREM GoneForGoodHolds == Spec => GoneForGood
<1>1. TypeOK /\ [Next]_vars =>
          [\A id \in FreshIds : Gone(id) => Gone(id)']_vars
  BY GoneStays
<1>. QED
  BY <1>1, TypeCorrect, PTL DEF Spec, GoneForGood

----------------------------------------------------------------------------
(***************************************************************************)
(* Saves.  A request is about to save only after its handler changed the   *)
(* session, and no call but Set changes the value of an entry.             *)
(***************************************************************************)
SavesAreChanges == \A r \in Requests : pc[r] = "save" => sess[r].changed

LEMMA SavesStayChanges == TypeOK /\ SavesAreChanges /\ [Next]_vars => SavesAreChanges'
<1> SUFFICES ASSUME TypeOK, SavesAreChanges, [Next]_vars
             PROVE  SavesAreChanges'
  OBVIOUS
<1>. USE DEF SavesAreChanges
<1>1. ASSUME NEW r \in Requests, NEW outcome \in Ended, Finish(r, outcome)
      PROVE  SavesAreChanges'
  BY <1>1 DEF TypeOK, Finish, Ended
<1>2. ASSUME NEW r \in Requests, NEW place, place # "save", Goto(r, place),
             \A q \in Requests : q # r => sess'[q] = sess[q]
      PROVE  SavesAreChanges'
  BY <1>2 DEF TypeOK, Goto
<1>3. ASSUME NEW r \in Requests,
             \/ BeginWithCookie(r) \/ Lookup(r) \/ Create(r)
             \/ CreateFails(r) \/ CreateTears(r)
      PROVE  SavesAreChanges'
  BY <1>2, <1>3 DEF BeginWithCookie, Lookup, Create, CreateFails, CreateTears
<1>4. ASSUME NEW r \in Requests, BeginWithoutCookie(r) \/ CheckExists(r)
      PROVE  SavesAreChanges'
  BY <1>2, <1>4 DEF BeginWithoutCookie, CheckExists, Issue
<1>5. ASSUME NEW r \in Requests,
             \/ Refuse(r) \/ HandlerPanics(r) \/ DeleteSession(r) \/ SaveSession(r)
             \/ LoadFails(r) \/ WriteBackFails(r) \/ SaveTears(r)
      PROVE  SavesAreChanges'
  BY <1>1, <1>5
  DEF Refuse, HandlerPanics, DeleteSession, SaveSession, LoadFails,
      WriteBackFails, SaveTears, Ended
<1>6. ASSUME NEW r \in Requests, Read(r) \/ Touch(r)
      PROVE  SavesAreChanges'
  BY <1>1, <1>2, <1>6 DEF TypeOK, Read, Touch, Ended
<1>7. ASSUME NEW r \in Requests, HandlerStep(r)
      PROVE  SavesAreChanges'
  BY <1>7
  DEF TypeOK, HandlerStep, HandlerSet, HandlerDelete, HandlerClear,
      HandlerDestroy, Mutate
<1>8. ASSUME NEW r \in Requests, HandlerReturns(r)
      PROVE  SavesAreChanges'
  <2>1. CASE Finish(r, "served")
    BY <1>1, <2>1 DEF Ended
  <2>2. CASE Goto(r, "delete") /\ UNCHANGED sess
    BY <1>2, <2>2
  <2>3. CASE sess[r].changed /\ Goto(r, "save") /\ UNCHANGED sess
    BY <2>3 DEF TypeOK, Goto
  <2>. QED
    BY <1>8, <2>1, <2>2, <2>3 DEF HandlerReturns
<1>9. CASE (\E r \in Requests : Deliver(r)) \/ Purge \/ PurgeFails \/ Tick
  BY <1>9 DEF Deliver, Purge, PurgeFails, Tick, requestVars
<1>10. CASE Crash
  BY <1>10 DEF TypeOK, Crash, InFlight, Admitted
<1>11. CASE UNCHANGED vars
  BY <1>11 DEF vars, requestVars
<1>. QED
  BY <1>3, <1>4, <1>5, <1>6, <1>7, <1>8, <1>9, <1>10, <1>11
  DEF Next, RequestStep, GetSessionStep, FaultStep

LEMMA SavesInvariant == Spec => [](TypeOK /\ SavesAreChanges)
<1>1. Init => SavesAreChanges
  BY DEF Init, SavesAreChanges
<1>2. TypeOK /\ SavesAreChanges /\ [Next]_vars => SavesAreChanges'
  BY SavesStayChanges
<1>. QED
  BY <1>1, <1>2, TypeCorrect, PTL DEF Spec

LEMMA OnlySetChangesValues ==
    ASSUME TypeOK, SavesAreChanges, Next,
           NEW id \in Ids, Present(store, id), Present(store, id)',
           store'[id].value # store[id].value
    PROVE  \E r \in Requests :
               /\ sid[r] = id
               /\ \/ pc[r] = "save" /\ sess[r].changed
                  \/ pc[r] = "create"
<1>1. ASSUME NEW r \in Requests, NEW v, store' = Put(store, sid[r], v)
      PROVE  sid[r] = id
  BY <1>1 DEF TypeOK, Put
<1>2. ASSUME NEW r \in Requests,
             Create(r) \/ CreateTears(r) \/ SaveSession(r) \/ SaveTears(r)
      PROVE  sid[r] = id /\ (pc[r] = "create" \/ pc[r] = "save")
  BY <1>1, <1>2 DEF Create, CreateTears, SaveSession, SaveTears
<1>3. ASSUME NEW r \in Requests
      PROVE  ~Touch(r) /\ ~DeleteSession(r)
  BY DEF TypeOK, Touch, DeleteSession, Refresh, Remove, Present
<1>4. ~Purge /\ ~PurgeFails /\ ~Tick /\ ~Crash
  BY DEF TypeOK, Purge, PurgeFails, Tick, Crash, Purged, Aged, Present
<1>5. ASSUME NEW r \in Requests
      PROVE  /\ ~BeginWithCookie(r) /\ ~BeginWithoutCookie(r) /\ ~CheckExists(r)
             /\ ~Refuse(r) /\ ~Lookup(r) /\ ~Read(r) /\ ~HandlerStep(r)
             /\ ~HandlerReturns(r) /\ ~HandlerPanics(r) /\ ~Deliver(r)
             /\ ~LoadFails(r) /\ ~CreateFails(r) /\ ~WriteBackFails(r)
  <2>1. store' # store
    OBVIOUS
  <2>. QED
    BY <2>1
    DEF BeginWithCookie, BeginWithoutCookie, CheckExists, Refuse, Lookup, Read,
        HandlerStep, HandlerSet, HandlerDelete, HandlerClear, HandlerDestroy,
        Mutate, HandlerReturns, HandlerPanics, Deliver, LoadFails, CreateFails,
        WriteBackFails
<1>6. PICK r \in Requests :
          Create(r) \/ CreateTears(r) \/ SaveSession(r) \/ SaveTears(r)
  BY <1>3, <1>4, <1>5 DEF Next, RequestStep, GetSessionStep, FaultStep
<1>. QED
  BY <1>2, <1>6 DEF SavesAreChanges

\* A request whose handler only read the session never overwrites what another
\* request stored under the same id in the meantime, whatever overlaps or fails.
THEOREM OnlyChangesAreSavedHolds == Spec => OnlyChangesAreSaved
<1>. DEFINE Change(id) == /\ Present(store, id)
                          /\ Present(store, id)'
                          /\ store'[id].value # store[id].value
            Writer(id) == \E r \in Requests :
                              /\ sid[r] = id
                              /\ \/ pc[r] = "save" /\ sess[r].changed
                                 \/ pc[r] = "create"
<1>1. TypeOK /\ SavesAreChanges /\ [Next]_vars =>
          [\A id \in Ids : Change(id) => Writer(id)]_vars
  BY OnlySetChangesValues
<1>. QED
  BY <1>1, SavesInvariant, PTL DEF Spec, OnlyChangesAreSaved

----------------------------------------------------------------------------
(***************************************************************************)
(* New ids.  The id that a request was issued is in its own header and in  *)
(* no other one; until the request is past GetSession's Set, it is         *)
(* nowhere else.                                                           *)
(***************************************************************************)
Starting(r) == pc[r] \in {"lookup", "create"} /\ cookie[r] # NoId

HeadersAreOwn ==
    /\ \A r \in Requests : pc[r] \in {"idle", "check"} => cookie[r] = NoId
    /\ \A q, r \in Requests : cookie[q] # NoId /\ cookie[q] = cookie[r] => q = r
    /\ \A r \in Requests : Starting(r) => cookie[r] = sid[r]

NewIdInv == HeadersAreOwn /\ NewIdIsPrivate

\* An id drawn by NewId is in no place yet, because it has no owner.
LEMMA IssuedIdIsNew ==
    ASSUME IdInv, NewIdInv, NEW r \in Requests, pc[r] \in {"idle", "check"},
           Issue(r), UNCHANGED <<store, jar>>
    PROVE  NewIdInv'
<1>. USE DEF IdInv, NewIdInv
<1>1. PICK new \in Unissued : /\ sid' = [sid EXCEPT ![r] = new]
                              /\ cookie' = [cookie EXCEPT ![r] = new]
                              /\ pc' = [pc EXCEPT ![r] = "lookup"]
  BY DEF Issue, Goto
<1>2. new \in FreshIds /\ new \in Ids /\ new # NoId /\ owner[new] = Nobody
  BY IdAssumption DEF Unissued, Ids
<1>3. /\ ~Present(store, new)
      /\ \A c \in Clients : jar[c] # new
      /\ \A q \in Requests : sid[q] # new /\ cookie[q] # new
  BY <1>2, ClientAssumption, DistinctAssumption DEF IdsAreOwned
<1>4. /\ sid'[r] = new /\ cookie'[r] = new /\ pc'[r] = "lookup"
      /\ \A q \in Requests \ {r} :
             sid'[q] = sid[q] /\ cookie'[q] = cookie[q] /\ pc'[q] = pc[q]
  BY <1>1 DEF TypeOK
<1>5. HeadersAreOwn'
  BY <1>2, <1>3, <1>4 DEF HeadersAreOwn, Starting
<1>6. NewIdIsPrivate'
  BY <1>3, <1>4 DEF NewIdIsPrivate, Present
<1>. QED
  BY <1>5, <1>6

\* A step that issues and delivers nothing, gives nobody an id but the one in
\* the client's jar, and stores only under the id of a request that leaves
\* GetSession's Set behind.
LEMMA OthersKeepOff ==
    ASSUME IdInv, NewIdInv, UNCHANGED <<cookie, jar>>,
           \A r \in Requests :
               /\ pc'[r] \in {"idle", "check"} => pc[r] \in {"idle", "check"}
               /\ Starting(r)' => Starting(r) /\ sid'[r] = sid[r]
               /\ sid'[r] \in {sid[r], NoId, jar[ClientOf[r]]},
           \A id \in Ids : Present(store, id)' =>
               \/ Present(store, id)
               \/ \E r \in Requests : sid[r] = id /\ ~Starting(r)'
    PROVE  NewIdInv'
<1>. USE DEF IdInv, NewIdInv
<1>1. HeadersAreOwn'
  BY DEF HeadersAreOwn
<1>2. ASSUME NEW r \in Requests, Starting(r)'
      PROVE  /\ ~Present(store, sid[r])'
             /\ \A other \in Requests \ {r} : sid'[other] # sid[r]
             /\ \A c \in Clients : jar[c] # sid[r]
             /\ sid'[r] = sid[r]
  <2>1. Starting(r) /\ sid'[r] = sid[r] /\ sid[r] \in Ids /\ sid[r] # NoId
    BY <1>2, HeldIdIsAnId, IdAssumption DEF Starting, InFlight, Admitted
  <2>2. /\ ~Present(store, sid[r])
        /\ \A other \in Requests \ {r} : sid[other] # sid[r]
        /\ \A c \in Clients : jar[c] # sid[r]
    BY <2>1 DEF NewIdIsPrivate, Starting
  <2>3. ~Present(store, sid[r])'
    BY <1>2, <2>1, <2>2
  <2>. QED
    BY <2>1, <2>2, <2>3, ClientAssumption
<1>3. NewIdIsPrivate'
  BY <1>2 DEF NewIdIsPrivate, Starting, Present
<1>. QED
  BY <1>1, <1>3

LEMMA NewIdsStayPrivate == IdInv /\ NewIdInv /\ [Next]_vars => NewIdInv'
<1> SUFFICES ASSUME IdInv, NewIdInv, [Next]_vars
             PROVE  NewIdInv'
  OBVIOUS
<1>. USE DEF IdInv
<1>. DEFINE Stays(r) == pc'[r] = pc[r] /\ sid'[r] = sid[r]
            Moves(r, places) == pc'[r] \in places /\ sid'[r] \in {sid[r], NoId}
<1>1. ASSUME NEW r \in Requests, NEW outcome \in Ended, Finish(r, outcome)
      PROVE  Moves(r, Ended) /\ \A q \in Requests \ {r} : Stays(q)
  BY <1>1 DEF TypeOK, Finish
<1>2. ASSUME NEW r \in Requests, NEW place, Goto(r, place), UNCHANGED sid
      PROVE  Moves(r, {place}) /\ \A q \in Requests \ {r} : Stays(q)
  BY <1>2 DEF TypeOK, Goto
<1>3. ASSUME NEW r \in Requests, UNCHANGED <<cookie, jar>>,
             Moves(r, Places \ {"idle", "check", "lookup", "create"}),
             \A q \in Requests \ {r} : Stays(q),
             \A id \in Ids : Present(store, id)' => Present(store, id) \/ sid[r] = id
      PROVE  NewIdInv'
  <2>1. ~Starting(r)'
    BY <1>3 DEF Starting
  <2>2. \A q \in Requests \ {r} : Starting(q)' => Starting(q) /\ sid'[q] = sid[q]
    BY <1>3 DEF Starting
  <2>. QED
    BY <1>3, <2>1, <2>2, OthersKeepOff
<1>4. ASSUME NEW r \in Requests, BeginWithCookie(r)
      PROVE  NewIdInv'
  <2>1. /\ pc[r] = "idle" /\ pc'[r] = "check" /\ sid'[r] = jar[ClientOf[r]]
        /\ \A q \in Requests \ {r} : Stays(q)
        /\ UNCHANGED <<cookie, jar, store>>
    BY <1>4 DEF TypeOK, BeginWithCookie, Goto
  <2>2. \A q \in Requests : Starting(q)' => Starting(q) /\ sid'[q] = sid[q]
    BY <2>1 DEF Starting
  <2>3. \A id \in Ids : Present(store, id)' => Present(store, id)
    BY <2>1 DEF Present
  <2>. QED
    BY <2>1, <2>2, <2>3, OthersKeepOff
<1>5. ASSUME NEW r \in Requests, BeginWithoutCookie(r)
      PROVE  NewIdInv'
  BY <1>5, IssuedIdIsNew DEF BeginWithoutCookie
<1>6. ASSUME NEW r \in Requests, CheckExists(r)
      PROVE  NewIdInv'
  <2>1. CASE Issue(r)
    BY <1>6, <2>1, IssuedIdIsNew DEF CheckExists
  <2>2. CASE Goto(r, "lookup") /\ UNCHANGED <<owner, sid, cookie>>
    <3>1. cookie[r] = NoId /\ UNCHANGED <<cookie, jar, sid, store>>
      BY <1>6, <2>2 DEF CheckExists, NewIdInv, HeadersAreOwn
    <3>2. pc'[r] = "lookup" /\ \A q \in Requests \ {r} : Stays(q)
      BY <2>2 DEF TypeOK, Goto
    <3>3. \A q \in Requests : Starting(q)' => Starting(q) /\ sid'[q] = sid[q]
      BY <3>1, <3>2 DEF Starting
    <3>4. \A id \in Ids : Present(store, id)' => Present(store, id)
      BY <3>1 DEF Present
    <3>. QED
      BY <3>1, <3>2, <3>3, <3>4, OthersKeepOff
  <2>. QED
    BY <1>6, <2>1, <2>2 DEF CheckExists
<1>7. ASSUME NEW r \in Requests, Lookup(r)
      PROVE  NewIdInv'
  <2>1. /\ pc[r] = "lookup" /\ pc'[r] \in {"read", "create"}
        /\ \A q \in Requests \ {r} : Stays(q)
        /\ UNCHANGED <<cookie, jar, sid, store>>
    BY <1>7 DEF TypeOK, Lookup, Goto
  <2>2. \A q \in Requests : Starting(q)' => Starting(q) /\ sid'[q] = sid[q]
    BY <2>1 DEF Starting
  <2>3. \A id \in Ids : Present(store, id)' => Present(store, id)
    BY <2>1 DEF Present
  <2>. QED
    BY <2>1, <2>2, <2>3, OthersKeepOff
<1>8. ASSUME NEW r \in Requests,
             \/ Create(r) \/ CreateTears(r) \/ CreateFails(r)
             \/ SaveSession(r) \/ SaveTears(r)
      PROVE  NewIdInv'
  <2>1. Moves(r, {"read"} \cup Ended) /\ \A q \in Requests \ {r} : Stays(q)
    BY <1>1, <1>2, <1>8
    DEF Create, CreateTears, CreateFails, SaveSession, SaveTears, Ended
  <2>2. \A id \in Ids : Present(store, id)' => Present(store, id) \/ sid[r] = id
    BY <1>8
    DEF TypeOK, Create, CreateTears, CreateFails, SaveSession, SaveTears, Put, Present
  <2>3. UNCHANGED <<cookie, jar>>
    BY <1>8 DEF Create, CreateTears, CreateFails, SaveSession, SaveTears
  <2>4. {"read"} \cup Ended \subseteq Places \ {"idle", "check", "lookup", "create"}
    BY DEF Ended, Places, InFlight, Admitted
  <2>. QED
    BY <1>3, <2>1, <2>2, <2>3, <2>4
<1>9. ASSUME NEW r \in Requests,
             \/ Refuse(r) \/ Read(r) \/ Touch(r) \/ HandlerReturns(r)
             \/ HandlerPanics(r) \/ DeleteSession(r) \/ LoadFails(r) \/ WriteBackFails(r)
      PROVE  NewIdInv'
  <2>1. /\ Moves(r, {"touch", "handler", "delete", "save"} \cup Ended)
        /\ \A q \in Requests \ {r} : Stays(q)
    <3>1. CASE \E outcome \in Ended : Finish(r, outcome)
      BY <1>1, <3>1
    <3>2. CASE /\ \E place \in {"touch", "handler", "delete", "save"} : Goto(r, place)
               /\ UNCHANGED sid
      BY <1>2, <3>2
    <3>. QED
      BY <1>9, <3>1, <3>2
      DEF Refuse, Read, Touch, HandlerReturns, HandlerPanics, DeleteSession,
          LoadFails, WriteBackFails, Ended
  <2>2. \A id \in Ids : Present(store, id)' => Present(store, id)
    BY <1>9
    DEF TypeOK, Refuse, Read, Touch, HandlerReturns, HandlerPanics, DeleteSession,
        LoadFails, WriteBackFails, Refresh, Remove, Present
  <2>3. UNCHANGED <<cookie, jar>>
    BY <1>9 DEF Refuse, Read, Touch, HandlerReturns, HandlerPanics, DeleteSession,
                LoadFails, WriteBackFails
  <2>4. {"touch", "handler", "delete", "save"} \cup Ended
            \subseteq Places \ {"idle", "check", "lookup", "create"}
    BY DEF Ended, Places, InFlight, Admitted
  <2>. QED
    BY <1>3, <2>1, <2>2, <2>3, <2>4
<1>10. ASSUME NEW r \in Requests, Deliver(r)
       PROVE  NewIdInv'
  <2>1. /\ cookie[r] # NoId /\ ~Starting(r)
        /\ cookie' = [cookie EXCEPT ![r] = NoId]
        /\ jar' = [jar EXCEPT ![ClientOf[r]] = cookie[r]]
        /\ UNCHANGED <<pc, sid, store>>
    BY <1>10 DEF Deliver, Starting
  <2>2. HeadersAreOwn'
    BY <2>1 DEF NewIdInv, HeadersAreOwn, TypeOK, Starting
  <2>3. ASSUME NEW q \in Requests, Starting(q)'
        PROVE  Starting(q) /\ q # r /\ cookie[r] # sid[q]
    BY <2>1, <2>3 DEF NewIdInv, HeadersAreOwn, TypeOK, Starting
  <2>4. NewIdIsPrivate'
    BY <2>1, <2>3 DEF NewIdInv, NewIdIsPrivate, TypeOK, Starting, Present
  <2>. QED
    BY <2>2, <2>4 DEF NewIdInv
<1>11. CASE (\E r \in Requests : HandlerStep(r)) \/ Purge \/ PurgeFails \/ Tick
            \/ UNCHANGED vars
  <2>1. UNCHANGED <<pc, sid, cookie, jar>>
    BY <1>11
    DEF HandlerStep, HandlerSet, HandlerDelete, HandlerClear, HandlerDestroy,
        Mutate, Purge, PurgeFails, Tick, vars, requestVars
  <2>2. \A id \in Ids : Present(store, id)' => Present(store, id)
    BY <1>11
    DEF TypeOK, HandlerStep, HandlerSet, HandlerDelete, HandlerClear,
        HandlerDestroy, Mutate, Purge, PurgeFails, Tick, Purged, Aged, Present,
        vars, requestVars
  <2>3. \A q \in Requests : Starting(q)' => Starting(q)
    BY <2>1 DEF Starting
  <2>. QED
    BY <2>1, <2>2, <2>3, OthersKeepOff
<1>12. CASE Crash
  <2>1. UNCHANGED <<cookie, jar>> /\ \A q \in Requests : sid'[q] = NoId
    BY <1>12 DEF Crash
  <2>2. \A q \in Requests : /\ pc'[q] \notin {"lookup", "create"}
                            /\ pc'[q] \in {"idle", "check"} => pc[q] = "idle"
    BY <1>12 DEF TypeOK, Crash, InFlight, Admitted
  <2>3. \A id \in Ids : Present(store, id)' => Present(store, id)
    BY <1>12 DEF Crash, Present
  <2>4. \A q \in Requests : ~Starting(q)'
    BY <2>2 DEF Starting
  <2>. QED
    BY <2>1, <2>2, <2>3, <2>4, OthersKeepOff
<1>. QED
  BY <1>4, <1>5, <1>6, <1>7, <1>8, <1>9, <1>10, <1>11, <1>12
  DEF Next, RequestStep, GetSessionStep, FaultStep

\* Until GetSession has stored the blank session, the id a request was issued is
\* its own: neither the store, nor a jar, nor another request has it.
THEOREM NewIdIsPrivateHolds == Spec => []NewIdIsPrivate
<1>1. Init => NewIdInv
  BY DEF Init, NewIdInv, HeadersAreOwn, NewIdIsPrivate, Starting
<1>2. OwnershipInv => IdInv
  BY DEF OwnershipInv, IdInv
<1>3. NewIdInv => NewIdIsPrivate
  BY DEF NewIdInv
<1>. QED
  BY <1>1, <1>2, <1>3, NewIdsStayPrivate, OwnershipInvariant, PTL DEF Spec
===============================================================================
