\* Failing and torn store calls, crashes over a durable store, every setting of
\* Enabled and an id the store rejects, the empty one: two overlapping requests
\* of one client.
SPECIFICATION FairSpec
CONSTANTS
    AgeLimit = 1
    Absent = Absent
    EmptyId = EmptyId
    NoId = NoId
    Nobody = Nobody
    Torn = Torn
    alice = alice
    bob = bob
    r1 = r1
    r2 = r2
    r3 = r3
    Clients <- OneClient
    Requests <- TwoRequests
    ClientOf <- OneClientOf
    FreshIds = {f1, f2}
    StaleIds = {old, EmptyId}
    RejectedIds = {EmptyId}
    EnabledChoices = {"nil", "true", "false"}
    Faults = {"error", "torn"}
    Durable = TRUE
INVARIANTS TypeOK KeptAlive
PROPERTIES GoneForGood Drains
