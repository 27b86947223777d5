\* Overlapping requests of two clients over a store whose calls do not fail.
SPECIFICATION Spec
CONSTANTS
    AgeLimit = 1
    Absent = Absent
    EmptyId = EmptyId
    NoId = NoId
    Nobody = Nobody
    Torn = Torn
    alice = alice
    bob = bob
    r1 = r1
    r2 = r2
    r3 = r3
    Clients <- MCClients
    Requests <- MCRequests
    ClientOf <- MCClientOf
    FreshIds = {f1, f2}
    StaleIds = {old, EmptyId}
    RejectedIds = {}
    EnabledChoices = {"true"}
    Faults = {}
    Durable = FALSE
SYMMETRY FreshSymmetry
INVARIANTS OnlyIssuedIds Isolation KeptAlive NewIdIsPrivate
PROPERTIES GoneForGood OnlyChangesAreSaved
