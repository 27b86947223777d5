\* An engine configured with Enabled pointing to false.
SPECIFICATION FairSpec
CONSTANTS
    AgeLimit = 1
    Absent = Absent
    EmptyId = EmptyId
    NoId = NoId
    Nobody = Nobody
    Torn = Torn
    alice = alice
    bob = bob
    r1 = r1
    r2 = r2
    r3 = r3
    Clients <- OneClient
    Requests <- TwoRequests
    ClientOf <- OneClientOf
    FreshIds = {f1, f2}
    StaleIds = {old, EmptyId}
    RejectedIds = {}
    EnabledChoices = {"false"}
    Faults = {}
    Durable = FALSE
INVARIANT DisabledStoresNothing
