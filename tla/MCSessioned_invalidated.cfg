\* Three overlapping requests of one client, one of which destroys the session.
SPECIFICATION FairSpec
CONSTANTS
    AgeLimit = 1
    Absent = Absent
    EmptyId = EmptyId
    NoId = NoId
    Nobody = Nobody
    Torn = Torn
    alice = alice
    bob = bob
    r1 = r1
    r2 = r2
    r3 = r3
    Clients <- OneClient
    Requests <- ThreeRequests
    ClientOf <- ThreeClientOf
    FreshIds = {f1, f2}
    StaleIds = {old, EmptyId}
    RejectedIds = {}
    EnabledChoices = {"true"}
    Faults = {}
    Durable = FALSE
PROPERTY InvalidatedIsRefused
