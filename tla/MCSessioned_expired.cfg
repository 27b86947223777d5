\* A session that expired and that the purge job has not removed yet.
SPECIFICATION FairSpec
CONSTANTS
    AgeLimit = 1
    Absent = Absent
    EmptyId = EmptyId
    NoId = NoId
    Nobody = Nobody
    Torn = Torn
    alice = alice
    bob = bob
    r1 = r1
    r2 = r2
    r3 = r3
    Clients <- OneClient
    Requests <- TwoRequests
    ClientOf <- OneClientOf
    FreshIds = {f1, f2}
    StaleIds = {old, EmptyId}
    RejectedIds = {}
    EnabledChoices = {"true"}
    Faults = {}
    Durable = FALSE
PROPERTY ExpiredIsReplaced
