\* Three schedulers over the life of the engine.
SPECIFICATION FairSpec
CONSTANTS
    MaxStarts = 3
INVARIANTS TypeOK OnePurger PurgesOpenStore StartedIsAtWork ResultIsComing
PROPERTIES StopReturns
