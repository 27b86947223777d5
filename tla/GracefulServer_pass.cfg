\* No shutdown timeout or one second, two requests.  The process ends when Run returns.
SPECIFICATION FairSpec
CONSTANTS
    Requests = {r1, r2}
    Timeouts = {0, 2}
    MaxClock = 3
    BeforeWaits = FALSE
INVARIANTS TypeOK ReturnIsGraceful DrainIsUninterrupted RequestIsKept GracePeriod
PROPERTIES ShutdownHappens
CHECK_DEADLOCK FALSE
