\* Every chain of up to three layers, and up to three calls of the writer.
\* A response is over when the outermost layer has returned.
SPECIFICATION Spec
CONSTANTS
    Chains <- MCChains
    Statuses = {101, 103, 200, 404, 500}
    MaxWrites = 3
INVARIANTS TypeOK InOrderGiven LoggedIsSent CookieIsSent
CHECK_DEADLOCK FALSE
