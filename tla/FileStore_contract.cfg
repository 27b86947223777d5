\* Two goroutines on two session files, with file operations that may fail and
\* crashes at any point.
SPECIFICATION FairSpec
CONSTANTS
    AgeLimit = 1
    Absent = Absent
    NoCall = NoCall
    Nobody = Nobody
    Torn = Torn
    Procs = {p1, p2}
    Ids = {s1, s2}
    Data = {v1}
    Faulty = TRUE
INVARIANTS TypeOK
PROPERTIES ImplementsContract CallsReturn PurgeIsThorough
