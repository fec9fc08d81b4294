\* What the documents say of LocksCannotLeak, against two requests.
SPECIFICATION Spec
CONSTANTS
    Requests = {r1, r2}
    a1 = a1
    a2 = a2
    Apps = {a1, a2}
    Cluster = Cluster
    NoScope = NoScope
    Free = Free
    NoCall = NoCall
    Calls <- MCCalls
    MaxJobsKept = 2
    MaxEntries = 2
    MaxRestarts = 0
INVARIANT
    LocksCannotLeak
CHECK_DEADLOCK FALSE
