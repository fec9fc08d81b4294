\* Three requests over two applications, one restart, and lists shorter than the
\* number of requests so that both of them overflow.
SPECIFICATION Spec
CONSTANTS
    Requests = {r1, r2, r3}
    a1 = a1
    a2 = a2
    Apps = {a1, a2}
    Cluster = Cluster
    NoScope = NoScope
    Free = Free
    NoCall = NoCall
    Calls <- MCCalls
    MaxJobsKept = 2
    MaxEntries = 2
    MaxRestarts = 1
INVARIANTS
    TypeOK
    LocksAreJobSideEffects
    MutualExclusion
    ListedUnlessDisplaced
PROPERTIES
    ImplementsExclusiveScopes
    OutcomeAuditedUnderLock
SYMMETRY RequestSymmetry
CHECK_DEADLOCK FALSE
