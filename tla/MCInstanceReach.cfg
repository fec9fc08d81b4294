\* One start beside two polls at a time, the operator opening and closing a tunnel
\* by hand all the while.
SPECIFICATION Spec
CONSTANTS
    Polls = {p1, p2}
    Starts = {s1}
    Waits = 3
    NoReach = NoReach
INVARIANTS
    TypeOK
    NoProcessUnaccounted
    NextPollLooksAgain
PROPERTIES
    StartReturns
    ReachSettles
CHECK_DEADLOCK FALSE
