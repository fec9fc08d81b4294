\* Times are in units of a poll of the login: a deadline of two intervals and two
\* slow_downs; a job of at most one line.
SPECIFICATION Spec
CONSTANTS
    Timeout = 2
    Interval = 1
    Increment = 1
    MaxInterval = 3
    Life = 2
    Early = 1
    WaitTimeout = 1
    MaxLog = 1
    None = None
    Broken = Broken
INVARIANTS CommandTypeOK ExitCodeIsTrue OutcomeHasItsLog
PROPERTIES LoginReturns CommandComesBack
