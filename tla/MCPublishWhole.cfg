\* What the documentation of a publish says, against failures and retries.
SPECIFICATION Spec
CONSTANTS
    repo = repo
    root = root
    sub = sub
    c1 = c1
    c2 = c2
    Trees <- MCOneSource
    Uploads <- NoUploads
    Missing = Missing
    Bare = Bare
    NoRecord = NoRecord
    NoTree = NoTree
    NoRequest = NoRequest
    NoPayload = NoPayload
    MaxDisturbances = 3
INVARIANT
    BuildsWhatWasPublished
CHECK_DEADLOCK FALSE
