\* Two commits of one source and another path of one of them: a publish, an upload and
\* a refresh beside one another, with stops after any write.
SPECIFICATION Spec
CONSTANTS
    repo = repo
    root = root
    sub = sub
    c1 = c1
    c2 = c2
    Trees <- MCTrees
    Uploads <- MCUploads
    Missing = Missing
    Bare = Bare
    NoRecord = NoRecord
    NoTree = NoTree
    NoRequest = NoRequest
    NoPayload = NoPayload
    MaxDisturbances = 3
INVARIANTS
    TypeOK
    TreeBindsCommit
    BuildsTheTree
PROPERTY
    OverwriteSanctioned
CHECK_DEADLOCK FALSE
