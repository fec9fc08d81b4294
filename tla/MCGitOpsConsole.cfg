\* Two requests are enough to stand in each other's way.
SPECIFICATION ConsoleSpec
CONSTANTS
    Requests = {r1, r2}
    app = app
    Apps = {app}
    Cluster = Cluster
    NoScope = NoScope
    Free = Free
    NoCall = NoCall
    Calls <- MCConsoleCalls
    MaxJobsKept = 1
    MaxEntries = 1
    MaxRestarts = 1
    auto = auto
    Renders = {auto}
    Automated = {auto}
    Absent = Absent
    NoTask = NoTask
    MaxRenders = 1
PROPERTIES
    ScopesComeBack
    AuditIsTrue
CHECK_DEADLOCK FALSE
