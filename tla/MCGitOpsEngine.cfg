\* Three jobs over two applications: two jobs of one and one of the other, so that
\* a job can follow a failed one while another application's job commits.
SPECIFICATION Spec
CONSTANTS
    Jobs = {j1, j2, j3}
    Apps = {a1, a2}
    auto = auto
    manual = manual
    Renders = {auto, manual}
    Automated = {auto}
    Absent = Absent
    NoTask = NoTask
    MaxRenders = 1
INVARIANTS
    TypeOK
    InstalledIsGenerated
PROPERTIES
    ImplementsInstalledSet
    RenderNeverLost
    SuccessIsOnRecord
SYMMETRY JobSymmetry
CHECK_DEADLOCK FALSE
