\* Three versions of the template and two files, one of them binary.
SPECIFICATION Spec
CONSTANTS
    hook = hook
    rules = rules
    a = a
    b = b
    mine = mine
    mark = mark
    File = {hook, rules}
    InDirectories = {hook}
    Binary = {hook}
    TemplateLine = {a, b}
    OwnLine = {mine}
    Marker = mark
    Absent = Absent
    None = None
    Template <- MCTemplate
INVARIANTS TypeOK OwnWorkKept
PROPERTY ZeroMeansDone
