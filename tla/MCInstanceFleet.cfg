\* Two operators and a probe, two boxes, a history that forks, one shared branch.
SPECIFICATION ProbeSpec
CONSTANTS
    mars = mars
    dorm = dorm
    box1 = box1
    box2 = box2
    key = key
    src = src
    home = home
    c0 = c0
    c1 = c1
    d1 = d1
    shared = shared
    b0 = b0
    b1 = b1
    bd = bd
    o1 = o1
    o2 = o2
    Header = Header
    Junk = Junk
    NoFile = NoFile
    NoBranch = NoBranch
    Nobody = Nobody
    None = None
    LegalNames = {mars, dorm}
    Files = {"first", "moved", "broken"}
    Text <- MCText
    Paths = {key, src, home}
    Box = {box1, box2}
    Commit = {c0, c1, d1}
    Branch = {b0, b1, bd, shared}
    Operator = {o1, o2}
    Given = {None, shared}
    Ancestry <- MCAncestry
    Delivery <- MCDelivery
    Commands = 2
    Upsets = 1
    Answers <- MCAnswers
CHECK_DEADLOCK FALSE
INVARIANTS ProbeTypeOK MergeFollowsPush DeliveredMeansThere VerdictIsEarned
PROPERTIES OnlyForward CommandReturns
