SPECIFICATION Spec
CONSTANTS
  r1 = r1
  r2 = r2
  p1 = p1
  p2 = p2
  w1 = w1
  w2 = w2
  Name <- MCNames
  Port = {p1, p2}
  NoPort = NoPort
  Commits <- MCCommits
  Given <- MCGiven
  Command = {w1, w2}
  Enough = 4
  NoManifest = NoManifest
  Unreadable = Unreadable
  Absent = Absent
  Nothing = Nothing
INVARIANT NoPortTwice
SYMMETRY MCSymmetry
CHECK_DEADLOCK FALSE
