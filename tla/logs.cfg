SPECIFICATION MCSpec
CONSTANTS
  p1 = p1
  p2 = p2
  n1 = n1
  n2 = n2
  n3 = n3
  Slash = slash
  Nil = nil
  Procs = {p1, p2}
  Max = 1
  Records = 2
  Details = 1
  XrayLog = "xray.log"
  AccessLog = "access.log"
  ErrorLog = "error.log"
  UserPaths = {"mine.log"}
  Worlds <- MCWorlds
SYMMETRY Symmetry
CHECK_DEADLOCK FALSE
INVARIANTS LogHolds PreflightHolds
PROPERTIES OnePastGenerationKeptAlone WalkHolds
