SPECIFICATION MCSpec
CONSTANTS
  Nil = nil
  Slash = slash
  c1 = c1
  p1 = p1
  p2 = p2
  i1 = i1
  i2 = i2
  n1 = n1
  n2 = n2
  n3 = n3
  NoPid = NoPid
  NoCli = NoCli
  Absent = Absent
  Blank = Blank
  Platforms = {"macos", "linux"}
  Width = 2
  Listings <- MCListings
  Routes <- MCRoutes
  Interfaces <- MCInterfaces
  Ports = {5353}
  Commands = 2
CHECK_DEADLOCK FALSE
INVARIANT NoFaultInvented
PROPERTY EverythingEnds
