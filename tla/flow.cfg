SPECIFICATION FlowSpec
CONSTANTS
  Servers = {s1, s2}
  Awg = awg
  None = none
  Broken = broken
  MaxFaults = 2
  Nil = Nil
  Links <- MCLinks
  Ids <- MCIds
  Users = {"root", "user"}
  MaxCommands = 3
  Pids = {p1, p2, p3}
  Programs <- MCPrograms
  MaxEvents = 2
  OnWindows = TRUE
  FixedPlaces <- MCFixedPlaces
  Packages <- MCPackages
  UnixPlaces <- MCUnixPlaces
  WindowsPlaces <- MCWindowsPlaces
  Temp <- MCTemp
  Reparse <- MCReparse
  MaxLive = 2
CHECK_DEADLOCK FALSE
SYMMETRY Symmetry
INVARIANTS TypeOK Coherent ReportsFit SpawnsWhatIsThere PlacesFit
PROPERTIES SpawnsResolved TunnelOutlivesProxy TunnelFollowsLink
