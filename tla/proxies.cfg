SPECIFICATION ProxiesSpec
CONSTANTS
  Callers = {c1, c2}
  Ports = {p1, p2}
  LinuxPorts = {p3}
  Other = other
  Absent = absent
  Empty = empty
  None = none
SYMMETRY Symmetry
INVARIANTS HonestDenial SettingsAgree
PROPERTIES NeverOnAtStale ImplementsProxySwitch OthersImplement
