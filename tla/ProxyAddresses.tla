---------------------------- MODULE ProxyAddresses ----------------------------
(***************************************************************************)
(* Who switches a system proxy, and what its settings may hold: the        *)
(* parameters of MacProxy, LinuxProxy and WindowsProxy, and what is        *)
(* assumed of them.                                                        *)
(***************************************************************************)
CONSTANTS
  Callers,   \* corvex processes
  Ports,     \* ports of 127.0.0.1 corvex may be asked to enable
  Other,     \* whatever address the settings held before corvex
  Absent, Empty,  \* Linux, proxy.env: no file, and a file that was truncated only
  None       \* Windows: the empty ProxyServer; no WinHTTP proxy

ASSUME CallersExist == Callers # {}
ASSUME OtherApart == Other \notin Ports
ASSUME AddressesApart == {Other, Absent, Empty} \cap Ports = {} /\ Absent # Empty
ASSUME ServersApart == {Other, None} \cap Ports = {} /\ Other # None
=============================================================================
