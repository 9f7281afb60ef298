------------------------------ MODULE MCProxies ------------------------------
(* Proxies on small instances, for TLC. *)
EXTENDS Proxies, TLC

\* Callers are interchangeable, and so are the addresses they enable.
Symmetry == Permutations(Callers) \cup Permutations(Ports)
=============================================================================
