--------------------------- MODULE MCRestrictedFile ---------------------------
(* RestrictedFile on small instances, for TLC. *)
EXTENDS RestrictedFile, TLC

CONSTANTS i1, i2, i3, p1, p2

\* No step compares inodes, or processes: each may stand for any other.
Twins == Permutations(Inodes) \cup Permutations(Procs)
=============================================================================
