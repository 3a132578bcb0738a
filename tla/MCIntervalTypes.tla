--------------------------- MODULE MCIntervalTypes ---------------------------
(* The constants of IntervalTypes for TLC. *)
EXTENDS IntervalTypes, TLC

CONSTANTS t1, t2, t3

Symmetry == Permutations({t1, t2}) \cup Permutations(Files) \cup Permutations(Marks) \cup Permutations(Operations)
=============================================================================
