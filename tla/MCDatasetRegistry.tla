-------------------------- MODULE MCDatasetRegistry --------------------------
(* The constants of DatasetRegistry for TLC: two sessions that register     *)
(* files of one name and two contents, and versions of them.                *)
EXTENDS DatasetRegistry, TLC

DatasetSymmetry == Permutations(Sessions) \cup Permutations(Datasets) \cup Permutations(Contents)
=============================================================================
