----------------------- MODULE MCInterpretationEditing -----------------------
(* The constants of InterpretationEditing for TLC: an administrator and a   *)
(* reviewer.  UUIDs and marks are interchangeable.                          *)
EXTENDS InterpretationEditing, TLC

CONSTANTS s1, s2

MCRoleOf == (s1 :> "administrator") @@ (s2 :> "reviewer")

NameSymmetry == Permutations(Ids) \cup Permutations(Marks) \cup Permutations(Revisions)
=============================================================================
