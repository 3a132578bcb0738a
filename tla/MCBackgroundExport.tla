-------------------------- MODULE MCBackgroundExport --------------------------
(* Small instances of BackgroundExport for TLC. *)
EXTENDS BackgroundExport, TLC

\* Requests are interchangeable.
Symmetric == Permutations(Signatures)
=============================================================================
