--------------------- MODULE MCRepositoryTransactionAtomic ---------------------
(* The instance of RepositoryTransaction the proofs speak of: one session,    *)
(* recovered before anything else touches the files.                          *)
EXTENDS RepositoryTransactionProofs, TLC

CONSTANTS f1, f2, c1, c2

\* Two files and changes of every kind: replace, create, delete, and a file that
\* only one of the batches touches.
MCBatches == {<<[file |-> f1, new |-> c1], [file |-> f2, new |-> c2]>>,
              <<[file |-> f2, new |-> Absent], [file |-> f1, new |-> c2]>>,
              <<[file |-> f1, new |-> Absent]>>}
=============================================================================
