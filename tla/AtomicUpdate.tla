---------------------------- MODULE AtomicUpdate ----------------------------
(***************************************************************************)
(* What core/repository_io.py promises the rest of the program.            *)
(*                                                                         *)
(* A repository is a set of JSON files.  A caller asks for a batch of      *)
(* changes, which takes effect as one coherent mutation or not at all, or  *)
(* replaces (or deletes) a single file.  Nothing else changes what the     *)
(* repository contains: a crash, a failed commit, a recovery and the       *)
(* removal of a journal are all invisible.                                 *)
(***************************************************************************)
CONSTANTS Files,      \* the JSON files below one repository root
          Contents,   \* payloads a file may hold
          Absent,     \* the "content" of a file that does not exist
          Batches,    \* the batches of changes callers may commit
          Sessions    \* the callers

VARIABLES logical,    \* what the repository contains, file by file
          pending     \* the batch each caller waits for, <<>> for none

vars == <<logical, pending>>

\* A batch is a sequence of changes [file, new]; deletion is new = Absent.
Changed(b) == {b[i].file : i \in DOMAIN b}
IndexOf(b, f) == CHOOSE i \in DOMAIN b : b[i].file = f
After(content, b) ==
    [f \in Files |-> IF f \in Changed(b) THEN b[IndexOf(b, f)].new
                                         ELSE content[f]]

Init ==
    /\ logical \in [Files -> Contents \cup {Absent}]
    /\ pending = [s \in Sessions |-> <<>>]

Request(s, b) ==
    /\ pending[s] = <<>>
    /\ pending' = [pending EXCEPT ![s] = b]
    /\ UNCHANGED logical

\* AtomicJsonTransaction.commit: every change of the batch, at once.
Publish(s) ==
    /\ pending[s] \in Batches
    /\ logical' = After(logical, pending[s])
    /\ UNCHANGED pending

\* commit returns or raises.
Answer(s) ==
    /\ pending' = [pending EXCEPT ![s] = <<>>]
    /\ UNCHANGED logical

\* AtomicJsonStore.write and delete: one file, by a caller that waits for nothing.
Save(s, f, c) ==
    /\ pending[s] = <<>>
    /\ logical' = [logical EXCEPT ![f] = c]
    /\ UNCHANGED pending

Crash ==
    /\ pending' = [s \in Sessions |-> <<>>]
    /\ UNCHANGED logical

Next ==
    \/ \E s \in Sessions :
          \/ \E b \in Batches : Request(s, b)
          \/ Publish(s) \/ Answer(s)
          \/ \E f \in Files, c \in Contents \cup {Absent} : Save(s, f, c)
    \/ Crash

Spec == Init /\ [][Next]_vars
=============================================================================
