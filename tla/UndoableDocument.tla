-------------------------- MODULE UndoableDocument --------------------------
(***************************************************************************)
(* What undo and redo promise for a document that several sessions share.  *)
(* A command replaces the document and is remembered by the session that   *)
(* gave it; taking it back restores what it replaced, and is refused when  *)
(* anybody has changed the document since.  A session remembers its last   *)
(* Limit commands and forgets the taken-back ones at its next command.     *)
(***************************************************************************)
EXTENDS Naturals, Sequences

CONSTANTS
    Users,      \* who gives commands
    Documents,  \* what the document may hold
    Limit       \* how many commands a user can take back

VARIABLES
    document,   \* what the document holds
    done,       \* the commands each user can take back, the latest last
    undone      \* the commands each user has taken back, the latest last

LastOf(seq, n) == IF Len(seq) <= n THEN seq ELSE SubSeq(seq, Len(seq) - n + 1, Len(seq))
Top(seq) == seq[Len(seq)]
Pop(seq) == SubSeq(seq, 1, Len(seq) - 1)

Init ==
    /\ document \in Documents
    /\ done = [u \in Users |-> <<>>]
    /\ undone = [u \in Users |-> <<>>]

Command(u, new) ==
    /\ new # document
    /\ document' = new
    /\ done' = [done EXCEPT ![u] = LastOf(Append(@, [before |-> document, after |-> new]), Limit)]
    /\ undone' = [undone EXCEPT ![u] = <<>>]

Undo(u) ==
    /\ done[u] # <<>>
    /\ document = Top(done[u]).after
    /\ document' = Top(done[u]).before
    /\ done' = [done EXCEPT ![u] = Pop(@)]
    /\ undone' = [undone EXCEPT ![u] = LastOf(Append(@, Top(done[u])), Limit)]

Redo(u) ==
    /\ undone[u] # <<>>
    /\ document = Top(undone[u]).before
    /\ document' = Top(undone[u]).after
    /\ undone' = [undone EXCEPT ![u] = Pop(@)]
    /\ done' = [done EXCEPT ![u] = LastOf(Append(@, Top(undone[u])), Limit)]

\* The document is replaced by something that is not a command.
Overwrite(new) == document' = new /\ UNCHANGED <<done, undone>>

\* The sessions end.
Forget ==
    /\ done' = [u \in Users |-> <<>>]
    /\ undone' = [u \in Users |-> <<>>]
    /\ UNCHANGED document

Next ==
    \/ \E u \in Users : Undo(u) \/ Redo(u) \/ \E new \in Documents : Command(u, new)
    \/ \E new \in Documents : Overwrite(new)
    \/ Forget

Spec == Init /\ [][Next]_<<document, done, undone>>
=============================================================================
