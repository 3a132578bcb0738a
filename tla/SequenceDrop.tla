---------------------------- MODULE SequenceDrop ----------------------------
(***************************************************************************)
(* What is left of a sequence without the elements of a set: the list      *)
(* comprehensions of the export registry and of the revision index.        *)
(***************************************************************************)
EXTENDS Naturals, Sequences

\* SelectSeq(s, LAMBDA x : x \notin T), as a function the provers can expand.
Drop(s, T) ==
    LET rest[i \in 0..Len(s)] ==
            IF i = 0 THEN <<>>
            ELSE IF s[i] \in T THEN rest[i - 1] ELSE Append(rest[i - 1], s[i])
    IN  rest[Len(s)]
=============================================================================
