------------------------------ MODULE JobLedger ------------------------------
(***************************************************************************)
(* What a user may rely on in imports/jobs.json: a job appears once, ends  *)
(* once, and is forgotten only after it ended.  A restart ends whatever    *)
(* was under way.                                                          *)
(***************************************************************************)
CONSTANTS JobIds, Active, Terminal

VARIABLE ledger      \* status of each job, "none" when it is not listed

Init == ledger = [j \in JobIds |-> "none"]

Forgettable == {j \in JobIds : ledger[j] \in Terminal}

\* A new job; older ones that ended may make room for it.
Register(j, forgotten) ==
    /\ ledger[j] = "none"
    /\ ledger' = [i \in JobIds |-> IF i = j THEN "queued"
                                   ELSE IF i \in forgotten THEN "none"
                                   ELSE ledger[i]]

Advance(j, status) ==
    /\ ledger[j] \in Active
    /\ ledger' = [ledger EXCEPT ![j] = status]

Restart ==
    ledger' = [j \in JobIds |-> IF ledger[j] \in Active THEN "interrupted"
                                                         ELSE ledger[j]]

Next ==
    \/ \E j \in JobIds, forgotten \in SUBSET Forgettable : Register(j, forgotten)
    \/ \E j \in JobIds, status \in Active \cup Terminal : Advance(j, status)
    \/ Restart

Spec == Init /\ [][Next]_ledger
=============================================================================
