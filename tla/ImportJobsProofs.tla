-------------------------- MODULE ImportJobsProofs --------------------------
(***************************************************************************)
(* For every number of managers, jobs, files, restarts and changes of      *)
(* workspace, with calls that raise at any time: as long as no manager is  *)
(* built while another is in use or at work, the history is true,          *)
(* interrupted jobs stay so, a cancelled job stops, and the cleanup of the *)
(* staging directory spares what jobs still need.  Until a call raises,    *)
(* jobs.json is the ledger that JobLedger promises.                        *)
(***************************************************************************)
EXTENDS ImportJobs, TLAPS

-----------------------------------------------------------------------------
(* Type correctness. *)

\* A future that is withdrawn leaves the others as they were (Future.cancel).
LEMMA WithdrawProperties ==
    ASSUME NEW S, NEW q \in Seq(S), NEW j, \E k \in DOMAIN q : q[k] = j
    PROVE  /\ Withdraw(q, j) \in Seq(S)
           /\ \A a \in DOMAIN Withdraw(q, j) : \E b \in DOMAIN q : Withdraw(q, j)[a] = q[b]
           /\ (\A a, b \in DOMAIN q : q[a] = q[b] => a = b) =>
                 /\ \A a, b \in DOMAIN Withdraw(q, j) : Withdraw(q, j)[a] = Withdraw(q, j)[b] => a = b
                 /\ \A a \in DOMAIN Withdraw(q, j) : Withdraw(q, j)[a] # j
<1> DEFINE k == CHOOSE k \in DOMAIN q : q[k] = j
           w == [i \in 1 .. Len(q) - 1 |-> IF i < k THEN q[i] ELSE q[i + 1]]
<1>1. k \in 1 .. Len(q) /\ q[k] = j /\ Len(q) \in Nat /\ Len(q) - 1 \in Nat
  OBVIOUS
<1>2. Withdraw(q, j) = w
  BY DEF Withdraw
<1> HIDE DEF k
<1>3. DOMAIN w = 1 .. Len(q) - 1 /\ \A i \in 1 .. Len(q) - 1 : w[i] = (IF i < k THEN q[i] ELSE q[i + 1])
  OBVIOUS
<1>4. w \in Seq(S)
  <2>1. \A i \in 1 .. Len(q) - 1 : w[i] \in S
    BY <1>1, <1>3
  <2> QED
    BY <1>1, <1>3, <2>1
<1> HIDE DEF w
<1>5. \A a \in 1 .. Len(q) - 1 : \E b \in 1 .. Len(q) : b # k /\ w[a] = q[b] /\ b = (IF a < k THEN a ELSE a + 1)
  BY <1>1, <1>3
<1>6. \A a, b \in 1 .. Len(q) - 1 : (IF a < k THEN a ELSE a + 1) = (IF b < k THEN b ELSE b + 1) => a = b
  BY <1>1
<1>7. ASSUME \A a, b \in DOMAIN q : q[a] = q[b] => a = b
      PROVE  /\ \A a, b \in 1 .. Len(q) - 1 : w[a] = w[b] => a = b
             /\ \A a \in 1 .. Len(q) - 1 : w[a] # j
  <2>1. ASSUME NEW a \in 1 .. Len(q) - 1, NEW b \in 1 .. Len(q) - 1, w[a] = w[b]
        PROVE  a = b
    <3>1. PICK c \in 1 .. Len(q) : w[a] = q[c] /\ c = (IF a < k THEN a ELSE a + 1)
      BY <1>5
    <3>2. PICK d \in 1 .. Len(q) : w[b] = q[d] /\ d = (IF b < k THEN b ELSE b + 1)
      BY <1>5
    <3>3. q[c] = q[d]
      BY <2>1, <3>1, <3>2
    <3>4. c \in DOMAIN q /\ d \in DOMAIN q
      BY <3>1, <3>2
    <3>5. c = d
      BY <1>7, <3>3, <3>4
    <3> QED
      BY <1>6, <3>1, <3>2, <3>5
  <2>2. ASSUME NEW a \in 1 .. Len(q) - 1
        PROVE  w[a] # j
    <3>1. PICK c \in 1 .. Len(q) : c # k /\ w[a] = q[c]
      BY <1>5
    <3> QED
      BY <1>1, <1>7, <3>1
  <2> QED
    BY <2>1, <2>2
<1>8. \A a \in 1 .. Len(q) - 1 : \E b \in DOMAIN q : w[a] = q[b]
  BY <1>1, <1>5
<1>9. DOMAIN w = 1 .. Len(q) - 1
  BY <1>3
<1> QED
  BY <1>2, <1>4, <1>7, <1>8, <1>9

\* The records of a thread keep their type when a field is set.
LEMMA RestTyped == Idle \in Works /\ Ready \in Uis /\ NoStatus \in Table
<1>1. <<>> \in Seq(Lines)
  OBVIOUS
<1> QED
  BY <1>1 DEF Idle, Ready, NoStatus, Works, Uis, Table

LEMMA WorkSet ==
    ASSUME NEW F \in [Managers -> Works], NEW m \in Managers, NEW w \in Works
    PROVE  [F EXCEPT ![m] = w] \in [Managers -> Works]
OBVIOUS

LEMMA UiSet ==
    ASSUME NEW F \in [Managers -> Uis], NEW m \in Managers, NEW u \in Uis
    PROVE  [F EXCEPT ![m] = u] \in [Managers -> Uis]
OBVIOUS

LEMMA JobSet ==
    ASSUME NEW F \in [Managers -> Table], NEW m \in Managers, NEW j \in JobIds,
           NEW s \in Active \cup Terminal \cup {"none"}
    PROVE  [F EXCEPT ![m][j] = s] \in [Managers -> Table]
BY DEF Table

\* A thread that is at work names its job.
BusyOf(m) ==
    /\ work[m].at = "idle" => work[m] = Idle
    /\ work[m].at # "idle" => work[m].job \in JobIds
    /\ work[m].at \in {"terminal", "history"} => work[m].verdict \in {"completed", "cancelled", "failed"}
    /\ ui[m].at = "append" => ui[m].job \in JobIds
Busy == \A m \in Managers : BusyOf(m)

WellTyped == TypeOK /\ Busy

LEMMA TypeStep == ASSUME WellTyped, [Next]_vars PROVE TypeOK'
<1> USE ImportAssumption, RestTyped DEF TypeOK, WellTyped, Busy, BusyOf
<1>1. ASSUME NEW m \in Managers, Boot(m) PROVE TypeOK'
  <2>1. jobs' \in [Managers -> Table]
    BY <1>1 DEF Boot, Table, Active, Terminal, JobIds
  <2>2. manager' \in [Managers -> {"down", "recovering", "up", "left"}]
    BY <1>1 DEF Boot
  <2> QED
    BY <1>1, <2>1, <2>2 DEF Boot, disk, faults
<1>2. ASSUME NEW m \in Managers, NEW j \in JobIds, RecoverJob(m, j) PROVE TypeOK'
  <2>1. jobs' \in [Managers -> Table]
    BY <1>2 DEF RecoverJob, Table, Active, Terminal, JobIds
  <2>2. history' \in Seq(Lines)
    BY <1>2 DEF RecoverJob, Lines, Line, Terminal, At, Uis
  <2> QED
    BY <1>2, <2>1, <2>2 DEF RecoverJob, disk, faults, ghosts, Failing
<1>3. ASSUME NEW m \in Managers, RecoverPersist(m) PROVE TypeOK'
  <2>1. jobsFile' \in Table
    BY <1>3 DEF RecoverPersist, Table, Active, Terminal, JobIds
  <2>2. manager' \in [Managers -> {"down", "recovering", "up", "left"}]
    BY <1>3 DEF RecoverPersist
  <2> QED
    BY <1>3, <2>1, <2>2 DEF RecoverPersist, disk, faults, ghosts, Failing
<1>4. ASSUME NEW m \in Managers, Take(m) PROVE TypeOK'
  <2>1. queue' \in [Managers -> Seq(JobIds)]
    BY <1>4 DEF Take
  <2>2. work' \in [Managers -> Works]
    <3>0. Head(queue[m]) \in JobIds
      BY <1>4 DEF Take
    <3> DEFINE w == [Idle EXCEPT !.at = "taken", !.job = Head(queue[m])]
    <3>1. work[m] \in Works
      BY <1>4
    <3>2. w \in Works
      BY <1>4, <3>0, <3>1 DEF Works, Take, At, Idle
    <3>3. work' = [work EXCEPT ![m] = w]
      BY <1>4 DEF Take, Step
    <3> HIDE DEF w
    <3> QED
      BY <3>2, <3>3, WorkSet
  <2> QED
    BY <1>4, <2>1, <2>2 DEF Take, disk, faults, ghosts, Failing
<1>5. ASSUME NEW m \in Managers, Begin(m) PROVE TypeOK'
  <2>1. jobs' \in [Managers -> Table]
    BY <1>5 DEF Begin, Table, Active, Terminal, JobIds
  <2>2. jobsFile' \in Table
    BY <1>5, <2>1 DEF Begin, Table, Active, Terminal, JobIds
  <2>3. work' \in [Managers -> Works]
    <3> DEFINE w == [work[m] EXCEPT !.at = "batch", !.todo = sources[work[m].job]]
    <3>1. work[m] \in Works
      BY <1>5
    <3>2. w \in Works
      BY <1>5, <3>1 DEF Works, Begin, At, Idle
    <3>3. work' = [work EXCEPT ![m] = w]
      BY <1>5 DEF Begin, Step
    <3> HIDE DEF w
    <3> QED
      BY <3>2, <3>3, WorkSet
  <2> QED
    BY <1>5, <2>1, <2>2, <2>3 DEF Begin, disk, faults, ghosts, Failing
<1>6. ASSUME NEW m \in Managers, NextItem(m) PROVE TypeOK'
  <2>1. work' \in [Managers -> Works]
    <3>1. work[m] \in Works
      BY <1>6
    <3>2. [work[m] EXCEPT !.at = "result"] \in Works /\ [work[m] EXCEPT !.at = "item"] \in Works
      BY <3>1 DEF Works
    <3>3. CASE work' = [work EXCEPT ![m] = [work[m] EXCEPT !.at = "result"]]
      BY <3>2, <3>3, WorkSet
    <3>4. CASE work' = [work EXCEPT ![m] = [work[m] EXCEPT !.at = "item"]]
      BY <3>2, <3>4, WorkSet
    <3> QED
      BY <1>6, <3>3, <3>4 DEF NextItem, Step
  <2> QED
    BY <1>6, <2>1 DEF NextItem, disk, faults, ghosts, Failing
<1>7. ASSUME NEW m \in Managers, NEW f \in Files, ImportItem(m, f) PROVE TypeOK'
  <2>1. work' \in [Managers -> Works]
    <3>1. PICK bad \in {{}, {f}} : work' = [work EXCEPT ![m] =
                [@ EXCEPT !.at = "progress", !.todo = work[m].todo \ {f}, !.bad = work[m].bad \cup bad]]
      BY <1>7 DEF ImportItem
    <3> DEFINE w == [work[m] EXCEPT !.at = "progress", !.todo = work[m].todo \ {f}, !.bad = work[m].bad \cup bad]
    <3>2. w \in Works
      <4>1. work[m] \in Works /\ f \in work[m].todo
        BY <1>7 DEF ImportItem
      <4>2. work[m].bad \cup bad \in SUBSET Files /\ work[m].todo \ {f} \in SUBSET Files
        BY <4>1 DEF Works
      <4> QED
        BY <4>1, <4>2 DEF Works
    <3>3. work' = [work EXCEPT ![m] = w]
      BY <3>1
    <3> HIDE DEF w
    <3> QED
      BY <3>2, <3>3, WorkSet
  <2>2. late' \in [JobIds -> Nat]
    BY <1>7 DEF ImportItem, Works, At
  <2> QED
    BY <1>7, <2>1, <2>2 DEF ImportItem, disk, faults, ghosts, Failing
<1>8. ASSUME NEW m \in Managers, ReportProgress(m) PROVE TypeOK'
  <2>1. jobsFile' \in Table
    BY <1>8 DEF ReportProgress, Table, Active, Terminal, JobIds
  <2>2. work' \in [Managers -> Works]
    <3> DEFINE w == [work[m] EXCEPT !.at = "batch"]
    <3>1. work[m] \in Works
      BY <1>8
    <3>2. w \in Works
      BY <1>8, <3>1 DEF Works, ReportProgress, At, Idle
    <3>3. work' = [work EXCEPT ![m] = w]
      BY <1>8 DEF ReportProgress, Step
    <3> HIDE DEF w
    <3> QED
      BY <3>2, <3>3, WorkSet
  <2> QED
    BY <1>8, <2>1, <2>2 DEF ReportProgress, disk, faults, ghosts, Failing
<1>9. ASSUME NEW m \in Managers, Conclude(m) PROVE TypeOK'
  <2>1. work' \in [Managers -> Works]
    <3> DEFINE w == [work[m] EXCEPT !.at = "terminal", !.verdict = IF jobs[m][work[m].job] = "cancel_requested" THEN "cancelled" ELSE "completed"]
    <3>1. work[m] \in Works
      BY <1>9
    <3>2. w \in Works
      BY <1>9, <3>1 DEF Works, Conclude, At, Idle
    <3>3. work' = [work EXCEPT ![m] = w]
      BY <1>9 DEF Conclude, Step
    <3> HIDE DEF w
    <3> QED
      BY <3>2, <3>3, WorkSet
  <2> QED
    BY <1>9, <2>1 DEF Conclude, disk, faults, ghosts, Failing
<1>10. ASSUME NEW m \in Managers, Finish(m) PROVE TypeOK'
  <2>1. jobs' \in [Managers -> Table]
    <3>1. work[m].job \in JobIds /\ work[m].verdict \in Terminal
      BY <1>10 DEF Finish, At, Terminal
    <3> QED
      BY <1>10, <3>1, JobSet DEF Finish
  <2>2. jobsFile' \in Table
    BY <1>10, <2>1 DEF Finish, Table, Active, Terminal, JobIds
  <2>3. failed' \in [JobIds -> SUBSET Files]
    BY <1>10 DEF Finish, Works
  <2>4. work' \in [Managers -> Works]
    <3> DEFINE w == [work[m] EXCEPT !.at = "history"]
    <3>1. work[m] \in Works
      BY <1>10
    <3>2. w \in Works
      BY <1>10, <3>1 DEF Works, Finish, At, Idle
    <3>3. work' = [work EXCEPT ![m] = w]
      BY <1>10 DEF Finish, Step
    <3> HIDE DEF w
    <3> QED
      BY <3>2, <3>3, WorkSet
  <2> QED
    BY <1>10, <2>1, <2>2, <2>3, <2>4 DEF Finish, disk, faults, ghosts, Failing
<1>11. ASSUME NEW m \in Managers, AppendHistory(m) PROVE TypeOK'
  <2>1. history' \in Seq(Lines)
    BY <1>11 DEF AppendHistory, Lines, Line, Terminal, At, Uis
  <2>2. work' \in [Managers -> Works]
    BY <1>11 DEF AppendHistory, Works, Idle, Step, At
  <2> QED
    BY <1>11, <2>1, <2>2 DEF AppendHistory, disk, faults, ghosts, Failing
<1>12. ASSUME NEW m \in Managers, AppendCancelled(m) PROVE TypeOK'
  <2>1. history' \in Seq(Lines)
    BY <1>12 DEF AppendCancelled, Lines, Line, Terminal, At, Uis
  <2>2. ui' \in [Managers -> Uis]
    BY <1>12 DEF AppendCancelled, Uis, Ready, Lines
  <2> QED
    BY <1>12, <2>1, <2>2 DEF AppendCancelled, disk, faults, ghosts, Failing
<1>13. ASSUME NEW m \in Managers, PruneReplace(m) PROVE TypeOK'
  <2>1. history' \in Seq(Lines)
    <3>1. ui[m].rows \in Seq(Lines)
      BY <1>13 DEF Uis
    <3>2. PICK k \in 1 .. Len(ui[m].rows) + 1 : history' = SubSeq(ui[m].rows, k, Len(ui[m].rows))
      BY <1>13 DEF PruneReplace
    <3>3. \A i \in k .. Len(ui[m].rows) : ui[m].rows[i] \in Lines
      BY <3>1, <3>2
    <3> QED
      BY <3>1, <3>2, <3>3
  <2>2. ui' \in [Managers -> Uis]
    <3> DEFINE u == [Ready EXCEPT !.at = "protect"]
    <3>1. ui[m] \in Uis
      BY <1>13
    <3>2. u \in Uis
      BY <1>13, <3>1 DEF Uis, PruneReplace, Ready
    <3>3. ui' = [ui EXCEPT ![m] = u]
      BY <1>13 DEF PruneReplace
    <3> HIDE DEF u
    <3> QED
      BY <3>2, <3>3, UiSet
  <2> QED
    BY <1>13, <2>1, <2>2 DEF PruneReplace, disk, faults, ghosts, Failing
<1>14. ASSUME NEW m \in Managers, ListStaging(m) PROVE TypeOK'
  <2>1. ui' \in [Managers -> Uis]
    <3> DEFINE u == [ui[m] EXCEPT !.at = "unlink", !.files = staged \ ui[m].files]
    <3>1. ui[m] \in Uis
      BY <1>14
    <3>2. u \in Uis
      BY <1>14, <3>1 DEF Uis, ListStaging, Ready
    <3>3. ui' = [ui EXCEPT ![m] = u]
      BY <1>14 DEF ListStaging
    <3> HIDE DEF u
    <3> QED
      BY <3>2, <3>3, UiSet
  <2> QED
    BY <1>14, <2>1 DEF ListStaging, disk, faults, ghosts, Failing
<1>15. ASSUME NEW m \in Managers, NEW f \in Files, Unlink(m, f) PROVE TypeOK'
  <2>1. staged' \subseteq Files
    BY <1>15 DEF Unlink
  <2>2. ui' \in [Managers -> Uis]
    <3> DEFINE u == [ui[m] EXCEPT !.files = ui[m].files \ {f}]
    <3>1. ui[m] \in Uis
      BY <1>15
    <3>2. u \in Uis
      BY <1>15, <3>1 DEF Uis, Unlink, Ready
    <3>3. ui' = [ui EXCEPT ![m] = u]
      BY <1>15 DEF Unlink
    <3> HIDE DEF u
    <3> QED
      BY <3>2, <3>3, UiSet
  <2> QED
    BY <1>15, <2>1, <2>2 DEF Unlink, disk, faults, ghosts, Failing
<1>16. ASSUME NEW m \in Managers, CleanupDone(m) PROVE TypeOK'
  <2>1. ui' \in [Managers -> Uis]
    BY <1>16 DEF CleanupDone, Uis, Ready, Lines
  <2> QED
    BY <1>16, <2>1 DEF CleanupDone, disk, faults, ghosts, Failing
<1>17. ASSUME NEW m \in Managers, NEW f \in Files, Upload(m, f) PROVE TypeOK'
  <2>1. staged' \subseteq Files
    BY <1>17 DEF Upload
  <2>2. ui' \in [Managers -> Uis]
    <3> DEFINE u == [ui[m] EXCEPT !.at = "submit", !.files = ui[m].files \cup {f}]
    <3>1. ui[m] \in Uis
      BY <1>17
    <3>2. u \in Uis
      BY <1>17, <3>1 DEF Uis, Upload, Ready
    <3>3. ui' = [ui EXCEPT ![m] = u]
      BY <1>17 DEF Upload
    <3> HIDE DEF u
    <3> QED
      BY <3>2, <3>3, UiSet
  <2> QED
    BY <1>17, <2>1, <2>2 DEF Upload, disk, faults, ghosts, Failing
<1>18. ASSUME NEW m \in Managers, NEW j \in JobIds, Retry(m, j) PROVE TypeOK'
  <2>1. ui' \in [Managers -> Uis]
    <3> DEFINE u == [Ready EXCEPT !.at = "submit", !.files = staged \cap (IF jobs[m][j] = "interrupted" THEN sources[j] ELSE failed[j])]
    <3>1. ui[m] \in Uis
      BY <1>18
    <3>2. u \in Uis
      BY <1>18, <3>1 DEF Uis, Retry, Ready
    <3>3. ui' = [ui EXCEPT ![m] = u]
      BY <1>18 DEF Retry
    <3> HIDE DEF u
    <3> QED
      BY <3>2, <3>3, UiSet
  <2> QED
    BY <1>18, <2>1 DEF Retry, disk, faults, ghosts, Failing
<1>19. ASSUME NEW m \in Managers, NEW j \in JobIds, CancelQueued(m, j) PROVE TypeOK'
  <2>1. jobs' \in [Managers -> Table]
    BY <1>19 DEF CancelQueued, Table, Active, Terminal, JobIds
  <2>2. jobsFile' \in Table
    BY <1>19, <2>1 DEF CancelQueued, Table, Active, Terminal, JobIds
  <2>3. queue' \in [Managers -> Seq(JobIds)]
    <3>1. \E k \in DOMAIN queue[m] : queue[m][k] = j
      BY <1>19 DEF CancelQueued, InQueue
    <3>2. Withdraw(queue[m], j) \in Seq(JobIds)
      BY <1>19, <3>1, WithdrawProperties
    <3> QED
      BY <1>19, <3>2 DEF CancelQueued
  <2>4. ui' \in [Managers -> Uis]
    <3> DEFINE u == [Ready EXCEPT !.at = "append", !.job = j]
    <3>1. ui[m] \in Uis
      BY <1>19
    <3>2. u \in Uis
      BY <1>19, <3>1 DEF Uis, CancelQueued, Ready
    <3>3. ui' = [ui EXCEPT ![m] = u]
      BY <1>19 DEF CancelQueued
    <3> HIDE DEF u
    <3> QED
      BY <3>2, <3>3, UiSet
  <2> QED
    BY <1>19, <2>1, <2>2, <2>3, <2>4 DEF CancelQueued, disk, faults, ghosts, Failing
<1>20. ASSUME NEW m \in Managers, NEW j \in JobIds, RequestCancel(m, j) PROVE TypeOK'
  <2>1. jobs' \in [Managers -> Table]
    BY <1>20 DEF RequestCancel, Table, Active, Terminal, JobIds
  <2>2. jobsFile' \in Table
    BY <1>20, <2>1 DEF RequestCancel, Table, Active, Terminal, JobIds
  <2>3. asked' \in [JobIds -> {"no", "item", "between"}]
    BY <1>20 DEF RequestCancel, ghosts
  <2>4. late' \in [JobIds -> Nat]
    <3>1. late' = late \/ late' = [late EXCEPT ![j] = 0]
      BY <1>20 DEF RequestCancel, ghosts
    <3>2. late \in [JobIds -> Nat] /\ 0 \in Nat /\ j \in JobIds
      BY <1>20
    <3>3. CASE late' = [late EXCEPT ![j] = 0]
      BY ONLY <3>2, <3>3
    <3> QED
      BY <3>1, <3>2, <3>3
  <2> QED
    BY <1>20, <2>1, <2>2, <2>3, <2>4 DEF RequestCancel, disk, faults, ghosts, Failing
<1>21. ASSUME NEW m \in Managers, Submit(m) PROVE TypeOK'
  <2>1. jobs' \in [Managers -> Table]
    BY <1>21 DEF Submit, Listing, Table, Active, Terminal, JobIds
  <2>2. jobsFile' \in Table
    BY <1>21, <2>1 DEF Submit, Table, Active, Terminal, JobIds
  <2>3. sources' \in [JobIds -> SUBSET Files]
    BY <1>21 DEF Submit, Uis, JobIds
  <2>4. queue' \in [Managers -> Seq(JobIds)]
    BY <1>21 DEF Submit, JobIds, InQueue, Works
  <2>5. ui' \in [Managers -> Uis]
    BY <1>21 DEF Submit, Uis, Ready, Lines
  <2>6. submitted' \in 0..MaxSubmitted
    BY <1>21 DEF Submit
  <2> QED
    BY <1>21, <2>1, <2>2, <2>3, <2>4, <2>5, <2>6 DEF Submit, disk, faults, ghosts, Failing
<1>22. ASSUME NEW m \in Managers, PruneRead(m) PROVE TypeOK'
  <2>1. ui' \in [Managers -> Uis]
    <3> DEFINE u == [Ready EXCEPT !.at = "rewrite", !.rows = history]
    <3>1. ui[m] \in Uis
      BY <1>22
    <3>2. u \in Uis
      BY <1>22, <3>1 DEF Uis, PruneRead, Ready
    <3>3. ui' = [ui EXCEPT ![m] = u]
      BY <1>22 DEF PruneRead
    <3> HIDE DEF u
    <3> QED
      BY <3>2, <3>3, UiSet
  <2> QED
    BY <1>22, <2>1 DEF PruneRead, disk, faults, ghosts, Failing
<1>23. ASSUME NEW m \in Managers, NEW b \in BOOLEAN, Protect(m, b) PROVE TypeOK'
  <2>1. ui' \in [Managers -> Uis]
    <3> DEFINE g == IF b THEN ActiveSources(m) ELSE UNION {sources[i] : i \in Listed(m)}
           u == [Ready EXCEPT !.at = "list", !.files = g]
    <3>1. \A i \in JobIds : sources[i] \subseteq Files
      OBVIOUS
    <3>2. g \subseteq Files
      BY <3>1 DEF ActiveSources, Listed
    <3> HIDE DEF g
    <3>3. u \in Uis
      BY <3>2 DEF Uis, Ready
    <3>4. ui' = [ui EXCEPT ![m] = u]
      BY <1>23 DEF Protect, g
    <3> HIDE DEF u
    <3> QED
      BY <3>3, <3>4, UiSet
  <2> QED
    BY <1>23, <2>1 DEF Protect, disk, faults, ghosts, Failing
<1>24. ASSUME NEW m \in Managers, SubmitRaises(m) PROVE TypeOK'
  <2>1. jobs' \in [Managers -> Table]
    BY <1>24 DEF SubmitRaises, Listing, Table, Active, Terminal, JobIds
  <2>5. jobsFile' \in Table
    BY <1>24, <2>1 DEF SubmitRaises
  <2>2. sources' \in [JobIds -> SUBSET Files]
    BY <1>24 DEF SubmitRaises, Uis, JobIds
  <2>3. ui' \in [Managers -> Uis]
    BY <1>24 DEF SubmitRaises, Uis, Ready, Lines
  <2>4. submitted' \in 0..MaxSubmitted
    BY <1>24 DEF SubmitRaises
  <2> QED
    BY <1>24, <2>1, <2>2, <2>3, <2>4, <2>5 DEF SubmitRaises, disk, faults, ghosts, Failing
<1>25. ASSUME NEW m \in Managers, NEW j \in JobIds, CancelRaises(m, j) PROVE TypeOK'
  <2>1. jobs' \in [Managers -> Table]
    BY <1>25 DEF CancelRaises, Table, Active, Terminal, JobIds
  <2>2. queue' \in [Managers -> Seq(JobIds)]
    <3>1. CASE InQueue(m, j)
      <4>1. \E k \in DOMAIN queue[m] : queue[m][k] = j
        BY <3>1 DEF InQueue
      <4>2. Withdraw(queue[m], j) \in Seq(JobIds)
        BY <1>25, <4>1, WithdrawProperties
      <4> QED
        BY <1>25, <4>2 DEF CancelRaises
    <3>2. CASE ~InQueue(m, j)
      BY <1>25, <3>2 DEF CancelRaises
    <3> QED
      BY <3>1, <3>2
  <2> QED
    BY <1>25, <2>1, <2>2 DEF CancelRaises, disk, faults, ghosts, Failing
<1>26. ASSUME NEW m \in Managers, BeginRaises(m) PROVE TypeOK'
  <2>1. jobs' \in [Managers -> Table]
    BY <1>26 DEF BeginRaises, Table, Active, Terminal, JobIds
  <2>2. work' \in [Managers -> Works]
    BY <1>26 DEF BeginRaises, Works, Idle, Step, At
  <2> QED
    BY <1>26, <2>1, <2>2 DEF BeginRaises, disk, faults, ghosts, Failing
<1>27. ASSUME NEW m \in Managers, RunnerRaises(m) PROVE TypeOK'
  <2>1. work' \in [Managers -> Works]
    <3> DEFINE w == [work[m] EXCEPT !.at = "terminal", !.verdict = "failed"]
    <3>1. work[m] \in Works
      BY <1>27
    <3>2. w \in Works
      BY <1>27, <3>1 DEF Works, RunnerRaises, At, Idle
    <3>3. work' = [work EXCEPT ![m] = w]
      BY <1>27 DEF RunnerRaises, Step
    <3> HIDE DEF w
    <3> QED
      BY <3>2, <3>3, WorkSet
  <2> QED
    BY <1>27, <2>1 DEF RunnerRaises, disk, faults, ghosts, Failing
<1>28. ASSUME NEW m \in Managers, FinishRaises(m) PROVE TypeOK'
  <2>1. jobs' \in [Managers -> Table]
    <3>1. work[m].job \in JobIds /\ work[m].verdict \in Terminal
      BY <1>28 DEF FinishRaises, At, Terminal
    <3> QED
      BY <1>28, <3>1, JobSet DEF FinishRaises
  <2>2. failed' \in [JobIds -> SUBSET Files]
    BY <1>28 DEF FinishRaises, Works
  <2>3. work' \in [Managers -> Works]
    BY <1>28 DEF FinishRaises, Works, Idle, Step, At
  <2> QED
    BY <1>28, <2>1, <2>2, <2>3 DEF FinishRaises, disk, faults, ghosts, Failing
<1>29. CASE Crash
  <2>1. jobs' \in [Managers -> Table]
    BY <1>29 DEF Crash, Table, Active, Terminal, JobIds
  <2>2. manager' \in [Managers -> {"down", "recovering", "up", "left"}]
    BY <1>29 DEF Crash
  <2>3. queue' \in [Managers -> Seq(JobIds)]
    BY <1>29 DEF Crash, JobIds, InQueue, Works
  <2>4. work' \in [Managers -> Works]
    BY <1>29 DEF Crash, Works, Idle, Step, At
  <2>5. ui' \in [Managers -> Uis]
    BY <1>29 DEF Crash, Uis, Ready, Lines
  <2>6. crashes' \in 0..MaxCrashes
    BY <1>29 DEF Crash
  <2> QED
    BY <1>29, <2>1, <2>2, <2>3, <2>4, <2>5, <2>6 DEF Crash, disk, faults, ghosts, Failing
<1>31. ASSUME NEW m \in Managers, Leave(m) PROVE TypeOK'
  <2>1. manager' \in [Managers -> {"down", "recovering", "up", "left"}]
    BY <1>31 DEF Leave
  <2>2. ui' \in [Managers -> Uis]
    BY <1>31, UiSet DEF Leave
  <2> QED
    BY <1>31, <2>1, <2>2 DEF Leave, disk, faults, ghosts
<1>32. ASSUME NEW m \in Managers, RecoverRaises(m) PROVE TypeOK'
  <2>1. manager' \in [Managers -> {"down", "recovering", "up", "left"}]
    BY <1>32 DEF RecoverRaises
  <2>2. jobs' \in [Managers -> Table]
    BY <1>32 DEF RecoverRaises
  <2> QED
    BY <1>32, <2>1, <2>2 DEF RecoverRaises, disk, ghosts, Failing
<1>30. CASE UNCHANGED vars
  BY <1>30 DEF vars
<1> QED
  BY <1>1, <1>2, <1>3, <1>4, <1>5, <1>6, <1>7, <1>8, <1>9, <1>10, <1>11, <1>12, <1>13,
     <1>14, <1>15, <1>16, <1>17, <1>18, <1>19, <1>20, <1>21, <1>22, <1>23, <1>24, <1>25,
     <1>26, <1>27, <1>28, <1>29, <1>30, <1>31, <1>32 DEF Next, Recovery, Worker, Serve,
     User

-----------------------------------------------------------------------------
(* What each action does to the session it belongs to. *)

LEMMA BootEffect ==
    ASSUME WellTyped, NEW m \in Managers, Boot(m)
    PROVE  /\ Gone(m)
           /\ manager'[m] \in {"recovering", "up"}
           /\ manager'[m] = "up" => \A j \in JobIds : jobsFile[j] \notin Active
           /\ jobs'[m] = jobsFile
           /\ ~overlapped' => ~overlapped /\ \A n \in Managers \ {m} : Gone(n)
           /\ \A n \in Managers \ {m} : manager'[n] = manager[n] /\ jobs'[n] = jobs[n]
           /\ UNCHANGED <<jobsFile, history, staged, sources, failed, queue, work, ui,
                          submitted, crashes, failures, asked, late>>
BY ImportAssumption DEF TypeOK, WellTyped, Busy, BusyOf, disk, faults, Boot

LEMMA LeaveEffect ==
    ASSUME WellTyped, NEW m \in Managers, Leave(m)
    PROVE  /\ manager[m] = "up"
           /\ ui[m].at \in {"ready", "submit"}
           /\ manager'[m] = "left"
           /\ ui'[m].at = "ready"
           /\ \A n \in Managers \ {m} : ui'[n] = ui[n]
           /\ UNCHANGED <<jobsFile, history, staged, sources, failed, jobs, queue, work,
                          submitted, crashes, failures, asked, late, overlapped>>
BY ImportAssumption DEF TypeOK, WellTyped, disk, faults, ghosts, Leave, Ready

LEMMA RecoverRaisesEffect ==
    ASSUME WellTyped, NEW m \in Managers, RecoverRaises(m)
    PROVE  /\ failures' = failures + 1
           /\ manager[m] = "recovering"
           /\ manager'[m] = "down"
           /\ jobs'[m] = NoStatus
           /\ UNCHANGED <<jobsFile, history, staged, sources, failed, queue, work, ui,
                          submitted, crashes, asked, late, overlapped>>
BY ImportAssumption DEF TypeOK, WellTyped, disk, ghosts, Failing, RecoverRaises

LEMMA RecoverJobEffect ==
    ASSUME WellTyped, NEW m \in Managers, NEW j \in JobIds, RecoverJob(m, j)
    PROVE  /\ manager[m] = "recovering"
           /\ jobs[m][j] \in Active
           /\ history' = Append(history, Line(j, "interrupted"))
           /\ \A i \in JobIds : jobs'[m][i] = IF i = j THEN "interrupted" ELSE jobs[m][i]
           /\ UNCHANGED <<jobsFile, staged, sources, failed, manager, queue, work, ui,
                          submitted, crashes, failures, asked, late, overlapped>>
BY ImportAssumption DEF TypeOK, WellTyped, Busy, BusyOf, disk, faults, ghosts, Failing, Alive, At, Unlocked,
   RecoverJob, Unrecovered, Table

LEMMA RecoverPersistEffect ==
    ASSUME WellTyped, NEW m \in Managers, RecoverPersist(m)
    PROVE  /\ manager[m] = "recovering"
           /\ \A j \in JobIds : jobs[m][j] \notin Active
           /\ jobsFile' = jobs[m]
           /\ manager'[m] = "up"
           /\ UNCHANGED <<history, staged, sources, failed, jobs, queue, work, ui,
                          submitted, crashes, failures, asked, late, overlapped>>
BY ImportAssumption DEF TypeOK, WellTyped, Busy, BusyOf, disk, faults, ghosts, Failing, Alive, At, Unlocked,
   RecoverPersist, Unrecovered

LEMMA UploadEffect ==
    ASSUME WellTyped, NEW m \in Managers, NEW f \in Files, Upload(m, f)
    PROVE  /\ manager[m] = "up"
           /\ ui[m].at \in {"ready", "submit"}
           /\ ui'[m].at = "submit"
           /\ \A n \in Managers \ {m} : ui'[n] = ui[n]
           /\ UNCHANGED <<jobsFile, history, sources, failed, manager, jobs, queue, work,
                          submitted, crashes, failures, asked, late, overlapped>>
BY ImportAssumption DEF TypeOK, WellTyped, Busy, BusyOf, disk, faults, ghosts, Failing, Alive, At, Unlocked,
   Upload, Uis

LEMMA RetryEffect ==
    ASSUME WellTyped, NEW m \in Managers, NEW j \in JobIds, Retry(m, j)
    PROVE  /\ manager[m] = "up"
           /\ ui[m].at = "ready"
           /\ ui'[m].at = "submit"
           /\ \A n \in Managers \ {m} : ui'[n] = ui[n]
           /\ UNCHANGED <<jobsFile, history, staged, sources, failed, manager, jobs,
                          queue, work, submitted, crashes, failures, asked, late, overlapped>>
BY ImportAssumption DEF TypeOK, WellTyped, Busy, BusyOf, disk, faults, ghosts, Failing, Alive, At, Unlocked,
   Retry, Ready

LEMMA SubmitEffect ==
    ASSUME WellTyped, NEW m \in Managers, Submit(m)
    PROVE  /\ manager[m] = "up"
           /\ ui[m].at = "submit"
           /\ submitted + 1 \in JobIds
           /\ submitted' = submitted + 1
           /\ \A i \in JobIds : jobs'[m][i] = IF i = submitted + 1 THEN "queued" ELSE IF i \in Trimmed(m) THEN "none" ELSE jobs[m][i]
           /\ \A i \in Trimmed(m) : i \in JobIds /\ jobs[m][i] \in Terminal
           /\ jobsFile' = jobs'[m]
           /\ queue'[m] = Append(queue[m], submitted + 1)
           /\ ui'[m].at = "ready"
           /\ \A n \in Managers \ {m} : ui'[n] = ui[n]
           /\ UNCHANGED <<history, staged, failed, manager, work, crashes, failures, asked, late, overlapped>>
BY ImportAssumption DEF TypeOK, WellTyped, Busy, BusyOf, disk, faults, ghosts, Failing, Alive, At, Unlocked,
   Submit, Listing, Trimmed, Ended, JobIds, Ready

LEMMA SubmitRaisesEffect ==
    ASSUME WellTyped, NEW m \in Managers, SubmitRaises(m)
    PROVE  /\ failures' = failures + 1
           /\ manager[m] = "up"
           /\ ui[m].at = "submit"
           /\ submitted + 1 \in JobIds
           /\ submitted' = submitted + 1
           /\ \A i \in JobIds : jobs'[m][i] = IF i = submitted + 1 THEN "queued" ELSE IF i \in Trimmed(m) THEN "none" ELSE jobs[m][i]
           /\ \A i \in Trimmed(m) : i \in JobIds /\ jobs[m][i] \in Terminal
           /\ jobsFile' = jobsFile \/ jobsFile' = jobs'[m]
           /\ ui'[m].at = "ready"
           /\ \A n \in Managers \ {m} : ui'[n] = ui[n]
           /\ UNCHANGED <<history, staged, failed, manager, queue, work,
                          crashes, asked, late, overlapped>>
<1>1. jobs'[m] = Listing(m, submitted + 1)
  BY DEF WellTyped, TypeOK, SubmitRaises
<1>2. jobsFile' = jobsFile \/ jobsFile' = jobs'[m]
  BY DEF SubmitRaises
<1>3. submitted + 1 \in JobIds
  BY ImportAssumption DEF WellTyped, TypeOK, SubmitRaises, JobIds
<1>4. /\ \A i \in JobIds : jobs'[m][i] = IF i = submitted + 1 THEN "queued" ELSE IF i \in Trimmed(m) THEN "none" ELSE jobs[m][i]
      /\ \A i \in Trimmed(m) : i \in JobIds /\ jobs[m][i] \in Terminal
  BY <1>1 DEF Listing, Trimmed, Ended
<1>5. ui'[m].at = "ready" /\ \A n \in Managers \ {m} : ui'[n] = ui[n]
  BY DEF WellTyped, TypeOK, SubmitRaises, Ready
<1> QED
  BY <1>2, <1>3, <1>4, <1>5 DEF SubmitRaises, Failing, disk, ghosts

LEMMA CancelQueuedEffect ==
    ASSUME WellTyped, NEW m \in Managers, NEW j \in JobIds, CancelQueued(m, j)
    PROVE  /\ manager[m] = "up"
           /\ ui[m].at = "ready"
           /\ jobs[m][j] = "queued"
           /\ \E k \in DOMAIN queue[m] : queue[m][k] = j
           /\ queue'[m] = Withdraw(queue[m], j)
           /\ \A i \in JobIds : jobs'[m][i] = IF i = j THEN "cancelled" ELSE jobs[m][i]
           /\ jobsFile' = jobs'[m]
           /\ ui'[m].at = "append"
           /\ ui'[m].job = j
           /\ \A n \in Managers \ {m} : ui'[n] = ui[n]
           /\ UNCHANGED <<history, staged, sources, failed, manager, work, submitted,
                          crashes, failures, asked, late, overlapped>>
BY ImportAssumption DEF TypeOK, WellTyped, Busy, BusyOf, disk, faults, ghosts, Failing, Alive, At, Unlocked,
   CancelQueued, InQueue, Ready, Table

LEMMA AppendCancelledEffect ==
    ASSUME WellTyped, NEW m \in Managers, AppendCancelled(m)
    PROVE  /\ manager[m] = "up"
           /\ ui[m].at = "append"
           /\ history' = Append(history, Line(ui[m].job, "cancelled"))
           /\ ui'[m].at = "ready"
           /\ \A n \in Managers \ {m} : ui'[n] = ui[n]
           /\ UNCHANGED <<jobsFile, staged, sources, failed, manager, jobs, queue, work,
                          submitted, crashes, failures, asked, late, overlapped>>
BY ImportAssumption DEF TypeOK, WellTyped, Busy, BusyOf, disk, faults, ghosts, Failing, Alive, At, Unlocked,
   AppendCancelled, Ready

LEMMA RequestCancelEffect ==
    ASSUME WellTyped, NEW m \in Managers, NEW j \in JobIds, RequestCancel(m, j)
    PROVE  /\ manager[m] = "up"
           /\ ui[m].at = "ready"
           /\ jobs[m][j] \in Active
           /\ ~(jobs[m][j] = "queued" /\ InQueue(m, j))
           /\ \A i \in JobIds : jobs'[m][i] = IF i = j THEN "cancel_requested" ELSE jobs[m][i]
           /\ jobsFile' = jobs'[m]
           /\ \A i \in JobIds \ {j} : asked'[i] = asked[i] /\ late'[i] = late[i]
           /\ jobs[m][j] = "cancel_requested" => asked' = asked /\ late' = late
           /\ jobs[m][j] # "cancel_requested" =>
                 /\ late'[j] = 0
                 /\ asked'[j] = "item" => work[m].job = j /\ work[m].at = "item"
                 /\ asked'[j] = "between" =>
                       work[m].job = j /\ work[m].at \in {"batch", "progress", "result"}
           /\ UNCHANGED <<history, staged, sources, failed, manager, queue, work, ui,
                          submitted, crashes, failures, overlapped>>
BY ImportAssumption DEF TypeOK, WellTyped, Busy, BusyOf, disk, faults, ghosts, Failing, Alive, At, Unlocked,
   RequestCancel, Table, Active

LEMMA CancelRaisesEffect ==
    ASSUME WellTyped, NEW m \in Managers, NEW j \in JobIds, CancelRaises(m, j)
    PROVE  /\ failures' = failures + 1
           /\ manager[m] = "up"
           /\ ui[m].at = "ready"
           /\ jobs[m][j] \in Active
           /\ IF jobs[m][j] = "queued" /\ InQueue(m, j) THEN queue'[m] = Withdraw(queue[m], j) ELSE queue'[m] = queue[m]
           /\ \A i \in JobIds : jobs'[m][i] = IF i = j THEN (IF jobs[m][j] = "queued" /\ InQueue(m, j) THEN "cancelled" ELSE "cancel_requested") ELSE jobs[m][i]
           /\ UNCHANGED <<jobsFile, history, staged, sources, failed, manager, work, ui,
                          submitted, crashes, asked, late, overlapped>>
BY ImportAssumption DEF TypeOK, WellTyped, Busy, BusyOf, disk, faults, ghosts, Failing, Alive, At, Unlocked,
   CancelRaises, Table

LEMMA PruneReadEffect ==
    ASSUME WellTyped, NEW m \in Managers, PruneRead(m)
    PROVE  /\ manager[m] = "up"
           /\ ui[m].at = "ready"
           /\ ui'[m].at = "rewrite"
           /\ ui'[m].rows = history
           /\ \A n \in Managers \ {m} : ui'[n] = ui[n]
           /\ UNCHANGED <<jobsFile, history, staged, sources, failed, manager, jobs,
                          queue, work, submitted, crashes, failures, asked, late, overlapped>>
BY ImportAssumption DEF TypeOK, WellTyped, Busy, BusyOf, disk, faults, ghosts, Failing, Alive, At, Unlocked,
   PruneRead, Ready

LEMMA PruneReplaceEffect ==
    ASSUME WellTyped, NEW m \in Managers, PruneReplace(m)
    PROVE  /\ manager[m] = "up"
           /\ ui[m].at = "rewrite"
           /\ \A a \in DOMAIN history' : \E b \in DOMAIN ui[m].rows : history'[a] = ui[m].rows[b]
           /\ ui'[m].at = "protect"
           /\ \A n \in Managers \ {m} : ui'[n] = ui[n]
           /\ UNCHANGED <<jobsFile, staged, sources, failed, manager, jobs, queue, work,
                          submitted, crashes, failures, asked, late, overlapped>>
<1>1. ui[m].rows \in Seq(Lines)
  BY DEF WellTyped, TypeOK, Uis
<1>2. PICK k \in 1 .. Len(ui[m].rows) + 1 : history' = SubSeq(ui[m].rows, k, Len(ui[m].rows))
  BY DEF PruneReplace
<1>3. DOMAIN history' = 1 .. Len(ui[m].rows) - k + 1
  BY <1>1, <1>2
<1>4. \A a \in DOMAIN history' : history'[a] = ui[m].rows[a + k - 1] /\ a + k - 1 \in DOMAIN ui[m].rows
  BY <1>1, <1>2, <1>3
<1> QED
  BY <1>4 DEF TypeOK, WellTyped, PruneReplace, Ready, faults, ghosts

LEMMA ProtectEffect ==
    ASSUME WellTyped, NEW m \in Managers, NEW b \in BOOLEAN, Protect(m, b)
    PROVE  /\ manager[m] = "up"
           /\ ui[m].at \in {"ready", "protect"}
           /\ ui'[m].at = "list"
           /\ ActiveSources(m) \subseteq ui'[m].files
           /\ \A n \in Managers \ {m} : ui'[n] = ui[n]
           /\ UNCHANGED <<jobsFile, history, staged, sources, failed, manager, jobs,
                          queue, work, submitted, crashes, failures, asked, late, overlapped>>
<1>1. ActiveSources(m) \subseteq UNION {sources[i] : i \in Listed(m)}
  BY DEF ActiveSources, Listed, Active
<1>2. PICK g : ui' = [ui EXCEPT ![m] = [Ready EXCEPT !.at = "list", !.files = g]] /\ ActiveSources(m) \subseteq g
  BY <1>1 DEF Protect
<1>3. ui'[m] = [Ready EXCEPT !.at = "list", !.files = g] /\ \A n \in Managers \ {m} : ui'[n] = ui[n]
  BY <1>2 DEF WellTyped, TypeOK
<1>4. ui'[m].at = "list" /\ ui'[m].files = g
  BY <1>3 DEF Ready
<1> QED
  BY <1>2, <1>3, <1>4 DEF Protect, Unlocked, disk, faults, ghosts

LEMMA ListStagingEffect ==
    ASSUME WellTyped, NEW m \in Managers, ListStaging(m)
    PROVE  /\ manager[m] = "up"
           /\ ui[m].at = "list"
           /\ ui'[m].at = "unlink"
           /\ ui'[m].files = staged \ ui[m].files
           /\ \A n \in Managers \ {m} : ui'[n] = ui[n]
           /\ UNCHANGED <<jobsFile, history, staged, sources, failed, manager, jobs,
                          queue, work, submitted, crashes, failures, asked, late, overlapped>>
BY ImportAssumption DEF TypeOK, WellTyped, Busy, BusyOf, disk, faults, ghosts, Failing, Alive, At, Unlocked,
   ListStaging, Uis

LEMMA UnlinkEffect ==
    ASSUME WellTyped, NEW m \in Managers, NEW f \in Files, Unlink(m, f)
    PROVE  /\ manager[m] = "up"
           /\ ui[m].at = "unlink"
           /\ f \in ui[m].files
           /\ ui'[m].at = "unlink"
           /\ ui'[m].files = ui[m].files \ {f}
           /\ staged' \in {staged, staged \ {f}}
           /\ \A n \in Managers \ {m} : ui'[n] = ui[n]
           /\ UNCHANGED <<jobsFile, history, sources, failed, manager, jobs, queue, work,
                          submitted, crashes, failures, asked, late, overlapped>>
BY ImportAssumption DEF TypeOK, WellTyped, Busy, BusyOf, disk, faults, ghosts, Failing, Alive, At, Unlocked,
   Unlink, Uis

LEMMA CleanupDoneEffect ==
    ASSUME WellTyped, NEW m \in Managers, CleanupDone(m)
    PROVE  /\ manager[m] = "up"
           /\ ui[m].at = "unlink"
           /\ ui'[m].at = "ready"
           /\ \A n \in Managers \ {m} : ui'[n] = ui[n]
           /\ UNCHANGED <<jobsFile, history, staged, sources, failed, manager, jobs,
                          queue, work, submitted, crashes, failures, asked, late, overlapped>>
BY ImportAssumption DEF TypeOK, WellTyped, Busy, BusyOf, disk, faults, ghosts, Failing, Alive, At, Unlocked,
   CleanupDone, Ready

LEMMA TakeEffect ==
    ASSUME WellTyped, NEW m \in Managers, Take(m)
    PROVE  /\ manager[m] \in {"up", "left"}
           /\ work[m].at = "idle"
           /\ queue[m] # <<>>
           /\ work'[m].at = "taken"
           /\ work'[m].job = Head(queue[m])
           /\ queue'[m] = Tail(queue[m])
           /\ \A n \in Managers \ {m} : work'[n] = work[n]
           /\ UNCHANGED <<jobsFile, history, staged, sources, failed, manager, jobs, ui,
                          submitted, crashes, failures, asked, late, overlapped>>
BY ImportAssumption DEF TypeOK, WellTyped, Busy, BusyOf, disk, faults, ghosts, Failing, Alive, At, Unlocked,
   Take, Idle

LEMMA BeginEffect ==
    ASSUME WellTyped, NEW m \in Managers, Begin(m)
    PROVE  /\ manager[m] \in {"up", "left"}
           /\ work[m].at = "taken"
           /\ \A i \in JobIds : jobs'[m][i] = IF i = work[m].job THEN "running" ELSE jobs[m][i]
           /\ jobsFile' = jobs'[m]
           /\ work'[m].at = "batch"
           /\ work'[m].job = work[m].job
           /\ \A n \in Managers \ {m} : work'[n] = work[n]
           /\ UNCHANGED <<history, staged, sources, failed, manager, queue, ui,
                          submitted, crashes, failures, asked, late, overlapped>>
BY ImportAssumption DEF TypeOK, WellTyped, Busy, BusyOf, disk, faults, ghosts, Failing, Alive, At, Unlocked,
   Begin, Works, Table

LEMMA BeginRaisesEffect ==
    ASSUME WellTyped, NEW m \in Managers, BeginRaises(m)
    PROVE  /\ failures' = failures + 1
           /\ manager[m] \in {"up", "left"}
           /\ work[m].at = "taken"
           /\ \A i \in JobIds : jobs'[m][i] = IF i = work[m].job THEN "running" ELSE jobs[m][i]
           /\ work'[m] = Idle /\ work'[m].at = "idle" /\ work'[m].job = NoJob
           /\ \A n \in Managers \ {m} : work'[n] = work[n]
           /\ UNCHANGED <<jobsFile, history, staged, sources, failed, manager, queue, ui,
                          submitted, crashes, asked, late, overlapped>>
BY ImportAssumption DEF TypeOK, WellTyped, Busy, BusyOf, disk, faults, ghosts, Failing, Alive, At, Unlocked,
   BeginRaises, Table, Idle

LEMMA NextItemEffect ==
    ASSUME WellTyped, NEW m \in Managers, NextItem(m)
    PROVE  /\ manager[m] \in {"up", "left"}
           /\ work[m].at = "batch"
           /\ work'[m].at \in {"result", "item"}
           /\ work'[m].at = "item" => jobs[m][work[m].job] # "cancel_requested"
           /\ work'[m].job = work[m].job
           /\ \A n \in Managers \ {m} : work'[n] = work[n]
           /\ UNCHANGED <<jobsFile, history, staged, sources, failed, manager, jobs,
                          queue, ui, submitted, crashes, failures, asked, late, overlapped>>
BY ImportAssumption DEF TypeOK, WellTyped, Busy, BusyOf, disk, faults, ghosts, Failing, Alive, At, Unlocked,
   NextItem, Works, Step

LEMMA ImportItemEffect ==
    ASSUME WellTyped, NEW m \in Managers, NEW f \in Files, ImportItem(m, f)
    PROVE  /\ manager[m] \in {"up", "left"}
           /\ work[m].at = "item"
           /\ work'[m].at = "progress"
           /\ work'[m].job = work[m].job
           /\ \A i \in JobIds \ {work[m].job} : late'[i] = late[i]
           /\ asked[work[m].job] # "no" => late'[work[m].job] = late[work[m].job] + 1
           /\ \A n \in Managers \ {m} : work'[n] = work[n]
           /\ UNCHANGED <<jobsFile, history, staged, sources, failed, manager, jobs,
                          queue, ui, submitted, crashes, failures, asked, overlapped>>
BY ImportAssumption DEF TypeOK, WellTyped, Busy, BusyOf, disk, faults, ghosts, Failing, Alive, At, Unlocked,
   ImportItem, Works

LEMMA ReportProgressEffect ==
    ASSUME WellTyped, NEW m \in Managers, ReportProgress(m)
    PROVE  /\ manager[m] \in {"up", "left"}
           /\ work[m].at = "progress"
           /\ jobsFile' = jobs[m]
           /\ work'[m].at = "batch"
           /\ work'[m].job = work[m].job
           /\ \A n \in Managers \ {m} : work'[n] = work[n]
           /\ UNCHANGED <<history, staged, sources, failed, manager, jobs, queue, ui,
                          submitted, crashes, failures, asked, late, overlapped>>
BY ImportAssumption DEF TypeOK, WellTyped, Busy, BusyOf, disk, faults, ghosts, Failing, Alive, At, Unlocked,
   ReportProgress, Works, Step

LEMMA RunnerRaisesEffect ==
    ASSUME WellTyped, NEW m \in Managers, RunnerRaises(m)
    PROVE  /\ manager[m] \in {"up", "left"}
           /\ work[m].at = "progress"
           /\ work'[m].at = "terminal"
           /\ work'[m].job = work[m].job
           /\ work'[m].verdict = "failed"
           /\ \A n \in Managers \ {m} : work'[n] = work[n]
           /\ UNCHANGED <<jobsFile, history, staged, sources, failed, manager, jobs,
                          queue, ui, submitted, crashes, failures, asked, late, overlapped>>
BY ImportAssumption DEF TypeOK, WellTyped, Busy, BusyOf, disk, faults, ghosts, Failing, Alive, At, Unlocked,
   RunnerRaises, Works

LEMMA ConcludeEffect ==
    ASSUME WellTyped, NEW m \in Managers, Conclude(m)
    PROVE  /\ manager[m] \in {"up", "left"}
           /\ work[m].at = "result"
           /\ work'[m].at = "terminal"
           /\ work'[m].job = work[m].job
           /\ work'[m].verdict \in {"cancelled", "completed"}
           /\ jobs[m][work[m].job] = "cancel_requested" => work'[m].verdict = "cancelled"
           /\ \A n \in Managers \ {m} : work'[n] = work[n]
           /\ UNCHANGED <<jobsFile, history, staged, sources, failed, manager, jobs,
                          queue, ui, submitted, crashes, failures, asked, late, overlapped>>
BY ImportAssumption DEF TypeOK, WellTyped, Busy, BusyOf, disk, faults, ghosts, Failing, Alive, At, Unlocked,
   Conclude, Works

LEMMA FinishEffect ==
    ASSUME WellTyped, NEW m \in Managers, Finish(m)
    PROVE  /\ manager[m] \in {"up", "left"}
           /\ work[m].at = "terminal"
           /\ \A i \in JobIds : jobs'[m][i] = IF i = work[m].job THEN work[m].verdict ELSE jobs[m][i]
           /\ jobsFile' = jobs'[m]
           /\ work'[m].at = "history"
           /\ work'[m].job = work[m].job
           /\ work'[m].verdict = work[m].verdict
           /\ \A n \in Managers \ {m} : work'[n] = work[n]
           /\ UNCHANGED <<history, staged, sources, manager, queue, ui, submitted,
                          crashes, failures, asked, late, overlapped>>
BY ImportAssumption DEF TypeOK, WellTyped, Busy, BusyOf, disk, faults, ghosts, Failing, Alive, At, Unlocked,
   Finish, Works, Step, Table

LEMMA FinishRaisesEffect ==
    ASSUME WellTyped, NEW m \in Managers, FinishRaises(m)
    PROVE  /\ failures' = failures + 1
           /\ manager[m] \in {"up", "left"}
           /\ work[m].at = "terminal"
           /\ \A i \in JobIds : jobs'[m][i] = IF i = work[m].job THEN work[m].verdict ELSE jobs[m][i]
           /\ work'[m] = Idle /\ work'[m].at = "idle" /\ work'[m].job = NoJob
           /\ \A n \in Managers \ {m} : work'[n] = work[n]
           /\ UNCHANGED <<jobsFile, history, staged, sources, manager, queue, ui,
                          submitted, crashes, asked, late, overlapped>>
BY ImportAssumption DEF TypeOK, WellTyped, Busy, BusyOf, disk, faults, ghosts, Failing, Alive, At, Unlocked,
   FinishRaises, Table, Idle

LEMMA AppendHistoryEffect ==
    ASSUME WellTyped, NEW m \in Managers, AppendHistory(m)
    PROVE  /\ manager[m] \in {"up", "left"}
           /\ work[m].at = "history"
           /\ history' = Append(history, Line(work[m].job, work[m].verdict))
           /\ work'[m] = Idle /\ work'[m].at = "idle" /\ work'[m].job = NoJob
           /\ \A n \in Managers \ {m} : work'[n] = work[n]
           /\ UNCHANGED <<jobsFile, staged, sources, failed, manager, jobs, queue, ui,
                          submitted, crashes, failures, asked, late, overlapped>>
BY ImportAssumption DEF TypeOK, WellTyped, Busy, BusyOf, disk, faults, ghosts, Failing, Alive, At, Unlocked,
   AppendHistory, Idle

-----------------------------------------------------------------------------
LEMMA BusyStep == ASSUME WellTyped, [Next]_vars PROVE Busy'
<1>t. TypeOK /\ Busy /\ NoJob \notin JobIds
  BY ImportAssumption DEF WellTyped
<1>q. \A m \in Managers : queue[m] # <<>> => Head(queue[m]) \in JobIds
  BY <1>t DEF TypeOK
<1>1. ASSUME NEW m \in Managers, Boot(m) PROVE Busy'
  <2>1. work' = work /\ ui' = ui
    BY <1>1, BootEffect
  <2> QED
    BY <1>t, <2>1 DEF Busy, BusyOf
<1>2. ASSUME NEW m \in Managers, NEW j \in JobIds, RecoverJob(m, j) PROVE Busy'
  <2>1. work' = work /\ ui' = ui
    BY <1>2, RecoverJobEffect
  <2> QED
    BY <1>t, <2>1 DEF Busy, BusyOf
<1>3. ASSUME NEW m \in Managers, RecoverPersist(m) PROVE Busy'
  <2>1. work' = work /\ ui' = ui
    BY <1>3, RecoverPersistEffect
  <2> QED
    BY <1>t, <2>1 DEF Busy, BusyOf
<1>4. ASSUME NEW m \in Managers, NEW f \in Files, Upload(m, f) PROVE Busy'
  <2>1. /\ ui[m].at \in {"ready", "submit"}
        /\ ui'[m].at = "submit"
        /\ work' = work
    BY <1>4, UploadEffect
  <2>2. BusyOf(m)'
    BY <1>t, <1>q, <2>1 DEF Busy, BusyOf, Idle
  <2>3. \A i \in Managers \ {m} : work'[i] = work[i] /\ ui'[i] = ui[i]
    BY <1>4, UploadEffect
  <2> QED
    BY <1>t, <2>2, <2>3 DEF Busy, BusyOf
<1>5. ASSUME NEW m \in Managers, NEW j \in JobIds, Retry(m, j) PROVE Busy'
  <2>1. /\ ui[m].at = "ready"
        /\ ui'[m].at = "submit"
        /\ work' = work
    BY <1>5, RetryEffect
  <2>2. BusyOf(m)'
    BY <1>t, <1>q, <2>1 DEF Busy, BusyOf, Idle
  <2>3. \A i \in Managers \ {m} : work'[i] = work[i] /\ ui'[i] = ui[i]
    BY <1>5, RetryEffect
  <2> QED
    BY <1>t, <2>2, <2>3 DEF Busy, BusyOf
<1>6. ASSUME NEW m \in Managers, Submit(m) PROVE Busy'
  <2>1. /\ ui[m].at = "submit"
        /\ ui'[m].at = "ready"
        /\ work' = work
    BY <1>6, SubmitEffect
  <2>2. BusyOf(m)'
    BY <1>t, <1>q, <2>1 DEF Busy, BusyOf, Idle
  <2>3. \A i \in Managers \ {m} : work'[i] = work[i] /\ ui'[i] = ui[i]
    BY <1>6, SubmitEffect
  <2> QED
    BY <1>t, <2>2, <2>3 DEF Busy, BusyOf
<1>7. ASSUME NEW m \in Managers, SubmitRaises(m) PROVE Busy'
  <2>1. /\ ui[m].at = "submit"
        /\ ui'[m].at = "ready"
        /\ work' = work
    BY <1>7, SubmitRaisesEffect
  <2>2. BusyOf(m)'
    BY <1>t, <1>q, <2>1 DEF Busy, BusyOf, Idle
  <2>3. \A i \in Managers \ {m} : work'[i] = work[i] /\ ui'[i] = ui[i]
    BY <1>7, SubmitRaisesEffect
  <2> QED
    BY <1>t, <2>2, <2>3 DEF Busy, BusyOf
<1>8. ASSUME NEW m \in Managers, NEW j \in JobIds, CancelQueued(m, j) PROVE Busy'
  <2>1. /\ ui[m].at = "ready"
        /\ ui'[m].at = "append"
        /\ ui'[m].job = j
        /\ work' = work
    BY <1>8, CancelQueuedEffect
  <2>2. BusyOf(m)'
    BY <1>t, <1>q, <2>1 DEF Busy, BusyOf, Idle
  <2>3. \A i \in Managers \ {m} : work'[i] = work[i] /\ ui'[i] = ui[i]
    BY <1>8, CancelQueuedEffect
  <2> QED
    BY <1>t, <2>2, <2>3 DEF Busy, BusyOf
<1>9. ASSUME NEW m \in Managers, AppendCancelled(m) PROVE Busy'
  <2>1. /\ ui[m].at = "append"
        /\ ui'[m].at = "ready"
        /\ work' = work
    BY <1>9, AppendCancelledEffect
  <2>2. BusyOf(m)'
    BY <1>t, <1>q, <2>1 DEF Busy, BusyOf, Idle
  <2>3. \A i \in Managers \ {m} : work'[i] = work[i] /\ ui'[i] = ui[i]
    BY <1>9, AppendCancelledEffect
  <2> QED
    BY <1>t, <2>2, <2>3 DEF Busy, BusyOf
<1>10. ASSUME NEW m \in Managers, NEW j \in JobIds, RequestCancel(m, j) PROVE Busy'
  <2>1. work' = work /\ ui' = ui
    BY <1>10, RequestCancelEffect
  <2> QED
    BY <1>t, <2>1 DEF Busy, BusyOf
<1>11. ASSUME NEW m \in Managers, NEW j \in JobIds, CancelRaises(m, j) PROVE Busy'
  <2>1. work' = work /\ ui' = ui
    BY <1>11, CancelRaisesEffect
  <2> QED
    BY <1>t, <2>1 DEF Busy, BusyOf
<1>12. ASSUME NEW m \in Managers, PruneRead(m) PROVE Busy'
  <2>1. /\ ui[m].at = "ready"
        /\ ui'[m].at = "rewrite"
        /\ ui'[m].rows = history
        /\ work' = work
    BY <1>12, PruneReadEffect
  <2>2. BusyOf(m)'
    BY <1>t, <1>q, <2>1 DEF Busy, BusyOf, Idle
  <2>3. \A i \in Managers \ {m} : work'[i] = work[i] /\ ui'[i] = ui[i]
    BY <1>12, PruneReadEffect
  <2> QED
    BY <1>t, <2>2, <2>3 DEF Busy, BusyOf
<1>13. ASSUME NEW m \in Managers, PruneReplace(m) PROVE Busy'
  <2>1. /\ ui[m].at = "rewrite"
        /\ ui'[m].at = "protect"
        /\ work' = work
    BY <1>13, PruneReplaceEffect
  <2>2. BusyOf(m)'
    BY <1>t, <1>q, <2>1 DEF Busy, BusyOf, Idle
  <2>3. \A i \in Managers \ {m} : work'[i] = work[i] /\ ui'[i] = ui[i]
    BY <1>13, PruneReplaceEffect
  <2> QED
    BY <1>t, <2>2, <2>3 DEF Busy, BusyOf
<1>14. ASSUME NEW m \in Managers, NEW b \in BOOLEAN, Protect(m, b) PROVE Busy'
  <2>1. /\ ui[m].at \in {"ready", "protect"}
        /\ ui'[m].at = "list"
        /\ work' = work
    BY <1>14, ProtectEffect
  <2>2. BusyOf(m)'
    BY <1>t, <1>q, <2>1 DEF Busy, BusyOf, Idle
  <2>3. \A i \in Managers \ {m} : work'[i] = work[i] /\ ui'[i] = ui[i]
    BY <1>14, ProtectEffect
  <2> QED
    BY <1>t, <2>2, <2>3 DEF Busy, BusyOf
<1>15. ASSUME NEW m \in Managers, ListStaging(m) PROVE Busy'
  <2>1. /\ ui[m].at = "list"
        /\ ui'[m].at = "unlink"
        /\ ui'[m].files = staged \ ui[m].files
        /\ work' = work
    BY <1>15, ListStagingEffect
  <2>2. BusyOf(m)'
    BY <1>t, <1>q, <2>1 DEF Busy, BusyOf, Idle
  <2>3. \A i \in Managers \ {m} : work'[i] = work[i] /\ ui'[i] = ui[i]
    BY <1>15, ListStagingEffect
  <2> QED
    BY <1>t, <2>2, <2>3 DEF Busy, BusyOf
<1>16. ASSUME NEW m \in Managers, NEW f \in Files, Unlink(m, f) PROVE Busy'
  <2>1. /\ ui[m].at = "unlink"
        /\ ui'[m].at = "unlink"
        /\ ui'[m].files = ui[m].files \ {f}
        /\ work' = work
    BY <1>16, UnlinkEffect
  <2>2. BusyOf(m)'
    BY <1>t, <1>q, <2>1 DEF Busy, BusyOf, Idle
  <2>3. \A i \in Managers \ {m} : work'[i] = work[i] /\ ui'[i] = ui[i]
    BY <1>16, UnlinkEffect
  <2> QED
    BY <1>t, <2>2, <2>3 DEF Busy, BusyOf
<1>17. ASSUME NEW m \in Managers, CleanupDone(m) PROVE Busy'
  <2>1. /\ ui[m].at = "unlink"
        /\ ui'[m].at = "ready"
        /\ work' = work
    BY <1>17, CleanupDoneEffect
  <2>2. BusyOf(m)'
    BY <1>t, <1>q, <2>1 DEF Busy, BusyOf, Idle
  <2>3. \A i \in Managers \ {m} : work'[i] = work[i] /\ ui'[i] = ui[i]
    BY <1>17, CleanupDoneEffect
  <2> QED
    BY <1>t, <2>2, <2>3 DEF Busy, BusyOf
<1>18. ASSUME NEW m \in Managers, Take(m) PROVE Busy'
  <2>1. /\ work[m].at = "idle"
        /\ work'[m].at = "taken"
        /\ work'[m].job = Head(queue[m])
        /\ ui' = ui
    BY <1>18, TakeEffect
  <2>2. BusyOf(m)'
    BY <1>t, <1>q, <2>1, <1>18, TakeEffect DEF Busy, BusyOf, Idle
  <2>3. \A i \in Managers \ {m} : work'[i] = work[i] /\ ui'[i] = ui[i]
    BY <1>18, TakeEffect
  <2> QED
    BY <1>t, <2>2, <2>3 DEF Busy, BusyOf
<1>19. ASSUME NEW m \in Managers, Begin(m) PROVE Busy'
  <2>1. /\ work[m].at = "taken"
        /\ work'[m].at = "batch"
        /\ work'[m].job = work[m].job
        /\ ui' = ui
    BY <1>19, BeginEffect
  <2>2. BusyOf(m)'
    BY <1>t, <1>q, <2>1 DEF Busy, BusyOf, Idle
  <2>3. \A i \in Managers \ {m} : work'[i] = work[i] /\ ui'[i] = ui[i]
    BY <1>19, BeginEffect
  <2> QED
    BY <1>t, <2>2, <2>3 DEF Busy, BusyOf
<1>20. ASSUME NEW m \in Managers, BeginRaises(m) PROVE Busy'
  <2>1. /\ work[m].at = "taken"
        /\ work'[m] = Idle /\ work'[m].at = "idle" /\ work'[m].job = NoJob
        /\ ui' = ui
    BY <1>20, BeginRaisesEffect
  <2>2. BusyOf(m)'
    BY <1>t, <1>q, <2>1 DEF Busy, BusyOf, Idle
  <2>3. \A i \in Managers \ {m} : work'[i] = work[i] /\ ui'[i] = ui[i]
    BY <1>20, BeginRaisesEffect
  <2> QED
    BY <1>t, <2>2, <2>3 DEF Busy, BusyOf
<1>21. ASSUME NEW m \in Managers, NextItem(m) PROVE Busy'
  <2>1. /\ work[m].at = "batch"
        /\ work'[m].at \in {"result", "item"}
        /\ work'[m].at = "item" => jobs[m][work[m].job] # "cancel_requested"
        /\ work'[m].job = work[m].job
        /\ ui' = ui
    BY <1>21, NextItemEffect
  <2>2. BusyOf(m)'
    BY <1>t, <1>q, <2>1 DEF Busy, BusyOf, Idle
  <2>3. \A i \in Managers \ {m} : work'[i] = work[i] /\ ui'[i] = ui[i]
    BY <1>21, NextItemEffect
  <2> QED
    BY <1>t, <2>2, <2>3 DEF Busy, BusyOf
<1>22. ASSUME NEW m \in Managers, NEW f \in Files, ImportItem(m, f) PROVE Busy'
  <2>1. /\ work[m].at = "item"
        /\ work'[m].at = "progress"
        /\ work'[m].job = work[m].job
        /\ ui' = ui
    BY <1>22, ImportItemEffect
  <2>2. BusyOf(m)'
    BY <1>t, <1>q, <2>1 DEF Busy, BusyOf, Idle
  <2>3. \A i \in Managers \ {m} : work'[i] = work[i] /\ ui'[i] = ui[i]
    BY <1>22, ImportItemEffect
  <2> QED
    BY <1>t, <2>2, <2>3 DEF Busy, BusyOf
<1>23. ASSUME NEW m \in Managers, ReportProgress(m) PROVE Busy'
  <2>1. /\ work[m].at = "progress"
        /\ work'[m].at = "batch"
        /\ work'[m].job = work[m].job
        /\ ui' = ui
    BY <1>23, ReportProgressEffect
  <2>2. BusyOf(m)'
    BY <1>t, <1>q, <2>1 DEF Busy, BusyOf, Idle
  <2>3. \A i \in Managers \ {m} : work'[i] = work[i] /\ ui'[i] = ui[i]
    BY <1>23, ReportProgressEffect
  <2> QED
    BY <1>t, <2>2, <2>3 DEF Busy, BusyOf
<1>24. ASSUME NEW m \in Managers, RunnerRaises(m) PROVE Busy'
  <2>1. /\ work[m].at = "progress"
        /\ work'[m].at = "terminal"
        /\ work'[m].job = work[m].job
        /\ work'[m].verdict = "failed"
        /\ ui' = ui
    BY <1>24, RunnerRaisesEffect
  <2>2. BusyOf(m)'
    BY <1>t, <1>q, <2>1 DEF Busy, BusyOf, Idle
  <2>3. \A i \in Managers \ {m} : work'[i] = work[i] /\ ui'[i] = ui[i]
    BY <1>24, RunnerRaisesEffect
  <2> QED
    BY <1>t, <2>2, <2>3 DEF Busy, BusyOf
<1>25. ASSUME NEW m \in Managers, Conclude(m) PROVE Busy'
  <2>1. /\ work[m].at = "result"
        /\ work'[m].at = "terminal"
        /\ work'[m].job = work[m].job
        /\ work'[m].verdict \in {"cancelled", "completed"}
        /\ ui' = ui
    BY <1>25, ConcludeEffect
  <2>2. BusyOf(m)'
    BY <1>t, <1>q, <2>1 DEF Busy, BusyOf, Idle
  <2>3. \A i \in Managers \ {m} : work'[i] = work[i] /\ ui'[i] = ui[i]
    BY <1>25, ConcludeEffect
  <2> QED
    BY <1>t, <2>2, <2>3 DEF Busy, BusyOf
<1>26. ASSUME NEW m \in Managers, Finish(m) PROVE Busy'
  <2>1. /\ work[m].at = "terminal"
        /\ work'[m].at = "history"
        /\ work'[m].job = work[m].job
        /\ work'[m].verdict = work[m].verdict
        /\ ui' = ui
    BY <1>26, FinishEffect
  <2>2. BusyOf(m)'
    BY <1>t, <1>q, <2>1 DEF Busy, BusyOf, Idle
  <2>3. \A i \in Managers \ {m} : work'[i] = work[i] /\ ui'[i] = ui[i]
    BY <1>26, FinishEffect
  <2> QED
    BY <1>t, <2>2, <2>3 DEF Busy, BusyOf
<1>27. ASSUME NEW m \in Managers, FinishRaises(m) PROVE Busy'
  <2>1. /\ work[m].at = "terminal"
        /\ work'[m] = Idle /\ work'[m].at = "idle" /\ work'[m].job = NoJob
        /\ ui' = ui
    BY <1>27, FinishRaisesEffect
  <2>2. BusyOf(m)'
    BY <1>t, <1>q, <2>1 DEF Busy, BusyOf, Idle
  <2>3. \A i \in Managers \ {m} : work'[i] = work[i] /\ ui'[i] = ui[i]
    BY <1>27, FinishRaisesEffect
  <2> QED
    BY <1>t, <2>2, <2>3 DEF Busy, BusyOf
<1>28. ASSUME NEW m \in Managers, AppendHistory(m) PROVE Busy'
  <2>1. /\ work[m].at = "history"
        /\ work'[m] = Idle /\ work'[m].at = "idle" /\ work'[m].job = NoJob
        /\ ui' = ui
    BY <1>28, AppendHistoryEffect
  <2>2. BusyOf(m)'
    BY <1>t, <1>q, <2>1 DEF Busy, BusyOf, Idle
  <2>3. \A i \in Managers \ {m} : work'[i] = work[i] /\ ui'[i] = ui[i]
    BY <1>28, AppendHistoryEffect
  <2> QED
    BY <1>t, <2>2, <2>3 DEF Busy, BusyOf
<1>31. ASSUME NEW m \in Managers, Leave(m) PROVE Busy'
  <2>1. ui'[m].at = "ready" /\ work' = work
    BY <1>31, LeaveEffect
  <2>2. BusyOf(m)'
    BY <1>t, <2>1 DEF Busy, BusyOf
  <2>3. \A i \in Managers \ {m} : work'[i] = work[i] /\ ui'[i] = ui[i]
    BY <1>31, LeaveEffect
  <2> QED
    BY <1>t, <2>2, <2>3 DEF Busy, BusyOf
<1>32. ASSUME NEW m \in Managers, RecoverRaises(m) PROVE Busy'
  <2>1. work' = work /\ ui' = ui
    BY <1>32, RecoverRaisesEffect
  <2> QED
    BY <1>t, <2>1 DEF Busy, BusyOf
<1>29. CASE Crash
  <2>1. \A m \in Managers : work'[m] = Idle /\ work'[m].at = "idle" /\ ui'[m].at = "ready"
    BY <1>29 DEF Crash, Ready, Idle
  <2> QED
    BY <2>1 DEF Busy, BusyOf
<1>30. CASE UNCHANGED vars
  BY <1>t, <1>30 DEF vars, Busy, BusyOf
<1> QED
  BY <1>1, <1>2, <1>3, <1>4, <1>5, <1>6, <1>7, <1>8, <1>9, <1>10, <1>11, <1>12, <1>13,
     <1>14, <1>15, <1>16, <1>17, <1>18, <1>19, <1>20, <1>21, <1>22, <1>23, <1>24, <1>25,
     <1>26, <1>27, <1>28, <1>29, <1>30, <1>31, <1>32 DEF Next, Recovery, Worker, Serve,
     User

LEMMA InitTyped == ASSUME Init PROVE WellTyped
<1>1. /\ jobsFile \in Table /\ history \in Seq(Lines) /\ staged \subseteq Files
      /\ sources \in [JobIds -> SUBSET Files] /\ failed \in [JobIds -> SUBSET Files]
      /\ queue \in [Managers -> Seq(JobIds)]
  BY RestTyped DEF Init
<1>2. /\ manager \in [Managers -> {"down", "recovering", "up", "left"}]
      /\ jobs \in [Managers -> Table] /\ work \in [Managers -> Works]
      /\ ui \in [Managers -> Uis]
  BY RestTyped DEF Init
<1>3. /\ submitted \in 0..MaxSubmitted /\ crashes \in 0..MaxCrashes
      /\ failures \in 0..MaxFailures
  BY ImportAssumption DEF Init
<1>4. /\ asked \in [JobIds -> {"no", "item", "between"}] /\ late \in [JobIds -> Nat]
      /\ overlapped \in BOOLEAN
  BY DEF Init
<1>5. Busy
  BY DEF Init, Busy, BusyOf, Idle, Ready
<1> QED
  BY <1>1, <1>2, <1>3, <1>4, <1>5 DEF WellTyped, TypeOK

\* Every file and every field of a manager keeps its type, whatever the
\* managers, the jobs and the restarts, and whichever writes fail.
THEOREM TypeCorrect == Spec => []TypeOK
<1>1. Init => WellTyped
  BY InitTyped
<1>2. WellTyped /\ [Next]_vars => WellTyped'
  BY TypeStep, BusyStep DEF WellTyped
<1>3. WellTyped => TypeOK
  BY DEF WellTyped
<1> QED
  BY <1>1, <1>2, <1>3, PTL DEF Spec

-----------------------------------------------------------------------------
(* The one manager that is in use or at work. *)

\* The futures and the status of the jobs agree.
QueueInv(m) ==
    /\ manager[m] \notin {"up", "left"} => queue[m] = <<>> /\ work[m].at = "idle"
    /\ manager[m] # "up" => ui[m].at = "ready"
    /\ \A a \in DOMAIN queue[m] :
          /\ queue[m][a] <= submitted /\ jobs[m][queue[m][a]] = "queued"
          /\ queue[m][a] # work[m].job
    /\ \A a, b \in DOMAIN queue[m] : queue[m][a] = queue[m][b] => a = b
    /\ work[m].at = "idle" => work[m].job = NoJob
    /\ work[m].at # "idle" => work[m].job <= submitted
    /\ work[m].at = "taken" => jobs[m][work[m].job] \in {"queued", "cancel_requested"}
    /\ work[m].at \in {"batch", "item", "progress", "result", "terminal"} =>
          jobs[m][work[m].job] \in {"running", "cancel_requested"}

\* jobs.json and the table in memory: the file may be older when writing it has
\* raised, but what has ended there has ended in memory.
FileInv(m) ==
    /\ \A j \in JobIds : j > submitted => jobs[m][j] = "none" /\ jobsFile[j] = "none"
    /\ manager[m] = "recovering" => \A j \in JobIds :
          jobs[m][j] = jobsFile[j] \/ (jobs[m][j] = "interrupted" /\ jobsFile[j] \in Active)
    /\ manager[m] \in {"up", "left"} => \A j \in JobIds :
          jobsFile[j] \in Terminal => jobs[m][j] \in {jobsFile[j], "none"}
    /\ manager[m] \in {"up", "left"} /\ failures = 0 => jobsFile = jobs[m]

\* The history says that job j ended as s, or a thread is about to write it.
Said(m, j, s) ==
    \/ \E a \in DOMAIN history : history[a] = Line(j, s)
    \/ ui[m].at = "rewrite" /\ \E a \in DOMAIN ui[m].rows : ui[m].rows[a] = Line(j, s)
    \/ ui[m].at = "append" /\ ui[m].job = j /\ s = "cancelled"
    \/ work[m].at = "history" /\ work[m].job = j /\ work[m].verdict = s

\* What is said is true: a new manager may still find the job in the file as it
\* was when the crash came between the line and the file.
HistoryInv(m) ==
    \A j \in JobIds, s \in Terminal : Said(m, j, s) =>
        /\ j <= submitted
        /\ \A t \in Terminal : Said(m, j, t) => s = t
        /\ \/ jobsFile[j] \in {s, "none"}
           \/ s = "interrupted" /\ jobsFile[j] \in Active /\ manager[m] \notin {"up", "left"}
        /\ manager[m] \in {"up", "left"} => jobs[m][j] \in {s, "none"}

\* A job that was cancelled while the worker was at it is on its way out.
CancelInv(m) ==
    \A j \in JobIds : asked[j] # "no" =>
        /\ j <= submitted
        /\ jobsFile[j] # "completed"
        /\ manager[m] \in {"up", "left"} => jobs[m][j] # "completed"
        /\ asked[j] = "between" => late[j] = 0
        /\ asked[j] = "item" => late[j] \in {0, 1}
        /\ \A a \in DOMAIN queue[m] : queue[m][a] # j
        /\ work[m].job = j =>
              /\ work[m].at # "taken"
              /\ work[m].at \in {"batch", "item", "progress", "result"} =>
                    jobs[m][j] = "cancel_requested"
              /\ work[m].at = "item" => asked[j] = "item" /\ late[j] = 0
              /\ work[m].at \in {"terminal", "history"} => work[m].verdict # "completed"

\* What the cleanup has collected still covers, or spares, the active jobs.
StagingInv(m) ==
    /\ ui[m].at = "list" => ActiveSources(m) \subseteq ui[m].files
    /\ ui[m].at = "unlink" => ui[m].files \cap ActiveSources(m) = {}

SessionInv(m) ==
    WellTyped /\ QueueInv(m) /\ FileInv(m) /\ HistoryInv(m) /\ CancelInv(m) /\ StagingInv(m)

\* A manager with nothing to do and nobody to ask it.
Inert(m) ==
    /\ manager[m] \in {"down", "left"}
    /\ queue[m] = <<>>
    /\ work[m].at = "idle"
    /\ ui[m].at = "ready"

Alone(m) == SessionInv(m) /\ \A k \in Managers \ {m} : Inert(k)

OneAtATime == WellTyped /\ (overlapped \/ \E m \in Managers : Alone(m))

-----------------------------------------------------------------------------
(* Each action keeps what the session relies on. *)

LEMMA BootKeeps ==
    ASSUME NEW n \in Managers, NEW m \in Managers, SessionInv(n), Inert(n), Inert(m), Boot(m)
    PROVE  QueueInv(m)' /\ FileInv(m)' /\ HistoryInv(m)' /\ CancelInv(m)' /\ StagingInv(m)'
<1>1. WellTyped
  BY DEF SessionInv
<1>2. TypeOK /\ BusyOf(m) /\ NoJob \notin JobIds /\ MaxSubmitted \in Nat
  BY <1>1, ImportAssumption DEF WellTyped, Busy
<1>3. /\ manager'[m] \in {"recovering", "up"}
      /\ manager'[m] = "up" => \A j \in JobIds : jobsFile[j] \notin Active
      /\ jobs'[m] = jobsFile
  BY <1>1, BootEffect
<1>4. UNCHANGED <<jobsFile, history, staged, sources, failed, queue, work, ui, submitted,
                  crashes, failures, asked, late>>
  BY <1>1, BootEffect
<1>5. FileInv(n) /\ HistoryInv(n) /\ CancelInv(n)
  BY DEF SessionInv
<1>6. queue[m] = <<>> /\ work[m] = Idle /\ work[m].at = "idle" /\ work[m].job = NoJob /\ ui[m].at = "ready"
  BY <1>2 DEF Inert, BusyOf, Idle
<1>7. QueueInv(m)'
  BY <1>2, <1>3, <1>4, <1>6 DEF QueueInv
<1>8. FileInv(m)'
  BY <1>3, <1>4, <1>5 DEF FileInv
<1>9. HistoryInv(m)'
  <2>1. ASSUME NEW i \in JobIds, NEW s \in Terminal, Said(m, i, s)'
        PROVE  Said(n, i, s)
    BY <1>4, <1>6, <2>1 DEF Said
  <2>2. \A i \in JobIds : jobsFile[i] \in Active => manager'[m] = "recovering"
    BY <1>3
  <2> QED
    BY <1>3, <1>4, <1>5, <2>1, <2>2 DEF HistoryInv, Active, Terminal
<1>10. CancelInv(m)'
  BY <1>2, <1>3, <1>4, <1>5, <1>6 DEF CancelInv
<1>11. StagingInv(m)'
  BY <1>4, <1>6 DEF StagingInv
<1> QED
  BY <1>7, <1>8, <1>9, <1>10, <1>11

LEMMA LeaveKeeps ==
    ASSUME NEW m \in Managers, SessionInv(m), Leave(m)
    PROVE  QueueInv(m)' /\ FileInv(m)' /\ HistoryInv(m)' /\ CancelInv(m)' /\ StagingInv(m)'
<1>1. WellTyped
  BY DEF SessionInv
<1>2. TypeOK /\ BusyOf(m) /\ NoJob \notin JobIds /\ MaxSubmitted \in Nat
  BY <1>1, ImportAssumption DEF WellTyped, Busy
<1>3. /\ manager[m] = "up"
      /\ ui[m].at \in {"ready", "submit"}
      /\ manager'[m] = "left"
      /\ ui'[m].at = "ready"
  BY <1>1, LeaveEffect
<1>4. UNCHANGED <<jobsFile, history, staged, sources, failed, jobs, queue, work, submitted,
                  crashes, failures, asked, late, overlapped>>
  BY <1>1, LeaveEffect
<1>5. QueueInv(m) /\ FileInv(m) /\ HistoryInv(m) /\ CancelInv(m) /\ StagingInv(m)
  BY DEF SessionInv
<1>6. QueueInv(m)'
  BY <1>3, <1>4, <1>5 DEF QueueInv
<1>7. FileInv(m)'
  BY <1>3, <1>4, <1>5 DEF FileInv
<1>8. HistoryInv(m)'
  <2>1. ASSUME NEW i \in JobIds, NEW s \in Terminal, Said(m, i, s)'
        PROVE  Said(m, i, s)
    BY <1>3, <1>4, <2>1 DEF Said
  <2> QED
    BY <1>3, <1>4, <1>5, <2>1 DEF HistoryInv
<1>9. CancelInv(m)'
  BY <1>3, <1>4, <1>5 DEF CancelInv
<1>10. StagingInv(m)'
  BY <1>3, <1>4 DEF StagingInv
<1> QED
  BY <1>6, <1>7, <1>8, <1>9, <1>10

LEMMA RecoverRaisesKeeps ==
    ASSUME NEW m \in Managers, SessionInv(m), RecoverRaises(m)
    PROVE  QueueInv(m)' /\ FileInv(m)' /\ HistoryInv(m)' /\ CancelInv(m)' /\ StagingInv(m)'
<1>1. WellTyped
  BY DEF SessionInv
<1>3. /\ manager[m] = "recovering"
      /\ manager'[m] = "down"
      /\ jobs'[m] = NoStatus
  BY <1>1, RecoverRaisesEffect
<1>4. UNCHANGED <<jobsFile, history, staged, sources, failed, queue, work, ui, submitted,
                  crashes, asked, late, overlapped>>
  BY <1>1, RecoverRaisesEffect
<1>5. QueueInv(m) /\ FileInv(m) /\ HistoryInv(m) /\ CancelInv(m) /\ StagingInv(m)
  BY DEF SessionInv
<1>6. QueueInv(m)'
  BY <1>3, <1>4, <1>5 DEF QueueInv
<1>7. FileInv(m)'
  BY <1>3, <1>4, <1>5 DEF FileInv, NoStatus
<1>8. HistoryInv(m)'
  <2>1. ASSUME NEW i \in JobIds, NEW s \in Terminal, Said(m, i, s)'
        PROVE  Said(m, i, s)
    BY <1>3, <1>4, <2>1 DEF Said
  <2> QED
    BY <1>3, <1>4, <1>5, <2>1 DEF HistoryInv
<1>9. CancelInv(m)'
  BY <1>3, <1>4, <1>5 DEF CancelInv, QueueInv
<1>10. StagingInv(m)'
  BY <1>3, <1>4, <1>5 DEF StagingInv, QueueInv
<1> QED
  BY <1>6, <1>7, <1>8, <1>9, <1>10

LEMMA RecoverJobKeeps ==
    ASSUME NEW m \in Managers, NEW j \in JobIds, SessionInv(m), RecoverJob(m, j)
    PROVE  QueueInv(m)' /\ FileInv(m)' /\ HistoryInv(m)' /\ CancelInv(m)' /\ StagingInv(m)'
<1>1. WellTyped
  BY DEF SessionInv
<1>2. TypeOK /\ BusyOf(m) /\ NoJob \notin JobIds /\ MaxSubmitted \in Nat
  BY <1>1, ImportAssumption DEF WellTyped, Busy
<1>3. /\ manager[m] = "recovering"
      /\ jobs[m][j] \in Active
      /\ history' = Append(history, Line(j, "interrupted"))
      /\ \A i \in JobIds : jobs'[m][i] = IF i = j THEN "interrupted" ELSE jobs[m][i]
  BY <1>1, RecoverJobEffect
<1>4. UNCHANGED <<jobsFile, staged, sources, failed, manager, queue, work, ui, submitted,
                  crashes, failures, asked, late, overlapped>>
  BY <1>1, RecoverJobEffect
<1>5. QueueInv(m) /\ FileInv(m) /\ HistoryInv(m) /\ CancelInv(m) /\ StagingInv(m)
  BY DEF SessionInv
<1>6. /\ j \in JobIds /\ j <= submitted
      /\ jobs[m][j] \in Active /\ jobs[m][j] \in Active
  <2>1. /\ j \in JobIds
        /\ jobs[m][j] \in Active /\ jobs[m][j] \in Active
    BY <1>2, <1>3, <1>5 DEF QueueInv, BusyOf, Active
  <2>2. ~(j > submitted)
    BY <1>5, <2>1 DEF FileInv, Active
  <2> QED
    BY <1>2, <2>1, <2>2 DEF TypeOK, JobIds
<1>7. QueueInv(m)'
  BY <1>2, <1>3, <1>4, <1>5, <1>6 DEF QueueInv
<1>8. FileInv(m)'
  BY <1>2, <1>3, <1>4, <1>5, <1>6 DEF FileInv, Active
<1>9. HistoryInv(m)'
  <2>1. ASSUME NEW i \in JobIds, NEW s \in Terminal, Said(m, i, s)'
        PROVE  Said(m, i, s) \/ (i = j /\ s = "interrupted")
    BY <1>2, <1>3, <1>4, <2>1 DEF Said, BusyOf, Line, TypeOK
  <2> QED
    BY <1>3, <1>4, <1>5, <1>6, <2>1 DEF HistoryInv, FileInv, Active, Terminal
<1>10. CancelInv(m)'
  BY <1>2, <1>3, <1>4, <1>5, <1>6 DEF CancelInv, QueueInv
<1>11. StagingInv(m)'
  BY <1>2, <1>3, <1>4, <1>5, <1>6 DEF StagingInv, QueueInv, ActiveSources, Active
<1> QED
  BY <1>7, <1>8, <1>9, <1>10, <1>11

LEMMA RecoverPersistKeeps ==
    ASSUME NEW m \in Managers, SessionInv(m), RecoverPersist(m)
    PROVE  QueueInv(m)' /\ FileInv(m)' /\ HistoryInv(m)' /\ CancelInv(m)' /\ StagingInv(m)'
<1>1. WellTyped
  BY DEF SessionInv
<1>2. TypeOK /\ BusyOf(m) /\ NoJob \notin JobIds /\ MaxSubmitted \in Nat
  BY <1>1, ImportAssumption DEF WellTyped, Busy
<1>3. /\ manager[m] = "recovering"
      /\ \A j \in JobIds : jobs[m][j] \notin Active
      /\ jobsFile' = jobs[m]
      /\ manager'[m] = "up"
  BY <1>1, RecoverPersistEffect
<1>4. UNCHANGED <<history, staged, sources, failed, jobs, queue, work, ui, submitted,
                  crashes, failures, asked, late, overlapped>>
  BY <1>1, RecoverPersistEffect
<1>5. QueueInv(m) /\ FileInv(m) /\ HistoryInv(m) /\ CancelInv(m) /\ StagingInv(m)
  BY DEF SessionInv
<1>6. QueueInv(m)'
  BY <1>2, <1>3, <1>4, <1>5 DEF QueueInv
<1>7. FileInv(m)'
  BY <1>2, <1>3, <1>4, <1>5 DEF FileInv, Active
<1>8. HistoryInv(m)'
  <2>1. ASSUME NEW i \in JobIds, NEW s \in Terminal, Said(m, i, s)'
        PROVE  Said(m, i, s)
    BY <1>2, <1>3, <1>4, <2>1 DEF Said, BusyOf, Line, TypeOK
  <2> QED
    BY <1>3, <1>4, <1>5, <2>1 DEF HistoryInv, FileInv, Active, Terminal
<1>9. CancelInv(m)'
  <2>1. \A i \in JobIds : asked[i] # "no" => jobs[m][i] # "completed"
    BY <1>3, <1>5 DEF CancelInv, FileInv
  <2>2. work[m].at = "idle" /\ work[m].job = NoJob
    BY <1>3, <1>5 DEF QueueInv
  <2> QED
    BY <1>2, <1>3, <1>4, <1>5, <2>1, <2>2 DEF CancelInv
<1>10. StagingInv(m)'
  BY <1>4, <1>5 DEF StagingInv, ActiveSources
<1> QED
  BY <1>6, <1>7, <1>8, <1>9, <1>10

LEMMA UploadKeeps ==
    ASSUME NEW m \in Managers, NEW f \in Files, SessionInv(m), Upload(m, f)
    PROVE  QueueInv(m)' /\ FileInv(m)' /\ HistoryInv(m)' /\ CancelInv(m)' /\ StagingInv(m)'
<1>1. WellTyped
  BY DEF SessionInv
<1>2. TypeOK /\ BusyOf(m) /\ NoJob \notin JobIds /\ MaxSubmitted \in Nat
  BY <1>1, ImportAssumption DEF WellTyped, Busy
<1>3. /\ manager[m] = "up"
      /\ ui[m].at \in {"ready", "submit"}
      /\ ui'[m].at = "submit"
  BY <1>1, UploadEffect
<1>4. UNCHANGED <<jobsFile, history, sources, failed, manager, jobs, queue, work,
                  submitted, crashes, failures, asked, late, overlapped>>
  BY <1>1, UploadEffect
<1>5. QueueInv(m) /\ FileInv(m) /\ HistoryInv(m) /\ CancelInv(m) /\ StagingInv(m)
  BY DEF SessionInv
<1>6. QueueInv(m)'
  BY <1>2, <1>3, <1>4, <1>5 DEF QueueInv
<1>7. FileInv(m)'
  BY <1>4, <1>5 DEF FileInv
<1>8. HistoryInv(m)'
  <2>1. ASSUME NEW i \in JobIds, NEW s \in Terminal, Said(m, i, s)'
        PROVE  Said(m, i, s)
    BY <1>2, <1>3, <1>4, <2>1 DEF Said, BusyOf, Line, TypeOK
  <2> QED
    BY <1>4, <1>5, <2>1 DEF HistoryInv
<1>9. CancelInv(m)'
  BY <1>4, <1>5 DEF CancelInv
<1>10. StagingInv(m)'
  BY <1>2, <1>3, <1>4, <1>5 DEF StagingInv, QueueInv, ActiveSources, Active
<1> QED
  BY <1>6, <1>7, <1>8, <1>9, <1>10

LEMMA RetryKeeps ==
    ASSUME NEW m \in Managers, NEW j \in JobIds, SessionInv(m), Retry(m, j)
    PROVE  QueueInv(m)' /\ FileInv(m)' /\ HistoryInv(m)' /\ CancelInv(m)' /\ StagingInv(m)'
<1>1. WellTyped
  BY DEF SessionInv
<1>2. TypeOK /\ BusyOf(m) /\ NoJob \notin JobIds /\ MaxSubmitted \in Nat
  BY <1>1, ImportAssumption DEF WellTyped, Busy
<1>3. /\ manager[m] = "up"
      /\ ui[m].at = "ready"
      /\ ui'[m].at = "submit"
  BY <1>1, RetryEffect
<1>4. UNCHANGED <<jobsFile, history, staged, sources, failed, manager, jobs, queue, work,
                  submitted, crashes, failures, asked, late, overlapped>>
  BY <1>1, RetryEffect
<1>5. QueueInv(m) /\ FileInv(m) /\ HistoryInv(m) /\ CancelInv(m) /\ StagingInv(m)
  BY DEF SessionInv
<1>6. QueueInv(m)'
  BY <1>2, <1>3, <1>4, <1>5 DEF QueueInv
<1>7. FileInv(m)'
  BY <1>4, <1>5 DEF FileInv
<1>8. HistoryInv(m)'
  <2>1. ASSUME NEW i \in JobIds, NEW s \in Terminal, Said(m, i, s)'
        PROVE  Said(m, i, s)
    BY <1>2, <1>3, <1>4, <2>1 DEF Said, BusyOf, Line, TypeOK
  <2> QED
    BY <1>4, <1>5, <2>1 DEF HistoryInv
<1>9. CancelInv(m)'
  BY <1>4, <1>5 DEF CancelInv
<1>10. StagingInv(m)'
  BY <1>2, <1>3, <1>4, <1>5 DEF StagingInv, QueueInv, ActiveSources, Active
<1> QED
  BY <1>6, <1>7, <1>8, <1>9, <1>10

LEMMA SubmitKeeps ==
    ASSUME NEW m \in Managers, SessionInv(m), Submit(m)
    PROVE  QueueInv(m)' /\ FileInv(m)' /\ HistoryInv(m)' /\ CancelInv(m)' /\ StagingInv(m)'
<1>1. WellTyped
  BY DEF SessionInv
<1>2. TypeOK /\ BusyOf(m) /\ NoJob \notin JobIds /\ MaxSubmitted \in Nat
  BY <1>1, ImportAssumption DEF WellTyped, Busy
<1>3. /\ manager[m] = "up"
      /\ ui[m].at = "submit"
      /\ submitted + 1 \in JobIds
      /\ submitted' = submitted + 1
      /\ \A i \in JobIds : jobs'[m][i] = IF i = submitted + 1 THEN "queued" ELSE IF i \in Trimmed(m) THEN "none" ELSE jobs[m][i]
      /\ \A i \in Trimmed(m) : i \in JobIds /\ jobs[m][i] \in Terminal
      /\ jobsFile' = jobs'[m]
      /\ queue'[m] = Append(queue[m], submitted + 1)
      /\ ui'[m].at = "ready"
  BY <1>1, SubmitEffect
<1>4. UNCHANGED <<history, staged, failed, manager, work, crashes, failures, asked, late, overlapped>>
  BY <1>1, SubmitEffect
<1>5. QueueInv(m) /\ FileInv(m) /\ HistoryInv(m) /\ CancelInv(m) /\ StagingInv(m)
  BY DEF SessionInv
<1>6. /\ \A i \in JobIds : i <= submitted => i # submitted + 1 /\ i <= submitted + 1
      /\ \A i \in JobIds : i > submitted + 1 => i > submitted /\ i # submitted + 1
      /\ submitted + 1 > submitted /\ submitted + 1 <= submitted + 1
  BY <1>2, <1>3 DEF TypeOK, JobIds
<1>7. \A i \in JobIds : jobs[m][i] # "none" => i <= submitted
  BY <1>2, <1>5 DEF FileInv, TypeOK, JobIds
<1>8. /\ \A i \in JobIds : i <= submitted => jobs'[m][i] \in {jobs[m][i], "none"}
      /\ \A i \in JobIds : jobs[m][i] \in Active => jobs'[m][i] = jobs[m][i] /\ i <= submitted
      /\ jobs'[m][submitted + 1] = "queued" /\ jobs[m][submitted + 1] = "none" /\ jobsFile[submitted + 1] = "none"
      /\ \A i \in JobIds : i > submitted + 1 => jobs'[m][i] = "none"
  <2>1. jobs[m][submitted + 1] = "none" /\ jobsFile[submitted + 1] = "none"
    BY <1>3, <1>5, <1>6 DEF FileInv
  <2>2. \A i \in JobIds : jobs[m][i] \in Active => i # submitted + 1 /\ i \notin Trimmed(m) /\ i <= submitted
    BY <1>3, <1>7, <2>1 DEF Active, Terminal
  <2>3. \A i \in JobIds : i > submitted + 1 => jobs'[m][i] = "none"
    BY <1>3, <1>5, <1>6 DEF FileInv
  <2>4. \A i \in JobIds : i <= submitted => jobs'[m][i] \in {jobs[m][i], "none"}
    BY <1>3, <1>6
  <2> QED
    BY <1>3, <2>1, <2>2, <2>3, <2>4
<1>9. /\ \A a \in DOMAIN queue[m] : queue[m][a] \in JobIds /\ jobs[m][queue[m][a]] \in Active
      /\ work[m].at # "idle" => work[m].job \in JobIds
      /\ work[m].at = "idle" => work[m].job = NoJob
  BY <1>2, <1>5 DEF QueueInv, BusyOf, TypeOK, Active
<1>10. work[m].job # submitted + 1
  BY <1>2, <1>3, <1>5, <1>6, <1>9 DEF QueueInv
<1>11. /\ \A a \in DOMAIN queue'[m] : (a \in DOMAIN queue[m] /\ queue'[m][a] = queue[m][a])
                                       \/ (a = Len(queue[m]) + 1 /\ queue'[m][a] = submitted + 1)
      /\ \A a \in DOMAIN queue[m] : queue[m][a] # submitted + 1
  <2>1. queue[m] \in Seq(JobIds)
    BY <1>2 DEF TypeOK
  <2>2. \A a \in DOMAIN queue[m] : queue[m][a] # submitted + 1
    BY <1>5, <1>6, <1>9 DEF QueueInv
  <2> QED
    BY <1>3, <2>1, <2>2
<1>12. \A i \in JobIds : jobs[m][i] \in {"queued", "running", "cancel_requested"} => jobs'[m][i] = jobs[m][i]
  BY <1>8 DEF Active
<1>13. QueueInv(m)'
  BY <1>2, <1>3, <1>4, <1>5, <1>6, <1>7, <1>8, <1>9, <1>10, <1>11, <1>12 DEF QueueInv
<1>14. FileInv(m)'
  BY <1>2, <1>3, <1>4, <1>5, <1>6, <1>7, <1>8, <1>9, <1>10, <1>11, <1>12 DEF FileInv, Active
<1>15. HistoryInv(m)'
  <2>1. ASSUME NEW i \in JobIds, NEW s \in Terminal, Said(m, i, s)'
        PROVE  Said(m, i, s)
    BY <1>2, <1>3, <1>4, <2>1 DEF Said, BusyOf, Line, TypeOK
  <2> QED
    BY <1>3, <1>4, <1>5, <1>6, <1>7, <1>8, <1>9, <1>10, <1>11, <1>12, <2>1
    DEF HistoryInv, FileInv, Active, Terminal
<1>16. CancelInv(m)'
  BY <1>2, <1>3, <1>4, <1>5, <1>6, <1>7, <1>8, <1>9, <1>10, <1>11, <1>12 DEF CancelInv,
     QueueInv
<1>17. StagingInv(m)'
  BY <1>2, <1>3, <1>4, <1>5, <1>6, <1>7, <1>8, <1>9, <1>10, <1>11, <1>12 DEF StagingInv,
     QueueInv, ActiveSources, Active
<1> QED
  BY <1>13, <1>14, <1>15, <1>16, <1>17

LEMMA SubmitRaisesKeeps ==
    ASSUME NEW m \in Managers, SessionInv(m), SubmitRaises(m)
    PROVE  QueueInv(m)' /\ FileInv(m)' /\ HistoryInv(m)' /\ CancelInv(m)' /\ StagingInv(m)'
<1>1. WellTyped
  BY DEF SessionInv
<1>2. TypeOK /\ BusyOf(m) /\ NoJob \notin JobIds /\ MaxSubmitted \in Nat
  BY <1>1, ImportAssumption DEF WellTyped, Busy
<1>3. /\ failures' = failures + 1
      /\ manager[m] = "up"
      /\ ui[m].at = "submit"
      /\ submitted + 1 \in JobIds
      /\ submitted' = submitted + 1
      /\ \A i \in JobIds : jobs'[m][i] = IF i = submitted + 1 THEN "queued" ELSE IF i \in Trimmed(m) THEN "none" ELSE jobs[m][i]
      /\ \A i \in Trimmed(m) : i \in JobIds /\ jobs[m][i] \in Terminal
      /\ jobsFile' = jobsFile \/ jobsFile' = jobs'[m]
      /\ ui'[m].at = "ready"
  BY <1>1, SubmitRaisesEffect
<1>4. UNCHANGED <<history, staged, failed, manager, queue, work, crashes, asked, late, overlapped>>
  BY <1>1, SubmitRaisesEffect
<1>5. QueueInv(m) /\ FileInv(m) /\ HistoryInv(m) /\ CancelInv(m) /\ StagingInv(m)
  BY DEF SessionInv
<1>6. /\ \A i \in JobIds : i <= submitted => i # submitted + 1 /\ i <= submitted + 1
      /\ \A i \in JobIds : i > submitted + 1 => i > submitted /\ i # submitted + 1
      /\ submitted + 1 > submitted /\ submitted + 1 <= submitted + 1
  BY <1>2, <1>3 DEF TypeOK, JobIds
<1>7. \A i \in JobIds : jobs[m][i] # "none" => i <= submitted
  BY <1>2, <1>5 DEF FileInv, TypeOK, JobIds
<1>8. /\ \A i \in JobIds : i <= submitted => jobs'[m][i] \in {jobs[m][i], "none"}
      /\ \A i \in JobIds : jobs[m][i] \in Active => jobs'[m][i] = jobs[m][i] /\ i <= submitted
      /\ jobs'[m][submitted + 1] = "queued" /\ jobs[m][submitted + 1] = "none" /\ jobsFile[submitted + 1] = "none"
      /\ \A i \in JobIds : i > submitted + 1 => jobs'[m][i] = "none"
  <2>1. jobs[m][submitted + 1] = "none" /\ jobsFile[submitted + 1] = "none"
    BY <1>3, <1>5, <1>6 DEF FileInv
  <2>2. \A i \in JobIds : jobs[m][i] \in Active => i # submitted + 1 /\ i \notin Trimmed(m) /\ i <= submitted
    BY <1>3, <1>7, <2>1 DEF Active, Terminal
  <2>3. \A i \in JobIds : i > submitted + 1 => jobs'[m][i] = "none"
    BY <1>3, <1>5, <1>6 DEF FileInv
  <2>4. \A i \in JobIds : i <= submitted => jobs'[m][i] \in {jobs[m][i], "none"}
    BY <1>3, <1>6
  <2> QED
    BY <1>3, <2>1, <2>2, <2>3, <2>4
<1>9. /\ \A a \in DOMAIN queue[m] : queue[m][a] \in JobIds /\ jobs[m][queue[m][a]] \in Active
      /\ work[m].at # "idle" => work[m].job \in JobIds
      /\ work[m].at = "idle" => work[m].job = NoJob
  BY <1>2, <1>5 DEF QueueInv, BusyOf, TypeOK, Active
<1>10. work[m].job # submitted + 1
  BY <1>2, <1>3, <1>5, <1>6, <1>9 DEF QueueInv
<1>11. \A i \in JobIds : jobs[m][i] \in {"queued", "running", "cancel_requested"} => jobs'[m][i] = jobs[m][i]
  BY <1>8 DEF Active
<1>12. QueueInv(m)'
  BY <1>2, <1>3, <1>4, <1>5, <1>6, <1>7, <1>8, <1>9, <1>10, <1>11 DEF QueueInv
<1>13. FileInv(m)'
  <2>1. failures' # 0
    BY <1>2, <1>3 DEF TypeOK
  <2>2. \A i \in JobIds : jobsFile[i] \in Terminal => jobs[m][i] \in {jobsFile[i], "none"}
    BY <1>3, <1>5 DEF FileInv
  <2>3. \A i \in JobIds : jobsFile[i] \in Terminal => i <= submitted
    BY <1>2, <1>5 DEF FileInv, Terminal, TypeOK, JobIds
  <2>4. \A i \in JobIds : jobsFile'[i] \in Terminal => jobs'[m][i] \in {jobsFile'[i], "none"}
    BY <1>3, <1>8, <2>2, <2>3
  <2>5. \A i \in JobIds : i > submitted' => jobs'[m][i] = "none" /\ jobsFile'[i] = "none"
    <3>1. \A i \in JobIds : i > submitted' => i > submitted + 1 /\ i > submitted
      BY <1>2, <1>3 DEF TypeOK, JobIds
    <3> QED
      BY <1>3, <1>5, <1>8, <3>1 DEF FileInv
  <2> QED
    BY <1>3, <1>4, <2>1, <2>4, <2>5 DEF FileInv
<1>14. HistoryInv(m)'
  <2>1. ASSUME NEW i \in JobIds, NEW s \in Terminal, Said(m, i, s)'
        PROVE  Said(m, i, s)
    BY <1>2, <1>3, <1>4, <2>1 DEF Said, BusyOf, Line, TypeOK
  <2> QED
    BY <1>3, <1>4, <1>5, <1>6, <1>7, <1>8, <1>9, <1>10, <1>11, <2>1 DEF HistoryInv,
       FileInv, Active, Terminal
<1>15. CancelInv(m)'
  BY <1>2, <1>3, <1>4, <1>5, <1>6, <1>7, <1>8, <1>9, <1>10, <1>11 DEF CancelInv, QueueInv
<1>16. StagingInv(m)'
  BY <1>2, <1>3, <1>4, <1>5, <1>6, <1>7, <1>8, <1>9, <1>10, <1>11 DEF StagingInv,
     QueueInv, ActiveSources, Active
<1> QED
  BY <1>12, <1>13, <1>14, <1>15, <1>16

LEMMA CancelQueuedKeeps ==
    ASSUME NEW m \in Managers, NEW j \in JobIds, SessionInv(m), CancelQueued(m, j)
    PROVE  QueueInv(m)' /\ FileInv(m)' /\ HistoryInv(m)' /\ CancelInv(m)' /\ StagingInv(m)'
<1>1. WellTyped
  BY DEF SessionInv
<1>2. TypeOK /\ BusyOf(m) /\ NoJob \notin JobIds /\ MaxSubmitted \in Nat
  BY <1>1, ImportAssumption DEF WellTyped, Busy
<1>3. /\ manager[m] = "up"
      /\ ui[m].at = "ready"
      /\ jobs[m][j] = "queued"
      /\ \E k \in DOMAIN queue[m] : queue[m][k] = j
      /\ queue'[m] = Withdraw(queue[m], j)
      /\ \A i \in JobIds : jobs'[m][i] = IF i = j THEN "cancelled" ELSE jobs[m][i]
      /\ jobsFile' = jobs'[m]
      /\ ui'[m].at = "append"
      /\ ui'[m].job = j
  BY <1>1, CancelQueuedEffect
<1>4. UNCHANGED <<history, staged, sources, failed, manager, work, submitted, crashes, failures, asked, late, overlapped>>
  BY <1>1, CancelQueuedEffect
<1>5. QueueInv(m) /\ FileInv(m) /\ HistoryInv(m) /\ CancelInv(m) /\ StagingInv(m)
  BY DEF SessionInv
<1>6. /\ j \in JobIds /\ j <= submitted
      /\ jobs[m][j] \in {"queued"} /\ jobs[m][j] \in Active
  <2>1. /\ j \in JobIds
        /\ jobs[m][j] \in {"queued"} /\ jobs[m][j] \in Active
    BY <1>2, <1>3, <1>5 DEF QueueInv, BusyOf, Active
  <2>2. ~(j > submitted)
    BY <1>5, <2>1 DEF FileInv, Active
  <2> QED
    BY <1>2, <2>1, <2>2 DEF TypeOK, JobIds
<1>7. /\ \A a \in DOMAIN queue'[m] : \E b \in DOMAIN queue[m] : queue'[m][a] = queue[m][b]
      /\ \A a, b \in DOMAIN queue'[m] : queue'[m][a] = queue'[m][b] => a = b
      /\ \A a \in DOMAIN queue'[m] : queue'[m][a] \in JobIds /\ queue'[m][a] # j
  <2>1. queue[m] \in Seq(JobIds)
    BY <1>2 DEF TypeOK
  <2>2. \A a, b \in DOMAIN queue[m] : queue[m][a] = queue[m][b] => a = b
    BY <1>5 DEF QueueInv
  <2>3. \A a \in DOMAIN queue[m] : queue[m][a] \in JobIds
    BY <2>1
  <2> QED
    BY <1>3, <2>1, <2>2, <2>3, WithdrawProperties
<1>8. work[m].job # j /\ (work[m].at # "idle" => work[m].job \in JobIds)
  BY <1>2, <1>3, <1>5 DEF BusyOf, QueueInv
<1>9. QueueInv(m)'
  BY <1>2, <1>3, <1>4, <1>5, <1>6, <1>7, <1>8 DEF QueueInv
<1>10. FileInv(m)'
  BY <1>2, <1>3, <1>4, <1>5, <1>6, <1>7, <1>8 DEF FileInv, Active
<1>11. HistoryInv(m)'
  <2>1. ASSUME NEW i \in JobIds, NEW s \in Terminal, Said(m, i, s)'
        PROVE  Said(m, i, s) \/ (i = j /\ s = "cancelled")
    BY <1>2, <1>3, <1>4, <2>1 DEF Said, BusyOf, Line, TypeOK
  <2> QED
    BY <1>3, <1>4, <1>5, <1>6, <1>7, <1>8, <2>1 DEF HistoryInv, FileInv, Active, Terminal
<1>12. CancelInv(m)'
  BY <1>2, <1>3, <1>4, <1>5, <1>6, <1>7, <1>8 DEF CancelInv, QueueInv
<1>13. StagingInv(m)'
  BY <1>2, <1>3, <1>4, <1>5, <1>6, <1>7, <1>8 DEF StagingInv, QueueInv, ActiveSources,
     Active
<1> QED
  BY <1>9, <1>10, <1>11, <1>12, <1>13

LEMMA AppendCancelledKeeps ==
    ASSUME NEW m \in Managers, SessionInv(m), AppendCancelled(m)
    PROVE  QueueInv(m)' /\ FileInv(m)' /\ HistoryInv(m)' /\ CancelInv(m)' /\ StagingInv(m)'
<1>1. WellTyped
  BY DEF SessionInv
<1>2. TypeOK /\ BusyOf(m) /\ NoJob \notin JobIds /\ MaxSubmitted \in Nat
  BY <1>1, ImportAssumption DEF WellTyped, Busy
<1>3. /\ manager[m] = "up"
      /\ ui[m].at = "append"
      /\ history' = Append(history, Line(ui[m].job, "cancelled"))
      /\ ui'[m].at = "ready"
  BY <1>1, AppendCancelledEffect
<1>4. UNCHANGED <<jobsFile, staged, sources, failed, manager, jobs, queue, work,
                  submitted, crashes, failures, asked, late, overlapped>>
  BY <1>1, AppendCancelledEffect
<1>5. QueueInv(m) /\ FileInv(m) /\ HistoryInv(m) /\ CancelInv(m) /\ StagingInv(m)
  BY DEF SessionInv
<1>6. QueueInv(m)'
  BY <1>2, <1>3, <1>4, <1>5 DEF QueueInv
<1>7. FileInv(m)'
  BY <1>4, <1>5 DEF FileInv
<1>8. HistoryInv(m)'
  <2>1. ASSUME NEW i \in JobIds, NEW s \in Terminal, Said(m, i, s)'
        PROVE  Said(m, i, s)
    BY <1>2, <1>3, <1>4, <2>1 DEF Said, BusyOf, Line, TypeOK
  <2> QED
    BY <1>4, <1>5, <2>1 DEF HistoryInv
<1>9. CancelInv(m)'
  BY <1>4, <1>5 DEF CancelInv
<1>10. StagingInv(m)'
  BY <1>2, <1>3, <1>4, <1>5 DEF StagingInv, QueueInv, ActiveSources, Active
<1> QED
  BY <1>6, <1>7, <1>8, <1>9, <1>10

LEMMA RequestCancelKeeps ==
    ASSUME NEW m \in Managers, NEW j \in JobIds, SessionInv(m), RequestCancel(m, j)
    PROVE  QueueInv(m)' /\ FileInv(m)' /\ HistoryInv(m)' /\ CancelInv(m)' /\ StagingInv(m)'
<1>1. WellTyped
  BY DEF SessionInv
<1>2. TypeOK /\ BusyOf(m) /\ NoJob \notin JobIds /\ MaxSubmitted \in Nat
  BY <1>1, ImportAssumption DEF WellTyped, Busy
<1>3. /\ manager[m] = "up"
      /\ ui[m].at = "ready"
      /\ jobs[m][j] \in Active
      /\ ~(jobs[m][j] = "queued" /\ InQueue(m, j))
      /\ \A i \in JobIds : jobs'[m][i] = IF i = j THEN "cancel_requested" ELSE jobs[m][i]
      /\ jobsFile' = jobs'[m]
      /\ \A i \in JobIds \ {j} : asked'[i] = asked[i] /\ late'[i] = late[i]
      /\ jobs[m][j] = "cancel_requested" => asked' = asked /\ late' = late
      /\ jobs[m][j] # "cancel_requested" =>
            /\ late'[j] = 0
            /\ asked'[j] = "item" => work[m].job = j /\ work[m].at = "item"
            /\ asked'[j] = "between" =>
                  work[m].job = j /\ work[m].at \in {"batch", "progress", "result"}
  BY <1>1, RequestCancelEffect
<1>4. UNCHANGED <<history, staged, sources, failed, manager, queue, work, ui, submitted,
                  crashes, failures, overlapped>>
  BY <1>1, RequestCancelEffect
<1>5. QueueInv(m) /\ FileInv(m) /\ HistoryInv(m) /\ CancelInv(m) /\ StagingInv(m)
  BY DEF SessionInv
<1>6. /\ j \in JobIds /\ j <= submitted
      /\ jobs[m][j] \in Active /\ jobs[m][j] \in Active
  <2>1. /\ j \in JobIds
        /\ jobs[m][j] \in Active /\ jobs[m][j] \in Active
    BY <1>2, <1>3, <1>5 DEF QueueInv, BusyOf, Active
  <2>2. ~(j > submitted)
    BY <1>5, <2>1 DEF FileInv, Active
  <2> QED
    BY <1>2, <2>1, <2>2 DEF TypeOK, JobIds
<1>7. \A a \in DOMAIN queue[m] : queue[m][a] \in JobIds /\ queue[m][a] # j
  BY <1>2, <1>3, <1>5 DEF QueueInv, TypeOK, InQueue
<1>8. work[m].at # "idle" => work[m].job \in JobIds
  BY <1>2 DEF BusyOf
<1>9. \A i \in JobIds : asked'[i] # "no" =>
          \/ asked'[i] = asked[i] /\ late'[i] = late[i]
          \/ /\ i = j /\ late'[i] = 0 /\ work[m].job = j
             /\ asked'[i] = "item" => work[m].at = "item"
             /\ asked'[i] = "between" => work[m].at \in {"batch", "progress", "result"}
  <2>1. TypeOK'
    BY <1>1, TypeStep DEF Next, User
  <2> QED
    BY <1>3, <2>1 DEF TypeOK
<1>10. QueueInv(m)'
  BY <1>2, <1>3, <1>4, <1>5, <1>6, <1>7, <1>8, <1>9 DEF QueueInv
<1>11. FileInv(m)'
  BY <1>2, <1>3, <1>4, <1>5, <1>6, <1>7, <1>8, <1>9 DEF FileInv, Active
<1>12. HistoryInv(m)'
  <2>1. ASSUME NEW i \in JobIds, NEW s \in Terminal, Said(m, i, s)'
        PROVE  Said(m, i, s)
    BY <1>2, <1>3, <1>4, <2>1 DEF Said, BusyOf, Line, TypeOK
  <2> QED
    BY <1>3, <1>4, <1>5, <1>6, <1>7, <1>8, <1>9, <2>1 DEF HistoryInv, FileInv, Active,
       Terminal
<1>13. CancelInv(m)'
  <2>1. TypeOK'
    BY <1>1, TypeStep DEF Next, User
  <2>2. SUFFICES ASSUME NEW i \in JobIds, asked'[i] # "no"
                 PROVE  /\ i <= submitted
                        /\ jobsFile'[i] # "completed" /\ jobs'[m][i] # "completed"
                        /\ asked'[i] = "between" => late'[i] = 0
                        /\ asked'[i] = "item" => late'[i] \in {0, 1}
                        /\ \A a \in DOMAIN queue[m] : queue[m][a] # i
                        /\ work[m].job = i =>
                              /\ work[m].at # "taken"
                              /\ work[m].at \in {"batch", "item", "progress", "result"} =>
                                    jobs'[m][i] = "cancel_requested"
                              /\ work[m].at = "item" => asked'[i] = "item" /\ late'[i] = 0
                              /\ work[m].at \in {"terminal", "history"} =>
                                    work[m].verdict # "completed"
    BY <1>3, <1>4 DEF CancelInv
  <2>3. asked'[i] \in {"item", "between"}
    BY <2>1, <2>2 DEF TypeOK
  <2>4. CASE asked'[i] = asked[i] /\ late'[i] = late[i]
    BY <1>3, <1>4, <1>5, <1>7, <2>2, <2>4 DEF CancelInv
  <2>5. CASE /\ i = j /\ late'[i] = 0 /\ work[m].job = j
             /\ asked'[i] = "item" => work[m].at = "item"
             /\ asked'[i] = "between" => work[m].at \in {"batch", "progress", "result"}
    BY <1>3, <1>4, <1>6, <1>7, <2>3, <2>5
  <2> QED
    BY <1>9, <2>2, <2>4, <2>5
<1>14. StagingInv(m)'
  BY <1>2, <1>3, <1>4, <1>5, <1>6, <1>7, <1>8, <1>9 DEF StagingInv, QueueInv,
     ActiveSources, Active
<1> QED
  BY <1>10, <1>11, <1>12, <1>13, <1>14

LEMMA CancelRaisesKeeps ==
    ASSUME NEW m \in Managers, NEW j \in JobIds, SessionInv(m), CancelRaises(m, j)
    PROVE  QueueInv(m)' /\ FileInv(m)' /\ HistoryInv(m)' /\ CancelInv(m)' /\ StagingInv(m)'
<1>1. WellTyped
  BY DEF SessionInv
<1>2. TypeOK /\ BusyOf(m) /\ NoJob \notin JobIds /\ MaxSubmitted \in Nat
  BY <1>1, ImportAssumption DEF WellTyped, Busy
<1>3. /\ failures' = failures + 1
      /\ manager[m] = "up"
      /\ ui[m].at = "ready"
      /\ jobs[m][j] \in Active
      /\ IF jobs[m][j] = "queued" /\ InQueue(m, j) THEN queue'[m] = Withdraw(queue[m], j) ELSE queue'[m] = queue[m]
      /\ \A i \in JobIds : jobs'[m][i] = IF i = j THEN (IF jobs[m][j] = "queued" /\ InQueue(m, j) THEN "cancelled" ELSE "cancel_requested") ELSE jobs[m][i]
  BY <1>1, CancelRaisesEffect
<1>4. UNCHANGED <<jobsFile, history, staged, sources, failed, manager, work, ui,
                  submitted, crashes, asked, late, overlapped>>
  BY <1>1, CancelRaisesEffect
<1>5. QueueInv(m) /\ FileInv(m) /\ HistoryInv(m) /\ CancelInv(m) /\ StagingInv(m)
  BY DEF SessionInv
<1>6. /\ j \in JobIds /\ j <= submitted
      /\ jobs[m][j] \in Active /\ jobs[m][j] \in Active
  <2>1. /\ j \in JobIds
        /\ jobs[m][j] \in Active /\ jobs[m][j] \in Active
    BY <1>2, <1>3, <1>5 DEF QueueInv, BusyOf, Active
  <2>2. ~(j > submitted)
    BY <1>5, <2>1 DEF FileInv, Active
  <2> QED
    BY <1>2, <2>1, <2>2 DEF TypeOK, JobIds
<1>7. /\ \A a \in DOMAIN queue'[m] : \E b \in DOMAIN queue[m] : queue'[m][a] = queue[m][b]
      /\ \A a, b \in DOMAIN queue'[m] : queue'[m][a] = queue'[m][b] => a = b
      /\ \A a \in DOMAIN queue'[m] : queue'[m][a] \in JobIds /\ queue'[m][a] # j
  <2>1. queue[m] \in Seq(JobIds)
    BY <1>2 DEF TypeOK
  <2>2. \A a, b \in DOMAIN queue[m] : queue[m][a] = queue[m][b] => a = b
    BY <1>5 DEF QueueInv
  <2>3. \A a \in DOMAIN queue[m] : queue[m][a] \in JobIds
    BY <2>1
  <2>4. CASE jobs[m][j] = "queued" /\ InQueue(m, j)
    <3>1. \E k \in DOMAIN queue[m] : queue[m][k] = j
      BY <2>4 DEF InQueue
    <3>2. queue'[m] = Withdraw(queue[m], j)
      BY <1>3, <2>4
    <3> QED
      BY <2>1, <2>2, <2>3, <3>1, <3>2, WithdrawProperties
  <2>5. CASE ~(jobs[m][j] = "queued" /\ InQueue(m, j))
    <3>1. queue'[m] = queue[m]
      BY <1>3, <2>5
    <3>2. \A a \in DOMAIN queue[m] : queue[m][a] # j
      BY <1>5, <2>5 DEF QueueInv, InQueue
    <3> QED
      BY <2>2, <2>3, <3>1, <3>2
  <2> QED
    BY <2>4, <2>5
<1>8. /\ work[m].at # "idle" => work[m].job \in JobIds
      /\ work[m].job = j => jobs'[m][j] = "cancel_requested"
  BY <1>2, <1>3, <1>5 DEF BusyOf, QueueInv, InQueue
<1>9. QueueInv(m)'
  BY <1>2, <1>3, <1>4, <1>5, <1>6, <1>7, <1>8 DEF QueueInv
<1>10. FileInv(m)'
  <2>1. failures' # 0
    BY <1>2, <1>3 DEF TypeOK
  <2>2. \A i \in JobIds : jobsFile[i] \in Terminal => jobs[m][i] \in {jobsFile[i], "none"}
    BY <1>3, <1>5 DEF FileInv
  <2>3. \A i \in JobIds : jobsFile'[i] \in Terminal => jobs'[m][i] \in {jobsFile'[i], "none"}
    BY <1>2, <1>3, <1>4, <1>5, <1>6, <1>7, <1>8, <2>2 DEF Active, Terminal
  <2>4. \A i \in JobIds : i > submitted => jobs'[m][i] = "none" /\ jobsFile'[i] = "none"
    BY <1>2, <1>3, <1>4, <1>5, <1>6, <1>7, <1>8 DEF FileInv, Active, JobIds
  <2> QED
    BY <1>3, <1>4, <2>1, <2>3, <2>4 DEF FileInv
<1>11. HistoryInv(m)'
  <2>1. ASSUME NEW i \in JobIds, NEW s \in Terminal, Said(m, i, s)'
        PROVE  Said(m, i, s)
    BY <1>2, <1>3, <1>4, <2>1 DEF Said, BusyOf, Line, TypeOK
  <2> QED
    BY <1>3, <1>4, <1>5, <1>6, <1>7, <1>8, <2>1 DEF HistoryInv, FileInv, Active, Terminal
<1>12. CancelInv(m)'
  BY <1>2, <1>3, <1>4, <1>5, <1>6, <1>7, <1>8 DEF CancelInv, QueueInv
<1>13. StagingInv(m)'
  BY <1>2, <1>3, <1>4, <1>5, <1>6, <1>7, <1>8 DEF StagingInv, QueueInv, ActiveSources,
     Active
<1> QED
  BY <1>9, <1>10, <1>11, <1>12, <1>13

LEMMA PruneReadKeeps ==
    ASSUME NEW m \in Managers, SessionInv(m), PruneRead(m)
    PROVE  QueueInv(m)' /\ FileInv(m)' /\ HistoryInv(m)' /\ CancelInv(m)' /\ StagingInv(m)'
<1>1. WellTyped
  BY DEF SessionInv
<1>2. TypeOK /\ BusyOf(m) /\ NoJob \notin JobIds /\ MaxSubmitted \in Nat
  BY <1>1, ImportAssumption DEF WellTyped, Busy
<1>3. /\ manager[m] = "up"
      /\ ui[m].at = "ready"
      /\ ui'[m].at = "rewrite"
      /\ ui'[m].rows = history
  BY <1>1, PruneReadEffect
<1>4. UNCHANGED <<jobsFile, history, staged, sources, failed, manager, jobs, queue, work,
                  submitted, crashes, failures, asked, late, overlapped>>
  BY <1>1, PruneReadEffect
<1>5. QueueInv(m) /\ FileInv(m) /\ HistoryInv(m) /\ CancelInv(m) /\ StagingInv(m)
  BY DEF SessionInv
<1>6. QueueInv(m)'
  BY <1>2, <1>3, <1>4, <1>5 DEF QueueInv
<1>7. FileInv(m)'
  BY <1>4, <1>5 DEF FileInv
<1>8. HistoryInv(m)'
  <2>1. ASSUME NEW i \in JobIds, NEW s \in Terminal, Said(m, i, s)'
        PROVE  Said(m, i, s)
    BY <1>2, <1>3, <1>4, <2>1 DEF Said, BusyOf, Line, TypeOK
  <2> QED
    BY <1>4, <1>5, <2>1 DEF HistoryInv
<1>9. CancelInv(m)'
  BY <1>4, <1>5 DEF CancelInv
<1>10. StagingInv(m)'
  BY <1>2, <1>3, <1>4, <1>5 DEF StagingInv, QueueInv, ActiveSources, Active
<1> QED
  BY <1>6, <1>7, <1>8, <1>9, <1>10

LEMMA PruneReplaceKeeps ==
    ASSUME NEW m \in Managers, SessionInv(m), PruneReplace(m)
    PROVE  QueueInv(m)' /\ FileInv(m)' /\ HistoryInv(m)' /\ CancelInv(m)' /\ StagingInv(m)'
<1>1. WellTyped
  BY DEF SessionInv
<1>2. TypeOK /\ BusyOf(m) /\ NoJob \notin JobIds /\ MaxSubmitted \in Nat
  BY <1>1, ImportAssumption DEF WellTyped, Busy
<1>3. /\ manager[m] = "up"
      /\ ui[m].at = "rewrite"
      /\ \A a \in DOMAIN history' : \E b \in DOMAIN ui[m].rows : history'[a] = ui[m].rows[b]
      /\ ui'[m].at = "protect"
  BY <1>1, PruneReplaceEffect
<1>4. UNCHANGED <<jobsFile, staged, sources, failed, manager, jobs, queue, work,
                  submitted, crashes, failures, asked, late, overlapped>>
  BY <1>1, PruneReplaceEffect
<1>5. QueueInv(m) /\ FileInv(m) /\ HistoryInv(m) /\ CancelInv(m) /\ StagingInv(m)
  BY DEF SessionInv
<1>6. QueueInv(m)'
  BY <1>2, <1>3, <1>4, <1>5 DEF QueueInv
<1>7. FileInv(m)'
  BY <1>4, <1>5 DEF FileInv
<1>8. HistoryInv(m)'
  <2>1. ASSUME NEW i \in JobIds, NEW s \in Terminal, Said(m, i, s)'
        PROVE  Said(m, i, s)
    <3>1. CASE \E a \in DOMAIN history' : history'[a] = Line(i, s)
      <4>1. \E b \in DOMAIN ui[m].rows : ui[m].rows[b] = Line(i, s)
        BY <1>3, <3>1
      <4> QED
        BY <1>3, <4>1 DEF Said
    <3>2. CASE ~(\E a \in DOMAIN history' : history'[a] = Line(i, s))
      BY <1>3, <1>4, <2>1, <3>2 DEF Said, Line
    <3> QED
      BY <3>1, <3>2
  <2> QED
    BY <1>4, <1>5, <2>1 DEF HistoryInv
<1>9. CancelInv(m)'
  BY <1>4, <1>5 DEF CancelInv
<1>10. StagingInv(m)'
  BY <1>2, <1>3, <1>4, <1>5 DEF StagingInv, QueueInv, ActiveSources, Active
<1> QED
  BY <1>6, <1>7, <1>8, <1>9, <1>10

LEMMA ProtectKeeps ==
    ASSUME NEW m \in Managers, NEW b \in BOOLEAN, SessionInv(m), Protect(m, b)
    PROVE  QueueInv(m)' /\ FileInv(m)' /\ HistoryInv(m)' /\ CancelInv(m)' /\ StagingInv(m)'
<1>1. WellTyped
  BY DEF SessionInv
<1>2. TypeOK /\ BusyOf(m) /\ NoJob \notin JobIds /\ MaxSubmitted \in Nat
  BY <1>1, ImportAssumption DEF WellTyped, Busy
<1>3. /\ manager[m] = "up"
      /\ ui[m].at \in {"ready", "protect"}
      /\ ui'[m].at = "list"
      /\ ActiveSources(m) \subseteq ui'[m].files
  BY <1>1, ProtectEffect
<1>4. UNCHANGED <<jobsFile, history, staged, sources, failed, manager, jobs, queue, work,
                  submitted, crashes, failures, asked, late, overlapped>>
  BY <1>1, ProtectEffect
<1>5. QueueInv(m) /\ FileInv(m) /\ HistoryInv(m) /\ CancelInv(m) /\ StagingInv(m)
  BY DEF SessionInv
<1>6. QueueInv(m)'
  BY <1>2, <1>3, <1>4, <1>5 DEF QueueInv
<1>7. FileInv(m)'
  BY <1>4, <1>5 DEF FileInv
<1>8. HistoryInv(m)'
  <2>1. ASSUME NEW i \in JobIds, NEW s \in Terminal, Said(m, i, s)'
        PROVE  Said(m, i, s)
    BY <1>2, <1>3, <1>4, <2>1 DEF Said, BusyOf, Line, TypeOK
  <2> QED
    BY <1>4, <1>5, <2>1 DEF HistoryInv
<1>9. CancelInv(m)'
  BY <1>4, <1>5 DEF CancelInv
<1>10. StagingInv(m)'
  BY <1>2, <1>3, <1>4, <1>5 DEF StagingInv, QueueInv, ActiveSources, Active
<1> QED
  BY <1>6, <1>7, <1>8, <1>9, <1>10

LEMMA ListStagingKeeps ==
    ASSUME NEW m \in Managers, SessionInv(m), ListStaging(m)
    PROVE  QueueInv(m)' /\ FileInv(m)' /\ HistoryInv(m)' /\ CancelInv(m)' /\ StagingInv(m)'
<1>1. WellTyped
  BY DEF SessionInv
<1>2. TypeOK /\ BusyOf(m) /\ NoJob \notin JobIds /\ MaxSubmitted \in Nat
  BY <1>1, ImportAssumption DEF WellTyped, Busy
<1>3. /\ manager[m] = "up"
      /\ ui[m].at = "list"
      /\ ui'[m].at = "unlink"
      /\ ui'[m].files = staged \ ui[m].files
  BY <1>1, ListStagingEffect
<1>4. UNCHANGED <<jobsFile, history, staged, sources, failed, manager, jobs, queue, work,
                  submitted, crashes, failures, asked, late, overlapped>>
  BY <1>1, ListStagingEffect
<1>5. QueueInv(m) /\ FileInv(m) /\ HistoryInv(m) /\ CancelInv(m) /\ StagingInv(m)
  BY DEF SessionInv
<1>6. QueueInv(m)'
  BY <1>2, <1>3, <1>4, <1>5 DEF QueueInv
<1>7. FileInv(m)'
  BY <1>4, <1>5 DEF FileInv
<1>8. HistoryInv(m)'
  <2>1. ASSUME NEW i \in JobIds, NEW s \in Terminal, Said(m, i, s)'
        PROVE  Said(m, i, s)
    BY <1>2, <1>3, <1>4, <2>1 DEF Said, BusyOf, Line, TypeOK
  <2> QED
    BY <1>4, <1>5, <2>1 DEF HistoryInv
<1>9. CancelInv(m)'
  BY <1>4, <1>5 DEF CancelInv
<1>10. StagingInv(m)'
  BY <1>2, <1>3, <1>4, <1>5 DEF StagingInv, QueueInv, ActiveSources, Active
<1> QED
  BY <1>6, <1>7, <1>8, <1>9, <1>10

LEMMA UnlinkKeeps ==
    ASSUME NEW m \in Managers, NEW f \in Files, SessionInv(m), Unlink(m, f)
    PROVE  QueueInv(m)' /\ FileInv(m)' /\ HistoryInv(m)' /\ CancelInv(m)' /\ StagingInv(m)'
<1>1. WellTyped
  BY DEF SessionInv
<1>2. TypeOK /\ BusyOf(m) /\ NoJob \notin JobIds /\ MaxSubmitted \in Nat
  BY <1>1, ImportAssumption DEF WellTyped, Busy
<1>3. /\ manager[m] = "up"
      /\ ui[m].at = "unlink"
      /\ f \in ui[m].files
      /\ ui'[m].at = "unlink"
      /\ ui'[m].files = ui[m].files \ {f}
      /\ staged' \in {staged, staged \ {f}}
  BY <1>1, UnlinkEffect
<1>4. UNCHANGED <<jobsFile, history, sources, failed, manager, jobs, queue, work,
                  submitted, crashes, failures, asked, late, overlapped>>
  BY <1>1, UnlinkEffect
<1>5. QueueInv(m) /\ FileInv(m) /\ HistoryInv(m) /\ CancelInv(m) /\ StagingInv(m)
  BY DEF SessionInv
<1>6. QueueInv(m)'
  BY <1>2, <1>3, <1>4, <1>5 DEF QueueInv
<1>7. FileInv(m)'
  BY <1>4, <1>5 DEF FileInv
<1>8. HistoryInv(m)'
  <2>1. ASSUME NEW i \in JobIds, NEW s \in Terminal, Said(m, i, s)'
        PROVE  Said(m, i, s)
    BY <1>2, <1>3, <1>4, <2>1 DEF Said, BusyOf, Line, TypeOK
  <2> QED
    BY <1>4, <1>5, <2>1 DEF HistoryInv
<1>9. CancelInv(m)'
  BY <1>4, <1>5 DEF CancelInv
<1>10. StagingInv(m)'
  BY <1>2, <1>3, <1>4, <1>5 DEF StagingInv, QueueInv, ActiveSources, Active
<1> QED
  BY <1>6, <1>7, <1>8, <1>9, <1>10

LEMMA CleanupDoneKeeps ==
    ASSUME NEW m \in Managers, SessionInv(m), CleanupDone(m)
    PROVE  QueueInv(m)' /\ FileInv(m)' /\ HistoryInv(m)' /\ CancelInv(m)' /\ StagingInv(m)'
<1>1. WellTyped
  BY DEF SessionInv
<1>2. TypeOK /\ BusyOf(m) /\ NoJob \notin JobIds /\ MaxSubmitted \in Nat
  BY <1>1, ImportAssumption DEF WellTyped, Busy
<1>3. /\ manager[m] = "up"
      /\ ui[m].at = "unlink"
      /\ ui'[m].at = "ready"
  BY <1>1, CleanupDoneEffect
<1>4. UNCHANGED <<jobsFile, history, staged, sources, failed, manager, jobs, queue, work,
                  submitted, crashes, failures, asked, late, overlapped>>
  BY <1>1, CleanupDoneEffect
<1>5. QueueInv(m) /\ FileInv(m) /\ HistoryInv(m) /\ CancelInv(m) /\ StagingInv(m)
  BY DEF SessionInv
<1>6. QueueInv(m)'
  BY <1>2, <1>3, <1>4, <1>5 DEF QueueInv
<1>7. FileInv(m)'
  BY <1>4, <1>5 DEF FileInv
<1>8. HistoryInv(m)'
  <2>1. ASSUME NEW i \in JobIds, NEW s \in Terminal, Said(m, i, s)'
        PROVE  Said(m, i, s)
    BY <1>2, <1>3, <1>4, <2>1 DEF Said, BusyOf, Line, TypeOK
  <2> QED
    BY <1>4, <1>5, <2>1 DEF HistoryInv
<1>9. CancelInv(m)'
  BY <1>4, <1>5 DEF CancelInv
<1>10. StagingInv(m)'
  BY <1>2, <1>3, <1>4, <1>5 DEF StagingInv, QueueInv, ActiveSources, Active
<1> QED
  BY <1>6, <1>7, <1>8, <1>9, <1>10

LEMMA TakeKeeps ==
    ASSUME NEW m \in Managers, SessionInv(m), Take(m)
    PROVE  QueueInv(m)' /\ FileInv(m)' /\ HistoryInv(m)' /\ CancelInv(m)' /\ StagingInv(m)'
<1>1. WellTyped
  BY DEF SessionInv
<1>2. TypeOK /\ BusyOf(m) /\ NoJob \notin JobIds /\ MaxSubmitted \in Nat
  BY <1>1, ImportAssumption DEF WellTyped, Busy
<1>3. /\ manager[m] \in {"up", "left"}
      /\ work[m].at = "idle"
      /\ queue[m] # <<>>
      /\ work'[m].at = "taken"
      /\ work'[m].job = Head(queue[m])
      /\ queue'[m] = Tail(queue[m])
  BY <1>1, TakeEffect
<1>4. UNCHANGED <<jobsFile, history, staged, sources, failed, manager, jobs, ui,
                  submitted, crashes, failures, asked, late, overlapped>>
  BY <1>1, TakeEffect
<1>5. QueueInv(m) /\ FileInv(m) /\ HistoryInv(m) /\ CancelInv(m) /\ StagingInv(m)
  BY DEF SessionInv
<1>6. /\ queue[m] \in Seq(JobIds) /\ 1 \in DOMAIN queue[m] /\ queue[m][1] = Head(queue[m])
      /\ \A a \in DOMAIN queue'[m] : a + 1 \in DOMAIN queue[m] /\ a + 1 # 1 /\ queue'[m][a] = queue[m][a + 1]
      /\ \A a, b \in DOMAIN queue'[m] : a + 1 = b + 1 => a = b
  <2>1. queue[m] \in Seq(JobIds)
    BY <1>2 DEF TypeOK
  <2> QED
    BY <1>3, <2>1
<1>7. /\ \A a \in DOMAIN queue'[m] : \E b \in DOMAIN queue[m] : queue'[m][a] = queue[m][b]
      /\ \A a, b \in DOMAIN queue'[m] : queue'[m][a] = queue'[m][b] => a = b
      /\ \A a \in DOMAIN queue'[m] : queue'[m][a] # Head(queue[m])
  BY <1>5, <1>6 DEF QueueInv
<1>8. QueueInv(m)'
  BY <1>2, <1>3, <1>4, <1>5, <1>6, <1>7 DEF QueueInv
<1>9. FileInv(m)'
  BY <1>4, <1>5 DEF FileInv
<1>10. HistoryInv(m)'
  <2>1. ASSUME NEW i \in JobIds, NEW s \in Terminal, Said(m, i, s)'
        PROVE  Said(m, i, s)
    BY <1>2, <1>3, <1>4, <2>1 DEF Said, BusyOf, Line, TypeOK
  <2> QED
    BY <1>4, <1>5, <2>1 DEF HistoryInv
<1>11. CancelInv(m)'
  BY <1>2, <1>3, <1>4, <1>5, <1>6, <1>7 DEF CancelInv, QueueInv
<1>12. StagingInv(m)'
  BY <1>4, <1>5 DEF StagingInv, ActiveSources
<1> QED
  BY <1>8, <1>9, <1>10, <1>11, <1>12

LEMMA BeginKeeps ==
    ASSUME NEW m \in Managers, SessionInv(m), Begin(m)
    PROVE  QueueInv(m)' /\ FileInv(m)' /\ HistoryInv(m)' /\ CancelInv(m)' /\ StagingInv(m)'
<1>1. WellTyped
  BY DEF SessionInv
<1>2. TypeOK /\ BusyOf(m) /\ NoJob \notin JobIds /\ MaxSubmitted \in Nat
  BY <1>1, ImportAssumption DEF WellTyped, Busy
<1>3. /\ manager[m] \in {"up", "left"}
      /\ work[m].at = "taken"
      /\ \A i \in JobIds : jobs'[m][i] = IF i = work[m].job THEN "running" ELSE jobs[m][i]
      /\ jobsFile' = jobs'[m]
      /\ work'[m].at = "batch"
      /\ work'[m].job = work[m].job
  BY <1>1, BeginEffect
<1>4. UNCHANGED <<history, staged, sources, failed, manager, queue, ui, submitted,
                  crashes, failures, asked, late, overlapped>>
  BY <1>1, BeginEffect
<1>5. QueueInv(m) /\ FileInv(m) /\ HistoryInv(m) /\ CancelInv(m) /\ StagingInv(m)
  BY DEF SessionInv
<1>6. /\ work[m].job \in JobIds /\ work[m].job <= submitted
      /\ jobs[m][work[m].job] \in {"queued", "cancel_requested"} /\ jobs[m][work[m].job] \in Active
  <2>1. /\ work[m].job \in JobIds
        /\ jobs[m][work[m].job] \in {"queued", "cancel_requested"} /\ jobs[m][work[m].job] \in Active
    BY <1>2, <1>3, <1>5 DEF QueueInv, BusyOf, Active
  <2>2. ~(work[m].job > submitted)
    BY <1>5, <2>1 DEF FileInv, Active
  <2> QED
    BY <1>2, <2>1, <2>2 DEF TypeOK, JobIds
<1>7. \A a \in DOMAIN queue[m] : queue[m][a] \in JobIds /\ queue[m][a] # work[m].job
  BY <1>2, <1>5 DEF QueueInv, TypeOK
<1>8. QueueInv(m)'
  BY <1>2, <1>3, <1>4, <1>5, <1>6, <1>7 DEF QueueInv
<1>9. FileInv(m)'
  BY <1>2, <1>3, <1>4, <1>5, <1>6, <1>7 DEF FileInv, Active
<1>10. HistoryInv(m)'
  <2>1. ASSUME NEW i \in JobIds, NEW s \in Terminal, Said(m, i, s)'
        PROVE  Said(m, i, s)
    BY <1>2, <1>3, <1>4, <2>1 DEF Said, BusyOf, Line, TypeOK
  <2> QED
    BY <1>3, <1>4, <1>5, <1>6, <1>7, <2>1 DEF HistoryInv, FileInv, Active, Terminal
<1>11. CancelInv(m)'
  BY <1>2, <1>3, <1>4, <1>5, <1>6, <1>7 DEF CancelInv, QueueInv
<1>12. StagingInv(m)'
  BY <1>2, <1>3, <1>4, <1>5, <1>6, <1>7 DEF StagingInv, QueueInv, ActiveSources, Active
<1> QED
  BY <1>8, <1>9, <1>10, <1>11, <1>12

LEMMA BeginRaisesKeeps ==
    ASSUME NEW m \in Managers, SessionInv(m), BeginRaises(m)
    PROVE  QueueInv(m)' /\ FileInv(m)' /\ HistoryInv(m)' /\ CancelInv(m)' /\ StagingInv(m)'
<1>1. WellTyped
  BY DEF SessionInv
<1>2. TypeOK /\ BusyOf(m) /\ NoJob \notin JobIds /\ MaxSubmitted \in Nat
  BY <1>1, ImportAssumption DEF WellTyped, Busy
<1>3. /\ failures' = failures + 1
      /\ manager[m] \in {"up", "left"}
      /\ work[m].at = "taken"
      /\ \A i \in JobIds : jobs'[m][i] = IF i = work[m].job THEN "running" ELSE jobs[m][i]
      /\ work'[m] = Idle /\ work'[m].at = "idle" /\ work'[m].job = NoJob
  BY <1>1, BeginRaisesEffect
<1>4. UNCHANGED <<jobsFile, history, staged, sources, failed, manager, queue, ui,
                  submitted, crashes, asked, late, overlapped>>
  BY <1>1, BeginRaisesEffect
<1>5. QueueInv(m) /\ FileInv(m) /\ HistoryInv(m) /\ CancelInv(m) /\ StagingInv(m)
  BY DEF SessionInv
<1>6. /\ work[m].job \in JobIds /\ work[m].job <= submitted
      /\ jobs[m][work[m].job] \in {"queued", "cancel_requested"} /\ jobs[m][work[m].job] \in Active
  <2>1. /\ work[m].job \in JobIds
        /\ jobs[m][work[m].job] \in {"queued", "cancel_requested"} /\ jobs[m][work[m].job] \in Active
    BY <1>2, <1>3, <1>5 DEF QueueInv, BusyOf, Active
  <2>2. ~(work[m].job > submitted)
    BY <1>5, <2>1 DEF FileInv, Active
  <2> QED
    BY <1>2, <2>1, <2>2 DEF TypeOK, JobIds
<1>7. \A a \in DOMAIN queue[m] : queue[m][a] \in JobIds /\ queue[m][a] # work[m].job
  BY <1>2, <1>5 DEF QueueInv, TypeOK
<1>8. QueueInv(m)'
  BY <1>2, <1>3, <1>4, <1>5, <1>6, <1>7 DEF QueueInv
<1>9. FileInv(m)'
  <2>1. failures' # 0
    BY <1>2, <1>3 DEF TypeOK
  <2>2. \A i \in JobIds : jobsFile[i] \in Terminal => jobs[m][i] \in {jobsFile[i], "none"}
    BY <1>3, <1>5 DEF FileInv
  <2>3. \A i \in JobIds : jobsFile'[i] \in Terminal => jobs'[m][i] \in {jobsFile'[i], "none"}
    BY <1>2, <1>3, <1>4, <1>5, <1>6, <1>7, <2>2 DEF Active, Terminal
  <2>4. \A i \in JobIds : i > submitted => jobs'[m][i] = "none" /\ jobsFile'[i] = "none"
    BY <1>2, <1>3, <1>4, <1>5, <1>6, <1>7 DEF FileInv, Active, JobIds
  <2> QED
    BY <1>3, <1>4, <2>1, <2>3, <2>4 DEF FileInv
<1>10. HistoryInv(m)'
  <2>1. ASSUME NEW i \in JobIds, NEW s \in Terminal, Said(m, i, s)'
        PROVE  Said(m, i, s)
    BY <1>2, <1>3, <1>4, <2>1 DEF Said, BusyOf, Line, TypeOK
  <2> QED
    BY <1>3, <1>4, <1>5, <1>6, <1>7, <2>1 DEF HistoryInv, FileInv, Active, Terminal
<1>11. CancelInv(m)'
  BY <1>2, <1>3, <1>4, <1>5, <1>6, <1>7 DEF CancelInv, QueueInv
<1>12. StagingInv(m)'
  BY <1>2, <1>3, <1>4, <1>5, <1>6, <1>7 DEF StagingInv, QueueInv, ActiveSources, Active
<1> QED
  BY <1>8, <1>9, <1>10, <1>11, <1>12

LEMMA NextItemKeeps ==
    ASSUME NEW m \in Managers, SessionInv(m), NextItem(m)
    PROVE  QueueInv(m)' /\ FileInv(m)' /\ HistoryInv(m)' /\ CancelInv(m)' /\ StagingInv(m)'
<1>1. WellTyped
  BY DEF SessionInv
<1>2. TypeOK /\ BusyOf(m) /\ NoJob \notin JobIds /\ MaxSubmitted \in Nat
  BY <1>1, ImportAssumption DEF WellTyped, Busy
<1>3. /\ manager[m] \in {"up", "left"}
      /\ work[m].at = "batch"
      /\ work'[m].at \in {"result", "item"}
      /\ work'[m].at = "item" => jobs[m][work[m].job] # "cancel_requested"
      /\ work'[m].job = work[m].job
  BY <1>1, NextItemEffect
<1>4. UNCHANGED <<jobsFile, history, staged, sources, failed, manager, jobs, queue, ui,
                  submitted, crashes, failures, asked, late, overlapped>>
  BY <1>1, NextItemEffect
<1>5. QueueInv(m) /\ FileInv(m) /\ HistoryInv(m) /\ CancelInv(m) /\ StagingInv(m)
  BY DEF SessionInv
<1>6. QueueInv(m)'
  BY <1>2, <1>3, <1>4, <1>5 DEF QueueInv
<1>7. FileInv(m)'
  BY <1>4, <1>5 DEF FileInv
<1>8. HistoryInv(m)'
  <2>1. ASSUME NEW i \in JobIds, NEW s \in Terminal, Said(m, i, s)'
        PROVE  Said(m, i, s)
    BY <1>2, <1>3, <1>4, <2>1 DEF Said, BusyOf, Line, TypeOK
  <2> QED
    BY <1>4, <1>5, <2>1 DEF HistoryInv
<1>9. CancelInv(m)'
  BY <1>2, <1>3, <1>4, <1>5 DEF CancelInv, QueueInv
<1>10. StagingInv(m)'
  BY <1>4, <1>5 DEF StagingInv, ActiveSources
<1> QED
  BY <1>6, <1>7, <1>8, <1>9, <1>10

LEMMA ImportItemKeeps ==
    ASSUME NEW m \in Managers, NEW f \in Files, SessionInv(m), ImportItem(m, f)
    PROVE  QueueInv(m)' /\ FileInv(m)' /\ HistoryInv(m)' /\ CancelInv(m)' /\ StagingInv(m)'
<1>1. WellTyped
  BY DEF SessionInv
<1>2. TypeOK /\ BusyOf(m) /\ NoJob \notin JobIds /\ MaxSubmitted \in Nat
  BY <1>1, ImportAssumption DEF WellTyped, Busy
<1>3. /\ manager[m] \in {"up", "left"}
      /\ work[m].at = "item"
      /\ work'[m].at = "progress"
      /\ work'[m].job = work[m].job
      /\ \A i \in JobIds \ {work[m].job} : late'[i] = late[i]
      /\ asked[work[m].job] # "no" => late'[work[m].job] = late[work[m].job] + 1
  BY <1>1, ImportItemEffect
<1>4. UNCHANGED <<jobsFile, history, staged, sources, failed, manager, jobs, queue, ui,
                  submitted, crashes, failures, asked, overlapped>>
  BY <1>1, ImportItemEffect
<1>5. QueueInv(m) /\ FileInv(m) /\ HistoryInv(m) /\ CancelInv(m) /\ StagingInv(m)
  BY DEF SessionInv
<1>6. QueueInv(m)'
  BY <1>2, <1>3, <1>4, <1>5 DEF QueueInv
<1>7. FileInv(m)'
  BY <1>4, <1>5 DEF FileInv
<1>8. HistoryInv(m)'
  <2>1. ASSUME NEW i \in JobIds, NEW s \in Terminal, Said(m, i, s)'
        PROVE  Said(m, i, s)
    BY <1>2, <1>3, <1>4, <2>1 DEF Said, BusyOf, Line, TypeOK
  <2> QED
    BY <1>4, <1>5, <2>1 DEF HistoryInv
<1>9. CancelInv(m)'
  BY <1>2, <1>3, <1>4, <1>5 DEF CancelInv, QueueInv
<1>10. StagingInv(m)'
  BY <1>4, <1>5 DEF StagingInv, ActiveSources
<1> QED
  BY <1>6, <1>7, <1>8, <1>9, <1>10

LEMMA ReportProgressKeeps ==
    ASSUME NEW m \in Managers, SessionInv(m), ReportProgress(m)
    PROVE  QueueInv(m)' /\ FileInv(m)' /\ HistoryInv(m)' /\ CancelInv(m)' /\ StagingInv(m)'
<1>1. WellTyped
  BY DEF SessionInv
<1>2. TypeOK /\ BusyOf(m) /\ NoJob \notin JobIds /\ MaxSubmitted \in Nat
  BY <1>1, ImportAssumption DEF WellTyped, Busy
<1>3. /\ manager[m] \in {"up", "left"}
      /\ work[m].at = "progress"
      /\ jobsFile' = jobs[m]
      /\ work'[m].at = "batch"
      /\ work'[m].job = work[m].job
  BY <1>1, ReportProgressEffect
<1>4. UNCHANGED <<history, staged, sources, failed, manager, jobs, queue, ui, submitted,
                  crashes, failures, asked, late, overlapped>>
  BY <1>1, ReportProgressEffect
<1>5. QueueInv(m) /\ FileInv(m) /\ HistoryInv(m) /\ CancelInv(m) /\ StagingInv(m)
  BY DEF SessionInv
<1>6. QueueInv(m)'
  BY <1>2, <1>3, <1>4, <1>5 DEF QueueInv
<1>7. FileInv(m)'
  BY <1>2, <1>3, <1>4, <1>5 DEF FileInv, Active
<1>8. HistoryInv(m)'
  <2>1. ASSUME NEW i \in JobIds, NEW s \in Terminal, Said(m, i, s)'
        PROVE  Said(m, i, s)
    BY <1>2, <1>3, <1>4, <2>1 DEF Said, BusyOf, Line, TypeOK
  <2> QED
    BY <1>3, <1>4, <1>5, <2>1 DEF HistoryInv, FileInv, Active, Terminal
<1>9. CancelInv(m)'
  BY <1>2, <1>3, <1>4, <1>5 DEF CancelInv, QueueInv
<1>10. StagingInv(m)'
  BY <1>4, <1>5 DEF StagingInv, ActiveSources
<1> QED
  BY <1>6, <1>7, <1>8, <1>9, <1>10

LEMMA RunnerRaisesKeeps ==
    ASSUME NEW m \in Managers, SessionInv(m), RunnerRaises(m)
    PROVE  QueueInv(m)' /\ FileInv(m)' /\ HistoryInv(m)' /\ CancelInv(m)' /\ StagingInv(m)'
<1>1. WellTyped
  BY DEF SessionInv
<1>2. TypeOK /\ BusyOf(m) /\ NoJob \notin JobIds /\ MaxSubmitted \in Nat
  BY <1>1, ImportAssumption DEF WellTyped, Busy
<1>3. /\ manager[m] \in {"up", "left"}
      /\ work[m].at = "progress"
      /\ work'[m].at = "terminal"
      /\ work'[m].job = work[m].job
      /\ work'[m].verdict = "failed"
  BY <1>1, RunnerRaisesEffect
<1>4. UNCHANGED <<jobsFile, history, staged, sources, failed, manager, jobs, queue, ui,
                  submitted, crashes, failures, asked, late, overlapped>>
  BY <1>1, RunnerRaisesEffect
<1>5. QueueInv(m) /\ FileInv(m) /\ HistoryInv(m) /\ CancelInv(m) /\ StagingInv(m)
  BY DEF SessionInv
<1>6. QueueInv(m)'
  BY <1>2, <1>3, <1>4, <1>5 DEF QueueInv
<1>7. FileInv(m)'
  BY <1>4, <1>5 DEF FileInv
<1>8. HistoryInv(m)'
  <2>1. ASSUME NEW i \in JobIds, NEW s \in Terminal, Said(m, i, s)'
        PROVE  Said(m, i, s)
    BY <1>2, <1>3, <1>4, <2>1 DEF Said, BusyOf, Line, TypeOK
  <2> QED
    BY <1>4, <1>5, <2>1 DEF HistoryInv
<1>9. CancelInv(m)'
  BY <1>2, <1>3, <1>4, <1>5 DEF CancelInv, QueueInv
<1>10. StagingInv(m)'
  BY <1>4, <1>5 DEF StagingInv, ActiveSources
<1> QED
  BY <1>6, <1>7, <1>8, <1>9, <1>10

LEMMA ConcludeKeeps ==
    ASSUME NEW m \in Managers, SessionInv(m), Conclude(m)
    PROVE  QueueInv(m)' /\ FileInv(m)' /\ HistoryInv(m)' /\ CancelInv(m)' /\ StagingInv(m)'
<1>1. WellTyped
  BY DEF SessionInv
<1>2. TypeOK /\ BusyOf(m) /\ NoJob \notin JobIds /\ MaxSubmitted \in Nat
  BY <1>1, ImportAssumption DEF WellTyped, Busy
<1>3. /\ manager[m] \in {"up", "left"}
      /\ work[m].at = "result"
      /\ work'[m].at = "terminal"
      /\ work'[m].job = work[m].job
      /\ work'[m].verdict \in {"cancelled", "completed"}
  BY <1>1, ConcludeEffect
<1>4. UNCHANGED <<jobsFile, history, staged, sources, failed, manager, jobs, queue, ui,
                  submitted, crashes, failures, asked, late, overlapped>>
  BY <1>1, ConcludeEffect
<1>5. QueueInv(m) /\ FileInv(m) /\ HistoryInv(m) /\ CancelInv(m) /\ StagingInv(m)
  BY DEF SessionInv
<1>6. QueueInv(m)'
  BY <1>2, <1>3, <1>4, <1>5 DEF QueueInv
<1>7. FileInv(m)'
  BY <1>4, <1>5 DEF FileInv
<1>8. HistoryInv(m)'
  <2>1. ASSUME NEW i \in JobIds, NEW s \in Terminal, Said(m, i, s)'
        PROVE  Said(m, i, s)
    BY <1>2, <1>3, <1>4, <2>1 DEF Said, BusyOf, Line, TypeOK
  <2> QED
    BY <1>4, <1>5, <2>1 DEF HistoryInv
<1>9. CancelInv(m)'
  <2>1. \A i \in JobIds : asked[i] # "no" /\ work[m].job = i => work'[m].verdict = "cancelled"
    BY <1>1, <1>3, <1>5, ConcludeEffect DEF CancelInv
  <2> QED
    BY <1>3, <1>4, <1>5, <2>1 DEF CancelInv
<1>10. StagingInv(m)'
  BY <1>4, <1>5 DEF StagingInv, ActiveSources
<1> QED
  BY <1>6, <1>7, <1>8, <1>9, <1>10

LEMMA FinishKeeps ==
    ASSUME NEW m \in Managers, SessionInv(m), Finish(m)
    PROVE  QueueInv(m)' /\ FileInv(m)' /\ HistoryInv(m)' /\ CancelInv(m)' /\ StagingInv(m)'
<1>1. WellTyped
  BY DEF SessionInv
<1>2. TypeOK /\ BusyOf(m) /\ NoJob \notin JobIds /\ MaxSubmitted \in Nat
  BY <1>1, ImportAssumption DEF WellTyped, Busy
<1>3. /\ manager[m] \in {"up", "left"}
      /\ work[m].at = "terminal"
      /\ \A i \in JobIds : jobs'[m][i] = IF i = work[m].job THEN work[m].verdict ELSE jobs[m][i]
      /\ jobsFile' = jobs'[m]
      /\ work'[m].at = "history"
      /\ work'[m].job = work[m].job
      /\ work'[m].verdict = work[m].verdict
  BY <1>1, FinishEffect
<1>4. UNCHANGED <<history, staged, sources, manager, queue, ui, submitted, crashes, failures, asked, late, overlapped>>
  BY <1>1, FinishEffect
<1>5. QueueInv(m) /\ FileInv(m) /\ HistoryInv(m) /\ CancelInv(m) /\ StagingInv(m)
  BY DEF SessionInv
<1>6. /\ work[m].job \in JobIds /\ work[m].job <= submitted
      /\ jobs[m][work[m].job] \in {"running", "cancel_requested"} /\ jobs[m][work[m].job] \in Active
  <2>1. /\ work[m].job \in JobIds
        /\ jobs[m][work[m].job] \in {"running", "cancel_requested"} /\ jobs[m][work[m].job] \in Active
    BY <1>2, <1>3, <1>5 DEF QueueInv, BusyOf, Active
  <2>2. ~(work[m].job > submitted)
    BY <1>5, <2>1 DEF FileInv, Active
  <2> QED
    BY <1>2, <2>1, <2>2 DEF TypeOK, JobIds
<1>7. \A a \in DOMAIN queue[m] : queue[m][a] \in JobIds /\ queue[m][a] # work[m].job
  BY <1>2, <1>5 DEF QueueInv, TypeOK
<1>8. QueueInv(m)'
  BY <1>2, <1>3, <1>4, <1>5, <1>6, <1>7 DEF QueueInv
<1>9. FileInv(m)'
  BY <1>2, <1>3, <1>4, <1>5, <1>6, <1>7 DEF FileInv, Active
<1>10. HistoryInv(m)'
  <2>1. ASSUME NEW i \in JobIds, NEW s \in Terminal, Said(m, i, s)'
        PROVE  Said(m, i, s) \/ (i = work[m].job /\ s = work[m].verdict)
    BY <1>2, <1>3, <1>4, <2>1 DEF Said, BusyOf, Line, TypeOK
  <2> QED
    BY <1>3, <1>4, <1>5, <1>6, <1>7, <2>1 DEF HistoryInv, FileInv, Active, Terminal
<1>11. CancelInv(m)'
  BY <1>2, <1>3, <1>4, <1>5, <1>6, <1>7 DEF CancelInv, QueueInv
<1>12. StagingInv(m)'
  BY <1>2, <1>3, <1>4, <1>5, <1>6, <1>7 DEF StagingInv, QueueInv, ActiveSources, Active
<1> QED
  BY <1>8, <1>9, <1>10, <1>11, <1>12

LEMMA FinishRaisesKeeps ==
    ASSUME NEW m \in Managers, SessionInv(m), FinishRaises(m)
    PROVE  QueueInv(m)' /\ FileInv(m)' /\ HistoryInv(m)' /\ CancelInv(m)' /\ StagingInv(m)'
<1>1. WellTyped
  BY DEF SessionInv
<1>2. TypeOK /\ BusyOf(m) /\ NoJob \notin JobIds /\ MaxSubmitted \in Nat
  BY <1>1, ImportAssumption DEF WellTyped, Busy
<1>3. /\ failures' = failures + 1
      /\ manager[m] \in {"up", "left"}
      /\ work[m].at = "terminal"
      /\ \A i \in JobIds : jobs'[m][i] = IF i = work[m].job THEN work[m].verdict ELSE jobs[m][i]
      /\ work'[m] = Idle /\ work'[m].at = "idle" /\ work'[m].job = NoJob
  BY <1>1, FinishRaisesEffect
<1>4. UNCHANGED <<jobsFile, history, staged, sources, manager, queue, ui, submitted,
                  crashes, asked, late, overlapped>>
  BY <1>1, FinishRaisesEffect
<1>5. QueueInv(m) /\ FileInv(m) /\ HistoryInv(m) /\ CancelInv(m) /\ StagingInv(m)
  BY DEF SessionInv
<1>6. /\ work[m].job \in JobIds /\ work[m].job <= submitted
      /\ jobs[m][work[m].job] \in {"running", "cancel_requested"} /\ jobs[m][work[m].job] \in Active
  <2>1. /\ work[m].job \in JobIds
        /\ jobs[m][work[m].job] \in {"running", "cancel_requested"} /\ jobs[m][work[m].job] \in Active
    BY <1>2, <1>3, <1>5 DEF QueueInv, BusyOf, Active
  <2>2. ~(work[m].job > submitted)
    BY <1>5, <2>1 DEF FileInv, Active
  <2> QED
    BY <1>2, <2>1, <2>2 DEF TypeOK, JobIds
<1>7. \A a \in DOMAIN queue[m] : queue[m][a] \in JobIds /\ queue[m][a] # work[m].job
  BY <1>2, <1>5 DEF QueueInv, TypeOK
<1>8. QueueInv(m)'
  BY <1>2, <1>3, <1>4, <1>5, <1>6, <1>7 DEF QueueInv
<1>9. FileInv(m)'
  <2>1. failures' # 0
    BY <1>2, <1>3 DEF TypeOK
  <2>2. \A i \in JobIds : jobsFile[i] \in Terminal => jobs[m][i] \in {jobsFile[i], "none"}
    BY <1>3, <1>5 DEF FileInv
  <2>3. \A i \in JobIds : jobsFile'[i] \in Terminal => jobs'[m][i] \in {jobsFile'[i], "none"}
    BY <1>2, <1>3, <1>4, <1>5, <1>6, <1>7, <2>2 DEF Active, Terminal
  <2>4. \A i \in JobIds : i > submitted => jobs'[m][i] = "none" /\ jobsFile'[i] = "none"
    BY <1>2, <1>3, <1>4, <1>5, <1>6, <1>7 DEF FileInv, Active, JobIds
  <2> QED
    BY <1>3, <1>4, <2>1, <2>3, <2>4 DEF FileInv
<1>10. HistoryInv(m)'
  <2>1. ASSUME NEW i \in JobIds, NEW s \in Terminal, Said(m, i, s)'
        PROVE  Said(m, i, s)
    BY <1>2, <1>3, <1>4, <2>1 DEF Said, BusyOf, Line, TypeOK
  <2> QED
    BY <1>3, <1>4, <1>5, <1>6, <1>7, <2>1 DEF HistoryInv, FileInv, Active, Terminal
<1>11. CancelInv(m)'
  BY <1>2, <1>3, <1>4, <1>5, <1>6, <1>7 DEF CancelInv, QueueInv
<1>12. StagingInv(m)'
  BY <1>2, <1>3, <1>4, <1>5, <1>6, <1>7 DEF StagingInv, QueueInv, ActiveSources, Active
<1> QED
  BY <1>8, <1>9, <1>10, <1>11, <1>12

LEMMA AppendHistoryKeeps ==
    ASSUME NEW m \in Managers, SessionInv(m), AppendHistory(m)
    PROVE  QueueInv(m)' /\ FileInv(m)' /\ HistoryInv(m)' /\ CancelInv(m)' /\ StagingInv(m)'
<1>1. WellTyped
  BY DEF SessionInv
<1>2. TypeOK /\ BusyOf(m) /\ NoJob \notin JobIds /\ MaxSubmitted \in Nat
  BY <1>1, ImportAssumption DEF WellTyped, Busy
<1>3. /\ manager[m] \in {"up", "left"}
      /\ work[m].at = "history"
      /\ history' = Append(history, Line(work[m].job, work[m].verdict))
      /\ work'[m] = Idle /\ work'[m].at = "idle" /\ work'[m].job = NoJob
  BY <1>1, AppendHistoryEffect
<1>4. UNCHANGED <<jobsFile, staged, sources, failed, manager, jobs, queue, ui, submitted,
                  crashes, failures, asked, late, overlapped>>
  BY <1>1, AppendHistoryEffect
<1>5. QueueInv(m) /\ FileInv(m) /\ HistoryInv(m) /\ CancelInv(m) /\ StagingInv(m)
  BY DEF SessionInv
<1>6. \A a \in DOMAIN queue[m] : queue[m][a] \in JobIds
  BY <1>2 DEF TypeOK
<1>7. QueueInv(m)'
  BY <1>2, <1>3, <1>4, <1>5, <1>6 DEF QueueInv
<1>8. FileInv(m)'
  BY <1>4, <1>5 DEF FileInv
<1>9. HistoryInv(m)'
  <2>1. ASSUME NEW i \in JobIds, NEW s \in Terminal, Said(m, i, s)'
        PROVE  Said(m, i, s)
    BY <1>2, <1>3, <1>4, <2>1 DEF Said, BusyOf, Line, TypeOK
  <2> QED
    BY <1>4, <1>5, <2>1 DEF HistoryInv
<1>10. CancelInv(m)'
  BY <1>2, <1>3, <1>4, <1>5, <1>6 DEF CancelInv, QueueInv
<1>11. StagingInv(m)'
  BY <1>4, <1>5 DEF StagingInv, ActiveSources
<1> QED
  BY <1>7, <1>8, <1>9, <1>10, <1>11

LEMMA CrashKeeps ==
    ASSUME NEW m \in Managers, SessionInv(m), Crash
    PROVE  QueueInv(m)' /\ FileInv(m)' /\ HistoryInv(m)' /\ CancelInv(m)' /\ StagingInv(m)'
<1>1. FileInv(m) /\ HistoryInv(m) /\ CancelInv(m)
  BY DEF SessionInv
<1>2. /\ manager'[m] = "down" /\ jobs'[m] = NoStatus /\ queue'[m] = <<>>
      /\ work'[m].at = "idle" /\ work'[m].job = NoJob /\ ui'[m].at = "ready"
      /\ UNCHANGED <<jobsFile, history, sources, submitted, asked, late>>
      /\ NoJob \notin JobIds
  BY ImportAssumption DEF Crash, Idle, Ready, disk, faults, ghosts
<1>3. QueueInv(m)'
  BY <1>2 DEF QueueInv
<1>4. FileInv(m)'
  BY <1>1, <1>2 DEF FileInv, NoStatus
<1>5. HistoryInv(m)'
  <2>1. ASSUME NEW i \in JobIds, NEW s \in Terminal, Said(m, i, s)'
        PROVE  Said(m, i, s)
    BY <1>2, <2>1 DEF Said
  <2> QED
    BY <1>1, <1>2, <2>1 DEF HistoryInv
<1>6. CancelInv(m)'
  BY <1>1, <1>2 DEF CancelInv
<1>7. StagingInv(m)'
  BY <1>2 DEF StagingInv
<1> QED
  BY <1>3, <1>4, <1>5, <1>6, <1>7

\* What the threads of a manager do once it exists.
Acts(m) ==
    \/ Recovery(m) \/ RecoverRaises(m) \/ Leave(m) \/ Worker(m) \/ Serve(m) \/ User(m)
    \/ SubmitRaises(m) \/ (\E j \in JobIds : CancelRaises(m, j))
    \/ BeginRaises(m) \/ RunnerRaises(m) \/ FinishRaises(m)

LEMMA ActsKeep ==
    ASSUME NEW m \in Managers, SessionInv(m), Acts(m)
    PROVE  QueueInv(m)' /\ FileInv(m)' /\ HistoryInv(m)' /\ CancelInv(m)' /\ StagingInv(m)'
<1> DEFINE Kept == QueueInv(m)' /\ FileInv(m)' /\ HistoryInv(m)' /\ CancelInv(m)' /\ StagingInv(m)'
<1> HIDE DEF Kept
<1>2. ASSUME NEW j \in JobIds, RecoverJob(m, j) PROVE Kept
  BY <1>2, RecoverJobKeeps DEF Kept
<1>3. ASSUME RecoverPersist(m) PROVE Kept
  BY <1>3, RecoverPersistKeeps DEF Kept
<1>4. ASSUME RecoverRaises(m) PROVE Kept
  BY <1>4, RecoverRaisesKeeps DEF Kept
<1>5. ASSUME Leave(m) PROVE Kept
  BY <1>5, LeaveKeeps DEF Kept
<1>6. ASSUME NEW f \in Files, Upload(m, f) PROVE Kept
  BY <1>6, UploadKeeps DEF Kept
<1>7. ASSUME NEW j \in JobIds, Retry(m, j) PROVE Kept
  BY <1>7, RetryKeeps DEF Kept
<1>8. ASSUME Submit(m) PROVE Kept
  BY <1>8, SubmitKeeps DEF Kept
<1>9. ASSUME SubmitRaises(m) PROVE Kept
  BY <1>9, SubmitRaisesKeeps DEF Kept
<1>10. ASSUME NEW j \in JobIds, CancelQueued(m, j) PROVE Kept
  BY <1>10, CancelQueuedKeeps DEF Kept
<1>11. ASSUME AppendCancelled(m) PROVE Kept
  BY <1>11, AppendCancelledKeeps DEF Kept
<1>12. ASSUME NEW j \in JobIds, RequestCancel(m, j) PROVE Kept
  BY <1>12, RequestCancelKeeps DEF Kept
<1>13. ASSUME NEW j \in JobIds, CancelRaises(m, j) PROVE Kept
  BY <1>13, CancelRaisesKeeps DEF Kept
<1>14. ASSUME PruneRead(m) PROVE Kept
  BY <1>14, PruneReadKeeps DEF Kept
<1>15. ASSUME PruneReplace(m) PROVE Kept
  BY <1>15, PruneReplaceKeeps DEF Kept
<1>16. ASSUME NEW b \in BOOLEAN, Protect(m, b) PROVE Kept
  BY <1>16, ProtectKeeps DEF Kept
<1>17. ASSUME ListStaging(m) PROVE Kept
  BY <1>17, ListStagingKeeps DEF Kept
<1>18. ASSUME NEW f \in Files, Unlink(m, f) PROVE Kept
  BY <1>18, UnlinkKeeps DEF Kept
<1>19. ASSUME CleanupDone(m) PROVE Kept
  BY <1>19, CleanupDoneKeeps DEF Kept
<1>20. ASSUME Take(m) PROVE Kept
  BY <1>20, TakeKeeps DEF Kept
<1>21. ASSUME Begin(m) PROVE Kept
  BY <1>21, BeginKeeps DEF Kept
<1>22. ASSUME BeginRaises(m) PROVE Kept
  BY <1>22, BeginRaisesKeeps DEF Kept
<1>23. ASSUME NextItem(m) PROVE Kept
  BY <1>23, NextItemKeeps DEF Kept
<1>24. ASSUME NEW f \in Files, ImportItem(m, f) PROVE Kept
  BY <1>24, ImportItemKeeps DEF Kept
<1>25. ASSUME ReportProgress(m) PROVE Kept
  BY <1>25, ReportProgressKeeps DEF Kept
<1>26. ASSUME RunnerRaises(m) PROVE Kept
  BY <1>26, RunnerRaisesKeeps DEF Kept
<1>27. ASSUME Conclude(m) PROVE Kept
  BY <1>27, ConcludeKeeps DEF Kept
<1>28. ASSUME Finish(m) PROVE Kept
  BY <1>28, FinishKeeps DEF Kept
<1>29. ASSUME FinishRaises(m) PROVE Kept
  BY <1>29, FinishRaisesKeeps DEF Kept
<1>30. ASSUME AppendHistory(m) PROVE Kept
  BY <1>30, AppendHistoryKeeps DEF Kept
<1>1. Kept
  BY <1>2, <1>3, <1>4, <1>5, <1>6, <1>7, <1>8, <1>9, <1>10, <1>11, <1>12, <1>13,
     <1>14, <1>15, <1>16, <1>17, <1>18, <1>19, <1>20, <1>21, <1>22, <1>23, <1>24,
     <1>25, <1>26, <1>27, <1>28, <1>29, <1>30 DEF Acts, Recovery, Worker, Serve, User
<1> QED
  BY <1>1 DEF Kept

\* A manager is touched by its own threads only.
LEMMA ActsFrame ==
    ASSUME WellTyped, NEW m \in Managers, Acts(m)
    PROVE  /\ overlapped' = overlapped
           /\ \A k \in Managers \ {m} :
                 /\ manager'[k] = manager[k] /\ queue'[k] = queue[k]
                 /\ work'[k] = work[k] /\ ui'[k] = ui[k]
<1> DEFINE Apart == /\ overlapped' = overlapped
                    /\ \A k \in Managers \ {m} :
                          /\ manager'[k] = manager[k] /\ queue'[k] = queue[k]
                          /\ work'[k] = work[k] /\ ui'[k] = ui[k]
<1>1. /\ manager \in [Managers -> {"down", "recovering", "up", "left"}]
      /\ queue \in [Managers -> Seq(JobIds)]
      /\ work \in [Managers -> Works]
      /\ ui \in [Managers -> Uis]
  BY DEF WellTyped, TypeOK
<1>2. ASSUME Recovery(m) \/ RecoverRaises(m) \/ Leave(m) PROVE Apart
  BY <1>1, <1>2 DEF Recovery, RecoverJob, RecoverPersist, RecoverRaises, Leave, ghosts
<1>3. ASSUME Worker(m) PROVE Apart
  BY <1>1, <1>3 DEF Worker, Take, Begin, NextItem, ImportItem, ReportProgress, Conclude,
     Finish, AppendHistory, Step, ghosts
<1>4. ASSUME Serve(m) PROVE Apart
  BY <1>1, <1>4 DEF Serve, AppendCancelled, PruneReplace, ListStaging, Unlink,
     CleanupDone, ghosts
<1>5. ASSUME User(m) PROVE Apart
  BY <1>1, <1>5 DEF User, Upload, Retry, CancelQueued, RequestCancel, Submit, PruneRead,
     Protect, ghosts
<1>6. ASSUME \/ SubmitRaises(m) \/ (\E j \in JobIds : CancelRaises(m, j))
             \/ BeginRaises(m) \/ RunnerRaises(m) \/ FinishRaises(m)
      PROVE  Apart
  BY <1>1, <1>6 DEF SubmitRaises, CancelRaises, BeginRaises, RunnerRaises, FinishRaises,
     ghosts
<1> QED
  BY <1>2, <1>3, <1>4, <1>5, <1>6 DEF Acts

LEMMA InertRests == ASSUME NEW m \in Managers, Inert(m) PROVE ~Acts(m) /\ Gone(m)
<1>1. ~(Recovery(m) \/ RecoverRaises(m) \/ Leave(m))
  BY DEF Inert, Recovery, RecoverJob, RecoverPersist, RecoverRaises, Leave
<1>2. ~(Worker(m) \/ BeginRaises(m) \/ RunnerRaises(m) \/ FinishRaises(m))
  BY DEF Inert, Worker, Take, Begin, NextItem, ImportItem, ReportProgress, Conclude,
     Finish, AppendHistory, BeginRaises, RunnerRaises, FinishRaises, At
<1>3. ~(Serve(m) \/ User(m) \/ SubmitRaises(m) \/ \E j \in JobIds : CancelRaises(m, j))
  BY DEF Inert, Serve, AppendCancelled, PruneReplace, ListStaging, Unlink, CleanupDone,
     User, Upload, Retry, CancelQueued, RequestCancel, Submit, PruneRead, Protect,
     SubmitRaises, CancelRaises
<1> QED
  BY <1>1, <1>2, <1>3 DEF Acts, Inert, Gone

LEMMA SessionInit == ASSUME NEW m \in Managers, Init PROVE SessionInv(m) /\ Inert(m)
<1>1. WellTyped
  BY InitTyped
<1>2. /\ NoJob \notin JobIds
      /\ queue[m] = <<>> /\ work[m].at = "idle" /\ work[m].job = NoJob /\ ui[m].at = "ready"
      /\ manager[m] = "down" /\ jobs[m] = NoStatus /\ jobsFile = NoStatus
      /\ history = <<>> /\ asked = [j \in JobIds |-> "no"]
  BY ImportAssumption DEF Init, Idle, Ready
<1>3. QueueInv(m) /\ FileInv(m)
  BY <1>2 DEF QueueInv, FileInv, NoStatus
<1>4. HistoryInv(m) /\ CancelInv(m) /\ StagingInv(m)
  BY <1>2 DEF HistoryInv, Said, CancelInv, StagingInv
<1> QED
  BY <1>1, <1>2, <1>3, <1>4 DEF SessionInv, Inert

\* The manager that is in use or at work stays the only one, or gives way to
\* another once it has come to rest.
LEMMA AloneStep ==
    ASSUME NEW n \in Managers, Alone(n), WellTyped', [Next]_vars
    PROVE  overlapped' \/ \E m \in Managers : Alone(m)'
<1>1. SessionInv(n) /\ WellTyped /\ \A k \in Managers \ {n} : Inert(k)
  BY DEF Alone, SessionInv
<1>2. ASSUME NEW m \in Managers, Acts(m) PROVE Alone(n)'
  <2>1. m = n
    BY <1>1, <1>2, InertRests
  <2>2. QueueInv(n)' /\ FileInv(n)' /\ HistoryInv(n)' /\ CancelInv(n)' /\ StagingInv(n)'
    BY <1>1, <1>2, <2>1, ActsKeep
  <2>3. \A k \in Managers \ {n} :
           /\ manager'[k] = manager[k] /\ queue'[k] = queue[k]
           /\ work'[k] = work[k] /\ ui'[k] = ui[k]
    BY <1>1, <1>2, <2>1, ActsFrame
  <2> QED
    BY <1>1, <2>2, <2>3 DEF Alone, SessionInv, Inert
<1>3. ASSUME NEW m \in Managers, Boot(m), ~overlapped' PROVE Alone(m)'
  <2>1. /\ Gone(m) /\ (\A k \in Managers \ {m} : Gone(k) /\ manager'[k] = manager[k])
        /\ UNCHANGED <<queue, work, ui>>
    BY <1>1, <1>3, BootEffect
  <2>2. Inert(n)
    <3>1. Gone(n) /\ QueueInv(n)
      BY <1>1, <2>1 DEF SessionInv
    <3> QED
      BY <3>1 DEF Gone, QueueInv, Inert
  <2>3. \A k \in Managers : Inert(k)
    BY <1>1, <2>2
  <2>4. QueueInv(m)' /\ FileInv(m)' /\ HistoryInv(m)' /\ CancelInv(m)' /\ StagingInv(m)'
    BY <1>1, <1>3, <2>3, BootKeeps
  <2> QED
    BY <2>1, <2>3, <2>4 DEF Alone, SessionInv, Inert
<1>4. ASSUME Crash PROVE Alone(n)'
  <2>1. QueueInv(n)' /\ FileInv(n)' /\ HistoryInv(n)' /\ CancelInv(n)' /\ StagingInv(n)'
    BY <1>1, <1>4, CrashKeeps
  <2>2. \A k \in Managers : Inert(k)'
    BY <1>4 DEF Crash, Inert, Idle, Ready
  <2> QED
    BY <2>1, <2>2 DEF Alone, SessionInv
<1>5. ASSUME UNCHANGED vars PROVE Alone(n)'
  <2>1. QueueInv(n)' /\ FileInv(n)' /\ HistoryInv(n)' /\ CancelInv(n)' /\ StagingInv(n)'
    BY <1>1, <1>5 DEF vars, SessionInv, QueueInv, FileInv, HistoryInv, CancelInv,
       StagingInv, Said, ActiveSources
  <2> QED
    BY <1>1, <1>5, <2>1 DEF vars, Alone, SessionInv, Inert
<1> QED
  BY <1>2, <1>3, <1>4, <1>5 DEF Next, Acts

LEMMA OverlapStays == ASSUME WellTyped, [Next]_vars, overlapped PROVE overlapped'
<1>1. ASSUME NEW m \in Managers, Acts(m) PROVE overlapped'
  BY <1>1, ActsFrame
<1>2. ASSUME NEW m \in Managers, Boot(m) PROVE overlapped'
  BY <1>2 DEF Boot
<1>3. ASSUME Crash \/ UNCHANGED vars PROVE overlapped'
  BY <1>3 DEF Crash, ghosts, vars
<1> QED
  BY <1>1, <1>2, <1>3 DEF Next, Acts

LEMMA OneAtATimeInvariant == Spec => []OneAtATime
<1>1. Init => OneAtATime
  <2> SUFFICES ASSUME Init PROVE OneAtATime
    OBVIOUS
  <2>1. PICK m : m \in Managers
    BY ImportAssumption
  <2> QED
    BY <2>1, InitTyped, SessionInit DEF OneAtATime, Alone
<1>2. OneAtATime /\ [Next]_vars => OneAtATime'
  <2> SUFFICES ASSUME OneAtATime, [Next]_vars PROVE OneAtATime'
    OBVIOUS
  <2>1. WellTyped /\ WellTyped'
    BY TypeStep, BusyStep DEF OneAtATime, WellTyped
  <2>2. CASE overlapped
    BY <2>1, <2>2, OverlapStays DEF OneAtATime
  <2>3. CASE \E m \in Managers : Alone(m)
    BY <2>1, <2>3, AloneStep DEF OneAtATime
  <2> QED
    BY <2>2, <2>3 DEF OneAtATime
<1> QED
  BY <1>1, <1>2, PTL DEF Spec

-----------------------------------------------------------------------------
(* What holds until a manager is built beside another.                     *)

\* The steps that add or remove staged files, and those that write jobs.json.
LEMMA OnlySome ==
    ASSUME Next
    PROVE  /\ staged' = staged \/ \E n \in Managers, f \in Files : Unlink(n, f) \/ Upload(n, f)
           /\ \/ jobsFile' = jobsFile
              \/ \E n \in Managers :
                    \/ \E j \in JobIds : CancelQueued(n, j) \/ RequestCancel(n, j)
                    \/ Begin(n) \/ Finish(n) \/ Submit(n) \/ SubmitRaises(n)
                    \/ RecoverPersist(n) \/ ReportProgress(n)
<1>1. ASSUME NEW n \in Managers, Boot(n) \/ Recovery(n) \/ RecoverRaises(n) \/ Leave(n)
      PROVE  staged' = staged /\ (jobsFile' = jobsFile \/ RecoverPersist(n))
  BY <1>1 DEF Boot, Recovery, RecoverJob, RecoverPersist, RecoverRaises, Leave, disk
<1>2. ASSUME NEW n \in Managers, Worker(n)
      PROVE  staged' = staged /\ (jobsFile' = jobsFile \/ Begin(n) \/ Finish(n) \/ ReportProgress(n))
  BY <1>2 DEF Worker, Take, Begin, NextItem, ImportItem, ReportProgress, Conclude,
     Finish, AppendHistory, disk
<1>3. ASSUME NEW n \in Managers, Serve(n)
      PROVE  jobsFile' = jobsFile /\ (staged' = staged \/ \E f \in Files : Unlink(n, f))
  BY <1>3 DEF Serve, AppendCancelled, PruneReplace, ListStaging, Unlink, CleanupDone, disk
<1>4. ASSUME NEW n \in Managers, User(n)
      PROVE  /\ staged' = staged \/ \E f \in Files : Upload(n, f)
             /\ \/ jobsFile' = jobsFile \/ Submit(n)
                \/ \E j \in JobIds : CancelQueued(n, j) \/ RequestCancel(n, j)
  BY <1>4 DEF User, Upload, Retry, CancelQueued, RequestCancel, Submit, PruneRead,
     Protect, disk
<1>5. ASSUME NEW n \in Managers,
             \/ SubmitRaises(n) \/ (\E j \in JobIds : CancelRaises(n, j))
             \/ BeginRaises(n) \/ RunnerRaises(n) \/ FinishRaises(n)
      PROVE  staged' = staged /\ (jobsFile' = jobsFile \/ SubmitRaises(n))
  BY <1>5 DEF SubmitRaises, CancelRaises, BeginRaises, RunnerRaises, FinishRaises, disk
<1>6. ASSUME Crash PROVE UNCHANGED <<staged, jobsFile>>
  BY <1>6 DEF Crash, disk
<1> QED
  BY <1>1, <1>2, <1>3, <1>4, <1>5, <1>6 DEF Next

LEMMA LineFields ==
    ASSUME NEW l \in Lines
    PROVE  l = Line(l.job, l.status) /\ l.job \in JobIds /\ l.status \in Terminal
BY DEF Lines, Line

\* While managers come one after another, the history and jobs.json never tell
\* different ends of a job and the history never tells two, through crashes,
\* changes of workspace, prunes and calls that raise.
THEOREM HistoryCorrect == Spec => []HistoryTruthful
<1>1. OneAtATime => HistoryTruthful
  <2> SUFFICES ASSUME NEW n \in Managers, SessionInv(n), NEW a \in DOMAIN history, NEW b \in DOMAIN history
               PROVE  /\ history[a].job = history[b].job => history[a].status = history[b].status
                      /\ jobsFile[history[a].job] \in Terminal => history[a].status = jobsFile[history[a].job]
    BY DEF HistoryTruthful, OneAtATime, Alone
  <2>1. history \in Seq(Lines) /\ HistoryInv(n)
    BY DEF SessionInv, WellTyped, TypeOK
  <2>2. /\ history[a] = Line(history[a].job, history[a].status) /\ history[a].job \in JobIds /\ history[a].status \in Terminal
        /\ history[b] = Line(history[b].job, history[b].status) /\ history[b].job \in JobIds /\ history[b].status \in Terminal
    <3>1. history[a] \in Lines /\ history[b] \in Lines
      BY <2>1
    <3> QED
      BY <3>1, LineFields
  <2>3. Said(n, history[a].job, history[a].status) /\ Said(n, history[b].job, history[b].status)
    BY <2>2 DEF Said
  <2> QED
    BY <2>1, <2>2, <2>3 DEF HistoryInv, Terminal, Active
<1> QED
  BY <1>1, OneAtATimeInvariant, PTL

\* What a restart has declared interrupted is neither queued nor worked on,
\* as long as the manager that restarts is the only one at work.
THEOREM InterruptedStaysOver == Spec => []InterruptedIsOver
<1>1. OneAtATime => InterruptedIsOver
  <2> SUFFICES ASSUME NEW n \in Managers, SessionInv(n), \A k \in Managers \ {n} : Inert(k), NEW a \in DOMAIN history,
                      history[a].status = "interrupted", NEW m \in Managers
               PROVE  work[m].job # history[a].job /\ ~InQueue(m, history[a].job)
    BY DEF InterruptedIsOver, OneAtATime, Alone
  <2>1. history \in Seq(Lines) /\ HistoryInv(n) /\ QueueInv(n) /\ Busy /\ NoJob \notin JobIds /\ work[m] \in Works
    BY ImportAssumption DEF SessionInv, WellTyped, TypeOK
  <2> DEFINE j == history[a].job
  <2>2. history[a] = Line(j, "interrupted") /\ j \in JobIds /\ "interrupted" \in Terminal
    <3>1. history[a] \in Lines
      BY <2>1
    <3> QED
      BY <3>1, LineFields DEF Terminal
  <2>3. Said(n, j, "interrupted")
    BY <2>2 DEF Said
  <2> HIDE DEF j
  <2>4. manager[n] \in {"up", "left"} => jobs[n][j] \in {"interrupted", "none"}
    BY <2>1, <2>2, <2>3 DEF HistoryInv
  <2>5. \A t \in Terminal : Said(n, j, t) => t = "interrupted"
    BY <2>1, <2>2, <2>3 DEF HistoryInv
  <2>6. CASE m # n
    <3>1. Inert(m) /\ BusyOf(m)
      BY <2>1, <2>6 DEF Busy
    <3>2. work[m].job = NoJob
      BY <3>1 DEF Inert, BusyOf, Idle
    <3> QED
      BY <2>1, <2>2, <3>1, <3>2 DEF Inert, InQueue, j
  <2>7. CASE m = n
    <3>1. ~InQueue(n, j)
      BY <2>1, <2>4 DEF QueueInv, InQueue
    <3>2. ASSUME work[n].job = j PROVE FALSE
      <4>1. work[n].at # "idle" /\ manager[n] \in {"up", "left"}
        BY <2>1, <2>2, <3>2 DEF QueueInv
      <4>2. work[n].at = "history"
        BY <2>1, <2>4, <2>7, <3>2, <4>1 DEF QueueInv, Works
      <4>3. Said(n, j, work[n].verdict) /\ work[n].verdict \in {"completed", "cancelled", "failed"}
        BY <2>1, <3>2, <4>2 DEF Said, Busy, BusyOf
      <4> QED
        BY <2>5, <4>3 DEF Terminal
    <3> QED
      BY <2>7, <3>1, <3>2 DEF j
  <2> QED
    BY <2>6, <2>7
<1> QED
  BY <1>1, OneAtATimeInvariant, PTL

\* After a cancel call has found its job at work, the job imports at most the
\* file it is at, whatever progress reports follow, and never completes.
THEOREM CancelWorks == Spec => []RunningCancelStops
<1>1. OneAtATime => RunningCancelStops
  <2> SUFFICES ASSUME NEW n \in Managers, SessionInv(n), NEW j \in JobIds
               PROVE  /\ asked[j] = "between" => late[j] = 0
                      /\ asked[j] = "item" => late[j] <= 1
                      /\ asked[j] \in {"item", "between"} => jobsFile[j] # "completed"
    BY DEF RunningCancelStops, OneAtATime, Alone
  <2> QED
    BY DEF SessionInv, CancelInv
<1> QED
  BY <1>1, OneAtATimeInvariant, PTL

\* The cleanup removes no file that an active job of a manager in use or at
\* work still refers to, although jobs move on between its steps.
THEOREM CleanupSpares == Spec => SourcesProtected
<1>1. OneAtATime /\ [Next]_vars => [~overlapped => Spares]_vars
  <2> SUFFICES ASSUME NEW n \in Managers, SessionInv(n), \A k \in Managers \ {n} : Inert(k), Next, NEW m \in Managers,
                      NEW f \in staged, f \notin staged', ~Gone(m), NEW j \in JobIds, jobs[m][j] \in Active
               PROVE  f \notin sources[j]
    BY DEF Spares, OneAtATime, Alone
  <2>1. m = n /\ WellTyped /\ StagingInv(n)
    BY InertRests DEF SessionInv
  <2>2. ASSUME NEW k \in Managers, NEW g \in Files, Unlink(k, g) PROVE f \notin sources[j]
    <3>1. k = n
      BY <2>2, InertRests DEF Acts, Serve
    <3>2. ui[n].at = "unlink" /\ g \in ui[n].files /\ staged' \in {staged, staged \ {g}}
      BY <2>1, <2>2, <3>1, UnlinkEffect
    <3>3. g \notin ActiveSources(n) /\ f = g
      BY <2>1, <3>2 DEF StagingInv
    <3> QED
      BY <2>1, <3>3 DEF ActiveSources
  <2>3. ASSUME NEW k \in Managers, NEW g \in Files, Upload(k, g) PROVE FALSE
    BY <2>3 DEF Upload
  <2>4. ASSUME staged' # staged PROVE \E k \in Managers, g \in Files : Unlink(k, g) \/ Upload(k, g)
    BY <2>4, OnlySome
  <2> QED
    BY <2>2, <2>3, <2>4
<1> QED
  BY <1>1, OneAtATimeInvariant, PTL DEF Spec, SourcesProtected

-----------------------------------------------------------------------------
(* The ledger. *)

LEMMA LedgerStep ==
    ASSUME NEW n \in Managers, Alone(n), WellTyped', [Next]_vars, failures' = 0
    PROVE  [Ledger!Next]_jobsFile
<1>1. WellTyped /\ FileInv(n) /\ QueueInv(n) /\ BusyOf(n) /\ jobsFile \in Table /\ jobsFile' \in Table
  BY DEF Alone, SessionInv, WellTyped, TypeOK, Busy
<1>2. manager[n] \in {"up", "left"} /\ failures = 0 => jobsFile = jobs[n]
  BY <1>1 DEF FileInv
<1>3. ASSUME NEW j \in JobIds, NEW s \in Active \cup Terminal, manager[n] \in {"up", "left"}, failures = 0, jobs[n][j] \in Active,
             \A i \in JobIds : jobs'[n][i] = IF i = j THEN s ELSE jobs[n][i], jobsFile' = jobs'[n]
      PROVE  Ledger!Next
  <2>1. jobsFile' = [jobsFile EXCEPT ![j] = s]
    BY <1>1, <1>2, <1>3 DEF Table
  <2> QED
    BY <1>2, <1>3, <2>1 DEF Ledger!Next, Ledger!Advance
<1>4. ASSUME NEW j \in JobIds, CancelQueued(n, j) PROVE Ledger!Next
  <2>1. manager[n] \in {"up", "left"} /\ failures = 0 /\ jobs[n][j] \in Active /\ jobsFile' = jobs'[n] /\ "cancelled" \in Terminal
    BY <1>1, <1>4, CancelQueuedEffect DEF Active, Terminal
  <2>2. \A i \in JobIds : jobs'[n][i] = IF i = j THEN "cancelled" ELSE jobs[n][i]
    BY <1>1, <1>4, CancelQueuedEffect
  <2> QED
    BY <1>3, <2>1, <2>2
<1>5. ASSUME NEW j \in JobIds, RequestCancel(n, j) PROVE Ledger!Next
  <2>1. manager[n] \in {"up", "left"} /\ failures = 0 /\ jobs[n][j] \in Active /\ jobsFile' = jobs'[n] /\ "cancel_requested" \in Active
    BY <1>1, <1>5, RequestCancelEffect DEF Active
  <2>2. \A i \in JobIds : jobs'[n][i] = IF i = j THEN "cancel_requested" ELSE jobs[n][i]
    BY <1>1, <1>5, RequestCancelEffect
  <2> QED
    BY <1>3, <2>1, <2>2
<1>6. ASSUME Begin(n) PROVE Ledger!Next
  <2>1. manager[n] \in {"up", "left"} /\ failures = 0 /\ work[n].at = "taken" /\ jobsFile' = jobs'[n] /\ "running" \in Active
    BY <1>1, <1>6, BeginEffect DEF Active
  <2>2. \A i \in JobIds : jobs'[n][i] = IF i = work[n].job THEN "running" ELSE jobs[n][i]
    BY <1>1, <1>6, BeginEffect
  <2>3. work[n].job \in JobIds /\ jobs[n][work[n].job] \in Active
    BY <1>1, <2>1 DEF BusyOf, QueueInv, Active
  <2> QED
    BY <1>3, <2>1, <2>2, <2>3
<1>7. ASSUME Finish(n) PROVE Ledger!Next
  <2>1. manager[n] \in {"up", "left"} /\ failures = 0 /\ work[n].at = "terminal" /\ jobsFile' = jobs'[n]
    BY <1>1, <1>7, FinishEffect
  <2>2. \A i \in JobIds : jobs'[n][i] = IF i = work[n].job THEN work[n].verdict ELSE jobs[n][i]
    BY <1>1, <1>7, FinishEffect
  <2>3. work[n].job \in JobIds /\ jobs[n][work[n].job] \in Active /\ work[n].verdict \in Terminal
    BY <1>1, <2>1 DEF BusyOf, QueueInv, Active, Terminal
  <2> QED
    BY <1>3, <2>1, <2>2, <2>3
<1>8. ASSUME Submit(n) PROVE Ledger!Next
  <2> DEFINE j == submitted + 1
  <2>1. manager[n] \in {"up", "left"} /\ failures = 0 /\ j \in JobIds /\ jobsFile' = jobs'[n]
    BY <1>1, <1>8, SubmitEffect
  <2>2. \A i \in JobIds : jobs'[n][i] = IF i = j THEN "queued" ELSE IF i \in Trimmed(n) THEN "none" ELSE jobs[n][i]
    BY <1>1, <1>8, SubmitEffect
  <2>3. \A i \in Trimmed(n) : i \in JobIds /\ jobs[n][i] \in Terminal
    BY <1>1, <1>8, SubmitEffect
  <2>4. jobsFile[j] = "none"
    BY <1>1, <2>1 DEF FileInv, WellTyped, TypeOK
  <2> HIDE DEF j
  <2>5. jobsFile' = [i \in JobIds |-> IF i = j THEN "queued" ELSE IF i \in Trimmed(n) THEN "none" ELSE jobsFile[i]]
    BY <1>1, <1>2, <2>1, <2>2 DEF Table
  <2>6. Trimmed(n) \in SUBSET Ledger!Forgettable
    BY <1>2, <2>1, <2>3 DEF Ledger!Forgettable
  <2> QED
    BY <2>1, <2>4, <2>5, <2>6 DEF Ledger!Next, Ledger!Register
<1>9. ASSUME RecoverPersist(n) PROVE Ledger!Next
  <2>1. manager[n] = "recovering" /\ (\A j \in JobIds : jobs[n][j] \notin Active) /\ jobsFile' = jobs[n]
    BY <1>1, <1>9, RecoverPersistEffect
  <2>2. \A j \in JobIds : jobsFile'[j] = IF jobsFile[j] \in Active THEN "interrupted" ELSE jobsFile[j]
    BY <1>1, <2>1 DEF FileInv, Active
  <2>3. jobsFile' = [j \in JobIds |-> IF jobsFile[j] \in Active THEN "interrupted" ELSE jobsFile[j]]
    BY <1>1, <2>2 DEF Table
  <2> QED
    BY <2>3 DEF Ledger!Next, Ledger!Restart
<1>10. ASSUME ReportProgress(n) PROVE jobsFile' = jobsFile
  BY <1>1, <1>2, <1>10, ReportProgressEffect
<1>11. ASSUME NEW m \in Managers, SubmitRaises(m) PROVE FALSE
  <2>1. failures' = failures + 1 /\ failures \in Nat
    BY <1>1, <1>11, SubmitRaisesEffect DEF WellTyped, TypeOK
  <2> QED
    BY <2>1
<1>12. ASSUME NEW m \in Managers, Acts(m) PROVE m = n
  BY <1>12, InertRests DEF Alone
<1>13. jobsFile' = jobsFile \/ Next
  BY DEF vars
<1>14. ASSUME NEW m \in Managers,
              \/ \E j \in JobIds : CancelQueued(m, j) \/ RequestCancel(m, j)
              \/ Begin(m) \/ Finish(m) \/ Submit(m) \/ RecoverPersist(m) \/ ReportProgress(m)
       PROVE  Acts(m)
  BY <1>14 DEF Acts, User, Worker, Recovery
<1> QED
  BY <1>4, <1>5, <1>6, <1>7, <1>8, <1>9, <1>10, <1>11, <1>12, <1>13, <1>14, OnlySome

\* Until a call raises or a manager is built beside another, jobs.json is the
\* ledger of JobLedger: a job is listed once, ends once, and is forgotten only
\* afterwards.
THEOREM LedgerRefined == Spec => LedgerSpec
<1>1. Init => Ledger!Init
  BY DEF Init, NoStatus, Ledger!Init
<1>2. OneAtATime /\ OneAtATime' /\ [Next]_vars
         => [failures' = 0 /\ ~overlapped' => Ledger!Next]_jobsFile
  <2> SUFFICES ASSUME OneAtATime, OneAtATime', [Next]_vars, failures' = 0, ~overlapped'
               PROVE  [Ledger!Next]_jobsFile
    OBVIOUS
  <2>1. WellTyped /\ WellTyped' /\ ~overlapped
    BY OverlapStays DEF OneAtATime
  <2> QED
    BY <2>1, LedgerStep DEF OneAtATime
<1> QED
  BY <1>1, <1>2, OneAtATimeInvariant, PTL DEF Spec, LedgerSpec
=============================================================================
