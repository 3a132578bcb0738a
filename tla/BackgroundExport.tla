--------------------------- MODULE BackgroundExport ---------------------------
(***************************************************************************)
(* Background report exports: reports/background_export.py and the project *)
(* service over it, with the two session events that reach them: a change  *)
(* of project, which drops the manager, and a shell command that fails,    *)
(* whose rollback puts a copy of the session state back.                   *)
(*                                                                         *)
(* A manager keeps the snapshots of its jobs in a dict of the session      *)
(* state.  Executor, lock, futures, cancel events and results belong to a  *)
(* runtime that every manager of the project shares.  Each action is what  *)
(* one thread does under one acquisition of the lock, or one step outside  *)
(* it; the threads are the session's script and the executor's worker.     *)
(***************************************************************************)
EXTENDS Integers, Sequences, FiniteSets, SequenceDrop

CONSTANTS
    Signatures,      \* requests a user may export
    NoSignature,
    NoJob,
    NoStore,
    MaxSubmitted,    \* bound: jobs submitted in a behaviour
    MaxSnapshots,    \* snapshots a store keeps (20 in the code)
    MaxReports,      \* bound: progress reports of one job
    MaxReopens,      \* bound: changes of project
    MaxRollbacks     \* bound: shell commands that fail

JobIds == 1..MaxSubmitted      \* in the order of submission
Stores == 0..MaxRollbacks      \* dicts that have been the project's metadata

ASSUME ExportAssumption ==
    /\ MaxSubmitted \in Nat /\ MaxSnapshots \in Nat \ {0} /\ MaxReports \in Nat
    /\ MaxReopens \in Nat /\ MaxRollbacks \in Nat
    /\ NoSignature \notin Signatures /\ NoJob \notin JobIds /\ NoStore \notin Stores

Active == {"pending", "running", "cancelling"}
Terminal == {"cancelled", "completed", "failed", "orphaned"}
Statuses == Active \cup Terminal

VARIABLES
    \* session state
    stores,       \* rows of each dict, the least recently updated first
    kept,         \* the dict the session state holds now
    bound,        \* the dict of the live manager, NoStore when there is none
    \* the shared runtime
    queue,        \* work the executor has not taken
    futures,
    events,       \* jobs with an entry in cancel_events
    results,
    \* what a run holds
    signature,    \* request_signature of a job
    home,         \* the dict of the manager that submitted a job
    raised,       \* jobs whose cancel event is set
    \* threads
    work, ui,
    \* bookkeeping of the model
    submitted, reopens, rollbacks,
    inTime        \* jobs cancelled before the last look at their event

session == <<stores, kept, bound>>
runtime == <<queue, futures, events, results>>
jobsData == <<signature, home, raised>>
bounds == <<submitted, reopens, rollbacks>>
vars == <<stores, kept, bound, queue, futures, events, results, signature, home, raised,
          work, ui, submitted, reopens, rollbacks, inTime>>

Row(j, status) == [job |-> j, status |-> status]
RowsOf(removed) == [job : removed, status : Statuses]
AllRows == Seq(RowsOf(JobIds))
JobsOf(rows) == {rows[i].job : i \in DOMAIN rows}
Has(rows, j, statuses) ==
    \E i \in DOMAIN rows : rows[i].job = j /\ rows[i].status \in statuses

\* A snapshot that is written becomes the most recent one.
Touched(rows, j, status) ==
    Append(Drop(rows, RowsOf({j})), Row(j, status))

\* Mutant: one snapshot too many stays.
NewestOffByOne(rows) ==
    SubSeq(rows, IF Len(rows) > MaxSnapshots THEN Len(rows) - MaxSnapshots ELSE 1,
           Len(rows))

\* _trim_store: the most recent snapshots stay.
Newest(rows) ==
    SubSeq(rows, IF Len(rows) > MaxSnapshots THEN Len(rows) - MaxSnapshots + 1 ELSE 1,
           Len(rows))
Evicted(rows) == JobsOf(rows) \ JobsOf(Newest(rows))

\* _write on a dict, while the runtime's results become given ones.
WriteWith(s, j, status, given) ==
    LET rows == Touched(stores[s], j, status)
    IN  /\ stores' = [stores EXCEPT ![s] = Newest(rows)]
        /\ results' = given \ Evicted(rows)
Write(s, j, status) == WriteWith(s, j, status, results)

InQueue(j) == \E i \in DOMAIN queue : queue[i] = j
Pending(j) == InQueue(j) \/ work.job = j      \* its future is not done

Resting == [at |-> "idle", job |-> NoJob, reports |-> 0]
Ready == [at |-> "ready", job |-> NoJob, rows |-> <<>>]

Init ==
    /\ stores = [s \in Stores |-> <<>>]
    /\ kept = 0
    /\ bound = 0
    /\ queue = <<>>
    /\ futures = {}
    /\ events = {}
    /\ results = {}
    /\ signature = [j \in JobIds |-> NoSignature]
    /\ home = [j \in JobIds |-> NoStore]
    /\ raised = {}
    /\ work = Resting
    /\ ui = Ready
    /\ submitted = 0
    /\ reopens = 0
    /\ rollbacks = 0
    /\ inTime = {}

-----------------------------------------------------------------------------
(* The session's script: a manager for the project                         *)

Serving == ui.at = "ready" /\ bound # NoStore

\* activate_project shuts the project's services down; this one has no close,
\* so that its worker goes on.
LeaveProject ==
    /\ Serving
    /\ reopens < MaxReopens
    /\ reopens' = reopens + 1
    /\ bound' = NoStore
    /\ UNCHANGED <<stores, kept, runtime, jobsData, work, ui, submitted, rollbacks, inTime>>

\* __init__: _recover_snapshots lists the payloads of the store, ...
Construct ==
    /\ ui.at = "ready"
    /\ bound = NoStore
    /\ bound' = kept
    /\ ui' = [Ready EXCEPT !.at = "recover",
                 !.rows = Drop(stores[kept], [job : JobIds, status : Terminal])]
    /\ UNCHANGED <<stores, kept, runtime, jobsData, work, bounds, inTime>>

\* ... marks each active one without a future, under no lock, ...
RecoverRow ==
    LET j == Head(ui.rows).job
    IN  /\ ui.at = "recover"
        /\ ui.rows # <<>>
        /\ stores' = IF j \in futures THEN stores
                     ELSE [stores EXCEPT ![bound] = Touched(@, j, "orphaned")]
        /\ ui' = [ui EXCEPT !.rows = Tail(@)]
        /\ UNCHANGED <<kept, bound, runtime, jobsData, work, bounds, inTime>>

\* ... and trims.
RecoverTrim ==
    /\ ui.at = "recover"
    /\ ui.rows = <<>>
    /\ stores' = [stores EXCEPT ![bound] = Newest(@)]
    /\ results' = results \ Evicted(stores[bound])
    /\ ui' = Ready
    /\ UNCHANGED <<kept, bound, queue, futures, events, jobsData, work, bounds, inTime>>

\* The dispatcher copies the session state before a command ...
Dispatch ==
    /\ ui.at = "ready"
    /\ rollbacks < MaxRollbacks
    /\ ui' = [Ready EXCEPT !.at = "dispatch", !.rows = stores[kept]]
    /\ UNCHANGED <<session, runtime, jobsData, work, bounds, inTime>>

\* ... and puts the copy back when the command fails.  Managers stay: they are
\* in the registry, which is not copied.
Rollback ==
    /\ ui.at = "dispatch"
    /\ rollbacks' = rollbacks + 1
    /\ kept' = rollbacks'
    /\ stores' = [stores EXCEPT ![kept'] = ui.rows]
    /\ ui' = Ready
    /\ UNCHANGED <<bound, runtime, jobsData, work, submitted, reopens, inTime>>

-----------------------------------------------------------------------------
(* The session's script: calls of the manager                              *)

\* Mutant: a job that is being cancelled does not count as running.
SubmitIgnoringCancelling(sig) ==
    LET j == submitted + 1
    IN  /\ Serving
        /\ submitted < MaxSubmitted
        /\ \A i \in JobIds : signature[i] = sig =>
               ~Has(stores[bound], i, {"pending", "running"})
        /\ submitted' = j
        /\ signature' = [signature EXCEPT ![j] = sig]
        /\ home' = [home EXCEPT ![j] = bound]
        /\ events' = events \cup {j}
        /\ Write(bound, j, "pending")
        /\ queue' = Append(queue, j)
        /\ ui' = [Ready EXCEPT !.at = "register", !.job = j]
        /\ UNCHANGED <<kept, bound, futures, raised, work, reopens, rollbacks, inTime>>

\* submit: under the lock the request is checked and the snapshot written; then
\* the executor gets the work.
Submit(sig) ==
    LET j == submitted + 1
    IN  /\ Serving
        /\ submitted < MaxSubmitted
        /\ \A i \in JobIds : signature[i] = sig => ~Has(stores[bound], i, Active)
        /\ submitted' = j
        /\ signature' = [signature EXCEPT ![j] = sig]
        /\ home' = [home EXCEPT ![j] = bound]
        /\ events' = events \cup {j}
        /\ Write(bound, j, "pending")
        /\ queue' = Append(queue, j)
        /\ ui' = [Ready EXCEPT !.at = "register", !.job = j]
        /\ UNCHANGED <<kept, bound, futures, raised, work, reopens, rollbacks, inTime>>

\* The future is stored; if the worker is done already, the callback that is
\* added next discards it at once.
Register ==
    /\ ui.at = "register"
    /\ futures' = IF Pending(ui.job) THEN futures \cup {ui.job} ELSE futures
    /\ ui' = Ready
    /\ UNCHANGED <<session, queue, events, results, jobsData, work, bounds, inTime>>

\* The run has not looked at its event for the last time.
Undecided(j) ==
    \/ InQueue(j)
    \/ work.job = j /\ work.at \in {"start", "check", "work", "last"}

\* Mutant: cancel does not look whether the job has ended.
CancelEnded(j) ==
    /\ Serving
    /\ j \in JobsOf(stores[bound])
    /\ raised' = IF j \in events THEN raised \cup {j} ELSE raised
    /\ Write(bound, j, "cancelling")
    /\ inTime' = IF Undecided(j) THEN inTime \cup {j} ELSE inTime
    /\ UNCHANGED <<kept, bound, queue, futures, events, signature, home, work, ui, bounds>>

\* Mutant: work that is withdrawn is left to the worker to report.
CancelLeavesStatus(j) ==
    /\ Serving
    /\ Has(stores[bound], j, Active)
    /\ raised' = IF j \in events THEN raised \cup {j} ELSE raised
    /\ Write(bound, j, "cancelling")
    /\ IF j \in futures /\ InQueue(j)
       THEN /\ queue' = Drop(queue, {j})
            /\ futures' = futures \ {j}
       ELSE UNCHANGED <<queue, futures>>
    /\ inTime' = IF Undecided(j) THEN inTime \cup {j} ELSE inTime
    /\ UNCHANGED <<kept, bound, events, signature, home, work, ui, bounds>>

\* cancel: work the executor has not taken is withdrawn, other work is asked to
\* stop.
Cancel(j) ==
    /\ Serving
    /\ Has(stores[bound], j, Active)
    /\ raised' = IF j \in events THEN raised \cup {j} ELSE raised
    /\ IF j \in futures /\ InQueue(j)
       THEN /\ queue' = Drop(queue, {j})
            /\ futures' = futures \ {j}
            /\ Write(bound, j, "cancelled")
       ELSE /\ Write(bound, j, "cancelling")
            /\ UNCHANGED <<queue, futures>>
    /\ inTime' = IF Undecided(j) THEN inTime \cup {j} ELSE inTime
    /\ UNCHANGED <<kept, bound, events, signature, home, work, ui, bounds>>

\* pop_result: the page takes the file, stores it in its cache ...
PopResult(j) ==
    /\ Serving
    /\ Has(stores[bound], j, {"completed"})
    /\ j \in results
    /\ results' = results \ {j}
    /\ ui' = [Ready EXCEPT !.at = "dismiss", !.job = j]
    /\ UNCHANGED <<session, queue, futures, events, jobsData, work, bounds, inTime>>

Forget(removed) ==
    /\ stores' = [stores EXCEPT ![bound] = Drop(@, RowsOf(removed))]
    /\ results' = results \ removed
    /\ futures' = futures \ removed
    /\ events' = events \ removed

\* ... and dismisses the job.  The page also offers dismissal, alone or before a
\* retry, for every job that ended but a completed one with its file.
Dismiss(j) ==
    /\ bound # NoStore
    /\ \/ ui.at = "dismiss" /\ ui.job = j
       \/ /\ ui.at = "ready"
          /\ ~(Has(stores[bound], j, {"completed"}) /\ j \in results)
    /\ Has(stores[bound], j, Terminal)
    /\ Forget({j})
    /\ ui' = Ready
    /\ UNCHANGED <<kept, bound, queue, jobsData, work, bounds, inTime>>

\* Mutant: the bulk cleanup does not preserve results.
DismissTerminalAll ==
    LET removed == {j \in JobIds : Has(stores[bound], j, Terminal)}
    IN  /\ Serving
        /\ Forget(removed)
        /\ UNCHANGED <<kept, bound, queue, jobsData, work, ui, bounds, inTime>>

\* dismiss_terminal, which preserves results that were not handed over.
DismissTerminal ==
    LET removed == {j \in JobIds : Has(stores[bound], j, Terminal) /\ j \notin results}
    IN  /\ Serving
        /\ Forget(removed)
        /\ UNCHANGED <<kept, bound, queue, jobsData, work, ui, bounds, inTime>>

-----------------------------------------------------------------------------
(* The worker: _run                                                        *)

Known == work.job \in JobsOf(stores[home[work.job]])     \* else _read raises
Goto(label) == work' = [work EXCEPT !.at = label]

Take ==
    /\ work.at = "idle"
    /\ queue # <<>>
    /\ work' = [Resting EXCEPT !.at = "start", !.job = Head(queue)]
    /\ queue' = Tail(queue)
    /\ UNCHANGED <<session, futures, events, results, jobsData, ui, bounds, inTime>>

\* A snapshot that was evicted ends the run before its try block.
Start ==
    /\ work.at = "start"
    /\ IF Known
       THEN /\ Write(home[work.job], work.job, "running")
            /\ Goto("check")
       ELSE /\ Goto("settle")
            /\ UNCHANGED <<stores, results>>
    /\ UNCHANGED <<kept, bound, queue, futures, events, jobsData, ui, bounds, inTime>>

\* check_cancelled
Check ==
    /\ work.at = "check"
    /\ Goto(IF work.job \in raised THEN "cancelled" ELSE "work")
    /\ UNCHANGED <<session, runtime, jobsData, ui, bounds, inTime>>

\* report: nothing for a job that ended; else the progress, and a check.
Report ==
    LET s == home[work.job]
    IN  /\ work.at = "work"
        /\ work.reports < MaxReports
        /\ IF ~Known
           THEN Goto("failed") /\ UNCHANGED <<stores, results>>
           ELSE IF Has(stores[s], work.job, Terminal)
           THEN work' = [work EXCEPT !.reports = @ + 1] /\ UNCHANGED <<stores, results>>
           ELSE /\ Write(s, work.job, IF work.job \in raised THEN "cancelling" ELSE "running")
                /\ work' = [work EXCEPT !.at = "check", !.reports = @ + 1]
        /\ UNCHANGED <<kept, bound, queue, futures, events, jobsData, ui, bounds, inTime>>

WorkReturns ==
    /\ work.at = "work"
    /\ Goto("last")
    /\ UNCHANGED <<session, runtime, jobsData, ui, bounds, inTime>>

WorkRaises ==
    /\ work.at = "work"
    /\ Goto("failed")
    /\ UNCHANGED <<session, runtime, jobsData, ui, bounds, inTime>>

\* Mutant: the work is trusted to have checked.
LastCheckSkipped ==
    /\ work.at = "last"
    /\ Goto("completed")
    /\ UNCHANGED <<session, runtime, jobsData, ui, bounds, inTime>>

LastCheck ==
    /\ work.at = "last"
    /\ Goto(IF work.job \in raised THEN "cancelled" ELSE "completed")
    /\ UNCHANGED <<session, runtime, jobsData, ui, bounds, inTime>>

\* Mutant: the result is stored however the work ended.
EndStoresAnyResult ==
    LET j == work.job
        found == results \cup {j}
    IN  /\ work.at \in {"cancelled", "failed", "completed"}
        /\ IF Known THEN WriteWith(home[j], j, work.at, found)
                    ELSE results' = found /\ UNCHANGED stores
        /\ Goto("pop")
        /\ UNCHANGED <<kept, bound, queue, futures, events, jobsData, ui, bounds, inTime>>

\* The three ways out of the try block; the result is stored first.
End ==
    LET j == work.job
        found == IF work.at = "completed" THEN results \cup {j} ELSE results
    IN  /\ work.at \in {"cancelled", "failed", "completed"}
        /\ IF Known THEN WriteWith(home[j], j, work.at, found)
                    ELSE results' = found /\ UNCHANGED stores
        /\ Goto("pop")
        /\ UNCHANGED <<kept, bound, queue, futures, events, jobsData, ui, bounds, inTime>>

PopEvent ==
    /\ work.at = "pop"
    /\ events' = events \ {work.job}
    /\ Goto("settle")
    /\ UNCHANGED <<session, queue, futures, results, jobsData, ui, bounds, inTime>>

\* The future is done: its callback discards it.
Settle ==
    /\ work.at = "settle"
    /\ futures' = futures \ {work.job}
    /\ work' = Resting
    /\ UNCHANGED <<session, queue, events, results, jobsData, ui, bounds, inTime>>

-----------------------------------------------------------------------------

Worker ==
    \/ Take \/ Start \/ Check \/ Report \/ WorkReturns \/ WorkRaises \/ LastCheck
    \/ End \/ PopEvent \/ Settle

\* What the script does of itself.
Script ==
    \/ Register \/ RecoverRow \/ RecoverTrim \/ Rollback
    \/ ui.at = "dismiss" /\ Dismiss(ui.job)

User ==
    \/ Construct \/ LeaveProject \/ Dispatch \/ DismissTerminal
    \/ \E sig \in Signatures : Submit(sig)
    \/ \E j \in JobIds : Cancel(j) \/ PopResult(j) \/ Dismiss(j)

Next == Worker \/ Script \/ User

Spec == Init /\ [][Next]_vars

\* Threads are scheduled, and the work of an export ends.
Fairness == WF_vars(Worker) /\ WF_vars(Script)
FairSpec == Spec /\ Fairness

-----------------------------------------------------------------------------
(* Properties                                                              *)

Works == [at : {"idle", "start", "check", "work", "last", "cancelled", "failed",
                "completed", "pop", "settle"},
          job : JobIds \cup {NoJob}, reports : 0..MaxReports]
Uis == [at : {"ready", "register", "recover", "dispatch", "dismiss"},
        job : JobIds \cup {NoJob}, rows : AllRows]

\* Every variable keeps its type, and a store that is in use never holds more
\* rows than _trim_store allows.
TypeOK ==
    /\ stores \in [Stores -> AllRows]
    /\ \A s \in Stores : s # bound \/ ui.at # "recover" => Len(stores[s]) <= MaxSnapshots
    /\ kept \in Stores
    /\ bound \in Stores \cup {NoStore}
    /\ queue \in Seq(JobIds)
    /\ futures \subseteq JobIds /\ events \subseteq JobIds /\ results \subseteq JobIds
    /\ signature \in [JobIds -> Signatures \cup {NoSignature}]
    /\ home \in [JobIds -> Stores \cup {NoStore}]
    /\ raised \subseteq JobIds
    /\ work \in Works
    /\ ui \in Uis
    /\ submitted \in 0..MaxSubmitted
    /\ reopens \in 0..MaxReopens
    /\ rollbacks \in 0..MaxRollbacks
    /\ inTime \subseteq JobIds

\* A cancel call that came before the run's last look at its event is honoured,
\* wherever the run was: the job does not complete and leaves no file.
CancelWins ==
    \A j \in inTime : j \notin results /\ \A s \in Stores : ~Has(stores[s], j, {"completed"})

\* A request is worked on once at a time: no two jobs of one signature are
\* queued or running together, a cancelled one that has not stopped included.
Working(j) == InQueue(j) \/ (work.job = j /\ work.at \notin {"pop", "settle"})
OneRunPerRequest ==
    \A i, j \in JobIds :
        Working(i) /\ Working(j) /\ signature[i] = signature[j] => i = j

\* The end of a job is final: no thread writes over it.
EndIsFinal ==
    [][\A s \in Stores, j \in JobIds : Has(stores[s], j, Terminal) =>
          \A i \in DOMAIN stores'[s] :
              stores'[s][i].job = j => Has(stores[s], j, {stores'[s][i].status})]_vars

\* The page can get at every file that was made: it belongs to a completed job
\* in the list, so that it can be handed over or thrown away.
ResultsClaimable ==
    \A j \in results : work.job = j \/ Has(stores[home[j]], j, {"completed"})

\* A file leaves the runtime only into the page, or with the oldest snapshots.
ResultsHandedOver ==
    [][\A j \in results : j \notin results' =>
          \/ ui'.at = "dismiss" /\ ui'.job = j
          \/ submitted' # submitted]_vars

\* A job the page lists as active ends, and frees its request.
JobSettles ==
    \A j \in JobIds : (bound # NoStore /\ Has(stores[bound], j, Active))
                      ~> (bound = NoStore \/ ~Has(stores[bound], j, Active))

=============================================================================
