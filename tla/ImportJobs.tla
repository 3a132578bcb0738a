----------------------------- MODULE ImportJobs -----------------------------
(***************************************************************************)
(* Background imports: core/data_platform/import_jobs.py, the loop of      *)
(* run_batch_import that it runs, and the import wizard that drives it.    *)
(*                                                                         *)
(* An ImportJobManager keeps its jobs in memory under one lock and writes  *)
(* all of them to imports/jobs.json after each change; a job that ends is  *)
(* also appended to imports/history.jsonl.  One worker thread takes the    *)
(* jobs in order.  A session of the application (a browser tab) has its    *)
(* own manager on the same files, and one thread that serves its user.     *)
(* A change of project, well, LAS file or workspace drops the manager of   *)
(* its session and nothing stops it: its worker runs what it was given     *)
(* beside the manager that is built at the next use.                       *)
(* Each action is what one thread does under one acquisition of the lock,  *)
(* or one file system step outside it; a crash stops every thread.         *)
(***************************************************************************)
EXTENDS Integers, Sequences, FiniteSets

CONSTANTS
    Managers,        \* manager objects; one that is gone gives its name to a new one
    MaxOpen,         \* managers in use at once: one for each browser tab
    Files,           \* uploaded files, under the fresh names the wizard gives them
    NoJob,
    MaxSubmitted,    \* bound: jobs submitted in a behaviour
    MaxJobs,         \* jobs a manager keeps before it trims
    KeepLatest,      \* rows a pruned history keeps whatever their age
    MaxCrashes,      \* bound: crashes in a behaviour
    MaxFailures      \* bound: calls that raise (disk full, file in use)

JobIds == 1..MaxSubmitted    \* in the order of submission

ASSUME ImportAssumption ==
    /\ MaxSubmitted \in Nat /\ MaxJobs \in Nat \ {0} /\ KeepLatest \in Nat
    /\ Managers # {} /\ MaxOpen \in Nat /\ MaxCrashes \in Nat /\ MaxFailures \in Nat
    /\ NoJob \notin JobIds

Terminal == {"completed", "failed", "cancelled", "interrupted"}
Active == {"queued", "running", "cancel_requested"}

VARIABLES
    \* on the disk
    jobsFile,    \* imports/jobs.json: status of each listed job
    history,     \* imports/history.jsonl
    staged,      \* files in imports/staging
    \* snapshots: what never changes once it is set
    sources,     \* source_paths of a job
    failed,      \* the failed items of a completed job's result
    \* in memory
    manager,     \* down, recovering (in the constructor), up, or left by its session
    jobs,        \* _jobs of each manager
    queue,       \* futures its worker has not taken yet
    work,        \* the worker thread
    ui,          \* the thread that serves the session's user
    \* bookkeeping of the model
    submitted, crashes, failures,
    asked,       \* where a cancel call found the worker with a job: "no" call yet, or
                 \* not at the job; at an "item"; "between" items
    late,        \* items a job imported after that answer
    overlapped   \* a manager was built while another was in use or at work

disk == <<jobsFile, history, staged>>
faults == <<crashes, failures>>
ghosts == <<asked, late, overlapped>>
vars == <<jobsFile, history, staged, sources, failed, manager, jobs, queue, work, ui,
          submitted, crashes, failures, asked, late, overlapped>>

NoStatus == [j \in JobIds |-> "none"]
Idle == [at |-> "idle", job |-> NoJob, todo |-> {}, bad |-> {}, verdict |-> "none"]
Ready == [at |-> "ready", files |-> {}, job |-> NoJob, rows |-> <<>>]

Line(j, status) == [job |-> j, status |-> status]
Listed(m) == {j \in JobIds : jobs[m][j] # "none"}
Ended(m) == {j \in JobIds : jobs[m][j] \in Terminal}
ActiveSources(m) == UNION {sources[j] : j \in {i \in JobIds : jobs[m][i] \in Active}}

\* A manager that was left has a worker all the same, until its queue is empty.
Alive(m) == manager[m] \in {"up", "left"}
Gone(m) ==
    \/ manager[m] = "down"
    \/ manager[m] = "left" /\ queue[m] = <<>> /\ work[m].at = "idle"

\* The user's thread holds the lock of its manager while it appends to history.
Unlocked(m) == Alive(m) /\ ui[m].at # "append"

Failing == failures < MaxFailures /\ failures' = failures + 1

Init ==
    /\ jobsFile = NoStatus
    /\ history = <<>>
    /\ staged = {}
    /\ sources = [j \in JobIds |-> {}]
    /\ failed = [j \in JobIds |-> {}]
    /\ manager = [m \in Managers |-> "down"]
    /\ jobs = [m \in Managers |-> NoStatus]
    /\ queue = [m \in Managers |-> <<>>]
    /\ work = [m \in Managers |-> Idle]
    /\ ui = [m \in Managers |-> Ready]
    /\ submitted = 0
    /\ crashes = 0
    /\ failures = 0
    /\ asked = [j \in JobIds |-> "no"]
    /\ late = [j \in JobIds |-> 0]
    /\ overlapped = FALSE

-----------------------------------------------------------------------------
(* Starting: _recover_interrupted_jobs                                     *)

Unrecovered(m) == {j \in JobIds : jobs[m][j] \in Active}

\* The constructor knows nothing of the other managers of the process.
Boot(m) ==
    /\ Gone(m)
    /\ Cardinality({n \in Managers : manager[n] \in {"recovering", "up"}}) < MaxOpen
    /\ overlapped' = (overlapped \/ \E n \in Managers \ {m} : ~Gone(n))
    /\ jobs' = [jobs EXCEPT ![m] = jobsFile]
    /\ manager' = [manager EXCEPT ![m] =
          IF \E j \in JobIds : jobsFile[j] \in Active THEN "recovering" ELSE "up"]
    /\ UNCHANGED <<disk, sources, failed, queue, work, ui, submitted, faults, asked, late>>

\* Mutant: an interrupted job is also handed to the executor again.
RecoverJobResumes(m, j) ==
    /\ manager[m] = "recovering"
    /\ j \in Unrecovered(m)
    /\ \A i \in Unrecovered(m) : j <= i
    /\ history' = Append(history, Line(j, "interrupted"))
    /\ jobs' = [jobs EXCEPT ![m][j] = "interrupted"]
    /\ queue' = [queue EXCEPT ![m] = Append(@, j)]
    /\ UNCHANGED <<jobsFile, staged, sources, failed, manager, work, ui, submitted,
                   faults, ghosts>>

RecoverJob(m, j) ==
    /\ manager[m] = "recovering"
    /\ j \in Unrecovered(m)
    /\ \A i \in Unrecovered(m) : j <= i
    /\ history' = Append(history, Line(j, "interrupted"))
    /\ jobs' = [jobs EXCEPT ![m][j] = "interrupted"]
    /\ UNCHANGED <<jobsFile, staged, sources, failed, manager, queue, work, ui, submitted,
                   faults, ghosts>>

RecoverPersist(m) ==
    /\ manager[m] = "recovering"
    /\ Unrecovered(m) = {}
    /\ jobsFile' = jobs[m]
    /\ manager' = [manager EXCEPT ![m] = "up"]
    /\ UNCHANGED <<history, staged, sources, failed, jobs, queue, work, ui, submitted,
                   faults, ghosts>>

\* Appending to the history or writing jobs.json raises: no manager is built.
RecoverRaises(m) ==
    /\ Failing
    /\ manager[m] = "recovering"
    /\ manager' = [manager EXCEPT ![m] = "down"]
    /\ jobs' = [jobs EXCEPT ![m] = NoStatus]
    /\ UNCHANGED <<disk, sources, failed, queue, work, ui, submitted, crashes, ghosts>>

\* A change of project, well, LAS file or workspace, or the end of a browser
\* session: the service that owns the manager is forgotten, not stopped.
Leave(m) ==
    /\ manager[m] = "up"
    /\ ui[m].at \in {"ready", "submit"}
    /\ manager' = [manager EXCEPT ![m] = "left"]
    /\ ui' = [ui EXCEPT ![m] = Ready]
    /\ UNCHANGED <<disk, sources, failed, jobs, queue, work, submitted, faults, ghosts>>

-----------------------------------------------------------------------------
(* The user's thread                                                       *)

\* The wizard writes an upload under a name nobody used.
Upload(m, f) ==
    /\ manager[m] = "up"
    /\ ui[m].at \in {"ready", "submit"}
    /\ f \notin staged
    /\ \A j \in JobIds : f \notin sources[j]
    /\ \A n \in Managers : f \notin ui[n].files
    /\ staged' = staged \cup {f}
    /\ ui' = [ui EXCEPT ![m] = [@ EXCEPT !.at = "submit", !.files = ui[m].files \cup {f}]]
    /\ UNCHANGED <<jobsFile, history, sources, failed, manager, jobs, queue, work,
                   submitted, faults, ghosts>>

\* retry_failed and resume_interrupted: the files that still exist, to submit.
Retry(m, j) ==
    LET again == staged \cap (IF jobs[m][j] = "interrupted" THEN sources[j] ELSE failed[j])
    IN  /\ manager[m] = "up"
        /\ ui[m].at = "ready"
        /\ jobs[m][j] \in Terminal
        /\ again # {}
        /\ ui' = [ui EXCEPT ![m] = [Ready EXCEPT !.at = "submit", !.files = again]]
        /\ UNCHANGED <<disk, sources, failed, manager, jobs, queue, work, submitted,
                       faults, ghosts>>

\* _trim_locked: the oldest jobs that ended, down to MaxJobs.
Excess(m) == Cardinality(Listed(m)) + 1 - MaxJobs
Trimmed(m) ==
    {j \in Ended(m) : Cardinality({i \in Ended(m) : i < j}) < Excess(m)}

\* The table with a new job, and without those that make room for it.
Listing(m, j) ==
    [i \in JobIds |-> IF i = j THEN "queued" ELSE IF i \in Trimmed(m) THEN "none" ELSE jobs[m][i]]

Submit(m) ==
    LET j == submitted + 1
    IN  /\ manager[m] = "up"
        /\ ui[m].at = "submit"
        /\ submitted < MaxSubmitted
        /\ submitted' = j
        /\ sources' = [sources EXCEPT ![j] = ui[m].files]
        /\ jobs' = [jobs EXCEPT ![m] = Listing(m, j)]
        /\ jobsFile' = jobs'[m]
        /\ queue' = [queue EXCEPT ![m] = Append(@, j)]
        /\ ui' = [ui EXCEPT ![m] = Ready]
        /\ UNCHANGED <<history, staged, failed, manager, work, faults, ghosts>>

\* Writing jobs.json raises: the job is listed, and never reaches the executor.
\* A submission that trims writes twice, and the first write may have succeeded.
SubmitRaises(m) ==
    LET j == submitted + 1
    IN  /\ Failing
        /\ manager[m] = "up"
        /\ ui[m].at = "submit"
        /\ submitted < MaxSubmitted
        /\ submitted' = j
        /\ sources' = [sources EXCEPT ![j] = ui[m].files]
        /\ jobs' = [jobs EXCEPT ![m] = Listing(m, j)]
        /\ jobsFile' \in IF Trimmed(m) = {} THEN {jobsFile} ELSE {jobsFile, jobs'[m]}
        /\ ui' = [ui EXCEPT ![m] = Ready]
        /\ UNCHANGED <<history, staged, failed, manager, queue, work, crashes, ghosts>>

InQueue(m, j) == \E i \in DOMAIN queue[m] : queue[m][i] = j

\* The executor's queue without a job that is in it.
Withdraw(q, j) ==
    LET k == CHOOSE k \in DOMAIN q : q[k] = j
    IN  [i \in 1..Len(q) - 1 |-> IF i < k THEN q[i] ELSE q[i + 1]]

\* The future had not been taken: it is cancelled, and the job with it.
CancelQueued(m, j) ==
    /\ manager[m] = "up"
    /\ ui[m].at = "ready"
    /\ jobs[m][j] = "queued"
    /\ InQueue(m, j)
    /\ queue' = [queue EXCEPT ![m] = Withdraw(@, j)]
    /\ jobs' = [jobs EXCEPT ![m][j] = "cancelled"]
    /\ jobsFile' = jobs'[m]
    /\ ui' = [ui EXCEPT ![m] = [Ready EXCEPT !.at = "append", !.job = j]]
    /\ UNCHANGED <<history, staged, sources, failed, manager, work, submitted, faults,
                   ghosts>>

\* Mutant: the history line names the job the worker is at.
AppendCancelledWrongJob(m) ==
    /\ manager[m] = "up"
    /\ ui[m].at = "append"
    /\ history' = Append(history, Line(work[m].job, "cancelled"))
    /\ ui' = [ui EXCEPT ![m] = Ready]
    /\ UNCHANGED <<jobsFile, staged, sources, failed, manager, jobs, queue, work,
                   submitted, faults, ghosts>>

AppendCancelled(m) ==
    /\ manager[m] = "up"
    /\ ui[m].at = "append"
    /\ history' = Append(history, Line(ui[m].job, "cancelled"))
    /\ ui' = [ui EXCEPT ![m] = Ready]
    /\ UNCHANGED <<jobsFile, staged, sources, failed, manager, jobs, queue, work,
                   submitted, faults, ghosts>>

\* Mutant: cancel does not look whether the job has ended.
RequestCancelAny(m, j) ==
    /\ manager[m] = "up"
    /\ ui[m].at = "ready"
    /\ jobs[m][j] \notin {"none", "queued"}
    /\ jobs' = [jobs EXCEPT ![m][j] = "cancel_requested"]
    /\ jobsFile' = jobs'[m]
    /\ UNCHANGED <<history, staged, sources, failed, manager, queue, work, ui, submitted,
                   faults, ghosts>>

\* Otherwise the request is recorded for the runner to see.
RequestCancel(m, j) ==
    /\ manager[m] = "up"
    /\ ui[m].at = "ready"
    /\ jobs[m][j] \in Active
    /\ ~(jobs[m][j] = "queued" /\ InQueue(m, j))
    /\ jobs' = [jobs EXCEPT ![m][j] = "cancel_requested"]
    /\ jobsFile' = jobs'[m]
    /\ IF jobs[m][j] = "cancel_requested"
       THEN UNCHANGED <<asked, late>>
       ELSE /\ asked' = [asked EXCEPT ![j] =
                   IF work[m].job = j /\ work[m].at = "item" THEN "item"
                   ELSE IF work[m].job = j /\ work[m].at \in {"batch", "progress", "result"}
                   THEN "between" ELSE "no"]
            /\ late' = [late EXCEPT ![j] = 0]
    /\ UNCHANGED <<history, staged, sources, failed, manager, queue, work, ui, submitted,
                   faults, overlapped>>

\* Writing jobs.json raises: the call fails, the new status stays in memory.
CancelRaises(m, j) ==
    LET withdrawn == jobs[m][j] = "queued" /\ InQueue(m, j)
    IN  /\ Failing
        /\ manager[m] = "up"
        /\ ui[m].at = "ready"
        /\ jobs[m][j] \in Active
        /\ queue' = IF withdrawn THEN [queue EXCEPT ![m] = Withdraw(@, j)] ELSE queue
        /\ jobs' = [jobs EXCEPT ![m][j] =
              IF withdrawn THEN "cancelled" ELSE "cancel_requested"]
        /\ UNCHANGED <<disk, sources, failed, manager, work, ui, submitted, crashes,
                       ghosts>>

\* apply_retention_policy begins with the history: read it, ...
PruneRead(m) ==
    /\ manager[m] = "up"
    /\ ui[m].at = "ready"
    /\ history # <<>>
    /\ ui' = [ui EXCEPT ![m] = [Ready EXCEPT !.at = "rewrite", !.rows = history]]
    /\ UNCHANGED <<disk, sources, failed, manager, jobs, queue, work, submitted, faults,
                   ghosts>>

\* ... and replace it by the rows that are recent (any number of the last ones,
\* lines are in the order of time) and at least KeepLatest.
PruneReplace(m) ==
    LET n == Len(ui[m].rows)
    IN  /\ manager[m] = "up"
        /\ ui[m].at = "rewrite"
        /\ \E k \in 1..n + 1 :
              /\ n - k + 1 >= IF n < KeepLatest THEN n ELSE KeepLatest
              /\ history' = SubSeq(ui[m].rows, k, n)
        /\ ui' = [ui EXCEPT ![m] = [Ready EXCEPT !.at = "protect"]]
        /\ UNCHANGED <<jobsFile, staged, sources, failed, manager, jobs, queue, work,
                       submitted, faults, ghosts>>

\* Mutant: a job that is being cancelled no longer protects its files.
ProtectForgetsCancelling(m, includeTerminal) ==
    /\ manager[m] = "up"
    /\ ui[m].at \in {"ready", "protect"}
    /\ ui' = [ui EXCEPT ![m] = [Ready EXCEPT !.at = "list", !.files =
          UNION {sources[j] : j \in {i \in JobIds : jobs[m][i] \in {"queued", "running"}}}]]
    /\ UNCHANGED <<disk, sources, failed, manager, jobs, queue, work, submitted, faults,
                   ghosts>>

\* cleanup_staging, and the end of apply_retention_policy: collect what active
\* jobs (or all of them) refer to, list the directory, remove the rest.
Protect(m, includeTerminal) ==
    /\ manager[m] = "up"
    /\ ui[m].at \in {"ready", "protect"}
    /\ ui[m].at = "protect" => includeTerminal
    /\ ui' = [ui EXCEPT ![m] = [Ready EXCEPT !.at = "list", !.files =
          IF includeTerminal THEN ActiveSources(m)
          ELSE UNION {sources[j] : j \in Listed(m)}]]
    /\ UNCHANGED <<disk, sources, failed, manager, jobs, queue, work, submitted, faults,
                   ghosts>>

ListStaging(m) ==
    /\ manager[m] = "up"
    /\ ui[m].at = "list"
    /\ ui' = [ui EXCEPT ![m] = [@ EXCEPT !.at = "unlink", !.files = staged \ ui[m].files]]
    /\ UNCHANGED <<disk, sources, failed, manager, jobs, queue, work, submitted, faults,
                   ghosts>>

\* A file that is too young, or cannot be removed, stays.
Unlink(m, f) ==
    /\ manager[m] = "up"
    /\ ui[m].at = "unlink"
    /\ f \in ui[m].files
    /\ staged' \in {staged, staged \ {f}}
    /\ ui' = [ui EXCEPT ![m] = [@ EXCEPT !.files = ui[m].files \ {f}]]
    /\ UNCHANGED <<jobsFile, history, sources, failed, manager, jobs, queue, work,
                   submitted, faults, ghosts>>

CleanupDone(m) ==
    /\ manager[m] = "up"
    /\ ui[m].at = "unlink"
    /\ ui[m].files = {}
    /\ ui' = [ui EXCEPT ![m] = Ready]
    /\ UNCHANGED <<disk, sources, failed, manager, jobs, queue, work, submitted, faults,
                   ghosts>>

-----------------------------------------------------------------------------
(* The worker thread: _execute and run_batch_import                        *)

At(m, label) == Alive(m) /\ work[m].at = label
Step(m, label) == work' = [work EXCEPT ![m] = [@ EXCEPT !.at = label]]

\* The executor marks the future as running: cancelling it fails from now on.
Take(m) ==
    /\ At(m, "idle")
    /\ queue[m] # <<>>
    /\ work' = [work EXCEPT ![m] = [Idle EXCEPT !.at = "taken", !.job = Head(queue[m])]]
    /\ queue' = [queue EXCEPT ![m] = Tail(@)]
    /\ UNCHANGED <<disk, sources, failed, manager, jobs, ui, submitted, faults, ghosts>>

\* Mutant: a request that came before the first step is taken for an end.
BeginDropsRequested(m) ==
    LET j == work[m].job
        going == jobs[m][j] # "cancel_requested"
    IN  /\ At(m, "taken") /\ Unlocked(m)
        /\ jobs' = IF going THEN [jobs EXCEPT ![m][j] = "running"] ELSE jobs
        /\ jobsFile' = jobs'[m]
        /\ work' = [work EXCEPT ![m] = IF going THEN [@ EXCEPT !.at = "batch", !.todo = sources[j]]
                                       ELSE Idle]
        /\ UNCHANGED <<history, staged, sources, failed, manager, queue, ui, submitted,
                       faults, ghosts>>

\* Only "cancelled" stops the job here.
Begin(m) ==
    LET j == work[m].job
    IN  /\ At(m, "taken") /\ Unlocked(m)
        /\ jobs[m][j] # "cancelled"
        /\ jobs' = [jobs EXCEPT ![m][j] = "running"]
        /\ jobsFile' = jobs'[m]
        /\ work' = [work EXCEPT ![m] = [@ EXCEPT !.at = "batch", !.todo = sources[j]]]
        /\ UNCHANGED <<history, staged, sources, failed, manager, queue, ui, submitted,
                       faults, ghosts>>

\* Writing jobs.json raises before the try block: the future fails unseen.
BeginRaises(m) ==
    /\ Failing
    /\ At(m, "taken") /\ Unlocked(m)
    /\ jobs' = [jobs EXCEPT ![m][work[m].job] = "running"]
    /\ work' = [work EXCEPT ![m] = Idle]
    /\ UNCHANGED <<disk, sources, failed, manager, queue, ui, submitted, crashes, ghosts>>

\* should_cancel, asked before each item.
NextItem(m) ==
    /\ At(m, "batch") /\ Unlocked(m)
    /\ IF work[m].todo = {} \/ jobs[m][work[m].job] = "cancel_requested"
       THEN Step(m, "result")
       ELSE Step(m, "item")
    /\ UNCHANGED <<disk, sources, failed, manager, jobs, queue, ui, submitted, faults,
                   ghosts>>

\* One file is registered or fails; a file that is gone fails.
ImportItem(m, f) ==
    LET j == work[m].job
    IN  /\ At(m, "item")
        /\ f \in work[m].todo
        /\ \E bad \in {{}, {f}} :
              /\ bad = {} => f \in staged
              /\ work' = [work EXCEPT ![m] = [@ EXCEPT !.at = "progress",
                             !.todo = work[m].todo \ {f}, !.bad = work[m].bad \cup bad]]
        /\ late' = [late EXCEPT ![j] = IF asked[j] = "no" THEN 0 ELSE @ + 1]
        /\ UNCHANGED <<disk, sources, failed, manager, jobs, queue, ui, submitted, faults,
                       asked, overlapped>>

\* Mutant: progress is written into the snapshot taken when the job began.
ReportProgressStale(m) ==
    /\ At(m, "progress") /\ Unlocked(m)
    /\ jobs' = [jobs EXCEPT ![m][work[m].job] = "running"]
    /\ jobsFile' = jobs'[m]
    /\ Step(m, "batch")
    /\ UNCHANGED <<history, staged, sources, failed, manager, queue, ui, submitted,
                   faults, ghosts>>

\* progress_callback: a new percentage in the latest snapshot, and jobs.json.
ReportProgress(m) ==
    /\ At(m, "progress") /\ Unlocked(m)
    /\ jobsFile' = jobs[m]
    /\ Step(m, "batch")
    /\ UNCHANGED <<history, staged, sources, failed, manager, jobs, queue, ui, submitted,
                   faults, ghosts>>

\* The runner raises, or writing the progress does: the terminal snapshot says
\* failed.
RunnerRaises(m) ==
    /\ At(m, "progress")
    /\ work' = [work EXCEPT ![m] = [@ EXCEPT !.at = "terminal", !.verdict = "failed"]]
    /\ UNCHANGED <<disk, sources, failed, manager, jobs, queue, ui, submitted, faults,
                   ghosts>>

\* The runner returned: should_cancel decides what the terminal snapshot says.
Conclude(m) ==
    /\ At(m, "result") /\ Unlocked(m)
    /\ work' = [work EXCEPT ![m] = [@ EXCEPT !.at = "terminal", !.verdict =
          IF jobs[m][work[m].job] = "cancel_requested" THEN "cancelled" ELSE "completed"]]
    /\ UNCHANGED <<disk, sources, failed, manager, jobs, queue, ui, submitted, faults,
                   ghosts>>

\* Mutant: the end of a job is not written to jobs.json.
FinishUnpersisted(m) ==
    LET j == work[m].job
    IN  /\ At(m, "terminal") /\ Unlocked(m)
        /\ jobs' = [jobs EXCEPT ![m][j] = work[m].verdict]
        /\ failed' = [failed EXCEPT ![j] =
              IF work[m].verdict = "completed" THEN work[m].bad ELSE {}]
        /\ Step(m, "history")
        /\ UNCHANGED <<disk, sources, manager, queue, ui, submitted, faults, ghosts>>

Finish(m) ==
    LET j == work[m].job
    IN  /\ At(m, "terminal") /\ Unlocked(m)
        /\ jobs' = [jobs EXCEPT ![m][j] = work[m].verdict]
        /\ jobsFile' = jobs'[m]
        /\ failed' = [failed EXCEPT ![j] =
              IF work[m].verdict = "completed" THEN work[m].bad ELSE {}]
        /\ Step(m, "history")
        /\ UNCHANGED <<history, staged, sources, manager, queue, ui, submitted, faults,
                       ghosts>>

\* Writing jobs.json raises: the job has ended in memory, and nowhere else.
FinishRaises(m) ==
    LET j == work[m].job
    IN  /\ Failing
        /\ At(m, "terminal") /\ Unlocked(m)
        /\ jobs' = [jobs EXCEPT ![m][j] = work[m].verdict]
        /\ failed' = [failed EXCEPT ![j] =
              IF work[m].verdict = "completed" THEN work[m].bad ELSE {}]
        /\ work' = [work EXCEPT ![m] = Idle]
        /\ UNCHANGED <<disk, sources, manager, queue, ui, submitted, crashes, ghosts>>

AppendHistory(m) ==
    /\ At(m, "history")
    /\ history' = Append(history, Line(work[m].job, work[m].verdict))
    /\ work' = [work EXCEPT ![m] = Idle]
    /\ UNCHANGED <<jobsFile, staged, sources, failed, manager, jobs, queue, ui, submitted,
                   faults, ghosts>>

-----------------------------------------------------------------------------

\* The process ends, and every thread with it.
Crash ==
    /\ crashes < MaxCrashes
    /\ \E m \in Managers : manager[m] # "down"
    /\ crashes' = crashes + 1
    /\ manager' = [m \in Managers |-> "down"]
    /\ jobs' = [m \in Managers |-> NoStatus]
    /\ queue' = [m \in Managers |-> <<>>]
    /\ work' = [m \in Managers |-> Idle]
    /\ ui' = [m \in Managers |-> Ready]
    /\ UNCHANGED <<disk, sources, failed, submitted, failures, ghosts>>

Recovery(m) == (\E j \in JobIds : RecoverJob(m, j)) \/ RecoverPersist(m)

Worker(m) ==
    \/ Take(m) \/ Begin(m) \/ NextItem(m) \/ (\E f \in Files : ImportItem(m, f))
    \/ ReportProgress(m) \/ Conclude(m) \/ Finish(m) \/ AppendHistory(m)

\* What the user's thread does of itself once a call is made.
Serve(m) ==
    \/ AppendCancelled(m) \/ PruneReplace(m) \/ ListStaging(m)
    \/ (\E f \in Files : Unlink(m, f)) \/ CleanupDone(m)

User(m) ==
    \/ \E f \in Files : Upload(m, f)
    \/ \E j \in JobIds : Retry(m, j) \/ CancelQueued(m, j) \/ RequestCancel(m, j)
    \/ Submit(m)
    \/ PruneRead(m)
    \/ \E includeTerminal \in BOOLEAN : Protect(m, includeTerminal)

Next ==
    \/ \E m \in Managers :
          \/ Boot(m) \/ Recovery(m) \/ Leave(m) \/ Worker(m) \/ Serve(m) \/ User(m)
          \/ RecoverRaises(m) \/ SubmitRaises(m) \/ (\E j \in JobIds : CancelRaises(m, j))
          \/ BeginRaises(m) \/ RunnerRaises(m) \/ FinishRaises(m)
    \/ Crash

Spec == Init /\ [][Next]_vars

\* Threads are scheduled.
Fairness ==
    \A m \in Managers : WF_vars(Recovery(m)) /\ WF_vars(Worker(m)) /\ WF_vars(Serve(m))
FairSpec == Spec /\ Fairness

-----------------------------------------------------------------------------
(* Properties                                                              *)

Lines == [job : JobIds, status : Terminal]
Works == [at : {"idle", "taken", "batch", "item", "progress", "result", "terminal",
                "history"},
          job : JobIds \cup {NoJob}, todo : SUBSET Files, bad : SUBSET Files,
          verdict : {"none", "completed", "cancelled", "failed"}]
Uis == [at : {"ready", "submit", "append", "rewrite", "protect", "list", "unlink"},
        files : SUBSET Files, job : JobIds \cup {NoJob}, rows : Seq(Lines)]
Table == [JobIds -> Active \cup Terminal \cup {"none"}]

\* Every file and every field of the managers keeps its type.
TypeOK ==
    /\ jobsFile \in Table
    /\ history \in Seq(Lines)
    /\ staged \subseteq Files
    /\ sources \in [JobIds -> SUBSET Files]
    /\ failed \in [JobIds -> SUBSET Files]
    /\ manager \in [Managers -> {"down", "recovering", "up", "left"}]
    /\ jobs \in [Managers -> Table]
    /\ queue \in [Managers -> Seq(JobIds)]
    /\ work \in [Managers -> Works]
    /\ ui \in [Managers -> Uis]
    /\ submitted \in 0..MaxSubmitted
    /\ crashes \in 0..MaxCrashes
    /\ failures \in 0..MaxFailures
    /\ asked \in [JobIds -> {"no", "item", "between"}]
    /\ late \in [JobIds -> Nat]
    /\ overlapped \in BOOLEAN

Ledger == INSTANCE JobLedger WITH ledger <- jobsFile

\* jobs.json lists a job once, ends it once and forgets it only afterwards,
\* through every crash between a status change and its history line, and every
\* change of workspace once the worker has come to rest.  A write that raised,
\* and a manager built beside one that is at work, break the promise.
LedgerSpec == Ledger!Init /\ [][failures' = 0 /\ ~overlapped' => Ledger!Next]_jobsFile

\* The history never contradicts jobs.json, and never contradicts itself.
HistoryTruthful ==
    overlapped \/ \A a, b \in DOMAIN history :
        /\ history[a].job = history[b].job => history[a].status = history[b].status
        /\ jobsFile[history[a].job] \in Terminal =>
               history[a].status = jobsFile[history[a].job]

\* "After restart, an unfinished job becomes interrupted and is not silently
\* executed again": no thread works or is going to work on an interrupted job.
InterruptedIsOver ==
    overlapped \/ \A i \in DOMAIN history : history[i].status = "interrupted" =>
        \A m \in Managers : /\ work[m].job # history[i].job
                            /\ ~InQueue(m, history[i].job)

\* A cancel call that finds a job at work stops it: a file being imported is the
\* last, between two files there is no other, no progress report wipes the request
\* out and jobs.json never says that the job completed.  A cancel that comes before
\* the job's first step is overwritten by Begin.
RunningCancelStops ==
    overlapped \/ \A j \in JobIds :
        /\ asked[j] = "between" => late[j] = 0
        /\ asked[j] = "item" => late[j] <= 1
        /\ asked[j] \in {"item", "between"} => jobsFile[j] # "completed"

\* A file that is removed is one no active job refers to.
Spares ==
    \A m \in Managers, f \in staged : f \notin staged' /\ ~Gone(m) =>
        \A j \in JobIds : jobs[m][j] \in Active => f \notin sources[j]

\* The cleanup spares what the jobs of its own manager still need, whatever
\* becomes of them between its steps.
SourcesProtected == [][~overlapped => Spares]_vars

\* "Staging cleanup removes only files that are not referenced by active jobs",
\* those included that a manager is at work on which its session has left.
CleanupSparesActive == [][Spares]_vars

\* Every job the executor took in ends, whatever is cancelled or left meanwhile,
\* unless a write raised.
JobEnds ==
    \A m \in Managers : \A j \in JobIds :
        jobs[m][j] \in Active ~> jobs[m][j] \notin Active \/ failures > 0

=============================================================================
