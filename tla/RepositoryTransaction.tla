------------------------ MODULE RepositoryTransaction ------------------------
(***************************************************************************)
(* The multi-file transaction of core/repository_io.py.                    *)
(*                                                                         *)
(* AtomicJsonTransaction.commit keeps an undo journal: a directory with a  *)
(* backup of every file it will touch, the staged new contents and a       *)
(* manifest whose status goes prepared -> applying -> committed.  The      *)
(* directory is removed at the end.  AtomicJsonStore.recover_transactions  *)
(* rolls a journal it finds back, unless its manifest says committed.      *)
(*                                                                         *)
(* A session is a thread of the application that uses one repository root. *)
(* A crash stops all of them (they are threads of one process) and keeps   *)
(* what is on the disk.  Each action is one file system step of the code;  *)
(* os.replace is atomic, and so is everything done to files nobody else    *)
(* can see yet.                                                            *)
(***************************************************************************)
EXTENDS Integers, Sequences, FiniteSets

CONSTANTS
    Files, Contents, Absent, Batches,   \* as in AtomicUpdate
    Sessions,        \* threads of the application
    TxnIds,          \* names of journal directories (uuid4 in the code)
    NoTxn, NoJournal,
    MaxFaults,       \* bound: crashes, failed rollbacks and failed removals
    LazyRecovery,    \* TRUE: a session may edit files before anything has
                     \* called recover_transactions on this root
    RecoveryFaults,  \* TRUE: a rollback step may raise, and the removal of a journal
                     \* that is rolled back leave its manifest (locked file, full disk)
    LatePublishFault \* TRUE: _write_manifest may raise after its os.replace
                     \* (the fsync of the directory)

Values == Contents \cup {Absent}
Change == [file : Files, new : Values]

ASSUME ConstantsAssumption ==
    /\ Absent \notin Contents
    /\ NoTxn \notin TxnIds
    /\ MaxFaults \in Nat
    /\ LazyRecovery \in BOOLEAN /\ RecoveryFaults \in BOOLEAN
    /\ LatePublishFault \in BOOLEAN

\* commit raises on an empty batch and on two changes of one path.
ASSUME BatchesAssumption ==
    \A b \in Batches :
        /\ b \in Seq(Change)
        /\ Len(b) > 0
        /\ \A i, j \in 1..Len(b) : b[i].file = b[j].file => i = j

VARIABLES
    disk,        \* contents of the repository's files
    journals,    \* .repository_transactions: id -> journal directory; one that is
                 \* moved to quarantine leaves it and is not looked at again
    pc,          \* where each session is in commit or in a recovery
    goal,        \* what the recovery or the removal under way is part of
    batch,       \* self._changes of the transaction being committed
    cur,         \* the journal directory the session works on
    todo,        \* directories the loop of recover_transactions has left
    entries,     \* the manifest entries the session holds in memory
    pos,         \* index into batch or entries
    outcome,     \* what the last commit told its caller
    faults

vars == <<disk, journals, pc, goal, batch, cur, todo, entries, pos,
          outcome, faults>>
local == <<pc, goal, batch, cur, todo, entries, pos, outcome>>

Statuses == {"none", "prepared", "applying", "committed"}
Entry == [file : Files, before : Values, new : Values]

\* A journal directory.  status is "none" while there is no manifest.json;
\* backups and staged are the indices of the backup-NNNN.bin and
\* staged-NNNN.json files in it.
Journal == [status : Statuses, entries : Seq(Entry),
            backups : SUBSET Nat, staged : SUBSET Nat]

EmptyJournal == [status |-> "none", entries |-> <<>>, backups |-> {}, staged |-> {}]

Live == {t \in TxnIds : journals[t] # NoJournal}

\* Journals that a recovery would roll back.
Unfinished == {t \in Live : journals[t].status \in {"prepared", "applying"}}

\* _write_manifest: mkdir(parents=True, exist_ok=True) brings back a directory
\* that somebody removed, without its backups.
WithManifest(t, status, es) ==
    LET dir == IF t \in Live THEN journals[t] ELSE EmptyJournal
    IN  [journals EXCEPT ![t] = [dir EXCEPT !.status = status, !.entries = es]]

\* The checks the committed branch of _recover_transaction_dir makes.
PublishedIntact(t) ==
    \A i \in DOMAIN journals[t].entries :
        disk[journals[t].entries[i].file] = journals[t].entries[i].new

Init ==
    /\ disk \in [Files -> Values]
    /\ journals = [t \in TxnIds |-> NoJournal]
    /\ pc = [s \in Sessions |-> "down"]
    /\ goal = [s \in Sessions |-> "none"]
    /\ batch = [s \in Sessions |-> <<>>]
    /\ cur = [s \in Sessions |-> NoTxn]
    /\ todo = [s \in Sessions |-> {}]
    /\ entries = [s \in Sessions |-> <<>>]
    /\ pos = [s \in Sessions |-> 0]
    /\ outcome = [s \in Sessions |-> "none"]
    /\ faults = 0

-----------------------------------------------------------------------------
(* Control of a session.                                                   *)

Goto(s, label) == pc' = [pc EXCEPT ![s] = label]

StartRecovery(s, why, dirs) ==
    /\ pc' = [pc EXCEPT ![s] = "recover"]
    /\ goal' = [goal EXCEPT ![s] = why]
    /\ todo' = [todo EXCEPT ![s] = dirs]
    /\ cur' = [cur EXCEPT ![s] = NoTxn]

\* Mutant: the constructor does not recover.
OpenSkippingRecovery(s) ==
    /\ pc[s] = "down"
    /\ Goto(s, "idle")
    /\ UNCHANGED <<disk, journals, goal, batch, cur, todo, entries, pos,
                   outcome, faults>>

\* InterpretationRevisionRepository.__init__ recovers the root it opens.
Open(s) ==
    /\ pc[s] = "down"
    /\ StartRecovery(s, "open", Live)
    /\ UNCHANGED <<disk, journals, batch, entries, pos, outcome, faults>>

\* A screen that edits interval files never builds the revision repository.
OpenWithoutRecovery(s) ==
    /\ LazyRecovery
    /\ pc[s] = "down"
    /\ Goto(s, "idle")
    /\ UNCHANGED <<disk, journals, goal, batch, cur, todo, entries,
                   pos, outcome, faults>>

\* AtomicJsonStore.write and delete of one file, outside any transaction.
Edit(s, f, c) ==
    /\ pc[s] = "idle"
    /\ disk' = [disk EXCEPT ![f] = c]
    /\ UNCHANGED <<journals, local, faults>>

-----------------------------------------------------------------------------
(* AtomicJsonTransaction.commit                                            *)

\* The checks on the batch, then recover_transactions(root).
Begin(s, b) ==
    /\ pc[s] = "idle"
    /\ batch' = [batch EXCEPT ![s] = b]
    /\ outcome' = [outcome EXCEPT ![s] = "none"]
    /\ StartRecovery(s, "begin", Live)
    /\ UNCHANGED <<disk, journals, entries, pos, faults>>

\* A fresh uuid names no directory anybody still knows of.
MakeDir(s, t) ==
    /\ pc[s] = "mkdir"
    /\ t \notin Live
    /\ \A r \in Sessions : cur[r] # t /\ t \notin todo[r]
    /\ journals' = [journals EXCEPT ![t] = EmptyJournal]
    /\ cur' = [cur EXCEPT ![s] = t]
    /\ entries' = [entries EXCEPT ![s] = <<>>]
    /\ pos' = [pos EXCEPT ![s] = 1]
    /\ Goto(s, "stage")
    /\ UNCHANGED <<disk, goal, batch, todo, outcome, faults>>

\* Mutant: the new content is staged but the old one is not backed up.
StageWithoutBackup(s) ==
    LET change == batch[s][pos[s]]
    IN  /\ pc[s] = "stage"
        /\ pos[s] <= Len(batch[s])
        /\ cur[s] \in Live
        /\ journals' = [journals EXCEPT ![cur[s]].staged =
              @ \cup (IF change.new = Absent THEN {} ELSE {pos[s]})]
        /\ entries' = [entries EXCEPT ![s] = Append(@,
              [file |-> change.file, before |-> disk[change.file], new |-> change.new])]
        /\ pos' = [pos EXCEPT ![s] = @ + 1]
        /\ UNCHANGED <<disk, pc, goal, batch, cur, todo, outcome, faults>>

\* One round of the staging loop: read the target, back it up, stage the new
\* content.  Needs the directory to be there still.
Stage(s) ==
    LET change == batch[s][pos[s]]
        before == disk[change.file]
        dir == journals[cur[s]]
    IN  /\ pc[s] = "stage"
        /\ pos[s] <= Len(batch[s])
        /\ cur[s] \in Live
        /\ journals' = [journals EXCEPT ![cur[s]] = [dir EXCEPT
              !.backups = dir.backups \cup (IF before = Absent THEN {} ELSE {pos[s]}),
              !.staged = dir.staged \cup (IF change.new = Absent THEN {} ELSE {pos[s]})]]
        /\ entries' = [entries EXCEPT ![s] = Append(@,
              [file |-> change.file, before |-> before, new |-> change.new])]
        /\ pos' = [pos EXCEPT ![s] = @ + 1]
        /\ UNCHANGED <<disk, pc, goal, batch, cur, todo, outcome, faults>>

WritePrepared(s) ==
    /\ pc[s] = "stage"
    /\ pos[s] > Len(batch[s])
    /\ journals' = WithManifest(cur[s], "prepared", entries[s])
    /\ Goto(s, "prepared")
    /\ UNCHANGED <<disk, goal, batch, cur, todo, entries, pos, outcome,
                   faults>>

WriteApplying(s) ==
    /\ pc[s] = "prepared"
    /\ journals' = WithManifest(cur[s], "applying", entries[s])
    /\ pos' = [pos EXCEPT ![s] = 1]
    /\ Goto(s, "apply")
    /\ UNCHANGED <<disk, goal, batch, cur, todo, entries, outcome, faults>>

\* os.replace of the staged file, or unlink: only the former needs the journal.
Apply(s) ==
    LET e == entries[s][pos[s]]
    IN  /\ pc[s] = "apply"
        /\ pos[s] <= Len(entries[s])
        /\ \/ /\ e.new = Absent
              /\ UNCHANGED journals
           \/ /\ e.new # Absent
              /\ cur[s] \in Live
              /\ pos[s] \in journals[cur[s]].staged
              /\ journals' = [journals EXCEPT ![cur[s]].staged = @ \ {pos[s]}]
        /\ disk' = [disk EXCEPT ![e.file] = e.new]
        /\ pos' = [pos EXCEPT ![s] = @ + 1]
        /\ UNCHANGED <<pc, goal, batch, cur, todo, entries, outcome, faults>>

\* Mutant: committed is written before the last file is replaced.
WriteCommittedEarly(s) ==
    /\ pc[s] = "apply"
    /\ pos[s] >= Len(entries[s])
    /\ journals' = WithManifest(cur[s], "committed", entries[s])
    /\ goal' = [goal EXCEPT ![s] = "finish"]
    /\ Goto(s, "rmtree")
    /\ UNCHANGED <<disk, batch, cur, todo, entries, pos, outcome, faults>>

\* The commit point: the manifest says committed.
WriteCommitted(s) ==
    /\ pc[s] = "apply"
    /\ pos[s] > Len(entries[s])
    /\ journals' = WithManifest(cur[s], "committed", entries[s])
    /\ goal' = [goal EXCEPT ![s] = "finish"]
    /\ Goto(s, "rmtree")
    /\ UNCHANGED <<disk, batch, cur, todo, entries, pos, outcome, faults>>

\* Mutant: the except clause removes the journal without rolling it back.
CommitRaisesNoRollback(s) ==
    /\ pc[s] \in {"stage", "prepared", "apply"}
    /\ pc' = [pc EXCEPT ![s] = "rmtree"]
    /\ goal' = [goal EXCEPT ![s] = "rollback"]
    /\ UNCHANGED <<disk, journals, batch, cur, todo, entries, pos, outcome,
                   faults>>

\* An exception in commit's try block: its except clause recovers the
\* transaction's own directory, which does not exist if mkdir raised.
CommitRaises(s) ==
    /\ pc[s] \in {"stage", "prepared", "apply"}
    /\ pc' = [pc EXCEPT ![s] = "recover"]
    /\ goal' = [goal EXCEPT ![s] = "rollback"]
    /\ todo' = [todo EXCEPT ![s] = {cur[s]}]
    /\ UNCHANGED <<disk, journals, batch, cur, entries, pos, outcome,
                   faults>>

\* The exception is certain when a file the next step needs has been removed.
MustRaise(s) ==
    \/ pc[s] = "stage" /\ pos[s] <= Len(batch[s]) /\ cur[s] \notin Live
    \/ /\ pc[s] = "apply"
       /\ pos[s] <= Len(entries[s])
       /\ entries[s][pos[s]].new # Absent
       /\ cur[s] \in Live => pos[s] \notin journals[cur[s]].staged

\* Mutant: a failed mkdir is rolled back although there is no directory.
MakeDirRaisesRollsBack(s) ==
    /\ pc[s] = "mkdir"
    /\ StartRecovery(s, "rollback", {cur[s]})
    /\ UNCHANGED <<disk, journals, batch, entries, pos, outcome, faults>>

MakeDirRaises(s) ==
    /\ pc[s] = "mkdir"
    /\ Goto(s, "idle")
    /\ outcome' = [outcome EXCEPT ![s] = "raised"]
    /\ batch' = [batch EXCEPT ![s] = <<>>]
    /\ UNCHANGED <<disk, journals, goal, cur, todo, entries, pos,
                   faults>>

\* The committed manifest is in place when its directory's fsync raises.
PublishRaisesLate(s) ==
    /\ LatePublishFault
    /\ pc[s] = "apply"
    /\ pos[s] > Len(entries[s])
    /\ journals' = WithManifest(cur[s], "committed", entries[s])
    /\ pc' = [pc EXCEPT ![s] = "recover"]
    /\ goal' = [goal EXCEPT ![s] = "rollback"]
    /\ todo' = [todo EXCEPT ![s] = {cur[s]}]
    /\ UNCHANGED <<disk, batch, cur, entries, pos, outcome, faults>>

-----------------------------------------------------------------------------
(* recover_transactions and _recover_transaction_dir                       *)

\* The session is through with one directory.  A commit's own rollback or
\* cleanup ends the commit; the loop of recover_transactions goes on.
Leave(s, told) ==
    LET own == goal[s] \in {"rollback", "finish"}
    IN  /\ pc' = [pc EXCEPT ![s] = IF own THEN "idle" ELSE "recover"]
        /\ goal' = [goal EXCEPT ![s] = IF own THEN "none" ELSE @]
        /\ batch' = [batch EXCEPT ![s] = IF own THEN <<>> ELSE @]
        /\ outcome' = [outcome EXCEPT ![s] = IF own THEN told ELSE @]
        /\ cur' = [cur EXCEPT ![s] = NoTxn]
        /\ entries' = [entries EXCEPT ![s] = <<>>]
        /\ pos' = [pos EXCEPT ![s] = 0]

Took(s, t) == todo' = [todo EXCEPT ![s] = @ \ {t}]

\* The loop is over: a commit goes on, whatever recover_transactions counted.
RecoveryDone(s) ==
    /\ pc[s] = "recover"
    /\ todo[s] = {}
    /\ Goto(s, IF goal[s] = "begin" THEN "mkdir" ELSE "idle")
    /\ goal' = [goal EXCEPT ![s] = "none"]
    /\ UNCHANGED <<disk, journals, batch, cur, todo, entries, pos,
                   outcome, faults>>

\* Mutant: the loop tries a directory that vanished again.
VanishedRetry(s, t) ==
    /\ pc[s] = "recover"
    /\ t \in todo[s]
    /\ t \notin Live
    /\ UNCHANGED vars

\* Somebody removed the directory: moving it to quarantine raises.
Vanished(s, t) ==
    /\ pc[s] = "recover"
    /\ t \in todo[s]
    /\ t \notin Live
    /\ Took(s, t)
    /\ Leave(s, "raised")
    /\ UNCHANGED <<disk, journals, faults>>

\* No manifest yet, or published contents that are no longer there.
Quarantine(s, t) ==
    /\ pc[s] = "recover"
    /\ t \in todo[s]
    /\ t \in Live
    /\ \/ journals[t].status = "none"
       \/ journals[t].status = "committed" /\ ~PublishedIntact(t)
    /\ journals' = [journals EXCEPT ![t] = NoJournal]
    /\ Took(s, t)
    /\ Leave(s, "rolled_back")
    /\ UNCHANGED <<disk, faults>>

\* Mutant: the undo loop starts one entry short.
StartUndoOffByOne(s, t) ==
    /\ pc[s] = "recover"
    /\ t \in todo[s]
    /\ t \in Unfinished
    /\ Took(s, t)
    /\ cur' = [cur EXCEPT ![s] = t]
    /\ entries' = [entries EXCEPT ![s] = journals[t].entries]
    /\ pos' = [pos EXCEPT ![s] = Len(journals[t].entries) - 1]
    /\ Goto(s, "undo")
    /\ UNCHANGED <<disk, journals, goal, batch, outcome, faults>>

StartUndo(s, t) ==
    /\ pc[s] = "recover"
    /\ t \in todo[s]
    /\ t \in Unfinished
    /\ Took(s, t)
    /\ cur' = [cur EXCEPT ![s] = t]
    /\ entries' = [entries EXCEPT ![s] = journals[t].entries]
    /\ pos' = [pos EXCEPT ![s] = Len(journals[t].entries)]
    /\ Goto(s, "undo")
    /\ UNCHANGED <<disk, journals, goal, batch, outcome, faults>>

StartRemoval(s, t) ==
    /\ pc[s] = "recover"
    /\ t \in todo[s]
    /\ t \in Live
    /\ journals[t].status = "committed" /\ PublishedIntact(t)
    /\ Took(s, t)
    /\ cur' = [cur EXCEPT ![s] = t]
    /\ Goto(s, "rmtree")
    /\ UNCHANGED <<disk, journals, goal, batch, entries, pos, outcome,
                   faults>>

BackupThere(s) == cur[s] \in Live /\ pos[s] \in journals[cur[s]].backups

\* reversed(entries): copy the backup over the target, or unlink the target.
Undo(s) ==
    /\ pc[s] = "undo"
    /\ pos[s] > 0
    /\ entries[s][pos[s]].before = Absent \/ BackupThere(s)
    /\ disk' = [disk EXCEPT ![entries[s][pos[s]].file] = entries[s][pos[s]].before]
    /\ pos' = [pos EXCEPT ![s] = @ - 1]
    /\ UNCHANGED <<journals, pc, goal, batch, cur, todo, entries, outcome,
                   faults>>

\* A backup is missing: which raises if the directory is gone too.
UndoBlocked(s) ==
    /\ pc[s] = "undo"
    /\ pos[s] > 0
    /\ entries[s][pos[s]].before # Absent /\ ~BackupThere(s)
    /\ IF cur[s] \in Live
       THEN /\ journals' = [journals EXCEPT ![cur[s]] = NoJournal]
            /\ Leave(s, "rolled_back")
       ELSE /\ Leave(s, "raised")
            /\ UNCHANGED journals
    /\ UNCHANGED <<disk, todo, faults>>

\* recover_transactions counts the failure and leaves the journal for later.
UndoRaises(s) ==
    /\ RecoveryFaults /\ faults < MaxFaults
    /\ pc[s] = "undo"
    /\ faults' = faults + 1
    /\ Leave(s, "raised")
    /\ UNCHANGED <<disk, journals, todo>>

UndoDone(s) ==
    /\ pc[s] = "undo"
    /\ pos[s] = 0
    /\ Goto(s, "rmtree")
    /\ UNCHANGED <<disk, journals, goal, batch, cur, todo, entries, pos,
                   outcome, faults>>

-----------------------------------------------------------------------------
(* shutil.rmtree(transaction_dir, ignore_errors=True), file by file.       *)

RemoveFile(s) ==
    /\ pc[s] = "rmtree"
    /\ cur[s] \in Live
    /\ LET dir == journals[cur[s]]
       IN  \/ /\ dir.status # "none"
              /\ journals' = [journals EXCEPT
                    ![cur[s]] = [@ EXCEPT !.status = "none", !.entries = <<>>]]
           \/ \E i \in dir.backups :
                 journals' = [journals EXCEPT ![cur[s]].backups = @ \ {i}]
           \/ \E i \in dir.staged :
                 journals' = [journals EXCEPT ![cur[s]].staged = @ \ {i}]
    /\ UNCHANGED <<disk, local, faults>>

\* ignore_errors: what cannot be removed stays, and nobody is told.
RemovalFails(s) ==
    /\ faults < MaxFaults
    /\ pc[s] = "rmtree"
    /\ cur[s] \in Live
    /\ cur[s] \in Unfinished => RecoveryFaults
    /\ faults' = faults + 1
    /\ Leave(s, IF goal[s] = "finish" THEN "committed" ELSE "rolled_back")
    /\ UNCHANGED <<disk, journals, todo>>

\* The directory is empty and goes, or it was gone already.
RemoveDir(s) ==
    /\ pc[s] = "rmtree"
    /\ cur[s] \in Live => /\ journals[cur[s]].status = "none"
                         /\ journals[cur[s]].backups = {}
                         /\ journals[cur[s]].staged = {}
    /\ journals' = [t \in TxnIds |-> IF t = cur[s] THEN NoJournal ELSE journals[t]]
    /\ Leave(s, IF goal[s] = "finish" THEN "committed" ELSE "rolled_back")
    /\ UNCHANGED <<disk, todo, faults>>

\* scripts/repository_transaction_maintenance.py cleanup, in its own process.
CleanupCommitted(t) ==
    /\ t \in Live
    /\ journals[t].status = "committed" /\ PublishedIntact(t)
    /\ journals' = [journals EXCEPT ![t] = NoJournal]
    /\ UNCHANGED <<disk, local, faults>>

-----------------------------------------------------------------------------

\* The process dies: what its threads held in memory is lost.
Crash ==
    /\ faults < MaxFaults
    /\ \E s \in Sessions : pc[s] # "down"
    /\ faults' = faults + 1
    /\ pc' = [s \in Sessions |-> "down"]
    /\ goal' = [s \in Sessions |-> "none"]
    /\ batch' = [s \in Sessions |-> <<>>]
    /\ cur' = [s \in Sessions |-> NoTxn]
    /\ todo' = [s \in Sessions |-> {}]
    /\ entries' = [s \in Sessions |-> <<>>]
    /\ pos' = [s \in Sessions |-> 0]
    /\ outcome' = [s \in Sessions |-> "none"]
    /\ UNCHANGED <<disk, journals>>

Commit(s) ==
    \/ \E t \in TxnIds : MakeDir(s, t)
    \/ Stage(s) \/ WritePrepared(s) \/ WriteApplying(s) \/ Apply(s)
    \/ WriteCommitted(s)

Recover(s) ==
    \/ RecoveryDone(s)
    \/ \E t \in TxnIds : \/ Vanished(s, t) \/ Quarantine(s, t)
                         \/ StartUndo(s, t) \/ StartRemoval(s, t)
    \/ Undo(s) \/ UndoBlocked(s) \/ UndoDone(s)
    \/ RemoveFile(s) \/ RemoveDir(s)

Fail(s) ==
    \/ CommitRaises(s) \/ MakeDirRaises(s) \/ PublishRaisesLate(s)
    \/ UndoRaises(s) \/ RemovalFails(s)

Use(s) ==
    \/ OpenWithoutRecovery(s)
    \/ \E f \in Files, c \in Values : Edit(s, f, c)
    \/ \E b \in Batches : Begin(s, b)

Next ==
    \/ \E s \in Sessions : Open(s) \/ Commit(s) \/ Recover(s) \/ Fail(s) \/ Use(s)
    \/ \E t \in TxnIds : CleanupCommitted(t)
    \/ Crash

Spec == Init /\ [][Next]_vars

\* Threads are scheduled, and someone opens the application after a crash.
Fairness ==
    \A s \in Sessions :
        /\ WF_vars(Open(s))
        /\ WF_vars(Commit(s) \/ Recover(s) \/ (MustRaise(s) /\ CommitRaises(s)))
FairSpec == Spec /\ Fairness

-----------------------------------------------------------------------------
(* Properties                                                              *)

PCs == {"down", "idle", "recover", "mkdir", "stage", "prepared", "apply", "undo",
        "rmtree"}
Goals == {"none", "open", "begin", "rollback", "finish"}

\* Every file, journal directory and session variable keeps its type through
\* commit and recovery.
TypeOK ==
    /\ disk \in [Files -> Values]
    /\ journals \in [TxnIds -> Journal \cup {NoJournal}]
    /\ pc \in [Sessions -> PCs]
    /\ goal \in [Sessions -> Goals]
    /\ batch \in [Sessions -> Batches \cup {<<>>}]
    /\ cur \in [Sessions -> TxnIds \cup {NoTxn}]
    /\ todo \in [Sessions -> SUBSET TxnIds]
    /\ entries \in [Sessions -> Seq(Entry)]
    /\ pos \in [Sessions -> Nat]
    /\ outcome \in [Sessions -> {"none", "committed", "rolled_back", "raised"}]
    /\ faults \in 0..MaxFaults

RolledBack(es) == \A i \in DOMAIN es : disk[es[i].file] = es[i].before
BackedUp(es) == {i \in DOMAIN es : es[i].before # Absent}

\* An unfinished journal can be rolled back whenever the process dies: every
\* file it touches holds what it held before or what the transaction wrote,
\* and either all the backups a rollback needs are in the directory or the
\* rollback is complete and the directory is being removed.  This is what
\* lines 406-448 and 600-661 of repository_io.py keep up between them.
UndoInformation ==
    \A t \in Unfinished :
        LET es == journals[t].entries
        IN  /\ BackedUp(es) \subseteq journals[t].backups \/ RolledBack(es)
            /\ \A i \in DOMAIN es : disk[es[i].file] \in {es[i].before, es[i].new}

\* A rollback overwrites only what its own transaction wrote: content somebody
\* saved later is never replaced by an older backup.
UndoOnlyOwnWork ==
    [][\A s \in Sessions : pc[s] = "undo" /\ pos'[s] < pos[s] =>
          LET e == entries[s][pos[s]] IN disk[e.file] \in {e.before, e.new}]_vars

\* What commit tells its caller and the diagnostics is what happened to the
\* files: all of them new after "committed", all of them as before after
\* "rolled_back".
OutcomeTruthful ==
    [][\A s \in Sessions : outcome'[s] # outcome[s] =>
          /\ outcome'[s] = "committed" =>
                \A i \in DOMAIN batch[s] : disk'[batch[s][i].file] = batch[s][i].new
          /\ outcome'[s] = "rolled_back" =>
                \A i \in DOMAIN entries[s] :
                    disk'[entries[s][i].file] = entries[s][i].before]_vars

\* The contents a reader is entitled to: an unfinished journal does not count.
Logical ==
    IF Unfinished = {} THEN disk
    ELSE LET es == journals[CHOOSE t \in Unfinished : TRUE].entries
         IN  [f \in Files |->
                IF \E i \in DOMAIN es : es[i].file = f
                THEN es[CHOOSE i \in DOMAIN es : es[i].file = f].before
                ELSE disk[f]]

Abstract == INSTANCE AtomicUpdate WITH logical <- Logical, pending <- batch

\* Crashes, failed commits and recoveries at every step: the repository still
\* behaves as one whose batches take effect all at once and stay.
AllOrNothing == Abstract!Spec

\* Whatever another session or a crash does to its journal, a commit or a
\* recovery under way ends; in particular no thread waits for another one.
CommitEnds ==
    \A s \in Sessions : pc[s] \notin {"down", "idle"} ~> pc[s] \in {"down", "idle"}

=============================================================================
