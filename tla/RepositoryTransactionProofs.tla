--------------------- MODULE RepositoryTransactionProofs ---------------------
(***************************************************************************)
(* Proofs about RepositoryTransaction: a repository that one session uses, *)
(* and that is recovered before anything else touches it, is atomic for    *)
(* every set of files, contents and batches and any number of crashes.     *)
(***************************************************************************)
EXTENDS RepositoryTransaction, TLAPS

CONSTANT Main     \* the only session

ASSUME SingleSession == Sessions = {Main}
ASSUME RecoveredFirst == LazyRecovery = FALSE
ASSUME RollbacksSucceed == RecoveryFaults = FALSE   \* and their manifests can be removed
ASSUME NullJournal == NoJournal \notin Journal

Here(labels) == pc[Main] \in labels

DistinctFiles(es) ==
    \A i, j \in DOMAIN es : es[i].file = es[j].file => i = j

\* The entries of the journal are the changes of the batch staged so far.
Staged(b, es, n) ==
    /\ Len(es) = n
    /\ \A i \in 1..n : es[i].file = b[i].file /\ es[i].new = b[i].new

\* At most one journal is unfinished, and the session knows it.  Others may lie
\* about that could not be removed: without a manifest, or committed.
WhereJournalsAre ==
    /\ \A t, u \in Unfinished : t = u
    /\ Here({"idle", "mkdir"}) => Unfinished = {}
    /\ Here({"recover"}) => Unfinished \subseteq todo[Main]
    /\ Here({"stage", "prepared", "apply"}) => cur[Main] \in Live
    /\ Here({"stage", "prepared", "apply", "undo"}) => Unfinished \subseteq {cur[Main]}
    /\ Here({"rmtree"}) => Unfinished \subseteq {cur[Main]} \cup todo[Main]
    /\ Here({"rmtree"}) /\ goal[Main] \in {"rollback", "finish"} =>
           Unfinished \subseteq {cur[Main]}
    /\ Here({"recover"}) /\ goal[Main] \in {"rollback", "finish"} =>
           \A t, u \in todo[Main] : t = u

BatchKnown ==
    /\ Here({"mkdir", "stage", "prepared", "apply"}) \/ goal[Main] = "begin"
           => batch[Main] \in Batches
    /\ Here({"down", "idle"}) \/ goal[Main] = "open" => batch[Main] = <<>>
    /\ Here({"recover", "undo", "rmtree"}) <=> goal[Main] # "none"
    /\ Here({"recover"}) /\ goal[Main] # "open" /\ goal[Main] # "begin" =>
           todo[Main] # {}

Recoverable ==
    /\ \A t \in Unfinished : DistinctFiles(journals[t].entries)
    /\ UndoInformation

WhileStaging ==
    Here({"stage"}) =>
        LET es == entries[Main]  dir == journals[cur[Main]]
        IN  /\ pos[Main] \in 1..Len(batch[Main]) + 1
            /\ Staged(batch[Main], es, pos[Main] - 1)
            /\ RolledBack(es)
            /\ dir.status = "none"
            /\ BackedUp(es) \subseteq dir.backups

WhilePrepared ==
    Here({"prepared"}) =>
        LET es == entries[Main]  dir == journals[cur[Main]]
        IN  /\ Staged(batch[Main], es, Len(batch[Main]))
            /\ RolledBack(es)
            /\ dir.status = "prepared" /\ dir.entries = es
            /\ BackedUp(es) \subseteq dir.backups

WhileApplying ==
    Here({"apply"}) =>
        LET es == entries[Main]  dir == journals[cur[Main]]
        IN  /\ pos[Main] \in 1..Len(es) + 1
            /\ Staged(batch[Main], es, Len(batch[Main]))
            /\ \A i \in DOMAIN es :
                  disk[es[i].file] = IF i < pos[Main] THEN es[i].new ELSE es[i].before
            /\ dir.status = "applying" /\ dir.entries = es
            /\ BackedUp(es) \subseteq dir.backups

WhileUndoing ==
    Here({"undo"}) =>
        LET es == entries[Main]
        IN  /\ cur[Main] \in Unfinished
            /\ journals[cur[Main]].entries = es
            /\ pos[Main] \in 0..Len(es)
            /\ \A i \in DOMAIN es :
                  i > pos[Main] => disk[es[i].file] = es[i].before

WhileRemoving ==
    Here({"rmtree"}) /\ cur[Main] \in Unfinished =>
        RolledBack(journals[cur[Main]].entries)

\* The inductive invariant.
IInv ==
    /\ TypeOK
    /\ WhereJournalsAre
    /\ BatchKnown
    /\ Recoverable
    /\ WhileStaging
    /\ WhilePrepared
    /\ WhileApplying
    /\ WhileUndoing
    /\ WhileRemoving

-----------------------------------------------------------------------------
(* Facts about the operators                                               *)

USE DEF Here

\* A batch is not empty and each element is a change.
LEMMA BatchType ==
    ASSUME NEW b \in Batches
    PROVE  /\ b \in Seq(Change) /\ Len(b) \in Nat \ {0} /\ DOMAIN b = 1..Len(b)
           /\ \A i, j \in 1..Len(b) : b[i].file = b[j].file => i = j
BY BatchesAssumption

LEMMA LiveType ==
    ASSUME TypeOK, NEW t \in Live
    PROVE  t \in TxnIds /\ journals[t] \in Journal
BY DEF TypeOK, Live

\* Writing a manifest keeps the map of journals well formed.
LEMMA ManifestType ==
    ASSUME TypeOK, NEW t \in TxnIds \cup {NoTxn}, NEW status \in Statuses,
           NEW es \in Seq(Entry)
    PROVE  WithManifest(t, status, es) \in [TxnIds -> Journal \cup {NoJournal}]
<1>1. CASE t \in Live
  <2>1. [journals[t] EXCEPT !.status = status, !.entries = es] \in Journal
    BY <1>1, LiveType DEF Journal
  <2> QED
    BY <1>1, <2>1 DEF WithManifest, TypeOK
<1>2. CASE t \notin Live
  <2>1. [EmptyJournal EXCEPT !.status = status, !.entries = es] \in Journal
    BY DEF Journal, EmptyJournal
  <2> QED
    BY <1>2, <2>1 DEF WithManifest, TypeOK
<1> QED
  BY <1>1, <1>2

\* Writing a manifest into a directory that is there.
LEMMA ManifestEffect ==
    ASSUME TypeOK, NEW t \in Live, NEW status \in Statuses, NEW es \in Seq(Entry),
           journals' = WithManifest(t, status, es)
    PROVE  /\ journals'[t].status = status /\ journals'[t].entries = es
           /\ journals'[t].backups = journals[t].backups
           /\ \A u \in TxnIds : u # t => journals'[u] = journals[u]
           /\ Live' = Live
<1>1. journals[t] \in Journal /\ t \in TxnIds
  BY LiveType
<1>2. journals' = [journals EXCEPT ![t] =
                     [journals[t] EXCEPT !.status = status, !.entries = es]]
  BY DEF WithManifest
<1>3. journals'[t] = [journals[t] EXCEPT !.status = status, !.entries = es]
  BY <1>1, <1>2 DEF TypeOK
<1>4. journals'[t] \in Journal
  BY <1>1, <1>3 DEF Journal
<1>5. \A u \in TxnIds : u # t => journals'[u] = journals[u]
  BY <1>1, <1>2 DEF TypeOK
<1>6. journals'[t].status = status /\ journals'[t].entries = es
      /\ journals'[t].backups = journals[t].backups
  BY <1>1, <1>3 DEF Journal
<1>7. Live' = Live
  BY <1>1, <1>4, <1>5, NullJournal DEF Live
<1> QED
  BY <1>5, <1>6, <1>7

LEMMA InitIInv == Init => IInv
<1> SUFFICES ASSUME Init PROVE IInv
  OBVIOUS
<1>1. TypeOK
  BY ConstantsAssumption DEF Init, TypeOK, PCs, Goals, Values
<1>2. Live = {} /\ Unfinished = {}
  BY DEF Init, Live, Unfinished
<1>3. Main \in Sessions /\ pc[Main] = "down" /\ goal[Main] = "none" /\ batch[Main] = <<>>
  BY SingleSession DEF Init
<1> QED
  BY <1>1, <1>2, <1>3 DEF IInv, WhereJournalsAre, BatchKnown, Recoverable,
     UndoInformation, WhileStaging, WhilePrepared, WhileApplying, WhileUndoing,
     WhileRemoving

-----------------------------------------------------------------------------
(* Every action keeps the invariant                                        *)

\* Actions that change neither files nor journals keep Recoverable.
LEMMA RecoverableUnchanged ==
    ASSUME Recoverable, UNCHANGED <<disk, journals>>
    PROVE  Recoverable' /\ Live' = Live /\ Unfinished' = Unfinished
BY DEF Recoverable, UndoInformation, Live, Unfinished, BackedUp, RolledBack

LEMMA OpenKeeps == ASSUME IInv, Open(Main) PROVE IInv'
<1>1. Recoverable' /\ Live' = Live /\ Unfinished' = Unfinished
  BY RecoverableUnchanged DEF IInv, Open
<1>2. TypeOK'
  BY DEF IInv, Open, StartRecovery, Live, TypeOK, PCs, Goals
<1>3. Unfinished \subseteq Live
  BY DEF Unfinished
<1> QED
  BY <1>1, <1>2, <1>3, SingleSession DEF IInv, Open, StartRecovery, TypeOK, WhereJournalsAre, BatchKnown,
     WhileStaging, WhilePrepared, WhileApplying, WhileUndoing, WhileRemoving

LEMMA BeginKeeps ==
    ASSUME IInv, NEW b \in Batches, Begin(Main, b) PROVE IInv'
<1>1. Recoverable' /\ Live' = Live /\ Unfinished' = Unfinished
  BY RecoverableUnchanged DEF IInv, Begin
<1>2. TypeOK'
  BY DEF IInv, Begin, StartRecovery, Live, TypeOK, PCs, Goals
<1> QED
  BY <1>1, <1>2, SingleSession DEF IInv, Begin, StartRecovery, TypeOK, WhereJournalsAre, BatchKnown,
     WhileStaging, WhilePrepared, WhileApplying, WhileUndoing, WhileRemoving

LEMMA EditKeeps ==
    ASSUME IInv, NEW f \in Files, NEW c \in Values, Edit(Main, f, c) PROVE IInv'
<1>1. Unfinished = {} /\ Live' = Live /\ Unfinished' = {}
  BY DEF IInv, WhereJournalsAre, Edit, Live, Unfinished
<1>2. TypeOK'
  BY DEF IInv, Edit, local, TypeOK
<1> QED
  BY <1>1, <1>2, SingleSession DEF IInv, Edit, local, TypeOK, WhereJournalsAre, BatchKnown, Recoverable,
     UndoInformation, WhileStaging, WhilePrepared, WhileApplying, WhileUndoing, WhileRemoving

LEMMA RecoveryDoneKeeps == ASSUME IInv, RecoveryDone(Main) PROVE IInv'
<1>1. Recoverable' /\ Live' = Live /\ Unfinished' = Unfinished
  BY RecoverableUnchanged DEF IInv, RecoveryDone
<1>2. TypeOK'
  BY DEF IInv, RecoveryDone, Goto, TypeOK, PCs, Goals
<1> QED
  BY <1>1, <1>2, SingleSession DEF IInv, RecoveryDone, Goto, TypeOK, WhereJournalsAre, BatchKnown,
     WhileStaging, WhilePrepared, WhileApplying, WhileUndoing, WhileRemoving

LEMMA MakeDirKeeps ==
    ASSUME IInv, NEW t \in TxnIds, MakeDir(Main, t) PROVE IInv'
<1>1. EmptyJournal \in Journal
  BY DEF EmptyJournal, Journal, Statuses
<1>2. TypeOK'
  <2>1. entries' \in [Sessions -> Seq(Entry)]
    <3>1. <<>> \in Seq(Entry)
      OBVIOUS
    <3>2. entries \in [Sessions -> Seq(Entry)]
      BY DEF IInv, TypeOK
    <3>3. entries' = [entries EXCEPT ![Main] = <<>>]
      BY DEF MakeDir
    <3> QED
      BY <3>1, <3>2, <3>3
  <2>2. journals' \in [TxnIds -> Journal \cup {NoJournal}]
    BY <1>1 DEF IInv, MakeDir, TypeOK
  <2>3. cur' \in [Sessions -> TxnIds \cup {NoTxn}] /\ pos' \in [Sessions -> Nat]
    BY DEF IInv, MakeDir, TypeOK
  <2>4. pc' \in [Sessions -> PCs]
    BY DEF IInv, MakeDir, Goto, TypeOK, PCs
  <2> QED
    BY <2>1, <2>2, <2>3, <2>4 DEF IInv, MakeDir, TypeOK
<1>3. /\ t \in Live' /\ journals'[t] = EmptyJournal
      /\ \A u \in TxnIds : u # t => journals'[u] = journals[u]
  BY <1>1, NullJournal DEF IInv, TypeOK, MakeDir, Live
<1>4. Unfinished' = {}
  <2>1. Unfinished = {}
    BY DEF IInv, WhereJournalsAre, MakeDir
  <2> QED
    BY <1>3, <2>1 DEF Unfinished, Live, EmptyJournal
<1>5. Main \in Sessions /\ batch[Main] \in Batches
  BY SingleSession DEF IInv, BatchKnown, MakeDir
<1>6. WhereJournalsAre' /\ BatchKnown' /\ Recoverable'
  BY <1>3, <1>4, <1>5 DEF IInv, TypeOK, MakeDir, Goto, WhereJournalsAre, BatchKnown,
     Recoverable, UndoInformation
<1>7. WhileStaging'
  BY <1>3, <1>5, BatchType DEF IInv, TypeOK, MakeDir, Goto, WhileStaging, EmptyJournal,
     Staged, RolledBack, BackedUp
<1> QED
  BY <1>2, <1>4, <1>5, <1>6, <1>7 DEF IInv, TypeOK, MakeDir, Goto, WhilePrepared,
     WhileApplying, WhileUndoing, WhileRemoving

LEMMA StageKeeps == ASSUME IInv, Stage(Main) PROVE IInv'
<1> DEFINE b == batch[Main]
           i == pos[Main]
           before == disk[b[i].file]
           e == [file |-> b[i].file, before |-> before, new |-> b[i].new]
           t == cur[Main]
<1>1. /\ Main \in Sessions /\ b \in Batches /\ i \in 1..Len(b) /\ Len(b) \in Nat
      /\ pc[Main] = "stage" /\ t \in Live /\ Len(entries[Main]) = i - 1
  BY SingleSession, BatchType DEF IInv, TypeOK, BatchKnown, Stage, WhileStaging, Staged
<1>2. b[i] \in Change /\ e \in Entry
  <2>1. b[i] \in Change
    BY <1>1, BatchType
  <2>2. disk \in [Files -> Values]
    BY DEF IInv, TypeOK
  <2> QED
    BY <2>1, <2>2 DEF Change, Entry
<1>3. journals[t] \in Journal /\ t \in TxnIds /\ journals[t].status = "none"
  BY <1>1, LiveType DEF IInv, WhileStaging
<1>4. /\ entries' = [entries EXCEPT ![Main] = Append(entries[Main], e)]
      /\ entries'[Main] = Append(entries[Main], e)
      /\ entries' \in [Sessions -> Seq(Entry)]
  BY <1>1, <1>2 DEF Stage, IInv, TypeOK
<1>5. /\ journals' \in [TxnIds -> Journal \cup {NoJournal}]
      /\ journals'[t] \in Journal
      /\ journals'[t].status = "none"
      /\ journals'[t].backups = IF before = Absent THEN journals[t].backups
                                ELSE journals[t].backups \cup {i}
      /\ \A u \in TxnIds : u # t => journals'[u] = journals[u]
  <2> DEFINE dir == journals[t]
             dir2 == [dir EXCEPT
                !.backups = dir.backups \cup (IF before = Absent THEN {} ELSE {i}),
                !.staged = dir.staged \cup (IF b[i].new = Absent THEN {} ELSE {i})]
  <2>1. i \in Nat
    BY <1>1
  <2>2. journals' = [journals EXCEPT ![t] = dir2]
    BY DEF Stage
  <2>3. /\ dir2 \in Journal
        /\ dir2.status = dir.status
        /\ dir2.backups = dir.backups \cup (IF before = Absent THEN {} ELSE {i})
    BY <1>3, <2>1 DEF Journal
  <2>4. journals \in [TxnIds -> Journal \cup {NoJournal}]
    BY DEF IInv, TypeOK
  <2> HIDE DEF dir2
  <2>5. journals'[t] = dir2
    BY <1>3, <2>2, <2>4
  <2>6. journals' \in [TxnIds -> Journal \cup {NoJournal}]
    BY <1>3, <2>2, <2>3, <2>4
  <2>7. \A u \in TxnIds : u # t => journals'[u] = journals[u]
    BY <2>2, <2>4
  <2> QED
    BY <1>3, <2>3, <2>5, <2>6, <2>7
<1>6. TypeOK'
  BY <1>4, <1>5 DEF Stage, IInv, TypeOK
<1>7. Live' = Live /\ Unfinished' = Unfinished
  BY <1>1, <1>3, <1>5, NullJournal DEF Live, Unfinished
<1>8. Unfinished = {}
  BY <1>1, <1>3 DEF Unfinished, IInv, WhereJournalsAre
<1>9. WhileStaging'
  <2> DEFINE es == entries[Main]
             es2 == Append(es, e)
  <2>1. es \in Seq(Entry) /\ Len(es) = i - 1 /\ Staged(b, es, i - 1) /\ RolledBack(es)
        /\ BackedUp(es) \subseteq journals[t].backups
    BY <1>1 DEF IInv, TypeOK, WhileStaging
  <2>2. /\ Len(es2) = i /\ DOMAIN es2 = 1..i /\ es2[i] = e
        /\ \A k \in 1..i-1 : es2[k] = es[k]
    BY <1>1, <1>2, <2>1
  <2>3. Staged(b, es2, i)
    BY <1>1, <2>1, <2>2 DEF Staged
  <2>4. \A k \in DOMAIN es2 : disk[es2[k].file] = es2[k].before
    BY <1>1, <2>1, <2>2 DEF RolledBack
  <2>5. BackedUp(es2) \subseteq journals'[t].backups
    BY <1>1, <1>5, <2>1, <2>2 DEF BackedUp
  <2>6. pos'[Main] = i + 1 /\ cur'[Main] = t /\ disk' = disk /\ batch' = batch
    BY <1>1 DEF Stage, IInv, TypeOK
  <2> HIDE DEF es2, e, before
  <2>7. entries'[Main] = es2
    BY <1>4 DEF es2
  <2> QED
    BY <1>1, <1>5, <2>3, <2>4, <2>5, <2>6, <2>7 DEF WhileStaging, RolledBack, BackedUp, Staged
<1> QED
  BY <1>1, <1>6, <1>7, <1>8, <1>9 DEF IInv, Stage, WhereJournalsAre, BatchKnown, Recoverable,
     UndoInformation, WhilePrepared, WhileApplying, WhileUndoing, WhileRemoving

\* What is known in the three phases that come after mkdir.
LEMMA CommitPhase ==
    ASSUME IInv, Here({"stage", "prepared", "apply"})
    PROVE  /\ Main \in Sessions /\ batch[Main] \in Batches /\ entries[Main] \in Seq(Entry)
           /\ cur[Main] \in Live /\ cur[Main] \in TxnIds /\ Unfinished \subseteq {cur[Main]}
           /\ journals[cur[Main]] \in Journal
BY SingleSession, LiveType DEF IInv, TypeOK, WhereJournalsAre, BatchKnown

\* The files of a fully staged batch are distinct.
LEMMA StagedDistinct ==
    ASSUME NEW b \in Batches, NEW es \in Seq(Entry), Staged(b, es, Len(b))
    PROVE  DistinctFiles(es)
BY BatchType DEF Staged, DistinctFiles

LEMMA WritePreparedKeeps == ASSUME IInv, WritePrepared(Main) PROVE IInv'
<1> DEFINE t == cur[Main]
           es == entries[Main]
<1>1. /\ Main \in Sessions /\ batch[Main] \in Batches /\ es \in Seq(Entry)
      /\ t \in Live /\ Unfinished \subseteq {t} /\ t \in TxnIds /\ pc[Main] = "stage"
  BY CommitPhase DEF WritePrepared
<1>2. /\ journals' \in [TxnIds -> Journal \cup {NoJournal}]
      /\ journals'[t].status = "prepared" /\ journals'[t].entries = es
      /\ journals'[t].backups = journals[t].backups
      /\ Live' = Live /\ Unfinished' \subseteq {t}
  <2>1. "prepared" \in Statuses /\ journals' = WithManifest(t, "prepared", es) /\ TypeOK
    BY DEF Statuses, WritePrepared, IInv
  <2> QED
    BY <1>1, <2>1, ManifestType, ManifestEffect DEF Unfinished, Live
<1>3. TypeOK'
  BY <1>2 DEF IInv, WritePrepared, Goto, TypeOK, PCs
<1>4. pos[Main] = Len(batch[Main]) + 1
  BY <1>1, BatchType DEF IInv, WhileStaging, WritePrepared
<1>5. /\ Staged(batch[Main], es, Len(batch[Main])) /\ RolledBack(es)
      /\ BackedUp(es) \subseteq journals[t].backups
  BY <1>1, <1>4, BatchType DEF IInv, WhileStaging
<1>6. DistinctFiles(es)
  BY <1>1, <1>5, StagedDistinct
<1>7. WhilePrepared'
  BY <1>1, <1>2, <1>5 DEF WhilePrepared, WritePrepared, Staged, RolledBack, BackedUp
<1>8. Recoverable'
  BY <1>1, <1>2, <1>5, <1>6 DEF Recoverable, UndoInformation, Unfinished, RolledBack,
     BackedUp, WritePrepared
<1> QED
  BY <1>1, <1>2, <1>3, <1>7, <1>8 DEF IInv, TypeOK, WritePrepared, Goto, WhereJournalsAre,
     BatchKnown, WhileStaging, WhileApplying, WhileUndoing, WhileRemoving

LEMMA WriteApplyingKeeps == ASSUME IInv, WriteApplying(Main) PROVE IInv'
<1> DEFINE t == cur[Main]
           es == entries[Main]
<1>1. /\ Main \in Sessions /\ batch[Main] \in Batches /\ es \in Seq(Entry)
      /\ t \in Live /\ Unfinished \subseteq {t} /\ t \in TxnIds /\ pc[Main] = "prepared"
  BY CommitPhase DEF WriteApplying
<1>2. /\ journals' \in [TxnIds -> Journal \cup {NoJournal}]
      /\ journals'[t].status = "applying" /\ journals'[t].entries = es
      /\ journals'[t].backups = journals[t].backups
      /\ Live' = Live /\ Unfinished' \subseteq {t}
  <2>1. "applying" \in Statuses /\ journals' = WithManifest(t, "applying", es) /\ TypeOK
    BY DEF Statuses, WriteApplying, IInv
  <2> QED
    BY <1>1, <2>1, ManifestType, ManifestEffect DEF Unfinished, Live
<1>3. TypeOK'
  BY <1>2 DEF IInv, WriteApplying, Goto, TypeOK, PCs
<1>4. /\ Staged(batch[Main], es, Len(batch[Main])) /\ RolledBack(es)
      /\ BackedUp(es) \subseteq journals[t].backups
  BY <1>1 DEF IInv, WhilePrepared
<1>5. DistinctFiles(es)
  BY <1>1, <1>4, StagedDistinct
<1>6. pos'[Main] = 1 /\ disk' = disk /\ entries' = entries /\ batch' = batch /\ cur' = cur
  BY <1>1 DEF WriteApplying, IInv, TypeOK
<1>7. WhileApplying'
  BY <1>1, <1>2, <1>4, <1>6, BatchType DEF WhileApplying, Staged, RolledBack, BackedUp
<1>8. Recoverable'
  BY <1>1, <1>2, <1>4, <1>5, <1>6 DEF Recoverable, UndoInformation, Unfinished, RolledBack,
     BackedUp
<1> QED
  BY <1>1, <1>2, <1>3, <1>7, <1>8 DEF IInv, TypeOK, WriteApplying, Goto, WhereJournalsAre,
     BatchKnown, WhileStaging, WhilePrepared, WhileUndoing, WhileRemoving

LEMMA ApplyKeeps == ASSUME IInv, Apply(Main) PROVE IInv'
<1> DEFINE t == cur[Main]
           es == entries[Main]
           i == pos[Main]
<1>1. /\ Main \in Sessions /\ batch[Main] \in Batches /\ es \in Seq(Entry)
      /\ t \in Live /\ Unfinished \subseteq {t} /\ t \in TxnIds /\ pc[Main] = "apply"
      /\ journals[t] \in Journal
  BY CommitPhase DEF Apply
<1>2. /\ Staged(batch[Main], es, Len(batch[Main]))
      /\ \A k \in DOMAIN es : disk[es[k].file] = IF k < i THEN es[k].new ELSE es[k].before
      /\ journals[t].status = "applying" /\ journals[t].entries = es
      /\ BackedUp(es) \subseteq journals[t].backups
      /\ i \in 1..Len(es)
  BY <1>1 DEF IInv, WhileApplying, Apply
<1>3. DistinctFiles(es)
  BY <1>1, <1>2, StagedDistinct
<1>4. /\ es[i] \in Entry /\ DOMAIN es = 1..Len(es) /\ Len(es) \in Nat
      /\ \A k \in DOMAIN es : es[k] \in Entry
  BY <1>1, <1>2
<1>5. /\ disk' = [disk EXCEPT ![es[i].file] = es[i].new]
      /\ disk' \in [Files -> Values]
  BY <1>4 DEF Apply, IInv, TypeOK, Entry
<1>6. \A k \in DOMAIN es :
         disk'[es[k].file] = IF k < i + 1 THEN es[k].new ELSE es[k].before
  <2> TAKE k \in DOMAIN es
  <2>1. CASE k = i
    BY <1>4, <1>5, <2>1 DEF IInv, TypeOK, Entry
  <2>2. CASE k # i
    <3>1. es[k].file # es[i].file /\ es[k].file \in Files
      BY <1>2, <1>3, <1>4, <2>2 DEF DistinctFiles, Entry
    <3>2. disk'[es[k].file] = disk[es[k].file]
      BY <1>5, <3>1 DEF IInv, TypeOK
    <3> QED
      BY <1>2, <1>4, <2>2, <3>2
  <2> QED
    BY <2>1, <2>2
<1>7. /\ journals' \in [TxnIds -> Journal \cup {NoJournal}]
      /\ journals'[t] \in Journal
      /\ journals'[t].status = "applying" /\ journals'[t].entries = es
      /\ journals'[t].backups = journals[t].backups
      /\ \A u \in TxnIds : u # t => journals'[u] = journals[u]
  <2>1. CASE UNCHANGED journals
    BY <1>1, <1>2, <2>1 DEF IInv, TypeOK
  <2>2. CASE journals' = [journals EXCEPT ![t].staged = @ \ {i}]
    <3> DEFINE dir2 == [journals[t] EXCEPT !.staged = journals[t].staged \ {i}]
    <3>1. journals' = [journals EXCEPT ![t] = dir2]
      BY <2>2
    <3>2. /\ dir2 \in Journal /\ dir2.status = "applying" /\ dir2.entries = es
          /\ dir2.backups = journals[t].backups
      BY <1>1, <1>2 DEF Journal
    <3> HIDE DEF dir2
    <3>3. journals \in [TxnIds -> Journal \cup {NoJournal}]
      BY DEF IInv, TypeOK
    <3> QED
      BY <1>1, <3>1, <3>2, <3>3
  <2> QED
    BY <2>1, <2>2 DEF Apply
<1>8. Live' = Live /\ Unfinished' \subseteq {t}
  BY <1>1, <1>7, NullJournal DEF Live, Unfinished
<1>9. /\ pos' = [pos EXCEPT ![Main] = i + 1] /\ pos'[Main] = i + 1
      /\ pos' \in [Sessions -> Nat]
      /\ UNCHANGED <<pc, goal, batch, cur, todo, entries, outcome, faults>>
  BY <1>1 DEF Apply, IInv, TypeOK
<1>10. TypeOK'
  BY <1>5, <1>7, <1>9 DEF IInv, TypeOK
<1>11. WhileApplying'
  <2>1. pos'[Main] \in 1..Len(es) + 1
    BY <1>2, <1>4, <1>9
  <2>2. \A k \in DOMAIN es :
           disk'[es[k].file] = IF k < pos'[Main] THEN es[k].new ELSE es[k].before
    BY <1>6, <1>9
  <2>3. entries'[Main] = es /\ cur'[Main] = t /\ batch'[Main] = batch[Main]
    BY <1>9
  <2>4. Staged(batch'[Main], entries'[Main], Len(batch'[Main]))
    BY <1>2, <2>3
  <2>5. BackedUp(entries'[Main]) \subseteq journals'[t].backups
    BY <1>2, <1>7, <2>3
  <2> QED
    BY <1>7, <2>1, <2>2, <2>3, <2>4, <2>5 DEF WhileApplying, Staged, BackedUp
<1>12. Recoverable'
  <2>1. Unfinished' \subseteq {t}
    BY <1>8
  <2>2. \A k \in DOMAIN es : disk'[es[k].file] \in {es[k].before, es[k].new}
    BY <1>6
  <2>3. BackedUp(es) \subseteq journals'[t].backups
    BY <1>2, <1>7
  <2> QED
    BY <1>3, <1>7, <2>1, <2>2, <2>3 DEF Recoverable, UndoInformation, BackedUp
<1> QED
  BY <1>1, <1>8, <1>9, <1>10, <1>11, <1>12 DEF IInv, WhereJournalsAre, BatchKnown,
     WhileStaging, WhilePrepared, WhileUndoing, WhileRemoving

\* The manifest says committed, whatever the session does next.
LEMMA PublishedManifest ==
    ASSUME IInv, pc[Main] = "apply",
           journals' = WithManifest(cur[Main], "committed", entries[Main])
    PROVE  /\ journals' \in [TxnIds -> Journal \cup {NoJournal}]
           /\ Live' = Live /\ Unfinished' = {}
<1>1. "committed" \in Statuses /\ TypeOK
  BY DEF Statuses, IInv
<1>2. cur[Main] \in Live /\ Unfinished \subseteq {cur[Main]}
  BY CommitPhase
<1>3. /\ journals'[cur[Main]].status = "committed" /\ Live' = Live
      /\ journals' \in [TxnIds -> Journal \cup {NoJournal}]
      /\ \A u \in TxnIds : u # cur[Main] => journals'[u] = journals[u]
  BY <1>1, <1>2, CommitPhase, ManifestType, ManifestEffect
<1> QED
  BY <1>2, <1>3 DEF Unfinished, Live

LEMMA WriteCommittedKeeps == ASSUME IInv, WriteCommitted(Main) PROVE IInv'
<1>1. /\ journals' \in [TxnIds -> Journal \cup {NoJournal}]
      /\ Live' = Live /\ Unfinished' = {}
  BY PublishedManifest DEF WriteCommitted
<1>2. TypeOK'
  BY <1>1 DEF IInv, WriteCommitted, Goto, TypeOK, PCs, Goals
<1>3. Main \in Sessions
  BY CommitPhase DEF WriteCommitted
<1> QED
  BY <1>1, <1>2, <1>3 DEF IInv, TypeOK, WriteCommitted, Goto, WhereJournalsAre, BatchKnown,
     Recoverable, UndoInformation, WhileStaging, WhilePrepared, WhileApplying, WhileUndoing,
     WhileRemoving

LEMMA PublishRaisesLateKeeps == ASSUME IInv, PublishRaisesLate(Main) PROVE IInv'
<1>1. /\ journals' \in [TxnIds -> Journal \cup {NoJournal}]
      /\ Live' = Live /\ Unfinished' = {}
  BY PublishedManifest DEF PublishRaisesLate
<1>2. Main \in Sessions /\ Unfinished \subseteq {cur[Main]} /\ cur[Main] \in TxnIds
  BY CommitPhase DEF PublishRaisesLate
<1>3. TypeOK'
  BY <1>1, <1>2 DEF IInv, PublishRaisesLate, TypeOK, PCs, Goals
<1> QED
  BY <1>1, <1>2, <1>3 DEF IInv, TypeOK, PublishRaisesLate, WhereJournalsAre, BatchKnown,
     Recoverable, UndoInformation, WhileStaging, WhilePrepared, WhileApplying, WhileUndoing,
     WhileRemoving

LEMMA CommitRaisesKeeps == ASSUME IInv, CommitRaises(Main) PROVE IInv'
<1>1. Recoverable' /\ Live' = Live /\ Unfinished' = Unfinished
  BY RecoverableUnchanged DEF IInv, CommitRaises
<1>2. Main \in Sessions /\ Unfinished \subseteq {cur[Main]} /\ cur[Main] \in TxnIds
  BY CommitPhase DEF CommitRaises
<1>3. TypeOK'
  BY <1>2 DEF IInv, CommitRaises, TypeOK, PCs, Goals
<1> QED
  BY <1>1, <1>2, <1>3 DEF IInv, TypeOK, CommitRaises, WhereJournalsAre, BatchKnown,
     WhileStaging, WhilePrepared, WhileApplying, WhileUndoing, WhileRemoving

LEMMA MakeDirRaisesKeeps == ASSUME IInv, MakeDirRaises(Main) PROVE IInv'
<1>1. Recoverable' /\ Live' = Live /\ Unfinished' = Unfinished
  BY RecoverableUnchanged DEF IInv, MakeDirRaises
<1>2. TypeOK'
  BY DEF IInv, MakeDirRaises, Goto, TypeOK, PCs
<1>3. Main \in Sessions /\ goal[Main] = "none"
  BY SingleSession DEF IInv, BatchKnown, MakeDirRaises
<1> QED
  BY <1>1, <1>2, <1>3, SingleSession DEF IInv, TypeOK, MakeDirRaises, Goto, WhereJournalsAre,
     BatchKnown, WhileStaging, WhilePrepared, WhileApplying, WhileUndoing, WhileRemoving

\* Taking a journal out of .repository_transactions: removed or quarantined.
LEMMA JournalGone ==
    ASSUME IInv, NEW t \in TxnIds \cup {NoTxn}, disk' = disk,
           journals' = [journals EXCEPT ![t] = NoJournal]
    PROVE  /\ journals' \in [TxnIds -> Journal \cup {NoJournal}]
           /\ Live' = Live \ {t} /\ Unfinished' = Unfinished \ {t}
           /\ Recoverable'
           /\ \A u \in TxnIds : u # t => journals'[u] = journals[u]
<1>1. journals \in [TxnIds -> Journal \cup {NoJournal}]
  BY DEF IInv, TypeOK
<1>2. Live' = Live \ {t}
  BY <1>1 DEF Live
<1>3. \A u \in TxnIds : u # t => journals'[u] = journals[u]
  BY <1>1
<1>4. Unfinished' = Unfinished \ {t}
  BY <1>2, <1>3 DEF Unfinished, Live
<1>5. Recoverable'
  BY <1>3, <1>4 DEF IInv, Recoverable, UndoInformation, Unfinished, Live, RolledBack, BackedUp
<1> QED
  BY <1>1, <1>2, <1>3, <1>4, <1>5

LEMMA LeaveEffect ==
    ASSUME IInv, NEW told \in {"none", "committed", "rolled_back", "raised"},
           Leave(Main, told), faults' \in 0..MaxFaults,
           todo' \in [Sessions -> SUBSET TxnIds], disk' = disk,
           journals' \in [TxnIds -> Journal \cup {NoJournal}]
    PROVE  /\ TypeOK'
           /\ pc'[Main] \in {"idle", "recover"}
           /\ pc'[Main] = "idle" <=> goal[Main] \in {"rollback", "finish"}
           /\ pc'[Main] = "idle" => goal'[Main] = "none" /\ batch'[Main] = <<>>
           /\ pc'[Main] = "recover" => goal'[Main] = goal[Main] /\ batch'[Main] = batch[Main]
<1>1. Main \in Sessions
  BY SingleSession
<1>2. /\ pc' \in [Sessions -> PCs] /\ goal' \in [Sessions -> Goals]
      /\ cur' \in [Sessions -> TxnIds \cup {NoTxn}]
      /\ pos' \in [Sessions -> Nat]
      /\ outcome' \in [Sessions -> {"none", "committed", "rolled_back", "raised"}]
  BY DEF Leave, IInv, TypeOK, PCs, Goals
<1>3. batch' \in [Sessions -> Batches \cup {<<>>}]
  BY DEF Leave, IInv, TypeOK
<1>4. entries' \in [Sessions -> Seq(Entry)]
  <2>1. <<>> \in Seq(Entry) /\ entries \in [Sessions -> Seq(Entry)]
    BY DEF IInv, TypeOK
  <2> QED
    BY <2>1 DEF Leave
<1>5. TypeOK'
  BY <1>2, <1>3, <1>4 DEF IInv, TypeOK
<1> QED
  BY <1>1, <1>5 DEF Leave, IInv, TypeOK

\* A session that leaves a journal behind which is gone keeps the invariant.
LEMMA LeaveKeeps ==
    ASSUME IInv, NEW told \in {"none", "committed", "rolled_back", "raised"},
           Leave(Main, told), faults' \in 0..MaxFaults, Here({"recover", "undo", "rmtree"}),
           todo' \in [Sessions -> SUBSET TxnIds], disk' = disk,
           journals' \in [TxnIds -> Journal \cup {NoJournal}],
           Unfinished' \subseteq Unfinished, Unfinished' \subseteq todo'[Main],
           goal[Main] \in {"rollback", "finish"} => Unfinished' = {},
           Recoverable'
    PROVE  IInv'
<1>1. /\ TypeOK'
      /\ pc'[Main] \in {"idle", "recover"}
      /\ pc'[Main] = "idle" <=> goal[Main] \in {"rollback", "finish"}
      /\ pc'[Main] = "idle" => goal'[Main] = "none" /\ batch'[Main] = <<>>
      /\ pc'[Main] = "recover" => goal'[Main] = goal[Main] /\ batch'[Main] = batch[Main]
  BY LeaveEffect
<1>2. goal[Main] \in Goals
  BY SingleSession DEF IInv, TypeOK
<1>3. BatchKnown'
  BY <1>1, <1>2 DEF IInv, BatchKnown, Goals
<1>4. WhereJournalsAre'
  BY <1>1 DEF IInv, WhereJournalsAre
<1> QED
  BY <1>1, <1>3, <1>4 DEF IInv, WhileStaging, WhilePrepared, WhileApplying,
     WhileUndoing, WhileRemoving

LEMMA VanishedKeeps ==
    ASSUME IInv, NEW t \in TxnIds, Vanished(Main, t) PROVE IInv'
<1>1. Recoverable' /\ Unfinished' = Unfinished
  BY RecoverableUnchanged DEF IInv, Vanished
<1>2. Unfinished \subseteq todo[Main] /\ t \in todo[Main] /\ t \notin Unfinished /\ pc[Main] = "recover"
  BY DEF IInv, WhereJournalsAre, Vanished, Unfinished
<1>3. todo' \in [Sessions -> SUBSET TxnIds] /\ todo'[Main] = todo[Main] \ {t}
  BY SingleSession DEF Vanished, Took, IInv, TypeOK
<1>4. goal[Main] \in {"rollback", "finish"} => Unfinished = {}
  BY <1>2 DEF IInv, WhereJournalsAre
<1>5. disk' = disk /\ journals' = journals /\ faults' \in 0..MaxFaults /\ Leave(Main, "raised")
      /\ journals' \in [TxnIds -> Journal \cup {NoJournal}]
  BY DEF Vanished, IInv, TypeOK
<1> QED
  BY <1>1, <1>2, <1>3, <1>4, <1>5, LeaveKeeps

LEMMA QuarantineKeeps ==
    ASSUME IInv, NEW t \in TxnIds, Quarantine(Main, t) PROVE IInv'
<1>1. Unfinished \subseteq todo[Main] /\ t \in todo[Main] /\ t \notin Unfinished /\ pc[Main] = "recover"
  BY DEF IInv, WhereJournalsAre, Quarantine, Unfinished
<1>2. disk' = disk /\ faults' \in 0..MaxFaults /\ Leave(Main, "rolled_back")
      /\ journals' = [journals EXCEPT ![t] = NoJournal]
  BY DEF Quarantine, IInv, TypeOK
<1>3. /\ journals' \in [TxnIds -> Journal \cup {NoJournal}]
      /\ Unfinished' = Unfinished \ {t} /\ Recoverable'
  BY <1>1, <1>2, JournalGone
<1>4. todo' \in [Sessions -> SUBSET TxnIds] /\ todo'[Main] = todo[Main] \ {t}
  BY SingleSession DEF Quarantine, Took, IInv, TypeOK
<1>5. goal[Main] \in {"rollback", "finish"} => Unfinished = {}
  BY <1>1 DEF IInv, WhereJournalsAre
<1> QED
  BY <1>1, <1>2, <1>3, <1>4, <1>5, LeaveKeeps

LEMMA StartUndoKeeps ==
    ASSUME IInv, NEW t \in TxnIds, StartUndo(Main, t) PROVE IInv'
<1>1. Recoverable' /\ Live' = Live /\ Unfinished' = Unfinished
  BY RecoverableUnchanged DEF IInv, StartUndo
<1>2. t \in Unfinished /\ t \in Live /\ Unfinished \subseteq {t} /\ Main \in Sessions
  BY SingleSession DEF IInv, WhereJournalsAre, StartUndo, Unfinished
<1>3. journals[t].entries \in Seq(Entry)
  BY <1>2, LiveType DEF IInv, Journal
<1>4. /\ todo' \in [Sessions -> SUBSET TxnIds]
      /\ cur' \in [Sessions -> TxnIds \cup {NoTxn}]
      /\ pc' \in [Sessions -> PCs]
      /\ pos' \in [Sessions -> Nat]
  <2>1. Len(journals[t].entries) \in Nat
    BY <1>3
  <2>2. pos' \in [Sessions -> Nat]
    BY <2>1 DEF StartUndo, IInv, TypeOK
  <2> QED
    BY <2>2 DEF StartUndo, Took, Goto, IInv, TypeOK, PCs
<1>5. entries' \in [Sessions -> Seq(Entry)]
  BY <1>3 DEF StartUndo, IInv, TypeOK
<1>6. TypeOK'
  BY <1>4, <1>5 DEF StartUndo, IInv, TypeOK
<1>7. /\ pc'[Main] = "undo" /\ cur'[Main] = t /\ entries'[Main] = journals[t].entries
      /\ pos'[Main] = Len(journals[t].entries)
      /\ UNCHANGED <<disk, journals, goal, batch>>
  BY <1>2 DEF StartUndo, Goto, IInv, TypeOK
<1>8. WhileUndoing'
  BY <1>1, <1>2, <1>3, <1>7 DEF WhileUndoing
<1>9. WhereJournalsAre' /\ BatchKnown'
  BY <1>1, <1>2, <1>7 DEF IInv, WhereJournalsAre, BatchKnown, StartUndo
<1> QED
  BY <1>1, <1>6, <1>7, <1>8, <1>9 DEF IInv, WhileStaging, WhilePrepared, WhileApplying,
     WhileRemoving

LEMMA StartRemovalKeeps ==
    ASSUME IInv, NEW t \in TxnIds, StartRemoval(Main, t) PROVE IInv'
<1>1. Recoverable' /\ Live' = Live /\ Unfinished' = Unfinished
  BY RecoverableUnchanged DEF IInv, StartRemoval
<1>2. /\ t \in Live /\ t \notin Unfinished /\ Unfinished \subseteq todo[Main] /\ Main \in Sessions
      /\ t \in todo[Main]
  BY SingleSession DEF IInv, WhereJournalsAre, StartRemoval, Unfinished
<1>3. TypeOK'
  BY DEF StartRemoval, Took, Goto, IInv, TypeOK, PCs
<1>4. /\ pc[Main] = "recover" /\ pc'[Main] = "rmtree" /\ cur'[Main] = t
      /\ todo'[Main] = todo[Main] \ {t}
      /\ UNCHANGED <<disk, journals, goal, batch, entries, pos>>
  BY <1>2 DEF StartRemoval, Took, Goto, IInv, TypeOK
<1>5. WhereJournalsAre'
  BY <1>1, <1>2, <1>4 DEF IInv, WhereJournalsAre
<1>6. BatchKnown'
  BY <1>4 DEF IInv, BatchKnown
<1>7. WhileStaging' /\ WhilePrepared' /\ WhileApplying' /\ WhileUndoing'
  BY <1>4 DEF WhileStaging, WhilePrepared, WhileApplying, WhileUndoing
<1>8. WhileRemoving'
  BY <1>1, <1>2, <1>4 DEF WhileRemoving
<1> QED
  BY <1>1, <1>3, <1>5, <1>6, <1>7, <1>8 DEF IInv

LEMMA UndoKeeps == ASSUME IInv, Undo(Main) PROVE IInv'
<1> DEFINE t == cur[Main]
           es == entries[Main]
           i == pos[Main]
<1>1. /\ Main \in Sessions /\ t \in Unfinished /\ t \in Live /\ Unfinished \subseteq {t}
      /\ journals[t].entries = es /\ es \in Seq(Entry) /\ i \in 1..Len(es)
      /\ \A k \in DOMAIN es : k > i => disk[es[k].file] = es[k].before
      /\ pc[Main] = "undo" /\ DistinctFiles(es)
  BY SingleSession DEF IInv, TypeOK, WhileUndoing, WhereJournalsAre, Undo, Unfinished, Recoverable
<1>2. /\ es[i] \in Entry /\ DOMAIN es = 1..Len(es) /\ Len(es) \in Nat
      /\ \A k \in DOMAIN es : es[k] \in Entry
  BY <1>1
<1>3. /\ disk' = [disk EXCEPT ![es[i].file] = es[i].before]
      /\ disk' \in [Files -> Values]
  BY <1>2 DEF Undo, IInv, TypeOK, Entry
<1>4. disk'[es[i].file] = es[i].before
  BY <1>2, <1>3 DEF IInv, TypeOK, Entry
<1>5. \A k \in DOMAIN es : k # i => disk'[es[k].file] = disk[es[k].file]
  BY <1>1, <1>2, <1>3 DEF DistinctFiles, IInv, TypeOK, Entry
<1>6. /\ pos'[Main] = i - 1 /\ pos' \in [Sessions -> Nat]
      /\ UNCHANGED <<journals, pc, goal, batch, cur, todo, entries, outcome, faults>>
  BY <1>1, <1>2 DEF Undo, IInv, TypeOK
<1>7. TypeOK'
  BY <1>3, <1>6 DEF IInv, TypeOK
<1>8. Live' = Live /\ Unfinished' = Unfinished
  BY <1>6 DEF Live, Unfinished
<1>9. \A k \in DOMAIN es : k > i - 1 => disk'[es[k].file] = es[k].before
  BY <1>1, <1>2, <1>4, <1>5
<1>10. WhileUndoing'
  <2>1. pos'[Main] \in 0..Len(es) /\ entries'[Main] = es /\ cur'[Main] = t
    BY <1>1, <1>2, <1>6
  <2>2. journals'[t].entries = es /\ t \in Unfinished'
    BY <1>1, <1>6, <1>8
  <2>3. \A k \in DOMAIN es : k > pos'[Main] => disk'[es[k].file] = es[k].before
    BY <1>6, <1>9
  <2> QED
    BY <2>1, <2>2, <2>3 DEF WhileUndoing
<1>11. Recoverable'
  <2>1. Unfinished' \subseteq {t}
    BY <1>1, <1>8
  <2>2. /\ BackedUp(es) \subseteq journals[t].backups \/ RolledBack(es)
        /\ \A k \in DOMAIN es : disk[es[k].file] \in {es[k].before, es[k].new}
    BY <1>1 DEF IInv, Recoverable, UndoInformation
  <2>3. \A k \in DOMAIN es : disk'[es[k].file] \in {es[k].before, es[k].new}
    BY <1>4, <1>5, <2>2
  <2>4. RolledBack(es) => \A k \in DOMAIN es : disk'[es[k].file] = es[k].before
    BY <1>4, <1>5 DEF RolledBack
  <2> QED
    BY <1>1, <1>6, <2>1, <2>2, <2>3, <2>4 DEF Recoverable, UndoInformation, BackedUp, RolledBack
<1> QED
  BY <1>1, <1>6, <1>7, <1>8, <1>10, <1>11 DEF IInv, WhereJournalsAre, BatchKnown, WhileStaging,
     WhilePrepared, WhileApplying, WhileRemoving

LEMMA UndoBlockedKeeps == ASSUME IInv, UndoBlocked(Main) PROVE IInv'
<1>1. /\ Main \in Sessions /\ Unfinished = {cur[Main]} /\ cur[Main] \in TxnIds
      /\ pc[Main] = "undo" /\ cur[Main] \in Live
  BY SingleSession DEF IInv, TypeOK, WhileUndoing, WhereJournalsAre, UndoBlocked, Unfinished, Live
<1>2. disk' = disk /\ faults' \in 0..MaxFaults /\ todo' = todo /\ Leave(Main, "rolled_back")
      /\ journals' = [journals EXCEPT ![cur[Main]] = NoJournal]
  BY <1>1 DEF UndoBlocked, IInv, TypeOK
<1>3. /\ journals' \in [TxnIds -> Journal \cup {NoJournal}]
      /\ Unfinished' = {} /\ Recoverable'
  BY <1>1, <1>2, JournalGone
<1>4. todo' \in [Sessions -> SUBSET TxnIds]
  BY <1>2 DEF IInv, TypeOK
<1> QED
  BY <1>1, <1>2, <1>3, <1>4, LeaveKeeps

LEMMA UndoDoneKeeps == ASSUME IInv, UndoDone(Main) PROVE IInv'
<1>1. Recoverable' /\ Live' = Live /\ Unfinished' = Unfinished
  BY RecoverableUnchanged DEF IInv, UndoDone
<1>2. TypeOK'
  BY DEF UndoDone, Goto, IInv, TypeOK, PCs
<1>3. /\ Main \in Sessions /\ pos[Main] = 0 /\ pc[Main] = "undo" /\ entries[Main] \in Seq(Entry)
      /\ journals[cur[Main]].entries = entries[Main]
      /\ \A i \in DOMAIN entries[Main] :
            i > 0 => disk[entries[Main][i].file] = entries[Main][i].before
  BY SingleSession DEF UndoDone, IInv, TypeOK, WhileUndoing
<1>4. RolledBack(journals[cur[Main]].entries)
  BY <1>3 DEF RolledBack
<1> QED
  BY <1>1, <1>2, <1>3, <1>4 DEF IInv, TypeOK, UndoDone, Goto, WhereJournalsAre, BatchKnown,
     WhileStaging, WhilePrepared, WhileApplying, WhileUndoing, WhileRemoving, RolledBack

LEMMA RemoveFileKeeps == ASSUME IInv, RemoveFile(Main) PROVE IInv'
<1> DEFINE t == cur[Main]
           dir == journals[t]
<1>1. /\ Main \in Sessions /\ t \in Live /\ t \in TxnIds /\ dir \in Journal
      /\ pc[Main] = "rmtree"
  BY SingleSession, LiveType DEF IInv, WhereJournalsAre, RemoveFile
<1>2. journals \in [TxnIds -> Journal \cup {NoJournal}]
  BY DEF IInv, TypeOK
<1>3. PICK dir2 \in Journal :
         /\ journals' = [journals EXCEPT ![t] = dir2]
         /\ dir2.status \in {"none", dir.status}
         /\ dir2.status # "none" => dir2.entries = dir.entries
  <2>1. CASE journals' = [journals EXCEPT ![t] = [@ EXCEPT !.status = "none", !.entries = <<>>]]
    <3>1. [dir EXCEPT !.status = "none", !.entries = <<>>] \in Journal
      <4>1. <<>> \in Seq(Entry) /\ "none" \in Statuses
        BY DEF Statuses
      <4> QED
        BY <1>1, <4>1 DEF Journal
    <3>2. [dir EXCEPT !.status = "none", !.entries = <<>>].status = "none"
      BY <1>1 DEF Journal
    <3> QED
      BY <2>1, <3>1, <3>2
  <2>2. CASE \E i \in dir.backups : journals' = [journals EXCEPT ![t].backups = @ \ {i}]
    <3>1. PICK i \in dir.backups : journals' = [journals EXCEPT ![t].backups = @ \ {i}]
      BY <2>2
    <3> DEFINE d == [dir EXCEPT !.backups = dir.backups \ {i}]
    <3>2. d \in Journal /\ d.status = dir.status /\ d.entries = dir.entries
      BY <1>1 DEF Journal
    <3>3. journals' = [journals EXCEPT ![t] = d]
      BY <3>1
    <3> HIDE DEF d
    <3> QED
      BY <3>2, <3>3
  <2>3. CASE \E i \in dir.staged : journals' = [journals EXCEPT ![t].staged = @ \ {i}]
    <3>1. PICK i \in dir.staged : journals' = [journals EXCEPT ![t].staged = @ \ {i}]
      BY <2>3
    <3> DEFINE d == [dir EXCEPT !.staged = dir.staged \ {i}]
    <3>2. d \in Journal /\ d.status = dir.status /\ d.entries = dir.entries
      BY <1>1 DEF Journal
    <3>3. journals' = [journals EXCEPT ![t] = d]
      BY <3>1
    <3> HIDE DEF d
    <3> QED
      BY <3>2, <3>3
  <2> QED
    BY <2>1, <2>2, <2>3 DEF RemoveFile
<1>4. /\ journals' \in [TxnIds -> Journal \cup {NoJournal}]
      /\ journals'[t] = dir2
      /\ \A u \in TxnIds : u # t => journals'[u] = journals[u]
  BY <1>1, <1>2, <1>3
<1>5. UNCHANGED <<disk, pc, goal, batch, cur, todo, entries, pos, outcome, faults>>
  BY DEF RemoveFile, local
<1>6. TypeOK'
  BY <1>4, <1>5 DEF IInv, TypeOK
<1>7. Live' = Live /\ Unfinished' \subseteq Unfinished
  BY <1>1, <1>3, <1>4, NullJournal DEF Live, Unfinished
<1>8. \A u \in Unfinished' : \/ u = t /\ RolledBack(dir.entries) /\ dir2.entries = dir.entries
                             \/ u # t /\ u \in Unfinished /\ journals'[u] = journals[u]
  BY <1>1, <1>3, <1>4, <1>7 DEF IInv, WhileRemoving, Unfinished, Live
<1>9. Recoverable' /\ WhileRemoving'
  BY <1>4, <1>5, <1>7, <1>8 DEF IInv, Recoverable, UndoInformation, WhileRemoving, RolledBack,
     BackedUp
<1> QED
  BY <1>1, <1>5, <1>6, <1>7, <1>9 DEF IInv, WhereJournalsAre, BatchKnown, WhileStaging,
     WhilePrepared, WhileApplying, WhileUndoing

LEMMA RemoveDirKeeps == ASSUME IInv, RemoveDir(Main) PROVE IInv'
<1>1. /\ Unfinished \subseteq {cur[Main]} \cup todo[Main]
      /\ goal[Main] \in {"rollback", "finish"} => Unfinished \subseteq {cur[Main]}
      /\ cur[Main] \in TxnIds \cup {NoTxn}
  BY SingleSession DEF IInv, TypeOK, WhereJournalsAre, RemoveDir
<1>2. journals' = [journals EXCEPT ![cur[Main]] = NoJournal]
  BY DEF RemoveDir, IInv, TypeOK
<1>3. disk' = disk /\ faults' \in 0..MaxFaults /\ todo' = todo /\ pc[Main] = "rmtree"
  BY DEF RemoveDir, IInv, TypeOK
<1>4. /\ journals' \in [TxnIds -> Journal \cup {NoJournal}]
      /\ Unfinished' = Unfinished \ {cur[Main]} /\ Recoverable'
  BY <1>1, <1>2, <1>3, JournalGone
<1>5. PICK told \in {"none", "committed", "rolled_back", "raised"} : Leave(Main, told)
  BY DEF RemoveDir
<1>6. todo' \in [Sessions -> SUBSET TxnIds]
  BY <1>3 DEF IInv, TypeOK
<1> QED
  BY <1>1, <1>3, <1>4, <1>5, <1>6, LeaveKeeps

\* A journal that stays is not one that would be rolled back again.
LEMMA RemovalFailsKeeps == ASSUME IInv, RemovalFails(Main) PROVE IInv'
<1>1. Recoverable' /\ Unfinished' = Unfinished
  BY RecoverableUnchanged DEF IInv, RemovalFails
<1>2. /\ cur[Main] \notin Unfinished /\ pc[Main] = "rmtree"
      /\ Unfinished \subseteq todo[Main]
      /\ goal[Main] \in {"rollback", "finish"} => Unfinished = {}
  BY RollbacksSucceed DEF IInv, WhereJournalsAre, RemovalFails
<1>3. /\ disk' = disk /\ todo' = todo /\ faults' \in 0..MaxFaults
      /\ journals' \in [TxnIds -> Journal \cup {NoJournal}]
      /\ todo' \in [Sessions -> SUBSET TxnIds]
  BY ConstantsAssumption DEF RemovalFails, IInv, TypeOK
<1>4. PICK told \in {"none", "committed", "rolled_back", "raised"} : Leave(Main, told)
  BY DEF RemovalFails
<1> QED
  BY <1>1, <1>2, <1>3, <1>4, LeaveKeeps

LEMMA CleanupKeeps ==
    ASSUME IInv, NEW t \in TxnIds, CleanupCommitted(t) PROVE IInv'
<1>1. t \in Live /\ t \notin Unfinished /\ disk' = disk /\ journals[t].status = "committed"
      /\ journals' = [journals EXCEPT ![t] = NoJournal]
  BY DEF CleanupCommitted, Unfinished
<1>2. /\ journals' \in [TxnIds -> Journal \cup {NoJournal}]
      /\ Live' = Live \ {t} /\ Unfinished' = Unfinished \ {t} /\ Recoverable'
      /\ \A u \in TxnIds : u # t => journals'[u] = journals[u]
  BY <1>1, JournalGone
<1>3. UNCHANGED <<disk, pc, goal, batch, cur, todo, entries, pos, outcome, faults>>
  BY DEF CleanupCommitted, local
<1>4. TypeOK'
  BY <1>2, <1>3 DEF IInv, TypeOK
<1>5. Here({"stage", "prepared", "apply"}) => cur[Main] # t /\ journals'[cur[Main]] = journals[cur[Main]]
  BY <1>1, <1>2, CommitPhase DEF IInv, WhileStaging, WhilePrepared, WhileApplying
<1>6. Here({"undo"}) => cur[Main] # t
  BY <1>1 DEF IInv, WhileUndoing
<1>7. \A u \in Unfinished' : journals'[u] = journals[u]
  BY <1>2 DEF Unfinished, Live
<1>8. WhileUndoing' /\ WhileRemoving'
  BY <1>1, <1>2, <1>3, <1>6, <1>7 DEF IInv, WhileUndoing, WhileRemoving, RolledBack
<1>9. WhileStaging' /\ WhilePrepared' /\ WhileApplying'
  BY <1>3, <1>5 DEF IInv, WhileStaging, WhilePrepared, WhileApplying, Staged, RolledBack, BackedUp
<1>10. WhereJournalsAre' /\ BatchKnown'
  BY <1>1, <1>2, <1>3, <1>5 DEF IInv, WhereJournalsAre, BatchKnown
<1> QED
  BY <1>2, <1>4, <1>8, <1>9, <1>10 DEF IInv

LEMMA CrashKeeps == ASSUME IInv, Crash PROVE IInv'
<1>1. Recoverable' /\ Live' = Live /\ Unfinished' = Unfinished
  BY RecoverableUnchanged DEF IInv, Crash
<1>2. TypeOK'
  BY ConstantsAssumption DEF Crash, IInv, TypeOK, PCs, Goals
<1>3. pc'[Main] = "down" /\ goal'[Main] = "none" /\ batch'[Main] = <<>>
  BY SingleSession DEF Crash
<1> QED
  BY <1>1, <1>2, <1>3 DEF IInv, WhereJournalsAre, BatchKnown, WhileStaging, WhilePrepared,
     WhileApplying, WhileUndoing, WhileRemoving

LEMMA StutterKeeps == ASSUME IInv, UNCHANGED vars PROVE IInv'
<1>1. Recoverable' /\ Live' = Live /\ Unfinished' = Unfinished
  BY RecoverableUnchanged DEF IInv, vars
<1> QED
  BY <1>1 DEF vars, IInv, TypeOK, WhereJournalsAre, BatchKnown, WhileStaging, WhilePrepared,
     WhileApplying, WhileUndoing, WhileRemoving, RolledBack, BackedUp, Staged

\* Next, with the only session there is and without the switched-off faults.
LEMMA NextCases ==
    ASSUME Next
    PROVE  \/ Open(Main) \/ Stage(Main) \/ WritePrepared(Main) \/ WriteApplying(Main)
           \/ Apply(Main) \/ WriteCommitted(Main)
           \/ CommitRaises(Main) \/ MakeDirRaises(Main) \/ PublishRaisesLate(Main)
           \/ RecoveryDone(Main) \/ Undo(Main) \/ UndoBlocked(Main) \/ UndoDone(Main)
           \/ RemoveFile(Main) \/ RemovalFails(Main) \/ RemoveDir(Main)
           \/ \E t \in TxnIds : \/ MakeDir(Main, t) \/ Vanished(Main, t)
                                \/ Quarantine(Main, t) \/ StartUndo(Main, t)
                                \/ StartRemoval(Main, t) \/ CleanupCommitted(t)
           \/ \E f \in Files, c \in Values : Edit(Main, f, c)
           \/ \E b \in Batches : Begin(Main, b)
           \/ Crash
<1>1. CASE \E s \in Sessions : Open(s) \/ Commit(s) \/ Recover(s) \/ Fail(s) \/ Use(s)
  <2>1. Open(Main) \/ Commit(Main) \/ Recover(Main) \/ Fail(Main) \/ Use(Main)
    BY <1>1, SingleSession
  <2>2. ~OpenWithoutRecovery(Main) /\ ~UndoRaises(Main)
    BY RecoveredFirst, RollbacksSucceed DEF OpenWithoutRecovery, UndoRaises
  <2> QED
    BY <2>1, <2>2 DEF Commit, Recover, Fail, Use
<1>2. CASE \E t \in TxnIds : CleanupCommitted(t)
  BY <1>2
<1> QED
  BY <1>1, <1>2 DEF Next

LEMMA StepIInv == IInv /\ [Next]_vars => IInv'
<1> SUFFICES ASSUME IInv, [Next]_vars PROVE IInv'
  OBVIOUS
<1>1. CASE UNCHANGED vars
  BY <1>1, StutterKeeps
<1>2. CASE Next
  BY <1>2, NextCases, OpenKeeps, StageKeeps, WritePreparedKeeps, WriteApplyingKeeps,
     ApplyKeeps, WriteCommittedKeeps, CommitRaisesKeeps, MakeDirRaisesKeeps,
     PublishRaisesLateKeeps, RecoveryDoneKeeps, UndoKeeps, UndoBlockedKeeps, UndoDoneKeeps,
     RemoveFileKeeps, RemovalFailsKeeps, RemoveDirKeeps, MakeDirKeeps, VanishedKeeps, QuarantineKeeps,
     StartUndoKeeps, StartRemovalKeeps, CleanupKeeps, EditKeeps, BeginKeeps, CrashKeeps
<1> QED
  BY <1>1, <1>2

-----------------------------------------------------------------------------
(* Theorems                                                                *)

\* The inductive invariant holds in every reachable state.
THEOREM Invariance == Spec => []IInv
<1>1. Init => IInv
  BY InitIInv
<1>2. IInv /\ [Next]_vars => IInv'
  BY StepIInv
<1> QED
  BY <1>1, <1>2, PTL DEF Spec

\* Every variable keeps its type, in particular the manifests on the disk.
THEOREM TypeCorrect == Spec => []TypeOK
<1>1. IInv => TypeOK
  BY DEF IInv
<1> QED
  BY <1>1, Invariance, PTL

\* At every moment a crash may come, the disk holds what a rollback needs.
THEOREM AlwaysRecoverable == Spec => []UndoInformation
<1>1. IInv => UndoInformation
  BY DEF IInv, Recoverable
<1> QED
  BY <1>1, Invariance, PTL

\* A rollback overwrites nothing but what its own transaction wrote.
THEOREM RollbackKeepsOthersWork == Spec => UndoOnlyOwnWork
<1> DEFINE Own ==
      \A s \in Sessions : pc[s] = "undo" /\ pos'[s] < pos[s] =>
         LET e == entries[s][pos[s]] IN disk[e.file] \in {e.before, e.new}
<1>1. IInv /\ [Next]_vars => [Own]_vars
  <2> SUFFICES ASSUME IInv, [Next]_vars, NEW s \in Sessions, pc[s] = "undo", pos'[s] < pos[s]
               PROVE  disk[entries[s][pos[s]].file] \in
                         {entries[s][pos[s]].before, entries[s][pos[s]].new}
    OBVIOUS
  <2>1. /\ s = Main /\ cur[s] \in Unfinished /\ journals[cur[s]].entries = entries[s]
        /\ pos[s] \in 0..Len(entries[s]) /\ entries[s] \in Seq(Entry) /\ pos'[s] \in Nat
    BY SingleSession, StepIInv DEF IInv, TypeOK, WhileUndoing
  <2>2. pos[s] \in DOMAIN entries[s]
    BY <2>1
  <2> QED
    BY <2>1, <2>2 DEF IInv, Recoverable, UndoInformation
<1> QED
  BY <1>1, Invariance, PTL DEF Spec, UndoOnlyOwnWork

-----------------------------------------------------------------------------
(* What a commit tells its caller                                          *)

\* What the answer will be is what the files hold already: a journal being
\* removed has been published or rolled back, one that is to be rolled back was
\* not published, and without a manifest nothing was replaced.
AnswerKnown ==
    /\ Here({"recover", "undo"}) => goal[Main] # "finish"
    /\ Here({"rmtree"}) /\ goal[Main] = "finish" =>
          \A i \in DOMAIN batch[Main] : disk[batch[Main][i].file] = batch[Main][i].new
    /\ Here({"rmtree"}) /\ goal[Main] = "rollback" => RolledBack(entries[Main])
    /\ Here({"recover"}) /\ goal[Main] = "rollback" =>
          \A t \in todo[Main] \cap Live :
             journals[t].status # "committed" /\ (journals[t].status = "none" => RolledBack(entries[Main]))

\* Elsewhere nothing is known, and nothing needs to be.
LEMMA AnswerElsewhere ==
    ASSUME \/ pc'[Main] \notin {"recover", "undo", "rmtree"}
           \/ pc'[Main] # "rmtree" /\ goal'[Main] \notin {"rollback", "finish"}
    PROVE  AnswerKnown'
BY DEF AnswerKnown

\* After a journal is left the session has answered or goes on with the rest.
LEMMA LeaveKnows ==
    ASSUME IInv, AnswerKnown, NEW told, Leave(Main, told)
    PROVE  AnswerKnown'
<1>1. Main \in Sessions
  BY SingleSession
<1>2. CASE goal[Main] \in {"rollback", "finish"}
  <2>1. pc'[Main] = "idle"
    BY <1>1, <1>2 DEF Leave, IInv, TypeOK
  <2> QED
    BY <2>1, AnswerElsewhere
<1>3. CASE goal[Main] \notin {"rollback", "finish"}
  <2>1. pc'[Main] = "recover" /\ goal'[Main] = goal[Main]
    BY <1>1, <1>3 DEF Leave, IInv, TypeOK
  <2> QED
    BY <1>3, <2>1, AnswerElsewhere
<1> QED
  BY <1>2, <1>3

LEMMA AnswerStep ==
    ASSUME LatePublishFault = FALSE, IInv, AnswerKnown, [Next]_vars
    PROVE  AnswerKnown'
<1> USE SingleSession
<1>0. /\ Main \in Sessions /\ pc \in [Sessions -> PCs] /\ goal \in [Sessions -> Goals]
      /\ batch[Main] \in Batches \cup {<<>>} /\ entries[Main] \in Seq(Entry)
  BY DEF IInv, TypeOK
<1>1. CASE UNCHANGED vars
  BY <1>1 DEF vars, AnswerKnown, Live, RolledBack
<1>2. CASE Open(Main) \/ \E b \in Batches : Begin(Main, b)
  <2>1. pc'[Main] = "recover" /\ goal'[Main] \in {"open", "begin"}
    BY <1>0, <1>2 DEF Open, Begin, StartRecovery
  <2> QED
    BY <2>1, AnswerElsewhere
<1>3. CASE Stage(Main) \/ WritePrepared(Main) \/ WriteApplying(Main) \/ Apply(Main)
  <2>1. pc'[Main] \notin {"recover", "undo", "rmtree"}
    BY <1>0, <1>3 DEF Stage, WritePrepared, WriteApplying, Apply, Goto
  <2> QED
    BY <2>1, AnswerElsewhere
<1>4. CASE WriteCommitted(Main)
  <2>1. /\ pc[Main] = "apply" /\ pos[Main] > Len(entries[Main]) /\ disk' = disk /\ batch' = batch
        /\ pc'[Main] = "rmtree" /\ goal'[Main] = "finish"
    BY <1>0, <1>4 DEF WriteCommitted, Goto
  <2>2. batch[Main] \in Batches /\ Len(batch[Main]) \in Nat /\ DOMAIN batch[Main] = 1 .. Len(batch[Main])
    BY <2>1, CommitPhase, BatchType
  <2>3. /\ Staged(batch[Main], entries[Main], Len(batch[Main]))
        /\ \A i \in DOMAIN entries[Main] : disk[entries[Main][i].file] = entries[Main][i].new
    BY <1>0, <2>1 DEF IInv, WhileApplying
  <2>4. \A i \in DOMAIN batch[Main] : disk[batch[Main][i].file] = batch[Main][i].new
    BY <1>0, <2>2, <2>3 DEF Staged
  <2> QED
    BY <2>1, <2>4 DEF AnswerKnown
<1>5. CASE CommitRaises(Main)
  <2>1. /\ pc[Main] \in {"stage", "prepared", "apply"} /\ UNCHANGED <<disk, journals, entries, cur>>
        /\ pc'[Main] = "recover" /\ goal'[Main] = "rollback" /\ todo'[Main] = {cur[Main]}
    BY <1>0, <1>5 DEF CommitRaises, IInv, TypeOK
  <2>2. journals[cur[Main]].status # "committed"
        /\ (journals[cur[Main]].status = "none" => RolledBack(entries[Main]))
    BY <2>1 DEF IInv, WhileStaging, WhilePrepared, WhileApplying
  <2> QED
    BY <2>1, <2>2 DEF AnswerKnown, RolledBack
<1>6. CASE MakeDirRaises(Main) \/ RecoveryDone(Main) \/ Crash \/ \E t \in TxnIds : MakeDir(Main, t)
  <2>1. pc'[Main] \notin {"recover", "undo", "rmtree"}
    BY <1>0, <1>6 DEF MakeDirRaises, RecoveryDone, Crash, MakeDir, Goto
  <2> QED
    BY <2>1, AnswerElsewhere
<1>7. CASE Undo(Main)
  <2>1. pc'[Main] = "undo" /\ goal' = goal /\ pc[Main] = "undo"
    BY <1>7 DEF Undo
  <2> QED
    BY <2>1 DEF AnswerKnown
<1>8. CASE \/ UndoBlocked(Main) \/ RemovalFails(Main) \/ RemoveDir(Main)
           \/ \E t \in TxnIds : Vanished(Main, t) \/ Quarantine(Main, t)
  <2>1. \E told \in {"committed", "rolled_back", "raised"} : Leave(Main, told)
    BY <1>8 DEF UndoBlocked, RemovalFails, RemoveDir, Vanished, Quarantine
  <2> QED
    BY <2>1, LeaveKnows
<1>9. CASE UndoDone(Main)
  <2>1. pc[Main] = "undo" /\ pos[Main] = 0 /\ pc'[Main] = "rmtree" /\ UNCHANGED <<disk, entries, goal>>
    BY <1>0, <1>9 DEF UndoDone, Goto
  <2>2. RolledBack(entries[Main])
    BY <1>0, <2>1 DEF IInv, WhileUndoing, RolledBack
  <2> QED
    BY <2>1, <2>2 DEF AnswerKnown, RolledBack
<1>10. CASE RemoveFile(Main)
  <2>1. pc'[Main] = "rmtree" /\ pc[Main] = "rmtree" /\ UNCHANGED <<disk, entries, goal, batch>>
    BY <1>10 DEF RemoveFile, local
  <2> QED
    BY <2>1 DEF AnswerKnown, RolledBack
<1>11. CASE \E t \in TxnIds : StartUndo(Main, t)
  <2>1. pc'[Main] = "undo" /\ pc[Main] = "recover" /\ goal' = goal
    BY <1>0, <1>11 DEF StartUndo, Goto
  <2> QED
    BY <2>1 DEF AnswerKnown
<1>12. CASE \E t \in TxnIds : StartRemoval(Main, t)
  <2>1. PICK t \in TxnIds : StartRemoval(Main, t)
    BY <1>12
  <2>2. /\ pc'[Main] = "rmtree" /\ pc[Main] = "recover" /\ goal' = goal
        /\ t \in todo[Main] \cap Live /\ journals[t].status = "committed"
    BY <1>0, <2>1 DEF StartRemoval, Goto
  <2>3. goal[Main] \notin {"rollback", "finish"}
    BY <2>2 DEF AnswerKnown
  <2> QED
    BY <2>2, <2>3 DEF AnswerKnown
<1>13. CASE \E t \in TxnIds : CleanupCommitted(t)
  <2>1. PICK t \in TxnIds : CleanupCommitted(t)
    BY <1>13
  <2>2. UNCHANGED <<disk, local>> /\ journals' = [journals EXCEPT ![t] = NoJournal]
    BY <2>1 DEF CleanupCommitted
  <2>3. \A u \in Live' : u \in Live /\ journals'[u] = journals[u]
    BY <2>2 DEF Live, IInv, TypeOK
  <2> QED
    BY <2>2, <2>3 DEF AnswerKnown, RolledBack, local
<1>14. CASE \E f \in Files, c \in Values : Edit(Main, f, c)
  <2>1. pc'[Main] = "idle"
    BY <1>14 DEF Edit, local
  <2> QED
    BY <2>1, AnswerElsewhere
<1>15. ~PublishRaisesLate(Main)
  BY DEF PublishRaisesLate
<1> QED
  BY <1>1, <1>2, <1>3, <1>4, <1>5, <1>6, <1>7, <1>8, <1>9, <1>10, <1>11, <1>12, <1>13, <1>14, <1>15, NextCases

\* A commit answers when it leaves its journal, and is right.
LEMMA AnswerRight ==
    ASSUME LatePublishFault = FALSE, IInv, AnswerKnown, [Next]_vars, outcome'[Main] # outcome[Main]
    PROVE  /\ outcome'[Main] = "committed" =>
                \A i \in DOMAIN batch[Main] : disk'[batch[Main][i].file] = batch[Main][i].new
           /\ outcome'[Main] = "rolled_back" =>
                \A i \in DOMAIN entries[Main] : disk'[entries[Main][i].file] = entries[Main][i].before
<1> USE SingleSession
<1>0. Main \in Sessions /\ outcome \in [Sessions -> {"none", "committed", "rolled_back", "raised"}]
      /\ entries[Main] \in Seq(Entry)
  BY DEF IInv, TypeOK
<1>1. CASE UndoBlocked(Main)
  <2>1. disk' = disk /\ outcome'[Main] # "committed"
    BY <1>0, <1>1 DEF UndoBlocked, Leave
  <2>2. cur[Main] \in Unfinished /\ journals[cur[Main]].entries = entries[Main] /\ cur[Main] \in Live
        /\ pos[Main] \in DOMAIN entries[Main]
    BY <1>0, <1>1 DEF IInv, TypeOK, WhileUndoing, UndoBlocked, Unfinished, Live
  <2>3. pos[Main] \in BackedUp(entries[Main]) /\ pos[Main] \notin journals[cur[Main]].backups
    BY <1>1, <2>2 DEF UndoBlocked, BackupThere, BackedUp
  <2>4. RolledBack(entries[Main])
    BY <2>2, <2>3 DEF IInv, Recoverable, UndoInformation
  <2> QED
    BY <2>1, <2>4 DEF RolledBack
<1>2. CASE RemovalFails(Main) \/ RemoveDir(Main)
  <2>1. /\ disk' = disk /\ pc[Main] = "rmtree" /\ goal[Main] \in {"rollback", "finish"}
        /\ outcome'[Main] = IF goal[Main] = "finish" THEN "committed" ELSE "rolled_back"
    BY <1>0, <1>2 DEF RemovalFails, RemoveDir, Leave
  <2> QED
    BY <2>1 DEF AnswerKnown, RolledBack
<1>3. CASE \E t \in TxnIds : Quarantine(Main, t)
  <2>1. PICK t \in TxnIds : Quarantine(Main, t)
    BY <1>3
  <2>2. /\ disk' = disk /\ pc[Main] = "recover" /\ goal[Main] \in {"rollback", "finish"}
        /\ outcome'[Main] = "rolled_back" /\ t \in todo[Main] \cap Live
        /\ (journals[t].status = "none" \/ journals[t].status = "committed")
    BY <1>0, <2>1 DEF Quarantine, Leave
  <2> QED
    BY <2>2 DEF AnswerKnown, RolledBack
<1>4. CASE \/ MakeDirRaises(Main) \/ Crash
           \/ (\E t \in TxnIds : Vanished(Main, t)) \/ (\E b \in Batches : Begin(Main, b))
  <2>1. outcome'[Main] \in {"none", "raised"}
    BY <1>0, <1>4 DEF MakeDirRaises, Crash, Vanished, Begin, Leave
  <2> QED
    BY <2>1
<1>5. ~UNCHANGED vars
  BY DEF vars
<1>6. ~(\/ Open(Main) \/ Stage(Main) \/ WritePrepared(Main) \/ WriteApplying(Main)
        \/ Apply(Main) \/ WriteCommitted(Main) \/ CommitRaises(Main) \/ PublishRaisesLate(Main)
        \/ RecoveryDone(Main) \/ Undo(Main) \/ UndoDone(Main) \/ RemoveFile(Main)
        \/ (\E t \in TxnIds : MakeDir(Main, t) \/ StartUndo(Main, t) \/ StartRemoval(Main, t)
                             \/ CleanupCommitted(t))
        \/ (\E f \in Files, c \in Values : Edit(Main, f, c)))
  BY DEF Open, Stage, WritePrepared, WriteApplying, Apply, WriteCommitted, CommitRaises, PublishRaisesLate,
     RecoveryDone, Undo, UndoDone, RemoveFile, MakeDir, StartUndo, StartRemoval, CleanupCommitted, Edit, local
<1> QED
  BY <1>1, <1>2, <1>3, <1>4, <1>5, <1>6, NextCases

\* What a commit tells its caller is what happened to the files, for every
\* batch and any number of crashes, as long as the fsync after the committed
\* manifest does not raise (AtomicJsonTransaction.commit).
THEOREM AnswersTruthful ==
    ASSUME LatePublishFault = FALSE
    PROVE  Spec => OutcomeTruthful
<1> DEFINE Right ==
      \A s \in Sessions : outcome'[s] # outcome[s] =>
          /\ outcome'[s] = "committed" =>
                \A i \in DOMAIN batch[s] : disk'[batch[s][i].file] = batch[s][i].new
          /\ outcome'[s] = "rolled_back" =>
                \A i \in DOMAIN entries[s] :
                    disk'[entries[s][i].file] = entries[s][i].before
<1>1. Init => AnswerKnown
  BY SingleSession DEF Init, AnswerKnown
<1>2. IInv /\ AnswerKnown /\ [Next]_vars => AnswerKnown'
  BY AnswerStep
<1>3. IInv /\ AnswerKnown /\ [Next]_vars => [Right]_vars
  BY AnswerRight, SingleSession
<1> QED
  BY <1>1, <1>2, <1>3, Invariance, PTL DEF Spec, OutcomeTruthful

-----------------------------------------------------------------------------
(* Refinement of AtomicUpdate                                              *)

\* What the files would hold after the journal with these entries is undone.
Undone(es, d) ==
    [f \in Files |-> IF \E i \in DOMAIN es : es[i].file = f
                     THEN es[CHOOSE i \in DOMAIN es : es[i].file = f].before
                     ELSE d[f]]

LEMMA LogicalDisk == ASSUME Unfinished = {} PROVE Logical = disk
BY DEF Logical

LEMMA LogicalUndone ==
    ASSUME NEW t, Unfinished = {t}
    PROVE  Logical = Undone(journals[t].entries, disk)
BY DEF Logical, Undone

LEMMA LogicalUndoneNext ==
    ASSUME NEW t, Unfinished' = {t}
    PROVE  Logical' = Undone(journals'[t].entries, disk')
BY DEF Logical, Undone

\* Undoing what is already undone changes nothing.
LEMMA UndoneNothing ==
    ASSUME NEW d \in [Files -> Values], NEW es,
           \A i \in DOMAIN es : d[es[i].file] = es[i].before
    PROVE  Undone(es, d) = d
<1>1. ASSUME NEW f \in Files PROVE Undone(es, d)[f] = d[f]
  <2>1. CASE \E i \in DOMAIN es : es[i].file = f
    <3> DEFINE k == CHOOSE i \in DOMAIN es : es[i].file = f
    <3>1. k \in DOMAIN es /\ es[k].file = f
      BY <2>1
    <3> QED
      BY <2>1, <3>1 DEF Undone
  <2>2. CASE ~\E i \in DOMAIN es : es[i].file = f
    BY <2>2 DEF Undone
  <2> QED
    BY <2>1, <2>2
<1> QED
  BY <1>1 DEF Undone

\* Undoing does not look at the files the journal covers.
LEMMA UndoneIgnores ==
    ASSUME NEW d, NEW d2, NEW es,
           \A f \in Files : (\A i \in DOMAIN es : es[i].file # f) => d2[f] = d[f]
    PROVE  Undone(es, d2) = Undone(es, d)
BY DEF Undone

\* With one session there is at most one unfinished journal.
LEMMA OneUnfinished ==
    ASSUME IInv, NEW t \in Unfinished PROVE Unfinished = {t}
BY DEF IInv, WhereJournalsAre, Unfinished

\* A journal whose files are rolled back does not show.
LEMMA LogicalRolledBack ==
    ASSUME IInv, NEW t \in Unfinished, RolledBack(journals[t].entries)
    PROVE  Logical = disk
<1>1. Logical = Undone(journals[t].entries, disk)
  BY OneUnfinished, LogicalUndone
<1>2. Undone(journals[t].entries, disk) = disk
  BY UndoneNothing DEF IInv, TypeOK, RolledBack
<1> QED
  BY <1>1, <1>2

\* Steps that touch neither files nor journals do not show.
LEMMA LogicalUnchanged ==
    ASSUME UNCHANGED <<disk, journals>> PROVE Logical' = Logical
BY DEF Logical, Unfinished, Live

\* Losing a journal that is finished, or that is rolled back, does not show.
LEMMA LogicalGone ==
    ASSUME IInv, NEW t \in TxnIds \cup {NoTxn}, disk' = disk,
           journals' = [journals EXCEPT ![t] = NoJournal],
           t \in Unfinished => RolledBack(journals[t].entries)
    PROVE  Logical' = Logical
<1>1. Unfinished' = Unfinished \ {t} /\ \A u \in TxnIds : u # t => journals'[u] = journals[u]
  BY JournalGone
<1>2. CASE t \in Unfinished
  <2>1. Logical = disk
    BY <1>2, LogicalRolledBack
  <2>2. Unfinished' = {}
    BY <1>1, <1>2, OneUnfinished
  <2>3. Logical' = disk'
    BY <2>2 DEF Logical
  <2> QED
    BY <2>1, <2>3
<1>3. CASE t \notin Unfinished
  <2>1. Unfinished' = Unfinished
    BY <1>1, <1>3
  <2>2. \A u \in Unfinished : journals'[u] = journals[u]
    BY <1>1, <1>3 DEF Unfinished, Live
  <2>3. CASE Unfinished = {}
    BY <2>1, <2>3 DEF Logical
  <2>4. CASE Unfinished # {}
    <3>1. PICK u \in Unfinished : Unfinished = {u}
      BY <2>4, OneUnfinished
    <3>2. Logical = Undone(journals[u].entries, disk)
      BY <3>1, LogicalUndone
    <3>3. Unfinished' = {u}
      BY <2>1, <3>1
    <3>4. Logical' = Undone(journals'[u].entries, disk')
      BY <3>3, LogicalUndoneNext
    <3> QED
      BY <2>2, <3>2, <3>4
  <2> QED
    BY <2>3, <2>4
<1> QED
  BY <1>2, <1>3

LEMMA WritePreparedHidden == ASSUME IInv, WritePrepared(Main) PROVE Logical' = Logical
<1>1. IInv' /\ pc[Main] = "stage" /\ cur' = cur /\ entries' = entries /\ disk' = disk
      /\ Main \in Sessions /\ pc'[Main] = "prepared"
  BY WritePreparedKeeps, SingleSession DEF WritePrepared, Goto, IInv, TypeOK
<1>2. Unfinished = {}
  BY <1>1 DEF IInv, WhereJournalsAre, WhileStaging, Unfinished
<1>3. /\ cur[Main] \in Live' /\ Unfinished' \subseteq {cur[Main]}
      /\ journals'[cur[Main]].status = "prepared"
      /\ journals'[cur[Main]].entries = entries[Main]
      /\ \A i \in DOMAIN entries[Main] : disk'[entries[Main][i].file] = entries[Main][i].before
  BY <1>1 DEF IInv, WhereJournalsAre, WhilePrepared, RolledBack
<1>4. cur[Main] \in Unfinished' /\ Unfinished' = {cur[Main]}
  BY <1>3 DEF Unfinished
<1>5. Logical' = Undone(journals'[cur[Main]].entries, disk')
  BY <1>4 DEF Logical, Undone
<1>6. disk' \in [Files -> Values]
  BY <1>1 DEF IInv, TypeOK
<1>7. Undone(entries[Main], disk') = disk'
  BY <1>3, <1>6, UndoneNothing
<1> QED
  BY <1>1, <1>2, <1>3, <1>5, <1>7, LogicalDisk

LEMMA WriteApplyingHidden == ASSUME IInv, WriteApplying(Main) PROVE Logical' = Logical
<1>1. IInv' /\ pc[Main] = "prepared" /\ cur' = cur /\ entries' = entries /\ disk' = disk
      /\ Main \in Sessions /\ pc'[Main] = "apply"
  BY WriteApplyingKeeps, SingleSession DEF WriteApplying, Goto, IInv, TypeOK
<1>2. /\ cur[Main] \in Live /\ Unfinished \subseteq {cur[Main]}
      /\ journals[cur[Main]].status = "prepared"
      /\ journals[cur[Main]].entries = entries[Main]
  BY <1>1 DEF IInv, WhereJournalsAre, WhilePrepared
<1>3. /\ cur[Main] \in Live' /\ Unfinished' \subseteq {cur[Main]}
      /\ journals'[cur[Main]].status = "applying"
      /\ journals'[cur[Main]].entries = entries[Main]
  BY <1>1 DEF IInv, WhereJournalsAre, WhileApplying
<1>4. Unfinished = {cur[Main]} /\ Unfinished' = {cur[Main]}
  BY <1>2, <1>3 DEF Unfinished
<1>5. Logical = Undone(entries[Main], disk)
  BY <1>2, <1>4, LogicalUndone
<1>6. Logical' = Undone(journals'[cur[Main]].entries, disk')
  BY <1>4 DEF Logical, Undone
<1> QED
  BY <1>1, <1>3, <1>5, <1>6

LEMMA ApplyHidden == ASSUME IInv, Apply(Main) PROVE Logical' = Logical
<1> DEFINE es == entries[Main]
           i == pos[Main]
<1>1. IInv' /\ pc[Main] = "apply" /\ cur' = cur /\ entries' = entries /\ pc' = pc
  BY ApplyKeeps DEF Apply
<1>2. /\ cur[Main] \in Live /\ Unfinished \subseteq {cur[Main]}
      /\ journals[cur[Main]].status = "applying"
      /\ journals[cur[Main]].entries = es /\ i \in 1..Len(es) /\ es \in Seq(Entry)
  BY <1>1, CommitPhase DEF IInv, WhileApplying, Apply
<1>3. /\ cur[Main] \in Live' /\ Unfinished' \subseteq {cur[Main]}
      /\ journals'[cur[Main]].status = "applying"
      /\ journals'[cur[Main]].entries = es
  BY <1>1 DEF IInv, WhereJournalsAre, WhileApplying
<1>4. Unfinished = {cur[Main]} /\ Unfinished' = {cur[Main]}
  BY <1>2, <1>3 DEF Unfinished
<1>5. disk' = [disk EXCEPT ![es[i].file] = es[i].new] /\ disk \in [Files -> Values]
  BY DEF Apply, IInv, TypeOK
<1>6. i \in DOMAIN es
  BY <1>2
<1>7. Undone(es, disk') = Undone(es, disk)
  BY <1>5, <1>6, UndoneIgnores
<1>8. Logical = Undone(es, disk)
  BY <1>2, <1>4, LogicalUndone
<1>9. Logical' = Undone(journals'[cur[Main]].entries, disk')
  BY <1>4 DEF Logical, Undone
<1> QED
  BY <1>3, <1>7, <1>8, <1>9

LEMMA UndoHidden == ASSUME IInv, Undo(Main) PROVE Logical' = Logical
<1> DEFINE es == entries[Main]
           i == pos[Main]
           t == cur[Main]
<1>1. journals' = journals /\ disk' = [disk EXCEPT ![es[i].file] = es[i].before]
      /\ disk \in [Files -> Values]
  BY DEF Undo, IInv, TypeOK
<1>2. /\ t \in Unfinished /\ journals[t].entries = es
      /\ i \in 1..Len(es) /\ es \in Seq(Entry)
  BY SingleSession DEF IInv, TypeOK, WhileUndoing, Undo
<1>3. i \in DOMAIN es
  BY <1>2
<1>4. Undone(es, disk') = Undone(es, disk)
  BY <1>1, <1>3, UndoneIgnores
<1>5. Unfinished = {t} /\ Unfinished' = {t}
  BY <1>1, <1>2, OneUnfinished DEF Unfinished, Live
<1>6. Logical = Undone(es, disk) /\ Logical' = Undone(es, disk')
  BY <1>1, <1>2, <1>5 DEF Logical, Undone
<1> QED
  BY <1>4, <1>6

LEMMA RemoveFileHidden == ASSUME IInv, RemoveFile(Main) PROVE Logical' = Logical
<1> DEFINE t == cur[Main]
<1>1. /\ IInv' /\ t \in Live /\ disk' = disk /\ pc[Main] = "rmtree" /\ pc' = pc /\ cur' = cur
      /\ t \in TxnIds /\ journals[t] \in Journal
      /\ journals \in [TxnIds -> Journal \cup {NoJournal}]
  BY RemoveFileKeeps, LiveType DEF RemoveFile, local, IInv, TypeOK, Live
<1>2. /\ \A u \in TxnIds : u # t => journals'[u] = journals[u]
      /\ journals'[t].status \in {"none", journals[t].status}
  BY <1>1 DEF RemoveFile, Journal
<1>3. CASE t \in Unfinished
  <2>1. Logical = disk /\ Unfinished' \subseteq {t}
    <3>1. Unfinished = {t} /\ RolledBack(journals[t].entries)
      BY <1>1, <1>3, OneUnfinished DEF IInv, WhileRemoving
    <3> QED
      BY <1>2, <3>1, LogicalRolledBack DEF Unfinished, Live
  <2>2. CASE Unfinished' = {}
    BY <1>1, <2>1, <2>2 DEF Logical
  <2>3. CASE Unfinished' # {}
    <3>1. Unfinished' = {t}
      BY <2>1, <2>3
    <3>2. \A i \in DOMAIN journals'[t].entries :
             disk'[journals'[t].entries[i].file] = journals'[t].entries[i].before
      BY <1>1, <3>1 DEF IInv, WhileRemoving, RolledBack
    <3>3. disk' \in [Files -> Values]
      BY <1>1 DEF IInv, TypeOK
    <3>4. Undone(journals'[t].entries, disk') = disk'
      BY <3>2, <3>3, UndoneNothing
    <3>5. Logical' = Undone(journals'[t].entries, disk')
      BY <3>1 DEF Logical, Undone
    <3> QED
      BY <1>1, <2>1, <3>4, <3>5
  <2> QED
    BY <2>2, <2>3
<1>4. CASE t \notin Unfinished
  <2>1. Unfinished' = Unfinished
    <3>1. t \notin Unfinished'
      BY <1>1, <1>2, <1>4 DEF Unfinished
    <3>2. \A u \in TxnIds \ {t} : u \in Unfinished' <=> u \in Unfinished
      BY <1>2 DEF Unfinished, Live
    <3> QED
      BY <1>4, <3>1, <3>2 DEF Unfinished, Live
  <2>2. \A u \in Unfinished : journals'[u] = journals[u]
    BY <1>2, <1>4 DEF Unfinished, Live
  <2>3. CASE Unfinished = {}
    BY <1>1, <2>1, <2>3 DEF Logical
  <2>4. CASE Unfinished # {}
    <3>1. PICK u \in Unfinished : Unfinished = {u}
      BY <2>4, OneUnfinished
    <3>2. Logical = Undone(journals[u].entries, disk)
      BY <3>1, LogicalUndone
    <3>3. Logical' = Undone(journals'[u].entries, disk')
      BY <2>1, <3>1, LogicalUndoneNext
    <3> QED
      BY <1>1, <2>2, <3>2, <3>3
  <2> QED
    BY <2>3, <2>4
<1> QED
  BY <1>3, <1>4

\* The commit point: the whole batch takes effect in one abstract step.
LEMMA CommitPoint ==
    ASSUME IInv, pc[Main] = "apply", pos[Main] > Len(entries[Main]), disk' = disk,
           journals' = WithManifest(cur[Main], "committed", entries[Main]),
           batch' = batch
    PROVE  Abstract!Publish(Main)
<1> DEFINE b == batch[Main]
           es == entries[Main]
<1>1. /\ b \in Batches /\ es \in Seq(Entry) /\ cur[Main] \in Live
      /\ Unfinished \subseteq {cur[Main]} /\ Len(b) \in Nat
      /\ DOMAIN b = 1..Len(b)
  BY CommitPhase, BatchType
<1>2. /\ Staged(b, es, Len(b))
      /\ \A i \in DOMAIN es : disk[es[i].file] = es[i].new
      /\ journals[cur[Main]].status = "applying" /\ journals[cur[Main]].entries = es
  BY <1>1 DEF IInv, WhileApplying
<1>3. /\ DOMAIN es = DOMAIN b
      /\ \A i \in DOMAIN b : es[i].file = b[i].file /\ disk[b[i].file] = b[i].new
  BY <1>1, <1>2 DEF Staged
<1>4. Logical = Undone(es, disk)
  BY <1>1, <1>2, LogicalUndone DEF Unfinished
<1>5. Logical' = disk
  <2>1. Unfinished' = {}
    BY PublishedManifest
  <2> QED
    BY <2>1 DEF Logical
<1>6. ASSUME NEW f \in Files PROVE Abstract!After(Logical, b)[f] = disk[f]
  <2>1. CASE f \in Abstract!Changed(b)
    <3> DEFINE k == CHOOSE i \in DOMAIN b : b[i].file = f
    <3>1. k \in DOMAIN b /\ b[k].file = f
      BY <2>1 DEF Abstract!Changed
    <3>2. Abstract!After(Logical, b)[f] = b[k].new
      BY <2>1 DEF Abstract!After, Abstract!IndexOf
    <3> QED
      BY <1>3, <3>1, <3>2
  <2>2. CASE f \notin Abstract!Changed(b)
    <3>1. \A i \in DOMAIN es : es[i].file # f
      BY <1>3, <2>2 DEF Abstract!Changed
    <3>2. Undone(es, disk)[f] = disk[f]
      BY <3>1 DEF Undone
    <3> QED
      BY <1>4, <2>2, <3>2 DEF Abstract!After
  <2> QED
    BY <2>1, <2>2
<1>7. disk \in [Files -> Values]
  BY DEF IInv, TypeOK
<1>8. Abstract!After(Logical, b) = disk
  BY <1>6, <1>7 DEF Abstract!After
<1> QED
  BY <1>1, <1>5, <1>8 DEF Abstract!Publish

LEMMA EditShows ==
    ASSUME IInv, NEW f \in Files, NEW c \in Values, Edit(Main, f, c)
    PROVE  Abstract!Save(Main, f, c)
<1>1. Unfinished = {} /\ Unfinished' = {}
  BY DEF IInv, WhereJournalsAre, Edit, Unfinished, Live
<1>2. batch[Main] = <<>> /\ batch' = batch
  BY DEF IInv, BatchKnown, Edit, local
<1> QED
  BY <1>1, <1>2 DEF Logical, Edit, Abstract!Save

LEMMA RequestShows ==
    ASSUME IInv, NEW b \in Batches, Begin(Main, b)
    PROVE  Abstract!Request(Main, b)
BY LogicalUnchanged DEF IInv, BatchKnown, Begin, Abstract!Request

LEMMA CrashShows == ASSUME IInv, Crash PROVE Abstract!Crash
BY LogicalUnchanged DEF Crash, Abstract!Crash

\* A session that leaves a journal either answers its caller or goes on.
LEMMA LeaveShows ==
    ASSUME IInv, NEW told, Leave(Main, told), Logical' = Logical
    PROVE  Abstract!Answer(Main) \/ UNCHANGED <<Logical, batch>>
<1>1. CASE goal[Main] \in {"rollback", "finish"}
  BY <1>1 DEF Leave, Abstract!Answer
<1>2. CASE goal[Main] \notin {"rollback", "finish"}
  BY <1>2 DEF Leave, IInv, TypeOK
<1> QED
  BY <1>1, <1>2

LEMMA StepRefines == IInv /\ [Next]_vars => [Abstract!Next]_<<Logical, batch>>
<1> SUFFICES ASSUME IInv, [Next]_vars
             PROVE  \/ Abstract!Next
                    \/ Logical' = Logical /\ batch' = batch
  OBVIOUS
<1>1. CASE UNCHANGED vars
  BY <1>1, LogicalUnchanged DEF vars
<1>2. CASE Next
  <2> USE SingleSession
  <2>1. CASE \/ Open(Main) \/ CommitRaises(Main)
             \/ RecoveryDone(Main) \/ UndoDone(Main)
             \/ \E t \in TxnIds : StartUndo(Main, t) \/ StartRemoval(Main, t)
    BY <2>1, LogicalUnchanged DEF Open, CommitRaises, RecoveryDone, UndoDone,
       StartUndo, StartRemoval
  <2>2. CASE Stage(Main)
    <3>1. /\ IInv' /\ pc[Main] = "stage" /\ pc' = pc /\ cur' = cur /\ disk' = disk
          /\ batch' = batch
      BY <2>2, StageKeeps DEF Stage
    <3>2. Unfinished = {} /\ Unfinished' = {}
      BY <3>1 DEF IInv, WhereJournalsAre, WhileStaging, Unfinished
    <3> QED
      BY <3>1, <3>2 DEF Logical
  <2>3. CASE WriteCommitted(Main) \/ PublishRaisesLate(Main)
    <3>1. Abstract!Publish(Main)
      BY <2>3, CommitPoint DEF WriteCommitted, PublishRaisesLate
    <3> QED
      BY <3>1 DEF Abstract!Next
  <2>4. CASE \E t \in TxnIds : MakeDir(Main, t)
    <3>1. PICK t \in TxnIds : MakeDir(Main, t)
      BY <2>4
    <3>2. IInv' /\ pc'[Main] = "stage" /\ Unfinished = {} /\ disk' = disk /\ batch' = batch
      BY <3>1, MakeDirKeeps DEF MakeDir, Goto, IInv, TypeOK, WhereJournalsAre
    <3>3. Unfinished = {} /\ Unfinished' = {}
      BY <3>2 DEF IInv, WhereJournalsAre, WhileStaging, Unfinished
    <3> QED
      BY <3>2, <3>3 DEF Logical
  <2>5. CASE \E t \in TxnIds : Quarantine(Main, t) \/ CleanupCommitted(t)
    <3>1. PICK t \in TxnIds : Quarantine(Main, t) \/ CleanupCommitted(t)
      BY <2>5
    <3>2. /\ disk' = disk /\ journals' = [journals EXCEPT ![t] = NoJournal]
          /\ t \notin Unfinished
      BY <3>1 DEF Quarantine, CleanupCommitted, Unfinished
    <3>3. Logical' = Logical
      BY <3>2, LogicalGone
    <3>4. CASE Quarantine(Main, t)
      BY <3>3, <3>4, LeaveShows DEF Quarantine, Abstract!Next
    <3>5. CASE CleanupCommitted(t)
      BY <3>3, <3>5 DEF CleanupCommitted, local
    <3> QED
      BY <3>1, <3>4, <3>5
  <2>6. CASE UndoBlocked(Main)
    <3> DEFINE t == cur[Main]
    <3>1. t \in Unfinished /\ journals[t].entries = entries[Main] /\ t \in Live
          /\ pos[Main] \in DOMAIN entries[Main] /\ t \in TxnIds
      BY <2>6 DEF IInv, TypeOK, WhileUndoing, UndoBlocked, Unfinished, Live
    <3>2. pos[Main] \in BackedUp(entries[Main]) /\ pos[Main] \notin journals[t].backups
      BY <2>6, <3>1 DEF UndoBlocked, BackupThere, BackedUp
    <3>3. RolledBack(journals[t].entries)
      BY <3>1, <3>2 DEF IInv, Recoverable, UndoInformation
    <3>4. disk' = disk /\ journals' = [journals EXCEPT ![t] = NoJournal]
          /\ Leave(Main, "rolled_back")
      BY <2>6, <3>1 DEF UndoBlocked
    <3>5. Logical' = Logical
      BY <3>1, <3>3, <3>4, LogicalGone
    <3> QED
      BY <3>4, <3>5, LeaveShows DEF Abstract!Next
  <2>7. CASE RemoveDir(Main)
    <3>1. cur[Main] \in TxnIds \cup {NoTxn} /\ pc[Main] = "rmtree"
      BY <2>7 DEF IInv, TypeOK, RemoveDir
    <3>2. disk' = disk /\ journals' = [journals EXCEPT ![cur[Main]] = NoJournal]
      BY <2>7 DEF RemoveDir, IInv, TypeOK
    <3>3. Logical' = Logical
      BY <3>1, <3>2, LogicalGone DEF IInv, WhileRemoving
    <3> QED
      BY <2>7, <3>3, LeaveShows DEF RemoveDir, Abstract!Next
  <2>8. CASE \E f \in Files, c \in Values : Edit(Main, f, c)
    BY <2>8, EditShows DEF Abstract!Next, Values
  <2>9. CASE \E b \in Batches : Begin(Main, b)
    BY <2>9, RequestShows DEF Abstract!Next
  <2>10. CASE \E t \in TxnIds : Vanished(Main, t)
    <3>1. PICK t \in TxnIds : Vanished(Main, t)
      BY <2>10
    <3>2. Logical' = Logical
      BY <3>1, LogicalUnchanged DEF Vanished
    <3> QED
      BY <3>1, <3>2, LeaveShows DEF Vanished, Abstract!Next
  <2>11. CASE MakeDirRaises(Main)
    <3>1. Abstract!Answer(Main)
      BY <2>11, LogicalUnchanged DEF MakeDirRaises, Abstract!Answer
    <3> QED
      BY <3>1 DEF Abstract!Next
  <2>12. CASE Crash
    BY <2>12, CrashShows DEF Abstract!Next
  <2>13. CASE \/ WritePrepared(Main) \/ WriteApplying(Main) \/ Apply(Main) \/ Undo(Main)
              \/ RemoveFile(Main)
    <3>1. batch' = batch
      BY <2>13 DEF WritePrepared, WriteApplying, Apply, Undo, RemoveFile, local
    <3> QED
      BY <2>13, <3>1, WritePreparedHidden, WriteApplyingHidden, ApplyHidden, UndoHidden,
         RemoveFileHidden
  <2>14. CASE RemovalFails(Main)
    <3>1. Logical' = Logical
      BY <2>14, LogicalUnchanged DEF RemovalFails
    <3> QED
      BY <2>14, <3>1, LeaveShows DEF RemovalFails, Abstract!Next
  <2> QED
    BY <1>2, <2>1, <2>2, <2>3, <2>4, <2>5, <2>6, <2>7, <2>8, <2>9, <2>10, <2>11, <2>12,
       <2>13, <2>14, NextCases
<1> QED
  BY <1>1, <1>2

\* The journalled commit implements the atomic one: through every crash, failure
\* and recovery a batch takes effect as a whole, once, and stays.
THEOREM Atomicity == Spec => AllOrNothing
<1>1. Init => Abstract!Init
  <2> SUFFICES ASSUME Init
               PROVE  /\ Logical \in [Files -> Contents \cup {Absent}]
                      /\ batch = [s \in Sessions |-> <<>>]
    BY DEF Abstract!Init
  <2>1. Unfinished = {}
    BY DEF Init, Unfinished, Live
  <2> QED
    BY <2>1, LogicalDisk DEF Init, Values
<1>2. IInv /\ [Next]_vars => [Abstract!Next]_Abstract!vars
  BY StepRefines DEF Abstract!vars
<1> QED
  BY <1>1, <1>2, Invariance, PTL DEF Spec, AllOrNothing, Abstract!Spec

=============================================================================
