---------------------------- MODULE IntervalTypes ----------------------------
(***************************************************************************)
(* The interval types of a project and the batch operation that moves the  *)
(* intervals of one type to another and deletes the type.  It changes one  *)
(* file for each interpretation, the type catalog and a journal, one write *)
(* after the other, over a backup of all of them: when a step raises, the  *)
(* backup is put back and removed; when all went well, it is sealed with   *)
(* what the files hold now and kept, so that the operation can be undone   *)
(* while nobody has changed them.                                          *)
(* The batch calls run one after the other here; other changes fall        *)
(* between them.                                                           *)
(***************************************************************************)
EXTENDS Naturals, Sequences, FiniteSets

CONSTANTS
    Types,        \* ids of interval types
    Defaults,     \* the types of a project that has no catalog file
    Files,        \* intervals.json files
    Marks,        \* what else a file says, its time of change included
    Operations,   \* operation UUIDs
    NoFile,       \* no catalog file, no backup, no seal
    JournalLimit, \* how many operations are kept, 200 in the code
    MaxChanges,   \* bound: changes other than batch operations
    MaxFaults     \* bound: failing writes and crashes together

VARIABLES
    catalog,  \* interpretation_interval_types.json
    files,    \* the types that occur in each intervals.json
    journal,  \* the operations journal, newest last
    backups,  \* the backup file of each operation
    call,     \* the batch call that runs
    known,    \* ghost: types that were ever defined
    past,     \* ghost: the project as each operation found and left it
    changes,  \* changes so far
    failures, \* failing writes so far
    crashes   \* crashes so far

data == <<catalog, files, known>>
counters == <<changes, failures, crashes>>
vars == <<data, journal, backups, call, past, counters>>

-----------------------------------------------------------------------------
Contents == [types : SUBSET Types, mark : Marks]
Catalogs == Contents \cup {NoFile}
Projects == [catalog : Catalogs, files : [Files -> Contents]]
Entries == [id : Operations, undone : BOOLEAN]
SomeFiles == UNION {[paths -> Contents] : paths \in SUBSET Files}
Snapshots == [catalog : Catalogs, files : SomeFiles]
BackupFiles == [catalog : Catalogs, files : SomeFiles, post : Snapshots \cup {NoFile}]
Pasts == [before : Projects, after : Projects \cup {NoFile}]

ASSUME Parameters ==
    /\ Defaults \subseteq Types
    /\ JournalLimit \in Nat \ {0} /\ MaxChanges \in Nat /\ MaxFaults \in Nat
    /\ NoFile \notin Contents \cup Snapshots \cup BackupFiles \cup Projects \cup Pasts

DefinedIn(c) == IF c = NoFile THEN Defaults ELSE c.types
Defined == DefinedIn(catalog)
Using(t) == {f \in Files : t \in files[f].types}
Project == [catalog |-> catalog, files |-> files]
Idle == [pc |-> "idle"]
At(pc) == call.pc = pc

Init ==
    /\ catalog = NoFile
    /\ files \in [Files -> [types : SUBSET Defaults, mark : Marks]]
    /\ journal = <<>>
    /\ backups = [o \in Operations |-> NoFile]
    /\ call = Idle
    /\ known = Defaults
    /\ past = [o \in Operations |-> NoFile]
    /\ changes = 0 /\ failures = 0 /\ crashes = 0

-----------------------------------------------------------------------------
(* Other changes, each one write. *)

Change == call = Idle /\ changes < MaxChanges /\ changes' = changes + 1
WriteCatalog(types) == \E m \in Marks : catalog' = [types |-> types, mark |-> m]

Upsert ==
    /\ Change
    /\ \E t \in Types : WriteCatalog(Defined \cup {t}) /\ known' = known \cup {t}
    /\ UNCHANGED <<files, journal, backups, call, past, failures, crashes>>

\* Mutant: a used type is deleted as well.
DeleteUsed ==
    /\ Change
    /\ \E t \in Defined : WriteCatalog(Defined \ {t})
    /\ UNCHANGED <<files, journal, backups, call, known, past, failures, crashes>>

Delete ==
    /\ Change
    /\ \E t \in Defined : Using(t) = {} /\ WriteCatalog(Defined \ {t})
    /\ UNCHANGED <<files, journal, backups, call, known, past, failures, crashes>>

\* An edit gives intervals the types the page offers; the undo of an edit and
\* the restore of a revision bring back types that may be deleted by now.
EditIntervals ==
    /\ Change
    /\ \E f \in Files, t \in SUBSET known, m \in Marks :
          files' = [files EXCEPT ![f] = [types |-> t, mark |-> m]]
    /\ UNCHANGED <<catalog, journal, backups, call, known, past, failures, crashes>>

-----------------------------------------------------------------------------
(* reassign_and_delete: back up, reassign file by file, delete, seal, log. *)

BeginReassign ==
    /\ call = Idle
    /\ \E source, target \in Defined, o \in {o \in Operations : past[o] = NoFile} :
          /\ source # target
          /\ call' = [pc |-> "backup", id |-> o, source |-> source, target |-> target,
                      rest |-> Using(source), start |-> Project]
          /\ past' = [past EXCEPT ![o] = [before |-> Project, after |-> NoFile]]
    /\ UNCHANGED <<data, journal, backups, counters>>

Backup(paths) == [catalog |-> catalog, files |-> [f \in paths |-> files[f]], post |-> NoFile]

WriteBackup ==
    /\ At("backup")
    /\ backups' = [backups EXCEPT ![call.id] = Backup(call.rest)]
    /\ call' = [call EXCEPT !.pc = "reassign"]
    /\ UNCHANGED <<data, journal, past, counters>>

Moved(types) == (types \ {call.source}) \cup {call.target}

ReassignFile ==
    /\ At("reassign")
    /\ \E f \in call.rest, m \in Marks :
          /\ files' = [files EXCEPT ![f] = [types |-> Moved(@.types), mark |-> m]]
          /\ call' = [call EXCEPT !.rest = @ \ {f}]
    /\ UNCHANGED <<catalog, known, journal, backups, past, counters>>

\* Nothing uses the type any more, so that delete() does not refuse.
DeleteSource ==
    /\ At("reassign") /\ call.rest = {} /\ Using(call.source) = {}
    /\ WriteCatalog(Defined \ {call.source})
    /\ call' = [call EXCEPT !.pc = "seal"]
    /\ UNCHANGED <<files, known, journal, backups, past, counters>>

\* What the files of a backup hold now.
State(backup) == [catalog |-> catalog, files |-> [f \in DOMAIN backup.files |-> files[f]]]

SealBackup ==
    /\ At("seal")
    /\ backups' = [backups EXCEPT ![call.id].post = State(backups[call.id])]
    /\ call' = [call EXCEPT !.pc = "log"]
    /\ UNCHANGED <<data, journal, past, counters>>

\* Mutant: one operation too many is kept.
NewestAndOne(entries) ==
    IF Len(entries) <= JournalLimit + 1 THEN entries
    ELSE SubSeq(entries, Len(entries) - JournalLimit, Len(entries))

Newest(entries) ==
    IF Len(entries) <= JournalLimit THEN entries
    ELSE SubSeq(entries, Len(entries) - JournalLimit + 1, Len(entries))

AppendJournal ==
    /\ At("log")
    /\ journal' = Newest(Append(journal, [id |-> call.id, undone |-> FALSE]))
    /\ past' = [past EXCEPT ![call.id].after = Project]
    /\ call' = Idle
    /\ UNCHANGED <<data, backups, counters>>

-----------------------------------------------------------------------------
(* undo_last_reassignment: compare, put back, mark, drop the backup. *)

\* Mutant: only the intervals are compared.
UnchangedIntervals(backup) == State(backup).files = backup.post.files

Unchanged(backup) == State(backup) = backup.post

BeginUndo ==
    /\ call = Idle
    /\ journal # <<>> /\ ~journal[Len(journal)].undone
    /\ LET o == journal[Len(journal)].id
       IN /\ backups[o] # NoFile /\ Unchanged(backups[o])
          /\ call' = [pc |-> "catalog", id |-> o, undo |-> TRUE,
                      rest |-> DOMAIN backups[o].files, start |-> Project]
    /\ UNCHANGED <<data, journal, backups, past, counters>>

\* The catalog goes first, both when an operation is undone and when it failed.
RestoreCatalog ==
    /\ At("catalog")
    /\ catalog' = backups[call.id].catalog
    /\ call' = [call EXCEPT !.pc = "restore"]
    /\ UNCHANGED <<files, known, journal, backups, past, counters>>

RestoreFile ==
    /\ At("restore")
    /\ \E f \in call.rest :
          /\ files' = [files EXCEPT ![f] = backups[call.id].files[f]]
          /\ call' = [call EXCEPT !.rest = @ \ {f}]
    /\ UNCHANGED <<catalog, known, journal, backups, past, counters>>

MarkUndone ==
    /\ At("restore") /\ call.rest = {} /\ call.undo
    /\ journal' = [journal EXCEPT ![Len(journal)].undone = TRUE]
    /\ call' = [call EXCEPT !.pc = "drop"]
    /\ UNCHANGED <<data, backups, past, counters>>

DropBackup ==
    /\ At("drop")
    /\ backups' = [backups EXCEPT ![call.id] = NoFile]
    /\ call' = Idle
    /\ UNCHANGED <<data, journal, past, counters>>

-----------------------------------------------------------------------------
(* Failures. *)

Fail == failures + crashes < MaxFaults /\ failures' = failures + 1 /\ UNCHANGED <<changes, crashes>>

\* Mutant: a failed operation puts back the intervals, not the catalog.
RollBackIntervals == call' = [pc |-> "restore", id |-> call.id, undo |-> FALSE,
                              rest |-> DOMAIN backups[call.id].files, start |-> call.start]

RollBack == call' = [pc |-> "catalog", id |-> call.id, undo |-> FALSE,
                     rest |-> DOMAIN backups[call.id].files, start |-> call.start]

\* A write of reassign_and_delete raises.
FailReassign ==
    /\ Fail
    /\ \/ At("backup") /\ call' = Idle
       \/ At("reassign") /\ RollBack
       \/ At("seal") /\ RollBack
       \/ At("log") /\ RollBack
    /\ UNCHANGED <<data, journal, backups, past>>

\* Mutant: the backup of a failed operation stays.
RolledBackKeeps ==
    /\ At("restore") /\ call.rest = {} /\ ~call.undo
    /\ call' = Idle
    /\ UNCHANGED <<data, journal, backups, past, counters>>

RolledBack ==
    /\ At("restore") /\ call.rest = {} /\ ~call.undo
    /\ backups' = [backups EXCEPT ![call.id] = NoFile]
    /\ call' = Idle
    /\ UNCHANGED <<data, journal, past, counters>>

\* A write of undo_last_reassignment raises: what was read before the first
\* write is put back, the catalog first.
FailUndo ==
    /\ Fail
    /\ At("catalog") \/ (At("restore") /\ call.rest # {})
    /\ call.undo
    /\ call' = [call EXCEPT !.pc = "uncatalog", !.rest = DOMAIN backups[call.id].files]
    /\ UNCHANGED <<data, journal, backups, past>>

UnrestoreCatalog ==
    /\ At("uncatalog")
    /\ catalog' = call.start.catalog
    /\ call' = [call EXCEPT !.pc = "unrestore"]
    /\ UNCHANGED <<files, known, journal, backups, past, counters>>

UnrestoreFile ==
    /\ At("unrestore")
    /\ \E f \in call.rest :
          /\ files' = [files EXCEPT ![f] = call.start.files[f]]
          /\ call' = [call EXCEPT !.rest = @ \ {f}]
    /\ UNCHANGED <<catalog, known, journal, backups, past, counters>>

Unrestored ==
    /\ At("unrestore") /\ call.rest = {}
    /\ call' = Idle
    /\ UNCHANGED <<data, journal, backups, past, counters>>

\* The journal or the unlinking of the backup fails after the files are back.
FailMark ==
    /\ Fail
    /\ (At("restore") /\ call.rest = {} /\ call.undo) \/ At("drop")
    /\ call' = Idle
    /\ UNCHANGED <<data, journal, backups, past>>

Crash ==
    /\ call # Idle /\ failures + crashes < MaxFaults
    /\ crashes' = crashes + 1
    /\ call' = Idle
    /\ UNCHANGED <<data, journal, backups, past, changes, failures>>

Reassign ==
    \/ BeginReassign \/ WriteBackup \/ ReassignFile \/ DeleteSource \/ SealBackup \/ AppendJournal
    \/ FailReassign \/ RolledBack
Undo ==
    \/ BeginUndo \/ RestoreCatalog \/ RestoreFile \/ MarkUndone \/ DropBackup
    \/ FailUndo \/ UnrestoreCatalog \/ UnrestoreFile \/ Unrestored \/ FailMark

Next == Upsert \/ Delete \/ EditIntervals \/ Reassign \/ Undo \/ Crash

Spec == Init /\ [][Next]_vars

-----------------------------------------------------------------------------
Logged == {journal[k].id : k \in DOMAIN journal}

\* The state keeps its types; the journal never holds more than JournalLimit
\* operations (_append_type_operation).
TypeOK ==
    /\ catalog \in Catalogs /\ files \in [Files -> Contents] /\ known \in SUBSET Types
    /\ \A k \in DOMAIN journal : journal[k] \in Entries
    /\ Len(journal) <= JournalLimit
    /\ backups \in [Operations -> BackupFiles \cup {NoFile}]
    /\ past \in [Operations -> Pasts \cup {NoFile}]

\* A type leaves the catalog only when no interval has it, but for the moment
\* in which a failed undo is taken back (repository.delete, the order of the
\* two restores).  The search for uses reads every file of intervals here; in
\* the code it passes over files it cannot read (get_interval_type_usage).
DeletedUnused ==
    [][\A t \in Types : t \in Defined /\ t \notin Defined' =>
          At("uncatalog") \/ \A f \in Files : t \notin files'[f].types]_vars

\* An operation that reports an error leaves the catalog and the intervals as
\* it found them, whichever of its writes failed, unless the undo was complete
\* by then (reassign_and_delete, undo_last_reassignment).  A second failure,
\* while the first is being put back, is not in the model.
FailureAtomic ==
    [][(RolledBack \/ Unrestored \/ (FailReassign /\ At("backup"))) =>
          catalog' = call.start.catalog /\ files' = call.start.files]_vars

\* An undo gives back what the operation changed and nothing that was written
\* since: it found every one of these files as the operation left it, and
\* leaves the other files alone (undo_last_reassignment, post_state).
UndoExact ==
    [][MarkUndone =>
          LET p == past[call.id]
              touched == {f \in Files : p.before.files[f] # p.after.files[f]}
          IN /\ catalog' = p.before.catalog /\ call.start.catalog = p.after.catalog
             /\ \A f \in touched : files'[f] = p.before.files[f] /\ call.start.files[f] = p.after.files[f]
             /\ \A f \in Files \ touched : files'[f] = call.start.files[f]]_vars

\* An operation in the journal that is not undone can be undone while its files
\* are unchanged: its backup is there and sealed.  A backup that the journal
\* does not name was left by a crash or pushed out of the journal.
JournalBacked ==
    call = Idle =>
        /\ \A k \in DOMAIN journal : ~journal[k].undone =>
              backups[journal[k].id] # NoFile /\ backups[journal[k].id].post # NoFile
        /\ \A o \in Operations \ Logged : backups[o] # NoFile => crashes > 0 \/ Len(journal) = JournalLimit
=============================================================================
