------------------------- MODULE IntervalTypesProofs -------------------------
(***************************************************************************)
(* For every number of types, files and operations, any number of failing  *)
(* writes and crashes, and any length of the journal: a failed operation   *)
(* leaves everything as it was, an undo gives back exactly what the        *)
(* operation changed, a deleted type is unused, and what the journal       *)
(* offers to undo has its backup.                                          *)
(***************************************************************************)
EXTENDS IntervalTypes, TLAPS

OpCalls ==
    [pc : {"backup", "reassign", "seal", "log"}, id : Operations, source : Types, target : Types,
     rest : SUBSET Files, start : Projects]
RestoreCalls ==
    [pc : {"catalog", "restore", "drop", "uncatalog", "unrestore"}, id : Operations, undo : BOOLEAN,
     rest : SUBSET Files, start : Projects]

WellTyped ==
    /\ catalog \in Catalogs /\ files \in [Files -> Contents] /\ known \in SUBSET Types
    /\ journal \in Seq(Entries)
    /\ backups \in [Operations -> BackupFiles \cup {NoFile}]
    /\ past \in [Operations -> Pasts \cup {NoFile}]
    /\ call \in {Idle} \cup OpCalls \cup RestoreCalls

\* A backup is of the project p that an operation found.
BackupOf(b, p) ==
    /\ b # NoFile
    /\ b.catalog = p.catalog
    /\ \A f \in DOMAIN b.files : b.files[f] = p.files[f]

\* Outside the files of a backup the project is as it was.
OthersAs(b, p) == \A f \in Files \ DOMAIN b.files : files[f] = p.files[f]

\* A sealed backup and what the operation found and left.
Faithful(b, p) ==
    /\ BackupOf(b, p.before)
    /\ b.post # NoFile /\ b.post.catalog = p.after.catalog
    /\ DOMAIN b.post.files = DOMAIN b.files
    /\ \A f \in DOMAIN b.files : b.post.files[f] = p.after.files[f]
    /\ \A f \in Files \ DOMAIN b.files : p.before.files[f] = p.after.files[f]
    /\ DefinedIn(b.post.catalog) \subseteq DefinedIn(b.catalog)

Current == backups[call.id]

\* The operation that runs has found call.start and has not left anything.
Running == past[call.id] # NoFile /\ past[call.id].after = NoFile /\ past[call.id].before = call.start

ReassignInv ==
    /\ call \in OpCalls => Running
    /\ At("backup") => call.start = Project /\ Current = NoFile
    /\ call.pc \in {"reassign", "seal", "log"} =>
          /\ BackupOf(Current, call.start) /\ OthersAs(Current, call.start)
          /\ call.rest \subseteq DOMAIN Current.files
          /\ Defined \subseteq DefinedIn(Current.catalog)
    /\ At("log") => /\ Current.post # NoFile /\ Current.post.catalog = catalog
                    /\ DOMAIN Current.post.files = DOMAIN Current.files
                    /\ \A f \in DOMAIN Current.files : Current.post.files[f] = files[f]

\* Restoring, to undo an operation or because it failed.
RestoreInv ==
    call.pc \in {"catalog", "restore"} =>
        /\ Current # NoFile /\ OthersAs(Current, call.start)
        /\ call.rest \subseteq DOMAIN Current.files
        /\ At("catalog") => call.rest = DOMAIN Current.files /\ Defined \subseteq DefinedIn(Current.catalog)
        /\ At("restore") => /\ catalog = Current.catalog
                            /\ \A f \in DOMAIN Current.files \ call.rest : files[f] = Current.files[f]
        /\ ~call.undo => Running /\ BackupOf(Current, call.start)
        /\ call.undo => /\ journal # <<>> /\ journal[Len(journal)] = [id |-> call.id, undone |-> FALSE]
                        /\ call.start.catalog = Current.post.catalog
                        /\ \A f \in DOMAIN Current.files : call.start.files[f] = Current.post.files[f]

\* Taking a failed undo back.
UnrestoreInv ==
    /\ call.pc \in {"uncatalog", "unrestore"} =>
          /\ Current # NoFile /\ OthersAs(Current, call.start) /\ call.id \in Logged
          /\ At("uncatalog") => call.rest = DOMAIN Current.files
          /\ At("unrestore") => /\ catalog = call.start.catalog
                                /\ \A f \in DOMAIN Current.files \ call.rest : files[f] = call.start.files[f]
    /\ At("drop") => journal # <<>> /\ journal[Len(journal)] = [id |-> call.id, undone |-> TRUE]

\* The operations of the journal are different ones, and are over.
JournalInv ==
    /\ Len(journal) <= JournalLimit
    /\ \A j, k \in 1 .. Len(journal) : journal[j].id = journal[k].id => j = k
    /\ \A k \in 1 .. Len(journal) : past[journal[k].id] # NoFile /\ past[journal[k].id].after # NoFile

BackupsInv ==
    /\ \A k \in 1 .. Len(journal) : ~journal[k].undone => Faithful(backups[journal[k].id], past[journal[k].id])
    /\ \A o \in Operations : past[o] = NoFile => backups[o] = NoFile

\* A backup nobody names was left by a crash or pushed out of the journal.
OrphansInv ==
    \A o \in Operations \ Logged :
        backups[o] # NoFile => crashes > 0 \/ Len(journal) = JournalLimit \/ (call # Idle /\ o = call.id)

Inv ==
    /\ WellTyped
    /\ ReassignInv /\ RestoreInv /\ UnrestoreInv
    /\ JournalInv /\ BackupsInv /\ OrphansInv /\ crashes \in Nat

-----------------------------------------------------------------------------
\* A call is of one kind.
LEMMA CallKinds ==
    /\ call \in OpCalls => call.pc \in {"backup", "reassign", "seal", "log"}
    /\ call \in RestoreCalls => call.pc \in {"catalog", "restore", "drop", "uncatalog", "unrestore"}
    /\ call = Idle => call.pc = "idle"
    /\ WellTyped /\ call.pc \in {"backup", "reassign", "seal", "log"} => call \in OpCalls
    /\ WellTyped /\ call.pc \in {"catalog", "restore", "drop", "uncatalog", "unrestore"} => call \in RestoreCalls
BY DEF OpCalls, RestoreCalls, Idle, WellTyped

\* What is idle promises nothing.
LEMMA IdleInv ==
    ASSUME call' = Idle
    PROVE  ReassignInv' /\ RestoreInv' /\ UnrestoreInv'
BY DEF Idle, ReassignInv, RestoreInv, UnrestoreInv, At, OpCalls

\* A backup has the files it has.
LEMMA BackupTypes ==
    ASSUME NEW b \in BackupFiles
    PROVE  /\ b.catalog \in Catalogs
           /\ DOMAIN b.files \subseteq Files
           /\ b.files = [f \in DOMAIN b.files |-> b.files[f]]
           /\ \A f \in DOMAIN b.files : b.files[f] \in Contents
           /\ b # NoFile
BY Parameters DEF BackupFiles, SomeFiles

LEMMA JournalEntries ==
    ASSUME Inv
    PROVE  /\ Len(journal) \in Nat /\ DOMAIN journal = 1 .. Len(journal)
           /\ \A k \in 1 .. Len(journal) : journal[k] \in Entries /\ journal[k].id \in Operations
<1>1. journal \in Seq(Entries)
  BY DEF Inv, WellTyped
<1>2. Len(journal) \in Nat /\ DOMAIN journal = 1 .. Len(journal)
  BY <1>1
<1>3. \A k \in 1 .. Len(journal) : journal[k] \in Entries
  BY <1>1
<1> QED
  BY <1>2, <1>3 DEF Entries

LEMMA InvInit == Init => Inv
<1> SUFFICES ASSUME Init PROVE Inv
  OBVIOUS
<1> USE DEF Init
<1>1. WellTyped
  BY Parameters DEF WellTyped, Catalogs, Contents
<1>2. ReassignInv /\ RestoreInv /\ UnrestoreInv
  BY DEF Idle, ReassignInv, RestoreInv, UnrestoreInv, At, OpCalls
<1>3. JournalInv /\ BackupsInv /\ OrphansInv
  BY Parameters DEF JournalInv, BackupsInv, OrphansInv
<1> QED
  BY <1>1, <1>2, <1>3 DEF Inv

-----------------------------------------------------------------------------
\* Steps that leave the journal and the backups alone.
LEMMA BookkeepingKept ==
    ASSUME Inv, UNCHANGED <<journal, backups, past>>, crashes' \in Nat, crashes' >= crashes,
           call' = Idle => call = Idle \/ At("drop") \/ Current = NoFile \/ call.id \in Logged \/ crashes' > 0,
           call # Idle /\ call' # Idle => call'.id = call.id
    PROVE  JournalInv' /\ BackupsInv' /\ OrphansInv'
<1>1. JournalInv' /\ BackupsInv'
  BY DEF Inv, JournalInv, BackupsInv, Faithful, BackupOf, DefinedIn
<1>2. At("drop") => call.id \in Logged
  BY DEF Inv, UnrestoreInv, Logged, WellTyped
<1>3. OrphansInv'
  BY <1>2 DEF Inv, OrphansInv, Logged, Current
<1> QED
  BY <1>1, <1>3

LEMMA ChangesKeep ==
    ASSUME Inv, Upsert \/ Delete \/ EditIntervals
    PROVE  Inv'
<1> USE DEF Change
<1>1. call = Idle /\ call' = Idle /\ UNCHANGED <<journal, backups, past, crashes>>
  BY DEF Upsert, Delete, EditIntervals
<1>2. ReassignInv' /\ RestoreInv' /\ UnrestoreInv'
  BY <1>1, IdleInv
<1>3. JournalInv' /\ BackupsInv' /\ OrphansInv' /\ crashes' \in Nat
  BY <1>1, BookkeepingKept DEF Inv
<1>4. Defined \subseteq Types
  BY Parameters DEF Inv, WellTyped, Defined, DefinedIn, Catalogs, Contents
<1>5. WellTyped'
  <2>1. CASE Upsert
    BY <2>1, <1>1, <1>4 DEF Upsert, WriteCatalog, Inv, WellTyped, Catalogs, Contents
  <2>2. CASE Delete
    BY <2>2, <1>1, <1>4 DEF Delete, WriteCatalog, Inv, WellTyped, Catalogs, Contents
  <2>3. CASE EditIntervals
    BY <2>3, <1>1 DEF EditIntervals, Inv, WellTyped, Contents
  <2> QED
    BY <2>1, <2>2, <2>3
<1> QED
  BY <1>2, <1>3, <1>5 DEF Inv

-----------------------------------------------------------------------------
(* reassign_and_delete. *)

\* The invariant of the backups, of the state after a step.
LEMMA BackupsNext ==
    ASSUME \A k \in 1 .. Len(journal') :
              ~journal'[k].undone => Faithful(backups'[journal'[k].id], past'[journal'[k].id]),
           \A o \in Operations : past'[o] = NoFile => backups'[o] = NoFile
    PROVE  BackupsInv'
BY DEF BackupsInv, Faithful, BackupOf, DefinedIn

LEMMA BeginReassignKeeps == ASSUME Inv, BeginReassign PROVE Inv'
<1>1. PICK source \in Defined, target \in Defined, o \in {o \in Operations : past[o] = NoFile} :
          /\ call' = [pc |-> "backup", id |-> o, source |-> source, target |-> target,
                      rest |-> Using(source), start |-> Project]
          /\ past' = [past EXCEPT ![o] = [before |-> Project, after |-> NoFile]]
  BY DEF BeginReassign
<1>2. UNCHANGED <<catalog, files, known, journal, backups, crashes>> /\ call = Idle
  BY DEF BeginReassign, data, counters
<1>3. Project \in Projects /\ Project # NoFile
  BY Parameters DEF Inv, WellTyped, Project, Projects
<1>4. [before |-> Project, after |-> NoFile] \in Pasts
  BY <1>3 DEF Pasts
<1>5. past'[o] = [before |-> Project, after |-> NoFile] /\ past'[o] # NoFile
      /\ \A p \in Operations : p # o => past'[p] = past[p]
  BY <1>1, <1>4, Parameters DEF Inv, WellTyped
<1>6. Defined \subseteq Types /\ Using(source) \subseteq Files
  BY Parameters DEF Inv, WellTyped, Defined, DefinedIn, Catalogs, Contents, Using
<1>7. call' \in OpCalls /\ call'.pc = "backup" /\ call'.id = o /\ call'.start = Project
  BY <1>1, <1>3, <1>6 DEF OpCalls
<1>8. WellTyped'
  BY <1>1, <1>2, <1>4, <1>5, <1>7 DEF Inv, WellTyped
<1>9. ReassignInv' /\ RestoreInv' /\ UnrestoreInv'
  BY <1>2, <1>5, <1>7 DEF Inv, BackupsInv, ReassignInv, RestoreInv, UnrestoreInv, Running, At, Current, Project
<1>10. \A k \in 1 .. Len(journal) : journal[k].id # o /\ journal[k].id \in Operations
  BY <1>1, JournalEntries DEF Inv, JournalInv
<1>11. JournalInv' /\ BackupsInv'
  <2>1. \A k \in 1 .. Len(journal) : past'[journal[k].id] = past[journal[k].id]
    BY <1>5, <1>10
  <2>2. JournalInv'
    BY <1>2, <2>1 DEF Inv, JournalInv
  <2>3. \A k \in 1 .. Len(journal) :
           ~journal[k].undone => Faithful(backups[journal[k].id], past'[journal[k].id])
    BY <2>1 DEF Inv, BackupsInv
  <2>4. \A p \in Operations : past'[p] = NoFile => backups'[p] = NoFile
    BY <1>2, <1>5 DEF Inv, BackupsInv
  <2> QED
    BY <1>2, <2>2, <2>3, <2>4, BackupsNext
<1>12. OrphansInv'
  BY <1>2, <1>1 DEF Inv, OrphansInv, Logged
<1> QED
  BY <1>2, <1>8, <1>9, <1>11, <1>12 DEF Inv

\* A running operation is not in the journal.
LEMMA RunningNotLogged ==
    ASSUME Inv, Running
    PROVE  \A k \in 1 .. Len(journal) : journal[k].id # call.id
BY DEF Inv, Running, JournalInv

LEMMA WriteBackupKeeps == ASSUME Inv, WriteBackup PROVE Inv'
<1> DEFINE b == Backup(call.rest)
<1>1. call \in OpCalls /\ Running /\ call.start = Project /\ At("backup")
  BY CallKinds DEF WriteBackup, At, Inv, ReassignInv
<1>2. call.id \in Operations /\ call.rest \subseteq Files
  BY <1>1 DEF OpCalls
<1>3. backups' = [backups EXCEPT ![call.id] = b] /\ call' = [call EXCEPT !.pc = "reassign"]
      /\ UNCHANGED <<catalog, files, known, journal, past, crashes>>
  BY DEF WriteBackup, data, counters
<1>4. b \in BackupFiles /\ b.catalog = catalog /\ DOMAIN b.files = call.rest /\ \A f \in call.rest : b.files[f] = files[f]
  <2>1. [f \in call.rest |-> files[f]] \in SomeFiles
    BY <1>2 DEF Inv, WellTyped, SomeFiles
  <2> QED
    BY <2>1 DEF Backup, BackupFiles, Inv, WellTyped
<1>5. b # NoFile
  BY <1>4, BackupTypes
<1> HIDE DEF b
<1>6. backups'[call.id] = b /\ \A o \in Operations : o # call.id => backups'[o] = backups[o]
  BY <1>2, <1>3, <1>4 DEF Inv, WellTyped
<1>7. call' \in OpCalls /\ call'.pc = "reassign" /\ call'.id = call.id /\ call'.start = call.start /\ call'.rest = call.rest
  BY <1>1, <1>3 DEF OpCalls
<1>8. WellTyped'
  BY <1>3, <1>4, <1>6, <1>7 DEF Inv, WellTyped
<1>9. Running'
  BY <1>1, <1>3, <1>7 DEF Running
<1>10. ReassignInv'
  BY <1>1, <1>3, <1>4, <1>5, <1>6, <1>7, <1>9 DEF ReassignInv, At, Current, BackupOf, OthersAs, Project, Defined
<1>11. RestoreInv' /\ UnrestoreInv'
  BY <1>7 DEF RestoreInv, UnrestoreInv, At
<1>12. \A k \in 1 .. Len(journal) : journal[k].id # call.id /\ journal[k].id \in Operations
  BY <1>1, RunningNotLogged, JournalEntries
<1>13. JournalInv' /\ BackupsInv'
  BY <1>1, <1>3, <1>6, <1>12 DEF Inv, JournalInv, BackupsInv, Running, Faithful, BackupOf, DefinedIn
<1>14. OrphansInv'
  BY <1>1, <1>3, <1>6, <1>7 DEF Inv, OrphansInv, Logged, Idle, OpCalls
<1> QED
  BY <1>3, <1>8, <1>10, <1>11, <1>13, <1>14 DEF Inv

LEMMA ReassignFileKeeps == ASSUME Inv, ReassignFile PROVE Inv'
<1>1. PICK f \in call.rest, m \in Marks :
         /\ files' = [files EXCEPT ![f] = [types |-> Moved(files[f].types), mark |-> m]]
         /\ call' = [call EXCEPT !.rest = call.rest \ {f}]
  BY DEF ReassignFile
<1>2. call \in OpCalls /\ Running /\ At("reassign") /\ UNCHANGED <<catalog, known, journal, backups, past, crashes>>
  BY CallKinds DEF ReassignFile, At, Inv, ReassignInv, counters
<1>3. f \in Files /\ f \in DOMAIN Current.files
  BY <1>1, <1>2 DEF Inv, ReassignInv, At, OpCalls
<1>4. Moved(files[f].types) \subseteq Types
  BY <1>2, <1>3 DEF Moved, OpCalls, Inv, WellTyped, Contents
<1>5. files' \in [Files -> Contents] /\ \A g \in Files : g # f => files'[g] = files[g]
  BY <1>1, <1>3, <1>4 DEF Inv, WellTyped, Contents
<1>6. call' \in OpCalls /\ call'.pc = "reassign" /\ call'.id = call.id /\ call'.start = call.start
      /\ call'.rest = call.rest \ {f}
  BY <1>1, <1>2 DEF OpCalls, At
<1>7. WellTyped'
  BY <1>2, <1>5, <1>6 DEF Inv, WellTyped
<1>8. Running' /\ Current' = Current
  BY <1>2, <1>6 DEF Running, Current
<1>9. ReassignInv'
  BY <1>2, <1>3, <1>5, <1>6, <1>8 DEF Inv, ReassignInv, At, BackupOf, OthersAs, Defined
<1>10. RestoreInv' /\ UnrestoreInv'
  BY <1>6 DEF RestoreInv, UnrestoreInv, At
<1>11. JournalInv' /\ BackupsInv' /\ OrphansInv'
  BY <1>2, <1>6, BookkeepingKept DEF Inv, Idle
<1> QED
  BY <1>2, <1>7, <1>9, <1>10, <1>11 DEF Inv

LEMMA DeleteSourceKeeps == ASSUME Inv, DeleteSource PROVE Inv'
<1>1. PICK m \in Marks : catalog' = [types |-> Defined \ {call.source}, mark |-> m]
  BY DEF DeleteSource, WriteCatalog
<1>2. call \in OpCalls /\ Running /\ At("reassign") /\ UNCHANGED <<files, known, journal, backups, past, crashes>>
      /\ call' = [call EXCEPT !.pc = "seal"]
  BY CallKinds DEF DeleteSource, At, Inv, ReassignInv, counters
<1>3. Defined \subseteq Types
  BY Parameters DEF Inv, WellTyped, Defined, DefinedIn, Catalogs, Contents
<1>4. catalog' \in Contents /\ catalog' # NoFile
  BY <1>1, <1>3, Parameters DEF Contents
<1>5. Defined' \subseteq Defined
  BY <1>1, <1>4 DEF Defined, DefinedIn
<1>6. call' \in OpCalls /\ call'.pc = "seal" /\ call'.id = call.id /\ call'.start = call.start /\ call'.rest = call.rest
  BY <1>2 DEF OpCalls
<1>7. WellTyped'
  BY <1>2, <1>4, <1>6 DEF Inv, WellTyped, Catalogs
<1>8. Running' /\ Current' = Current
  BY <1>2, <1>6 DEF Running, Current
<1>9. ReassignInv'
  BY <1>2, <1>5, <1>6, <1>8 DEF Inv, ReassignInv, At, BackupOf, OthersAs
<1>10. RestoreInv' /\ UnrestoreInv'
  BY <1>6 DEF RestoreInv, UnrestoreInv, At
<1>11. JournalInv' /\ BackupsInv' /\ OrphansInv'
  BY <1>2, <1>6, BookkeepingKept DEF Inv, Idle
<1> QED
  BY <1>2, <1>7, <1>9, <1>10, <1>11 DEF Inv

\* What the files of a backup hold is a snapshot.
LEMMA StateTypes ==
    ASSUME Inv, NEW b \in BackupFiles
    PROVE  /\ State(b) \in Snapshots /\ State(b) # NoFile /\ State(b).catalog = catalog
           /\ DOMAIN State(b).files = DOMAIN b.files /\ \A f \in DOMAIN b.files : State(b).files[f] = files[f]
<1>1. [f \in DOMAIN b.files |-> files[f]] \in SomeFiles
  <2>1. DOMAIN b.files \in SUBSET Files
    BY BackupTypes
  <2>2. [f \in DOMAIN b.files |-> files[f]] \in [DOMAIN b.files -> Contents]
    BY <2>1 DEF Inv, WellTyped
  <2> QED
    BY <2>1, <2>2 DEF SomeFiles
<1> QED
  BY <1>1, Parameters DEF State, Snapshots, Inv, WellTyped

LEMMA SealBackupKeeps == ASSUME Inv, SealBackup PROVE Inv'
<1> DEFINE b == [Current EXCEPT !.post = State(Current)]
<1>1. call \in OpCalls /\ Running /\ At("seal") /\ Current # NoFile /\ call.id \in Operations
  BY CallKinds DEF SealBackup, At, Inv, ReassignInv, BackupOf, OpCalls
<1>2. Current \in BackupFiles
  BY <1>1 DEF Inv, WellTyped, Current
<1>3. backups' = [backups EXCEPT ![call.id] = b] /\ call' = [call EXCEPT !.pc = "log"]
      /\ UNCHANGED <<catalog, files, known, journal, past, crashes>>
  BY DEF SealBackup, data, counters, Current
<1>4. b \in BackupFiles /\ b.catalog = Current.catalog /\ b.files = Current.files /\ b.post = State(Current)
  BY <1>2, StateTypes DEF BackupFiles
<1>5. b # NoFile
  BY <1>4, BackupTypes
<1> HIDE DEF b
<1>6. backups'[call.id] = b /\ \A o \in Operations : o # call.id => backups'[o] = backups[o]
  BY <1>1, <1>3, <1>4 DEF Inv, WellTyped
<1>7. call' \in OpCalls /\ call'.pc = "log" /\ call'.id = call.id /\ call'.start = call.start /\ call'.rest = call.rest
  BY <1>1, <1>3 DEF OpCalls
<1>8. WellTyped'
  BY <1>3, <1>4, <1>6, <1>7 DEF Inv, WellTyped
<1>9. Running' /\ Current' = b
  BY <1>1, <1>3, <1>6, <1>7 DEF Running, Current
<1>10. b.post # NoFile /\ b.post.catalog = catalog /\ DOMAIN b.post.files = DOMAIN b.files
       /\ \A f \in DOMAIN b.files : b.post.files[f] = files[f]
  BY <1>2, <1>4, StateTypes
<1>11. BackupOf(b, call.start) /\ OthersAs(b, call.start) /\ call.rest \subseteq DOMAIN b.files
       /\ Defined \subseteq DefinedIn(b.catalog)
  BY <1>1, <1>4, <1>5 DEF Inv, ReassignInv, At, BackupOf, OthersAs
<1>12. ReassignInv'
  BY <1>3, <1>7, <1>9, <1>10, <1>11 DEF ReassignInv, At, Defined, BackupOf, OthersAs
<1>13. RestoreInv' /\ UnrestoreInv'
  BY <1>7 DEF RestoreInv, UnrestoreInv, At
<1>14. \A k \in 1 .. Len(journal) : journal[k].id # call.id /\ journal[k].id \in Operations
  BY <1>1, RunningNotLogged, JournalEntries
<1>15. JournalInv' /\ BackupsInv'
  BY <1>1, <1>3, <1>6, <1>14 DEF Inv, JournalInv, BackupsInv, Running, Faithful, BackupOf, DefinedIn
<1>16. OrphansInv'
  BY <1>1, <1>3, <1>6, <1>7 DEF Inv, OrphansInv, Logged, Idle, OpCalls
<1> QED
  BY <1>3, <1>8, <1>12, <1>13, <1>15, <1>16 DEF Inv

\* The newest entries are the end of the list, and all of it when it fits
\* (_append_type_operation, current[-200:]).
LEMMA NewestIsEnd ==
    ASSUME NEW seq \in Seq(Entries), seq # <<>>
    PROVE  \E low \in Nat :
              /\ Newest(seq) \in Seq(Entries) /\ Newest(seq) # <<>>
              /\ Len(Newest(seq)) + low = Len(seq) /\ Len(Newest(seq)) <= JournalLimit
              /\ low > 0 => Len(Newest(seq)) = JournalLimit
              /\ \A k \in 1 .. Len(Newest(seq)) : Newest(seq)[k] = seq[k + low]
<1>1. CASE Len(seq) <= JournalLimit
  <2>1. Newest(seq) = seq
    BY <1>1 DEF Newest
  <2> WITNESS 0 \in Nat
  <2> QED
    BY <2>1, <1>1
<1>2. CASE Len(seq) > JournalLimit
  <2> DEFINE low == Len(seq) - JournalLimit
  <2>1. low \in Nat /\ low > 0 /\ low + 1 \in 1 .. Len(seq)
    BY <1>2, Parameters
  <2>2. Newest(seq) = SubSeq(seq, low + 1, Len(seq))
    BY <1>2, Parameters DEF Newest
  <2>3. SubSeq(seq, low + 1, Len(seq)) \in Seq(Entries) /\ Len(SubSeq(seq, low + 1, Len(seq))) = JournalLimit
    BY <2>1, Parameters
  <2>4. \A k \in 1 .. JournalLimit : SubSeq(seq, low + 1, Len(seq))[k] = seq[k + low]
    BY <2>1, <2>3, Parameters
  <2>5. SubSeq(seq, low + 1, Len(seq)) # <<>>
    BY <2>3, Parameters
  <2>6. JournalLimit + low = Len(seq)
    BY Parameters
  <2> low \in Nat
    BY <2>1
  <2> HIDE DEF low
  <2> WITNESS low \in Nat
  <2> QED
    BY <2>1, <2>2, <2>3, <2>4, <2>5, <2>6, Parameters
<1> QED
  BY <1>1, <1>2, Parameters

LEMMA AppendJournalKeeps == ASSUME Inv, AppendJournal PROVE Inv'
<1> DEFINE e == [id |-> call.id, undone |-> FALSE]
           longer == Append(journal, e)
           p == [before |-> call.start, after |-> Project]
<1>1. call \in OpCalls /\ Running /\ At("log") /\ call.id \in Operations /\ call.start \in Projects
  BY CallKinds DEF AppendJournal, At, Inv, ReassignInv, OpCalls
<1>2. journal' = Newest(longer) /\ past' = [past EXCEPT ![call.id].after = Project] /\ call' = Idle
      /\ UNCHANGED <<catalog, files, known, backups, crashes>>
  BY DEF AppendJournal, data, counters
<1>3. Project \in Projects /\ Project # NoFile /\ Project.catalog = catalog /\ Project.files = files
  BY Parameters DEF Inv, WellTyped, Project, Projects
<1>4. past[call.id] \in Pasts
  BY <1>1 DEF Inv, WellTyped, Running
<1>5. past'[call.id] = p /\ p \in Pasts /\ p # NoFile /\ p.after # NoFile
      /\ \A o \in Operations : o # call.id => past'[o] = past[o]
  <2>1. past' = [past EXCEPT ![call.id] = [past[call.id] EXCEPT !.after = Project]]
    BY <1>2
  <2>2. [past[call.id] EXCEPT !.after = Project] = p
    BY <1>1, <1>4 DEF Pasts, Running
  <2>3. p \in Pasts /\ p # NoFile
    BY <1>1, <1>3, Parameters DEF Pasts
  <2> QED
    BY <2>1, <2>2, <2>3, <1>1, <1>3 DEF Inv, WellTyped
<1>6. longer \in Seq(Entries) /\ longer # <<>> /\ Len(longer) = Len(journal) + 1 /\ longer[Len(longer)] = e
      /\ \A k \in 1 .. Len(journal) : longer[k] = journal[k]
  <2>1. e \in Entries
    BY <1>1 DEF Entries
  <2> HIDE DEF e
  <2> QED
    BY <2>1 DEF Inv, WellTyped
<1> HIDE DEF longer
<1>7. PICK low \in Nat :
         /\ journal' \in Seq(Entries) /\ journal' # <<>>
         /\ Len(journal') + low = Len(longer) /\ Len(journal') <= JournalLimit
         /\ low > 0 => Len(journal') = JournalLimit
         /\ \A k \in 1 .. Len(journal') : journal'[k] = longer[k + low]
  BY <1>2, <1>6, NewestIsEnd
<1>8. Len(journal') \in Nat /\ Len(journal) \in Nat /\ \A k \in 1 .. Len(journal') : k + low \in 1 .. Len(journal) + 1
  BY <1>6, <1>7, JournalEntries
<1>9. \A k \in 1 .. Len(journal) : journal[k].id # call.id /\ journal[k].id \in Operations
  BY <1>1, RunningNotLogged, JournalEntries
<1>10. WellTyped'
  <2>1. past' \in [Operations -> Pasts \cup {NoFile}]
    BY <1>1, <1>2, <1>5 DEF Inv, WellTyped
  <2> QED
    BY <1>2, <1>7, <2>1 DEF Inv, WellTyped
<1>11. \A k \in 1 .. Len(journal) + 1 :
          /\ longer[k].id \in Operations
          /\ longer[k].id = call.id <=> k = Len(journal) + 1
          /\ k <= Len(journal) => longer[k] = journal[k]
          /\ past'[longer[k].id] # NoFile /\ past'[longer[k].id].after # NoFile
  <2> TAKE k \in 1 .. Len(journal) + 1
  <2>1. CASE k = Len(journal) + 1
    <3>1. longer[k] = e /\ e.id = call.id
      BY <2>1, <1>6
    <3> QED
      BY <3>1, <2>1, <1>1, <1>5, <1>8
  <2>2. CASE k \in 1 .. Len(journal)
    <3>1. longer[k] = journal[k] /\ journal[k].id # call.id /\ journal[k].id \in Operations /\ k # Len(journal) + 1
      BY <2>2, <1>6, <1>9, <1>8
    <3> QED
      BY <3>1, <2>2, <1>5 DEF Inv, JournalInv
  <2> QED
    BY <2>1, <2>2, <1>8
<1>12. \A j, k \in 1 .. Len(journal) + 1 : longer[j].id = longer[k].id => j = k
  <2> SUFFICES ASSUME NEW j \in 1 .. Len(journal) + 1, NEW k \in 1 .. Len(journal) + 1, longer[j].id = longer[k].id
               PROVE  j = k
    OBVIOUS
  <2>1. CASE j = Len(journal) + 1 \/ k = Len(journal) + 1
    BY <2>1, <1>11
  <2>2. CASE j \in 1 .. Len(journal) /\ k \in 1 .. Len(journal)
    BY <2>2, <1>6 DEF Inv, JournalInv
  <2> QED
    BY <2>1, <2>2, <1>8
<1>13. JournalInv'
  <2>1. \A j, k \in 1 .. Len(journal') : journal'[j].id = journal'[k].id => j = k
    <3> SUFFICES ASSUME NEW j \in 1 .. Len(journal'), NEW k \in 1 .. Len(journal'), journal'[j].id = journal'[k].id
                 PROVE  j = k
      OBVIOUS
    <3>1. j + low = k + low
      BY <1>7, <1>8, <1>12
    <3> QED
      BY <3>1, <1>8
  <2>2. \A k \in 1 .. Len(journal') : past'[journal'[k].id] # NoFile /\ past'[journal'[k].id].after # NoFile
    BY <1>7, <1>8, <1>11
  <2> QED
    BY <2>1, <2>2, <1>7 DEF JournalInv
<1>14. Faithful(Current, p)
  <2>1. /\ BackupOf(Current, call.start) /\ OthersAs(Current, call.start)
        /\ Defined \subseteq DefinedIn(Current.catalog)
        /\ Current.post # NoFile /\ Current.post.catalog = catalog
        /\ DOMAIN Current.post.files = DOMAIN Current.files
        /\ \A f \in DOMAIN Current.files : Current.post.files[f] = files[f]
    BY <1>1 DEF Inv, ReassignInv, At
  <2>2. p.before = call.start /\ p.after = Project
    OBVIOUS
  <2> HIDE DEF p
  <2> QED
    BY <2>1, <2>2, <1>3 DEF Faithful, OthersAs, Defined
<1> HIDE DEF p
<1>15. \A k \in 1 .. Len(journal) + 1 : ~longer[k].undone => Faithful(backups[longer[k].id], past'[longer[k].id])
  <2> TAKE k \in 1 .. Len(journal) + 1
  <2>1. CASE k = Len(journal) + 1
    BY <2>1, <1>5, <1>11, <1>14 DEF Current
  <2>2. CASE k \in 1 .. Len(journal)
    <3>1. longer[k] = journal[k] /\ past'[journal[k].id] = past[journal[k].id]
      BY <2>2, <1>5, <1>6, <1>9
    <3> QED
      BY <3>1, <2>2 DEF Inv, BackupsInv
  <2> QED
    BY <2>1, <2>2, <1>8
<1>16. BackupsInv'
  <2>1. \A k \in 1 .. Len(journal') : ~journal'[k].undone => Faithful(backups[journal'[k].id], past'[journal'[k].id])
    BY <1>7, <1>8, <1>15
  <2>2. \A o \in Operations : past'[o] = NoFile => backups[o] = NoFile
    BY <1>5 DEF Inv, BackupsInv
  <2> QED
    BY <1>2, <2>1, <2>2, BackupsNext
<1>17. OrphansInv'
  <2> SUFFICES ASSUME NEW o \in Operations, o \notin Logged', backups[o] # NoFile, ~(crashes > 0)
               PROVE  Len(journal') = JournalLimit
    BY <1>2 DEF OrphansInv
  <2>1. \A k \in 1 .. Len(journal') : journal'[k].id # o
    BY <1>7 DEF Logged
  <2>2. CASE low > 0
    BY <2>2, <1>7
  <2>3. CASE low = 0
    <3>1. Len(journal') = Len(journal) + 1 /\ \A k \in 1 .. Len(journal') : journal'[k] = longer[k]
      BY <2>3, <1>6, <1>7, <1>8
    <3>2. o # call.id /\ \A k \in 1 .. Len(journal) : journal[k].id # o
      <4>1. longer[Len(journal) + 1].id = call.id /\ Len(journal) + 1 \in 1 .. Len(journal')
        BY <3>1, <1>8, <1>11
      <4>2. o # call.id
        BY <4>1, <3>1, <2>1
      <4>3. \A k \in 1 .. Len(journal) : k \in 1 .. Len(journal') /\ longer[k] = journal[k]
        BY <3>1, <1>8, <1>6
      <4> QED
        BY <4>2, <4>3, <3>1, <2>1
    <3>3. o \notin Logged
      BY <3>2, JournalEntries DEF Logged
    <3>4. Len(journal) = JournalLimit
      BY <3>2, <3>3 DEF Inv, OrphansInv
    <3> QED
      BY <3>1, <3>4, <1>7, <1>8, Parameters
  <2> QED
    BY <2>2, <2>3
<1>18. ReassignInv' /\ RestoreInv' /\ UnrestoreInv'
  BY <1>2, IdleInv
<1> QED
  BY <1>2, <1>10, <1>13, <1>16, <1>17, <1>18 DEF Inv

-----------------------------------------------------------------------------
(* undo_last_reassignment, and putting back what a failed operation did. *)

\* What the last entry of the journal can be undone from.
LEMMA LastEntry ==
    ASSUME Inv, journal # <<>>, ~journal[Len(journal)].undone
    PROVE  /\ Len(journal) \in 1 .. Len(journal)
           /\ journal[Len(journal)] = [id |-> journal[Len(journal)].id, undone |-> FALSE]
           /\ Faithful(backups[journal[Len(journal)].id], past[journal[Len(journal)].id])
           /\ journal[Len(journal)].id \in Logged /\ journal[Len(journal)].id \in Operations
<1>1. Len(journal) \in 1 .. Len(journal)
  BY DEF Inv, WellTyped
<1>2. journal[Len(journal)] \in Entries
  BY <1>1, JournalEntries
<1>3. journal[Len(journal)] = [id |-> journal[Len(journal)].id, undone |-> FALSE]
  BY <1>2 DEF Entries
<1>4. journal[Len(journal)].id \in Logged
  BY <1>1, JournalEntries DEF Logged
<1> QED
  BY <1>1, <1>2, <1>3, <1>4 DEF Inv, BackupsInv, Entries

LEMMA BeginUndoKeeps == ASSUME Inv, BeginUndo PROVE Inv'
<1> DEFINE o == journal[Len(journal)].id
<1>1. call = Idle /\ journal # <<>> /\ ~journal[Len(journal)].undone
      /\ backups[o] # NoFile /\ State(backups[o]) = backups[o].post
      /\ call' = [pc |-> "catalog", id |-> o, undo |-> TRUE, rest |-> DOMAIN backups[o].files, start |-> Project]
      /\ UNCHANGED <<catalog, files, known, journal, backups, past, crashes>>
  BY DEF BeginUndo, Unchanged, data, counters
<1>2. Faithful(backups[o], past[o]) /\ o \in Operations /\ journal[Len(journal)] = [id |-> o, undone |-> FALSE]
  BY <1>1, LastEntry
<1>3. backups[o] \in BackupFiles
  BY <1>1, <1>2 DEF Inv, WellTyped
<1>4. Project \in Projects /\ Project.catalog = catalog /\ Project.files = files
  BY DEF Inv, WellTyped, Project, Projects
<1> HIDE DEF o
<1>5. call' \in RestoreCalls /\ call'.pc = "catalog" /\ call'.id = o /\ call'.undo = TRUE
      /\ call'.rest = DOMAIN backups[o].files /\ call'.start = Project
  BY <1>1, <1>2, <1>3, <1>4, BackupTypes DEF RestoreCalls
<1>6. WellTyped'
  BY <1>1, <1>5 DEF Inv, WellTyped
<1>7. /\ backups[o].post.catalog = catalog
      /\ \A f \in DOMAIN backups[o].files : backups[o].post.files[f] = files[f]
  BY <1>1, <1>3, StateTypes
<1>8. Defined \subseteq DefinedIn(backups[o].catalog)
  BY <1>2, <1>7 DEF Faithful, Defined
<1>9. RestoreInv'
  BY <1>1, <1>2, <1>4, <1>5, <1>7, <1>8 DEF RestoreInv, At, Current, OthersAs, Defined
<1>10. ReassignInv' /\ UnrestoreInv'
  BY <1>5 DEF ReassignInv, UnrestoreInv, At, OpCalls
<1>11. JournalInv' /\ BackupsInv' /\ OrphansInv'
  BY <1>1, <1>5, BookkeepingKept DEF Inv, Idle, RestoreCalls
<1> QED
  BY <1>1, <1>6, <1>9, <1>10, <1>11 DEF Inv

\* What a call that restores looks like.
LEMMA Restoring ==
    ASSUME Inv, call.pc \in {"catalog", "restore", "uncatalog", "unrestore"}
    PROVE  /\ call \in RestoreCalls /\ call.id \in Operations /\ Current \in BackupFiles
           /\ call.start \in Projects /\ call # Idle
<1>1. call \in RestoreCalls
  BY CallKinds DEF Inv
<1>2. call.id \in Operations /\ call.start \in Projects
  BY <1>1 DEF RestoreCalls
<1>3. Current # NoFile
  BY DEF Inv, RestoreInv, UnrestoreInv
<1> QED
  BY <1>1, <1>2, <1>3 DEF Inv, WellTyped, Current, Idle

LEMMA RestoreCatalogKeeps == ASSUME Inv, RestoreCatalog PROVE Inv'
<1>1. At("catalog") /\ catalog' = Current.catalog /\ call' = [call EXCEPT !.pc = "restore"]
      /\ UNCHANGED <<files, known, journal, backups, past, crashes>>
  BY DEF RestoreCatalog, counters, Current
<1>2. call \in RestoreCalls /\ Current \in BackupFiles /\ call # Idle
  BY <1>1, Restoring DEF At
<1>3. call' \in RestoreCalls /\ call'.pc = "restore" /\ call'.id = call.id /\ call'.undo = call.undo
      /\ call'.rest = call.rest /\ call'.start = call.start
  BY <1>1, <1>2 DEF RestoreCalls
<1>4. WellTyped'
  BY <1>1, <1>2, <1>3, BackupTypes DEF Inv, WellTyped
<1>5. RestoreInv'
  BY <1>1, <1>3 DEF Inv, RestoreInv, At, Current, OthersAs, BackupOf, Running
<1>6. ReassignInv' /\ UnrestoreInv'
  BY <1>3 DEF ReassignInv, UnrestoreInv, At, OpCalls
<1>7. JournalInv' /\ BackupsInv' /\ OrphansInv'
  BY <1>1, <1>2, <1>3, BookkeepingKept DEF Inv, Idle
<1> QED
  BY <1>1, <1>4, <1>5, <1>6, <1>7 DEF Inv

LEMMA RestoreFileKeeps == ASSUME Inv, RestoreFile PROVE Inv'
<1>1. PICK f \in call.rest :
         files' = [files EXCEPT ![f] = Current.files[f]] /\ call' = [call EXCEPT !.rest = call.rest \ {f}]
  BY DEF RestoreFile, Current
<1>2. At("restore") /\ UNCHANGED <<catalog, known, journal, backups, past, crashes>>
  BY DEF RestoreFile, counters
<1>3. call \in RestoreCalls /\ Current \in BackupFiles /\ call # Idle
  BY <1>2, Restoring DEF At
<1>4. f \in DOMAIN Current.files /\ f \in Files /\ Current.files[f] \in Contents
  BY <1>1, <1>2, <1>3, BackupTypes DEF Inv, RestoreInv, At
<1>5. files' \in [Files -> Contents] /\ files'[f] = Current.files[f] /\ \A g \in Files : g # f => files'[g] = files[g]
  BY <1>1, <1>4 DEF Inv, WellTyped
<1>6. call' \in RestoreCalls /\ call'.pc = "restore" /\ call'.id = call.id /\ call'.undo = call.undo
      /\ call'.rest = call.rest \ {f} /\ call'.start = call.start
  BY <1>1, <1>2, <1>3 DEF RestoreCalls, At
<1>7. WellTyped'
  BY <1>2, <1>5, <1>6 DEF Inv, WellTyped
<1>8. Current' = Current /\ DOMAIN Current.files \subseteq Files
  BY <1>2, <1>3, <1>6, BackupTypes DEF Current
<1>9. OthersAs(Current, call.start)'
  BY <1>2, <1>4, <1>5, <1>6, <1>8 DEF Inv, RestoreInv, At, OthersAs
<1>10. \A g \in DOMAIN Current.files \ call'.rest : files'[g] = Current.files[g]
  BY <1>2, <1>5, <1>6, <1>8 DEF Inv, RestoreInv, At
<1>11. RestoreInv'
  BY <1>2, <1>6, <1>8, <1>9, <1>10 DEF Inv, RestoreInv, At, BackupOf, Running
<1>12. ReassignInv' /\ UnrestoreInv'
  BY <1>6 DEF ReassignInv, UnrestoreInv, At, OpCalls
<1>13. JournalInv' /\ BackupsInv' /\ OrphansInv'
  BY <1>2, <1>3, <1>6, BookkeepingKept DEF Inv, Idle
<1> QED
  BY <1>2, <1>7, <1>11, <1>12, <1>13 DEF Inv

\* What marking an entry as undone makes of it.
LEMMA Marked == ASSUME NEW e \in Entries PROVE [e EXCEPT !.undone = TRUE] = [id |-> e.id, undone |-> TRUE]
<1> DEFINE marked == [e EXCEPT !.undone = TRUE]
<1>1. marked \in Entries /\ marked.id = e.id
  BY DEF Entries
<1>2. marked.undone = TRUE
  BY Zenon DEF Entries
<1> HIDE DEF marked
<1>3. marked = [id |-> marked.id, undone |-> marked.undone]
  BY <1>1 DEF Entries
<1> QED
  BY <1>1, <1>2, <1>3, Zenon DEF marked

LEMMA MarkUndoneKeeps == ASSUME Inv, MarkUndone PROVE Inv'
<1> DEFINE n == Len(journal)
<1>1. At("restore") /\ call.undo /\ journal' = [journal EXCEPT ![n].undone = TRUE]
      /\ call' = [call EXCEPT !.pc = "drop"]
      /\ UNCHANGED <<catalog, files, known, backups, past, crashes>>
  BY DEF MarkUndone, data, counters
<1>2. call \in RestoreCalls /\ call # Idle
  BY <1>1, Restoring DEF At
<1>3. journal # <<>> /\ journal[n] = [id |-> call.id, undone |-> FALSE] /\ n \in 1 .. n
  BY <1>1 DEF Inv, RestoreInv, At, WellTyped
<1>4. [journal[n] EXCEPT !.undone = TRUE] = [id |-> call.id, undone |-> TRUE]
  <2>1. journal[n] \in Entries /\ journal[n].id = call.id
    BY <1>2, <1>3 DEF RestoreCalls, Entries
  <2>2. [journal[n] EXCEPT !.undone = TRUE] = [id |-> journal[n].id, undone |-> TRUE]
    BY <2>1, Marked
  <2> QED
    BY <2>1, <2>2
<1>5. journal' = [journal EXCEPT ![n] = [id |-> call.id, undone |-> TRUE]]
  BY <1>1, <1>4
<1>6. journal' \in Seq(Entries) /\ Len(journal') = n /\ journal'[n] = [id |-> call.id, undone |-> TRUE]
      /\ journal' # <<>> /\ \A k \in 1 .. n : k # n => journal'[k] = journal[k]
  <2>1. [id |-> call.id, undone |-> TRUE] \in Entries
    BY <1>2 DEF RestoreCalls, Entries
  <2> QED
    BY <2>1, <1>3, <1>5 DEF Inv, WellTyped
<1>7. \A k \in 1 .. n : journal'[k].id = journal[k].id /\ (~journal'[k].undone => ~journal[k].undone)
  BY <1>3, <1>6
<1>8. call' \in RestoreCalls /\ call'.pc = "drop" /\ call'.id = call.id
  BY <1>1, <1>2 DEF RestoreCalls
<1>9. WellTyped'
  BY <1>1, <1>6, <1>8 DEF Inv, WellTyped
<1>10. ReassignInv' /\ RestoreInv'
  BY <1>8 DEF ReassignInv, RestoreInv, At, OpCalls
<1>11. UnrestoreInv'
  BY <1>6, <1>8 DEF UnrestoreInv, At
<1>12. JournalInv'
  BY <1>1, <1>6, <1>7 DEF Inv, JournalInv
<1>13. BackupsInv'
  <2>1. \A k \in 1 .. Len(journal') :
           ~journal'[k].undone => Faithful(backups'[journal'[k].id], past'[journal'[k].id])
    BY <1>1, <1>6, <1>7 DEF Inv, BackupsInv
  <2> QED
    BY <2>1, <1>1, BackupsNext DEF Inv, BackupsInv
<1>14. Logged' = Logged
  <2>1. DOMAIN journal' = 1 .. n /\ DOMAIN journal = 1 .. n
    BY <1>6, JournalEntries DEF Inv, WellTyped
  <2> QED
    BY <2>1, <1>7 DEF Logged
<1>15. OrphansInv'
  BY <1>1, <1>2, <1>6, <1>8, <1>14 DEF Inv, OrphansInv, Idle, RestoreCalls
<1> QED
  BY <1>1, <1>9, <1>10, <1>11, <1>12, <1>13, <1>15 DEF Inv

\* The backup of an operation that is undone, or was never logged, may go.
LEMMA DroppingKeeps ==
    ASSUME Inv, call \in RestoreCalls, call' = Idle, backups' = [backups EXCEPT ![call.id] = NoFile],
           UNCHANGED <<catalog, files, known, journal, past, crashes>>,
           \A k \in 1 .. Len(journal) : journal[k].id = call.id => journal[k].undone
    PROVE  Inv'
<1>1. call.id \in Operations /\ call # Idle
  BY DEF RestoreCalls, Idle
<1>2. backups' \in [Operations -> BackupFiles \cup {NoFile}] /\ backups'[call.id] = NoFile
      /\ \A o \in Operations : o # call.id => backups'[o] = backups[o]
  BY <1>1 DEF Inv, WellTyped
<1>3. WellTyped'
  BY <1>2 DEF Inv, WellTyped
<1>4. ReassignInv' /\ RestoreInv' /\ UnrestoreInv'
  BY IdleInv
<1>5. JournalInv'
  BY DEF Inv, JournalInv
<1>6. BackupsInv'
  <2>1. \A k \in 1 .. Len(journal) : ~journal[k].undone => Faithful(backups'[journal[k].id], past[journal[k].id])
    BY <1>2, JournalEntries DEF Inv, BackupsInv
  <2>2. \A o \in Operations : past[o] = NoFile => backups'[o] = NoFile
    BY <1>2 DEF Inv, BackupsInv
  <2> QED
    BY <2>1, <2>2, BackupsNext
<1>7. OrphansInv'
  BY <1>1, <1>2 DEF Inv, OrphansInv, Logged
<1> QED
  BY <1>3, <1>4, <1>5, <1>6, <1>7 DEF Inv

LEMMA DropBackupKeeps == ASSUME Inv, DropBackup PROVE Inv'
<1>1. call \in RestoreCalls /\ At("drop")
  BY CallKinds DEF DropBackup, At, Inv
<1>2. journal # <<>> /\ journal[Len(journal)].id = call.id /\ journal[Len(journal)].undone
  BY <1>1 DEF Inv, UnrestoreInv
<1>3. Len(journal) \in 1 .. Len(journal)
  BY <1>2 DEF Inv, WellTyped
<1>4. \A k \in 1 .. Len(journal) : journal[k].id = call.id => journal[k].undone
  BY <1>2, <1>3 DEF Inv, JournalInv
<1> QED
  BY <1>1, <1>4, DroppingKeeps DEF DropBackup, data, counters

LEMMA RollBackEndKeeps == ASSUME Inv, RolledBack PROVE Inv'
<1>1. call \in RestoreCalls /\ At("restore") /\ ~call.undo
  BY CallKinds DEF RolledBack, At, Inv
<1>2. Running
  BY <1>1 DEF Inv, RestoreInv, At
<1>3. \A k \in 1 .. Len(journal) : journal[k].id = call.id => journal[k].undone
  BY <1>2, RunningNotLogged
<1> QED
  BY <1>1, <1>3, DroppingKeeps DEF RolledBack, data, counters

-----------------------------------------------------------------------------
(* Failures. *)

LEMMA FailReassignKeeps == ASSUME Inv, FailReassign PROVE Inv'
<1>1. UNCHANGED <<catalog, files, known, journal, backups, past, crashes>>
  BY DEF FailReassign, Fail, data
<1>2. CASE At("backup") /\ call' = Idle
  <2>1. WellTyped' /\ ReassignInv' /\ RestoreInv' /\ UnrestoreInv'
    BY <1>1, <1>2, IdleInv DEF Inv, WellTyped
  <2>2. Current = NoFile
    BY <1>2 DEF Inv, ReassignInv
  <2>3. JournalInv' /\ BackupsInv' /\ OrphansInv'
    BY <1>1, <1>2, <2>2, BookkeepingKept DEF Inv
  <2> QED
    BY <1>1, <2>1, <2>3 DEF Inv
<1>3. CASE call.pc \in {"reassign", "seal", "log"} /\ RollBack
  <2>1. call \in OpCalls /\ Running /\ call # Idle
    BY <1>3, CallKinds DEF Inv, ReassignInv, Idle, OpCalls
  <2>2. call.id \in Operations /\ call.start \in Projects /\ Current # NoFile
    BY <1>3, <2>1 DEF OpCalls, Inv, ReassignInv, BackupOf
  <2>3. Current \in BackupFiles
    BY <2>2 DEF Inv, WellTyped, Current
  <2>4. call' = [pc |-> "catalog", id |-> call.id, undo |-> FALSE, rest |-> DOMAIN Current.files, start |-> call.start]
    BY <1>3 DEF RollBack, Current
  <2>5. call' \in RestoreCalls /\ call'.pc = "catalog" /\ call'.id = call.id /\ call'.undo = FALSE
        /\ call'.rest = DOMAIN Current.files /\ call'.start = call.start
    BY <2>2, <2>3, <2>4, BackupTypes DEF RestoreCalls
  <2>6. WellTyped'
    BY <1>1, <2>5 DEF Inv, WellTyped
  <2>7. BackupOf(Current, call.start) /\ OthersAs(Current, call.start) /\ Defined \subseteq DefinedIn(Current.catalog)
    BY <1>3 DEF Inv, ReassignInv
  <2>8. RestoreInv'
    BY <1>1, <2>1, <2>5, <2>7 DEF RestoreInv, At, Current, OthersAs, BackupOf, Running, Defined
  <2>9. ReassignInv' /\ UnrestoreInv'
    BY <2>5 DEF ReassignInv, UnrestoreInv, At, OpCalls
  <2>10. JournalInv' /\ BackupsInv' /\ OrphansInv'
    BY <1>1, <2>1, <2>5, BookkeepingKept DEF Inv, Idle
  <2> QED
    BY <1>1, <2>6, <2>8, <2>9, <2>10 DEF Inv
<1> QED
  BY <1>2, <1>3 DEF FailReassign, At

\* The operation that is undone is in the journal.
LEMMA UndoneIsLogged ==
    ASSUME Inv, (call.pc \in {"catalog", "restore"} /\ call.undo) \/ At("drop")
    PROVE  call.id \in Logged
<1>1. journal # <<>> /\ journal[Len(journal)].id = call.id
  BY DEF Inv, RestoreInv, UnrestoreInv, At
<1>2. Len(journal) \in 1 .. Len(journal)
  BY <1>1 DEF Inv, WellTyped
<1> QED
  BY <1>1, <1>2, JournalEntries DEF Logged

LEMMA FailUndoKeeps == ASSUME Inv, FailUndo PROVE Inv'
<1>1. call.pc \in {"catalog", "restore"} /\ call.undo
      /\ call' = [call EXCEPT !.pc = "uncatalog", !.rest = DOMAIN Current.files]
      /\ UNCHANGED <<catalog, files, known, journal, backups, past, crashes>>
  BY DEF FailUndo, Fail, At, data, Current
<1>2. call \in RestoreCalls /\ Current \in BackupFiles /\ call # Idle /\ call.id \in Logged
  BY <1>1, Restoring, UndoneIsLogged
<1>3. call' \in RestoreCalls /\ call'.pc = "uncatalog" /\ call'.id = call.id /\ call'.start = call.start
      /\ call'.rest = DOMAIN Current.files
  BY <1>1, <1>2, BackupTypes DEF RestoreCalls
<1>4. WellTyped'
  BY <1>1, <1>3 DEF Inv, WellTyped
<1>5. Current # NoFile /\ OthersAs(Current, call.start)
  BY <1>1 DEF Inv, RestoreInv
<1>6. UnrestoreInv'
  BY <1>1, <1>2, <1>3, <1>5 DEF UnrestoreInv, At, Current, OthersAs, Logged
<1>7. ReassignInv' /\ RestoreInv'
  BY <1>3 DEF ReassignInv, RestoreInv, At, OpCalls
<1>8. call' # Idle
  BY <1>3 DEF Idle
<1>9. JournalInv' /\ BackupsInv' /\ OrphansInv'
  BY <1>1, <1>3, <1>8, BookkeepingKept DEF Inv
<1> QED
  BY <1>1, <1>4, <1>6, <1>7, <1>9 DEF Inv

LEMMA UnrestoreCatalogKeeps == ASSUME Inv, UnrestoreCatalog PROVE Inv'
<1>1. At("uncatalog") /\ catalog' = call.start.catalog /\ call' = [call EXCEPT !.pc = "unrestore"]
      /\ UNCHANGED <<files, known, journal, backups, past, crashes>>
  BY DEF UnrestoreCatalog, counters
<1>2. call \in RestoreCalls /\ call.start \in Projects /\ call # Idle
  BY <1>1, Restoring DEF At
<1>3. call' \in RestoreCalls /\ call'.pc = "unrestore" /\ call'.id = call.id /\ call'.rest = call.rest
      /\ call'.start = call.start
  BY <1>1, <1>2 DEF RestoreCalls
<1>4. WellTyped'
  BY <1>1, <1>2, <1>3 DEF Inv, WellTyped, Projects
<1>5. UnrestoreInv'
  BY <1>1, <1>3 DEF Inv, UnrestoreInv, At, Current, OthersAs, Logged
<1>6. ReassignInv' /\ RestoreInv'
  BY <1>3 DEF ReassignInv, RestoreInv, At, OpCalls
<1>7. JournalInv' /\ BackupsInv' /\ OrphansInv'
  BY <1>1, <1>2, <1>3, BookkeepingKept DEF Inv, Idle
<1> QED
  BY <1>1, <1>4, <1>5, <1>6, <1>7 DEF Inv

LEMMA UnrestoreFileKeeps == ASSUME Inv, UnrestoreFile PROVE Inv'
<1>1. PICK f \in call.rest :
         files' = [files EXCEPT ![f] = call.start.files[f]] /\ call' = [call EXCEPT !.rest = call.rest \ {f}]
  BY DEF UnrestoreFile
<1>2. At("unrestore") /\ UNCHANGED <<catalog, known, journal, backups, past, crashes>>
  BY DEF UnrestoreFile, counters
<1>3. call \in RestoreCalls /\ Current \in BackupFiles /\ call.start \in Projects /\ call # Idle
  BY <1>2, Restoring DEF At
<1>4. f \in Files /\ call.start.files[f] \in Contents
  BY <1>1, <1>3 DEF RestoreCalls, Projects
<1>5. files' \in [Files -> Contents] /\ files'[f] = call.start.files[f]
      /\ \A g \in Files : g # f => files'[g] = files[g]
  BY <1>1, <1>4 DEF Inv, WellTyped
<1>6. call' \in RestoreCalls /\ call'.pc = "unrestore" /\ call'.id = call.id
      /\ call'.rest = call.rest \ {f} /\ call'.start = call.start
  BY <1>1, <1>2, <1>3 DEF RestoreCalls, At
<1>7. WellTyped'
  BY <1>2, <1>5, <1>6 DEF Inv, WellTyped
<1>8. Current' = Current /\ DOMAIN Current.files \subseteq Files /\ Logged' = Logged
  BY <1>2, <1>3, <1>6, BackupTypes DEF Current, Logged
<1>9. OthersAs(Current, call.start)'
  BY <1>2, <1>5, <1>6, <1>8 DEF Inv, UnrestoreInv, At, OthersAs
<1>10. \A g \in DOMAIN Current.files \ call'.rest : files'[g] = call.start.files[g]
  BY <1>2, <1>5, <1>6, <1>8 DEF Inv, UnrestoreInv, At
<1>11. UnrestoreInv'
  BY <1>2, <1>6, <1>8, <1>9, <1>10 DEF Inv, UnrestoreInv, At
<1>12. ReassignInv' /\ RestoreInv'
  BY <1>6 DEF ReassignInv, RestoreInv, At, OpCalls
<1>13. JournalInv' /\ BackupsInv' /\ OrphansInv'
  BY <1>2, <1>3, <1>6, BookkeepingKept DEF Inv, Idle
<1> QED
  BY <1>2, <1>7, <1>11, <1>12, <1>13 DEF Inv

\* A call that ends where it is.
LEMMA EndingKeeps ==
    ASSUME Inv, call' = Idle, UNCHANGED <<catalog, files, known, journal, backups, past>>,
           crashes' \in Nat, crashes' >= crashes, call.id \in Logged \/ crashes' > 0
    PROVE  Inv'
<1>1. WellTyped' /\ ReassignInv' /\ RestoreInv' /\ UnrestoreInv'
  BY IdleInv DEF Inv, WellTyped
<1>2. JournalInv' /\ BackupsInv' /\ OrphansInv'
  BY BookkeepingKept
<1> QED
  BY <1>1, <1>2 DEF Inv

LEMMA EndingsKeep == ASSUME Inv, Unrestored \/ FailMark \/ Crash PROVE Inv'
<1>1. crashes \in Nat
  BY DEF Inv
<1>2. CASE Unrestored
  <2>1. call.id \in Logged
    BY <1>2 DEF Unrestored, At, Inv, UnrestoreInv
  <2> QED
    BY <1>1, <1>2, <2>1, EndingKeeps DEF Unrestored, data, counters
<1>3. CASE FailMark
  <2>1. call.id \in Logged
    BY <1>3, UndoneIsLogged DEF FailMark, At
  <2> QED
    BY <1>1, <1>3, <2>1, EndingKeeps DEF FailMark, Fail, data
<1>4. CASE Crash
  BY <1>1, <1>4, EndingKeeps DEF Crash, data
<1> QED
  BY <1>2, <1>3, <1>4

LEMMA InvStep == Inv /\ [Next]_vars => Inv'
<1> SUFFICES ASSUME Inv, [Next]_vars PROVE Inv'
  OBVIOUS
<1>1. CASE UNCHANGED vars
  <2>1. UNCHANGED <<catalog, files, known, journal, backups, call, past, crashes>>
    BY <1>1 DEF vars, data, counters
  <2>2. WellTyped' /\ OrphansInv'
    BY <2>1 DEF Inv, WellTyped, OrphansInv, Logged
  <2>3. ReassignInv' /\ RestoreInv' /\ UnrestoreInv'
    BY <2>1 DEF Inv, ReassignInv, RestoreInv, UnrestoreInv, At, Current, Running, BackupOf, OthersAs, Project, Defined,
       Logged
  <2>4. JournalInv' /\ BackupsInv'
    BY <2>1, BackupsNext DEF Inv, JournalInv, BackupsInv
  <2> QED
    BY <2>1, <2>2, <2>3, <2>4 DEF Inv
<1>2. CASE Upsert \/ Delete \/ EditIntervals
  BY <1>2, ChangesKeep
<1>3. CASE Reassign
  BY <1>3, BeginReassignKeeps, WriteBackupKeeps, ReassignFileKeeps, DeleteSourceKeeps, SealBackupKeeps,
     AppendJournalKeeps, FailReassignKeeps, RollBackEndKeeps DEF Reassign
<1>4. CASE Undo
  BY <1>4, BeginUndoKeeps, RestoreCatalogKeeps, RestoreFileKeeps, MarkUndoneKeeps, DropBackupKeeps,
     FailUndoKeeps, UnrestoreCatalogKeeps, UnrestoreFileKeeps, EndingsKeep DEF Undo
<1>5. CASE Crash
  BY <1>5, EndingsKeep
<1> QED
  BY <1>1, <1>2, <1>3, <1>4, <1>5 DEF Next

LEMMA InvAlways == Spec => []Inv
BY InvInit, InvStep, PTL DEF Spec

-----------------------------------------------------------------------------
\* The catalog, the intervals, the journal and the backups keep their types and
\* the journal its length (_append_type_operation).
THEOREM TypesKept == Spec => []TypeOK
<1>1. Inv => TypeOK
  <2> SUFFICES ASSUME Inv PROVE TypeOK
    OBVIOUS
  <2>1. \A k \in DOMAIN journal : journal[k] \in Entries
    BY JournalEntries
  <2> QED
    BY <2>1 DEF TypeOK, Inv, WellTyped, JournalInv
<1> QED
  BY <1>1, InvAlways, PTL

\* What the journal offers to undo has its sealed backup, and no other backup is
\* left but by a crash or a full journal (reassign_and_delete,
\* undo_last_reassignment).
THEOREM JournalAlwaysBacked == Spec => []JournalBacked
<1>1. Inv => JournalBacked
  <2> SUFFICES ASSUME Inv, call = Idle PROVE
         /\ \A k \in DOMAIN journal : ~journal[k].undone =>
               backups[journal[k].id] # NoFile /\ backups[journal[k].id].post # NoFile
         /\ \A o \in Operations \ Logged : backups[o] # NoFile => crashes > 0 \/ Len(journal) = JournalLimit
    BY DEF JournalBacked
  <2>1. \A k \in DOMAIN journal : ~journal[k].undone =>
           backups[journal[k].id] # NoFile /\ backups[journal[k].id].post # NoFile
    BY JournalEntries DEF Inv, BackupsInv, Faithful, BackupOf
  <2> QED
    BY <2>1 DEF Inv, OrphansInv
<1> QED
  BY <1>1, InvAlways, PTL

\* A type leaves the catalog only when no interval has it, but for the moment in
\* which a failed undo is taken back (repository.delete).
LEMMA DeletedUnusedStep ==
    Inv /\ [Next]_vars =>
        [\A t \in Types : t \in Defined /\ t \notin Defined' =>
            At("uncatalog") \/ \A f \in Files : t \notin files'[f].types]_vars
<1> SUFFICES ASSUME Inv, Next, NEW t \in Types, t \in Defined, t \notin Defined', ~At("uncatalog")
             PROVE  \A f \in Files : t \notin files'[f].types
  OBVIOUS
<1>1. catalog' # catalog
  BY DEF Defined
<1>2. Upsert \/ Delete \/ DeleteSource \/ RestoreCatalog
  BY <1>1 DEF Next, EditIntervals, Reassign, BeginReassign, WriteBackup, ReassignFile, SealBackup, AppendJournal,
     FailReassign, RolledBack, Undo, BeginUndo, RestoreFile, MarkUndone, DropBackup, FailUndo, UnrestoreCatalog,
     UnrestoreFile, Unrestored, FailMark, Crash, data
<1>3. ASSUME NEW types \in SUBSET Types, WriteCatalog(types) PROVE Defined' = types
  BY <1>3, Parameters DEF WriteCatalog, Defined, DefinedIn, Contents
<1>4. Defined \subseteq Types
  BY Parameters DEF Inv, WellTyped, Defined, DefinedIn, Catalogs, Contents
<1>5. ~Upsert
  <2> SUFFICES ASSUME Upsert PROVE FALSE
    OBVIOUS
  <2>1. PICK u \in Types : WriteCatalog(Defined \cup {u})
    BY DEF Upsert
  <2> QED
    BY <2>1, <1>3, <1>4
<1>6. ~RestoreCatalog
  BY DEF RestoreCatalog, Inv, RestoreInv, At, Current, Defined
<1>7. CASE Delete
  <2>1. PICK u \in Defined : Using(u) = {} /\ WriteCatalog(Defined \ {u})
    BY <1>7 DEF Delete
  <2>2. t = u
    BY <2>1, <1>3, <1>4
  <2> QED
    BY <2>1, <2>2, <1>7 DEF Delete, Using
<1>8. CASE DeleteSource
  <2>1. Using(call.source) = {} /\ WriteCatalog(Defined \ {call.source}) /\ UNCHANGED files
    BY <1>8 DEF DeleteSource
  <2>2. t = call.source
    BY <2>1, <1>3, <1>4
  <2> QED
    BY <2>1, <2>2 DEF Using
<1> QED
  BY <1>2, <1>5, <1>6, <1>7, <1>8

THEOREM DeletedTypesUnused == Spec => DeletedUnused
BY DeletedUnusedStep, InvAlways, PTL DEF Spec, DeletedUnused

\* An operation that reports an error leaves the catalog and the intervals as
\* it found them, whichever of its writes failed (reassign_and_delete,
\* undo_last_reassignment).
LEMMA FailureAtomicStep ==
    Inv /\ [Next]_vars =>
        [(RolledBack \/ Unrestored \/ (FailReassign /\ At("backup"))) =>
            catalog' = call.start.catalog /\ files' = call.start.files]_vars
<1> SUFFICES ASSUME Inv, RolledBack \/ Unrestored \/ (FailReassign /\ At("backup"))
             PROVE  catalog' = call.start.catalog /\ files' = call.start.files
  OBVIOUS
<1>1. catalog' = catalog /\ files' = files
  BY DEF RolledBack, Unrestored, FailReassign, data
<1>2. files \in [Files -> Contents]
  BY DEF Inv, WellTyped
<1>3. CASE RolledBack
  <2>1. call.start \in Projects /\ At("restore") /\ call.rest = {} /\ ~call.undo
    BY <1>3, Restoring DEF RolledBack, At
  <2>2. /\ BackupOf(Current, call.start) /\ OthersAs(Current, call.start) /\ catalog = Current.catalog
        /\ \A f \in DOMAIN Current.files : files[f] = Current.files[f]
    BY <2>1 DEF Inv, RestoreInv, At
  <2>3. \A f \in Files : files[f] = call.start.files[f]
    BY <2>2 DEF BackupOf, OthersAs
  <2>4. call.start.files \in [Files -> Contents]
    BY <2>1 DEF Projects
  <2> QED
    BY <1>1, <1>2, <2>2, <2>3, <2>4 DEF BackupOf
<1>4. CASE Unrestored
  <2>1. call.start \in Projects /\ At("unrestore") /\ call.rest = {}
    BY <1>4, Restoring DEF Unrestored, At
  <2>2. /\ OthersAs(Current, call.start) /\ catalog = call.start.catalog
        /\ \A f \in DOMAIN Current.files : files[f] = call.start.files[f]
    BY <2>1 DEF Inv, UnrestoreInv, At
  <2>3. \A f \in Files : files[f] = call.start.files[f]
    BY <2>2 DEF OthersAs
  <2>4. call.start.files \in [Files -> Contents]
    BY <2>1 DEF Projects
  <2> QED
    BY <1>1, <1>2, <2>2, <2>3, <2>4
<1>5. CASE At("backup")
  BY <1>1, <1>5 DEF Inv, ReassignInv, Project
<1> QED
  BY <1>3, <1>4, <1>5

THEOREM FailuresAtomic == Spec => FailureAtomic
BY FailureAtomicStep, InvAlways, PTL DEF Spec, FailureAtomic

\* An undo gives back what the operation changed and nothing that was written
\* since (undo_last_reassignment, post_state).
LEMMA UndoExactStep ==
    Inv /\ [Next]_vars =>
        [MarkUndone =>
          LET p == past[call.id]
              touched == {f \in Files : p.before.files[f] # p.after.files[f]}
          IN /\ catalog' = p.before.catalog /\ call.start.catalog = p.after.catalog
             /\ \A f \in touched : files'[f] = p.before.files[f] /\ call.start.files[f] = p.after.files[f]
             /\ \A f \in Files \ touched : files'[f] = call.start.files[f]]_vars
<1> DEFINE p == past[call.id]
           touched == {f \in Files : p.before.files[f] # p.after.files[f]}
<1> SUFFICES ASSUME Inv, MarkUndone
             PROVE  /\ catalog' = p.before.catalog /\ call.start.catalog = p.after.catalog
                    /\ \A f \in touched : files'[f] = p.before.files[f] /\ call.start.files[f] = p.after.files[f]
                    /\ \A f \in Files \ touched : files'[f] = call.start.files[f]
  OBVIOUS
<1>1. At("restore") /\ call.rest = {} /\ call.undo /\ catalog' = catalog /\ files' = files
  BY DEF MarkUndone, data
<1>2. /\ OthersAs(Current, call.start) /\ catalog = Current.catalog
      /\ \A f \in DOMAIN Current.files : files[f] = Current.files[f]
      /\ journal # <<>> /\ journal[Len(journal)] = [id |-> call.id, undone |-> FALSE]
      /\ call.start.catalog = Current.post.catalog
      /\ \A f \in DOMAIN Current.files : call.start.files[f] = Current.post.files[f]
  BY <1>1 DEF Inv, RestoreInv, At
<1>3. Faithful(Current, p)
  BY <1>2, LastEntry DEF Current
<1>4. \A f \in touched : f \in DOMAIN Current.files
  BY <1>3 DEF Faithful
<1> HIDE DEF p
<1>5. catalog' = p.before.catalog /\ call.start.catalog = p.after.catalog
  BY <1>1, <1>2, <1>3 DEF Faithful, BackupOf
<1>6. \A f \in touched : files'[f] = p.before.files[f] /\ call.start.files[f] = p.after.files[f]
  BY <1>1, <1>2, <1>3, <1>4 DEF Faithful, BackupOf
<1>7. \A f \in Files \ touched : files'[f] = call.start.files[f]
  BY <1>1, <1>2, <1>3 DEF Faithful, BackupOf, OthersAs
<1> QED
  BY <1>5, <1>6, <1>7

THEOREM UndosExact == Spec => UndoExact
BY UndoExactStep, InvAlways, PTL DEF Spec, UndoExact
=============================================================================
