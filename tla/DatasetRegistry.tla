--------------------------- MODULE DatasetRegistry ---------------------------
(***************************************************************************)
(* The datasets of a project: artifact files, immutable manifests beside   *)
(* them, and a SQLite catalog that is a projection of the manifests.  A    *)
(* registration writes the three one after the other without a lock, from  *)
(* the import worker, from the viewer, which keeps a LAS record of its own *)
(* and takes it back when the registration fails, or from the editor,      *)
(* which registers a new version of the dataset it edited.  Reconciling    *)
(* throws the catalog away and projects every manifest again.              *)
(***************************************************************************)
EXTENDS Naturals, FiniteSets

CONSTANTS
    Sessions,    \* threads that use the service
    Datasets,    \* dataset UUIDs
    NoDataset,   \* no previous dataset
    Names,       \* file names
    Contents,    \* file contents, which stand for their checksums
    Plain,       \* a file under its own name, without a checksum in it
    Missing,     \* no such file
    MaxFailures, \* bound: failing calls and manifests that cannot be read
    MaxCrashes   \* bound: crashes of the server

VARIABLES
    artifacts, \* the artifact files
    manifests, \* the manifest files
    catalog,   \* the dataset ids in catalog.sqlite3
    records,   \* the LAS records of the viewer, by the dataset they wait for
    calls,     \* the call each session is in
    spent,     \* UUIDs handed out
    raced,     \* ghost: names whose place two registrations found free at once
    blind,     \* ghost: lineages checked when a version of theirs was not to be seen
    kept,      \* ghost: records that could not be deleted
    torn,      \* ghost: the catalog was left behind and not reconciled since
    partial,   \* ghost: sessions whose reconciliation does not know, or have, all
    failures,  \* failures so far
    crashes    \* crashes so far

files == <<artifacts, manifests, catalog, records>>
ghosts == <<raced, blind, kept, torn, partial, failures, crashes>>
vars == <<files, calls, spent, ghosts>>

-----------------------------------------------------------------------------
Sources == [name : Names, content : Contents]
Paths == [name : Names, tag : Contents \cup {Plain}]
Manifests == [path : Paths, checksum : Contents, version : Nat \ {0},
              lineage : Datasets, previous : Datasets \cup {NoDataset}]

ASSUME Marks == Plain \notin Contents /\ Missing \notin Contents \cup Manifests /\ NoDataset \notin Datasets

ASSUME Bounds == MaxFailures \in Nat /\ MaxCrashes \in Nat

Idle == [kind |-> "idle", pc |-> "idle"]
Stored == {d \in Datasets : manifests[d] # Missing}
Lineage(l) == {d \in Stored : manifests[d].lineage = l}

\* The last ones of some versions: of equal versions the names of the files
\* decide, which are random.
Latest(L) ==
    IF L = {} THEN {NoDataset}
    ELSE {d \in L : \A e \in L : manifests[e].version <= manifests[d].version}

Init ==
    /\ artifacts = [p \in Paths |-> Missing]
    /\ manifests = [d \in Datasets |-> Missing]
    /\ catalog = {}
    /\ records = {}
    /\ calls = [s \in Sessions |-> Idle]
    /\ spent = {}
    /\ raced = {} /\ blind = {} /\ kept = {}
    /\ torn = FALSE /\ partial = {}
    /\ failures = 0
    /\ crashes = 0

At(s, pc) == calls[s].pc = pc
Reconciling == {s \in Sessions : calls[s].kind = "reconcile"}
Enter(s, call) == calls' = [calls EXCEPT ![s] = call]
Goto(s, pc) == calls' = [calls EXCEPT ![s].pc = pc]
Return(s) == calls' = [calls EXCEPT ![s] = Idle]

\* A listing passes over the manifests it cannot read.
Listed(all, seen) ==
    /\ seen \subseteq all
    /\ failures' = IF seen = all THEN failures ELSE failures + 1
    /\ failures' <= MaxFailures

-----------------------------------------------------------------------------
(* Registration: look for a place, store, read back, check, save, project. *)

Register(s, kind, d, x, version, lineage, previous) ==
    Enter(s, [kind |-> kind, pc |-> "look", id |-> d, source |-> x,
              version |-> version, lineage |-> lineage, previous |-> previous])

BeginImport(s) ==
    /\ calls[s] = Idle
    /\ \E d \in Datasets \ spent, x \in Sources :
          /\ Register(s, "import", d, x, 1, d, NoDataset)
          /\ spent' = spent \cup {d}
    /\ UNCHANGED <<files, ghosts>>

\* Mutant: the viewer's dataset id is not drawn.
BeginOpenUndrawn(s) ==
    /\ calls[s] = Idle
    /\ \E d \in Datasets \ spent, x \in Sources :
          /\ Register(s, "open", d, x, 1, d, NoDataset)
          /\ records' = records \cup {d}
    /\ UNCHANGED <<artifacts, manifests, catalog, spent, ghosts>>

\* The viewer saves its LAS record first.
BeginOpen(s) ==
    /\ calls[s] = Idle
    /\ \E d \in Datasets \ spent, x \in Sources :
          /\ Register(s, "open", d, x, 1, d, NoDataset)
          /\ spent' = spent \cup {d}
          /\ records' = records \cup {d}
    /\ UNCHANGED <<artifacts, manifests, catalog, ghosts>>

\* The editor, whose record stays whatever happens, registers a version after
\* the dataset that was uploaded, whichever version is the latest by now.
BeginSave(s) ==
    /\ calls[s] = Idle
    /\ \E d \in Datasets \ spent, x \in Sources, p \in Stored :
          /\ Register(s, "save", d, x, manifests[p].version + 1, manifests[p].lineage, p)
          /\ spent' = spent \cup {d}
    /\ UNCHANGED <<files, ghosts>>

\* Mutant: the file of this name is replaced.
PlacePlain(x) == [name |-> x.name, tag |-> Plain]

\* A file of this name with other content stays where it is.
Place(x) ==
    LET plain == [name |-> x.name, tag |-> Plain]
    IN IF artifacts[plain] \in {Missing, x.content} THEN plain ELSE [name |-> x.name, tag |-> x.content]

\* A file that is there with the same content is used as it is.  A free place
\* may be on its way to be taken by another registration.
LookForArtifact(s) ==
    /\ At(s, "look")
    /\ LET c == calls[s]
           x == c.source
           path == Place(x)
       IN /\ calls' = [calls EXCEPT ![s] =
                [kind |-> c.kind, id |-> c.id, source |-> x, version |-> c.version,
                 lineage |-> c.lineage, previous |-> c.previous, path |-> path, checksum |-> x.content,
                 pc |-> IF path.tag = Plain /\ artifacts[path] = x.content THEN "check" ELSE "store"]]
          /\ raced' = IF \E t \in Sessions : At(t, "store") /\ calls[t].path = path /\ calls[t].source # x
                      THEN raced \cup {x.name} ELSE raced
    /\ UNCHANGED <<files, spent, blind, kept, torn, partial, failures, crashes>>

StoreArtifact(s) ==
    /\ At(s, "store")
    /\ artifacts' = [artifacts EXCEPT ![calls[s].path] = calls[s].source.content]
    /\ Goto(s, "read")
    /\ UNCHANGED <<manifests, catalog, records, spent, ghosts>>

ReadBack(s) ==
    /\ At(s, "read")
    /\ calls' = [calls EXCEPT ![s].pc = "check", ![s].checksum = artifacts[calls[s].path]]
    /\ UNCHANGED <<files, spent, ghosts>>

\* Mutant: any earlier version may be the previous one.
ContinuesAny(c, last) ==
    IF last = NoDataset THEN c.version = 1 /\ c.previous = NoDataset
    ELSE c.version = manifests[c.previous].version + 1

\* The rules a manifest keeps within its lineage.
Continues(c, last) ==
    /\ c.previous = last
    /\ c.version = IF last = NoDataset THEN 1 ELSE manifests[last].version + 1

\* Mutant: the record is left behind.
RaiseKeepsRecord(s) == Return(s)

\* The registration raises: the viewer deletes its record.
Raise(s) == IF calls[s].kind = "open" THEN Goto(s, "raised") ELSE Return(s)

DeleteRecord(s) ==
    /\ At(s, "raised")
    /\ records' = records \ {calls[s].id}
    /\ Return(s)
    /\ UNCHANGED <<artifacts, manifests, catalog, spent, ghosts>>

\* Mutant: the catalog is written before the manifest.
CheckLineageProjects(s) ==
    /\ At(s, "check")
    /\ \E last \in Latest(Lineage(calls[s].lineage)) : Continues(calls[s], last)
    /\ Goto(s, "save")
    /\ catalog' = catalog \cup {calls[s].id}
    /\ UNCHANGED <<artifacts, manifests, records, spent, ghosts>>

\* A version that cannot be read, or that another call has checked and not yet
\* saved, is not seen.
CheckLineage(s) ==
    /\ At(s, "check")
    /\ LET line == Lineage(calls[s].lineage)
           behind == \E t \in Sessions : At(t, "save") /\ calls[t].lineage = calls[s].lineage
       IN \E seen \in SUBSET line :
             /\ Listed(line, seen)
             /\ \E last \in Latest(seen) : Continues(calls[s], last)
             /\ blind' = IF seen = line /\ ~behind THEN blind ELSE blind \cup {calls[s].lineage}
    /\ Goto(s, "save")
    /\ UNCHANGED <<files, spent, raced, kept, torn, partial, crashes>>

RefuseVersion(s) ==
    /\ At(s, "check")
    /\ LET line == Lineage(calls[s].lineage)
       IN \E seen \in SUBSET line : Listed(line, seen) /\ \E last \in Latest(seen) : ~Continues(calls[s], last)
    /\ Raise(s)
    /\ UNCHANGED <<files, spent, raced, blind, kept, torn, partial, crashes>>

\* A reconciliation that has listed the manifests already does not know of it.
SaveManifest(s) ==
    /\ At(s, "save")
    /\ LET c == calls[s]
       IN manifests' = [manifests EXCEPT ![c.id] =
             [path |-> c.path, checksum |-> c.checksum, version |-> c.version,
              lineage |-> c.lineage, previous |-> c.previous]]
    /\ Goto(s, "project")
    /\ torn' = (torn \/ \E t \in Sessions : At(t, "compare"))
    /\ partial' = partial \cup Reconciling
    /\ UNCHANGED <<artifacts, catalog, records, spent, raced, blind, kept, failures, crashes>>

ProjectManifest(s) ==
    /\ At(s, "project")
    /\ catalog' = catalog \cup {calls[s].id}
    /\ IF calls[s].kind = "open" THEN Goto(s, "payload") ELSE Return(s)
    /\ UNCHANGED <<artifacts, manifests, records, spent, ghosts>>

\* The viewer builds its payload and refuses a file it cannot show, after the
\* registration: the record goes, the dataset stays.
ShowPayload(s) == At(s, "payload") /\ Return(s) /\ UNCHANGED <<files, spent, ghosts>>

RefusePayload(s) == At(s, "payload") /\ Raise(s) /\ UNCHANGED <<files, spent, ghosts>>

\* A step of a call fails.  After the manifest is saved the dataset is there
\* although its registration is reported as failed.  What fails outside the
\* registration, the payload and the deletion, deletes no record.
FailCall(s) ==
    /\ failures < MaxFailures
    /\ calls[s] # Idle
    /\ IF calls[s].pc \in {"payload", "raised"} THEN Return(s) ELSE Raise(s)
    /\ kept' = IF At(s, "raised") THEN kept \cup {calls[s].id} ELSE kept
    /\ torn' = (torn \/ At(s, "project") \/ At(s, "rebuild"))
    /\ partial' = partial \ {s}
    /\ failures' = failures + 1
    /\ UNCHANGED <<files, spent, raced, blind, crashes>>

-----------------------------------------------------------------------------
(* Reconciliation: list the manifests, compare, drop the catalog, project. *)

BeginReconcile(s) ==
    /\ calls[s] = Idle
    /\ \E items \in SUBSET Stored :
          /\ Listed(Stored, items)
          /\ Enter(s, [kind |-> "reconcile", pc |-> "compare", items |-> items])
          /\ torn' = (torn \/ items # Stored)
          /\ partial' = IF items = Stored /\ Reconciling = {} THEN partial ELSE partial \cup Reconciling \cup {s}
    /\ UNCHANGED <<files, spent, raced, blind, kept, crashes>>

\* A reconciliation that knew all manifests, alone, sets the catalog right.
Settle(s) ==
    /\ Return(s)
    /\ torn' = (torn /\ s \in partial)
    /\ partial' = partial \ {s}
    /\ UNCHANGED <<files, spent, raced, blind, kept, failures, crashes>>

\* Mutant: only rows without a manifest are looked for.
FoundNoneStale(s) == At(s, "compare") /\ catalog \subseteq calls[s].items /\ Settle(s)

FoundConsistent(s) == At(s, "compare") /\ catalog = calls[s].items /\ Settle(s)

DropCatalog(s) ==
    /\ At(s, "compare") /\ catalog # calls[s].items
    /\ catalog' = {}
    /\ Goto(s, "rebuild")
    /\ UNCHANGED <<artifacts, manifests, records, spent, ghosts>>

ProjectNext(s) ==
    /\ At(s, "rebuild")
    /\ \E d \in calls[s].items :
          /\ catalog' = catalog \cup {d}
          /\ calls' = [calls EXCEPT ![s].items = @ \ {d}]
    /\ UNCHANGED <<artifacts, manifests, records, spent, ghosts>>

FinishRebuild(s) == At(s, "rebuild") /\ calls[s].items = {} /\ Settle(s)

\* The server stops: what is written stays, what was to follow is lost.
Crash ==
    /\ crashes < MaxCrashes
    /\ crashes' = crashes + 1
    /\ calls' = [s \in Sessions |-> Idle]
    /\ torn' = TRUE
    /\ partial' = {}
    /\ UNCHANGED <<files, spent, raced, blind, kept, failures>>

Registration(s) ==
    \/ BeginImport(s) \/ BeginOpen(s) \/ BeginSave(s)
    \/ LookForArtifact(s) \/ StoreArtifact(s) \/ ReadBack(s)
    \/ CheckLineage(s) \/ RefuseVersion(s) \/ SaveManifest(s) \/ ProjectManifest(s)
    \/ ShowPayload(s) \/ RefusePayload(s) \/ DeleteRecord(s)
Reconciliation(s) ==
    BeginReconcile(s) \/ FoundConsistent(s) \/ DropCatalog(s) \/ ProjectNext(s) \/ FinishRebuild(s)

Next == (\E s \in Sessions : Registration(s) \/ Reconciliation(s) \/ FailCall(s)) \/ Crash

Spec == Init /\ [][Next]_vars

-----------------------------------------------------------------------------
\* The state keeps its types.
TypeOK ==
    /\ artifacts \in [Paths -> Contents \cup {Missing}]
    /\ \A d \in Datasets : manifests[d] \in Manifests \cup {Missing}
    /\ catalog \subseteq Datasets /\ records \subseteq spent /\ spent \subseteq Datasets
    /\ Stored \subseteq spent
    /\ raced \subseteq Names /\ blind \subseteq Datasets /\ kept \subseteq spent
    /\ torn \in BOOLEAN /\ partial \subseteq Reconciling /\ failures \in 0 .. MaxFailures /\ crashes \in 0 .. MaxCrashes

\* The artifact of a dataset is there and holds what was registered, whatever
\* other registrations store under the same name at any time.  It is lost in one
\* case only: two registrations found the place of the name free before either
\* had stored its file there, for the lookup and the replacement are two steps
\* (artifact_store.store_file, manifest_repository.save).
Intact(path, content) ==
    artifacts[path] = content \/ (path.tag = Plain /\ path.name \in raced)

ArtifactsIntact ==
    /\ \A d \in Stored : Intact(manifests[d].path, manifests[d].checksum)
    /\ \A s \in Sessions : At(s, "save") =>
          Intact(calls[s].path, calls[s].source.content) /\ Intact(calls[s].path, calls[s].checksum)

\* The versions of a lineage are 1, 2, ... without a gap or a fork, each after
\* the one before it, whatever crashes and however often the editor saves,
\* unless a version of the lineage was checked when the one before it could not
\* be read, or was checked by another call but not saved, for the check and the
\* replacement are two steps (manifest_repository._validate_lineage, save).
LineagesLinear ==
    \A d \in Stored : manifests[d].lineage \notin blind =>
       /\ manifests[d].version \in 1 .. Cardinality(Lineage(manifests[d].lineage))
       /\ \A e \in Lineage(manifests[d].lineage) :
             /\ manifests[e].version = manifests[d].version => e = d
             /\ manifests[e].version = manifests[d].version + 1 => manifests[e].previous = d

\* The catalog never shows a dataset whose manifest is not saved, at no step of
\* a registration, a rebuild or a crash (service.register, catalog.project).
CatalogGrounded == catalog \subseteq Stored

\* When no call is running the catalog shows every dataset, whatever
\* registrations and reconciliations ran at once, unless one of these came after
\* the last reconciliation that read all manifests and ran with no other, and
\* with no manifest saved meanwhile: a write failed, the server stopped, a
\* manifest could not be read for a reconciliation, or one was saved between
\* the listing of a reconciliation and its comparison (catalog.reconcile,
\* rebuild).
CatalogComplete ==
    (~torn /\ \A s \in Sessions : calls[s] = Idle) => catalog = Stored

\* When no call is running, a LAS record of the viewer has its dataset, but for
\* one record of each session that was stopped and for those whose deletion
\* failed: a failed open takes its record back (las_viewer_open_workflow.open).
RecordsRegistered ==
    (\A s \in Sessions : calls[s] = Idle) =>
        Cardinality((records \ Stored) \ kept) <= crashes * Cardinality(Sessions)
=============================================================================
