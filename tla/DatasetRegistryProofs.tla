------------------------ MODULE DatasetRegistryProofs ------------------------
(***************************************************************************)
(* For every number of sessions, datasets and names, and any interleaving  *)
(* of the steps of their calls: the artifact of a stored dataset is lost   *)
(* only to a race for its name, the catalog shows no dataset that is not   *)
(* stored, every lineage whose versions saw each other is a line, the      *)
(* catalog shows what is stored after a reconciliation that knew it, and a *)
(* crash costs each session at most one record without a dataset.          *)
(***************************************************************************)
EXTENDS DatasetRegistry, FiniteSetTheorems, TLAPS

Registering == {"import", "open", "save"}
LookCalls ==
    [kind : Registering, pc : {"look", "raised"}, id : Datasets, source : Sources,
     version : Nat \ {0}, lineage : Datasets, previous : Datasets \cup {NoDataset}]
PlacedCalls ==
    [kind : Registering, pc : {"store", "read", "check", "save", "project", "payload", "raised"}, id : Datasets,
     source : Sources, version : Nat \ {0}, lineage : Datasets, previous : Datasets \cup {NoDataset},
     path : Paths, checksum : Contents]
ReconcileCalls == [kind : {"reconcile"}, pc : {"compare", "rebuild"}, items : SUBSET Datasets]
Calls == {Idle} \cup LookCalls \cup PlacedCalls \cup ReconcileCalls

\* The race for the plain path of a name.
Lost(path, races) == path.tag = Plain /\ path.name \in races

\* What a call may rely on, but for races: a plain path it is going to write is
\* still free or holds the same content, a path it has written holds its
\* content, what it projects is stored.
CallSound(c, art, man, used, races) ==
    /\ c \in Calls
    /\ c \in LookCalls \cup PlacedCalls => c.id \in used
    /\ c \in PlacedCalls =>
          /\ c.path.name = c.source.name /\ c.path.tag \in {Plain, c.source.content}
          /\ c.pc = "store" /\ c.path.tag = Plain =>
                art[c.path] \in {Missing, c.source.content} \/ Lost(c.path, races)
          /\ c.pc \in {"read", "check", "save"} =>
                art[c.path] # Missing /\ (art[c.path] = c.source.content \/ Lost(c.path, races))
          /\ c.pc \in {"check", "save"} => c.checksum = c.source.content \/ Lost(c.path, races)
          /\ c.pc = "project" => man[c.id] # Missing
    /\ c \in ReconcileCalls => \A d \in c.items : man[d] # Missing

\* Two calls that are to store at one place store the same, but for races.
StoresAgree ==
    \A s, t \in Sessions :
       At(s, "store") /\ At(t, "store") /\ calls[s].path = calls[t].path /\ calls[s].path.tag = Plain =>
          calls[s].source = calls[t].source \/ calls[s].path.name \in raced

\* A file with a checksum in its name holds what the name says.
ArtifactsSound == artifacts \in [Paths -> Contents \cup {Missing}]
                    /\ \A p \in Paths : artifacts[p] = Missing \/ p.tag = Plain \/ artifacts[p] = p.tag

ManifestsSound ==
    /\ manifests \in [Datasets -> Manifests \cup {Missing}]
    /\ \A d \in Stored : Intact(manifests[d].path, manifests[d].checksum)
    /\ Stored \subseteq spent

RegistryInv ==
    /\ ArtifactsSound
    /\ ManifestsSound
    /\ catalog \subseteq Stored
    /\ records \subseteq spent /\ spent \subseteq Datasets
    /\ calls = [s \in Sessions |-> calls[s]]
    /\ raced \subseteq Names
    /\ \A s \in Sessions : CallSound(calls[s], artifacts, manifests, spent, raced)
    /\ StoresAgree

-----------------------------------------------------------------------------
\* A call is of one kind.
LEMMA CallKinds ==
    ASSUME NEW c
    PROVE  /\ c \in LookCalls => c.pc \in {"look", "raised"}
           /\ c \in PlacedCalls => c.pc \in {"store", "read", "check", "save", "project", "payload", "raised"}
           /\ c \in ReconcileCalls => c.pc \in {"compare", "rebuild"}
           /\ c = Idle => c.pc = "idle"
BY DEF LookCalls, PlacedCalls, ReconcileCalls, Idle

\* The record of a call at each step of its way.
LEMMA CallAt ==
    ASSUME NEW c \in Calls
    PROVE  /\ c.pc = "look" => c \in LookCalls
           /\ c.pc \in {"store", "read", "check", "save", "project", "payload"} => c \in PlacedCalls
           /\ c.pc = "raised" => c \in LookCalls \cup PlacedCalls
           /\ c.pc \in {"compare", "rebuild"} => c \in ReconcileCalls
BY CallKinds DEF Calls

LEMMA IdleSound == ASSUME NEW art, NEW man, NEW used, NEW races PROVE CallSound(Idle, art, man, used, races)
BY CallKinds DEF CallSound, Calls

LEMMA RegistryInit == Init => RegistryInv
<1> SUFFICES ASSUME Init PROVE RegistryInv
  OBVIOUS
<1> USE DEF Init
<1>1. ArtifactsSound
  BY DEF ArtifactsSound
<1>2. ManifestsSound /\ catalog \subseteq Stored
  BY DEF ManifestsSound, Stored
<1>3. \A s \in Sessions : CallSound(calls[s], artifacts, manifests, spent, raced)
  BY IdleSound
<1>4. StoresAgree
  BY DEF StoresAgree, At, Idle
<1> QED
  BY <1>1, <1>2, <1>3, <1>4 DEF RegistryInv

\* A step of one session, when the files the others rely on are as they were.
LEMMA OneSession ==
    ASSUME RegistryInv, NEW s \in Sessions,
           artifacts' = artifacts, raced' = raced,
           \A d \in Datasets : manifests[d] # Missing => manifests'[d] # Missing,
           spent \subseteq spent',
           calls' = [calls EXCEPT ![s] = calls'[s]], calls'[s].pc # "store",
           CallSound(calls'[s], artifacts', manifests', spent', raced')
    PROVE  /\ calls' = [t \in Sessions |-> calls'[t]]
           /\ \A t \in Sessions : CallSound(calls'[t], artifacts', manifests', spent', raced')
           /\ StoresAgree'
<1>1. calls' = [t \in Sessions |-> calls'[t]] /\ \A t \in Sessions : t # s => calls'[t] = calls[t]
  BY DEF RegistryInv
<1>2. ASSUME NEW t \in Sessions, t # s
      PROVE  CallSound(calls[t], artifacts', manifests', spent', raced')
  <2>1. CallSound(calls[t], artifacts, manifests, spent, raced)
    BY DEF RegistryInv
  <2>2. calls[t] \in PlacedCalls => calls[t].id \in Datasets
    BY DEF PlacedCalls
  <2>3. calls[t] \in ReconcileCalls => calls[t].items \subseteq Datasets
    BY DEF ReconcileCalls
  <2> QED
    BY <2>1, <2>2, <2>3 DEF CallSound
<1>3. StoresAgree'
  BY <1>1 DEF RegistryInv, StoresAgree, At
<1> QED
  BY <1>1, <1>2, <1>3

\* ... and nothing but the call changes.
LEMMA OnlyCall ==
    ASSUME RegistryInv, NEW s \in Sessions,
           UNCHANGED <<artifacts, manifests, catalog, records, spent, raced>>,
           calls' = [calls EXCEPT ![s] = calls'[s]], calls'[s].pc # "store",
           CallSound(calls'[s], artifacts, manifests, spent, raced)
    PROVE  RegistryInv'
<1>1. CallSound(calls'[s], artifacts', manifests', spent', raced')
  OBVIOUS
<1>2. /\ calls' = [t \in Sessions |-> calls'[t]]
      /\ \A t \in Sessions : CallSound(calls'[t], artifacts', manifests', spent', raced')
      /\ StoresAgree'
  BY <1>1, OneSession
<1> QED
  BY <1>2 DEF RegistryInv, ArtifactsSound, ManifestsSound, Stored, Intact

-----------------------------------------------------------------------------
(* Beginning. *)

LEMMA RegisterSound ==
    ASSUME RegistryInv, NEW s \in Sessions, NEW kind \in Registering, NEW d \in Datasets, NEW x \in Sources,
           NEW version \in Nat \ {0}, NEW lineage \in Datasets, NEW previous \in Datasets \cup {NoDataset},
           Register(s, kind, d, x, version, lineage, previous), spent' = spent \cup {d},
           UNCHANGED <<artifacts, manifests, catalog, raced>>, records' \subseteq spent'
    PROVE  RegistryInv'
<1> DEFINE c == [kind |-> kind, pc |-> "look", id |-> d, source |-> x,
                 version |-> version, lineage |-> lineage, previous |-> previous]
<1>1. calls' = [calls EXCEPT ![s] = c] /\ calls'[s] = c
  BY DEF Register, Enter, RegistryInv
<1>3. c \in LookCalls /\ c.pc = "look" /\ c.id = d
  BY DEF LookCalls
<1> HIDE DEF c
<1>4. CallSound(c, artifacts', manifests', spent', raced')
  BY <1>3, CallKinds DEF CallSound, Calls
<1>5. /\ calls' = [t \in Sessions |-> calls'[t]]
      /\ \A t \in Sessions : CallSound(calls'[t], artifacts', manifests', spent', raced')
      /\ StoresAgree'
  BY <1>1, <1>3, <1>4, OneSession
<1> QED
  BY <1>5 DEF RegistryInv, ArtifactsSound, ManifestsSound, Stored, Intact

LEMMA BeginningsKeep ==
    ASSUME RegistryInv, NEW s \in Sessions, BeginImport(s) \/ BeginOpen(s) \/ BeginSave(s)
    PROVE  RegistryInv'
<1>1. CASE BeginImport(s)
  <2>1. PICK d \in Datasets, x \in Sources : Register(s, "import", d, x, 1, d, NoDataset) /\ spent' = spent \cup {d}
    BY <1>1 DEF BeginImport
  <2>2. records' \subseteq spent' /\ UNCHANGED <<artifacts, manifests, catalog, raced>>
    BY <2>1, <1>1 DEF BeginImport, files, ghosts, RegistryInv
  <2>3. "import" \in Registering /\ 1 \in Nat \ {0} /\ NoDataset \in Datasets \cup {NoDataset}
    BY DEF Registering
  <2> QED
    BY <2>1, <2>2, <2>3, RegisterSound
<1>2. CASE BeginOpen(s)
  <2>1. PICK d \in Datasets, x \in Sources : Register(s, "open", d, x, 1, d, NoDataset) /\ spent' = spent \cup {d}
                                                   /\ records' = records \cup {d}
    BY <1>2 DEF BeginOpen
  <2>2. records' \subseteq spent' /\ UNCHANGED <<artifacts, manifests, catalog, raced>>
    BY <2>1, <1>2 DEF BeginOpen, files, ghosts, RegistryInv
  <2>3. "open" \in Registering /\ 1 \in Nat \ {0} /\ NoDataset \in Datasets \cup {NoDataset}
    BY DEF Registering
  <2> QED
    BY <2>1, <2>2, <2>3, RegisterSound
<1>3. CASE BeginSave(s)
  <2>1. PICK d \in Datasets, x \in Sources, p \in Stored :
           Register(s, "save", d, x, manifests[p].version + 1, manifests[p].lineage, p) /\ spent' = spent \cup {d}
    BY <1>3 DEF BeginSave
  <2>2. manifests[p] \in Manifests /\ p \in Datasets
    BY DEF Stored, RegistryInv, ManifestsSound
  <2>3. manifests[p].version + 1 \in Nat \ {0} /\ manifests[p].lineage \in Datasets
    BY <2>2 DEF Manifests
  <2> QED
    BY <2>1, <2>2, <2>3, <1>3, RegisterSound DEF BeginSave, files, ghosts, Registering, RegistryInv
<1> QED
  BY <1>1, <1>2, <1>3

-----------------------------------------------------------------------------
(* The steps of a registration. *)

\* Looking for a place finds a free plain path, an equal file, or a path that
\* names the content; whoever is to store other content there makes it a race
\* (artifact_store.store_file).
LEMMA LookKeeps == ASSUME RegistryInv, NEW s \in Sessions, LookForArtifact(s) PROVE RegistryInv'
<1> DEFINE c == calls[s]
           x == c.source
           path == Place(x)
           placed == [kind |-> c.kind, id |-> c.id, source |-> x, version |-> c.version,
                      lineage |-> c.lineage, previous |-> c.previous, path |-> path, checksum |-> x.content,
                      pc |-> IF path.tag = Plain /\ artifacts[path] = x.content THEN "check" ELSE "store"]
           met == \E t \in Sessions : At(t, "store") /\ calls[t].path = path /\ calls[t].source # x
<1>1. /\ calls' = [calls EXCEPT ![s] = placed] /\ calls'[s] = placed
      /\ raced' = IF met THEN raced \cup {x.name} ELSE raced
      /\ UNCHANGED <<artifacts, manifests, catalog, records, spent>> /\ c.pc = "look"
  BY DEF LookForArtifact, RegistryInv, files, At
<1>2. c \in LookCalls /\ c.id \in spent
  BY <1>1, CallAt DEF RegistryInv, CallSound
<1>3. x \in Sources /\ x.name \in Names /\ x.content \in Contents
  BY <1>2 DEF LookCalls, Sources
<1>4. path \in Paths /\ path.name = x.name /\ path.tag \in {Plain, x.content}
  BY <1>3 DEF Place, Paths
<1>5. path.tag = Plain => artifacts[path] \in {Missing, x.content}
  BY <1>3, Marks DEF Place
<1> HIDE DEF path
<1>6. placed \in PlacedCalls
  BY <1>2, <1>3, <1>4 DEF LookCalls, PlacedCalls
<1>7. raced \subseteq raced' /\ raced' \subseteq Names
  BY <1>1, <1>3 DEF RegistryInv
<1>8. /\ placed.source = x /\ placed.path = path /\ placed.checksum = x.content /\ placed.id = c.id
      /\ placed.pc \in {"check", "store"} /\ (placed.pc = "check" => path.tag = Plain /\ artifacts[path] = x.content)
  OBVIOUS
<1> HIDE DEF placed
<1>9. CallSound(placed, artifacts', manifests', spent', raced')
  <2>1. placed \in Calls /\ placed \notin ReconcileCalls
    BY <1>6, CallKinds DEF Calls
  <2>2. x.content # Missing
    BY <1>3, Marks
  <2> QED
    BY <1>1, <1>2, <1>4, <1>5, <1>6, <1>8, <2>1, <2>2 DEF CallSound
<1>10. calls' = [t \in Sessions |-> calls'[t]] /\ \A t \in Sessions : t # s => calls'[t] = calls[t]
  BY <1>1 DEF RegistryInv
<1>11. ASSUME NEW t \in Sessions, t # s PROVE CallSound(calls'[t], artifacts', manifests', spent', raced')
  <2>1. CallSound(calls[t], artifacts, manifests, spent, raced)
    BY DEF RegistryInv
  <2> QED
    BY <2>1, <1>1, <1>7, <1>10, <1>11 DEF CallSound, Lost
<1>12. StoresAgree'
  <2> SUFFICES ASSUME NEW t \in Sessions, NEW u \in Sessions,
                      calls'[t].pc = "store", calls'[u].pc = "store", calls'[t].path = calls'[u].path,
                      calls'[t].path.tag = Plain, calls'[t].source # calls'[u].source
               PROVE  calls'[t].path.name \in raced'
    BY DEF StoresAgree, At
  <2>1. ASSUME NEW v \in Sessions, v # s, calls'[v].pc = "store", calls'[v].path = path, calls'[v].source # x
        PROVE  path.name \in raced'
    <3>1. met
      BY <1>10, <2>1 DEF At
    <3> QED
      BY <3>1, <1>1, <1>4
  <2>2. CASE t = s
    BY <2>1, <2>2, <1>1, <1>8
  <2>3. CASE u = s
    BY <2>1, <2>3, <1>1, <1>8
  <2>4. CASE t # s /\ u # s
    BY <2>4, <1>7, <1>10 DEF RegistryInv, StoresAgree, At
  <2> QED
    BY <2>2, <2>3, <2>4
<1> QED
  BY <1>1, <1>7, <1>9, <1>10, <1>11, <1>12 DEF RegistryInv, ArtifactsSound, ManifestsSound, Stored, Intact

\* Storing touches no file another call or a manifest relies on, but for races.
LEMMA StoreKeeps == ASSUME RegistryInv, NEW s \in Sessions, StoreArtifact(s) PROVE RegistryInv'
<1> DEFINE c == calls[s]
           x == c.source.content
           next == [c EXCEPT !.pc = "read"]
<1>1. c \in PlacedCalls /\ c.pc = "store" /\ CallSound(c, artifacts, manifests, spent, raced)
  BY CallAt DEF StoreArtifact, At, RegistryInv, CallSound
<1>2. c.path \in Paths /\ x \in Contents /\ x # Missing /\ c.path.name = c.source.name
      /\ c.path.tag \in {Plain, x} /\ c.source \in Sources
      /\ (c.path.tag = Plain => artifacts[c.path] \in {Missing, x} \/ Lost(c.path, raced))
  BY <1>1, Marks DEF PlacedCalls, Sources, CallSound
<1>3. artifacts' = [artifacts EXCEPT ![c.path] = x] /\ calls' = [calls EXCEPT ![s] = next] /\ calls'[s] = next
      /\ UNCHANGED <<manifests, catalog, records, spent, raced>>
  BY DEF StoreArtifact, Goto, RegistryInv, ghosts
<1>4. artifacts'[c.path] = x /\ \A p \in Paths : p # c.path => artifacts'[p] = artifacts[p]
  BY <1>2, <1>3 DEF RegistryInv, ArtifactsSound
<1>5. ArtifactsSound'
  BY <1>2, <1>3, <1>4 DEF RegistryInv, ArtifactsSound
<1>6. \A p \in Paths : artifacts[p] # Missing => artifacts'[p] = artifacts[p] \/ Lost(p, raced)
  BY <1>2, <1>4 DEF RegistryInv, ArtifactsSound, Lost
<1>7. ManifestsSound'
  <2>1. Stored' = Stored
    BY <1>3 DEF Stored
  <2> SUFFICES ASSUME NEW d \in Stored PROVE Intact(manifests[d].path, manifests[d].checksum)'
    BY <1>3, <2>1 DEF RegistryInv, ManifestsSound, Intact
  <2>2. manifests[d] \in Manifests
    BY DEF Stored, RegistryInv, ManifestsSound
  <2>3. manifests[d].path \in Paths /\ manifests[d].checksum \in Contents /\ manifests[d].checksum # Missing
    BY <2>2, Marks DEF Manifests
  <2>4. Intact(manifests[d].path, manifests[d].checksum)
    BY DEF RegistryInv, ManifestsSound
  <2> QED
    BY <2>3, <2>4, <1>3, <1>6 DEF Intact, Lost
<1>8. next \in PlacedCalls /\ next.pc = "read" /\ next.path = c.path /\ next.source = c.source /\ next.id = c.id
  BY <1>1 DEF PlacedCalls
<1> HIDE DEF next
<1>9. CallSound(next, artifacts', manifests', spent', raced')
  <2>1. next \in Calls /\ next \notin ReconcileCalls
    BY <1>8, CallKinds DEF Calls
  <2> QED
    BY <2>1, <1>1, <1>2, <1>3, <1>4, <1>8 DEF CallSound
<1>10. calls' = [t \in Sessions |-> calls'[t]] /\ \A t \in Sessions : t # s => calls'[t] = calls[t]
  BY <1>3 DEF RegistryInv
<1>11. ASSUME NEW t \in Sessions, t # s
       PROVE  CallSound(calls[t], artifacts', manifests', spent', raced')
  <2> DEFINE d == calls[t]
  <2>1. CallSound(d, artifacts, manifests, spent, raced)
    BY DEF RegistryInv
  <2>2. d \in PlacedCalls => d.path \in Paths /\ d.source.content \in Contents /\ d.source.content # Missing
    BY Marks DEF PlacedCalls, Sources
  <2>3. ASSUME d \in PlacedCalls, d.pc = "store", d.path.tag = Plain
        PROVE  artifacts'[d.path] \in {Missing, d.source.content} \/ Lost(d.path, raced)
    <3>1. CASE d.path = c.path
      <4>1. d.source = c.source \/ d.path.name \in raced
        BY <3>1, <2>3, <1>1 DEF RegistryInv, StoresAgree, At
      <4> QED
        BY <4>1, <3>1, <2>3, <1>4 DEF Lost
    <3>2. CASE d.path # c.path
      BY <3>2, <2>1, <2>2, <2>3, <1>4 DEF CallSound
    <3> QED
      BY <3>1, <3>2
  <2>4. ASSUME d \in PlacedCalls, d.pc \in {"read", "check", "save"}
        PROVE  artifacts'[d.path] # Missing /\ (artifacts'[d.path] = d.source.content \/ Lost(d.path, raced))
    <3>1. artifacts[d.path] # Missing /\ (artifacts[d.path] = d.source.content \/ Lost(d.path, raced))
      BY <2>1, <2>4 DEF CallSound
    <3> QED
      BY <3>1, <2>2, <2>4, <1>2, <1>4, <1>6
  <2> QED
    BY <2>1, <2>3, <2>4, <1>3 DEF CallSound
<1>12. \A t \in Sessions : CallSound(calls'[t], artifacts', manifests', spent', raced')
  BY <1>3, <1>9, <1>10, <1>11
<1>13. StoresAgree'
  BY <1>3, <1>8, <1>10 DEF RegistryInv, StoresAgree, At
<1> QED
  BY <1>3, <1>5, <1>7, <1>10, <1>12, <1>13 DEF RegistryInv, Stored

LEMMA ReadBackKeeps == ASSUME RegistryInv, NEW s \in Sessions, ReadBack(s) PROVE RegistryInv'
<1> DEFINE c == calls[s]
           next == [c EXCEPT !.pc = "check", !.checksum = artifacts[c.path]]
<1>1. c \in PlacedCalls /\ c.pc = "read" /\ CallSound(c, artifacts, manifests, spent, raced)
  BY CallAt DEF ReadBack, At, RegistryInv, CallSound
<1>2. calls' = [calls EXCEPT ![s] = next] /\ calls'[s] = next
  BY DEF ReadBack, RegistryInv
<1>3. artifacts[c.path] \in Contents /\ (artifacts[c.path] = c.source.content \/ Lost(c.path, raced))
  BY <1>1 DEF CallSound, PlacedCalls, RegistryInv, ArtifactsSound
<1>4. next \in PlacedCalls /\ next.pc = "check" /\ next.checksum = artifacts[c.path] /\ next.path = c.path
      /\ next.source = c.source /\ next.id = c.id
  BY <1>1, <1>3 DEF PlacedCalls
<1> HIDE DEF next
<1>5. CallSound(next, artifacts, manifests, spent, raced)
  BY <1>1, <1>3, <1>4, CallKinds DEF CallSound, Calls
<1> QED
  BY <1>2, <1>4, <1>5, OnlyCall DEF ReadBack, files, ghosts

LEMMA CheckKeeps == ASSUME RegistryInv, NEW s \in Sessions, CheckLineage(s) PROVE RegistryInv'
<1> DEFINE c == calls[s]
           next == [c EXCEPT !.pc = "save"]
<1>1. c \in PlacedCalls /\ c.pc = "check" /\ CallSound(c, artifacts, manifests, spent, raced)
  BY CallAt DEF CheckLineage, At, RegistryInv, CallSound
<1>2. calls' = [calls EXCEPT ![s] = next] /\ calls'[s] = next
  BY DEF CheckLineage, Goto, RegistryInv
<1>3. next \in PlacedCalls /\ next.pc = "save" /\ next.checksum = c.checksum /\ next.path = c.path
      /\ next.source = c.source /\ next.id = c.id
  BY <1>1 DEF PlacedCalls
<1> HIDE DEF next
<1>4. CallSound(next, artifacts, manifests, spent, raced)
  BY <1>1, <1>3, CallKinds DEF CallSound, Calls
<1> QED
  BY <1>2, <1>3, <1>4, OnlyCall DEF CheckLineage, files

\* A call that is over.
LEMMA ReturnKeeps ==
    ASSUME RegistryInv, NEW s \in Sessions, Return(s), UNCHANGED <<artifacts, manifests, catalog, spent, raced>>,
           records' \subseteq records
    PROVE  RegistryInv'
<1>1. calls' = [calls EXCEPT ![s] = Idle] /\ calls'[s] = Idle /\ Idle.pc # "store"
  BY DEF Return, RegistryInv, Idle
<1>2. CallSound(Idle, artifacts', manifests', spent', raced')
  BY IdleSound
<1>3. /\ calls' = [t \in Sessions |-> calls'[t]]
      /\ \A t \in Sessions : CallSound(calls'[t], artifacts', manifests', spent', raced')
      /\ StoresAgree'
  BY <1>1, <1>2, OneSession
<1> QED
  BY <1>3 DEF RegistryInv, ArtifactsSound, ManifestsSound, Stored, Intact

\* A call that raises.
LEMMA RaiseKeeps ==
    ASSUME RegistryInv, NEW s \in Sessions, Raise(s), UNCHANGED <<artifacts, manifests, catalog, records, spent, raced>>
    PROVE  RegistryInv'
<1> DEFINE c == calls[s]
           next == [c EXCEPT !.pc = "raised"]
<1>1. CASE c.kind = "open"
  <2>1. c \in LookCalls \cup PlacedCalls /\ CallSound(c, artifacts, manifests, spent, raced)
    BY <1>1 DEF RegistryInv, CallSound, Calls, ReconcileCalls, Idle
  <2>2. calls' = [calls EXCEPT ![s] = next] /\ calls'[s] = next
    BY <1>1 DEF Raise, Goto, RegistryInv
  <2>3. /\ next.pc = "raised" /\ next.id = c.id /\ (c \in LookCalls => next \in LookCalls)
        /\ c \in PlacedCalls => next \in PlacedCalls /\ next.path = c.path /\ next.source = c.source
    BY <2>1 DEF LookCalls, PlacedCalls
  <2>4. next \in LookCalls => next \notin PlacedCalls \/ c \in PlacedCalls
    BY <2>1, <2>3 DEF LookCalls, PlacedCalls
  <2> HIDE DEF next
  <2>5. CallSound(next, artifacts, manifests, spent, raced)
    BY <2>1, <2>3, <2>4, CallKinds DEF CallSound, Calls
  <2> QED
    BY <2>2, <2>3, <2>5, OnlyCall
<1>2. CASE c.kind # "open"
  BY <1>2, ReturnKeeps DEF Raise
<1> QED
  BY <1>1, <1>2

LEMMA SaveKeeps == ASSUME RegistryInv, NEW s \in Sessions, SaveManifest(s) PROVE RegistryInv'
<1> DEFINE c == calls[s]
           next == [c EXCEPT !.pc = "project"]
           m == [path |-> c.path, checksum |-> c.checksum, version |-> c.version,
                 lineage |-> c.lineage, previous |-> c.previous]
<1>1. c \in PlacedCalls /\ c.pc = "save" /\ CallSound(c, artifacts, manifests, spent, raced)
  BY CallAt DEF SaveManifest, At, RegistryInv, CallSound
<1>2. calls' = [calls EXCEPT ![s] = next] /\ calls'[s] = next /\ manifests' = [manifests EXCEPT ![c.id] = m]
      /\ UNCHANGED <<artifacts, catalog, records, spent, raced>>
  BY DEF SaveManifest, Goto, RegistryInv
<1>3. m \in Manifests /\ m # Missing /\ c.id \in Datasets /\ c.id \in spent
  BY <1>1, Marks DEF PlacedCalls, Manifests, CallSound
<1>4. Intact(m.path, m.checksum)
  BY <1>1 DEF CallSound, Intact, Lost
<1> HIDE DEF m
<1>5. manifests' \in [Datasets -> Manifests \cup {Missing}] /\ manifests'[c.id] = m
      /\ \A d \in Datasets : d # c.id => manifests'[d] = manifests[d]
  BY <1>2, <1>3 DEF RegistryInv, ManifestsSound
<1>6. Stored' = Stored \cup {c.id}
  BY <1>3, <1>5 DEF Stored
<1>7. ManifestsSound'
  BY <1>2, <1>3, <1>4, <1>5, <1>6 DEF ManifestsSound, RegistryInv, Intact
<1>8. next \in PlacedCalls /\ next.pc = "project" /\ next.path = c.path /\ next.source = c.source /\ next.id = c.id
  BY <1>1 DEF PlacedCalls
<1> HIDE DEF next
<1>9. CallSound(next, artifacts', manifests', spent', raced')
  BY <1>1, <1>2, <1>3, <1>5, <1>8, CallKinds DEF CallSound, Calls
<1>10. /\ calls' = [t \in Sessions |-> calls'[t]]
       /\ \A t \in Sessions : CallSound(calls'[t], artifacts', manifests', spent', raced')
       /\ StoresAgree'
  BY <1>2, <1>3, <1>5, <1>8, <1>9, OneSession
<1> QED
  BY <1>2, <1>6, <1>7, <1>10 DEF RegistryInv, ArtifactsSound

\* A step that changes the catalog and its own call.
LEMMA CatalogStep ==
    ASSUME RegistryInv, NEW s \in Sessions, catalog' \subseteq Stored,
           UNCHANGED <<artifacts, manifests, records, spent, raced>>,
           calls' = [calls EXCEPT ![s] = calls'[s]], calls'[s].pc # "store",
           CallSound(calls'[s], artifacts, manifests, spent, raced)
    PROVE  RegistryInv'
<1>1. CallSound(calls'[s], artifacts', manifests', spent', raced')
  OBVIOUS
<1>2. /\ calls' = [t \in Sessions |-> calls'[t]]
      /\ \A t \in Sessions : CallSound(calls'[t], artifacts', manifests', spent', raced')
      /\ StoresAgree'
  BY <1>1, OneSession
<1> QED
  BY <1>2 DEF RegistryInv, ArtifactsSound, ManifestsSound, Stored, Intact

LEMMA ProjectKeeps == ASSUME RegistryInv, NEW s \in Sessions, ProjectManifest(s) PROVE RegistryInv'
<1> DEFINE c == calls[s]
           next == [c EXCEPT !.pc = "payload"]
<1>1. c \in PlacedCalls /\ c.pc = "project" /\ CallSound(c, artifacts, manifests, spent, raced)
  BY CallAt DEF ProjectManifest, At, RegistryInv, CallSound
<1>2. c.id \in Stored
  BY <1>1 DEF CallSound, Stored, PlacedCalls
<1>3. catalog' \subseteq Stored
  BY <1>2 DEF ProjectManifest, RegistryInv
<1>4. next \in PlacedCalls /\ next.pc = "payload" /\ next.path = c.path /\ next.source = c.source /\ next.id = c.id
  BY <1>1 DEF PlacedCalls
<1>5. calls' = [calls EXCEPT ![s] = next] \/ calls' = [calls EXCEPT ![s] = Idle]
  BY DEF ProjectManifest, Goto, Return
<1> HIDE DEF next
<1>6. CallSound(next, artifacts, manifests, spent, raced)
  BY <1>1, <1>4, CallKinds DEF CallSound, Calls
<1>7. calls' = [calls EXCEPT ![s] = calls'[s]] /\ CallSound(calls'[s], artifacts, manifests, spent, raced)
      /\ calls'[s].pc # "store"
  BY <1>4, <1>5, <1>6, IdleSound DEF RegistryInv, Idle
<1> QED
  BY <1>3, <1>7, CatalogStep DEF ProjectManifest, ghosts

-----------------------------------------------------------------------------
(* The steps of a reconciliation. *)

LEMMA ReconcileKeeps == ASSUME RegistryInv, NEW s \in Sessions, Reconciliation(s) PROVE RegistryInv'
<1>1. CASE BeginReconcile(s)
  <2>1. PICK items \in SUBSET Stored : Enter(s, [kind |-> "reconcile", pc |-> "compare", items |-> items])
    BY <1>1 DEF BeginReconcile
  <2> DEFINE c == [kind |-> "reconcile", pc |-> "compare", items |-> items]
  <2>2. calls' = [calls EXCEPT ![s] = c] /\ calls'[s] = c
    BY <2>1 DEF Enter, RegistryInv
  <2>3. c \in ReconcileCalls /\ c.items = items /\ c.pc = "compare"
    BY DEF ReconcileCalls, Stored
  <2> HIDE DEF c
  <2>4. CallSound(c, artifacts, manifests, spent, raced)
    BY <2>3, CallKinds DEF CallSound, Calls, Stored
  <2> QED
    BY <2>2, <2>3, <2>4, <1>1, OnlyCall DEF BeginReconcile, files
<1>2. CASE FoundConsistent(s) \/ FinishRebuild(s)
  BY <1>2, ReturnKeeps DEF FoundConsistent, FinishRebuild, Settle, files
<1>3. CASE DropCatalog(s)
  <2> DEFINE c == calls[s]
             next == [c EXCEPT !.pc = "rebuild"]
  <2>1. c \in ReconcileCalls /\ CallSound(c, artifacts, manifests, spent, raced)
    BY <1>3, CallAt DEF DropCatalog, At, RegistryInv, CallSound
  <2>2. calls' = [calls EXCEPT ![s] = next] /\ calls'[s] = next
    BY <1>3 DEF DropCatalog, Goto, RegistryInv
  <2>3. next \in ReconcileCalls /\ next.items = c.items /\ next.pc = "rebuild"
    BY <2>1 DEF ReconcileCalls
  <2> HIDE DEF next
  <2>4. CallSound(next, artifacts, manifests, spent, raced)
    BY <2>1, <2>3, CallKinds DEF CallSound, Calls
  <2> QED
    BY <2>2, <2>3, <2>4, <1>3, CatalogStep DEF DropCatalog, ghosts
<1>4. CASE ProjectNext(s)
  <2>1. PICK d \in calls[s].items :
          /\ catalog' = catalog \cup {d}
          /\ calls' = [calls EXCEPT ![s] = [calls[s] EXCEPT !.items = @ \ {d}]]
    BY <1>4 DEF ProjectNext
  <2> DEFINE c == calls[s]
             next == [c EXCEPT !.items = @ \ {d}]
  <2>2. c \in ReconcileCalls /\ CallSound(c, artifacts, manifests, spent, raced)
    BY <1>4, CallAt DEF ProjectNext, At, RegistryInv, CallSound
  <2>3. d \in Stored
    BY <2>1, <2>2 DEF CallSound, Stored, ReconcileCalls
  <2>4. next \in ReconcileCalls /\ next.items = c.items \ {d} /\ next.pc \in {"compare", "rebuild"}
    BY <2>2 DEF ReconcileCalls
  <2>5. calls' = [calls EXCEPT ![s] = next] /\ calls'[s] = next
    BY <2>1 DEF RegistryInv
  <2> HIDE DEF next
  <2>6. CallSound(next, artifacts, manifests, spent, raced)
    BY <2>2, <2>4, CallKinds DEF CallSound, Calls
  <2>7. catalog' \subseteq Stored
    BY <2>1, <2>3 DEF RegistryInv
  <2> QED
    BY <2>4, <2>5, <2>6, <2>7, <1>4, CatalogStep DEF ProjectNext, ghosts
<1> QED
  BY <1>1, <1>2, <1>3, <1>4 DEF Reconciliation

LEMMA RegistryStep == RegistryInv /\ [Next]_vars => RegistryInv'
<1> SUFFICES ASSUME RegistryInv, [Next]_vars PROVE RegistryInv'
  OBVIOUS
<1>1. CASE UNCHANGED vars
  BY <1>1 DEF vars, files, ghosts, RegistryInv, ArtifactsSound, ManifestsSound, Stored, Intact, StoresAgree, At
<1>2. ASSUME NEW s \in Sessions, Registration(s) PROVE RegistryInv'
  <2>1. CASE RefuseVersion(s) \/ RefusePayload(s)
    BY <2>1, RaiseKeeps DEF RefuseVersion, RefusePayload, files, ghosts
  <2>2. CASE ShowPayload(s) \/ DeleteRecord(s)
    BY <2>2, ReturnKeeps DEF ShowPayload, DeleteRecord, files, ghosts
  <2> QED
    BY <1>2, <2>1, <2>2, BeginningsKeep, LookKeeps, StoreKeeps, ReadBackKeeps, CheckKeeps, SaveKeeps, ProjectKeeps
       DEF Registration
<1>3. ASSUME NEW s \in Sessions, FailCall(s) PROVE RegistryInv'
  BY <1>3, ReturnKeeps, RaiseKeeps DEF FailCall, files
<1>4. CASE Crash
  <2>1. calls' = [s \in Sessions |-> Idle] /\ UNCHANGED <<artifacts, manifests, catalog, records, spent, raced>>
    BY <1>4 DEF Crash, files
  <2>2. \A s \in Sessions : CallSound(calls'[s], artifacts', manifests', spent', raced')
    BY <2>1, IdleSound
  <2>3. StoresAgree'
    BY <2>1 DEF StoresAgree, At, Idle
  <2> QED
    BY <2>1, <2>2, <2>3 DEF RegistryInv, ArtifactsSound, ManifestsSound, Stored, Intact
<1> QED
  BY <1>1, <1>2, <1>3, <1>4, ReconcileKeeps DEF Next

LEMMA RegistryAlways == Spec => []RegistryInv
BY RegistryInit, RegistryStep, PTL DEF Spec

-----------------------------------------------------------------------------
\* The artifact of a dataset is there and holds what was registered, whatever
\* registrations run at once and whatever fails or crashes, unless two of them
\* found the place of its name free before either had stored
\* (artifact_store.store_file).
THEOREM ArtifactsAlwaysIntact == Spec => []ArtifactsIntact
<1>1. RegistryInv => ArtifactsIntact
  <2> SUFFICES ASSUME RegistryInv PROVE ArtifactsIntact
    OBVIOUS
  <2>1. ASSUME NEW s \in Sessions, At(s, "save")
        PROVE  Intact(calls[s].path, calls[s].source.content) /\ Intact(calls[s].path, calls[s].checksum)
    <3>1. calls[s] \in PlacedCalls /\ calls[s].pc = "save" /\ CallSound(calls[s], artifacts, manifests, spent, raced)
      BY <2>1, CallAt DEF At, RegistryInv, CallSound
    <3> QED
      BY <3>1 DEF CallSound, Intact, Lost
  <2> QED
    BY <2>1 DEF ArtifactsIntact, RegistryInv, ManifestsSound
<1> QED
  BY <1>1, RegistryAlways, PTL

\* The catalog never shows a dataset whose manifest is not saved (service.register,
\* catalog.project, rebuild).
THEOREM CatalogAlwaysGrounded == Spec => []CatalogGrounded
<1>1. RegistryInv => CatalogGrounded
  BY DEF RegistryInv, CatalogGrounded
<1> QED
  BY <1>1, RegistryAlways, PTL

-----------------------------------------------------------------------------
GhostsSound ==
    /\ blind \subseteq Datasets /\ kept \subseteq spent
    /\ torn \in BOOLEAN /\ partial \subseteq Reconciling
    /\ failures \in 0 .. MaxFailures /\ crashes \in 0 .. MaxCrashes

\* At the start nothing failed and nothing crashed.
LEMMA GhostsInit == Init => GhostsSound
<1>1. Init => failures \in 0 .. MaxFailures /\ crashes \in 0 .. MaxCrashes
  BY Bounds DEF Init
<1>2. Init => torn \in BOOLEAN
  BY Zenon DEF Init
<1>3. Init => blind = {} /\ kept = {} /\ partial = {}
  BY DEF Init
<1> QED
  BY <1>1, <1>2, <1>3 DEF GhostsSound

\* A listing counts at most one failure.
LEMMA ListedBounded ==
    ASSUME GhostsSound, NEW all, NEW seen, Listed(all, seen)
    PROVE  failures' \in 0 .. MaxFailures
BY Bounds DEF GhostsSound, Listed

\* A step of a registration leaves the reconciliations where they are.
LEMMA ReconcilingKept ==
    ASSUME RegistryInv, NEW s \in Sessions, \A t \in Sessions : t # s => calls'[t] = calls[t],
           calls[s].kind # "reconcile"
    PROVE  Reconciling \subseteq Reconciling'
BY DEF Reconciling

\* What each step of a registration does to the other calls and to its own.
LEMMA RegistrationCalls ==
    ASSUME RegistryInv, NEW s \in Sessions, Registration(s)
    PROVE  calls[s].kind # "reconcile" /\ \A t \in Sessions : t # s => calls'[t] = calls[t]
<1>1. \A t \in Sessions : t # s => calls'[t] = calls[t]
  BY DEF Registration, BeginImport, BeginOpen, BeginSave, Register, LookForArtifact, StoreArtifact, ReadBack,
     CheckLineage, RefuseVersion, SaveManifest, ProjectManifest, ShowPayload, RefusePayload, DeleteRecord,
     Raise, Enter, Goto, Return, RegistryInv
<1>2. calls[s] = Idle \/ calls[s].pc \in {"look", "store", "read", "check", "save", "project", "payload", "raised"}
  BY DEF Registration, BeginImport, BeginOpen, BeginSave, LookForArtifact, StoreArtifact, ReadBack,
     CheckLineage, RefuseVersion, SaveManifest, ProjectManifest, ShowPayload, RefusePayload, DeleteRecord, At
<1>3. calls[s] \in Calls
  BY DEF RegistryInv, CallSound
<1> QED
  BY <1>1, <1>2, <1>3 DEF Calls, LookCalls, PlacedCalls, ReconcileCalls, Registering, Idle

\* The failures and crashes stay within their bounds.
LEMMA GhostsStep == RegistryInv /\ GhostsSound /\ [Next]_vars => GhostsSound'
<1> SUFFICES ASSUME RegistryInv, GhostsSound, [Next]_vars PROVE GhostsSound'
  OBVIOUS
<1> USE DEF GhostsSound
<1>1. CASE UNCHANGED vars
  BY <1>1 DEF vars, files, ghosts, Reconciling
<1>2. ASSUME NEW s \in Sessions, Registration(s) PROVE GhostsSound'
  <2>1. Reconciling \subseteq Reconciling'
    BY <1>2, RegistrationCalls, ReconcilingKept
  <2>2. spent \subseteq spent' /\ kept' = kept /\ crashes' = crashes
    BY <1>2 DEF Registration, BeginImport, BeginOpen, BeginSave, LookForArtifact, StoreArtifact, ReadBack,
       CheckLineage, RefuseVersion, SaveManifest, ProjectManifest, ShowPayload, RefusePayload, DeleteRecord,
       files, ghosts
  <2>3. CASE CheckLineage(s)
    <3>1. PICK seen \in SUBSET Lineage(calls[s].lineage) : Listed(Lineage(calls[s].lineage), seen)
      BY <2>3 DEF CheckLineage
    <3>2. calls[s].lineage \in Datasets
      BY <2>3, CallAt DEF CheckLineage, At, RegistryInv, CallSound, PlacedCalls
    <3>3. blind' \subseteq Datasets
      BY <2>3, <3>2 DEF CheckLineage
    <3>4. torn' = torn /\ partial' = partial
      BY <2>3 DEF CheckLineage
    <3>5. failures' \in 0 .. MaxFailures
      BY <3>1, ListedBounded
    <3> QED
      BY <2>1, <2>2, <3>3, <3>4, <3>5
  <2>4. CASE RefuseVersion(s)
    <3>1. PICK seen : Listed(Lineage(calls[s].lineage), seen)
      BY <2>4 DEF RefuseVersion
    <3>2. failures' \in 0 .. MaxFailures
      BY <3>1, ListedBounded
    <3> QED
      BY <2>1, <2>2, <2>4, <3>2 DEF RefuseVersion
  <2>5. CASE SaveManifest(s)
    <3>1. partial' \subseteq Reconciling'
      BY <2>1, <2>5 DEF SaveManifest
    <3>2. torn' \in BOOLEAN
      BY <2>5, Zenon DEF SaveManifest
    <3> QED
      BY <2>2, <2>5, <3>1, <3>2 DEF SaveManifest
  <2>6. CASE ~CheckLineage(s) /\ ~RefuseVersion(s) /\ ~SaveManifest(s)
    <3>1. blind' = blind /\ torn' = torn /\ partial' = partial /\ failures' = failures
      BY <1>2, <2>6 DEF Registration, BeginImport, BeginOpen, BeginSave, LookForArtifact, StoreArtifact, ReadBack,
         ProjectManifest, ShowPayload, RefusePayload, DeleteRecord, ghosts
    <3> QED
      BY <2>1, <2>2, <3>1
  <2> QED
    BY <2>3, <2>4, <2>5, <2>6
<1>3. ASSUME NEW s \in Sessions, Reconciliation(s) PROVE GhostsSound'
  <2>1. spent' = spent /\ kept' = kept /\ crashes' = crashes /\ blind' = blind
    BY <1>3 DEF Reconciliation, BeginReconcile, FoundConsistent, DropCatalog, ProjectNext, FinishRebuild, Settle,
       files, ghosts
  <2>2. \A t \in Sessions : t # s => calls'[t] = calls[t]
    BY <1>3 DEF Reconciliation, BeginReconcile, FoundConsistent, DropCatalog, ProjectNext, FinishRebuild, Settle,
       Enter, Goto, Return, RegistryInv
  <2>3. CASE BeginReconcile(s)
    <3>1. PICK items \in SUBSET Stored :
             /\ Listed(Stored, items)
             /\ Enter(s, [kind |-> "reconcile", pc |-> "compare", items |-> items])
             /\ torn' = (torn \/ items # Stored)
             /\ partial' = IF items = Stored /\ Reconciling = {} THEN partial ELSE partial \cup Reconciling \cup {s}
      BY <2>3 DEF BeginReconcile
    <3>2. calls'[s].kind = "reconcile"
      BY <3>1 DEF Enter, RegistryInv
    <3>3. Reconciling \cup {s} \subseteq Reconciling'
      BY <3>2, <2>2 DEF Reconciling
    <3>4. torn' \in BOOLEAN
      BY <3>1, Zenon
    <3>5. failures' \in 0 .. MaxFailures
      BY <3>1, ListedBounded
    <3> QED
      BY <2>1, <3>1, <3>3, <3>4, <3>5
  <2>4. CASE FoundConsistent(s) \/ FinishRebuild(s)
    <3>1. torn' = (torn /\ s \in partial) /\ partial' = partial \ {s} /\ failures' = failures
      BY <2>4 DEF FoundConsistent, FinishRebuild, Settle
    <3>2. torn' \in BOOLEAN
      BY <3>1, Zenon
    <3>3. Reconciling \ {s} \subseteq Reconciling'
      BY <2>2 DEF Reconciling
    <3> QED
      BY <2>1, <3>1, <3>2, <3>3
  <2>5. CASE DropCatalog(s) \/ ProjectNext(s)
    <3>1. torn' = torn /\ partial' = partial /\ failures' = failures
      BY <2>5 DEF DropCatalog, ProjectNext, ghosts
    <3>2. calls[s] \in ReconcileCalls
      BY <2>5, CallAt DEF DropCatalog, ProjectNext, At, RegistryInv, CallSound
    <3>3. calls'[s].kind = calls[s].kind
      BY <2>5, <3>2 DEF DropCatalog, ProjectNext, Goto, RegistryInv, ReconcileCalls
    <3>4. Reconciling \subseteq Reconciling'
      BY <2>2, <3>3 DEF Reconciling
    <3> QED
      BY <2>1, <3>1, <3>4
  <2> QED
    BY <1>3, <2>3, <2>4, <2>5 DEF Reconciliation
<1>4. ASSUME NEW s \in Sessions, FailCall(s) PROVE GhostsSound'
  <2>1. failures' = failures + 1 /\ failures < MaxFailures /\ crashes' = crashes /\ blind' = blind
        /\ spent' = spent /\ partial' = partial \ {s}
    BY <1>4 DEF FailCall
  <2>2. torn' \in BOOLEAN
    BY <1>4, Zenon DEF FailCall
  <2>3. failures' \in 0 .. MaxFailures
    BY <2>1, Bounds
  <2>4. kept' \subseteq spent
    <3>1. At(s, "raised") => calls[s].id \in spent
      BY CallAt DEF At, RegistryInv, CallSound
    <3> QED
      BY <1>4, <3>1 DEF FailCall
  <2>5. Reconciling \ {s} \subseteq Reconciling'
    BY <1>4 DEF FailCall, Raise, Goto, Return, RegistryInv, Reconciling
  <2> QED
    BY <2>1, <2>2, <2>3, <2>4, <2>5
<1>5. CASE Crash
  <2>1. crashes' = crashes + 1 /\ crashes < MaxCrashes /\ failures' = failures /\ torn' = TRUE /\ partial' = {}
        /\ blind' = blind /\ kept' = kept /\ spent' = spent
    BY <1>5 DEF Crash
  <2> QED
    BY <2>1, Bounds
<1> QED
  BY <1>1, <1>2, <1>3, <1>4, <1>5 DEF Next

LEMMA GhostsAlways == Spec => []GhostsSound
BY GhostsInit, GhostsStep, RegistryAlways, PTL DEF Spec

\* The files, the catalog and the records keep their types; what is stored was
\* drawn as a fresh UUID before (dataset_manifest.create).
THEOREM TypesKept == Spec => []TypeOK
<1>1. RegistryInv /\ GhostsSound => TypeOK
  BY DEF RegistryInv, ArtifactsSound, ManifestsSound, GhostsSound, TypeOK, Stored
<1> QED
  BY <1>1, GhostsAlways, RegistryAlways, PTL

-----------------------------------------------------------------------------
(* Lineages. *)

\* The steps of a registration before its manifest is saved.
Pending == {"look", "store", "read", "check", "save"}

\* The manifest of a call comes after a latest version of its lineage.
Fits(c) == \E last \in Latest(Lineage(c.lineage)) : Continues(c, last)

\* A call that is to save a manifest has a dataset of its own.  It begins a
\* lineage that is not there yet, or it continues one that is; once checked it
\* fits, and no other call is to save into its lineage, unless it was checked
\* when a version was not to be seen.
InLine(s) ==
    calls[s].pc \in Pending =>
        /\ calls[s].id \notin Stored
        /\ \A t \in Sessions : t # s /\ calls[t].pc \in Pending => calls[t].id # calls[s].id
        /\ IF calls[s].kind = "save" THEN calls[s].lineage \in Stored
           ELSE calls[s].lineage = calls[s].id /\ calls[s].version = 1 /\ calls[s].previous = NoDataset
        /\ calls[s].pc = "save" /\ calls[s].lineage \notin blind =>
              /\ Fits(calls[s])
              /\ \A t \in Sessions : t # s /\ calls[t].pc = "save" => calls[t].lineage # calls[s].lineage

\* The versions of a lineage, one after the other.
Line(l) ==
    /\ IsFiniteSet(Lineage(l))
    /\ \A d \in Lineage(l) :
          /\ manifests[d].version \in 1 .. Cardinality(Lineage(l))
          /\ \A e \in Lineage(l) :
                /\ manifests[e].version = manifests[d].version => e = d
                /\ manifests[e].version = manifests[d].version + 1 => manifests[e].previous = d

\* The lineages are lines, and every call keeps them so.
LineageInv ==
    /\ \A d \in Stored : manifests[d].lineage \in Stored
    /\ \A l \in Datasets \ blind : Line(l)
    /\ \A s \in Sessions : InLine(s)

-----------------------------------------------------------------------------
\* At the start there is no lineage.
LEMMA LineageInit == Init => LineageInv
<1> SUFFICES ASSUME Init PROVE LineageInv
  OBVIOUS
<1>1. Stored = {} /\ \A l \in Datasets : Lineage(l) = {}
  BY DEF Init, Stored, Lineage
<1>2. \A l \in Datasets : Line(l)
  BY <1>1, FS_EmptySet DEF Line
<1>3. \A s \in Sessions : calls[s].pc = "idle"
  BY DEF Init, Idle
<1> QED
  BY <1>1, <1>2, <1>3 DEF LineageInv, InLine, Pending

\* What a call needs to continue a lineage is in the manifests.
LEMMA LinesKept ==
    ASSUME manifests' = manifests
    PROVE  Stored' = Stored /\ (\A l : Lineage(l)' = Lineage(l)) /\ (\A l : Line(l)' = Line(l))
<1>1. Stored' = Stored /\ \A l : Lineage(l)' = Lineage(l)
  BY DEF Stored, Lineage
<1>2. \A l : Line(l)' = Line(l)
  BY <1>1 DEF Line
<1> QED
  BY <1>1, <1>2

\* A step of one session that saves no manifest.
LEMMA LineStep ==
    ASSUME RegistryInv, LineageInv, NEW s \in Sessions, manifests' = manifests, blind \subseteq blind',
           calls' = [calls EXCEPT ![s] = calls'[s]], calls'[s].pc # "save",
           calls'[s].pc \in Pending =>
              /\ calls'[s].id \notin Stored
              /\ \A t \in Sessions : t # s /\ calls[t].pc \in Pending => calls[t].id # calls'[s].id
              /\ IF calls'[s].kind = "save" THEN calls'[s].lineage \in Stored
                 ELSE calls'[s].lineage = calls'[s].id /\ calls'[s].version = 1 /\ calls'[s].previous = NoDataset
    PROVE  LineageInv'
<1>1. \A t \in Sessions : t # s => calls'[t] = calls[t]
  BY DEF RegistryInv
<1>2. Stored' = Stored /\ (\A l : Lineage(l)' = Lineage(l)) /\ (\A l : Line(l)' = Line(l))
  BY LinesKept
<1>3. ASSUME NEW t \in Sessions PROVE InLine(t)'
  <2>1. CASE t = s
    BY <2>1, <1>1, <1>2 DEF InLine
  <2>2. CASE t # s /\ calls[t].pc \in Pending
    <3>1. calls'[t] = calls[t] /\ InLine(t)
      BY <2>2, <1>1 DEF LineageInv
    <3>2. \A u \in Sessions : u # t /\ calls'[u].pc \in Pending => calls'[u].id # calls'[t].id
      BY <2>2, <3>1, <1>1 DEF InLine
    <3>3. calls[t].pc = "save" /\ calls[t].lineage \notin blind' =>
             /\ Fits(calls[t])'
             /\ \A u \in Sessions : u # t /\ calls'[u].pc = "save" => calls'[u].lineage # calls[t].lineage
      <4> SUFFICES ASSUME calls[t].pc = "save", calls[t].lineage \notin blind
                   PROVE  /\ Fits(calls[t])'
                          /\ \A u \in Sessions : u # t /\ calls'[u].pc = "save" => calls'[u].lineage # calls[t].lineage
        OBVIOUS
      <4>1. Fits(calls[t]) /\ \A u \in Sessions : u # t /\ calls[u].pc = "save" => calls[u].lineage # calls[t].lineage
        BY <3>1, <2>2 DEF InLine
      <4>2. Fits(calls[t])'
        <5>1. Latest(Lineage(calls[t].lineage))' = Latest(Lineage(calls[t].lineage))
          BY <1>2, <3>1 DEF Latest
        <5> QED
          BY <5>1, <4>1, <3>1 DEF Fits, Continues
      <4> QED
        BY <4>1, <4>2, <1>1
    <3> QED
      BY <2>2, <3>1, <3>2, <3>3, <1>2 DEF InLine
  <2>3. CASE t # s /\ calls[t].pc \notin Pending
    BY <2>3, <1>1 DEF InLine
  <2> QED
    BY <2>1, <2>2, <2>3
<1>4. \A d \in Stored' : manifests'[d].lineage \in Stored'
  BY <1>2 DEF LineageInv
<1>5. \A l \in Datasets \ blind' : Line(l)'
  BY <1>2 DEF LineageInv
<1> QED
  BY <1>3, <1>4, <1>5 DEF LineageInv

\* ... and one that only ends its call, or goes on with the same dataset.
LEMMA GoesOnInLine ==
    ASSUME RegistryInv, LineageInv, NEW s \in Sessions, manifests' = manifests, blind \subseteq blind',
           calls' = [calls EXCEPT ![s] = calls'[s]], calls'[s].pc # "save",
           \/ calls'[s].pc \notin Pending
           \/ /\ calls[s].pc \in Pending /\ calls'[s].kind = calls[s].kind /\ calls'[s].id = calls[s].id
              /\ calls'[s].version = calls[s].version /\ calls'[s].lineage = calls[s].lineage
              /\ calls'[s].previous = calls[s].previous
    PROVE  LineageInv'
BY LineStep DEF LineageInv, InLine

\* A call that begins.
LEMMA RegisterInLine ==
    ASSUME RegistryInv, LineageInv, NEW s \in Sessions, NEW kind \in Registering, NEW d, d \notin spent,
           NEW x, NEW version, NEW lineage, NEW previous,
           Register(s, kind, d, x, version, lineage, previous),
           IF kind = "save" THEN lineage \in Stored ELSE lineage = d /\ version = 1 /\ previous = NoDataset,
           manifests' = manifests, blind' = blind
    PROVE  LineageInv'
<1> DEFINE c == [kind |-> kind, pc |-> "look", id |-> d, source |-> x,
                 version |-> version, lineage |-> lineage, previous |-> previous]
<1>1. calls' = [calls EXCEPT ![s] = c] /\ calls'[s] = c
  BY DEF Register, Enter, RegistryInv
<1>2. c.pc = "look" /\ c.kind = kind /\ c.id = d /\ c.lineage = lineage /\ c.version = version /\ c.previous = previous
  OBVIOUS
<1> HIDE DEF c
<1>3. d \notin Stored
  BY DEF RegistryInv, ManifestsSound
<1>4. ASSUME NEW t \in Sessions, calls[t].pc \in Pending PROVE calls[t].id # d
  <2>1. calls[t] \in LookCalls \cup PlacedCalls /\ CallSound(calls[t], artifacts, manifests, spent, raced)
    BY <1>4, CallAt DEF Pending, RegistryInv, CallSound
  <2> QED
    BY <2>1 DEF CallSound
<1> QED
  BY <1>1, <1>2, <1>3, <1>4, LineStep

\* An import and a viewer begin a lineage; the editor goes on with one.
LEMMA BeginningsInLine ==
    ASSUME RegistryInv, LineageInv, NEW s \in Sessions, BeginImport(s) \/ BeginOpen(s) \/ BeginSave(s)
    PROVE  LineageInv'
<1>1. manifests' = manifests /\ blind' = blind
  BY DEF BeginImport, BeginOpen, BeginSave, files, ghosts
<1>2. CASE BeginImport(s)
  <2>1. PICK d \in Datasets \ spent, x \in Sources : Register(s, "import", d, x, 1, d, NoDataset)
    BY <1>2 DEF BeginImport
  <2> QED
    BY <2>1, <1>1, RegisterInLine DEF Registering
<1>3. CASE BeginOpen(s)
  <2>1. PICK d \in Datasets \ spent, x \in Sources : Register(s, "open", d, x, 1, d, NoDataset)
    BY <1>3 DEF BeginOpen
  <2> QED
    BY <2>1, <1>1, RegisterInLine DEF Registering
<1>4. CASE BeginSave(s)
  <2>1. PICK d \in Datasets \ spent, x \in Sources, p \in Stored :
           Register(s, "save", d, x, manifests[p].version + 1, manifests[p].lineage, p)
    BY <1>4 DEF BeginSave
  <2>2. manifests[p].lineage \in Stored
    BY DEF LineageInv
  <2> QED
    BY <2>1, <2>2, <1>1, RegisterInLine DEF Registering
<1> QED
  BY <1>2, <1>3, <1>4

\* A version that saw all the others and no other call about to save fits.
LEMMA CheckInLine == ASSUME RegistryInv, LineageInv, NEW s \in Sessions, CheckLineage(s) PROVE LineageInv'
<1> DEFINE c == calls[s]
           line == Lineage(c.lineage)
           behind == \E t \in Sessions : At(t, "save") /\ calls[t].lineage = c.lineage
<1>1. PICK seen \in SUBSET line :
         /\ \E last \in Latest(seen) : Continues(c, last)
         /\ blind' = IF seen = line /\ ~behind THEN blind ELSE blind \cup {c.lineage}
  BY DEF CheckLineage
<1>2. c \in PlacedCalls /\ c.pc = "check" /\ manifests' = manifests /\ InLine(s)
  BY CallAt DEF CheckLineage, At, RegistryInv, CallSound, files, LineageInv
<1>3. /\ \A t \in Sessions : t # s => calls'[t] = calls[t]
      /\ calls'[s].pc = "save" /\ calls'[s].kind = c.kind /\ calls'[s].id = c.id
      /\ calls'[s].version = c.version /\ calls'[s].lineage = c.lineage /\ calls'[s].previous = c.previous
  BY <1>2 DEF CheckLineage, Goto, RegistryInv, PlacedCalls
<1>4. Stored' = Stored /\ (\A l : Lineage(l)' = Lineage(l)) /\ (\A l : Line(l)' = Line(l))
  BY <1>2, LinesKept
<1>5. /\ c.id \notin Stored
      /\ \A t \in Sessions : t # s /\ calls[t].pc \in Pending => calls[t].id # c.id
      /\ IF c.kind = "save" THEN c.lineage \in Stored
         ELSE c.lineage = c.id /\ c.version = 1 /\ c.previous = NoDataset
  BY <1>2 DEF InLine, Pending
<1>6. blind \subseteq blind'
  BY <1>1
<1>7. \A d : Latest(Lineage(d))' = Latest(Lineage(d))
  BY <1>2, <1>4 DEF Latest
<1>8. ASSUME NEW t \in Sessions PROVE InLine(t)'
  <2>1. CASE t = s
    <3>1. ASSUME c.lineage \notin blind'
          PROVE  /\ Fits(calls[s])'
                 /\ \A u \in Sessions : u # s /\ calls'[u].pc = "save" => calls'[u].lineage # c.lineage
      <4>1. seen = line /\ ~behind
        BY <3>1, <1>1
      <4>2. Fits(c)
        BY <4>1, <1>1 DEF Fits
      <4>3. Fits(calls[s])'
        BY <4>2, <1>2, <1>3, <1>7 DEF Fits, Continues
      <4> QED
        BY <4>1, <4>3, <1>3 DEF At
    <3>2. \A u \in Sessions : u # s /\ calls'[u].pc \in Pending => calls'[u].id # calls'[s].id
      BY <1>3, <1>5
    <3> QED
      BY <2>1, <3>1, <3>2, <1>3, <1>4, <1>5 DEF InLine
  <2>2. CASE t # s /\ calls[t].pc \in Pending
    <3>1. calls'[t] = calls[t] /\ InLine(t)
      BY <2>2, <1>3 DEF LineageInv
    <3>2. \A u \in Sessions : u # t /\ calls'[u].pc \in Pending => calls'[u].id # calls'[t].id
      BY <2>2, <3>1, <1>2, <1>3 DEF InLine, Pending
    <3>3. ASSUME calls[t].pc = "save", calls[t].lineage \notin blind'
          PROVE  /\ Fits(calls[t])'
                 /\ \A u \in Sessions : u # t /\ calls'[u].pc = "save" => calls'[u].lineage # calls[t].lineage
      <4>1. Fits(calls[t]) /\ \A u \in Sessions : u # t /\ calls[u].pc = "save" => calls[u].lineage # calls[t].lineage
        BY <3>1, <3>3, <2>2, <1>6 DEF InLine
      <4>2. calls[t].lineage = c.lineage => behind
        BY <3>3 DEF At
      <4>3. calls[t].lineage # c.lineage
        BY <4>2, <3>3, <1>1
      <4>4. Fits(calls[t])'
        BY <4>1, <3>1, <1>2, <1>7 DEF Fits, Continues
      <4> QED
        BY <4>1, <4>3, <4>4, <1>3
    <3> QED
      BY <2>2, <3>1, <3>2, <3>3, <1>4 DEF InLine
  <2>3. CASE t # s /\ calls[t].pc \notin Pending
    BY <2>3, <1>3 DEF InLine
  <2> QED
    BY <2>1, <2>2, <2>3
<1>9. (\A d \in Stored' : manifests'[d].lineage \in Stored') /\ \A l \in Datasets \ blind' : Line(l)'
  BY <1>2, <1>4, <1>6 DEF LineageInv
<1> QED
  BY <1>8, <1>9 DEF LineageInv

\* The new version comes after the latest one.
LEMMA LineExtended ==
    ASSUME RegistryInv, LineageInv, NEW s \in Sessions, SaveManifest(s), NEW line, line = calls[s].lineage
    PROVE  /\ line \notin blind => Line(line)'
           /\ \A l : l # line => Lineage(l)' = Lineage(l) /\ (Line(l) => Line(l)')
<1> DEFINE c == calls[s]
           m == [path |-> c.path, checksum |-> c.checksum, version |-> c.version,
                 lineage |-> c.lineage, previous |-> c.previous]
<1>1. c \in PlacedCalls /\ c.pc = "save" /\ c.id \in Datasets
  BY CallAt DEF SaveManifest, At, RegistryInv, CallSound, PlacedCalls
<1>2. c.id \notin Stored /\ (line \notin blind => Fits(c))
  BY <1>1 DEF LineageInv, InLine, Pending
<1>3. m.version = c.version /\ m.lineage = c.lineage /\ m.previous = c.previous /\ m # Missing
      /\ c.version \in Nat \ {0}
  <2>1. m \in Manifests /\ m # Missing
    BY <1>1, Marks DEF PlacedCalls, Manifests
  <2> QED
    BY <2>1, <1>1 DEF PlacedCalls
<1> HIDE DEF m
<1>4. manifests'[c.id] = m /\ \A d \in Datasets : d # c.id => manifests'[d] = manifests[d]
  BY <1>1 DEF SaveManifest, RegistryInv, ManifestsSound, m
<1>5. \A d \in Stored : d \in Datasets /\ d # c.id
  BY <1>2 DEF Stored
<1>6. Stored' = Stored \cup {c.id}
  BY <1>1, <1>3, <1>4 DEF Stored
<1>7. Lineage(line)' = Lineage(line) \cup {c.id}
  BY <1>3, <1>4, <1>5, <1>6 DEF Lineage
<1>8. \A l : l # line => Lineage(l)' = Lineage(l)
  BY <1>3, <1>4, <1>5, <1>6 DEF Lineage
<1>9. \A l : \A d \in Lineage(l) : d \in Stored /\ manifests'[d] = manifests[d]
  BY <1>4, <1>5 DEF Lineage
<1>10. \A l : l # line => (Line(l) => Line(l)')
  BY <1>8, <1>9 DEF Line
<1>11. ASSUME line \notin blind PROVE Line(line)'
  <2> DEFINE L == Lineage(line)
             N == Cardinality(L)
  <2>1. line \in Datasets /\ Line(line)
    BY <1>1, <1>11 DEF PlacedCalls, LineageInv
  <2>2. IsFiniteSet(L) /\ N \in Nat /\ c.id \notin L
    BY <2>1, <1>5, <1>9, FS_CardinalityType DEF Line
  <2>3. IsFiniteSet(L \cup {c.id}) /\ Cardinality(L \cup {c.id}) = N + 1
    BY <2>2, FS_AddElement
  <2>4. \A d \in L : manifests[d].version \in 1 .. N
    BY <2>1 DEF Line
  <2>5. /\ c.version \in 1 .. N + 1
        /\ \A d \in L : /\ manifests[d].version < c.version
                        /\ c.version = manifests[d].version + 1 => c.previous = d
    <3> PICK last \in Latest(L) : Continues(c, last)
      BY <1>2, <1>11 DEF Fits
    <3>1. CASE L = {}
      <4>1. Cardinality(L) = 0
        BY <3>1, FS_EmptySet
      <4>2. last = NoDataset /\ c.version = 1
        BY <3>1 DEF Latest, Continues
      <4> QED
        BY <3>1, <4>1, <4>2
    <3>2. CASE L # {}
      <4>1. last \in L /\ \A d \in L : manifests[d].version <= manifests[last].version
        BY <3>2 DEF Latest
      <4>2. c.version = manifests[last].version + 1 /\ c.previous = last
        BY <4>1, <1>5, <1>9, Marks DEF Continues
      <4>3. ASSUME NEW d \in L, c.version = manifests[d].version + 1 PROVE d = last
        <5>1. manifests[d].version = manifests[last].version
          BY <4>1, <4>2, <4>3, <2>4
        <5> QED
          BY <5>1, <4>1, <2>1 DEF Line
      <4>4. c.version \in 1 .. N + 1 /\ \A d \in L : manifests[d].version < c.version
        BY <4>1, <4>2, <2>2, <2>4
      <4> QED
        BY <4>2, <4>3, <4>4
    <3> QED
      BY <3>1, <3>2
  <2>6. /\ \A d \in L : manifests'[d] = manifests[d]
        /\ manifests'[c.id].version = c.version /\ manifests'[c.id].previous = c.previous
    BY <1>3, <1>4, <1>9
  <2>7. ASSUME NEW d \in L \cup {c.id}
        PROVE  /\ manifests'[d].version \in 1 .. N + 1
               /\ \A e \in L \cup {c.id} :
                     /\ manifests'[e].version = manifests'[d].version => e = d
                     /\ manifests'[e].version = manifests'[d].version + 1 => manifests'[e].previous = d
    <3>1. manifests'[d].version \in 1 .. N + 1
      BY <2>2, <2>4, <2>5, <2>6
    <3>2. ASSUME NEW e \in L \cup {c.id}
          PROVE  /\ manifests'[e].version = manifests'[d].version => e = d
                 /\ manifests'[e].version = manifests'[d].version + 1 => manifests'[e].previous = d
      <4>1. CASE d \in L /\ e \in L
        BY <4>1, <2>1, <2>6 DEF Line
      <4>2. CASE d = c.id /\ e \in L
        BY <4>2, <2>2, <2>4, <2>5, <2>6
      <4>3. CASE d \in L /\ e = c.id
        BY <4>3, <2>2, <2>4, <2>5, <2>6
      <4>4. CASE d = c.id /\ e = c.id
        BY <4>4, <2>2, <2>5, <2>6
      <4> QED
        BY <4>1, <4>2, <4>3, <4>4
    <3> QED
      BY <3>1, <3>2
  <2> QED
    BY <2>3, <2>7, <1>7 DEF Line
<1> QED
  BY <1>8, <1>10, <1>11

\* A manifest is saved: no other call was about to save into its lineage.
LEMMA SaveInLine ==
    ASSUME RegistryInv, LineageInv, NEW s \in Sessions, SaveManifest(s)
    PROVE  LineageInv'
<1> DEFINE c == calls[s]
           m == [path |-> c.path, checksum |-> c.checksum, version |-> c.version,
                 lineage |-> c.lineage, previous |-> c.previous]
<1>1. c \in PlacedCalls /\ c.pc = "save" /\ c.id \in Datasets /\ c.lineage \in Datasets
  BY CallAt DEF SaveManifest, At, RegistryInv, CallSound, PlacedCalls
<1>2. c.id \notin Stored /\ IF c.kind = "save" THEN c.lineage \in Stored ELSE c.lineage = c.id
  BY <1>1 DEF LineageInv, InLine, Pending
<1>3. m.lineage = c.lineage /\ m # Missing /\ blind' = blind
  <2>1. m \in Manifests
    BY <1>1, Marks DEF PlacedCalls, Manifests
  <2> QED
    BY <2>1, Marks DEF SaveManifest
<1> HIDE DEF m
<1>4. manifests'[c.id] = m /\ \A d \in Datasets : d # c.id => manifests'[d] = manifests[d]
  BY <1>1 DEF SaveManifest, RegistryInv, ManifestsSound, m
<1>5. \A d \in Stored : d \in Datasets /\ d # c.id /\ manifests'[d] = manifests[d]
  BY <1>2, <1>4 DEF Stored
<1>6. Stored' = Stored \cup {c.id}
  BY <1>1, <1>3, <1>4, <1>5 DEF Stored
<1>7. calls'[s].pc = "project" /\ \A t \in Sessions : t # s => calls'[t] = calls[t]
  BY <1>1 DEF SaveManifest, Goto, RegistryInv, PlacedCalls
<1>8. \A d \in Stored' : manifests'[d].lineage \in Stored'
  BY <1>2, <1>3, <1>4, <1>5, <1>6 DEF LineageInv
<1>9. \A l \in Datasets \ blind' : Line(l)'
  <2> PICK line : line = c.lineage
    OBVIOUS
  <2>1. (line \notin blind => Line(line)') /\ \A l : l # line => (Line(l) => Line(l)')
    BY LineExtended
  <2> QED
    BY <2>1, <1>3 DEF LineageInv
<1>10. ASSUME NEW l, l # c.lineage
       PROVE  Latest(Lineage(l))' = Latest(Lineage(l)) /\ \A d \in Lineage(l) : manifests'[d] = manifests[d]
  <2> PICK line : line = c.lineage
    OBVIOUS
  <2>1. Lineage(l)' = Lineage(l)
    BY <1>10, LineExtended
  <2>2. \A d \in Lineage(l) : manifests'[d] = manifests[d]
    BY <1>5 DEF Lineage
  <2>3. \A d, e \in Lineage(l) : manifests'[e].version <= manifests'[d].version <=> manifests[e].version <= manifests[d].version
    BY <2>2
  <2> QED
    BY <2>1, <2>2, <2>3 DEF Latest
<1>11. ASSUME NEW t \in Sessions PROVE InLine(t)'
  <2>1. CASE t = s
    BY <2>1, <1>7 DEF InLine, Pending
  <2>2. CASE t # s /\ calls[t].pc \in Pending
    <3>1. calls'[t] = calls[t] /\ InLine(t)
      BY <2>2, <1>7 DEF LineageInv
    <3>2. calls[t].id \notin Stored /\ calls[t].id # c.id
      BY <2>2, <3>1, <1>1 DEF InLine, Pending
    <3>3. \A u \in Sessions : u # t /\ calls'[u].pc \in Pending => u # s /\ calls'[u].id # calls[t].id
      BY <2>2, <3>1, <1>7 DEF InLine, Pending
    <3>4. IF calls[t].kind = "save" THEN calls[t].lineage \in Stored
          ELSE calls[t].lineage = calls[t].id /\ calls[t].version = 1 /\ calls[t].previous = NoDataset
      BY <2>2, <3>1 DEF InLine
    <3>5. ASSUME calls[t].pc = "save", calls[t].lineage \notin blind'
          PROVE  /\ Fits(calls[t])'
                 /\ \A u \in Sessions : u # t /\ calls'[u].pc = "save" => calls'[u].lineage # calls[t].lineage
      <4>1. Fits(calls[t]) /\ \A u \in Sessions : u # t /\ calls[u].pc = "save" => calls[u].lineage # calls[t].lineage
        BY <3>1, <3>5, <2>2, <1>3 DEF InLine
      <4>2. calls[t].lineage # c.lineage
        BY <4>1, <2>2, <1>1
      <4>3. PICK last \in Latest(Lineage(calls[t].lineage)) : Continues(calls[t], last)
        BY <4>1 DEF Fits
      <4>4. last = NoDataset \/ last \in Lineage(calls[t].lineage)
        BY DEF Latest
      <4>5. Fits(calls[t])'
        BY <4>2, <4>3, <4>4, <3>1, <1>10 DEF Fits, Continues
      <4> QED
        BY <4>1, <4>5, <1>7
    <3> QED
      BY <2>2, <3>1, <3>2, <3>3, <3>4, <3>5, <1>6 DEF InLine
  <2>3. CASE t # s /\ calls[t].pc \notin Pending
    BY <2>3, <1>7 DEF InLine
  <2> QED
    BY <2>1, <2>2, <2>3
<1> QED
  BY <1>8, <1>9, <1>11 DEF LineageInv

\* Every step keeps the lineages in line.
LEMMA LineageStep == RegistryInv /\ LineageInv /\ [Next]_vars => LineageInv'
<1> SUFFICES ASSUME RegistryInv, LineageInv, [Next]_vars PROVE LineageInv'
  OBVIOUS
<1>1. CASE UNCHANGED vars
  <2>1. manifests' = manifests /\ calls' = calls /\ blind' = blind
    BY <1>1 DEF vars, files, ghosts
  <2>2. Stored' = Stored /\ (\A l : Lineage(l)' = Lineage(l)) /\ (\A l : Line(l)' = Line(l))
    BY <2>1, LinesKept
  <2>3. \A s \in Sessions : Fits(calls[s])' = Fits(calls[s])
    BY <2>1, <2>2 DEF Fits, Continues, Latest
  <2> QED
    BY <2>1, <2>2, <2>3 DEF LineageInv, InLine
<1>2. ASSUME NEW s \in Sessions, LookForArtifact(s) \/ StoreArtifact(s) \/ ReadBack(s) PROVE LineageInv'
  <2>1. calls[s] \in LookCalls \cup PlacedCalls
    BY <1>2, CallAt DEF LookForArtifact, StoreArtifact, ReadBack, At, RegistryInv, CallSound
  <2>2. manifests' = manifests /\ blind' = blind /\ calls[s].pc \in Pending
    BY <1>2 DEF LookForArtifact, StoreArtifact, ReadBack, files, ghosts, At, Pending
  <2>3. /\ calls' = [calls EXCEPT ![s] = calls'[s]] /\ calls'[s].pc # "save"
        /\ calls'[s].kind = calls[s].kind /\ calls'[s].id = calls[s].id
        /\ calls'[s].version = calls[s].version /\ calls'[s].lineage = calls[s].lineage
        /\ calls'[s].previous = calls[s].previous
    BY <1>2, <2>1 DEF LookForArtifact, StoreArtifact, ReadBack, Goto, RegistryInv, LookCalls, PlacedCalls
  <2> QED
    BY <2>2, <2>3, GoesOnInLine
<1>3. ASSUME NEW s \in Sessions, Return(s) \/ Raise(s), manifests' = manifests, blind' = blind PROVE LineageInv'
  <2>1. calls[s] \in Calls
    BY DEF RegistryInv, CallSound
  <2>2. calls[s].kind = "open" => calls[s] \in LookCalls \cup PlacedCalls
    BY <2>1 DEF Calls, ReconcileCalls, Idle
  <2>3. calls' = [calls EXCEPT ![s] = calls'[s]] /\ calls'[s].pc \notin Pending /\ calls'[s].pc # "save"
    <3>1. CASE Return(s)
      BY <3>1 DEF Return, RegistryInv, Idle, Pending
    <3>2. CASE ~Return(s)
      <4>1. calls[s] \in LookCalls \cup PlacedCalls /\ calls' = [calls EXCEPT ![s].pc = "raised"]
        BY <1>3, <3>2, <2>2 DEF Raise, Goto
      <4> QED
        BY <4>1 DEF RegistryInv, LookCalls, PlacedCalls, Pending
    <3> QED
      BY <3>1, <3>2
  <2> QED
    BY <2>3, <1>3, GoesOnInLine
<1>4. ASSUME NEW s \in Sessions,
             RefuseVersion(s) \/ ShowPayload(s) \/ RefusePayload(s) \/ DeleteRecord(s) \/ FailCall(s)
      PROVE  LineageInv'
  BY <1>3, <1>4 DEF RefuseVersion, ShowPayload, RefusePayload, DeleteRecord, FailCall, files, ghosts
<1>5. ASSUME NEW s \in Sessions, ProjectManifest(s) PROVE LineageInv'
  <2>1. manifests' = manifests /\ blind' = blind /\ calls[s] \in PlacedCalls
    BY <1>5, CallAt DEF ProjectManifest, At, RegistryInv, CallSound, ghosts
  <2>2. CASE calls[s].kind = "open"
    <3>1. calls' = [calls EXCEPT ![s] = calls'[s]] /\ calls'[s].pc = "payload"
      BY <1>5, <2>1, <2>2 DEF ProjectManifest, Goto, RegistryInv, PlacedCalls
    <3> QED
      BY <2>1, <3>1, GoesOnInLine DEF Pending
  <2> QED
    BY <1>3, <1>5, <2>1, <2>2 DEF ProjectManifest
<1>6. ASSUME NEW s \in Sessions, Reconciliation(s) PROVE LineageInv'
  <2>1. manifests' = manifests /\ blind' = blind
    BY <1>6 DEF Reconciliation, BeginReconcile, FoundConsistent, DropCatalog, ProjectNext, FinishRebuild, Settle,
       files, ghosts
  <2>2. CASE BeginReconcile(s)
    <3>1. calls' = [calls EXCEPT ![s] = calls'[s]] /\ calls'[s].pc = "compare"
      BY <2>2 DEF BeginReconcile, Enter, RegistryInv
    <3> QED
      BY <2>1, <3>1, GoesOnInLine DEF Pending
  <2>3. CASE DropCatalog(s) \/ ProjectNext(s)
    <3>1. calls[s] \in ReconcileCalls
      BY <2>3, CallAt DEF DropCatalog, ProjectNext, At, RegistryInv, CallSound
    <3>2. calls' = [calls EXCEPT ![s] = calls'[s]] /\ calls'[s].pc \in {"compare", "rebuild"}
      BY <2>3, <3>1 DEF DropCatalog, ProjectNext, Goto, RegistryInv, ReconcileCalls
    <3> QED
      BY <2>1, <3>2, GoesOnInLine DEF Pending
  <2>4. CASE FoundConsistent(s) \/ FinishRebuild(s)
    BY <1>3, <2>1, <2>4 DEF FoundConsistent, FinishRebuild, Settle
  <2> QED
    BY <1>6, <2>2, <2>3, <2>4 DEF Reconciliation
<1>7. CASE Crash
  <2>1. calls' = [s \in Sessions |-> Idle] /\ manifests' = manifests /\ blind' = blind
    BY <1>7 DEF Crash, files
  <2>2. \A s \in Sessions : calls'[s].pc = "idle"
    BY <2>1 DEF Idle
  <2>3. Stored' = Stored /\ \A l : Line(l)' = Line(l)
    BY <2>1, LinesKept
  <2>4. \A s \in Sessions : InLine(s)'
    BY <2>2 DEF InLine, Pending
  <2>5. (\A d \in Stored : manifests[d].lineage \in Stored)' /\ \A l \in Datasets \ blind' : Line(l)'
    BY <2>1, <2>3 DEF LineageInv
  <2> QED
    BY <2>4, <2>5 DEF LineageInv
<1>8. ASSUME NEW s \in Sessions, Registration(s) PROVE LineageInv'
  BY <1>8, <1>2, <1>4, <1>5, BeginningsInLine, CheckInLine, SaveInLine DEF Registration
<1> QED
  BY <1>1, <1>4, <1>6, <1>7, <1>8 DEF Next

\* The versions of a lineage are 1, 2, ... without a gap or a fork, through
\* refused versions, failures and crashes and beside any other calls, unless one
\* was checked while the version before it was not to be seen
\* (manifest_repository._validate_lineage).
THEOREM LineagesAlwaysLinear == Spec => []LineagesLinear
<1>1. RegistryInv /\ LineageInv => LineagesLinear
  <2> SUFFICES ASSUME RegistryInv, LineageInv PROVE LineagesLinear
    OBVIOUS
  <2> SUFFICES ASSUME NEW d \in Stored, manifests[d].lineage \notin blind
               PROVE  /\ manifests[d].version \in 1 .. Cardinality(Lineage(manifests[d].lineage))
                      /\ \A e \in Lineage(manifests[d].lineage) :
                            /\ manifests[e].version = manifests[d].version => e = d
                            /\ manifests[e].version = manifests[d].version + 1 => manifests[e].previous = d
    BY DEF LineagesLinear
  <2>1. manifests[d].lineage \in Datasets /\ d \in Lineage(manifests[d].lineage)
    BY DEF LineageInv, Lineage, Stored
  <2> QED
    BY <2>1 DEF LineageInv, Line
<1>2. RegistryInv /\ LineageInv /\ [Next]_vars => LineageInv'
  BY LineageStep
<1> QED
  BY <1>1, <1>2, LineageInit, RegistryAlways, PTL DEF Spec

-----------------------------------------------------------------------------
(* The catalog. *)

\* A dataset that the catalog does not show is about to be projected, or a
\* rebuild that knows it is at work, and no reconciliation that does not know
\* every dataset is about to drop the catalog.  A reconciliation that is not
\* partial is the only one, and brings everything back.
CatalogInv ==
    /\ ~torn =>
          /\ \A d \in Stored \ catalog : \E s \in Sessions :
                \/ At(s, "project") /\ calls[s].id = d
                \/ At(s, "rebuild") /\ d \in calls[s].items
          /\ \A s \in Sessions : At(s, "compare") => calls[s].items = Stored
    /\ \A s \in Reconciling \ partial :
          /\ Reconciling = {s}
          /\ At(s, "compare") => calls[s].items = Stored
          /\ At(s, "rebuild") => Stored \subseteq catalog \cup calls[s].items

\* At the start there is nothing to show.
LEMMA CatalogInit == Init => CatalogInv
<1> SUFFICES ASSUME Init PROVE CatalogInv
  OBVIOUS
<1>1. \A s \in Sessions : calls[s].kind = "idle" /\ calls[s].pc = "idle"
  BY DEF Init, Idle
<1>2. Stored = {} /\ Reconciling = {}
  BY <1>1 DEF Init, Stored, Reconciling
<1> QED
  BY <1>1, <1>2 DEF CatalogInv, At

\* Only a reconciliation compares and rebuilds.
LEMMA Kinds ==
    ASSUME RegistryInv, NEW s \in Sessions
    PROVE  /\ calls[s] \in Calls
           /\ calls[s].pc \in {"compare", "rebuild"} <=> calls[s].kind = "reconcile"
<1>1. calls[s] \in Calls
  BY DEF RegistryInv, CallSound
<1> QED
  BY <1>1 DEF Calls, LookCalls, PlacedCalls, ReconcileCalls, Idle, Registering

\* A step of a call that is no reconciliation, before or after, and neither
\* saves nor projects.
LEMMA CatalogElsewhere ==
    ASSUME RegistryInv, CatalogInv, NEW s \in Sessions,
           UNCHANGED <<manifests, catalog, partial>>, torn => torn',
           \A t \in Sessions : t # s => calls'[t] = calls[t],
           calls[s].kind # "reconcile", calls'[s].kind # "reconcile",
           calls[s].pc \notin {"compare", "rebuild"}, calls'[s].pc \notin {"compare", "rebuild"},
           ~torn' => ~At(s, "project")
    PROVE  CatalogInv'
<1>1. Stored' = Stored /\ Reconciling' = Reconciling
  BY DEF Stored, Reconciling
<1>2. ASSUME ~torn', NEW d \in Stored \ catalog
      PROVE  \E t \in Sessions : (calls'[t].pc = "project" /\ calls'[t].id = d)
                                   \/ (calls'[t].pc = "rebuild" /\ d \in calls'[t].items)
  <2>1. PICK t \in Sessions : (At(t, "project") /\ calls[t].id = d) \/ (At(t, "rebuild") /\ d \in calls[t].items)
    BY <1>2 DEF CatalogInv
  <2>2. t # s
    BY <1>2, <2>1 DEF At
  <2> QED
    BY <2>1, <2>2 DEF At
<1>3. ASSUME NEW t \in Sessions, t \in Reconciling \ partial PROVE t # s /\ calls'[t] = calls[t]
  BY <1>3 DEF Reconciling
<1>4. \A t \in Reconciling : t \in Sessions
  BY DEF Reconciling
<1>5. ~torn' => \A t \in Sessions : calls'[t].pc = "compare" => calls'[t].items = Stored
  BY DEF CatalogInv, At
<1> QED
  BY <1>1, <1>2, <1>3, <1>4, <1>5 DEF CatalogInv, At

\* A registration projects what it saves.
LEMMA CatalogRegistration ==
    ASSUME RegistryInv, CatalogInv, NEW s \in Sessions, Registration(s)
    PROVE  CatalogInv'
<1>1. calls[s].kind # "reconcile" /\ \A t \in Sessions : t # s => calls'[t] = calls[t]
  BY RegistrationCalls
<1>2. calls[s].pc \notin {"compare", "rebuild"}
  BY <1>1, Kinds
<1>3. CASE SaveManifest(s)
  <2>1. calls[s] \in PlacedCalls /\ calls[s].id \in Datasets /\ calls[s].kind # "reconcile" /\ calls[s].pc = "save"
    BY <1>1, <1>3, CallAt, Kinds DEF SaveManifest, At, PlacedCalls
  <2>2. /\ Stored' \subseteq Stored \cup {calls[s].id} /\ catalog' = catalog
        /\ torn' = (torn \/ \E t \in Sessions : At(t, "compare")) /\ partial' = partial \cup Reconciling
    BY <2>1, <1>3 DEF SaveManifest, Stored, RegistryInv, ManifestsSound
  <2>3. calls'[s].pc = "project" /\ calls'[s].id = calls[s].id /\ calls'[s].kind = calls[s].kind
    BY <1>3, <2>1 DEF SaveManifest, Goto, RegistryInv, PlacedCalls
  <2>4. Reconciling' = Reconciling
    BY <1>1, <2>1, <2>3 DEF Reconciling
  <2>5. ASSUME ~torn', NEW d \in Stored' \ catalog'
        PROVE  \E t \in Sessions : (calls'[t].pc = "project" /\ calls'[t].id = d)
                                     \/ (calls'[t].pc = "rebuild" /\ d \in calls'[t].items)
    <3>1. CASE d = calls[s].id
      BY <3>1, <2>3
    <3>2. CASE d # calls[s].id
      <4>1. d \in Stored \ catalog /\ ~torn
        BY <3>2, <2>2, <2>5
      <4>2. PICK t \in Sessions : (At(t, "project") /\ calls[t].id = d) \/ (At(t, "rebuild") /\ d \in calls[t].items)
        BY <4>1 DEF CatalogInv
      <4>3. t # s
        BY <4>2, <2>1 DEF At
      <4> QED
        BY <4>2, <4>3, <1>1 DEF At
    <3> QED
      BY <3>1, <3>2
  <2>6. ~torn' => \A t \in Sessions : calls'[t].pc # "compare"
    <3>1. ~torn' => \A t \in Sessions : calls[t].pc # "compare"
      BY <2>2 DEF At
    <3> QED
      BY <3>1, <2>3, <1>1
  <2> QED
    BY <2>2, <2>4, <2>5, <2>6 DEF CatalogInv, At
<1>4. CASE ProjectManifest(s)
  <2>1. calls[s] \in PlacedCalls /\ calls[s].pc = "project"
    BY <1>4, CallAt, Kinds DEF ProjectManifest, At
  <2>2. Stored' = Stored /\ catalog' = catalog \cup {calls[s].id} /\ torn' = torn /\ partial' = partial
    BY <1>4 DEF ProjectManifest, Stored, ghosts
  <2>3. calls'[s].pc \notin {"compare", "rebuild"} /\ calls'[s].kind # "reconcile"
    BY <1>1, <1>4, <2>1 DEF ProjectManifest, Goto, Return, RegistryInv, Idle, PlacedCalls
  <2>4. Reconciling' = Reconciling
    BY <1>1, <2>3 DEF Reconciling
  <2>5. ASSUME ~torn', NEW d \in Stored' \ catalog'
        PROVE  \E t \in Sessions : (calls'[t].pc = "project" /\ calls'[t].id = d)
                                     \/ (calls'[t].pc = "rebuild" /\ d \in calls'[t].items)
    <3>1. PICK t \in Sessions : (At(t, "project") /\ calls[t].id = d) \/ (At(t, "rebuild") /\ d \in calls[t].items)
      BY <2>2, <2>5 DEF CatalogInv
    <3>2. t # s
      BY <3>1, <2>1, <2>2, <2>5 DEF At
    <3> QED
      BY <3>1, <3>2, <1>1 DEF At
  <2>6. ~torn' => \A t \in Sessions : calls'[t].pc = "compare" => calls'[t].items = Stored
    BY <1>1, <2>2, <2>3 DEF CatalogInv, At
  <2>7. ASSUME NEW t \in Reconciling' \ partial'
        PROVE  /\ Reconciling' = {t}
               /\ calls'[t].pc = "compare" => calls'[t].items = Stored
               /\ calls'[t].pc = "rebuild" => Stored \subseteq catalog' \cup calls'[t].items
    <3>1. t \in Reconciling \ partial /\ t \in Sessions /\ t # s
      BY <2>2, <2>4, <2>7, <1>1 DEF Reconciling
    <3> QED
      BY <3>1, <1>1, <2>2, <2>4 DEF CatalogInv, At
  <2> QED
    BY <2>2, <2>5, <2>6, <2>7 DEF CatalogInv, At
<1>5. CASE ~SaveManifest(s) /\ ~ProjectManifest(s)
  <2>1. UNCHANGED <<manifests, catalog, partial, torn>> /\ ~At(s, "project")
    <3>1. CASE calls[s] = Idle
      BY <1>5, <3>1 DEF Registration, BeginImport, BeginOpen, BeginSave, LookForArtifact, StoreArtifact, ReadBack,
         CheckLineage, RefuseVersion, ShowPayload, RefusePayload, DeleteRecord, files, ghosts, At, Idle
    <3>2. CASE calls[s] # Idle
      BY <1>5, <3>2 DEF Registration, BeginImport, BeginOpen, BeginSave, LookForArtifact, StoreArtifact, ReadBack,
         CheckLineage, RefuseVersion, ShowPayload, RefusePayload, DeleteRecord, files, ghosts, At
    <3> QED
      BY <3>1, <3>2
  <2>2. calls'[s].kind # "reconcile" /\ calls'[s].pc \notin {"compare", "rebuild"}
    <3>1. CASE BeginImport(s) \/ BeginOpen(s) \/ BeginSave(s)
      BY <3>1 DEF BeginImport, BeginOpen, BeginSave, Register, Enter, RegistryInv
    <3>2. CASE ~(BeginImport(s) \/ BeginOpen(s) \/ BeginSave(s))
      <4>1. calls[s] \in LookCalls \cup PlacedCalls
        BY <1>5, <3>2, CallAt, Kinds DEF Registration, LookForArtifact, StoreArtifact, ReadBack, CheckLineage,
           RefuseVersion, ShowPayload, RefusePayload, DeleteRecord, At
      <4>2. CASE LookForArtifact(s) \/ StoreArtifact(s) \/ ReadBack(s) \/ CheckLineage(s)
        BY <4>1, <4>2, <1>1 DEF LookForArtifact, StoreArtifact, ReadBack, CheckLineage, Goto, RegistryInv,
           LookCalls, PlacedCalls
      <4>3. CASE RefuseVersion(s) \/ RefusePayload(s) \/ ShowPayload(s) \/ DeleteRecord(s)
        <5>1. Goto(s, "raised") \/ Return(s)
          BY <4>3 DEF RefuseVersion, RefusePayload, ShowPayload, DeleteRecord, Raise
        <5> QED
          BY <4>1, <5>1, <1>1 DEF Goto, Return, RegistryInv, Idle, LookCalls, PlacedCalls
      <4> QED
        BY <1>5, <3>2, <4>2, <4>3 DEF Registration
    <3> QED
      BY <3>1, <3>2
  <2> QED
    BY <1>1, <1>2, <2>1, <2>2, CatalogElsewhere
<1> QED
  BY <1>3, <1>4, <1>5

\* A reconciliation that knows all brings back all it dropped; one that does
\* not drops the catalog only when it is left behind already.
LEMMA CatalogReconciliation ==
    ASSUME RegistryInv, CatalogInv, NEW s \in Sessions, Reconciliation(s)
    PROVE  CatalogInv'
<1>1. Stored' = Stored /\ \A t \in Sessions : t # s => calls'[t] = calls[t]
  BY DEF Reconciliation, BeginReconcile, FoundConsistent, DropCatalog, ProjectNext, FinishRebuild, Settle,
         files, Stored, Enter, Goto, Return, RegistryInv
<1>2. CASE BeginReconcile(s)
  <2>1. PICK items \in SUBSET Stored :
           /\ Enter(s, [kind |-> "reconcile", pc |-> "compare", items |-> items])
           /\ torn' = (torn \/ items # Stored)
           /\ partial' = IF items = Stored /\ Reconciling = {} THEN partial ELSE partial \cup Reconciling \cup {s}
    BY <1>2 DEF BeginReconcile
  <2>2. calls'[s].kind = "reconcile" /\ calls'[s].pc = "compare" /\ calls'[s].items = items
    BY <2>1 DEF Enter, RegistryInv
  <2>3. catalog' = catalog /\ calls[s].pc = "idle" /\ calls[s].kind = "idle"
    BY <1>2 DEF BeginReconcile, files, Idle
  <2>4. Reconciling' = Reconciling \cup {s}
    BY <1>1, <2>2 DEF Reconciling
  <2>5. ASSUME ~torn', NEW d \in Stored \ catalog
        PROVE  \E t \in Sessions : (calls'[t].pc = "project" /\ calls'[t].id = d)
                                     \/ (calls'[t].pc = "rebuild" /\ d \in calls'[t].items)
    <3>1. PICK t \in Sessions : (At(t, "project") /\ calls[t].id = d) \/ (At(t, "rebuild") /\ d \in calls[t].items)
      BY <2>1, <2>5 DEF CatalogInv
    <3>2. t # s
      BY <3>1, <2>3 DEF At
    <3> QED
      BY <3>1, <3>2, <1>1 DEF At
  <2>6. ~torn' => \A t \in Sessions : calls'[t].pc = "compare" => calls'[t].items = Stored
    BY <1>1, <2>1, <2>2 DEF CatalogInv, At
  <2>7. ASSUME NEW t \in Reconciling' \ partial'
        PROVE  /\ Reconciling' = {t}
               /\ calls'[t].pc = "compare" => calls'[t].items = Stored
               /\ calls'[t].pc = "rebuild" => FALSE
    <3>1. items = Stored /\ Reconciling = {}
      BY <2>1, <2>4, <2>7
    <3> QED
      BY <3>1, <2>2, <2>4, <2>7
  <2> QED
    BY <1>1, <2>3, <2>5, <2>6, <2>7 DEF CatalogInv, At
<1>3. CASE FoundConsistent(s) \/ FinishRebuild(s)
  <2>1. /\ catalog' = catalog /\ torn' = (torn /\ s \in partial) /\ partial' = partial \ {s}
        /\ calls'[s].kind = "idle" /\ calls'[s].pc = "idle"
    BY <1>3 DEF FoundConsistent, FinishRebuild, Settle, Return, RegistryInv, files, Idle
  <2>2. s \in Reconciling /\ calls[s].pc \in {"compare", "rebuild"}
    BY <1>3, Kinds DEF FoundConsistent, FinishRebuild, At, Reconciling
  <2>3. Reconciling' = Reconciling \ {s}
    BY <1>1, <2>1 DEF Reconciling
  <2>4. CASE s \in partial
    <3>1. torn' <=> torn
      BY <2>1, <2>4, Zenon
    <3>2. ASSUME ~torn, NEW d \in Stored \ catalog
          PROVE  \E t \in Sessions : (calls'[t].pc = "project" /\ calls'[t].id = d)
                                       \/ (calls'[t].pc = "rebuild" /\ d \in calls'[t].items)
      <4>1. PICK t \in Sessions : (At(t, "project") /\ calls[t].id = d) \/ (At(t, "rebuild") /\ d \in calls[t].items)
        BY <3>2 DEF CatalogInv
      <4>2. t # s
        BY <4>1, <1>3 DEF FoundConsistent, FinishRebuild, At
      <4> QED
        BY <4>1, <4>2, <1>1 DEF At
    <3>3. ~torn => \A t \in Sessions : calls'[t].pc = "compare" => calls'[t].items = Stored
      BY <1>1, <2>1 DEF CatalogInv, At
    <3>4. Reconciling' \ partial' = {}
      <4> SUFFICES ASSUME NEW t \in Reconciling' \ partial' PROVE FALSE
        OBVIOUS
      <4>1. t \in Reconciling \ partial /\ t # s
        BY <2>1, <2>3
      <4> QED
        BY <4>1, <2>2 DEF CatalogInv
    <3> QED
      BY <1>1, <2>1, <3>1, <3>2, <3>3, <3>4 DEF CatalogInv, At
  <2>5. CASE s \notin partial
    <3>1. Reconciling = {s} /\ Stored \subseteq catalog
      BY <2>2, <2>5, <1>3 DEF CatalogInv, FoundConsistent, FinishRebuild
    <3>2. Reconciling' = {}
      BY <2>3, <3>1
    <3>3. ASSUME NEW t \in Sessions, calls'[t].pc = "compare" PROVE FALSE
      <4>1. t # s /\ calls[t].pc = "compare"
        BY <3>3, <2>1, <1>1
      <4> QED
        BY <4>1, <3>1, Kinds DEF Reconciling
    <3> QED
      BY <1>1, <2>1, <3>1, <3>2, <3>3 DEF CatalogInv, At
  <2> QED
    BY <2>4, <2>5
<1>4. CASE DropCatalog(s)
  <2>1. calls[s] \in ReconcileCalls /\ calls[s].pc = "compare" /\ s \in Reconciling
    BY <1>4, CallAt, Kinds DEF DropCatalog, At, Reconciling
  <2>2. /\ calls'[s].kind = "reconcile" /\ calls'[s].pc = "rebuild" /\ calls'[s].items = calls[s].items
        /\ catalog' = {} /\ torn' = torn /\ partial' = partial
    BY <1>4, <2>1 DEF DropCatalog, Goto, RegistryInv, ReconcileCalls, ghosts
  <2>3. Reconciling' = Reconciling
    BY <1>1, <2>1, <2>2 DEF Reconciling
  <2>4. ~torn => calls[s].items = Stored
    BY <2>1 DEF CatalogInv, At, Reconciling
  <2>5. ~torn => \A t \in Sessions : calls'[t].pc = "compare" => calls'[t].items = Stored
    BY <1>1, <2>2 DEF CatalogInv, At
  <2>6. ASSUME NEW t \in Reconciling' \ partial'
        PROVE  /\ Reconciling' = {t}
               /\ calls'[t].pc = "compare" => calls'[t].items = Stored
               /\ calls'[t].pc = "rebuild" => Stored \subseteq catalog' \cup calls'[t].items
    <3>1. t \in Reconciling \ partial /\ t = s
      BY <2>1, <2>2, <2>3, <2>6 DEF CatalogInv
    <3> QED
      BY <3>1, <2>1, <2>2, <2>3 DEF CatalogInv, At
  <2> QED
    BY <1>1, <2>2, <2>4, <2>5, <2>6 DEF CatalogInv, At
<1>5. CASE ProjectNext(s)
  <2>1. calls[s] \in ReconcileCalls /\ calls[s].pc = "rebuild" /\ s \in Reconciling
    BY <1>5, CallAt, Kinds DEF ProjectNext, At, Reconciling
  <2>2. PICK d \in calls[s].items :
           catalog' = catalog \cup {d} /\ calls' = [calls EXCEPT ![s].items = @ \ {d}]
    BY <1>5 DEF ProjectNext
  <2>3. /\ calls'[s].kind = "reconcile" /\ calls'[s].pc = "rebuild" /\ calls'[s].items = calls[s].items \ {d}
        /\ torn' = torn /\ partial' = partial
    BY <1>5, <2>1, <2>2 DEF ProjectNext, RegistryInv, ReconcileCalls, ghosts
  <2>4. Reconciling' = Reconciling
    BY <1>1, <2>1, <2>3 DEF Reconciling
  <2>5. ASSUME ~torn, NEW e \in Stored \ catalog'
        PROVE  \E t \in Sessions : (calls'[t].pc = "project" /\ calls'[t].id = e)
                                     \/ (calls'[t].pc = "rebuild" /\ e \in calls'[t].items)
    <3>1. PICK t \in Sessions : (At(t, "project") /\ calls[t].id = e) \/ (At(t, "rebuild") /\ e \in calls[t].items)
      BY <2>2, <2>5 DEF CatalogInv
    <3>2. CASE t = s
      BY <3>1, <3>2, <2>1, <2>2, <2>3, <2>5 DEF At
    <3>3. CASE t # s
      BY <3>1, <3>3, <1>1 DEF At
    <3> QED
      BY <3>2, <3>3
  <2>6. ~torn => \A t \in Sessions : calls'[t].pc = "compare" => calls'[t].items = Stored
    BY <1>1, <2>3 DEF CatalogInv, At
  <2>7. ASSUME NEW t \in Reconciling' \ partial'
        PROVE  /\ Reconciling' = {t}
               /\ calls'[t].pc = "compare" => calls'[t].items = Stored
               /\ calls'[t].pc = "rebuild" => Stored \subseteq catalog' \cup calls'[t].items
    <3>1. t \in Reconciling \ partial /\ t = s /\ Reconciling = {s}
      BY <2>1, <2>3, <2>4, <2>7 DEF CatalogInv
    <3>2. Stored \subseteq catalog \cup calls[s].items
      BY <3>1, <2>1 DEF CatalogInv, At
    <3> QED
      BY <3>1, <3>2, <2>2, <2>3, <2>4
  <2> QED
    BY <1>1, <2>3, <2>5, <2>6, <2>7 DEF CatalogInv, At
<1> QED
  BY <1>2, <1>3, <1>4, <1>5 DEF Reconciliation

\* A call that fails while it projects or rebuilds leaves the catalog behind.
LEMMA CatalogFailure ==
    ASSUME RegistryInv, CatalogInv, NEW s \in Sessions, FailCall(s)
    PROVE  CatalogInv'
<1>1. /\ UNCHANGED <<manifests, catalog>> /\ partial' = partial \ {s} /\ Stored' = Stored
      /\ \A t \in Sessions : t # s => calls'[t] = calls[t]
  BY DEF FailCall, Raise, Goto, Return, RegistryInv, files, Stored
<1>2. torn' = (torn \/ At(s, "project") \/ At(s, "rebuild"))
  BY DEF FailCall
<1>3. calls[s] \in Calls
  BY Kinds
<1>4. calls'[s].pc \in {"raised", "idle"} /\ calls'[s].kind # "reconcile"
  <2>1. CASE Return(s)
    BY <2>1 DEF Return, RegistryInv, Idle
  <2>2. CASE ~Return(s)
    <3>1. calls[s].kind = "open" /\ calls' = [calls EXCEPT ![s].pc = "raised"]
      BY <2>2 DEF FailCall, Raise, Goto
    <3>2. calls[s] \in LookCalls \cup PlacedCalls
      BY <1>3, <3>1 DEF Calls, ReconcileCalls, Idle
    <3> QED
      BY <3>1, <3>2 DEF RegistryInv, LookCalls, PlacedCalls
  <2> QED
    BY <2>1, <2>2
<1>5. Reconciling' = Reconciling \ {s}
  BY <1>1, <1>4 DEF Reconciling
<1>6. ASSUME ~torn', NEW d \in Stored \ catalog
      PROVE  \E t \in Sessions : (calls'[t].pc = "project" /\ calls'[t].id = d)
                                   \/ (calls'[t].pc = "rebuild" /\ d \in calls'[t].items)
  <2>1. PICK t \in Sessions : (At(t, "project") /\ calls[t].id = d) \/ (At(t, "rebuild") /\ d \in calls[t].items)
    BY <1>2, <1>6 DEF CatalogInv
  <2>2. t # s
    BY <2>1, <1>2, <1>6
  <2> QED
    BY <2>1, <2>2, <1>1 DEF At
<1>7. ~torn' => \A t \in Sessions : calls'[t].pc = "compare" => calls'[t].items = Stored
  <2>1. ~torn' => ~torn
    BY <1>2
  <2> QED
    BY <2>1, <1>1, <1>4 DEF CatalogInv, At
<1>8. ASSUME NEW t \in Reconciling' \ partial'
      PROVE  /\ Reconciling' = {t}
             /\ calls'[t].pc = "compare" => calls'[t].items = Stored
             /\ calls'[t].pc = "rebuild" => Stored \subseteq catalog \cup calls'[t].items
  <2>1. t \in Reconciling \ partial /\ t # s /\ t \in Sessions
    BY <1>1, <1>5, <1>8 DEF Reconciling
  <2> QED
    BY <2>1, <1>1, <1>5 DEF CatalogInv, At
<1> QED
  BY <1>1, <1>6, <1>7, <1>8 DEF CatalogInv, At

\* Every step keeps what the catalog is to show in sight.
LEMMA CatalogKept == RegistryInv /\ CatalogInv /\ [Next]_vars => CatalogInv'
<1> SUFFICES ASSUME RegistryInv, CatalogInv, [Next]_vars PROVE CatalogInv'
  OBVIOUS
<1>1. CASE UNCHANGED vars
  BY <1>1 DEF vars, files, ghosts, CatalogInv, Stored, At, Reconciling
<1>2. CASE Crash
  <2>1. torn' = TRUE /\ \A s \in Sessions : calls'[s].kind = "idle"
    BY <1>2 DEF Crash, Idle
  <2>2. Reconciling' = {}
    BY <2>1 DEF Reconciling
  <2> QED
    BY <2>1, <2>2 DEF CatalogInv
<1> QED
  BY <1>1, <1>2, CatalogRegistration, CatalogReconciliation, CatalogFailure DEF Next

\* When no call is running the catalog shows every dataset, whatever ran at once
\* before, unless it was left behind since the last reconciliation that knew
\* every manifest: by a failure, a crash, a manifest that could not be read or
\* that was saved after a listing (catalog.reconcile, rebuild).
THEOREM CatalogAlwaysComplete == Spec => []CatalogComplete
<1>1. RegistryInv /\ CatalogInv => CatalogComplete
  <2> SUFFICES ASSUME RegistryInv, CatalogInv, ~torn, \A s \in Sessions : calls[s] = Idle
               PROVE  catalog = Stored
    BY DEF CatalogComplete
  <2>1. \A s \in Sessions : ~At(s, "project") /\ ~At(s, "rebuild")
    BY DEF At, Idle
  <2>2. Stored \subseteq catalog
    BY <2>1 DEF CatalogInv
  <2> QED
    BY <2>2 DEF RegistryInv
<1>2. RegistryInv /\ CatalogInv /\ [Next]_vars => CatalogInv'
  BY CatalogKept
<1> QED
  BY <1>1, <1>2, CatalogInit, RegistryAlways, PTL DEF Spec

-----------------------------------------------------------------------------
(* The records of the viewer. *)

\* The viewer waits for the dataset of its record to be saved, or is to delete
\* the record.
WaitsFor(s, d) == calls[s].kind = "open" /\ calls[s].pc \in Pending \cup {"raised"} /\ calls[s].id = d

\* The records whose dataset nobody is going to save.
Orphans == {d \in records \ kept : d \notin Stored /\ \A s \in Sessions : ~WaitsFor(s, d)}

\* Each crash leaves at most one record of each session behind.
RecordInv == IsFiniteSet(Orphans) /\ Cardinality(Orphans) <= crashes * Cardinality(Sessions)

\* A session's step leaves no record behind when it keeps waiting for its
\* dataset, or the dataset is saved, or the record goes or is counted as kept.
LEMMA NothingOrphaned ==
    ASSUME RegistryInv, NEW s \in Sessions,
           \A t \in Sessions : t # s => calls'[t] = calls[t],
           Stored \subseteq Stored', kept \subseteq kept',
           \A d \in records' : d \in records \/ WaitsFor(s, d)',
           \A d \in records' \ kept' : WaitsFor(s, d) => WaitsFor(s, d)' \/ d \in Stored'
    PROVE  Orphans' \subseteq Orphans
<1> SUFFICES ASSUME NEW d \in Orphans' PROVE d \in Orphans
  OBVIOUS
<1>1. d \in records' \ kept' /\ d \notin Stored' /\ \A t \in Sessions : ~WaitsFor(t, d)'
  BY DEF Orphans
<1>2. d \in records \ kept /\ d \notin Stored
  BY <1>1
<1>3. ASSUME NEW t \in Sessions PROVE ~WaitsFor(t, d)
  <2>1. CASE t = s
    BY <1>1, <2>1
  <2>2. CASE t # s
    BY <1>1, <2>2 DEF WaitsFor
  <2> QED
    BY <2>1, <2>2
<1> QED
  BY <1>2, <1>3 DEF Orphans

\* A call that raises still waits, to delete its record.
LEMMA RaisedWaits ==
    ASSUME RegistryInv, NEW s \in Sessions, Raise(s)
    PROVE  \A e : WaitsFor(s, e) => WaitsFor(s, e)'
<1>1. CASE calls[s].kind = "open"
  <2>1. calls[s] \in LookCalls \cup PlacedCalls
    BY <1>1, Kinds DEF Calls, ReconcileCalls, Idle
  <2>2. calls'[s].pc = "raised" /\ calls'[s].kind = calls[s].kind /\ calls'[s].id = calls[s].id
    BY <1>1, <2>1 DEF Raise, Goto, RegistryInv, LookCalls, PlacedCalls
  <2> QED
    BY <2>2 DEF WaitsFor
<1>2. CASE calls[s].kind # "open"
  BY <1>2 DEF WaitsFor
<1> QED
  BY <1>1, <1>2

\* No step of a session leaves a record behind.
LEMMA SessionsOrphanNothing ==
    ASSUME RegistryInv, NEW s \in Sessions, Registration(s) \/ Reconciliation(s) \/ FailCall(s)
    PROVE  Orphans' \subseteq Orphans
<1>1. Stored \subseteq Stored'
  <2>1. CASE SaveManifest(s)
    <3>1. calls[s] \in PlacedCalls
      BY <2>1, CallAt, Kinds DEF SaveManifest, At
    <3>2. calls[s].path \in Paths /\ calls[s].checksum \in Contents /\ calls[s].version \in Nat \ {0}
          /\ calls[s].lineage \in Datasets /\ calls[s].previous \in Datasets \cup {NoDataset}
      BY <3>1 DEF PlacedCalls
    <3>3. \A d \in Datasets : manifests[d] # Missing => manifests'[d] # Missing
      BY <2>1, <3>2, Marks DEF SaveManifest, RegistryInv, ManifestsSound, Manifests
    <3> QED
      BY <3>3 DEF Stored
  <2>2. CASE ~SaveManifest(s)
    BY <2>2 DEF Registration, Reconciliation, BeginImport, BeginOpen, BeginSave, LookForArtifact, StoreArtifact,
       ReadBack, CheckLineage, RefuseVersion, ProjectManifest, ShowPayload, RefusePayload, DeleteRecord, FailCall,
       BeginReconcile, FoundConsistent, DropCatalog, ProjectNext, FinishRebuild, Settle, files, Stored
  <2> QED
    BY <2>1, <2>2
<1>2. (\A t \in Sessions : t # s => calls'[t] = calls[t]) /\ kept \subseteq kept'
  <2>1. CASE Registration(s)
    BY <2>1, RegistrationCalls DEF Registration, BeginImport, BeginOpen, BeginSave, LookForArtifact, StoreArtifact,
       ReadBack, CheckLineage, RefuseVersion, SaveManifest, ProjectManifest, ShowPayload, RefusePayload,
       DeleteRecord, ghosts
  <2>2. CASE Reconciliation(s)
    BY <2>2 DEF Reconciliation, BeginReconcile, FoundConsistent, DropCatalog, ProjectNext, FinishRebuild, Settle,
       Enter, Goto, Return, RegistryInv, ghosts
  <2>3. CASE FailCall(s)
    BY <2>3 DEF FailCall, Raise, Goto, Return, RegistryInv
  <2> QED
    BY <2>1, <2>2, <2>3
<1>3. CASE BeginOpen(s)
  <2>1. PICK d \in Datasets \ spent, x \in Sources :
           Register(s, "open", d, x, 1, d, NoDataset) /\ records' = records \cup {d}
    BY <1>3 DEF BeginOpen
  <2>2. calls'[s].kind = "open" /\ calls'[s].pc = "look" /\ calls'[s].id = d
    BY <2>1 DEF Register, Enter, RegistryInv
  <2>3. WaitsFor(s, d)'
    BY <2>2 DEF WaitsFor, Pending
  <2>4. \A e : ~WaitsFor(s, e)
    BY <1>3 DEF BeginOpen, Idle, WaitsFor
  <2> QED
    BY <1>1, <1>2, <2>1, <2>3, <2>4, NothingOrphaned
<1>4. CASE BeginImport(s) \/ BeginSave(s) \/ Reconciliation(s)
  <2>1. records' = records
    BY <1>4 DEF BeginImport, BeginSave, Reconciliation, BeginReconcile, FoundConsistent, DropCatalog, ProjectNext,
       FinishRebuild, Settle, files
  <2>2. calls[s].kind # "open"
    <3>1. CASE calls[s] = Idle
      BY <3>1 DEF Idle
    <3>2. CASE calls[s] # Idle
      <4>1. calls[s].pc \in {"compare", "rebuild"}
        BY <1>4, <3>2 DEF BeginImport, BeginSave, Reconciliation, BeginReconcile, FoundConsistent,
           DropCatalog, ProjectNext, FinishRebuild, At
      <4> QED
        BY <4>1, Kinds
    <3> QED
      BY <3>1, <3>2
  <2>3. \A e : ~WaitsFor(s, e)
    BY <2>2 DEF WaitsFor
  <2> QED
    BY <1>1, <1>2, <2>1, <2>3, NothingOrphaned
<1>5. CASE LookForArtifact(s) \/ StoreArtifact(s) \/ ReadBack(s) \/ CheckLineage(s)
  <2>1. calls[s] \in LookCalls \cup PlacedCalls
    BY <1>5, CallAt, Kinds DEF LookForArtifact, StoreArtifact, ReadBack, CheckLineage, At
  <2>2. records' = records
    BY <1>5 DEF LookForArtifact, StoreArtifact, ReadBack, CheckLineage, files
  <2>3. calls'[s].kind = calls[s].kind /\ calls'[s].id = calls[s].id /\ calls'[s].pc \in Pending
    BY <1>5, <2>1 DEF LookForArtifact, StoreArtifact, ReadBack, CheckLineage, Goto, RegistryInv, LookCalls,
       PlacedCalls, Pending
  <2>4. \A e : WaitsFor(s, e) => WaitsFor(s, e)'
    BY <2>3 DEF WaitsFor
  <2> QED
    BY <1>1, <1>2, <2>2, <2>4, NothingOrphaned
<1>6. CASE SaveManifest(s)
  <2>1. calls[s] \in PlacedCalls
    BY <1>6, CallAt, Kinds DEF SaveManifest, At
  <2>2. calls[s].id \in Datasets /\ calls[s].path \in Paths /\ calls[s].checksum \in Contents
        /\ calls[s].version \in Nat \ {0}
        /\ calls[s].lineage \in Datasets /\ calls[s].previous \in Datasets \cup {NoDataset}
    BY <2>1 DEF PlacedCalls
  <2>3. calls[s].id \in Stored'
    BY <1>6, <2>2, Marks DEF SaveManifest, RegistryInv, ManifestsSound, Manifests, Stored
  <2>4. \A e : WaitsFor(s, e) => e \in Stored'
    BY <2>3 DEF WaitsFor
  <2> QED
    BY <1>1, <1>2, <1>6, <2>4, NothingOrphaned DEF SaveManifest
<1>7. CASE ProjectManifest(s) \/ ShowPayload(s)
  <2>1. records' = records /\ calls[s].pc \notin Pending \cup {"raised"}
    BY <1>7 DEF ProjectManifest, ShowPayload, At, Pending, files
  <2>2. \A e : ~WaitsFor(s, e)
    BY <2>1 DEF WaitsFor
  <2> QED
    BY <1>1, <1>2, <2>1, <2>2, NothingOrphaned
<1>8. CASE RefuseVersion(s) \/ RefusePayload(s)
  <2>1. records' = records /\ Raise(s)
    BY <1>8 DEF RefuseVersion, RefusePayload, files
  <2> QED
    BY <1>1, <1>2, <2>1, RaisedWaits, NothingOrphaned
<1>9. CASE DeleteRecord(s)
  <2>1. records' = records \ {calls[s].id}
    BY <1>9 DEF DeleteRecord
  <2>2. \A d \in records' : d \in records /\ ~WaitsFor(s, d)
    BY <2>1 DEF WaitsFor
  <2> QED
    BY <1>1, <1>2, <2>2, NothingOrphaned
<1>10. CASE FailCall(s)
  <2>1. records' = records
    BY <1>10 DEF FailCall, files
  <2>2. CASE At(s, "raised")
    <3>1. kept' = kept \cup {calls[s].id}
      BY <1>10, <2>2 DEF FailCall
    <3>2. \A d \in records' \ kept' : ~WaitsFor(s, d)
      BY <3>1 DEF WaitsFor
    <3> QED
      BY <1>1, <1>2, <2>1, <3>2, NothingOrphaned
  <2>3. CASE At(s, "payload")
    <3>1. \A e : ~WaitsFor(s, e)
      BY <2>3 DEF WaitsFor, At, Pending
    <3> QED
      BY <1>1, <1>2, <2>1, <3>1, NothingOrphaned
  <2>4. CASE ~At(s, "raised") /\ ~At(s, "payload")
    <3>1. Raise(s)
      BY <1>10, <2>4 DEF FailCall, At
    <3> QED
      BY <1>1, <1>2, <2>1, <3>1, RaisedWaits, NothingOrphaned
  <2> QED
    BY <2>2, <2>3, <2>4
<1> QED
  BY <1>3, <1>4, <1>5, <1>6, <1>7, <1>8, <1>9, <1>10 DEF Registration

\* A crash leaves at most one record of each session behind.
LEMMA CrashOrphans ==
    ASSUME IsFiniteSet(Sessions), IsFiniteSet(Orphans), Crash, UNCHANGED Stored
    PROVE  IsFiniteSet(Orphans') /\ Cardinality(Orphans') <= Cardinality(Orphans) + Cardinality(Sessions)
<1> DEFINE f == [s \in Sessions |-> calls[s].id]
           lost == {f[s] : s \in Sessions}
<1>1. IsFiniteSet(lost) /\ Cardinality(lost) <= Cardinality(Sessions)
  <2>1. f \in Surjection(Sessions, lost)
    BY DEF Surjection
  <2> QED
    BY <2>1, FS_Surjection
<1>2. Orphans' \subseteq Orphans \cup lost
  <2> SUFFICES ASSUME NEW d \in Orphans', d \notin lost PROVE d \in Orphans
    OBVIOUS
  <2>1. d \in records \ kept /\ d \notin Stored
    BY DEF Orphans, Crash, files
  <2>2. \A s \in Sessions : ~WaitsFor(s, d)
    BY DEF WaitsFor
  <2> QED
    BY <2>1, <2>2 DEF Orphans
<1> HIDE DEF lost
<1>3. IsFiniteSet(Orphans \cup lost) /\ Cardinality(Orphans \cup lost) <= Cardinality(Orphans) + Cardinality(lost)
  <2>1. IsFiniteSet(Orphans \cap lost)
    BY <1>1, FS_Subset
  <2>2. Cardinality(Orphans \cap lost) \in Nat /\ Cardinality(Orphans) \in Nat /\ Cardinality(lost) \in Nat
    BY <1>1, <2>1, FS_CardinalityType
  <2>3. /\ IsFiniteSet(Orphans \cup lost)
        /\ Cardinality(Orphans \cup lost) =
              Cardinality(Orphans) + Cardinality(lost) - Cardinality(Orphans \cap lost)
    BY <1>1, FS_Union
  <2> QED
    BY <2>2, <2>3
<1>4. IsFiniteSet(Orphans') /\ Cardinality(Orphans') <= Cardinality(Orphans \cup lost)
  BY <1>2, <1>3, FS_Subset
<1> QED
  BY <1>1, <1>3, <1>4, FS_CardinalityType

\* At the start the viewer has no records.
LEMMA RecordInit == IsFiniteSet(Sessions) /\ Init => RecordInv
<1> SUFFICES ASSUME IsFiniteSet(Sessions), Init PROVE RecordInv
  OBVIOUS
<1>1. Orphans = {} /\ crashes = 0
  BY DEF Orphans, Init
<1>2. Cardinality(Sessions) \in Nat
  BY FS_CardinalityType
<1> QED
  BY <1>1, <1>2, FS_EmptySet DEF RecordInv

\* Every step keeps the count.
LEMMA RecordStep == IsFiniteSet(Sessions) /\ RegistryInv /\ GhostsSound /\ RecordInv /\ [Next]_vars => RecordInv'
<1> SUFFICES ASSUME IsFiniteSet(Sessions), RegistryInv, GhostsSound, RecordInv, [Next]_vars PROVE RecordInv'
  OBVIOUS
<1>1. /\ IsFiniteSet(Orphans) /\ Cardinality(Orphans) <= crashes * Cardinality(Sessions)
      /\ crashes \in Nat /\ Cardinality(Sessions) \in Nat /\ Cardinality(Orphans) \in Nat
  BY Bounds, FS_CardinalityType DEF RecordInv, GhostsSound
<1>2. CASE Crash
  <2>1. UNCHANGED Stored /\ crashes' = crashes + 1
    BY <1>2 DEF Crash, Stored, files
  <2>2. IsFiniteSet(Orphans') /\ Cardinality(Orphans') <= Cardinality(Orphans) + Cardinality(Sessions)
    BY <1>1, <1>2, <2>1, CrashOrphans
  <2>3. Cardinality(Orphans') \in Nat
    BY <2>2, FS_CardinalityType
  <2>4. (crashes + 1) * Cardinality(Sessions) = crashes * Cardinality(Sessions) + Cardinality(Sessions)
    BY <1>1
  <2>5. crashes * Cardinality(Sessions) \in Nat
    BY <1>1
  <2>6. Cardinality(Orphans') <= (crashes + 1) * Cardinality(Sessions)
    BY <1>1, <2>2, <2>3, <2>4, <2>5
  <2> QED
    BY <2>1, <2>2, <2>6 DEF RecordInv
<1>3. CASE ~Crash
  <2>1. Orphans' \subseteq Orphans /\ crashes' = crashes
    <3>1. CASE UNCHANGED vars
      BY <3>1 DEF vars, files, ghosts, Orphans, WaitsFor, Stored
    <3>2. ASSUME NEW s \in Sessions, Registration(s) \/ Reconciliation(s) \/ FailCall(s)
          PROVE  Orphans' \subseteq Orphans /\ crashes' = crashes
      <4>1. crashes' = crashes
        BY <3>2 DEF Registration, Reconciliation, BeginImport, BeginOpen, BeginSave, LookForArtifact, StoreArtifact,
           ReadBack, CheckLineage, RefuseVersion, SaveManifest, ProjectManifest, ShowPayload, RefusePayload,
           DeleteRecord, FailCall, BeginReconcile, FoundConsistent, DropCatalog, ProjectNext, FinishRebuild, Settle,
           ghosts
      <4> QED
        BY <3>2, <4>1, SessionsOrphanNothing
    <3> QED
      BY <1>3, <3>1, <3>2 DEF Next
  <2>2. IsFiniteSet(Orphans') /\ Cardinality(Orphans') <= Cardinality(Orphans)
    BY <1>1, <2>1, FS_Subset
  <2>3. Cardinality(Orphans') \in Nat
    BY <2>2, FS_CardinalityType
  <2>4. crashes * Cardinality(Sessions) \in Nat
    BY <1>1
  <2> QED
    BY <1>1, <2>1, <2>2, <2>3, <2>4 DEF RecordInv
<1> QED
  BY <1>2, <1>3

\* When no call is running, a LAS record of the viewer has its dataset, but for
\* one record of each of finitely many sessions at each crash and for those whose
\* deletion failed (las_viewer_open_workflow.open).
THEOREM RecordsAlwaysRegistered ==
    ASSUME IsFiniteSet(Sessions)
    PROVE  Spec => []RecordsRegistered
<1>1. RecordInv => RecordsRegistered
  <2> SUFFICES ASSUME RecordInv, \A s \in Sessions : calls[s] = Idle
               PROVE  Cardinality((records \ Stored) \ kept) <= crashes * Cardinality(Sessions)
    BY DEF RecordsRegistered
  <2>1. (records \ Stored) \ kept = Orphans
    BY DEF Orphans, WaitsFor, Idle
  <2> QED
    BY <2>1 DEF RecordInv
<1> QED
  BY <1>1, RecordInit, RecordStep, GhostsAlways, RegistryAlways, PTL DEF Spec
=============================================================================
