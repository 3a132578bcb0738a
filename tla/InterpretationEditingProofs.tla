--------------------- MODULE InterpretationEditingProofs ---------------------
(***************************************************************************)
(* For every number of sessions, intervals and revisions: the trail of the *)
(* workflow is unbroken however its moves overlap and the state keeps its  *)
(* types; as long as edits run alone, undo and redo implement              *)
(* UndoableDocument; as long as captures and removals run alone, the index *)
(* misses one revision per fault.                                          *)
(***************************************************************************)
EXTENDS InterpretationEditing, SequenceDropProofs, FiniteSetTheorems, TLAPS

WorkflowRecords == [status : Statuses, revision : Revisions \cup {NoRevision}, events : Seq(Events)]
Sound(w) == w \in WorkflowRecords /\ Unbroken(w)

\* A move that is to be written names a revision exactly when it publishes.
MoveSound(c) ==
    /\ c.to \in Statuses /\ c.revision \in Revisions \cup {NoRevision}
    /\ (c.to = "published") <=> (c.revision # NoRevision)

\* A move starts from a workflow that was sound when it was read, and may be
\* written over a later one.
TrailInv ==
    /\ calls = [s \in Sessions |-> calls[s]]
    /\ \A s \in Sessions : "kind" \in DOMAIN calls[s]
    /\ Sound(workflow)
    /\ \A s \in Sessions : calls[s].kind = "move" =>
          MoveSound(calls[s]) /\ (calls[s].pc = "write" => Sound(calls[s].current))

-----------------------------------------------------------------------------
\* The last n of a chain are a chain that ends the same (publication.transition,
\* events[-200:]).
LEMMA KeepChained ==
    ASSUME NEW seq \in Seq(Events), seq # <<>>, Chained(seq), NEW n \in Nat \ {0}
    PROVE  Keep(seq, n) \in Seq(Events) /\ Keep(seq, n) # <<>> /\ Chained(Keep(seq, n)) /\ Last(Keep(seq, n)) = Last(seq)
<1>1. CASE Len(seq) <= n
  BY <1>1 DEF Keep
<1>2. CASE Len(seq) > n
  <2> DEFINE low == Len(seq) - n + 1
  <2>1. low \in 1 .. Len(seq) /\ Len(seq) \in Nat
    BY <1>2
  <2>2. Keep(seq, n) = SubSeq(seq, low, Len(seq))
    BY <1>2, <2>1 DEF Keep
  <2>3. SubSeq(seq, low, Len(seq)) \in Seq(Events) /\ Len(SubSeq(seq, low, Len(seq))) = n
    BY <1>2, <2>1
  <2>4. \A k \in 1 .. n : SubSeq(seq, low, Len(seq))[k] = seq[low + k - 1]
    BY <1>2, <2>1, <2>3
  <2>5. Chained(SubSeq(seq, low, Len(seq)))
    <3> SUFFICES ASSUME NEW k \in 1 .. n - 1
                 PROVE  SubSeq(seq, low, Len(seq))[k].to = SubSeq(seq, low, Len(seq))[k + 1].from
      BY <2>3 DEF Chained
    <3>1. k \in 1 .. n /\ k + 1 \in 1 .. n /\ low + k - 1 \in 1 .. Len(seq) - 1
      BY <1>2, <2>1
    <3>2. SubSeq(seq, low, Len(seq))[k] = seq[low + k - 1] /\ SubSeq(seq, low, Len(seq))[k + 1] = seq[(low + k - 1) + 1]
      BY <3>1, <2>4, <2>1
    <3> QED
      BY <3>1, <3>2 DEF Chained
  <2>6. Last(SubSeq(seq, low, Len(seq))) = Last(seq)
    BY <2>1, <2>3, <2>4, <1>2 DEF Last
  <2>7. SubSeq(seq, low, Len(seq)) # <<>>
    BY <2>3
  <2> QED
    BY <2>2, <2>3, <2>5, <2>6, <2>7
<1> QED
  BY <1>1, <1>2

\* An event from the status of a sound workflow to another keeps it sound.
LEMMA MoveKeepsSound ==
    ASSUME NEW w, Sound(w), NEW to \in Statuses, NEW r \in Revisions \cup {NoRevision},
           (to = "published") <=> (r # NoRevision)
    PROVE  Sound([status |-> to, revision |-> r,
                  events |-> Keep(Append(w.events, [from |-> w.status, to |-> to, revision |-> r]), EventLimit)])
<1> DEFINE event == [from |-> w.status, to |-> to, revision |-> r]
           longer == Append(w.events, event)
<1>1. w.events \in Seq(Events) /\ event \in Events
  BY DEF Sound, WorkflowRecords, Events
<1>2. longer \in Seq(Events) /\ longer # <<>> /\ Len(longer) = Len(w.events) + 1
  BY <1>1
<1>3. Last(longer) = event /\ \A k \in 1 .. Len(w.events) : longer[k] = w.events[k]
  BY <1>1 DEF Last
<1>4. Chained(longer)
  <2> SUFFICES ASSUME NEW k \in 1 .. Len(w.events)
               PROVE  longer[k].to = longer[k + 1].from
    BY <1>2, <1>1 DEF Chained
  <2>1. CASE k = Len(w.events)
    <3>1. w.events # <<>> /\ longer[k] = Last(w.events) /\ longer[k + 1] = event
      BY <2>1, <1>1, <1>2, <1>3 DEF Last
    <3> QED
      BY <3>1 DEF Sound, Unbroken
  <2>2. CASE k # Len(w.events)
    <3>1. k \in 1 .. Len(w.events) - 1 /\ k + 1 \in 1 .. Len(w.events)
      BY <2>2, <1>1
    <3> QED
      BY <3>1, <1>3 DEF Sound, Unbroken, Chained
  <2> QED
    BY <2>1, <2>2
<1> HIDE DEF longer
<1>5. Keep(longer, EventLimit) \in Seq(Events) /\ Keep(longer, EventLimit) # <<>>
        /\ Chained(Keep(longer, EventLimit)) /\ Last(Keep(longer, EventLimit)) = event
  BY <1>2, <1>3, <1>4, KeepChained, Parameters
<1> QED
  BY <1>5 DEF longer, Sound, WorkflowRecords, Unbroken

\* What the end of a call by an exception leaves: everything but the call.
LEMMA CallFailing ==
    ASSUME calls = [s \in Sessions |-> calls[s]], NEW s \in Sessions, CallFails(s)
    PROVE  /\ UNCHANGED <<intervals, workflow, revisions, index, history, spent, now, begun, forgotten>>
           /\ faults < MaxFaults /\ faults' = faults + 1
           /\ calls' = [t \in Sessions |-> calls'[t]] /\ calls'[s] = Idle
           /\ calls'[s].kind = "idle" /\ "kind" \in DOMAIN calls'[s]
           /\ \A t \in Sessions : t # s => calls'[t] = calls[t]
BY DEF CallFails, Return, files, Idle

-----------------------------------------------------------------------------
LEMMA TrailInit == Init => TrailInv
<1> SUFFICES ASSUME Init PROVE TrailInv
  OBVIOUS
<1>1. calls = [s \in Sessions |-> Idle]
  BY DEF Init
<1>2. \A s \in Sessions : calls[s].kind = "idle" /\ "kind" \in DOMAIN calls[s]
  BY <1>1 DEF Idle
<1>3. Sound(workflow)
  BY Parameters DEF Init, Sound, WorkflowRecords, Unbroken, Chained, Statuses
<1> QED
  BY <1>1, <1>2, <1>3 DEF TrailInv

\* A step of one session that leaves the workflow alone and is not a move.
NoMove(s) ==
    /\ workflow' = workflow
    /\ calls' = [calls EXCEPT ![s] = calls'[s]]
    /\ calls'[s].kind # "move"
    /\ "kind" \in DOMAIN calls'[s]

LEMMA NoMoveKeepsTrail ==
    ASSUME TrailInv, NEW s \in Sessions, NoMove(s)
    PROVE  TrailInv'
<1>1. calls' = [t \in Sessions |-> calls'[t]]
  BY DEF TrailInv, NoMove
<1>2. \A t \in Sessions : t # s => calls'[t] = calls[t]
  BY DEF TrailInv, NoMove
<1> QED
  BY <1>1, <1>2 DEF TrailInv, NoMove

\* The start of a publication keeps the trail (publication.transition, publish).
LEMMA BeginMoveKeepsTrail ==
    ASSUME TrailInv, NEW s \in Sessions, BeginMove(s)
    PROVE  TrailInv'
<1>1. UNCHANGED workflow
  BY DEF BeginMove, files
<1>2. PICK m \in Moves, r \in Revisions \cup {NoRevision} :
         /\ IF m.action = "publish" THEN r \in Revisions /\ Publishable(r) ELSE r = NoRevision
         /\ Enter(s, [kind |-> "move", pc |-> "read", to |-> m.to, revision |-> r])
  BY DEF BeginMove
<1>3. m.to \in Statuses /\ (m.to = "published" <=> m.action = "publish")
  BY DEF Moves, Move, Statuses
<1>4. m.to = "published" <=> r # NoRevision
  BY <1>2, <1>3, Parameters
<1> QED
  BY <1>1, <1>2, <1>3, <1>4 DEF TrailInv, Enter, MoveSound

LEMMA ReadWorkflowKeepsTrail ==
    ASSUME TrailInv, NEW s \in Sessions, ReadWorkflow(s)
    PROVE  TrailInv'
<1>1. UNCHANGED workflow /\ calls[s].kind = "move"
  BY DEF ReadWorkflow, files, At
<1>2. calls' = [calls EXCEPT ![s] = [kind |-> "move", pc |-> "write", to |-> calls[s].to,
                                     revision |-> calls[s].revision, current |-> workflow]]
  BY DEF ReadWorkflow, Enter
<1> QED
  BY <1>1, <1>2 DEF TrailInv, MoveSound

LEMMA WriteWorkflowKeepsTrail ==
    ASSUME TrailInv, NEW s \in Sessions, WriteWorkflow(s)
    PROVE  TrailInv'
<1>1. calls' = [calls EXCEPT ![s] = Idle] /\ Idle.kind # "move" /\ "kind" \in DOMAIN Idle
  BY DEF WriteWorkflow, Return, Idle
<1>2. MoveSound(calls[s]) /\ Sound(calls[s].current)
  BY DEF WriteWorkflow, At, TrailInv
<1>3. Sound(workflow')
  BY <1>2, MoveKeepsSound DEF WriteWorkflow, MoveSound
<1> QED
  BY <1>1, <1>3 DEF TrailInv

LEMMA TrailStep == TrailInv /\ [Next]_vars => TrailInv'
<1> SUFFICES ASSUME TrailInv, [Next]_vars PROVE TrailInv'
  OBVIOUS
<1>1. CASE UNCHANGED vars
  BY <1>1 DEF vars, files, TrailInv
<1>2. ASSUME NEW s \in Sessions, Edit(s) PROVE TrailInv'
  <2> USE DEF NoMove, TrailInv, files, Enter, Return, Idle, At
  <2>1. BeginCreate(s) => NoMove(s)
    BY DEF BeginCreate
  <2>2. BeginUpdate(s) => NoMove(s)
    BY DEF BeginUpdate
  <2>3. BeginDelete(s) => NoMove(s)
    BY DEF BeginDelete
  <2>4. BeginBatch(s) => NoMove(s)
    BY DEF BeginBatch
  <2>5. LoadBefore(s) => NoMove(s)
    BY DEF LoadBefore
  <2>6. LoadCurrent(s) => NoMove(s)
    BY DEF LoadCurrent
  <2>7. SaveEdit(s) => NoMove(s)
    BY DEF SaveEdit
  <2>8. RecordEdit(s) => NoMove(s)
    BY DEF RecordEdit
  <2>9. BeginUndo(s) \/ BeginRedo(s) => NoMove(s)
    BY DEF BeginUndo, BeginRedo
  <2>10. FinishUndo(s) \/ FinishRedo(s) => NoMove(s)
    BY DEF FinishUndo, FinishRedo
  <2> QED
    BY <1>2, <2>1, <2>2, <2>3, <2>4, <2>5, <2>6, <2>7, <2>8, <2>9, <2>10, NoMoveKeepsTrail DEF Edit
<1>3. ASSUME NEW s \in Sessions, Review(s) PROVE TrailInv'
  BY <1>3, BeginMoveKeepsTrail, ReadWorkflowKeepsTrail, WriteWorkflowKeepsTrail DEF Review
<1>4. ASSUME NEW s \in Sessions, Revise(s) PROVE TrailInv'
  <2> USE DEF NoMove, TrailInv, files, Enter, Return, Idle, At, Continue
  <2>1. BeginCapture(s) => NoMove(s)
    BY DEF BeginCapture
  <2>2. WriteRevision(s) => NoMove(s)
    BY DEF WriteRevision
  <2>3. ListForCapture(s) => NoMove(s)
    BY DEF ListForCapture
  <2>4. BeginDeleteRevision(s) => NoMove(s)
    BY DEF BeginDeleteRevision
  <2>5. BeginPrune(s) => NoMove(s)
    BY DEF BeginPrune
  <2>6. RemoveFile(s) => NoMove(s)
    BY DEF RemoveFile
  <2>7. ListForRemove(s) => NoMove(s)
    BY DEF ListForRemove
  <2>8. WriteIndex(s) => NoMove(s)
    BY DEF WriteIndex
  <2>9. BeginRestore(s) => NoMove(s)
    BY DEF BeginRestore
  <2>10. CheckRestore(s) => NoMove(s)
    BY DEF CheckRestore
  <2>11. CommitRestore(s) => NoMove(s)
    BY DEF CommitRestore
  <2>12. ListUnreadable(s) => NoMove(s)
    BY DEF ListUnreadable
  <2> QED
    BY <1>4, <2>1, <2>2, <2>3, <2>4, <2>5, <2>6, <2>7, <2>8, <2>9, <2>10, <2>11, <2>12, NoMoveKeepsTrail
       DEF Revise
<1>5. CASE Tick
  BY <1>5 DEF Tick, files, TrailInv
<1>6. CASE Crash
  <2>1. calls' = [s \in Sessions |-> Idle] /\ UNCHANGED workflow
    BY <1>6 DEF Crash, files
  <2>2. \A s \in Sessions : calls'[s].kind = "idle" /\ "kind" \in DOMAIN calls'[s]
    BY <2>1 DEF Idle
  <2> QED
    BY <2>1, <2>2 DEF TrailInv
<1>7. ASSUME NEW s \in Sessions, CallFails(s) PROVE TrailInv'
  BY <1>7, CallFailing DEF TrailInv
<1> QED
  BY <1>1, <1>2, <1>3, <1>4, <1>5, <1>6, <1>7 DEF Next

\* The events of publication.json are an unbroken chain that ends in the
\* status, and a revision is named exactly when it is published, for every
\* number of sessions and whichever calls overlap (publication.transition).
THEOREM TrailAlwaysUnbroken == Spec => []TrailUnbroken
<1>1. TrailInv => TrailUnbroken
  BY DEF TrailInv, Sound, TrailUnbroken
<1> QED
  BY <1>1, TrailInit, TrailStep, PTL DEF Spec
-----------------------------------------------------------------------------
Solo == {"edit", "undo", "redo"}
Lone == {"capture", "remove", "index"}

\* While a session edits, nobody else does anything and the intervals are not
\* locked.
SoloInv ==
    /\ calls = [s \in Sessions |-> calls[s]]
    /\ \A s \in Sessions : "kind" \in DOMAIN calls[s]
    /\ \A s \in Sessions : calls[s].kind \in Solo =>
          Editable /\ \A t \in Sessions : t # s => calls[t].kind = "idle"

CallsFormed == calls = [s \in Sessions |-> calls[s]] /\ \A s \in Sessions : "kind" \in DOMAIN calls[s]

\* A step that begins a call, and one that goes on with it.
Begins(s) ==
    /\ workflow' = workflow
    /\ calls' = [calls EXCEPT ![s] = calls'[s]] /\ "kind" \in DOMAIN calls'[s]
    /\ \E kind \in {"edit", "undo", "redo", "move", "capture", "remove", "restore"} :
          Begin(s, kind) /\ calls'[s].kind = kind /\ (kind \in Solo => Editable)

GoesOn(s) ==
    /\ workflow' # workflow => calls[s].kind = "move"
    /\ calls' = [calls EXCEPT ![s] = calls'[s]] /\ "kind" \in DOMAIN calls'[s]
    /\ calls[s].kind # "idle"
    /\ calls'[s].kind \in Solo => calls[s].kind \in Solo
    /\ calls'[s].kind \in Lone => calls[s].kind \in Lone

LEMMA SoloInit == Init => SoloInv
<1> SUFFICES ASSUME Init PROVE SoloInv
  OBVIOUS
<1>1. calls = [s \in Sessions |-> Idle]
  BY DEF Init
<1>2. \A s \in Sessions : calls[s].kind = "idle" /\ "kind" \in DOMAIN calls[s]
  BY <1>1 DEF Idle
<1> QED
  BY <1>1, <1>2 DEF SoloInv, Solo

LEMMA BeginsKeepsSolo ==
    ASSUME EditsAlone, SoloInv, NEW s \in Sessions, Begins(s)
    PROVE  SoloInv'
<1>1. PICK kind \in {"edit", "undo", "redo", "move", "capture", "remove", "restore"} :
         Begin(s, kind) /\ calls'[s].kind = kind /\ (kind \in Solo => Editable)
  BY DEF Begins
<1>2. calls' = [t \in Sessions |-> calls'[t]] /\ \A t \in Sessions : t # s => calls'[t] = calls[t]
  BY DEF SoloInv, Begins
<1>3. Editable' = Editable
  BY DEF Begins, Editable
<1>4. \A t \in Sessions : calls[t].kind \notin Solo
  BY <1>1 DEF Begin, EditsAlone, Solo, Idle
<1>5. kind \in Solo => \A t \in Sessions : calls[t].kind = "idle"
  BY <1>1 DEF Begin, EditsAlone, Solo, Idle
<1>6. ASSUME NEW t \in Sessions, calls'[t].kind \in Solo
      PROVE  Editable' /\ \A u \in Sessions : u # t => calls'[u].kind = "idle"
  BY <1>1, <1>2, <1>3, <1>4, <1>5, <1>6
<1>7. \A t \in Sessions : "kind" \in DOMAIN calls'[t]
  BY <1>2 DEF SoloInv, Begins
<1> QED
  BY <1>2, <1>6, <1>7 DEF SoloInv

LEMMA GoesOnKeepsSolo ==
    ASSUME SoloInv, NEW s \in Sessions, GoesOn(s)
    PROVE  SoloInv'
<1>1. calls' = [t \in Sessions |-> calls'[t]] /\ \A t \in Sessions : t # s => calls'[t] = calls[t]
  BY DEF SoloInv, GoesOn
<1>2. \A t \in Sessions : t # s => calls[t].kind \notin Solo
  BY DEF SoloInv, GoesOn
<1>3. calls[s].kind \in Solo => Editable' /\ \A t \in Sessions : t # s => calls'[t].kind = "idle"
  BY <1>1 DEF SoloInv, GoesOn, Solo, Editable
<1>4. ASSUME NEW t \in Sessions, calls'[t].kind \in Solo
      PROVE  Editable' /\ \A u \in Sessions : u # t => calls'[u].kind = "idle"
  BY <1>1, <1>2, <1>3, <1>4 DEF GoesOn
<1>5. \A t \in Sessions : "kind" \in DOMAIN calls'[t]
  BY <1>1 DEF SoloInv, GoesOn
<1> QED
  BY <1>1, <1>4, <1>5 DEF SoloInv

\* Every step of a session begins a call or goes on with it.
LEMMA EveryCall ==
    ASSUME CallsFormed, NEW s \in Sessions, Edit(s) \/ Review(s) \/ Revise(s)
    PROVE  Begins(s) \/ GoesOn(s)
<1> USE DEF Begins, GoesOn, CallsFormed, Solo, Lone, files, Enter, Return, Idle, At, Continue
<1>1. BeginCreate(s) => Begins(s)
  BY DEF BeginCreate
<1>2. BeginUpdate(s) => Begins(s)
  BY DEF BeginUpdate
<1>3. BeginDelete(s) => Begins(s)
  BY DEF BeginDelete
<1>4. BeginBatch(s) => Begins(s)
  BY DEF BeginBatch
<1>5. LoadBefore(s) => GoesOn(s)
  BY DEF LoadBefore
<1>6. LoadCurrent(s) => GoesOn(s)
  BY DEF LoadCurrent
<1>7. SaveEdit(s) => GoesOn(s)
  BY DEF SaveEdit
<1>8. RecordEdit(s) => GoesOn(s)
  BY DEF RecordEdit
<1>9. BeginUndo(s) \/ BeginRedo(s) => Begins(s)
  BY DEF BeginUndo, BeginRedo
<1>10. FinishUndo(s) \/ FinishRedo(s) => GoesOn(s)
  BY DEF FinishUndo, FinishRedo
<1>11. BeginMove(s) => Begins(s)
  BY DEF BeginMove
<1>12. ReadWorkflow(s) => GoesOn(s)
  BY DEF ReadWorkflow
<1>13. WriteWorkflow(s) => GoesOn(s)
  BY DEF WriteWorkflow
<1>14. BeginCapture(s) => Begins(s)
  BY DEF BeginCapture
<1>15. WriteRevision(s) => GoesOn(s)
  BY DEF WriteRevision
<1>16. ListForCapture(s) => GoesOn(s)
  BY DEF ListForCapture
<1>17. BeginDeleteRevision(s) => Begins(s)
  BY DEF BeginDeleteRevision
<1>18. BeginPrune(s) => Begins(s)
  BY DEF BeginPrune
<1>19. RemoveFile(s) => GoesOn(s)
  BY DEF RemoveFile
<1>20. ListForRemove(s) => GoesOn(s)
  BY DEF ListForRemove
<1>21. WriteIndex(s) => GoesOn(s)
  BY DEF WriteIndex
<1>22. BeginRestore(s) => Begins(s)
  BY DEF BeginRestore
<1>23. CheckRestore(s) => GoesOn(s)
  BY DEF CheckRestore
<1>24. CommitRestore(s) => GoesOn(s)
  BY DEF CommitRestore
<1>28. ListUnreadable(s) => GoesOn(s)
  BY DEF ListUnreadable
<1>25. Edit(s) => Begins(s) \/ GoesOn(s)
  BY <1>1, <1>2, <1>3, <1>4, <1>5, <1>6, <1>7, <1>8, <1>9, <1>10, Zenon DEF Edit
<1>26. Review(s) => Begins(s) \/ GoesOn(s)
  BY <1>11, <1>12, <1>13, Zenon DEF Review
<1>27. Revise(s) => Begins(s) \/ GoesOn(s)
  BY <1>14, <1>15, <1>16, <1>17, <1>18, <1>19, <1>20, <1>21, <1>22, <1>23, <1>24, <1>28, Zenon DEF Revise
<1> QED
  BY <1>25, <1>26, <1>27, Zenon

LEMMA SoloStep == EditsAlone /\ SoloInv /\ [Next]_vars => SoloInv'
<1> SUFFICES ASSUME EditsAlone, SoloInv, [Next]_vars PROVE SoloInv'
  OBVIOUS
<1>1. CASE UNCHANGED vars
  BY <1>1 DEF vars, files, SoloInv, Editable
<1>2. ASSUME NEW s \in Sessions, Edit(s) \/ Review(s) \/ Revise(s) PROVE SoloInv'
  <2>1. CallsFormed
    BY DEF SoloInv, CallsFormed
  <2> QED
    BY <1>2, <2>1, EveryCall, BeginsKeepsSolo, GoesOnKeepsSolo
<1>3. CASE Tick
  BY <1>3 DEF Tick, files, SoloInv, Editable
<1>4. CASE Crash
  <2>1. calls' = [s \in Sessions |-> Idle]
    BY <1>4 DEF Crash
  <2>2. \A s \in Sessions : calls'[s].kind = "idle" /\ "kind" \in DOMAIN calls'[s]
    BY <2>1 DEF Idle
  <2> QED
    BY <2>1, <2>2 DEF SoloInv, Solo
<1>5. ASSUME NEW s \in Sessions, CallFails(s) PROVE SoloInv'
  <2>1. calls'[s].kind \notin Solo /\ \A t \in Sessions : calls'[t] = calls[t] \/ calls'[t].kind = "idle"
    BY <1>5, CallFailing DEF SoloInv, Solo
  <2>2. Editable' = Editable /\ calls' = [t \in Sessions |-> calls'[t]]
        /\ \A t \in Sessions : "kind" \in DOMAIN calls'[t]
    BY <1>5, CallFailing DEF SoloInv, Editable
  <2>3. ASSUME NEW t \in Sessions, calls'[t].kind \in Solo
        PROVE  Editable' /\ \A u \in Sessions : u # t => calls'[u].kind = "idle"
    <3>1. calls'[t] = calls[t]
      BY <2>1, <2>3 DEF Solo
    <3> QED
      BY <2>1, <2>2, <2>3, <3>1 DEF SoloInv
  <2> QED
    BY <2>2, <2>3 DEF SoloInv
<1> QED
  BY <1>1, <1>2, <1>3, <1>4, <1>5 DEF Next

-----------------------------------------------------------------------------
(* Types. *)

\* What a call of each kind keeps at each step; of a move TrailInv says it.
EditCalls ==
    [kind : {"edit"}, pc : {"before"}, command : Commands]
        \cup [kind : {"edit"}, pc : {"load"}, command : Commands, before : Contents]
        \cup [kind : {"edit"}, pc : {"save", "record"}, before : Contents, result : Contents]
BackCalls == [kind : {"undo", "redo"}, pc : {"save"}]
CaptureCalls ==
    [kind : {"capture"}, pc : {"file", "list"}, id : Revisions, at : 0 .. MaxTime, capture : Captures]
RemoveCalls == [kind : {"remove"}, pc : {"file", "list"}, rest : Seq(Revisions) \ {<<>>}]
IndexCalls ==
    [kind : {"index"}, pc : {"write"}, lost : SUBSET Revisions, rest : Seq(Revisions), list : Seq(Metadata)]
RestoreCalls ==
    [kind : {"restore"}, pc : {"check"}, id : Revisions, token : Captures]
        \cup [kind : {"restore"}, pc : {"commit"}, capture : Captures]
Calls == {Idle} \cup EditCalls \cup BackCalls \cup CaptureCalls \cup RemoveCalls \cup IndexCalls \cup RestoreCalls

Stacks == {q \in Seq(Entries) : Len(q) <= HistoryLimit}
Histories == [undo : Stacks, redo : Stacks]

\* An undo or a redo that has begun finds its entry.
CallTyped(c, h) ==
    /\ c.kind = "move" \/ c \in Calls
    /\ c.kind = "undo" => h.undo # <<>>
    /\ c.kind = "redo" => h.redo # <<>>

FilesTyped ==
    /\ intervals \in Captures
    /\ revisions \in [Revisions -> Captures \cup {Missing}]
    /\ index \in Seq(Metadata)
    /\ Len(workflow.events) <= EventLimit

CountersTyped ==
    /\ spent \subseteq Ids \cup Revisions /\ forgotten \subseteq Revisions
    /\ now \in 0 .. MaxTime /\ begun \in 0 .. MaxCalls /\ faults \in 0 .. MaxFaults

TypesInv ==
    /\ FilesTyped
    /\ history \in [Sessions -> Histories]
    /\ CountersTyped
    /\ \A s \in Sessions : CallTyped(calls[s], history[s])

-----------------------------------------------------------------------------
\* seq[-n:] is a sequence of at most n elements.
LEMMA KeepBounded ==
    ASSUME NEW S, NEW seq \in Seq(S), NEW n \in Nat \ {0}
    PROVE  Keep(seq, n) \in Seq(S) /\ Len(Keep(seq, n)) <= n /\ (seq # <<>> => Keep(seq, n) # <<>>)
<1>1. CASE Len(seq) <= n
  BY <1>1 DEF Keep
<1>2. CASE Len(seq) > n
  <2> DEFINE low == Len(seq) - n + 1
  <2>1. low \in 1 .. Len(seq) /\ Len(seq) \in Nat
    BY <1>2
  <2>2. Keep(seq, n) = SubSeq(seq, low, Len(seq))
    BY <1>2, <2>1 DEF Keep
  <2>3. SubSeq(seq, low, Len(seq)) \in Seq(S) /\ Len(SubSeq(seq, low, Len(seq))) = n
    BY <1>2, <2>1
  <2>4. SubSeq(seq, low, Len(seq)) # <<>>
    BY <2>3
  <2>5. Keep(seq, n) \in Seq(S) /\ Len(Keep(seq, n)) <= n /\ Keep(seq, n) # <<>>
    <3> HIDE DEF low
    <3> QED
      BY <2>2, <2>3, <2>4
  <2> QED
    BY <2>5
<1> QED
  BY <1>1, <1>2

\* A stack loses its last entry to the other one.
LEMMA StackPopped ==
    ASSUME NEW q \in Stacks, q # <<>>
    PROVE  Front(q) \in Stacks /\ Last(q) \in Entries
<1>1. q \in Seq(Entries) /\ Len(q) \in Nat /\ Len(q) > 0 /\ Len(q) <= HistoryLimit
  BY DEF Stacks
<1>2. Front(q) \in Seq(Entries) /\ Len(Front(q)) = Len(q) - 1
  <2>1. Len(q) - 1 \in Nat /\ Len(q) - 1 \in 0 .. Len(q)
    BY <1>1
  <2>2. SubSeq(q, 1, Len(q) - 1) \in Seq(Entries) /\ Len(SubSeq(q, 1, Len(q) - 1)) = Len(q) - 1
    <3> DEFINE n == Len(q) - 1
    <3>1. \A k \in 1 .. n : k \in 1 .. Len(q)
      BY <1>1, <2>1
    <3> n \in Nat /\ n < Len(q)
      BY <1>1, <2>1
    <3> HIDE DEF n
    <3>3. n \in Int /\ 1 \in Int /\ n - 1 + 1 = n
      OBVIOUS
    <3>4. Len(SubSeq(q, 1, n)) = n
      BY <1>1, <3>1, <3>3
    <3>5. SubSeq(q, 1, n) \in Seq(Entries)
      BY <1>1, <3>1, <3>3
    <3>2. SubSeq(q, 1, n) \in Seq(Entries) /\ Len(SubSeq(q, 1, n)) = n
      BY <3>4, <3>5
    <3> QED
      BY <3>2 DEF n
  <2> QED
    BY <2>2 DEF Front
<1>3. Len(Front(q)) <= HistoryLimit
  BY <1>1, <1>2, Parameters
<1> QED
  BY <1>1, <1>2, <1>3 DEF Stacks, Last

LEMMA StackPushed ==
    ASSUME NEW q \in Stacks, NEW entry \in Entries
    PROVE  Keep(Append(q, entry), HistoryLimit) \in Stacks /\ Keep(Append(q, entry), HistoryLimit) # <<>>
<1>1. Append(q, entry) \in Seq(Entries) /\ Append(q, entry) # <<>>
  BY DEF Stacks
<1> QED
  BY <1>1, KeepBounded, Parameters DEF Stacks

\* A command makes intervals of intervals.
LEMMA ApplyTyped ==
    ASSUME NEW command \in Commands, NEW items \in Contents
    PROVE  Apply(command, items) \in Contents
<1>1. command.kind = "replace_all" => command.target \in Contents
  BY DEF Commands
<1>2. command.kind # "replace_all" =>
         [items EXCEPT ![command.id] = IF command.kind = "delete" THEN Gone ELSE command.mark] \in Contents
  BY DEF Commands, Contents
<1> QED
  BY <1>1, <1>2 DEF Apply

LEMMA RecordedTyped ==
    ASSUME NEW h \in Histories, NEW before \in Contents, NEW after \in Contents
    PROVE  Recorded(h, before, after) \in Histories
<1>1. [before |-> before, after |-> after] \in Entries /\ h.undo \in Stacks
  BY DEF Entries, Histories
<1>2. Keep(Append(h.undo, [before |-> before, after |-> after]), HistoryLimit) \in Stacks
  BY <1>1, StackPushed
<1>3. <<>> \in Stacks
  BY Parameters DEF Stacks
<1> QED
  BY <1>2, <1>3 DEF Recorded, Histories

\* The list of revisions with one more, and with one less.
LEMMA ListsTyped ==
    ASSUME NEW list \in Seq(Metadata), NEW meta \in Metadata, NEW r
    PROVE  Without(list, r) \in Seq(Metadata) /\ Insert(list, meta) \in Seq(Metadata)
BY DropLeaves DEF Without, Insert

-----------------------------------------------------------------------------
LEMMA TypesInit == Init => TypesInv
<1> SUFFICES ASSUME Init PROVE TypesInv
  OBVIOUS
<1>1. intervals \in Captures
  BY DEF Init, NoIntervals, Captures, Contents
<1>2. NoHistory \in Histories
  BY Parameters DEF NoHistory, Histories, Stacks
<1>3. FilesTyped
  BY <1>1, Parameters DEF Init, FilesTyped
<1>4. CountersTyped
  BY Parameters DEF Init, CountersTyped
<1>5. \A s \in Sessions : CallTyped(calls[s], history[s])
  BY DEF Init, CallTyped, Calls, Idle
<1> QED
  BY <1>2, <1>3, <1>4, <1>5 DEF Init, TypesInv

\* A step of one session, seen from the others.
LEMMA TypesOneSession ==
    ASSUME TrailInv, TypesInv, NEW s \in Sessions, FilesTyped', CountersTyped',
           calls' = [calls EXCEPT ![s] = calls'[s]],
           history' = [history EXCEPT ![s] = history'[s]], history'[s] \in Histories,
           CallTyped(calls'[s], history'[s])
    PROVE  TypesInv'
<1>1. \A t \in Sessions : t # s => calls'[t] = calls[t] /\ history'[t] = history[t]
  BY DEF TrailInv, TypesInv
<1>2. history' \in [Sessions -> Histories]
  BY DEF TypesInv
<1> QED
  BY <1>1, <1>2 DEF TypesInv

\* ... and one that only begins or goes on with a call.
LEMMA TypesOnlyCall ==
    ASSUME TrailInv, TypesInv, NEW s \in Sessions, UNCHANGED <<files, history>>, CountersTyped',
           calls' = [calls EXCEPT ![s] = calls'[s]], CallTyped(calls'[s], history[s])
    PROVE  TypesInv'
<1>1. history' = [history EXCEPT ![s] = history'[s]] /\ history'[s] \in Histories
  BY DEF TypesInv
<1>2. FilesTyped'
  BY DEF TypesInv, FilesTyped, files
<1> QED
  BY <1>1, <1>2, TypesOneSession

\* Counting the calls.
LEMMA BeginCounts ==
    ASSUME TypesInv, NEW s, NEW kind, Begin(s, kind), UNCHANGED <<now, forgotten, faults>>, spent' \subseteq Ids \cup Revisions
    PROVE  CountersTyped'
BY Parameters DEF TypesInv, CountersTyped, Begin

LEMMA EditTyped ==
    ASSUME TrailInv, TypesInv, NEW s \in Sessions, Edit(s)
    PROVE  TypesInv'
<1>1. intervals \in Captures /\ intervals.items \in Contents /\ now \in 0 .. MaxTime /\ history[s] \in Histories
      /\ CallTyped(calls[s], history[s])
  BY DEF TypesInv, FilesTyped, CountersTyped, Captures
<1>2. CASE BeginCreate(s) \/ BeginUpdate(s) \/ BeginDelete(s) \/ BeginBatch(s)
  <2>1. CountersTyped' /\ UNCHANGED <<files, history>>
    BY <1>2, BeginCounts DEF BeginCreate, BeginUpdate, BeginDelete, BeginBatch, TypesInv, CountersTyped
  <2>2. PICK command : calls' = [calls EXCEPT ![s] = [kind |-> "edit", pc |-> "before", command |-> command]]
                       /\ command \in Commands
    <3>1. CASE BeginCreate(s)
      <4>1. PICK i \in Ids, m \in Marks :
               Enter(s, [kind |-> "edit", pc |-> "before", command |-> [kind |-> "create", id |-> i, mark |-> m]])
        BY <3>1 DEF BeginCreate
      <4>2. [kind |-> "create", id |-> i, mark |-> m] \in Commands
        BY DEF Commands
      <4> QED
        BY <4>1, <4>2 DEF Enter
    <3>2. CASE BeginUpdate(s)
      <4>1. PICK i \in Ids, m \in Marks :
               Enter(s, [kind |-> "edit", pc |-> "before", command |-> [kind |-> "update", id |-> i, mark |-> m]])
        BY <3>2 DEF BeginUpdate
      <4>2. [kind |-> "update", id |-> i, mark |-> m] \in Commands
        BY DEF Commands
      <4> QED
        BY <4>1, <4>2 DEF Enter
    <3>3. CASE BeginDelete(s)
      <4>1. PICK i \in Ids :
               Enter(s, [kind |-> "edit", pc |-> "before", command |-> [kind |-> "delete", id |-> i]])
        BY <3>3 DEF BeginDelete
      <4>2. [kind |-> "delete", id |-> i] \in Commands
        BY DEF Commands
      <4> QED
        BY <4>1, <4>2 DEF Enter
    <3>4. CASE BeginBatch(s)
      <4>1. PICK selected \in SUBSET Ids, m \in Marks \cup {Gone} :
               Enter(s, [kind |-> "edit", pc |-> "before",
                         command |-> [kind |-> "replace_all",
                                      target |-> [i \in Ids |-> IF i \in selected THEN m ELSE intervals.items[i]]]])
        BY <3>4 DEF BeginBatch
      <4> DEFINE target == [i \in Ids |-> IF i \in selected THEN m ELSE intervals.items[i]]
      <4>2. target \in Contents
        BY <1>1 DEF Contents
      <4> HIDE DEF target
      <4>3. [kind |-> "replace_all", target |-> target] \in Commands
        BY <4>2 DEF Commands
      <4> QED
        BY <4>1, <4>3 DEF Enter, target
    <3> QED
      BY <1>2, <3>1, <3>2, <3>3, <3>4
  <2>3. calls'[s] = [kind |-> "edit", pc |-> "before", command |-> command]
    BY <2>2 DEF TrailInv
  <2>4. CallTyped(calls'[s], history[s])
    BY <2>2, <2>3 DEF CallTyped, Calls, EditCalls
  <2> QED
    BY <2>1, <2>2, <2>3, <2>4, TypesOnlyCall
<1>3. CASE LoadBefore(s)
  <2>1. calls[s] \in EditCalls /\ calls[s].command \in Commands
    BY <1>1, <1>3 DEF LoadBefore, At, CallTyped, Calls, EditCalls, BackCalls, CaptureCalls, RemoveCalls,
       IndexCalls, RestoreCalls, Idle
  <2>2. calls' = [calls EXCEPT ![s] = calls'[s]]
        /\ calls'[s] = [kind |-> "edit", pc |-> "load", command |-> calls[s].command, before |-> intervals.items]
    BY <1>3 DEF LoadBefore, Enter, TrailInv
  <2>3. CallTyped(calls'[s], history[s])
    BY <1>1, <2>1, <2>2 DEF CallTyped, Calls, EditCalls
  <2> QED
    BY <1>3, <2>2, <2>3, TypesOnlyCall DEF LoadBefore, counters, TypesInv, CountersTyped
<1>4. CASE LoadCurrent(s)
  <2>1. calls[s].command \in Commands /\ calls[s].before \in Contents
    BY <1>1, <1>4 DEF LoadCurrent, At, CallTyped, Calls, EditCalls, BackCalls, CaptureCalls, RemoveCalls,
       IndexCalls, RestoreCalls, Idle
  <2>2. calls' = [calls EXCEPT ![s] = calls'[s]]
        /\ \/ calls'[s] = Idle
           \/ \E pc \in {"save", "record"} :
                 calls'[s] = [kind |-> "edit", before |-> calls[s].before, pc |-> pc,
                              result |-> Apply(calls[s].command, intervals.items)]
    BY <1>4 DEF LoadCurrent, Enter, Return, TrailInv
  <2>3. Apply(calls[s].command, intervals.items) \in Contents
    BY <1>1, <2>1, ApplyTyped
  <2>4. CallTyped(calls'[s], history[s])
    BY <2>1, <2>2, <2>3 DEF CallTyped, Calls, EditCalls, Idle
  <2> QED
    BY <1>4, <2>2, <2>4, TypesOnlyCall DEF LoadCurrent, counters, TypesInv, CountersTyped
<1>5. CASE SaveEdit(s)
  <2>1. calls[s] \in [kind : {"edit"}, pc : {"save", "record"}, before : Contents, result : Contents]
    BY <1>1, <1>5 DEF SaveEdit, At, CallTyped, Calls, EditCalls, BackCalls, CaptureCalls, RemoveCalls,
       IndexCalls, RestoreCalls, Idle
  <2>2. intervals' \in Captures /\ UNCHANGED <<workflow, revisions, index, history, counters>>
    BY <1>1, <1>5, <2>1 DEF SaveEdit, Captures
  <2>3. calls' = [calls EXCEPT ![s] = calls'[s]]
        /\ calls'[s] \in [kind : {"edit"}, pc : {"save", "record"}, before : Contents, result : Contents]
        /\ calls'[s].kind = "edit"
    BY <1>5, <2>1 DEF SaveEdit, TrailInv
  <2>4. CallTyped(calls'[s], history'[s])
    BY <2>2, <2>3 DEF CallTyped, Calls, EditCalls
  <2>5. FilesTyped' /\ CountersTyped'
    BY <2>2 DEF TypesInv, FilesTyped, CountersTyped, counters
  <2>6. history' = [history EXCEPT ![s] = history'[s]] /\ history'[s] \in Histories
    BY <2>2 DEF TypesInv
  <2> QED
    BY <2>3, <2>4, <2>5, <2>6, TypesOneSession
<1>6. CASE RecordEdit(s)
  <2>1. calls[s].before \in Contents
    BY <1>1, <1>6 DEF RecordEdit, At, CallTyped, Calls, EditCalls, BackCalls, CaptureCalls, RemoveCalls,
       IndexCalls, RestoreCalls, Idle
  <2>2. history' = [history EXCEPT ![s] = Recorded(@, calls[s].before, intervals.items)]
        /\ calls' = [calls EXCEPT ![s] = Idle] /\ UNCHANGED <<files, counters>>
    BY <1>6 DEF RecordEdit, Return
  <2>3. history'[s] \in Histories /\ history' = [history EXCEPT ![s] = history'[s]]
    BY <1>1, <2>1, <2>2, RecordedTyped DEF TypesInv
  <2>4. calls' = [calls EXCEPT ![s] = calls'[s]] /\ CallTyped(calls'[s], history'[s])
    BY <2>2 DEF TrailInv, CallTyped, Calls, Idle
  <2>5. FilesTyped' /\ CountersTyped'
    BY <2>2 DEF TypesInv, FilesTyped, CountersTyped, files, counters
  <2> QED
    BY <2>3, <2>4, <2>5, TypesOneSession
<1>7. CASE BeginUndo(s) \/ BeginRedo(s)
  <2>1. CountersTyped' /\ UNCHANGED <<files, history>>
    BY <1>7, BeginCounts DEF BeginUndo, BeginRedo, TypesInv, CountersTyped
  <2>2. calls' = [calls EXCEPT ![s] = calls'[s]]
        /\ \/ calls'[s] = [kind |-> "undo", pc |-> "save"] /\ history[s].undo # <<>>
           \/ calls'[s] = [kind |-> "redo", pc |-> "save"] /\ history[s].redo # <<>>
    BY <1>7 DEF BeginUndo, BeginRedo, Enter, TrailInv
  <2>3. CallTyped(calls'[s], history[s])
    BY <2>2 DEF CallTyped, Calls, BackCalls
  <2> QED
    BY <2>1, <2>2, <2>3, TypesOnlyCall
<1>8. CASE FinishUndo(s) \/ FinishRedo(s)
  <2>1. calls' = [calls EXCEPT ![s] = calls'[s]] /\ calls'[s] = Idle
        /\ UNCHANGED <<workflow, revisions, index, counters>>
    BY <1>8 DEF FinishUndo, FinishRedo, Return, TrailInv
  <2>2. history[s].undo \in Stacks /\ history[s].redo \in Stacks
    BY <1>1 DEF Histories
  <2>3. intervals' \in Captures /\ history'[s] \in Histories /\ history' = [history EXCEPT ![s] = history'[s]]
    <3>1. CASE FinishUndo(s)
      <4>1. history[s].undo # <<>>
        BY <1>1, <3>1 DEF FinishUndo, At, CallTyped
      <4>2. Last(history[s].undo) \in Entries /\ Front(history[s].undo) \in Stacks
        BY <2>2, <4>1, StackPopped
      <4>3. Last(history[s].undo).before \in Contents
        BY <4>2 DEF Entries
      <4>4. Keep(Append(history[s].redo, Last(history[s].undo)), HistoryLimit) \in Stacks
        BY <2>2, <4>2, StackPushed
      <4>5. history' = [history EXCEPT ![s] =
                          [undo |-> Front(history[s].undo),
                           redo |-> Keep(Append(history[s].redo, Last(history[s].undo)), HistoryLimit)]]
            /\ intervals' = [items |-> Last(history[s].undo).before, stamp |-> now]
        BY <3>1 DEF FinishUndo
      <4> QED
        BY <1>1, <4>2, <4>3, <4>4, <4>5 DEF TypesInv, Histories, Captures
    <3>2. CASE FinishRedo(s)
      <4>1. history[s].redo # <<>>
        BY <1>1, <3>2 DEF FinishRedo, At, CallTyped
      <4>2. Last(history[s].redo) \in Entries /\ Front(history[s].redo) \in Stacks
        BY <2>2, <4>1, StackPopped
      <4>3. Last(history[s].redo).after \in Contents
        BY <4>2 DEF Entries
      <4>4. Keep(Append(history[s].undo, Last(history[s].redo)), HistoryLimit) \in Stacks
        BY <2>2, <4>2, StackPushed
      <4>5. history' = [history EXCEPT ![s] =
                          [undo |-> Keep(Append(history[s].undo, Last(history[s].redo)), HistoryLimit),
                           redo |-> Front(history[s].redo)]]
            /\ intervals' = [items |-> Last(history[s].redo).after, stamp |-> now]
        BY <3>2 DEF FinishRedo
      <4> QED
        BY <1>1, <4>2, <4>3, <4>4, <4>5 DEF TypesInv, Histories, Captures
    <3> QED
      BY <1>8, <3>1, <3>2
  <2>4. CallTyped(calls'[s], history'[s])
    BY <2>1 DEF CallTyped, Calls, Idle
  <2>5. FilesTyped' /\ CountersTyped'
    BY <2>1, <2>3 DEF TypesInv, FilesTyped, CountersTyped, counters
  <2> QED
    BY <2>1, <2>3, <2>4, <2>5, TypesOneSession
<1> QED
  BY <1>2, <1>3, <1>4, <1>5, <1>6, <1>7, <1>8 DEF Edit

\* What a call of a kind is.
LEMMA CallParts ==
    ASSUME NEW c, NEW h, CallTyped(c, h)
    PROVE  /\ c.kind = "edit" => c \in EditCalls
           /\ c.kind = "capture" => c \in CaptureCalls
           /\ c.kind = "remove" => c \in RemoveCalls
           /\ c.kind = "index" => c \in IndexCalls
           /\ c.kind = "restore" => c \in RestoreCalls
           /\ c.kind \in CallKinds
BY DEF CallTyped, Calls, EditCalls, BackCalls, CaptureCalls, RemoveCalls, IndexCalls, RestoreCalls, Idle, CallKinds

LEMMA ReviewTyped ==
    ASSUME TrailInv, TypesInv, NEW s \in Sessions, Review(s)
    PROVE  TypesInv'
<1>1. CASE BeginMove(s)
  <2>1. CountersTyped' /\ UNCHANGED <<files, history>>
    BY <1>1, BeginCounts DEF BeginMove, TypesInv, CountersTyped
  <2>2. calls' = [calls EXCEPT ![s] = calls'[s]] /\ calls'[s].kind = "move"
    BY <1>1 DEF BeginMove, Enter, TrailInv
  <2> QED
    BY <2>1, <2>2, TypesOnlyCall DEF CallTyped
<1>2. CASE ReadWorkflow(s)
  <2>1. calls' = [calls EXCEPT ![s] = calls'[s]] /\ calls'[s].kind = "move"
    BY <1>2 DEF ReadWorkflow, Enter, TrailInv
  <2> QED
    BY <1>2, <2>1, TypesOnlyCall DEF CallTyped, ReadWorkflow, counters, TypesInv, CountersTyped
<1>3. CASE WriteWorkflow(s)
  <2>1. Sound(calls[s].current) /\ MoveSound(calls[s])
    BY <1>3 DEF WriteWorkflow, At, TrailInv
  <2> DEFINE longer == Append(calls[s].current.events, [from |-> calls[s].current.status, to |-> calls[s].to,
                                                       revision |-> calls[s].revision])
  <2>2. longer \in Seq(Events)
    BY <2>1 DEF Sound, WorkflowRecords, MoveSound, Events
  <2>3. workflow'.events = Keep(longer, EventLimit)
    BY <1>3 DEF WriteWorkflow
  <2> HIDE DEF longer
  <2>4. Len(workflow'.events) <= EventLimit
    BY <2>2, <2>3, KeepBounded, Parameters
  <2>5. UNCHANGED <<intervals, revisions, index, history, counters>> /\ calls' = [calls EXCEPT ![s] = Idle]
    BY <1>3 DEF WriteWorkflow, Return
  <2>6. calls' = [calls EXCEPT ![s] = calls'[s]] /\ CallTyped(calls'[s], history'[s])
    BY <2>5 DEF TrailInv, CallTyped, Calls, Idle
  <2>7. FilesTyped' /\ CountersTyped'
    BY <2>4, <2>5 DEF TypesInv, FilesTyped, CountersTyped, counters
  <2>8. history' = [history EXCEPT ![s] = history'[s]] /\ history'[s] \in Histories
    BY <2>5 DEF TypesInv
  <2> QED
    BY <2>6, <2>7, <2>8, TypesOneSession
<1> QED
  BY <1>1, <1>2, <1>3 DEF Review

\* What the index lists are revisions.
LEMMA ListedRevisions ==
    ASSUME index \in Seq(Metadata)
    PROVE  Listed(index) \subseteq Revisions /\ \A k \in 1 .. Len(index) : index[k].id \in Revisions
<1>1. \A k \in 1 .. Len(index) : index[k] \in Metadata
  OBVIOUS
<1>2. \A m \in Metadata : m.id \in Revisions
  BY DEF Metadata
<1>3. \A k \in 1 .. Len(index) : index[k].id \in Revisions
  BY <1>1, <1>2
<1>4. DOMAIN index = 1 .. Len(index)
  OBVIOUS
<1> QED
  BY <1>3, <1>4 DEF Listed

\* The revisions a prune takes: those after the first keep of the list.
LEMMA VictimsTyped ==
    ASSUME index \in Seq(Metadata), NEW keep \in 1 .. Len(index) - 1
    PROVE  Victims(keep) \in Seq(Revisions) /\ Victims(keep) # <<>>
<1>1. Len(index) \in Nat /\ keep \in Nat /\ Len(index) - keep \in Nat /\ Len(index) - keep > 0
  OBVIOUS
<1>2. \A k \in 1 .. (Len(index) - keep) : k + keep \in 1 .. Len(index)
  BY <1>1
<1>3. \A k \in 1 .. (Len(index) - keep) : index[k + keep].id \in Revisions
  BY <1>2, ListedRevisions
<1> DEFINE n == Len(index) - keep
<1>4. Victims(keep) \in [1 .. n -> Revisions]
  BY <1>3 DEF Victims
<1>5. n \in Nat /\ n > 0
  BY <1>1
<1> HIDE DEF n
<1>6. Victims(keep) \in Seq(Revisions) /\ Len(Victims(keep)) = n
  BY <1>4, <1>5
<1>7. Victims(keep) # <<>>
  BY <1>5, <1>6
<1> QED
  BY <1>6, <1>7

\* A call that has nothing more to remove is over.
LEMMA ContinueTyped ==
    ASSUME TrailInv, NEW s \in Sessions, NEW rest \in Seq(Revisions), Continue(s, rest), NEW h
    PROVE  calls' = [calls EXCEPT ![s] = calls'[s]] /\ CallTyped(calls'[s], h)
<1>1. CASE rest = <<>>
  <2>1. calls' = [calls EXCEPT ![s] = calls'[s]] /\ calls'[s] = Idle
    BY <1>1 DEF Continue, Return, TrailInv
  <2> QED
    BY <2>1 DEF CallTyped, Calls, Idle
<1>2. CASE rest # <<>>
  <2>1. calls' = [calls EXCEPT ![s] = calls'[s]] /\ calls'[s] = [kind |-> "remove", pc |-> "file", rest |-> rest]
    BY <1>2 DEF Continue, Enter, TrailInv
  <2> QED
    BY <1>2, <2>1 DEF CallTyped, Calls, RemoveCalls
<1> QED
  BY <1>1, <1>2

LEMMA ReviseTyped ==
    ASSUME TrailInv, TypesInv, NEW s \in Sessions, Revise(s)
    PROVE  TypesInv'
<1>1. intervals \in Captures /\ revisions \in [Revisions -> Captures \cup {Missing}] /\ index \in Seq(Metadata)
      /\ now \in 0 .. MaxTime /\ spent \subseteq Ids \cup Revisions
      /\ history[s] \in Histories /\ CallTyped(calls[s], history[s])
  BY DEF TypesInv, FilesTyped, CountersTyped
<1>2. CASE BeginCapture(s)
  <2>1. PICK r \in Revisions \ spent :
           Enter(s, [kind |-> "capture", pc |-> "file", id |-> r, at |-> now, capture |-> intervals])
           /\ spent' = spent \cup {r}
    BY <1>2 DEF BeginCapture
  <2>2. CountersTyped' /\ UNCHANGED <<files, history>>
    BY <1>1, <1>2, <2>1, BeginCounts DEF BeginCapture
  <2>3. calls' = [calls EXCEPT ![s] = calls'[s]]
        /\ calls'[s] = [kind |-> "capture", pc |-> "file", id |-> r, at |-> now, capture |-> intervals]
    BY <2>1 DEF Enter, TrailInv
  <2>4. CallTyped(calls'[s], history[s])
    BY <1>1, <2>3 DEF CallTyped, Calls, CaptureCalls
  <2> QED
    BY <2>2, <2>3, <2>4, TypesOnlyCall
<1>3. CASE WriteRevision(s)
  <2>1. calls[s] \in CaptureCalls
    BY <1>1, <1>3, CallParts DEF WriteRevision, At
  <2>2. revisions' = [revisions EXCEPT ![calls[s].id] = calls[s].capture]
        /\ UNCHANGED <<intervals, workflow, index, history, counters>>
    BY <1>3 DEF WriteRevision
  <2>3. calls' = [calls EXCEPT ![s] = calls'[s]] /\ calls'[s] \in CaptureCalls
    BY <1>3, <2>1 DEF WriteRevision, TrailInv, CaptureCalls
  <2>4. CallTyped(calls'[s], history'[s])
    BY <2>3 DEF CallTyped, Calls, CaptureCalls
  <2>5. FilesTyped' /\ CountersTyped'
    BY <2>1, <2>2 DEF TypesInv, FilesTyped, CountersTyped, counters, CaptureCalls
  <2>6. history' = [history EXCEPT ![s] = history'[s]] /\ history'[s] \in Histories
    BY <2>2 DEF TypesInv
  <2> QED
    BY <2>3, <2>4, <2>5, <2>6, TypesOneSession
<1>4. CASE ListForCapture(s)
  <2>1. calls[s] \in CaptureCalls
    BY <1>1, <1>4, CallParts DEF ListForCapture, At
  <2> DEFINE meta == [id |-> calls[s].id, at |-> calls[s].at, token |-> Token(calls[s].capture)]
             list == Insert(Without(index, calls[s].id), meta)
  <2>2. calls' = [calls EXCEPT ![s] = [kind |-> "index", pc |-> "write", lost |-> {}, rest |-> <<>>, list |-> list]]
    BY <1>4 DEF ListForCapture, Enter
  <2>3. meta \in Metadata
    BY <2>1 DEF CaptureCalls, Metadata, Token
  <2> HIDE DEF meta
  <2>4. Without(index, calls[s].id) \in Seq(Metadata)
    BY <1>1, <2>3, ListsTyped
  <2>5. list \in Seq(Metadata)
    BY <2>3, <2>4, ListsTyped
  <2> HIDE DEF list
  <2>6. calls' = [calls EXCEPT ![s] = calls'[s]] /\ CallTyped(calls'[s], history[s])
    BY <2>2, <2>5 DEF TrailInv, CallTyped, Calls, IndexCalls
  <2> QED
    BY <1>4, <2>6, TypesOnlyCall DEF ListForCapture, counters, TypesInv, CountersTyped
<1>5. CASE BeginDeleteRevision(s)
  <2>1. PICK r \in Listed(index) : Enter(s, [kind |-> "remove", pc |-> "file", rest |-> <<r>>])
    BY <1>5 DEF BeginDeleteRevision
  <2>2. r \in Revisions
    BY <1>1, ListedRevisions
  <2>3. calls' = [calls EXCEPT ![s] = calls'[s]] /\ calls'[s] = [kind |-> "remove", pc |-> "file", rest |-> <<r>>]
    BY <2>1 DEF Enter, TrailInv
  <2>4. <<r>> \in Seq(Revisions) \ {<<>>}
    BY <2>2
  <2>5. CallTyped(calls'[s], history[s])
    BY <2>3, <2>4 DEF CallTyped, Calls, RemoveCalls
  <2>6. CountersTyped' /\ UNCHANGED <<files, history>>
    BY <1>5, BeginCounts DEF BeginDeleteRevision, TypesInv, CountersTyped
  <2> QED
    BY <2>3, <2>5, <2>6, TypesOnlyCall
<1>6. CASE BeginPrune(s)
  <2>1. PICK keep \in 1 .. Len(index) - 1 : Enter(s, [kind |-> "remove", pc |-> "file", rest |-> Victims(keep)])
    BY <1>6 DEF BeginPrune
  <2>2. Victims(keep) \in Seq(Revisions) /\ Victims(keep) # <<>>
    BY <1>1, VictimsTyped
  <2>3. calls' = [calls EXCEPT ![s] = calls'[s]]
        /\ calls'[s] = [kind |-> "remove", pc |-> "file", rest |-> Victims(keep)]
    BY <2>1 DEF Enter, TrailInv
  <2>4. CallTyped(calls'[s], history[s])
    BY <2>2, <2>3 DEF CallTyped, Calls, RemoveCalls
  <2>5. CountersTyped' /\ UNCHANGED <<files, history>>
    BY <1>6, BeginCounts DEF BeginPrune, TypesInv, CountersTyped
  <2> QED
    BY <2>3, <2>4, <2>5, TypesOnlyCall
<1>7. CASE RemoveFile(s)
  <2>1. calls[s] \in RemoveCalls /\ calls[s].rest \in Seq(Revisions) /\ calls[s].rest # <<>>
    BY <1>1, <1>7, CallParts DEF RemoveFile, At, RemoveCalls
  <2>2. Head(calls[s].rest) \in Revisions /\ Tail(calls[s].rest) \in Seq(Revisions)
    BY <2>1
  <2>3. UNCHANGED <<intervals, workflow, index, history, counters>>
    BY <1>7 DEF RemoveFile
  <2>4. revisions' = revisions \/ revisions' = [revisions EXCEPT ![Head(calls[s].rest)] = Missing]
    BY <1>7 DEF RemoveFile
  <2>5. FilesTyped' /\ CountersTyped'
    BY <1>1, <2>3, <2>4 DEF TypesInv, FilesTyped, CountersTyped, counters
  <2>6. calls' = [calls EXCEPT ![s] = calls'[s]] /\ CallTyped(calls'[s], history'[s])
    <3>1. CASE Continue(s, Tail(calls[s].rest))
      BY <2>2, <3>1, ContinueTyped
    <3>2. CASE calls' = [calls EXCEPT ![s].pc = "list"]
      <4>1. calls' = [calls EXCEPT ![s] = calls'[s]] /\ calls'[s] \in RemoveCalls
        BY <2>1, <3>2 DEF TrailInv, RemoveCalls
      <4> QED
        BY <4>1 DEF CallTyped, Calls, RemoveCalls
    <3> QED
      BY <1>7, <3>1, <3>2 DEF RemoveFile
  <2>7. history' = [history EXCEPT ![s] = history'[s]] /\ history'[s] \in Histories
    BY <2>3 DEF TypesInv
  <2> QED
    BY <2>5, <2>6, <2>7, TypesOneSession
<1>8. CASE ListForRemove(s)
  <2>1. calls[s].rest \in Seq(Revisions) /\ calls[s].rest # <<>>
    BY <1>1, <1>8, CallParts DEF ListForRemove, At, RemoveCalls
  <2>2. Tail(calls[s].rest) \in Seq(Revisions)
    BY <2>1
  <2> DEFINE list == Without(index, Head(calls[s].rest))
  <2>3. list \in Seq(Metadata)
    BY <1>1, DropLeaves DEF Without
  <2>4. calls' = [calls EXCEPT ![s] = [kind |-> "index", pc |-> "write", lost |-> {}, rest |-> Tail(calls[s].rest), list |-> list]]
    BY <1>8 DEF ListForRemove, Enter
  <2> HIDE DEF list
  <2>5. calls' = [calls EXCEPT ![s] = calls'[s]] /\ CallTyped(calls'[s], history[s])
    BY <2>2, <2>3, <2>4 DEF TrailInv, CallTyped, Calls, IndexCalls
  <2> QED
    BY <1>8, <2>5, TypesOnlyCall DEF ListForRemove, counters, TypesInv, CountersTyped
<1>9. CASE WriteIndex(s)
  <2>1. calls[s].list \in Seq(Metadata) /\ calls[s].rest \in Seq(Revisions) /\ calls[s].lost \subseteq Revisions
    BY <1>1, <1>9, CallParts DEF WriteIndex, At, IndexCalls
  <2>2. index' = calls[s].list /\ UNCHANGED <<intervals, workflow, revisions, history, spent, now, begun, faults>>
        /\ Continue(s, calls[s].rest) /\ forgotten' = forgotten \cup calls[s].lost
    BY <1>9 DEF WriteIndex
  <2>3. calls' = [calls EXCEPT ![s] = calls'[s]] /\ CallTyped(calls'[s], history'[s])
    BY <2>1, <2>2, ContinueTyped
  <2>4. FilesTyped' /\ CountersTyped'
    BY <2>1, <2>2 DEF TypesInv, FilesTyped, CountersTyped, counters
  <2>5. history' = [history EXCEPT ![s] = history'[s]] /\ history'[s] \in Histories
    BY <2>2 DEF TypesInv
  <2> QED
    BY <2>3, <2>4, <2>5, TypesOneSession
<1>10. CASE BeginRestore(s)
  <2>1. PICK r \in Listed(index) :
           Enter(s, [kind |-> "restore", pc |-> "check", id |-> r, token |-> Token(intervals)])
    BY <1>10 DEF BeginRestore
  <2>2. r \in Revisions
    BY <1>1, ListedRevisions
  <2>3. calls' = [calls EXCEPT ![s] = calls'[s]]
        /\ calls'[s] = [kind |-> "restore", pc |-> "check", id |-> r, token |-> intervals]
    BY <2>1 DEF Enter, TrailInv, Token
  <2>4. CallTyped(calls'[s], history[s])
    BY <1>1, <2>2, <2>3 DEF CallTyped, Calls, RestoreCalls
  <2>5. CountersTyped' /\ UNCHANGED <<files, history>>
    BY <1>10, BeginCounts DEF BeginRestore, TypesInv, CountersTyped
  <2> QED
    BY <2>3, <2>4, <2>5, TypesOnlyCall
<1>11. CASE CheckRestore(s)
  <2>1. calls[s].id \in Revisions
    BY <1>1, <1>11, CallParts DEF CheckRestore, At, RestoreCalls
  <2>2. calls' = [calls EXCEPT ![s] = calls'[s]]
        /\ \/ calls'[s] = Idle
           \/ calls'[s] = [kind |-> "restore", pc |-> "commit", capture |-> revisions[calls[s].id]]
              /\ revisions[calls[s].id] # Missing
    BY <1>11 DEF CheckRestore, Return, Enter, TrailInv
  <2>3. CallTyped(calls'[s], history[s])
    BY <1>1, <2>1, <2>2 DEF CallTyped, Calls, RestoreCalls, Idle
  <2> QED
    BY <1>11, <2>2, <2>3, TypesOnlyCall DEF CheckRestore, counters, TypesInv, CountersTyped
<1>12. CASE CommitRestore(s)
  <2>1. calls[s].capture \in Captures
    BY <1>1, <1>12, CallParts DEF CommitRestore, At, RestoreCalls
  <2>2. intervals' = calls[s].capture /\ calls' = [calls EXCEPT ![s] = Idle]
        /\ UNCHANGED <<workflow, revisions, index, history, counters>>
    BY <1>12 DEF CommitRestore, Return
  <2>3. calls' = [calls EXCEPT ![s] = calls'[s]] /\ CallTyped(calls'[s], history'[s])
    BY <2>2 DEF TrailInv, CallTyped, Calls, Idle
  <2>4. FilesTyped' /\ CountersTyped'
    BY <2>1, <2>2 DEF TypesInv, FilesTyped, CountersTyped, counters
  <2>5. history' = [history EXCEPT ![s] = history'[s]] /\ history'[s] \in Histories
    BY <2>2 DEF TypesInv
  <2> QED
    BY <2>3, <2>4, <2>5, TypesOneSession
<1>13. CASE ListUnreadable(s)
  <2> DEFINE c == calls[s]
             capturing == c.kind = "capture"
             own == IF capturing THEN c.id ELSE Head(c.rest)
             row == [id |-> own, at |-> c.at, token |-> Token(c.capture)]
             rest == IF capturing THEN <<>> ELSE Tail(c.rest)
             list == IF capturing THEN <<row>> ELSE <<>>
  <2>1. c.kind \in {"capture", "remove"} /\ faults < MaxFaults /\ faults' = faults + 1
        /\ UNCHANGED <<files, history, spent, now, begun, forgotten>>
    BY <1>13 DEF ListUnreadable
  <2>2. capturing => c \in CaptureCalls /\ row \in Metadata
    BY <1>1, CallParts DEF CaptureCalls, Metadata, Token
  <2>3. ~capturing => c.rest \in Seq(Revisions) /\ c.rest # <<>>
    BY <1>1, <2>1, CallParts DEF RemoveCalls
  <2>4. rest \in Seq(Revisions) /\ Listed(index) \ {own} \subseteq Revisions
    BY <1>1, <2>3, ListedRevisions
  <2>5. list \in Seq(Metadata)
    <3> HIDE DEF row
    <3> QED
      BY <2>2
  <2>6. calls' = [calls EXCEPT ![s] = [kind |-> "index", pc |-> "write", lost |-> Listed(index) \ {own},
                                      rest |-> rest, list |-> list]]
    BY <1>13 DEF ListUnreadable, Enter
  <2> HIDE DEF own, rest, list, row
  <2>7. calls' = [calls EXCEPT ![s] = calls'[s]] /\ CallTyped(calls'[s], history[s])
    BY <2>4, <2>5, <2>6 DEF TrailInv, CallTyped, Calls, IndexCalls
  <2>8. CountersTyped'
    BY <2>1, Parameters DEF TypesInv, CountersTyped
  <2> QED
    BY <2>1, <2>7, <2>8, TypesOnlyCall
<1> QED
  BY <1>2, <1>3, <1>4, <1>5, <1>6, <1>7, <1>8, <1>9, <1>10, <1>11, <1>12, <1>13 DEF Revise

LEMMA TypesStep == TrailInv /\ TypesInv /\ [Next]_vars => TypesInv'
<1> SUFFICES ASSUME TrailInv, TypesInv, [Next]_vars PROVE TypesInv'
  OBVIOUS
<1>1. CASE UNCHANGED vars
  BY <1>1 DEF vars, files, counters, TypesInv, FilesTyped, CountersTyped
<1>2. CASE Tick
  BY <1>2, Parameters DEF Tick, files, TypesInv, FilesTyped, CountersTyped
<1>3. CASE Crash
  <2>1. calls' = [s \in Sessions |-> Idle] /\ history' = [s \in Sessions |-> NoHistory]
        /\ UNCHANGED <<files, spent, now, begun, forgotten>> /\ faults < MaxFaults /\ faults' = faults + 1
    BY <1>3 DEF Crash
  <2>2. NoHistory \in Histories
    BY Parameters DEF NoHistory, Histories, Stacks
  <2>3. history' \in [Sessions -> Histories] /\ \A s \in Sessions : CallTyped(calls'[s], history'[s])
    BY <2>1, <2>2 DEF CallTyped, Calls, Idle
  <2>4. FilesTyped' /\ CountersTyped'
    BY <2>1, Parameters DEF TypesInv, FilesTyped, CountersTyped, files
  <2> QED
    BY <2>3, <2>4 DEF TypesInv
<1>4. ASSUME NEW s \in Sessions, CallFails(s) PROVE TypesInv'
  <2>1. /\ UNCHANGED <<files, history>> /\ calls'[s] = Idle /\ calls' = [calls EXCEPT ![s] = calls'[s]]
        /\ CallTyped(calls'[s], history[s])
    BY <1>4 DEF CallFails, Return, TrailInv, CallTyped, Calls, Idle
  <2>2. CountersTyped'
    BY <1>4, Parameters DEF CallFails, TypesInv, CountersTyped
  <2> QED
    BY <2>1, <2>2, TypesOnlyCall
<1> QED
  BY <1>1, <1>2, <1>3, <1>4, EditTyped, ReviewTyped, ReviseTyped DEF Next

\* The state keeps its types and no stack grows beyond the history limit
\* (interval_commands.py), whatever overlaps and however often the server stops.
THEOREM EditingTyped == Spec => []TypeOK
<1>1. TrailInv /\ TypesInv => TypeOK
  <2> SUFFICES ASSUME TrailInv, TypesInv PROVE TypeOK
    OBVIOUS
  <2>1. ASSUME NEW s \in Sessions
        PROVE  /\ DOMAIN history[s] = {"undo", "redo"}
               /\ \A stack \in {history[s].undo, history[s].redo} :
                      Len(stack) <= HistoryLimit /\ \A k \in DOMAIN stack : stack[k] \in Entries
               /\ calls[s].kind \in CallKinds
    <3>1. history[s] \in Histories /\ CallTyped(calls[s], history[s])
      BY DEF TypesInv
    <3> QED
      BY <3>1, CallParts DEF Histories, Stacks
  <2>2. workflow \in WorkflowRecords
    BY DEF TrailInv, Sound
  <2> QED
    BY <2>1, <2>2 DEF TypesInv, FilesTyped, CountersTyped, WorkflowRecords, TypeOK
<1> QED
  BY <1>1, TrailInit, TrailStep, TypesInit, TypesStep, PTL DEF Spec

-----------------------------------------------------------------------------
(* The promise of undo and redo. *)

\* Nobody edits while another session takes a step.
LEMMA OnlyOneEdits ==
    ASSUME EditsAlone, SoloInv, NEW s \in Sessions, Edit(s) \/ Review(s) \/ Revise(s)
    PROVE  /\ \A t \in Sessions : t # s => calls[t].kind \notin Solo /\ calls'[t] = calls[t]
           /\ calls' = [calls EXCEPT ![s] = calls'[s]]
<1>1. CASE Begins(s)
  <2>1. \A t \in Sessions : calls[t].kind \notin Solo
    BY <1>1 DEF Begins, Begin, EditsAlone, Solo, Idle
  <2> QED
    BY <1>1, <2>1 DEF Begins, SoloInv
<1>2. CASE GoesOn(s)
  BY <1>2 DEF GoesOn, SoloInv
<1> QED
  BY <1>1, <1>2, EveryCall DEF SoloInv, CallsFormed

\* The steps of a review or of a revision leave the history and its call alone.
LEMMA LaterNotSolo ==
    ASSUME SoloInv, NEW s \in Sessions, Review(s) \/ Revise(s)
    PROVE  calls[s].kind \notin Solo /\ calls'[s].kind \notin Solo /\ UNCHANGED history
<1> USE DEF SoloInv, Solo, files, Enter, Return, Idle, At, Continue, Begin
<1>1. CASE Review(s)
  BY <1>1 DEF Review, BeginMove, ReadWorkflow, WriteWorkflow
<1>2. CASE BeginCapture(s) \/ WriteRevision(s) \/ ListForCapture(s)
  BY <1>2 DEF BeginCapture, WriteRevision, ListForCapture
<1>3. CASE BeginDeleteRevision(s) \/ BeginPrune(s) \/ RemoveFile(s) \/ ListForRemove(s) \/ WriteIndex(s)
  BY <1>3 DEF BeginDeleteRevision, BeginPrune, RemoveFile, ListForRemove, WriteIndex
<1>4. CASE BeginRestore(s) \/ CheckRestore(s) \/ CommitRestore(s)
  BY <1>4 DEF BeginRestore, CheckRestore, CommitRestore
<1>5. CASE ListUnreadable(s)
  BY <1>5 DEF ListUnreadable
<1> QED
  BY <1>1, <1>2, <1>3, <1>4, <1>5 DEF Revise

\* What an edit, an undo or a redo read still holds.
Agrees(s) ==
    /\ At(s, "edit", "load") \/ At(s, "edit", "save") => calls[s].before = intervals.items
    /\ calls[s].kind = "undo" => intervals.items = Last(history[s].undo).after
    /\ calls[s].kind = "redo" => intervals.items = Last(history[s].redo).before

AgreesInv == \A s \in Sessions : Agrees(s)

\* A session that is not editing agrees whatever it does.
LEMMA AgreesIdle == ASSUME NEW s, calls[s].kind \notin Solo PROVE Agrees(s)
BY DEF Agrees, At, Solo

LEMMA AgreesIdleNext == ASSUME NEW s, calls'[s].kind \notin Solo PROVE Agrees(s)'
BY DEF Agrees, At, Solo

LEMMA AgreesInit == Init => AgreesInv
<1> SUFFICES ASSUME Init, NEW s \in Sessions PROVE Agrees(s)
  BY DEF AgreesInv
<1>1. calls[s].kind \notin Solo
  BY DEF Init, Idle, Solo
<1> QED
  BY <1>1, AgreesIdle

LEMMA AgreesStep ==
    ASSUME EditsAlone, SoloInv, TypesInv, AgreesInv, [Next]_vars
    PROVE  AgreesInv'
<1>1. CASE UNCHANGED vars
  BY <1>1 DEF vars, files, AgreesInv, Agrees, At
<1>2. CASE Tick
  BY <1>2 DEF Tick, files, AgreesInv, Agrees, At
<1>3. CASE Crash
  <2> SUFFICES ASSUME NEW s \in Sessions PROVE Agrees(s)'
    BY DEF AgreesInv
  <2>1. calls'[s].kind \notin Solo
    BY <1>3 DEF Crash, Idle, Solo
  <2> QED
    BY <2>1, AgreesIdleNext
<1>4. ASSUME NEW s \in Sessions, Edit(s) \/ Review(s) \/ Revise(s) PROVE AgreesInv'
  <2>1. \A t \in Sessions : t # s => Agrees(t)'
    BY <1>4, OnlyOneEdits, AgreesIdleNext
  <2>2. Agrees(s)'
    <3>1. calls' = [calls EXCEPT ![s] = calls'[s]] /\ Agrees(s)
      BY <1>4, OnlyOneEdits DEF AgreesInv
    <3>2. CASE BeginCreate(s) \/ BeginUpdate(s) \/ BeginDelete(s) \/ BeginBatch(s)
      <4>1. calls'[s].kind = "edit" /\ calls'[s].pc = "before"
        <5>1. CASE BeginCreate(s)
          BY <5>1 DEF BeginCreate, Enter, SoloInv
        <5>2. CASE BeginUpdate(s)
          BY <5>2 DEF BeginUpdate, Enter, SoloInv
        <5>3. CASE BeginDelete(s)
          BY <5>3 DEF BeginDelete, Enter, SoloInv
        <5>4. CASE BeginBatch(s)
          BY <5>4 DEF BeginBatch, Enter, SoloInv
        <5> QED
          BY <3>2, <5>1, <5>2, <5>3, <5>4
      <4> QED
        BY <4>1 DEF Agrees, At
    <3>3. CASE LoadBefore(s)
      <4>1. calls'[s].kind = "edit" /\ calls'[s].before = intervals'.items
        BY <3>3 DEF LoadBefore, Enter, SoloInv, files
      <4> QED
        BY <4>1 DEF Agrees
    <3>4. CASE LoadCurrent(s)
      <4>1. UNCHANGED intervals /\ calls[s].before = intervals.items
        BY <3>1, <3>4 DEF LoadCurrent, Agrees, At, files
      <4>2. calls'[s].kind = "idle" \/ (calls'[s].kind = "edit" /\ calls'[s].before = calls[s].before)
        BY <3>4 DEF LoadCurrent, Enter, Return, SoloInv, Idle
      <4> QED
        BY <4>1, <4>2 DEF Agrees, At
    <3>5. CASE SaveEdit(s)
      <4>1. calls'[s].kind = "edit" /\ calls'[s].pc = "record"
        <5>1. calls[s] \in EditCalls
          BY <3>5, CallParts DEF SaveEdit, At, TypesInv
        <5> QED
          BY <3>5, <5>1 DEF SaveEdit, SoloInv, EditCalls
      <4> QED
        BY <4>1 DEF Agrees, At
    <3>6. CASE BeginUndo(s)
      <4>1. calls'[s].kind = "undo" /\ UNCHANGED <<intervals, history>>
            /\ intervals.items = Last(history[s].undo).after
        BY <3>6 DEF BeginUndo, Enter, SoloInv, files
      <4> QED
        BY <4>1 DEF Agrees, At
    <3>7. CASE BeginRedo(s)
      <4>1. calls'[s].kind = "redo" /\ UNCHANGED <<intervals, history>>
            /\ intervals.items = Last(history[s].redo).before
        BY <3>7 DEF BeginRedo, Enter, SoloInv, files
      <4> QED
        BY <4>1 DEF Agrees, At
    <3>8. CASE RecordEdit(s) \/ FinishUndo(s) \/ FinishRedo(s)
      <4>1. calls'[s] = Idle
        BY <3>8 DEF RecordEdit, FinishUndo, FinishRedo, Return, SoloInv
      <4> QED
        BY <4>1, AgreesIdleNext DEF Idle, Solo
    <3>9. CASE Review(s) \/ Revise(s)
      <4>1. calls'[s].kind \notin Solo
        BY <3>9, LaterNotSolo
      <4> QED
        BY <4>1, AgreesIdleNext
    <3> QED
      BY <1>4, <3>2, <3>3, <3>4, <3>5, <3>6, <3>7, <3>8, <3>9 DEF Edit
  <2> QED
    BY <2>1, <2>2 DEF AgreesInv
<1>5. ASSUME NEW s \in Sessions, CallFails(s) PROVE AgreesInv'
  <2>1. UNCHANGED <<intervals, history>> /\ calls'[s].kind \notin Solo
        /\ \A t \in Sessions : t # s => calls'[t] = calls[t]
    BY <1>5, CallFailing DEF SoloInv, Solo
  <2>2. Agrees(s)'
    BY <2>1, AgreesIdleNext
  <2>3. \A t \in Sessions : t # s => Agrees(t)'
    BY <2>1 DEF AgreesInv, Agrees, At
  <2> QED
    BY <2>2, <2>3 DEF AgreesInv
<1> QED
  BY <1>1, <1>2, <1>3, <1>4, <1>5 DEF Next

DoneBy == [s \in Sessions |-> HistoryAsPromised(s).undo]
UndoneBy == [s \in Sessions |-> HistoryAsPromised(s).redo]

\* A step that changes neither the intervals nor what undo and redo promise.
LEMMA DocumentStutters ==
    ASSUME intervals'.items = intervals.items,
           \A s \in Sessions : HistoryAsPromised(s)' = HistoryAsPromised(s)
    PROVE  UNCHANGED <<intervals.items, DoneBy, UndoneBy>>
BY DEF DoneBy, UndoneBy

\* Of the session that takes a step only, what is promised may change.
LEMMA OthersAsPromised ==
    ASSUME EditsAlone, SoloInv, NEW s \in Sessions, Edit(s) \/ Review(s) \/ Revise(s),
           history' = [history EXCEPT ![s] = history'[s]], history \in [Sessions -> Histories]
    PROVE  \A t \in Sessions : t # s => HistoryAsPromised(t)' = HistoryAsPromised(t)
<1> SUFFICES ASSUME NEW t \in Sessions, t # s PROVE HistoryAsPromised(t)' = HistoryAsPromised(t)
  OBVIOUS
<1>1. calls[t].kind \notin Solo /\ calls'[t] = calls[t]
  BY OnlyOneEdits
<1>2. history'[t] = history[t]
  OBVIOUS
<1>3. HistoryAsPromised(t) = history[t]
  BY <1>1 DEF HistoryAsPromised, At, Solo
<1>4. HistoryAsPromised(t)' = history'[t]
  BY <1>1 DEF HistoryAsPromised, At, Solo
<1> QED
  BY <1>2, <1>3, <1>4

\* A session between its calls, or in one that is not being recorded.
LEMMA AsHistory ==
    ASSUME NEW s, ~At(s, "edit", "record")
    PROVE  HistoryAsPromised(s) = history[s]
BY DEF HistoryAsPromised

LEMMA AsHistoryNext ==
    ASSUME NEW s, ~At(s, "edit", "record")'
    PROVE  HistoryAsPromised(s)' = history'[s]
BY DEF HistoryAsPromised

\* What is promised to one session changes.
LEMMA PromiseChanges ==
    ASSUME NEW s \in Sessions, NEW u, NEW r, HistoryAsPromised(s)' = [undo |-> u, redo |-> r],
           \A t \in Sessions : t # s => HistoryAsPromised(t)' = HistoryAsPromised(t)
    PROVE  DoneBy' = [DoneBy EXCEPT ![s] = u] /\ UndoneBy' = [UndoneBy EXCEPT ![s] = r]
<1>1. \A t \in Sessions : DoneBy'[t] = IF t = s THEN u ELSE DoneBy[t]
  BY DEF DoneBy
<1>2. \A t \in Sessions : UndoneBy'[t] = IF t = s THEN r ELSE UndoneBy[t]
  BY DEF UndoneBy
<1>3. DoneBy' = [t \in Sessions |-> DoneBy'[t]] /\ UndoneBy' = [t \in Sessions |-> UndoneBy'[t]]
      /\ DoneBy = [t \in Sessions |-> DoneBy[t]] /\ UndoneBy = [t \in Sessions |-> UndoneBy[t]]
  BY DEF DoneBy, UndoneBy
<1> QED
  BY <1>1, <1>2, <1>3

LEMMA DocumentStepOfOne ==
    ASSUME EditsAlone, SoloInv, TypesInv, AgreesInv, NEW s \in Sessions, Edit(s) \/ Review(s) \/ Revise(s)
    PROVE  Document!Next \/ UNCHANGED <<intervals.items, DoneBy, UndoneBy>>
<1>1. /\ intervals \in Captures /\ intervals.items \in Contents
      /\ history \in [Sessions -> Histories] /\ history[s] \in Histories
      /\ CallTyped(calls[s], history[s]) /\ Agrees(s)
      /\ calls' = [calls EXCEPT ![s] = calls'[s]] /\ "kind" \in DOMAIN calls[s]
  BY OnlyOneEdits DEF TypesInv, FilesTyped, Captures, AgreesInv, SoloInv
<1>2. ASSUME history' = history, intervals'.items = intervals.items,
             ~At(s, "edit", "record"), ~At(s, "edit", "record")'
      PROVE  UNCHANGED <<intervals.items, DoneBy, UndoneBy>>
  <2>1. HistoryAsPromised(s)' = HistoryAsPromised(s)
    BY <1>2, AsHistory, AsHistoryNext
  <2>2. history' = [history EXCEPT ![s] = history'[s]]
    BY <1>1, <1>2
  <2>3. \A t \in Sessions : t # s => HistoryAsPromised(t)' = HistoryAsPromised(t)
    BY <1>1, <2>2, OthersAsPromised
  <2> QED
    BY <1>2, <2>1, <2>3, DocumentStutters
<1>3. CASE BeginCreate(s) \/ BeginUpdate(s) \/ BeginDelete(s) \/ BeginBatch(s)
  <2>1. calls'[s].pc = "before" /\ calls[s] = Idle /\ UNCHANGED <<intervals, history>>
    <3>1. CASE BeginCreate(s)
      BY <3>1 DEF BeginCreate, Begin, Enter, SoloInv, files
    <3>2. CASE BeginUpdate(s)
      BY <3>2 DEF BeginUpdate, Begin, Enter, SoloInv, files
    <3>3. CASE BeginDelete(s)
      BY <3>3 DEF BeginDelete, Begin, Enter, SoloInv, files
    <3>4. CASE BeginBatch(s)
      BY <3>4 DEF BeginBatch, Begin, Enter, SoloInv, files
    <3> QED
      BY <1>3, <3>1, <3>2, <3>3, <3>4
  <2> QED
    BY <1>2, <2>1 DEF At, Idle
<1>4. CASE LoadBefore(s)
  <2>1. calls'[s].pc = "load" /\ calls[s].pc = "before" /\ UNCHANGED <<intervals, history>>
    BY <1>4 DEF LoadBefore, At, Enter, SoloInv, files
  <2> QED
    BY <1>2, <2>1 DEF At
<1>5. CASE LoadCurrent(s)
  <2>1. calls[s].pc = "load" /\ UNCHANGED <<intervals, history>> /\ calls[s].before = intervals.items
        /\ HistoryAsPromised(s) = history[s]
    BY <1>1, <1>5, AsHistory DEF LoadCurrent, At, files, Agrees
  <2>2. CASE At(s, "edit", "record")'
    <3>1. calls'[s].before = calls[s].before
      BY <1>5, <2>2 DEF LoadCurrent, At, Enter, Return, SoloInv, Idle
    <3>2. HistoryAsPromised(s)' = Recorded(history'[s], calls'[s].before, intervals'.items)
      BY <2>2 DEF HistoryAsPromised
    <3>3. HistoryAsPromised(s)' = HistoryAsPromised(s)
      BY <2>1, <3>1, <3>2 DEF Recorded
    <3>4. history' = [history EXCEPT ![s] = history'[s]]
      BY <1>1, <2>1
    <3>5. \A t \in Sessions : t # s => HistoryAsPromised(t)' = HistoryAsPromised(t)
      BY <1>1, <3>4, OthersAsPromised
    <3> QED
      BY <2>1, <3>3, <3>5, DocumentStutters
  <2>3. CASE ~At(s, "edit", "record")'
    BY <1>2, <2>1, <2>3 DEF At
  <2> QED
    BY <2>2, <2>3
<1>6. CASE SaveEdit(s)
  <2>1. calls[s] \in EditCalls /\ calls[s].kind = "edit" /\ calls[s].pc = "save" /\ calls[s].result \in Contents
        /\ calls[s].before = intervals.items
    BY <1>1, <1>6, CallParts DEF SaveEdit, At, EditCalls, Agrees
  <2>2. intervals'.items = calls[s].result /\ UNCHANGED history
        /\ At(s, "edit", "record")' /\ calls'[s].before = calls[s].before
    BY <1>6, <2>1 DEF SaveEdit, SoloInv, EditCalls, At
  <2>3. HistoryAsPromised(s) = history[s]
        /\ HistoryAsPromised(s)' = Recorded(history[s], intervals.items, calls[s].result)
    BY <2>1, <2>2 DEF HistoryAsPromised, At
  <2>4. \A t \in Sessions : t # s => HistoryAsPromised(t)' = HistoryAsPromised(t)
    <3>1. history' = [history EXCEPT ![s] = history'[s]]
      BY <1>1, <2>2
    <3> QED
      BY <1>1, <3>1, OthersAsPromised
  <2>5. CASE calls[s].result = intervals.items
    <3>1. HistoryAsPromised(s)' = HistoryAsPromised(s)
      BY <2>3, <2>5 DEF Recorded
    <3> QED
      BY <2>2, <2>4, <2>5, <3>1, DocumentStutters
  <2>6. CASE calls[s].result # intervals.items
    <3> DEFINE entry == [before |-> intervals.items, after |-> calls[s].result]
    <3>1. HistoryAsPromised(s)' = [undo |-> Keep(Append(history[s].undo, entry), HistoryLimit), redo |-> <<>>]
      BY <2>3, <2>6 DEF Recorded
    <3>2. Document!LastOf(Append(DoneBy[s], entry), HistoryLimit) = Keep(Append(history[s].undo, entry), HistoryLimit)
      BY <2>3 DEF Document!LastOf, Keep, DoneBy
    <3>3. DoneBy' = [DoneBy EXCEPT ![s] = Document!LastOf(Append(@, entry), HistoryLimit)]
          /\ UndoneBy' = [UndoneBy EXCEPT ![s] = <<>>]
      BY <2>4, <3>1, <3>2, PromiseChanges
    <3>4. Document!Command(s, calls[s].result)
      BY <2>2, <2>6, <3>3 DEF Document!Command, DoneBy, UndoneBy
    <3> QED
      BY <2>1, <3>4 DEF Document!Next
  <2> QED
    BY <2>5, <2>6
<1>7. CASE RecordEdit(s)
  <2>1. At(s, "edit", "record") /\ UNCHANGED intervals /\ calls'[s] = Idle
        /\ history' = [history EXCEPT ![s] = Recorded(history[s], calls[s].before, intervals.items)]
    BY <1>7 DEF RecordEdit, Return, SoloInv, files
  <2>2. HistoryAsPromised(s) = history'[s] /\ HistoryAsPromised(s)' = history'[s]
    BY <1>1, <2>1, AsHistoryNext DEF HistoryAsPromised, At, Idle
  <2>3. history' = [history EXCEPT ![s] = history'[s]]
    BY <1>1, <2>1
  <2>4. \A t \in Sessions : t # s => HistoryAsPromised(t)' = HistoryAsPromised(t)
    BY <1>1, <2>3, OthersAsPromised
  <2> QED
    BY <2>1, <2>2, <2>4, DocumentStutters
<1>8. CASE BeginUndo(s) \/ BeginRedo(s)
  <2>1. calls'[s].pc = "save" /\ calls[s] = Idle /\ UNCHANGED <<intervals, history>>
    BY <1>8 DEF BeginUndo, BeginRedo, Begin, Enter, SoloInv, files
  <2> QED
    BY <1>2, <2>1 DEF At, Idle
<1>9. CASE FinishUndo(s)
  <2> DEFINE entry == Last(history[s].undo)
  <2>1. calls[s].kind = "undo" /\ calls'[s] = Idle /\ intervals'.items = entry.before
        /\ history' = [history EXCEPT ![s] =
              [undo |-> Front(history[s].undo), redo |-> Keep(Append(history[s].redo, entry), HistoryLimit)]]
    BY <1>9 DEF FinishUndo, Return, At, SoloInv
  <2>2. history[s].undo # <<>> /\ intervals.items = entry.after
    BY <1>1, <2>1 DEF CallTyped, Agrees
  <2>3. HistoryAsPromised(s) = history[s] /\ HistoryAsPromised(s)' = history'[s]
    BY <2>1, AsHistory, AsHistoryNext DEF At, Idle
  <2>4. history' = [history EXCEPT ![s] = history'[s]]
        /\ history'[s] = [undo |-> Front(history[s].undo), redo |-> Keep(Append(history[s].redo, entry), HistoryLimit)]
    BY <1>1, <2>1
  <2>5. \A t \in Sessions : t # s => HistoryAsPromised(t)' = HistoryAsPromised(t)
    BY <1>1, <2>4, OthersAsPromised
  <2>6. DoneBy[s] = history[s].undo /\ UndoneBy[s] = history[s].redo
    BY <2>3 DEF DoneBy, UndoneBy
  <2>7. Document!Top(DoneBy[s]) = entry /\ Document!Pop(DoneBy[s]) = Front(history[s].undo)
        /\ Document!LastOf(Append(UndoneBy[s], entry), HistoryLimit) = Keep(Append(history[s].redo, entry), HistoryLimit)
    BY <2>6 DEF Document!Top, Document!Pop, Document!LastOf, Last, Front, Keep
  <2>8. DoneBy' = [DoneBy EXCEPT ![s] = Document!Pop(@)]
        /\ UndoneBy' = [UndoneBy EXCEPT ![s] = Document!LastOf(Append(@, entry), HistoryLimit)]
    BY <2>3, <2>4, <2>5, <2>7, PromiseChanges
  <2>9. Document!Undo(s)
    BY <2>1, <2>2, <2>6, <2>7, <2>8 DEF Document!Undo, DoneBy, UndoneBy
  <2> QED
    BY <2>9 DEF Document!Next
<1>10. CASE FinishRedo(s)
  <2> DEFINE entry == Last(history[s].redo)
  <2>1. calls[s].kind = "redo" /\ calls'[s] = Idle /\ intervals'.items = entry.after
        /\ history' = [history EXCEPT ![s] =
              [undo |-> Keep(Append(history[s].undo, entry), HistoryLimit), redo |-> Front(history[s].redo)]]
    BY <1>10 DEF FinishRedo, Return, At, SoloInv
  <2>2. history[s].redo # <<>> /\ intervals.items = entry.before
    BY <1>1, <2>1 DEF CallTyped, Agrees
  <2>3. HistoryAsPromised(s) = history[s] /\ HistoryAsPromised(s)' = history'[s]
    BY <2>1, AsHistory, AsHistoryNext DEF At, Idle
  <2>4. history' = [history EXCEPT ![s] = history'[s]]
        /\ history'[s] = [undo |-> Keep(Append(history[s].undo, entry), HistoryLimit), redo |-> Front(history[s].redo)]
    BY <1>1, <2>1
  <2>5. \A t \in Sessions : t # s => HistoryAsPromised(t)' = HistoryAsPromised(t)
    BY <1>1, <2>4, OthersAsPromised
  <2>6. DoneBy[s] = history[s].undo /\ UndoneBy[s] = history[s].redo
    BY <2>3 DEF DoneBy, UndoneBy
  <2>7. Document!Top(UndoneBy[s]) = entry /\ Document!Pop(UndoneBy[s]) = Front(history[s].redo)
        /\ Document!LastOf(Append(DoneBy[s], entry), HistoryLimit) = Keep(Append(history[s].undo, entry), HistoryLimit)
    BY <2>6 DEF Document!Top, Document!Pop, Document!LastOf, Last, Front, Keep
  <2>8. UndoneBy' = [UndoneBy EXCEPT ![s] = Document!Pop(@)]
        /\ DoneBy' = [DoneBy EXCEPT ![s] = Document!LastOf(Append(@, entry), HistoryLimit)]
    BY <2>3, <2>4, <2>5, <2>7, PromiseChanges
  <2>9. Document!Redo(s)
    BY <2>1, <2>2, <2>6, <2>7, <2>8 DEF Document!Redo, DoneBy, UndoneBy
  <2> QED
    BY <2>9 DEF Document!Next
<1>11. CASE Review(s) \/ Revise(s)
  <2>1. ~At(s, "edit", "record") /\ ~At(s, "edit", "record")' /\ UNCHANGED history
    BY <1>11, LaterNotSolo DEF At, Solo
  <2>2. CASE intervals' = intervals
    BY <1>2, <2>1, <2>2
  <2>3. CASE CommitRestore(s)
    <3>1. intervals' = calls[s].capture /\ calls[s].capture \in Captures
      BY <1>1, <2>3, CallParts DEF CommitRestore, At, RestoreCalls
    <3>2. intervals'.items \in Contents
      BY <3>1 DEF Captures
    <3>3. HistoryAsPromised(s)' = HistoryAsPromised(s) /\ history' = [history EXCEPT ![s] = history'[s]]
      BY <1>1, <2>1, AsHistory, AsHistoryNext
    <3>4. \A t \in Sessions : HistoryAsPromised(t)' = HistoryAsPromised(t)
      BY <1>1, <3>3, OthersAsPromised
    <3>5. Document!Overwrite(intervals'.items)
      BY <3>4 DEF Document!Overwrite
    <3> QED
      BY <3>2, <3>5 DEF Document!Next
  <2> QED
    <3>1. Review(s) => intervals' = intervals
      BY DEF Review, BeginMove, ReadWorkflow, WriteWorkflow, files
    <3>2. Revise(s) => intervals' = intervals \/ CommitRestore(s)
      BY DEF Revise, BeginCapture, WriteRevision, ListForCapture, BeginDeleteRevision, BeginPrune, RemoveFile,
             ListForRemove, ListUnreadable, WriteIndex, BeginRestore, CheckRestore, files
    <3> QED
      BY <1>11, <2>2, <2>3, <3>1, <3>2
<1> QED
  BY <1>3, <1>4, <1>5, <1>6, <1>7, <1>8, <1>9, <1>10, <1>11 DEF Edit

LEMMA DocumentStep ==
    ASSUME EditsAlone, SoloInv, TypesInv, AgreesInv, [Next]_vars
    PROVE  Document!Next \/ UNCHANGED <<intervals.items, DoneBy, UndoneBy>>
<1>1. CASE UNCHANGED vars \/ Tick
  <2>1. UNCHANGED <<intervals, history, calls>>
    BY <1>1 DEF vars, files, Tick
  <2>2. \A s \in Sessions : HistoryAsPromised(s)' = HistoryAsPromised(s)
    BY <2>1 DEF HistoryAsPromised, At
  <2> QED
    BY <2>1, <2>2, DocumentStutters
<1>2. CASE Crash
  <2>1. UNCHANGED intervals
    BY <1>2 DEF Crash, files
  <2>2. \A s \in Sessions : calls'[s] = Idle /\ history'[s] = NoHistory
    BY <1>2 DEF Crash
  <2>3. \A s \in Sessions : HistoryAsPromised(s)' = NoHistory
    BY <2>2 DEF HistoryAsPromised, At, Idle
  <2>4. Document!Forget
    BY <2>1, <2>3 DEF Document!Forget, NoHistory
  <2> QED
    BY <2>4 DEF Document!Next
<1>3. ASSUME NEW s \in Sessions, CallFails(s)
      PROVE  UNCHANGED <<intervals.items, DoneBy, UndoneBy>>
  <2>1. UNCHANGED <<intervals, history>> /\ calls'[s] = Idle
        /\ \A t \in Sessions : t # s => calls'[t] = calls[t]
    BY <1>3, CallFailing DEF SoloInv
  <2>2. ~At(s, "edit", "record") /\ ~At(s, "edit", "record")'
    BY <1>3, <2>1 DEF CallFails, At, Idle
  <2>3. \A t \in Sessions : HistoryAsPromised(t)' = HistoryAsPromised(t)
    BY <2>1, <2>2 DEF HistoryAsPromised, At
  <2> QED
    BY <2>1, <2>3, DocumentStutters
<1> QED
  BY <1>1, <1>2, <1>3, DocumentStepOfOne DEF Next

LEMMA DocumentInit == Init => Document!Init
<1> SUFFICES ASSUME Init PROVE Document!Init
  OBVIOUS
<1>1. intervals.items \in Contents
  BY DEF Init, NoIntervals, Contents
<1>2. \A s \in Sessions : HistoryAsPromised(s) = NoHistory
  BY DEF Init, HistoryAsPromised, At, Idle
<1> QED
  BY <1>1, <1>2 DEF Document!Init, NoHistory

\* When edits, undos and redos run alone, an undo gives back exactly what its
\* command replaced and a redo what it made, each refused once another session
\* or a restore has changed the intervals (commands.undo, redo, _record).
THEOREM UndoAsPromised ==
    ASSUME EditsAlone
    PROVE  Spec => DocumentSpec
<1>1. SoloInv /\ [Next]_vars => SoloInv'
  BY SoloStep
<1>2. SoloInv /\ TypesInv /\ AgreesInv /\ [Next]_vars => AgreesInv'
  BY AgreesStep
<1>3. SoloInv /\ TypesInv /\ AgreesInv /\ [Next]_vars
      => [Document!Next]_<<intervals.items, DoneBy, UndoneBy>>
  BY DocumentStep
<1>4. [Document!Next]_<<intervals.items, DoneBy, UndoneBy>> => [Document!Next]_<<intervals.items,
         [s \in Sessions |-> HistoryAsPromised(s).undo], [s \in Sessions |-> HistoryAsPromised(s).redo]>>
  BY DEF DoneBy, UndoneBy
<1> QED
  BY <1>1, <1>2, <1>3, <1>4, TrailInit, TrailStep, TypesInit, TypesStep, SoloInit, AgreesInit, DocumentInit,
     PTL DEF Spec, DocumentSpec, Document!Spec

-----------------------------------------------------------------------------
(* The index of the revisions. *)

Kept == {r \in Revisions \ forgotten : revisions[r] # Missing}
Odd(kept, listed) == (kept \ listed) \cup (listed \ kept)
Few(set, n) == IsFiniteSet(set) /\ Cardinality(set) <= n

\* A call between the write of a revision's file and that of the index.
Unsettled(c) == c.kind = "index" \/ (c.kind \in {"capture", "remove"} /\ c.pc = "list")

\* Once the call has written the index, only what it found odd is odd.
Settles(c, kept, listed, n, used) ==
    /\ c.kind = "capture" => c.id \in used
    /\ c.kind = "capture" /\ c.pc = "file" => c.id \notin kept \cup listed
    /\ c.kind = "capture" /\ c.pc = "list" => c.id \in kept /\ Few(Odd(kept, listed) \ {c.id}, n)
    /\ c.kind = "remove" /\ c.pc = "list" =>
          Head(c.rest) \notin kept /\ Few(Odd(kept, listed) \ {Head(c.rest)}, n)
    /\ c.kind = "index" => Few(Odd(kept \ c.lost, Listed(c.list)), n) /\ Listed(c.list) \cup c.lost \subseteq used

\* A new revision is not one of those forgotten.
Remembered(c) == c.kind = "capture" => c.id \notin forgotten

IndexInv ==
    /\ Kept \cup Listed(index) \subseteq spent /\ forgotten \subseteq spent
    /\ Few(Odd(Kept, Listed(index)), faults + 1)
    /\ (\A s \in Sessions : ~Unsettled(calls[s])) => Few(Odd(Kept, Listed(index)), faults)
    /\ \A s \in Sessions : Settles(calls[s], Kept, Listed(index), faults, spent) /\ Remembered(calls[s])

\* While a capture, a delete or a prune runs, nobody else does anything.
LoneInv == \A s \in Sessions : calls[s].kind \in Lone => \A t \in Sessions : t # s => calls[t].kind = "idle"

LEMMA LoneInit == Init => LoneInv
BY DEF Init, LoneInv, Idle, Lone

LEMMA LoneStep ==
    ASSUME RevisionsAlone, TrailInv, LoneInv, [Next]_vars
    PROVE  LoneInv'
<1>1. CASE UNCHANGED vars \/ Tick
  BY <1>1 DEF vars, Tick, LoneInv
<1>2. CASE Crash
  BY <1>2 DEF Crash, Idle, LoneInv, Lone
<1>3. ASSUME NEW s \in Sessions, Edit(s) \/ Review(s) \/ Revise(s) PROVE LoneInv'
  <2>1. CASE Begins(s)
    <3>1. PICK kind \in {"edit", "undo", "redo", "move", "capture", "remove", "restore"} :
             Begin(s, kind) /\ calls'[s].kind = kind
      BY <2>1 DEF Begins
    <3>2. \A t \in Sessions : t # s => calls'[t] = calls[t]
      BY <2>1 DEF TrailInv, Begins
    <3>3. \A t \in Sessions : calls[t].kind \notin Lone
      BY <3>1 DEF Begin, RevisionsAlone, Lone, Idle
    <3>4. kind \in Lone => \A t \in Sessions : calls[t].kind = "idle"
      BY <3>1 DEF Begin, RevisionsAlone, Lone, Idle
    <3> QED
      BY <3>1, <3>2, <3>3, <3>4 DEF LoneInv
  <2>2. CASE GoesOn(s)
    <3>1. \A t \in Sessions : t # s => calls'[t] = calls[t] /\ calls[t].kind \notin Lone
      BY <2>2 DEF TrailInv, GoesOn, LoneInv
    <3> QED
      BY <2>2, <3>1 DEF GoesOn, LoneInv
  <2> QED
    BY <1>3, <2>1, <2>2, EveryCall DEF TrailInv, CallsFormed
<1>4. ASSUME NEW s \in Sessions, CallFails(s) PROVE LoneInv'
  <2>1. \A t \in Sessions : calls'[t] = calls[t] \/ calls'[t].kind = "idle"
    BY <1>4, CallFailing DEF TrailInv
  <2>2. ASSUME NEW t \in Sessions, calls'[t].kind \in Lone, NEW u \in Sessions, u # t
        PROVE  calls'[u].kind = "idle"
    <3>1. calls'[t] = calls[t]
      BY <2>1, <2>2 DEF Lone
    <3> QED
      BY <2>1, <2>2, <3>1 DEF LoneInv
  <2> QED
    BY <2>2 DEF LoneInv
<1> QED
  BY <1>1, <1>2, <1>3, <1>4 DEF Next

-----------------------------------------------------------------------------
LEMMA FewSubset ==
    ASSUME NEW A, NEW B, A \subseteq B, NEW n \in Nat, Few(B, n)
    PROVE  Few(A, n)
<1>1. IsFiniteSet(A) /\ Cardinality(A) <= Cardinality(B) /\ IsFiniteSet(B) /\ Cardinality(B) <= n
  BY FS_Subset DEF Few
<1>2. Cardinality(A) \in Nat /\ Cardinality(B) \in Nat
  BY <1>1, FS_CardinalityType
<1> QED
  BY <1>1, <1>2 DEF Few

\* One more element makes one more.
LEMMA OneMore ==
    ASSUME NEW A, NEW B, NEW r, A \subseteq B \cup {r}, NEW n \in Nat, Few(B, n)
    PROVE  Few(A, n + 1)
<1>1. IsFiniteSet(B) /\ Cardinality(B) <= n /\ Cardinality(B) \in Nat
  BY FS_CardinalityType DEF Few
<1>2. IsFiniteSet(B \cup {r}) /\ (Cardinality(B \cup {r}) = Cardinality(B) \/ Cardinality(B \cup {r}) = Cardinality(B) + 1)
  BY <1>1, FS_AddElement
<1>3. Few(B \cup {r}, n + 1) /\ n + 1 \in Nat
  BY <1>1, <1>2 DEF Few
<1> QED
  BY <1>3, FewSubset

LEMMA ListedConcat ==
    ASSUME NEW S, NEW p \in Seq(S), NEW q \in Seq(S)
    PROVE  Listed(p \o q) = Listed(p) \cup Listed(q)
<1>1. Len(p) \in Nat /\ Len(q) \in Nat /\ DOMAIN p = 1 .. Len(p) /\ DOMAIN q = 1 .. Len(q)
      /\ DOMAIN (p \o q) = 1 .. (Len(p) + Len(q))
  OBVIOUS
<1>2. \A k \in 1 .. Len(p) : k \in DOMAIN (p \o q) /\ (p \o q)[k] = p[k]
  BY <1>1
<1>3. \A k \in 1 .. Len(q) : Len(p) + k \in DOMAIN (p \o q) /\ (p \o q)[Len(p) + k] = q[k]
  BY <1>1
<1>4. \A k \in DOMAIN (p \o q) : k \in 1 .. Len(p) \/ (k - Len(p) \in 1 .. Len(q) /\ Len(p) + (k - Len(p)) = k)
  BY <1>1
<1>5. Listed(p) \cup Listed(q) \subseteq Listed(p \o q)
  <2>1. ASSUME NEW k \in DOMAIN p PROVE p[k].id \in Listed(p \o q)
    <3>1. k \in DOMAIN (p \o q) /\ (p \o q)[k].id = p[k].id
      BY <1>1, <1>2
    <3> QED
      BY <3>1, Zenon DEF Listed
  <2>2. ASSUME NEW k \in DOMAIN q PROVE q[k].id \in Listed(p \o q)
    <3>1. Len(p) + k \in DOMAIN (p \o q) /\ (p \o q)[Len(p) + k].id = q[k].id
      BY <1>1, <1>3
    <3> QED
      BY <3>1, Zenon DEF Listed
  <2> QED
    BY <2>1, <2>2, Zenon DEF Listed
<1>6. ASSUME NEW k \in DOMAIN (p \o q) PROVE (p \o q)[k].id \in Listed(p) \cup Listed(q)
  <2>1. CASE k \in 1 .. Len(p)
    BY <1>1, <1>2, <2>1 DEF Listed
  <2>2. CASE k - Len(p) \in 1 .. Len(q) /\ Len(p) + (k - Len(p)) = k
    <3>1. (p \o q)[k] = q[k - Len(p)]
      BY <1>3, <2>2
    <3> QED
      BY <1>1, <2>2, <3>1 DEF Listed
  <2> QED
    BY <1>4, <2>1, <2>2
<1>7. Listed(p \o q) \subseteq Listed(p) \cup Listed(q)
  BY <1>6 DEF Listed
<1> QED
  BY <1>5, <1>7

\* What stays listed when some rows are dropped.
LEMMA DropListed ==
    ASSUME NEW list \in Seq(Metadata), NEW T
    PROVE  Listed(Drop(list, T)) = {list[k].id : k \in {l \in DOMAIN list : list[l] \notin T}}
<1>1. \A a \in DOMAIN Drop(list, T) : \E b \in DOMAIN list : Drop(list, T)[a] = list[b] /\ list[b] \notin T
  BY DropLeaves
<1>2. \A b \in DOMAIN list : list[b] \notin T => \E a \in DOMAIN Drop(list, T) : Drop(list, T)[a] = list[b]
  BY DropLeaves
<1> QED
  BY <1>1, <1>2 DEF Listed

LEMMA WithoutListed ==
    ASSUME NEW list \in Seq(Metadata), NEW r
    PROVE  Listed(Without(list, r)) = Listed(list) \ {r}
<1> DEFINE T == {m \in Metadata : m.id = r}
<1>1. \A k \in DOMAIN list : list[k] \notin T <=> list[k].id # r
  <2>1. \A k \in DOMAIN list : list[k] \in Metadata
    OBVIOUS
  <2> QED
    BY <2>1
<1>2. Listed(Drop(list, T)) = {list[k].id : k \in {l \in DOMAIN list : list[l] \notin T}}
  BY DropListed
<1> HIDE DEF T
<1>3. Listed(Drop(list, T)) = Listed(list) \ {r}
  BY <1>1, <1>2 DEF Listed
<1> QED
  BY <1>3 DEF Without, T

LEMMA InsertListed ==
    ASSUME NEW list \in Seq(Metadata), NEW meta \in Metadata
    PROVE  Listed(Insert(list, meta)) = Listed(list) \cup {meta.id}
<1> DEFINE Later == {m \in Metadata : m.at < meta.at}
           Earlier == {m \in Metadata : m.at >= meta.at}
<1>1. \A k \in DOMAIN list : ~(list[k] \in Later /\ list[k] \in Earlier)
  <2>1. \A m \in Metadata : m.at \in Nat
    BY Parameters DEF Metadata
  <2> QED
    BY <2>1
<1>2. Listed(Drop(list, Later)) = {list[k].id : k \in {l \in DOMAIN list : list[l] \notin Later}}
  BY DropListed
<1>3. Listed(Drop(list, Earlier)) = {list[k].id : k \in {l \in DOMAIN list : list[l] \notin Earlier}}
  BY DropListed
<1>4. Insert(list, meta) = Drop(list, Later) \o <<meta>> \o Drop(list, Earlier)
  BY DEF Insert
<1>5. Drop(list, Later) \in Seq(Metadata) /\ Drop(list, Earlier) \in Seq(Metadata)
  BY DropLeaves
<1> HIDE DEF Later, Earlier
<1>6. Drop(list, Later) \o <<meta>> \in Seq(Metadata) /\ <<meta>> \in Seq(Metadata)
  BY <1>5
<1>7. Listed(<<meta>>) = {meta.id}
  BY DEF Listed
<1>8. Listed(Insert(list, meta)) = Listed(Drop(list, Later)) \cup {meta.id} \cup Listed(Drop(list, Earlier))
  <2>1. Listed(Drop(list, Later) \o <<meta>>) = Listed(Drop(list, Later)) \cup Listed(<<meta>>)
    BY <1>5, <1>6, ListedConcat
  <2> DEFINE before == Drop(list, Later) \o <<meta>>
             after == Drop(list, Earlier)
  <2>2. before \in Seq(Metadata) /\ after \in Seq(Metadata) /\ Insert(list, meta) = before \o after
    BY <1>4, <1>5, <1>6
  <2> HIDE DEF before, after
  <2>3. Listed(Insert(list, meta)) = Listed(before) \cup Listed(after)
    BY <2>2, ListedConcat
  <2> QED
    BY <1>7, <2>1, <2>3 DEF before, after
<1>9. Listed(Drop(list, Later)) \cup Listed(Drop(list, Earlier)) = Listed(list)
  BY <1>1, <1>2, <1>3 DEF Listed
<1> QED
  BY <1>8, <1>9

\* A call that has nothing to do with the files of the revisions, yet.
Steady(c) == c.kind \notin {"capture", "index"} /\ ~(c.kind = "remove" /\ c.pc = "list")

\* A step that leaves them and the index alone.
LEMMA IndexQuiet ==
    ASSUME IndexInv, UNCHANGED <<revisions, index, forgotten, faults>>, spent \subseteq spent',
           \A t \in Sessions : calls'[t] = calls[t] \/ (Steady(calls[t]) /\ Steady(calls'[t]))
    PROVE  IndexInv'
<1>1. Kept' = Kept /\ Listed(index)' = Listed(index) /\ faults' = faults
  BY DEF Kept, Listed
<1>2. \A t \in Sessions : Unsettled(calls[t]) = Unsettled(calls'[t])
  BY DEF Unsettled, Steady
<1>3. ASSUME NEW t \in Sessions PROVE Settles(calls'[t], Kept, Listed(index), faults, spent')
  <2>1. CASE calls'[t] = calls[t]
    BY <2>1 DEF IndexInv, Settles
  <2>2. CASE Steady(calls'[t])
    BY <2>2 DEF Steady, Settles
  <2> QED
    BY <2>1, <2>2
<1>4. Few(Odd(Kept, Listed(index)), faults + 1)' /\ (Kept \cup Listed(index) \subseteq spent)'
      /\ (forgotten \subseteq spent)'
  BY <1>1 DEF IndexInv
<1>5. (\A s \in Sessions : ~Unsettled(calls'[s])) => Few(Odd(Kept, Listed(index)), faults)
  BY <1>2 DEF IndexInv
<1>6. \A t \in Sessions : Remembered(calls[t])'
  BY DEF Remembered, IndexInv, Steady
<1> QED
  BY <1>1, <1>3, <1>4, <1>5, <1>6 DEF IndexInv

\* The steps that do: all but those of a capture, a removal or the index.
LEMMA QuietSteps ==
    ASSUME TrailInv, NEW s \in Sessions,
           Edit(s) \/ Review(s) \/ BeginDeleteRevision(s) \/ BeginPrune(s)
              \/ BeginRestore(s) \/ CheckRestore(s) \/ CommitRestore(s)
    PROVE  /\ UNCHANGED <<revisions, index, forgotten, faults>> /\ spent \subseteq spent'
           /\ Steady(calls[s]) /\ Steady(calls'[s])
           /\ \A t \in Sessions : t # s => calls'[t] = calls[t]
<1> USE DEF TrailInv, Steady, files, counters, Enter, Return, Idle, At, Begin
<1>1. CASE BeginCreate(s)
  BY <1>1 DEF BeginCreate
<1>2. CASE BeginUpdate(s)
  BY <1>2 DEF BeginUpdate
<1>3. CASE BeginDelete(s)
  BY <1>3 DEF BeginDelete
<1>4. CASE BeginBatch(s)
  BY <1>4 DEF BeginBatch
<1>5. CASE LoadBefore(s) \/ LoadCurrent(s)
  BY <1>5 DEF LoadBefore, LoadCurrent
<1>6. CASE SaveEdit(s) \/ RecordEdit(s)
  BY <1>6 DEF SaveEdit, RecordEdit
<1>7. CASE BeginUndo(s) \/ BeginRedo(s)
  BY <1>7 DEF BeginUndo, BeginRedo
<1>8. CASE FinishUndo(s) \/ FinishRedo(s)
  BY <1>8 DEF FinishUndo, FinishRedo
<1>9. CASE Review(s)
  BY <1>9 DEF Review, BeginMove, ReadWorkflow, WriteWorkflow
<1>10. CASE BeginDeleteRevision(s)
  BY <1>10 DEF BeginDeleteRevision
<1>11. CASE BeginPrune(s)
  BY <1>11 DEF BeginPrune
<1>12. CASE BeginRestore(s) \/ CheckRestore(s) \/ CommitRestore(s)
  BY <1>12 DEF BeginRestore, CheckRestore, CommitRestore
<1> QED
  BY <1>1, <1>2, <1>3, <1>4, <1>5, <1>6, <1>7, <1>8, <1>9, <1>10, <1>11, <1>12 DEF Edit

\* A step of a session that is capturing, removing or writing the index.
LEMMA IndexOneSession ==
    ASSUME LoneInv, NEW s \in Sessions, calls[s].kind \in Lone,
           \A t \in Sessions : t # s => calls'[t] = calls[t],
           (Kept \cup Listed(index) \subseteq spent /\ forgotten \subseteq spent)',
           Few(Odd(Kept, Listed(index)), faults + 1)',
           ~Unsettled(calls'[s]) => Few(Odd(Kept, Listed(index)), faults)',
           Settles(calls'[s], Kept', Listed(index'), faults', spent'), Remembered(calls[s])'
    PROVE  IndexInv'
<1>1. \A t \in Sessions : t # s => calls'[t].kind = "idle"
  BY DEF LoneInv
<1>2. \A t \in Sessions : t # s => Settles(calls'[t], Kept', Listed(index'), faults', spent') /\ Remembered(calls[t])'
  BY <1>1 DEF Settles, Remembered
<1> QED
  BY <1>2 DEF IndexInv, Listed

\* Nobody else is between a file and the index.
LEMMA NobodyUnsettled ==
    ASSUME IndexInv, LoneInv, NEW s \in Sessions, calls[s].kind \in Lone, ~Unsettled(calls[s])
    PROVE  Few(Odd(Kept, Listed(index)), faults)
<1>1. \A t \in Sessions : ~Unsettled(calls[t])
  BY DEF LoneInv, Unsettled
<1> QED
  BY <1>1 DEF IndexInv

\* A crash, or a call that ends by an exception: one more may be odd for good.
LEMMA IndexFault ==
    ASSUME IndexInv, CountersTyped, UNCHANGED <<revisions, index, spent, forgotten>>, faults' = faults + 1,
           \A t \in Sessions : calls'[t] = Idle \/ calls'[t] = calls[t]
    PROVE  IndexInv'
<1>1. Kept' = Kept /\ Listed(index)' = Listed(index) /\ faults \in Nat /\ faults' \in Nat
  BY Parameters DEF Kept, Listed, CountersTyped
<1>2. \A A : Few(A, faults) => Few(A, faults')
  BY <1>1, FS_CardinalityType DEF Few
<1>3. Few(Odd(Kept, Listed(index)), faults')
  BY DEF IndexInv
<1>4. Few(Odd(Kept, Listed(index)), faults' + 1)
  BY <1>1, <1>3, OneMore
<1>5. \A t \in Sessions : Settles(calls'[t], Kept, Listed(index), faults', spent)
  BY <1>2 DEF IndexInv, Settles, Idle
<1>6. \A t \in Sessions : Remembered(calls[t])'
  BY DEF IndexInv, Remembered, Idle
<1> QED
  BY <1>1, <1>3, <1>4, <1>5, <1>6 DEF IndexInv, Listed

LEMMA IndexStep ==
    ASSUME RevisionsAlone, TrailInv, LoneInv, TypesInv, IndexInv, [Next]_vars
    PROVE  IndexInv'
<1>1. /\ index \in Seq(Metadata) /\ revisions \in [Revisions -> Captures \cup {Missing}]
      /\ faults \in Nat /\ faults + 1 \in Nat
      /\ \A s \in Sessions : CallTyped(calls[s], history[s])
      /\ Listed(index) \subseteq Revisions
  BY Parameters, ListedRevisions DEF TypesInv, FilesTyped, CountersTyped
<1>2. CASE UNCHANGED vars \/ Tick
  <2>1. UNCHANGED <<revisions, index, forgotten, faults, spent, calls>>
    BY <1>2 DEF vars, files, counters, Tick
  <2> QED
    BY <2>1, IndexQuiet
<1>3. CASE Crash
  <2>1. /\ UNCHANGED <<revisions, index, spent, forgotten>> /\ faults' = faults + 1
        /\ \A s \in Sessions : calls'[s] = Idle
    BY <1>3 DEF Crash, files
  <2> QED
    BY <2>1, IndexFault DEF TypesInv, CountersTyped
<1>4. ASSUME NEW s \in Sessions,
             Edit(s) \/ Review(s) \/ BeginDeleteRevision(s) \/ BeginPrune(s)
                \/ BeginRestore(s) \/ CheckRestore(s) \/ CommitRestore(s)
      PROVE  IndexInv'
  <2>1. /\ UNCHANGED <<revisions, index, forgotten, faults>> /\ spent \subseteq spent'
        /\ Steady(calls[s]) /\ Steady(calls'[s])
        /\ \A t \in Sessions : t # s => calls'[t] = calls[t]
    BY <1>4, QuietSteps
  <2> QED
    BY <2>1, IndexQuiet
<1>5. ASSUME NEW s \in Sessions, BeginCapture(s) PROVE IndexInv'
  <2>1. PICK r \in Revisions \ spent :
           Enter(s, [kind |-> "capture", pc |-> "file", id |-> r, at |-> now, capture |-> intervals])
           /\ spent' = spent \cup {r}
    BY <1>5 DEF BeginCapture
  <2>2. /\ calls[s] = Idle /\ UNCHANGED <<revisions, index, forgotten, faults>>
        /\ \A t \in Sessions : t # s => calls'[t] = calls[t]
        /\ calls'[s] = [kind |-> "capture", pc |-> "file", id |-> r, at |-> now, capture |-> intervals]
    BY <1>5, <2>1 DEF BeginCapture, Begin, Enter, TrailInv, files
  <2>3. r \notin Kept \cup Listed(index) /\ r \notin forgotten
    BY <2>1 DEF IndexInv
  <2>4. \A t \in Sessions : Settles(calls'[t], Kept, Listed(index), faults, spent')
    <3>1. Settles(calls'[s], Kept, Listed(index), faults, spent')
      BY <2>1, <2>2, <2>3 DEF Settles
    <3>2. \A t \in Sessions : t # s => Settles(calls'[t], Kept, Listed(index), faults, spent')
      BY <2>1, <2>2 DEF Settles, IndexInv
    <3> QED
      BY <3>1, <3>2
  <2>5. \A t \in Sessions : Unsettled(calls'[t]) = Unsettled(calls[t])
    BY <2>2 DEF Unsettled, Idle
  <2>6. Kept' = Kept /\ Listed(index)' = Listed(index)
    BY <2>2 DEF Kept, Listed
  <2>8. \A t \in Sessions : Remembered(calls[t])'
    BY <2>2, <2>3 DEF Remembered, IndexInv
  <2>7. Few(Odd(Kept, Listed(index)), faults + 1)' /\ (Kept \cup Listed(index) \subseteq spent)'
        /\ (forgotten \subseteq spent)'
        /\ ((\A t \in Sessions : ~Unsettled(calls'[t])) => Few(Odd(Kept, Listed(index)), faults))
    BY <2>1, <2>2, <2>5, <2>6 DEF IndexInv
  <2> QED
    BY <2>2, <2>4, <2>6, <2>7, <2>8 DEF IndexInv, Listed
<1>6. ASSUME NEW s \in Sessions, WriteRevision(s) PROVE IndexInv'
  <2> DEFINE c == calls[s]
  <2>1. c \in CaptureCalls /\ c.kind = "capture" /\ c.pc = "file"
    BY <1>1, <1>6, CallParts DEF WriteRevision, At
  <2>2. /\ revisions' = [revisions EXCEPT ![c.id] = c.capture] /\ UNCHANGED <<index, spent, forgotten, faults>>
        /\ \A t \in Sessions : t # s => calls'[t] = calls[t]
        /\ calls'[s] = [c EXCEPT !.pc = "list"]
    BY <1>6 DEF WriteRevision, counters, TrailInv
  <2>3. /\ c.id \in Revisions /\ c.capture # Missing /\ c.id \in spent /\ c.id \notin Kept \cup Listed(index)
        /\ c.id \notin forgotten /\ forgotten \subseteq spent
    BY <2>1, Parameters DEF CaptureCalls, IndexInv, Settles, Remembered
  <2>4. Kept' = Kept \cup {c.id} /\ Listed(index') = Listed(index)
    BY <1>1, <2>2, <2>3 DEF Kept
  <2>5. Odd(Kept \cup {c.id}, Listed(index)) \ {c.id} = Odd(Kept, Listed(index))
    BY <2>3 DEF Odd
  <2>6. Few(Odd(Kept, Listed(index)), faults)
    BY <2>1, NobodyUnsettled DEF Unsettled, Lone
  <2>7. Few(Odd(Kept \cup {c.id}, Listed(index)), faults + 1)
    <3>1. Odd(Kept \cup {c.id}, Listed(index)) \subseteq Odd(Kept, Listed(index)) \cup {c.id}
      BY <2>5
    <3> QED
      BY <1>1, <2>6, <3>1, OneMore
  <2>8. calls'[s].kind = "capture" /\ calls'[s].pc = "list" /\ calls'[s].id = c.id
    BY <2>1, <2>2 DEF CaptureCalls
  <2>9. Settles(calls'[s], Kept', Listed(index'), faults', spent')
    BY <2>2, <2>3, <2>4, <2>5, <2>6, <2>8 DEF Settles
  <2>10. Few(Odd(Kept, Listed(index)), faults + 1)' /\ (Kept \cup Listed(index) \subseteq spent)'
        /\ (forgotten \subseteq spent)' /\ Remembered(calls[s])'
    BY <2>1, <2>2, <2>3, <2>4, <2>7, <2>8 DEF IndexInv, Listed, Remembered
  <2> QED
    BY <2>1, <2>2, <2>8, <2>9, <2>10, IndexOneSession DEF Unsettled, Lone
<1>7. ASSUME NEW s \in Sessions, ListForCapture(s) PROVE IndexInv'
  <2> DEFINE c == calls[s]
             meta == [id |-> c.id, at |-> c.at, token |-> Token(c.capture)]
             list == Insert(Without(index, c.id), meta)
  <2>1. c \in CaptureCalls /\ c.kind = "capture" /\ c.pc = "list"
    BY <1>1, <1>7, CallParts DEF ListForCapture, At
  <2>2. /\ UNCHANGED <<revisions, index, spent, forgotten, faults>>
        /\ \A t \in Sessions : t # s => calls'[t] = calls[t]
        /\ calls'[s] = [kind |-> "index", pc |-> "write", lost |-> {}, rest |-> <<>>, list |-> list]
    BY <1>7 DEF ListForCapture, Enter, files, counters, TrailInv
  <2>3. meta \in Metadata /\ meta.id = c.id
    BY <2>1 DEF CaptureCalls, Metadata, Token
  <2>4. c.id \in Kept /\ c.id \in spent /\ Few(Odd(Kept, Listed(index)) \ {c.id}, faults)
    BY <2>1 DEF IndexInv, Settles
  <2>5. Listed(list) = (Listed(index) \ {c.id}) \cup {c.id}
    <3>1. Without(index, c.id) \in Seq(Metadata)
      BY <1>1, DropLeaves DEF Without
    <3>2. Listed(list) = Listed(Without(index, c.id)) \cup {c.id}
      BY <2>3, <3>1, InsertListed
    <3> QED
      BY <1>1, <3>2, WithoutListed
  <2> HIDE DEF meta, list
  <2>6. Odd(Kept, Listed(list)) = Odd(Kept, Listed(index)) \ {c.id}
    BY <2>4, <2>5 DEF Odd
  <2>7. Kept' = Kept /\ Listed(index') = Listed(index)
    BY <2>2 DEF Kept
  <2>8. Listed(list) \subseteq spent
    BY <2>4, <2>5 DEF IndexInv
  <2>9. Settles(calls'[s], Kept', Listed(index'), faults', spent')
    <3>1. calls'[s].kind = "index" /\ calls'[s].list = list /\ calls'[s].lost = {}
      BY <2>2
    <3>2. Few(Odd(Kept' \ calls'[s].lost, Listed(calls'[s].list)), faults')
          /\ Listed(calls'[s].list) \cup calls'[s].lost \subseteq spent'
      BY <2>2, <2>4, <2>6, <2>7, <2>8, <3>1
    <3> QED
      BY <3>1, <3>2 DEF Settles
  <2>10. Few(Odd(Kept, Listed(index)), faults + 1)' /\ (Kept \cup Listed(index) \subseteq spent)'
        /\ (forgotten \subseteq spent)' /\ Remembered(calls[s])'
    BY <2>2, <2>7 DEF IndexInv, Listed, Remembered
  <2> QED
    BY <2>1, <2>2, <2>9, <2>10, IndexOneSession DEF Unsettled, Lone
<1>8. ASSUME NEW s \in Sessions, RemoveFile(s) PROVE IndexInv'
  <2> DEFINE c == calls[s]
             r == Head(c.rest)
  <2>1. c \in RemoveCalls /\ c.kind = "remove" /\ c.pc = "file" /\ c.rest \in Seq(Revisions) /\ c.rest # <<>>
    BY <1>1, <1>8, CallParts DEF RemoveFile, At, RemoveCalls
  <2>2. r \in Revisions
    BY <2>1
  <2>3. UNCHANGED <<index, spent, forgotten, faults>> /\ \A t \in Sessions : t # s => calls'[t] = calls[t]
    BY <1>8 DEF RemoveFile, counters, Continue, Enter, Return, TrailInv
  <2>4. CASE revisions[r] = Missing
    <3>1. UNCHANGED revisions /\ Steady(calls[s]) /\ Steady(calls'[s])
      BY <1>8, <2>1, <2>4 DEF RemoveFile, Continue, Enter, Return, TrailInv, Steady, Idle
    <3> QED
      BY <2>3, <3>1, IndexQuiet
  <2>5. CASE revisions[r] # Missing
    <3>1. revisions' = [revisions EXCEPT ![r] = Missing] /\ calls'[s] = [c EXCEPT !.pc = "list"]
      BY <1>8, <2>5 DEF RemoveFile, TrailInv
    <3>2. calls'[s].kind = "remove" /\ calls'[s].pc = "list" /\ Head(calls'[s].rest) = r
      BY <2>1, <3>1 DEF RemoveCalls
    <3> HIDE DEF r
    <3>3. Kept' = Kept \ {r} /\ Listed(index') = Listed(index)
      BY <1>1, <2>2, <2>3, <3>1 DEF Kept
    <3>4. Few(Odd(Kept, Listed(index)), faults)
      BY <2>1, NobodyUnsettled DEF Unsettled, Lone
    <3>5. Odd(Kept \ {r}, Listed(index)) \subseteq Odd(Kept, Listed(index)) \cup {r}
          /\ Odd(Kept \ {r}, Listed(index)) \ {r} \subseteq Odd(Kept, Listed(index))
      BY DEF Odd
    <3>6. Few(Odd(Kept \ {r}, Listed(index)), faults + 1)
      BY <1>1, <3>4, <3>5, OneMore
    <3>7. Few(Odd(Kept \ {r}, Listed(index)) \ {r}, faults)
      BY <1>1, <3>4, <3>5, FewSubset
    <3>8. Settles(calls'[s], Kept', Listed(index'), faults', spent')
      BY <2>3, <3>2, <3>3, <3>7 DEF Settles
    <3>9. Few(Odd(Kept, Listed(index)), faults + 1)' /\ (Kept \cup Listed(index) \subseteq spent)'
          /\ (forgotten \subseteq spent)' /\ Remembered(calls[s])'
      BY <2>3, <3>2, <3>3, <3>6 DEF IndexInv, Listed, Remembered
    <3> QED
      BY <2>1, <2>3, <3>2, <3>8, <3>9, IndexOneSession DEF Unsettled, Lone
  <2> QED
    BY <2>4, <2>5
<1>9. ASSUME NEW s \in Sessions, ListForRemove(s) PROVE IndexInv'
  <2> DEFINE c == calls[s]
             r == Head(c.rest)
             list == Without(index, r)
  <2>1. c.kind = "remove" /\ c.pc = "list"
    BY <1>9 DEF ListForRemove, At
  <2>2. /\ UNCHANGED <<revisions, index, spent, forgotten, faults>>
        /\ \A t \in Sessions : t # s => calls'[t] = calls[t]
        /\ calls'[s] = [kind |-> "index", pc |-> "write", lost |-> {}, rest |-> Tail(c.rest), list |-> list]
    BY <1>9 DEF ListForRemove, Enter, files, counters, TrailInv
  <2>3. r \notin Kept /\ Few(Odd(Kept, Listed(index)) \ {r}, faults)
    BY <2>1 DEF IndexInv, Settles
  <2> HIDE DEF r
  <2>4. Listed(list) = Listed(index) \ {r}
    BY <1>1, WithoutListed
  <2> HIDE DEF list
  <2>5. Odd(Kept, Listed(list)) = Odd(Kept, Listed(index)) \ {r} /\ Listed(list) \subseteq spent
    BY <2>3, <2>4 DEF Odd, IndexInv
  <2>6. Kept' = Kept /\ Listed(index') = Listed(index)
    BY <2>2 DEF Kept
  <2>7. Settles(calls'[s], Kept', Listed(index'), faults', spent')
    <3>1. calls'[s].kind = "index" /\ calls'[s].list = list /\ calls'[s].lost = {}
      BY <2>2
    <3>2. Few(Odd(Kept' \ calls'[s].lost, Listed(calls'[s].list)), faults')
          /\ Listed(calls'[s].list) \cup calls'[s].lost \subseteq spent'
      BY <2>2, <2>3, <2>5, <2>6, <3>1
    <3> QED
      BY <3>1, <3>2 DEF Settles
  <2>8. Few(Odd(Kept, Listed(index)), faults + 1)' /\ (Kept \cup Listed(index) \subseteq spent)'
        /\ (forgotten \subseteq spent)' /\ Remembered(calls[s])'
    BY <2>2, <2>6 DEF IndexInv, Listed, Remembered
  <2> QED
    BY <2>1, <2>2, <2>7, <2>8, IndexOneSession DEF Unsettled, Lone
<1>10. ASSUME NEW s \in Sessions, WriteIndex(s) PROVE IndexInv'
  <2> DEFINE c == calls[s]
  <2>1. c.kind = "index"
    BY <1>10 DEF WriteIndex, At
  <2>2. /\ index' = c.list /\ forgotten' = forgotten \cup c.lost /\ UNCHANGED <<revisions, spent, faults>>
        /\ \A t \in Sessions : t # s => calls'[t] = calls[t]
        /\ Steady(calls'[s])
    BY <1>10 DEF WriteIndex, Continue, Enter, Return, TrailInv, Steady, Idle
  <2>3. Kept' = Kept \ c.lost /\ Listed(index') = Listed(c.list)
    BY <2>2 DEF Kept
  <2>4. Few(Odd(Kept \ c.lost, Listed(c.list)), faults) /\ Listed(c.list) \cup c.lost \subseteq spent
    BY <2>1 DEF IndexInv, Settles
  <2>5. Few(Odd(Kept \ c.lost, Listed(c.list)), faults + 1)
    BY <1>1, <2>4, OneMore
  <2>6. Settles(calls'[s], Kept', Listed(index'), faults', spent') /\ Remembered(calls[s])'
    BY <2>2 DEF Settles, Steady, Remembered
  <2>7. Few(Odd(Kept, Listed(index)), faults + 1)' /\ (Kept \cup Listed(index) \subseteq spent)'
        /\ Few(Odd(Kept, Listed(index)), faults)' /\ (forgotten \subseteq spent)'
    BY <2>2, <2>3, <2>4, <2>5 DEF IndexInv, Listed
  <2> QED
    BY <2>1, <2>2, <2>6, <2>7, IndexOneSession DEF Lone
<1>11. ASSUME NEW s \in Sessions, ListUnreadable(s) PROVE IndexInv'
  <2> DEFINE c == calls[s]
             capturing == c.kind = "capture"
             own == IF capturing THEN c.id ELSE Head(c.rest)
             row == [id |-> own, at |-> c.at, token |-> Token(c.capture)]
             rest == IF capturing THEN <<>> ELSE Tail(c.rest)
             list == IF capturing THEN <<row>> ELSE <<>>
             lost == Listed(index) \ {own}
  <2>1. /\ c.kind \in {"capture", "remove"} /\ c.pc = "list" /\ faults' = faults + 1
        /\ UNCHANGED <<revisions, index, spent, forgotten>>
        /\ \A t \in Sessions : t # s => calls'[t] = calls[t]
        /\ calls'[s] = [kind |-> "index", pc |-> "write", lost |-> lost, rest |-> rest, list |-> list]
    BY <1>11 DEF ListUnreadable, Enter, files, TrailInv
  <2>2. Listed(list) = IF capturing THEN {own} ELSE {}
    <3>1. row.id = own
      OBVIOUS
    <3> HIDE DEF row
    <3> QED
      BY <3>1 DEF Listed
  <2> HIDE DEF list, row, rest
  <2>3. Few(Odd(Kept, Listed(index)) \ {own}, faults) /\ IF capturing THEN own \in Kept /\ own \in spent ELSE own \notin Kept
    BY <2>1 DEF IndexInv, Settles
  <2>4. Odd(Kept \ lost, Listed(list)) \subseteq Odd(Kept, Listed(index)) \ {own}
    BY <2>2, <2>3 DEF Odd
  <2>5. Few(Odd(Kept \ lost, Listed(list)), faults)
    BY <1>1, <2>3, <2>4, FewSubset
  <2>6. Few(Odd(Kept \ lost, Listed(list)), faults')
    BY <1>1, <2>1, <2>5, OneMore
  <2>7. Listed(list) \cup lost \subseteq spent
    BY <2>2, <2>3 DEF IndexInv
  <2>8. Kept' = Kept /\ Listed(index') = Listed(index)
    BY <2>1 DEF Kept
  <2>9. calls'[s].kind = "index" /\ calls'[s].list = list /\ calls'[s].lost = lost
    BY <2>1
  <2> HIDE DEF lost, own
  <2>10. Settles(calls'[s], Kept', Listed(index'), faults', spent') /\ Remembered(calls[s])'
    BY <2>1, <2>6, <2>7, <2>8, <2>9 DEF Settles, Remembered
  <2>11. Few(Odd(Kept, Listed(index)), faults') /\ faults' + 1 \in Nat
    BY <1>1, <2>1 DEF IndexInv
  <2>12. Few(Odd(Kept, Listed(index)), faults' + 1)
    BY <1>1, <2>1, <2>11, OneMore
  <2>13. (Kept \cup Listed(index) \subseteq spent /\ forgotten \subseteq spent)'
        /\ Few(Odd(Kept, Listed(index)), faults + 1)'
    BY <2>1, <2>8, <2>12 DEF IndexInv, Listed
  <2> QED
    BY <2>1, <2>9, <2>10, <2>13, IndexOneSession DEF Unsettled, Lone
<1>12. ASSUME NEW s \in Sessions, CallFails(s) PROVE IndexInv'
  <2>1. /\ UNCHANGED <<revisions, index, spent, forgotten>> /\ faults' = faults + 1
        /\ \A t \in Sessions : calls'[t] = Idle \/ calls'[t] = calls[t]
    BY <1>12, CallFailing DEF TrailInv
  <2> QED
    BY <2>1, IndexFault DEF TypesInv
<1> QED
  BY <1>2, <1>3, <1>4, <1>5, <1>6, <1>7, <1>8, <1>9, <1>10, <1>11, <1>12 DEF Next, Revise

LEMMA IndexInit == Init => IndexInv
<1> SUFFICES ASSUME Init PROVE IndexInv
  OBVIOUS
<1>1. Kept = {} /\ Listed(index) = {}
  BY DEF Init, Kept, Listed
<1>2. Odd(Kept, Listed(index)) = {}
  BY <1>1 DEF Odd
<1>3. faults = 0 /\ Few({}, 0) /\ Few({}, 1)
  BY FS_EmptySet DEF Init, Few
<1>4. /\ \A s \in Sessions : Settles(calls[s], Kept, Listed(index), faults, spent) /\ Remembered(calls[s])
      /\ forgotten \subseteq spent
  BY DEF Init, Settles, Remembered, Idle
<1> QED
  BY <1>1, <1>2, <1>3, <1>4 DEF IndexInv

\* When captures, deletes and prunes run alone and no call is running, the
\* index and the files of the revisions differ by one revision for each crash
\* and failing write at most, but for the rows of an index that could not be
\* read, for every number of revisions (revisions.create, delete, prune).
THEOREM IndexStaysNearlyTruthful ==
    ASSUME RevisionsAlone
    PROVE  Spec => []IndexNearlyTruthful
<1>1. IndexInv => IndexNearlyTruthful
  <2> SUFFICES ASSUME IndexInv, \A s \in Sessions : calls[s] = Idle
               PROVE  Cardinality(Odd(Kept, Listed(index))) <= faults
    BY DEF IndexNearlyTruthful, Odd, Kept
  <2>1. \A s \in Sessions : ~Unsettled(calls[s])
    BY DEF Unsettled, Idle
  <2> QED
    BY <2>1 DEF IndexInv, Few
<1>2. TrailInv /\ LoneInv /\ [Next]_vars => LoneInv'
  BY LoneStep
<1>3. TrailInv /\ LoneInv /\ TypesInv /\ IndexInv /\ [Next]_vars => IndexInv'
  BY IndexStep
<1> QED
  BY <1>1, <1>2, <1>3, TrailInit, TrailStep, TypesInit, TypesStep, LoneInit, IndexInit, PTL DEF Spec
=============================================================================
