------------------------ MODULE InterpretationEditing ------------------------
(***************************************************************************)
(* One interpretation of a well: its intervals, the undo and redo history  *)
(* each session keeps of its own commands, the review workflow that locks  *)
(* it, and the named revisions of its files.  Sessions are threads of one  *)
(* server; every file is written whole (os.replace), nothing locks two     *)
(* reads and writes together, so a call is a chain of steps that keep what *)
(* they read.  Overlapping names the calls that other sessions may start   *)
(* before they are over; a crash may fall between any two steps.           *)
(***************************************************************************)
EXTENDS Naturals, Sequences, FiniteSets, SequenceDrop

CONSTANTS
    Sessions,     \* browser sessions
    Ids,          \* interval UUIDs
    Marks,        \* what an interval may say
    Gone,         \* no interval with this UUID
    Revisions,    \* revision UUIDs
    NoRevision,   \* no revision is published
    Missing,      \* no such file
    RoleOf,       \* the role each session acts in
    HistoryLimit, \* the history_limit of the command service
    MaxCalls,     \* bound: calls begun
    EventLimit,   \* how many workflow events are kept, 200 in the code
    MaxTime,      \* bound: the seconds of the clock
    MaxFaults,    \* bound: crashes, failing calls and unreadable indexes
    Overlapping   \* the kinds of calls that run while others of them do

VARIABLES
    intervals,  \* intervals.json: the intervals and the time it was saved
    history,    \* the undo and redo stacks in each session's state
    workflow,   \* publication.json: status, published revision and events
    revisions,  \* the revision files: the captured intervals.json
    index,      \* the revision index, newest first
    calls,      \* the call each session is in, with what it has read
    spent,      \* UUIDs handed out so far
    now,        \* the clock, in whole seconds
    begun,      \* calls begun so far
    forgotten,  \* revisions whose rows went when the index could not be read
    faults      \* crashes, failing calls and unreadable indexes so far

files == <<intervals, workflow, revisions, index>>
counters == <<spent, now, begun, forgotten, faults>>
vars == <<files, history, calls, counters>>

-----------------------------------------------------------------------------
Statuses == {"draft", "in_review", "approved", "published"}
LockedStatuses == {"approved", "published"}

\* What each workflow action needs and leads to.
Move(action, from, to) == [action |-> action, from |-> from, to |-> to]
Moves ==
    { Move("submit_for_review", "draft", "in_review"),
      Move("return_to_draft", "in_review", "draft"),
      Move("approve", "in_review", "approved"),
      Move("reopen", "approved", "draft"),
      Move("publish", "approved", "published"),
      Move("unpublish", "published", "approved") }

\* What each role may do.
Permissions ==
    [author |-> {"submit_for_review"},
     reviewer |-> {"return_to_draft", "approve", "reopen"},
     publisher |-> {"publish", "unpublish"},
     administrator |-> {m.action : m \in Moves}]

\* Between the steps of an edit, an undo or a redo no other call runs.
EditsAlone == {"edit", "undo", "redo"} \cap Overlapping = {}

\* ... and between those of a capture, a delete or a prune.
RevisionsAlone == {"capture", "remove", "index"} \cap Overlapping = {}

Contents == [Ids -> Marks \cup {Gone}]
Captures == [items : Contents, stamp : (0 .. MaxTime) \cup {Missing}]

ASSUME Parameters ==
    /\ NoRevision \notin Revisions /\ Missing \notin Captures
    /\ EventLimit \in Nat \ {0} /\ HistoryLimit \in Nat \ {0}
    /\ MaxTime \in Nat /\ MaxCalls \in Nat /\ MaxFaults \in Nat

NoIntervals == [items |-> [i \in Ids |-> Gone], stamp |-> Missing]

Events == [from : Statuses, to : Statuses, revision : Revisions \cup {NoRevision}]
Metadata == [id : Revisions, at : 0 .. MaxTime, token : Captures]

\* The token of the revisions is a hash of the captured files.
Token(capture) == capture

Entries == [before : Contents, after : Contents]
NoHistory == [undo |-> <<>>, redo |-> <<>>]

\* An editing command: the intervals it leaves when it finds items, and
\* whether it fails.  A batch replaces everything by what it made of its list.
Commands ==
    [kind : {"create", "update"}, id : Ids, mark : Marks]
        \cup [kind : {"delete"}, id : Ids]
        \cup [kind : {"replace_all"}, target : Contents]

Fails(command, items) == command.kind = "update" /\ items[command.id] = Gone
SavesNothing(command, items) == command.kind = "delete" /\ items[command.id] = Gone
Apply(command, items) ==
    IF command.kind = "replace_all" THEN command.target
    ELSE [items EXCEPT ![command.id] = IF command.kind = "delete" THEN Gone ELSE command.mark]

Idle == [kind |-> "idle", pc |-> "idle"]

\* Mutant: one too many.
KeepOneMore(seq, n) == IF Len(seq) <= n + 1 THEN seq ELSE SubSeq(seq, Len(seq) - n, Len(seq))

\* seq[-n:] of the code.
Keep(seq, n) == IF Len(seq) <= n THEN seq ELSE SubSeq(seq, Len(seq) - n + 1, Len(seq))
Last(seq) == seq[Len(seq)]
Front(seq) == SubSeq(seq, 1, Len(seq) - 1)

\* Newest first; of two revisions of one second the older one comes first.
Insert(list, meta) ==
    Drop(list, {m \in Metadata : m.at < meta.at}) \o <<meta>> \o Drop(list, {m \in Metadata : m.at >= meta.at})
\* Mutant: rows are told apart by their time.
WithoutTime(list, r) ==
    Drop(list, {m \in Metadata : \E k \in DOMAIN list : list[k].id = r /\ list[k].at = m.at})

Without(list, r) == Drop(list, {m \in Metadata : m.id = r})
Listed(list) == {list[k].id : k \in DOMAIN list}

-----------------------------------------------------------------------------
Init ==
    /\ intervals = NoIntervals
    /\ history = [s \in Sessions |-> NoHistory]
    /\ workflow = [status |-> "draft", revision |-> NoRevision, events |-> <<>>]
    /\ revisions = [r \in Revisions |-> Missing]
    /\ index = <<>>
    /\ calls = [s \in Sessions |-> Idle]
    /\ spent = {}
    /\ now = 0
    /\ begun = 0
    /\ forgotten = {}
    /\ faults = 0

Begin(s, kind) ==
    /\ begun < MaxCalls /\ begun' = begun + 1
    /\ calls[s] = Idle
    /\ \A t \in Sessions : calls[t] = Idle \/ {kind, calls[t].kind} \subseteq Overlapping
Editable == workflow.status \notin LockedStatuses
At(s, kind, pc) == calls[s].kind = kind /\ calls[s].pc = pc

Enter(s, call) == calls' = [calls EXCEPT ![s] = call]
Return(s) == calls' = [calls EXCEPT ![s] = Idle]

-----------------------------------------------------------------------------
(* Editing commands: load, load and save, load again, record. *)

BeginCreate(s) ==
    /\ Begin(s, "edit") /\ Editable
    /\ \E i \in Ids \ spent, m \in Marks :
          /\ Enter(s, [kind |-> "edit", pc |-> "before", command |-> [kind |-> "create", id |-> i, mark |-> m]])
          /\ spent' = spent \cup {i}
    /\ UNCHANGED <<files, history, now, forgotten, faults>>

BeginUpdate(s) ==
    /\ Begin(s, "edit") /\ Editable
    /\ \E i \in Ids, m \in Marks :
          /\ intervals.items[i] \notin {Gone, m}
          /\ Enter(s, [kind |-> "edit", pc |-> "before", command |-> [kind |-> "update", id |-> i, mark |-> m]])
    /\ UNCHANGED <<files, history, spent, now, forgotten, faults>>

BeginDelete(s) ==
    /\ Begin(s, "edit") /\ Editable
    /\ \E i \in Ids :
          /\ intervals.items[i] # Gone
          /\ Enter(s, [kind |-> "edit", pc |-> "before", command |-> [kind |-> "delete", id |-> i]])
    /\ UNCHANGED <<files, history, spent, now, forgotten, faults>>

\* A batch lists the intervals, changes or removes the selected ones and
\* replaces the whole set by the result.
BeginBatch(s) ==
    /\ Begin(s, "edit") /\ Editable
    /\ \E selected \in SUBSET {i \in Ids : intervals.items[i] # Gone} \ {{}}, m \in Marks \cup {Gone} :
          LET target == [i \in Ids |-> IF i \in selected THEN m ELSE intervals.items[i]]
          IN /\ target # intervals.items
             /\ Enter(s, [kind |-> "edit", pc |-> "before", command |-> [kind |-> "replace_all", target |-> target]])
    /\ UNCHANGED <<files, history, spent, now, forgotten, faults>>

LoadBefore(s) ==
    /\ At(s, "edit", "before")
    /\ Enter(s, [kind |-> "edit", pc |-> "load", command |-> calls[s].command, before |-> intervals.items])
    /\ UNCHANGED <<files, history, counters>>

LoadCurrent(s) ==
    /\ At(s, "edit", "load")
    /\ IF Fails(calls[s].command, intervals.items) THEN Return(s)
       ELSE Enter(s, [kind |-> "edit", before |-> calls[s].before,
                      pc |-> IF SavesNothing(calls[s].command, intervals.items) THEN "record" ELSE "save",
                      result |-> Apply(calls[s].command, intervals.items)])
    /\ UNCHANGED <<files, history, counters>>

SaveEdit(s) ==
    /\ At(s, "edit", "save")
    /\ intervals' = [items |-> calls[s].result, stamp |-> now]
    /\ calls' = [calls EXCEPT ![s].pc = "record"]
    /\ UNCHANGED <<workflow, revisions, index, history, counters>>

\* Mutant: a new command leaves the redo stack as it was.
RecordedKeepsRedo(h, before, after) ==
    IF before = after THEN h
    ELSE [h EXCEPT !.undo = Keep(Append(@, [before |-> before, after |-> after]), HistoryLimit)]

Recorded(h, before, after) ==
    IF before = after THEN h
    ELSE [undo |-> Keep(Append(h.undo, [before |-> before, after |-> after]), HistoryLimit), redo |-> <<>>]

RecordEdit(s) ==
    /\ At(s, "edit", "record")
    /\ history' = [history EXCEPT ![s] = Recorded(@, calls[s].before, intervals.items)]
    /\ Return(s)
    /\ UNCHANGED <<files, counters>>

\* Undo and redo go on only when the intervals are as the entry left them.
BeginUndo(s) ==
    /\ Begin(s, "undo") /\ Editable
    /\ history[s].undo # <<>>
    /\ intervals.items = Last(history[s].undo).after
    /\ Enter(s, [kind |-> "undo", pc |-> "save"])
    /\ UNCHANGED <<files, history, spent, now, forgotten, faults>>

BeginRedo(s) ==
    /\ Begin(s, "redo") /\ Editable
    /\ history[s].redo # <<>>
    /\ intervals.items = Last(history[s].redo).before
    /\ Enter(s, [kind |-> "redo", pc |-> "save"])
    /\ UNCHANGED <<files, history, spent, now, forgotten, faults>>

FinishUndo(s) ==
    /\ At(s, "undo", "save")
    /\ LET entry == Last(history[s].undo)
       IN /\ intervals' = [items |-> entry.before, stamp |-> now]
          /\ history' = [history EXCEPT ![s] =
                [undo |-> Front(@.undo), redo |-> Keep(Append(@.redo, entry), HistoryLimit)]]
    /\ Return(s)
    /\ UNCHANGED <<workflow, revisions, index, counters>>

FinishRedo(s) ==
    /\ At(s, "redo", "save")
    /\ LET entry == Last(history[s].redo)
       IN /\ intervals' = [items |-> entry.after, stamp |-> now]
          /\ history' = [history EXCEPT ![s] =
                [undo |-> Keep(Append(@.undo, entry), HistoryLimit), redo |-> Front(@.redo)]]
    /\ Return(s)
    /\ UNCHANGED <<workflow, revisions, index, counters>>

-----------------------------------------------------------------------------
(* The workflow: require a status, read again, write. *)

Publishable(r) == \E k \in DOMAIN index : index[k].id = r /\ index[k].token = Token(intervals)

BeginMove(s) ==
    /\ Begin(s, "move")
    /\ \E m \in Moves, r \in Revisions \cup {NoRevision} :
          /\ workflow.status = m.from
          /\ m.action \in Permissions[RoleOf[s]]
          /\ IF m.action = "publish" THEN r \in Revisions /\ Publishable(r) ELSE r = NoRevision
          /\ Enter(s, [kind |-> "move", pc |-> "read", to |-> m.to, revision |-> r])
    /\ UNCHANGED <<files, history, spent, now, forgotten, faults>>

ReadWorkflow(s) ==
    /\ At(s, "move", "read")
    /\ Enter(s, [kind |-> "move", pc |-> "write", to |-> calls[s].to, revision |-> calls[s].revision,
                 current |-> workflow])
    /\ UNCHANGED <<files, history, counters>>

\* Mutant: the events are read once more at the write.
WriteWorkflowLate(s) ==
    /\ At(s, "move", "write")
    /\ LET c == calls[s]
           event == [from |-> c.current.status, to |-> c.to, revision |-> c.revision]
       IN workflow' = [status |-> c.to, revision |-> c.revision,
                       events |-> Keep(Append(workflow.events, event), EventLimit)]
    /\ Return(s)
    /\ UNCHANGED <<intervals, revisions, index, history, counters>>

WriteWorkflow(s) ==
    /\ At(s, "move", "write")
    /\ LET c == calls[s]
           event == [from |-> c.current.status, to |-> c.to, revision |-> c.revision]
       IN workflow' = [status |-> c.to, revision |-> c.revision,
                       events |-> Keep(Append(c.current.events, event), EventLimit)]
    /\ Return(s)
    /\ UNCHANGED <<intervals, revisions, index, history, counters>>

-----------------------------------------------------------------------------
(* Revisions: the file first, the index after it, both ways. *)

BeginCapture(s) ==
    /\ Begin(s, "capture")
    /\ \E r \in Revisions \ spent :
          /\ Enter(s, [kind |-> "capture", pc |-> "file", id |-> r, at |-> now, capture |-> intervals])
          /\ spent' = spent \cup {r}
    /\ UNCHANGED <<files, history, now, forgotten, faults>>

WriteRevision(s) ==
    /\ At(s, "capture", "file")
    /\ revisions' = [revisions EXCEPT ![calls[s].id] = calls[s].capture]
    /\ calls' = [calls EXCEPT ![s].pc = "list"]
    /\ UNCHANGED <<intervals, workflow, index, history, counters>>

ListForCapture(s) ==
    /\ At(s, "capture", "list")
    /\ LET c == calls[s]
           meta == [id |-> c.id, at |-> c.at, token |-> Token(c.capture)]
       IN Enter(s, [kind |-> "index", pc |-> "write", lost |-> {}, rest |-> <<>>,
                    list |-> Insert(Without(index, c.id), meta)])
    /\ UNCHANGED <<files, history, counters>>

\* delete takes one revision, prune those after the first keep of the list.
Victims(keep) == [k \in 1 .. (Len(index) - keep) |-> index[k + keep].id]

BeginDeleteRevision(s) ==
    /\ Begin(s, "remove")
    /\ \E r \in Listed(index) : Enter(s, [kind |-> "remove", pc |-> "file", rest |-> <<r>>])
    /\ UNCHANGED <<files, history, spent, now, forgotten, faults>>

BeginPrune(s) ==
    /\ Begin(s, "remove")
    /\ \E keep \in 1 .. Len(index) - 1 : Enter(s, [kind |-> "remove", pc |-> "file", rest |-> Victims(keep)])
    /\ UNCHANGED <<files, history, spent, now, forgotten, faults>>

Continue(s, rest) ==
    IF rest = <<>> THEN Return(s) ELSE Enter(s, [kind |-> "remove", pc |-> "file", rest |-> rest])

\* A revision whose file is gone already is passed over, its index row stays.
RemoveFile(s) ==
    /\ At(s, "remove", "file")
    /\ LET r == Head(calls[s].rest)
       IN IF revisions[r] = Missing
          THEN Continue(s, Tail(calls[s].rest)) /\ UNCHANGED revisions
          ELSE /\ revisions' = [revisions EXCEPT ![r] = Missing]
               /\ calls' = [calls EXCEPT ![s].pc = "list"]
    /\ UNCHANGED <<intervals, workflow, index, history, counters>>

ListForRemove(s) ==
    /\ At(s, "remove", "list")
    /\ Enter(s, [kind |-> "index", pc |-> "write", lost |-> {}, rest |-> Tail(calls[s].rest),
                 list |-> Without(index, Head(calls[s].rest))])
    /\ UNCHANGED <<files, history, counters>>

\* An index that cannot be read counts as empty (_read_json): the list that is
\* about to be written has only the new row, or none.
ListUnreadable(s) ==
    LET c == calls[s]
        capturing == c.kind = "capture"
        own == IF capturing THEN c.id ELSE Head(c.rest)
    IN /\ faults < MaxFaults /\ faults' = faults + 1
       /\ c.kind \in {"capture", "remove"} /\ c.pc = "list"
       /\ Enter(s, [kind |-> "index", pc |-> "write", lost |-> Listed(index) \ {own},
                    rest |-> IF capturing THEN <<>> ELSE Tail(c.rest),
                    list |-> IF capturing THEN <<[id |-> own, at |-> c.at, token |-> Token(c.capture)]>> ELSE <<>>])
       /\ UNCHANGED <<files, history, spent, now, begun, forgotten>>

WriteIndex(s) ==
    /\ At(s, "index", "write")
    /\ index' = calls[s].list
    /\ Continue(s, calls[s].rest)
    /\ forgotten' = forgotten \cup calls[s].lost
    /\ UNCHANGED <<intervals, workflow, revisions, history, spent, now, begun, faults>>

\* The token of the preview is compared, then the files are put back in one
\* journalled transaction (RepositoryTransaction).
BeginRestore(s) ==
    /\ Begin(s, "restore")
    /\ \E r \in Listed(index) :
          /\ revisions[r] # Missing
          /\ Enter(s, [kind |-> "restore", pc |-> "check", id |-> r, token |-> Token(intervals)])
    /\ UNCHANGED <<files, history, spent, now, forgotten, faults>>

CheckRestore(s) ==
    /\ At(s, "restore", "check")
    /\ IF Token(intervals) # calls[s].token \/ revisions[calls[s].id] = Missing THEN Return(s)
       ELSE Enter(s, [kind |-> "restore", pc |-> "commit", capture |-> revisions[calls[s].id]])
    /\ UNCHANGED <<files, history, counters>>

CommitRestore(s) ==
    /\ At(s, "restore", "commit")
    /\ intervals' = calls[s].capture
    /\ Return(s)
    /\ UNCHANGED <<workflow, revisions, index, history, counters>>

-----------------------------------------------------------------------------
Tick == now < MaxTime /\ now' = now + 1 /\ UNCHANGED <<files, history, calls, spent, begun, forgotten, faults>>

\* A write or an unlink raises before it has changed the file, and the call
\* ends.  (Every save is an os.replace; a restore that raises is rolled back,
\* or is done when only its answer is wrong.)
CallFails(s) ==
    /\ faults < MaxFaults
    /\ faults' = faults + 1
    /\ calls[s].pc \in {"save", "write", "file", "commit"}
    /\ At(s, "remove", "file") => revisions[Head(calls[s].rest)] # Missing
    /\ Return(s)
    /\ UNCHANGED <<files, history, spent, now, begun, forgotten>>

\* The server stops: calls end where they are and session state is lost.
Crash ==
    /\ faults < MaxFaults
    /\ faults' = faults + 1
    /\ calls' = [s \in Sessions |-> Idle]
    /\ history' = [s \in Sessions |-> NoHistory]
    /\ UNCHANGED <<files, spent, now, begun, forgotten>>

Edit(s) ==
    \/ BeginCreate(s) \/ BeginUpdate(s) \/ BeginDelete(s) \/ BeginBatch(s)
    \/ LoadBefore(s) \/ LoadCurrent(s) \/ SaveEdit(s) \/ RecordEdit(s)
    \/ BeginUndo(s) \/ FinishUndo(s) \/ BeginRedo(s) \/ FinishRedo(s)
Review(s) == BeginMove(s) \/ ReadWorkflow(s) \/ WriteWorkflow(s)
Revise(s) ==
    \/ BeginCapture(s) \/ WriteRevision(s) \/ ListForCapture(s)
    \/ BeginDeleteRevision(s) \/ BeginPrune(s) \/ RemoveFile(s) \/ ListForRemove(s)
    \/ ListUnreadable(s) \/ WriteIndex(s)
    \/ BeginRestore(s) \/ CheckRestore(s) \/ CommitRestore(s)

Next == (\E s \in Sessions : Edit(s) \/ Review(s) \/ Revise(s) \/ CallFails(s)) \/ Tick \/ Crash

Spec == Init /\ [][Next]_vars

-----------------------------------------------------------------------------
CallKinds == {"idle", "edit", "undo", "redo", "move", "capture", "index", "remove", "restore"}

\* The state keeps its types; the stacks of a session (interval_commands.py)
\* never hold more than HistoryLimit commands.
TypeOK ==
    /\ intervals \in Captures
    /\ \A s \in Sessions :
          /\ DOMAIN history[s] = {"undo", "redo"}
          /\ \A stack \in {history[s].undo, history[s].redo} :
                Len(stack) <= HistoryLimit /\ \A k \in DOMAIN stack : stack[k] \in Entries
          /\ calls[s].kind \in CallKinds
    /\ workflow.status \in Statuses /\ workflow.revision \in Revisions \cup {NoRevision}
    /\ Len(workflow.events) <= EventLimit
    /\ \A k \in DOMAIN workflow.events : workflow.events[k] \in Events
    /\ \A r \in Revisions : revisions[r] \in Captures \cup {Missing}
    /\ \A k \in DOMAIN index : index[k] \in Metadata
    /\ spent \subseteq Ids \cup Revisions /\ forgotten \subseteq Revisions
    /\ now \in 0 .. MaxTime /\ begun \in 0 .. MaxCalls /\ faults \in 0 .. MaxFaults

(* Undo and redo do what they promise: the command that is being recorded   *)
(* counts as recorded, everything else is as the session's state has it.    *)
HistoryAsPromised(s) ==
    IF At(s, "edit", "record") THEN Recorded(history[s], calls[s].before, intervals.items) ELSE history[s]

Document == INSTANCE UndoableDocument WITH
    Users <- Sessions, Documents <- Contents, Limit <- HistoryLimit,
    document <- intervals.items,
    done <- [s \in Sessions |-> HistoryAsPromised(s).undo],
    undone <- [s \in Sessions |-> HistoryAsPromised(s).redo]

\* An undo gives back exactly what its command replaced and a redo what it
\* made, each refused once another session or a restore has changed the
\* intervals (commands.undo, redo, _record).
DocumentSpec == Document!Spec

Chained(events) == \A k \in 1 .. Len(events) - 1 : events[k].to = events[k + 1].from
Unbroken(w) ==
    /\ Chained(w.events)
    /\ IF w.events = <<>> THEN w.status = "draft"
       ELSE w.status = Last(w.events).to /\ w.revision = Last(w.events).revision
    /\ (w.status = "published") <=> (w.revision # NoRevision)

\* The events of publication.json are an unbroken chain that ends in the
\* status, and a revision is named exactly when it is published, even when two
\* sessions move the workflow at once (publication.transition).
TrailUnbroken == Unbroken(workflow)

\* When no call is running, the index and the files of the revisions differ by
\* one revision for each crash and each failing write at most, whatever order
\* captures, deletes and prunes came in: create leaves a file that is not
\* listed, delete and prune leave a row without its file.  Only an index that
\* could not be read drops more: the rows it had (create, delete, _save_index).
IndexNearlyTruthful ==
    (\A s \in Sessions : calls[s] = Idle) =>
        LET kept == {r \in Revisions \ forgotten : revisions[r] # Missing}
            odd == (kept \ Listed(index)) \cup (Listed(index) \ kept)
        IN Cardinality(odd) <= faults

\* What the head of interpretation_publication.py says: "Publication is tied
\* to an existing revision".
PublishedRevisionExists ==
    workflow.status = "published" => revisions[workflow.revision] # Missing
=============================================================================
