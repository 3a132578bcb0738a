------------------------ MODULE BackgroundExportProofs ------------------------
(***************************************************************************)
(* Theorems about BackgroundExport.  Cancellation wins for any number of   *)
(* exports, stores and changes of project; that the end of a job is final  *)
(* is shown for a session that stays in its project, and what the list and *)
(* the files promise for one that, in addition, makes no more exports than *)
(* a store keeps.                                                          *)
(***************************************************************************)
EXTENDS BackgroundExport, SequenceDropProofs, FiniteSetTheorems, WellFoundedInduction, TLAPS

-----------------------------------------------------------------------------
(* Rows of a store.                                                        *)

\* A job has one row.
OneRow(rows) == \A a, b \in DOMAIN rows : rows[a].job = rows[b].job => a = b

LEMMA HasMore ==
    ASSUME NEW rows, NEW k, NEW X, NEW Y, X \subseteq Y, Has(rows, k, X)
    PROVE  Has(rows, k, Y)
BY DEF Has

LEMMA HasOneStatus ==
    ASSUME NEW rows, NEW k, OneRow(rows), Has(rows, k, Active)
    PROVE  ~Has(rows, k, Terminal)
BY DEF Has, OneRow, Active, Terminal

LEMMA NoRows ==
    <<>> \in AllRows /\ Len(<<>>) = 0 /\ OneRow(<<>>) /\ \A k, X : ~Has(<<>>, k, X)
<1>1. <<>> \in AllRows /\ Len(<<>>) = 0 /\ DOMAIN <<>> = {}
  BY DEF AllRows
<1>2. OneRow(<<>>) /\ \A k, X : ~Has(<<>>, k, X)
  BY <1>1 DEF OneRow, Has
<1> QED
  BY <1>1, <1>2

LEMMA RowsTyped ==
    ASSUME NEW rows \in AllRows
    PROVE  /\ Len(rows) \in Nat /\ DOMAIN rows = 1..Len(rows)
           /\ \A i \in DOMAIN rows : /\ rows[i] \in RowsOf(JobIds)
                                     /\ rows[i].job \in JobIds
                                     /\ rows[i].status \in Statuses
<1>1. Len(rows) \in Nat /\ DOMAIN rows = 1..Len(rows)
      /\ \A i \in DOMAIN rows : rows[i] \in RowsOf(JobIds)
  BY DEF AllRows
<1>2. \A r \in RowsOf(JobIds) : r.job \in JobIds /\ r.status \in Statuses
  BY DEF RowsOf
<1> QED
  BY <1>1, <1>2

\* Rows that come from others, each from one of its own.
From(new, old) ==
    /\ \A a \in DOMAIN new : \E b \in DOMAIN old : new[a] = old[b]
    /\ \A a, c \in DOMAIN new : a # c =>
          \E b, d \in DOMAIN old : b # d /\ new[a] = old[b] /\ new[c] = old[d]

LEMMA FromHas ==
    ASSUME NEW new, NEW old, From(new, old)
    PROVE  /\ \A k, X : Has(new, k, X) => Has(old, k, X)
           /\ OneRow(old) => OneRow(new)
<1>1. ASSUME NEW k, NEW X, Has(new, k, X) PROVE Has(old, k, X)
  BY <1>1 DEF Has, From
<1>2. ASSUME OneRow(old) PROVE OneRow(new)
  <2> SUFFICES ASSUME NEW a \in DOMAIN new, NEW c \in DOMAIN new, new[a].job = new[c].job, a # c
               PROVE  FALSE
    BY DEF OneRow
  <2>1. PICK b \in DOMAIN old, d \in DOMAIN old : b # d /\ new[a] = old[b] /\ new[c] = old[d]
    BY DEF From
  <2> QED
    BY <1>2, <2>1 DEF OneRow
<1> QED
  BY <1>1, <1>2

LEMMA RowsLeft ==
    ASSUME NEW rows \in AllRows, NEW T
    PROVE  /\ Drop(rows, T) \in AllRows
           /\ Len(Drop(rows, T)) <= Len(rows)
           /\ From(Drop(rows, T), rows)
BY DropLeaves DEF AllRows, From

\* A dict without some jobs.
LEMMA RowsDropped ==
    ASSUME NEW rows \in AllRows, NEW removed
    PROVE  LET rest == Drop(rows, RowsOf(removed))
           IN  /\ rest \in AllRows
               /\ Len(rest) <= Len(rows)
               /\ \A k, X : Has(rest, k, X) <=> (k \notin removed /\ Has(rows, k, X))
               /\ OneRow(rows) => OneRow(rest)
<1> DEFINE rest == Drop(rows, RowsOf(removed))
<1>1. /\ rest \in AllRows
      /\ Len(rest) <= Len(rows)
      /\ From(rest, rows)
      /\ \A a \in DOMAIN rest : \E b \in DOMAIN rows :
            rest[a] = rows[b] /\ rows[b] \notin RowsOf(removed)
      /\ \A b \in DOMAIN rows : rows[b] \notin RowsOf(removed) =>
            \E a \in DOMAIN rest : rest[a] = rows[b]
  BY DropLeaves DEF AllRows, From
<1>2. \A b \in DOMAIN rows : rows[b] \in RowsOf(removed) <=> rows[b].job \in removed
  <2> TAKE b \in DOMAIN rows
  <2>1. rows[b] \in [job : JobIds, status : Statuses]
    BY RowsTyped DEF RowsOf
  <2> QED
    BY <2>1 DEF RowsOf
<1> HIDE DEF rest
<1>3. ASSUME NEW k, NEW X
      PROVE  Has(rest, k, X) <=> (k \notin removed /\ Has(rows, k, X))
  <2>1. ASSUME Has(rest, k, X) PROVE k \notin removed /\ Has(rows, k, X)
    <3>1. PICK a \in DOMAIN rest : rest[a].job = k /\ rest[a].status \in X
      BY <2>1 DEF Has
    <3>2. PICK b \in DOMAIN rows : rest[a] = rows[b] /\ rows[b] \notin RowsOf(removed)
      BY <1>1, <3>1
    <3>3. rows[b].job = k /\ rows[b].status \in X /\ rows[b].job \notin removed
      BY <1>2, <3>1, <3>2
    <3> QED
      BY <3>3 DEF Has
  <2>2. ASSUME k \notin removed, Has(rows, k, X) PROVE Has(rest, k, X)
    <3>1. PICK b \in DOMAIN rows : rows[b].job = k /\ rows[b].status \in X
      BY <2>2 DEF Has
    <3>2. PICK a \in DOMAIN rest : rest[a] = rows[b]
      BY <1>1, <1>2, <2>2, <3>1
    <3> QED
      BY <3>1, <3>2 DEF Has
  <2> QED
    BY <2>1, <2>2
<1>4. OneRow(rows) => OneRow(rest)
  BY <1>1, FromHas
<1> QED
  BY <1>1, <1>3, <1>4 DEF rest

\* _write: the job's row is the one written, the others stay.
LEMMA RowsTouched ==
    ASSUME NEW rows \in AllRows, NEW j \in JobIds, NEW status \in Statuses
    PROVE  LET new == Touched(rows, j, status)
           IN  /\ new \in AllRows
               /\ \A k, X : Has(new, k, X) <=> IF k = j THEN status \in X ELSE Has(rows, k, X)
               /\ OneRow(rows) => OneRow(new)
<1> DEFINE rest == Drop(rows, RowsOf({j}))
           new == Touched(rows, j, status)
<1>1. /\ rest \in AllRows
      /\ \A k, X : Has(rest, k, X) <=> (k \notin {j} /\ Has(rows, k, X))
      /\ OneRow(rows) => OneRow(rest)
  BY RowsDropped
<1>2. new = Append(rest, Row(j, status))
  BY DEF Touched
<1> HIDE DEF rest, new
<1>3. Row(j, status) \in RowsOf(JobIds) /\ Row(j, status).job = j /\ Row(j, status).status = status
  BY DEF Row, RowsOf, Statuses
<1>4. /\ new \in AllRows
      /\ Len(rest) \in Nat
      /\ DOMAIN rest = 1..Len(rest)
      /\ DOMAIN new = 1..Len(rest) + 1
      /\ \A i \in 1..Len(rest) : new[i] = rest[i]
      /\ new[Len(rest) + 1] = Row(j, status)
  BY <1>1, <1>2, <1>3 DEF AllRows
<1>5. \A i \in DOMAIN new : i \in DOMAIN rest \/ i = Len(rest) + 1
  BY <1>4
<1>6. \A i \in DOMAIN rest : i \in DOMAIN new /\ i # Len(rest) + 1 /\ new[i] = rest[i]
  BY <1>4
<1>7. Len(rest) + 1 \in DOMAIN new
  BY <1>4
<1>8. ASSUME NEW i \in DOMAIN rest PROVE rest[i].job # j
  <2>1. rest[i].job \in JobIds /\ rest[i].status \in Statuses
    BY <1>1, <1>8, RowsTyped
  <2>2. Has(rest, rest[i].job, Statuses)
    BY <1>8, <2>1 DEF Has
  <2> QED
    BY <1>1, <2>2
<1>9. ASSUME NEW k, NEW X
      PROVE  Has(new, k, X) <=> IF k = j THEN status \in X ELSE Has(rows, k, X)
  <2>1. Has(new, k, X) <=> (Has(rest, k, X) \/ (k = j /\ status \in X))
    BY <1>3, <1>4, <1>5, <1>6, <1>7 DEF Has
  <2> QED
    BY <1>1, <2>1
<1>10. OneRow(rows) => OneRow(new)
  BY <1>1, <1>3, <1>4, <1>5, <1>6, <1>8 DEF OneRow
<1> QED
  BY <1>4, <1>9, <1>10 DEF new

\* _trim_store.
LEMMA RowsKept ==
    ASSUME NEW rows \in AllRows
    PROVE  /\ Newest(rows) \in AllRows
           /\ Len(Newest(rows)) <= MaxSnapshots
           /\ \A k, X : Has(Newest(rows), k, X) => Has(rows, k, X)
           /\ OneRow(rows) => OneRow(Newest(rows))
           /\ Len(rows) <= MaxSnapshots => Newest(rows) = rows /\ Evicted(rows) = {}
<1> DEFINE first == IF Len(rows) > MaxSnapshots THEN Len(rows) - MaxSnapshots + 1 ELSE 1
           new == Newest(rows)
<1>1. Len(rows) \in Nat /\ MaxSnapshots \in Nat \ {0} /\ DOMAIN rows = 1..Len(rows)
  BY RowsTyped, ExportAssumption
<1>2. first \in Nat /\ 1 <= first /\ first <= Len(rows) + 1 /\ Len(rows) - first + 1 <= MaxSnapshots
      /\ Len(rows) - first + 1 \in Nat
  BY <1>1
<1>3. new = SubSeq(rows, first, Len(rows))
  BY DEF Newest
<1>4. Len(rows) <= MaxSnapshots => first = 1
  BY <1>1
<1> HIDE DEF first, new
<1>5. /\ new \in AllRows
      /\ Len(new) = Len(rows) - first + 1
      /\ DOMAIN new = 1..Len(rows) - first + 1
      /\ \A i \in 1..Len(rows) - first + 1 : new[i] = rows[first + i - 1]
  <2>1. \A i \in first..Len(rows) : i \in 1..Len(rows) /\ rows[i] \in RowsOf(JobIds)
    BY <1>1, <1>2 DEF AllRows
  <2> QED
    BY <1>1, <1>2, <1>3, <2>1 DEF AllRows
<1>6. \A a \in DOMAIN new : first + a - 1 \in DOMAIN rows /\ new[a] = rows[first + a - 1]
  BY <1>1, <1>2, <1>5
<1>7. \A a, c \in DOMAIN new : a # c => first + a - 1 # first + c - 1
  BY <1>2, <1>5
<1>8. From(new, rows)
  <2>1. \A a \in DOMAIN new : \E b \in DOMAIN rows : new[a] = rows[b]
    BY <1>6
  <2>2. ASSUME NEW a \in DOMAIN new, NEW c \in DOMAIN new, a # c
        PROVE  \E b, d \in DOMAIN rows : b # d /\ new[a] = rows[b] /\ new[c] = rows[d]
    BY <1>6, <1>7, <2>2
  <2> QED
    BY <2>1, <2>2 DEF From
<1>9. ASSUME Len(rows) <= MaxSnapshots
      PROVE  new = rows
  <2>1. first = 1
    BY <1>4, <1>9
  <2>2. Len(new) = Len(rows) /\ \A i \in 1..Len(rows) : new[i] = rows[i]
    BY <1>1, <1>5, <2>1
  <2> QED
    BY <1>1, <1>5, <2>2 DEF AllRows
<1> QED
  BY <1>2, <1>5, <1>8, <1>9, FromHas DEF new, Evicted

\* Distinct jobs are no more than there are.
LEMMA RowsFew ==
    ASSUME NEW rows \in AllRows, OneRow(rows)
    PROVE  Len(rows) <= MaxSubmitted
<1> DEFINE f == [i \in 1..Len(rows) |-> rows[i].job]
<1>1. Len(rows) \in Nat /\ MaxSubmitted \in Nat /\ DOMAIN rows = 1..Len(rows)
  BY RowsTyped, ExportAssumption
<1>2. f \in Injection(1..Len(rows), JobIds)
  <2>1. f \in [1..Len(rows) -> JobIds]
    BY <1>1, RowsTyped
  <2>2. \A a, b \in 1..Len(rows) : f[a] = f[b] => a = b
    BY <1>1 DEF OneRow
  <2> HIDE DEF f
  <2> QED
    BY <2>1, <2>2 DEF Injection, IsInjective
<1>3. IsFiniteSet(JobIds) /\ Cardinality(JobIds) = MaxSubmitted
  <2>1. 1 \in Int /\ MaxSubmitted \in Int /\ (1 > MaxSubmitted => MaxSubmitted = 0)
    BY <1>1
  <2> QED
    BY <1>1, <2>1, FS_Interval DEF JobIds
<1>4. Cardinality(1..Len(rows)) = Len(rows)
  <2>1. 1 \in Int /\ Len(rows) \in Int /\ (1 > Len(rows) => Len(rows) = 0)
    BY <1>1
  <2> QED
    BY <1>1, <2>1, FS_Interval
<1> HIDE DEF f
<1>5. Cardinality(1..Len(rows)) <= Cardinality(JobIds)
  BY <1>2, <1>3, FS_Injection
<1> QED
  BY <1>3, <1>4, <1>5

-----------------------------------------------------------------------------
(* What holds whatever the session does.                                   *)

\* Jobs are numbered as they are submitted, and the dicts as they are made.
Numbered ==
    LET made == 1..submitted
    IN  /\ \A i \in DOMAIN queue : queue[i] \in made
        /\ work.job # NoJob => work.job \in made
        /\ futures \subseteq made /\ events \subseteq made /\ results \subseteq made
        /\ raised \subseteq made /\ inTime \subseteq made
        /\ \A s \in Stores, j \in JobIds : Has(stores[s], j, Statuses) => j \in made
        /\ \A j \in JobIds : Has(ui.rows, j, Statuses) => j \in made
        /\ ui.job # NoJob => ui.job \in made
        /\ \A j \in made : home[j] \in Stores
        /\ ui.at = "register" => ui.job # NoJob

\* A job is at one place at a time, and the script where it may be.
OnePlace ==
    /\ \A a, b \in DOMAIN queue : queue[a] = queue[b] => a = b
    /\ work.at = "idle" <=> work.job = NoJob
    /\ work.job # NoJob => \A i \in DOMAIN queue : queue[i] # work.job
    /\ ui.at = "recover" => bound # NoStore
    /\ ui.at = "dispatch" => rollbacks < MaxRollbacks /\ Len(ui.rows) <= MaxSnapshots

\* A job at work can be reached, and nothing says that it ended.
Reachable ==
    \A j \in JobIds : Working(j) =>
        /\ j \in futures \/ (ui.at = "register" /\ ui.job = j)
        /\ j \in events
        /\ j \notin results
        /\ \A s \in Stores : ~Has(stores[s], j, Terminal)
        /\ ui.at = "dispatch" => ~Has(ui.rows, j, Terminal)

\* A cancelled job is on its way out, or out.
Cancelled ==
    \A j \in inTime :
        /\ Working(j) => j \in raised
        /\ ~(work.job = j /\ work.at = "completed")
        /\ j \notin results
        /\ \A s \in Stores : ~Has(stores[s], j, {"completed"})
        /\ ui.at = "dispatch" => ~Has(ui.rows, j, {"completed"})

RunInv == TypeOK /\ Numbered /\ OnePlace /\ Reachable /\ Cancelled

LEMMA ThreadsTyped ==
    ASSUME TypeOK
    PROVE  /\ ui.at \in {"ready", "register", "recover", "dispatch", "dismiss"}
           /\ ui.job \in JobIds \cup {NoJob} /\ ui.rows \in AllRows
           /\ work.job \in JobIds \cup {NoJob} /\ work.reports \in 0..MaxReports
           /\ NoJob \notin JobIds /\ NoStore \notin Stores
           /\ Ready \in Uis /\ Resting \in Works
<1>1. work \in Works /\ ui \in Uis
  BY DEF TypeOK
<1>2. Ready \in Uis
  BY NoRows DEF Ready, Uis
<1>3. Resting \in Works
  BY ExportAssumption DEF Resting, Works
<1> QED
  BY <1>1, <1>2, <1>3, ExportAssumption DEF Works, Uis

LEMMA WorkAt ==
    ASSUME work \in Works, NEW label \in {"idle", "start", "check", "work", "last", "cancelled",
                                         "failed", "completed", "pop", "settle"}
    PROVE  [work EXCEPT !.at = label] \in Works
           /\ [work EXCEPT !.at = label].at = label /\ [work EXCEPT !.at = label].job = work.job
BY DEF Works

\* A status is written to a dict, which is trimmed.
Wrote(s, j, status) ==
    /\ stores' \in [Stores -> AllRows]
    /\ \A t \in Stores : t # s => stores'[t] = stores[t]
    /\ Len(stores'[s]) <= MaxSnapshots
    /\ \A k, X : Has(stores'[s], k, X) => IF k = j THEN status \in X ELSE Has(stores[s], k, X)
    /\ OneRow(stores[s]) => OneRow(stores'[s])

\* Nothing is trimmed.
WroteAll(s, j, status) ==
    \A k, X : Has(stores'[s], k, X) <=> IF k = j THEN status \in X ELSE Has(stores[s], k, X)

LEMMA WriteEffect ==
    ASSUME TypeOK, NEW s \in Stores, NEW j \in JobIds, NEW status \in Statuses, NEW given,
           WriteWith(s, j, status, given)
    PROVE  /\ Wrote(s, j, status)
           /\ results' \subseteq given
           /\ OneRow(stores[s]) /\ MaxSubmitted <= MaxSnapshots =>
                 WroteAll(s, j, status) /\ results' = given
<1> DEFINE rows == Touched(stores[s], j, status)
<1>1. stores \in [Stores -> AllRows]
  BY DEF TypeOK
<1>2. /\ rows \in AllRows
      /\ \A k, X : Has(rows, k, X) <=> IF k = j THEN status \in X ELSE Has(stores[s], k, X)
      /\ OneRow(stores[s]) => OneRow(rows)
  BY <1>1, RowsTouched
<1>3. stores' = [stores EXCEPT ![s] = Newest(rows)] /\ results' = given \ Evicted(rows)
  BY DEF WriteWith
<1> HIDE DEF rows
<1>4. /\ Newest(rows) \in AllRows
      /\ Len(Newest(rows)) <= MaxSnapshots
      /\ \A k, X : Has(Newest(rows), k, X) => Has(rows, k, X)
      /\ OneRow(rows) => OneRow(Newest(rows))
      /\ Len(rows) <= MaxSnapshots => Newest(rows) = rows /\ Evicted(rows) = {}
  BY <1>2, RowsKept
<1>5. stores'[s] = Newest(rows) /\ \A t \in Stores : t # s => stores'[t] = stores[t]
  BY <1>1, <1>3
<1>6. stores' \in [Stores -> AllRows]
  BY <1>1, <1>3, <1>4
<1>7. Wrote(s, j, status)
  BY <1>2, <1>4, <1>5, <1>6 DEF Wrote
<1>8. ASSUME OneRow(stores[s]), MaxSubmitted <= MaxSnapshots
      PROVE  WroteAll(s, j, status) /\ results' = given
  <2>1. Len(rows) <= MaxSubmitted /\ Len(rows) \in Nat
    BY <1>2, <1>8, RowsFew, RowsTyped
  <2>2. Len(rows) <= MaxSnapshots
    BY <1>8, <2>1, ExportAssumption
  <2> QED
    BY <1>2, <1>3, <1>4, <1>5, <2>2 DEF WroteAll
<1> QED
  BY <1>3, <1>7, <1>8

\* What a write, or none, does to the dicts.
Updated(j, status) ==
    /\ stores' \in [Stores -> AllRows]
    /\ \A s \in Stores : stores'[s] = stores[s] \/ Len(stores'[s]) <= MaxSnapshots
    /\ \A s \in Stores : \A k, X :
          Has(stores'[s], k, X) => Has(stores[s], k, X) \/ (k = j /\ status \in X)

LEMMA WroteUpdates ==
    ASSUME TypeOK, NEW s \in Stores, NEW j, NEW status,
           Wrote(s, j, status) \/ UNCHANGED stores
    PROVE  Updated(j, status)
<1>1. stores \in [Stores -> AllRows]
  BY DEF TypeOK
<1>2. CASE UNCHANGED stores
  BY <1>1, <1>2 DEF Updated
<1>3. CASE Wrote(s, j, status)
  <2>1. \A k, X : Has(stores'[s], k, X) => Has(stores[s], k, X) \/ (k = j /\ status \in X)
    BY <1>3 DEF Wrote
  <2> QED
    BY <1>3, <2>1 DEF Updated, Wrote
<1> QED
  BY <1>2, <1>3

LEMMA SetsHas == {"completed"} \subseteq Terminal /\ Terminal \subseteq Statuses
      /\ Active \subseteq Statuses
                 /\ Active \cap Terminal = {}
BY DEF Active, Terminal, Statuses

LEMMA KeepsLeaveProject ==
    ASSUME RunInv, LeaveProject
    PROVE  RunInv'
<1> USE DEF session, runtime, jobsData, bounds
<1>0. TypeOK /\ Numbered /\ OnePlace /\ Reachable /\ Cancelled
  BY DEF RunInv
<1>1. /\ ui.at = "ready" /\ bound' = NoStore /\ reopens < MaxReopens /\ reopens' = reopens + 1
      /\ UNCHANGED <<stores, kept, queue, futures, events, results, signature, home, raised, work,
         ui, submitted, rollbacks, inTime>>
  BY DEF LeaveProject, Serving
<1>2. \A j : Working(j)' <=> Working(j)
  BY <1>1 DEF Working, InQueue
<1>3. TypeOK'
  BY <1>0, <1>1, ExportAssumption DEF TypeOK
<1>4. Numbered'
  BY <1>0, <1>1 DEF Numbered
<1>5. OnePlace'
  BY <1>0, <1>1 DEF OnePlace
<1>6. Reachable'
  BY <1>0, <1>1, <1>2 DEF Reachable
<1>7. Cancelled'
  BY <1>0, <1>1, <1>2 DEF Cancelled
<1> QED
  BY <1>3, <1>4, <1>5, <1>6, <1>7 DEF RunInv

LEMMA KeepsConstruct ==
    ASSUME RunInv, Construct
    PROVE  RunInv'
<1> USE DEF session, runtime, jobsData, bounds
<1>0. TypeOK /\ Numbered /\ OnePlace /\ Reachable /\ Cancelled
  BY DEF RunInv
<1>1. /\ ui.at = "ready" /\ bound = NoStore /\ bound' = kept /\ kept \in Stores
      /\ UNCHANGED <<stores, kept, queue, futures, events, results, signature, home, raised, work,
         submitted, reopens, rollbacks, inTime>>
  BY <1>0 DEF Construct, TypeOK
<1>2. \A j : Working(j)' <=> Working(j)
  BY <1>1 DEF Working, InQueue
<1>3. /\ ui' \in Uis /\ ui'.at = "recover" /\ ui'.job = NoJob
      /\ \A k, X : Has(ui'.rows, k, X) => Has(stores[kept], k, X)
  <2> DEFINE rows == Drop(stores[kept], [job : JobIds, status : Terminal])
  <2>1. stores[kept] \in AllRows
    BY <1>0 DEF TypeOK
  <2>2. rows \in AllRows /\ \A k, X : Has(rows, k, X) => Has(stores[kept], k, X)
    BY <2>1, RowsLeft, FromHas
  <2>3. ui' = [Ready EXCEPT !.at = "recover", !.rows = rows]
    BY DEF Construct
  <2> HIDE DEF rows
  <2>4. ui' \in Uis /\ ui'.at = "recover" /\ ui'.job = NoJob /\ ui'.rows = rows
    BY <2>2, <2>3, ThreadsTyped, <1>0 DEF Ready, Uis
  <2> QED
    BY <2>2, <2>4
<1>4. TypeOK'
  BY <1>0, <1>1, <1>3 DEF TypeOK
<1>5. Numbered'
  BY <1>0, <1>1, <1>3 DEF Numbered
<1>6. OnePlace'
  BY <1>0, <1>1, <1>3, ThreadsTyped DEF OnePlace
<1>7. Reachable'
  BY <1>0, <1>1, <1>2, <1>3 DEF Reachable
<1>8. Cancelled'
  BY <1>0, <1>1, <1>2, <1>3 DEF Cancelled
<1> QED
  BY <1>4, <1>5, <1>6, <1>7, <1>8 DEF RunInv

LEMMA KeepsRecoverRow ==
    ASSUME RunInv, RecoverRow
    PROVE  RunInv'
<1> USE DEF session, runtime, jobsData, bounds
<1>0. TypeOK /\ Numbered /\ OnePlace /\ Reachable /\ Cancelled
  BY DEF RunInv
<1>1. /\ ui.at = "recover" /\ ui.rows # <<>> /\ ui' = [ui EXCEPT !.rows = Tail(@)]
      /\ stores' = IF Head(ui.rows).job \in futures THEN stores
                   ELSE [stores EXCEPT ![bound] = Touched(@, Head(ui.rows).job, "orphaned")]
      /\ UNCHANGED <<kept, bound, queue, futures, events, results, signature, home, raised, work,
         submitted, reopens, rollbacks, inTime>>
  BY DEF RecoverRow
<1>2. \A j : Working(j)' <=> Working(j)
  BY <1>1 DEF Working, InQueue
<1>3. ui.rows \in AllRows /\ bound \in Stores /\ stores \in [Stores -> AllRows]
  BY <1>0, <1>1, ThreadsTyped DEF TypeOK, OnePlace
<1>4. /\ Head(ui.rows).job \in JobIds /\ Has(ui.rows, Head(ui.rows).job, Statuses)
      /\ Tail(ui.rows) \in AllRows /\ \A k, X : Has(Tail(ui.rows), k, X) => Has(ui.rows, k, X)
  <2>1. Len(ui.rows) \in Nat /\ Len(ui.rows) # 0 /\ DOMAIN ui.rows = 1..Len(ui.rows)
    BY <1>1, <1>3 DEF AllRows
  <2>2. 1 \in DOMAIN ui.rows /\ Head(ui.rows) = ui.rows[1]
    BY <1>3, <2>1 DEF AllRows
  <2>3. /\ Tail(ui.rows) \in AllRows /\ Len(Tail(ui.rows)) = Len(ui.rows) - 1
        /\ DOMAIN Tail(ui.rows) = 1..Len(ui.rows) - 1
        /\ \A i \in 1..Len(ui.rows) - 1 : Tail(ui.rows)[i] = ui.rows[i + 1]
    BY <1>1, <1>3, <2>1 DEF AllRows
  <2>4. \A i \in DOMAIN Tail(ui.rows) : i + 1 \in DOMAIN ui.rows
        /\ Tail(ui.rows)[i] = ui.rows[i + 1]
    BY <2>1, <2>3
  <2>5. \A k, X : Has(Tail(ui.rows), k, X) => Has(ui.rows, k, X)
    BY <2>4 DEF Has
  <2>6. ui.rows[1].job \in JobIds /\ ui.rows[1].status \in Statuses
    BY <1>3, <2>2, RowsTyped
  <2> QED
    BY <2>2, <2>3, <2>5, <2>6 DEF Has
<1>5. /\ stores' \in [Stores -> AllRows]
      /\ \A s \in Stores : s # bound => stores'[s] = stores[s]
      /\ \A k, X : Has(stores'[bound], k, X) =>
            Has(stores[bound], k, X) \/ (k = Head(ui.rows).job /\ k \notin futures
                  /\ "orphaned" \in X)
  <2> DEFINE j == Head(ui.rows).job
             new == Touched(stores[bound], j, "orphaned")
  <2>1. j \in JobIds /\ stores[bound] \in AllRows /\ "orphaned" \in Statuses
    BY <1>3, <1>4 DEF Statuses, Terminal
  <2>2. new \in AllRows /\ \A k, X : Has(new, k, X)
        <=> IF k = j THEN "orphaned" \in X ELSE Has(stores[bound], k, X)
    BY <2>1, RowsTouched
  <2>3. stores' = IF j \in futures THEN stores ELSE [stores EXCEPT ![bound] = new]
    BY <1>1
  <2> HIDE DEF j, new
  <2>4. CASE j \in futures
    BY <1>3, <2>3, <2>4
  <2>5. CASE j \notin futures
    <3>1. stores' = [stores EXCEPT ![bound] = new]
      BY <2>3, <2>5
    <3>2. stores' \in [Stores -> AllRows] /\ stores'[bound] = new /\ \A s \in Stores : s # bound
          => stores'[s] = stores[s]
      BY <1>3, <2>2, <3>1
    <3>3. \A k, X : Has(new, k, X) => Has(stores[bound], k, X)
          \/ (k = j /\ k \notin futures /\ "orphaned" \in X)
      BY <2>2, <2>5
    <3> QED
      BY <3>2, <3>3 DEF j
  <2> QED
    BY <2>4, <2>5
<1>6. ui' \in Uis /\ ui'.at = "recover" /\ ui'.job = ui.job /\ ui'.rows = Tail(ui.rows)
  BY <1>0, <1>1, <1>4 DEF TypeOK, Uis
<1>7. TypeOK'
  BY <1>0, <1>1, <1>5, <1>6 DEF TypeOK
<1>8. Numbered'
  BY <1>0, <1>1, <1>4, <1>5 DEF Numbered
<1>9. OnePlace'
  BY <1>0, <1>1 DEF OnePlace
<1>10. Reachable'
  BY <1>0, <1>1, <1>2, <1>5 DEF Reachable
<1>11. Cancelled'
  BY <1>0, <1>1, <1>2, <1>5 DEF Cancelled
<1> QED
  BY <1>7, <1>8, <1>9, <1>10, <1>11 DEF RunInv

LEMMA KeepsRecoverTrim ==
    ASSUME RunInv, RecoverTrim
    PROVE  RunInv'
<1> USE DEF session, runtime, jobsData, bounds
<1>0. TypeOK /\ Numbered /\ OnePlace /\ Reachable /\ Cancelled
  BY DEF RunInv
<1>1. /\ ui.at = "recover" /\ ui' = Ready
      /\ stores' = [stores EXCEPT ![bound] = Newest(@)] /\ results' \subseteq results
      /\ UNCHANGED <<kept, bound, queue, futures, events, signature, home, raised, work, submitted,
         reopens, rollbacks, inTime>>
  BY DEF RecoverTrim
<1>2. \A j : Working(j)' <=> Working(j)
  BY <1>1 DEF Working, InQueue
<1>3. bound \in Stores /\ stores \in [Stores -> AllRows]
  BY <1>0, <1>1, ThreadsTyped DEF TypeOK, OnePlace
<1>4. /\ stores' \in [Stores -> AllRows] /\ Len(stores'[bound]) <= MaxSnapshots
      /\ \A s \in Stores : s # bound => stores'[s] = stores[s]
      /\ \A k, X : Has(stores'[bound], k, X) => Has(stores[bound], k, X)
  <2>1. /\ Newest(stores[bound]) \in AllRows /\ Len(Newest(stores[bound])) <= MaxSnapshots
        /\ \A k, X : Has(Newest(stores[bound]), k, X) => Has(stores[bound], k, X)
    BY <1>3, RowsKept
  <2> QED
    BY <1>1, <1>3, <2>1
<1>5. ui' \in Uis /\ ui'.at = "ready" /\ ui'.job = NoJob /\ ui'.rows = <<>>
  BY <1>0, <1>1, ThreadsTyped DEF Ready
<1>6. \A k, X : ~Has(ui'.rows, k, X)
  BY <1>5, NoRows
<1>7. TypeOK'
  BY <1>0, <1>1, <1>4, <1>5 DEF TypeOK
<1>8. Numbered'
  BY <1>0, <1>1, <1>4, <1>5, <1>6 DEF Numbered
<1>9. OnePlace'
  BY <1>0, <1>1, <1>5 DEF OnePlace
<1>10. Reachable'
  BY <1>0, <1>1, <1>2, <1>4, <1>5 DEF Reachable
<1>11. Cancelled'
  BY <1>0, <1>1, <1>2, <1>4, <1>5 DEF Cancelled
<1> QED
  BY <1>7, <1>8, <1>9, <1>10, <1>11 DEF RunInv

LEMMA KeepsDispatch ==
    ASSUME RunInv, Dispatch
    PROVE  RunInv'
<1> USE DEF session, runtime, jobsData, bounds
<1>0. TypeOK /\ Numbered /\ OnePlace /\ Reachable /\ Cancelled
  BY DEF RunInv
<1>1. /\ ui.at = "ready" /\ rollbacks < MaxRollbacks
      /\ ui' = [Ready EXCEPT !.at = "dispatch", !.rows = stores[kept]]
      /\ UNCHANGED <<stores, kept, bound, queue, futures, events, results, signature, home, raised,
         work, submitted, reopens, rollbacks, inTime>>
  BY DEF Dispatch
<1>2. \A j : Working(j)' <=> Working(j)
  BY <1>1 DEF Working, InQueue
<1>3. kept \in Stores /\ stores[kept] \in AllRows /\ Len(stores[kept]) <= MaxSnapshots
  BY <1>0, <1>1 DEF TypeOK
<1>4. ui' \in Uis /\ ui'.at = "dispatch" /\ ui'.job = NoJob /\ ui'.rows = stores[kept]
  BY <1>0, <1>1, <1>3, ThreadsTyped DEF Ready, Uis
<1>5. TypeOK'
  BY <1>0, <1>1, <1>4 DEF TypeOK
<1>6. Numbered'
  BY <1>0, <1>1, <1>3, <1>4 DEF Numbered
<1>7. OnePlace'
  BY <1>0, <1>1, <1>3 DEF OnePlace
<1>8. Reachable'
  BY <1>0, <1>1, <1>2, <1>3 DEF Reachable
<1>9. Cancelled'
  BY <1>0, <1>1, <1>2, <1>3 DEF Cancelled
<1> QED
  BY <1>5, <1>6, <1>7, <1>8, <1>9 DEF RunInv

LEMMA KeepsRollback ==
    ASSUME RunInv, Rollback
    PROVE  RunInv'
<1> USE DEF session, runtime, jobsData, bounds
<1>0. TypeOK /\ Numbered /\ OnePlace /\ Reachable /\ Cancelled
  BY DEF RunInv
<1>1. /\ ui.at = "dispatch" /\ rollbacks' = rollbacks + 1 /\ kept' = rollbacks + 1 /\ ui' = Ready
      /\ stores' = [stores EXCEPT ![rollbacks + 1] = ui.rows]
      /\ UNCHANGED <<bound, queue, futures, events, results, signature, home, raised, work,
         submitted, reopens, inTime>>
  BY DEF Rollback
<1>2. \A j : Working(j)' <=> Working(j)
  BY <1>1 DEF Working, InQueue
<1>3. /\ rollbacks + 1 \in Stores /\ rollbacks + 1 \in 0..MaxRollbacks
      /\ ui.rows \in AllRows /\ Len(ui.rows) <= MaxSnapshots
  BY <1>0, <1>1, ThreadsTyped, ExportAssumption DEF TypeOK, OnePlace, Stores
<1>4. /\ stores' \in [Stores -> AllRows] /\ stores'[rollbacks + 1] = ui.rows
      /\ \A s \in Stores : s # rollbacks + 1 => stores'[s] = stores[s]
  BY <1>0, <1>1, <1>3 DEF TypeOK
<1>5. ui' \in Uis /\ ui'.at = "ready" /\ ui'.job = NoJob /\ ui'.rows = <<>>
  BY <1>0, <1>1, ThreadsTyped DEF Ready
<1>6. \A k, X : ~Has(ui'.rows, k, X)
  BY <1>5, NoRows
<1>7. TypeOK'
  BY <1>0, <1>1, <1>3, <1>5 DEF TypeOK
<1>8. Numbered'
  BY <1>0, <1>1, <1>5, <1>6 DEF Numbered
<1>9. OnePlace'
  BY <1>0, <1>1, <1>5 DEF OnePlace
<1>10. Reachable'
  BY <1>0, <1>1, <1>2, <1>5 DEF Reachable
<1>11. Cancelled'
  BY <1>0, <1>1, <1>2, <1>5 DEF Cancelled
<1> QED
  BY <1>7, <1>8, <1>9, <1>10, <1>11 DEF RunInv

LEMMA KeepsSubmit ==
    ASSUME RunInv, NEW sig \in Signatures, Submit(sig)
    PROVE  RunInv'
<1> USE DEF session, runtime, jobsData, bounds
<1>0. TypeOK /\ Numbered /\ OnePlace /\ Reachable /\ Cancelled
  BY DEF RunInv
<1>1. /\ ui.at = "ready" /\ bound # NoStore /\ submitted < MaxSubmitted
         /\ submitted' = submitted + 1
      /\ signature' = [signature EXCEPT ![submitted + 1] = sig]
      /\ home' = [home EXCEPT ![submitted + 1] = bound]
      /\ events' = events \cup {submitted + 1}
      /\ UNCHANGED <<kept, bound, futures, raised, work, reopens, rollbacks, inTime>>
  BY DEF Submit, Serving
<1>2. bound \in Stores /\ submitted + 1 \in JobIds /\ submitted + 1 \notin 1..submitted
      /\ submitted \in Nat
  BY <1>0, <1>1, ExportAssumption DEF TypeOK, JobIds
<1>3. /\ ui' = [Ready EXCEPT !.at = "register", !.job = submitted + 1]
         /\ queue' = Append(queue, submitted + 1)
      /\ Write(bound, submitted + 1, "pending")
  BY DEF Submit
<1>4. ui' \in Uis /\ ui'.at = "register" /\ ui'.job = submitted + 1 /\ ui'.rows = <<>>
  BY <1>2, <1>3, ThreadsTyped, <1>0 DEF Ready, Uis
<1>5. results' \subseteq results /\ Wrote(bound, submitted + 1, "pending")
  BY <1>0, <1>2, <1>3, WriteEffect DEF Write, Statuses, Active
<1>6. /\ stores' \in [Stores -> AllRows]
      /\ \A s \in Stores : stores'[s] = stores[s] \/ Len(stores'[s]) <= MaxSnapshots
      /\ \A s \in Stores : \A k : Has(stores'[s], k, Statuses)
         => (Has(stores[s], k, Statuses) \/ k = submitted + 1)
      /\ \A s \in Stores : \A k : Has(stores'[s], k, Terminal) => (Has(stores[s], k, Terminal))
      /\ \A s \in Stores : \A k : Has(stores'[s], k, {"completed"}) => Has(stores[s], k, {"completed"})
  <2>1. Updated(submitted + 1, "pending")
    BY <1>0, <1>2, <1>5, WroteUpdates
  <2>2. "pending" \notin Terminal /\ "pending" \notin {"completed"}
    BY DEF Terminal
  <2> QED
    BY <2>1, <2>2 DEF Updated
<1>7. /\ queue' \in Seq(JobIds)
      /\ \A i \in DOMAIN queue' : (i \in DOMAIN queue /\ queue'[i] = queue[i])
                                 \/ (i = Len(queue) + 1 /\ queue'[i] = submitted + 1)
  <2>1. queue \in Seq(JobIds) /\ queue' = Append(queue, submitted + 1)
    BY <1>0, <1>3 DEF TypeOK
  <2>2. queue' \in Seq(JobIds) /\ Len(queue) \in Nat /\ DOMAIN queue = 1..Len(queue)
    BY <1>2, <2>1
  <2>3. \A i \in DOMAIN queue' : i \in 1..Len(queue) \/ i = Len(queue) + 1
    BY <1>2, <2>1
  <2>4. \A i \in 1..Len(queue) : queue'[i] = queue[i]
    BY <1>2, <2>1
  <2>5. queue'[Len(queue) + 1] = submitted + 1
    BY <1>2, <2>1
  <2>6. \A i \in DOMAIN queue' : (i \in DOMAIN queue /\ queue'[i] = queue[i])
                              \/ (i = Len(queue) + 1 /\ queue'[i] = submitted + 1)
    BY <2>2, <2>3, <2>4, <2>5
  <2> QED
    BY <2>2, <2>6
<1>8. /\ \A a, c \in DOMAIN queue' : queue'[a] = queue'[c] => a = c
      /\ work.job # NoJob => \A a \in DOMAIN queue' : queue'[a] # work.job
  BY <1>0, <1>2, <1>7 DEF Numbered, OnePlace
<1>9. \A k : Working(k)' => Working(k) \/ k = submitted + 1
  BY <1>1, <1>7 DEF Working, InQueue
<1>10. \A k, X : ~Has(ui'.rows, k, X)
  BY <1>4, NoRows
<1>11. /\ submitted + 1 \notin results /\ submitted + 1 \notin inTime /\ results' \subseteq results
       /\ \A s \in Stores : ~Has(stores[s], submitted + 1, Terminal)
  <2>1. ASSUME NEW s \in Stores, Has(stores[s], submitted + 1, Terminal) PROVE FALSE
    <3>1. Has(stores[s], submitted + 1, Statuses)
      BY <2>1, HasMore, SetsHas
    <3> QED
      BY <1>0, <1>2, <3>1 DEF Numbered
  <2> QED
    BY <1>0, <1>2, <1>5, <2>1 DEF Numbered
<1>12. \A k \in 1..submitted + 1 : k \in 1..submitted \/ k = submitted + 1
  BY <1>2
<1>13. /\ \A k \in 1..submitted + 1 : home'[k] \in Stores
       /\ \A i \in DOMAIN queue' : queue'[i] \in 1..submitted + 1
  <2>1. home \in [JobIds -> Stores \cup {NoStore}] /\ 1..submitted \subseteq JobIds
    BY <1>0, <1>1, <1>2, ExportAssumption DEF TypeOK, JobIds
  <2>2. \A k \in 1..submitted : home'[k] = home[k]
    BY <1>1, <1>2, <2>1
  <2>3. home'[submitted + 1] = bound
    BY <1>1, <1>2, <2>1
  <2> QED
    BY <1>0, <1>2, <1>7, <2>2, <2>3 DEF Numbered
<1>14. 1..submitted \subseteq 1..submitted + 1 /\ submitted + 1 \in 1..submitted + 1
  BY <1>2
<1>15. TypeOK'
  BY <1>0, <1>1, <1>2, <1>3, <1>4, <1>5, <1>6, ExportAssumption DEF TypeOK
<1>16. Numbered'
  BY <1>0, <1>1, <1>2, <1>3, <1>5, <1>6, <1>10, <1>13, ThreadsTyped DEF Numbered
<1>17. OnePlace'
  BY <1>0, <1>1, <1>3, <1>8 DEF OnePlace
<1>18. Reachable'
  BY <1>0, <1>1, <1>3, <1>6, <1>9, <1>11 DEF Reachable
<1>19. Cancelled'
  BY <1>0, <1>1, <1>3, <1>6, <1>9, <1>11 DEF Cancelled
<1> QED
  BY <1>15, <1>16, <1>17, <1>18, <1>19 DEF RunInv

LEMMA KeepsRegister ==
    ASSUME RunInv, Register
    PROVE  RunInv'
<1> USE DEF session, runtime, jobsData, bounds
<1>0. TypeOK /\ Numbered /\ OnePlace /\ Reachable /\ Cancelled
  BY DEF RunInv
<1>1. /\ ui.at = "register" /\ ui' = Ready
      /\ futures' = IF Pending(ui.job) THEN futures \cup {ui.job} ELSE futures
      /\ UNCHANGED <<stores, kept, bound, queue, events, results, signature, home, raised, work,
         submitted, reopens, rollbacks, inTime>>
  BY DEF Register
<1>2. \A j : Working(j)' <=> Working(j)
  BY <1>1 DEF Working, InQueue
<1>3. ui' \in Uis /\ ui'.at = "ready" /\ ui'.job = NoJob /\ ui'.rows = <<>>
  BY <1>0, <1>1, ThreadsTyped DEF Ready
<1>4. \A k, X : ~Has(ui'.rows, k, X)
  BY <1>3, NoRows
<1>5. ui.job \in JobIds /\ (Working(ui.job) => Pending(ui.job))
  BY <1>0, <1>1, ThreadsTyped DEF Numbered, Working, Pending
<1>6. TypeOK'
  BY <1>0, <1>1, <1>3, <1>5 DEF TypeOK
<1>7. Numbered'
  BY <1>0, <1>1, <1>3, <1>4 DEF Numbered
<1>8. OnePlace'
  BY <1>0, <1>1, <1>3 DEF OnePlace
<1>9. Reachable'
  BY <1>0, <1>1, <1>2, <1>3, <1>5 DEF Reachable
<1>10. Cancelled'
  BY <1>0, <1>1, <1>2, <1>3 DEF Cancelled
<1> QED
  BY <1>6, <1>7, <1>8, <1>9, <1>10 DEF RunInv

LEMMA KeepsCancelWithdrawn ==
    ASSUME RunInv, NEW j \in JobIds, Cancel(j), j \in futures, InQueue(j)
    PROVE  RunInv'
<1> USE DEF session, runtime, jobsData, bounds
<1>0. TypeOK /\ Numbered /\ OnePlace /\ Reachable /\ Cancelled
  BY DEF RunInv
<1>1. /\ ui.at = "ready" /\ bound \in Stores /\ Has(stores[bound], j, Active)
      /\ raised' = IF j \in events THEN raised \cup {j} ELSE raised
      /\ inTime' = IF Undecided(j) THEN inTime \cup {j} ELSE inTime
      /\ UNCHANGED <<kept, bound, events, signature, home, work, ui, submitted, reopens, rollbacks>>
  BY <1>0 DEF Cancel, Serving, TypeOK
<1>2. queue' = Drop(queue, {j}) /\ futures' = futures \ {j} /\ Write(bound, j, "cancelled")
  BY DEF Cancel
<1>3. /\ queue' \in Seq(JobIds)
      /\ \A a \in DOMAIN queue' : \E b \in DOMAIN queue : queue'[a] = queue[b] /\ queue[b] # j
      /\ \A a, c \in DOMAIN queue' : a # c => queue'[a] # queue'[c]
  <2>1. queue \in Seq(JobIds) /\ \A b, d \in DOMAIN queue : b # d => queue[b] # queue[d]
    BY <1>0 DEF TypeOK, OnePlace
  <2> DEFINE T == {j}
             rest == Drop(queue, T)
  <2> HIDE DEF T
  <2>2. /\ rest \in Seq(JobIds)
        /\ \A a \in DOMAIN rest : \E b \in DOMAIN queue : rest[a] = queue[b] /\ queue[b] \notin T
        /\ \A a, c \in DOMAIN rest : a # c =>
              \E b, d \in DOMAIN queue : b # d /\ rest[a] = queue[b] /\ rest[c] = queue[d]
    BY <2>1, DropLeaves
  <2> HIDE DEF rest
  <2>3. \A a, c \in DOMAIN rest : a # c => rest[a] # rest[c]
    BY <2>1, <2>2
  <2>4. queue' = rest
    BY <1>2 DEF rest, T
  <2> QED
    BY <2>2, <2>3, <2>4 DEF T
<1>4. results' \subseteq results /\ Wrote(bound, j, "cancelled")
  BY <1>0, <1>1, <1>2, WriteEffect DEF Write, Statuses, Active, Terminal
<1>5. /\ stores' \in [Stores -> AllRows]
      /\ \A s \in Stores : stores'[s] = stores[s] \/ Len(stores'[s]) <= MaxSnapshots
      /\ \A s \in Stores : \A k : Has(stores'[s], k, Statuses) => (Has(stores[s], k, Statuses) \/ k = j)
      /\ \A s \in Stores : \A k : Has(stores'[s], k, Terminal) => (Has(stores[s], k, Terminal) \/ k = j)
      /\ \A s \in Stores : \A k : Has(stores'[s], k, {"completed"}) => Has(stores[s], k, {"completed"})
  <2>1. Updated(j, "cancelled")
    BY <1>0, <1>1, <1>4, WroteUpdates
  <2>2. "cancelled" \notin {"completed"}
    OBVIOUS
  <2> QED
    BY <2>1, <2>2 DEF Updated
<1>6. work.job # NoJob => \A i \in DOMAIN queue' : queue'[i] # work.job
  BY <1>0, <1>1, <1>3 DEF OnePlace
<1>7. \A a, c \in DOMAIN queue' : queue'[a] = queue'[c] => a = c
  BY <1>3
<1>8. work.job # j
  BY <1>0, ThreadsTyped DEF OnePlace, InQueue
<1>9. \A k : Working(k)' => Working(k) /\ k # j
  BY <1>1, <1>3, <1>8 DEF Working, InQueue
<1>10. Undecided(j) => Working(j)
  BY DEF Undecided, Working
<1>11. j \in 1..submitted
  <2>1. Has(stores[bound], j, Statuses)
    BY <1>1, HasMore, SetsHas
  <2> QED
    BY <1>0, <1>1, <2>1 DEF Numbered
<1>12. Working(j) => j \in events /\ j \notin results
      /\ \A s \in Stores : ~Has(stores[s], j, {"completed"})
  <2>1. ASSUME NEW s \in Stores, Has(stores[s], j, {"completed"}), Working(j) PROVE FALSE
    <3>1. Has(stores[s], j, Terminal)
      BY <2>1, HasMore, SetsHas
    <3> QED
      BY <1>0, <2>1, <3>1 DEF Reachable
  <2> QED
    BY <1>0, <2>1 DEF Reachable
<1>13. TypeOK'
  BY <1>0, <1>1, <1>2, <1>3, <1>4, <1>5 DEF TypeOK
<1>14. Numbered'
  BY <1>0, <1>1, <1>2, <1>3, <1>4, <1>5 DEF Numbered
<1>15. OnePlace'
  BY <1>0, <1>1, <1>3, <1>6 DEF OnePlace
<1>16. Reachable'
  BY <1>0, <1>1, <1>2, <1>4, <1>5, <1>9 DEF Reachable
<1>17. Cancelled'
  BY <1>0, <1>1, <1>4, <1>5, <1>8, <1>9, <1>10, <1>12 DEF Cancelled
<1> QED
  BY <1>13, <1>14, <1>15, <1>16, <1>17 DEF RunInv

LEMMA KeepsCancelAsked ==
    ASSUME RunInv, NEW j \in JobIds, Cancel(j), ~(j \in futures /\ InQueue(j))
    PROVE  RunInv'
<1> USE DEF session, runtime, jobsData, bounds
<1>0. TypeOK /\ Numbered /\ OnePlace /\ Reachable /\ Cancelled
  BY DEF RunInv
<1>1. /\ ui.at = "ready" /\ bound \in Stores /\ Has(stores[bound], j, Active)
      /\ raised' = IF j \in events THEN raised \cup {j} ELSE raised
      /\ inTime' = IF Undecided(j) THEN inTime \cup {j} ELSE inTime
      /\ UNCHANGED <<kept, bound, events, signature, home, work, ui, submitted, reopens, rollbacks>>
  BY <1>0 DEF Cancel, Serving, TypeOK
<1>2. UNCHANGED <<queue, futures>> /\ Write(bound, j, "cancelling")
  BY DEF Cancel
<1>3. results' \subseteq results /\ Wrote(bound, j, "cancelling")
  BY <1>0, <1>1, <1>2, WriteEffect DEF Write, Statuses, Active, Terminal
<1>4. /\ stores' \in [Stores -> AllRows]
      /\ \A s \in Stores : stores'[s] = stores[s] \/ Len(stores'[s]) <= MaxSnapshots
      /\ \A s \in Stores : \A k : Has(stores'[s], k, Statuses) => (Has(stores[s], k, Statuses) \/ k = j)
      /\ \A s \in Stores : \A k : Has(stores'[s], k, Terminal) => (Has(stores[s], k, Terminal))
      /\ \A s \in Stores : \A k : Has(stores'[s], k, {"completed"}) => Has(stores[s], k, {"completed"})
  <2>1. Updated(j, "cancelling")
    BY <1>0, <1>1, <1>3, WroteUpdates
  <2>2. "cancelling" \notin Terminal /\ "cancelling" \notin {"completed"}
    BY DEF Terminal
  <2> QED
    BY <2>1, <2>2 DEF Updated
<1>5. Undecided(j) => Working(j) /\ ~(work.job = j /\ work.at = "completed")
  BY <1>0 DEF Undecided, Working, OnePlace, InQueue
<1>6. \A k : Working(k)' <=> Working(k)
  BY <1>1, <1>2 DEF Working, InQueue
<1>7. j \in 1..submitted
  <2>1. Has(stores[bound], j, Statuses)
    BY <1>1, HasMore, SetsHas
  <2> QED
    BY <1>0, <1>1, <2>1 DEF Numbered
<1>8. Working(j) => j \in events /\ j \notin results
      /\ \A s \in Stores : ~Has(stores[s], j, {"completed"})
  <2>1. ASSUME NEW s \in Stores, Has(stores[s], j, {"completed"}), Working(j) PROVE FALSE
    <3>1. Has(stores[s], j, Terminal)
      BY <2>1, HasMore, SetsHas
    <3> QED
      BY <1>0, <2>1, <3>1 DEF Reachable
  <2> QED
    BY <1>0, <2>1 DEF Reachable
<1>9. TypeOK'
  BY <1>0, <1>1, <1>2, <1>3, <1>4 DEF TypeOK
<1>10. Numbered'
  BY <1>0, <1>1, <1>2, <1>3, <1>4, <1>7 DEF Numbered
<1>11. OnePlace'
  BY <1>0, <1>1, <1>2 DEF OnePlace
<1>12. Reachable'
  BY <1>0, <1>1, <1>2, <1>3, <1>4, <1>6 DEF Reachable
<1>13. Cancelled'
  BY <1>0, <1>1, <1>3, <1>4, <1>5, <1>6, <1>8 DEF Cancelled
<1> QED
  BY <1>9, <1>10, <1>11, <1>12, <1>13 DEF RunInv

LEMMA KeepsCancel == ASSUME RunInv, NEW j \in JobIds, Cancel(j) PROVE RunInv'
BY KeepsCancelWithdrawn, KeepsCancelAsked

LEMMA KeepsPopResult ==
    ASSUME RunInv, NEW j \in JobIds, PopResult(j)
    PROVE  RunInv'
<1> USE DEF session, runtime, jobsData, bounds
<1>0. TypeOK /\ Numbered /\ OnePlace /\ Reachable /\ Cancelled
  BY DEF RunInv
<1>1. /\ ui.at = "ready" /\ bound # NoStore /\ Has(stores[bound], j, {"completed"}) /\ j \in results
      /\ results' = results \ {j} /\ UNCHANGED <<stores, kept, bound, queue, futures, events,
         signature, home, raised, work, submitted, reopens, rollbacks, inTime>>
  BY DEF PopResult, Serving
<1>2. \A k : Working(k)' <=> Working(k)
  BY <1>1 DEF Working, InQueue
<1>3. ui' = [Ready EXCEPT !.at = "dismiss", !.job = j]
  BY DEF PopResult
<1>4. ui' \in Uis /\ ui'.at = "dismiss" /\ ui'.job = j /\ ui'.rows = <<>>
  BY <1>0, <1>3, ThreadsTyped DEF Ready, Uis
<1>5. \A k, X : ~Has(ui'.rows, k, X)
  BY <1>4, NoRows
<1>6. TypeOK'
  BY <1>0, <1>1, <1>4 DEF TypeOK
<1>7. Numbered'
  BY <1>0, <1>1, <1>3, <1>5 DEF Numbered
<1>8. OnePlace'
  BY <1>0, <1>1, <1>3 DEF OnePlace
<1>9. Reachable'
  BY <1>0, <1>1, <1>2, <1>3 DEF Reachable
<1>10. Cancelled'
  BY <1>0, <1>1, <1>2, <1>3 DEF Cancelled
<1> QED
  BY <1>6, <1>7, <1>8, <1>9, <1>10 DEF RunInv

LEMMA KeepsDismiss ==
    ASSUME RunInv, NEW j \in JobIds, Dismiss(j)
    PROVE  RunInv'
<1> USE DEF session, runtime, jobsData, bounds
<1>0. TypeOK /\ Numbered /\ OnePlace /\ Reachable /\ Cancelled
  BY DEF RunInv
<1>1. /\ bound # NoStore /\ (ui.at = "dismiss" \/ ui.at = "ready")
         /\ Has(stores[bound], j, Terminal) /\ ui' = Ready
      /\ UNCHANGED <<kept, bound, queue, signature, home, raised, work, submitted, reopens,
         rollbacks, inTime>>
  BY DEF Dismiss
<1>2. Forget({j})
  BY DEF Dismiss
<1>3. /\ stores' \in [Stores -> AllRows]
      /\ \A s \in Stores : Len(stores'[s]) <= Len(stores[s]) /\ Len(stores'[s]) \in Nat
         /\ Len(stores[s]) \in Nat
      /\ \A s \in Stores : \A k, X : Has(stores'[s], k, X) => Has(stores[s], k, X)
  <2>1. stores \in [Stores -> AllRows] /\ bound \in Stores
    BY <1>0, <1>1 DEF TypeOK
  <2> DEFINE rest == Drop(stores[bound], RowsOf({j}))
  <2>2. rest \in AllRows /\ Len(rest) <= Len(stores[bound]) /\ \A k, X : Has(rest, k, X)
        => Has(stores[bound], k, X)
    BY <2>1, RowsDropped
  <2>3. stores' = [stores EXCEPT ![bound] = rest]
    BY <1>2 DEF Forget
  <2> HIDE DEF rest
  <2>4. stores' \in [Stores -> AllRows] /\ stores'[bound] = rest /\ \A s \in Stores : s # bound
        => stores'[s] = stores[s]
    BY <2>1, <2>2, <2>3
  <2>5. \A s \in Stores : Len(stores[s]) \in Nat /\ Len(stores'[s]) \in Nat
    BY <2>1, <2>4, RowsTyped
  <2> QED
    BY <2>2, <2>4, <2>5
<1>4. results' = results \ {j} /\ futures' = futures \ {j} /\ events' = events \ {j}
  BY <1>2 DEF Forget
<1>5. \A k : Working(k)' <=> Working(k)
  BY <1>1 DEF Working, InQueue
<1>6. ui' \in Uis /\ ui'.at = "ready" /\ ui'.job = NoJob /\ ui'.rows = <<>>
  BY <1>0, <1>1, ThreadsTyped DEF Ready
<1>7. \A k, X : ~Has(ui'.rows, k, X)
  BY <1>6, NoRows
<1>8. bound \in Stores /\ ~Working(j)
  BY <1>0, <1>1 DEF TypeOK, Reachable
<1>9. TypeOK'
  BY <1>0, <1>1, <1>3, <1>4, <1>5, <1>6, ExportAssumption DEF TypeOK
<1>10. Numbered'
  BY <1>0, <1>1, <1>3, <1>4, <1>6, <1>7 DEF Numbered
<1>11. OnePlace'
  BY <1>0, <1>1, <1>6 DEF OnePlace
<1>12. Reachable'
  BY <1>0, <1>1, <1>3, <1>4, <1>5, <1>6, <1>8 DEF Reachable
<1>13. Cancelled'
  BY <1>0, <1>1, <1>3, <1>4, <1>5, <1>6 DEF Cancelled
<1> QED
  BY <1>9, <1>10, <1>11, <1>12, <1>13 DEF RunInv

LEMMA KeepsDismissTerminal ==
    ASSUME RunInv, DismissTerminal
    PROVE  RunInv'
<1> USE DEF session, runtime, jobsData, bounds
<1>0. TypeOK /\ Numbered /\ OnePlace /\ Reachable /\ Cancelled
  BY DEF RunInv
<1>1. /\ ui.at = "ready" /\ bound # NoStore /\ UNCHANGED <<kept, bound, queue, signature, home,
         raised, work, ui, submitted, reopens, rollbacks, inTime>>
  BY DEF DismissTerminal, Serving
<1>2. Forget({j \in JobIds : Has(stores[bound], j, Terminal) /\ j \notin results})
  BY DEF DismissTerminal
<1>3. /\ stores' \in [Stores -> AllRows]
      /\ \A s \in Stores : Len(stores'[s]) <= Len(stores[s]) /\ Len(stores'[s]) \in Nat
         /\ Len(stores[s]) \in Nat
      /\ \A s \in Stores : \A k, X : Has(stores'[s], k, X) => Has(stores[s], k, X)
  <2>1. stores \in [Stores -> AllRows] /\ bound \in Stores
    BY <1>0, <1>1 DEF TypeOK
  <2> DEFINE rest == Drop(stores[bound], RowsOf({j \in JobIds : Has(stores[bound], j, Terminal)
        /\ j \notin results}))
  <2>2. rest \in AllRows /\ Len(rest) <= Len(stores[bound]) /\ \A k, X : Has(rest, k, X)
        => Has(stores[bound], k, X)
    BY <2>1, RowsDropped
  <2>3. stores' = [stores EXCEPT ![bound] = rest]
    BY <1>2 DEF Forget
  <2> HIDE DEF rest
  <2>4. stores' \in [Stores -> AllRows] /\ stores'[bound] = rest /\ \A s \in Stores : s # bound
        => stores'[s] = stores[s]
    BY <2>1, <2>2, <2>3
  <2>5. \A s \in Stores : Len(stores[s]) \in Nat /\ Len(stores'[s]) \in Nat
    BY <2>1, <2>4, RowsTyped
  <2> QED
    BY <2>2, <2>4, <2>5
<1>4. /\ results' \subseteq results
      /\ futures' \subseteq futures /\ events' \subseteq events
      /\ \A j \in JobIds : ~Has(stores[bound], j, Terminal) => (j \in futures => j \in futures')
         /\ (j \in events => j \in events')
  BY <1>2 DEF Forget
<1>5. \A j : Working(j)' <=> Working(j)
  BY <1>1 DEF Working, InQueue
<1>6. bound \in Stores /\ \A j \in JobIds : Working(j) => ~Has(stores[bound], j, Terminal)
  BY <1>0, <1>1 DEF TypeOK, Reachable
<1>7. TypeOK'
  BY <1>0, <1>1, <1>3, <1>4, ExportAssumption DEF TypeOK
<1>8. Numbered'
  BY <1>0, <1>1, <1>3, <1>4 DEF Numbered
<1>9. OnePlace'
  BY <1>0, <1>1 DEF OnePlace
<1>10. Reachable'
  BY <1>0, <1>1, <1>3, <1>4, <1>5, <1>6 DEF Reachable
<1>11. Cancelled'
  BY <1>0, <1>1, <1>3, <1>4, <1>5 DEF Cancelled
<1> QED
  BY <1>7, <1>8, <1>9, <1>10, <1>11 DEF RunInv

LEMMA KeepsTake ==
    ASSUME RunInv, Take
    PROVE  RunInv'
<1> USE DEF session, runtime, jobsData, bounds
<1>0. TypeOK /\ Numbered /\ OnePlace /\ Reachable /\ Cancelled
  BY DEF RunInv
<1>1. /\ work.at = "idle" /\ UNCHANGED <<stores, kept, bound, futures, events, results, signature,
         home, raised, ui, submitted, reopens, rollbacks, inTime>>
  BY DEF Take
<1>2. /\ queue # <<>> /\ queue \in Seq(JobIds) /\ queue' = Tail(queue)
      /\ work' = [Resting EXCEPT !.at = "start", !.job = Head(queue)]
  BY <1>0 DEF Take, TypeOK
<1>3. /\ Head(queue) \in JobIds /\ queue' \in Seq(JobIds)
      /\ \E i \in DOMAIN queue : queue[i] = Head(queue)
      /\ \A i \in DOMAIN queue' : i \in Nat /\ i + 1 \in DOMAIN queue /\ queue'[i] = queue[i + 1]
         /\ queue[i + 1] # Head(queue)
  <2>1. Len(queue) \in Nat /\ Len(queue) # 0 /\ DOMAIN queue = 1..Len(queue)
    BY <1>2
  <2>2. 1 \in DOMAIN queue /\ Head(queue) = queue[1] /\ queue[1] \in JobIds
    BY <1>2, <2>1
  <2>3. /\ queue' \in Seq(JobIds) /\ DOMAIN queue' = 1..Len(queue) - 1
        /\ \A i \in 1..Len(queue) - 1 : queue'[i] = queue[i + 1]
    BY <1>2, <2>1
  <2>4. \A i \in DOMAIN queue' : i \in Nat /\ i + 1 \in DOMAIN queue /\ i + 1 # 1
        /\ queue'[i] = queue[i + 1]
    BY <2>1, <2>3
  <2>5. \A a, b \in DOMAIN queue : queue[a] = queue[b] => a = b
    BY <1>0 DEF OnePlace
  <2> QED
    BY <2>2, <2>3, <2>4, <2>5
<1>4. work' \in Works /\ work'.at = "start" /\ work'.job = Head(queue)
  BY <1>2, <1>3, <1>0, ThreadsTyped DEF Resting, Works
<1>5. \A j : Working(j)' => Working(j)
  BY <1>1, <1>3, <1>4 DEF Working, InQueue
<1>6. Head(queue) \in 1..submitted
  BY <1>0, <1>3 DEF Numbered
<1>7. \A a, c \in DOMAIN queue' : queue'[a] = queue'[c] => a = c
  <2>1. \A a, b \in DOMAIN queue : queue[a] = queue[b] => a = b
    BY <1>0 DEF OnePlace
  <2> QED
    BY <1>3, <2>1
<1>8. TypeOK'
  BY <1>0, <1>1, <1>2, <1>4 DEF TypeOK
<1>9. Numbered'
  BY <1>0, <1>1, <1>2 DEF Numbered
<1>10. OnePlace'
  BY <1>0, <1>1, <1>2, ThreadsTyped DEF OnePlace
<1>11. Reachable'
  BY <1>0, <1>1, <1>5 DEF Reachable
<1>12. Cancelled'
  BY <1>0, <1>1, <1>2, <1>5 DEF Cancelled
<1> QED
  BY <1>8, <1>9, <1>10, <1>11, <1>12 DEF RunInv

LEMMA KeepsCheck ==
    ASSUME RunInv, Check
    PROVE  RunInv'
<1> USE DEF session, runtime, jobsData, bounds
<1>0. TypeOK /\ Numbered /\ OnePlace /\ Reachable /\ Cancelled
  BY DEF RunInv
<1>1. /\ work.at = "check" /\ UNCHANGED <<stores, kept, bound, queue, futures, events, results,
         signature, home, raised, ui, submitted, reopens, rollbacks, inTime>>
  BY DEF Check
<1>2. /\ work' \in Works /\ work'.job = work.job /\ (work'.at = "cancelled" \/ work'.at = "work")
  BY <1>0, WorkAt DEF Check, Goto, TypeOK
<1>3. work.job # NoJob
  BY <1>0, <1>1 DEF OnePlace
<1>4. \A j : Working(j)' <=> Working(j)
  BY <1>1, <1>2, <1>3 DEF Working, InQueue
<1>5. TypeOK'
  BY <1>0, <1>1, <1>2 DEF TypeOK
<1>6. Numbered'
  BY <1>0, <1>1, <1>2 DEF Numbered
<1>7. OnePlace'
  BY <1>0, <1>1, <1>2 DEF OnePlace
<1>8. Reachable'
  BY <1>0, <1>1, <1>4 DEF Reachable
<1>9. Cancelled'
  BY <1>0, <1>1, <1>2, <1>4 DEF Cancelled
<1> QED
  BY <1>5, <1>6, <1>7, <1>8, <1>9 DEF RunInv

LEMMA KeepsWorkReturns ==
    ASSUME RunInv, WorkReturns
    PROVE  RunInv'
<1> USE DEF session, runtime, jobsData, bounds
<1>0. TypeOK /\ Numbered /\ OnePlace /\ Reachable /\ Cancelled
  BY DEF RunInv
<1>1. /\ work.at = "work" /\ UNCHANGED <<stores, kept, bound, queue, futures, events, results,
         signature, home, raised, ui, submitted, reopens, rollbacks, inTime>>
  BY DEF WorkReturns
<1>2. /\ work' \in Works /\ work'.job = work.job /\ (work'.at = "last")
  BY <1>0, WorkAt DEF WorkReturns, Goto, TypeOK
<1>3. work.job # NoJob
  BY <1>0, <1>1 DEF OnePlace
<1>4. \A j : Working(j)' <=> Working(j)
  BY <1>1, <1>2, <1>3 DEF Working, InQueue
<1>5. TypeOK'
  BY <1>0, <1>1, <1>2 DEF TypeOK
<1>6. Numbered'
  BY <1>0, <1>1, <1>2 DEF Numbered
<1>7. OnePlace'
  BY <1>0, <1>1, <1>2 DEF OnePlace
<1>8. Reachable'
  BY <1>0, <1>1, <1>4 DEF Reachable
<1>9. Cancelled'
  BY <1>0, <1>1, <1>2, <1>4 DEF Cancelled
<1> QED
  BY <1>5, <1>6, <1>7, <1>8, <1>9 DEF RunInv

LEMMA KeepsWorkRaises ==
    ASSUME RunInv, WorkRaises
    PROVE  RunInv'
<1> USE DEF session, runtime, jobsData, bounds
<1>0. TypeOK /\ Numbered /\ OnePlace /\ Reachable /\ Cancelled
  BY DEF RunInv
<1>1. /\ work.at = "work" /\ UNCHANGED <<stores, kept, bound, queue, futures, events, results,
         signature, home, raised, ui, submitted, reopens, rollbacks, inTime>>
  BY DEF WorkRaises
<1>2. /\ work' \in Works /\ work'.job = work.job /\ (work'.at = "failed")
  BY <1>0, WorkAt DEF WorkRaises, Goto, TypeOK
<1>3. work.job # NoJob
  BY <1>0, <1>1 DEF OnePlace
<1>4. \A j : Working(j)' <=> Working(j)
  BY <1>1, <1>2, <1>3 DEF Working, InQueue
<1>5. TypeOK'
  BY <1>0, <1>1, <1>2 DEF TypeOK
<1>6. Numbered'
  BY <1>0, <1>1, <1>2 DEF Numbered
<1>7. OnePlace'
  BY <1>0, <1>1, <1>2 DEF OnePlace
<1>8. Reachable'
  BY <1>0, <1>1, <1>4 DEF Reachable
<1>9. Cancelled'
  BY <1>0, <1>1, <1>2, <1>4 DEF Cancelled
<1> QED
  BY <1>5, <1>6, <1>7, <1>8, <1>9 DEF RunInv

LEMMA KeepsLastCheck ==
    ASSUME RunInv, LastCheck
    PROVE  RunInv'
<1> USE DEF session, runtime, jobsData, bounds
<1>0. TypeOK /\ Numbered /\ OnePlace /\ Reachable /\ Cancelled
  BY DEF RunInv
<1>1. /\ work.at = "last" /\ UNCHANGED <<stores, kept, bound, queue, futures, events, results,
         signature, home, raised, ui, submitted, reopens, rollbacks, inTime>>
  BY DEF LastCheck
<1>2. /\ work' \in Works /\ work'.job = work.job
         /\ (work'.at = "cancelled" \/ work'.at = "completed")
      /\ (work'.at = "completed" => work.job \notin raised)
  BY <1>0, WorkAt DEF LastCheck, Goto, TypeOK
<1>3. work.job # NoJob
  BY <1>0, <1>1 DEF OnePlace
<1>4. \A j : Working(j)' <=> Working(j)
  BY <1>1, <1>2, <1>3 DEF Working, InQueue
<1>5. work'.at = "completed" => work.job \notin inTime
  BY <1>0, <1>1, <1>2, <1>3 DEF Cancelled, Working
<1>6. TypeOK'
  BY <1>0, <1>1, <1>2 DEF TypeOK
<1>7. Numbered'
  BY <1>0, <1>1, <1>2 DEF Numbered
<1>8. OnePlace'
  BY <1>0, <1>1, <1>2 DEF OnePlace
<1>9. Reachable'
  BY <1>0, <1>1, <1>4 DEF Reachable
<1>10. Cancelled'
  BY <1>0, <1>1, <1>2, <1>4, <1>5 DEF Cancelled
<1> QED
  BY <1>6, <1>7, <1>8, <1>9, <1>10 DEF RunInv

LEMMA KeepsStartKnown ==
    ASSUME RunInv, Start, Known
    PROVE  RunInv'
<1> USE DEF session, runtime, jobsData, bounds
<1>0. TypeOK /\ Numbered /\ OnePlace /\ Reachable /\ Cancelled
  BY DEF RunInv
<1>1. /\ work.at = "start" /\ UNCHANGED <<kept, bound, queue, futures, events, signature, home,
         raised, ui, submitted, reopens, rollbacks, inTime>>
  BY DEF Start
<1>2. Write(home[work.job], work.job, "running") /\ Goto("check")
  BY DEF Start
<1>3. /\ work' \in Works /\ work'.job = work.job /\ work'.at = "check"
  BY <1>0, <1>2, WorkAt DEF Goto, TypeOK
<1>4. work.job # NoJob
  BY <1>0, <1>1 DEF OnePlace
<1>5. work.job \in JobIds /\ home[work.job] \in Stores /\ work.job \in 1..submitted
  BY <1>0, <1>4, ThreadsTyped DEF Numbered
<1>6. \A j : Working(j)' <=> Working(j)
  BY <1>1, <1>3, <1>4 DEF Working, InQueue
<1>7. results' \subseteq results /\ Wrote(home[work.job], work.job, "running")
  BY <1>0, <1>2, <1>5, WriteEffect DEF Write, Statuses, Active
<1>8. /\ stores' \in [Stores -> AllRows]
      /\ \A s \in Stores : stores'[s] = stores[s] \/ Len(stores'[s]) <= MaxSnapshots
      /\ \A s \in Stores : \A k : Has(stores'[s], k, Statuses)
         => (Has(stores[s], k, Statuses) \/ k = work.job)
      /\ \A s \in Stores : \A k : Has(stores'[s], k, Terminal) => (Has(stores[s], k, Terminal))
      /\ \A s \in Stores : \A k : Has(stores'[s], k, {"completed"})
         => (Has(stores[s], k, {"completed"}))
  <2>1. Updated(work.job, "running")
    BY <1>0, <1>5, <1>7, WroteUpdates
  <2>2. "running" \notin Terminal /\ "running" \notin {"completed"}
    BY DEF Terminal
  <2> QED
    BY <2>1, <2>2 DEF Updated
<1>9. TypeOK'
  BY <1>0, <1>1, <1>3, <1>7, <1>8 DEF TypeOK
<1>10. Numbered'
  BY <1>0, <1>1, <1>3, <1>4, <1>7, <1>8 DEF Numbered
<1>11. OnePlace'
  BY <1>0, <1>1, <1>3 DEF OnePlace
<1>12. Reachable'
  BY <1>0, <1>1, <1>6, <1>7, <1>8 DEF Reachable
<1>13. Cancelled'
  BY <1>0, <1>1, <1>3, <1>6, <1>7, <1>8 DEF Cancelled
<1> QED
  BY <1>9, <1>10, <1>11, <1>12, <1>13 DEF RunInv

LEMMA KeepsStartUnknown ==
    ASSUME RunInv, Start, ~Known
    PROVE  RunInv'
<1> USE DEF session, runtime, jobsData, bounds
<1>0. TypeOK /\ Numbered /\ OnePlace /\ Reachable /\ Cancelled
  BY DEF RunInv
<1>1. /\ work.at = "start" /\ UNCHANGED <<stores, kept, bound, queue, futures, events, results,
         signature, home, raised, ui, submitted, reopens, rollbacks, inTime>>
  BY DEF Start
<1>2. /\ work' \in Works /\ work'.job = work.job /\ work'.at = "settle"
  BY <1>0, WorkAt DEF Start, Goto, TypeOK
<1>3. work.job # NoJob
  BY <1>0, <1>1 DEF OnePlace
<1>4. \A j : Working(j)' => Working(j)
  BY <1>1, <1>2 DEF Working, InQueue
<1>5. TypeOK'
  BY <1>0, <1>1, <1>2 DEF TypeOK
<1>6. Numbered'
  BY <1>0, <1>1, <1>2 DEF Numbered
<1>7. OnePlace'
  BY <1>0, <1>1, <1>2 DEF OnePlace
<1>8. Reachable'
  BY <1>0, <1>1, <1>4 DEF Reachable
<1>9. Cancelled'
  BY <1>0, <1>1, <1>2, <1>4 DEF Cancelled
<1> QED
  BY <1>5, <1>6, <1>7, <1>8, <1>9 DEF RunInv

LEMMA KeepsStart == ASSUME RunInv, Start PROVE RunInv'
BY KeepsStartKnown, KeepsStartUnknown

LEMMA KeepsReportUnknown ==
    ASSUME RunInv, Report, ~Known
    PROVE  RunInv'
<1> USE DEF session, runtime, jobsData, bounds
<1>0. TypeOK /\ Numbered /\ OnePlace /\ Reachable /\ Cancelled
  BY DEF RunInv
<1>1. /\ work.at = "work" /\ UNCHANGED <<stores, kept, bound, queue, futures, events, results,
         signature, home, raised, ui, submitted, reopens, rollbacks, inTime>>
  BY DEF Report
<1>2. /\ work' \in Works /\ work'.job = work.job /\ work'.at = "failed"
  BY <1>0, WorkAt DEF Report, Goto, TypeOK
<1>3. work.job # NoJob
  BY <1>0, <1>1 DEF OnePlace
<1>4. \A j : Working(j)' <=> Working(j)
  BY <1>1, <1>2 DEF Working, InQueue
<1>5. TypeOK'
  BY <1>0, <1>1, <1>2 DEF TypeOK
<1>6. Numbered'
  BY <1>0, <1>1, <1>2 DEF Numbered
<1>7. OnePlace'
  BY <1>0, <1>1, <1>2 DEF OnePlace
<1>8. Reachable'
  BY <1>0, <1>1, <1>4 DEF Reachable
<1>9. Cancelled'
  BY <1>0, <1>1, <1>2, <1>4 DEF Cancelled
<1> QED
  BY <1>5, <1>6, <1>7, <1>8, <1>9 DEF RunInv

LEMMA KeepsReportEnded ==
    ASSUME RunInv, Report, Known, Has(stores[home[work.job]], work.job, Terminal)
    PROVE  RunInv'
<1> USE DEF session, runtime, jobsData, bounds
<1>0. TypeOK /\ Numbered /\ OnePlace /\ Reachable /\ Cancelled
  BY DEF RunInv
<1>1. /\ work.at = "work" /\ UNCHANGED <<stores, kept, bound, queue, futures, events, results,
         signature, home, raised, ui, submitted, reopens, rollbacks, inTime>>
  BY DEF Report
<1>2. /\ work' \in Works /\ work'.job = work.job /\ work'.at = "work"
  <2>1. work.reports + 1 \in 0..MaxReports
    BY <1>0, ThreadsTyped, ExportAssumption DEF Report
  <2> QED
    BY <1>0, <2>1 DEF Report, TypeOK, Works
<1>3. work.job # NoJob
  BY <1>0, <1>1 DEF OnePlace
<1>4. \A j : Working(j)' <=> Working(j)
  BY <1>1, <1>2 DEF Working, InQueue
<1>5. TypeOK'
  BY <1>0, <1>1, <1>2 DEF TypeOK
<1>6. Numbered'
  BY <1>0, <1>1, <1>2 DEF Numbered
<1>7. OnePlace'
  BY <1>0, <1>1, <1>2 DEF OnePlace
<1>8. Reachable'
  BY <1>0, <1>1, <1>4 DEF Reachable
<1>9. Cancelled'
  BY <1>0, <1>1, <1>2, <1>4 DEF Cancelled
<1> QED
  BY <1>5, <1>6, <1>7, <1>8, <1>9 DEF RunInv

LEMMA KeepsReportProgress ==
    ASSUME RunInv, Report, Known, ~Has(stores[home[work.job]], work.job, Terminal)
    PROVE  RunInv'
<1> USE DEF session, runtime, jobsData, bounds
<1>0. TypeOK /\ Numbered /\ OnePlace /\ Reachable /\ Cancelled
  BY DEF RunInv
<1>1. /\ work.at = "work" /\ UNCHANGED <<kept, bound, queue, futures, events, signature, home,
         raised, ui, submitted, reopens, rollbacks, inTime>>
  BY DEF Report
<1>2. Write(home[work.job], work.job, IF work.job \in raised THEN "cancelling" ELSE "running")
  BY DEF Report
<1>3. /\ work' \in Works /\ work'.job = work.job /\ work'.at = "check"
  <2>1. work.reports + 1 \in 0..MaxReports
    BY <1>0, ThreadsTyped, ExportAssumption DEF Report
  <2> QED
    BY <1>0, <2>1 DEF Report, TypeOK, Works
<1>4. work.job # NoJob
  BY <1>0, <1>1 DEF OnePlace
<1>5. work.job \in JobIds /\ home[work.job] \in Stores /\ work.job \in 1..submitted
  BY <1>0, <1>4, ThreadsTyped DEF Numbered
<1>6. \A j : Working(j)' <=> Working(j)
  BY <1>1, <1>3, <1>4 DEF Working, InQueue
<1>7. results' \subseteq results /\ \E status \in Active : Wrote(home[work.job], work.job, status)
  <2>1. (IF work.job \in raised THEN "cancelling" ELSE "running") \in Active
        /\ (IF work.job \in raised THEN "cancelling" ELSE "running") \in Statuses
    BY DEF Active, Statuses
  <2> DEFINE status == IF work.job \in raised THEN "cancelling" ELSE "running"
  <2> HIDE DEF status
  <2>2. Write(home[work.job], work.job, status) /\ status \in Active /\ status \in Statuses
    BY <1>2, <2>1 DEF status
  <2> QED
    BY <1>0, <1>5, <2>2, WriteEffect DEF Write
<1>8. /\ stores' \in [Stores -> AllRows]
      /\ \A s \in Stores : stores'[s] = stores[s] \/ Len(stores'[s]) <= MaxSnapshots
      /\ \A s \in Stores : \A k : Has(stores'[s], k, Statuses)
         => (Has(stores[s], k, Statuses) \/ k = work.job)
      /\ \A s \in Stores : \A k : Has(stores'[s], k, Terminal) => (Has(stores[s], k, Terminal))
      /\ \A s \in Stores : \A k : Has(stores'[s], k, {"completed"})
         => (Has(stores[s], k, {"completed"}))
  <2>1. PICK status \in Active : Wrote(home[work.job], work.job, status)
    BY <1>7
  <2>2. Updated(work.job, status)
    BY <1>0, <1>5, <2>1, WroteUpdates
  <2>3. status \notin Terminal /\ status \notin {"completed"}
    BY DEF Active, Terminal
  <2> QED
    BY <2>2, <2>3 DEF Updated
<1>9. TypeOK'
  BY <1>0, <1>1, <1>3, <1>7, <1>8 DEF TypeOK
<1>10. Numbered'
  BY <1>0, <1>1, <1>3, <1>4, <1>7, <1>8 DEF Numbered
<1>11. OnePlace'
  BY <1>0, <1>1, <1>3 DEF OnePlace
<1>12. Reachable'
  BY <1>0, <1>1, <1>6, <1>7, <1>8 DEF Reachable
<1>13. Cancelled'
  BY <1>0, <1>1, <1>3, <1>6, <1>7, <1>8 DEF Cancelled
<1> QED
  BY <1>9, <1>10, <1>11, <1>12, <1>13 DEF RunInv

LEMMA KeepsReport == ASSUME RunInv, Report PROVE RunInv'
BY KeepsReportUnknown, KeepsReportEnded, KeepsReportProgress

LEMMA KeepsEndKnown ==
    ASSUME RunInv, End, Known
    PROVE  RunInv'
<1> USE DEF session, runtime, jobsData, bounds
<1>0. TypeOK /\ Numbered /\ OnePlace /\ Reachable /\ Cancelled
  BY DEF RunInv
<1>1. /\ work.at \in {"cancelled", "failed", "completed"}
         /\ UNCHANGED <<kept, bound, queue, futures, events, signature, home, raised, ui, submitted,
         reopens, rollbacks, inTime>>
  BY DEF End
<1>2. WriteWith(home[work.job], work.job, work.at,
      IF work.at = "completed" THEN results \cup {work.job} ELSE results)
  BY DEF End
<1>3. /\ work' \in Works /\ work'.job = work.job /\ work'.at = "pop"
  BY <1>0, WorkAt DEF End, Goto, TypeOK
<1>4. work.job # NoJob
  BY <1>0, <1>1 DEF OnePlace
<1>5. work.job \in JobIds /\ home[work.job] \in Stores /\ work.job \in 1..submitted
  BY <1>0, <1>4, ThreadsTyped DEF Numbered
<1>6. \A j : Working(j)' => Working(j) /\ j # work.job
  BY <1>0, <1>1, <1>3, <1>4 DEF Working, InQueue, OnePlace
<1>7. Wrote(home[work.job], work.job, work.at)
      /\ \A j \in results' : j \in results \/ (j = work.job /\ work.at = "completed")
  <2> DEFINE given == IF work.at = "completed" THEN results \cup {work.job} ELSE results
  <2>1. work.at \in Statuses
    BY <1>1 DEF Statuses, Terminal
  <2>2. \A j \in given : j \in results \/ (j = work.job /\ work.at = "completed")
    OBVIOUS
  <2>3. WriteWith(home[work.job], work.job, work.at, given)
    BY <1>2
  <2> HIDE DEF given
  <2> QED
    BY <1>0, <1>5, <2>1, <2>2, <2>3, WriteEffect
<1>8. /\ stores' \in [Stores -> AllRows]
      /\ \A s \in Stores : stores'[s] = stores[s] \/ Len(stores'[s]) <= MaxSnapshots
      /\ \A s \in Stores : \A k : Has(stores'[s], k, Statuses)
         => (Has(stores[s], k, Statuses) \/ k = work.job)
      /\ \A s \in Stores : \A k : Has(stores'[s], k, Terminal)
         => (Has(stores[s], k, Terminal) \/ k = work.job)
      /\ \A s \in Stores : \A k : Has(stores'[s], k, {"completed"})
         => (Has(stores[s], k, {"completed"}) \/ (k = work.job /\ work.at = "completed"))
  <2>1. Updated(work.job, work.at)
    BY <1>0, <1>5, <1>7, WroteUpdates
  <2>2. work.at \in {"completed"} => work.at = "completed"
    OBVIOUS
  <2> QED
    BY <2>1, <2>2 DEF Updated
<1>9. TypeOK'
  BY <1>0, <1>1, <1>3, <1>5, <1>7, <1>8 DEF TypeOK
<1>10. Numbered'
  BY <1>0, <1>1, <1>3, <1>4, <1>7, <1>8 DEF Numbered
<1>11. OnePlace'
  BY <1>0, <1>1, <1>3 DEF OnePlace
<1>12. Reachable'
  BY <1>0, <1>1, <1>6, <1>7, <1>8 DEF Reachable
<1>13. Cancelled'
  BY <1>0, <1>1, <1>3, <1>6, <1>7, <1>8 DEF Cancelled
<1> QED
  BY <1>9, <1>10, <1>11, <1>12, <1>13 DEF RunInv

LEMMA KeepsEndUnknown ==
    ASSUME RunInv, End, ~Known
    PROVE  RunInv'
<1> USE DEF session, runtime, jobsData, bounds
<1>0. TypeOK /\ Numbered /\ OnePlace /\ Reachable /\ Cancelled
  BY DEF RunInv
<1>1. /\ work.at \in {"cancelled", "failed", "completed"}
         /\ UNCHANGED <<stores, kept, bound, queue, futures, events, signature, home, raised, ui,
         submitted, reopens, rollbacks, inTime>>
  BY DEF End
<1>2. \A j \in results' : j \in results \/ (j = work.job /\ work.at = "completed")
  BY DEF End
<1>3. /\ work' \in Works /\ work'.job = work.job /\ work'.at = "pop"
  BY <1>0, WorkAt DEF End, Goto, TypeOK
<1>4. work.job # NoJob
  BY <1>0, <1>1 DEF OnePlace
<1>5. work.job \in JobIds /\ work.job \in 1..submitted
  BY <1>0, <1>4, ThreadsTyped DEF Numbered
<1>6. \A j : Working(j)' => Working(j) /\ j # work.job
  BY <1>0, <1>1, <1>3, <1>4 DEF Working, InQueue, OnePlace
<1>7. TypeOK'
  BY <1>0, <1>1, <1>2, <1>3, <1>5 DEF TypeOK
<1>8. Numbered'
  BY <1>0, <1>1, <1>2, <1>3, <1>4 DEF Numbered
<1>9. OnePlace'
  BY <1>0, <1>1, <1>3 DEF OnePlace
<1>10. Reachable'
  BY <1>0, <1>1, <1>2, <1>6 DEF Reachable
<1>11. Cancelled'
  BY <1>0, <1>1, <1>2, <1>3, <1>6 DEF Cancelled
<1> QED
  BY <1>7, <1>8, <1>9, <1>10, <1>11 DEF RunInv

LEMMA KeepsEnd == ASSUME RunInv, End PROVE RunInv'
BY KeepsEndKnown, KeepsEndUnknown

LEMMA KeepsPopEvent ==
    ASSUME RunInv, PopEvent
    PROVE  RunInv'
<1> USE DEF session, runtime, jobsData, bounds
<1>0. TypeOK /\ Numbered /\ OnePlace /\ Reachable /\ Cancelled
  BY DEF RunInv
<1>1. /\ work.at = "pop" /\ events' = events \ {work.job}
         /\ UNCHANGED <<stores, kept, bound, queue, futures, results, signature, home, raised, ui,
         submitted, reopens, rollbacks, inTime>>
  BY DEF PopEvent
<1>2. /\ work' \in Works /\ work'.job = work.job /\ work'.at = "settle"
  BY <1>0, WorkAt DEF PopEvent, Goto, TypeOK
<1>3. work.job # NoJob
  BY <1>0, <1>1 DEF OnePlace
<1>4. \A j : Working(j)' => Working(j) /\ j # work.job
  BY <1>0, <1>1, <1>2, <1>3 DEF Working, InQueue, OnePlace
<1>5. TypeOK'
  BY <1>0, <1>1, <1>2 DEF TypeOK
<1>6. Numbered'
  BY <1>0, <1>1, <1>2 DEF Numbered
<1>7. OnePlace'
  BY <1>0, <1>1, <1>2 DEF OnePlace
<1>8. Reachable'
  BY <1>0, <1>1, <1>4 DEF Reachable
<1>9. Cancelled'
  BY <1>0, <1>1, <1>2, <1>4 DEF Cancelled
<1> QED
  BY <1>5, <1>6, <1>7, <1>8, <1>9 DEF RunInv

LEMMA KeepsSettle ==
    ASSUME RunInv, Settle
    PROVE  RunInv'
<1> USE DEF session, runtime, jobsData, bounds
<1>0. TypeOK /\ Numbered /\ OnePlace /\ Reachable /\ Cancelled
  BY DEF RunInv
<1>1. /\ work.at = "settle" /\ futures' = futures \ {work.job} /\ work' = Resting
         /\ UNCHANGED <<stores, kept, bound, queue, events, results, signature, home, raised, ui,
         submitted, reopens, rollbacks, inTime>>
  BY DEF Settle
<1>2. /\ work' \in Works /\ work'.job = NoJob /\ work'.at = "idle"
  BY <1>0, <1>1, ThreadsTyped DEF Resting
<1>3. work.job # NoJob
  BY <1>0, <1>1 DEF OnePlace
<1>4. \A j : j # NoJob /\ Working(j)' => Working(j) /\ j # work.job
  BY <1>0, <1>1, <1>2, <1>3 DEF Working, InQueue, OnePlace
<1>5. \A j \in inTime : j # NoJob
  BY <1>0, ThreadsTyped DEF TypeOK
<1>6. TypeOK'
  BY <1>0, <1>1, <1>2 DEF TypeOK
<1>7. Numbered'
  BY <1>0, <1>1, <1>2 DEF Numbered
<1>8. OnePlace'
  BY <1>0, <1>1, <1>2 DEF OnePlace
<1>9. Reachable'
  BY <1>0, <1>1, <1>4, ThreadsTyped DEF Reachable
<1>10. Cancelled'
  BY <1>0, <1>1, <1>2, <1>4, <1>5 DEF Cancelled
<1> QED
  BY <1>6, <1>7, <1>8, <1>9, <1>10 DEF RunInv
-----------------------------------------------------------------------------
(* Any number of exports, dicts and changes of project.                    *)

LEMMA RunStart == Init => RunInv
<1> SUFFICES ASSUME Init PROVE RunInv
  OBVIOUS
<1>1. /\ stores = [s \in Stores |-> <<>>] /\ kept = 0 /\ bound = 0 /\ queue = <<>>
      /\ futures = {} /\ events = {} /\ results = {} /\ raised = {} /\ inTime = {}
      /\ signature = [j \in JobIds |-> NoSignature] /\ home = [j \in JobIds |-> NoStore]
      /\ work = Resting /\ ui = Ready /\ submitted = 0 /\ reopens = 0 /\ rollbacks = 0
  BY DEF Init
<1>2. /\ 0 \in Stores /\ 0 \in 0..MaxSubmitted /\ 0 \in 0..MaxReopens /\ 0 \in 0..MaxRollbacks
      /\ MaxSnapshots \in Nat /\ 1..0 = {}
  BY ExportAssumption DEF Stores
<1>3. Ready \in Uis /\ Resting \in Works
  <2>1. 0 \in 0..MaxReports
    BY ExportAssumption
  <2> QED
    BY <2>1, NoRows DEF Ready, Resting, Uis, Works
<1>4. /\ work.at = "idle" /\ work.job = NoJob /\ ui.at = "ready" /\ ui.job = NoJob /\ ui.rows = <<>>
  BY <1>1 DEF Ready, Resting
<1>5. /\ stores \in [Stores -> AllRows] /\ \A s \in Stores : stores[s] = <<>>
      /\ \A s \in Stores : Len(stores[s]) = 0
  BY <1>1, NoRows
<1>6. \A s \in Stores : \A k, X : ~Has(stores[s], k, X)
  BY <1>5, NoRows
<1>7. \A k, X : ~Has(ui.rows, k, X)
  BY <1>4, NoRows
<1>8. queue \in Seq(JobIds) /\ DOMAIN queue = {}
  BY <1>1
<1>9. TypeOK
  BY <1>1, <1>2, <1>3, <1>4, <1>5, <1>8 DEF TypeOK
<1>10. \A j \in JobIds : ~Working(j)
  BY <1>4, <1>8, ExportAssumption DEF Working, InQueue
<1>11. Numbered
  BY <1>1, <1>2, <1>4, <1>6, <1>7, <1>8 DEF Numbered
<1>12. OnePlace
  BY <1>4, <1>8 DEF OnePlace
<1>13. Reachable /\ Cancelled
  BY <1>1, <1>10 DEF Reachable, Cancelled
<1> QED
  BY <1>9, <1>11, <1>12, <1>13 DEF RunInv

LEMMA RunStep == RunInv /\ [Next]_vars => RunInv'
<1> SUFFICES ASSUME RunInv, [Next]_vars PROVE RunInv'
  OBVIOUS
<1>1. CASE Worker
  BY <1>1, KeepsTake, KeepsStart, KeepsCheck, KeepsReport, KeepsWorkReturns, KeepsWorkRaises,
     KeepsLastCheck, KeepsEnd, KeepsPopEvent, KeepsSettle DEF Worker
<1>2. CASE Script
  <2>1. ui.at = "dismiss" /\ Dismiss(ui.job) => RunInv'
    <3>1. TypeOK /\ Numbered
      BY DEF RunInv
    <3>2. SUFFICES ASSUME ui.at = "dismiss", Dismiss(ui.job) PROVE RunInv'
      OBVIOUS
    <3>3. Has(stores[bound], ui.job, Terminal) /\ bound \in Stores
      BY <3>1, <3>2 DEF Dismiss, TypeOK
    <3>4. ui.job \in JobIds
      <4>1. PICK i \in DOMAIN stores[bound] : stores[bound][i].job = ui.job
        BY <3>3 DEF Has
      <4>2. stores[bound] \in AllRows
        BY <3>1, <3>3 DEF TypeOK
      <4> QED
        BY <4>1, <4>2, RowsTyped
    <3> QED
      BY <3>2, <3>4, KeepsDismiss
  <2> QED
    BY <1>2, <2>1, KeepsRegister, KeepsRecoverRow, KeepsRecoverTrim, KeepsRollback DEF Script
<1>3. CASE User
  BY <1>3, KeepsConstruct, KeepsLeaveProject, KeepsDispatch, KeepsDismissTerminal, KeepsSubmit,
     KeepsCancel, KeepsPopResult, KeepsDismiss DEF User
<1>4. CASE UNCHANGED vars
  <2> USE <1>4 DEF vars
  <2>1. TypeOK /\ Numbered /\ OnePlace /\ Reachable /\ Cancelled
    BY DEF RunInv
  <2>2. \A j : Working(j)' <=> Working(j)
    BY DEF Working, InQueue
  <2>3. TypeOK'
    BY <2>1 DEF TypeOK
  <2>4. Numbered' /\ OnePlace'
    BY <2>1 DEF Numbered, OnePlace
  <2>5. Reachable' /\ Cancelled'
    BY <2>1, <2>2 DEF Reachable, Cancelled
  <2> QED
    BY <2>3, <2>4, <2>5 DEF RunInv
<1> QED
  BY <1>1, <1>2, <1>3, <1>4 DEF Next

LEMMA RunInvariant == Spec => []RunInv
BY RunStart, RunStep, PTL DEF Spec

\* Every variable keeps its type, and a dict that is in use is trimmed.
THEOREM ExportsTyped == Spec => []TypeOK
<1>1. RunInv => TypeOK
  BY DEF RunInv
<1> QED
  BY <1>1, RunInvariant, PTL

\* A cancel call that came before the run's last look at its event is honoured
\* in every interleaving of the page and the worker: the job does not complete
\* and leaves no file, also when the project is left or a command is rolled
\* back in between.
THEOREM CancelAlwaysWins == Spec => []CancelWins
<1>1. RunInv => CancelWins
  BY DEF RunInv, Cancelled, CancelWins
<1> QED
  BY <1>1, RunInvariant, PTL

-----------------------------------------------------------------------------
(* A session that stays in its project.                                    *)

\* A session that stays in its project: one manager, on the first dict.
StayInv ==
    /\ bound = 0
    /\ ui.at # "recover"
    /\ \A j \in 1..submitted : home[j] = 0
    /\ \A s \in Stores : s > rollbacks => stores[s] = <<>>
    /\ \A s \in Stores : OneRow(stores[s])
    /\ OneRow(ui.rows)

\* An end that is in a dict is not written over.
EndKept ==
    \A s \in Stores : \A j, X :
        Has(stores[s], j, Terminal) /\ Has(stores'[s], j, X) => Has(stores[s], j, X)

LEMMA StaysUntouched ==
    ASSUME StayInv, UNCHANGED <<stores, bound, home, rollbacks, submitted>>,
           ui'.at # "recover", OneRow(ui'.rows)
    PROVE  StayInv' /\ EndKept
BY DEF StayInv, EndKept, OneRow

LEMMA StaysWritten ==
    ASSUME TypeOK, StayInv, NEW j, NEW status, Wrote(0, j, status), ~Has(stores[0], j, Terminal),
           UNCHANGED <<bound, rollbacks>>, \A k \in 1..submitted' : home'[k] = 0,
           ui'.at # "recover", OneRow(ui'.rows)
    PROVE  StayInv' /\ EndKept
<1>1. 0 \in Stores /\ rollbacks \in Nat /\ Stores \subseteq Nat
  BY ExportAssumption DEF TypeOK, Stores
<1>2. \A s \in Stores : s # 0 => stores'[s] = stores[s]
  BY DEF Wrote
<1>3. \A s \in Stores : OneRow(stores'[s])
  BY <1>1, <1>2 DEF StayInv, Wrote
<1>4. \A s \in Stores : s > rollbacks' => stores'[s] = <<>>
  BY <1>1, <1>2 DEF StayInv
<1>5. EndKept
  <2> SUFFICES ASSUME NEW s \in Stores, NEW k, NEW X, Has(stores[s], k, Terminal),
        Has(stores'[s], k, X)
               PROVE  Has(stores[s], k, X)
    BY DEF EndKept
  <2>1. CASE s = 0
    BY <2>1 DEF Wrote
  <2>2. CASE s # 0
    BY <1>2, <2>2
  <2> QED
    BY <2>1, <2>2
<1>6. /\ bound' = 0 /\ ui'.at # "recover" /\ OneRow(ui'.rows)
      /\ \A k \in 1..submitted' : home'[k] = 0
  BY DEF StayInv
<1>7. \A s \in Stores : OneRow(stores[s])'
  BY <1>3 DEF OneRow
<1>8. OneRow(ui.rows)'
  BY <1>6 DEF OneRow
<1> QED
  BY <1>4, <1>5, <1>6, <1>7, <1>8 DEF StayInv

LEMMA StaysForgotten ==
    ASSUME TypeOK, StayInv, NEW removed, Forget(removed),
           UNCHANGED <<bound, home, rollbacks, submitted>>, ui'.at # "recover", OneRow(ui'.rows)
    PROVE  /\ StayInv' /\ EndKept
           /\ \A k, X : Has(stores'[0], k, X) <=> (k \notin removed /\ Has(stores[0], k, X))
<1> DEFINE rest == Drop(stores[0], RowsOf(removed))
<1>1. 0 \in Stores /\ rollbacks \in Nat /\ Stores \subseteq Nat /\ stores \in [Stores -> AllRows]
  BY ExportAssumption DEF TypeOK, Stores
<1>2. /\ \A k, X : Has(rest, k, X) <=> (k \notin removed /\ Has(stores[0], k, X))
      /\ OneRow(stores[0]) => OneRow(rest)
  BY <1>1, RowsDropped
<1>3. stores' = [stores EXCEPT ![0] = rest]
  BY DEF Forget, StayInv
<1> HIDE DEF rest
<1>4. stores'[0] = rest /\ \A s \in Stores : s # 0 => stores'[s] = stores[s]
  BY <1>1, <1>3
<1>5. \A s \in Stores : OneRow(stores'[s])
  BY <1>1, <1>2, <1>4 DEF StayInv
<1>6. \A s \in Stores : s > rollbacks' => stores'[s] = <<>>
  <2>1. \A s \in Stores : s > rollbacks => s # 0 /\ stores[s] = <<>>
    BY <1>1 DEF StayInv
  <2> QED
    BY <1>4, <2>1
<1>7. EndKept
  BY <1>2, <1>4 DEF EndKept
<1>8. (\A s \in Stores : OneRow(stores[s])') /\ OneRow(ui.rows)'
  BY <1>5 DEF OneRow
<1> QED
  BY <1>2, <1>4, <1>6, <1>7, <1>8 DEF StayInv

LEMMA StaysRolledBack ==
    ASSUME RunInv, StayInv, Rollback
    PROVE  StayInv' /\ EndKept
<1>1. TypeOK /\ OnePlace
  BY DEF RunInv
<1>2. /\ rollbacks \in Nat /\ stores \in [Stores -> AllRows] /\ rollbacks + 1 \in Stores
      /\ Stores \subseteq Nat /\ rollbacks + 1 > rollbacks /\ rollbacks + 1 # 0
  BY <1>1, ExportAssumption DEF Rollback, TypeOK, OnePlace, Stores
<1>3. /\ stores' = [stores EXCEPT ![rollbacks + 1] = ui.rows] /\ rollbacks' = rollbacks + 1
      /\ ui' = Ready /\ UNCHANGED <<bound, home, submitted>>
  BY DEF Rollback, jobsData
<1>4. ui'.at = "ready" /\ ui'.rows = <<>>
  BY <1>3 DEF Ready
<1>5. stores'[rollbacks + 1] = ui.rows /\ \A s \in Stores : s # rollbacks + 1
      => stores'[s] = stores[s]
  BY <1>2, <1>3
<1>6. \A s \in Stores : OneRow(stores'[s])
  BY <1>5 DEF StayInv
<1>7. \A s \in Stores : s > rollbacks' => stores'[s] = <<>>
  <2>1. \A s \in Stores : s > rollbacks + 1 => s # rollbacks + 1 /\ s > rollbacks
    BY <1>2
  <2>2. \A s \in Stores : s > rollbacks => stores[s] = <<>>
    BY DEF StayInv
  <2> QED
    BY <1>3, <1>5, <2>1, <2>2
<1>8. EndKept
  <2>1. \A k, X : ~Has(stores[rollbacks + 1], k, X)
    BY <1>2, NoRows DEF StayInv
  <2> QED
    BY <1>5, <2>1 DEF EndKept
<1>9. (\A s \in Stores : OneRow(stores[s])') /\ OneRow(ui.rows)'
  BY <1>4, <1>6, NoRows DEF OneRow
<1> QED
  BY <1>3, <1>4, <1>7, <1>8, <1>9 DEF StayInv

\* The job that is at work has its rows in the dict of the session.
LEMMA StaysAtWork ==
    ASSUME RunInv, StayInv, work.job # NoJob
    PROVE  /\ work.job \in JobIds /\ home[work.job] = 0 /\ 0 \in Stores
           /\ Working(work.job) => ~Has(stores[0], work.job, Terminal)
<1>1. TypeOK /\ Numbered /\ Reachable
  BY DEF RunInv
<1>2. work.job \in JobIds /\ work.job \in 1..submitted /\ 0 \in Stores
  BY <1>1, ThreadsTyped, ExportAssumption DEF Numbered, Stores
<1> QED
  BY <1>1, <1>2 DEF Reachable, StayInv

LEMMA StayStep ==
    ASSUME MaxReopens = 0, RunInv, StayInv, [Next]_vars
    PROVE  StayInv' /\ EndKept
<1> USE DEF session, runtime, jobsData, bounds
<1>1. TypeOK /\ Numbered /\ OnePlace /\ Reachable /\ bound = 0 /\ ui.at # "recover"
      /\ bound # NoStore
      /\ 0 \in Stores /\ OneRow(ui.rows) /\ OneRow(<<>>) /\ reopens = 0
  BY NoRows, ExportAssumption DEF RunInv, StayInv, TypeOK, Stores
<1>2. /\ Ready.at = "ready" /\ Ready.rows = <<>>
      /\ \A at \in {"register", "dismiss"} : \A j :
            LET u == [Ready EXCEPT !.at = at, !.job = j] IN u.at = at /\ u.rows = <<>>
  BY DEF Ready
<1>3. CASE Dispatch
  <2>1. ui' = [Ready EXCEPT !.at = "dispatch", !.rows = stores[kept]] /\ kept \in Stores
    BY <1>1, <1>3 DEF Dispatch, TypeOK
  <2>2. ui'.at = "dispatch" /\ ui'.rows = stores[kept]
    BY <2>1 DEF Ready
  <2>3. OneRow(ui'.rows)
    BY <2>1, <2>2 DEF StayInv
  <2> QED
    BY <1>3, <2>2, <2>3, StaysUntouched DEF Dispatch
<1>4. CASE Rollback
  BY <1>4, StaysRolledBack
<1>5. ASSUME NEW sig \in Signatures, Submit(sig) PROVE StayInv' /\ EndKept
  <2> DEFINE j == submitted + 1
  <2>1. /\ j \in JobIds /\ j \notin 1..submitted /\ submitted' = j /\ submitted \in Nat
        /\ home' = [home EXCEPT ![j] = 0] /\ Write(0, j, "pending")
           /\ UNCHANGED <<bound, rollbacks>>
        /\ ui' = [Ready EXCEPT !.at = "register", !.job = j]
    BY <1>1, <1>5, ExportAssumption DEF Submit, TypeOK, JobIds
  <2>2. Wrote(0, j, "pending")
    BY <1>1, <2>1, WriteEffect DEF Write, Statuses, Active
  <2>3. ~Has(stores[0], j, Terminal)
    <3>1. Has(stores[0], j, Terminal) => Has(stores[0], j, Statuses)
      BY HasMore, SetsHas
    <3> QED
      BY <1>1, <2>1, <3>1 DEF Numbered
  <2>4. \A k \in 1..submitted' : home'[k] = 0
    <3>1. home \in [JobIds -> Stores \cup {NoStore}] /\ \A k \in 1..submitted' : k \in JobIds
      BY <1>1, <2>1, ExportAssumption DEF TypeOK, JobIds
    <3>2. \A k \in 1..submitted' : k = j \/ k \in 1..submitted
      BY <2>1
    <3> QED
      BY <2>1, <3>1, <3>2 DEF StayInv
  <2>5. ui'.at # "recover" /\ OneRow(ui'.rows)
    BY <1>1, <1>2, <2>1
  <2> HIDE DEF j
  <2> QED
    BY <1>1, <2>1, <2>2, <2>3, <2>4, <2>5, StaysWritten
<1>6. ASSUME NEW j \in JobIds, Cancel(j) PROVE StayInv' /\ EndKept
  <2>1. /\ Has(stores[0], j, Active) /\ UNCHANGED <<bound, rollbacks, home, submitted, ui>>
        /\ Write(0, j, "cancelled") \/ Write(0, j, "cancelling")
    BY <1>1, <1>6 DEF Cancel
  <2>2. PICK status \in Statuses : Write(0, j, status)
    BY <2>1 DEF Statuses, Active, Terminal
  <2>3. Wrote(0, j, status)
    BY <1>1, <2>2, WriteEffect DEF Write
  <2>4. ~Has(stores[0], j, Terminal)
    BY <1>1, <2>1, HasOneStatus DEF StayInv
  <2> QED
    BY <1>1, <2>1, <2>3, <2>4, StaysWritten DEF StayInv
<1>7. ASSUME NEW j \in JobIds, PopResult(j) PROVE StayInv' /\ EndKept
  <2>1. UNCHANGED <<stores, bound, home, rollbacks, submitted>>
        /\ ui' = [Ready EXCEPT !.at = "dismiss", !.job = j]
    BY <1>7 DEF PopResult
  <2> QED
    BY <1>1, <1>2, <2>1, StaysUntouched
<1>8. ASSUME NEW j, Dismiss(j) PROVE StayInv' /\ EndKept
  <2>1. Forget({j}) /\ ui' = Ready /\ UNCHANGED <<bound, home, rollbacks, submitted>>
    BY <1>8 DEF Dismiss
  <2> QED
    BY <1>1, <1>2, <2>1, StaysForgotten
<1>9. CASE DismissTerminal
  <2>1. (\E removed : Forget(removed)) /\ UNCHANGED <<bound, home, rollbacks, submitted, ui>>
    BY <1>9 DEF DismissTerminal
  <2> QED
    BY <1>1, <2>1, StaysForgotten
<1>10. CASE Start \/ Report \/ End
  <2>1. /\ work.job # NoJob /\ work.at \in {"start", "work", "cancelled", "failed", "completed"}
        /\ UNCHANGED <<bound, home, rollbacks, submitted, ui>>
    BY <1>1, <1>10 DEF Start, Report, End, OnePlace
  <2>2. work.job \in JobIds /\ home[work.job] = 0 /\ ~Has(stores[0], work.job, Terminal)
    BY <2>1, StaysAtWork DEF Working
  <2>3. \/ UNCHANGED stores
        \/ \E status \in Statuses : \E given : WriteWith(0, work.job, status, given)
    <3>1. work.at \in {"cancelled", "failed", "completed"} => work.at \in Statuses
      BY DEF Statuses, Terminal
    <3>2. "running" \in Statuses /\ "cancelling" \in Statuses
      BY DEF Statuses, Active
    <3>3. Start \/ Report => UNCHANGED stores \/ \E status \in {"running",
          "cancelling"} : WriteWith(0, work.job, status, results)
      BY <2>2 DEF Start, Report, Write
    <3>4. End => UNCHANGED stores \/ \E given : WriteWith(0, work.job, work.at, given)
          /\ work.at \in Statuses
      BY <2>2, <3>1 DEF End
    <3> QED
      BY <1>10, <3>2, <3>3, <3>4
  <2>4. CASE UNCHANGED stores
    BY <1>1, <2>1, <2>4, StaysUntouched
  <2>5. ASSUME NEW status \in Statuses, NEW given, WriteWith(0, work.job, status, given)
        PROVE  StayInv' /\ EndKept
    <3>1. Wrote(0, work.job, status)
      BY <1>1, <2>2, <2>5, WriteEffect
    <3> QED
      BY <1>1, <2>1, <2>2, <3>1, StaysWritten DEF StayInv
  <2> QED
    BY <2>3, <2>4, <2>5
<1>11. CASE Register
  BY <1>1, <1>2, <1>11, StaysUntouched DEF Register
<1>12. CASE Take \/ Check \/ WorkReturns \/ WorkRaises \/ LastCheck \/ PopEvent \/ Settle
  <2>1. UNCHANGED <<stores, bound, home, rollbacks, submitted, ui>>
    BY <1>12 DEF Take, Check, WorkReturns, WorkRaises, LastCheck, PopEvent, Settle
  <2> QED
    BY <1>1, <2>1, StaysUntouched
<1>13. CASE UNCHANGED vars
  BY <1>1, <1>13, StaysUntouched DEF vars
<1>14. ~LeaveProject /\ ~Construct /\ ~RecoverRow /\ ~RecoverTrim
  BY <1>1 DEF LeaveProject, Construct, RecoverRow, RecoverTrim
<1> QED
  BY <1>3, <1>4, <1>5, <1>6, <1>7, <1>8, <1>9, <1>10, <1>11, <1>12, <1>13, <1>14
     DEF Next, Worker, Script, User

LEMMA StayStart == Init => StayInv
<1> SUFFICES ASSUME Init PROVE StayInv
  OBVIOUS
<1>1. /\ stores = [s \in Stores |-> <<>>] /\ bound = 0 /\ submitted = 0 /\ ui.at = "ready"
         /\ ui.rows = <<>>
  BY DEF Init, Ready
<1>2. 1..submitted = {}
  BY <1>1
<1> QED
  BY <1>1, <1>2, NoRows DEF StayInv

LEMMA StayInvariant == ASSUME MaxReopens = 0 PROVE Spec => [](RunInv /\ StayInv)
<1>1. Init => RunInv /\ StayInv
  BY RunStart, StayStart
<1>2. RunInv /\ StayInv /\ [Next]_vars => RunInv' /\ StayInv'
  BY RunStep, StayStep
<1> QED
  BY <1>1, <1>2, PTL DEF Spec

\* In a session that stays in its project no step writes over the end of a job:
\* neither a late report nor a cancel that comes when the job has ended.
THEOREM EndsStayFinal == ASSUME MaxReopens = 0 PROVE Spec => EndIsFinal
<1> DEFINE Final == \A s \in Stores, j \in JobIds : Has(stores[s], j, Terminal) =>
                       \A i \in DOMAIN stores'[s] :
                           stores'[s][i].job = j => Has(stores[s], j, {stores'[s][i].status})
<1>1. RunInv /\ StayInv /\ [Next]_vars => [Final]_vars
  <2> SUFFICES ASSUME RunInv, StayInv, [Next]_vars, NEW s \in Stores, NEW j \in JobIds,
                      Has(stores[s], j, Terminal), NEW i \in DOMAIN stores'[s],
                            stores'[s][i].job = j
               PROVE  Has(stores[s], j, {stores'[s][i].status})
    OBVIOUS
  <2>1. Has(stores'[s], j, {stores'[s][i].status})
    BY DEF Has
  <2> QED
    BY <2>1, StayStep DEF EndKept
<1> QED
  BY <1>1, StayInvariant, PTL DEF Spec, EndIsFinal

-----------------------------------------------------------------------------
(* ... and makes no more exports than a dict keeps.                        *)

\* With room for every snapshot, the list shows what runs and what was made.
ListInv ==
    /\ \A j \in JobIds : Working(j) => Has(stores[0], j, Active)
    /\ \A i, j \in JobIds : Working(i) /\ Working(j) /\ signature[i] = signature[j] => i = j
    /\ \A j \in results : Has(stores[0], j, {"completed"})
    /\ ui.at = "dismiss" => ui.job \notin results /\ Has(stores[0], ui.job, {"completed"})
\* A file leaves the runtime only into the page.
HandedOver == \A j \in results : j \notin results' => ui'.at = "dismiss" /\ ui'.job = j

LEMMA WorkingTogether ==
    ASSUME ListInv, UNCHANGED signature, \A j \in JobIds : Working(j)' => Working(j)
    PROVE  \A i, j \in JobIds : Working(i)' /\ Working(j)' /\ signature'[i] = signature'[j] => i = j
BY DEF ListInv

LEMMA ListUntouched ==
    ASSUME ListInv, UNCHANGED <<stores, signature, results>>,
           \A j \in JobIds : Working(j)' => Working(j),
           UNCHANGED ui \/ ui'.at # "dismiss"
    PROVE  ListInv' /\ HandedOver
<1>1. \A i, j \in JobIds : Working(i)' /\ Working(j)' /\ signature'[i] = signature'[j] => i = j
  BY WorkingTogether
<1> QED
  BY <1>1 DEF ListInv, HandedOver

\* The script or the worker writes an active status.
LEMMA ListActive ==
    ASSUME ListInv, NEW j \in JobIds, NEW status \in Active, WroteAll(0, j, status),
           ~Has(stores[0], j, Terminal), results' = results, UNCHANGED <<ui, signature>>,
           \A k \in JobIds : Working(k)' => Working(k)
    PROVE  ListInv' /\ HandedOver
<1>1. \A k \in JobIds : Working(k)' => Has(stores'[0], k, Active)
  BY DEF ListInv, WroteAll
<1>2. \A k : Has(stores[0], k, {"completed"}) => Has(stores'[0], k, {"completed"})
  BY HasMore, SetsHas DEF WroteAll
<1>3. \A i, k \in JobIds : Working(i)' /\ Working(k)' /\ signature'[i] = signature'[k] => i = k
  BY WorkingTogether
<1> QED
  BY <1>1, <1>2, <1>3 DEF ListInv, HandedOver

\* A job ends, and is no longer at work.
LEMMA ListEnded ==
    ASSUME ListInv, NEW j \in JobIds, NEW status \in Terminal, WroteAll(0, j, status),
           ~Has(stores[0], j, Terminal), UNCHANGED <<ui, signature>>,
           results' = results \/ (status = "completed" /\ results' = results \cup {j}),
           \A k \in JobIds : Working(k)' => Working(k) /\ k # j
    PROVE  ListInv' /\ HandedOver
<1>1. \A k \in JobIds : Working(k)' => Has(stores'[0], k, Active)
  BY DEF ListInv, WroteAll
<1>2. \A k : Has(stores[0], k, {"completed"}) => k # j /\ Has(stores'[0], k, {"completed"})
  BY HasMore, SetsHas DEF WroteAll
<1>3. \A i, k \in JobIds : Working(i)' /\ Working(k)' /\ signature'[i] = signature'[k] => i = k
  BY WorkingTogether
<1>4. \A k \in results' : Has(stores'[0], k, {"completed"})
  BY <1>2 DEF ListInv, WroteAll
<1>5. ui'.at = "dismiss" => ui'.job \notin results' /\ Has(stores'[0], ui'.job, {"completed"})
  BY <1>2 DEF ListInv
<1> QED
  BY <1>1, <1>3, <1>4, <1>5 DEF ListInv, HandedOver

LEMMA ListForgotten ==
    ASSUME TypeOK, StayInv, ListInv, NEW removed, Forget(removed),
          UNCHANGED <<signature, bound, home, rollbacks, submitted>>,
           ui'.at # "recover", OneRow(ui'.rows), ui'.at # "dismiss",
           \A j \in JobIds : Working(j)' => Working(j) /\ j \notin removed,
           removed \cap results = {}
    PROVE  ListInv' /\ HandedOver
<1>1. \A k, X : Has(stores'[0], k, X) <=> (k \notin removed /\ Has(stores[0], k, X))
  BY StaysForgotten
<1>2. results' = results
  BY DEF Forget
<1>3. \A i, k \in JobIds : Working(i)' /\ Working(k)' /\ signature'[i] = signature'[k] => i = k
  BY WorkingTogether
<1>4. \A k \in JobIds : Working(k)' => Has(stores'[0], k, Active)
  BY <1>1 DEF ListInv
<1>5. \A k \in results' : Has(stores'[0], k, {"completed"})
  BY <1>1, <1>2 DEF ListInv
<1> QED
  BY <1>2, <1>3, <1>4, <1>5 DEF ListInv, HandedOver

LEMMA ListStep ==
    ASSUME MaxReopens = 0, MaxSubmitted <= MaxSnapshots, RunInv, StayInv, ListInv, [Next]_vars
    PROVE  ListInv' /\ HandedOver
<1> USE DEF session, runtime, jobsData, bounds
<1>1. TypeOK /\ Numbered /\ OnePlace /\ Reachable /\ bound = 0 /\ ui.at # "recover"
      /\ bound # NoStore
      /\ 0 \in Stores /\ OneRow(ui.rows) /\ OneRow(<<>>) /\ reopens = 0 /\ OneRow(stores[0])
  BY NoRows, ExportAssumption DEF RunInv, StayInv, TypeOK, Stores
<1>2. Ready.at = "ready" /\ Ready.rows = <<>>
  BY DEF Ready
<1>3. CASE Dispatch \/ Rollback \/ Register
  <2> DEFINE Quiet == /\ UNCHANGED <<signature, results, queue, work>> /\ stores'[0] = stores[0]
                      /\ ui'.at # "dismiss"
  <2>1. ASSUME Dispatch PROVE Quiet
    <3>1. ui' = [Ready EXCEPT !.at = "dispatch", !.rows = stores[kept]]
          /\ UNCHANGED <<signature, results, queue, work, stores>>
      BY <2>1 DEF Dispatch
    <3>2. ui'.at = "dispatch"
      BY <3>1 DEF Ready
    <3> QED
      BY <3>1, <3>2
  <2>2. ASSUME Rollback PROVE Quiet
    <3>1. rollbacks + 1 \in Stores /\ rollbacks + 1 # 0 /\ stores \in [Stores -> AllRows]
      BY <1>1, <2>2, ExportAssumption DEF Rollback, TypeOK, OnePlace, Stores
    <3>2. stores' = [stores EXCEPT ![rollbacks + 1] = ui.rows] /\ ui' = Ready
          /\ UNCHANGED <<signature, results, queue, work>>
      BY <2>2 DEF Rollback
    <3>3. stores'[0] = stores[0]
      BY <1>1, <3>1, <3>2
    <3> QED
      BY <1>2, <3>2, <3>3
  <2>3. ASSUME Register PROVE Quiet
    BY <1>2, <2>3 DEF Register
  <2>4. Quiet
    BY <1>3, <2>1, <2>2, <2>3
  <2>5. \A j : Working(j)' <=> Working(j)
    BY <2>4 DEF Working, InQueue
  <2> QED
    BY <2>4, <2>5 DEF ListInv, HandedOver
<1>4. ASSUME NEW sig \in Signatures, Submit(sig) PROVE ListInv' /\ HandedOver
  <2> DEFINE j == submitted + 1
  <2>1. /\ j \in JobIds /\ j \notin 1..submitted /\ submitted \in Nat /\ queue \in Seq(JobIds)
        /\ signature \in [JobIds -> Signatures \cup {NoSignature}]
        /\ signature' = [signature EXCEPT ![j] = sig] /\ Write(0, j, "pending")
        /\ queue' = Append(queue, j) /\ UNCHANGED work
        /\ ui' = [Ready EXCEPT !.at = "register", !.job = j]
        /\ \A i \in JobIds : signature[i] = sig => ~Has(stores[0], i, Active)
    BY <1>1, <1>4, ExportAssumption DEF Submit, TypeOK, JobIds
  <2>2. WroteAll(0, j, "pending") /\ results' = results
    BY <1>1, <2>1, WriteEffect DEF Write, Statuses, Active
  <2>3. ui'.at # "dismiss"
    BY <2>1 DEF Ready
  <2>4. \A k \in JobIds : Working(k)' => Working(k) \/ k = j
    <3>1. \A i \in DOMAIN queue' : (i \in DOMAIN queue /\ queue'[i] = queue[i]) \/ queue'[i] = j
      BY <2>1
    <3> HIDE DEF j
    <3> QED
      BY <2>1, <3>1 DEF Working, InQueue
  <2> HIDE DEF j
  <2>5. \A k \in JobIds : signature'[k] = IF k = j THEN sig ELSE signature[k]
    BY <2>1
  <2>6. \A k \in JobIds : Working(k)' => Has(stores'[0], k, Active)
    BY <2>2, <2>4 DEF ListInv, WroteAll, Active
  <2>7. \A i, k \in JobIds : Working(i)' /\ Working(k)' /\ signature'[i] = signature'[k] => i = k
    BY <2>1, <2>4, <2>5 DEF ListInv
  <2>8. \A k \in results' : Has(stores'[0], k, {"completed"})
    <3>1. j \notin results
      BY <1>1, <2>1 DEF Numbered, j
    <3> QED
      BY <2>2, <3>1 DEF ListInv, WroteAll
  <2> QED
    BY <2>2, <2>3, <2>6, <2>7, <2>8 DEF ListInv, HandedOver
<1>5. ASSUME NEW j \in JobIds, Cancel(j) PROVE ListInv' /\ HandedOver
  <2>1. Has(stores[0], j, Active) /\ UNCHANGED <<signature, ui, work>>
    BY <1>1, <1>5 DEF Cancel
  <2>2. ~Has(stores[0], j, Terminal)
    BY <1>1, <2>1, HasOneStatus
  <2>3. CASE j \in futures /\ InQueue(j)
    <3>1. Write(0, j, "cancelled") /\ queue' = Drop(queue, {j})
      BY <1>1, <1>5, <2>3 DEF Cancel
    <3>2. WroteAll(0, j, "cancelled") /\ results' = results
      BY <1>1, <3>1, WriteEffect DEF Write, Statuses, Terminal
    <3>3. \A a \in DOMAIN queue' : \E b \in DOMAIN queue : queue'[a] = queue[b] /\ queue[b] # j
      <4> DEFINE T == {j}
                 rest == Drop(queue, T)
      <4> HIDE DEF T
      <4>1. \A a \in DOMAIN rest : \E b \in DOMAIN queue : rest[a] = queue[b] /\ queue[b] \notin T
        BY <1>1, DropLeaves DEF TypeOK
      <4> QED
        BY <3>1, <4>1 DEF T
    <3>4. work.job # j
      BY <1>1, <2>3, ThreadsTyped DEF OnePlace, InQueue
    <3>5. \A k \in JobIds : Working(k)' => Working(k) /\ k # j
      BY <2>1, <3>3, <3>4 DEF Working, InQueue
    <3> QED
      BY <2>1, <2>2, <3>2, <3>5, ListEnded DEF Terminal
  <2>4. CASE ~(j \in futures /\ InQueue(j))
    <3>1. Write(0, j, "cancelling") /\ UNCHANGED queue
      BY <1>1, <1>5, <2>4 DEF Cancel
    <3>2. WroteAll(0, j, "cancelling") /\ results' = results
      BY <1>1, <3>1, WriteEffect DEF Write, Statuses, Active
    <3>3. \A k \in JobIds : Working(k)' => Working(k)
      BY <2>1, <3>1 DEF Working, InQueue
    <3> QED
      BY <2>1, <2>2, <3>2, <3>3, ListActive DEF Active
  <2> QED
    BY <2>3, <2>4
<1>6. ASSUME NEW j \in JobIds, PopResult(j) PROVE ListInv' /\ HandedOver
  <2>1. /\ ui' = [Ready EXCEPT !.at = "dismiss", !.job = j] /\ results' = results \ {j}
        /\ UNCHANGED <<stores, signature, queue, work>> /\ Has(stores[0], j, {"completed"})
    BY <1>1, <1>6 DEF PopResult
  <2>2. ui'.at = "dismiss" /\ ui'.job = j
    BY <2>1 DEF Ready
  <2>3. \A k : Working(k)' <=> Working(k)
    BY <2>1 DEF Working, InQueue
  <2> QED
    BY <2>1, <2>2, <2>3 DEF ListInv, HandedOver
<1>7. ASSUME NEW j, Dismiss(j) PROVE ListInv' /\ HandedOver
  <2>1. /\ Forget({j}) /\ ui' = Ready /\ UNCHANGED <<bound, home, rollbacks, submitted, signature,
           queue, work>>
        /\ Has(stores[0], j, Terminal)
        /\ \/ ui.at = "dismiss" /\ ui.job = j
           \/ ~(Has(stores[0], j, {"completed"}) /\ j \in results)
    BY <1>1, <1>7 DEF Dismiss
  <2>2. j \notin results
    BY <2>1 DEF ListInv
  <2>3. \A k \in JobIds : Working(k)' => Working(k) /\ k \notin {j}
    BY <1>1, <2>1 DEF Working, InQueue, Reachable
  <2> QED
    BY <1>1, <1>2, <2>1, <2>2, <2>3, ListForgotten
<1>8. CASE DismissTerminal
  <2> DEFINE removed == {j \in JobIds : Has(stores[0], j, Terminal) /\ j \notin results}
  <2>1. Forget(removed) /\ UNCHANGED <<bound, home, rollbacks, submitted, signature, queue, work,
        ui>> /\ ui.at = "ready"
    BY <1>1, <1>8 DEF DismissTerminal, Serving
  <2>2. removed \cap results = {} /\ \A k \in removed : Has(stores[0], k, Terminal)
    OBVIOUS
  <2> HIDE DEF removed
  <2>3. \A k \in JobIds : Working(k)' => Working(k) /\ k \notin removed
    BY <1>1, <2>1, <2>2 DEF Working, InQueue, Reachable
  <2> QED
    BY <1>1, <2>1, <2>2, <2>3, ListForgotten
<1>9. CASE Start \/ Report
  <2>1. work.job # NoJob /\ work.at \in {"start", "work"} /\ UNCHANGED <<ui, signature, queue>>
    BY <1>1, <1>9 DEF Start, Report, OnePlace
  <2>2. work.job \in JobIds /\ home[work.job] = 0 /\ ~Has(stores[0], work.job, Terminal)
        /\ Working(work.job)
    BY <2>1, StaysAtWork DEF Working
  <2>3. Known
    BY <2>2 DEF ListInv, Has, Known, JobsOf
  <2>4. \E status \in {"running", "cancelling"} : Write(0, work.job, status)
    BY <1>9, <2>2, <2>3 DEF Start, Report
  <2>5. PICK status \in Active : Write(0, work.job, status)
    BY <2>4 DEF Active
  <2>6. WroteAll(0, work.job, status) /\ results' = results
    BY <1>1, <2>2, <2>5, WriteEffect DEF Write, Statuses
  <2>7. work'.job = work.job
    BY <1>1, <1>9, <2>2, <2>3 DEF Start, Report, Goto, TypeOK, Works
  <2>8. \A k \in JobIds : Working(k)' => Working(k)
    BY <2>1, <2>7 DEF Working, InQueue
  <2> QED
    BY <2>1, <2>2, <2>6, <2>8, ListActive
<1>10. CASE End
  <2>1. /\ work.job # NoJob /\ work.at \in {"cancelled", "failed", "completed"}
        /\ UNCHANGED <<ui, signature, queue>>
    BY <1>1, <1>10 DEF End, OnePlace
  <2>2. work.job \in JobIds /\ home[work.job] = 0 /\ ~Has(stores[0], work.job, Terminal)
        /\ Working(work.job)
    BY <2>1, StaysAtWork DEF Working
  <2>3. Known
    BY <2>2 DEF ListInv, Has, Known, JobsOf
  <2> DEFINE given == IF work.at = "completed" THEN results \cup {work.job} ELSE results
  <2>4. WriteWith(0, work.job, work.at, given)
    BY <1>10, <2>2, <2>3 DEF End
  <2>5. given = results \/ (work.at = "completed" /\ given = results \cup {work.job})
    OBVIOUS
  <2>6. work.at \in Terminal /\ work.at \in Statuses
    BY <2>1 DEF Terminal, Statuses
  <2> HIDE DEF given
  <2>7. WroteAll(0, work.job, work.at) /\ results' = given
    BY <1>1, <2>2, <2>4, <2>6, WriteEffect
  <2>8. work'.job = work.job /\ work'.at = "pop"
    BY <1>1, <1>10, WorkAt DEF End, Goto, TypeOK
  <2>9. \A k \in JobIds : Working(k)' => Working(k) /\ k # work.job
    BY <1>1, <2>1, <2>8 DEF Working, InQueue, OnePlace
  <2> QED
    BY <2>1, <2>2, <2>5, <2>6, <2>7, <2>9, ListEnded
<1>11. CASE Take
  <2>1. UNCHANGED <<stores, signature, results, ui>> /\ queue # <<>> /\ queue \in Seq(JobIds)
        /\ queue' = Tail(queue) /\ work'.job = Head(queue)
    BY <1>1, <1>11 DEF Take, TypeOK, Resting
  <2>2. /\ \E i \in DOMAIN queue : queue[i] = Head(queue)
        /\ \A i \in DOMAIN queue' : i + 1 \in DOMAIN queue /\ queue'[i] = queue[i + 1]
    <3>1. Len(queue) \in Nat /\ Len(queue) # 0 /\ DOMAIN queue = 1..Len(queue)
      BY <2>1
    <3>2. 1 \in DOMAIN queue /\ Head(queue) = queue[1]
      BY <2>1, <3>1
    <3>3. DOMAIN queue' = 1..Len(queue) - 1 /\ \A i \in 1..Len(queue) - 1 : queue'[i] = queue[i + 1]
      BY <2>1, <3>1
    <3> QED
      BY <3>1, <3>2, <3>3
  <2>3. \A k : Working(k)' => Working(k)
    BY <2>1, <2>2 DEF Working, InQueue
  <2> QED
    BY <2>1, <2>3, ListUntouched
<1>12. CASE Check \/ WorkReturns \/ WorkRaises \/ LastCheck \/ PopEvent
  <2>1. /\ UNCHANGED <<stores, signature, results, ui, queue>>
        /\ work.at \in {"check", "work", "last"} \/ (work.at = "pop" /\ work'.at = "settle")
        /\ work'.job = work.job
    BY <1>1, <1>12 DEF Check, WorkReturns, WorkRaises, LastCheck, PopEvent, Goto, TypeOK, Works
  <2>2. \A k : Working(k)' => Working(k)
    BY <2>1 DEF Working, InQueue
  <2> QED
    BY <2>1, <2>2, ListUntouched
<1>13. CASE Settle
  <2>1. UNCHANGED <<stores, signature, results, ui, queue>> /\ work'.job = NoJob
    BY <1>13 DEF Settle, Resting
  <2>2. \A k \in JobIds : Working(k)' => Working(k)
    BY <2>1, ExportAssumption DEF Working, InQueue
  <2> QED
    BY <2>1, <2>2, ListUntouched
<1>14. CASE UNCHANGED vars
  <2>1. \A k : Working(k)' <=> Working(k)
    BY <1>14 DEF vars, Working, InQueue
  <2> QED
    BY <1>14, <2>1, ListUntouched DEF vars
<1>15. ~LeaveProject /\ ~Construct /\ ~RecoverRow /\ ~RecoverTrim
  BY <1>1 DEF LeaveProject, Construct, RecoverRow, RecoverTrim
<1> QED
  BY <1>3, <1>4, <1>5, <1>6, <1>7, <1>8, <1>9, <1>10, <1>11, <1>12, <1>13, <1>14, <1>15
     DEF Next, Worker, Script, User

LEMMA ListInvariant ==
    ASSUME MaxReopens = 0, MaxSubmitted <= MaxSnapshots
    PROVE  Spec => [](RunInv /\ StayInv /\ ListInv)
<1>1. Init => ListInv
  <2> SUFFICES ASSUME Init PROVE ListInv
    OBVIOUS
  <2>1. queue = <<>> /\ work.job = NoJob /\ ui.at = "ready" /\ results = {}
    BY DEF Init, Resting, Ready
  <2>2. \A j \in JobIds : ~Working(j)
    BY <2>1, ExportAssumption DEF Working, InQueue
  <2> QED
    BY <2>1, <2>2 DEF ListInv
<1>2. RunInv /\ StayInv /\ ListInv /\ [Next]_vars => RunInv' /\ StayInv' /\ ListInv'
  BY RunStep, StayStep, ListStep
<1> QED
  BY <1>1, <1>2, RunStart, StayStart, PTL DEF Spec

\* In a session that stays in its project and makes no more exports than a dict
\* keeps, a request is worked on once at a time, also while a cancelled run has
\* not stopped.
THEOREM OneRunAtATime ==
    ASSUME MaxReopens = 0, MaxSubmitted <= MaxSnapshots PROVE Spec => []OneRunPerRequest
<1>1. ListInv => OneRunPerRequest
  BY DEF ListInv, OneRunPerRequest
<1> QED
  BY <1>1, ListInvariant, PTL

\* ... every file belongs to a completed job in the list ...
THEOREM FilesClaimable ==
    ASSUME MaxReopens = 0, MaxSubmitted <= MaxSnapshots PROVE Spec => []ResultsClaimable
<1>1. RunInv /\ StayInv /\ ListInv => ResultsClaimable
  <2> SUFFICES ASSUME RunInv, StayInv, ListInv, NEW j \in results
        PROVE Has(stores[home[j]], j, {"completed"})
    BY DEF ResultsClaimable
  <2>1. home[j] = 0
    BY DEF RunInv, Numbered, StayInv
  <2> QED
    BY <2>1 DEF ListInv
<1> QED
  BY <1>1, ListInvariant, PTL

\* ... and leaves the runtime only when the page takes it.
THEOREM FilesHandedOver ==
    ASSUME MaxReopens = 0, MaxSubmitted <= MaxSnapshots PROVE Spec => ResultsHandedOver
<1> DEFINE Handed == \A j \in results : j \notin results' =>
                        \/ ui'.at = "dismiss" /\ ui'.job = j
                        \/ submitted' # submitted
<1>1. RunInv /\ StayInv /\ ListInv /\ [Next]_vars => [Handed]_vars
  BY ListStep DEF HandedOver
<1> QED
  BY <1>1, ListInvariant, PTL DEF Spec, ResultsHandedOver

=============================================================================
