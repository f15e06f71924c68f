---------------------------- MODULE QbSyncProofs ----------------------------
(***************************************************************************)
(* Proofs about QbSync, for every set of rows, jobs and workers and any    *)
(* number of faults.  The inductive invariant says what a name and a reply *)
(* stand for: whatever a run has listed, read or been answered, however    *)
(* old it is by now, every record it holds for a row was entered under a   *)
(* name of that row, and a record created for a row is the one that the    *)
(* agent answers every further request for that row with.                  *)
(***************************************************************************)
EXTENDS QbSync, SequenceTheorems, TLAPS

RowStates == [name : Names, active : BOOLEAN, link : Nat]
Records == [kind : Kinds, name : Names, for : Rows \cup {NoRow}]
Entries == [row : Rows, name : Names]

JobStates ==
  [ status : {"none", "waiting", "active", "done", "failed"},
    holder : Workers \cup {NoWorker}, stalled : BOOLEAN, failed : SUBSET Rows ]

\* What a run holds between two of its steps, and while it stores an answer.
Walks ==
  [ at : {"read", "rows"}, job : Jobs, kind : Kinds \cup {"none"}, listed : SUBSET Nat,
    todo : SUBSET Entries, failed : SUBSET Rows ]

Saves ==
  [ at : {"save"}, job : Jobs, kind : Kinds, listed : SUBSET Nat, todo : SUBSET Entries,
    failed : SUBSET Rows, entry : Entries, record : Nat ]

SyncTypeOK ==
  /\ configured \in BOOLEAN
  /\ rows \in [Rows -> RowStates]
  /\ records \in Seq(Records)
  /\ queue \in Seq(Jobs)
  /\ jobs \in [Jobs -> JobStates]
  /\ runs \in [Workers -> {Idle} \cup Walks \cup Saves]
  /\ faults \in Nat

\* Record i is one that row r may be linked to.
Fits(i, r) ==
  /\ i \in DOMAIN records
  /\ records[i].kind = KindOf[r]
  /\ records[i].name \in NamesOf[r]

NamesKept == \A r \in Rows : rows[r].name \in NamesOf[r]

LinksFit == \A r \in Rows : rows[r].link # NoLink => Fits(rows[r].link, r)

RepliesFit ==
  \A a \in replies : \E r \in Rows : a[1] = <<KindOf[r], r>> /\ Fits(a[2], r)

CreatedAnswered ==
  \A i \in DOMAIN records :
    LET r == records[i].for IN r # NoRow => <<<<KindOf[r], r>>, i>> \in replies

\* What run has read was true of names and kinds when it was read, and is still.
RunFits(run) ==
  /\ \A i \in run.listed : i \in DOMAIN records /\ records[i].kind = run.kind
  /\ \A e \in run.todo : KindOf[e.row] = run.kind /\ e.name \in NamesOf[e.row]
  /\ run.at = "save" => run.entry \in run.todo /\ Fits(run.record, run.entry.row)

RunsFit == \A w \in Workers : runs[w] # Idle => RunFits(runs[w])

SyncInv ==
  /\ SyncTypeOK
  /\ NamesKept /\ LinksFit /\ RepliesFit /\ CreatedAnswered /\ RunsFit
  /\ NoSecondRecord
-----------------------------------------------------------------------------
\* Whatever fits a row goes on to fit it while records are only added.
RecordsStand == \A i \in DOMAIN records : i \in DOMAIN records' /\ records'[i] = records[i]

LEMMA FitsStands ==
  ASSUME RecordsStand, NEW i, NEW r, Fits(i, r)
  PROVE  Fits(i, r)'
BY DEF RecordsStand, Fits

LEMMA RunStands ==
  ASSUME RecordsStand, NEW run, RunFits(run)
  PROVE  RunFits(run)'
<1>1. \A i \in run.listed : i \in DOMAIN records' /\ records'[i].kind = run.kind
  BY DEF RecordsStand, RunFits
<1>2. run.at = "save" => Fits(run.record, run.entry.row)'
  BY FitsStands DEF RunFits
<1>3. QED
  BY <1>1, <1>2 DEF RunFits

\* A record is added at the end.
LEMMA RecordAdded ==
  ASSUME SyncTypeOK, NEW rec \in Records, records' = Append(records, rec)
  PROVE  /\ RecordsStand
         /\ records' \in Seq(Records)
         /\ Len(records) + 1 \in DOMAIN records' /\ records'[Len(records) + 1] = rec
         /\ DOMAIN records' = DOMAIN records \cup {Len(records) + 1}
         /\ Len(records) + 1 \in Nat /\ Len(records) + 1 \notin DOMAIN records
<1>1. records \in Seq(Records)
  BY DEF SyncTypeOK
<1>2. QED
  BY <1>1 DEF RecordsStand

-----------------------------------------------------------------------------
LEMMA SyncInvInit == SyncInit => SyncInv
<1> SUFFICES ASSUME SyncInit PROVE SyncInv
  OBVIOUS
<1>1. SyncTypeOK
  BY SyncAssumption DEF SyncInit, SyncTypeOK, RowStates, NoJob, JobStates, NoLink
<1>2. NamesKept /\ LinksFit
  BY DEF SyncInit, NamesKept, LinksFit
<1>3. RepliesFit /\ CreatedAnswered /\ NoSecondRecord
  BY DEF SyncInit, RepliesFit, CreatedAnswered, NoSecondRecord
<1>4. RunsFit
  BY DEF SyncInit, RunsFit
<1>5. QED
  BY <1>1, <1>2, <1>3, <1>4 DEF SyncInv

\* One run goes on to a state that fits; the queue and the jobs may change with it.
LEMMA RunMoves ==
  ASSUME SyncInv, NEW w \in Workers, NEW run \in {Idle} \cup Walks \cup Saves,
         run # Idle => RunFits(run), runs' = [runs EXCEPT ![w] = run],
         UNCHANGED <<configured, rows, records, replies>>,
         queue' \in Seq(Jobs), jobs' \in [Jobs -> JobStates], faults' \in Nat
  PROVE  SyncInv'
<1>1. SyncTypeOK'
  BY DEF SyncInv, SyncTypeOK
<1>2. NamesKept' /\ LinksFit'
  BY DEF SyncInv, NamesKept, LinksFit, Fits
<1>3. RepliesFit' /\ CreatedAnswered' /\ NoSecondRecord'
  BY DEF SyncInv, RepliesFit, CreatedAnswered, NoSecondRecord, Fits
<1>4. RecordsStand
  BY DEF RecordsStand
<1>5. RunsFit'
  BY <1>4, RunStands DEF SyncInv, SyncTypeOK, RunsFit
<1>6. QED
  BY <1>1, <1>2, <1>3, <1>5 DEF SyncInv

\* The queue and the jobs change, and no run.
LEMMA QueueMoves ==
  ASSUME SyncInv, UNCHANGED <<configured, rows, records, replies, runs>>,
         queue' \in Seq(Jobs), jobs' \in [Jobs -> JobStates], faults' \in Nat
  PROVE  SyncInv'
<1>1. SyncTypeOK'
  BY DEF SyncInv, SyncTypeOK
<1>2. NamesKept' /\ LinksFit' /\ RepliesFit'
  BY DEF SyncInv, NamesKept, LinksFit, RepliesFit, Fits
<1>3. CreatedAnswered' /\ NoSecondRecord'
  BY DEF SyncInv, CreatedAnswered, NoSecondRecord
<1>4. RunsFit'
  BY DEF SyncInv, RunsFit, RunFits, Fits
<1>5. QED
  BY <1>1, <1>2, <1>3, <1>4 DEF SyncInv

LEMMA RequestOK ==
  ASSUME SyncInv, NEW j \in Jobs, Request(j)
  PROVE  SyncInv'
<1>1. /\ queue' \in Seq(Jobs) /\ faults' \in Nat
      /\ UNCHANGED <<configured, rows, records, replies, runs>>
  BY DEF SyncInv, SyncTypeOK, Request
<1>2. jobs' \in [Jobs -> JobStates]
  BY DEF SyncInv, SyncTypeOK, Request, JobStates
<1>3. QED
  BY <1>1, <1>2, QueueMoves

LEMMA RequeuedType ==
  ASSUME SyncTypeOK, NEW j \in Jobs, Requeued(j)
  PROVE  queue' \in Seq(Jobs) /\ jobs' \in [Jobs -> JobStates]
<1>1. queue \in Seq(Jobs) /\ <<j>> \in Seq(Jobs)
  BY DEF SyncTypeOK
<1>2. queue' \in Seq(Jobs)
  BY <1>1, ConcatProperties DEF Requeued
<1>3. jobs \in [Jobs -> JobStates] /\ NoWorker \in Workers \cup {NoWorker}
  BY DEF SyncTypeOK
<1>4. CASE jobs[j].stalled
  <2>1. jobs' = [jobs EXCEPT ![j].status = "failed", ![j].holder = NoWorker]
    BY <1>4 DEF Requeued
  <2>2. QED
    BY <1>2, <1>3, <2>1 DEF JobStates
<1>5. CASE ~ jobs[j].stalled
  <2>. DEFINE row == [jobs[j] EXCEPT !.status = "waiting", !.holder = NoWorker, !.stalled = TRUE]
  <2>1. jobs' = [jobs EXCEPT ![j] = row]
    BY <1>3, <1>5 DEF Requeued, JobStates
  <2>2. row \in JobStates
    BY <1>3 DEF JobStates
  <2>. HIDE DEF row
  <2>3. QED
    BY <1>2, <1>3, <2>1, <2>2
<1>6. QED
  BY <1>4, <1>5

LEMMA LocksOK ==
  ASSUME SyncInv, NEW j \in Jobs, Reclaim(j) \/ LoseLock(j)
  PROVE  SyncInv'
<1>1. Requeued(j) /\ UNCHANGED <<configured, rows, records, replies, runs>> /\ faults' \in Nat
  BY DEF SyncInv, SyncTypeOK, Reclaim, LoseLock, Fault
<1>2. QED
  BY <1>1, RequeuedType, QueueMoves DEF SyncInv

-----------------------------------------------------------------------------
\* A run that is not idle walks over rows or stores an answer; what it holds fits.
LEMMA WalkOf ==
  ASSUME SyncInv, NEW w \in Workers, runs[w].at \in {"rows", "read"}
  PROVE  runs[w] \in Walks /\ runs[w] # Idle /\ RunFits(runs[w])
<1>1. runs[w] \in {Idle} \cup Walks \cup Saves
  BY DEF SyncInv, SyncTypeOK
<1>2. runs[w] # Idle /\ runs[w] \notin Saves
  BY DEF Idle, Saves
<1>3. QED
  BY <1>1, <1>2 DEF SyncInv, RunsFit

LEMMA SaveOf ==
  ASSUME SyncInv, NEW w \in Workers, At(w, "save")
  PROVE  runs[w] \in Saves /\ runs[w] # Idle /\ RunFits(runs[w])
<1>1. runs[w] \in {Idle} \cup Walks \cup Saves
  BY DEF SyncInv, SyncTypeOK
<1>2. runs[w] # Idle /\ runs[w] \notin Walks
  BY DEF Idle, Walks, At
<1>3. QED
  BY <1>1, <1>2 DEF SyncInv, RunsFit

LEMMA WalkShrinks ==
  ASSUME NEW run \in Walks, RunFits(run), NEW e \in run.todo
  PROVE  /\ Without(run, e) \in Walks /\ RunFits(Without(run, e))
         /\ Missed(run, e) \in Walks /\ RunFits(Missed(run, e))
         /\ Without(run, e) # Idle /\ Missed(run, e) # Idle
<1>1. Without(run, e) \in Walks /\ Missed(run, e) \in Walks
  BY DEF Without, Missed, Walks, Entries
<1>2. RunFits(Without(run, e)) /\ RunFits(Missed(run, e))
  BY DEF RunFits, Without, Missed, Walks
<1>3. Without(run, e) # Idle /\ Missed(run, e) # Idle
  BY <1>1 DEF Walks, Idle
<1>4. QED
  BY <1>1, <1>2, <1>3

LEMMA ResumedOK ==
  ASSUME NEW run \in Saves, RunFits(run)
  PROVE  /\ Resumed(run) \in Walks /\ RunFits(Resumed(run))
         /\ run.entry \in Resumed(run).todo
         /\ Resumed(Without(run, run.entry)) \in Walks
         /\ RunFits(Resumed(Without(run, run.entry)))
         /\ Resumed(Without(run, run.entry)) # Idle
<1>1. Resumed(run) \in Walks /\ RunFits(Resumed(run))
  BY DEF Resumed, Walks, Saves, RunFits
<1>2. run.entry \in Resumed(run).todo
  BY DEF Resumed, Saves, RunFits
<1> DEFINE rest == [run EXCEPT !.todo = run.todo \ {run.entry}]
<1>3. rest \in Saves /\ rest.todo \subseteq run.todo /\ rest.kind = run.kind /\ rest.listed = run.listed
  BY DEF Saves
<1> HIDE DEF rest
<1>4. Resumed(rest) \in Walks /\ RunFits(Resumed(rest))
  BY <1>3 DEF Resumed, Walks, Saves, RunFits
<1>5. Resumed(rest) # Idle
  BY DEF Resumed, Idle
<1>6. QED
  BY <1>1, <1>2, <1>4, <1>5 DEF rest, Without

\* The end of a run frees it, and its job keeps its type.
LEMMA EndOK ==
  ASSUME SyncInv, NEW w \in Workers, NEW status \in {"done", "failed"},
         runs[w] \in Walks, End(w, status),
         UNCHANGED <<configured, rows, records, replies, queue>>, faults' \in Nat
  PROVE  SyncInv'
<1>1. jobs \in [Jobs -> JobStates] /\ queue' \in Seq(Jobs)
  BY DEF SyncInv, SyncTypeOK
<1>2. runs[w].job \in Jobs /\ runs[w].failed \in SUBSET Rows
  BY DEF Walks
<1>3. jobs' \in [Jobs -> JobStates]
  <2>1. CASE jobs' = jobs
    BY <1>1, <2>1
  <2>2. CASE jobs' = [jobs EXCEPT ![runs[w].job].status = status,
                                  ![runs[w].job].holder = NoWorker,
                                  ![runs[w].job].failed = runs[w].failed]
    BY <1>1, <1>2, <2>2 DEF JobStates
  <2>3. QED
    BY <2>1, <2>2 DEF End
<1>4. runs' = [runs EXCEPT ![w] = Idle]
  BY DEF End
<1>5. QED
  BY <1>1, <1>3, <1>4, RunMoves

LEMMA EndsOK ==
  ASSUME SyncInv, NEW w \in Workers, ListFails(w) \/ Finish(w)
  PROVE  SyncInv'
<1>1. runs[w] \in Walks
  BY WalkOf DEF ListFails, Finish, Through, At
<1>2. UNCHANGED <<configured, rows, records, replies, queue>> /\ faults' \in Nat
  BY DEF ListFails, Finish, Fault, SyncInv, SyncTypeOK
<1>3. QED
  BY <1>1, <1>2, EndOK DEF ListFails, Finish

LEMMA TakeOK ==
  ASSUME SyncInv, NEW w \in Workers, Take(w)
  PROVE  SyncInv'
<1>1. queue \in Seq(Jobs) /\ queue # <<>> /\ jobs \in [Jobs -> JobStates] /\ faults' \in Nat
  BY DEF SyncInv, SyncTypeOK, Take
<1>2. Head(queue) \in Jobs /\ queue' \in Seq(Jobs)
  BY <1>1, HeadTailProperties DEF Take
<1>3. CASE configured
  <2>1. jobs' = [jobs EXCEPT ![Head(queue)].status = "active", ![Head(queue)].holder = w]
    BY <1>3 DEF Take
  <2>2. jobs' \in [Jobs -> JobStates]
    BY <1>1, <1>2, <2>1 DEF JobStates
  <2>3. Begin(Head(queue)) \in Walks /\ RunFits(Begin(Head(queue)))
    BY <1>2 DEF Begin, Walks, RunFits
  <2>4. runs' = [runs EXCEPT ![w] = Begin(Head(queue))]
        /\ UNCHANGED <<configured, rows, records, replies>>
    BY <1>3 DEF Take
  <2>5. QED
    BY <1>1, <1>2, <2>2, <2>3, <2>4, RunMoves
<1>4. CASE ~ configured
  <2>1. jobs' = [jobs EXCEPT ![Head(queue)].status = "failed"]
        /\ UNCHANGED <<configured, rows, records, replies, runs>>
    BY <1>4 DEF Take
  <2>2. jobs' \in [Jobs -> JobStates]
    BY <1>1, <1>2, <2>1 DEF JobStates
  <2>3. QED
    BY <1>1, <1>2, <2>1, <2>2, QueueMoves
<1>5. QED
  BY <1>3, <1>4

LEMMA CrashOK ==
  ASSUME SyncInv, NEW w \in Workers, Crash(w)
  PROVE  SyncInv'
<1>1. /\ runs' = [runs EXCEPT ![w] = Idle] /\ faults' \in Nat
      /\ UNCHANGED <<configured, rows, records, replies>>
      /\ queue' \in Seq(Jobs) /\ jobs' \in [Jobs -> JobStates]
  BY DEF Crash, Fault, SyncInv, SyncTypeOK
<1>2. QED
  BY <1>1, RunMoves

-----------------------------------------------------------------------------
\* A row is linked to a record that fits it, by a run that goes on to its next row.
LEMMA RowLinked ==
  ASSUME SyncInv, NEW w \in Workers, NEW run \in Walks, RunFits(run),
         NEW r \in Rows, NEW i \in Nat, Fits(i, r),
         rows' = [rows EXCEPT ![r].link = i], runs' = [runs EXCEPT ![w] = run],
         UNCHANGED <<configured, records, replies, queue, jobs, faults>>
  PROVE  SyncInv'
<1>1. rows' \in [Rows -> RowStates]
  BY DEF SyncInv, SyncTypeOK, RowStates
<1>2. SyncTypeOK'
  BY <1>1 DEF SyncInv, SyncTypeOK
<1>3. NamesKept'
  BY DEF SyncInv, SyncTypeOK, RowStates, NamesKept
<1>4. LinksFit'
  <2>1. RecordsStand
    BY DEF RecordsStand
  <2>2. ASSUME NEW s \in Rows, rows'[s].link # NoLink
        PROVE  Fits(rows'[s].link, s)
    BY <2>2 DEF SyncInv, SyncTypeOK, RowStates, LinksFit
  <2>3. QED
    BY <2>1, <2>2, FitsStands DEF LinksFit
<1>5. RepliesFit' /\ CreatedAnswered' /\ NoSecondRecord'
  BY DEF SyncInv, RepliesFit, CreatedAnswered, NoSecondRecord, Fits
<1>6. RunsFit'
  BY RunStands DEF SyncInv, SyncTypeOK, RunsFit, RecordsStand
<1>7. QED
  BY <1>2, <1>3, <1>4, <1>5, <1>6 DEF SyncInv

LEMMA EditRowOK ==
  ASSUME SyncInv, NEW r \in Editable, EditRow(r)
  PROVE  SyncInv'
<1>1. r \in Rows
  BY SyncAssumption
<1>2. PICK n \in NamesOf[r], a \in BOOLEAN :
        rows' = [rows EXCEPT ![r].name = n, ![r].active = a]
  BY DEF EditRow
<1>3. n \in Names
  BY <1>1 DEF Names
<1>4. rows' \in [Rows -> RowStates]
  BY <1>1, <1>2, <1>3 DEF SyncInv, SyncTypeOK, RowStates
<1>5. SyncTypeOK'
  BY <1>4 DEF SyncInv, SyncTypeOK, EditRow
<1>6. NamesKept' /\ \A s \in Rows : rows'[s].link = rows[s].link
  BY <1>1, <1>2 DEF SyncInv, SyncTypeOK, RowStates, NamesKept
<1>7. UNCHANGED <<records, replies, runs>>
  BY DEF EditRow
<1>8. LinksFit' /\ RepliesFit' /\ RunsFit'
  BY <1>6, <1>7 DEF SyncInv, LinksFit, RepliesFit, RunsFit, RunFits, Fits
<1>9. CreatedAnswered' /\ NoSecondRecord'
  BY <1>7 DEF SyncInv, CreatedAnswered, NoSecondRecord
<1>10. QED
  BY <1>5, <1>6, <1>8, <1>9 DEF SyncInv

LEMMA ListOK ==
  ASSUME SyncInv, NEW w \in Workers, List(w)
  PROVE  SyncInv'
<1>1. runs[w] \in Walks /\ RunFits(runs[w]) /\ runs[w].todo = {}
  BY WalkOf DEF List, Through, At
<1> DEFINE kind == KindAfter(runs[w].kind)
           run == [runs[w] EXCEPT !.at = "read", !.kind = kind,
                     !.listed = {i \in DOMAIN records : records[i].kind = kind}]
<1>2. runs' = [runs EXCEPT ![w] = run]
  BY DEF List
<1>3. DOMAIN records \subseteq Nat /\ kind \in Kinds
  BY DEF SyncInv, SyncTypeOK, KindAfter, Kinds
<1>4. run \in Walks /\ RunFits(run)
  BY <1>1, <1>3 DEF Walks, RunFits
<1>5. /\ UNCHANGED <<configured, rows, records, replies>>
      /\ queue' \in Seq(Jobs) /\ jobs' \in [Jobs -> JobStates] /\ faults' \in Nat
  BY DEF List, SyncInv, SyncTypeOK
<1> HIDE DEF run
<1>6. QED
  BY <1>2, <1>4, <1>5, RunMoves

LEMMA ReadRowsOK ==
  ASSUME SyncInv, NEW w \in Workers, ReadRows(w)
  PROVE  SyncInv'
<1>1. runs[w] \in Walks /\ RunFits(runs[w])
  BY WalkOf DEF ReadRows, At
<1> DEFINE run == [runs[w] EXCEPT !.at = "rows", !.todo = Snapshot(runs[w].kind)]
<1>2. runs' = [runs EXCEPT ![w] = run]
  BY DEF ReadRows
<1>3. \A e \in Snapshot(runs[w].kind) :
        e \in Entries /\ KindOf[e.row] = runs[w].kind /\ e.name \in NamesOf[e.row]
  BY DEF Snapshot, SyncInv, SyncTypeOK, RowStates, NamesKept, Entries
<1>4. run \in Walks /\ RunFits(run)
  BY <1>1, <1>3 DEF Walks, RunFits
<1>5. /\ UNCHANGED <<configured, rows, records, replies>>
      /\ queue' \in Seq(Jobs) /\ jobs' \in [Jobs -> JobStates] /\ faults' \in Nat
  BY DEF ReadRows, SyncInv, SyncTypeOK
<1> HIDE DEF run
<1>6. QED
  BY <1>2, <1>4, <1>5, RunMoves

\* A record that is entered for row r, under a name of r, when no request was
\* answered for r; the reply, if there is one, names it.
LEMMA RecordEntered ==
  ASSUME SyncInv, NEW r \in Rows, NEW name \in NamesOf[r], NEW for \in {r, NoRow},
         NewRecord(KindOf[r], name, for),
         for = NoRow => replies' = replies,
         for = r => /\ replies' = replies \cup {<<<<KindOf[r], r>>, Len(records) + 1>>}
                    /\ \A a \in replies : a[1] # <<KindOf[r], r>>,
         UNCHANGED <<configured, rows, queue, jobs>>, faults' \in Nat,
         runs' \in [Workers -> {Idle} \cup Walks \cup Saves], RunsFit'
  PROVE  SyncInv'
<1> DEFINE rec == [kind |-> KindOf[r], name |-> name, for |-> for]
<1>0. PICK i : i = Len(records) + 1
  OBVIOUS
<1>1. rec \in Records /\ rec.kind = KindOf[r] /\ rec.name = name /\ rec.for = for
  BY SyncAssumption DEF Records, Names
<1>2. records' = Append(records, rec)
  BY DEF NewRecord
<1> HIDE DEF rec
<1>3. /\ RecordsStand /\ records' \in Seq(Records)
      /\ DOMAIN records' = DOMAIN records \cup {i} /\ records'[i] = rec
      /\ i \in Nat /\ i \notin DOMAIN records
  BY <1>0, <1>1, <1>2, RecordAdded DEF SyncInv
<1>4. SyncTypeOK'
  BY <1>3 DEF SyncInv, SyncTypeOK
<1>5. NamesKept'
  BY DEF SyncInv, NamesKept
<1>6. LinksFit'
  BY <1>3, FitsStands DEF SyncInv, LinksFit
<1>7. Fits(i, r)'
  BY <1>1, <1>3 DEF Fits
<1>8. replies' = replies \/ replies' = replies \cup {<<<<KindOf[r], r>>, i>>}
  BY <1>0
<1>9. RepliesFit'
  <2>1. \A a \in replies : \E s \in Rows : a[1] = <<KindOf[s], s>> /\ Fits(a[2], s)'
    BY <1>3, FitsStands DEF SyncInv, RepliesFit
  <2>2. QED
    BY <1>7, <1>8, <2>1 DEF RepliesFit
<1>10. CreatedAnswered'
  <2> SUFFICES ASSUME NEW k \in DOMAIN records', records'[k].for # NoRow
               PROVE  <<<<KindOf[records'[k].for], records'[k].for>>, k>> \in replies'
    BY DEF CreatedAnswered
  <2>1. CASE k \in DOMAIN records
    BY <1>3, <1>8, <2>1 DEF SyncInv, CreatedAnswered, RecordsStand
  <2>2. CASE k = i
    BY <1>0, <1>1, <1>3, <2>2
  <2>3. QED
    BY <1>3, <2>1, <2>2
<1>11. NoSecondRecord'
  <2>1. \A k \in DOMAIN records : records[k].for = r => for = NoRow
    <3> SUFFICES ASSUME NEW k \in DOMAIN records, records[k].for = r, for = r
                 PROVE  FALSE
      OBVIOUS
    <3>1. <<<<KindOf[r], r>>, k>> \in replies
      BY SyncAssumption DEF SyncInv, CreatedAnswered
    <3>2. <<<<KindOf[r], r>>, k>>[1] = <<KindOf[r], r>>
      OBVIOUS
    <3>3. QED
      BY <3>1, <3>2
  <2>2. \A k \in DOMAIN records : records'[k].for = rec.for => rec.for = NoRow
    BY <1>1, <1>3, <2>1 DEF RecordsStand
  <2>3. \A k, l \in DOMAIN records :
          records'[k].for = records'[l].for /\ records'[k].for # NoRow => k = l
    BY <1>3 DEF SyncInv, NoSecondRecord, RecordsStand
  <2>4. QED
    BY <1>3, <2>2, <2>3 DEF NoSecondRecord
<1>12. QED
  BY <1>4, <1>5, <1>6, <1>9, <1>10, <1>11 DEF SyncInv

LEMMA EnterByHandOK ==
  ASSUME SyncInv, NEW r \in ByHand, EnterByHand(r)
  PROVE  SyncInv'
<1>1. r \in Rows /\ rows[r].name \in NamesOf[r]
  BY SyncAssumption DEF SyncInv, NamesKept
<1>2. NewRecord(KindOf[r], rows[r].name, NoRow) /\ NoRow # r
  BY <1>1, SyncAssumption DEF EnterByHand
<1>3. RecordsStand
  BY <1>1, <1>2, RecordAdded, SyncAssumption DEF NewRecord, Records, Names, SyncInv
<1>4. RunsFit'
  BY <1>3, RunStands DEF EnterByHand, SyncInv, RunsFit
<1>5. /\ UNCHANGED <<configured, rows, replies, queue, jobs>> /\ faults' \in Nat
      /\ runs' \in [Workers -> {Idle} \cup Walks \cup Saves]
  BY DEF EnterByHand, Fault, SyncInv, SyncTypeOK
<1>6. QED
  BY <1>1, <1>2, <1>4, <1>5, RecordEntered

-----------------------------------------------------------------------------
\* What a run knows of a row that it still has to deal with.
LEMMA EntryOf ==
  ASSUME SyncInv, NEW w \in Workers, At(w, "rows"), NEW e \in runs[w].todo
  PROVE  /\ runs[w] \in Walks /\ RunFits(runs[w])
         /\ e \in Entries /\ e.row \in Rows
         /\ KindOf[e.row] = runs[w].kind /\ runs[w].kind \in Kinds
         /\ e.name \in NamesOf[e.row]
<1>1. runs[w] \in Walks /\ RunFits(runs[w])
  BY WalkOf DEF At
<1>2. QED
  BY <1>1, SyncAssumption DEF Walks, Entries, RunFits

LEMMA LinkMatchOK ==
  ASSUME SyncInv, NEW w \in Workers, At(w, "rows"), NEW e \in runs[w].todo, LinkMatch(w, e)
  PROVE  SyncInv'
<1>1. PICK i \in Matches(runs[w], e) : rows' = [rows EXCEPT ![e.row].link = i]
  BY DEF LinkMatch
<1>2. Fits(i, e.row) /\ i \in Nat
  BY EntryOf, <1>1 DEF Matches, RunFits, Fits, SyncInv, SyncTypeOK
<1>3. runs' = [runs EXCEPT ![w] = Without(runs[w], e)]
      /\ UNCHANGED <<configured, records, replies, queue, jobs, faults>>
  BY DEF LinkMatch
<1>4. QED
  BY <1>1, <1>2, <1>3, EntryOf, WalkShrinks, RowLinked

LEMMA MissOK ==
  ASSUME SyncInv, NEW w \in Workers, At(w, "rows"), NEW e \in runs[w].todo,
         LinkMatchFails(w, e) \/ CreateFails(w, e)
  PROVE  SyncInv'
<1>1. /\ runs' = [runs EXCEPT ![w] = Missed(runs[w], e)]
      /\ UNCHANGED <<configured, rows, records, replies>>
      /\ queue' \in Seq(Jobs) /\ jobs' \in [Jobs -> JobStates] /\ faults' \in Nat
  BY DEF LinkMatchFails, CreateFails, Fault, SyncInv, SyncTypeOK
<1>2. Missed(runs[w], e) \in Walks /\ RunFits(Missed(runs[w], e))
  BY EntryOf, WalkShrinks
<1>3. QED
  BY <1>1, <1>2, RunMoves

LEMMA SavesOK ==
  ASSUME SyncInv, NEW w \in Workers, SaveLink(w) \/ SaveFails(w)
  PROVE  SyncInv'
<1>1. runs[w] \in Saves /\ RunFits(runs[w])
  BY SaveOf DEF SaveLink, SaveFails
<1>2. CASE SaveLink(w)
  <2> DEFINE run == Resumed(Without(runs[w], runs[w].entry))
  <2>1. rows' = [rows EXCEPT ![runs[w].entry.row].link = runs[w].record]
        /\ runs' = [runs EXCEPT ![w] = run]
        /\ UNCHANGED <<configured, records, replies, queue, jobs, faults>>
    BY <1>2 DEF SaveLink
  <2>2. /\ runs[w].entry.row \in Rows /\ runs[w].record \in Nat
        /\ Fits(runs[w].record, runs[w].entry.row)
    BY <1>1 DEF Saves, Entries, RunFits
  <2>3. run \in Walks /\ RunFits(run)
    BY <1>1, ResumedOK
  <2> HIDE DEF run
  <2>4. QED
    BY <2>1, <2>2, <2>3, RowLinked
<1>3. CASE SaveFails(w)
  <2>1. /\ runs' = [runs EXCEPT ![w] = Missed(Resumed(runs[w]), runs[w].entry)]
        /\ UNCHANGED <<configured, rows, records, replies>>
        /\ queue' \in Seq(Jobs) /\ jobs' \in [Jobs -> JobStates] /\ faults' \in Nat
    BY <1>3 DEF SaveFails, Fault, SyncInv, SyncTypeOK
  <2>2. Missed(Resumed(runs[w]), runs[w].entry) \in Walks
        /\ RunFits(Missed(Resumed(runs[w]), runs[w].entry))
    BY <1>1, ResumedOK, WalkShrinks
  <2>3. QED
    BY <2>1, <2>2, RunMoves
<1>4. QED
  BY <1>2, <1>3

LEMMA SavingOK ==
  ASSUME NEW run \in Walks, RunFits(run), run.kind \in Kinds, NEW e \in run.todo,
         NEW i \in Nat, Fits(i, e.row)
  PROVE  /\ Saving(run, e, i) \in Saves /\ Saving(run, e, i) # Idle
         /\ RunFits(Saving(run, e, i))
BY DEF Saving, Saves, Walks, Idle, RunFits

\* A request that was answered before is answered with a record that fits.
LEMMA AnsweredFits ==
  ASSUME SyncInv, NEW w \in Workers, At(w, "rows"), NEW e \in runs[w].todo,
         NEW a \in Answered(w, e)
  PROVE  Fits(a[2], e.row) /\ a[2] \in Nat
<1>1. a \in replies /\ a[1] = <<runs[w].kind, e.row>>
  BY DEF Answered, Key
<1>2. PICK r \in Rows : a[1] = <<KindOf[r], r>> /\ Fits(a[2], r)
  BY <1>1 DEF SyncInv, RepliesFit
<1>3. r = e.row
  BY <1>1, <1>2
<1>4. QED
  BY <1>2, <1>3 DEF Fits, SyncInv, SyncTypeOK

LEMMA CreateRowOK ==
  ASSUME SyncInv, NEW w \in Workers, At(w, "rows"), NEW e \in runs[w].todo, CreateRow(w, e)
  PROVE  SyncInv'
<1>1. /\ runs[w] \in Walks /\ RunFits(runs[w]) /\ e.row \in Rows
      /\ KindOf[e.row] = runs[w].kind /\ runs[w].kind \in Kinds /\ e.name \in NamesOf[e.row]
  BY EntryOf
<1>2. /\ UNCHANGED <<configured, rows, queue, jobs>>
      /\ queue' \in Seq(Jobs) /\ jobs' \in [Jobs -> JobStates]
      /\ faults \in Nat /\ runs \in [Workers -> {Idle} \cup Walks \cup Saves]
  BY DEF CreateRow, SyncInv, SyncTypeOK
<1>3. CASE Answered(w, e) # {}
  <2>1. PICK a \in Answered(w, e) : runs' = [runs EXCEPT ![w] = Saving(runs[w], e, a[2])]
    BY <1>3 DEF CreateRow
  <2>2. UNCHANGED <<records, replies, faults>>
    BY <1>3 DEF CreateRow
  <2>3. Saving(runs[w], e, a[2]) \in Saves /\ RunFits(Saving(runs[w], e, a[2]))
    BY <1>1, AnsweredFits, SavingOK
  <2>4. QED
    BY <1>2, <2>1, <2>2, <2>3, RunMoves
<1>4. CASE Answered(w, e) = {}
  <2>0. PICK i : i = Len(records) + 1
    OBVIOUS
  <2>1. /\ NewRecord(KindOf[e.row], e.name, e.row)
        /\ replies' = replies \cup {<<<<KindOf[e.row], e.row>>, i>>}
        /\ \/ runs' = [runs EXCEPT ![w] = Saving(runs[w], e, i)] /\ faults' = faults
           \/ runs' = [runs EXCEPT ![w] = Missed(runs[w], e)] /\ faults' = faults + 1
    BY <1>1, <1>4, <2>0 DEF CreateRow, Key, Fault
  <2>2. \A a \in replies : a[1] # <<KindOf[e.row], e.row>>
    BY <1>1, <1>4 DEF Answered, Key
  <2>3. RecordsStand /\ Fits(i, e.row)' /\ i \in Nat
    <3> DEFINE rec == [kind |-> KindOf[e.row], name |-> e.name, for |-> e.row]
    <3>1. rec \in Records /\ rec.kind = KindOf[e.row] /\ rec.name = e.name
      BY <1>1 DEF Records, Names
    <3>2. records' = Append(records, rec)
      BY <2>1 DEF NewRecord
    <3> HIDE DEF rec
    <3>3. RecordsStand /\ i \in DOMAIN records' /\ records'[i] = rec /\ i \in Nat
      BY <2>0, <3>1, <3>2, RecordAdded DEF SyncInv
    <3>4. QED
      BY <1>1, <3>1, <3>3 DEF Fits
  <2>4. PICK run : run = runs[w]
    OBVIOUS
  <2>5. RunFits(run)' /\ run \in Walks /\ run.kind = KindOf[e.row] /\ e \in run.todo
    BY <1>1, <2>3, <2>4, RunStands
  <2>6. Missed(run, e) \in Walks /\ RunFits(Missed(run, e))'
    BY <2>5 DEF Missed, Without, Walks, Entries, RunFits
  <2>7. PICK s \in Saves : s = Saving(run, e, i) /\ RunFits(s)'
    <3>1. PICK t : t = Saving(run, e, i)
      OBVIOUS
    <3>2. /\ t.at = "save" /\ t.kind = run.kind /\ t.listed = run.listed /\ t.todo = run.todo
          /\ t.entry = e /\ t.record = i
      BY <3>1 DEF Saving
    <3>3. t \in Saves
      BY <1>1, <2>3, <2>4, <2>5, <3>1 DEF Saving, Saves, Walks
    <3>4. RunFits(t)'
      BY <2>3, <2>5, <3>2 DEF RunFits
    <3>5. QED
      BY <3>1, <3>3, <3>4
  <2>8. PICK next \in Walks \cup Saves : runs' = [runs EXCEPT ![w] = next] /\ RunFits(next)'
    BY <2>1, <2>4, <2>6, <2>7
  <2>9. runs' \in [Workers -> {Idle} \cup Walks \cup Saves] /\ RunsFit'
    BY <1>2, <2>3, <2>8, RunStands DEF SyncInv, RunsFit
  <2>10. e.row # NoRow /\ faults' \in Nat
    BY <1>1, <1>2, <2>1, SyncAssumption
  <2>11. replies' = replies \cup {<<<<KindOf[e.row], e.row>>, Len(records) + 1>>}
    BY <2>0, <2>1
  <2>12. PICK r \in Rows : r = e.row
    BY <1>1
  <2>13. QED
    BY <1>1, <1>2, <2>1, <2>2, <2>9, <2>10, <2>11, <2>12, RecordEntered
<1>5. QED
  BY <1>3, <1>4

LEMMA SyncInvStep == SyncInv /\ [SyncNext]_syncVars => SyncInv'
<1> SUFFICES ASSUME SyncInv, [SyncNext]_syncVars PROVE SyncInv'
  OBVIOUS
<1>1. CASE UNCHANGED syncVars
  <2>1. /\ UNCHANGED <<configured, rows, records, replies, runs>>
        /\ queue' \in Seq(Jobs) /\ jobs' \in [Jobs -> JobStates] /\ faults' \in Nat
    BY <1>1 DEF syncVars, SyncInv, SyncTypeOK
  <2>2. QED
    BY <2>1, QueueMoves
<1>2. ASSUME NEW w \in Workers, RunStep(w) PROVE SyncInv'
  <2>1. CASE VisitRow(w)
    BY <2>1, LinkMatchOK, MissOK, CreateRowOK DEF VisitRow
  <2>2. QED
    BY <1>2, <2>1, ListOK, EndsOK, ReadRowsOK, SavesOK DEF RunStep
<1>3. ASSUME NEW r \in Editable, EditRow(r) PROVE SyncInv'
  BY <1>3, EditRowOK
<1>4. ASSUME NEW r \in ByHand, EnterByHand(r) PROVE SyncInv'
  BY <1>4, EnterByHandOK
<1>5. ASSUME NEW j \in Jobs, Request(j) \/ Reclaim(j) \/ LoseLock(j) PROVE SyncInv'
  BY <1>5, RequestOK, LocksOK
<1>6. ASSUME NEW w \in Workers, Take(w) \/ Crash(w) PROVE SyncInv'
  BY <1>6, TakeOK, CrashOK
<1>7. QED
  BY <1>1, <1>2, <1>3, <1>4, <1>5, <1>6 DEF SyncNext

(***************************************************************************)
(* However requests are repeated, lost, delayed and overlapped, no row has *)
(* two records created for it (the Idempotency-Key of createItem and       *)
(* createCustomer).                                                        *)
(***************************************************************************)
THEOREM OneRecordForARow == SyncSpec => []NoSecondRecord
<1>1. SyncInv => NoSecondRecord
  BY DEF SyncInv
<1>2. QED
  BY SyncInvInit, SyncInvStep, <1>1, PTL DEF SyncSpec

(***************************************************************************)
(* Every link points to a record of the row's kind that was entered under  *)
(* a name of the row, and two items never share one (syncItems).           *)
(***************************************************************************)
THEOREM LinksApart == SyncSpec => [](SyncTypeOK /\ LinksFit /\ ItemsLinkedApart)
<1>1. SyncInv => ItemsLinkedApart
  BY SyncAssumption DEF SyncInv, LinksFit, Fits, ItemsLinkedApart
<1>2. SyncInv => SyncTypeOK /\ LinksFit
  BY DEF SyncInv
<1>3. QED
  BY SyncInvInit, SyncInvStep, <1>1, <1>2, PTL DEF SyncSpec
=============================================================================
