------------------------------- MODULE QbSync -------------------------------
(***************************************************************************)
(* The push of items and customers into QuickBooks                         *)
(* (apps/api/src/qb/qb-sync.service.ts, qb-agent.client.ts and             *)
(* apps/api/src/jobs).                                                     *)
(*                                                                         *)
(* A request queues a job; a worker takes it and runs syncTenant: for the  *)
(* items and then for the customers it lists the records of QuickBooks,    *)
(* reads the active rows, and links each row that had no link when it was  *)
(* read, to the record of its name or to one it asks the agent to create.  *)
(* Every arrow of that loop is a step of its own here: requests of users,  *)
(* other runs and faults come between them.                                *)
(*                                                                         *)
(* External: the queue (BullMQ: a job whose worker stops renewing its lock *)
(* is put back once, and fails the next time) and the agent                *)
(* (openapi/quickbooks-agent.openapi.json: names are unique in a list,     *)
(* 409, and a repeated Idempotency-Key answers with what the first request *)
(* created).  Names are folded to lower case, as byName folds them; the    *)
(* database compares the unique columns sku and name that way too.         *)
(***************************************************************************)
EXTENDS Naturals, Sequences, FiniteSets

CONSTANTS
  Rows,       \* ids of the rows of InventoryItem and Customer
  KindOf,     \* KindOf[r]: "item" or "customer"
  NamesOf,    \* NamesOf[r]: the names r may be given; an item keeps its SKU
  Editable,   \* the rows that users edit while syncs are asked for
  ByHand,     \* the rows whose record someone may enter in QuickBooks by hand
  Jobs,       \* the ids that the queue counts off, 1..n
  Workers,    \* running API processes: each holds one BullMQ worker
  MaxFaults   \* bound on failed calls, crashes, expired locks and entries by hand

Kinds == {"item", "customer"}
NoLink == 0
NoWorker == 0
NoRow == "none"
Names == UNION {NamesOf[r] : r \in Rows}

ASSUME SyncAssumption ==
  /\ KindOf \in [Rows -> Kinds]
  /\ \A r \in Rows : KindOf[r] = "item" => Cardinality(NamesOf[r]) = 1
  /\ \A r, s \in Rows :
       KindOf[r] = "item" /\ KindOf[s] = "item" /\ r # s => NamesOf[r] \cap NamesOf[s] = {}
  /\ NoRow \notin Rows /\ Editable \subseteq Rows /\ ByHand \subseteq Rows
  /\ Jobs \subseteq Nat
  /\ Workers \subseteq Nat \ {NoWorker}
  /\ MaxFaults \in Nat

VARIABLES
  configured,   \* QB_AGENT_URL and QB_AGENT_API_KEY are set
  rows,         \* rows[r]: its name, whether it is active, its qbListId
  records,      \* the records of QuickBooks, each with the row it was created for
  replies,      \* what the agent remembers: <<key, record id>>
  queue,        \* the waiting jobs
  jobs,         \* jobs[j]: status, the worker that holds its lock, the rows it reports failed
  runs,         \* runs[w]: where the call of syncTenant in worker w is
  faults

syncVars == <<configured, rows, records, replies, queue, jobs, runs, faults>>

NoJob == [status |-> "none", holder |-> NoWorker, stalled |-> FALSE, failed |-> {}]
Idle == [at |-> "idle"]

\* The unique columns: no other row of the kind of r has the name.
NameFree(r, name) == \A s \in Rows \ {r} : KindOf[s] = KindOf[r] => rows[s].name # name

SyncInit ==
  /\ configured \in BOOLEAN
  /\ rows \in [Rows -> [name : Names, active : BOOLEAN, link : {NoLink}]]
  /\ \A r \in Rows : /\ rows[r].name \in NamesOf[r] /\ NameFree(r, rows[r].name)
                     /\ r \in Editable \/ rows[r].active
  /\ records = <<>>
  /\ replies = {}
  /\ queue = <<>>
  /\ jobs = [j \in Jobs |-> NoJob]
  /\ runs = [w \in Workers |-> Idle]
  /\ faults = 0

Fault == faults < MaxFaults /\ faults' = faults + 1

-----------------------------------------------------------------------------
(***************************************************************************)
(* Users: the requests that change what is pushed, and QuickBooks' own     *)
(* users, who enter records by hand.                                       *)
(***************************************************************************)
EditRow(r) ==
  /\ \E n \in NamesOf[r], a \in BOOLEAN :
       /\ NameFree(r, n)
       /\ rows' = [rows EXCEPT ![r].name = n, ![r].active = a]
  /\ UNCHANGED <<configured, records, replies, queue, jobs, runs, faults>>

Taken(kind, name) == \E i \in DOMAIN records : records[i].kind = kind /\ records[i].name = name

NewRecord(kind, name, r) == records' = Append(records, [kind |-> kind, name |-> name, for |-> r])

EnterByHand(r) ==
  /\ ~Taken(KindOf[r], rows[r].name)
  /\ NewRecord(KindOf[r], rows[r].name, NoRow)
  /\ Fault
  /\ UNCHANGED <<configured, rows, replies, queue, jobs, runs>>

\* POST /qb/sync.
Request(j) ==
  /\ jobs[j].status = "none"
  /\ \A k \in Jobs : k < j => jobs[k].status # "none"
  /\ jobs' = [jobs EXCEPT ![j].status = "waiting"]
  /\ queue' = Append(queue, j)
  /\ UNCHANGED <<configured, rows, records, replies, runs, faults>>

-----------------------------------------------------------------------------
(***************************************************************************)
(* The queue and its workers.                                              *)
(***************************************************************************)
Begin(j) ==
  [at |-> "rows", job |-> j, kind |-> "none", listed |-> {}, todo |-> {}, failed |-> {}]

\* Ends the run of w.  Its outcome is dropped when it lost the lock.
End(w, status) ==
  LET j == runs[w].job IN
  /\ runs' = [runs EXCEPT ![w] = Idle]
  /\ jobs' = IF jobs[j].holder = w
             THEN [jobs EXCEPT ![j].status = status, ![j].holder = NoWorker,
                               ![j].failed = runs[w].failed]
             ELSE jobs

Take(w) ==
  /\ runs[w] = Idle
  /\ queue # <<>>
  /\ queue' = Tail(queue)
  /\ IF configured
     THEN /\ jobs' = [jobs EXCEPT ![Head(queue)].status = "active", ![Head(queue)].holder = w]
          /\ runs' = [runs EXCEPT ![w] = Begin(Head(queue))]
     ELSE /\ jobs' = [jobs EXCEPT ![Head(queue)].status = "failed"]
          /\ UNCHANGED runs
  /\ UNCHANGED <<configured, rows, records, replies, faults>>

\* The process of w stops in the middle of a run, and starts again.
Crash(w) ==
  /\ runs[w] # Idle
  /\ runs' = [runs EXCEPT ![w] = Idle]
  /\ Fault
  /\ UNCHANGED <<configured, rows, records, replies, queue, jobs>>

\* The run of w loses nothing but its lock: it goes on, and so does the next one.
Requeued(j) ==
  IF jobs[j].stalled
  THEN /\ jobs' = [jobs EXCEPT ![j].status = "failed", ![j].holder = NoWorker]
       /\ UNCHANGED queue
  ELSE /\ jobs' = [jobs EXCEPT ![j].status = "waiting", ![j].holder = NoWorker, ![j].stalled = TRUE]
       /\ queue' = <<j>> \o queue

Held(j) == \E w \in Workers : w = jobs[j].holder /\ runs[w] # Idle /\ runs[w].job = j

\* The lock of a run that died expires.
Reclaim(j) ==
  /\ jobs[j].status = "active" /\ ~Held(j)
  /\ Requeued(j)
  /\ UNCHANGED <<configured, rows, records, replies, runs, faults>>

\* The lock of a live run expires, its process being busy for too long.
LoseLock(j) ==
  /\ jobs[j].status = "active" /\ Held(j)
  /\ Requeued(j)
  /\ Fault
  /\ UNCHANGED <<configured, rows, records, replies, runs>>

-----------------------------------------------------------------------------
(***************************************************************************)
(* The run in worker w.                                                    *)
(***************************************************************************)
At(w, place) == runs[w].at = place

\* The rows read are dealt with: on to the items, to the customers, to the end.
Through(w) == At(w, "rows") /\ runs[w].todo = {}

KindAfter(kind) == IF kind = "none" THEN "item" ELSE "customer"

List(w) ==
  /\ Through(w) /\ runs[w].kind # "customer"
  /\ LET kind == KindAfter(runs[w].kind) IN
     runs' = [runs EXCEPT ![w].at = "read", ![w].kind = kind,
       ![w].listed = {i \in DOMAIN records : records[i].kind = kind}]
  /\ UNCHANGED <<configured, rows, records, replies, queue, jobs, faults>>

ListFails(w) ==
  /\ Through(w) /\ runs[w].kind # "customer"
  /\ End(w, "failed")
  /\ Fault
  /\ UNCHANGED <<configured, rows, records, replies, queue>>

\* The active rows, without those that are skipped.
Snapshot(kind) ==
  {[row |-> r, name |-> rows[r].name] :
     r \in {s \in Rows : KindOf[s] = kind /\ rows[s].active /\ rows[s].link = NoLink}}

ReadRows(w) ==
  /\ At(w, "read")
  /\ runs' = [runs EXCEPT ![w].at = "rows", ![w].todo = Snapshot(runs[w].kind)]
  /\ UNCHANGED <<configured, rows, records, replies, queue, jobs, faults>>

Without(run, e) == [run EXCEPT !.todo = @ \ {e}]

\* Mutation of Missed: the first failure ends the loop.
MissedEnds(run, e) == [run EXCEPT !.todo = {}, !.failed = @ \cup {e.row}]

\* The try block around a row failed.
Missed(run, e) == [Without(run, e) EXCEPT !.failed = @ \cup {e.row}]

Matches(run, e) == {i \in run.listed : records[i].name = e.name}

LinkMatch(w, e) ==
  /\ \E i \in Matches(runs[w], e) : rows' = [rows EXCEPT ![e.row].link = i]
  /\ runs' = [runs EXCEPT ![w] = Without(@, e)]
  /\ UNCHANGED <<configured, records, replies, queue, jobs, faults>>

LinkMatchFails(w, e) ==
  /\ Matches(runs[w], e) # {}
  /\ runs' = [runs EXCEPT ![w] = Missed(@, e)]
  /\ Fault
  /\ UNCHANGED <<configured, rows, records, replies, queue, jobs>>

\* Mutations of Key: one key for a run, and one for each attempt.
KeyOfRun(run, e) == <<run.kind, run.job>>
KeyOfAttempt(run, e) == <<run.kind, e.row, run.job>>

Key(run, e) == <<run.kind, e.row>>

Asks(w, e) == Matches(runs[w], e) = {}

Saving(run, e, i) ==
  [at |-> "save", job |-> run.job, kind |-> run.kind, listed |-> run.listed, todo |-> run.todo,
   failed |-> run.failed, entry |-> e, record |-> i]

Answered(w, e) == {a \in replies : a[1] = Key(runs[w], e)}

\* The agent answers a request that it has answered before, or creates the
\* record; the answer may get lost.
CreateRow(w, e) ==
  /\ Asks(w, e)
  /\ IF Answered(w, e) # {}
     THEN /\ \E a \in Answered(w, e) : runs' = [runs EXCEPT ![w] = Saving(@, e, a[2])]
          /\ UNCHANGED <<records, replies, faults>>
     ELSE /\ ~Taken(runs[w].kind, e.name)
          /\ NewRecord(runs[w].kind, e.name, e.row)
          /\ LET i == Len(records) + 1 IN
             /\ replies' = replies \cup {<<Key(runs[w], e), i>>}
             /\ \/ /\ runs' = [runs EXCEPT ![w] = Saving(@, e, i)]
                   /\ UNCHANGED faults
                \/ /\ runs' = [runs EXCEPT ![w] = Missed(@, e)]
                   /\ Fault
  /\ UNCHANGED <<configured, rows, queue, jobs>>

\* The agent refuses the name, or cannot be reached.
CreateFails(w, e) ==
  /\ Asks(w, e)
  /\ runs' = [runs EXCEPT ![w] = Missed(@, e)]
  /\ IF Answered(w, e) = {} /\ Taken(runs[w].kind, e.name) THEN UNCHANGED faults ELSE Fault
  /\ UNCHANGED <<configured, rows, records, replies, queue, jobs>>

VisitRow(w) ==
  /\ At(w, "rows")
  /\ \E e \in runs[w].todo :
       LinkMatch(w, e) \/ LinkMatchFails(w, e) \/ CreateRow(w, e) \/ CreateFails(w, e)

Resumed(run) ==
  [at |-> "rows", job |-> run.job, kind |-> run.kind, listed |-> run.listed, todo |-> run.todo,
   failed |-> run.failed]

SaveLink(w) ==
  /\ At(w, "save")
  /\ LET run == runs[w] IN
     /\ rows' = [rows EXCEPT ![run.entry.row].link = run.record]
     /\ runs' = [runs EXCEPT ![w] = Resumed(Without(run, run.entry))]
  /\ UNCHANGED <<configured, records, replies, queue, jobs, faults>>

SaveFails(w) ==
  /\ At(w, "save")
  /\ runs' = [runs EXCEPT ![w] = Missed(Resumed(runs[w]), runs[w].entry)]
  /\ Fault
  /\ UNCHANGED <<configured, rows, records, replies, queue, jobs>>

Finish(w) ==
  /\ Through(w) /\ runs[w].kind = "customer"
  /\ End(w, "done")
  /\ UNCHANGED <<configured, rows, records, replies, queue, faults>>

RunStep(w) ==
  \/ List(w) \/ ListFails(w) \/ ReadRows(w) \/ VisitRow(w)
  \/ SaveLink(w) \/ SaveFails(w) \/ Finish(w)

SyncNext ==
  \/ \E r \in Editable : EditRow(r)
  \/ \E r \in ByHand : EnterByHand(r)
  \/ \E j \in Jobs : Request(j) \/ Reclaim(j) \/ LoseLock(j)
  \/ \E w \in Workers : Take(w) \/ Crash(w) \/ RunStep(w)

\* Workers go on taking jobs, a call ends with an answer or an error, and the
\* queue looks for expired locks.  Users and faults owe nothing.
SyncFairness ==
  /\ \A w \in Workers : WF_syncVars(Take(w)) /\ WF_syncVars(RunStep(w))
  /\ \A j \in Jobs : WF_syncVars(Reclaim(j))

SyncSpec == SyncInit /\ [][SyncNext]_syncVars /\ SyncFairness

-----------------------------------------------------------------------------
(***************************************************************************)
(* Properties.                                                             *)
(***************************************************************************)
\* No row has two records created for it, however often its request is sent
\* again, by another run or under another name ("Idempotency-Key = our row id,
\* so replays are safe").
NoSecondRecord ==
  \A i, k \in DOMAIN records :
    records[i].for = records[k].for /\ records[i].for # NoRow => i = k

\* Two items never share a record of QuickBooks, also when overlapping runs
\* work from lists and rows that each other's writes have overtaken.
ItemsLinkedApart ==
  \A r, s \in Rows :
    KindOf[r] = "item" /\ KindOf[s] = "item" /\ rows[r].link = rows[s].link /\ rows[r].link # NoLink
      => r = s

Settled(j, r) ==
  \/ ~rows[r].active \/ rows[r].link # NoLink
  \/ jobs[j].status = "failed" \/ r \in jobs[j].failed

\* A row that has no link when a sync is asked for gets one, unless the sync
\* fails or reports that row: one row's failure does not keep the others from
\* being pushed ("records a failure per entity without aborting the run").
RowsDealtWith ==
  \A j \in Jobs, r \in Rows : jobs[j].status = "waiting" ~> Settled(j, r)
=============================================================================
