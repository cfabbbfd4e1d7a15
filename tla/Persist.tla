------------------------------ MODULE Persist -------------------------------
(***************************************************************************)
(* How ended calls reach the database (src/internal/app/app.go,            *)
(* persist_batch.go, src/internal/store/store.go).  InvokeRPC hands over   *)
(* two tasks, the record of the call and its share of the daily metrics; a *)
(* bounded channel, overflow goroutines and batching workers carry them to *)
(* MySQL, and nothing is left of them when the server stops.               *)
(*                                                                         *)
(* The calls with a name MySQL takes are of one scope (group, action,      *)
(* device) and one day, and differ by their request id only.  A row of     *)
(* daily_metrics is kept as what every call contributes to it: its total   *)
(* is the sum of `counted'.                                                *)
(***************************************************************************)
EXTENDS Naturals, Sequences, FiniteSets, Functions

CONSTANTS
  Requests,     \* calls
  Workers,      \* persist workers
  QueueSize,    \* capacity of persistCh
  BatchSize,    \* persistBatchSize
  KeepLatest,   \* rows a trim leaves of a scope (RawRequestKeepLatest)
  Refused,      \* calls whose row MySQL never takes: a status outside the
                \* enum, an error message longer than the column ...
  Misnamed,     \* ... or a name of an action or a device longer than its
                \* column, which daily_metrics does not take either
  MaxFailures,  \* bound: statements that fail for other reasons
  MaxRestarts   \* bound: restarts of the server

ASSUME PersistAssumption ==
  /\ {QueueSize, BatchSize, KeepLatest} \subseteq Nat \ {0}
  /\ Refused \subseteq Requests /\ Misnamed \subseteq Refused
  /\ MaxFailures \in Nat /\ MaxRestarts \in Nat

VARIABLES
  callPc,       \* where InvokeRPC is: in Hub.Invoke, between its tasks, done
  persistCh,    \* App.persistCh
  overflow,     \* tasks held by the goroutines of enqueuePersist
  batch,        \* the batch of a worker
  workerPc,     \* where persistWorker is
  rpcRequests,  \* the rows of rpc_requests, oldest first
  counted,      \* how often a call is counted in daily_metrics
  failures,     \* failed statements so far
  restarts      \* restarts so far

channelVars == <<persistCh, overflow>>
workerVars == <<batch, workerPc>>
dbVars == <<rpcRequests, counted>>
vars == <<callPc, channelVars, workerVars, dbVars, failures, restarts>>

Tasks == Requests \X {"record", "metric"}
Record(r) == <<r, "record">>
Metric(r) == <<r, "metric">>

-----------------------------------------------------------------------------
(* Handing over *)

\* enqueuePersist: a send that does not block, or a goroutine of its own.
Enqueue(task) ==
  IF Len(persistCh) < QueueSize
  THEN persistCh' = Append(persistCh, task) /\ UNCHANGED overflow
  ELSE overflow' = overflow \cup {task} /\ UNCHANGED persistCh

\* Hub.Invoke has returned: the record of the call, whatever came of it ...
EnqueueRecord(r) ==
  /\ callPc[r] = "running"
  /\ callPc' = [callPc EXCEPT ![r] = "metric"]
  /\ Enqueue(Record(r))
  /\ UNCHANGED <<workerVars, dbVars, failures, restarts>>

\* ... and, in another step of InvokeRPC, its share of the metrics.
EnqueueMetric(r) ==
  /\ callPc[r] = "metric"
  /\ callPc' = [callPc EXCEPT ![r] = "done"]
  /\ Enqueue(Metric(r))
  /\ UNCHANGED <<workerVars, dbVars, failures, restarts>>

-----------------------------------------------------------------------------
(* Single tasks *)

StatementFails == failures < MaxFailures /\ failures' = failures + 1

\* The upsert of one row: what is there already keeps its place.
Upserted(rows, task) ==
  IF task[2] = "record" /\ task[1] \notin Range(rows)
  THEN Append(rows, task[1]) ELSE rows

\* The upserts of a batch, in its order.
WithRows(tasks) ==
  LET after[n \in 0..Len(tasks)] ==
        IF n = 0 THEN rpcRequests ELSE Upserted(after[n - 1], tasks[n])
  IN  after[Len(tasks)]

CountedWith(tasks) ==
  [r \in Requests |->
     counted[r] + Cardinality({i \in DOMAIN tasks : tasks[i] = Metric(r)})]

\* The tasks of a batch that MySQL does not take.
UnwritableRecords(tasks) == Range(tasks) \cap {Record(r) : r \in Refused}
UnwritableMetrics(tasks) == Range(tasks) \cap {Metric(r) : r \in Misnamed}

Unwritable(task) ==
  UnwritableRecords(<<task>>) \cup UnwritableMetrics(<<task>>) # {}

\* runPersistTask; an error is logged and the task forgotten.
RunPersistTask(task) ==
  \/ /\ ~Unwritable(task)
     /\ rpcRequests' = WithRows(<<task>>)
     /\ counted' = CountedWith(<<task>>)
     /\ UNCHANGED failures
  \/ Unwritable(task) /\ UNCHANGED <<dbVars, failures>>
  \/ StatementFails /\ UNCHANGED dbVars

\* Room in the channel before the timer fires ...
OverflowSends(task) ==
  /\ task \in overflow
  /\ Len(persistCh) < QueueSize
  /\ persistCh' = Append(persistCh, task)
  /\ overflow' = overflow \ {task}
  /\ UNCHANGED <<callPc, workerVars, dbVars, failures, restarts>>

\* Mutation: the goroutine writes the task and still sends it.
OverflowRunsAndStays(task) ==
  /\ task \in overflow
  /\ RunPersistTask(task)
  /\ UNCHANGED <<callPc, channelVars, workerVars, restarts>>

\* ... or the task is written beside the workers.
OverflowRuns(task) ==
  /\ task \in overflow
  /\ RunPersistTask(task)
  /\ overflow' = overflow \ {task}
  /\ UNCHANGED <<callPc, persistCh, workerVars, restarts>>

-----------------------------------------------------------------------------
(* Workers *)

Take(w) ==
  /\ workerPc[w] = "take"
  /\ persistCh # << >>
  /\ batch' = [batch EXCEPT ![w] = <<Head(persistCh)>>]
  /\ persistCh' = Tail(persistCh)
  /\ workerPc' = [workerPc EXCEPT ![w] = "drain"]
  /\ UNCHANGED <<callPc, overflow, dbVars, failures, restarts>>

Drain(w) ==
  /\ workerPc[w] = "drain"
  /\ IF Len(batch[w]) < BatchSize /\ persistCh # << >>
     THEN /\ batch' = [batch EXCEPT ![w] = Append(@, Head(persistCh))]
          /\ persistCh' = Tail(persistCh)
          /\ UNCHANGED workerPc
     ELSE /\ workerPc' = [workerPc EXCEPT ![w] = "records"]
          /\ UNCHANGED <<batch, persistCh>>
  /\ UNCHANGED <<callPc, overflow, dbVars, failures, restarts>>

BatchEnds(w) ==
  /\ batch' = [batch EXCEPT ![w] = << >>]
  /\ workerPc' = [workerPc EXCEPT ![w] = "take"]

\* Mutation: a failed batch is given up.
BatchGivenUp(w) == BatchEnds(w)

\* Mutation: the failed batch goes on with the next one still in hand.
BatchFailsHolding(w) ==
  /\ workerPc' = [workerPc EXCEPT ![w] =
                    IF Len(batch[w]) > 1 THEN "fallback" ELSE "take"]
  /\ UNCHANGED batch

\* A failed batch is repeated task by task, unless it was a single task.
BatchFails(w) ==
  IF Len(batch[w]) > 1
  THEN workerPc' = [workerPc EXCEPT ![w] = "fallback"] /\ UNCHANGED batch
  ELSE BatchEnds(w)

\* The first transaction of runPersistBatch, empty without records.
WriteRecords(w) ==
  /\ workerPc[w] = "records"
  /\ \/ /\ UnwritableRecords(batch[w]) = {}
        /\ rpcRequests' = WithRows(batch[w])
        /\ workerPc' = [workerPc EXCEPT ![w] = "metrics"]
        /\ UNCHANGED <<batch, failures>>
     \/ /\ UnwritableRecords(batch[w]) # {}
        /\ BatchFails(w)
        /\ UNCHANGED <<rpcRequests, failures>>
     \/ /\ \E r \in Requests : Record(r) \in Range(batch[w])
        /\ StatementFails
        /\ BatchFails(w)
        /\ UNCHANGED rpcRequests
  /\ UNCHANGED <<callPc, channelVars, counted, restarts>>

\* The second one, empty without metrics.
WriteMetrics(w) ==
  /\ workerPc[w] = "metrics"
  /\ \/ /\ UnwritableMetrics(batch[w]) = {}
        /\ counted' = CountedWith(batch[w])
        /\ BatchEnds(w)
        /\ UNCHANGED failures
     \/ /\ UnwritableMetrics(batch[w]) # {}
        /\ BatchFails(w)
        /\ UNCHANGED <<counted, failures>>
     \/ /\ \E r \in Requests : Metric(r) \in Range(batch[w])
        /\ StatementFails
        /\ BatchFails(w)
        /\ UNCHANGED counted
  /\ UNCHANGED <<callPc, channelVars, rpcRequests, restarts>>

Fallback(w) ==
  /\ workerPc[w] = "fallback"
  /\ RunPersistTask(Head(batch[w]))
  /\ batch' = [batch EXCEPT ![w] = Tail(@)]
  /\ workerPc' = [workerPc EXCEPT ![w] =
                    IF Len(batch[w]) = 1 THEN "take" ELSE "fallback"]
  /\ UNCHANGED <<callPc, channelVars, restarts>>

-----------------------------------------------------------------------------
(* Maintenance and restarts *)

\* TrimRPCRequestsForScope.
Trim ==
  /\ Len(rpcRequests) > KeepLatest
  /\ rpcRequests' =
       SubSeq(rpcRequests, Len(rpcRequests) - KeepLatest + 1, Len(rpcRequests))
  /\ UNCHANGED <<callPc, channelVars, workerVars, counted, failures, restarts>>

\* RebuildRecentMetricsFromRequests; main goes on if it fails.
Rebuild ==
  \/ /\ counted' = [r \in Requests |-> IF r \in Range(rpcRequests) THEN 1 ELSE 0]
     /\ UNCHANGED failures
  \/ StatementFails /\ UNCHANGED counted

Idle(pc) == [w \in Workers |-> pc]

\* The server stops without a word to anyone and is started again; the
\* metrics are rebuilt before a worker or a request runs.  A call that has
\* not ended is as good as one not begun.
Restart ==
  /\ restarts < MaxRestarts
  /\ restarts' = restarts + 1
  /\ callPc' = [r \in Requests |->
                  IF callPc[r] = "running" THEN "running" ELSE "done"]
  /\ persistCh' = << >>
  /\ overflow' = {}
  /\ batch' = Idle(<< >>)
  /\ workerPc' = Idle("take")
  /\ Rebuild
  /\ UNCHANGED rpcRequests

-----------------------------------------------------------------------------
Init ==
  /\ callPc = [r \in Requests |-> "running"]
  /\ persistCh = << >>
  /\ overflow = {}
  /\ batch = Idle(<< >>)
  /\ workerPc = Idle("take")
  /\ rpcRequests = << >>
  /\ counted = [r \in Requests |-> 0]
  /\ failures = 0
  /\ restarts = 0

OverflowStep(task) == OverflowSends(task) \/ OverflowRuns(task)
WorkerStep(w) ==
  Take(w) \/ Drain(w) \/ WriteRecords(w) \/ WriteMetrics(w) \/ Fallback(w)

Next ==
  \/ \E r \in Requests : EnqueueRecord(r) \/ EnqueueMetric(r)
  \/ \E task \in Tasks : OverflowStep(task)
  \/ \E w \in Workers : WorkerStep(w)
  \/ Trim
  \/ Restart

Spec == Init /\ [][Next]_vars

\* Goroutines run; a statement returns within persistTaskTimeout.
Fairness ==
  /\ \A r \in Requests : WF_vars(EnqueueMetric(r))
  /\ \A task \in Tasks : WF_vars(OverflowStep(task))
  /\ \A w \in Workers : WF_vars(WorkerStep(w))

FairSpec == Spec /\ Fairness

-----------------------------------------------------------------------------
(* Properties *)

\* The types of the pipeline's state.
PersistTypeOK ==
  /\ callPc \in [Requests -> {"running", "metric", "done"}]
  /\ persistCh \in Seq(Tasks) /\ Len(persistCh) <= QueueSize
  /\ overflow \in SUBSET Tasks
  /\ batch \in [Workers -> Seq(Tasks)]
  /\ workerPc \in
       [Workers -> {"take", "drain", "records", "metrics", "fallback"}]
  /\ \A w \in Workers : Len(batch[w]) <= BatchSize
                        /\ (batch[w] = << >> <=> workerPc[w] = "take")
  /\ rpcRequests \in Seq(Requests)
  /\ counted \in [Requests -> Nat]

\* No call is counted twice in the daily metrics, although a failed batch is
\* repeated task by task after its first transaction may have committed, a
\* task may be written by an overflow goroutine beside the workers, and a
\* restart counts the rows again (runPersistBatch, enqueuePersist, main).
CountedOnce == \A r \in Requests : counted[r] <= 1

\* One bad row spoils nobody else's: as long as the server stays up and no
\* statement fails for another reason, the record of every call MySQL accepts
\* is written and every call whose name it accepts is counted, whatever batch
\* its tasks shared with a refused record or a refused share of the metrics,
\* and however full the channel was (persistWorker).
Isolated ==
  \A r \in Requests :
    /\ Record(r) \in Range(persistCh) \cup overflow /\ r \notin Refused
         ~> r \in Range(rpcRequests) \/ failures > 0 \/ restarts > 0
    /\ callPc[r] = "metric" /\ r \notin Misnamed
         ~> counted[r] = 1 \/ failures > 0 \/ restarts > 0

\* No task is on its way to the database.
AtRest ==
  /\ persistCh = << >> /\ overflow = {}
  /\ \A w \in Workers : workerPc[w] = "take"
  /\ \A r \in Requests : callPc[r] # "metric"

\* Daily totals are kept, for AggregateRetentionDays: trimming the records of
\* a day, or stopping the server when nothing is left to write, does not take
\* a call out of them that had been counted (CleanupOldMetrics is the only
\* deletion the configuration speaks of).
AggregatesKept ==
  [][AtRest => \A r \in Requests : counted'[r] >= counted[r]]_vars
=============================================================================
