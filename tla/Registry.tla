------------------------------ MODULE Registry ------------------------------
(***************************************************************************)
(* clusterwatch/controller/store.py under its threads.  Every handler runs *)
(* its store call in a worker thread: the call takes its timestamp first   *)
(* and its turn at the lock later.  A read of the API takes several turns: *)
(* rows, then the newest sample of each node, then the clock.  The hourly  *)
(* task computes its cutoff, then waits for its turn.  Shutdown cancels    *)
(* the task, but not the thread it waits for, and closes the connection.   *)
(*                                                                         *)
(* Time is the controller's clock.  A sample is its collected_at, by the   *)
(* agent's clock, which may say anything.  last_error and the readings are *)
(* left to modules Thresholds and Alerts: here a node is OFFLINE or not.   *)
(***************************************************************************)
EXTENDS HealthPolicy, FiniteSets

CONSTANTS
  Nodes,
  Threads,      \* worker threads for writes
  MaxWait,      \* how long a thread waits for its turn at the lock
  Retention,    \* history_retention_days, in ticks
  Limit,        \* the limit of a history request, at least 1
  MaxTime,      \* bound on the clock
  MaxRestarts   \* bound on ends of the controller process

ASSUME RegistryAssumption ==
  /\ MaxWait \in Nat
  /\ Retention \in Nat
  /\ Limit \in Nat \ {0}
  /\ MaxTime \in Nat
  /\ MaxRestarts \in Nat

VARIABLES
  now,
  \* the database: the nodes rows, their last_seen, and the collected_at of the
  \* metrics rows
  registered, seen, samples,
  \* the process: is it up, closing or down; what each worker thread, the GET
  \* request and the maintenance task are doing
  process, call, get, cutoff, task,
  restarts,
  \* history: the latest timestamp of a committed write, and whether a write to the
  \* node of the read under way was committed since its row was read
  contact, overtaken

database == <<registered, seen, samples>>
history  == <<contact, overtaken>>
vars == <<now, database, process, call, get, task, cutoff, restarts, history>>

Times == 0 .. MaxTime

\* A call waits for its turn with the timestamp it took; afterwards register reads
\* the row again, in a turn of its own.
Idle   == [op |-> "idle"]
Calls  == {Idle}
            \union [op : {"register", "heartbeat", "metric"}, node : Nodes, stamp : Times]
            \union [op : {"reread"}, node : Nodes]

NoRead == [stage |-> "idle"]
Reads  == {NoRead}
            \union [stage : {"sample", "judge"}, node : Nodes, seen : Times]
            \union [stage : {"history"}, node : Nodes, since : Int]

TypeOK ==
  /\ now \in Times
  /\ registered \subseteq Nodes
  /\ seen \in [Nodes -> Times]
  /\ samples \in [Nodes -> SUBSET Times]
  /\ process \in {"up", "closing", "down"}
  /\ call \in [Threads -> Calls]
  /\ get \in Reads
  /\ task \in {"sleep", "prune", "orphan", "dead"}
  /\ cutoff \in Int
  /\ restarts \in 0 .. MaxRestarts
  /\ contact \in [Nodes -> Times]
  /\ overtaken \in BOOLEAN
  \* uvicorn lets the requests end before the lifespan does
  /\ process # "up" => get = NoRead /\ \A t \in Threads : call[t] = Idle
  \* register returns the row it reads again: there is one
  /\ \A t \in Threads : call[t].op = "reread" => call[t].node \in registered

Init ==
  /\ now = 0
  /\ registered = {}
  /\ seen = [n \in Nodes |-> 0]
  /\ samples = [n \in Nodes |-> {}]
  /\ process = "up"
  /\ call = [t \in Threads |-> Idle]
  /\ get = NoRead
  /\ task = "sleep"
  /\ cutoff = 0
  /\ restarts = 0
  /\ contact = [n \in Nodes |-> 0]
  /\ overtaken = FALSE

-----------------------------------------------------------------------------
(* Writes.                                                                 *)

\* A handler's worker thread enters the store and takes the time.
Enter(t, op, n) ==
  /\ process = "up"
  /\ call[t] = Idle
  /\ call' = [call EXCEPT ![t] = [op |-> op, node |-> n, stamp |-> now]]
  /\ UNCHANGED <<now, database, process, get, task, cutoff, restarts, history>>

\* A read of n has its row and not its clock yet.
Viewing(n) == get.stage \in {"sample", "judge"} /\ get.node = n

\* A write to n is committed.
Heard(n, stamp) ==
  /\ contact' = [contact EXCEPT ![n] = IF stamp > @ THEN stamp ELSE @]
  /\ overtaken' = (overtaken \/ Viewing(n))

\* last_seen of the row a call writes.
Touch(n, stamp) ==
  /\ seen' = [seen EXCEPT ![n] = stamp]
  /\ Heard(n, stamp)

\* register: insert or update, then read the row again.
Register(t) ==
  /\ call[t].op = "register"
  /\ registered' = registered \union {call[t].node}
  /\ Touch(call[t].node, call[t].stamp)
  /\ call' = [call EXCEPT ![t] = [op |-> "reread", node |-> call[t].node]]
  /\ UNCHANGED <<now, samples, process, get, task, cutoff, restarts>>

Reread(t) ==
  /\ call[t].op = "reread"
  /\ call' = [call EXCEPT ![t] = Idle]
  /\ UNCHANGED <<now, database, process, get, task, cutoff, restarts, history>>

\* heartbeat: an update that may find no row.
Heartbeat(t) ==
  /\ call[t].op = "heartbeat"
  /\ call[t].node \in registered
  /\ Touch(call[t].node, call[t].stamp)
  /\ call' = [call EXCEPT ![t] = Idle]
  /\ UNCHANGED <<now, registered, samples, process, get, task, cutoff, restarts>>

\* Variant for the mutation runs: last_seen is the agent's time of the sample.
AddMetricTrusting(t, at) ==
  /\ call[t].op = "metric"
  /\ call[t].node \in registered
  /\ samples' = [samples EXCEPT ![call[t].node] = @ \union {at}]
  /\ seen' = [seen EXCEPT ![call[t].node] = at]
  /\ Heard(call[t].node, call[t].stamp)
  /\ call' = [call EXCEPT ![t] = Idle]
  /\ UNCHANGED <<now, registered, process, get, task, cutoff, restarts>>

\* add_metric: the sample, whenever its agent says it was collected, and the row.
AddMetric(t, at) ==
  /\ call[t].op = "metric"
  /\ call[t].node \in registered
  /\ samples' = [samples EXCEPT ![call[t].node] = @ \union {at}]
  /\ Touch(call[t].node, call[t].stamp)
  /\ call' = [call EXCEPT ![t] = Idle]
  /\ UNCHANGED <<now, registered, process, get, task, cutoff, restarts>>

\* A report of an unknown node changes nothing; the handler answers 404.
Unknown(t) ==
  /\ call[t].op \in {"heartbeat", "metric"}
  /\ call[t].node \notin registered
  /\ call' = [call EXCEPT ![t] = Idle]
  /\ UNCHANGED <<now, database, process, get, task, cutoff, restarts, history>>

-----------------------------------------------------------------------------
(* Reads.  A list, and a scrape of the exporter, copy all rows in one turn *)
(* and then treat every node as get_node does.                             *)

ReadRow(n) ==
  /\ process = "up"
  /\ get = NoRead
  /\ n \in registered
  /\ get' = [stage |-> "sample", node |-> n, seen |-> seen[n]]
  /\ overtaken' = FALSE
  /\ UNCHANGED <<now, database, process, call, task, cutoff, restarts, contact>>

\* _node_view: latest_metric.
ReadLatest ==
  /\ get.stage = "sample"
  /\ get' = [get EXCEPT !.stage = "judge"]
  /\ UNCHANGED <<now, database, process, call, task, cutoff, restarts, history>>

\* get_metrics: the node exists; since is computed before history has its turn.
FindNode(n, window) ==
  /\ process = "up"
  /\ get = NoRead
  /\ n \in registered
  /\ get' = [stage |-> "history", node |-> n, since |-> now - window]
  /\ UNCHANGED <<now, database, process, call, task, cutoff, restarts, history>>

\* evaluate_status with the clock of this moment, or the history; the answer leaves.
Respond ==
  /\ get.stage \in {"judge", "history"}
  /\ get' = NoRead
  /\ UNCHANGED <<now, database, process, call, task, cutoff, restarts, history>>

\* Variant: at the timeout already.
OfflineAtTimeout == now - get.seen >= OfflineTimeout

\* What Respond answers of a node.
Offline == Expired(now - get.seen)

Newer(n, s) == {q \in samples[n] : q > s}

\* Variant: the first rows of the window.
HistoryFirst(n, since) ==
  {s \in samples[n] : since <= s /\ Cardinality({q \in samples[n] : since <= q /\ q < s}) < Limit}

\* metric_history: of the rows since then, the Limit last ones.
History(n, since) ==
  {s \in samples[n] : since <= s /\ Cardinality(Newer(n, s)) < Limit}

-----------------------------------------------------------------------------
(* Maintenance.                                                            *)

\* Variant: the retention counted twice.
WakeUpLate ==
  /\ process = "up"
  /\ task = "sleep"
  /\ task' = "prune"
  /\ cutoff' = now - 2 * Retention
  /\ UNCHANGED <<now, database, process, call, get, restarts, history>>

\* An hour is over: the cutoff is computed, and the thread waits for its turn.
WakeUp ==
  /\ process = "up"
  /\ task = "sleep"
  /\ task' = "prune"
  /\ cutoff' = now - Retention
  /\ UNCHANGED <<now, database, process, call, get, restarts, history>>

\* Variant: the cutoff itself is deleted.
PruneInclusive ==
  /\ process # "down"
  /\ task \in {"prune", "orphan"}
  /\ samples' = [n \in Nodes |-> {s \in samples[n] : s > cutoff}]
  /\ task' = IF task = "prune" THEN "sleep" ELSE "dead"
  /\ cutoff' = 0
  /\ UNCHANGED <<now, registered, seen, process, call, get, restarts, history>>

\* The thread has its turn, in the life of its task or after it.
Prune ==
  /\ process # "down"
  /\ task \in {"prune", "orphan"}
  /\ samples' = [n \in Nodes |-> {s \in samples[n] : s >= cutoff}]
  /\ task' = IF task = "prune" THEN "sleep" ELSE "dead"
  /\ cutoff' = 0
  /\ UNCHANGED <<now, registered, seen, process, call, get, restarts, history>>

\* sqlite3 raises, on a full disk for instance: nothing catches it, and the task
\* is over for the life of the process.
PruneFails ==
  /\ process = "up"
  /\ task = "prune"
  /\ task' = "dead"
  /\ cutoff' = 0
  /\ UNCHANGED <<now, database, process, call, get, restarts, history>>

-----------------------------------------------------------------------------
(* The process.                                                            *)

\* Variant: the requests are not waited for.
ShutdownAtOnce ==
  /\ process = "up"
  /\ restarts < MaxRestarts
  /\ process' = "closing"
  /\ task' = IF task = "prune" THEN "orphan" ELSE "dead"
  /\ UNCHANGED <<now, database, call, get, cutoff, restarts, history>>

\* The end of lifespan: the requests are over, and the tasks are cancelled.  A
\* thread that waits for its turn is not.
Shutdown ==
  /\ process = "up"
  /\ restarts < MaxRestarts
  /\ get = NoRead
  /\ \A t \in Threads : call[t] = Idle
  /\ process' = "closing"
  /\ task' = IF task = "prune" THEN "orphan" ELSE "dead"
  /\ UNCHANGED <<now, database, call, get, cutoff, restarts, history>>

\* store.close(): a thread that has not had its turn finds the connection closed.
Close ==
  /\ process = "closing"
  /\ process' = "down"
  /\ task' = "dead"
  /\ cutoff' = 0
  /\ UNCHANGED <<now, database, call, get, restarts, history>>

\* The process is killed: what is not committed is gone.
Kill ==
  /\ process # "down"
  /\ restarts < MaxRestarts
  /\ process' = "down"
  /\ call' = [t \in Threads |-> Idle]
  /\ get' = NoRead
  /\ task' = "dead"
  /\ cutoff' = 0
  /\ UNCHANGED <<now, database, restarts, history>>

\* A new process on the same database.
Boot ==
  /\ process = "down"
  /\ process' = "up"
  /\ task' = "sleep"
  /\ restarts' = restarts + 1
  /\ UNCHANGED <<now, database, call, get, cutoff, history>>

\* No thread waits longer than MaxWait.
Tick ==
  /\ now < MaxTime
  /\ \A t \in Threads :
       call[t].op \in {"register", "heartbeat", "metric"} => now - call[t].stamp < MaxWait
  /\ now' = now + 1
  /\ UNCHANGED <<database, process, call, get, task, cutoff, restarts, history>>

Next ==
  \/ \E t \in Threads :
       \/ \E op \in {"register", "heartbeat", "metric"}, n \in Nodes : Enter(t, op, n)
       \/ Register(t) \/ Reread(t) \/ Heartbeat(t) \/ Unknown(t)
       \/ \E at \in Times : AddMetric(t, at)
  \/ \E n \in Nodes : ReadRow(n) \/ \E window \in 1 .. MaxTime : FindNode(n, window)
  \/ ReadLatest \/ Respond
  \/ WakeUp \/ Prune \/ PruneFails
  \/ Shutdown \/ Close \/ Kill \/ Boot
  \/ Tick

Spec == Init /\ [][Next]_vars

\* The maintenance task wakes up and has its turn, and a controller that is down
\* is started again by its supervisor.
Fairness == WF_vars(WakeUp) /\ WF_vars(Prune) /\ WF_vars(Close) /\ WF_vars(Boot)

FairSpec == Spec /\ Fairness

-----------------------------------------------------------------------------
\* Writes may be committed in another order than they took their time in, and
\* last_seen may then step back, but never by more than a thread waits for its
\* turn.  (the timestamps of Store.register, heartbeat and add_metric)
SeenLagsLittle ==
  \A n \in registered : contact[n] - MaxWait <= seen[n] /\ seen[n] <= contact[n]

\* A status is put together from a row, a sample and a clock of three moments, between
\* which other threads write.  Still at the moment of its judgement no view calls a
\* node online that was not heard of within the timeout, whatever its agent's clock
\* says.  The other side is weaker than README.md:48: a node that is called OFFLINE
\* although it was heard of more than MaxWait inside the timeout was heard of by a
\* write that was committed after the row was read; no other reason makes it OFFLINE.
\* (README.md:42 and 48; _node_view, evaluate_status)
StatusIsHonest ==
  get.stage = "judge" =>
    /\ ~Offline => now - contact[get.node] <= OfflineTimeout
    /\ Offline => now - contact[get.node] > OfflineTimeout - MaxWait \/ overtaken

\* A history has no hole and ends with the newest sample: the limit cuts off the
\* oldest rows.  (Store.metric_history)
HistoryIsRecent ==
  get.stage = "history" =>
    LET answer == History(get.node, get.since)
        window == {s \in samples[get.node] : get.since <= s}
    IN  /\ \A s \in answer, q \in window : q > s => q \in answer
        /\ window # {} => answer # {}
        /\ Cardinality(answer) <= Limit

\* No sample is deleted within the retention time, though the cutoff is computed
\* before the thread's turn, and though the thread may outlive its task.
\* (maintenance, Store.prune, lifespan)
PruneSparesWindow ==
  [][\A n \in Nodes : \A s \in samples[n] \ samples'[n] : s < now - Retention]_vars

\* Expired samples are deleted as long as the task lives.  (maintenance)
ExpiredIsPruned ==
  \A n \in Nodes, s \in Times :
    s \in samples[n] /\ s < now - Retention ~> s \notin samples[n] \/ task = "dead"
=============================================================================
