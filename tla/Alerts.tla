------------------------------- MODULE Alerts -------------------------------
(***************************************************************************)
(* The alert manager of clusterwatch/controller/alerts.py, one task on the *)
(* event loop, beside what it depends on: the registry rows it reads from  *)
(* worker threads, the request handlers that change them and wake it, the  *)
(* webhook receiver, and restarts of the controller.                       *)
(*                                                                         *)
(* Every await of the task is a point where another part may act, so the   *)
(* task is cut there:                                                      *)
(*                                                                         *)
(*    wait --> list --> next --> judge --> send --> next --> ... --> wait  *)
(*                                                                         *)
(*   list   the wake flag is cleared, list_nodes is under way;             *)
(*   next   between two nodes, latest_metric of the next is under way;     *)
(*   judge  the sample has been read, the verdict is not computed yet;     *)
(*   send   the webhook request is under way;                              *)
(*   wait   wait_for on the wake flag, with the check interval as timeout; *)
(*   dead   a store call raised: nothing restarts the task.                *)
(*                                                                         *)
(* Time is kept as ages that stop growing once nothing can change, so runs *)
(* of any length are covered by finitely many states.  The clock does not  *)
(* step backwards.  The alert interval has no length: a wait may time out  *)
(* at any moment.                                                          *)
(***************************************************************************)
EXTENDS HealthPolicy

CONSTANTS
  Nodes, NoNode,    \* node_id values, and what is not one
  Cooldown,         \* alert_cooldown_seconds, in ticks
  Reports,          \* the collection errors heartbeats carry
  Arrivals,         \* the samples agents send
  LostAcks,         \* may a webhook be received though the request fails?
  StoreMayFail,     \* may a store call of the task raise?
  Prompt,           \* does time pass only while the task waits or sends?
  MaxRestarts       \* bound on controller restarts

ASSUME AlertAssumption ==
  /\ NoNode \notin Nodes
  /\ Cooldown \in Nat
  /\ Reports \subseteq Errors
  /\ Arrivals \subseteq {"ok", "hot"}
  /\ LostAcks \in BOOLEAN /\ StoreMayFail \in BOOLEAN /\ Prompt \in BOOLEAN
  /\ MaxRestarts \in Nat

VARIABLES
  \* the registry rows (store.py), read through the newest sample
  registered, age, error, latest,
  \* the handlers (app.py): committed but notify() not yet called
  unnotified,
  \* AlertManager
  wake, active, delivered, since,
  \* the locals of run and evaluate
  pc, todo, snap, cur, sample, verdict,
  \* the receiver: the last status it processed, per node
  told,
  restarts,
  \* history: changes no listing has seen, problems announced since the last
  \* recovery, and the statuses a listed node really had since its listing
  unseen, raised, real

rows    == <<registered, age, error, latest>>
memory  == <<active, delivered, since>>
locals  == <<pc, todo, snap, cur, sample, verdict>>
vars    == <<rows, unnotified, wake, memory, locals, told, restarts,
             unseen, raised, real>>

None    == "none"
NoSnap  == [age |-> 0, error |-> "null"]
Pending == todo \union {cur}
Never   == [s \in Statuses |-> Cooldown]

TypeOK ==
  /\ registered \subseteq Nodes
  \* last_seen is never in the future, whatever clock an agent has (README.md:42)
  /\ age \in [Nodes -> Ages]
  /\ error \in [Nodes -> Errors]
  /\ latest \in [Nodes -> Samples]
  /\ unnotified \subseteq Nodes
  /\ wake \in BOOLEAN
  /\ active \subseteq Nodes
  /\ delivered \in [Nodes -> Statuses \union {None}]
  /\ since \in [Nodes -> [Statuses -> 0 .. Cooldown]]
  /\ pc \in {"list", "next", "judge", "send", "wait", "dead"}
  /\ todo \subseteq Nodes
  /\ snap \in [Nodes -> [age : Ages, error : Errors]]
  /\ cur \in Nodes \union {NoNode}
  /\ sample \in Samples
  /\ verdict \in Statuses \union {None}
  /\ told \in [Nodes -> Statuses \union {None}]
  /\ restarts \in 0 .. MaxRestarts
  /\ unseen \subseteq Nodes
  /\ raised \subseteq Nodes
  /\ real \in [Nodes -> SUBSET Statuses]
  \* a node is being treated exactly between its sample's reading and its end
  /\ cur \in Nodes <=> pc \in {"judge", "send"}
  /\ verdict \in Statuses <=> pc = "send"

-----------------------------------------------------------------------------
Init ==
  /\ registered = {}
  /\ age = [n \in Nodes |-> 0]
  /\ error = [n \in Nodes |-> "null"]
  /\ latest = [n \in Nodes |-> "none"]
  /\ unnotified = {}
  /\ wake = FALSE
  /\ active = {}
  /\ delivered = [n \in Nodes |-> None]
  /\ since = [n \in Nodes |-> Never]
  /\ pc = "list"
  /\ todo = {}
  /\ snap = [n \in Nodes |-> NoSnap]
  /\ cur = NoNode
  /\ sample = "none"
  /\ verdict = None
  /\ told = [n \in Nodes |-> None]
  /\ restarts = 0
  /\ unseen = {}
  /\ raised = {}
  /\ real = [n \in Nodes |-> {}]

-----------------------------------------------------------------------------
(* The registry rows.                                                      *)

TrueStatus(n) == StatusOf(age[n], error[n], latest[n])

\* The history of n's true status goes on while the task still has n to judge.
Witnessed(n, status) ==
  IF n \in Pending THEN [real EXCEPT ![n] = @ \union {status}] ELSE real

\* One committed write to the row of n: last_seen is now, last_error and the
\* newest sample as given.  The handler has not called notify() yet.
Commit(n, e, s) ==
  /\ age' = [age EXCEPT ![n] = 0]
  /\ error' = [error EXCEPT ![n] = e]
  /\ latest' = [latest EXCEPT ![n] = s]
  /\ unnotified' = unnotified \union {n}
  /\ unseen' = unseen \union {n}
  /\ real' = Witnessed(n, StatusOf(0, e, s))
  /\ UNCHANGED <<wake, memory, locals, told, restarts, raised>>

\* An upsert: a node that registers again keeps its samples, not its error.
Register(n) ==
  /\ registered' = registered \union {n}
  /\ Commit(n, "null", latest[n])

\* Variant for the mutation runs: a sample leaves the reported error standing.
IngestKeepsError(n, s) ==
  /\ n \in registered
  /\ Commit(n, error[n], s)
  /\ UNCHANGED registered

\* The newest sample is the one with the largest collected_at, so an accepted
\* sample that is older by the agent's clock leaves the newest as it was.
Ingest(n, s) ==
  /\ n \in registered
  /\ \/ Commit(n, "null", s)
     \/ latest[n] # "none" /\ Commit(n, "null", latest[n])
  /\ UNCHANGED registered

\* Variant: last_seen is the agent_time of the heartbeat, by a clock that is ahead.
HeartbeatByAgent(n, e) ==
  /\ n \in registered
  /\ age' = [age EXCEPT ![n] = -1]
  /\ error' = [error EXCEPT ![n] = e]
  /\ unnotified' = unnotified \union {n}
  /\ unseen' = unseen \union {n}
  /\ real' = Witnessed(n, StatusOf(0, e, latest[n]))
  /\ UNCHANGED <<registered, latest, wake, memory, locals, told, restarts, raised>>

Heartbeat(n, e) ==
  /\ n \in registered
  /\ Commit(n, e, latest[n])
  /\ UNCHANGED registered

\* maintenance deletes old samples.  It wakes nobody.
Prune(n) ==
  /\ latest[n] # "none"
  /\ latest' = [latest EXCEPT ![n] = "none"]
  /\ real' = Witnessed(n, StatusOf(age[n], error[n], "none"))
  /\ UNCHANGED <<registered, age, error, unnotified, wake, memory, locals, told,
                 restarts, unseen, raised>>

\* The handler is back on the event loop: alert_manager.notify().
Notify(n) ==
  /\ n \in unnotified
  /\ unnotified' = unnotified \ {n}
  /\ wake' = TRUE
  /\ UNCHANGED <<rows, memory, locals, told, restarts, unseen, raised, real>>

-----------------------------------------------------------------------------
(* Time.  Rows, the copies the task holds, and attempts all grow older.    *)

Older(a) == IF Expired(a) THEN a ELSE a + 1
Later(d) == IF d < Cooldown THEN d + 1 ELSE d

Tick ==
  /\ Prompt => pc \in {"wait", "send", "dead"}
  /\ age' = [n \in Nodes |-> IF n \in registered THEN Older(age[n]) ELSE age[n]]
  /\ snap' = [n \in Nodes |-> IF n \in Pending
                               THEN [snap[n] EXCEPT !.age = Older(@)] ELSE snap[n]]
  /\ since' = [n \in Nodes |-> [s \in Statuses |-> Later(since[n][s])]]
  /\ real' = [n \in Nodes |-> IF n \in Pending
                 THEN real[n] \union {StatusOf(age'[n], error[n], latest[n])}
                 ELSE real[n]]
  /\ UNCHANGED <<registered, error, latest, unnotified, wake, active, delivered,
                 pc, todo, cur, sample, verdict, told, restarts, unseen, raised>>

-----------------------------------------------------------------------------
(* The task.                                                               *)

\* list_nodes copies every row under the store's lock; the copies are used for
\* the whole pass.
List ==
  /\ pc = "list"
  /\ todo' = registered
  /\ snap' = [n \in Nodes |-> IF n \in registered
                 THEN [age |-> age[n], error |-> error[n]] ELSE NoSnap]
  /\ real' = [n \in Nodes |-> IF n \in registered THEN {TrueStatus(n)} ELSE {}]
  /\ unseen' = {}
  /\ pc' = "next"
  /\ UNCHANGED <<rows, unnotified, wake, memory, cur, sample, verdict, told,
                 restarts, raised>>

\* latest_metric of the next node.  The order of the nodes is left open.
ReadLatest(n) ==
  /\ pc = "next"
  /\ n \in todo
  /\ todo' = todo \ {n}
  /\ cur' = n
  /\ sample' = latest[n]
  /\ pc' = "judge"
  /\ UNCHANGED <<rows, unnotified, wake, memory, snap, verdict, told, restarts,
                 unseen, raised, real>>

\* Variant: the wake flag is cleared after the pass instead of before it.
EndPassClears ==
  /\ pc = "next"
  /\ todo = {}
  /\ pc' = "wait"
  /\ wake' = FALSE
  /\ UNCHANGED <<rows, unnotified, memory, todo, snap, cur, sample, verdict,
                 told, restarts, unseen, raised, real>>

\* The pass is over; wait_for starts to wait.
EndPass ==
  /\ pc = "next"
  /\ todo = {}
  /\ pc' = "wait"
  /\ UNCHANGED <<rows, unnotified, wake, memory, todo, snap, cur, sample, verdict,
                 told, restarts, unseen, raised, real>>

\* evaluate_status on the listed row, the sample read since and the clock now.
Judged == StatusOf(snap[cur].age, snap[cur].error, sample)

\* The first early return: a registration that waits for its first sample.
Ignored == Waiting(snap[cur].age, snap[cur].error, sample)

\* The node's problem is open from here on, whether or not it is announced.
NowActive == IF Judged \in Problems /\ ~Ignored THEN active \union {cur} ELSE active

\* Variant: the cooldown is forgotten.
DueAnyTime ==
  /\ ~Ignored
  /\ Judged = "HEALTHY" => cur \in active
  /\ delivered[cur] # Judged

\* None of the early returns: something to say, not said yet, not too soon.
Due ==
  /\ ~Ignored
  /\ Judged = "HEALTHY" => cur \in active
  /\ delivered[cur] # Judged
  /\ since[cur][Judged] >= Cooldown

\* The task is done with cur.
Release ==
  /\ pc' = "next"
  /\ cur' = NoNode
  /\ snap' = [snap EXCEPT ![cur] = NoSnap]
  /\ sample' = "none"
  /\ verdict' = None
  /\ real' = [real EXCEPT ![cur] = {}]
  /\ UNCHANGED <<todo, rows, unnotified, wake, restarts, unseen>>

Skip ==
  /\ pc = "judge"
  /\ ~Due
  /\ active' = NowActive
  /\ Release
  /\ UNCHANGED <<delivered, since, told, raised>>

\* Variant: the alert is closed before its recovery has been delivered.
LaunchCloses ==
  /\ pc = "judge"
  /\ Due
  /\ active' = IF Judged = "HEALTHY" THEN active \ {cur} ELSE NowActive
  /\ since' = [since EXCEPT ![cur][Judged] = 0]
  /\ verdict' = Judged
  /\ raised' = IF Judged \in Problems THEN raised \union {cur} ELSE raised
  /\ pc' = "send"
  /\ UNCHANGED <<rows, unnotified, wake, delivered, todo, snap, cur, sample, told,
                 restarts, unseen, real>>

\* The attempt is entered in _last_attempt before the request starts.
Launch ==
  /\ pc = "judge"
  /\ Due
  /\ active' = NowActive
  /\ since' = [since EXCEPT ![cur][Judged] = 0]
  /\ verdict' = Judged
  /\ raised' = IF Judged \in Problems THEN raised \union {cur} ELSE raised
  /\ pc' = "send"
  /\ UNCHANGED <<rows, unnotified, wake, delivered, todo, snap, cur, sample, told,
                 restarts, unseen, real>>

SendOK ==
  /\ pc = "send"
  /\ told' = [told EXCEPT ![cur] = verdict]
  /\ delivered' = [delivered EXCEPT ![cur] = verdict]
  /\ active' = IF verdict = "HEALTHY" THEN active \ {cur} ELSE active
  /\ raised' = IF verdict = "HEALTHY" THEN raised \ {cur} ELSE raised
  /\ Release
  /\ UNCHANGED since

\* Variant: a failed request is noted as delivered.
SendFailDelivered ==
  /\ pc = "send"
  /\ delivered' = [delivered EXCEPT ![cur] = verdict]
  /\ Release
  /\ UNCHANGED <<active, since, told, raised>>

\* An error status, a timeout or a broken connection; the receiver may have
\* processed the alert before the answer was lost.  That it processes it later,
\* after a following one, is the receiver's own disorder and left out.
SendFail ==
  /\ pc = "send"
  /\ \/ UNCHANGED told
     \/ LostAcks /\ told' = [told EXCEPT ![cur] = verdict]
  /\ Release
  /\ UNCHANGED <<memory, raised>>

\* wait_for returns, the loop comes round and clears the flag.
StartPass ==
  /\ wake' = FALSE
  /\ pc' = "list"
  /\ UNCHANGED <<rows, unnotified, memory, todo, snap, cur, sample, verdict, told,
                 restarts, unseen, raised, real>>

Woken    == pc = "wait" /\ wake /\ StartPass
TimedOut == pc = "wait" /\ StartPass

-----------------------------------------------------------------------------
(* Failures.                                                               *)

\* The task forgets the pass it was in.
Abandon ==
  /\ todo' = {}
  /\ snap' = [n \in Nodes |-> NoSnap]
  /\ cur' = NoNode
  /\ sample' = "none"
  /\ verdict' = None
  /\ real' = [n \in Nodes |-> {}]

\* run() has no handler for an exception of the store: the task ends.
StoreFailure ==
  /\ StoreMayFail
  /\ pc = "list" \/ (pc = "next" /\ todo # {})
  /\ pc' = "dead"
  /\ Abandon
  /\ UNCHANGED <<rows, unnotified, wake, memory, told, restarts, unseen, raised>>

\* The controller stops and starts: the database stays, the manager's memory
\* goes.  A request under way may or may not have reached the receiver.
Restart ==
  /\ restarts < MaxRestarts
  /\ restarts' = restarts + 1
  /\ \/ UNCHANGED told
     \/ pc = "send" /\ told' = [told EXCEPT ![cur] = verdict]
  /\ unnotified' = {}
  /\ wake' = FALSE
  /\ active' = {}
  /\ delivered' = [n \in Nodes |-> None]
  /\ since' = [n \in Nodes |-> Never]
  /\ raised' = {}
  /\ pc' = "list"
  /\ Abandon
  /\ UNCHANGED <<rows, unseen>>

-----------------------------------------------------------------------------
Write ==
  \/ \E n \in Nodes : Register(n) \/ Prune(n)
  \/ \E n \in Nodes, s \in Arrivals : Ingest(n, s)
  \/ \E n \in Nodes, e \in Reports : Heartbeat(n, e)

Pass ==
  \/ List
  \/ \E n \in Nodes : ReadLatest(n)
  \/ EndPass
  \/ Skip
  \/ Launch

Send == SendOK \/ SendFail

Next ==
  \/ Write
  \/ \E n \in Nodes : Notify(n)
  \/ Tick
  \/ Pass
  \/ Send
  \/ Woken
  \/ TimedOut
  \/ StoreFailure
  \/ Restart

Spec == Init /\ [][Next]_vars

\* The event loop runs what is ready and wait_for times out; time passes; and a
\* webhook that is tried again and again is accepted again and again.
Fairness ==
  /\ WF_vars(Pass \/ Send \/ Woken \/ TimedOut)
  /\ SF_vars(Tick)
  /\ SF_vars(SendOK)

FairSpec == Spec /\ Fairness
=============================================================================
