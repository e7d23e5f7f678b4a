------------------------------ MODULE Delivery ------------------------------
(***************************************************************************)
(* An agent, the network and the controller's ingestion handlers, for one  *)
(* node: clusterwatch/agent/main.py over controller/app.py (register,      *)
(* ingest_metrics, heartbeat) and controller/store.py.                     *)
(*                                                                         *)
(* The agent waits ten seconds for an answer and then tries again; the     *)
(* request it gave up is not called back.  It may still be on its way, or  *)
(* wait in a worker thread for the store's lock, and be executed after the *)
(* retry, after the next report, or never.                                 *)
(*                                                                         *)
(* Reports carry the number of their collection, which stands for          *)
(* collected_at: the agent's clock is taken not to step back.              *)
(***************************************************************************)
EXTENDS Agent, Sequences, FiniteSets

CONSTANTS
  MaxReports,   \* bound on the reports of a behaviour
  MaxLate,      \* bound on given-up requests that are still to be executed
  MaxWipes      \* bound on losses of the controller's database

ASSUME DeliveryAssumption ==
  MaxReports \in Nat /\ MaxLate \in Nat /\ MaxWipes \in Nat

VARIABLES
  report,     \* number of the newest report
  calls,      \* requests that are out
  \* the store: is there a nodes row, its last_error, the metrics rows by their
  \* id, which is never given twice (collected_at only, or Deleted)
  known, failing, rows,
  wipes,
  \* history: the newest sample that was answered 202 and is still to be found,
  \* and whether the last finished report is a heartbeat that was answered so
  accepted, standing

store == <<known, failing, rows>>
vars  == <<agent, report, calls, store, wipes, accepted, standing>>

Stages == {"sent", "stored", "missing"}

Calls == [job : Jobs, report : 0 .. MaxReports, attempt : 1 .. MaxAttempts,
          mine : BOOLEAN, stage : Stages]

Deleted == 0

Stored == {rows[i] : i \in DOMAIN rows} \ {Deleted}

Copies(r) == Cardinality({i \in DOMAIN rows : rows[i] = r})

TypeOK ==
  /\ AgentTypeOK
  /\ report \in 0 .. MaxReports
  /\ calls \subseteq Calls
  /\ known \in BOOLEAN
  /\ failing \in BOOLEAN
  /\ rows \in Seq({Deleted} \union 1 .. MaxReports)
  /\ wipes \in 0 .. MaxWipes
  /\ accepted \in 0 .. MaxReports
  /\ standing \in BOOLEAN
  \* the agent waits for exactly one request, that of its present attempt
  /\ \A c \in calls : c.mine =>
       pc = "call" /\ c.job = job /\ c.attempt = attempt /\ c.report = report
  /\ pc = "call" => Cardinality({c \in calls : c.mine}) = 1

Init ==
  /\ AgentInit
  /\ report = 0
  /\ calls = {}
  /\ known = FALSE
  /\ failing = FALSE
  /\ rows = <<>>
  /\ wipes = 0
  /\ accepted = 0
  /\ standing = FALSE

-----------------------------------------------------------------------------
(* The agent's side.                                                       *)

\* The request of the attempt the agent has just begun.
Request == [job |-> job', report |-> report', attempt |-> attempt',
            mine |-> TRUE, stage |-> "sent"]

\* What can still become of a request nobody waits for: one that was executed is
\* of no more interest, one that was not may be lost or executed late.
GivenUp(c) ==
  LET late == [c EXCEPT !.mine = FALSE]
      rest == calls \ {c}
  IN  {rest} \union (IF c.stage = "sent" /\ Cardinality(rest) < MaxLate
                     THEN {rest \union {late}} ELSE {})

Step ==
  /\ \/ /\ Boot \/ Retry
        /\ UNCHANGED <<report, standing>>
        /\ calls' = calls \union {Request}
     \/ /\ Wake \/ Start
        /\ UNCHANGED <<report, calls, standing>>
     \/ /\ report < MaxReports
        /\ report' = report + 1
        /\ \E r \in Reports : Collect(r)
        /\ calls' = calls \union {Request}
        /\ standing' = FALSE
  /\ UNCHANGED <<store, wipes, accepted>>

\* Variant: a request that timed out is still waited for.
TimeOutKeeps(c) ==
  /\ c.mine
  /\ Unanswered
  /\ calls' = calls
  /\ UNCHANGED <<report, store, wipes, accepted, standing>>

\* Ten seconds passed, or the connection broke.
TimeOut(c) ==
  /\ c.mine
  /\ Unanswered
  /\ calls' \in GivenUp(c)
  /\ UNCHANGED <<report, store, wipes, accepted, standing>>

\* The answer of the handler arrives.
Answer(c) ==
  /\ c.mine
  /\ \/ /\ c.stage = "stored"
        /\ Accepted
        /\ calls' = calls \ {c}
        /\ accepted' = IF job = "metric" /\ report \in Stored
                         THEN report ELSE accepted
        /\ standing' = (job = "heartbeat" /\ known)
     \/ /\ c.stage = "missing"
        /\ NotFound
        /\ report' = report
        /\ calls' = (calls \ {c}) \union {Request}
        /\ UNCHANGED <<accepted, standing>>
  /\ UNCHANGED <<report, store, wipes>>

\* Answered with an error before the store was touched: a wrong key (401), a body
\* the schema refuses (422), a proxy or the server in trouble (429, 5xx).
Refuse(c) ==
  /\ c.mine
  /\ c.stage = "sent"
  /\ Rejected \/ Unanswered
  /\ calls' = calls \ {c}
  /\ UNCHANGED <<report, store, wipes, accepted, standing>>

Die ==
  /\ Crash
  /\ IF pc = "call" THEN \E c \in calls : c.mine /\ calls' \in GivenUp(c)
                    ELSE UNCHANGED calls
  /\ standing' = FALSE
  /\ UNCHANGED <<report, store, wipes, accepted>>

-----------------------------------------------------------------------------
(* The controller's side.                                                  *)

\* Variant for the mutation runs: a sample of an unknown node is stored as well.
EffectUnchecked(c) ==
  /\ known' = (known \/ c.job \in Registrations)
  /\ failing' = (c.job = "heartbeat")
  /\ rows' = IF c.job = "metric" THEN Append(rows, c.report) ELSE rows

\* Variant: a transaction that failed halfway is run once more.
EffectTwice(c) ==
  \/ /\ c.job \in Registrations
     /\ known' = TRUE
     /\ failing' = FALSE
     /\ UNCHANGED rows
  \/ /\ c.job = "metric" /\ known
     /\ rows' \in {Append(rows, c.report), rows \o <<c.report, c.report>>}
     /\ failing' = FALSE
     /\ UNCHANGED known
  \/ /\ c.job = "heartbeat" /\ known
     /\ failing' = TRUE
     /\ UNCHANGED <<known, rows>>
  \/ /\ c.job \in Reports /\ ~known
     /\ UNCHANGED store

\* The worker thread gets the lock and runs the statements of the request in one
\* transaction.  A report of an unknown node changes nothing.
Effect(c) ==
  \/ /\ c.job \in Registrations
     /\ known' = TRUE
     /\ failing' = FALSE
     /\ UNCHANGED rows
  \/ /\ c.job = "metric" /\ known
     /\ rows' = Append(rows, c.report)
     /\ failing' = FALSE
     /\ UNCHANGED known
  \/ /\ c.job = "heartbeat" /\ known
     /\ failing' = TRUE
     /\ UNCHANGED <<known, rows>>
  \/ /\ c.job \in Reports /\ ~known
     /\ UNCHANGED store

Execute(c) ==
  /\ c.stage = "sent"
  /\ Effect(c)
  /\ LET seen == [c EXCEPT !.stage = IF known' THEN "stored" ELSE "missing"]
     IN  calls' = (calls \ {c}) \union (IF c.mine THEN {seen} ELSE {})
  /\ UNCHANGED <<agent, report, wipes, accepted, standing>>

\* A request nobody waits for is lost with its connection or its controller.
Lose(c) ==
  /\ ~c.mine
  /\ calls' = calls \ {c}
  /\ UNCHANGED <<agent, report, store, wipes, accepted, standing>>

\* Variant: the last insertion.
LatestInserted == IF rows = <<>> THEN 0 ELSE rows[Len(rows)]

\* latest_metric: the largest collected_at, not the last insertion; 0 for none.
LatestMetric ==
  IF Stored = {} THEN 0 ELSE CHOOSE r \in Stored : \A q \in Stored : q <= r

\* maintenance deletes the rows collected before the cutoff.
Prune(cutoff) ==
  /\ rows' = [i \in DOMAIN rows |-> IF rows[i] < cutoff THEN Deleted ELSE rows[i]]
  /\ rows' # rows
  /\ accepted' = IF accepted < cutoff THEN 0 ELSE accepted
  /\ UNCHANGED <<agent, report, calls, known, failing, wipes, standing>>

\* The controller comes back with an empty database.  The requests it held for
\* nobody are gone; an answer that was on its way still arrives.
Wipe ==
  /\ known
  /\ wipes < MaxWipes
  /\ wipes' = wipes + 1
  /\ known' = FALSE
  /\ failing' = FALSE
  /\ rows' = <<>>
  /\ accepted' = 0
  /\ standing' = FALSE
  /\ calls' = {c \in calls : c.mine}
  /\ UNCHANGED <<agent, report>>

-----------------------------------------------------------------------------
\* The bound on reports is reached.
Done ==
  /\ pc = "collect"
  /\ report = MaxReports
  /\ UNCHANGED vars

Next ==
  \/ Step
  \/ Die
  \/ Wipe
  \/ Done
  \/ \E k \in 2 .. MaxReports : Prune(k)
  \/ \E c \in calls : Answer(c) \/ Refuse(c) \/ TimeOut(c) \/ Execute(c) \/ Lose(c)

Spec == Init /\ [][Next]_vars

-----------------------------------------------------------------------------
\* A sample that was answered 202 is what latest_metric returns, and with it what
\* the status is derived from, until a newer one is accepted or it is pruned: no
\* older sample that is executed late takes its place.  (ingest_metrics,
\* Store.add_metric, Store.latest_metric)
AcceptedIsLatest == LatestMetric >= accepted

\* However requests time out and are executed late, a sample is stored at most once
\* per attempt made for it.  (_deliver, Store.add_metric)
FewCopies ==
  \A r \in 1 .. MaxReports :
    Copies(r) <= IF r = report /\ job = "metric" THEN attempt ELSE MaxAttempts

\* A sample is stored only for a registered node: rows come and go with the row
\* of their node.  (Store.add_metric)
RowsHaveNode == Stored # {} => known

\* README.md:49: WARNING if the agent reported a collection error.  When the last
\* report of the agent is a heartbeat that was answered 202, last_error holds the
\* error until the agent speaks again.  (heartbeat, Store.add_metric)
ReportedErrorStands == standing => failing
=============================================================================
