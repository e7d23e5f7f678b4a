------------------------------ MODULE Reporting ------------------------------
(***************************************************************************)
(* The agent against a controller that answers, fails and forgets: does    *)
(* its node keep being reported?  The controller is reduced to whether its *)
(* database knows the node; which call is executed and which answer is     *)
(* lost is open, so that an answered call may have failed halfway and an   *)
(* unanswered one may have been executed.                                  *)
(***************************************************************************)
EXTENDS Agent

CONSTANT MaxWipes   \* bound on losses of the controller's database

ASSUME ReportingAssumption == MaxWipes \in Nat

VARIABLES
  known,     \* does the nodes table have a row for the node?
  wipes,
  reported   \* history: how the last report ended, "none" while one is due

vars == <<agent, known, wipes, reported>>

TypeOK ==
  /\ AgentTypeOK
  /\ known \in BOOLEAN
  /\ wipes \in 0 .. MaxWipes
  /\ reported \in {"none", "stored", "lost"}

Init ==
  /\ AgentInit
  /\ known = FALSE
  /\ wipes = 0
  /\ reported = "none"

\* The report under way ends so.
Outcome(how) == reported' = IF job \in Reports THEN how ELSE reported

\* The controller executes the call and its answer arrives.  A registration is
\* an upsert; a report needs the row.
Answer ==
  /\ UNCHANGED wipes
  /\ \/ job \in Registrations /\ Accepted /\ known' = TRUE /\ UNCHANGED reported
     \/ job \in Reports /\ known /\ Accepted /\ UNCHANGED known /\ Outcome("stored")
     \/ ~known /\ NotFound /\ UNCHANGED known /\ Outcome("lost")

\* No usable answer, whether or not the call was executed.
Fail ==
  /\ Rejected \/ Unanswered
  /\ known' \in {known, known \/ job \in Registrations}
  /\ IF pc' = "backoff" THEN UNCHANGED reported ELSE Outcome("lost")
  /\ UNCHANGED wipes

\* The controller comes back with an empty database.
Wipe ==
  /\ known
  /\ wipes < MaxWipes
  /\ known' = FALSE
  /\ wipes' = wipes + 1
  /\ UNCHANGED <<agent, reported>>

Step ==
  /\ UNCHANGED <<known, wipes>>
  /\ \/ (Boot \/ Retry \/ Wake \/ Start) /\ UNCHANGED reported
     \/ \E r \in Reports : Collect(r) /\ reported' = "none"

Die ==
  /\ Crash
  /\ reported' = "none"
  /\ UNCHANGED <<known, wipes>>

Next == Answer \/ Fail \/ Wipe \/ Step \/ Die

Spec == Init /\ [][Next]_vars

\* The agent's own steps are taken; a call ends one way or another (every call
\* has a timeout); and a kind of call that is made again and again is answered
\* again and again.
Fairness ==
  /\ WF_vars(Step)
  /\ WF_vars(Answer \/ Fail)
  /\ \A j \in Jobs : SF_vars(job = j /\ Answer)

FairSpec == Spec /\ Fairness

-----------------------------------------------------------------------------
\* The agent reports only after a registration succeeded in this process, so that
\* a 404, and with it a second registration, means that the controller lost its
\* database since.  (serve, send_once)
SecondRegistrationHasCause == job = "again" => wipes > 0

\* Whatever was lost, once the database stays and the agent lives, reports are
\* stored again and again: through boot, retries, 404 and registering again.
\* (serve, send_once, _deliver)
ReportsResume == []<>(reported = "stored")
=============================================================================
