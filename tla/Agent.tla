-------------------------------- MODULE Agent --------------------------------
(***************************************************************************)
(* The control flow of the node agent, clusterwatch/agent/main.py: serve,  *)
(* send_once, register and _deliver, for one node.  The agent has at most  *)
(* one HTTP call of its own outstanding; what becomes of a call the agent  *)
(* no longer waits for is the subject of module Delivery.                  *)
(*                                                                         *)
(*   boot     about to register, in the first loop of serve;               *)
(*   pause    the three seconds between two boot registrations;            *)
(*   collect  about to collect a sample, in the second loop of serve;      *)
(*   call     in _deliver, a request is out;                               *)
(*   backoff  in _deliver, asleep before the next attempt;                 *)
(*   sleep    the rest of the sample interval;                             *)
(*   dead     an exception left serve, or the process was killed.          *)
(***************************************************************************)
EXTENDS Integers

CONSTANTS
  MaxAttempts,   \* delivery_max_attempts, at least 1 (config.py clamps it)
  MaxCrashes     \* bound on deaths of the agent process

ASSUME AgentAssumption ==
  /\ MaxAttempts \in Nat \ {0}
  /\ MaxCrashes \in Nat

VARIABLES
  pc,
  job,       \* the delivery under way, see Jobs
  attempt,   \* the attempt of _deliver, from 1
  crashes

agent == <<pc, job, attempt, crashes>>

PCs == {"boot", "pause", "collect", "call", "backoff", "sleep", "dead"}

\* The two kinds of report of send_once, the registration at boot and the one
\* that answers a 404.
Reports       == {"metric", "heartbeat"}
Registrations == {"boot", "again"}
Jobs          == Reports \union Registrations

AgentTypeOK ==
  /\ pc \in PCs
  /\ job \in Jobs \union {"none"}
  /\ attempt \in 0 .. MaxAttempts
  /\ crashes \in 0 .. MaxCrashes
  \* inside _deliver, and only there, there is a job and an attempt
  /\ pc \in {"call", "backoff"} <=> job \in Jobs
  /\ job \in Jobs <=> attempt > 0
  /\ pc = "backoff" => attempt < MaxAttempts

AgentInit ==
  /\ pc = "boot"
  /\ job = "none"
  /\ attempt = 0
  /\ crashes = 0

-----------------------------------------------------------------------------
\* _deliver is entered: its first request goes out.
Deliver(j) ==
  /\ pc' = "call"
  /\ job' = j
  /\ attempt' = 1
  /\ UNCHANGED crashes

\* _deliver is left, and the agent goes on at p.
Leave(p) ==
  /\ pc' = p
  /\ job' = "none"
  /\ attempt' = 0
  /\ UNCHANGED crashes

Boot == pc = "boot" /\ Deliver("boot")

\* send_once: collect() either returns a sample or raises, and the error goes out
\* in a heartbeat.
Collect(report) == pc = "collect" /\ Deliver(report)

\* A 2xx answer.
Accepted ==
  /\ pc = "call"
  /\ Leave(IF job = "boot" THEN "collect" ELSE "sleep")

\* Variant for the mutation runs: the 404 is logged and the agent goes on.
NotFoundIgnored ==
  /\ pc = "call"
  /\ job \in Reports
  /\ Leave("sleep")

\* A 404 is an answer for a report: the agent registers again and the report is
\* not repeated.  For a registration it is an error like another.
NotFound ==
  /\ pc = "call"
  /\ job \in Reports
  /\ Deliver("again")

\* Variant: any failure ends the boot loop.
GiveUpBoot == pc = "call" /\ Leave("sleep")

\* The error is raised out of _deliver.  serve catches it in both loops.
GiveUp ==
  /\ pc = "call"
  /\ Leave(IF job = "boot" THEN "pause" ELSE "sleep")

\* An answer that is not to be retried: a 3xx or 4xx except 408, 425 and 429.
Rejected == GiveUp

\* Variant: one attempt too many.
UnansweredOneMore ==
  \/ /\ pc = "call"
     /\ attempt <= MaxAttempts
     /\ pc' = "backoff"
     /\ UNCHANGED <<job, attempt, crashes>>
  \/ /\ attempt > MaxAttempts
     /\ GiveUp

\* No answer, or one that is to be retried: 408, 425, 429, 5xx.
Unanswered ==
  \/ /\ pc = "call"
     /\ attempt < MaxAttempts
     /\ pc' = "backoff"
     /\ UNCHANGED <<job, attempt, crashes>>
  \/ /\ attempt = MaxAttempts
     /\ GiveUp

Retry ==
  /\ pc = "backoff"
  /\ pc' = "call"
  /\ attempt' = attempt + 1
  /\ UNCHANGED <<job, crashes>>

\* The sleeps of serve.
Wake ==
  \/ pc = "pause" /\ Leave("boot")
  \/ pc = "sleep" /\ Leave("collect")

\* An exception serve does not catch (anything but httpx.HTTPError and OSError,
\* such as one raised by the capability probe in register), or a kill.
Crash ==
  /\ pc # "dead"
  /\ crashes < MaxCrashes
  /\ crashes' = crashes + 1
  /\ pc' = "dead"
  /\ job' = "none"
  /\ attempt' = 0

\* systemd or Docker starts the process again.
Start == pc = "dead" /\ Leave("boot")
=============================================================================
