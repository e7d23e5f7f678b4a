------------------------------- MODULE Broker -------------------------------
(***************************************************************************)
(* The event broker of clusterwatch/controller/events.py and one client's  *)
(* event_stream over it.  Streams do not disturb each other: publish wakes *)
(* them all.                                                               *)
(*                                                                         *)
(* What a page can show changes with every committed write, which its      *)
(* handler publishes a moment later, and silently when a node ages into    *)
(* OFFLINE or its samples are pruned.  Versions count these changes.       *)
(***************************************************************************)
EXTENDS Integers

CONSTANT MaxChanges   \* bound on the changes of a behaviour

ASSUME BrokerAssumption == MaxChanges \in Nat

VARIABLES
  version,   \* changes so far
  owing,     \* committed writes whose handler has not published yet
  revision,  \* EventBroker._revision
  \* the generator event_stream of the client's present connection
  stage,     \* "off" without one
  local,     \* its variable revision
  woken,     \* notify_all reached it
  sent       \* history: the last revision it yielded, -1 before the first

broker == <<version, owing, revision, stage, local, woken, sent>>

Stages == {"off", "check", "yield", "enter", "wait"}

BrokerTypeOK ==
  /\ version \in 0 .. MaxChanges
  /\ owing \in 0 .. MaxChanges
  /\ revision \in 0 .. MaxChanges
  /\ owing + revision <= version
  /\ stage \in Stages
  /\ local \in 0 .. revision
  /\ woken \in BOOLEAN
  /\ sent \in -1 .. revision

BrokerInit ==
  /\ version = 0
  /\ owing = 0
  /\ revision = 0
  /\ stage = "off"
  /\ local = 0
  /\ woken = FALSE
  /\ sent = -1

-----------------------------------------------------------------------------
\* A handler's store call returns; publish is still to come.
Write ==
  /\ version < MaxChanges
  /\ version' = version + 1
  /\ owing' = owing + 1
  /\ UNCHANGED <<revision, stage, local, woken, sent>>

\* A node ages, or maintenance prunes: nobody publishes.
SilentChange ==
  /\ version < MaxChanges
  /\ version' = version + 1
  /\ UNCHANGED <<owing, revision, stage, local, woken, sent>>

\* publish: one step under the condition's lock.
Publish ==
  /\ owing > 0
  /\ owing' = owing - 1
  /\ revision' = revision + 1
  /\ woken' = (stage = "wait")
  /\ UNCHANGED <<version, stage, local, sent>>

-----------------------------------------------------------------------------
\* The generator starts with the revision of that moment.
OpenStream ==
  /\ stage' = "check"
  /\ local' = revision
  /\ woken' = FALSE
  /\ sent' = -1
  /\ UNCHANGED <<version, owing, revision>>

\* The client is gone: is_disconnected, or the write fails.
CloseStream ==
  /\ stage' = "off"
  /\ local' = 0
  /\ woken' = FALSE
  /\ sent' = -1
  /\ UNCHANGED <<version, owing, revision>>

Check ==
  /\ stage = "check"
  /\ stage' = "yield"
  /\ UNCHANGED <<version, owing, revision, local, woken, sent>>

Yield ==
  /\ stage = "yield"
  /\ stage' = "enter"
  /\ sent' = local
  /\ UNCHANGED <<version, owing, revision, local, woken>>

\* wait_for_update returns the revision of that moment.
Return ==
  /\ local' = revision
  /\ woken' = FALSE
  /\ stage' = "check"
  /\ UNCHANGED <<version, owing, revision, sent>>

\* Variant for the mutation runs: the stream waits for the next change, whatever
\* came since it last looked.
EnterWaitForNext ==
  /\ stage = "enter"
  /\ stage' = "wait"
  /\ local' = revision
  /\ UNCHANGED <<version, owing, revision, woken, sent>>

\* wait_for_update looks first, and waits only if nothing came since.
EnterWait ==
  /\ stage = "enter"
  /\ \/ revision # local /\ Return
     \/ /\ revision = local
        /\ stage' = "wait"
        /\ UNCHANGED <<version, owing, revision, local, woken, sent>>

\* Variant for the mutation runs: only changes are worth an event.
KeepAliveSilent ==
  /\ stage = "wait"
  /\ ~woken
  /\ stage' = "enter"
  /\ UNCHANGED <<version, owing, revision, local, woken, sent>>

\* Notified, or the keepalive of five seconds is over.
Notified  == stage = "wait" /\ woken /\ Return
KeepAlive == stage = "wait" /\ Return
=============================================================================
