-------------------------- MODULE AlertsProperties --------------------------
(***************************************************************************)
(* What must hold of the alert manager (module Alerts).                    *)
(***************************************************************************)
EXTENDS Alerts

\* No write is left behind by a lost wake-up: once its handler has notified, a
\* write that no listing has seen either finds the wake flag set or the next
\* listing about to start, whatever run() was doing.  (run, notify)
NoLostWake == unseen \subseteq unnotified \/ wake \/ pc \in {"list", "dead"}

\* As long as the controller lives, a node whose last processed or last
\* acknowledged alert is a problem is in _active_alerts, so that a recovery is
\* not dropped by the early return for healthy nodes.  (_evaluate_node)
OpenAlertIsTracked ==
  \A n \in Nodes :
    /\ delivered[n] \in Problems => n \in active
    /\ told[n] \in Problems /\ restarts = 0 => n \in active

\* The row is listed first, the sample read later and the clock last, with writes
\* and prunes in between; still a HEALTHY or WARNING alert names a status the
\* node really had at some moment of this pass.  (evaluate, _evaluate_node)
AlertWasTrue ==
  pc = "send" /\ verdict # "OFFLINE" => verdict \in real[cur]

\* The same of OFFLINE: the node was silent for longer than the timeout at some
\* moment since it was listed.  (evaluate, evaluate_status)
OfflineWasTrue ==
  pc = "send" /\ verdict = "OFFLINE" => verdict \in real[cur]

\* The manager keeps the promise of module AlertPromise through every
\* interleaving, failure and restart.  (AlertManager)
Promise == INSTANCE AlertPromise WITH
             acked  <- delivered,
             open   <- raised,
             flight <- IF pc = "send" THEN {<<cur, verdict>>} ELSE {}

KeepsPromise == Promise!Spec

\* A status that lasts reaches the receiver for good: a lasting problem is the
\* last thing it was told, and of a node that stays healthy it does not go on
\* believing in a problem.  Waiting registrations are exempt, and the kind of the
\* newest sample lasts too: the hourly prune cannot strike in every pass, between
\* the listing and the reading of the sample.  (run, evaluate, _evaluate_node)
EventuallyTold ==
  \A n \in Nodes :
    /\ \A s \in Problems, k \in Samples :
         <>[]( /\ n \in registered
               /\ TrueStatus(n) = s
               /\ latest[n] = k
               /\ ~Waiting(age[n], error[n], latest[n]) ) => <>[](told[n] = s)
    /\ <>[]( n \in registered /\ TrueStatus(n) = "HEALTHY" )
         => <>[](told[n] \notin Problems)
=============================================================================
