---------------------------- MODULE HealthPolicy ----------------------------
(***************************************************************************)
(* The health of a node, as clusterwatch/controller/status.py derives it   *)
(* from the stored row and the newest stored sample.  Nothing is stored:   *)
(* every reader derives the status again, from an age it computes itself.  *)
(*                                                                         *)
(* This module is the policy seen from a distance: a sample is "none" (no  *)
(* row), "ok" (no reading at its threshold) or "hot".  Module Thresholds   *)
(* refines "ok" and "hot" into readings.                                   *)
(***************************************************************************)
EXTENDS Integers

CONSTANT OfflineTimeout   \* offline_timeout_seconds, in ticks of the model

ASSUME OfflineTimeoutAssumption == OfflineTimeout \in Nat

Statuses == {"HEALTHY", "WARNING", "OFFLINE"}
Problems == {"WARNING", "OFFLINE"}
Samples  == {"none", "ok", "hot"}

\* nodes.last_error: NULL, the empty string (an exception without a message)
\* or a text.
Errors == {"null", "empty", "text"}

\* Python's truth of last_error: NULL and the empty string are both false.
HasError(error) == error = "text"

\* Ages are counted up to one tick over the timeout; beyond it nothing changes.
Ages == 0 .. OfflineTimeout + 1

Expired(age) == age > OfflineTimeout

StatusOf(age, error, sample) ==
  IF Expired(age) THEN "OFFLINE"
  ELSE IF HasError(error) \/ sample # "ok" THEN "WARNING" ELSE "HEALTHY"

\* A node that registered and has neither sent a sample nor reported an error.
Waiting(age, error, sample) ==
  /\ StatusOf(age, error, sample) = "WARNING"
  /\ sample = "none"
  /\ ~HasError(error)
=============================================================================
