---------------------------- MODULE AlertPromise ----------------------------
(***************************************************************************)
(* What the alert manager of one controller process promises its webhook   *)
(* receiver, with no word about how: README.md, "Alert webhooks".          *)
(*                                                                         *)
(*  - a status the receiver acknowledged last is not sent again;           *)
(*  - two attempts for one node and status are a cooldown apart;           *)
(*  - HEALTHY is sent only to close a problem that was announced since the *)
(*    last acknowledged HEALTHY, never out of the blue;                    *)
(*  - one request is under way at a time.                                  *)
(*                                                                         *)
(* When and for which node a request starts is left open.                  *)
(***************************************************************************)
EXTENDS Integers

CONSTANTS Nodes, Cooldown

Problem == {"WARNING", "OFFLINE"}
Status  == Problem \union {"HEALTHY"}
Unsaid  == "none"

VARIABLES
  acked,    \* the status last acknowledged, per node
  open,     \* nodes with a problem announced since the last recovery
  since,    \* time since the last attempt, per node and status
  flight    \* the request under way, or {}

vars == <<acked, open, since, flight>>

Fresh == [n \in Nodes |-> [s \in Status |-> Cooldown]]

Init ==
  /\ acked = [n \in Nodes |-> Unsaid]
  /\ open = {}
  /\ since = Fresh
  /\ flight = {}

Attempt(n, s) ==
  /\ flight = {}
  /\ acked[n] # s
  /\ since[n][s] >= Cooldown
  /\ s = "HEALTHY" => n \in open
  /\ flight' = {<<n, s>>}
  /\ since' = [since EXCEPT ![n][s] = 0]
  /\ open' = IF s \in Problem THEN open \union {n} ELSE open
  /\ UNCHANGED acked

Acknowledge(n, s) ==
  /\ <<n, s>> \in flight
  /\ flight' = {}
  /\ acked' = [acked EXCEPT ![n] = s]
  /\ open' = IF s = "HEALTHY" THEN open \ {n} ELSE open
  /\ UNCHANGED since

Lose ==
  /\ flight' = {}
  /\ UNCHANGED <<acked, open, since>>

Pass ==
  /\ since' = [n \in Nodes |-> [s \in Status |->
                 IF since[n][s] < Cooldown THEN since[n][s] + 1 ELSE since[n][s]]]
  /\ UNCHANGED <<acked, open, flight>>

\* A new controller process starts with an empty memory.
Forget ==
  /\ acked' = [n \in Nodes |-> Unsaid]
  /\ open' = {}
  /\ since' = Fresh
  /\ flight' = {}

Next ==
  \/ \E n \in Nodes, s \in Status : Attempt(n, s) \/ Acknowledge(n, s)
  \/ Lose
  \/ Pass
  \/ Forget

Spec == Init /\ [][Next]_vars
=============================================================================
