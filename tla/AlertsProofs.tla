---------------------------- MODULE AlertsProofs ----------------------------
(***************************************************************************)
(* The safety properties of the alert manager, for every set of nodes, any *)
(* offline timeout and cooldown, and any number of restarts.               *)
(***************************************************************************)
EXTENDS AlertsProperties, TLAPS

-----------------------------------------------------------------------------
(* The health policy.                                                      *)

\* A status is one of the three names.
LEMMA StatusOfType ==
  ASSUME NEW a, NEW e, NEW s
  PROVE  StatusOf(a, e, s) \in Statuses
BY DEF StatusOf, Statuses

\* An age stays in range as it grows.
LEMMA OlderType ==
  ASSUME NEW a \in Ages
  PROVE  Older(a) \in Ages
BY OfflineTimeoutAssumption DEF Older, Expired, Ages

\* So does the distance to the last attempt.
LEMMA LaterType ==
  ASSUME NEW d \in 0 .. Cooldown
  PROVE  Later(d) \in 0 .. Cooldown
BY AlertAssumption DEF Later

-----------------------------------------------------------------------------
(* Type correctness.                                                       *)

LEMMA CommitType ==
  ASSUME TypeOK, NEW n \in Nodes, NEW e \in Errors, NEW s \in Samples, Commit(n, e, s),
         registered' \subseteq Nodes
  PROVE  TypeOK'
BY StatusOfType, OfflineTimeoutAssumption
   DEF TypeOK, Commit, Witnessed, memory, locals, Ages

LEMMA ReleaseType ==
  ASSUME TypeOK, cur \in Nodes, Release,
         active' \subseteq Nodes, delivered' \in [Nodes -> Statuses \union {None}],
         since' \in [Nodes -> [Statuses -> 0 .. Cooldown]],
         told' \in [Nodes -> Statuses \union {None}], raised' \subseteq Nodes
  PROVE  TypeOK'
<1>1. NoSnap \in [age : Ages, error : Errors]
  BY OfflineTimeoutAssumption DEF NoSnap, Ages, Errors
<1>2. snap' \in [Nodes -> [age : Ages, error : Errors]]
  BY <1>1 DEF TypeOK, Release
<1>. QED  BY <1>2, AlertAssumption DEF TypeOK, Release, rows, None, Statuses, Samples

LEMMA TypeStep == TypeOK /\ [Next]_vars => TypeOK'
<1>. SUFFICES ASSUME TypeOK, [Next]_vars PROVE TypeOK'
  OBVIOUS
<1>1. ASSUME NEW n \in Nodes, Register(n) PROVE TypeOK'
  BY <1>1, CommitType DEF Register, TypeOK, Errors
<1>2. ASSUME NEW n \in Nodes, NEW s \in Arrivals, Ingest(n, s) PROVE TypeOK'
  BY <1>2, CommitType, AlertAssumption DEF Ingest, TypeOK, Errors, Samples
<1>3. ASSUME NEW n \in Nodes, NEW e \in Reports, Heartbeat(n, e) PROVE TypeOK'
  BY <1>3, CommitType, AlertAssumption DEF Heartbeat, TypeOK
<1>4. ASSUME NEW n \in Nodes, Prune(n) PROVE TypeOK'
  BY <1>4, StatusOfType DEF TypeOK, Prune, Witnessed, memory, locals, Samples
<1>5. ASSUME NEW n \in Nodes, Notify(n) PROVE TypeOK'
  BY <1>5 DEF TypeOK, Notify, rows, memory, locals
<1>6. ASSUME Tick PROVE TypeOK'
  <2>1. age' \in [Nodes -> Ages]
    BY <1>6, OlderType DEF TypeOK, Tick
  <2>2. snap' \in [Nodes -> [age : Ages, error : Errors]]
    BY <1>6, OlderType DEF TypeOK, Tick
  <2>3. since' \in [Nodes -> [Statuses -> 0 .. Cooldown]]
    BY <1>6, LaterType DEF TypeOK, Tick
  <2>4. real' \in [Nodes -> SUBSET Statuses]
    BY <1>6, StatusOfType DEF TypeOK, Tick
  <2>. QED  BY <1>6, <2>1, <2>2, <2>3, <2>4 DEF TypeOK, Tick
<1>7. ASSUME List PROVE TypeOK'
  <2>1. NoSnap \in [age : Ages, error : Errors]
    BY OfflineTimeoutAssumption DEF NoSnap, Ages, Errors
  <2>2. snap' \in [Nodes -> [age : Ages, error : Errors]]
    BY <1>7, <2>1 DEF TypeOK, List
  <2>3. real' \in [Nodes -> SUBSET Statuses]
    BY <1>7, StatusOfType DEF List, TrueStatus
  <2>. QED  BY <1>7, <2>2, <2>3 DEF TypeOK, List, rows, memory
<1>8. ASSUME NEW n \in Nodes, ReadLatest(n) PROVE TypeOK'
  BY <1>8 DEF TypeOK, ReadLatest, rows, memory
<1>9. CASE EndPass
  BY <1>9 DEF TypeOK, EndPass, rows, memory
<1>10. CASE Skip
  <2>1. cur \in Nodes
    BY <1>10 DEF Skip, TypeOK
  <2>. QED  BY <1>10, <2>1, ReleaseType DEF Skip, TypeOK, NowActive
<1>11. CASE Launch
  <2>1. cur \in Nodes /\ Judged \in Statuses
    BY <1>11, StatusOfType DEF Launch, TypeOK, Judged
  <2>2. since' \in [Nodes -> [Statuses -> 0 .. Cooldown]]
    BY <1>11, <2>1, AlertAssumption DEF Launch, TypeOK
  <2>. QED  BY <1>11, <2>1, <2>2 DEF Launch, TypeOK, NowActive, rows
<1>12. CASE SendOK
  <2>1. cur \in Nodes /\ verdict \in Statuses
    BY <1>12 DEF SendOK, TypeOK
  <2>. QED  BY <1>12, <2>1, ReleaseType DEF SendOK, TypeOK
<1>13. CASE SendFail
  <2>1. cur \in Nodes /\ verdict \in Statuses
    BY <1>13 DEF SendFail, TypeOK
  <2>. QED  BY <1>13, <2>1, ReleaseType DEF SendFail, TypeOK, memory
<1>14. CASE Woken
  BY <1>14 DEF TypeOK, Woken, StartPass, rows, memory
<1>15. CASE TimedOut
  BY <1>15 DEF TypeOK, TimedOut, StartPass, rows, memory
<1>16. NoSnap \in [age : Ages, error : Errors]
  BY OfflineTimeoutAssumption DEF NoSnap, Ages, Errors
<1>17. CASE StoreFailure
  <2>1. snap' \in [Nodes -> [age : Ages, error : Errors]]
    BY <1>16, <1>17 DEF StoreFailure, Abandon
  <2>. QED
    BY <1>17, <2>1, AlertAssumption
       DEF TypeOK, StoreFailure, Abandon, rows, memory, None, Statuses, Samples
<1>18. CASE Restart
  <2>1. snap' \in [Nodes -> [age : Ages, error : Errors]]
    BY <1>16, <1>18 DEF Restart, Abandon
  <2>2. since' \in [Nodes -> [Statuses -> 0 .. Cooldown]]
    BY <1>18, AlertAssumption DEF Restart, Never
  <2>3. told' \in [Nodes -> Statuses \union {None}]
    BY <1>18 DEF Restart, TypeOK
  <2>4. restarts' \in 0 .. MaxRestarts
    BY <1>18, AlertAssumption DEF Restart, TypeOK
  <2>. QED
    BY <1>18, <2>1, <2>2, <2>3, <2>4, AlertAssumption
       DEF TypeOK, Restart, Abandon, rows, None, Statuses, Samples
<1>19. CASE UNCHANGED vars
  BY <1>19 DEF TypeOK, vars, rows, memory, locals
<1>. QED
  BY <1>1, <1>2, <1>3, <1>4, <1>5, <1>6, <1>7, <1>8, <1>9, <1>10, <1>11, <1>12,
     <1>13, <1>14, <1>15, <1>17, <1>18, <1>19 DEF Next, Write, Pass, Send

LEMMA TypeInit == Init => TypeOK
<1>. SUFFICES ASSUME Init PROVE TypeOK
  OBVIOUS
<1>1. since \in [Nodes -> [Statuses -> 0 .. Cooldown]]
  BY AlertAssumption DEF Init, Never
<1>2. snap \in [Nodes -> [age : Ages, error : Errors]] /\ age \in [Nodes -> Ages]
  BY OfflineTimeoutAssumption DEF Init, NoSnap, Ages, Errors
<1>3. /\ error \in [Nodes -> Errors] /\ latest \in [Nodes -> Samples]
      /\ delivered \in [Nodes -> Statuses \union {None}]
      /\ told \in [Nodes -> Statuses \union {None}]
      /\ real \in [Nodes -> SUBSET Statuses]
  BY DEF Init, Errors, Samples
<1>4. /\ restarts \in 0 .. MaxRestarts
      /\ sample \in Samples
      /\ cur \in Nodes \union {NoNode}
      /\ cur \in Nodes <=> pc \in {"judge", "send"}
      /\ verdict \in Statuses \union {None}
      /\ verdict \in Statuses <=> pc = "send"
  BY AlertAssumption DEF Init, Samples, Statuses, None
<1>. QED
  BY <1>1, <1>2, <1>3, <1>4 DEF Init, TypeOK

\* Every variable keeps its type, and the task treats a node exactly between the
\* reading of its sample and the end of its webhook (Alerts!TypeOK).
THEOREM TypeCorrect == Spec => []TypeOK
BY TypeInit, TypeStep, PTL DEF Spec

-----------------------------------------------------------------------------
(* No wake-up is lost.                                                     *)

LEMMA WakeStep == TypeOK /\ NoLostWake /\ [Next]_vars => NoLostWake'
<1>. SUFFICES ASSUME TypeOK, NoLostWake, [Next]_vars PROVE NoLostWake'
  OBVIOUS
<1>. USE DEF NoLostWake
<1>1. CASE Write
  \* a handler that commits still has to notify
  <2>1. ASSUME NEW n \in Nodes, NEW e, NEW s, Commit(n, e, s) PROVE NoLostWake'
    BY <2>1 DEF Commit, locals
  <2>2. ASSUME NEW n \in Nodes, Prune(n) PROVE NoLostWake'
    BY <2>2 DEF Prune, locals
  <2>. QED  BY <1>1, <2>1, <2>2 DEF Write, Register, Ingest, Heartbeat
<1>2. CASE \E n \in Nodes : Notify(n)
  BY <1>2 DEF Notify
<1>3. CASE Tick
  BY <1>3 DEF Tick
<1>4. CASE List
  BY <1>4 DEF List
<1>5. ASSUME NEW n \in Nodes, ReadLatest(n) PROVE NoLostWake'
  BY <1>5 DEF ReadLatest
<1>6. CASE EndPass
  BY <1>6 DEF EndPass
<1>7. CASE Skip \/ SendOK \/ SendFail
  BY <1>7 DEF Skip, SendOK, SendFail, Release
<1>8. CASE Launch
  BY <1>8 DEF Launch
<1>9. CASE Woken \/ TimedOut
  BY <1>9 DEF Woken, TimedOut, StartPass
<1>10. CASE StoreFailure
  BY <1>10 DEF StoreFailure
<1>11. CASE Restart
  BY <1>11 DEF Restart
<1>12. CASE UNCHANGED vars
  BY <1>12 DEF vars, locals
<1>. QED
  BY <1>1, <1>2, <1>3, <1>4, <1>5, <1>6, <1>7, <1>8, <1>9, <1>10, <1>11, <1>12
     DEF Next, Pass, Send

\* However handlers and the task interleave, a write whose handler has notified is
\* seen by the listing under way or still holds the wake flag (run, notify).
THEOREM NoLostWakeHolds == Spec => []NoLostWake
<1>1. Init => NoLostWake
  BY DEF Init, NoLostWake
<1>. QED  BY <1>1, WakeStep, TypeCorrect, PTL DEF Spec

-----------------------------------------------------------------------------
(* Open alerts are tracked, and a recovery follows a problem.              *)

\* What the bookkeeping of _evaluate_node keeps true.  A node can be in
\* _active_alerts with its problem never sent in this process, held back by the
\* cooldown; it then has HEALTHY as its delivered status, and its recovery is not
\* sent either.
Bookkeeping ==
  /\ restarts >= 0
  \* a problem under way is tracked and counted as announced
  /\ pc = "send" /\ verdict \in Problems => cur \in active /\ cur \in raised
  /\ \A n \in Nodes :
       \* an acknowledged problem has been announced since the last recovery
       /\ delivered[n] \in Problems => n \in raised
       \* so has a tracked one, unless recovery is the last that was acknowledged
       /\ n \in active /\ delivered[n] # "HEALTHY" => n \in raised
       \* and one the cooldown holds back
       /\ \A s \in Problems :
            since[n][s] < Cooldown /\ delivered[n] # "HEALTHY" => n \in raised

BookInv == TypeOK /\ Bookkeeping /\ OpenAlertIsTracked

LEMMA BookInit == Init => Bookkeeping /\ OpenAlertIsTracked
<1>. SUFFICES ASSUME Init PROVE Bookkeeping /\ OpenAlertIsTracked
  OBVIOUS
<1>1. \A n \in Nodes : \A s \in Problems : since[n][s] = Cooldown
  BY DEF Init, Never, Problems, Statuses
<1>. QED
  BY <1>1, AlertAssumption DEF Init, Bookkeeping, OpenAlertIsTracked, Problems, None

\* A step that leaves the manager's books alone, or only lets time pass.
LEMMA BookFrame ==
  ASSUME BookInv, UNCHANGED <<active, delivered, told, restarts, raised>>,
         \A n \in Nodes : \A s \in Problems :
           since'[n][s] < Cooldown => since[n][s] < Cooldown,
         pc' = "send" => pc = "send" /\ UNCHANGED <<cur, verdict>>
  PROVE  Bookkeeping' /\ OpenAlertIsTracked'
BY DEF BookInv, Bookkeeping, OpenAlertIsTracked

LEMMA BookStep == BookInv /\ TypeOK' /\ [Next]_vars => BookInv'
<1>. SUFFICES ASSUME BookInv, TypeOK', [Next]_vars
              PROVE  Bookkeeping' /\ OpenAlertIsTracked'
  BY DEF BookInv
<1>. USE DEF BookInv
<1>1. CASE Write
  <2>1. ASSUME NEW n \in Nodes, NEW e, NEW s, Commit(n, e, s)
        PROVE  Bookkeeping' /\ OpenAlertIsTracked'
    BY <2>1, BookFrame DEF Commit, memory, locals
  <2>2. ASSUME NEW n \in Nodes, Prune(n) PROVE Bookkeeping' /\ OpenAlertIsTracked'
    BY <2>2, BookFrame DEF Prune, memory, locals
  <2>. QED  BY <1>1, <2>1, <2>2 DEF Write, Register, Ingest, Heartbeat
<1>2. CASE \E n \in Nodes : Notify(n)
  BY <1>2, BookFrame DEF Notify, memory, locals
<1>3. CASE Tick
  <2>1. \A n \in Nodes : \A s \in Problems :
          since'[n][s] < Cooldown => since[n][s] < Cooldown
    BY <1>3, AlertAssumption DEF Tick, Later, TypeOK, Problems, Statuses
  <2>. QED  BY <1>3, <2>1, BookFrame DEF Tick
<1>4. CASE List
  BY <1>4, BookFrame DEF List, memory
<1>5. ASSUME NEW n \in Nodes, ReadLatest(n)
      PROVE  Bookkeeping' /\ OpenAlertIsTracked'
  BY <1>5, BookFrame DEF ReadLatest, memory
<1>6. CASE EndPass
  BY <1>6, BookFrame DEF EndPass, memory
<1>7. CASE Skip
  <2>1. cur \in Nodes
    BY <1>7 DEF Skip, TypeOK
  \* a problem that is tracked but not sent was acknowledged, or is cooling down
  <2>2. cur \in active' /\ delivered[cur] # "HEALTHY" => cur \in raised
    <3>1. CASE Judged \in Problems /\ ~Ignored
      <4>1. delivered[cur] = Judged \/ since[cur][Judged] < Cooldown
        BY <1>7, <2>1, <3>1, AlertAssumption DEF Skip, Due, TypeOK, Problems, Statuses
      <4>. QED  BY <2>1, <3>1, <4>1 DEF Bookkeeping
    <3>2. CASE ~(Judged \in Problems /\ ~Ignored)
      BY <1>7, <2>1, <3>2 DEF Skip, NowActive, Bookkeeping
    <3>. QED  BY <3>1, <3>2
  <2>3. active \subseteq active' /\ active' \subseteq active \union {cur}
    BY <1>7 DEF Skip, NowActive
  <2>. QED
    BY <1>7, <2>1, <2>2, <2>3 DEF Skip, Release, Bookkeeping, OpenAlertIsTracked
<1>8. CASE Launch
  <2>1. cur \in Nodes /\ Judged \in Statuses
    BY <1>8, StatusOfType DEF Launch, TypeOK, Judged
  <2>2. Judged \in Problems => cur \in active' /\ cur \in raised'
    BY <1>8 DEF Launch, Due, NowActive
  <2>3. /\ active \subseteq active' /\ active' \subseteq active \union {cur}
        /\ raised \subseteq raised'
        /\ Judged = "HEALTHY" => active' = active /\ cur \in active
    BY <1>8 DEF Launch, NowActive, Problems, Due
  <2>4. \A n \in Nodes : \A s \in Problems :
          <<n, s>> # <<cur, Judged>> => since'[n][s] = since[n][s]
    BY <1>8, <2>1 DEF Launch, TypeOK, Problems, Statuses
  <2>5. Judged = "HEALTHY" \/ Judged \in Problems
    BY <2>1 DEF Statuses, Problems
  <2>6. UNCHANGED <<delivered, told, restarts, cur>> /\ verdict' = Judged
    BY <1>8 DEF Launch
  <2>7. Bookkeeping'
    BY <2>1, <2>2, <2>3, <2>4, <2>5, <2>6 DEF Bookkeeping, Problems
  <2>. QED  BY <2>3, <2>6, <2>7 DEF OpenAlertIsTracked
<1>9. CASE SendOK
  <2>1. cur \in Nodes /\ verdict \in Statuses /\ pc = "send"
    BY <1>9 DEF SendOK, TypeOK
  <2>2. CASE verdict = "HEALTHY"
    BY <1>9, <2>1, <2>2
       DEF SendOK, Release, Bookkeeping, OpenAlertIsTracked, TypeOK, Problems
  <2>3. CASE verdict \in Problems
    BY <1>9, <2>1, <2>3
       DEF SendOK, Release, Bookkeeping, OpenAlertIsTracked, TypeOK, Problems
  <2>. QED  BY <2>1, <2>2, <2>3 DEF Statuses, Problems
<1>10. CASE SendFail
  <2>1. cur \in Nodes /\ verdict \in Statuses /\ pc = "send"
    BY <1>10 DEF SendFail, TypeOK
  <2>2. Bookkeeping'
    BY <1>10 DEF SendFail, Release, Bookkeeping, memory
  <2>3. \A n \in Nodes : told'[n] \in Problems => told[n] \in Problems
                              \/ (n = cur /\ verdict \in Problems)
    BY <1>10, <2>1 DEF SendFail, TypeOK
  <2>. QED
    BY <1>10, <2>1, <2>2, <2>3
       DEF SendFail, Release, Bookkeeping, OpenAlertIsTracked, memory
<1>11. CASE Woken \/ TimedOut
  BY <1>11, BookFrame DEF Woken, TimedOut, StartPass, memory
<1>12. CASE StoreFailure
  BY <1>12, BookFrame DEF StoreFailure, memory
<1>13. CASE Restart
  <2>1. \A n \in Nodes : \A s \in Problems : since'[n][s] = Cooldown
    BY <1>13 DEF Restart, Never, Problems, Statuses
  <2>. QED
    BY <1>13, <2>1, AlertAssumption
       DEF Restart, Bookkeeping, OpenAlertIsTracked, TypeOK, Problems, None
<1>14. CASE UNCHANGED vars
  BY <1>14, BookFrame DEF vars, memory, locals
<1>. QED
  BY <1>1, <1>2, <1>3, <1>4, <1>5, <1>6, <1>7, <1>8, <1>9, <1>10, <1>11, <1>12,
     <1>13, <1>14 DEF Next, Pass, Send

\* The bookkeeping holds in every state.
THEOREM BookInvariant == Spec => []BookInv
<1>1. Init => BookInv
  BY TypeInit, BookInit DEF BookInv
<1>2. BookInv /\ [Next]_vars => BookInv'
  BY BookStep, TypeStep DEF BookInv
<1>. QED  BY <1>1, <1>2, PTL DEF Spec

\* A node whose problem the receiver still believes in, or acknowledged last, is in
\* _active_alerts, whatever failed, raced or was lost on the way
\* (_evaluate_node).
THEOREM OpenAlertIsTrackedHolds == Spec => []OpenAlertIsTracked
BY BookInvariant, PTL DEF BookInv

-----------------------------------------------------------------------------
(* The manager implements the abstract promise.                            *)

\* The two modules speak of the same statuses and the same fresh start.
LEMMA SameStatuses ==
  /\ Promise!Status = Statuses /\ Promise!Problem = Problems
  /\ Promise!Fresh = [n \in Nodes |-> Never]
BY DEF Promise!Status, Promise!Problem, Promise!Fresh, Statuses, Problems, Never

\* A step that neither starts nor ends a request and keeps the books.
LEMMA PromiseFrame ==
  ASSUME UNCHANGED <<delivered, raised, since>>,
         pc = "send" <=> pc' = "send",
         pc = "send" => UNCHANGED <<cur, verdict>>
  PROVE  UNCHANGED Promise!vars
BY DEF Promise!vars

LEMMA PromiseStep ==
  TypeOK /\ Bookkeeping /\ [Next]_vars => [Promise!Next]_(Promise!vars)
<1>. SUFFICES ASSUME TypeOK, Bookkeeping, [Next]_vars
              PROVE  Promise!Next \/ UNCHANGED Promise!vars
  OBVIOUS
<1>1. CASE Write
  <2>1. ASSUME NEW n \in Nodes, NEW e, NEW s, Commit(n, e, s)
        PROVE  UNCHANGED Promise!vars
    BY <2>1, PromiseFrame DEF Commit, memory, locals
  <2>2. ASSUME NEW n \in Nodes, Prune(n) PROVE UNCHANGED Promise!vars
    BY <2>2, PromiseFrame DEF Prune, memory, locals
  <2>. QED  BY <1>1, <2>1, <2>2 DEF Write, Register, Ingest, Heartbeat
<1>2. CASE \E n \in Nodes : Notify(n)
  BY <1>2, PromiseFrame DEF Notify, memory, locals
<1>3. CASE Tick
  \* time passes in both
  <2>1. since' = [n \in Nodes |-> [s \in Statuses |->
                    IF since[n][s] < Cooldown THEN since[n][s] + 1 ELSE since[n][s]]]
    BY <1>3 DEF Tick, Later
  <2>2. UNCHANGED <<delivered, raised, pc, cur, verdict>>
    BY <1>3 DEF Tick
  <2>3. Promise!Pass
    BY <2>1, <2>2, SameStatuses DEF Promise!Pass
  <2>. QED  BY <2>3 DEF Promise!Next
<1>4. CASE List
  BY <1>4, PromiseFrame DEF List, memory
<1>5. ASSUME NEW n \in Nodes, ReadLatest(n) PROVE UNCHANGED Promise!vars
  BY <1>5, PromiseFrame DEF ReadLatest, memory
<1>6. CASE EndPass
  BY <1>6, PromiseFrame DEF EndPass, memory
<1>7. CASE Skip
  BY <1>7, PromiseFrame DEF Skip, Release
<1>8. CASE Launch
  \* a request starts: HEALTHY only for a tracked node, whose problem the books
  \* know to have been announced
  <2>1. cur \in Nodes /\ Judged \in Statuses
    BY <1>8, StatusOfType DEF Launch, TypeOK, Judged
  <2>2. Judged = "HEALTHY" => cur \in raised
    BY <1>8, <2>1 DEF Launch, Due, Bookkeeping
  <2>3. /\ since' = [since EXCEPT ![cur][Judged] = 0]
        /\ raised' = IF Judged \in Problems THEN raised \union {cur} ELSE raised
        /\ UNCHANGED <<delivered, cur>>
        /\ delivered[cur] # Judged
        /\ since[cur][Judged] >= Cooldown
        /\ pc = "judge" /\ pc' = "send" /\ verdict' = Judged
    BY <1>8 DEF Launch, Due
  <2>4. Promise!Attempt(cur, Judged)
    BY <2>2, <2>3, SameStatuses DEF Promise!Attempt
  <2>. QED  BY <2>1, <2>4, SameStatuses DEF Promise!Next
<1>9. CASE SendOK
  <2>1. cur \in Nodes /\ verdict \in Statuses
    BY <1>9 DEF SendOK, TypeOK
  <2>2. Promise!Acknowledge(cur, verdict)
    BY <1>9 DEF SendOK, Release, Promise!Acknowledge
  <2>. QED  BY <2>1, <2>2, SameStatuses DEF Promise!Next
<1>10. CASE SendFail
  <2>1. Promise!Lose
    BY <1>10 DEF SendFail, Release, memory, Promise!Lose
  <2>. QED  BY <2>1 DEF Promise!Next
<1>11. CASE Woken \/ TimedOut
  BY <1>11, PromiseFrame DEF Woken, TimedOut, StartPass, memory
<1>12. CASE StoreFailure
  BY <1>12, PromiseFrame DEF StoreFailure, memory
<1>13. CASE Restart
  <2>1. Promise!Forget
    BY <1>13, SameStatuses DEF Restart, Promise!Forget, Promise!Unsaid, None
  <2>. QED  BY <2>1 DEF Promise!Next
<1>14. CASE UNCHANGED vars
  BY <1>14, PromiseFrame DEF vars, memory, locals
<1>. QED
  BY <1>1, <1>2, <1>3, <1>4, <1>5, <1>6, <1>7, <1>8, <1>9, <1>10, <1>11, <1>12,
     <1>13, <1>14 DEF Next, Pass, Send

\* Every behaviour of the manager is one the promise allows: no acknowledged
\* status is repeated, attempts for one node and status are a cooldown apart, and
\* HEALTHY only closes a problem announced since the last recovery
\* (AlertManager; README.md, "Alert webhooks").
THEOREM PromiseKept == Spec => KeepsPromise
<1>1. Init => Promise!Init
  BY SameStatuses DEF Init, Promise!Init, Promise!Unsaid, None
<1>2. BookInv /\ [Next]_vars => [Promise!Next]_(Promise!vars)
  BY PromiseStep DEF BookInv
<1>. QED  BY <1>1, <1>2, BookInvariant, PTL DEF Spec, KeepsPromise, Promise!Spec

-----------------------------------------------------------------------------
(* A WARNING or HEALTHY alert was true.                                    *)

\* What the history of a node under treatment must contain, given its listed row
\* and the kind k of its newest sample, for any verdict to be drawn from them.
Vouched(n, k) ==
  ~Expired(snap[n].age) =>
     /\ HasError(snap[n].error) => "WARNING" \in real[n]
     /\ ~HasError(snap[n].error) /\ k = "ok" => "HEALTHY" \in real[n]

\* Before its sample is read, a node's true status goes on being recorded, and its
\* copy is at least as old as its row: a row only gets younger than its copy.
\* Between reading and judging, the sample stands for the row.
Witness ==
  /\ cur \notin todo
  /\ \A n \in todo : /\ TrueStatus(n) \in real[n]
                    /\ age[n] <= snap[n].age
                    /\ Vouched(n, latest[n])
  /\ pc = "judge" =>
       /\ Vouched(cur, sample)
       /\ ~Expired(snap[cur].age) /\ sample # "ok" => "WARNING" \in real[cur]

TrueInv == TypeOK /\ Witness /\ AlertWasTrue

\* A row that was just written has age zero; what it shows is recorded.
LEMMA CommitWitness ==
  ASSUME TrueInv, NEW n \in Nodes, NEW e \in Errors, NEW s \in Samples,
         Commit(n, e, s),
         s = "ok" => latest[n] = "ok" \/ ~HasError(e)
  PROVE  Witness' /\ AlertWasTrue'
<1>. USE DEF TrueInv
<1>1. ~Expired(0)
  BY OfflineTimeoutAssumption DEF Expired
<1>2. ASSUME NEW m \in todo
      PROVE  /\ TrueStatus(m)' \in real'[m]
             /\ age'[m] <= snap'[m].age
             /\ Vouched(m, latest[m])'
  <2>1. CASE m = n
    <3>1. real'[n] = real[n] \union {StatusOf(0, e, s)}
      BY <2>1, <1>2 DEF Commit, Witnessed, Pending, TypeOK
    <3>2. age'[n] = 0 /\ error'[n] = e /\ latest'[n] = s /\ UNCHANGED snap
      BY DEF Commit, TypeOK, locals
    <3>3. snap[n].age \in Nat
      BY OfflineTimeoutAssumption DEF TypeOK, Ages
    <3>4. Vouched(n, s)'
      <4>1. ~HasError(e) /\ s = "ok" => "HEALTHY" \in real'[n]
        BY <1>1, <3>1 DEF StatusOf
      <4>. QED
        BY <1>2, <2>1, <3>1, <3>2, <4>1 DEF Witness, Vouched
    <3>. QED  BY <2>1, <3>1, <3>2, <3>3, <3>4 DEF TrueStatus, Vouched
  <2>2. CASE m # n
    BY <1>2, <2>2 DEF Commit, Witnessed, Witness, Vouched, TrueStatus, TypeOK, locals
  <2>. QED  BY <2>1, <2>2
<1>3. \A m \in Nodes : real[m] \subseteq real'[m]
  BY DEF Commit, Witnessed, TypeOK
<1>. QED
  BY <1>2, <1>3 DEF Commit, locals, Witness, AlertWasTrue, Vouched, TypeOK

\* A step that leaves alone what the task treats.
LEMMA WitnessFrame ==
  ASSUME TrueInv, UNCHANGED <<age, error, latest, snap, real, todo, cur, sample, verdict>>,
         pc' \in {"judge", "send"} => pc' = pc
  PROVE  Witness' /\ AlertWasTrue'
BY DEF TrueInv, Witness, AlertWasTrue, Vouched, TrueStatus

\* The task is done with a node.
LEMMA WitnessRelease ==
  ASSUME TrueInv, Release
  PROVE  Witness' /\ AlertWasTrue'
<1>1. \A n \in todo : n \in Nodes /\ n # cur
  BY DEF TrueInv, Witness, TypeOK
<1>2. /\ UNCHANGED <<age, error, latest, todo>>
      /\ \A n \in todo : snap'[n] = snap[n] /\ real'[n] = real[n]
  BY <1>1 DEF Release, rows, TrueInv, TypeOK
<1>3. cur' \notin todo' /\ pc' = "next"
  BY AlertAssumption DEF Release, TrueInv, TypeOK
<1>. QED
  BY <1>2, <1>3 DEF TrueInv, Witness, AlertWasTrue, Vouched, TrueStatus

LEMMA WitnessStep == TrueInv /\ TypeOK' /\ [Next]_vars => TrueInv'
<1>. SUFFICES ASSUME TrueInv, TypeOK', [Next]_vars PROVE Witness' /\ AlertWasTrue'
  BY DEF TrueInv
<1>. USE DEF TrueInv
<1>1. ASSUME NEW n \in Nodes, Register(n) PROVE Witness' /\ AlertWasTrue'
  BY <1>1, CommitWitness DEF Register, TypeOK, Errors
<1>2. ASSUME NEW n \in Nodes, NEW s \in Arrivals, Ingest(n, s)
      PROVE  Witness' /\ AlertWasTrue'
  <2>1. "null" \in Errors /\ ~HasError("null") /\ s \in Samples
    BY AlertAssumption DEF Errors, HasError, Samples
  <2>. QED  BY <1>2, <2>1, CommitWitness DEF Ingest, TypeOK
<1>3. ASSUME NEW n \in Nodes, NEW e \in Reports, Heartbeat(n, e)
      PROVE  Witness' /\ AlertWasTrue'
  BY <1>3, CommitWitness, AlertAssumption DEF Heartbeat, TypeOK
<1>4. ASSUME NEW n \in Nodes, Prune(n) PROVE Witness' /\ AlertWasTrue'
  <2>1. \A m \in Nodes : real[m] \subseteq real'[m]
    BY <1>4 DEF Prune, Witnessed, TypeOK
  <2>2. n \in todo => StatusOf(age[n], error[n], "none") \in real'[n]
    BY <1>4 DEF Prune, Witnessed, Pending, TypeOK
  <2>3. latest' = [latest EXCEPT ![n] = "none"]
    BY <1>4 DEF Prune
  <2>4. UNCHANGED <<age, error, pc, todo, snap, cur, sample, verdict>>
    BY <1>4 DEF Prune, locals
  <2>5. ASSUME NEW m \in todo
        PROVE  /\ TrueStatus(m)' \in real'[m]
               /\ Vouched(m, latest[m])'
    BY <2>1, <2>2, <2>3, <2>4, <2>5 DEF Witness, Vouched, TrueStatus, TypeOK
  <2>. QED  BY <2>1, <2>4, <2>5 DEF Witness, AlertWasTrue, Vouched, TypeOK
<1>5. CASE \E n \in Nodes : Notify(n)
  BY <1>5, WitnessFrame DEF Notify, rows, locals
<1>6. CASE Tick
  \* copies age with their rows
  <2>1. \A m \in Nodes : real[m] \subseteq real'[m]
    BY <1>6 DEF Tick, TypeOK
  <2>2. \A m \in Nodes : /\ snap'[m].error = snap[m].error
                         /\ Expired(snap[m].age) => Expired(snap'[m].age)
    BY <1>6 DEF Tick, TypeOK, Older
  <2>3. UNCHANGED <<error, latest, pc, todo, cur, sample, verdict>>
    BY <1>6 DEF Tick
  <2>4. ASSUME NEW m \in todo
        PROVE  /\ TrueStatus(m)' \in real'[m]
               /\ age'[m] <= snap'[m].age
               /\ Vouched(m, latest[m])'
    <3>1. TrueStatus(m)' \in real'[m]
      BY <1>6, <2>3, <2>4 DEF Tick, TrueStatus, Pending, TypeOK
    <3>2. age'[m] <= snap'[m].age
      <4>1. age[m] \in Ages /\ snap[m].age \in Ages /\ age[m] <= snap[m].age
        BY <2>4 DEF Witness, TypeOK
      <4>2. snap'[m].age = Older(snap[m].age)
        BY <1>6, <2>4 DEF Tick, Pending, TypeOK
      <4>3. age'[m] = Older(age[m]) \/ age'[m] = age[m]
        BY <1>6, <2>4 DEF Tick, TypeOK
      <4>. QED
        BY <4>1, <4>2, <4>3, OfflineTimeoutAssumption DEF Older, Expired, Ages
    <3>3. Vouched(m, latest[m])'
      BY <2>1, <2>2, <2>3, <2>4 DEF Witness, Vouched, TypeOK
    <3>. QED  BY <3>1, <3>2, <3>3
  <2>. QED  BY <2>1, <2>2, <2>3, <2>4 DEF Witness, AlertWasTrue, Vouched, TypeOK
<1>7. CASE List
  <2>1. ASSUME NEW m \in todo'
        PROVE  /\ TrueStatus(m)' \in real'[m]
               /\ age'[m] <= snap'[m].age
               /\ Vouched(m, latest[m])'
    <3>1. m \in Nodes /\ age[m] \in Int
      BY <1>7, <2>1, OfflineTimeoutAssumption DEF List, TypeOK, Ages
    <3>2. real'[m] = {TrueStatus(m)} /\ TrueStatus(m)' = TrueStatus(m)
      BY <1>7, <2>1, <3>1 DEF List, TrueStatus, rows
    <3>3. snap'[m] = [age |-> age[m], error |-> error[m]] /\ UNCHANGED rows
      BY <1>7, <2>1, <3>1 DEF List
    <3>. QED  BY <3>1, <3>2, <3>3 DEF Vouched, TrueStatus, StatusOf, rows
  <2>2. pc' = "next" /\ UNCHANGED cur /\ cur \notin Nodes /\ todo' \subseteq Nodes
    BY <1>7 DEF List, TypeOK
  <2>. QED  BY <2>1, <2>2 DEF Witness, AlertWasTrue
<1>8. ASSUME NEW n \in Nodes, ReadLatest(n) PROVE Witness' /\ AlertWasTrue'
  \* the row is now at most as old as the copy, so what it shows is no OFFLINE
  <2>1. /\ TrueStatus(n) \in real[n] /\ age[n] <= snap[n].age /\ Vouched(n, latest[n])
        /\ age[n] \in Ages /\ snap[n].age \in Ages
    BY <1>8 DEF ReadLatest, Witness, TypeOK
  <2>2. ~Expired(snap[n].age) /\ latest[n] # "ok" => "WARNING" \in real[n]
    BY <2>1, OfflineTimeoutAssumption DEF TrueStatus, StatusOf, Expired, Ages
  <2>3. /\ cur' = n /\ sample' = latest[n] /\ todo' = todo \ {n}
        /\ UNCHANGED <<age, error, latest, snap, real>> /\ pc' = "judge"
    BY <1>8 DEF ReadLatest, rows
  <2>. QED
    BY <2>1, <2>2, <2>3 DEF Witness, AlertWasTrue, Vouched, TrueStatus
<1>9. CASE EndPass
  BY <1>9, WitnessFrame DEF EndPass, rows
<1>10. CASE Skip \/ SendOK \/ SendFail
  BY <1>10, WitnessRelease DEF Skip, SendOK, SendFail
<1>11. CASE Launch
  <2>1. Judged # "OFFLINE" => Judged \in real[cur]
    BY <1>11 DEF Launch, Judged, StatusOf, Witness, Vouched
  <2>. QED
    BY <1>11, <2>1 DEF Launch, Witness, AlertWasTrue, Vouched, TrueStatus, rows
<1>12. CASE Woken \/ TimedOut
  BY <1>12, WitnessFrame DEF Woken, TimedOut, StartPass, rows
<1>13. CASE StoreFailure \/ Restart
  BY <1>13 DEF StoreFailure, Restart, Abandon, Witness, AlertWasTrue
<1>14. CASE UNCHANGED vars
  BY <1>14, WitnessFrame DEF vars, rows, locals
<1>. QED
  BY <1>1, <1>2, <1>3, <1>4, <1>5, <1>6, <1>7, <1>8, <1>9, <1>10, <1>11, <1>12,
     <1>13, <1>14 DEF Next, Write, Pass, Send

\* Although the row, the sample and the clock are read at three different moments,
\* a HEALTHY or WARNING alert names a status the node had during the pass
\* (evaluate, _evaluate_node).
THEOREM AlertWasTrueHolds == Spec => []AlertWasTrue
<1>1. Init => TrueInv
  <2>1. Init => Witness /\ AlertWasTrue
    BY DEF Init, Witness, AlertWasTrue
  <2>. QED  BY <2>1, TypeInit DEF TrueInv
<1>2. TrueInv /\ [Next]_vars => TrueInv'
  BY WitnessStep, TypeStep DEF TrueInv
<1>3. TrueInv => AlertWasTrue
  BY DEF TrueInv
<1>. QED  BY <1>1, <1>2, <1>3, PTL DEF Spec
=============================================================================
