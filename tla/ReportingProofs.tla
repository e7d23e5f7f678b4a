--------------------------- MODULE ReportingProofs ---------------------------
(***************************************************************************)
(* The agent's control flow, for any number of attempts, crashes and lost  *)
(* databases.                                                              *)
(***************************************************************************)
EXTENDS Reporting, TLAPS

\* What the boot loop establishes: an agent that reports found the controller
\* knowing its node, or the controller has lost its database since.
Registered ==
  pc \in {"collect", "sleep"} \/ job \in Reports \union {"again"} => known \/ wipes > 0

Inv == TypeOK /\ Registered /\ SecondRegistrationHasCause

\* Types are kept by every action of the agent.
LEMMA AgentTypeStep ==
  ASSUME AgentTypeOK,
         \/ Boot \/ Accepted \/ NotFound \/ Rejected \/ Unanswered
         \/ Retry \/ Wake \/ Crash \/ Start
         \/ \E r \in Reports : Collect(r)
  PROVE  AgentTypeOK'
<1>. USE AgentAssumption DEF AgentTypeOK, PCs, Jobs, Reports, Registrations
<1>1. ASSUME NEW j \in Jobs, Deliver(j) PROVE AgentTypeOK'
  BY <1>1 DEF Deliver
<1>2. ASSUME NEW p \in {"collect", "sleep", "pause", "boot"}, Leave(p)
      PROVE  AgentTypeOK'
  BY <1>2 DEF Leave
<1>3. CASE Boot
  BY <1>1, <1>3 DEF Boot
<1>4. CASE Accepted \/ Rejected
  BY <1>2, <1>4 DEF Accepted, Rejected, GiveUp
<1>5. CASE NotFound
  BY <1>1, <1>5 DEF NotFound
<1>6. CASE Unanswered
  BY <1>2, <1>6 DEF Unanswered, GiveUp
<1>7. CASE Retry
  BY <1>7 DEF Retry
<1>8. CASE Wake \/ Start
  BY <1>2, <1>8 DEF Wake, Start
<1>9. CASE Crash
  BY <1>9 DEF Crash
<1>10. CASE \E r \in Reports : Collect(r)
  BY <1>1, <1>10 DEF Collect
<1>. QED  BY <1>3, <1>4, <1>5, <1>6, <1>7, <1>8, <1>9, <1>10

LEMMA TypeStep == TypeOK /\ [Next]_vars => TypeOK'
<1>. SUFFICES ASSUME TypeOK, [Next]_vars PROVE TypeOK'
  OBVIOUS
<1>1. AgentTypeOK'
  <2>1. CASE Wipe \/ UNCHANGED vars
    BY <2>1 DEF Wipe, vars, agent, TypeOK, AgentTypeOK
  <2>2. CASE Answer \/ Fail \/ Step \/ Die
    BY <2>2, AgentTypeStep DEF TypeOK, Answer, Fail, Step, Die
  <2>. QED  BY <2>1, <2>2 DEF Next
<1>2. known' \in BOOLEAN
  BY DEF TypeOK, Next, Answer, Fail, Wipe, Step, Die, vars
<1>3. wipes' \in 0 .. MaxWipes
  BY ReportingAssumption DEF TypeOK, Next, Answer, Fail, Wipe, Step, Die, vars
<1>4. reported' \in {"none", "stored", "lost"}
  BY DEF TypeOK, Next, Answer, Fail, Wipe, Step, Die, Outcome, vars
<1>. QED  BY <1>1, <1>2, <1>3, <1>4 DEF TypeOK

LEMMA TypeInit == Init => TypeOK
<1>1. AgentInit => AgentTypeOK
  BY AgentAssumption DEF AgentInit, AgentTypeOK, PCs, Jobs, Reports, Registrations
<1>2. Init => known \in BOOLEAN /\ reported \in {"none", "stored", "lost"}
  BY DEF Init
<1>3. Init => wipes \in 0 .. MaxWipes
  BY ReportingAssumption DEF Init
<1>. QED  BY <1>1, <1>2, <1>3 DEF Init, TypeOK

LEMMA RegisteredStep ==
  TypeOK /\ Registered /\ SecondRegistrationHasCause /\ [Next]_vars
    => Registered' /\ SecondRegistrationHasCause'
<1>. SUFFICES ASSUME TypeOK, Registered, SecondRegistrationHasCause, [Next]_vars
              PROVE  Registered' /\ SecondRegistrationHasCause'
  OBVIOUS
<1>. USE DEF Registered, SecondRegistrationHasCause, TypeOK, AgentTypeOK, Jobs,
             Reports, Registrations
<1>1. CASE Answer
  \* a 404 for a node that was known means a loss in between
  BY <1>1 DEF Answer, Accepted, NotFound, Deliver, Leave
<1>2. CASE Fail
  BY <1>2 DEF Fail, Rejected, Unanswered, GiveUp, Leave
<1>3. CASE Wipe
  BY <1>3, ReportingAssumption DEF Wipe, agent
<1>4. CASE Step
  BY <1>4 DEF Step, Boot, Collect, Retry, Wake, Start, Deliver, Leave
<1>5. CASE Die
  BY <1>5 DEF Die, Crash
<1>6. CASE UNCHANGED vars
  BY <1>6 DEF vars, agent
<1>. QED  BY <1>1, <1>2, <1>3, <1>4, <1>5, <1>6 DEF Next

\* Every reachable state has its type, and attempts stay within their limit
\* (_deliver).
THEOREM TypeCorrect == Spec => []TypeOK
BY TypeInit, TypeStep, PTL DEF Spec

\* The agent registers a second time only after the controller lost its database,
\* because a report goes out only after a registration succeeded (serve,
\* send_once).
THEOREM SecondRegistrationHasCauseHolds == Spec => []SecondRegistrationHasCause
<1>1. Init => Inv
  BY TypeInit DEF Inv, Init, AgentInit, Registered, SecondRegistrationHasCause, Reports
<1>2. Inv /\ [Next]_vars => Inv'
  BY TypeStep, RegisteredStep DEF Inv
<1>3. Inv => SecondRegistrationHasCause
  BY DEF Inv
<1>. QED  BY <1>1, <1>2, <1>3, PTL DEF Spec
=============================================================================
