--------------------------- MODULE DeliveryProofs ---------------------------
(***************************************************************************)
(* Requests that are given up and executed late, for any number of         *)
(* attempts, reports, late requests, deaths and lost databases.            *)
(***************************************************************************)
EXTENDS Delivery, SequenceTheorems, FiniteSetTheorems, WellFoundedInduction, TLAPS

-----------------------------------------------------------------------------
(* Numbers.                                                                *)

LEMMA LeastNumber ==
  ASSUME NEW T, T \subseteq Nat, T # {}
  PROVE  \E x \in T : \A y \in T : x <= y
<1>. DEFINE R == {p \in Nat \X Nat : p[1] < p[2]}
<1>1. R = OpToRel(<, Nat)
  BY DEF OpToRel
<1>2. IsWellFoundedOn(R, Nat)
  BY <1>1, NatLessThanWellFounded
<1>3. PICK x \in T : \A y \in T : ~ (<<y, x>> \in R)
  BY <1>2, WFMin
<1>4. ASSUME NEW y \in T PROVE x <= y
  <2>1. x \in Nat /\ y \in Nat
    OBVIOUS
  <2>2. ~ (y < x)
    BY <1>3, <2>1
  <2>. QED  BY <2>1, <2>2
<1>. QED  BY <1>4

LEMMA GreatestNumber ==
  ASSUME NEW n \in Nat, NEW T, T \subseteq 0 .. n, T # {}
  PROVE  \E x \in T : \A y \in T : y <= x
<1>. DEFINE U == {n - x : x \in T}
<1>1. U \subseteq Nat /\ U # {}
  <2>1. \A x \in T : n - x \in Nat
    OBVIOUS
  <2>. QED  BY <2>1
<1>2. PICK u \in U : \A v \in U : u <= v
  BY <1>1, LeastNumber
<1>3. PICK x \in T : u = n - x
  OBVIOUS
<1>4. \A y \in T : n - x <= n - y
  BY <1>2, <1>3
<1>5. \A y \in T : y <= x
  BY <1>4
<1>. QED  BY <1>5

-----------------------------------------------------------------------------
(* Types.                                                                  *)

\* What TypeOK says, and what it takes to be kept: the agent in a call waits for one
\* request and has given up all others.
Awaited(c) ==
  c.mine => pc = "call" /\ c.job = job /\ c.attempt = attempt /\ c.report = report

Waits ==
  /\ \A c \in calls : Awaited(c)
  /\ pc = "call" => \E c \in calls : c.mine
  /\ \A c, d \in calls : c.mine /\ d.mine => c = d

Types ==
  /\ AgentTypeOK
  /\ report \in 0 .. MaxReports
  /\ calls \subseteq Calls
  /\ IsFiniteSet(calls)
  /\ known \in BOOLEAN
  /\ failing \in BOOLEAN
  /\ rows \in Seq({Deleted} \union 1 .. MaxReports)
  /\ wipes \in 0 .. MaxWipes
  /\ accepted \in 0 .. MaxReports
  /\ standing \in BOOLEAN

\* A metric carries a sample that was collected.
Sampled ==
  /\ job = "metric" => report > 0
  /\ \A c \in calls : c.job = "metric" => c.report > 0

Sound == Types /\ Waits /\ Sampled

\* The agent's own moves.
LEMMA AgentMoves ==
  ASSUME AgentTypeOK
  PROVE  /\ Boot \/ Retry =>
              AgentTypeOK' /\ pc # "call" /\ pc' = "call"
              /\ (Boot => job' = "boot") /\ (Retry => job' = job /\ attempt' = attempt + 1)
         /\ Wake \/ Start => AgentTypeOK' /\ pc # "call" /\ pc' # "call" /\ job' = "none"
         /\ \A r \in Reports : Collect(r) =>
              AgentTypeOK' /\ pc = "collect" /\ pc' = "call" /\ job' = r /\ attempt' = 1
         /\ Accepted \/ Rejected => AgentTypeOK' /\ pc' # "call" /\ job' = "none"
         /\ Unanswered =>
              /\ AgentTypeOK' /\ pc' # "call"
              /\ job' = "none" \/ (job' = job /\ attempt' = attempt)
         /\ NotFound => AgentTypeOK' /\ pc' = "call" /\ job' = "again"
         /\ Crash => AgentTypeOK' /\ pc' = "dead" /\ job' = "none"
<1>. USE AgentAssumption DEF AgentTypeOK, PCs, Jobs, Reports, Registrations
<1>1. Boot \/ Retry =>
        AgentTypeOK' /\ pc # "call" /\ pc' = "call"
        /\ (Boot => job' = "boot") /\ (Retry => job' = job /\ attempt' = attempt + 1)
  BY DEF Boot, Retry, Deliver
<1>2. Wake \/ Start => AgentTypeOK' /\ pc # "call" /\ pc' # "call" /\ job' = "none"
  BY DEF Wake, Start, Leave
<1>3. \A r \in Reports : Collect(r) =>
        AgentTypeOK' /\ pc = "collect" /\ pc' = "call" /\ job' = r /\ attempt' = 1
  BY DEF Collect, Deliver
<1>4. Accepted \/ Rejected => AgentTypeOK' /\ pc' # "call" /\ job' = "none"
  BY DEF Accepted, Rejected, GiveUp, Leave
<1>5. Unanswered =>
        AgentTypeOK' /\ pc' # "call" /\ (job' = "none" \/ (job' = job /\ attempt' = attempt))
  <2>1. CASE pc = "call" /\ pc' = "backoff" /\ UNCHANGED <<job, attempt, crashes>>
             /\ attempt < MaxAttempts
    BY <2>1
  <2>2. CASE GiveUp
    BY <2>2 DEF GiveUp, Leave
  <2>. QED  BY <2>1, <2>2 DEF Unanswered
<1>6. NotFound => AgentTypeOK' /\ pc' = "call" /\ job' = "again"
  BY DEF NotFound, Deliver
<1>7. Crash => AgentTypeOK' /\ pc' = "dead" /\ job' = "none"
  BY DEF Crash
<1>. QED  BY <1>1, <1>2, <1>3, <1>4, <1>5, <1>6, <1>7

\* The request of a new attempt.
LEMMA RequestFields ==
  ASSUME AgentTypeOK', report' \in 0 .. MaxReports, pc' = "call"
  PROVE  /\ Request \in Calls
         /\ Request.mine /\ Request.stage = "sent"
         /\ Request.job = job' /\ Request.attempt = attempt' /\ Request.report = report'
<1>1. job' \in Jobs /\ attempt' \in 1 .. MaxAttempts
  BY AgentAssumption DEF AgentTypeOK, Jobs
<1>. QED  BY <1>1 DEF Request, Calls, Stages

\* A request that is given up stays as it is, and is not waited for.
LEMMA LateFields ==
  ASSUME NEW c \in Calls
  PROVE  LET late == [c EXCEPT !.mine = FALSE]
         IN  /\ late \in Calls
             /\ ~late.mine /\ late.job = c.job /\ late.report = c.report
             /\ late.attempt = c.attempt /\ late.stage = c.stage
BY DEF Calls

LEMMA GivenUpFields ==
  ASSUME Types, NEW c \in calls, NEW left \in GivenUp(c)
  PROVE  /\ left \subseteq Calls /\ IsFiniteSet(left)
         /\ \A d \in left : d \in calls \ {c}
                            \/ (d = [c EXCEPT !.mine = FALSE] /\ c.stage = "sent")
<1>. DEFINE late == [c EXCEPT !.mine = FALSE]
<1>1. c \in Calls /\ late \in Calls
  BY LateFields DEF Types
<1>. HIDE DEF late
<1>2. left = calls \ {c} \/ (left = (calls \ {c}) \union {late} /\ c.stage = "sent")
  <2>1. CASE c.stage = "sent" /\ Cardinality(calls \ {c}) < MaxLate
    BY <2>1 DEF GivenUp, late
  <2>2. CASE ~(c.stage = "sent" /\ Cardinality(calls \ {c}) < MaxLate)
    BY <2>2 DEF GivenUp
  <2>. QED  BY <2>1, <2>2
<1>3. IsFiniteSet(calls \ {c}) /\ IsFiniteSet((calls \ {c}) \union {late})
  <2>1. IsFiniteSet(calls \ {c})
    BY FS_RemoveElement DEF Types
  <2>. QED  BY <2>1, FS_AddElement
<1>. QED  BY <1>1, <1>2, <1>3 DEF Types, late

\* An attempt begins beside requests nobody waits for.
LEMMA Asking ==
  ASSUME Types, AgentTypeOK', report' \in 0 .. MaxReports, pc' = "call",
         NEW base \in SUBSET calls, \A d \in base : ~d.mine,
         calls' = base \union {Request}
  PROVE  calls' \subseteq Calls /\ IsFiniteSet(calls') /\ Waits'
<1>1. /\ Request \in Calls /\ Request.mine
      /\ Request.job = job' /\ Request.attempt = attempt' /\ Request.report = report'
  BY RequestFields
<1>2. IsFiniteSet(base)
  BY FS_Subset DEF Types
<1>3. IsFiniteSet(calls')
  BY <1>2, FS_AddElement
<1>4. \A c \in calls' : c = Request \/ ~c.mine
  OBVIOUS
<1>5. Request \in calls'
  OBVIOUS
<1>6. Waits'
  BY <1>1, <1>4, <1>5 DEF Waits, Awaited
<1>. QED  BY <1>1, <1>3, <1>6 DEF Types

LEMMA NobodyWaits ==
  ASSUME Waits, pc # "call", NEW c \in calls
  PROVE  ~c.mine
BY DEF Waits, Awaited

LEMMA OthersAreLate ==
  ASSUME Waits, NEW c \in calls, c.mine, NEW d \in calls \ {c}
  PROVE  ~d.mine
BY DEF Waits

\* No request is waited for any more.
LEMMA Leaving ==
  ASSUME pc' # "call", \A d \in calls' : ~d.mine
  PROVE  Waits'
BY DEF Waits, Awaited

LEMMA SoundStepOfAgent == Sound /\ Step => Sound'
<1>. SUFFICES ASSUME Sound, Step PROVE Sound'
  OBVIOUS
<1>. USE DEF Sound
<1>1. AgentTypeOK /\ \A c \in calls : pc # "call" => ~c.mine
  BY NobodyWaits DEF Types
<1>2. UNCHANGED <<store, wipes, accepted>>
  BY DEF Step
<1>3. CASE (Boot \/ Retry) /\ UNCHANGED <<report, standing>> /\ calls' = calls \union {Request}
  <2>1. /\ AgentTypeOK' /\ pc # "call" /\ pc' = "call"
        /\ job' = "boot" \/ job' = job
    BY <1>1, <1>3, AgentMoves
  <2>2. calls' \subseteq Calls /\ IsFiniteSet(calls') /\ Waits'
    BY <1>1, <1>3, <2>1, Asking DEF Types
  <2>3. Sampled'
    BY <1>3, <2>1, RequestFields DEF Types, Sampled
  <2>. QED  BY <1>2, <1>3, <2>1, <2>2, <2>3 DEF Types, store
<1>4. CASE (Wake \/ Start) /\ UNCHANGED <<report, calls, standing>>
  <2>1. AgentTypeOK' /\ pc # "call" /\ pc' # "call" /\ job' = "none"
    BY <1>1, <1>4, AgentMoves
  <2>2. Waits'
    BY <1>1, <1>4, <2>1, Leaving
  <2>3. Sampled'
    BY <1>4, <2>1 DEF Sampled
  <2>. QED  BY <1>2, <1>4, <2>1, <2>2, <2>3 DEF Types, store
<1>5. ASSUME report < MaxReports, report' = report + 1, NEW r \in Reports, Collect(r),
             calls' = calls \union {Request}, standing' = FALSE
      PROVE  Sound'
  <2>1. AgentTypeOK' /\ pc = "collect" /\ pc' = "call" /\ job' = r
    BY <1>1, <1>5, AgentMoves
  <2>2. report' \in 0 .. MaxReports /\ report' > 0
    BY <1>5, DeliveryAssumption DEF Types
  <2>3. calls' \subseteq Calls /\ IsFiniteSet(calls') /\ Waits'
    BY <1>1, <1>5, <2>1, <2>2, Asking
  <2>4. Sampled'
    BY <1>5, <2>1, <2>2, RequestFields DEF Types, Sampled
  <2>. QED  BY <1>2, <1>5, <2>1, <2>2, <2>3, <2>4 DEF Types, store
<1>. QED  BY <1>3, <1>4, <1>5 DEF Step

\* The end of a request that was waited for, when the agent goes on without another.
LEMMA SoundGivenUp ==
  ASSUME Sound, NEW c \in calls, c.mine, calls' \in GivenUp(c),
         AgentTypeOK', pc' # "call", job' = "none" \/ job' = job,
         standing' \in BOOLEAN, accepted' \in 0 .. MaxReports,
         UNCHANGED <<report, store, wipes>>
  PROVE  Sound'
<1>. USE DEF Sound
<1>1. c \in Calls /\ (c.job = "metric" => c.report > 0)
  BY DEF Types, Sampled
<1>2. calls' \subseteq Calls /\ IsFiniteSet(calls')
  BY GivenUpFields
<1>3. \A d \in calls' : ~d.mine /\ (d.job = "metric" => d.report > 0)
  <2>. TAKE d \in calls'
  <2>1. CASE d \in calls \ {c}
    BY <2>1, OthersAreLate DEF Sampled
  <2>2. CASE d = [c EXCEPT !.mine = FALSE]
    BY <1>1, <2>2, LateFields
  <2>. QED  BY <2>1, <2>2, GivenUpFields
<1>4. Waits'
  BY <1>3, Leaving
<1>5. Sampled'
  BY <1>3 DEF Sampled
<1>. QED  BY <1>2, <1>4, <1>5 DEF Types, store

LEMMA Dropped ==
  ASSUME Types, NEW c \in calls
  PROVE  calls \ {c} \in GivenUp(c) /\ IsFiniteSet(calls \ {c})
BY FS_RemoveElement DEF GivenUp, Types

LEMMA SoundStepOfCall ==
  ASSUME Sound, NEW c \in calls, Answer(c) \/ Refuse(c) \/ TimeOut(c)
  PROVE  Sound'
<1>. USE DEF Sound
<1>1. AgentTypeOK /\ c.mine /\ UNCHANGED <<store, wipes>>
  BY DEF Types, Answer, Refuse, TimeOut
<1>2. CASE TimeOut(c)
  <2>1. AgentTypeOK' /\ pc' # "call" /\ (job' = "none" \/ job' = job)
    BY <1>1, <1>2, AgentMoves DEF TimeOut
  <2>. QED  BY <1>1, <1>2, <2>1, SoundGivenUp DEF TimeOut, Types
<1>3. CASE Refuse(c)
  <2>1. AgentTypeOK' /\ pc' # "call" /\ (job' = "none" \/ job' = job)
    BY <1>1, <1>3, AgentMoves DEF Refuse
  <2>. QED  BY <1>1, <1>3, <2>1, Dropped, SoundGivenUp DEF Refuse, Types
<1>4. CASE Answer(c) /\ Accepted
  <2>1. AgentTypeOK' /\ pc' # "call" /\ job' = "none"
    BY <1>1, <1>4, AgentMoves
  <2>2. report' = report
    BY <1>4 DEF Answer
  <2>3. pc = "call" /\ pc' # "call" /\ ~NotFound
    BY <1>4, <2>1 DEF Accepted, NotFound, Deliver
  <2>4. /\ calls' = calls \ {c}
        /\ accepted' \in {report, accepted}
        /\ standing' = (job = "heartbeat" /\ known)
    BY <1>4, <2>3 DEF Answer
  <2>5. accepted' \in 0 .. MaxReports /\ standing' \in BOOLEAN
    BY <2>4 DEF Types
  <2>. QED  BY <1>1, <2>1, <2>2, <2>4, <2>5, Dropped, SoundGivenUp
<1>5. CASE Answer(c) /\ NotFound
  <2>1. AgentTypeOK' /\ pc' = "call" /\ job' = "again"
    BY <1>1, <1>5, AgentMoves
  <2>2. ~Accepted
    BY <2>1, <1>1, AgentMoves
  <2>3. /\ report' = report /\ calls' = (calls \ {c}) \union {Request}
        /\ UNCHANGED <<accepted, standing>>
    BY <1>5, <2>2 DEF Answer
  <2>4. \A d \in calls \ {c} : ~d.mine
    BY <1>1, OthersAreLate
  <2>5. calls' \subseteq Calls /\ IsFiniteSet(calls') /\ Waits'
    BY <2>1, <2>3, <2>4, Asking DEF Types
  <2>6. Sampled'
    BY <2>1, <2>3, RequestFields DEF Types, Sampled
  <2>. QED  BY <1>1, <2>1, <2>3, <2>5, <2>6 DEF Types, store
<1>. QED  BY <1>2, <1>3, <1>4, <1>5 DEF Answer

LEMMA SoundStepOfDeath == Sound /\ Die => Sound'
<1>. SUFFICES ASSUME Sound, Die PROVE Sound'
  OBVIOUS
<1>. USE DEF Sound
<1>1. AgentTypeOK' /\ pc' = "dead" /\ job' = "none"
  BY AgentMoves DEF Die, Types
<1>2. standing' = FALSE /\ UNCHANGED <<report, store, wipes, accepted>>
  BY DEF Die
<1>3. CASE pc = "call"
  <2>1. PICK c \in calls : c.mine /\ calls' \in GivenUp(c)
    BY <1>3 DEF Die
  <2>. QED  BY <1>1, <1>2, <2>1, SoundGivenUp DEF Types
<1>4. CASE pc # "call"
  <2>1. calls' = calls /\ \A c \in calls : ~c.mine
    BY <1>4, NobodyWaits DEF Die
  <2>2. Waits'
    BY <1>1, <2>1, Leaving
  <2>. QED  BY <1>1, <1>2, <2>1, <2>2 DEF Types, Sampled, store
<1>. QED  BY <1>3, <1>4

\* What one transaction does.
LEMMA EffectTypes ==
  ASSUME Types, NEW c \in Calls, Effect(c), c.job = "metric" => c.report > 0
  PROVE  /\ known' \in BOOLEAN /\ failing' \in BOOLEAN
         /\ rows' \in Seq({Deleted} \union 1 .. MaxReports)
<1>1. known' \in BOOLEAN /\ failing' \in BOOLEAN
  BY DEF Effect, Types, store
<1>2. CASE c.job = "metric" /\ rows' = Append(rows, c.report)
  <2>1. c.report \in {Deleted} \union 1 .. MaxReports
    BY <1>2, DeliveryAssumption DEF Calls
  <2>. QED  BY <1>1, <1>2, <2>1, AppendProperties DEF Types
<1>3. CASE rows' = rows
  BY <1>1, <1>3 DEF Types
<1>. QED  BY <1>2, <1>3 DEF Effect, store

LEMMA SoundStepOfStore ==
  ASSUME Sound, NEW c \in calls, Execute(c) \/ Lose(c)
  PROVE  Sound'
<1>. USE DEF Sound
<1>1. UNCHANGED <<agent, report, wipes, accepted, standing>>
  BY DEF Execute, Lose
<1>2. c \in Calls /\ (c.job = "metric" => c.report > 0) /\ IsFiniteSet(calls \ {c})
  BY Dropped DEF Types, Sampled
<1>3. CASE Lose(c)
  <2>1. calls' = calls \ {c} /\ ~c.mine /\ UNCHANGED store
    BY <1>3 DEF Lose
  <2>. QED  BY <1>1, <1>2, <2>1 DEF Types, Waits, Awaited, Sampled, store, agent, AgentTypeOK
<1>4. CASE Execute(c)
  <2>1. /\ known' \in BOOLEAN /\ failing' \in BOOLEAN
        /\ rows' \in Seq({Deleted} \union 1 .. MaxReports)
    BY <1>2, <1>4, EffectTypes DEF Execute
  <2>2. PICK s \in Stages :
          calls' = (calls \ {c}) \union (IF c.mine THEN {[c EXCEPT !.stage = s]} ELSE {})
    BY <1>4 DEF Execute, Stages
  <2>. DEFINE seen == [c EXCEPT !.stage = s]
  <2>3. /\ seen \in Calls /\ seen.mine = c.mine /\ seen.job = c.job
        /\ seen.report = c.report /\ seen.attempt = c.attempt
    BY <1>2 DEF Calls
  <2>4. calls' = (calls \ {c}) \union (IF c.mine THEN {seen} ELSE {})
    BY <2>2
  <2>. HIDE DEF seen
  <2>5. IsFiniteSet(calls') /\ calls' \subseteq Calls
    BY <1>2, <2>3, <2>4, FS_AddElement DEF Types
  <2>6. Waits' /\ Sampled'
    <3>1. CASE c.mine
      <4>1. calls' = (calls \ {c}) \union {seen} /\ \A d \in calls \ {c} : ~d.mine
        BY <2>4, <3>1, OthersAreLate
      <4>2. pc' = pc /\ job' = job /\ attempt' = attempt /\ report' = report
        BY <1>1 DEF agent
      <4>3. Awaited(c)
        BY DEF Waits
      <4>4. Waits'
        BY <2>3, <3>1, <4>1, <4>2, <4>3 DEF Waits, Awaited
      <4>. QED  BY <1>2, <2>3, <4>1, <4>2, <4>4 DEF Sampled
    <3>2. CASE ~c.mine
      <4>1. calls' = calls \ {c}
        BY <2>4, <3>2
      <4>. QED  BY <1>1, <3>2, <4>1 DEF Waits, Awaited, Sampled, agent
    <3>. QED  BY <3>1, <3>2
  <2>. QED  BY <1>1, <2>1, <2>5, <2>6 DEF Types, agent, AgentTypeOK
<1>. QED  BY <1>3, <1>4

\* Rows are deleted in their places.
LEMMA PruneRows ==
  ASSUME Types, NEW k \in Nat, Prune(k)
  PROVE  /\ rows' \in Seq({Deleted} \union 1 .. MaxReports)
         /\ Len(rows') = Len(rows)
         /\ \A i \in 1 .. Len(rows) : rows'[i] = IF rows[i] < k THEN Deleted ELSE rows[i]
<1>. DEFINE R == {Deleted} \union 1 .. MaxReports
            n == Len(rows)
<1>1. n \in Nat /\ rows \in [1 .. n -> R] /\ DOMAIN rows = 1 .. n
  BY LenProperties DEF Types
<1>. HIDE DEF n
<1>2. rows' = [i \in 1 .. n |-> IF rows[i] < k THEN Deleted ELSE rows[i]]
  BY <1>1 DEF Prune
<1>3. rows' \in [1 .. n -> R]
  BY <1>1, <1>2
<1>4. rows' \in Seq(R)
  BY <1>1, <1>3, SeqDef
<1>5. Len(rows') = n
  BY <1>1, <1>3, <1>4, LenProperties
<1>. QED  BY <1>2, <1>4, <1>5 DEF n

LEMMA SoundStepOfOthers ==
  ASSUME Sound, Wipe \/ UNCHANGED vars \/ \E k \in 2 .. MaxReports : Prune(k)
  PROVE  Sound'
<1>. USE DEF Sound
<1>1. CASE UNCHANGED vars
  BY <1>1 DEF Types, Waits, Awaited, Sampled, vars, agent, store, AgentTypeOK
<1>2. CASE Wipe
  <2>1. /\ calls' = {c \in calls : c.mine} /\ UNCHANGED <<agent, report>>
        /\ rows' = <<>> /\ known' = FALSE /\ failing' = FALSE /\ accepted' = 0
        /\ standing' = FALSE /\ wipes' = wipes + 1 /\ wipes < MaxWipes
    BY <1>2 DEF Wipe
  <2>2. IsFiniteSet(calls')
    BY <2>1, FS_Subset DEF Types
  <2>3. Waits' /\ Sampled'
    BY <2>1 DEF Waits, Awaited, Sampled, agent
  <2>4. rows' \in Seq({Deleted} \union 1 .. MaxReports)
    BY <2>1, EmptySeq
  <2>5. wipes' \in 0 .. MaxWipes /\ accepted' \in 0 .. MaxReports
    BY <2>1, DeliveryAssumption DEF Types
  <2>. QED  BY <2>1, <2>2, <2>3, <2>4, <2>5 DEF Types, agent, AgentTypeOK
<1>3. ASSUME NEW k \in 2 .. MaxReports, Prune(k) PROVE Sound'
  <2>1. /\ UNCHANGED <<agent, report, calls, known, failing, wipes, standing>>
        /\ accepted' = IF accepted < k THEN 0 ELSE accepted
    BY <1>3 DEF Prune
  <2>2. rows' \in Seq({Deleted} \union 1 .. MaxReports)
    BY <1>3, PruneRows
  <2>3. accepted' \in 0 .. MaxReports
    BY <2>1, DeliveryAssumption DEF Types
  <2>. QED  BY <2>1, <2>2, <2>3 DEF Types, Waits, Awaited, Sampled, agent, AgentTypeOK
<1>. QED  BY <1>1, <1>2, <1>3

LEMMA SoundStep == Sound /\ [Next]_vars => Sound'
BY SoundStepOfAgent, SoundStepOfCall, SoundStepOfDeath, SoundStepOfStore, SoundStepOfOthers
   DEF Next, Done

LEMMA SoundInit == Init => Sound
<1>. SUFFICES ASSUME Init PROVE Sound
  OBVIOUS
<1>1. AgentTypeOK
  BY AgentAssumption DEF Init, AgentInit, AgentTypeOK, PCs, Jobs, Reports, Registrations
<1>2. rows \in Seq({Deleted} \union 1 .. MaxReports) /\ IsFiniteSet(calls)
  BY EmptySeq, FS_EmptySet DEF Init
<1>3. Waits /\ Sampled
  BY DEF Init, AgentInit, Waits, Sampled
<1>4. report \in 0 .. MaxReports /\ wipes \in 0 .. MaxWipes /\ accepted \in 0 .. MaxReports
  BY DeliveryAssumption DEF Init
<1>5. calls \subseteq Calls /\ known \in BOOLEAN /\ failing \in BOOLEAN /\ standing \in BOOLEAN
  BY DEF Init
<1>. QED  BY <1>1, <1>2, <1>3, <1>4, <1>5 DEF Sound, Types

LEMMA SoundIsTyped == Sound => TypeOK
<1>. SUFFICES ASSUME Sound PROVE TypeOK
  OBVIOUS
<1>1. pc = "call" => Cardinality({c \in calls : c.mine}) = 1
  <2>. SUFFICES ASSUME pc = "call" PROVE Cardinality({c \in calls : c.mine}) = 1
    OBVIOUS
  <2>1. PICK c \in calls : c.mine
    BY DEF Sound, Waits
  <2>2. {d \in calls : d.mine} = {c}
    BY <2>1 DEF Sound, Waits
  <2>. QED  BY <2>2, FS_Singleton
<1>. QED  BY <1>1 DEF Sound, Types, Waits, Awaited, TypeOK

\* The agent in a call waits for exactly one request, that of its present attempt,
\* whatever requests of its past are still out.  (_deliver)
THEOREM TypeCorrect == Spec => []TypeOK
BY SoundInit, SoundStep, SoundIsTyped, PTL DEF Spec

-----------------------------------------------------------------------------
(* The rows of the store, and what each statement does to them.            *)

RowsOf(r) == {i \in DOMAIN rows : rows[i] = r}

\* What is stored belongs to a node, and the sample that was answered is stored.
Kept ==
  /\ RowsHaveNode
  /\ accepted = 0 \/ accepted \in Stored

LEMMA RowsAreFinite ==
  ASSUME Types, NEW r
  PROVE  IsFiniteSet(RowsOf(r)) /\ Cardinality(RowsOf(r)) \in Nat
<1>1. Len(rows) \in Nat /\ DOMAIN rows = 1 .. Len(rows)
  BY LenProperties DEF Types
<1>2. 1 \in Int /\ Len(rows) \in Int
  BY <1>1
<1>3. IsFiniteSet(1 .. Len(rows))
  BY <1>2, FS_Interval
<1>4. IsFiniteSet(RowsOf(r))
  BY <1>1, <1>3, FS_Subset DEF RowsOf
<1>. QED  BY <1>4, FS_CardinalityType

\* A sample is inserted.
LEMMA Inserted ==
  ASSUME Types, NEW c \in Calls, c.job = "metric", c.report > 0,
         rows' = Append(rows, c.report)
  PROVE  /\ Stored' = Stored \union {c.report}
         /\ \A i \in DOMAIN rows' : rows'[i] = c.report \/ (i \in DOMAIN rows /\ rows'[i] = rows[i])
         /\ RowsOf(c.report)' = RowsOf(c.report) \union {Len(rows) + 1}
         /\ \A r : r # c.report => RowsOf(r)' = RowsOf(r)
<1>. DEFINE n == Len(rows)
<1>1. c.report \in {Deleted} \union 1 .. MaxReports /\ c.report # Deleted
  BY DeliveryAssumption DEF Calls, Deleted
<1>2. n \in Nat /\ DOMAIN rows = 1 .. n
  BY LenProperties DEF Types
<1>3. /\ rows' \in Seq({Deleted} \union 1 .. MaxReports)
      /\ Len(rows') = n + 1
      /\ \A i \in 1 .. n : rows'[i] = rows[i]
      /\ rows'[n + 1] = c.report
  BY <1>1, AppendProperties DEF Types
<1>4. DOMAIN rows' = 1 .. n + 1
  BY <1>3, LenProperties
<1>. HIDE DEF n
<1>5. DOMAIN rows' = DOMAIN rows \union {n + 1}
  BY <1>2, <1>4
<1>6. Stored' = Stored \union {c.report}
  BY <1>1, <1>2, <1>3, <1>5 DEF Stored
<1>7. \A i \in DOMAIN rows' : rows'[i] = c.report \/ (i \in DOMAIN rows /\ rows'[i] = rows[i])
  BY <1>2, <1>3, <1>5
<1>8. RowsOf(c.report)' = RowsOf(c.report) \union {n + 1}
  BY <1>2, <1>3, <1>5 DEF RowsOf
<1>9. \A r : r # c.report => RowsOf(r)' = RowsOf(r)
  BY <1>2, <1>3, <1>5 DEF RowsOf
<1>. QED  BY <1>6, <1>7, <1>8, <1>9 DEF n

\* Old samples are deleted.
LEMMA Pruned ==
  ASSUME Types, NEW k \in Nat, Prune(k)
  PROVE  /\ Stored' = {r \in Stored : r >= k}
         /\ DOMAIN rows' = DOMAIN rows
         /\ \A i \in DOMAIN rows : rows'[i] = rows[i] \/ rows'[i] = Deleted
         /\ \A r : r # Deleted => RowsOf(r)' \subseteq RowsOf(r)
<1>1. Len(rows) \in Nat /\ DOMAIN rows = 1 .. Len(rows)
  BY LenProperties DEF Types
<1>2. rows' \in Seq({Deleted} \union 1 .. MaxReports) /\ Len(rows') = Len(rows)
  BY PruneRows
<1>3. DOMAIN rows' = DOMAIN rows
  BY <1>1, <1>2, LenProperties
<1>4. \A i \in DOMAIN rows : rows'[i] = IF rows[i] < k THEN Deleted ELSE rows[i]
  BY <1>1, PruneRows
<1>5. \A i \in DOMAIN rows : rows[i] \in Nat
  BY <1>1, DeliveryAssumption, ElementOfSeq DEF Types, Deleted
<1>6. Stored' = {r \in Stored : r >= k}
  <2>1. ASSUME NEW i \in DOMAIN rows, rows'[i] # Deleted
        PROVE  rows'[i] = rows[i] /\ rows[i] >= k
    BY <1>4, <1>5, <2>1
  <2>2. ASSUME NEW i \in DOMAIN rows, rows[i] >= k
        PROVE  rows'[i] = rows[i]
    BY <1>4, <1>5, <2>2
  <2>. QED  BY <1>3, <2>1, <2>2 DEF Stored
<1>7. \A r : r # Deleted => RowsOf(r)' \subseteq RowsOf(r)
  BY <1>3, <1>4 DEF RowsOf
<1>. QED  BY <1>3, <1>4, <1>6, <1>7

LEMMA KeptStep == Sound /\ Kept /\ [Next]_vars => Kept'
<1>. SUFFICES ASSUME Sound, Kept, [Next]_vars PROVE Kept'
  OBVIOUS
<1>. USE DEF Sound
<1>1. CASE UNCHANGED <<store, accepted>>
  BY <1>1 DEF Kept, RowsHaveNode, Stored, store
<1>2. ASSUME NEW c \in calls, Answer(c) PROVE Kept'
  <2>1. UNCHANGED store
    BY <1>2 DEF Answer
  <2>2. accepted' = accepted \/ (accepted' = report /\ report \in Stored)
    BY <1>2 DEF Answer
  <2>. QED  BY <2>1, <2>2 DEF Kept, RowsHaveNode, Stored, store
<1>3. ASSUME NEW c \in calls, Execute(c) PROVE Kept'
  <2>1. c \in Calls /\ (c.job = "metric" => c.report > 0) /\ accepted' = accepted
    BY <1>3 DEF Types, Sampled, Execute
  <2>2. CASE c.job = "metric" /\ known /\ known' = known /\ rows' = Append(rows, c.report)
    BY <2>1, <2>2, Inserted DEF Kept, RowsHaveNode
  <2>3. CASE rows' = rows /\ (known => known')
    BY <2>1, <2>3 DEF Kept, RowsHaveNode, Stored
  <2>. QED  BY <1>3, <2>2, <2>3 DEF Execute, Effect, store
<1>4. ASSUME NEW k \in 2 .. MaxReports, Prune(k) PROVE Kept'
  <2>1. known' = known /\ accepted' = IF accepted < k THEN 0 ELSE accepted
    BY <1>4 DEF Prune
  <2>2. Stored' = {r \in Stored : r >= k}
    BY <1>4, Pruned
  <2>3. accepted \in Nat
    BY DeliveryAssumption DEF Types
  <2>. QED  BY <2>1, <2>2, <2>3 DEF Kept, RowsHaveNode
<1>5. CASE Wipe
  BY <1>5 DEF Wipe, Kept, RowsHaveNode, Stored
<1>. QED  BY <1>1, <1>2, <1>3, <1>4, <1>5
          DEF Next, Step, Die, Done, Refuse, TimeOut, Lose, vars

LEMMA KeptInit == Init => Kept
BY DEF Init, Kept, RowsHaveNode, Stored

\* A sample is stored only for a registered node, whatever is executed late and
\* whenever the database is lost.  (Store.add_metric)
THEOREM RowsHaveNodeHolds == Spec => []RowsHaveNode
<1>1. Kept => RowsHaveNode
  BY DEF Kept
<1>. QED  BY SoundInit, SoundStep, KeptInit, KeptStep, <1>1, PTL DEF Spec

\* latest_metric returns the largest collected_at there is.
LEMMA LatestIsGreatest ==
  ASSUME Types, Stored # {}
  PROVE  LatestMetric \in Stored /\ LatestMetric \in Nat /\ \A r \in Stored : r <= LatestMetric
<1>1. Stored \subseteq 0 .. MaxReports
  <2>1. \A i \in DOMAIN rows : rows[i] \in {Deleted} \union 1 .. MaxReports
    BY LenProperties, ElementOfSeq DEF Types
  <2>. QED  BY <2>1, DeliveryAssumption DEF Stored, Deleted
<1>2. \E x \in Stored : \A y \in Stored : y <= x
  BY <1>1, DeliveryAssumption, GreatestNumber
<1>3. LatestMetric \in Stored /\ \A y \in Stored : y <= LatestMetric
  BY <1>2 DEF LatestMetric
<1>. QED  BY <1>1, <1>3, DeliveryAssumption

\* The latest sample is never older than one that was answered 202 and is still to be
\* found, however late the attempts before it are executed.  (ingest_metrics,
\* Store.latest_metric)
THEOREM AcceptedIsLatestHolds == Spec => []AcceptedIsLatest
<1>1. ASSUME Sound, Kept PROVE AcceptedIsLatest
  <2>1. CASE accepted \in Stored
    <3>1. LatestMetric \in Nat /\ accepted <= LatestMetric /\ accepted \in Nat
      BY <1>1, <2>1, LatestIsGreatest, DeliveryAssumption DEF Sound, Types
    <3>. QED  BY <3>1 DEF AcceptedIsLatest
  <2>2. CASE accepted = 0 /\ Stored # {}
    <3>1. LatestMetric \in Nat
      BY <1>1, <2>2, LatestIsGreatest DEF Sound
    <3>. QED  BY <2>2, <3>1 DEF AcceptedIsLatest
  <2>3. CASE accepted = 0 /\ Stored = {}
    BY <2>3 DEF AcceptedIsLatest, LatestMetric
  <2>. QED  BY <1>1, <2>1, <2>2, <2>3 DEF Kept
<1>. QED  BY SoundInit, SoundStep, KeptInit, KeptStep, <1>1, PTL DEF Spec

-----------------------------------------------------------------------------
(* Copies of a sample.                                                     *)

\* The attempts for sample r that are out and not executed: each can still become
\* one copy.
Tries(r) == {c \in calls : c.job = "metric" /\ c.report = r /\ c.stage = "sent"}

\* The attempts that were begun for sample r, at most.
Begun(r) == IF r = report /\ job = "metric" THEN attempt ELSE MaxAttempts

\* Nothing of a report is there before it is made.
Past ==
  /\ \A c \in calls : c.report <= report
  /\ \A i \in DOMAIN rows : rows[i] <= report

Few == \A r \in 1 .. MaxReports : Copies(r) + Cardinality(Tries(r)) <= Begun(r)

Counted == Past /\ Few

LEMMA CountTypes ==
  ASSUME Sound, NEW r
  PROVE  /\ Copies(r) \in Nat
         /\ IsFiniteSet(Tries(r)) /\ Cardinality(Tries(r)) \in Nat
         /\ Begun(r) \in 0 .. MaxAttempts
<1>1. Copies(r) \in Nat
  BY RowsAreFinite DEF Copies, RowsOf, Sound
<1>2. IsFiniteSet(Tries(r)) /\ Cardinality(Tries(r)) \in Nat
  <2>1. IsFiniteSet(Tries(r))
    BY FS_Subset DEF Tries, Sound, Types
  <2>. QED  BY <2>1, FS_CardinalityType
<1>3. Begun(r) \in 0 .. MaxAttempts
  BY AgentAssumption DEF Begun, Sound, Types, AgentTypeOK
<1>. QED  BY <1>1, <1>2, <1>3

LEMMA CountTypesNext ==
  Sound' => (\A r : Copies(r) \in Nat /\ Cardinality(Tries(r)) \in Nat /\ Begun(r) \in 0 .. MaxAttempts)'
<1>1. Sound => \A r : Copies(r) \in Nat /\ Cardinality(Tries(r)) \in Nat /\ Begun(r) \in 0 .. MaxAttempts
  BY CountTypes
<1>. QED  BY <1>1, PTL

\* A request that is given up is still one attempt at most.
LEMMA TriesGivenUp ==
  ASSUME Sound, NEW c \in calls, calls' \in GivenUp(c), NEW r
  PROVE  Cardinality(Tries(r)') <= Cardinality(Tries(r))
<1>. DEFINE late == [c EXCEPT !.mine = FALSE]
<1>1. /\ late.job = c.job /\ late.report = c.report /\ late.stage = c.stage
  BY LateFields DEF Sound, Types
<1>2. \A d \in calls' : d \in calls \ {c} \/ d = late
  BY GivenUpFields DEF Sound
<1>3. IsFiniteSet(Tries(r)) /\ Cardinality(Tries(r)) \in Nat
  BY CountTypes
<1>. HIDE DEF late
<1>4. CASE c \in Tries(r)
  <2>. DEFINE rest == Tries(r) \ {c}
  <2>1. IsFiniteSet(rest) /\ Cardinality(rest) = Cardinality(Tries(r)) - 1
    BY <1>3, <1>4, FS_RemoveElement
  <2>2. Tries(r)' \subseteq rest \union {late}
    BY <1>2 DEF Tries
  <2>. HIDE DEF rest
  <2>3. /\ IsFiniteSet(rest \union {late})
        /\ Cardinality(rest \union {late}) =
             IF late \in rest THEN Cardinality(rest) ELSE Cardinality(rest) + 1
    BY <2>1, FS_AddElement
  <2>4. Cardinality(Tries(r)') <= Cardinality(rest \union {late})
    BY <2>2, <2>3, FS_Subset
  <2>5. Cardinality(Tries(r)') \in Nat
    BY <2>2, <2>3, FS_Subset, FS_CardinalityType
  <2>. QED  BY <1>3, <2>1, <2>3, <2>4, <2>5
<1>5. CASE c \notin Tries(r)
  <2>1. Tries(r)' \subseteq Tries(r)
    BY <1>1, <1>2, <1>5 DEF Tries
  <2>. QED  BY <1>3, <2>1, FS_Subset
<1>. QED  BY <1>4, <1>5

\* A new attempt is one attempt more for the sample it carries, and none for others.
LEMMA TriesAsked ==
  ASSUME Sound, AgentTypeOK', report' \in 0 .. MaxReports, pc' = "call",
         NEW base \in SUBSET calls, calls' = base \union {Request}, NEW r
  PROVE  /\ Cardinality(Tries(r)') <= Cardinality(Tries(r)) + 1
         /\ job' # "metric" \/ report' # r => Cardinality(Tries(r)') <= Cardinality(Tries(r))
<1>1. Request.job = job' /\ Request.report = report'
  BY RequestFields
<1>2. IsFiniteSet(Tries(r)) /\ Cardinality(Tries(r)) \in Nat
  BY CountTypes
<1>3. CASE job' # "metric" \/ report' # r
  <2>1. Tries(r)' \subseteq Tries(r)
    BY <1>1, <1>3 DEF Tries
  <2>2. Cardinality(Tries(r)') <= Cardinality(Tries(r)) /\ Cardinality(Tries(r)') \in Nat
    BY <1>2, <2>1, FS_Subset, FS_CardinalityType
  <2>. QED  BY <1>2, <2>2
<1>4. CASE ~(job' # "metric" \/ report' # r)
  <2>1. Tries(r)' \subseteq Tries(r) \union {Request}
    BY DEF Tries
  <2>2. /\ IsFiniteSet(Tries(r) \union {Request})
        /\ Cardinality(Tries(r) \union {Request}) =
             IF Request \in Tries(r) THEN Cardinality(Tries(r)) ELSE Cardinality(Tries(r)) + 1
    BY <1>2, FS_AddElement
  <2>3. /\ Cardinality(Tries(r)') <= Cardinality(Tries(r) \union {Request})
        /\ Cardinality(Tries(r)') \in Nat
    BY <2>1, <2>2, FS_Subset, FS_CardinalityType
  <2>. QED  BY <1>2, <1>4, <2>2, <2>3
<1>. QED  BY <1>3, <1>4

\* Nothing is there of a report that is still to be made.
LEMMA NothingAhead ==
  ASSUME Sound, Past, NEW r \in Nat, r > report
  PROVE  Copies(r) = 0 /\ Cardinality(Tries(r)) = 0
<1>1. report \in Nat
  BY DeliveryAssumption DEF Sound, Types
<1>2. Tries(r) = {}
  BY <1>1 DEF Past, Tries
<1>3. {i \in DOMAIN rows : rows[i] = r} = {}
  BY <1>1 DEF Past
<1>. QED  BY <1>2, <1>3, FS_EmptySet DEF Copies

LEMMA PastStep == Sound /\ Sound' /\ Past /\ [Next]_vars => Past'
<1>. SUFFICES ASSUME Sound, Sound', Past, [Next]_vars PROVE Past'
  OBVIOUS
<1>1. report \in Nat /\ report' \in Nat /\ AgentTypeOK /\ AgentTypeOK'
  BY DeliveryAssumption DEF Sound, Types
<1>2. \A c \in calls : c.report \in Nat
  BY DeliveryAssumption DEF Sound, Types, Calls
<1>3. \A i \in DOMAIN rows : rows[i] \in Nat
  BY LenProperties, ElementOfSeq, DeliveryAssumption DEF Sound, Types, Deleted
<1>4. CASE report' >= report /\ rows' = rows
           /\ \A d \in calls' : d.report = report' \/ d \in calls
  BY <1>1, <1>2, <1>3, <1>4 DEF Past
<1>5. ASSUME NEW c \in calls, calls' \in GivenUp(c), report' = report, rows' = rows
      PROVE  Past'
  <2>. DEFINE late == [c EXCEPT !.mine = FALSE]
  <2>1. \A d \in calls' : d \in calls \/ d = late
    BY <1>5, GivenUpFields DEF Sound
  <2>2. late.report = c.report
    BY LateFields DEF Sound, Types
  <2>. HIDE DEF late
  <2>. QED  BY <1>5, <2>1, <2>2 DEF Past
<1>6. CASE Step
  <2>1. CASE calls' = calls \union {Request} /\ pc' = "call"
    <3>1. Request.report = report'
      BY <1>1, <2>1, RequestFields DEF Sound, Types
    <3>2. report' >= report /\ rows' = rows
      BY <1>1, <1>6 DEF Step, store
    <3>. QED  BY <1>4, <2>1, <3>1, <3>2
  <2>2. CASE calls' = calls /\ report' = report
    BY <1>1, <1>4, <1>6, <2>2 DEF Step, store
  <2>. QED  BY <1>6, <2>1, <2>2 DEF Step, Boot, Retry, Collect, Deliver
<1>7. ASSUME NEW c \in calls, Answer(c) PROVE Past'
  <2>1. report' = report /\ rows' = rows
    BY <1>7 DEF Answer, store, NotFound
  <2>2. CASE calls' = calls \ {c}
    BY <1>1, <1>4, <2>1, <2>2
  <2>3. CASE NotFound /\ calls' = (calls \ {c}) \union {Request}
    <3>1. Request.report = report'
      BY <1>1, <2>3, RequestFields DEF Sound, Types, NotFound, Deliver
    <3>. QED  BY <1>1, <1>4, <2>1, <2>3, <3>1
  <2>. QED  BY <1>7, <2>2, <2>3 DEF Answer
<1>8. ASSUME NEW c \in calls, Refuse(c) \/ TimeOut(c) \/ Lose(c) PROVE Past'
  <2>1. calls' \in GivenUp(c) /\ report' = report /\ rows' = rows
    BY <1>8, Dropped DEF Refuse, TimeOut, Lose, store, Sound
  <2>. QED  BY <1>5, <2>1
<1>9. CASE Die
  BY <1>1, <1>4, <1>5, <1>9 DEF Die, store
<1>10. ASSUME NEW c \in calls, Execute(c) PROVE Past'
  <2>1. c \in Calls /\ c.report <= report /\ report' = report
        /\ (c.job = "metric" => c.report > 0)
    BY <1>10 DEF Execute, Sound, Types, Sampled, Past
  <2>2. \A d \in calls' : d.report = c.report \/ d \in calls
    BY <1>10, <2>1 DEF Execute, Calls
  <2>3. rows' = rows \/ (c.job = "metric" /\ rows' = Append(rows, c.report))
    BY <1>10 DEF Execute, Effect, store
  <2>4. \A i \in DOMAIN rows' : rows'[i] = c.report \/ (i \in DOMAIN rows /\ rows'[i] = rows[i])
    BY <2>1, <2>3, Inserted DEF Sound
  <2>. QED  BY <2>1, <2>2, <2>4 DEF Past
<1>11. ASSUME NEW k \in 2 .. MaxReports, Prune(k) PROVE Past'
  <2>1. calls' = calls /\ report' = report
    BY <1>11 DEF Prune
  <2>2. DOMAIN rows' = DOMAIN rows /\ \A i \in DOMAIN rows : rows'[i] = rows[i] \/ rows'[i] = 0
    BY <1>11, Pruned DEF Sound, Deleted
  <2>. QED  BY <1>1, <2>1, <2>2 DEF Past
<1>12. CASE Wipe
  BY <1>12 DEF Wipe, Past
<1>13. CASE UNCHANGED vars
  BY <1>13 DEF vars, store, Past
<1>. QED  BY <1>6, <1>7, <1>8, <1>9, <1>10, <1>11, <1>12, <1>13 DEF Next, Done

\* A step that adds neither a copy nor an attempt.
LEMMA NoMore ==
  ASSUME Sound, Sound', Few, NEW r \in 1 .. MaxReports,
         Copies(r)' <= Copies(r), Cardinality(Tries(r)') <= Cardinality(Tries(r)),
         Begun(r)' >= Begun(r)
  PROVE  Copies(r)' + Cardinality(Tries(r)') <= Begun(r)'
<1>1. /\ Copies(r) \in Nat /\ Cardinality(Tries(r)) \in Nat /\ Begun(r) \in Nat
      /\ Copies(r) + Cardinality(Tries(r)) <= Begun(r)
  BY CountTypes, AgentAssumption DEF Few
<1>2. Copies(r)' \in Nat /\ Cardinality(Tries(r)') \in Nat /\ Begun(r)' \in Nat
  BY CountTypesNext, AgentAssumption
<1>. QED  BY <1>1, <1>2

\* What is allowed for a sample never shrinks while the agent stays at its attempt or
\* turns to something else.
LEMMA BegunGrows ==
  ASSUME AgentTypeOK, report' = report,
         job' \in {"none", "boot", "again"} \/ (job' = job /\ attempt' = attempt), NEW r
  PROVE  Begun(r)' >= Begun(r)
BY AgentAssumption DEF Begun, AgentTypeOK

LEMMA SameCopies ==
  ASSUME Sound, UNCHANGED rows, NEW r
  PROVE  Copies(r)' <= Copies(r)
<1>1. Copies(r) \in Nat
  BY CountTypes
<1>2. Copies(r)' = Copies(r)
  BY DEF Copies
<1>. QED  BY <1>1, <1>2

LEMMA FewStepOfAgent == Sound /\ Sound' /\ Past /\ Few /\ Step => Few'
<1>. SUFFICES ASSUME Sound, Sound', Past, Few, Step, NEW r \in 1 .. MaxReports
              PROVE  Copies(r)' + Cardinality(Tries(r)') <= Begun(r)'
  BY DEF Few
<1>. DEFINE copies == Copies(r)  tries == Cardinality(Tries(r))  begun == Begun(r)
            copiesN == Copies(r)'  triesN == Cardinality(Tries(r)')  begunN == Begun(r)'
<1>1. /\ copies \in Nat /\ tries \in Nat /\ begun \in Nat /\ copies + tries <= begun
      /\ copiesN \in Nat /\ triesN \in Nat /\ begunN \in Nat
  <2>1. copies \in Nat /\ tries \in Nat /\ begun \in Nat
    BY CountTypes, AgentAssumption
  <2>2. copiesN \in Nat /\ triesN \in Nat /\ begunN \in Nat
    BY CountTypesNext, AgentAssumption
  <2>. QED  BY <2>1, <2>2 DEF Few
<1>2. copiesN <= copies
  BY SameCopies DEF Step, store
<1>3. AgentTypeOK /\ AgentTypeOK' /\ report \in 0 .. MaxReports /\ report' \in 0 .. MaxReports
  BY DEF Sound, Types
<1>4. CASE Boot /\ report' = report /\ calls' = calls \union {Request}
  <2>1. pc' = "call" /\ job' = "boot"
    BY <1>3, <1>4, AgentMoves
  <2>2. triesN <= tries
    BY <1>3, <1>4, <2>1, TriesAsked
  <2>3. begunN >= begun
    BY <1>3, <1>4, <2>1, BegunGrows
  <2>. QED  BY <1>2, <2>2, <2>3, NoMore
<1>5. CASE Retry /\ report' = report /\ calls' = calls \union {Request}
  <2>1. pc' = "call" /\ job' = job /\ attempt' = attempt + 1
    BY <1>3, <1>5, AgentMoves
  <2>2. CASE job = "metric" /\ report = r
    <3>1. triesN <= tries + 1
      BY <1>3, <1>5, <2>1, TriesAsked
    <3>2. begunN = begun + 1
      BY <1>5, <2>1, <2>2 DEF Begun
    <3>. HIDE DEF copies, tries, begun, copiesN, triesN, begunN
    <3>3. copiesN + triesN <= begunN
      BY <1>1, <1>2, <3>1, <3>2
    <3>. QED  BY <3>3 DEF copiesN, triesN, begunN
  <2>3. CASE ~(job = "metric" /\ report = r)
    <3>1. triesN <= tries
      BY <1>3, <1>5, <2>1, <2>3, TriesAsked
    <3>2. begunN >= begun
      BY <1>5, <2>1, <2>3, AgentAssumption DEF Begun
    <3>. QED  BY <1>2, <3>1, <3>2, NoMore
  <2>. QED  BY <2>2, <2>3
<1>6. CASE (Wake \/ Start) /\ UNCHANGED <<report, calls>>
  <2>1. job' = "none"
    BY <1>3, <1>6, AgentMoves
  <2>2. triesN <= tries
    <3>1. triesN = tries
      BY <1>6 DEF Tries
    <3>. QED  BY <1>1, <3>1
  <2>3. begunN >= begun
    BY <1>3, <1>6, <2>1, BegunGrows
  <2>. QED  BY <1>2, <2>2, <2>3, NoMore
<1>7. ASSUME report < MaxReports, report' = report + 1, NEW k \in Reports, Collect(k),
             calls' = calls \union {Request}
      PROVE  copiesN + triesN <= begunN
  <2>1. pc' = "call" /\ job' = k /\ attempt' = 1
    BY <1>3, <1>7, AgentMoves
  <2>2. CASE r <= report
    <3>1. report' # r /\ triesN <= tries
      BY <1>3, <1>7, <2>1, <2>2, TriesAsked
    <3>2. begunN >= begun
      BY <1>3, <3>1, AgentAssumption DEF Begun, AgentTypeOK
    <3>. QED  BY <1>2, <3>1, <3>2, NoMore
  <2>3. CASE r > report
    <3>1. copies = 0 /\ tries = 0
      BY <2>3, NothingAhead DEF Sound, Types
    <3>2. triesN <= 1 /\ (job' # "metric" \/ report' # r => triesN <= 0)
      BY <1>3, <1>7, <2>1, <3>1, TriesAsked
    <3>3. begunN >= 1
      BY <2>1, AgentAssumption DEF Begun
    <3>. HIDE DEF copies, tries, begun, copiesN, triesN, begunN
    <3>4. copiesN + triesN <= begunN
      BY <1>1, <1>2, <3>1, <3>2, <3>3
    <3>. QED  BY <3>4
  <2>. QED  BY <1>3, <2>2, <2>3
<1>. QED  BY <1>4, <1>5, <1>6, <1>7 DEF Step

LEMMA FewStepOfCall ==
  ASSUME Sound, Sound', Few, NEW c \in calls,
         Answer(c) \/ Refuse(c) \/ TimeOut(c) \/ Lose(c)
  PROVE  Few'
<1>. SUFFICES ASSUME NEW r \in 1 .. MaxReports
              PROVE  Copies(r)' + Cardinality(Tries(r)') <= Begun(r)'
  BY DEF Few
<1>1. AgentTypeOK /\ AgentTypeOK' /\ report' \in 0 .. MaxReports
  BY DEF Sound, Types
<1>2. UNCHANGED <<rows, report>>
  BY DEF Answer, Refuse, TimeOut, Lose, store
<1>3. Copies(r)' <= Copies(r)
  BY <1>2, SameCopies
<1>4. CASE calls' \in GivenUp(c)
           /\ (job' = "none" \/ (job' = job /\ attempt' = attempt))
  <2>1. Cardinality(Tries(r)') <= Cardinality(Tries(r))
    BY <1>4, TriesGivenUp
  <2>2. Begun(r)' >= Begun(r)
    BY <1>1, <1>2, <1>4, BegunGrows
  <2>. QED  BY <1>3, <2>1, <2>2, NoMore
<1>5. CASE Answer(c) /\ NotFound /\ calls' = (calls \ {c}) \union {Request}
  <2>1. pc' = "call" /\ job' = "again"
    BY <1>1, <1>5, AgentMoves
  <2>2. Cardinality(Tries(r)') <= Cardinality(Tries(r))
    BY <1>1, <1>5, <2>1, TriesAsked
  <2>3. Begun(r)' >= Begun(r)
    BY <1>1, <1>2, <2>1, BegunGrows
  <2>. QED  BY <1>3, <2>2, <2>3, NoMore
<1>6. calls \ {c} \in GivenUp(c)
  BY Dropped DEF Sound
<1>7. CASE Answer(c)
  BY <1>1, <1>4, <1>5, <1>6, <1>7, AgentMoves DEF Answer
<1>8. CASE Refuse(c)
  BY <1>1, <1>4, <1>6, <1>8, AgentMoves DEF Refuse
<1>9. CASE TimeOut(c)
  BY <1>1, <1>4, <1>9, AgentMoves DEF TimeOut
<1>10. CASE Lose(c)
  BY <1>4, <1>6, <1>10 DEF Lose, agent
<1>. QED  BY <1>7, <1>8, <1>9, <1>10

\* One attempt that is executed becomes one copy at most.
LEMMA FewStepOfStore ==
  ASSUME Sound, Sound', Few, NEW c \in calls, Execute(c)
  PROVE  Few'
<1>. SUFFICES ASSUME NEW r \in 1 .. MaxReports
              PROVE  Copies(r)' + Cardinality(Tries(r)') <= Begun(r)'
  BY DEF Few
<1>. DEFINE copies == Copies(r)  tries == Cardinality(Tries(r))  begun == Begun(r)
            copiesN == Copies(r)'  triesN == Cardinality(Tries(r)')  begunN == Begun(r)'
<1>1. /\ c \in Calls /\ c.stage = "sent" /\ (c.job = "metric" => c.report > 0)
      /\ UNCHANGED <<agent, report>>
  BY DEF Execute, Sound, Types, Sampled
<1>2. /\ copies \in Nat /\ tries \in Nat /\ begun \in Nat /\ copies + tries <= begun
      /\ IsFiniteSet(Tries(r)) /\ IsFiniteSet(RowsOf(r))
  BY CountTypes, RowsAreFinite, AgentAssumption DEF Few, Sound
<1>3. begunN = begun
  BY <1>1 DEF Begun, agent
<1>4. Tries(r)' \subseteq Tries(r) \ {c}
  <2>1. \A d \in calls' : d \in calls \ {c} \/ d.stage # "sent"
    BY <1>1 DEF Execute, Calls
  <2>. QED  BY <2>1 DEF Tries
<1>5. triesN <= (IF c \in Tries(r) THEN tries - 1 ELSE tries) /\ triesN \in Nat
  <2>1. /\ IsFiniteSet(Tries(r) \ {c})
        /\ Cardinality(Tries(r) \ {c}) = IF c \in Tries(r) THEN tries - 1 ELSE tries
    BY <1>2, FS_RemoveElement
  <2>2. triesN <= Cardinality(Tries(r) \ {c}) /\ triesN \in Nat
    BY <1>4, <2>1, FS_Subset, FS_CardinalityType
  <2>. QED  BY <2>1, <2>2
<1>6. CASE rows' = rows
  <2>1. copiesN <= copies
    BY <1>6, SameCopies
  <2>2. triesN <= tries
    BY <1>2, <1>5
  <2>. QED  BY <1>2, <1>3, <2>1, <2>2, NoMore
<1>7. CASE c.job = "metric" /\ rows' = Append(rows, c.report)
  <2>1. CASE c.report # r
    <3>1. RowsOf(r)' = RowsOf(r)
      BY <1>1, <1>7, <2>1, Inserted DEF Sound
    <3>2. copiesN = copies
      BY <3>1 DEF Copies, RowsOf
    <3>3. triesN <= tries
      BY <1>2, <1>5
    <3>. QED  BY <1>2, <1>3, <3>2, <3>3, NoMore
  <2>2. CASE c.report = r
    <3>1. RowsOf(r)' = RowsOf(r) \union {Len(rows) + 1}
      BY <1>1, <1>7, <2>2, Inserted DEF Sound
    <3>2. /\ IsFiniteSet(RowsOf(r)')
          /\ Cardinality(RowsOf(r)') =
               IF Len(rows) + 1 \in RowsOf(r) THEN copies ELSE copies + 1
      <4>. DEFINE T == RowsOf(r)  m == Len(rows) + 1
      <4>1. /\ IsFiniteSet(T \union {m})
            /\ Cardinality(T \union {m}) = IF m \in T THEN Cardinality(T) ELSE Cardinality(T) + 1
        BY <1>2, FS_AddElement
      <4>2. Cardinality(T) = copies
        BY DEF Copies, RowsOf
      <4>. HIDE DEF T, m, copies
      <4>3. RowsOf(r)' = T \union {m}
        BY <3>1 DEF T, m
      <4>. QED  BY <4>1, <4>2, <4>3 DEF T, m
    <3>3. copiesN <= copies + 1 /\ copiesN \in Nat
      BY <1>2, <3>2 DEF Copies, RowsOf
    <3>4. c \in Tries(r)
      BY <1>1, <1>7, <2>2 DEF Tries
    <3>. HIDE DEF copies, tries, begun, copiesN, triesN, begunN
    <3>5. copiesN + triesN <= begunN
      BY <1>2, <1>3, <1>5, <3>3, <3>4
    <3>. QED  BY <3>5 DEF copiesN, triesN, begunN
  <2>. QED  BY <2>1, <2>2
<1>. QED  BY <1>6, <1>7 DEF Execute, Effect, store

LEMMA FewStepOfOthers ==
  ASSUME Sound, Sound', Few,
         Die \/ Wipe \/ UNCHANGED vars \/ \E k \in 2 .. MaxReports : Prune(k)
  PROVE  Few'
<1>. SUFFICES ASSUME NEW r \in 1 .. MaxReports
              PROVE  Copies(r)' + Cardinality(Tries(r)') <= Begun(r)'
  BY DEF Few
<1>1. AgentTypeOK /\ IsFiniteSet(Tries(r)) /\ Copies(r) \in Nat /\ Cardinality(Tries(r)) \in Nat
  BY CountTypes DEF Sound, Types
<1>2. CASE Die
  <2>1. job' = "none" /\ UNCHANGED <<rows, report>>
    BY <1>1, <1>2, AgentMoves DEF Die, store
  <2>2. Begun(r)' >= Begun(r) /\ Copies(r)' <= Copies(r)
    BY <1>1, <2>1, BegunGrows, SameCopies
  <2>3. CASE \E c \in calls : calls' \in GivenUp(c)
    BY <2>2, <2>3, TriesGivenUp, NoMore
  <2>4. CASE UNCHANGED calls
    <3>1. Cardinality(Tries(r)') <= Cardinality(Tries(r))
      BY <1>1, <2>4 DEF Tries
    <3>. QED  BY <2>2, <3>1, NoMore
  <2>. QED  BY <1>2, <2>3, <2>4 DEF Die
<1>3. CASE Wipe \/ UNCHANGED vars \/ \E k \in 2 .. MaxReports : Prune(k)
  <2>1. UNCHANGED <<agent, report>> /\ calls' \subseteq calls
    BY <1>3 DEF Wipe, vars, Prune
  <2>2. RowsOf(r)' \subseteq RowsOf(r)
    <3>1. CASE Wipe
      BY <3>1 DEF Wipe, RowsOf
    <3>2. CASE UNCHANGED vars
      BY <3>2 DEF vars, store, RowsOf
    <3>3. CASE \E k \in 2 .. MaxReports : Prune(k)
      BY <3>3, Pruned DEF Sound, Deleted
    <3>. QED  BY <1>3, <3>1, <3>2, <3>3
  <2>3. Copies(r)' <= Copies(r)
    <3>1. IsFiniteSet(RowsOf(r))
      BY RowsAreFinite DEF Sound
    <3>. QED  BY <2>2, <3>1, FS_Subset DEF Copies, RowsOf
  <2>4. Cardinality(Tries(r)') <= Cardinality(Tries(r))
    <3>1. Tries(r)' \subseteq Tries(r)
      BY <2>1 DEF Tries
    <3>. QED  BY <1>1, <3>1, FS_Subset
  <2>5. Begun(r)' >= Begun(r)
    BY <1>1, <2>1, BegunGrows DEF agent
  <2>. QED  BY <2>3, <2>4, <2>5, NoMore
<1>. QED  BY <1>2, <1>3

LEMMA CountedStep == Sound /\ Sound' /\ Counted /\ [Next]_vars => Counted'
<1>. SUFFICES ASSUME Sound, Sound', Counted, [Next]_vars PROVE Counted'
  OBVIOUS
<1>1. Past'
  BY PastStep DEF Counted
<1>2. Few'
  BY FewStepOfAgent, FewStepOfCall, FewStepOfStore, FewStepOfOthers DEF Counted, Next, Done
<1>. QED  BY <1>1, <1>2 DEF Counted

LEMMA CountedInit == Init => Counted
<1>. SUFFICES ASSUME Init PROVE Counted
  OBVIOUS
<1>1. Past
  BY DEF Init, Past
<1>2. ASSUME NEW r \in 1 .. MaxReports PROVE Copies(r) + Cardinality(Tries(r)) <= Begun(r)
  <2>1. Copies(r) = 0 /\ Cardinality(Tries(r)) = 0
    BY <1>1, SoundInit, NothingAhead, DeliveryAssumption DEF Init
  <2>2. Begun(r) \in Nat
    BY SoundInit, CountTypes, AgentAssumption
  <2>. QED  BY <2>1, <2>2
<1>. QED  BY <1>1, <1>2 DEF Counted, Few

\* However requests time out, are tried again and executed late, a sample is stored at
\* most once per attempt begun for it.  (_deliver, Store.add_metric)
THEOREM FewCopiesHolds == Spec => []FewCopies
<1>1. ASSUME Sound, Few PROVE FewCopies
  <2>. SUFFICES ASSUME NEW r \in 1 .. MaxReports PROVE Copies(r) <= Begun(r)
    BY DEF FewCopies, Begun
  <2>1. /\ Copies(r) + Cardinality(Tries(r)) <= Begun(r)
        /\ Copies(r) \in Nat /\ Cardinality(Tries(r)) \in Nat /\ Begun(r) \in Nat
    BY <1>1, CountTypes, AgentAssumption DEF Few
  <2>. QED  BY <2>1
<1>2. Sound /\ Counted => FewCopies
  BY <1>1 DEF Counted
<1>. QED  BY SoundInit, SoundStep, CountedInit, CountedStep, <1>2, PTL DEF Spec

-----------------------------------------------------------------------------
(* Registering again.                                                      *)

\* A 404 is on its way, or was answered by a registration, only after the controller
\* lost its database.
NotFoundHasCause ==
  job = "again" \/ (\E c \in calls : c.stage = "missing") => wipes > 0

\* As long as the database was never lost, who reports is known, and so is who was
\* ever answered.
Registered ==
  wipes = 0 =>
    /\ job # "again"
    /\ pc \in {"collect", "sleep"} \/ job \in Reports => known
    /\ \A c \in calls :
         /\ c.stage # "missing"
         /\ c.job \in Reports \/ c.stage = "stored" => known

LEMMA RegisteredStep == Sound /\ Registered /\ [Next]_vars => Registered'
<1>. SUFFICES ASSUME Sound, Registered, [Next]_vars PROVE Registered'
  OBVIOUS
<1>0. AgentTypeOK /\ calls \subseteq Calls /\ wipes \in Nat
      /\ (pc = "call" => job \in {"metric", "heartbeat", "boot", "again"})
  BY DeliveryAssumption DEF Sound, Types, AgentTypeOK, Jobs, Reports, Registrations
<1>1. CASE Wipe
  BY <1>0, <1>1 DEF Wipe, Registered
<1>2. CASE ~Wipe /\ wipes = 0
  <2>1. wipes' = wipes
    BY <1>2 DEF Next, Step, Die, Done, Prune, Answer, Refuse, TimeOut, Execute, Lose, vars
  <2>. USE <1>2 DEF Registered, Reports
  <2>2. CASE Step
    <3>1. known' = known
      BY <2>2 DEF Step, store
    <3>2. /\ job' # "again"
          /\ pc' \in {"collect", "sleep"} \/ job' \in Reports => known'
      BY <2>2, <3>1 DEF Step, Boot, Retry, Wake, Start, Collect, Deliver, Leave
    <3>3. \A c \in calls' : c \in calls \/ (c.stage = "sent" /\ c.job = job')
      BY <2>2 DEF Step, Request
    <3>. QED  BY <3>1, <3>2, <3>3
  <2>3. ASSUME NEW c \in calls, calls' \in GivenUp(c), known' = known,
               \/ job' = "none" /\ (pc' \in {"collect", "sleep"} => known)
               \/ job' = job /\ (pc' \in {"collect", "sleep"} => pc' = pc)
        PROVE  Registered'
    <3>. DEFINE late == [c EXCEPT !.mine = FALSE]
    <3>1. \A d \in calls' : d \in calls \/ d = late
      BY <2>3, GivenUpFields DEF Sound
    <3>2. late.stage = c.stage /\ late.job = c.job
      BY <1>0, LateFields
    <3>. HIDE DEF late
    <3>. QED  BY <2>3, <3>1, <3>2
  <2>4. ASSUME NEW c \in calls, Answer(c) PROVE Registered'
    <3>1. c.mine /\ c.job = job /\ known' = known
      BY <2>4 DEF Answer, Sound, Waits, Awaited, store
    <3>2. CASE c.stage = "stored" /\ Accepted /\ calls' = calls \ {c}
      <4>1. job' = "none" /\ known
        BY <3>2 DEF Accepted, Leave
      <4>. QED  BY <3>1, <3>2, <4>1
    <3>3. CASE c.stage = "missing"
      BY <3>3
    <3>. QED  BY <2>4, <3>2, <3>3 DEF Answer
  <2>5. ASSUME NEW c \in calls, Refuse(c) \/ TimeOut(c) PROVE Registered'
    <3>1. known' = known /\ calls' \in GivenUp(c) /\ (Rejected \/ Unanswered)
      BY <2>5, Dropped DEF Refuse, TimeOut, Sound, store
    <3>2. \/ job' = "none" /\ (pc' \in {"collect", "sleep"} => known)
          \/ job' = job /\ (pc' \in {"collect", "sleep"} => pc' = pc)
      <4>1. CASE GiveUp
        BY <1>0, <4>1 DEF GiveUp, Leave
      <4>2. CASE pc' = "backoff" /\ UNCHANGED job
        BY <4>2
      <4>. QED  BY <3>1, <4>1, <4>2 DEF Rejected, Unanswered
    <3>. QED  BY <2>3, <3>1, <3>2
  <2>6. CASE Die
    <3>1. known' = known /\ job' = "none" /\ pc' = "dead"
      BY <2>6 DEF Die, Crash, store
    <3>2. CASE calls' = calls
      BY <3>1, <3>2
    <3>. QED  BY <2>3, <2>6, <3>1, <3>2 DEF Die
  <2>7. ASSUME NEW c \in calls, Execute(c) PROVE Registered'
    <3>1. c \in Calls /\ UNCHANGED <<agent, wipes>> /\ Effect(c)
      BY <1>0, <2>7 DEF Execute
    <3>2. known' /\ (known => known')
      BY <1>0, <3>1 DEF Effect, store, Calls, Jobs
    <3>3. \A d \in calls' : d \in calls \/ d.stage = "stored"
      BY <2>7, <3>1, <3>2 DEF Execute, Calls
    <3>. QED  BY <3>1, <3>2, <3>3 DEF agent
  <2>8. ASSUME NEW c \in calls, Lose(c) PROVE Registered'
    BY <2>8 DEF Lose, agent, store
  <2>9. CASE (\E k \in 2 .. MaxReports : Prune(k)) \/ UNCHANGED vars
    BY <2>9 DEF Prune, agent, vars, store
  <2>. HIDE DEF Registered
  <2>. QED  BY <2>2, <2>4, <2>5, <2>6, <2>7, <2>8, <2>9 DEF Next, Done
<1>3. CASE ~Wipe /\ wipes # 0
  BY <1>3 DEF Registered, Next, Step, Die, Done, Prune, Answer, Refuse, TimeOut, Execute, Lose, vars
<1>. QED  BY <1>1, <1>2, <1>3

\* However many registrations and reports of this process and of dead ones are executed
\* late, and in whatever order, no report is answered 404, and none makes the agent
\* register again, but after the controller lost its database.  (ingest_metrics,
\* heartbeat, send_once)
THEOREM NotFoundHasCauseHolds == Spec => []NotFoundHasCause
<1>1. Init => Registered
  BY DEF Init, AgentInit, Registered, Reports
<1>2. ASSUME Sound, Registered PROVE NotFoundHasCause
  <2>1. wipes \in Nat
    BY <1>2, DeliveryAssumption DEF Sound, Types
  <2>. QED  BY <1>2, <2>1 DEF Registered, NotFoundHasCause
<1>3. Sound /\ Registered => NotFoundHasCause
  BY <1>2
<1>. QED  BY SoundInit, SoundStep, <1>1, RegisteredStep, <1>3, PTL DEF Spec
=============================================================================
