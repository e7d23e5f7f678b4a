---------------------------- MODULE TimingProofs ----------------------------
(***************************************************************************)
(* How long a node can be silent and a sample can be late, for all         *)
(* settings of timeouts, delays and intervals.                             *)
(***************************************************************************)
EXTENDS Timing, ReportingProofs

-----------------------------------------------------------------------------
(* Delays.                                                                 *)

LEMMA Settings == RetryMax \in Nat /\ RetryBase \in Nat /\ Jitter \in 0 .. 100
BY EnvironmentAssumption DEF RetryMax, RetryBase, Jitter, AtLeast, AtMost

\* Whatever the environment says, a delay is no longer than its limit: the limit is
\* applied after the jitter.  (from_env, _retry_delay)
THEOREM DelaysAreLimited ==
  ASSUME NEW failed \in Nat \ {0}
  PROVE  RetryDelays(failed) \subseteq 0 .. RetryMax
<1>. DEFINE e == Exponential(failed)
<1>1. 2 ^ (failed - 1) \in Int
  OBVIOUS
<1>2. RetryBase * 2 ^ (failed - 1) \in Int
  BY <1>1, Settings
<1>3. e \in Int
  BY <1>2, Settings DEF Exponential, AtMost
<1>4. e * (100 + Jitter) \in Int
  BY <1>3, Settings
<1>5. Upper(e) \in Int /\ Upper(e) <= 100 * RetryMax
  BY <1>4, Settings DEF Upper, AtMost
<1>. HIDE DEF e
<1>6. \A d \in 0 .. 2 * RetryMax : 100 * d <= Upper(e) => d \in 0 .. RetryMax
  BY <1>5, Settings
<1>. QED  BY <1>6 DEF RetryDelays, e

\* And the limits of the jitter never cross: random.uniform is given an interval.
THEOREM LowerBeforeUpper ==
  ASSUME NEW e \in 0 .. RetryMax
  PROVE  0 <= Lower(e) /\ Lower(e) <= Upper(e)
<1>1. e * (100 - Jitter) \in Nat /\ e * (100 + Jitter) \in Nat
  BY Settings
<1>2. e * Jitter \in Nat
  BY Settings
<1>3. /\ e * (100 - Jitter) = 100 * e - e * Jitter
      /\ e * (100 + Jitter) = 100 * e + e * Jitter
  BY Settings
<1>. QED  BY <1>1, <1>2, <1>3, Settings DEF Lower, Upper, AtLeast, AtMost

LEMMA LateGrows ==
  /\ Late(0) = 0
  /\ \A n \in Nat : /\ Late(n) \in Nat
                    /\ Late(n + 1) = Late(n) + HttpTimeout + RetryMax
<1>1. HttpTimeout + RetryMax \in Nat
  BY Settings, TimingAssumption
<1>2. \A n, k \in Nat : n * k \in Nat /\ (n + 1) * k = n * k + k /\ 0 * k = 0
  OBVIOUS
<1>. QED  BY <1>1, <1>2, Settings, TimingAssumption DEF Late

LEMMA LateIsMonotonic ==
  ASSUME NEW m \in Nat, NEW n \in Nat, m <= n
  PROVE  Late(m) <= Late(n)
<1>. DEFINE k == HttpTimeout + RetryMax
<1>1. k \in Nat
  BY Settings, TimingAssumption
<1>. HIDE DEF k
<1>2. n * k = m * k + (n - m) * k
  BY <1>1
<1>3. (n - m) * k \in Nat /\ m * k \in Nat
  BY <1>1
<1>4. m * k <= n * k
  <2>1. \A x, y \in Nat : x <= x + y
    OBVIOUS
  <2>. QED  BY <1>2, <1>3, <2>1
<1>. QED  BY <1>4 DEF Late, k

-----------------------------------------------------------------------------
(* Where the agent goes: what the actions of Reporting do to its stage.    *)

\* A call is out for a job, and its attempt is counted from one.
LEMMA Delivering ==
  ASSUME TypeOK, pc \in {"call", "backoff"}
  PROVE  /\ job \in {"metric", "heartbeat", "boot", "again"}
         /\ attempt \in 1 .. MaxAttempts
BY AgentAssumption DEF TypeOK, AgentTypeOK, Jobs, Reports, Registrations

LEMMA StepMoves ==
  ASSUME TypeOK, Step
  PROVE  \/ pc = "boot" /\ pc' = "call" /\ job' = "boot" /\ attempt' = 1
         \/ pc = "backoff" /\ pc' = "call" /\ job' = job /\ attempt' = attempt + 1
         \/ pc = "sleep" /\ pc' = "collect"
         \/ pc \in {"pause", "dead"} /\ pc' = "boot" /\ job' = "none"
         \/ pc = "collect" /\ pc' = "call" /\ job' \in Reports /\ attempt' = 1
BY DEF Step, Boot, Retry, Wake, Start, Collect, Deliver, Leave

LEMMA AnswerMoves ==
  ASSUME TypeOK, Answer
  PROVE  /\ pc = "call"
         /\ \/ job = "boot" /\ pc' = "collect" /\ job' = "none"
            \/ job # "boot" /\ pc' = "sleep" /\ job' = "none"
            \/ job \in Reports /\ pc' = "call" /\ job' = "again" /\ attempt' = 1
BY DEF Answer, Accepted, NotFound, Deliver, Leave

LEMMA FailMoves ==
  ASSUME TypeOK, Fail
  PROVE  /\ pc = "call"
         /\ \/ /\ pc' = "backoff" /\ job' = job
               /\ attempt' = attempt /\ attempt < MaxAttempts
            \/ job = "boot" /\ pc' = "pause" /\ job' = "none"
            \/ job # "boot" /\ pc' = "sleep" /\ job' = "none"
<1>1. attempt = MaxAttempts => pc = "call"
  BY AgentAssumption DEF TypeOK, AgentTypeOK
<1>. QED  BY <1>1 DEF Fail, Rejected, Unanswered, GiveUp, Leave

LEMMA DieMoves == Die => pc' = "dead" /\ job' = "none"
BY DEF Die, Crash

-----------------------------------------------------------------------------
(* The detailed agent implements the untimed one.                          *)

LEMMA TimedStepIsStep == [TimedNext]_timed => [Next]_vars
BY DEF TimedNext, TimedStep, TimedAnswer, TimedFail, TimedWipe, TimedDie, Tick,
       Next, timed, vars

\* With timeouts, delays and sleeps the agent does nothing module Reporting does
\* not allow: what is proved there holds here.  (serve, _deliver)
THEOREM TimedImplementsUntimed == TimedSpec => Spec
<1>1. TimedInit => Init
  BY DEF TimedInit
<1>. QED  BY <1>1, TimedStepIsStep, PTL DEF TimedSpec, Spec

\* The attempts of a delivery stay within their limit whatever the time between
\* them.  (_deliver)
THEOREM UntimedTypes == TimedSpec => []TypeOK
BY TimedImplementsUntimed, TypeCorrect, PTL

\* A second registration has its cause with time, too.  (serve, send_once)
THEOREM UntimedCause == TimedSpec => []SecondRegistrationHasCause
BY TimedImplementsUntimed, SecondRegistrationHasCauseHolds, PTL

-----------------------------------------------------------------------------
(* What is left of each stage.                                             *)

Timed ==
  /\ timer \in Nat
  /\ elapsed \in Nat
  /\ pc = "call"    => timer <= HttpTimeout
  /\ pc = "backoff" => timer <= RetryMax
  /\ pc = "collect" => timer <= Collection
  /\ pc = "call" /\ job # "boot" => Spent <= elapsed

LEMMA Constants ==
  /\ Interval \in Nat /\ Breath \in Nat /\ Pause \in Nat /\ HttpTimeout \in Nat
  /\ Collection \in Nat /\ SilenceCap \in Nat
  /\ Latency \in Nat /\ Latency <= HttpTimeout /\ HttpTimeout <= SilenceCap
BY TimingAssumption

\* How each stage begins.
LEMMA Beginning ==
  ASSUME TypeOK, Timed, Begin, pc' # "backoff" \/ pc = "call"
  PROVE  /\ timer' \in Nat
         /\ elapsed' = IF pc' \in {"call", "backoff"} THEN elapsed ELSE 0
         /\ pc' = "collect" => timer' = Collection
         /\ pc' = "call"    => timer' = HttpTimeout
         /\ pc' = "backoff" => timer' <= RetryMax
         /\ pc' = "sleep"   => timer' = Nap
<1>. USE Constants DEF Begin, Stages
<1>1. elapsed' = IF pc' \in {"call", "backoff"} THEN elapsed ELSE 0
  OBVIOUS
<1>2. CASE pc' = "collect"
  BY <1>1, <1>2
<1>3. CASE pc' = "call"
  BY <1>1, <1>3
<1>4. CASE pc' = "backoff"
  <2>1. attempt \in Nat \ {0}
    BY <1>4, Delivering, AgentAssumption
  <2>2. timer' \in 0 .. RetryMax
    BY <1>4, <2>1, DelaysAreLimited
  <2>. QED  BY <1>1, <1>4, <2>2, Settings
<1>5. CASE pc' = "sleep"
  <2>1. Nap \in Nat
    BY DEF Nap, AtLeast, Timed
  <2>. QED  BY <1>1, <1>5, <2>1
<1>6. CASE pc' = "pause"
  BY <1>1, <1>6
<1>7. CASE pc' \notin {"collect", "call", "backoff", "sleep", "pause"}
  <2>1. timer' = 0
    BY <1>7
  <2>. QED  BY <1>1, <1>7, <2>1
<1>. QED  BY <1>2, <1>3, <1>4, <1>5, <1>6, <1>7

LEMMA TimedStage == TypeOK /\ Timed /\ [TimedNext]_timed => Timed'
<1>. SUFFICES ASSUME TypeOK, Timed, [TimedNext]_timed PROVE Timed'
  OBVIOUS
<1>. USE Constants
<1>1. ASSUME Begin, pc' # "backoff" \/ pc = "call",
             pc' \in {"call", "backoff"} => elapsed' >= 0
      PROVE  Timed'
  <2>1. elapsed' \in Nat
    BY <1>1, Beginning DEF Timed
  <2>2. pc' = "call" => HttpTimeout - timer' = 0
    BY <1>1, Beginning
  <2>. QED  BY <1>1, <2>1, <2>2, Beginning, Settings DEF Timed, Spent
<1>2. ASSUME Begin PROVE elapsed' >= 0
  BY <1>2 DEF Begin, Timed
<1>3. CASE TimedStep
  BY <1>1, <1>2, <1>3, StepMoves DEF TimedStep
<1>4. CASE TimedAnswer
  BY <1>1, <1>2, <1>4, AnswerMoves DEF TimedAnswer
<1>5. CASE TimedFail
  BY <1>1, <1>2, <1>5, FailMoves DEF TimedFail
<1>6. CASE TimedDie
  BY <1>1, <1>2, <1>6, DieMoves DEF TimedDie
<1>7. CASE TimedWipe \/ UNCHANGED timed
  <2>1. UNCHANGED <<pc, job, timer, elapsed>>
    BY <1>7 DEF TimedWipe, Wipe, timed, vars, agent
  <2>. QED  BY <2>1 DEF Timed, Spent
<1>8. CASE Tick
  <2>1. UNCHANGED <<pc, job>>
    BY <1>8 DEF Tick, vars, agent
  <2>2. timer' \in Nat /\ elapsed' \in Nat
    BY <1>8 DEF Tick, Timed
  <2>3. pc # "dead" => timer' = timer - 1
    BY <1>8 DEF Tick
  <2>4. pc = "call" /\ job # "boot" => elapsed' = elapsed + 1
    BY <1>8 DEF Tick, InLoop
  <2>5. pc = "call" => HttpTimeout - timer' = HttpTimeout - timer + 1
    BY <2>3 DEF Timed
  <2>6. pc # "dead" => timer' <= timer
    BY <2>3 DEF Timed
  <2>7. /\ pc = "call"    => timer' <= HttpTimeout
        /\ pc = "backoff" => timer' <= RetryMax
        /\ pc = "collect" => timer' <= Collection
    BY <2>2, <2>6, Settings DEF Timed
  <2>8. pc = "call" /\ job # "boot" => HttpTimeout - timer' <= elapsed'
    BY <2>4, <2>5 DEF Timed, Spent
  <2>. QED  BY <2>1, <2>2, <2>7, <2>8 DEF Timed, Spent
<1>. QED  BY <1>3, <1>4, <1>5, <1>6, <1>7, <1>8 DEF TimedNext

-----------------------------------------------------------------------------
(* How long the loop body takes.                                           *)

\* The last attempt of a delivery has no delay after it.
Delivery == Late(MaxAttempts - 1) + HttpTimeout

\* What the loop body may have taken before the delivery under way.
Before == IF job = "again" THEN Collection + Delivery ELSE Collection

Loop ==
  /\ pc = "collect" => elapsed + timer <= Collection
  /\ pc = "call" /\ job # "boot" => elapsed <= Before + Late(attempt - 1) + Spent
  /\ pc = "backoff" /\ job # "boot" => elapsed + timer <= Before + Late(attempt)
  /\ job = "boot" \/ pc \notin {"collect", "call", "backoff"} => elapsed = 0

LEMMA DeliveryType == Delivery \in Nat
BY LateGrows, Constants, AgentAssumption DEF Delivery

\* The times of an attempt, with the numbers they are.
LEMMA Attempts ==
  ASSUME TypeOK, pc \in {"call", "backoff"}
  PROVE  /\ Late(attempt - 1) \in Nat
         /\ Late(attempt) = Late(attempt - 1) + HttpTimeout + RetryMax
         /\ attempt \in Nat \ {0}
         /\ Late(attempt - 1) <= Late(MaxAttempts - 1)
<1>1. attempt \in 1 .. MaxAttempts
  BY Delivering
<1>2. attempt - 1 \in Nat /\ MaxAttempts - 1 \in Nat /\ attempt - 1 <= MaxAttempts - 1
  BY <1>1, AgentAssumption
<1>3. Late((attempt - 1) + 1) = Late(attempt - 1) + HttpTimeout + RetryMax
  BY <1>2, LateGrows
<1>4. (attempt - 1) + 1 = attempt
  BY <1>1, AgentAssumption
<1>. QED  BY <1>1, <1>2, <1>3, <1>4, LateGrows, LateIsMonotonic, AgentAssumption

LEMMA LoopStep == TypeOK /\ Timed /\ Loop /\ [TimedNext]_timed => Loop'
<1>. SUFFICES ASSUME TypeOK, Timed, Loop, [TimedNext]_timed PROVE Loop'
  OBVIOUS
<1>. USE Constants, Settings, DeliveryType
\* a stage outside the loop body begins
<1>1. ASSUME Begin, pc' \notin {"call", "backoff", "collect"}, job' # "boot"
      PROVE  Loop'
  BY <1>1 DEF Begin, Loop
\* a collection begins
<1>2. ASSUME Begin, pc' = "collect", job' # "boot" PROVE Loop'
  <2>1. timer' = Collection /\ elapsed' = 0
    BY <1>2, Beginning
  <2>. QED  BY <1>2, <2>1 DEF Loop
\* the first attempt of a delivery begins
<1>3. ASSUME Begin, pc' = "call", attempt' = 1,
             job' # "boot" => elapsed <= Before',
             job' = "boot" => elapsed = 0
      PROVE  Loop'
  <2>1. timer' = HttpTimeout /\ elapsed' = elapsed
    BY <1>3, Beginning
  <2>2. attempt' - 1 = 0 /\ HttpTimeout - timer' = 0
    BY <1>3, <2>1
  <2>3. Before' \in Nat
    BY DEF Before
  <2>4. job' # "boot" => elapsed' <= Before' + Late(attempt' - 1) + (HttpTimeout - timer')
    BY <1>3, <2>1, <2>2, <2>3, LateGrows DEF Timed
  <2>. QED  BY <1>3, <2>1, <2>4 DEF Loop, Spent
<1>4. CASE TimedStep
  <2>1. CASE pc = "boot" /\ pc' = "call" /\ job' = "boot" /\ attempt' = 1
    <3>1. elapsed = 0
      BY <2>1 DEF Loop
    <3>. QED  BY <1>3, <1>4, <2>1, <3>1 DEF TimedStep
  <2>2. CASE pc = "backoff" /\ pc' = "call" /\ job' = job /\ attempt' = attempt + 1
    <3>1. timer = 0 /\ Begin
      BY <1>4, <2>2 DEF TimedStep, Asleep, Timed
    <3>2. timer' = HttpTimeout /\ elapsed' = elapsed
      BY <2>2, <3>1, Beginning
    <3>3. (attempt + 1) - 1 = attempt /\ Late(attempt) \in Nat
      BY <2>2, Attempts
    <3>4. Before' = Before /\ Before \in Nat
      BY <2>2 DEF Before
    <3>5. job # "boot" => elapsed <= Before + Late(attempt)
      BY <2>2, <3>1, <3>3, <3>4 DEF Loop, Timed
    <3>6. job' # "boot" => elapsed' <= Before' + Late(attempt' - 1) + (HttpTimeout - timer')
      BY <2>2, <3>2, <3>3, <3>4, <3>5 DEF Timed
    <3>. QED  BY <2>2, <3>2, <3>6 DEF Loop, Spent
  <2>3. CASE pc = "sleep" /\ pc' = "collect"
    <3>1. job' # "boot"
      BY <1>4, <2>3 DEF TimedStep, Step, Boot, Retry, Wake, Start, Collect, Deliver, Leave
    <3>. QED  BY <1>2, <1>4, <2>3, <3>1 DEF TimedStep
  <2>4. CASE pc \in {"pause", "dead"} /\ pc' = "boot" /\ job' = "none"
    BY <1>1, <1>4, <2>4 DEF TimedStep
  <2>5. CASE pc = "collect" /\ pc' = "call" /\ job' \in Reports /\ attempt' = 1
    <3>1. job' \notin {"boot", "again"}
      BY <2>5 DEF Reports
    <3>2. elapsed <= Collection
      BY <2>5 DEF Loop, Timed
    <3>. QED  BY <1>3, <1>4, <2>5, <3>1, <3>2 DEF TimedStep, Before
  <2>. QED  BY <1>4, <2>1, <2>2, <2>3, <2>4, <2>5, StepMoves DEF TimedStep
<1>5. CASE TimedAnswer
  <2>1. CASE job \in Reports /\ pc' = "call" /\ job' = "again" /\ attempt' = 1
    <3>1. pc = "call" /\ job # "boot" /\ job # "again"
      BY <1>5, <2>1, AnswerMoves DEF TimedAnswer, Reports
    <3>2. elapsed <= Collection + Late(attempt - 1) + (HttpTimeout - timer)
      BY <3>1 DEF Loop, Before, Spent
    <3>3. elapsed <= Collection + Delivery
      BY <3>1, <3>2, Attempts, LateGrows, AgentAssumption DEF Delivery, Timed
    <3>. QED  BY <1>3, <1>5, <2>1, <3>3 DEF TimedAnswer, Before
  <2>. QED  BY <1>1, <1>2, <1>5, <2>1, AnswerMoves DEF TimedAnswer
<1>6. CASE TimedFail
  <2>1. CASE pc' = "backoff" /\ job' = job /\ attempt' = attempt
    <3>1. pc = "call" /\ Begin
      BY <1>6, FailMoves DEF TimedFail
    <3>2. timer' \in Nat /\ timer' <= RetryMax /\ elapsed' = elapsed
      BY <2>1, <3>1, Beginning
    <3>3. Before' = Before /\ Before \in Nat
      BY <2>1 DEF Before
    <3>4. job # "boot" => elapsed <= Before + Late(attempt - 1) + (HttpTimeout - timer)
      BY <3>1 DEF Loop, Spent
    <3>5. job # "boot" => elapsed + timer' <= Before + Late(attempt)
      BY <3>1, <3>2, <3>3, <3>4, Attempts DEF Timed
    <3>6. job = "boot" => elapsed = 0
      BY DEF Loop
    <3>. QED  BY <2>1, <3>2, <3>3, <3>5, <3>6 DEF Loop
  <2>. QED  BY <1>1, <1>6, <2>1, FailMoves DEF TimedFail
<1>7. CASE TimedDie
  BY <1>1, <1>7, DieMoves DEF TimedDie
<1>8. CASE TimedWipe \/ UNCHANGED timed
  <2>1. UNCHANGED <<pc, job, attempt, timer, elapsed>>
    BY <1>8 DEF TimedWipe, Wipe, timed, vars, agent
  <2>. QED  BY <2>1 DEF Loop, Spent, Before
<1>9. CASE Tick
  <2>1. UNCHANGED <<pc, job, attempt>>
    BY <1>9 DEF Tick, vars, agent
  <2>2. pc # "dead" => timer' = timer - 1
    BY <1>9 DEF Tick
  <2>3. elapsed' = IF InLoop THEN elapsed + 1 ELSE elapsed
    BY <1>9 DEF Tick
  <2>4. CASE pc = "collect"
    <3>1. elapsed' + timer' = elapsed + timer
      BY <2>2, <2>3, <2>4 DEF InLoop, Timed
    <3>2. job # "boot"
      BY <2>4 DEF TypeOK, AgentTypeOK, Jobs, Registrations
    <3>. QED  BY <2>1, <2>4, <3>1, <3>2 DEF Loop
  <2>5. CASE pc = "call" /\ job # "boot"
    <3>1. elapsed' = elapsed + 1 /\ HttpTimeout - timer' = (HttpTimeout - timer) + 1
      BY <2>2, <2>3, <2>5 DEF InLoop, Timed
    <3>2. Before' = Before /\ Before \in Nat
      BY <2>1 DEF Before
    <3>3. elapsed <= Before + Late(attempt - 1) + (HttpTimeout - timer)
      BY <2>5 DEF Loop, Spent
    <3>4. elapsed' <= Before' + Late(attempt - 1) + (HttpTimeout - timer')
      BY <2>5, <3>1, <3>2, <3>3, Attempts DEF Timed
    <3>. QED  BY <2>1, <2>5, <3>4 DEF Loop, Spent
  <2>6. CASE pc = "backoff" /\ job # "boot"
    <3>1. elapsed' + timer' = elapsed + timer
      BY <2>2, <2>3, <2>6 DEF InLoop, Timed
    <3>2. Before' = Before
      BY <2>1 DEF Before
    <3>. QED  BY <2>1, <2>6, <3>1, <3>2 DEF Loop
  <2>7. CASE job = "boot" \/ pc \notin {"collect", "call", "backoff"}
    <3>1. job = "boot" => pc # "collect"
      BY DEF TypeOK, AgentTypeOK, Jobs, Registrations
    <3>2. elapsed' = elapsed
      BY <2>3, <2>7, <3>1 DEF InLoop
    <3>. QED  BY <2>1, <2>7, <3>1, <3>2 DEF Loop
  <2>. QED  BY <2>4, <2>5, <2>6, <2>7
<1>. QED  BY <1>4, <1>5, <1>6, <1>7, <1>8, <1>9 DEF TimedNext

LEMMA TimedInitially == TimedInit => TypeOK /\ Timed /\ Loop
<1>. SUFFICES ASSUME TimedInit PROVE TypeOK /\ Timed /\ Loop
  OBVIOUS
<1>1. pc = "boot" /\ job = "none" /\ timer = 0 /\ elapsed = 0
  BY DEF TimedInit, Init, AgentInit
<1>. QED  BY <1>1, TypeInit DEF TimedInit, Timed, Loop

\* The loop comes back to a fresh sample: whatever fails, its body ends within the
\* collection and two deliveries, of a report and of the registration that
\* answers its 404.  (serve, send_once, _deliver)
THEOREM LoopBoundedHolds == TimedSpec => []LoopBounded
<1>. USE Constants, Settings, DeliveryType
<1>1. TypeOK /\ Timed /\ Loop => LoopBounded
  <2>. SUFFICES ASSUME TypeOK, Timed, Loop PROVE elapsed <= Collection + 2 * Delivery
    BY DEF LoopBounded, Delivery
  <2>1. CASE pc = "collect"
    BY <2>1 DEF Loop, Timed
  <2>2. CASE pc \in {"call", "backoff"} /\ job # "boot"
    <3>1. Before \in Nat /\ Before <= Collection + Delivery
      BY DEF Before
    <3>2. CASE pc = "call"
      <4>1. elapsed <= Before + Late(attempt - 1) + (HttpTimeout - timer)
        BY <2>2, <3>2 DEF Loop, Spent
      <4>. QED  BY <3>1, <3>2, <4>1, Attempts, LateGrows, AgentAssumption DEF Delivery, Timed
    <3>3. CASE pc = "backoff"
      <4>1. elapsed + timer <= Before + Late(attempt)
        BY <2>2, <3>3 DEF Loop
      <4>2. attempt \in Nat /\ MaxAttempts - 1 \in Nat /\ attempt <= MaxAttempts - 1
        BY <3>3, Attempts, AgentAssumption DEF TypeOK, AgentTypeOK
      <4>3. Late(attempt) \in Nat /\ Late(attempt) <= Late(MaxAttempts - 1)
        BY <4>2, LateGrows, LateIsMonotonic
      <4>. QED  BY <3>1, <4>1, <4>3, <4>2, LateGrows DEF Delivery, Timed
    <3>. QED  BY <2>2, <3>2, <3>3
  <2>3. CASE job = "boot" \/ pc \notin {"collect", "call", "backoff"}
    BY <2>3 DEF Loop
  <2>. QED  BY <2>1, <2>2, <2>3
<1>2. TypeOK /\ [TimedNext]_timed => TypeOK'
  BY TypeStep, TimedStepIsStep
<1>. QED  BY <1>1, <1>2, TimedInitially, TimedStage, LoopStep, PTL DEF TimedSpec
-----------------------------------------------------------------------------
(* How long a node is silent.                                              *)

Ages == silence \in 0 .. SilenceCap /\ calm \in BOOLEAN

\* From a write, early in its call, to the end of the sleep after it.
Interlude == AtLeast(Latency + Breath, Interval)

Silence ==
  /\ calm => pc \in {"collect", "call", "backoff", "sleep"}
  /\ calm /\ pc = "sleep"   => silence + timer <= Interlude
  /\ calm /\ pc = "collect" => silence + timer <= Quiet
  /\ calm /\ pc = "call"    => silence <= Quiet + Late(attempt - 1) + Spent
  /\ calm /\ pc = "backoff" => silence + timer <= Quiet + Late(attempt)

LEMMA QuietType ==
  /\ Interlude \in Nat /\ Quiet \in Nat
  /\ Quiet = Interlude + Collection
  /\ Latency + Breath <= Interlude /\ Interval <= Interlude
BY Constants DEF Interlude, Quiet, AtLeast

\* A call that was executed wrote the row within the time it took.
LEMMA AgesStep == TypeOK /\ Timed /\ Ages /\ [TimedNext]_timed => Ages'
<1>. SUFFICES ASSUME TypeOK, Timed, Ages, [TimedNext]_timed PROVE Ages'
  OBVIOUS
<1>. USE Constants
<1>1. calm' \in BOOLEAN
  BY DEF Ages, TimedNext, TimedStep, TimedAnswer, TimedFail, TimedWipe, TimedDie, Tick, timed
<1>2. CASE TimedStep \/ TimedWipe \/ TimedDie \/ UNCHANGED timed
  BY <1>1, <1>2 DEF Ages, TimedStep, TimedWipe, TimedDie, timed
<1>3. CASE TimedAnswer \/ TimedFail
  <2>1. pc = "call"
    BY <1>3, AnswerMoves, FailMoves DEF TimedAnswer, TimedFail
  <2>2. Spent \in 0 .. SilenceCap
    BY <2>1 DEF Spent, Timed
  <2>3. silence' = silence \/ silence' \in 0 .. Spent
    BY <1>3 DEF TimedAnswer, TimedFail
  <2>. QED  BY <1>1, <2>2, <2>3 DEF Ages
<1>4. CASE Tick
  <2>1. silence' = AtMost(SilenceCap, silence + 1)
    BY <1>4 DEF Tick
  <2>. QED  BY <1>1, <2>1 DEF Ages, AtMost
<1>. QED  BY <1>2, <1>3, <1>4 DEF TimedNext

\* Time that is counted up on one side and down on the other.
LEMMA Countdown ==
  ASSUME NEW s \in Nat, NEW t \in Nat, NEW ss \in Nat, NEW b \in Nat,
         ss <= s + 1, s + t <= b
  PROVE  ss + (t - 1) <= b
OBVIOUS

LEMMA SilenceStep == TypeOK /\ Timed /\ Ages /\ Silence /\ [TimedNext]_timed => Silence'
<1>. SUFFICES ASSUME TypeOK, Timed, Ages, Silence, [TimedNext]_timed PROVE Silence'
  OBVIOUS
<1>. USE Constants, Settings, QuietType
<1>1. ASSUME ~calm' PROVE Silence'
  BY <1>1 DEF Silence
\* the sleep or the delay before the stage is over
<1>2. CASE TimedStep
  <2>. SUFFICES ASSUME calm PROVE Silence'
    BY <1>1, <1>2 DEF TimedStep
  <2>1. silence' = silence /\ silence \in Nat /\ Begin /\ Step
    BY <1>2 DEF TimedStep, Ages
  <2>2. CASE pc = "backoff" /\ pc' = "call" /\ attempt' = attempt + 1
    <3>1. timer = 0
      BY <1>2, <2>2 DEF TimedStep, Asleep, Timed
    <3>2. timer' = HttpTimeout
      BY <2>1, <2>2, Beginning
    <3>3. (attempt + 1) - 1 = attempt /\ Late(attempt) \in Nat
      BY <2>2, Attempts
    <3>4. silence + timer <= Quiet + Late(attempt)
      BY <2>2 DEF Silence
    <3>5. silence' <= Quiet + Late(attempt' - 1) + (HttpTimeout - timer')
      BY <2>1, <2>2, <3>1, <3>2, <3>3, <3>4
    <3>. QED  BY <2>2, <3>5 DEF Silence, Spent
  <2>3. CASE pc = "sleep" /\ pc' = "collect"
    <3>1. timer = 0
      BY <1>2, <2>3 DEF TimedStep, Asleep, Timed
    <3>2. timer' = Collection
      BY <2>1, <2>3, Beginning
    <3>3. silence + timer <= Interlude
      BY <2>3 DEF Silence
    <3>4. silence' + timer' <= Quiet
      BY <2>1, <3>1, <3>2, <3>3
    <3>. QED  BY <2>3, <3>4 DEF Silence
  <2>4. CASE pc = "collect" /\ pc' = "call" /\ attempt' = 1
    <3>1. timer' = HttpTimeout
      BY <2>1, <2>4, Beginning
    <3>2. silence + timer <= Quiet
      BY <2>4 DEF Silence
    <3>3. silence' <= Quiet + Late(attempt' - 1) + (HttpTimeout - timer')
      <4>1. attempt' - 1 = 0
        BY <2>4
      <4>. QED  BY <2>1, <3>1, <3>2, <4>1, LateGrows DEF Timed
    <3>. QED  BY <2>4, <3>3 DEF Silence, Spent
  <2>. QED  BY <2>1, <2>2, <2>3, <2>4, StepMoves DEF Silence
\* a delivery was answered: the row was written during this call
<1>3. CASE TimedAnswer
  <2>. SUFFICES ASSUME pc' # "call" PROVE Silence'
    BY <1>1, <1>3 DEF TimedAnswer
  <2>1. pc = "call" /\ Begin /\ Spent <= Latency /\ silence' \in 0 .. Spent
    BY <1>3, AnswerMoves DEF TimedAnswer
  <2>2. Spent \in Nat
    BY <2>1 DEF Spent, Timed
  <2>3. CASE pc' = "collect"
    <3>1. timer' = Collection
      BY <2>1, <2>3, Beginning
    <3>2. silence' \in Nat /\ silence' <= Latency
      BY <2>1, <2>2
    <3>3. silence' <= Interlude
      BY <3>2
    <3>4. silence' + Collection <= Interlude + Collection
      <4>1. \A a, b, c \in Nat : a <= b => a + c <= b + c
        OBVIOUS
      <4>. QED  BY <3>2, <3>3, <4>1
    <3>5. silence' + timer' <= Quiet
      BY <3>1, <3>4
    <3>. QED  BY <2>3, <3>5 DEF Silence
  <2>4. CASE pc' = "sleep" /\ job # "boot"
    <3>1. timer' = Nap
      BY <2>1, <2>4, Beginning
    <3>2. Spent <= elapsed /\ elapsed \in Nat
      BY <2>1, <2>4 DEF Timed
    <3>3. silence' \in Nat /\ silence' <= Latency /\ silence' <= elapsed
      BY <2>1, <2>2, <3>2
    <3>4. Nap = Breath \/ Nap = Interval - elapsed
      BY DEF Nap, AtLeast
    <3>5. silence' + Nap <= Interlude
      BY <3>2, <3>3, <3>4
    <3>. QED  BY <2>4, <3>1, <3>5 DEF Silence
  <2>. QED  BY <1>3, <2>3, <2>4, AnswerMoves DEF TimedAnswer
\* a delivery was not: the next attempt may be the one that arrives
<1>4. CASE TimedFail
  <2>. SUFFICES ASSUME calm, pc' = "backoff" PROVE Silence'
    BY <1>1, <1>4 DEF TimedFail
  <2>1. pc = "call" /\ Begin /\ attempt' = attempt
    BY <1>4, FailMoves DEF TimedFail
  <2>2. timer' \in Nat /\ timer' <= RetryMax
    BY <2>1, Beginning
  <2>3. Spent \in Nat /\ Spent <= HttpTimeout
    BY <2>1 DEF Spent, Timed
  <2>4. silence' = silence \/ silence' \in 0 .. Spent
    BY <1>4 DEF TimedFail
  <2>5. silence <= Quiet + Late(attempt - 1) + Spent /\ silence \in Nat
    BY <2>1 DEF Silence, Ages
  <2>6. silence' \in Nat /\ silence' <= Quiet + Late(attempt - 1) + Spent
    BY <2>1, <2>3, <2>4, <2>5, Attempts
  <2>7. silence' + timer' <= Quiet + Late(attempt)
    BY <2>1, <2>2, <2>3, <2>6, Attempts
  <2>. QED  BY <2>1, <2>7 DEF Silence
<1>5. CASE TimedDie \/ TimedWipe
  BY <1>1, <1>5 DEF TimedDie, TimedWipe
<1>6. CASE UNCHANGED timed
  <2>1. UNCHANGED <<pc, attempt, timer, silence, calm>>
    BY <1>6 DEF timed, vars, agent
  <2>. QED  BY <2>1 DEF Silence, Spent
<1>7. CASE Tick
  <2>1. UNCHANGED <<pc, attempt, calm>>
    BY <1>7 DEF Tick, vars, agent
  <2>. SUFFICES ASSUME calm PROVE Silence'
    BY <1>1, <2>1
  <2>2. pc \in {"collect", "call", "backoff", "sleep"}
    BY DEF Silence
  <2>3. timer' = timer - 1 /\ timer \in Nat
    BY <1>7, <2>2 DEF Tick, Timed
  <2>4. silence' <= silence + 1 /\ silence' \in Nat /\ silence \in Nat
    BY <1>7 DEF Tick, AtMost, Ages
  <2>5. ASSUME NEW b \in Nat, silence + timer <= b
        PROVE  silence' + timer' <= b
    BY <2>3, <2>4, <2>5, Countdown
  <2>6. CASE pc = "sleep"
    <3>1. silence + timer <= Interlude
      BY <2>6 DEF Silence
    <3>2. silence' + timer' <= Interlude
      BY <2>5, <3>1
    <3>. QED  BY <2>1, <2>6, <3>2 DEF Silence
  <2>7. CASE pc = "collect"
    <3>1. silence + timer <= Quiet
      BY <2>7 DEF Silence
    <3>2. silence' + timer' <= Quiet
      BY <2>5, <3>1
    <3>. QED  BY <2>1, <2>7, <3>2 DEF Silence
  <2>8. CASE pc = "call"
    <3>1. silence <= Quiet + Late(attempt - 1) + (HttpTimeout - timer)
      BY <2>8 DEF Silence, Spent
    <3>2. silence' <= Quiet + Late(attempt - 1) + (HttpTimeout - timer')
      BY <2>3, <2>4, <2>8, <3>1, Attempts
    <3>. QED  BY <2>1, <2>8, <3>2 DEF Silence, Spent
  <2>9. CASE pc = "backoff"
    <3>1. silence' + timer' <= Quiet + Late(attempt)
      <4>1. silence + timer <= Quiet + Late(attempt)
        BY <2>9 DEF Silence
      <4>2. Quiet + Late(attempt) \in Nat
        BY <2>9, Attempts
      <4>. QED  BY <2>5, <4>1, <4>2
    <3>. QED  BY <2>1, <2>9, <3>1 DEF Silence
  <2>. QED  BY <2>2, <2>6, <2>7, <2>8, <2>9
<1>. QED  BY <1>2, <1>3, <1>4, <1>5, <1>6, <1>7 DEF TimedNext

Beat == TypeOK /\ Timed /\ Ages /\ Silence

LEMMA BeatHolds == TimedSpec => []Beat
<1>1. TimedInit => Beat
  <2>. SUFFICES ASSUME TimedInit PROVE Beat
    OBVIOUS
  <2>1. silence = 0 /\ calm = FALSE
    BY DEF TimedInit
  <2>2. silence \in 0 .. SilenceCap
    BY <2>1, Constants
  <2>3. Ages
    BY <2>1, <2>2 DEF Ages
  <2>4. Silence
    BY <2>1 DEF Silence
  <2>. QED  BY <2>3, <2>4, TimedInitially DEF Beat
<1>2. TypeOK /\ [TimedNext]_timed => TypeOK'
  BY TypeStep, TimedStepIsStep
<1>3. Beat /\ [TimedNext]_timed => Beat'
  BY <1>2, TimedStage, AgesStep, SilenceStep DEF Beat
<1>. QED  BY <1>1, <1>3, PTL DEF TimedSpec

\* A call never outlasts its timeout, whatever delays precede it.  (_deliver)
THEOREM TimedTypeCorrect == TimedSpec => []TimedTypeOK
<1>1. Beat => TimedTypeOK
  BY DEF Beat, TimedTypeOK, Timed, Ages
<1>. QED  BY <1>1, BeatHolds, PTL

\* A node whose last delivery was answered is heard of again within one interval,
\* its collection and what its failed attempts took: the bound an offline
\* timeout has to be above.  (serve, _deliver, _retry_delay)
THEOREM SilenceBoundedHolds == TimedSpec => []SilenceBounded
<1>1. Beat => SilenceBounded
  <2>. SUFFICES ASSUME Beat, calm PROVE SilenceBounded
    BY DEF SilenceBounded
  <2>. USE DEF Beat
  <2>. USE Constants, Settings, QuietType
  <2>1. CASE pc = "call"
    <3>1. silence <= Quiet + Late(attempt - 1) + Spent
      BY <2>1 DEF Silence
    <3>2. Late(attempt - 1) \in Nat /\ Spent \in Nat
      BY <2>1, Attempts DEF Spent, Timed
    <3>3. silence <= Quiet + (Late(attempt - 1) + Spent)
      BY <3>1, <3>2 DEF Ages
    <3>. QED  BY <2>1, <3>3 DEF SilenceBounded
  <2>2. CASE pc = "backoff"
    <3>1. silence + timer <= Quiet + Late(attempt)
      BY <2>2 DEF Silence
    <3>2. silence <= Quiet + (Late(attempt) - timer)
      BY <2>2, <3>1, Attempts DEF Ages, Timed
    <3>. QED  BY <2>2, <3>2 DEF SilenceBounded
  <2>3. CASE pc \in {"collect", "sleep"}
    <3>1. silence <= Quiet + 0
      BY <2>3 DEF Silence, Ages, Timed
    <3>. QED  BY <2>3, <3>1 DEF SilenceBounded
  <2>. QED  BY <2>1, <2>2, <2>3 DEF Silence
<1>. QED  BY <1>1, BeatHolds, PTL
=============================================================================
