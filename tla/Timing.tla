------------------------------- MODULE Timing -------------------------------
(***************************************************************************)
(* Module Reporting with time: how long the collection, the requests, the  *)
(* delays between attempts and the sleeps of serve last, and how old the   *)
(* controller's last_seen becomes.  The sleeps end when their time is      *)
(* over; a collection and a call end at some moment before theirs is.      *)
(***************************************************************************)
EXTENDS Reporting, RetryPolicy

CONSTANTS
  Interval,     \* sample_interval_seconds, as long as it is not negative
  Breath,       \* the 0.1 seconds serve sleeps at least
  Pause,        \* the three seconds between two boot registrations
  HttpTimeout,  \* the longest call: httpx.Timeout gives ten seconds to each phase
  Latency,      \* an answer that arrives at all arrives within this
  Collection,   \* the longest collection
  SilenceCap    \* bound on silence: more is not counted

ASSUME TimingAssumption ==
  /\ {Interval, Breath, Pause, HttpTimeout, Collection, SilenceCap} \subseteq Nat
  /\ Latency \in 0 .. HttpTimeout
  /\ HttpTimeout <= SilenceCap

VARIABLES
  timer,     \* what is left of the stage the agent is in
  elapsed,   \* time since the body of serve's second loop began
  silence,   \* the age of last_seen
  calm       \* history: was the last delivery answered, and is the agent still on?

timed == <<vars, timer, elapsed, silence, calm>>

\* The body of the second loop.
InLoop ==
  \/ pc = "collect"
  \/ pc \in {"call", "backoff"} /\ job # "boot"

\* The age the row has when a call that was executed is over: it was written at
\* some moment of the call.
Spent == HttpTimeout - timer

TimedTypeOK ==
  /\ timer \in Nat
  /\ elapsed \in Nat
  /\ silence \in 0 .. SilenceCap
  /\ calm \in BOOLEAN
  /\ pc = "call" => timer <= HttpTimeout

TimedInit ==
  /\ Init
  /\ timer = 0
  /\ elapsed = 0
  /\ silence = 0
  /\ calm = FALSE

\* Variant for the mutation runs: the time already spent is not taken off.
NapWhole == AtLeast(Breath, Interval)

\* Variant: the loop took longer than the interval, and nobody looked.
NapNegative == Interval - elapsed

\* The sleep of serve after its loop body.
Nap == AtLeast(Breath, Interval - elapsed)

\* How long the stage that begins now may or must last.
Stages ==
  CASE pc' = "collect" -> {Collection}
    [] pc' = "call"    -> {HttpTimeout}
    [] pc' = "backoff" -> RetryDelays(attempt)
    [] pc' = "sleep"   -> {Nap}
    [] pc' = "pause"   -> {Pause}
    [] OTHER           -> {0}

\* A step of the agent: the next stage begins.
Begin ==
  /\ timer' \in Stages
  /\ elapsed' = IF pc' \in {"call", "backoff"} THEN elapsed ELSE 0

\* Stages that must last their time.
Asleep == pc \in {"backoff", "sleep", "pause"} /\ timer > 0

TimedStep ==
  /\ ~Asleep
  /\ Step
  /\ Begin
  /\ UNCHANGED <<silence, calm>>

TimedAnswer ==
  /\ Spent <= Latency
  /\ Answer
  /\ Begin
  /\ IF pc' = "call" THEN UNCHANGED silence ELSE silence' \in 0 .. Spent
  /\ calm' = (pc' # "call")

\* No usable answer; a connection may be refused at once.  The call may have been
\* executed all the same.
TimedFail ==
  /\ Fail
  /\ Begin
  /\ silence' \in {silence} \union (IF known' THEN 0 .. Spent ELSE {})
  /\ calm' = (calm /\ pc' = "backoff")

TimedWipe ==
  /\ Wipe
  /\ calm' = FALSE
  /\ UNCHANGED <<timer, elapsed, silence>>

TimedDie ==
  /\ Die
  /\ Begin
  /\ calm' = FALSE
  /\ UNCHANGED silence

\* Time stands still for what is due.
Tick ==
  /\ pc # "boot"
  /\ pc # "dead" => timer > 0
  /\ timer' = IF pc = "dead" THEN 0 ELSE timer - 1
  /\ elapsed' = IF InLoop THEN elapsed + 1 ELSE elapsed
  /\ silence' = AtMost(SilenceCap, silence + 1)
  /\ UNCHANGED <<vars, calm>>

TimedNext ==
  TimedStep \/ TimedAnswer \/ TimedFail \/ TimedWipe \/ TimedDie \/ Tick

TimedSpec == TimedInit /\ [][TimedNext]_timed

\* As in Reporting, and time passes.
TimedFairness ==
  /\ WF_timed(TimedStep)
  /\ WF_timed(Tick)
  /\ WF_timed(TimedAnswer \/ TimedFail)
  /\ \A j \in Jobs : SF_timed(job = j /\ TimedAnswer)

TimedFairSpec == TimedSpec /\ TimedFairness

-----------------------------------------------------------------------------
\* What a healthy agent is silent for at most: from a write, early in its call,
\* to the next call.
Quiet == AtLeast(Latency + Breath, Interval) + Collection

\* What attempts that failed take at most, with the delays after them.
Late(failed) == failed * (HttpTimeout + RetryMax)

\* How long a node whose last delivery was answered can be silent: one interval
\* with its collection, and for each attempt that failed since its timeout and
\* the longest delay.  An offline timeout below this bound takes retries for a
\* death.  (README.md:146; serve, _deliver, _retry_delay)
SilenceBounded ==
  calm => silence <= Quiet + CASE pc = "call"    -> Late(attempt - 1) + Spent
                               [] pc = "backoff" -> Late(attempt) - timer
                               [] OTHER          -> 0

\* README.md:148: a prolonged outage does not block fresh telemetry for ever.  The
\* loop comes to its next sample after at most two deliveries, of a report and
\* of the registration that answers a 404.  (serve, send_once, _deliver)
LoopBounded ==
  elapsed <= Collection + 2 * (Late(MaxAttempts - 1) + HttpTimeout)
=============================================================================
