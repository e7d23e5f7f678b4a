----------------------------- MODULE RetryPolicy -----------------------------
(***************************************************************************)
(* How long the agent waits before it repeats a request: _retry_delay of   *)
(* clusterwatch/agent/main.py on the settings that from_env of             *)
(* clusterwatch/config.py makes of the environment.  Times are integers,   *)
(* the jitter is in percent, and products with it are in hundredths.       *)
(***************************************************************************)
EXTENDS Integers

\* CW_DELIVERY_RETRY_BASE_SECONDS, _MAX_SECONDS and _JITTER: whatever they say.
CONSTANTS EnvBase, EnvMax, EnvJitter

ASSUME EnvironmentAssumption == EnvBase \in Int /\ EnvMax \in Int /\ EnvJitter \in Int

AtLeast(low, x) == IF x < low THEN low ELSE x
AtMost(high, x) == IF x > high THEN high ELSE x

\* from_env.
RetryBase == AtLeast(0, EnvBase)
RetryMax  == AtLeast(0, EnvMax)
Jitter    == AtMost(100, AtLeast(0, EnvJitter))

Exponential(failed) == AtMost(RetryMax, RetryBase * 2 ^ (failed - 1))

Lower(exponential) == AtLeast(0, exponential * (100 - Jitter))

\* Variant for the mutation runs: the jitter comes after the limit.
UpperUnlimited(exponential) == exponential * (100 + Jitter)

Upper(exponential) == AtMost(100 * RetryMax, exponential * (100 + Jitter))

\* random.uniform(lower, upper), in whole units of time.
RetryDelays(failed) ==
  LET e == Exponential(failed)
  IN  {d \in 0 .. 2 * RetryMax : Lower(e) <= 100 * d /\ 100 * d <= Upper(e)}
=============================================================================
