----------------------------- MODULE Thresholds -----------------------------
(***************************************************************************)
(* evaluate_status of clusterwatch/controller/status.py with its readings, *)
(* its order of tests and the reasons it reports.  The state is one node   *)
(* row and its newest sample, which the environment changes one field at a *)
(* time, so that the runs can state how a verdict reacts to one change.    *)
(***************************************************************************)
EXTENDS HealthPolicy

CONSTANTS
  Limit,       \* [Meters -> Nat], the thresholds of ControllerSettings
  MaxReading,  \* bound on a reading
  Sensors      \* names in temperatures_c

Meters == {"cpu", "memory", "disk", "temperature"}

ASSUME ThresholdAssumption == Limit \in [Meters -> Nat] /\ MaxReading \in Nat

VARIABLES
  age,      \* now - last_seen
  error,    \* last_error
  latest    \* the newest sample, or NoSample

vars == <<age, error, latest>>

Readings == 0 .. MaxReading
NoSample == [present |-> FALSE]

\* temperature_c of the gpu mapping is free-form: number, text or absent.  Only
\* a number is compared (the isinstance test); Unread stands for the others.
Unread == -1

SampleRecords ==
  [present : {TRUE}, cpu : Readings, memory : Readings, disk : Readings,
   temps : [Sensors -> Readings], gpu : Readings \union {Unread}]

-----------------------------------------------------------------------------
\* Variant for the mutation runs: the limit itself is still fine.
HotMetersExclusive(sample) ==
  {m \in {"cpu", "memory", "disk"} : sample[m] > Limit[m]}

\* One reason per meter at or over its limit.
HotMeters(sample) ==
  {m \in {"cpu", "memory", "disk"} : sample[m] >= Limit[m]}

\* All hot sensors share one reason.
HotSensors(sample) == {s \in Sensors : sample.temps[s] >= Limit["temperature"]}

HotGpu(sample) == sample.gpu # Unread /\ sample.gpu >= Limit["temperature"]

ErrorReason(e) == IF HasError(e) THEN {"error"} ELSE {}

\* Variant: the GPU is looked at only if no sensor is hot.
ReasonsElseGpu(e, sample) ==
  ErrorReason(e)
    \union HotMeters(sample)
    \union (IF HotSensors(sample) # {} THEN {"temperature"}
            ELSE IF HotGpu(sample) THEN {"gpu"} ELSE {})

Reasons(e, sample) ==
  ErrorReason(e)
    \union HotMeters(sample)
    \union (IF HotSensors(sample) # {} THEN {"temperature"} ELSE {})
    \union (IF HotGpu(sample) THEN {"gpu"} ELSE {})

\* Variant: a missing sample is looked up before the silence.
EvaluateSampleFirst(a, e, sample) ==
  IF ~sample.present THEN [status |-> "WARNING", reasons |-> {"waiting"}]
  ELSE IF Expired(a) THEN [status |-> "OFFLINE", reasons |-> {"silent"}]
  ELSE LET r == Reasons(e, sample)
       IN  [status |-> IF r = {} THEN "HEALTHY" ELSE "WARNING", reasons |-> r]

\* The pair (status, reasons) of the code.
EvaluateStatus(a, e, sample) ==
  IF Expired(a) THEN [status |-> "OFFLINE", reasons |-> {"silent"}]
  ELSE IF ~sample.present
    THEN [status |-> "WARNING",
          reasons |-> IF HasError(e) THEN {"error"} ELSE {"waiting"}]
  ELSE LET r == Reasons(e, sample)
       IN  [status |-> IF r = {} THEN "HEALTHY" ELSE "WARNING", reasons |-> r]

\* The abstraction the other modules use.
Kind(sample) ==
  IF ~sample.present THEN "none"
  ELSE IF Reasons("null", sample) = {} THEN "ok" ELSE "hot"

Verdict == EvaluateStatus(age, error, latest)

-----------------------------------------------------------------------------
Init ==
  /\ age = 0
  /\ error = "null"
  /\ latest = NoSample

\* Time passes without a word from the agent.
Age ==
  /\ age' = IF Expired(age) THEN age ELSE age + 1
  /\ UNCHANGED <<error, latest>>

\* Variant: last_seen is the agent's time, whose clock may be ahead.
HeartbeatByAgent(e) ==
  /\ age' \in {-1, 0}
  /\ error' = e
  /\ UNCHANGED latest

\* heartbeat: last_seen is now, by the controller's clock, and last_error is the
\* reported text.
Heartbeat(e) ==
  /\ age' = 0
  /\ error' = e
  /\ UNCHANGED latest

\* A sample arrives: the first one has no reading at a limit, and each later one
\* differs from the one before in one reading.
FirstSample ==
  /\ ~latest.present
  /\ latest' = [present |-> TRUE, cpu |-> 0, memory |-> 0, disk |-> 0,
                temps |-> [s \in Sensors |-> 0], gpu |-> Unread]
  /\ age' = 0
  /\ error' = "null"

NextSample(sample) ==
  /\ latest.present
  /\ latest' = sample
  /\ age' = 0
  /\ error' = "null"

Rise ==
  \/ \E m \in {"cpu", "memory", "disk"}, r \in Readings :
       latest.present /\ r > latest[m] /\ NextSample([latest EXCEPT ![m] = r])
  \/ \E s \in Sensors, r \in Readings :
       latest.present /\ r > latest.temps[s]
         /\ NextSample([latest EXCEPT !.temps[s] = r])
  \/ \E r \in Readings :
       latest.present /\ r > latest.gpu /\ NextSample([latest EXCEPT !.gpu = r])

Fall ==
  \/ \E m \in {"cpu", "memory", "disk"}, r \in Readings :
       latest.present /\ r < latest[m] /\ NextSample([latest EXCEPT ![m] = r])
  \/ \E s \in Sensors, r \in Readings :
       latest.present /\ r < latest.temps[s]
         /\ NextSample([latest EXCEPT !.temps[s] = r])
  \/ \E r \in Readings \union {Unread} :
       latest.present /\ r < latest.gpu /\ NextSample([latest EXCEPT !.gpu = r])

Next ==
  \/ Age
  \/ \E e \in Errors : Heartbeat(e)
  \/ FirstSample
  \/ Rise
  \/ Fall

Spec == Init /\ [][Next]_vars

-----------------------------------------------------------------------------
(* Properties.                                                             *)

TypeOK ==
  \* last_seen is never in the future, whatever clock the agent has (README.md:42)
  /\ age \in Ages
  /\ error \in Errors
  /\ latest \in SampleRecords \union {NoSample}

\* For every row, sample and age, the status of the code depends on the readings
\* only through the kind of the sample: the other modules lose nothing by keeping
\* the kind alone.  (evaluate_status)
KindDecides == Verdict.status = StatusOf(age, error, Kind(latest))

\* What the statuses of README.md:48-50 come to in the code: OFFLINE depends on the
\* age alone, and HEALTHY is a node heard of within the timeout that has a sample
\* with every reading, of whichever meter or sensor, below its limit, and no error.
\* One reservation: README.md:49 makes a WARNING of every reported collection error;
\* the code makes none of an error whose text is empty, as of an exception without
\* a message (main.py:100, status.py:18 and 23), and the node is HEALTHY.
\* (evaluate_status)
StatusMeansWhatItSays ==
  /\ Verdict.status = "OFFLINE" <=> age > OfflineTimeout
  /\ Verdict.status = "HEALTHY" <=>
       /\ age <= OfflineTimeout
       /\ error \in {"null", "empty"}
       /\ latest.present
       /\ latest.cpu < Limit["cpu"]
       /\ latest.memory < Limit["memory"]
       /\ latest.disk < Limit["disk"]
       /\ \A s \in Sensors : latest.temps[s] < Limit["temperature"]
       /\ latest.gpu = Unread \/ latest.gpu < Limit["temperature"]

\* A reading that rises never turns a hot sample into a harmless one, and never
\* takes a reason away.  (the >= tests of evaluate_status)
RisingNeverHeals ==
  [][Rise => Reasons("null", latest) \subseteq Reasons("null", latest')]_vars
=============================================================================
