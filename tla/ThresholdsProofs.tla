-------------------------- MODULE ThresholdsProofs --------------------------
(***************************************************************************)
(* The health evaluation, for every choice of limits, readings and         *)
(* sensors.                                                                *)
(***************************************************************************)
EXTENDS Thresholds, TLAPS

\* The records of module Thresholds: a sample is present exactly if it is not
\* NoSample.
LEMMA SamplePresent ==
  ASSUME NEW sample \in SampleRecords \union {NoSample}
  PROVE  /\ sample.present \in BOOLEAN
         /\ sample.present <=> sample \in SampleRecords
         /\ ~sample.present <=> sample = NoSample
<1>1. CASE sample \in SampleRecords
  <2>1. sample.present = TRUE
    BY <1>1 DEF SampleRecords
  <2>2. NoSample.present = FALSE
    BY DEF NoSample
  <2>. QED  BY <1>1, <2>1, <2>2
<1>2. CASE sample = NoSample
  <2>1. sample.present = FALSE
    BY <1>2 DEF NoSample
  <2>2. \A s \in SampleRecords : s.present = TRUE
    BY DEF SampleRecords
  <2>. QED  BY <1>2, <2>1, <2>2
<1>. QED  BY <1>1, <1>2

\* The code's status depends on the readings through their kind alone.
LEMMA KindIsEnough ==
  ASSUME NEW a \in Ages, NEW e \in Errors, NEW sample \in SampleRecords \union {NoSample}
  PROVE  EvaluateStatus(a, e, sample).status = StatusOf(a, e, Kind(sample))
<1>1. CASE Expired(a)
  BY <1>1 DEF EvaluateStatus, StatusOf
<1>2. CASE ~Expired(a) /\ ~sample.present
  BY <1>2 DEF EvaluateStatus, StatusOf, Kind
<1>3. CASE ~Expired(a) /\ sample.present
  <2>1. Reasons(e, sample) = {} <=> ~HasError(e) /\ Reasons("null", sample) = {}
    BY DEF Reasons, ErrorReason, HasError
  <2>. QED  BY <1>3, <2>1 DEF EvaluateStatus, StatusOf, Kind
<1>. QED  BY <1>1, <1>2, <1>3, SamplePresent

\* A sample gives no reason exactly if every reading is below its limit.
LEMMA NoReason ==
  ASSUME NEW sample \in SampleRecords
  PROVE  Reasons("null", sample) = {} <=>
           /\ sample.cpu < Limit["cpu"]
           /\ sample.memory < Limit["memory"]
           /\ sample.disk < Limit["disk"]
           /\ \A s \in Sensors : sample.temps[s] < Limit["temperature"]
           /\ sample.gpu = Unread \/ sample.gpu < Limit["temperature"]
<1>1. /\ sample.cpu \in Nat /\ sample.memory \in Nat /\ sample.disk \in Nat
      /\ sample.gpu \in Int
      /\ \A s \in Sensors : sample.temps[s] \in Nat
      /\ sample["cpu"] = sample.cpu /\ sample["memory"] = sample.memory
      /\ sample["disk"] = sample.disk
  BY ThresholdAssumption DEF SampleRecords, Readings, Unread
<1>2. \A m \in Meters : Limit[m] \in Int
  BY ThresholdAssumption
<1>3. HotMeters(sample) = {} <=> /\ sample.cpu < Limit["cpu"]
                                 /\ sample.memory < Limit["memory"]
                                 /\ sample.disk < Limit["disk"]
  BY <1>1, <1>2 DEF HotMeters, Meters
<1>4. HotSensors(sample) = {} <=>
        \A s \in Sensors : sample.temps[s] < Limit["temperature"]
  BY <1>1, <1>2 DEF HotSensors, Meters
<1>5. ~HotGpu(sample) <=> sample.gpu = Unread \/ sample.gpu < Limit["temperature"]
  BY <1>1, <1>2 DEF HotGpu, Meters
<1>. QED  BY <1>3, <1>4, <1>5 DEF Reasons, ErrorReason, HasError

-----------------------------------------------------------------------------
LEMMA TypeInit == Init => TypeOK
BY OfflineTimeoutAssumption DEF Init, TypeOK, Ages, Errors

LEMMA TypeStep == TypeOK /\ [Next]_vars => TypeOK'
<1>. SUFFICES ASSUME TypeOK, [Next]_vars PROVE TypeOK'
  OBVIOUS
<1>. USE OfflineTimeoutAssumption, ThresholdAssumption DEF TypeOK
<1>1. CASE Age
  BY <1>1 DEF Age, Ages, Expired
<1>2. CASE \E e \in Errors : Heartbeat(e)
  BY <1>2 DEF Heartbeat, Ages
<1>3. CASE FirstSample
  BY <1>3 DEF FirstSample, Ages, Errors, SampleRecords, Readings
<1>4. ASSUME NEW s \in SampleRecords, NextSample(s) PROVE TypeOK'
  BY <1>4 DEF NextSample, Ages, Errors
<1>5. CASE Rise
  BY <1>4, <1>5, SamplePresent DEF Rise, SampleRecords
<1>6. CASE Fall
  BY <1>4, <1>6, SamplePresent DEF Fall, SampleRecords
<1>7. CASE UNCHANGED vars
  BY <1>7 DEF vars
<1>. QED  BY <1>1, <1>2, <1>3, <1>5, <1>6, <1>7 DEF Next

\* Rows, ages and samples keep their type.
THEOREM TypeCorrect == Spec => []TypeOK
BY TypeInit, TypeStep, PTL DEF Spec

\* For every row and sample, the kind of the sample decides the status: the
\* abstraction the other modules use is exact (evaluate_status).
THEOREM KindDecidesHolds == Spec => []KindDecides
<1>1. TypeOK => KindDecides
  BY KindIsEnough DEF TypeOK, KindDecides, Verdict
<1>. QED  BY <1>1, TypeCorrect, PTL

\* HEALTHY is exactly a recent word, a sample below every limit and no error but an
\* empty one, which README.md:49 does not except; OFFLINE depends on the age alone
\* (evaluate_status).
THEOREM StatusMeansWhatItSaysHolds == Spec => []StatusMeansWhatItSays
<1>1. ASSUME TypeOK PROVE StatusMeansWhatItSays
  <2>1. age \in Int /\ (Expired(age) <=> age > OfflineTimeout)
    BY <1>1, OfflineTimeoutAssumption DEF TypeOK, Ages, Expired
  <2>2. Verdict.status = StatusOf(age, error, Kind(latest))
    BY <1>1, KindIsEnough DEF TypeOK, Verdict
  <2>3. Kind(latest) = "ok" <=> latest.present /\ Reasons("null", latest) = {}
    BY <1>1 DEF Kind
  <2>4. latest.present <=> latest \in SampleRecords
    BY <1>1, SamplePresent DEF TypeOK
  <2>5. ~HasError(error) <=> error \in {"null", "empty"}
    BY <1>1 DEF TypeOK, Errors, HasError
  <2>. QED
    BY <2>1, <2>2, <2>3, <2>4, <2>5, NoReason, OfflineTimeoutAssumption
       DEF StatusMeansWhatItSays, StatusOf
<1>. QED  BY <1>1, TypeCorrect, PTL

\* A rising reading takes no reason away, whatever the limits (evaluate_status).
THEOREM RisingNeverHealsHolds == Spec => RisingNeverHeals
<1>1. ASSUME TypeOK, Rise
      PROVE  Reasons("null", latest) \subseteq Reasons("null", latest')
  <2>1. latest \in SampleRecords
    BY <1>1, SamplePresent DEF TypeOK, Rise
  <2>2. /\ \A m \in {"cpu", "memory", "disk"} : latest[m] \in Nat /\ latest'[m] >= latest[m]
        /\ \A s \in Sensors : latest.temps[s] \in Nat /\ latest'.temps[s] >= latest.temps[s]
        /\ latest.gpu \in Int /\ latest'.gpu >= latest.gpu /\ latest'.gpu \in Int
        /\ \A m \in {"cpu", "memory", "disk"} : latest'[m] \in Nat
        /\ \A s \in Sensors : latest'.temps[s] \in Nat
    BY <1>1, <2>1, ThresholdAssumption DEF Rise, NextSample, SampleRecords, Readings, Unread
  <2>3. \A m \in Meters : Limit[m] \in Nat
    BY ThresholdAssumption
  <2>4. HotMeters(latest) \subseteq HotMeters(latest')
    BY <2>2, <2>3 DEF HotMeters, Meters
  <2>5. HotSensors(latest) \subseteq HotSensors(latest')
    BY <2>2, <2>3 DEF HotSensors, Meters
  <2>6. HotGpu(latest) => HotGpu(latest')
    BY <2>2, <2>3 DEF HotGpu, Unread, Meters
  <2>. QED  BY <2>4, <2>5, <2>6 DEF Reasons
<1>2. TypeOK /\ [Next]_vars
        => [Rise => Reasons("null", latest) \subseteq Reasons("null", latest')]_vars
  BY <1>1
<1>. QED  BY <1>2, TypeCorrect, PTL DEF Spec, RisingNeverHeals
=============================================================================
