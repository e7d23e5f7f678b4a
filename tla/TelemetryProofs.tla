-------------------------- MODULE TelemetryProofs --------------------------
(***************************************************************************)
(* One collection after another, and what is exported of it, for any       *)
(* sensors, timeouts, limits and traffic.                                  *)
(***************************************************************************)
EXTENDS Telemetry, FiniteSetTheorems, SequenceTheorems, WellFoundedInduction, TLAPS

-----------------------------------------------------------------------------
(* Slurm.                                                                  *)

LEMMA JobsBounded ==
  ASSUME NEW out
  PROVE  Jobs(out) \in 0 .. MaxJobs
<1>. DEFINE kept == {i \in 1 .. MaxJobs : i <= Len(out) /\ out[i]}
<1>1. 1 \in Int /\ MaxJobs \in Int /\ MaxJobs \in Nat
  BY SlurmAssumption
<1>2. IsFiniteSet(1 .. MaxJobs) /\ Cardinality(1 .. MaxJobs) = MaxJobs
  BY <1>1, FS_Interval
<1>3. kept \subseteq 1 .. MaxJobs
  OBVIOUS
<1>. HIDE DEF kept
<1>4. Cardinality(kept) <= MaxJobs /\ Cardinality(kept) \in Nat
  BY <1>2, <1>3, FS_Subset, FS_CardinalityType
<1>5. Cardinality(kept) \in 0 .. MaxJobs
  BY <1>1, <1>4
<1>. QED  BY <1>5 DEF kept, Jobs

LEMMA SlurmTypes ==
  ASSUME NEW n \in NodeOutputs \union {None}, NEW out
  PROVE  /\ SlurmOf(n, out) \in Listings \union {None}
         /\ (n # None \/ out # None) => SlurmOf(n, out) \in Listings
<1>1. Jobs(out) \in Nat
  BY JobsBounded, SlurmAssumption
<1>2. CASE n = None /\ out = None
  BY <1>2 DEF SlurmOf
<1>3. CASE ~(n = None /\ out = None)
  <2>. DEFINE cpus == IF n = None THEN {} ELSE n
              jobs == IF out = None THEN None ELSE Jobs(out)
              cut  == out # None /\ Len(out) > MaxJobs
  <2>1. cpus \in NodeOutputs /\ jobs \in Nat \union {None} /\ cut \in BOOLEAN
    BY <1>1 DEF NodeOutputs
  <2>2. SlurmOf(n, out) = [cpus |-> cpus, jobs |-> jobs, truncated |-> cut]
    BY <1>3, Zenon DEF SlurmOf
  <2>. HIDE DEF cpus, jobs, cut
  <2>. QED  BY <2>1, <2>2 DEF Listings
<1>. QED  BY <1>2, <1>3

-----------------------------------------------------------------------------
(* Types.                                                                  *)

LEMMA BlankSample == Blank \in Samples
BY DEF Blank, Samples

LEMMA TypeInit == Init => TypeOK
BY BlankSample, CollectorAssumption DEF Init, TypeOK, MaxSpent

\* The step that ends a Slurm command.
LEMMA TypeLeave ==
  ASSUME TypeOK, NEW out \in NodeOutputs \union Outputs \union {None}, Leave(out),
         pc = "scontrol" => out \in NodeOutputs \union {None},
         pc = "squeue" => out \in Outputs \union {None}
  PROVE  TypeOK'
<1>1. wait' \in 0 .. StatsTimeout + SlurmTimeout
  BY CollectorAssumption DEF Leave
<1>2. CASE pc = "scontrol"
  BY <1>1, <1>2 DEF Leave, TypeOK, network
<1>3. CASE pc = "squeue"
  <2>1. SlurmOf(node, out) \in Listings \union {None}
    BY SlurmTypes DEF TypeOK
  <2>2. sample' \in Samples /\ reported' \in Nat
    BY <1>3, <2>1 DEF Leave, TypeOK, Samples
  <2>. QED  BY <1>1, <1>3, <2>2 DEF Leave, TypeOK, network
<1>. QED  BY <1>2, <1>3 DEF Leave

LEMMA TypeStep == TypeOK /\ [Next]_vars => TypeOK'
<1>. SUFFICES ASSUME TypeOK, [Next]_vars PROVE TypeOK'
  OBVIOUS
<1>. USE CollectorAssumption
<1>1. CASE Move \/ Reset
  BY <1>1 DEF Move, Reset, TypeOK, slurm
<1>2. CASE Begin
  BY <1>2, BlankSample DEF Begin, TypeOK, network, MaxSpent
<1>3. CASE Raise
  BY <1>3 DEF Raise, TypeOK, network, slurm
<1>4. CASE ReadLinux
  <2>1. sample' \in Samples
    BY <1>4 DEF ReadLinux, TypeOK, Samples
  <2>. QED  BY <1>4, <2>1 DEF ReadLinux, TypeOK, slurm
<1>5. CASE ReadTemperatures
  <2>1. sample' \in Samples
    BY <1>5 DEF ReadTemperatures, TypeOK, Samples
  <2>. QED  BY <1>5, <2>1 DEF ReadTemperatures, TypeOK, network, slurm
<1>6. CASE ReadGpu
  <2>1. sample' \in Samples
    BY <1>6 DEF ReadGpu, TypeOK, Samples, Completed
  <2>. QED  BY <1>6, <2>1 DEF ReadGpu, TypeOK, network, slurm
<1>7. CASE ReadCpu
  BY <1>7 DEF ReadCpu, TypeOK, network, slurm
<1>8. CASE StartStats
  <2>1. sample' \in Samples
    BY <1>8 DEF StartStats, TypeOK, Samples
  <2>. QED  BY <1>8, <2>1 DEF StartStats, TypeOK, network, slurm
<1>9. CASE StatsEnd \/ KillStats
  <2>1. StatsRead /\ child' = "none"
    BY <1>9 DEF StatsEnd, KillStats
  <2>2. sample' \in Samples
    BY <2>1 DEF StatsRead, TypeOK, Samples, Completed
  <2>. QED  BY <2>1, <2>2 DEF StatsRead, TypeOK, network, slurm
<1>10. CASE TerminateStats
  BY <1>10 DEF TerminateStats, TypeOK, network, slurm
<1>11. CASE StartCommand
  BY <1>11 DEF StartCommand, TypeOK, network, slurm
<1>12. CASE NoCommand \/ TimeOut
  BY <1>12, TypeLeave DEF NoCommand, TimeOut
<1>13. CASE CommandEnds
  <2>1. PICK out \in {None} \union (IF pc = "scontrol" THEN NodeOutputs ELSE Outputs) : Leave(out)
    BY <1>13 DEF CommandEnds
  <2>. QED  BY <2>1, TypeLeave
<1>14. CASE Garbled
  BY <1>14 DEF Garbled, TypeOK, network, slurm
<1>15. CASE Tick
  BY <1>15 DEF Tick, TypeOK, network, slurm, MaxSpent
<1>16. CASE UNCHANGED vars
  BY <1>16 DEF vars, TypeOK, network, slurm
<1>. QED  BY <1>1, <1>2, <1>3, <1>4, <1>5, <1>6, <1>7, <1>8, <1>9, <1>10, <1>11, <1>12, <1>13,
             <1>14, <1>15, <1>16 DEF Next, Own

\* Samples, subprocesses and time stay well-typed through every failure.
THEOREM TypeCorrect == Spec => []TypeOK
BY TypeInit, TypeStep, PTL DEF Spec

-----------------------------------------------------------------------------
(* Subprocesses and time.                                                  *)

\* A stage of collect has the subprocess it waits for and no other, and an outcome
\* only at its end.
Children ==
  /\ NoChildLeft
  /\ child = "none" => wait = 0
  /\ pc = "tegrastats" => child # "none"
  /\ pc # "idle" => outcome = "none"

\* What each stage may have taken, with what its subprocess still may take.
Budget ==
  /\ pc \in {"linux", "sensors", "gpu"} => spent = 0
  /\ pc = "tegrastats" =>
       spent + wait <= StatsTimeout + (IF child = "terminated" THEN StatsTimeout ELSE 0)
  /\ pc = "cpu" => spent <= 2 * StatsTimeout
  /\ pc = "scontrol" =>
       spent + wait <= 2 * StatsTimeout + (IF child = "running" THEN SlurmTimeout ELSE 0)
  /\ pc = "squeue" =>
       spent + wait <= 2 * StatsTimeout + SlurmTimeout
                         + (IF child = "running" THEN SlurmTimeout ELSE 0)
  /\ CollectionBounded

LEMMA ChildrenStep == TypeOK /\ Children /\ [Next]_vars => Children'
<1>. SUFFICES ASSUME TypeOK, Children, [Next]_vars PROVE Children'
  OBVIOUS
<1>. USE DEF Children, NoChildLeft
<1>1. CASE Move \/ Reset \/ Begin \/ Raise \/ ReadLinux \/ ReadTemperatures \/ ReadGpu \/ ReadCpu
           \/ UNCHANGED vars
  BY <1>1 DEF Move, Reset, Begin, Raise, ReadLinux, ReadTemperatures, ReadGpu, ReadCpu, vars
<1>2. CASE StartStats \/ StatsEnd \/ TerminateStats \/ KillStats
  BY <1>2 DEF StartStats, StatsEnd, TerminateStats, KillStats, StatsRead
<1>3. CASE StartCommand
  BY <1>3 DEF StartCommand, InSlurm
<1>4. CASE \E out : Leave(out)
  BY <1>4 DEF Leave
<1>5. CASE Garbled \/ Tick
  BY <1>5 DEF Garbled, Tick
<1>. QED  BY <1>1, <1>2, <1>3, <1>4, <1>5 DEF Next, Own, NoCommand, TimeOut, CommandEnds

LEMMA ChildrenInit == Init => Children
BY DEF Init, Children, NoChildLeft

\* Whatever ends a collection, no subprocess is left behind.  (_sample_tegrastats,
\* _run)
THEOREM NoChildLeftHolds == Spec => []NoChildLeft
<1>1. Children => NoChildLeft
  BY DEF Children
<1>. QED  BY TypeInit, TypeStep, ChildrenInit, ChildrenStep, <1>1, PTL DEF Spec

\* A collection in its Slurm stages ends with its sample, or with the exception of
\* text that does not decode, which no handler of collect expects: no other failure of
\* a command ends it.  (SlurmCollector._run)
THEOREM OnlyUndecodableCostsHolds == Spec => OnlyUndecodableCosts
<1>1. Children /\ [Next]_vars
        => [InSlurm /\ pc' = "idle" => outcome' \in {"sample", "undecodable"}]_vars
  <2>. SUFFICES ASSUME Children, InSlurm, Next, pc' = "idle"
                PROVE  outcome' \in {"sample", "undecodable"}
    BY DEF InSlurm, vars
  <2>1. outcome = "none" /\ pc \in {"scontrol", "squeue"}
    BY DEF Children, InSlurm
  <2>2. CASE Garbled \/ Tick \/ StartCommand \/ \E out : Leave(out)
    BY <2>1, <2>2 DEF Garbled, Tick, StartCommand, Leave
  <2>3. \/ Garbled \/ Tick \/ StartCommand
        \/ \E out : Leave(out)
    BY <2>1 DEF Next, Own, Raise, Begin, Move, Reset, ReadLinux, ReadTemperatures, ReadGpu, ReadCpu,
                StartStats, StatsEnd, TerminateStats, KillStats, NoCommand, TimeOut, CommandEnds
  <2>. QED  BY <2>2, <2>3
<1>. QED  BY TypeInit, TypeStep, ChildrenInit, ChildrenStep, <1>1, PTL DEF Spec, OnlyUndecodableCosts

LEMMA BudgetStep == TypeOK /\ Children /\ Budget /\ [Next]_vars => Budget'
<1>. SUFFICES ASSUME TypeOK, Children, Budget, [Next]_vars PROVE Budget'
  OBVIOUS
<1>. USE CollectorAssumption DEF Budget, CollectionBounded
<1>1. /\ spent \in Nat /\ wait \in Nat /\ StatsTimeout \in Nat /\ SlurmTimeout \in Nat
      /\ child \in {"none", "running", "terminated"}
      /\ child = "none" => wait = 0
      /\ child = "running" => pc \in {"tegrastats", "scontrol", "squeue"}
      /\ child = "terminated" => pc = "tegrastats"
      /\ pc = "tegrastats" => child # "none"
  BY DEF TypeOK, Children, NoChildLeft, MaxSpent
<1>2. CASE Move \/ Reset \/ Raise \/ UNCHANGED vars
  BY <1>1, <1>2 DEF Move, Reset, Raise, vars
<1>3. CASE Begin
  BY <1>1, <1>3 DEF Begin
<1>4. CASE ReadLinux \/ ReadTemperatures \/ ReadGpu \/ ReadCpu
  BY <1>1, <1>4 DEF ReadLinux, ReadTemperatures, ReadGpu, ReadCpu
<1>5. CASE StartStats
  BY <1>1, <1>5 DEF StartStats
<1>6. CASE StatsEnd \/ KillStats
  BY <1>1, <1>6 DEF StatsEnd, KillStats, StatsRead
<1>7. CASE TerminateStats
  BY <1>1, <1>7 DEF TerminateStats
<1>8. CASE StartCommand
  BY <1>1, <1>8 DEF StartCommand, InSlurm
<1>9. CASE \E out : Leave(out)
  BY <1>1, <1>9 DEF Leave
<1>10. CASE Garbled
  BY <1>1, <1>10 DEF Garbled
<1>11. CASE Tick
  BY <1>1, <1>11 DEF Tick, MaxSpent
<1>. QED  BY <1>2, <1>3, <1>4, <1>5, <1>6, <1>7, <1>8, <1>9, <1>10, <1>11
          DEF Next, Own, NoCommand, TimeOut, CommandEnds

LEMMA BudgetInit == Init => Budget
BY CollectorAssumption DEF Init, Budget, CollectionBounded

\* However the subprocesses hang, a collection takes no longer than tegrastats is
\* given twice and each command of Slurm once.  (_sample_tegrastats, _run)
THEOREM CollectionBoundedHolds == Spec => []CollectionBounded
<1>1. Budget => CollectionBounded
  BY DEF Budget
<1>. QED  BY TypeInit, TypeStep, ChildrenInit, ChildrenStep, BudgetInit, BudgetStep, <1>1, PTL DEF Spec

-----------------------------------------------------------------------------
(* Traffic.                                                                *)

\* The bytes of a sample that is not finished, and those that were not read yet.
Pending == IF pc \in {"idle", "linux"} THEN 0 ELSE sample.bytes
Unread  == IF counter > last THEN counter - last ELSE 0

Balanced == reported + Pending + Unread <= moved

LEMMA BalancedStep == TypeOK /\ Balanced /\ [Next]_vars => Balanced'
<1>. SUFFICES ASSUME TypeOK, Balanced, [Next]_vars PROVE Balanced'
  OBVIOUS
<1>. USE DEF Balanced, Pending, Unread, network
<1>1. /\ reported \in Nat /\ moved \in Nat /\ counter \in Nat /\ last \in Nat
      /\ sample \in Samples /\ sample.bytes \in Nat
  BY CollectorAssumption DEF TypeOK, Samples
<1>2. CASE Move \/ Reset
  BY <1>1, <1>2 DEF Move, Reset
<1>3. CASE Begin \/ Raise \/ Garbled
  BY <1>1, <1>3 DEF Begin, Raise, Garbled
<1>4. CASE ReadLinux
  <2>1. sample'.bytes = IF counter > last THEN counter - last ELSE 0
    BY <1>1, <1>4 DEF ReadLinux, Samples
  <2>. QED  BY <1>1, <1>4, <2>1 DEF ReadLinux
<1>5. CASE ReadTemperatures \/ ReadGpu \/ ReadCpu
  <2>1. sample'.bytes = sample.bytes
    BY <1>1, <1>5 DEF ReadTemperatures, ReadGpu, ReadCpu, Samples
  <2>. QED  BY <1>1, <1>5, <2>1 DEF ReadTemperatures, ReadGpu, ReadCpu
<1>6. CASE StartStats
  <2>1. sample'.bytes = sample.bytes
    BY <1>1, <1>6 DEF StartStats, Samples
  <2>. QED  BY <1>1, <1>6, <2>1 DEF StartStats
<1>7. CASE StatsEnd \/ KillStats
  <2>1. StatsRead /\ pc = "tegrastats"
    BY <1>7 DEF StatsEnd, KillStats
  <2>2. sample'.bytes = sample.bytes
    BY <1>1, <2>1 DEF StatsRead, Samples
  <2>. QED  BY <1>1, <2>1, <2>2 DEF StatsRead
<1>8. CASE TerminateStats \/ StartCommand \/ Tick \/ UNCHANGED vars
  BY <1>8 DEF TerminateStats, StartCommand, Tick, vars
<1>9. CASE \E out : Leave(out)
  BY <1>1, <1>9 DEF Leave
<1>. QED  BY <1>2, <1>3, <1>4, <1>5, <1>6, <1>7, <1>8, <1>9
          DEF Next, Own, NoCommand, TimeOut, CommandEnds

LEMMA BalancedInit == Init => Balanced
BY DEF Init, Balanced, Pending, Unread

\* Through failed collections and counters that were reset, no byte is reported twice.
\* (collect: _last_network)
THEOREM TrafficCountedOnceHolds == Spec => []TrafficCountedOnce
<1>1. ASSUME TypeOK, Balanced PROVE TrafficCountedOnce
  <2>1. /\ reported \in Nat /\ Pending \in Nat /\ Unread \in Nat /\ moved \in Nat
        /\ reported + Pending + Unread <= moved
    BY <1>1, CollectorAssumption DEF Balanced, TypeOK, Samples, Pending, Unread
  <2>. QED  BY <2>1 DEF TrafficCountedOnce
<1>. QED  BY TypeInit, TypeStep, BalancedInit, BalancedStep, <1>1, PTL DEF Spec

-----------------------------------------------------------------------------
(* What a sample says, and what is exported of it.                         *)

\* A sample that is finished has what Slurm said during its collection.
Heard == outcome = "sample" => sample.slurm = SlurmOf(node, lines)

LEMMA HeardStep == TypeOK /\ Children /\ Heard /\ [Next]_vars => Heard'
<1>. SUFFICES ASSUME TypeOK, Children, Heard, [Next]_vars, outcome' = "sample"
              PROVE  sample'.slurm = SlurmOf(node', lines')
  BY DEF Heard
<1>1. CASE outcome = "sample" /\ UNCHANGED <<sample, slurm>>
  BY <1>1 DEF Heard, slurm
<1>2. CASE \E out : Leave(out) /\ pc = "squeue"
  <2>1. PICK out : Leave(out) /\ pc = "squeue"
    BY <1>2
  <2>2. /\ sample' = [sample EXCEPT !.slurm = SlurmOf(node, out)]
        /\ node' = node /\ lines' = out
    BY <2>1 DEF Leave
  <2>3. sample'.slurm = SlurmOf(node, out)
    BY <2>2 DEF TypeOK, Samples
  <2>. QED  BY <2>2, <2>3
<1>3. CASE pc = "idle"
  BY <1>1, <1>3 DEF Next, Own, Raise, Begin, Move, Reset, ReadLinux, ReadTemperatures, ReadGpu,
                    ReadCpu, StartStats, StatsEnd, TerminateStats, KillStats, StartCommand, InSlurm,
                    NoCommand, TimeOut, CommandEnds, Leave, Garbled, Tick, vars, Children, NoChildLeft
<1>4. CASE pc # "idle"
  <2>1. outcome = "none"
    BY <1>4 DEF Children
  <2>2. \E out : Leave(out)
    BY <1>4, <2>1 DEF Next, Own, Raise, Begin, Move, Reset, ReadLinux, ReadTemperatures, ReadGpu,
                      ReadCpu, StartStats, StatsEnd, TerminateStats, KillStats, StatsRead,
                      StartCommand, NoCommand, TimeOut, CommandEnds, Garbled, Tick, vars
  <2>3. \E out : Leave(out) /\ pc = "squeue"
    BY <2>1, <2>2 DEF Leave
  <2>. QED  BY <1>2, <2>3
<1>. QED  BY <1>3, <1>4

LEMMA HeardInit == Init => Heard
BY DEF Init, Heard

\* A sample passes the controller's schema: no negative rate, whatever the counters do,
\* and no more jobs than it allows, whatever squeue prints.  (collect,
\* SlurmCollector.collect, MetricSample)
THEOREM SampleFitsSchemaHolds == Spec => []SampleFitsSchema
<1>1. ASSUME TypeOK, Heard PROVE SampleFitsSchema
  <2>. SUFFICES ASSUME outcome = "sample"
                PROVE  /\ sample.bytes >= 0
                       /\ sample.slurm # None /\ sample.slurm.jobs # None =>
                            sample.slurm.jobs <= JobLimit
    BY DEF SampleFitsSchema
  <2>1. sample.bytes \in Nat
    BY <1>1 DEF TypeOK, Samples
  <2>2. ASSUME sample.slurm # None, sample.slurm.jobs # None
        PROVE  sample.slurm.jobs = Jobs(lines)
    BY <1>1, <2>2 DEF Heard, SlurmOf
  <2>3. Jobs(lines) \in 0 .. MaxJobs
    BY JobsBounded
  <2>. QED  BY <2>1, <2>2, <2>3, SlurmAssumption, CollectorAssumption
<1>. QED  BY TypeInit, TypeStep, ChildrenInit, ChildrenStep, HeardInit, HeardStep, <1>1, PTL DEF Spec

\* What is exported of the node, part by part.
LEMMA ExportedParts ==
  ASSUME TypeOK, outcome = "sample"
  PROVE  LET view == [node |-> "node", status |-> "healthy", latest |-> sample]
         IN  Exported = Controller!NodesTotal({view}) \union Controller!OfEveryNode(view)
                          \union Controller!OfSample(view, sample)
<1>. DEFINE view == [node |-> "node", status |-> "healthy", latest |-> sample]
<1>1. sample # None
  BY SampleAssumption DEF TypeOK
<1>2. view.latest = sample
  OBVIOUS
<1>3. Exported = Controller!RenderMetrics({view})
  BY DEF Exported
<1>. HIDE DEF view
<1>4. {v \in {view} : v.latest # None} = {view}
  BY <1>1, <1>2
<1>. DEFINE totals  == Controller!NodesTotal({view})
            nodes   == UNION {Controller!OfEveryNode(v) : v \in {view}}
            samples == UNION {Controller!OfSample(v, v.latest) : v \in {v \in {view} : v.latest # None}}
<1>5. nodes = Controller!OfEveryNode(view)
  OBVIOUS
<1>6. samples = Controller!OfSample(view, sample)
  BY <1>2, <1>4
<1>7. Controller!RenderMetrics({view}) = totals \union nodes \union samples
  BY DEF Controller!RenderMetrics
<1>8. totals = Controller!NodesTotal({view})
  OBVIOUS
<1>. HIDE DEF totals, nodes, samples
<1>9. Exported = Controller!NodesTotal({view}) \union Controller!OfEveryNode(view)
                   \union Controller!OfSample(view, sample)
  BY <1>3, <1>5, <1>6, <1>7, <1>8
<1>. QED  BY <1>9 DEF view

\* No other family has the name of those of Slurm.
LEMMA FamiliesOfReadings ==
  ASSUME NEW reading \in Controller!Readings
  PROVE  reading[1] \notin {"slurm_jobs", "slurm_cpus"}
BY DEF Controller!Readings

LEMMA FamiliesOfGpu ==
  ASSUME NEW field \in {"utilization", "temperature"}
  PROVE  Controller!GpuFamily[field] \notin {"slurm_jobs", "slurm_cpus"}
BY DEF Controller!GpuFamily

\* The series of Slurm come from what the sample says of it.
LEMMA SlurmFamilies ==
  ASSUME TypeOK, outcome = "sample",
         NEW name \in {"slurm_jobs", "slurm_cpus"}
  PROVE  LET view == [node |-> "node", status |-> "healthy", latest |-> sample]
         IN  Family(name) =
               IF sample.slurm = None THEN {}
               ELSE {series \in Controller!OfSlurm(view, sample.slurm) : series.family = name}
<1>. DEFINE view == [node |-> "node", status |-> "healthy", latest |-> sample]
            heard == IF sample.slurm = None THEN {} ELSE Controller!OfSlurm(view, sample.slurm)
<1>1. sample \in Samples /\ sample # None /\ sample.gpu \subseteq {"utilization", "temperature"}
  BY SampleAssumption DEF TypeOK, Samples
<1>2. Exported = Controller!NodesTotal({view}) \union Controller!OfEveryNode(view)
                   \union Controller!OfSample(view, sample)
  BY ExportedParts
<1>3. \A series \in Controller!NodesTotal({view}) : series.family # name
  BY DEF Controller!NodesTotal
<1>4. \A series \in Controller!OfEveryNode(view) : series.family # name
  BY DEF Controller!OfEveryNode, Controller!Series
<1>5. \A series \in Controller!OfSample(view, sample) : series \in heard \/ series.family # name
  <2>. SUFFICES ASSUME NEW series \in Controller!OfSample(view, sample), series \notin heard
                PROVE  series.family # name
    OBVIOUS
  <2>1. CASE \E reading \in Controller!Readings :
               series = Controller!Series(reading[1], view, reading[2], None)
    BY <2>1, FamiliesOfReadings DEF Controller!Series
  <2>2. CASE \E label \in sample.temperatures :
               series = Controller!Series("temperature", view, label, None)
    BY <2>2 DEF Controller!Series
  <2>3. CASE \E field \in sample.gpu :
               series = Controller!Series(Controller!GpuFamily[field], view, <<>>, None)
    BY <1>1, <2>3, FamiliesOfGpu DEF Controller!Series
  <2>. QED  BY <2>1, <2>2, <2>3 DEF Controller!OfSample
<1>6. heard \subseteq Controller!OfSample(view, sample)
  BY DEF Controller!OfSample
<1>7. Family(name) = {series \in heard : series.family = name}
  <2>. HIDE DEF view, heard
  <2>. QED  BY <1>2, <1>3, <1>4, <1>5, <1>6 DEF Family
<1>. QED  BY <1>7

\* Lines that are not cut are all counted.
LEMMA JobsUncutted ==
  ASSUME lines \in Outputs, Len(lines) <= MaxJobs
  PROVE  Jobs(lines) = Cardinality({i \in DOMAIN lines : lines[i]})
<1>1. PICK n \in 0 .. MaxJobs + 1 : lines \in [1 .. n -> BOOLEAN]
  BY DEF Outputs
<1>2. n \in Nat /\ MaxJobs \in Nat
  BY <1>1, SlurmAssumption
<1>3. lines \in Seq(BOOLEAN)
  BY <1>1, <1>2, SeqDef
<1>4. Len(lines) \in Nat /\ DOMAIN lines = 1 .. Len(lines)
  BY <1>3, LenProperties
<1>5. {i \in 1 .. MaxJobs : i <= Len(lines) /\ lines[i]} = {i \in DOMAIN lines : lines[i]}
  BY <1>2, <1>4
<1>. QED  BY <1>5 DEF Jobs

\* The number of jobs shown is what squeue said, or is shown as cut; there is none when
\* squeue failed.  The CPU counts are those of scontrol.  (SlurmCollector.collect,
\* render_metrics)
THEOREM SlurmShownAsHeardHolds == Spec => []SlurmShownAsHeard
<1>1. ASSUME TypeOK, Heard, outcome = "sample"
      PROVE  /\ lines = None <=> Family("slurm_jobs") = {}
             /\ \A jobs \in Family("slurm_jobs") :
                  sample.slurm.truncated \/ jobs.value = Cardinality({i \in DOMAIN lines : lines[i]})
             /\ {cpus.label[1] : cpus \in Family("slurm_cpus")} = IF node = None THEN {} ELSE node
  <2>. DEFINE view == [node |-> "node", status |-> "healthy", latest |-> sample]
              heard == sample.slurm
              jobsOf == Controller!Series("slurm_jobs", view, <<>>, heard.jobs)
              cpusOf(kind) == Controller!Series("slurm_cpus", view, <<kind>>, None)
  <2>1. heard = SlurmOf(node, lines) /\ node \in NodeOutputs \union {None}
        /\ lines \in Outputs \union {None}
    BY <1>1 DEF Heard, TypeOK
  <2>2. CASE node = None /\ lines = None
    <3>1. heard = None
      BY <2>1, <2>2 DEF SlurmOf
    <3>2. Family("slurm_jobs") = {} /\ Family("slurm_cpus") = {}
      BY <1>1, <3>1, SlurmFamilies
    <3>. QED  BY <2>2, <3>2
  <2>3. CASE node # None \/ lines # None
    <3>1. heard \in Listings /\ heard # None
      BY <2>1, <2>3, SlurmTypes, NoneAssumption
    <3>2. /\ heard.cpus = IF node = None THEN {} ELSE node
          /\ heard.jobs = IF lines = None THEN None ELSE Jobs(lines)
          /\ heard.truncated = (lines # None /\ Len(lines) > MaxJobs)
      BY <2>1, <2>3 DEF SlurmOf
    <3>3. /\ jobsOf.family = "slurm_jobs" /\ jobsOf.value = heard.jobs
          /\ \A kind : cpusOf(kind).family = "slurm_cpus" /\ cpusOf(kind).label[1] = kind
      BY DEF Controller!Series
    <3>4. Controller!OfSlurm(view, heard) =
            {cpusOf(kind) : kind \in heard.cpus} \union (IF heard.jobs = None THEN {} ELSE {jobsOf})
      BY DEF Controller!OfSlurm
    <3>5. /\ Family("slurm_jobs") =
               {series \in Controller!OfSlurm(view, heard) : series.family = "slurm_jobs"}
          /\ Family("slurm_cpus") =
               {series \in Controller!OfSlurm(view, heard) : series.family = "slurm_cpus"}
      BY <1>1, <3>1, SlurmFamilies
    <3>. HIDE DEF view, heard, jobsOf, cpusOf
    <3>6. Family("slurm_jobs") = IF heard.jobs = None THEN {} ELSE {jobsOf}
      BY <3>3, <3>4, <3>5
    <3>7. Family("slurm_cpus") = {cpusOf(kind) : kind \in heard.cpus}
      BY <3>3, <3>4, <3>5
    <3>8. {cpus.label[1] : cpus \in Family("slurm_cpus")} = heard.cpus
      BY <3>3, <3>7
    <3>9. lines = None <=> heard.jobs = None
      BY <3>2, JobsBounded, NoneAssumption, SlurmAssumption
    <3>10. ASSUME lines # None, ~heard.truncated
           PROVE  heard.jobs = Cardinality({i \in DOMAIN lines : lines[i]})
      <4>1. lines \in Outputs
        BY <2>1, <3>10
      <4>2. Len(lines) <= MaxJobs
        <5>1. PICK n \in 0 .. MaxJobs + 1 : lines \in [1 .. n -> BOOLEAN]
          BY <4>1 DEF Outputs
        <5>2. lines \in Seq(BOOLEAN)
          BY <5>1, SlurmAssumption, SeqDef
        <5>3. Len(lines) \in Nat
          BY <5>2, LenProperties
        <5>4. ~(Len(lines) > MaxJobs)
          BY <3>2, <3>10, Zenon
        <5>. QED  BY <5>3, <5>4, SlurmAssumption
      <4>. QED  BY <3>2, <3>10, <4>1, <4>2, JobsUncutted
    <3>. QED  BY <3>2, <3>3, <3>6, <3>8, <3>9, <3>10 DEF heard
  <2>. QED  BY <2>2, <2>3
<1>2. TypeOK /\ Heard => SlurmShownAsHeard
  BY <1>1 DEF SlurmShownAsHeard
<1>. QED  BY TypeInit, TypeStep, ChildrenInit, ChildrenStep, HeardInit, HeardStep, <1>2, PTL DEF Spec

-----------------------------------------------------------------------------
(* Texts.  What is said of every text is shown of a shortest one of which  *)
(* it is not true.                                                         *)

LEMMA LeastNumber ==
  ASSUME NEW T, T \subseteq Nat, T # {}
  PROVE  \E x \in T : \A y \in T : x <= y
<1>. DEFINE R == {p \in Nat \X Nat : p[1] < p[2]}
<1>1. R = OpToRel(<, Nat)
  BY DEF OpToRel
<1>2. IsWellFoundedOn(R, Nat)
  BY <1>1, NatLessThanWellFounded
<1>3. PICK x \in T : \A y \in T : ~ (<<y, x>> \in R)
  BY <1>2, WFMin
<1>4. ASSUME NEW y \in T PROVE x <= y
  <2>1. x \in Nat /\ y \in Nat
    OBVIOUS
  <2>2. ~ (y < x)
    BY <1>3, <2>1
  <2>. QED  BY <2>1, <2>2
<1>. QED  BY <1>4

\* f holds the concatenations of the first sequences, up to the n-th.
Joins(f, seqs, n) ==
  \A i \in 1 .. n : f[i] = IF i = 1 THEN seqs[i] ELSE f[i - 1] \o seqs[i]

LEMMA JoinsExist ==
  ASSUME NEW S, NEW seqs \in Seq(Seq(S)), NEW n \in 0 .. Len(seqs)
  PROVE  \E f \in [1 .. n -> Seq(S)] : Joins(f, seqs, n)
<1>. DEFINE Bad == {k \in 0 .. Len(seqs) : ~ \E f \in [1 .. k -> Seq(S)] : Joins(f, seqs, k)}
<1>. SUFFICES ASSUME Bad # {} PROVE FALSE
  OBVIOUS
<1>1. Len(seqs) \in Nat /\ \A i \in 1 .. Len(seqs) : seqs[i] \in Seq(S)
  BY LenProperties, ElementOfSeq
<1>2. PICK m \in Bad : \A k \in Bad : m <= k
  <2>1. Bad \subseteq Nat
    BY <1>1
  <2>. QED  BY <2>1, LeastNumber
<1>3. m \in 0 .. Len(seqs) /\ ~ \E f \in [1 .. m -> Seq(S)] : Joins(f, seqs, m)
  BY <1>2
<1>4. CASE m = 0
  <2>1. [i \in 1 .. 0 |-> seqs[i]] \in [1 .. m -> Seq(S)]
    BY <1>4
  <2>2. \A f : Joins(f, seqs, 0)
    BY DEF Joins
  <2>3. \A f : Joins(f, seqs, m)
    BY <1>4, <2>2
  <2>. QED  BY <1>3, <2>1, <2>3
<1>5. CASE m # 0
  <2>1. m - 1 \in 0 .. Len(seqs) /\ m \in Nat /\ ~(m <= m - 1)
    BY <1>1, <1>3, <1>5
  <2>2. m - 1 \notin Bad
    BY <1>2, <2>1
  <2>3. PICK f \in [1 .. m - 1 -> Seq(S)] : Joins(f, seqs, m - 1)
    BY <2>1, <2>2
  <2>. DEFINE next == IF m = 1 THEN seqs[m] ELSE f[m - 1] \o seqs[m]
              g == [i \in 1 .. m |-> IF i = m THEN next ELSE f[i]]
  <2>4. next \in Seq(S)
    <3>1. seqs[m] \in Seq(S)
      BY <1>1, <1>3, <2>1
    <3>2. CASE m # 1
      <4>1. f[m - 1] \in Seq(S)
        BY <2>1, <3>2
      <4>2. f[m - 1] \o seqs[m] \in Seq(S)
        BY <3>1, <4>1, ConcatProperties
      <4>. QED  BY <3>2, <4>2
    <3>. QED  BY <3>1, <3>2
  <2>. HIDE DEF next
  <2>5. g \in [1 .. m -> Seq(S)]
    BY <2>1, <2>4
  <2>6. Joins(g, seqs, m)
    <3>. SUFFICES ASSUME NEW i \in 1 .. m
                  PROVE  g[i] = IF i = 1 THEN seqs[i] ELSE g[i - 1] \o seqs[i]
      BY DEF Joins
    <3>1. CASE i = m
      <4>1. i # 1 => g[i - 1] = f[m - 1]
        BY <2>1, <3>1
      <4>. QED  BY <2>1, <3>1, <4>1 DEF next
    <3>2. CASE i # m
      <4>1. i \in 1 .. m - 1 /\ g[i] = f[i] /\ (i # 1 => g[i - 1] = f[i - 1])
        BY <2>1, <3>2
      <4>2. f[i] = IF i = 1 THEN seqs[i] ELSE f[i - 1] \o seqs[i]
        BY <2>3, <4>1 DEF Joins
      <4>. HIDE DEF g
      <4>. QED  BY <4>1, <4>2
    <3>. QED  BY <3>1, <3>2
  <2>. QED  BY <1>3, <2>5, <2>6
<1>. QED  BY <1>4, <1>5

LEMMA JoinsAgree ==
  ASSUME NEW f, NEW g, NEW s, NEW t, NEW n \in Nat,
         Joins(f, s, n), Joins(g, t, n), \A i \in 1 .. n : s[i] = t[i]
  PROVE  \A i \in 1 .. n : f[i] = g[i]
<1>. DEFINE Bad == {i \in 1 .. n : f[i] # g[i]}
<1>. SUFFICES ASSUME Bad # {} PROVE FALSE
  OBVIOUS
<1>1. PICK m \in Bad : \A k \in Bad : m <= k
  <2>1. Bad \subseteq Nat
    OBVIOUS
  <2>. QED  BY <2>1, LeastNumber
<1>2. m \in 1 .. n /\ f[m] # g[m]
  BY <1>1
<1>3. m # 1 => f[m - 1] = g[m - 1]
  <2>. SUFFICES ASSUME m # 1 PROVE m - 1 \notin Bad
    BY <1>2
  <2>1. ~(m <= m - 1)
    BY <1>2
  <2>. QED  BY <1>1, <2>1
<1>4. f[m] = (IF m = 1 THEN s[m] ELSE f[m - 1] \o s[m])
      /\ g[m] = (IF m = 1 THEN t[m] ELSE g[m - 1] \o t[m])
      /\ s[m] = t[m]
  BY <1>2 DEF Joins
<1>. QED  BY <1>2, <1>3, <1>4

LEMMA FlattenIsJoin ==
  ASSUME NEW S, NEW seqs \in Seq(Seq(S)), NEW f, Joins(f, seqs, Len(seqs))
  PROVE  Controller!FlattenSeq(seqs) = IF seqs = <<>> THEN <<>> ELSE f[Len(seqs)]
<1>. DEFINE n == Len(seqs)
            Def(h) == h = [i \in 1 .. n |-> IF i = 1 THEN seqs[i] ELSE h[i - 1] \o seqs[i]]
<1>1. n \in Nat /\ (n = 0 <=> seqs = <<>>)
  BY LenProperties, EmptySeq
<1>2. CASE n = 0
  BY <1>1, <1>2 DEF Controller!FlattenSeq
<1>3. CASE n # 0
  <2>1. Controller!FlattenSeq(seqs) = (CHOOSE h : Def(h))[n]
    BY <1>3 DEF Controller!FlattenSeq
  <2>2. PICK g \in [1 .. n -> Seq(S)] : Joins(g, seqs, n)
    BY <1>1, JoinsExist
  <2>3. Def(g)
    BY <2>2 DEF Joins
  <2>. DEFINE h == CHOOSE h : Def(h)
  <2>4. Def(h)
    BY <2>3
  <2>5. Joins(h, seqs, n)
    <3>. HIDE DEF h
    <3>. QED  BY <2>4 DEF Joins
  <2>. HIDE DEF h
  <2>6. h[n] = f[n]
    BY <1>1, <1>3, <2>5, JoinsAgree
  <2>. QED  BY <1>1, <1>3, <2>1, <2>6 DEF h
<1>. QED  BY <1>2, <1>3

LEMMA FlattenAppend ==
  ASSUME NEW S, NEW seqs \in Seq(Seq(S)), NEW w \in Seq(S)
  PROVE  /\ Controller!FlattenSeq(seqs) \in Seq(S)
         /\ Controller!FlattenSeq(Append(seqs, w)) = Controller!FlattenSeq(seqs) \o w
<1>. DEFINE n == Len(seqs)
            more == Append(seqs, w)
<1>1. n \in Nat /\ (n = 0 <=> seqs = <<>>)
  BY LenProperties, EmptySeq
<1>2. /\ more \in Seq(Seq(S)) /\ more # <<>> /\ Len(more) = n + 1
      /\ \A i \in 1 .. n : more[i] = seqs[i]
      /\ more[n + 1] = w
  BY AppendProperties
<1>. HIDE DEF more
<1>3. PICK f \in [1 .. n + 1 -> Seq(S)] : Joins(f, more, n + 1)
  <2>1. n + 1 \in 0 .. Len(more)
    BY <1>1, <1>2
  <2>. QED  BY <1>2, <2>1, JoinsExist
<1>4. Joins(f, seqs, n)
  <2>1. 1 .. n \subseteq 1 .. n + 1
    BY <1>1
  <2>. QED  BY <1>2, <1>3, <2>1 DEF Joins
<1>5. Controller!FlattenSeq(more) = f[n + 1]
  BY <1>2, <1>3, FlattenIsJoin
<1>6. Controller!FlattenSeq(seqs) = IF n = 0 THEN <<>> ELSE f[n]
  BY <1>1, <1>4, FlattenIsJoin
<1>7. f[n + 1] = IF n = 0 THEN w ELSE f[n] \o w
  <2>1. n + 1 \in 1 .. n + 1 /\ (n = 0 <=> n + 1 = 1) /\ (n + 1) - 1 = n
    BY <1>1
  <2>2. f[n + 1] = IF n + 1 = 1 THEN more[n + 1] ELSE f[(n + 1) - 1] \o more[n + 1]
    BY <1>3, <2>1 DEF Joins
  <2>. QED  BY <1>2, <2>1, <2>2
<1>8. CASE n = 0
  BY <1>5, <1>6, <1>7, <1>8, EmptySeq, ConcatEmptySeq DEF more
<1>9. CASE n # 0
  <2>1. f[n] \in Seq(S)
    BY <1>1, <1>9
  <2>. QED  BY <1>5, <1>6, <1>7, <1>9, <2>1 DEF more
<1>. QED  BY <1>8, <1>9

-----------------------------------------------------------------------------
(* Escaping.                                                               *)

\* Names that keep the provers from taking sequences to pieces.
Joined(s, t) == s \o t
One(c) == <<c>>
Two(b, c) == Joined(One(b), One(c))

LEMMA ReplaceAppend ==
  ASSUME NEW S, NEW text \in Seq(S), NEW d \in S, NEW char, NEW by \in Seq(S)
  PROVE  /\ Controller!Replace(<<>>, char, by) = <<>>
         /\ Controller!Replace(text, char, by) \in Seq(S)
         /\ d = char => Controller!Replace(Append(text, d), char, by)
                          = Joined(Controller!Replace(text, char, by), by)
         /\ d # char => Controller!Replace(Append(text, d), char, by)
                          = Joined(Controller!Replace(text, char, by), One(d))
<1>. DEFINE W(c) == IF c = char THEN by ELSE <<c>>
            n == Len(text)
            pieces == [i \in DOMAIN text |-> W(text[i])]
            more == [i \in DOMAIN Append(text, d) |-> W(Append(text, d)[i])]
<1>1. /\ n \in Nat /\ DOMAIN text = 1 .. n /\ \A i \in 1 .. n : text[i] \in S
  BY LenProperties, ElementOfSeq
<1>2. /\ Append(text, d) \in Seq(S) /\ Len(Append(text, d)) = n + 1
      /\ \A i \in 1 .. n : Append(text, d)[i] = text[i]
      /\ Append(text, d)[n + 1] = d
  BY AppendProperties
<1>3. DOMAIN Append(text, d) = 1 .. n + 1
  BY <1>2, LenProperties
<1>4. \A c \in S : W(c) \in Seq(S)
  OBVIOUS
<1>5. pieces \in Seq(Seq(S)) /\ Len(pieces) = n /\ \A i \in 1 .. n : pieces[i] = W(text[i])
  <2>. HIDE DEF W
  <2>1. pieces \in [1 .. n -> Seq(S)]
    BY <1>1, <1>4
  <2>2. pieces \in Seq(Seq(S))
    BY <1>1, <2>1, SeqDef
  <2>. QED  BY <1>1, <2>1, <2>2, LenProperties
<1>6. more \in Seq(Seq(S)) /\ Len(more) = n + 1
      /\ \A i \in 1 .. n : more[i] = W(text[i])
      /\ more[n + 1] = W(d)
  <2>1. \A i \in 1 .. n : more[i] = W(text[i])
    BY <1>1, <1>2, <1>3
  <2>2. more[n + 1] = W(d)
    BY <1>1, <1>2, <1>3
  <2>3. more \in [1 .. n + 1 -> Seq(S)]
    <3>1. DOMAIN more = 1 .. n + 1 /\ more = [i \in 1 .. n + 1 |-> more[i]]
      BY <1>3
    <3>2. \A i \in 1 .. n + 1 : i \in 1 .. n \/ i = n + 1
      BY <1>1
    <3>. HIDE DEF more, W
    <3>. QED  BY <1>1, <1>4, <2>1, <2>2, <3>1, <3>2
  <2>4. more \in Seq(Seq(S))
    BY <1>1, <2>3, SeqDef
  <2>. HIDE DEF more, W
  <2>. QED  BY <1>1, <2>1, <2>2, <2>3, <2>4, LenProperties
<1>7. more = Append(pieces, W(d))
  <2>. DEFINE w == W(d)
              longer == Append(pieces, w)
  <2>1. w \in Seq(S)
    BY <1>4
  <2>3. more[n + 1] = w
    BY <1>6 DEF w
  <2>9. \A i \in 1 .. n : more[i] = W(text[i])
    BY <1>6
  <2>. HIDE DEF more, pieces, W, w
  <2>2. /\ longer \in Seq(Seq(S)) /\ Len(longer) = Len(pieces) + 1
        /\ \A i \in 1 .. Len(pieces) : longer[i] = pieces[i]
        /\ longer[Len(pieces) + 1] = w
    BY <1>5, <2>1, AppendProperties
  <2>. HIDE DEF longer
  <2>4. \A i \in 1 .. n : more[i] = longer[i]
    BY <1>5, <1>6, <2>2
  <2>5. Len(longer) = n + 1 /\ longer[n + 1] = w
    BY <1>5, <2>2
  <2>6. \A i \in 1 .. n + 1 : i \in 1 .. n \/ i = n + 1
    BY <1>1
  <2>7. \A i \in 1 .. Len(more) : more[i] = longer[i]
    BY <1>6, <2>3, <2>4, <2>5, <2>6
  <2>8. more = longer
    BY <1>6, <2>2, <2>5, <2>7, SeqEqual
  <2>. QED  BY <2>8 DEF longer, w
<1>8. /\ Controller!Replace(text, char, by) = Controller!FlattenSeq(pieces)
      /\ Controller!Replace(Append(text, d), char, by) = Controller!FlattenSeq(more)
  BY DEF Controller!Replace
<1>9. Controller!Replace(<<>>, char, by) = <<>>
  <2>. DEFINE none == [i \in DOMAIN <<>> |-> IF <<>>[i] = char THEN by ELSE <<(<<>>[i])>>]
  <2>1. none = <<>>
    BY EmptySeq
  <2>2. Controller!Replace(<<>>, char, by) = Controller!FlattenSeq(none)
    BY DEF Controller!Replace
  <2>. QED  BY <2>1, <2>2, EmptySeq DEF Controller!FlattenSeq
<1>10. W(d) \in Seq(S)
  BY <1>4
<1>. HIDE DEF more, pieces
<1>11. /\ Controller!FlattenSeq(pieces) \in Seq(S)
       /\ Controller!FlattenSeq(more) = Joined(Controller!FlattenSeq(pieces), W(d))
  BY <1>5, <1>7, <1>10, FlattenAppend DEF Joined
<1>. QED  BY <1>8, <1>9, <1>11 DEF One

LEMMA JoinedTexts ==
  ASSUME NEW S, NEW s \in Seq(S), NEW t \in Seq(S), NEW u \in Seq(S), NEW c \in S
  PROVE  /\ Joined(s, t) \in Seq(S)
         /\ Joined(Joined(s, t), u) = Joined(s, Joined(t, u))
         /\ One(c) \in Seq(S)
         /\ Joined(<<>>, s) = s /\ Joined(s, <<>>) = s
<1>1. Joined(s, t) \in Seq(S)
  BY ConcatProperties DEF Joined
<1>2. Joined(Joined(s, t), u) = Joined(s, Joined(t, u))
  BY ConcatAssociative DEF Joined
<1>3. One(c) \in Seq(S)
  BY DEF One
<1>4. Joined(<<>>, s) = s /\ Joined(s, <<>>) = s
  BY ConcatEmptySeq DEF Joined
<1>. QED  BY <1>1, <1>2, <1>3, <1>4

LEMMA TwoIsTwo ==
  ASSUME NEW S, NEW b \in S, NEW c \in S
  PROVE  Two(b, c) \in Seq(S) /\ Two(b, c) = <<b, c>>
<1>1. One(b) \in Seq(S)
  BY DEF One
<1>2. Append(One(b), c) = Two(b, c)
  BY <1>1, AppendIsConcat DEF Two, Joined, One
<1>3. <<b, c>> \in Seq(S) /\ Len(<<b, c>>) = 2 /\ <<b, c>>[1] = b /\ <<b, c>>[2] = c
  OBVIOUS
<1>4. Append(One(b), c) = <<b, c>>
  <2>. DEFINE s == One(b)
              t == Append(s, c)
              u == <<b, c>>
  <2>1. s \in Seq(S) /\ Len(s) = 1 /\ s[1] = b
    BY DEF One
  <2>. HIDE DEF s
  <2>2. t \in Seq(S) /\ Len(t) = Len(s) + 1 /\ t[Len(s) + 1] = c
        /\ \A i \in 1 .. Len(s) : t[i] = s[i]
    <3>1. s \in Seq(S)
      BY <2>1
    <3>. QED  BY <3>1, AppendProperties
  <2>3. u \in Seq(S) /\ Len(u) = 2 /\ u[1] = b /\ u[2] = c
    BY <1>3
  <2>. HIDE DEF t, u
  <2>4. Len(t) = 2 /\ t[1] = b /\ t[2] = c
    BY <2>1, <2>2
  <2>5. \A i \in 1 .. 2 : i = 1 \/ i = 2
    OBVIOUS
  <2>6. \A i \in 1 .. Len(t) : t[i] = u[i]
    BY <2>3, <2>4, <2>5
  <2>7. t = u
    BY <2>2, <2>3, <2>4, <2>6, SeqEqual
  <2>. QED  BY <2>7 DEF s, t, u
<1>. QED  BY <1>2, <1>3, <1>4, Zenon

LEMMA ReplaceOne ==
  ASSUME NEW S, NEW text \in Seq(S), NEW d \in S, NEW char, NEW by \in Seq(S)
  PROVE  /\ Controller!Replace(text, char, by) \in Seq(S)
         /\ Controller!Replace(Joined(text, One(d)), char, by)
              = Joined(Controller!Replace(text, char, by), IF d = char THEN by ELSE One(d))
<1>. DEFINE new == Controller!Replace(text, char, by)
<1>1. Joined(text, One(d)) = Append(text, d)
  BY AppendIsConcat DEF Joined, One
<1>2. /\ Controller!Replace(text, char, by) \in Seq(S)
      /\ d = char => Controller!Replace(Append(text, d), char, by)
                       = Joined(Controller!Replace(text, char, by), by)
      /\ d # char => Controller!Replace(Append(text, d), char, by)
                       = Joined(Controller!Replace(text, char, by), One(d))
  BY ReplaceAppend
<1>. QED  BY <1>1, <1>2

LEMMA ReplaceTwo ==
  ASSUME NEW S, NEW text \in Seq(S), NEW b \in S, NEW c \in S, NEW char, NEW by \in Seq(S),
         b # char, c # char
  PROVE  Controller!Replace(Joined(text, Two(b, c)), char, by)
           = Joined(Controller!Replace(text, char, by), Two(b, c))
<1>. DEFINE new == Controller!Replace(text, char, by)
            one == Joined(text, One(b))
<1>1. new \in Seq(S) /\ one \in Seq(S) /\ One(b) \in Seq(S) /\ One(c) \in Seq(S)
  BY ReplaceOne, JoinedTexts
<1>2. Joined(text, Two(b, c)) = Joined(one, One(c))
  BY <1>1, JoinedTexts DEF Two
<1>3. Controller!Replace(one, char, by) = Joined(new, One(b))
  BY ReplaceOne
<1>4. Controller!Replace(Joined(one, One(c)), char, by)
        = Joined(Controller!Replace(one, char, by), One(c))
  <2>. HIDE DEF one
  <2>. QED  BY <1>1, ReplaceOne
<1>5. Joined(Joined(new, One(b)), One(c)) = Joined(new, Two(b, c))
  <2>. HIDE DEF new
  <2>. QED  BY <1>1, JoinedTexts DEF Two
<1>. QED  BY <1>2, <1>3, <1>4, <1>5

\* The characters that escaping adds.
Escapes == {Controller!Backslash, Controller!Quote, "n"}

\* What one character becomes.
Escaped(d) ==
  IF d = Controller!Backslash THEN Two(Controller!Backslash, Controller!Backslash)
  ELSE IF d = Controller!NewLine THEN Two(Controller!Backslash, "n")
  ELSE IF d = Controller!Quote THEN Two(Controller!Backslash, Controller!Quote)
  ELSE One(d)

LEMMA EscapeAppend ==
  ASSUME NEW S, Escapes \subseteq S, NEW text \in Seq(S), NEW d \in S
  PROVE  /\ Controller!EscapeLabel(text) \in Seq(S)
         /\ Controller!EscapeLabel(Joined(text, One(d)))
              = Joined(Controller!EscapeLabel(text), Escaped(d))
<1>. DEFINE b == Controller!Backslash
            q == Controller!Quote
            l == Controller!NewLine
            First(t)  == Controller!Replace(t, b, Two(b, b))
            Second(t) == Controller!Replace(t, l, Two(b, "n"))
            Third(t)  == Controller!Replace(t, q, Two(b, q))
<1>1. /\ b # q /\ b # l /\ q # l /\ "n" # b /\ "n" # q /\ "n" # l
      /\ b \in S /\ q \in S /\ "n" \in S
  BY DEF Escapes, Controller!Backslash, Controller!Quote, Controller!NewLine
<1>2. \A t : Controller!EscapeLabel(t) = Third(Second(First(t)))
  <2>1. Two(b, b) = <<b, b>> /\ Two(b, "n") = <<b, "n">> /\ Two(b, q) = <<b, q>>
    <3>. HIDE DEF b, q, l
    <3>. QED  BY <1>1, TwoIsTwo
  <2>. QED  BY <2>1 DEF Controller!EscapeLabel
<1>4. Two(b, b) \in Seq(S) /\ Two(b, "n") \in Seq(S) /\ Two(b, q) \in Seq(S)
  <2>. HIDE DEF b, q, l
  <2>. QED  BY <1>1, TwoIsTwo
<1>3. Escaped(d) = IF d = b THEN Two(b, b) ELSE IF d = l THEN Two(b, "n")
                   ELSE IF d = q THEN Two(b, q) ELSE One(d)
  BY DEF Escaped
<1>5. /\ \A t \in Seq(S) : First(t) \in Seq(S)
      /\ \A t \in Seq(S) : Second(t) \in Seq(S)
      /\ \A t \in Seq(S) : Third(t) \in Seq(S)
  <2>. HIDE DEF b, q, l
  <2>. QED  BY <1>1, <1>4, ReplaceOne
<1>6. /\ \A t \in Seq(S) : First(Joined(t, One(d)))
                             = Joined(First(t), IF d = b THEN Two(b, b) ELSE One(d))
      /\ \A t \in Seq(S) : Second(Joined(t, One(d)))
                             = Joined(Second(t), IF d = l THEN Two(b, "n") ELSE One(d))
      /\ \A t \in Seq(S) : Third(Joined(t, One(d)))
                             = Joined(Third(t), IF d = q THEN Two(b, q) ELSE One(d))
  <2>. HIDE DEF b, q, l
  <2>1. ASSUME NEW t \in Seq(S) PROVE First(Joined(t, One(d)))
                             = Joined(First(t), IF d = b THEN Two(b, b) ELSE One(d))
    BY <1>4, ReplaceOne
  <2>2. ASSUME NEW t \in Seq(S) PROVE Second(Joined(t, One(d)))
                             = Joined(Second(t), IF d = l THEN Two(b, "n") ELSE One(d))
    BY <1>4, ReplaceOne
  <2>3. ASSUME NEW t \in Seq(S) PROVE Third(Joined(t, One(d)))
                             = Joined(Third(t), IF d = q THEN Two(b, q) ELSE One(d))
    BY <1>4, ReplaceOne
  <2>. HIDE DEF First, Second, Third
  <2>. QED  BY <2>1, <2>2, <2>3
<1>7. /\ \A t \in Seq(S) : Second(Joined(t, Two(b, b))) = Joined(Second(t), Two(b, b))
      /\ \A t \in Seq(S) : Third(Joined(t, Two(b, b))) = Joined(Third(t), Two(b, b))
      /\ \A t \in Seq(S) : Third(Joined(t, Two(b, "n"))) = Joined(Third(t), Two(b, "n"))
  <2>. HIDE DEF b, q, l
  <2>1. ASSUME NEW t \in Seq(S) PROVE Second(Joined(t, Two(b, b))) = Joined(Second(t), Two(b, b))
    BY <1>1, <1>4, ReplaceTwo
  <2>2. ASSUME NEW t \in Seq(S) PROVE Third(Joined(t, Two(b, b))) = Joined(Third(t), Two(b, b))
    BY <1>1, <1>4, ReplaceTwo
  <2>3. ASSUME NEW t \in Seq(S)
        PROVE  Third(Joined(t, Two(b, "n"))) = Joined(Third(t), Two(b, "n"))
    BY <1>1, <1>4, ReplaceTwo
  <2>. HIDE DEF First, Second, Third
  <2>. QED  BY <2>1, <2>2, <2>3
<1>. DEFINE one   == First(text)
            two   == Second(one)
            three == Third(two)
            more  == Joined(text, One(d))
<1>8. one \in Seq(S) /\ two \in Seq(S) /\ three \in Seq(S)
  <2>. HIDE DEF First, Second, Third
  <2>. QED  BY <1>5
<1>. HIDE DEF b, q, l, First, Second, Third
<1>9. Third(Second(First(more))) = Joined(three, Escaped(d))
  <2>1. CASE d = b
    BY <1>1, <1>3, <1>6, <1>7, <1>8, <2>1
  <2>2. CASE d = l
    BY <1>1, <1>3, <1>6, <1>7, <1>8, <2>2
  <2>3. CASE d \notin {b, l}
    BY <1>1, <1>3, <1>6, <1>7, <1>8, <2>3
  <2>. QED  BY <2>1, <2>2, <2>3
<1>. QED  BY <1>2, <1>8, <1>9

LEMMA EscapeEmpty == Controller!EscapeLabel(<<>>) = <<>>
<1>. DEFINE S == Escapes
<1>1. /\ Controller!Backslash \in S /\ Controller!Quote \in S /\ "n" \in S
      /\ <<>> \in Seq(S)
  BY DEF Escapes
<1>2. /\ <<Controller!Backslash, Controller!Backslash>> \in Seq(S)
      /\ <<Controller!Backslash, "n">> \in Seq(S)
      /\ <<Controller!Backslash, Controller!Quote>> \in Seq(S)
  BY <1>1
<1>3. \A char : \A by \in Seq(S) : Controller!Replace(<<>>, char, by) = <<>>
  BY <1>1, ReplaceAppend
<1>. HIDE DEF S
<1>. QED  BY <1>2, <1>3 DEF Controller!EscapeLabel

LEMMA LastLetter ==
  ASSUME NEW S, NEW text \in Seq(S), text # <<>>
  PROVE  \E u \in Seq(S), d \in S : text = Joined(u, One(d)) /\ Len(text) = Len(u) + 1
<1>1. PICK u \in Seq(S), d \in S : text = Append(u, d)
  BY SequenceEmptyOrAppend
<1>2. Append(u, d) = Joined(u, One(d)) /\ Len(Append(u, d)) = Len(u) + 1
  BY AppendIsConcat, AppendProperties DEF Joined, One
<1>. QED  BY <1>1, <1>2

LEMMA FirstLetter ==
  ASSUME NEW S, NEW text \in Seq(S), text # <<>>
  PROVE  \E c \in S, u \in Seq(S) : text = Joined(One(c), u) /\ Len(text) = Len(u) + 1
<1>. DEFINE n == Len(text)
            u == SubSeq(text, 2, n)
            c == text[1]
<1>1. n \in Nat \ {0}
  BY EmptySeq
<1>2. \A i \in 1 .. n : text[i] \in S
  BY ElementOfSeq
<1>3. SubSeq(text, 1, n) = text
  BY SubSeqFull
<1>4. 1 \in 1 .. n /\ n \in 1 .. n
  BY <1>1
<1>5. SubSeq(text, 1, n) = <<c>> \o SubSeq(text, 1 + 1, n)
  BY <1>4, SubSeqRecursiveFirst
<1>6. c \in S /\ u \in Seq(S) /\ Len(u) = n - 1
  <2>1. 2 \in Int /\ n \in Int /\ \A i \in 2 .. n : text[i] \in S
    BY <1>1, <1>2
  <2>2. u \in Seq(S) /\ Len(u) = IF 2 <= n THEN n - 2 + 1 ELSE 0
    BY <2>1, SubSeqProperties
  <2>3. c \in S
    BY <1>2, <1>4
  <2>. HIDE DEF c, u, n
  <2>4. (IF 2 <= n THEN n - 2 + 1 ELSE 0) = n - 1
    BY <1>1
  <2>. QED  BY <2>2, <2>3, <2>4
<1>7. text = Joined(One(c), u)
  BY <1>3, <1>5 DEF Joined, One
<1>8. n = Len(u) + 1
  BY <1>1, <1>6
<1>. HIDE DEF c, u
<1>. QED  BY <1>6, <1>7, <1>8

LEMMA EscapedLetter ==
  ASSUME NEW S, Escapes \subseteq S, NEW c \in S
  PROVE  Escaped(c) \in Seq(S)
<1>1. Controller!Backslash \in S /\ Controller!Quote \in S /\ "n" \in S
  BY DEF Escapes
<1>. QED  BY <1>1, TwoIsTwo, JoinedTexts DEF Escaped

LEMMA EscapeFront ==
  ASSUME NEW S, Escapes \subseteq S, NEW c \in S, NEW text \in Seq(S)
  PROVE  Controller!EscapeLabel(Joined(One(c), text))
           = Joined(Escaped(c), Controller!EscapeLabel(text))
<1>. DEFINE Esc(t)  == Controller!EscapeLabel(t)
            Good(t) == Esc(Joined(One(c), t)) = Joined(Escaped(c), Esc(t))
            Bad     == {t \in Seq(S) : ~ Good(t)}
            Lengths == {Len(t) : t \in Bad}
<1>. SUFFICES ASSUME Bad # {} PROVE FALSE
  OBVIOUS
<1>1. PICK t \in Bad : \A u \in Bad : Len(t) <= Len(u)
  <2>1. Lengths \subseteq Nat /\ Lengths # {}
    <3>1. \A u \in Bad : Len(u) \in Nat
      BY LenProperties
    <3>. HIDE DEF Bad
    <3>. QED  BY <3>1
  <2>2. PICK n \in Lengths : \A k \in Lengths : n <= k
    BY <2>1, LeastNumber
  <2>. QED  BY <2>2
<1>2. t \in Seq(S) /\ ~ Good(t)
  BY <1>1
<1>3. /\ Escaped(c) \in Seq(S) /\ One(c) \in Seq(S) /\ <<>> \in Seq(S)
      /\ \A u \in Seq(S) : Esc(u) \in Seq(S)
  <2>1. \A u \in Seq(S) : Esc(u) \in Seq(S)
    BY EscapeAppend
  <2>. QED  BY <2>1, EscapedLetter, JoinedTexts, EmptySeq
<1>4. t # <<>>
  <2>1. Joined(One(c), <<>>) = Joined(<<>>, One(c))
    BY <1>3, JoinedTexts
  <2>2. Esc(Joined(<<>>, One(c))) = Joined(Esc(<<>>), Escaped(c))
    BY <1>3, EscapeAppend
  <2>3. Joined(Esc(<<>>), Escaped(c)) = Joined(Escaped(c), Esc(<<>>))
    BY <1>3, EscapeEmpty, JoinedTexts
  <2>4. Good(<<>>)
    BY <2>1, <2>2, <2>3
  <2>. QED  BY <1>2, <2>4
<1>5. PICK u \in Seq(S), d \in S : t = Joined(u, One(d)) /\ Len(t) = Len(u) + 1
  BY <1>2, <1>4, LastLetter
<1>6. Good(u)
  <2>1. Len(u) \in Nat /\ ~(Len(t) <= Len(u))
    BY <1>5, LenProperties
  <2>2. u \notin Bad
    BY <1>1, <2>1
  <2>. QED  BY <2>2
<1>7. Escaped(d) \in Seq(S) /\ One(d) \in Seq(S) /\ Joined(One(c), u) \in Seq(S)
  BY <1>3, EscapedLetter, JoinedTexts
<1>8. Joined(One(c), t) = Joined(Joined(One(c), u), One(d))
  BY <1>3, <1>5, <1>7, JoinedTexts
<1>9. Esc(Joined(Joined(One(c), u), One(d))) = Joined(Esc(Joined(One(c), u)), Escaped(d))
  BY <1>7, EscapeAppend
<1>10. Esc(t) = Joined(Esc(u), Escaped(d))
  BY <1>5, EscapeAppend
<1>11. Joined(Joined(Escaped(c), Esc(u)), Escaped(d)) = Joined(Escaped(c), Joined(Esc(u), Escaped(d)))
  BY <1>3, <1>7, JoinedTexts
<1>12. Good(t)
  BY <1>6, <1>8, <1>9, <1>10, <1>11
<1>. QED  BY <1>2, <1>12

LEMMA SameLetter ==
  ASSUME NEW S, Escapes \subseteq S, NEW c \in S, NEW d \in S, NEW s \in Seq(S), NEW t \in Seq(S),
         Joined(Escaped(c), s) = Joined(Escaped(d), t)
  PROVE  c = d /\ s = t
<1>. DEFINE b == Controller!Backslash
            q == Controller!Quote
            l == Controller!NewLine
            Special == {b, q, l}
            Second(e) == IF e = b THEN b ELSE IF e = l THEN "n" ELSE q
<1>1. /\ b # q /\ b # l /\ q # l /\ "n" # b /\ "n" # q
      /\ b \in S /\ q \in S /\ "n" \in S
  BY DEF Escapes, Controller!Backslash, Controller!Quote, Controller!NewLine
<1>2. ASSUME NEW e \in S
      PROVE  /\ Escaped(e) \in Seq(S)
             /\ e \in Special => Len(Escaped(e)) = 2 /\ Escaped(e)[1] = b /\ Escaped(e)[2] = Second(e)
             /\ e \notin Special => Len(Escaped(e)) = 1 /\ Escaped(e)[1] = e
  <2>. DEFINE x == Second(e)
  <2>1. CASE e \in Special
    <3>1. Escaped(e) = Two(b, x) /\ x \in S
      BY <1>1, <2>1 DEF Escaped
    <3>. HIDE DEF x, b, Second
    <3>2. Escaped(e) = <<b, x>>
      BY <1>1, <3>1, TwoIsTwo
    <3>3. Len(Escaped(e)) = 2 /\ Escaped(e)[1] = b /\ Escaped(e)[2] = x
      BY <3>2
    <3>. QED  BY <2>1, <3>3, EscapedLetter DEF x
  <2>2. CASE e \notin Special
    <3>1. Escaped(e) = <<e>>
      BY <2>2 DEF Escaped, One
    <3>. HIDE DEF b, q, l
    <3>2. Len(Escaped(e)) = 1 /\ Escaped(e)[1] = e
      BY <3>1
    <3>. QED  BY <2>2, <3>2, EscapedLetter
  <2>. QED  BY <2>1, <2>2
<1>3. ASSUME NEW e \in S, NEW u \in Seq(S)
      PROVE  /\ Joined(Escaped(e), u)[1] = Escaped(e)[1]
             /\ e \in Special => Joined(Escaped(e), u)[2] = Escaped(e)[2]
  <2>. DEFINE w == Escaped(e)
  <2>1. w \in Seq(S) /\ Len(w) \in {1, 2} /\ (e \in Special => Len(w) = 2)
    BY <1>2
  <2>2. Len(u) \in Nat
    BY LenProperties
  <2>. HIDE DEF w
  <2>3. \A i \in 1 .. Len(w) + Len(u) : (w \o u)[i] = IF i <= Len(w) THEN w[i] ELSE u[i - Len(w)]
    BY <2>1, ConcatProperties
  <2>4. (w \o u)[1] = w[1] /\ (Len(w) = 2 => (w \o u)[2] = w[2])
    <3>1. 1 \in 1 .. Len(w) + Len(u) /\ 1 <= Len(w)
      BY <2>1, <2>2
    <3>2. Len(w) = 2 => 2 \in 1 .. Len(w) + Len(u) /\ 2 <= Len(w)
      BY <2>1, <2>2
    <3>. QED  BY <2>3, <3>1, <3>2
  <2>. HIDE DEF Special
  <2>. QED  BY <2>1, <2>4 DEF w, Joined
<1>4. Escaped(c)[1] = Escaped(d)[1] /\ (c \in Special /\ d \in Special => Escaped(c)[2] = Escaped(d)[2])
  <2>. HIDE DEF Special
  <2>. QED  BY <1>3
<1>5. c = d
  <2>1. CASE c \in Special /\ d \in Special
    BY <1>1, <1>2, <1>4, <2>1
  <2>2. CASE c \notin Special \/ d \notin Special
    BY <1>1, <1>2, <1>4, <2>2
  <2>. QED  BY <2>1, <2>2
<1>6. s = t
  <2>. DEFINE w == Escaped(c)
  <2>1. w \in Seq(S) /\ w \o s = w \o t
    BY <1>5, EscapedLetter DEF Joined
  <2>. HIDE DEF w
  <2>. QED  BY <2>1, ConcatSimplifications
<1>. QED  BY <1>5, <1>6

LEMMA EscapeInjective ==
  ASSUME NEW S, Escapes \subseteq S, NEW text \in Seq(S), NEW other \in Seq(S),
         Controller!EscapeLabel(text) = Controller!EscapeLabel(other)
  PROVE  text = other
<1>. DEFINE Esc(t)  == Controller!EscapeLabel(t)
            Good(t) == \A u \in Seq(S) : Esc(t) = Esc(u) => t = u
            Bad     == {t \in Seq(S) : ~ Good(t)}
            Lengths == {Len(t) : t \in Bad}
<1>. SUFFICES ASSUME Bad # {} PROVE FALSE
  OBVIOUS
<1>1. PICK t \in Bad : \A u \in Bad : Len(t) <= Len(u)
  <2>1. Lengths \subseteq Nat /\ Lengths # {}
    <3>1. \A u \in Bad : Len(u) \in Nat
      BY LenProperties
    <3>. HIDE DEF Bad
    <3>. QED  BY <3>1
  <2>2. PICK n \in Lengths : \A k \in Lengths : n <= k
    BY <2>1, LeastNumber
  <2>. QED  BY <2>2
<1>2. PICK u \in Seq(S) : t \in Seq(S) /\ Esc(t) = Esc(u) /\ t # u
  BY <1>1
<1>3. \A v \in Seq(S) : Esc(v) \in Seq(S)
  <2>1. "n" \in S
    BY DEF Escapes
  <2>. QED  BY <2>1, EscapeAppend
<1>4. ASSUME NEW c \in S, NEW v \in Seq(S)
      PROVE  Esc(Joined(One(c), v)) = Joined(Escaped(c), Esc(v)) /\ Esc(Joined(One(c), v)) # <<>>
  <2>1. Esc(Joined(One(c), v)) = Joined(Escaped(c), Esc(v))
    BY EscapeFront
  <2>2. Escaped(c) # <<>>
    BY EscapedLetter, EmptySeq DEF Escaped, Two, One, Joined
  <2>. DEFINE x == Escaped(c)
              y == Esc(v)
  <2>3. x \in Seq(S) /\ y \in Seq(S) /\ x # <<>>
    BY <1>3, <2>2, EscapedLetter
  <2>. HIDE DEF x, y
  <2>4. Joined(x, y) # <<>>
    BY <2>3, ConcatSimplifications DEF Joined
  <2>. QED  BY <2>1, <2>4 DEF x, y
<1>. HIDE DEF Esc
<1>5. t # <<>> /\ u # <<>>
  <2>1. ASSUME NEW v \in Seq(S), v # <<>> PROVE Esc(v) # <<>>
    BY <1>4, <2>1, FirstLetter
  <2>. QED  BY <1>2, <2>1, EscapeEmpty DEF Esc
<1>6. PICK c \in S, v \in Seq(S) : t = Joined(One(c), v) /\ Len(t) = Len(v) + 1
  BY <1>2, <1>5, FirstLetter
<1>7. PICK d \in S, w \in Seq(S) : u = Joined(One(d), w)
  BY <1>5, FirstLetter
<1>8. Joined(Escaped(c), Esc(v)) = Joined(Escaped(d), Esc(w))
  BY <1>2, <1>4, <1>6, <1>7
<1>9. c = d /\ Esc(v) = Esc(w)
  BY <1>3, <1>8, SameLetter
<1>10. v \notin Bad
  <2>1. Len(v) \in Nat /\ ~(Len(t) <= Len(v))
    BY <1>6, LenProperties
  <2>. QED  BY <1>1, <2>1
<1>11. v = w
  BY <1>9, <1>10
<1>. QED  BY <1>2, <1>6, <1>7, <1>9, <1>11
-----------------------------------------------------------------------------
(* Series.                                                                 *)

\* The families and the labels that are exported, whatever a sample has.
Families ==
  {"nodes_total", "node_info", "node_status", "heartbeat_age"}
    \union {"cpu_percent", "memory_percent", "disk_percent", "uptime"}
    \union {"memory_bytes", "disk_bytes", "load_average", "network_bytes"}
    \union {"temperature", "gpu_utilization", "gpu_temperature", "slurm_cpus"}
    \union {"slurm_jobs"}

Words ==
  {"healthy", "warning", "offline", "used"} \union {"total", "allocated", "1", "5"}
    \union {"15", "rx", "tx"}

Labels == {<<>>} \union {<<word>> : word \in Words} \union SensorNames

\* All that escaping may meet.
Letters == Escapes \union Words \union UNION {{name[i] : i \in DOMAIN name} : name \in SensorNames}

Counted(views) == Controller!Cardinality(views)

WithStatus(label) ==
  {view \in {[node |-> "node", status |-> "healthy", latest |-> sample]} : <<view.status>> = label}

\* Family and label of a series decide the rest of it.
Made(family, label) ==
  [family |-> family,
   node   |-> IF family = "nodes_total" THEN None ELSE "node",
   label  |-> label,
   value  |-> IF family = "nodes_total" THEN Counted(WithStatus(label))
              ELSE IF family \in {"node_info", "node_status"} THEN 1
              ELSE IF family = "slurm_jobs" THEN sample.slurm.jobs ELSE None]

LEMMA FourAreFinite ==
  ASSUME NEW a, NEW b, NEW c, NEW d
  PROVE  IsFiniteSet({a, b, c, d})
<1>1. IsFiniteSet({a})
  BY FS_Singleton
<1>2. IsFiniteSet({a} \cup {b})
  BY <1>1, FS_AddElement
<1>3. IsFiniteSet(({a} \cup {b}) \cup {c})
  BY <1>2, FS_AddElement
<1>4. IsFiniteSet((({a} \cup {b}) \cup {c}) \cup {d})
  BY <1>3, FS_AddElement
<1>5. (({a} \cup {b}) \cup {c}) \cup {d} = {a, b, c, d}
  OBVIOUS
<1>. QED  BY <1>4, <1>5

LEMMA FamiliesFinite == IsFiniteSet(Families)
<1>. DEFINE A == {"nodes_total", "node_info", "node_status", "heartbeat_age"}
            B == {"cpu_percent", "memory_percent", "disk_percent", "uptime"}
            C == {"memory_bytes", "disk_bytes", "load_average", "network_bytes"}
            D == {"temperature", "gpu_utilization", "gpu_temperature", "slurm_cpus"}
            E == {"slurm_jobs"}
<1>1. IsFiniteSet(A) /\ IsFiniteSet(B) /\ IsFiniteSet(C) /\ IsFiniteSet(D) /\ IsFiniteSet(E)
  BY FourAreFinite, FS_Singleton
<1>2. Families = (((A \union B) \union C) \union D) \union E
  BY DEF Families
<1>. HIDE DEF A, B, C, D, E
<1>3. IsFiniteSet(A \union B)
  BY <1>1, FS_Union
<1>4. IsFiniteSet((A \union B) \union C)
  BY <1>1, <1>3, FS_Union
<1>5. IsFiniteSet(((A \union B) \union C) \union D)
  BY <1>1, <1>4, FS_Union
<1>. QED  BY <1>1, <1>2, <1>5, FS_Union

LEMMA LabelsFinite == IsFiniteSet(Labels)
<1>. DEFINE A == {"healthy", "warning", "offline", "used"}
            B == {"total", "allocated", "1", "5"}
            C == {"15", "rx", "tx", "tx"}
            f == [word \in Words |-> <<word>>]
            Single == {<<word>> : word \in Words}
<1>1. IsFiniteSet(A) /\ IsFiniteSet(B) /\ IsFiniteSet(C)
  BY FourAreFinite
<1>2. Words = (A \union B) \union C
  BY DEF Words
<1>. HIDE DEF A, B, C
<1>3. IsFiniteSet(A \union B)
  BY <1>1, FS_Union
<1>4. IsFiniteSet(Words)
  BY <1>1, <1>2, <1>3, FS_Union
<1>5. f \in Surjection(Words, Single)
  BY DEF Surjection
<1>6. IsFiniteSet(Single)
  BY <1>4, <1>5, FS_Surjection
<1>7. IsFiniteSet({<<>>})
  BY FS_Singleton
<1>8. IsFiniteSet({<<>>} \union Single)
  BY <1>6, <1>7, FS_Union
<1>9. Labels = ({<<>>} \union Single) \union SensorNames
  BY DEF Labels
<1>. HIDE DEF Single
<1>. QED  BY <1>8, <1>9, NamesAssumption, FS_Union

LEMMA LabelsAreTexts == Labels \subseteq Seq(Letters)
<1>1. <<>> \in Seq(Letters)
  OBVIOUS
<1>2. \A word \in Words : <<word>> \in Seq(Letters)
  BY DEF Letters
<1>3. ASSUME NEW name \in SensorNames PROVE name \in Seq(Letters)
  <2>. DEFINE own == {name[i] : i \in DOMAIN name}
  <2>1. name \in Seq(own)
    BY NamesAssumption
  <2>2. own \subseteq Letters
    BY DEF Letters
  <2>. HIDE DEF own
  <2>. QED  BY <2>1, <2>2, SeqMonotonic
<1>. QED  BY <1>1, <1>2, <1>3 DEF Labels

LEMMA ExportedIsMade ==
  ASSUME TypeOK, outcome = "sample", NEW series \in Exported
  PROVE  \E family \in Families, label \in Labels : series = Made(family, label)
<1>. DEFINE view == [node |-> "node", status |-> "healthy", latest |-> sample]
<1>1. /\ Exported = Controller!NodesTotal({view}) \union Controller!OfEveryNode(view)
                      \union Controller!OfSample(view, sample)
      /\ view.node = "node" /\ view.status = "healthy"
  BY ExportedParts
<1>2. /\ sample.temperatures \subseteq SensorNames
      /\ sample.gpu \subseteq {"utilization", "temperature"}
      /\ sample.slurm # None => sample.slurm.cpus \subseteq {"allocated", "total"}
  BY DEF TypeOK, Samples, Listings, NodeOutputs
<1>3. <<>> \in Labels /\ (\A word \in Words : <<word>> \in Labels) /\ SensorNames \subseteq Labels
  BY DEF Labels
<1>. HIDE DEF view
<1>4. CASE series \in Controller!NodesTotal({view})
  <2>1. PICK status \in {"healthy", "warning", "offline"} :
          series = [family |-> "nodes_total", node |-> None, label |-> <<status>>,
                    value |-> Counted({v \in {view} : v.status = status})]
    BY <1>4 DEF Controller!NodesTotal, Counted
  <2>2. {v \in {view} : v.status = status} = {v \in {view} : <<v.status>> = <<status>>}
    OBVIOUS
  <2>3. "nodes_total" \in Families /\ <<status>> \in Labels
    BY <1>3 DEF Families, Words
  <2>4. series = Made("nodes_total", <<status>>)
    BY <2>1, <2>2 DEF Made, WithStatus, view
  <2>. QED  BY <2>3, <2>4
<1>5. CASE series \in Controller!OfEveryNode(view)
  <2>1. /\ <<"healthy">> \in Labels
        /\ {"node_info", "node_status", "heartbeat_age"} \subseteq Families
    BY <1>3 DEF Families, Words
  <2>2. series \in {Made("node_info", <<>>), Made("node_status", <<"healthy">>),
                    Made("heartbeat_age", <<>>)}
    BY <1>1, <1>5 DEF Controller!OfEveryNode, Controller!Series, Made
  <2>. QED  BY <1>3, <2>1, <2>2
<1>6. CASE series \in Controller!OfSample(view, sample)
  <2>1. CASE \E reading \in Controller!Readings :
               series = Controller!Series(reading[1], view, reading[2], None)
    <3>1. PICK reading \in Controller!Readings :
            series = Controller!Series(reading[1], view, reading[2], None)
      BY <2>1
    <3>2. /\ reading[1] \in Families /\ reading[2] \in Labels
          /\ reading[1] \notin {"nodes_total", "node_info", "node_status", "slurm_jobs"}
      BY <1>3 DEF Controller!Readings, Families, Words
    <3>3. series = Made(reading[1], reading[2])
      BY <1>1, <3>1, <3>2 DEF Controller!Series, Made
    <3>. QED  BY <3>2, <3>3
  <2>2. CASE \E label \in sample.temperatures :
               series = Controller!Series("temperature", view, label, None)
    <3>1. PICK label \in sample.temperatures :
            series = Controller!Series("temperature", view, label, None)
      BY <2>2
    <3>2. "temperature" \in Families /\ label \in Labels
      BY <1>2, <1>3 DEF Families
    <3>3. series = Made("temperature", label)
      BY <1>1, <3>1 DEF Controller!Series, Made
    <3>. QED  BY <3>2, <3>3
  <2>3. CASE \E field \in sample.gpu :
               series = Controller!Series(Controller!GpuFamily[field], view, <<>>, None)
    <3>1. PICK family \in {"gpu_utilization", "gpu_temperature"} :
            series = Controller!Series(family, view, <<>>, None)
      BY <1>2, <2>3 DEF Controller!GpuFamily
    <3>2. family \in Families
      BY DEF Families
    <3>3. series = Made(family, <<>>)
      BY <1>1, <3>1 DEF Controller!Series, Made
    <3>. QED  BY <1>3, <3>2, <3>3
  <2>4. CASE sample.slurm # None /\ series \in Controller!OfSlurm(view, sample.slurm)
    <3>1. CASE \E kind \in sample.slurm.cpus :
                 series = Controller!Series("slurm_cpus", view, <<kind>>, None)
      <4>1. PICK kind \in {"allocated", "total"} :
              series = Controller!Series("slurm_cpus", view, <<kind>>, None)
        BY <1>2, <2>4, <3>1
      <4>2. "slurm_cpus" \in Families /\ <<kind>> \in Labels
        BY <1>3 DEF Families, Words
      <4>3. series = Made("slurm_cpus", <<kind>>)
        BY <1>1, <4>1 DEF Controller!Series, Made
      <4>. QED  BY <4>2, <4>3
    <3>2. CASE series = Controller!Series("slurm_jobs", view, <<>>, sample.slurm.jobs)
      <4>1. "slurm_jobs" \in Families
        BY DEF Families
      <4>2. series = Made("slurm_jobs", <<>>)
        BY <1>1, <3>2 DEF Controller!Series, Made
      <4>. QED  BY <1>3, <4>1, <4>2
    <3>. QED  BY <2>4, <3>1, <3>2 DEF Controller!OfSlurm
  <2>. QED  BY <1>6, <2>1, <2>2, <2>3, <2>4 DEF Controller!OfSample
<1>. QED  BY <1>1, <1>4, <1>5, <1>6

\* No two series of a page look the same to Prometheus, for any names of sensors: escaping
\* is injective, because it can be read from the left, and family and label decide the
\* value.  (_escape_label, render_metrics)
THEOREM SeriesDistinctHolds == Spec => []SeriesDistinct
<1>1. ASSUME TypeOK, outcome # "sample" PROVE SeriesDistinct
  <2>1. Exported = {} /\ {Controller!Identity(series) : series \in Exported} = {}
    BY <1>1 DEF Exported
  <2>. QED  BY <2>1, Zenon DEF SeriesDistinct
<1>2. ASSUME TypeOK, outcome = "sample" PROVE SeriesDistinct
  <2>. DEFINE identities == {Controller!Identity(series) : series \in Exported}
              f == [series \in Exported |-> Controller!Identity(series)]
              made == [x \in Families \X Labels |-> Made(x[1], x[2])]
              All == {Made(x[1], x[2]) : x \in Families \X Labels}
  <2>1. IsFiniteSet(Exported)
    <3>1. IsFiniteSet(Families \X Labels)
      BY FamiliesFinite, LabelsFinite, FS_Product
    <3>2. made \in Surjection(Families \X Labels, All)
      BY DEF Surjection
    <3>3. IsFiniteSet(All)
      BY <3>1, <3>2, FS_Surjection
    <3>4. \A family \in Families, label \in Labels : Made(family, label) \in All
      <4>. SUFFICES ASSUME NEW family \in Families, NEW label \in Labels
                    PROVE  Made(family, label) \in All
        OBVIOUS
      <4>1. <<family, label>> \in Families \X Labels
        OBVIOUS
      <4>. QED  BY <4>1
    <3>5. Exported \subseteq All
      <4>. HIDE DEF All
      <4>. QED  BY <1>2, <3>4, ExportedIsMade
    <3>. HIDE DEF All
    <3>. QED  BY <3>3, <3>5, FS_Subset
  <2>2. f \in Surjection(Exported, identities)
    BY DEF Surjection
  <2>3. ASSUME NEW s \in Exported, NEW t \in Exported, Controller!Identity(s) = Controller!Identity(t)
        PROVE  s = t
    <3>1. PICK sf \in Families, sl \in Labels : s = Made(sf, sl)
      BY <1>2, ExportedIsMade
    <3>2. PICK tf \in Families, tl \in Labels : t = Made(tf, tl)
      BY <1>2, ExportedIsMade
    <3>3. sf = tf /\ Controller!EscapeLabel(sl) = Controller!EscapeLabel(tl)
      BY <2>3, <3>1, <3>2 DEF Made, Controller!Identity
    <3>4. sl \in Seq(Letters) /\ tl \in Seq(Letters) /\ Escapes \subseteq Letters
      BY LabelsAreTexts DEF Letters
    <3>5. sl = tl
      BY <3>3, <3>4, EscapeInjective
    <3>. QED  BY <3>1, <3>2, <3>3, <3>5
  <2>4. f \in Injection(Exported, identities)
    <3>. HIDE DEF identities
    <3>1. \A s, t \in Exported : f[s] = f[t] => s = t
      BY <2>3
    <3>. QED  BY <2>2, <3>1 DEF Injection, Surjection, IsInjective
  <2>5. Cardinality(identities) = Cardinality(Exported)
    <3>. HIDE DEF identities, f
    <3>. QED  BY <2>1, <2>2, <2>4, FS_Surjection
  <2>. QED  BY <2>5 DEF SeriesDistinct
<1>3. TypeOK => SeriesDistinct
  BY <1>1, <1>2
<1>. QED  BY TypeCorrect, <1>3, PTL
=============================================================================
