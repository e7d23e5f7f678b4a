------------------------------ MODULE Collector ------------------------------
(***************************************************************************)
(* TelemetryCollector.collect of clusterwatch/agent/telemetry.py, one      *)
(* collection after another: the readings of psutil and sysfs, any of      *)
(* which can be missing or raise, and the three subprocesses it waits for, *)
(* any of which can be missing, fail, or ignore time and signals.          *)
(*                                                                         *)
(* Of the readings, the bytes that went over the network are counted (rx   *)
(* and tx alike, and not divided by the time they took); a temperature is  *)
(* the name of its sensor; of the GPU a sample has some of its fields.     *)
(***************************************************************************)
EXTENDS Slurm

CONSTANTS
  SensorNames,    \* of temperature sensors
  GpuNames,       \* those with "gpu" in them
  StatsTimeout,   \* the half second tegrastats is given, and given again
  SlurmTimeout,   \* the two seconds each Slurm command is given
  JobLimit,       \* max_length of SlurmTelemetry.running_jobs
  MaxMoved        \* bound on the traffic

ASSUME CollectorAssumption ==
  /\ GpuNames \subseteq SensorNames
  /\ {StatsTimeout, SlurmTimeout, JobLimit, MaxMoved} \subseteq Nat
  /\ MaxJobs <= JobLimit   \* both are 100

VARIABLES
  pc,        \* the stage collect is in, "idle" between collections
  child,     \* the subprocess it started and has not reaped
  wait,      \* what is left of the time it is given
  spent,     \* how long the collection has taken
  moved,     \* bytes that ever went over the network
  counter,   \* psutil.net_io_counters()
  last,      \* _last_network
  sample,    \* the fields collected so far
  node,      \* node_output
  lines,     \* job_output
  outcome,   \* how the last collection ended: with a sample, or with an exception;
             \* that of text that does not decode is kept apart
  reported   \* history: the bytes in all samples

network == <<moved, counter, last>>
slurm   == <<node, lines>>
vars == <<pc, child, wait, spent, network, sample, slurm, outcome, reported>>

\* More than a collection may take: time is not counted beyond.
MaxSpent == 2 * StatsTimeout + 2 * SlurmTimeout + 1

Blank == [bytes |-> 0, temperatures |-> {}, gpu |-> {}, slurm |-> None]

Samples == [bytes        : Nat,
            temperatures : SUBSET SensorNames,
            gpu          : SUBSET {"utilization", "temperature"},
            slurm        : Listings \union {None}]

ASSUME SampleAssumption == None \notin Samples

\* The lines squeue may print: up to one more than are kept.
Outputs == UNION {[1 .. n -> BOOLEAN] : n \in 0 .. MaxJobs + 1}

TypeOK ==
  /\ pc \in {"idle", "linux", "sensors", "gpu", "tegrastats", "cpu", "scontrol", "squeue"}
  /\ child \in {"none", "running", "terminated"}
  /\ wait \in 0 .. StatsTimeout + SlurmTimeout
  /\ spent \in 0 .. MaxSpent
  /\ moved \in 0 .. MaxMoved /\ counter \in 0 .. moved /\ last \in 0 .. moved
  /\ reported \in Nat
  /\ sample \in Samples
  /\ node \in NodeOutputs \union {None}
  /\ lines \in Outputs \union {None}
  /\ outcome \in {"none", "sample", "error", "undecodable"}

\* The first readings of __init__.
Init ==
  /\ pc = "idle"
  /\ child = "none"
  /\ wait = 0
  /\ spent = 0
  /\ moved = 0 /\ counter = 0 /\ last = 0
  /\ sample = Blank
  /\ node = None /\ lines = None
  /\ outcome = "none"
  /\ reported = 0

-----------------------------------------------------------------------------
(* The network, between two readings of its counter.                       *)

Move ==
  /\ pc = "idle"
  /\ moved < MaxMoved
  /\ moved' = moved + 1
  /\ counter' = counter + 1
  /\ UNCHANGED <<pc, child, wait, spent, last, sample, slurm, outcome, reported>>

\* An interface goes, and its bytes with it.
Reset ==
  /\ pc = "idle"
  /\ counter > 0
  /\ counter' = 0
  /\ UNCHANGED <<pc, child, wait, spent, moved, last, sample, slurm, outcome, reported>>

-----------------------------------------------------------------------------
(* Stages that wait for nothing.                                           *)

Begin ==
  /\ pc = "idle"
  /\ pc' = "linux"
  /\ spent' = 0
  /\ sample' = Blank
  /\ node' = None /\ lines' = None
  /\ outcome' = "none"
  /\ UNCHANGED <<child, wait, network, reported>>

\* An exception leaves collect: of psutil, of a sensor without a number, of a
\* path that must not be looked at.  What ReadLinux remembered stays remembered.
Raise ==
  /\ pc \in {"linux", "sensors", "gpu", "cpu"}
  /\ pc' = "idle"
  /\ outcome' = "error"
  /\ UNCHANGED <<child, wait, spent, network, sample, slurm, reported>>

\* Variants for the mutation runs: the counter is compared with the first reading
\* for ever; a counter that was reset gives a negative difference.
ReadLinuxKeeping ==
  /\ pc = "linux"
  /\ pc' = "sensors"
  /\ sample' = [sample EXCEPT !.bytes = IF counter > last THEN counter - last ELSE 0]
  /\ UNCHANGED <<child, wait, spent, network, slurm, outcome, reported>>

ReadLinuxSigned ==
  /\ pc = "linux"
  /\ pc' = "sensors"
  /\ sample' = [sample EXCEPT !.bytes = counter - last]
  /\ last' = counter
  /\ UNCHANGED <<child, wait, spent, moved, counter, slurm, outcome, reported>>

ReadLinux ==
  /\ pc = "linux"
  /\ pc' = "sensors"
  /\ sample' = [sample EXCEPT !.bytes = IF counter > last THEN counter - last ELSE 0]
  /\ last' = counter
  /\ UNCHANGED <<child, wait, spent, moved, counter, slurm, outcome, reported>>

\* psutil's sensors, as far as they could be read; the thermal zones if there are
\* none.
ReadTemperatures ==
  /\ pc = "sensors"
  /\ pc' = "gpu"
  /\ \E psutil, zones \in SUBSET SensorNames :
       sample' = [sample EXCEPT !.temperatures = IF psutil # {} THEN psutil ELSE zones]
  /\ UNCHANGED <<child, wait, spent, network, slurm, outcome, reported>>

\* The temperature tegrastats did not print may be one of the sensors.
Completed(gpu, temperatures) ==
  gpu \union (IF temperatures \intersect GpuNames # {} THEN {"temperature"} ELSE {})

\* Jetson telemetry is off, or there is no tegrastats: the load of sysfs, if any.
ReadGpu ==
  /\ pc = "gpu"
  /\ pc' = "cpu"
  /\ \/ UNCHANGED sample
     \/ \E load \in SUBSET {"utilization"} :
          sample' = [sample EXCEPT !.gpu = Completed(load, sample.temperatures)]
  /\ UNCHANGED <<child, wait, spent, network, slurm, outcome, reported>>

ReadCpu ==
  /\ pc = "cpu"
  /\ pc' = "scontrol"
  /\ UNCHANGED <<child, wait, spent, network, sample, slurm, outcome, reported>>

-----------------------------------------------------------------------------
(* tegrastats.                                                             *)

StartStats ==
  /\ pc = "gpu"
  /\ \E load \in SUBSET {"utilization"} : sample' = [sample EXCEPT !.gpu = load]
  /\ \/ /\ pc' = "tegrastats"
        /\ child' = "running"
        /\ wait' = StatsTimeout
        /\ UNCHANGED outcome
     \/ \* Popen raises: nobody catches it
        /\ pc' = "idle"
        /\ outcome' = "error"
        /\ UNCHANGED <<child, wait>>
  /\ UNCHANGED <<spent, network, slurm, reported>>

\* Its output, whatever there is.
StatsRead ==
  /\ pc' = "cpu"
  /\ \E printed \in SUBSET {"utilization", "temperature"} :
       sample' = [sample EXCEPT !.gpu = Completed(@ \union printed, sample.temperatures)]
  /\ wait' = 0
  /\ UNCHANGED <<spent, network, slurm, outcome, reported>>

\* It ends, of its own or because it was told to.
StatsEnd ==
  /\ pc = "tegrastats"
  /\ child' = "none"
  /\ StatsRead

TerminateStats ==
  /\ pc = "tegrastats"
  /\ child = "running"
  /\ wait = 0
  /\ child' = "terminated"
  /\ wait' = StatsTimeout
  /\ UNCHANGED <<pc, spent, network, sample, slurm, outcome, reported>>

\* Variants: after terminate, collect waits as long as it takes, or not at all.
KillStatsNever == FALSE

KillStatsLeaving ==
  /\ pc = "tegrastats"
  /\ child = "terminated"
  /\ wait = 0
  /\ UNCHANGED child
  /\ StatsRead

\* A killed child ends, and its pipe with it: the communicate that follows has no
\* timeout, and would wait for a grandchild that kept the pipe open.  tegrastats
\* is taken to start none.
KillStats ==
  /\ pc = "tegrastats"
  /\ child = "terminated"
  /\ wait = 0
  /\ child' = "none"
  /\ StatsRead

-----------------------------------------------------------------------------
(* scontrol and squeue: _run.                                              *)

InSlurm == pc \in {"scontrol", "squeue"}

StartCommand ==
  /\ InSlurm
  /\ child = "none"
  /\ child' = "running"
  /\ wait' = SlurmTimeout
  /\ UNCHANGED <<pc, spent, network, sample, slurm, outcome, reported>>

\* A command has given this output, or none; the second one ends the collection.
Leave(out) ==
  /\ child' = "none"
  /\ wait' = 0
  /\ UNCHANGED <<spent, network>>
  /\ \/ /\ pc = "scontrol"
        /\ pc' = "squeue"
        /\ node' = out
        /\ UNCHANGED <<sample, lines, outcome, reported>>
     \/ /\ pc = "squeue"
        /\ pc' = "idle"
        /\ lines' = out
        /\ sample' = [sample EXCEPT !.slurm = SlurmOf(node, out)]
        /\ outcome' = "sample"
        /\ reported' = reported + sample.bytes
        /\ UNCHANGED node

\* Missing, or not to be started.
NoCommand == child = "none" /\ Leave(None)

CommandEnds ==
  /\ InSlurm
  /\ child = "running"
  /\ \E out \in {None} \union (IF pc = "scontrol" THEN NodeOutputs ELSE Outputs) : Leave(out)

\* Variants: the timeout goes out of collect; the command is given its time again.
TimeOutRaising ==
  /\ InSlurm /\ child = "running" /\ wait = 0
  /\ child' = "none"
  /\ pc' = "idle"
  /\ outcome' = "error"
  /\ UNCHANGED <<wait, spent, network, sample, slurm, reported>>

TimeOutAgain ==
  /\ InSlurm /\ child = "running" /\ wait = 0
  /\ \/ Leave(None)
     \/ wait' = SlurmTimeout
        /\ UNCHANGED <<pc, child, spent, network, sample, slurm, outcome, reported>>

\* subprocess.run kills the command and waits for it.
TimeOut == InSlurm /\ child = "running" /\ wait = 0 /\ Leave(None)

\* A subprocess ended with text that does not decode.  No handler expects that:
\* the exception leaves collect.
Garbled ==
  /\ child # "none"
  /\ child' = "none"
  /\ wait' = 0
  /\ pc' = "idle"
  /\ outcome' = "undecodable"
  /\ UNCHANGED <<spent, network, sample, slurm, reported>>

-----------------------------------------------------------------------------
\* Only subprocesses take time, and no longer than they are given.
Tick ==
  /\ child # "none"
  /\ wait > 0
  /\ wait' = wait - 1
  /\ spent' = IF spent < MaxSpent THEN spent + 1 ELSE spent
  /\ UNCHANGED <<pc, child, network, sample, slurm, outcome, reported>>

\* What collect does of its own.
Own ==
  \/ ReadLinux \/ ReadTemperatures \/ ReadGpu \/ ReadCpu
  \/ StartStats \/ TerminateStats \/ KillStats
  \/ StartCommand \/ NoCommand \/ TimeOut

Next ==
  \/ Own \/ Raise \/ Begin
  \/ StatsEnd \/ CommandEnds \/ Garbled \/ Tick
  \/ Move \/ Reset

Spec == Init /\ [][Next]_vars

\* collect goes on, and time passes.  No subprocess needs to end before it is
\* killed.
FairSpec == Spec /\ WF_vars(Own) /\ WF_vars(Tick)

-----------------------------------------------------------------------------
\* A subprocess does not outlive the stage that waits for it: whatever ends a
\* collection, none is left behind.  (_sample_tegrastats, _run)
NoChildLeft ==
  /\ child = "running" => pc \in {"tegrastats", "scontrol", "squeue"}
  /\ child = "terminated" => pc = "tegrastats"

\* A sample passes the controller's schema, which would refuse all of it for one
\* field: a counter that was reset is no negative rate, and no list of jobs is
\* too long.  (collect, SlurmCollector.collect, MetricSample)
SampleFitsSchema ==
  outcome = "sample" =>
    /\ sample.bytes >= 0
    /\ sample.slurm # None /\ sample.slurm.jobs # None => sample.slurm.jobs <= JobLimit

\* Through failed collections and counters that were reset, no byte is reported
\* twice.  (collect: _last_network)
TrafficCountedOnce == reported <= moved

\* Whatever the subprocesses do, collect comes to an end.  (_sample_tegrastats,
\* _run)
CollectReturns == pc = "linux" ~> pc = "idle"

\* And takes no longer than two times for tegrastats and one for each command of
\* Slurm: Collection of module Timing.  (_sample_tegrastats, _run)
CollectionBounded == spent <= 2 * StatsTimeout + 2 * SlurmTimeout

\* A collection that has come to its Slurm commands ends with its sample or with the
\* exception of text that does not decode, and with nothing else: missing commands,
\* outages, nonzero exits and timeouts never cost the rest of the sample (README.md:115).
\* (SlurmCollector._run, collect)
OnlyUndecodableCosts ==
  [][InSlurm /\ pc' = "idle" => outcome' \in {"sample", "undecodable"}]_vars
=============================================================================
