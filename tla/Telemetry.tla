------------------------------ MODULE Telemetry ------------------------------
(***************************************************************************)
(* From the sensors and the scheduler of a node to GET /metrics: the       *)
(* sample of module Collector, as render_metrics of module Exporter shows  *)
(* it.  The way between them keeps a sample as it is: the schema has the   *)
(* fields of collect, and the store a column for each.                     *)
(***************************************************************************)
EXTENDS Collector

\* A machine has finitely many sensors, and their names are texts.
ASSUME NamesAssumption ==
  /\ IsFiniteSet(SensorNames)
  /\ \A name \in SensorNames : name \in Seq({name[i] : i \in DOMAIN name})

Controller == INSTANCE Exporter WITH Missing <- None

\* What is exported of a node whose newest sample is the last one collected.
Exported ==
  IF outcome = "sample"
  THEN Controller!RenderMetrics({[node |-> "node", status |-> "healthy", latest |-> sample]})
  ELSE {}

Family(name) == {series \in Exported : series.family = name}

-----------------------------------------------------------------------------
\* Sensors whose names differ stay different series however their names are
\* escaped; Prometheus refuses a page that has a series twice.  (_escape_label,
\* render_metrics)
SeriesDistinct ==
  Cardinality({Controller!Identity(series) : series \in Exported}) = Cardinality(Exported)

\* The number of running jobs is what squeue said, unless the sample says that it
\* is cut; when squeue failed there is no number, and never zero.  The CPU counts
\* are there whenever scontrol gave them.  (SlurmCollector.collect, render_metrics)
SlurmShownAsHeard ==
  outcome = "sample" =>
    /\ lines = None <=> Family("slurm_jobs") = {}
    /\ \A jobs \in Family("slurm_jobs") :
         sample.slurm.truncated \/ jobs.value = Cardinality({i \in DOMAIN lines : lines[i]})
    /\ {cpus.label[1] : cpus \in Family("slurm_cpus")} = IF node = None THEN {} ELSE node
=============================================================================
