------------------------------ MODULE Exporter ------------------------------
(***************************************************************************)
(* render_metrics of clusterwatch/controller/prometheus.py: which series   *)
(* GET /metrics has for the node views of the store.  A series is its      *)
(* family, its node, the label that tells it from the others of its family *)
(* and its value, which is left out where it is a reading; so are help     *)
(* texts, hostnames and the formatting of numbers.  A text is a sequence   *)
(* of characters.                                                          *)
(***************************************************************************)
EXTENDS Integers, FiniteSets, SequencesExt

CONSTANT Missing   \* None of Python

Backslash == "\\"
Quote     == "\""
NewLine   == "\n"

Replace(text, char, by) ==
  FlattenSeq([i \in DOMAIN text |-> IF text[i] = char THEN by ELSE <<text[i]>>])

\* Variant for the mutation runs: the backslashes come last.
EscapeLabelLate(text) ==
  LET lines  == Replace(text, NewLine, <<Backslash, "n">>)
      quoted == Replace(lines, Quote, <<Backslash, Quote>>)
  IN  Replace(quoted, Backslash, <<Backslash, Backslash>>)

EscapeLabel(text) ==
  LET slashes == Replace(text, Backslash, <<Backslash, Backslash>>)
      lines   == Replace(slashes, NewLine, <<Backslash, "n">>)
  IN  Replace(lines, Quote, <<Backslash, Quote>>)

Series(family, view, label, value) ==
  [family |-> family, node |-> view.node, label |-> label, value |-> value]

\* The families every registered node is in.
OfEveryNode(view) ==
  {Series("node_info", view, <<>>, 1),
   Series("node_status", view, <<view.status>>, 1),
   Series("heartbeat_age", view, <<>>, Missing)}

\* The families of the readings every sample has, with their labels.
Readings ==
  ({"cpu_percent", "memory_percent", "disk_percent", "uptime"} \X {<<>>})
    \union ({"memory_bytes", "disk_bytes"} \X {<<"used">>, <<"total">>})
    \union ({"load_average"} \X {<<"1">>, <<"5">>, <<"15">>})
    \union ({"network_bytes"} \X {<<"rx">>, <<"tx">>})

GpuFamily == [utilization |-> "gpu_utilization", temperature |-> "gpu_temperature"]

\* The families of what a sample may have: sensors, GPU and Slurm.
OfSlurm(view, slurm) ==
  {Series("slurm_cpus", view, <<kind>>, Missing) : kind \in slurm.cpus}
    \union (IF slurm.jobs = Missing THEN {} ELSE {Series("slurm_jobs", view, <<>>, slurm.jobs)})

OfSample(view, sample) ==
  {Series(reading[1], view, reading[2], Missing) : reading \in Readings}
    \union {Series("temperature", view, name, Missing) : name \in sample.temperatures}
    \union {Series(GpuFamily[field], view, <<>>, Missing) : field \in sample.gpu}
    \union (IF sample.slurm = Missing THEN {} ELSE OfSlurm(view, sample.slurm))

NodesTotal(views) ==
  {[family |-> "nodes_total", node |-> Missing, label |-> <<status>>,
    value  |-> Cardinality({view \in views : view.status = status})] :
      status \in {"healthy", "warning", "offline"}}

RenderMetrics(views) ==
  NodesTotal(views)
    \union (UNION {OfEveryNode(view) : view \in views})
    \union (UNION {OfSample(view, view.latest) : view \in {v \in views : v.latest # Missing}})

\* What Prometheus tells series apart by.
Identity(series) == [series EXCEPT !.label = EscapeLabel(@), !.value = Missing]
=============================================================================
