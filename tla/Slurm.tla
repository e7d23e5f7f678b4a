-------------------------------- MODULE Slurm --------------------------------
(***************************************************************************)
(* What clusterwatch/agent/slurm.py makes of the output of scontrol and    *)
(* squeue.  None is an output that is not there: the command is missing,   *)
(* could not be started, failed or took too long.  scontrol prints fields, *)
(* of which only the CPU counts are kept: those that are numbers.  squeue  *)
(* prints lines, TRUE for one with its four parts; what the parts say, and *)
(* the limits of their length, are left out.                               *)
(***************************************************************************)
EXTENDS Integers, Sequences, FiniteSets

CONSTANTS
  None,
  MaxJobs   \* MAX_JOBS

ASSUME SlurmAssumption == MaxJobs \in Nat

NodeOutputs == SUBSET {"allocated", "total"}

\* What a sample says of Slurm; no jobs listed is not the same as no list.
Listings == [cpus : NodeOutputs, jobs : Nat \union {None}, truncated : BOOLEAN]

ASSUME NoneAssumption == None \notin Nat \union Listings

\* Variant for the mutation runs: all well-formed lines become jobs.
JobsUncut(lines) == Cardinality({i \in DOMAIN lines : lines[i]})

\* How many jobs are listed: of the first MaxJobs lines, the well-formed ones.
Jobs(lines) == Cardinality({i \in 1 .. MaxJobs : i <= Len(lines) /\ lines[i]})

\* Variant: one probe that fails takes the other with it.
SlurmOfBoth(node, lines) ==
  IF node = None \/ lines = None
  THEN None
  ELSE [cpus      |-> node,
        jobs      |-> Jobs(lines),
        truncated |-> Len(lines) > MaxJobs]

\* SlurmCollector.collect, on the outputs of its two commands.
SlurmOf(node, lines) ==
  IF node = None /\ lines = None
  THEN None
  ELSE [cpus      |-> IF node = None THEN {} ELSE node,
        jobs      |-> IF lines = None THEN None ELSE Jobs(lines),
        truncated |-> lines # None /\ Len(lines) > MaxJobs]
=============================================================================
