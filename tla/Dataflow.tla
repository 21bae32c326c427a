------------------------------ MODULE Dataflow ------------------------------
(***************************************************************************)
(* What a pipeline run promises, without waves, threads or an engine: a    *)
(* node runs at most once and only after every node it reads from ran      *)
(* successfully, a run is completed only when every node ran, and it is    *)
(* failed only when a node broke.                                          *)
(***************************************************************************)
EXTENDS Manifest

CONSTANT Manifests

VARIABLES
  m,        \* the manifest being run
  done,     \* the nodes that ran
  broken,   \* the nodes that were run and failed
  outcome   \* of the whole run

dataflowVars == <<m, done, broken, outcome>>

DataflowInit ==
  /\ m \in Manifests
  /\ done = {}
  /\ broken = {}
  /\ outcome = "running"

MayRun(n) ==
  /\ outcome = "running"
  /\ n \notin done \cup broken
  /\ Parents(m, n) \subseteq done

Run(n) ==
  /\ MayRun(n)
  /\ done' = done \cup {n}
  /\ UNCHANGED <<m, broken, outcome>>

(***************************************************************************)
(* A broken node ends the run at once, or once what is under way is back.  *)
(***************************************************************************)
Break(n) ==
  /\ MayRun(n)
  /\ broken' = broken \cup {n}
  /\ outcome' \in {outcome, "failed"}
  /\ UNCHANGED <<m, done>>

Succeed ==
  /\ outcome = "running"
  /\ done = Nodes(m)
  /\ outcome' = "completed"
  /\ UNCHANGED <<m, done, broken>>

GiveUp ==
  /\ outcome = "running"
  /\ broken # {}
  /\ outcome' = "failed"
  /\ UNCHANGED <<m, done, broken>>

DataflowNext ==
  \/ \E n \in Nodes(m) : Run(n) \/ Break(n)
  \/ Succeed
  \/ GiveUp

DataflowSpec == DataflowInit /\ [][DataflowNext]_dataflowVars
=============================================================================
