------------------------------ MODULE Manifest ------------------------------
(***************************************************************************)
(* A pipeline manifest as a value, and the graph it describes.             *)
(*                                                                         *)
(* A manifest is a record with the fields                                  *)
(*   source, transform, sink : the names of the entries of each kind       *)
(*   input    : the name every transform and sink reads from               *)
(*   join     : the second input a transform names in its parameters, or   *)
(*              NoName                                                     *)
(*   mappable : the transforms whose operation is registered and maps to   *)
(*              an engine element                                          *)
(*                                                                         *)
(* A name is a positive natural number: its rank among the names in byte   *)
(* order, so that sorting by name is sorting by number.                    *)
(***************************************************************************)
EXTENDS Naturals, FiniteSets

Name == Nat \ {0}

NoName == 0

Nodes(mf) == mf.source \cup mf.transform \cup mf.sink

(***************************************************************************)
(* What Dag::from_manifest has established before a run starts: names are  *)
(* unique across the three kinds and every reference is to a node.  A      *)
(* reference to a sink is accepted, as it is in the code.                  *)
(***************************************************************************)
IsManifest(mf) ==
  /\ mf.source \subseteq Name
  /\ mf.transform \subseteq Name
  /\ mf.sink \subseteq Name
  /\ IsFiniteSet(Nodes(mf))
  /\ mf.source \cap mf.transform = {}
  /\ mf.source \cap mf.sink = {}
  /\ mf.transform \cap mf.sink = {}
  /\ mf.input \in [mf.transform \cup mf.sink -> Nodes(mf)]
  /\ mf.join \in [mf.transform -> Nodes(mf) \cup {NoName}]
  /\ mf.mappable \subseteq mf.transform

(***************************************************************************)
(* The nodes that must run before n: its input, and the join input of a    *)
(* transform, which the graph treats as a second parent.                   *)
(***************************************************************************)
Parents(mf, n) ==
  {p \in Nodes(mf) :
     \/ n \notin mf.source /\ p = mf.input[n]
     \/ n \in mf.transform /\ p = mf.join[n]}

(***************************************************************************)
(* Mutant: a join is not counted as a parent.                              *)
(***************************************************************************)
Ready_InputOnly(mf, F) ==
  {n \in Nodes(mf) \ F : n \in mf.source \/ mf.input[n] \in F}

(***************************************************************************)
(* The next wave once the nodes of F have run: everything else whose       *)
(* parents are all in F.                                                   *)
(***************************************************************************)
Ready(mf, F) == {n \in Nodes(mf) \ F : Parents(mf, n) \subseteq F}

(***************************************************************************)
(* The positions a topological sort may give the nodes.  petgraph promises *)
(* a topological order and not which one, so every one is allowed.         *)
(***************************************************************************)
Orders(mf) ==
  {o \in [Nodes(mf) -> 1..Cardinality(Nodes(mf))] :
     /\ \A a, b \in Nodes(mf) : o[a] = o[b] => a = b
     /\ \A n \in Nodes(mf) : \A p \in Parents(mf, n) : o[p] < o[n]}
=============================================================================
