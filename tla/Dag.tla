-------------------------------- MODULE Dag --------------------------------
(***************************************************************************)
(* From a parsed manifest to waves: Dag::from_manifest builds the graph or *)
(* rejects the manifest, and Dag::execution_waves peels the graph into     *)
(* waves by counting the parents each node still waits for.                *)
(*                                                                         *)
(* A manifest is the sequence of its entries in the order they get a node: *)
(* sources, then transforms, then sinks.  A node is the index of its       *)
(* entry.  Names may repeat and references may lead nowhere.               *)
(***************************************************************************)
EXTENDS Integers, Sequences, FiniteSets

CONSTANTS
  Names,           \* the names entries and references may have
  NoRef,           \* stands for the reference an entry does not make
  RawManifests     \* the manifests to build from

Entries == [kind : {"source", "transform", "sink"}, name : Names,
            input : Names \cup {NoRef}, join : Names \cup {NoRef}]

ASSUME RawManifestsAssumption ==
  /\ NoRef \notin Names
  /\ \A mf \in RawManifests :
       /\ mf \in Seq(Entries)
       /\ \A i \in 1..Len(mf) : mf[i].kind # "source" => mf[i].input # NoRef

VARIABLES
  entries,     \* the manifest
  pc,          \* where the construction is
  at,          \* the entry it looks at
  index,       \* name -> node, 0 for a name without one
  edges,       \* the <<parent, child>> pairs of the graph
  remaining,   \* node -> parents not yet in a wave
  ready,       \* the nodes of the next wave
  waves,       \* the waves so far
  seen         \* how many nodes they hold

vars == <<entries, pc, at, index, edges, remaining, ready, waves, seen>>

Rejections == {"duplicate", "unknown", "cycle"}
Stages == {"nodes", "edges", "sort", "count", "waves"}
Outcomes == Rejections \cup {"planned", "stuck"}

Count == Len(entries)
NodeSet == 1..Count

ParentsOf(n) == {p \in NodeSet : <<p, n>> \in edges}

(***************************************************************************)
(* What petgraph's toposort decides: no set of nodes in which each has a   *)
(* parent.                                                                 *)
(***************************************************************************)
Acyclic ==
  \A S \in SUBSET NodeSet :
    S # {} => \E n \in S : ParentsOf(n) \cap S = {}

TypeOK ==
  /\ entries \in RawManifests
  /\ pc \in Stages \cup Outcomes
  /\ at \in 1..(Count + 1)
  /\ index \in [Names -> 0..Count]
  /\ edges \subseteq NodeSet \X NodeSet
  /\ remaining \in [NodeSet -> 0..Count]
  /\ ready \subseteq NodeSet
  /\ waves \in Seq(SUBSET NodeSet)
  /\ seen \in 0..Count

Init ==
  /\ entries \in RawManifests
  /\ pc = "nodes"
  /\ at = 1
  /\ index = [n \in Names |-> 0]
  /\ edges = {}
  /\ remaining = [n \in NodeSet |-> 0]
  /\ ready = {}
  /\ waves = <<>>
  /\ seen = 0

-----------------------------------------------------------------------------
(* from_manifest                                                           *)

(***************************************************************************)
(* Mutant: a later entry takes the name over.                              *)
(***************************************************************************)
AddNode_Overwrites ==
  /\ pc = "nodes"
  /\ at <= Count
  /\ index' = [index EXCEPT ![entries[at].name] = at]
  /\ at' = at + 1
  /\ UNCHANGED <<entries, pc, edges, remaining, ready, waves, seen>>

AddNode ==
  /\ pc = "nodes"
  /\ at <= Count
  /\ index[entries[at].name] = 0
  /\ index' = [index EXCEPT ![entries[at].name] = at]
  /\ at' = at + 1
  /\ UNCHANGED <<entries, pc, edges, remaining, ready, waves, seen>>

RejectDuplicate ==
  /\ pc = "nodes"
  /\ at <= Count
  /\ index[entries[at].name] # 0
  /\ pc' = "duplicate"
  /\ UNCHANGED <<entries, at, index, edges, remaining, ready, waves, seen>>

NodesAdded ==
  /\ pc = "nodes"
  /\ at > Count
  /\ pc' = "edges"
  /\ at' = 1
  /\ UNCHANGED <<entries, index, edges, remaining, ready, waves, seen>>

(***************************************************************************)
(* The names an entry draws an edge from: its input and, when it differs,  *)
(* its join.                                                               *)
(***************************************************************************)
References(e) ==
  IF e.kind = "source" THEN {}
  ELSE {e.input} \cup (IF e.kind = "transform" THEN {e.join} \ {NoRef} ELSE {})

AddEdges ==
  /\ pc = "edges"
  /\ at <= Count
  /\ \A r \in References(entries[at]) : index[r] # 0
  /\ edges' = edges \cup {<<index[r], at>> : r \in References(entries[at])}
  /\ at' = at + 1
  /\ UNCHANGED <<entries, pc, index, remaining, ready, waves, seen>>

RejectUnknown ==
  /\ pc = "edges"
  /\ at <= Count
  /\ \E r \in References(entries[at]) : index[r] = 0
  /\ pc' = "unknown"
  /\ UNCHANGED <<entries, at, index, edges, remaining, ready, waves, seen>>

(***************************************************************************)
(* Mutant: the stage is not left.                                          *)
(***************************************************************************)
EdgesAdded_Restarts ==
  /\ pc = "edges"
  /\ at > Count
  /\ at' = 1
  /\ UNCHANGED <<entries, pc, index, edges, remaining, ready, waves, seen>>

EdgesAdded ==
  /\ pc = "edges"
  /\ at > Count
  /\ pc' = "sort"
  /\ UNCHANGED <<entries, at, index, edges, remaining, ready, waves, seen>>

RejectCycle ==
  /\ pc = "sort"
  /\ ~Acyclic
  /\ pc' = "cycle"
  /\ UNCHANGED <<entries, at, index, edges, remaining, ready, waves, seen>>

Accept ==
  /\ pc = "sort"
  /\ Acyclic
  /\ pc' = "count"
  /\ UNCHANGED <<entries, at, index, edges, remaining, ready, waves, seen>>

-----------------------------------------------------------------------------
(* execution_waves                                                         *)

CountParents ==
  /\ pc = "count"
  /\ pc' = "waves"
  /\ remaining' = [n \in NodeSet |-> Cardinality(ParentsOf(n))]
  /\ ready' = {n \in NodeSet : ParentsOf(n) = {}}
  /\ UNCHANGED <<entries, at, index, edges, waves, seen>>

(***************************************************************************)
(* Mutant: every node of the wave is taken off every count.                *)
(***************************************************************************)
NextWave_CountsAll ==
  /\ pc = "waves"
  /\ ready # {}
  /\ waves' = Append(waves, ready)
  /\ seen' = seen + Cardinality(ready)
  /\ remaining' = [n \in NodeSet |-> remaining[n] - Cardinality(ready)]
  /\ ready' = {n \in NodeSet : remaining[n] # 0 /\ remaining'[n] = 0}
  /\ UNCHANGED <<entries, pc, at, index, edges>>

(***************************************************************************)
(* Mutant: a child is ready when one of its parents is placed.             *)
(***************************************************************************)
NextWave_AnyParent ==
  /\ pc = "waves"
  /\ ready # {}
  /\ waves' = Append(waves, ready)
  /\ seen' = seen + Cardinality(ready)
  /\ remaining' = [n \in NodeSet |->
                     IF ParentsOf(n) \cap ready # {} THEN 0 ELSE remaining[n]]
  /\ ready' = {n \in NodeSet : remaining[n] # 0 /\ remaining'[n] = 0}
  /\ UNCHANGED <<entries, pc, at, index, edges>>

(***************************************************************************)
(* Mutant: a child is ready when all its parents are in the wave just      *)
(* placed.                                                                 *)
(***************************************************************************)
NextWave_SameWaveParents ==
  /\ pc = "waves"
  /\ ready # {}
  /\ waves' = Append(waves, ready)
  /\ seen' = seen + Cardinality(ready)
  /\ remaining' = [n \in NodeSet |->
                     IF ParentsOf(n) \subseteq ready THEN 0 ELSE remaining[n]]
  /\ ready' = {n \in NodeSet : remaining[n] # 0 /\ remaining'[n] = 0}
  /\ UNCHANGED <<entries, pc, at, index, edges>>

(***************************************************************************)
(* The ready nodes are a wave.  Each takes itself off the count of its     *)
(* children; a child whose count reaches zero is in the next wave.         *)
(***************************************************************************)
NextWave ==
  /\ pc = "waves"
  /\ ready # {}
  /\ waves' = Append(waves, ready)
  /\ seen' = seen + Cardinality(ready)
  /\ remaining' = [n \in NodeSet |->
                     remaining[n] - Cardinality(ParentsOf(n) \cap ready)]
  /\ ready' = {n \in NodeSet : remaining[n] # 0 /\ remaining'[n] = 0}
  /\ UNCHANGED <<entries, pc, at, index, edges>>

EndWaves ==
  /\ pc = "waves"
  /\ ready = {}
  /\ pc' = IF seen = Count THEN "planned" ELSE "stuck"
  /\ UNCHANGED <<entries, at, index, edges, remaining, ready, waves, seen>>

Returned == pc \in Outcomes /\ UNCHANGED vars

Next ==
  \/ AddNode \/ RejectDuplicate \/ NodesAdded
  \/ AddEdges \/ RejectUnknown \/ EdgesAdded
  \/ RejectCycle \/ Accept
  \/ CountParents \/ NextWave \/ EndWaves
  \/ Returned

Spec == Init /\ [][Next]_vars

(***************************************************************************)
(* A single thread that never waits.                                       *)
(***************************************************************************)
FairSpec == Spec /\ WF_vars(Next)

-----------------------------------------------------------------------------
(* Properties                                                              *)

UniqueNames == \A i, j \in NodeSet : entries[i].name = entries[j].name => i = j

KnownReferences ==
  \A i \in NodeSet : \A r \in References(entries[i]) :
    \E j \in NodeSet : entries[j].name = r

(***************************************************************************)
(* from_manifest rejects a manifest for what is wrong with it, names       *)
(* before references before cycles, and accepts it when nothing is.        *)
(***************************************************************************)
VerdictIsRight ==
  /\ pc = "duplicate" => ~UniqueNames
  /\ pc = "unknown" => UniqueNames /\ ~KnownReferences
  /\ pc = "cycle" => UniqueNames /\ KnownReferences
  /\ pc \in {"count", "waves", "planned"} =>
       /\ UniqueNames
       /\ KnownReferences
       /\ edges = {e \in NodeSet \X NodeSet :
                     entries[e[1]].name \in References(entries[e[2]])}

Before(k) == UNION {waves[i] : i \in 1..(k - 1)}

(***************************************************************************)
(* A wave is everything whose parents are all in earlier waves and that is *)
(* in none itself: no node waits a wave longer than it must, none runs     *)
(* beside one it reads from.  The scheduler's model takes waves this way.  *)
(***************************************************************************)
WavesAreReadySets ==
  \A k \in 1..Len(waves) :
    waves[k] = {n \in NodeSet \ Before(k) : ParentsOf(n) \subseteq Before(k)}

(***************************************************************************)
(* The counting in execution_waves never finds a cycle the topological     *)
(* sort did not, and a plan holds every node, in one wave: a manifest      *)
(* from_manifest accepts is planned in full.                               *)
(***************************************************************************)
AcceptedIsPlanned ==
  /\ pc # "stuck"
  /\ pc = "planned" =>
       /\ UNION {waves[k] : k \in 1..Len(waves)} = NodeSet
       /\ \A j, k \in 1..Len(waves) : j # k => waves[j] \cap waves[k] = {}

(***************************************************************************)
(* Every manifest gets a verdict: the wave loop does not run forever.      *)
(***************************************************************************)
VerdictIsReached == <>(pc \in Outcomes)
-----------------------------------------------------------------------------
(* Why it works: the inductive invariant                                   *)

(***************************************************************************)
(* The entries that have got their node, and those whose edges are drawn.  *)
(***************************************************************************)
Named ==
  IF pc \in {"nodes", "duplicate"} THEN 1..(at - 1) ELSE NodeSet

Drawn ==
  IF pc \in {"nodes", "duplicate"} THEN {}
  ELSE IF pc \in {"edges", "unknown"} THEN 1..(at - 1) ELSE NodeSet

(***************************************************************************)
(* The index leads from the names of the named entries to these, and from  *)
(* nowhere else.                                                           *)
(***************************************************************************)
IIndex ==
  /\ \A i \in Named : index[entries[i].name] = i
  /\ \A n \in Names : index[n] # 0 => index[n] \in Named /\ entries[index[n]].name = n

IEdges ==
  /\ edges = {e \in NodeSet \X Drawn : entries[e[1]].name \in References(entries[e[2]])}
  /\ \A j \in Drawn : \A r \in References(entries[j]) : index[r] # 0

Placed == Before(Len(waves) + 1)

Peeling == pc \in {"waves", "planned", "stuck"}

(***************************************************************************)
(* While the graph is peeled, the counts are those of the parents not yet  *)
(* placed, the parents of a placed node are placed, and the next wave is   *)
(* what has nothing to wait for.                                           *)
(***************************************************************************)
ICounts ==
  IF Peeling
  THEN /\ seen = Cardinality(Placed)
       /\ \A n \in Placed : ParentsOf(n) \subseteq Placed
       /\ ready = {n \in NodeSet \ Placed : ParentsOf(n) \subseteq Placed}
       /\ \A n \in NodeSet : remaining[n] = Cardinality(ParentsOf(n) \ Placed)
  ELSE waves = <<>> /\ seen = 0

IVerdict ==
  /\ pc = "duplicate" => ~UniqueNames
  /\ pc = "unknown" => ~KnownReferences
  /\ pc = "count" \/ Peeling => Acyclic
  /\ pc = "planned" => Placed = NodeSet
  /\ pc # "stuck"

IInv ==
  /\ TypeOK
  /\ IIndex
  /\ IEdges
  /\ ICounts
  /\ IVerdict
  /\ WavesAreReadySets
=============================================================================
