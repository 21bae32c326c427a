----------------------------- MODULE DagProofs -----------------------------
(***************************************************************************)
(* Proofs about the construction of the graph and of its waves, for every  *)
(* set of manifests, of any length and with any names and references.      *)
(***************************************************************************)
EXTENDS Dag, FiniteSetTheorems, SequenceTheorems, TLAPS

-----------------------------------------------------------------------------
(* Entries, nodes and sets of nodes                                        *)

LEMMA EntryFacts ==
  ASSUME entries \in RawManifests
  PROVE  /\ Count \in Nat
         /\ entries \in [NodeSet -> Entries]
         /\ \A i \in NodeSet : entries[i].name \in Names
         /\ \A i \in NodeSet : References(entries[i]) \subseteq Names
<1>1. entries \in Seq(Entries)
  BY RawManifestsAssumption
<1>2. Count \in Nat /\ entries \in [NodeSet -> Entries]
  BY <1>1 DEF Count, NodeSet
<1>3. ASSUME NEW i \in NodeSet
      PROVE  entries[i].name \in Names /\ References(entries[i]) \subseteq Names
  <2>1. entries[i] \in Entries BY <1>2
  <2>2. entries[i].kind # "source" => entries[i].input # NoRef
    BY <1>3, RawManifestsAssumption DEF NodeSet, Count
  <2>3. QED BY <2>1, <2>2 DEF Entries, References
<1>4. QED BY <1>2, <1>3

LEMMA NodesAreFinite ==
  ASSUME Count \in Nat
  PROVE  /\ IsFiniteSet(NodeSet)
         /\ Cardinality(NodeSet) = Count
         /\ \A S \in SUBSET NodeSet :
              IsFiniteSet(S) /\ Cardinality(S) \in 0..Count
<1>1. IsFiniteSet(NodeSet) /\ Cardinality(NodeSet) = Count
  BY FS_Interval DEF NodeSet
<1>2. ASSUME NEW S \in SUBSET NodeSet
      PROVE  IsFiniteSet(S) /\ Cardinality(S) \in 0..Count
  <2>1. IsFiniteSet(S) /\ Cardinality(S) <= Count BY <1>1, FS_Subset
  <2>2. Cardinality(S) \in Nat BY <2>1, FS_CardinalityType
  <2>3. QED BY <2>1, <2>2
<1>3. QED BY <1>1, <1>2

(***************************************************************************)
(* Taking the members of T off a finite set takes their number off its     *)
(* size.                                                                   *)
(***************************************************************************)
LEMMA DifferenceSize ==
  ASSUME NEW S, NEW T, IsFiniteSet(S)
  PROVE  Cardinality(S \ T) = Cardinality(S) - Cardinality(S \cap T)
<1>1. IsFiniteSet(S \ T) /\ IsFiniteSet(S \cap T) BY FS_Subset
<1>2. (S \ T) \cup (S \cap T) = S /\ (S \ T) \cap (S \cap T) = {}
  OBVIOUS
<1>3. Cardinality(S) =
        Cardinality(S \ T) + Cardinality(S \cap T) - Cardinality({})
  BY <1>1, <1>2, FS_Union
<1>4. /\ Cardinality(S \ T) \in Nat /\ Cardinality(S \cap T) \in Nat
      /\ Cardinality({}) = 0
  BY <1>1, FS_CardinalityType, FS_EmptySet
<1>5. QED BY <1>3, <1>4

-----------------------------------------------------------------------------
(* The invariant holds initially and while the graph is built              *)

LEMMA InvInit == Init => IInv
<1> SUFFICES ASSUME Init PROVE IInv
  OBVIOUS
<1>1. Count \in Nat BY EntryFacts DEF Init
<1>2. TypeOK BY <1>1, EmptySeq DEF Init, TypeOK, NodeSet, Stages
<1>3. IIndex BY DEF Init, IIndex, Named
<1>4. Drawn = {} BY DEF Init, Drawn
<1>5. IEdges BY <1>4 DEF Init, IEdges
<1>6. ICounts /\ IVerdict
  BY DEF Init, ICounts, IVerdict, Peeling
<1>7. Len(waves) = 0 BY EmptySeq DEF Init
<1>8. WavesAreReadySets BY <1>7 DEF WavesAreReadySets
<1>9. QED BY <1>2, <1>3, <1>5, <1>6, <1>8 DEF IInv

(***************************************************************************)
(* Until the graph is peeled there are no waves to speak of.               *)
(***************************************************************************)
LEMMA NoWavesYet == waves' = <<>> => WavesAreReadySets'
<1> SUFFICES ASSUME waves' = <<>> PROVE WavesAreReadySets'
  OBVIOUS
<1>1. Len(waves') = 0 BY EmptySeq
<1>2. QED BY <1>1 DEF WavesAreReadySets

LEMMA TypesOfManifest ==
  ASSUME TypeOK
  PROVE  /\ \A i \in NodeSet : entries[i].name \in Names
         /\ \A i \in NodeSet : References(entries[i]) \subseteq Names
BY EntryFacts DEF TypeOK

LEMMA Bounds ==
  ASSUME TypeOK
  PROVE  /\ Count \in Nat /\ Len(waves) \in Nat
         /\ at \in Nat /\ at >= 1 /\ at <= Count + 1
         /\ \A i \in NodeSet : i \in Nat /\ i >= 1 /\ i <= Count
<1>1. Count \in Nat BY EntryFacts DEF TypeOK
<1>2. Len(waves) \in Nat BY DEF TypeOK
<1>3. at \in Nat /\ at >= 1 /\ at <= Count + 1 BY <1>1 DEF TypeOK
<1>4. QED BY <1>1, <1>2, <1>3 DEF NodeSet

LEMMA AddNodeKeepsInv == IInv /\ AddNode => IInv'
<1> SUFFICES ASSUME IInv, AddNode PROVE IInv'
  OBVIOUS
<1>a. /\ pc = "nodes" /\ at <= Count /\ at' = at + 1
      /\ index' = [index EXCEPT ![entries[at].name] = at]
  BY DEF AddNode
<1>u. UNCHANGED <<entries, pc, edges, remaining, ready, waves, seen>>
  BY DEF AddNode
<1>d. index[entries[at].name] = 0 BY DEF AddNode
<1>t. TypeOK BY DEF IInv
<1>b. Count \in Nat /\ at \in Nat /\ at >= 1 /\ at <= Count + 1
  BY <1>t, Bounds
<1>n. \A i \in NodeSet : i \in Nat /\ i >= 1 /\ i <= Count
  BY <1>t, Bounds
<1>1. at \in NodeSet /\ at' = at + 1
  BY <1>a, <1>b DEF NodeSet
<1>2. Count' = Count /\ NodeSet' = NodeSet BY <1>a, <1>u DEF Count, NodeSet
<1>i. index' \in [Names -> 0..Count]
  <2>1. index \in [Names -> 0..Count] /\ at \in 0..Count
    BY <1>a, <1>b, <1>t DEF TypeOK
  <2>2. QED BY <1>a, <2>1
<1>3. TypeOK'
  <2>1. at' \in 1..(Count + 1) BY <1>a, <1>b
  <2>2. QED BY <1>u, <1>t, <1>i, <1>2, <2>1 DEF TypeOK
<1>4. Named = 1..(at - 1) /\ Named' = Named \cup {at}
  BY <1>a, <1>u, <1>b DEF Named
<1>5. \A n \in Names :
        index'[n] = IF n = entries[at].name THEN at ELSE index[n]
  BY <1>a, <1>t DEF TypeOK
<1>6. \A i \in Named : i \in NodeSet /\ i # 0 /\ i # at
  BY <1>a, <1>u, <1>t, <1>4, <1>b DEF NodeSet
<1>7. IIndex'
  <2>1. \A i \in Named : entries[i].name \in Names /\ entries[i].name # entries[at].name
    BY <1>d, <1>t, <1>6, TypesOfManifest DEF IInv, IIndex
  <2>2. entries[at].name \in Names BY <1>t, <1>1, TypesOfManifest
  <2>3. \A i \in Named' : index'[entries'[i].name] = i
    BY <1>u, <1>4, <1>5, <2>1, <2>2 DEF IInv, IIndex
  <2>4. \A n \in Names :
          index'[n] # 0 => index'[n] \in Named' /\ entries'[index'[n]].name = n
    BY <1>u, <1>4, <1>5 DEF IInv, IIndex
  <2>5. QED BY <2>3, <2>4 DEF IIndex
<1>8. Drawn = {} /\ Drawn' = {} BY <1>a, <1>u DEF Drawn
<1>9. IEdges' BY <1>a, <1>u, <1>2, <1>8 DEF IInv, IEdges
<1>10. ICounts' /\ IVerdict' /\ waves' = <<>>
  BY <1>a, <1>u DEF IInv, ICounts, IVerdict, Peeling
<1>11. WavesAreReadySets' BY <1>a, <1>u, <1>10, NoWavesYet
<1>12. QED BY <1>a, <1>u, <1>3, <1>7, <1>9, <1>10, <1>11 DEF IInv

LEMMA RejectDuplicateKeepsInv == IInv /\ RejectDuplicate => IInv'
<1> SUFFICES ASSUME IInv, RejectDuplicate PROVE IInv'
  OBVIOUS
<1>a. /\ pc = "nodes" /\ at <= Count /\ pc' = "duplicate"
  BY DEF RejectDuplicate
<1>u. UNCHANGED <<entries, at, index, edges, remaining, ready, waves, seen>>
  BY DEF RejectDuplicate
<1>d. index[entries[at].name] # 0 BY DEF RejectDuplicate
<1>t. TypeOK BY DEF IInv
<1>b. Count \in Nat /\ at \in Nat /\ at >= 1 /\ at <= Count + 1
  BY <1>t, Bounds
<1>n. \A i \in NodeSet : i \in Nat /\ i >= 1 /\ i <= Count
  BY <1>t, Bounds
<1>1. at \in NodeSet
  BY <1>a, <1>b DEF NodeSet
<1>2. NodeSet' = NodeSet /\ Count' = Count BY <1>a, <1>u DEF Count, NodeSet
<1>3. TypeOK' BY <1>a, <1>u, <1>t, <1>2 DEF TypeOK, Outcomes, Rejections
<1>4. Named' = Named /\ Named = 1..(at - 1) BY <1>a, <1>u DEF Named
<1>5. IIndex' BY <1>a, <1>u, <1>4 DEF IInv, IIndex
<1>6. Drawn = {} /\ Drawn' = {} BY <1>a, <1>u DEF Drawn
<1>7. IEdges' BY <1>a, <1>u, <1>2, <1>6 DEF IInv, IEdges
<1>8. ~UniqueNames
  <2>1. entries[at].name \in Names BY <1>a, <1>u, <1>t, <1>1, TypesOfManifest
  <2> DEFINE i == index[entries[at].name]
  <2>2. i \in 1..(at - 1) /\ entries[i].name = entries[at].name
    BY <1>d, <1>4, <2>1 DEF IInv, IIndex
  <2>3. i \in NodeSet /\ i # at
    BY <1>a, <1>1, <2>2, <1>b DEF NodeSet
  <2>4. QED BY <1>a, <1>u, <1>1, <2>2, <2>3 DEF UniqueNames
<1>9. UniqueNames' = UniqueNames BY <1>a, <1>u, <1>2 DEF UniqueNames
<1>10. ICounts' /\ IVerdict' /\ waves' = <<>>
  BY <1>a, <1>u, <1>8, <1>9 DEF IInv, ICounts, IVerdict, Peeling
<1>11. WavesAreReadySets' BY <1>a, <1>u, <1>10, NoWavesYet
<1>12. QED BY <1>a, <1>u, <1>3, <1>5, <1>7, <1>10, <1>11 DEF IInv

LEMMA NodesAddedKeepsInv == IInv /\ NodesAdded => IInv'
<1> SUFFICES ASSUME IInv, NodesAdded PROVE IInv'
  OBVIOUS
<1>a. /\ pc = "nodes" /\ at > Count /\ pc' = "edges" /\ at' = 1
  BY DEF NodesAdded
<1>u. UNCHANGED <<entries, index, edges, remaining, ready, waves, seen>>
  BY DEF NodesAdded
<1>t. TypeOK BY DEF IInv
<1>b. Count \in Nat /\ at \in Nat /\ at >= 1 /\ at <= Count + 1
  BY <1>t, Bounds
<1>n. \A i \in NodeSet : i \in Nat /\ i >= 1 /\ i <= Count
  BY <1>t, Bounds
<1>1. NodeSet' = NodeSet /\ Count' = Count BY <1>a, <1>u DEF Count, NodeSet
<1>2. TypeOK'
  <2>1. at' \in 1..(Count + 1) BY <1>a, <1>b
  <2>2. QED BY <1>a, <1>u, <1>t, <1>1, <2>1 DEF TypeOK, Stages
<1>3. Named' = NodeSet /\ Named = NodeSet
  BY <1>a, <1>u, <1>1, <1>b DEF Named, NodeSet
<1>4. IIndex' BY <1>a, <1>u, <1>3 DEF IInv, IIndex
<1>5. Drawn = {} /\ Drawn' = {} BY <1>a, <1>u DEF Drawn
<1>6. IEdges' BY <1>a, <1>u, <1>1, <1>5 DEF IInv, IEdges
<1>7. ICounts' /\ IVerdict' /\ waves' = <<>>
  BY <1>a, <1>u DEF IInv, ICounts, IVerdict, Peeling
<1>8. WavesAreReadySets' BY <1>a, <1>u, <1>7, NoWavesYet
<1>9. QED BY <1>a, <1>u, <1>2, <1>4, <1>6, <1>7, <1>8 DEF IInv

LEMMA AddEdgesKeepsInv == IInv /\ AddEdges => IInv'
<1> SUFFICES ASSUME IInv, AddEdges PROVE IInv'
  OBVIOUS
<1>a. /\ pc = "edges" /\ at <= Count /\ at' = at + 1
  BY DEF AddEdges
<1>u. UNCHANGED <<entries, pc, index, remaining, ready, waves, seen>>
  BY DEF AddEdges
<1>d. /\ \A r \in References(entries[at]) : index[r] # 0
      /\ edges' = edges \cup {<<index[r], at>> : r \in References(entries[at])}
  BY DEF AddEdges
<1>t. TypeOK BY DEF IInv
<1>b. Count \in Nat /\ at \in Nat /\ at >= 1 /\ at <= Count + 1
  BY <1>t, Bounds
<1>n. \A i \in NodeSet : i \in Nat /\ i >= 1 /\ i <= Count
  BY <1>t, Bounds
<1>1. at \in NodeSet /\ at' = at + 1
  BY <1>a, <1>b DEF NodeSet
<1>2. NodeSet' = NodeSet /\ Count' = Count BY <1>a, <1>u DEF Count, NodeSet
<1>3. Named' = NodeSet /\ Named = NodeSet
  BY <1>a, <1>u, <1>2 DEF Named
<1>4. IIndex' BY <1>a, <1>u, <1>3 DEF IInv, IIndex
<1>5. Drawn = 1..(at - 1) /\ Drawn' = Drawn \cup {at}
  BY <1>a, <1>u, <1>1, <1>b DEF Drawn
<1>6. \A r \in References(entries[at]) :
        /\ r \in Names /\ index[r] \in NodeSet /\ entries[index[r]].name = r
  BY <1>d, <1>t, <1>1, <1>3, <1>b, TypesOfManifest DEF IInv, IIndex
<1>7. {<<index[r], at>> : r \in References(entries[at])} =
        {e \in NodeSet \X {at} : entries[e[1]].name \in References(entries[e[2]])}
  <2> DEFINE New == {<<index[r], at>> : r \in References(entries[at])}
  <2> DEFINE Right == {e \in NodeSet \X {at} :
                         entries[e[1]].name \in References(entries[e[2]])}
  <2>1. New \subseteq Right BY <1>a, <1>u, <1>6
  <2>2. ASSUME NEW e \in Right PROVE e \in New
    <3>1. /\ e[1] \in NodeSet /\ e = <<e[1], at>>
          /\ entries[e[1]].name \in References(entries[at])
      OBVIOUS
    <3>2. index[entries[e[1]].name] = e[1] BY <1>a, <1>u, <1>3, <3>1 DEF IInv, IIndex
    <3>3. QED BY <3>1, <3>2
  <2>3. QED BY <2>1, <2>2
<1>8. edges' = {e \in NodeSet \X Drawn' : entries[e[1]].name \in References(entries[e[2]])}
  BY <1>a, <1>u, <1>d, <1>5, <1>7 DEF IInv, IEdges
<1>9. IEdges'
  <2>1. \A j \in Drawn' : \A r \in References(entries[j]) : index[r] # 0
    BY <1>d, <1>5 DEF IInv, IEdges
  <2>2. QED BY <1>u, <1>2, <1>8, <2>1 DEF IEdges
<1>10. edges' \subseteq NodeSet \X NodeSet
  <2>1. Drawn' \subseteq NodeSet
    BY <1>a, <1>u, <1>t, <1>1, <1>5, <1>b DEF NodeSet
  <2>2. QED BY <1>a, <1>u, <1>8, <2>1
<1>11. TypeOK' BY <1>a, <1>u, <1>t, <1>1, <1>2, <1>10, <1>b DEF TypeOK
<1>12. ICounts' /\ IVerdict' /\ waves' = <<>>
  BY <1>a, <1>u DEF IInv, ICounts, IVerdict, Peeling
<1>13. WavesAreReadySets' BY <1>a, <1>u, <1>12, NoWavesYet
<1>14. QED BY <1>a, <1>u, <1>4, <1>9, <1>11, <1>12, <1>13 DEF IInv

LEMMA RejectUnknownKeepsInv == IInv /\ RejectUnknown => IInv'
<1> SUFFICES ASSUME IInv, RejectUnknown PROVE IInv'
  OBVIOUS
<1>a. /\ pc = "edges" /\ at <= Count /\ pc' = "unknown"
  BY DEF RejectUnknown
<1>u. UNCHANGED <<entries, at, index, edges, remaining, ready, waves, seen>>
  BY DEF RejectUnknown
<1>t. TypeOK BY DEF IInv
<1>b. Count \in Nat /\ at \in Nat /\ at >= 1 /\ at <= Count + 1
  BY <1>t, Bounds
<1>n. \A i \in NodeSet : i \in Nat /\ i >= 1 /\ i <= Count
  BY <1>t, Bounds
<1>1. at \in NodeSet BY <1>a, <1>b DEF NodeSet
<1>2. NodeSet' = NodeSet /\ Count' = Count BY <1>a, <1>u DEF Count, NodeSet
<1>3. TypeOK' BY <1>a, <1>u, <1>t, <1>2 DEF TypeOK, Outcomes, Rejections
<1>4. Named' = NodeSet /\ Named = NodeSet BY <1>a, <1>u, <1>2 DEF Named
<1>5. IIndex' BY <1>a, <1>u, <1>4 DEF IInv, IIndex
<1>6. Drawn' = Drawn BY <1>a, <1>u DEF Drawn
<1>7. IEdges' BY <1>a, <1>u, <1>2, <1>6 DEF IInv, IEdges
<1>8. ~KnownReferences
  <2>1. PICK r \in References(entries[at]) : index[r] = 0
    BY DEF RejectUnknown
  <2>2. \A j \in NodeSet : j # 0 /\ index[entries[j].name] = j
    BY <1>4, <1>n DEF IInv, IIndex
  <2>3. QED BY <1>a, <1>u, <1>1, <2>1, <2>2 DEF KnownReferences
<1>9. KnownReferences' = KnownReferences BY <1>a, <1>u, <1>2 DEF KnownReferences
<1>10. ICounts' /\ IVerdict' /\ waves' = <<>>
  BY <1>a, <1>u, <1>8, <1>9 DEF IInv, ICounts, IVerdict, Peeling
<1>11. WavesAreReadySets' BY <1>a, <1>u, <1>10, NoWavesYet
<1>12. QED BY <1>a, <1>u, <1>3, <1>5, <1>7, <1>10, <1>11 DEF IInv

(***************************************************************************)
(* The stages between the last edge and the first wave change nothing but  *)
(* where the construction is.                                              *)
(***************************************************************************)
LEMMA StageKeepsInv ==
  ASSUME IInv,
         pc \in {"edges", "sort"}, pc = "edges" => at > Count,
         pc' \in {"sort", "cycle", "count"}, pc' = "count" => Acyclic,
         UNCHANGED <<entries, at, index, edges, remaining, ready, waves, seen>>
  PROVE  IInv'
<1>t. TypeOK BY DEF IInv
<1>b. Count \in Nat /\ at \in Nat /\ at >= 1 /\ at <= Count + 1
  BY <1>t, Bounds
<1>n. \A i \in NodeSet : i \in Nat /\ i >= 1 /\ i <= Count
  BY <1>t, Bounds
<1>1. NodeSet' = NodeSet /\ Count' = Count BY DEF Count, NodeSet
<1>2. TypeOK' BY <1>t, <1>1 DEF TypeOK, Stages, Outcomes, Rejections
<1>3. Named' = NodeSet /\ Named = NodeSet BY <1>1 DEF Named
<1>4. IIndex' BY <1>3 DEF IInv, IIndex
<1>5. Drawn' = NodeSet /\ Drawn = NodeSet
  BY <1>1, <1>b DEF Drawn, NodeSet
<1>6. IEdges' BY <1>1, <1>5 DEF IInv, IEdges
<1>7. Acyclic' = Acyclic BY <1>1 DEF Acyclic, ParentsOf
<1>8. ICounts' /\ IVerdict' /\ waves' = <<>>
  BY <1>7 DEF IInv, ICounts, IVerdict, Peeling
<1>9. WavesAreReadySets' BY <1>8, NoWavesYet
<1>10. QED BY <1>2, <1>4, <1>6, <1>8, <1>9 DEF IInv

-----------------------------------------------------------------------------
(* The invariant holds while the graph is peeled                           *)

LEMMA ParentsAreNodes ==
  ASSUME Count \in Nat, NEW S
  PROVE  \A n \in NodeSet :
           /\ ParentsOf(n) \subseteq NodeSet
           /\ IsFiniteSet(ParentsOf(n) \ S)
           /\ Cardinality(ParentsOf(n) \ S) \in 0..Count
           /\ Cardinality(ParentsOf(n) \ S) = 0 <=> ParentsOf(n) \subseteq S
<1> TAKE n \in NodeSet
<1>1. ParentsOf(n) \subseteq NodeSet BY DEF ParentsOf
<1>2. ParentsOf(n) \ S \in SUBSET NodeSet BY <1>1
<1>3. /\ IsFiniteSet(ParentsOf(n) \ S)
      /\ Cardinality(ParentsOf(n) \ S) \in 0..Count
  BY <1>2, NodesAreFinite
<1>4. Cardinality(ParentsOf(n) \ S) = 0 <=> ParentsOf(n) \ S = {}
  BY <1>3, FS_EmptySet
<1>5. QED BY <1>1, <1>3, <1>4

LEMMA CountParentsKeepsInv == IInv /\ CountParents => IInv'
<1> SUFFICES ASSUME IInv, CountParents PROVE IInv'
  OBVIOUS
<1>a. /\ pc = "count" /\ pc' = "waves"
      /\ remaining' = [n \in NodeSet |-> Cardinality(ParentsOf(n))]
      /\ ready' = {n \in NodeSet : ParentsOf(n) = {}}
  BY DEF CountParents
<1>u. UNCHANGED <<entries, at, index, edges, waves, seen>>
  BY DEF CountParents
<1>t. TypeOK BY DEF IInv
<1>b. Count \in Nat BY <1>t, Bounds
<1>1. /\ Count' = Count /\ NodeSet' = NodeSet
      /\ \A n : ParentsOf(n)' = ParentsOf(n)
  BY <1>u DEF Count, NodeSet, ParentsOf
<1>2. \A n \in NodeSet : ParentsOf(n) \ {} = ParentsOf(n) OBVIOUS
<1>3. \A n \in NodeSet : Cardinality(ParentsOf(n)) \in 0..Count
  BY <1>b, <1>2, ParentsAreNodes
<1>4. TypeOK' BY <1>a, <1>u, <1>t, <1>1, <1>3 DEF TypeOK, Stages
<1>5. IIndex' /\ IEdges'
  BY <1>a, <1>u, <1>1 DEF IInv, IIndex, IEdges, Named, Drawn
<1>6. waves = <<>> /\ seen = 0 BY <1>a DEF IInv, ICounts, Peeling
<1>7. Placed' = {}
  <2>1. Len(waves') = 0 BY <1>u, <1>6, EmptySeq
  <2>2. QED BY <2>1 DEF Placed, Before
<1>8. ICounts'
  BY <1>a, <1>u, <1>1, <1>6, <1>7, FS_EmptySet DEF ICounts, Peeling
<1>9. Acyclic BY <1>a DEF IInv, IVerdict
<1>10. IVerdict'
  BY <1>a, <1>1, <1>9 DEF IVerdict, Acyclic
<1>11. WavesAreReadySets' BY <1>u, <1>6, NoWavesYet
<1>12. QED BY <1>4, <1>5, <1>8, <1>10, <1>11 DEF IInv

(***************************************************************************)
(* One more wave: what was placed before an earlier wave is the same, and  *)
(* the wave itself is now placed too.                                      *)
(***************************************************************************)
LEMMA OneMoreWave ==
  ASSUME NEW R, Len(waves) \in Nat, waves' = Append(waves, R),
         waves \in Seq(SUBSET NodeSet), R \subseteq NodeSet
  PROVE  /\ Len(waves') = Len(waves) + 1
         /\ waves'[Len(waves) + 1] = R
         /\ \A k \in 1..Len(waves) : waves'[k] = waves[k]
         /\ \A k \in 1..(Len(waves) + 1) : Before(k)' = Before(k)
         /\ Placed' = Placed \cup R
<1>1. /\ Len(waves') = Len(waves) + 1
      /\ waves'[Len(waves) + 1] = R
      /\ \A k \in 1..Len(waves) : waves'[k] = waves[k]
  OBVIOUS
<1>2. ASSUME NEW k \in 1..(Len(waves) + 1) PROVE Before(k)' = Before(k)
  <2>1. \A i \in 1..(k - 1) : waves'[i] = waves[i] BY <1>1
  <2>2. QED BY <2>1 DEF Before
<1>3. Placed' = Placed \cup R
  <2>1. Placed' = UNION {waves'[i] : i \in 1..(Len(waves) + 1)}
    BY <1>1 DEF Placed, Before
  <2>2. Placed = UNION {waves[i] : i \in 1..Len(waves)}
    BY DEF Placed, Before
  <2>3. 1..(Len(waves) + 1) = 1..Len(waves) \cup {Len(waves) + 1}
    OBVIOUS
  <2>4. {waves'[i] : i \in 1..(Len(waves) + 1)} =
          {waves[i] : i \in 1..Len(waves)} \cup {R}
    BY <1>1, <2>3
  <2>5. QED BY <2>1, <2>2, <2>4
<1>4. QED BY <1>1, <1>2, <1>3

LEMMA NextWaveKeepsInv == IInv /\ NextWave => IInv'
<1> SUFFICES ASSUME IInv, NextWave PROVE IInv'
  OBVIOUS
<1>a. /\ pc = "waves" /\ pc' = pc
      /\ waves' = Append(waves, ready)
      /\ seen' = seen + Cardinality(ready)
      /\ remaining' = [n \in NodeSet |->
                         remaining[n] - Cardinality(ParentsOf(n) \cap ready)]
      /\ ready' = {n \in NodeSet : remaining[n] # 0 /\ remaining'[n] = 0}
  BY DEF NextWave
<1>u. UNCHANGED <<entries, at, index, edges>>
  BY DEF NextWave
<1>t. TypeOK BY DEF IInv
<1>b. Count \in Nat /\ Len(waves) \in Nat BY <1>t, Bounds
<1>1. /\ Count' = Count /\ NodeSet' = NodeSet
      /\ \A n : ParentsOf(n)' = ParentsOf(n)
  BY <1>u DEF Count, NodeSet, ParentsOf
<1>2. /\ seen = Cardinality(Placed)
      /\ \A n \in Placed : ParentsOf(n) \subseteq Placed
      /\ ready = {n \in NodeSet \ Placed : ParentsOf(n) \subseteq Placed}
      /\ \A n \in NodeSet : remaining[n] = Cardinality(ParentsOf(n) \ Placed)
  BY <1>a DEF IInv, ICounts, Peeling
<1>3. waves \in Seq(SUBSET NodeSet) /\ ready \subseteq NodeSet
  BY <1>t DEF TypeOK
<1>4. /\ Len(waves') = Len(waves) + 1
      /\ waves'[Len(waves) + 1] = ready
      /\ \A k \in 1..Len(waves) : waves'[k] = waves[k]
      /\ \A k \in 1..(Len(waves) + 1) : Before(k)' = Before(k)
      /\ Placed' = Placed \cup ready
  BY <1>a, <1>b, <1>3, OneMoreWave
<1>5. Placed \subseteq NodeSet /\ Placed \cap ready = {}
  <2>1. \A i \in 1..Len(waves) : waves[i] \subseteq NodeSet
    BY <1>b, <1>3
  <2>2. Placed \subseteq NodeSet BY <1>b, <2>1 DEF Placed, Before
  <2>3. QED BY <1>2, <2>2
<1>6. \A n \in NodeSet : remaining'[n] = Cardinality(ParentsOf(n) \ Placed')
  <2> TAKE n \in NodeSet
  <2> DEFINE W == ParentsOf(n) \ Placed
  <2>1. IsFiniteSet(W) BY <1>b, ParentsAreNodes
  <2>2. W \ ready = ParentsOf(n) \ Placed' /\ W \cap ready = ParentsOf(n) \cap ready
    BY <1>4, <1>5
  <2>3. Cardinality(W \ ready) = Cardinality(W) - Cardinality(W \cap ready)
    BY <2>1, DifferenceSize
  <2>4. QED BY <1>a, <1>2, <2>2, <2>3
<1>7. seen' = Cardinality(Placed') /\ seen' \in 0..Count
  <2>1. IsFiniteSet(Placed) /\ IsFiniteSet(ready)
    BY <1>b, <1>3, <1>5, NodesAreFinite
  <2>2. Cardinality(Placed \cup ready) =
          Cardinality(Placed) + Cardinality(ready) - Cardinality({})
    BY <1>5, <2>1, FS_Union
  <2>3. /\ Cardinality({}) = 0
        /\ Cardinality(Placed) \in Nat /\ Cardinality(ready) \in Nat
    BY <2>1, FS_EmptySet, FS_CardinalityType
  <2>4. seen' = Cardinality(Placed') BY <1>a, <1>2, <1>4, <2>2, <2>3
  <2>5. Placed' \in SUBSET NodeSet BY <1>3, <1>4, <1>5
  <2>6. QED BY <1>b, <2>4, <2>5, NodesAreFinite
<1>8. ready' = {n \in NodeSet \ Placed' : ParentsOf(n) \subseteq Placed'}
  <2>1. \A n \in NodeSet :
          /\ remaining[n] # 0 <=> ~(ParentsOf(n) \subseteq Placed)
          /\ remaining'[n] = 0 <=> ParentsOf(n) \subseteq Placed'
    BY <1>b, <1>2, <1>6, ParentsAreNodes
  <2>2. QED BY <1>a, <1>2, <1>4, <2>1
<1>9. \A n \in Placed' : ParentsOf(n) \subseteq Placed'
  BY <1>2, <1>4
<1>10. TypeOK'
  <2>1. remaining' \in [NodeSet -> 0..Count]
    <3>1. \A n \in NodeSet : Cardinality(ParentsOf(n) \ Placed') \in 0..Count
      BY <1>b, ParentsAreNodes
    <3>2. \A n \in NodeSet : remaining'[n] \in 0..Count BY <1>6, <3>1
    <3>3. QED BY <1>a, <3>2
  <2>2. waves' \in Seq(SUBSET NodeSet) BY <1>a, <1>3
  <2>3. ready' \subseteq NodeSet BY <1>a
  <2>4. QED BY <1>a, <1>u, <1>t, <1>1, <1>7, <2>1, <2>2, <2>3 DEF TypeOK
<1>11. IIndex' /\ IEdges'
  BY <1>a, <1>u, <1>1 DEF IInv, IIndex, IEdges, Named, Drawn
<1>12. ICounts'
  BY <1>a, <1>1, <1>6, <1>7, <1>8, <1>9 DEF ICounts, Peeling
<1>13. IVerdict'
  <2>1. Acyclic BY <1>a DEF IInv, IVerdict, Peeling
  <2>2. QED BY <1>a, <1>1, <2>1 DEF IVerdict, Acyclic
<1>14. WavesAreReadySets'
  <2> SUFFICES ASSUME NEW k \in 1..(Len(waves) + 1)
               PROVE  waves'[k] = {n \in NodeSet \ Before(k)' :
                                     ParentsOf(n) \subseteq Before(k)'}
    BY <1>1, <1>4 DEF WavesAreReadySets
  <2>1. CASE k \in 1..Len(waves)
    BY <1>4, <2>1 DEF IInv, WavesAreReadySets
  <2>2. CASE k = Len(waves) + 1
    <3>1. Before(k)' = Placed BY <1>4, <2>2 DEF Placed
    <3>2. QED BY <1>2, <1>4, <2>2, <3>1
  <2>3. QED BY <1>b, <2>1, <2>2
<1>15. QED BY <1>10, <1>11, <1>12, <1>13, <1>14 DEF IInv

(***************************************************************************)
(* When nothing is ready everything is placed: otherwise the nodes left    *)
(* would each wait for another of them.                                    *)
(***************************************************************************)
LEMMA NothingLeft ==
  ASSUME IInv, Peeling, ready = {}
  PROVE  Placed = NodeSet /\ seen = Count
<1>t. TypeOK BY DEF IInv
<1>b. Count \in Nat /\ Len(waves) \in Nat BY <1>t, Bounds
<1>1. /\ seen = Cardinality(Placed)
      /\ {n \in NodeSet \ Placed : ParentsOf(n) \subseteq Placed} = {}
  BY DEF IInv, ICounts
<1>2. Placed \subseteq NodeSet
  <2>1. \A i \in 1..Len(waves) : waves[i] \subseteq NodeSet
    BY <1>b, <1>t DEF TypeOK
  <2>2. QED BY <1>b, <2>1 DEF Placed, Before
<1>3. NodeSet \ Placed = {}
  <2> SUFFICES ASSUME NodeSet \ Placed # {} PROVE FALSE
    OBVIOUS
  <2>1. Acyclic BY DEF IInv, IVerdict
  <2>2. PICK n \in NodeSet \ Placed : ParentsOf(n) \cap (NodeSet \ Placed) = {}
    BY <2>1 DEF Acyclic
  <2>3. ParentsOf(n) \subseteq Placed BY <2>2 DEF ParentsOf
  <2>4. QED BY <1>1, <2>3
<1>4. QED BY <1>b, <1>1, <1>2, <1>3, NodesAreFinite

LEMMA EndWavesKeepsInv == IInv /\ EndWaves => IInv'
<1> SUFFICES ASSUME IInv, EndWaves PROVE IInv'
  OBVIOUS
<1>a. /\ pc = "waves" /\ ready = {}
      /\ pc' = IF seen = Count THEN "planned" ELSE "stuck"
  BY DEF EndWaves
<1>u. UNCHANGED <<entries, at, index, edges, remaining, ready, waves, seen>>
  BY DEF EndWaves
<1>1. Placed = NodeSet /\ seen = Count
  BY <1>a, NothingLeft DEF Peeling
<1>2. pc' = "planned" BY <1>a, <1>1
<1>3. /\ Count' = Count /\ NodeSet' = NodeSet /\ Placed' = Placed
      /\ (\A n : ParentsOf(n)' = ParentsOf(n)) /\ Acyclic' = Acyclic
      /\ WavesAreReadySets' = WavesAreReadySets
  BY <1>u DEF Count, NodeSet, ParentsOf, Placed, Before, Acyclic,
     WavesAreReadySets
<1>4. TypeOK' BY <1>u, <1>2, <1>3 DEF IInv, TypeOK, Outcomes
<1>5. IIndex' /\ IEdges'
  BY <1>a, <1>u, <1>2, <1>3 DEF IInv, IIndex, IEdges, Named, Drawn
<1>6. ICounts' BY <1>a, <1>u, <1>2, <1>3 DEF IInv, ICounts, Peeling
<1>7. IVerdict' BY <1>a, <1>1, <1>2, <1>3 DEF IInv, IVerdict, Peeling
<1>8. QED BY <1>3, <1>4, <1>5, <1>6, <1>7 DEF IInv

LEMMA InvNext == IInv /\ [Next]_vars => IInv'
<1> SUFFICES ASSUME IInv, [Next]_vars PROVE IInv'
  OBVIOUS
<1>1. CASE EdgesAdded BY <1>1, StageKeepsInv DEF EdgesAdded
<1>2. CASE RejectCycle BY <1>2, StageKeepsInv DEF RejectCycle
<1>3. CASE Accept BY <1>3, StageKeepsInv DEF Accept
<1>4. CASE UNCHANGED vars
  <2> USE <1>4 DEF vars
  <2>1. /\ Count' = Count /\ NodeSet' = NodeSet
        /\ \A n : ParentsOf(n)' = ParentsOf(n)
    BY DEF Count, NodeSet, ParentsOf
  <2>2. TypeOK' BY <2>1 DEF IInv, TypeOK
  <2>3. IIndex' /\ IEdges'
    BY <2>1 DEF IInv, IIndex, IEdges, Named, Drawn
  <2>4. Placed' = Placed /\ Peeling' = Peeling
    BY DEF Placed, Before, Peeling
  <2>5. ICounts' BY <2>1, <2>4 DEF IInv, ICounts
  <2>6. IVerdict'
    BY <2>1, <2>4 DEF IInv, IVerdict, Acyclic, UniqueNames, KnownReferences
  <2>7. WavesAreReadySets'
    BY <2>1 DEF IInv, WavesAreReadySets, Before
  <2>8. QED BY <2>2, <2>3, <2>5, <2>6, <2>7 DEF IInv
<1>5. QED
  BY <1>1, <1>2, <1>3, <1>4, AddNodeKeepsInv, RejectDuplicateKeepsInv,
     NodesAddedKeepsInv, AddEdgesKeepsInv, RejectUnknownKeepsInv,
     CountParentsKeepsInv, NextWaveKeepsInv, EndWavesKeepsInv
  DEF Next, Returned

(***************************************************************************)
(* The invariant of the construction: the index and the edges are those of *)
(* the entries gone through, and the counts those of the parents not yet   *)
(* placed.                                                                 *)
(***************************************************************************)
THEOREM Invariant == Spec => []IInv
BY InvInit, InvNext, PTL DEF Spec

-----------------------------------------------------------------------------
(* What it gives                                                           *)

(***************************************************************************)
(* Every variable of the construction has its type.                        *)
(***************************************************************************)
THEOREM TypeCorrect == Spec => []TypeOK
<1>1. IInv => TypeOK BY DEF IInv
<1>2. QED BY <1>1, Invariant, PTL

(***************************************************************************)
(* Past the edges every name has one entry, every reference leads to one,  *)
(* and the edges are the references.                                       *)
(***************************************************************************)
LEMMA GraphIsRight ==
  ASSUME IInv, pc \notin {"nodes", "duplicate", "edges"}
  PROVE  /\ UniqueNames
         /\ pc # "unknown" =>
              /\ KnownReferences
              /\ edges = {e \in NodeSet \X NodeSet :
                            entries[e[1]].name \in References(entries[e[2]])}
<1>t. TypeOK BY DEF IInv
<1>1. Named = NodeSet BY DEF Named
<1>2. UniqueNames
  BY <1>1 DEF UniqueNames, IInv, IIndex
<1>3. ASSUME pc # "unknown" PROVE Drawn = NodeSet
  BY <1>3 DEF Drawn
<1>4. ASSUME pc # "unknown" PROVE KnownReferences
  <2> SUFFICES ASSUME NEW i \in NodeSet, NEW r \in References(entries[i])
               PROVE  \E j \in NodeSet : entries[j].name = r
    BY DEF KnownReferences
  <2>1. r \in Names BY <1>t, TypesOfManifest
  <2>2. index[r] # 0 BY <1>3, <1>4 DEF IInv, IEdges
  <2>3. index[r] \in NodeSet /\ entries[index[r]].name = r
    BY <1>1, <2>1, <2>2 DEF IInv, IIndex
  <2>4. QED BY <2>3
<1>5. QED BY <1>2, <1>3, <1>4 DEF IInv, IEdges

(***************************************************************************)
(* from_manifest rejects a manifest for what is wrong with it, and accepts *)
(* one with nothing wrong, with the edges of its references.               *)
(***************************************************************************)
THEOREM VerdictIsSound == Spec => []VerdictIsRight
<1>1. IInv => VerdictIsRight
  BY GraphIsRight DEF VerdictIsRight, IInv, IVerdict
<1>2. QED BY <1>1, Invariant, PTL

(***************************************************************************)
(* The counting of execution_waves yields the ready sets: the waves the    *)
(* scheduler's model takes.                                                *)
(***************************************************************************)
THEOREM WavesAreExact == Spec => []WavesAreReadySets
<1>1. IInv => WavesAreReadySets BY DEF IInv
<1>2. QED BY <1>1, Invariant, PTL

(***************************************************************************)
(* A manifest that is accepted is planned in full: the counting finds no   *)
(* cycle the sort did not, and every node is in exactly one wave.          *)
(***************************************************************************)
THEOREM PlansAreComplete == Spec => []AcceptedIsPlanned
<1>1. ASSUME IInv PROVE AcceptedIsPlanned
  <2>t. Len(waves) \in Nat BY <1>1, Bounds DEF IInv
  <2>1. pc # "stuck" BY <1>1 DEF IInv, IVerdict
  <2>2. ASSUME pc = "planned"
        PROVE  UNION {waves[k] : k \in 1..Len(waves)} = NodeSet
    BY <1>1, <2>t, <2>2 DEF IInv, IVerdict, Placed, Before
  <2>3. ASSUME NEW j \in 1..Len(waves), NEW k \in 1..Len(waves), j < k
        PROVE  waves[j] \cap waves[k] = {}
    <3>1. waves[j] \subseteq Before(k) BY <2>t, <2>3 DEF Before
    <3>2. waves[k] \cap Before(k) = {} BY <1>1 DEF IInv, WavesAreReadySets
    <3>3. QED BY <3>1, <3>2
  <2>4. \A j, k \in 1..Len(waves) : j # k => waves[j] \cap waves[k] = {}
    <3> SUFFICES ASSUME NEW j \in 1..Len(waves), NEW k \in 1..Len(waves), j # k
                 PROVE  waves[j] \cap waves[k] = {}
      OBVIOUS
    <3>1. j < k \/ k < j BY <2>t
    <3>2. QED BY <2>3, <3>1
  <2>5. QED BY <2>1, <2>2, <2>4 DEF AcceptedIsPlanned
<1>2. QED BY <1>1, Invariant, PTL
=============================================================================
