---------------------------- MODULE MCScheduler ----------------------------
(* Manifests and failures for the model checker.                           *)
EXTENDS Scheduler, TLC

(* All acyclic manifests over the given names, with the joins and inputs   *)
(* taken from the given sets.                                              *)
Acyclic(mf) ==
  LET n == Cardinality(Nodes(mf))
      ran[i \in 0..n] ==
        IF i = 0 THEN {} ELSE ran[i - 1] \cup Ready(mf, ran[i - 1])
  IN  ran[n] = Nodes(mf)

Over(S, T, K, ins, joins) ==
  {mf \in [source : {S}, transform : {T}, sink : {K},
           input : [T \cup K -> ins],
           join : [T -> joins],
           mappable : SUBSET T] : Acyclic(mf)}

(* A source, two transforms and a sink, wired in every way that reads no   *)
(* sink as input; the sink may be named as a join.                         *)
ChainManifests == Over({1}, {2, 3}, {4}, 1..3, 0..4)

(* Two sources, both read by something, and transforms whose names sort    *)
(* around the sink's.  The first joins nothing, the second possibly the    *)
(* other source or the first transform.                                    *)
TwoSourceManifests ==
  {mf \in Over({1, 3}, {2, 5}, {4}, {1, 2, 3, 5}, {0, 2, 3}) :
     /\ mf.join[2] = 0
     /\ \A s \in mf.source : \E n \in Nodes(mf) : s \in Parents(mf, n)}

(* One source and two sinks, one of which others may name as their input.  *)
FanOutManifests == Over({1}, {2, 3}, {4, 5}, 1..4, {0})

(* Chains, and parallel steps of every kind in one wave.                   *)
AllManifests == ChainManifests \cup TwoSourceManifests \cup FanOutManifests

AllNames == 1..5
NoNames == {}

(* Readers' errors name a sink, or no node; in a chain, 3 is a transform,  *)
(* and with two sources it is the second of them.                          *)
ReadersNames == {0, 3, 4}
=============================================================================
