------------------------------- MODULE MCDag -------------------------------
(* Every manifest of one source, two or three transforms and a sink over   *)
(* few names: names repeat, references go anywhere, forward, to the entry  *)
(* itself, to a sink, to nothing.                                          *)
EXTENDS Dag

MCNames == {"a", "b", "c", "d", "e"}
Unset == "unset"

Sources(ns) == [kind : {"source"}, name : ns, input : {Unset}, join : {Unset}]
Transforms(ns, ins, joins) ==
  [kind : {"transform"}, name : ns, input : ins, join : joins]
Sinks(ns, ins) == [kind : {"sink"}, name : ns, input : ins, join : {Unset}]

(* Names may clash, and "e" is nobody's. *)
Clashing ==
  {<<s, t, k>> : s \in Sources({"a"}),
                 t \in Transforms({"a", "b"}, {"a", "b", "c", "e"}, {Unset, "a", "c", "e"}),
                 k \in Sinks({"a", "b", "c"}, {"a", "b", "c", "e"})}

(* Names are unique, the graph is anything. *)
Tangled ==
  {<<s, t, u, k>> :
     s \in Sources({"a"}),
     t \in Transforms({"b"}, {"a", "b", "c", "d"}, {Unset, "a", "c"}),
     u \in Transforms({"c"}, {"a", "b", "c", "d"}, {Unset, "a", "b", "d"}),
     k \in Sinks({"d"}, {"a", "b", "c"})}

MCRawManifests == Clashing \cup Tangled
=============================================================================
