--------------------------- MODULE MCIncremental ---------------------------
(* Manifests for the model checker, and the symmetry of the runs.          *)
EXTENDS Incremental, TLC

CONSTANTS a, b, f, g

(* Two manifests that read a common file under names of their own.         *)
OwnNames == (a :> (1 :> f @@ 2 :> g)) @@ (b :> (3 :> f))

OneManifest == a :> (1 :> f)

NameSet == 1..3

Symmetry == Permutations(Runs)
=============================================================================
