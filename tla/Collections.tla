---------------------------- MODULE Collections ----------------------------
(***************************************************************************)
(* The feature collections that pass between the steps of a pipeline.      *)
(*                                                                         *)
(* A value is its variant and its text: "3" is an integer and "3.0" the    *)
(* float.  The floats are whole numbers, NaN, and Tiny for all that lie    *)
(* next to zero; the texts of strings are numbers or names.                *)
(*                                                                         *)
(* A geometry covers unit cells on a line: a point is one cell, a line or  *)
(* a polygon an interval of them.  Its form says what the cells do not:    *)
(*   sound   every part has the points and the area it should have         *)
(*   flat    a polygon with points enough and no area                      *)
(*   short   a line of one point, a polygon of two                         *)
(*   holed   a polygon whose holes lie outside it                          *)
(* A feature also has the features of the source it was made from, which   *)
(* the program does not know.                                              *)
(***************************************************************************)
EXTENDS Integers, Sequences, FiniteSets, FiniteSetsExt, SequencesExt, TLC

CONSTANTS Numbers, Cells, Crs, NoCrs

ASSUME CollectionsAssumption ==
  /\ Numbers \subseteq Int /\ 0 \in Numbers
  /\ Cells \subseteq Int /\ 0 \in Cells
  /\ \E a, b \in Cells : Cells = a..b
  /\ NoCrs \notin Crs

(***************************************************************************)
(* Values.                                                                 *)
(***************************************************************************)
ValueKinds == {"Null", "Bool", "Integer", "Float", "String"}
V(kind, text) == [kind |-> kind, text |-> text]
NullValue == V("Null", "")

FloatText(n) == ToString(n) \o ".0"
FixedText(n) == ToString(n) \o ".00000000"  \* a float with the 8 decimals of a .dbf field
Tiny == "1e-17"  \* a float other than zero, and closer to it than f64::EPSILON

IntegerTexts == {ToString(n) : n \in Numbers}
FloatTexts == {FloatText(n) : n \in Numbers} \cup {"NaN", Tiny}
TextsOf(n) == {ToString(n), FloatText(n), FixedText(n)}
NumericTexts == UNION {TextsOf(n) : n \in Numbers}
\* A constant function, so that TLC computes it once.
NumberOf == [t \in NumericTexts |-> CHOOSE n \in Numbers : t \in TextsOf(n)]
\* The whole number that a text is, or is next to.
Whole(t) == IF t = Tiny THEN 0 ELSE NumberOf[t]

\* What ToString makes of a number, which only TLC can tell.
ASSUME TextsAssumption ==
  /\ IntegerTexts \cap FloatTexts = {} /\ {"0", "1"} \subseteq IntegerTexts
  /\ {"NaN", Tiny} \cap NumericTexts = {}
  /\ \A m, n \in Numbers : TextsOf(m) \cap TextsOf(n) # {} => m = n

\* Of a kind, and with a text that a number of the model has.
Kinded(v) == v.kind \in ValueKinds /\ v = V(v.kind, v.text) /\ (v.kind = "Null" => v.text = "")
IsValue(v) ==
  /\ Kinded(v)
  /\ v.kind = "Integer" => v.text \in IntegerTexts
  /\ v.kind = "Float" => v.text \in FloatTexts

\* What Rust's parse::<f64> makes of a text, as a value.
ParsesAsFloat(t) == t \in NumericTexts \cup {"NaN", Tiny}
AsFloat(t) == V("Float", IF t \in {"NaN", Tiny} THEN t ELSE FloatText(NumberOf[t]))

(***************************************************************************)
(* Geometries.                                                             *)
(***************************************************************************)
GeometryTypes == {"Point", "LineString", "Polygon", "MultiPoint",
                  "MultiLineString", "MultiPolygon", "GeometryCollection"}
Forms == {"sound", "flat", "short", "holed"}
Geom(type, cells) == [type |-> type, cells |-> cells, form |-> "sound"]

\* The maximal intervals of a set of cells: the parts of a geometry.
Starts(cells) == {c \in cells : c - 1 \notin cells}
RunFrom(cells, c) == {d \in cells : c <= d /\ (c..d) \subseteq cells}
FirstRun(cells) == RunFrom(cells, Min(cells))
OneRun(cells) == Cardinality(Starts(cells)) = 1

Area(cells) == Geom(IF OneRun(cells) THEN "Polygon" ELSE "MultiPolygon", cells)
Polygonal(g) == g.type \in {"Polygon", "MultiPolygon"}
Lineal(g) == g.type \in {"LineString", "MultiLineString"}

\* GeometryValid of quality.rs, the one rule a pipeline applies.
Valid(g) ==
  CASE g.type = "Polygon" -> g.form = "sound" /\ g.cells # {}
    [] g.type = "MultiPolygon" -> g.form = "sound"
    [] g.type \in {"LineString", "MultiLineString"} -> g.form # "short"
    [] g.type = "MultiPoint" -> g.cells # {}
    [] OTHER -> TRUE

(***************************************************************************)
(* Features and collections.                                               *)
(***************************************************************************)
\* The i-th smallest number of a set.
Ranked(S, i) == CHOOSE k \in S : Cardinality({j \in S : j <= k}) = i
Picked(s, places) == [i \in 1..Cardinality(places) |-> s[Ranked(places, i)]]
\* SelectSeq, by the places of what it keeps.
Selected(s, Test(_)) == Picked(s, {i \in DOMAIN s : Test(s[i])})

\* The properties p, and those of q that p has not.
Overlaid(p, q) == [c \in DOMAIN p \cup DOMAIN q |-> IF c \in DOMAIN p THEN p[c] ELSE q[c]]

Feature(g, properties, from) == [geometry |-> g, properties |-> properties, from |-> from]
Collection(features, crs) == [features |-> features, crs |-> crs]

Columns(fc) == UNION {DOMAIN fc.features[i].properties : i \in DOMAIN fc.features}
ValueAt(f, c) == IF c \in DOMAIN f.properties THEN f.properties[c] ELSE NullValue
KindsIn(fc, c) == {ValueAt(fc.features[i], c).kind : i \in DOMAIN fc.features} \ {"Null"}
Quality(fc) == \A i \in DOMAIN fc.features : Valid(fc.features[i].geometry)

\* One-to-one correspondences of two sets.
Matchings(S, T) ==
  {p \in [S -> T] : /\ \A i, j \in S : p[i] = p[j] => i = j
                    /\ \A k \in T : \E i \in S : p[i] = k}
\* The same, but for the order of the features.
SameFeatures(a, b) ==
  /\ a.crs = b.crs
  /\ \E p \in Matchings(DOMAIN a.features, DOMAIN b.features) :
       \A i \in DOMAIN a.features : b.features[p[i]] = a.features[i]

IsCollection(fc) ==
  /\ fc = Collection(fc.features, fc.crs) /\ fc.crs \in Crs \cup {NoCrs}
  /\ Len(fc.features) \in Nat /\ DOMAIN fc.features = 1..Len(fc.features)
  /\ fc.features = [i \in DOMAIN fc.features |-> fc.features[i]]
  /\ \A i \in DOMAIN fc.features :
       LET f == fc.features[i]
       IN  /\ f = Feature(f.geometry, f.properties, f.from)
           /\ f.geometry \in [type : GeometryTypes, cells : SUBSET Cells, form : Forms]
           /\ f.properties = [c \in DOMAIN f.properties |-> f.properties[c]]
           /\ \A c \in DOMAIN f.properties : Kinded(f.properties[c])
           /\ f.from \subseteq Nat
=============================================================================
