--------------------------- MODULE FormatsProofs ----------------------------
(***************************************************************************)
(* Lemmas about the collections and the formats, for every set of cells,   *)
(* of properties and of texts: sequences, counting, and what the readers   *)
(* make of a file.                                                         *)
(***************************************************************************)
EXTENDS Formats, SequenceTheorems, FiniteSetTheorems, WellFoundedInduction, TLAPS

-----------------------------------------------------------------------------
(* Sequences of whatever elements.                                         *)

IsSeq(s) == \E S : s \in Seq(S)

LEMMA SeqLength ==
  ASSUME NEW s, IsSeq(s)
  PROVE  Len(s) \in Nat /\ DOMAIN s = 1..Len(s)
BY DEF IsSeq

LEMMA OneElement ==
  ASSUME NEW x
  PROVE  IsSeq(<<x>>) /\ Len(<<x>>) = 1 /\ <<x>>[1] = x
<1>1. <<x>> \in Seq({x}) OBVIOUS
<1> QED BY <1>1 DEF IsSeq

LEMMA Appended ==
  ASSUME NEW s, IsSeq(s), NEW x
  PROVE  /\ IsSeq(Append(s, x))
         /\ Len(Append(s, x)) = Len(s) + 1
         /\ DOMAIN Append(s, x) = 1..(Len(s) + 1)
         /\ \A i \in 1..Len(s) : Append(s, x)[i] = s[i]
         /\ Append(s, x)[Len(s) + 1] = x
<1>1. PICK S : s \in Seq(S) BY DEF IsSeq
<1>2. s \in Seq(S \cup {x}) BY <1>1, SeqMonotonic
<1>3. Append(s, x) \in Seq(S \cup {x}) BY <1>2
<1> QED BY <1>2, <1>3 DEF IsSeq

LEMMA MinOfFew ==
  ASSUME NEW B \in SUBSET (1..4), B # {}
  PROVE  Min(B) \in B
<1>1. \E x \in B : \A y \in B : x =< y
  <2>1. CASE 1 \in B BY <2>1
  <2>2. CASE 1 \notin B /\ 2 \in B BY <2>2
  <2>3. CASE 1 \notin B /\ 2 \notin B /\ 3 \in B BY <2>3
  <2>4. CASE 1 \notin B /\ 2 \notin B /\ 3 \notin B
    <3>1. PICK z \in B : TRUE OBVIOUS
    <3>2. \A y \in B : y = 4 BY <2>4
    <3> QED BY <3>1, <3>2
  <2> QED BY <2>1, <2>2, <2>3, <2>4
<1> QED BY <1>1, Zenon DEF Min

-----------------------------------------------------------------------------
(* Features that come from the same places.                                *)

\* Two collections of as many features, made of the same ones.
SameOrigins(a, b) ==
  /\ DOMAIN a.features = DOMAIN b.features
  /\ \A i \in DOMAIN a.features : a.features[i].from = b.features[i].from

\* A record is true of the step it names, and the engine has what the last
\* step gave, as long as the next step runs there.
RecordIsTrue(record, input, output) ==
  /\ record.count = Len(output.features) /\ record.inputCount = Len(input.features)
  /\ record.passthrough => SameOrigins(output, input)

LEMMA SameOriginsChain ==
  ASSUME NEW a, NEW b, NEW c, SameOrigins(a, b), SameOrigins(b, c)
  PROVE  SameOrigins(a, c)
BY DEF SameOrigins

LEMMA FormatsKnown ==
  ASSUME NEW name
  PROVE  FormatOf(name) \in FormatNames <=> name \in KnownFormats
<1>1. DOMAIN AliasOf = {"gpkg", "shp"} /\ AliasOf["gpkg"] \in FormatNames /\ AliasOf["shp"] \in FormatNames
  BY DEF AliasOf, FormatNames
<1> QED BY <1>1 DEF FormatOf, KnownFormats

LEMMA EmptySeqIsShort ==
  ASSUME NEW s, IsSeq(s), s # <<>>
  PROVE  Len(s) # 0
BY DEF IsSeq

-----------------------------------------------------------------------------
(* Counting: induction over the numbers, and the elements picked in order. *)

\* Induction over the numbers, by the set of those for which something holds.
LEMMA SetInduction ==
  ASSUME NEW S, 0 \in S, \A n \in Nat : n \in S => n + 1 \in S
  PROVE  \A n \in Nat : n \in S
<1> DEFINE T == Nat \ S
<1>1. SUFFICES ASSUME T # {} PROVE FALSE
  OBVIOUS
<1>2. \E x \in T : \A y \in T : ~ (<<y, x>> \in OpToRel(<,Nat))
  BY <1>1, WFMin, NatLessThanWellFounded
<1>3. PICK x \in T : \A y \in T : ~ (y < x)
  BY <1>2 DEF OpToRel
<1>4. x # 0 /\ x - 1 \in Nat /\ x - 1 \notin T
  BY <1>3
<1> QED BY <1>4

LEMMA FunctionIsSeq ==
  ASSUME NEW n \in Nat, NEW s, DOMAIN s = 1..n, s = [i \in DOMAIN s |-> s[i]]
  PROVE  IsSeq(s) /\ Len(s) = n
<1> DEFINE S == {s[i] : i \in 1..n}
<1>1. s \in [1..n -> S] OBVIOUS
<1>2. s \in Seq(S) BY <1>1
<1> QED BY <1>2 DEF IsSeq

\* Every number up to the size of a set is the rank of one of its elements.
LEMMA RanksAreTaken ==
  ASSUME NEW N \in Nat, NEW S \in SUBSET (1..N)
  PROVE  /\ IsFiniteSet(S) /\ Cardinality(S) \in Nat
         /\ \A i \in 1..Cardinality(S) :
              Ranked(S, i) \in S /\ Cardinality({j \in S : j <= Ranked(S, i)}) = i
<1> DEFINE Upto(n) == S \cap (1..n)
           Taken(n) == /\ IsFiniteSet(Upto(n)) /\ Cardinality(Upto(n)) \in Nat
                       /\ \A i \in 1..Cardinality(Upto(n)) :
                            \E k \in Upto(n) : Cardinality(Upto(k)) = i
           Good == {n \in Nat : Taken(n)}
<1>1. 0 \in Good
  <2>1. Upto(0) = {} OBVIOUS
  <2>2. IsFiniteSet(Upto(0)) /\ Cardinality(Upto(0)) = 0 BY <2>1, FS_EmptySet
  <2> HIDE DEF Upto
  <2> QED BY <2>2
<1>2. ASSUME NEW n \in Nat, n \in Good PROVE n + 1 \in Good
  <2>1. Taken(n) BY <1>2
  <2>2. CASE n + 1 \in S
    <3>1. Upto(n + 1) = Upto(n) \cup {n + 1} /\ n + 1 \notin Upto(n) BY <2>2
    <3>2. IsFiniteSet(Upto(n + 1)) /\ Cardinality(Upto(n + 1)) = Cardinality(Upto(n)) + 1
      BY <2>1, <3>1, FS_AddElement
    <3>3. n + 1 \in Upto(n + 1) /\ Upto(n) \subseteq Upto(n + 1) BY <3>1
    <3> HIDE DEF Upto
    <3>4. ASSUME NEW i \in 1..Cardinality(Upto(n + 1))
          PROVE  \E k \in Upto(n + 1) : Cardinality(Upto(k)) = i
      <4>1. CASE i = Cardinality(Upto(n + 1)) BY <3>3, <4>1
      <4>2. CASE i \in 1..Cardinality(Upto(n)) BY <2>1, <3>3, <4>2
      <4> QED BY <2>1, <3>2, <4>1, <4>2
    <3> QED BY <2>1, <3>2, <3>4
  <2>3. CASE n + 1 \notin S
    <3>1. Upto(n + 1) = Upto(n) BY <2>3
    <3> HIDE DEF Upto
    <3> QED BY <2>1, <3>1
  <2> QED BY <2>2, <2>3
<1>3. Taken(N)
  <2> HIDE DEF Taken
  <2>1. \A n \in Nat : n \in Good BY <1>1, <1>2, SetInduction
  <2> QED BY <2>1
<1>4. Upto(N) = S /\ \A k \in S : Upto(k) = {j \in S : j <= k}
  <2>1. Upto(N) = S OBVIOUS
  <2>2. ASSUME NEW k \in S PROVE Upto(k) = {j \in S : j <= k}
    <3>1. \A j \in S : j \in 1..k <=> j <= k OBVIOUS
    <3> QED BY <3>1
  <2> HIDE DEF Upto
  <2> QED BY <2>1, <2>2
<1> HIDE DEF Upto
<1>5. IsFiniteSet(S) /\ Cardinality(S) \in Nat BY <1>3, <1>4
<1>6. ASSUME NEW i \in 1..Cardinality(S)
      PROVE  Ranked(S, i) \in S /\ Cardinality({j \in S : j <= Ranked(S, i)}) = i
  <2>1. \E k \in S : Cardinality({j \in S : j <= k}) = i BY <1>3, <1>4
  <2> QED BY <2>1, Zenon DEF Ranked
<1> QED BY <1>5, <1>6

\* What is picked is there to be picked.
LEMMA PickedIs ==
  ASSUME NEW s, NEW N \in Nat, NEW places \in SUBSET (1..N)
  PROVE  /\ Cardinality(places) \in Nat
         /\ DOMAIN Picked(s, places) = 1..Cardinality(places)
         /\ \A i \in DOMAIN Picked(s, places) :
              Ranked(places, i) \in places /\ Picked(s, places)[i] = s[Ranked(places, i)]
         /\ places # {} => 1 \in DOMAIN Picked(s, places)
<1>1. /\ IsFiniteSet(places) /\ Cardinality(places) \in Nat
      /\ \A i \in 1..Cardinality(places) : Ranked(places, i) \in places
  BY RanksAreTaken
<1>2. places # {} => Cardinality(places) # 0
  BY <1>1, FS_EmptySet
<1> QED BY <1>1, <1>2 DEF Picked

-----------------------------------------------------------------------------
(* Collections as the readers make them.                                   *)

\* A feature as a reader makes it.
IsFeature(f) ==
  /\ f = Feature(f.geometry, f.properties, f.from)
  /\ f.properties = [c \in DOMAIN f.properties |-> f.properties[c]]
  /\ \A c \in DOMAIN f.properties : IsValue(f.properties[c])

WellFormed(fc) ==
  /\ fc = Collection(fc.features, fc.crs)
  /\ fc.features = [i \in DOMAIN fc.features |-> fc.features[i]]
  /\ \E n \in Nat : DOMAIN fc.features = 1..n
  /\ \A i \in DOMAIN fc.features : IsFeature(fc.features[i])

LEMMA NumbersHaveKinds ==
  ASSUME NEW n \in Numbers
  PROVE  /\ ToString(n) \in IntegerTexts /\ FloatText(n) \in FloatTexts
         /\ FloatText(n) \notin IntegerTexts
BY TextsAssumption DEF IntegerTexts, FloatTexts

-----------------------------------------------------------------------------
(* What a reader makes of a file is well formed.                           *)

LEMMA NumbersAreTold ==
  ASSUME NEW t, t \in NumericTexts \cup {"NaN", Tiny}
  PROVE  IsValue(AsFloat(t))
<1>1. CASE t \in {"NaN", Tiny}
  BY <1>1 DEF AsFloat, IsValue, Kinded, V, ValueKinds, FloatTexts
<1>2. CASE t \in NumericTexts /\ t \notin {"NaN", Tiny}
  <2>1. \E n \in Numbers : t \in TextsOf(n)
    BY <1>2 DEF NumericTexts
  <2>2. NumberOf[t] = CHOOSE n \in Numbers : t \in TextsOf(n)
    BY <1>2 DEF NumberOf
  <2>3. NumberOf[t] \in Numbers BY <2>1, <2>2, Zenon
  <2>4. FloatText(NumberOf[t]) \in FloatTexts BY <2>3, NumbersHaveKinds
  <2> QED BY <1>2, <2>4 DEF AsFloat, IsValue, Kinded, V, ValueKinds
<1> QED BY <1>1, <1>2

LEMMA TextsAreNumeric ==
  /\ IntegerTexts \subseteq NumericTexts
  /\ FloatTexts \subseteq NumericTexts \cup {"NaN", Tiny}
  /\ \A n \in Numbers : ToString(n) \in NumericTexts
BY DEF IntegerTexts, FloatTexts, NumericTexts, TextsOf

LEMMA NumbersAreNumbers ==
  ASSUME NEW t \in NumericTexts
  PROVE  NumberOf[t] \in Numbers /\ ToString(NumberOf[t]) \in NumericTexts
<1>1. \E n \in Numbers : t \in TextsOf(n)
  BY DEF NumericTexts
<1>2. NumberOf[t] = CHOOSE n \in Numbers : t \in TextsOf(n)
  BY DEF NumberOf
<1>3. NumberOf[t] \in Numbers BY <1>1, <1>2, Zenon
<1> QED BY <1>3, TextsAreNumeric

LEMMA WholesAreNumbers ==
  ASSUME NEW t \in NumericTexts \cup {Tiny}
  PROVE  Whole(t) \in Numbers /\ ToString(Whole(t)) \in NumericTexts
<1>1. CASE t = Tiny
  <2>1. Whole(t) = 0 BY <1>1 DEF Whole
  <2> QED BY <2>1, CollectionsAssumption, TextsAreNumeric
<1>2. CASE t # Tiny
  <2>1. Whole(t) = NumberOf[t] BY <1>2 DEF Whole
  <2> QED BY <1>2, <2>1, NumbersAreNumbers
<1> QED BY <1>1, <1>2

LEMMA NullIsValue == IsValue(NullValue)
BY DEF NullValue, IsValue, Kinded, V, ValueKinds

\* A value of any kind but none.
LEMMA MadeIsKinded ==
  ASSUME NEW kind \in ValueKinds, kind # "Null", NEW t
  PROVE  Kinded(V(kind, t)) /\ Kinded(NullValue)
BY DEF Kinded, V, ValueKinds, NullValue

LEMMA MadeIsValue ==
  ASSUME NEW t
  PROVE  /\ IsValue(V("String", t)) /\ IsValue(V("Bool", t))
         /\ t \in IntegerTexts => IsValue(V("Integer", t))
BY DEF IsValue, Kinded, V, ValueKinds

LEMMA InferredIsValue ==
  ASSUME NEW t
  PROVE  IsValue(Inferred(t))
<1>1. CASE t \in IntegerTexts
  <2>1. Inferred(t) = V("Integer", t) BY <1>1 DEF Inferred
  <2> QED BY <1>1, <2>1, MadeIsValue
<1>2. CASE t \notin IntegerTexts /\ ParsesAsFloat(t)
  <2>1. Inferred(t) = AsFloat(t) BY <1>2 DEF Inferred
  <2> QED BY <1>2, <2>1, NumbersAreTold DEF ParsesAsFloat
<1>3. CASE t \notin IntegerTexts /\ ~ParsesAsFloat(t)
  <2>1. Inferred(t) = V("String", t) BY <1>3 DEF Inferred
  <2> QED BY <2>1, MadeIsValue
<1> QED BY <1>1, <1>2, <1>3

LEMMA JsonIsValue ==
  ASSUME NEW v, IsValue(v)
  PROVE  IsValue(ValueOfJson(JsonOf(v)))
<1>1. CASE v.kind \in {"Integer", "Float"}
  <2> DEFINE t == IF v.text = "NaN" THEN "0" ELSE v.text
  <2>1. JsonOf(v) = V("Number", t) BY <1>1 DEF JsonOf
  <2>2. t \in NumericTexts \cup {Tiny}
    BY <1>1, TextsAreNumeric, TextsAssumption DEF IsValue
  <2> HIDE DEF t
  <2>3. ValueOfJson(V("Number", t)) = IF t \in IntegerTexts THEN V("Integer", t) ELSE AsFloat(t)
    BY DEF ValueOfJson, V
  <2>4. CASE t \in IntegerTexts
    BY <2>1, <2>3, <2>4, MadeIsValue
  <2>5. CASE t \notin IntegerTexts
    BY <2>1, <2>2, <2>3, <2>5, NumbersAreTold
  <2> QED BY <2>4, <2>5
<1>2. CASE v.kind \notin {"Integer", "Float"}
  <2>1. JsonOf(v) = v BY <1>2 DEF JsonOf
  <2>2. v.kind # "Number" BY DEF IsValue, Kinded, ValueKinds
  <2>3. ValueOfJson(v) = v BY <2>2 DEF ValueOfJson
  <2> QED BY <2>1, <2>3
<1> QED BY <1>1, <1>2

LEMMA SqlIsValue ==
  ASSUME NEW v, IsValue(v), NEW type \in {"TEXT", "REAL", "INTEGER"}
  PROVE  IsValue(Affinity(type, ToSql(v)))
<1>1. IsValue(ToSql(v))
  <2>1. CASE v.kind = "Bool"
    <3>1. ToSql(v) = V("Integer", IF v.text = "true" THEN "1" ELSE "0")
      BY <2>1 DEF ToSql
    <3> QED BY <3>1, TextsAssumption, MadeIsValue
  <2>2. CASE v.text = "NaN" /\ v.kind = "Float"
    BY <2>2, NullIsValue DEF ToSql
  <2>3. CASE v.kind # "Bool" /\ ~(v.text = "NaN" /\ v.kind = "Float")
    BY <2>3 DEF ToSql
  <2> QED BY <2>1, <2>2, <2>3
<1> DEFINE s == ToSql(v)
<1> HIDE DEF s
<1>2. ASSUME IsValue(s) PROVE IsValue(Affinity(type, s))
  <2>1. CASE type = "TEXT" /\ s.kind \in {"Integer", "Float"}
    <3>1. Affinity(type, s) = V("String", s.text) BY <2>1 DEF Affinity
    <3> QED BY <3>1, MadeIsValue
  <2>2. CASE type = "REAL" /\ s.kind = "Integer"
    <3>1. Affinity(type, s) = AsFloat(s.text) BY <2>2 DEF Affinity
    <3>2. s.text \in NumericTexts BY <1>2, <2>2, TextsAreNumeric DEF IsValue
    <3> QED BY <3>1, <3>2, NumbersAreTold
  <2>3. CASE ~(type = "TEXT" /\ s.kind \in {"Integer", "Float"}) /\ ~(type = "REAL" /\ s.kind = "Integer")
    BY <1>2, <2>3 DEF Affinity
  <2> QED BY <2>1, <2>2, <2>3
<1> QED BY <1>1, <1>2 DEF s

LEMMA FieldIsValue ==
  ASSUME NEW v, IsValue(v), NEW type
  PROVE  IsValue(OfField(ToField(type, v)))
<1>1. CASE type = "Logical" /\ v.kind = "Bool"
  <2>1. ToField(type, v) = V("Logical", v.text) BY <1>1 DEF ToField
  <2>2. OfField(V("Logical", v.text)) = NullValue BY DEF OfField, V
  <2> QED BY <2>1, <2>2, NullIsValue
<1>2. CASE type = "Numeric" /\ v.kind \in {"Integer", "Float"}
  <2> DEFINE t == IF v.text = "NaN" THEN v.text ELSE ToString(Whole(v.text))
  <2>1. ToField(type, v) = V("Numeric", t) BY <1>2 DEF ToField
  <2>2. v.text \in NumericTexts \cup {"NaN", Tiny} BY <1>2, TextsAreNumeric DEF IsValue
  <2>3. t \in NumericTexts \cup {"NaN"} BY <2>2, WholesAreNumbers
  <2> HIDE DEF t
  <2>4. OfField(V("Numeric", t)) = AsFloat(t) BY DEF OfField, V
  <2> QED BY <2>1, <2>3, <2>4, NumbersAreTold
<1>3. CASE type = "Character" /\ AsText(v) # ""
  <2>1. ToField(type, v) = V("Character", AsText(v)) BY <1>3 DEF ToField
  <2>2. OfField(V("Character", AsText(v))) = V("String", AsText(v)) BY DEF OfField, V
  <2> QED BY <2>1, <2>2, MadeIsValue
<1>4. CASE ~(type = "Logical" /\ v.kind = "Bool") /\ ~(type = "Numeric" /\ v.kind \in {"Integer", "Float"})
           /\ ~(type = "Character" /\ AsText(v) # "")
  <2>1. ToField(type, v) = NullValue BY <1>4 DEF ToField
  <2>2. OfField(NullValue) = NullValue BY DEF OfField, NullValue, V
  <2> QED BY <2>1, <2>2, NullIsValue
<1> QED BY <1>1, <1>2, <1>3, <1>4

LEMMA CellsAreValues ==
  ASSUME NEW format \in FormatNames, NEW fc, NEW c, NEW v, IsValue(v)
  PROVE  IsValue(ValueOf(format, CellOf(format, fc, c, v)))
<1>1. CASE format = "csv"
  <2>1. CellOf(format, fc, c, v) = V("Text", v.text) BY <1>1 DEF CellOf
  <2>2. ValueOf(format, V("Text", v.text)) = Inferred(v.text) BY <1>1 DEF ValueOf, V
  <2> QED BY <2>1, <2>2, InferredIsValue
<1>2. CASE format = "geojson"
  <2>1. CellOf(format, fc, c, v) = JsonOf(v) BY <1>2 DEF CellOf
  <2>2. ValueOf(format, JsonOf(v)) = ValueOfJson(JsonOf(v)) BY <1>2 DEF ValueOf
  <2> QED BY <2>1, <2>2, JsonIsValue
<1>3. CASE format = "geopackage"
  <2>1. CellOf(format, fc, c, v) = Affinity(ColumnType(fc, c), ToSql(v)) BY <1>3 DEF CellOf
  <2>2. ValueOf(format, Affinity(ColumnType(fc, c), ToSql(v))) = Affinity(ColumnType(fc, c), ToSql(v))
    BY <1>3 DEF ValueOf
  <2>3. ColumnType(fc, c) \in {"TEXT", "REAL", "INTEGER"}
    <3>1. \A kinds : (CASE kinds = {} \/ "String" \in kinds -> "TEXT"
                        [] "String" \notin kinds /\ "Float" \in kinds -> "REAL"
                        [] OTHER -> "INTEGER") \in {"TEXT", "REAL", "INTEGER"}
      OBVIOUS
    <3> QED BY <3>1 DEF ColumnType
  <2> QED BY <2>1, <2>2, <2>3, SqlIsValue
<1>4. CASE format = "shapefile"
  <2>1. CellOf(format, fc, c, v) = ToField(FieldKind(fc, c), v) BY <1>4 DEF CellOf
  <2>2. ValueOf(format, ToField(FieldKind(fc, c), v)) = OfField(ToField(FieldKind(fc, c), v))
    BY <1>4 DEF ValueOf
  <2> QED BY <2>1, <2>2, FieldIsValue
<1> QED BY <1>1, <1>2, <1>3, <1>4 DEF FormatNames

LEMMA FilesAreWellFormed ==
  ASSUME NEW format \in FormatNames, NEW fc, NEW n \in Nat, DOMAIN fc.features = 1..n,
         \A i \in DOMAIN fc.features : \A c \in DOMAIN fc.features[i].properties :
           IsValue(fc.features[i].properties[c])
  PROVE  WellFormed(ReadFrom(Written(format, fc)))
<1> DEFINE file == Written(format, fc)
           read == ReadFrom(file)
<1>1. file.format = format /\ DOMAIN file.rows = 1..n
  BY DEF Written
<1>2. ASSUME NEW i \in 1..n, NEW c \in DOMAIN file.rows[i].properties
      PROVE  IsValue(ValueOf(format, file.rows[i].properties[c]))
  <2>1. file.rows[i].properties =
          [d \in CellColumns(format, fc, fc.features[i]) |->
             CellOf(format, fc, d, ValueAt(fc.features[i], d))]
    BY DEF Written, Feature
  <2>2. file.rows[i].properties[c] = CellOf(format, fc, c, ValueAt(fc.features[i], c))
    BY <1>2, <2>1
  <2>3. IsValue(ValueAt(fc.features[i], c)) BY NullIsValue DEF ValueAt
  <2> QED BY <2>2, <2>3, CellsAreValues
<1> HIDE DEF file
<1>3. /\ read = Collection(read.features, read.crs)
      /\ DOMAIN read.features = 1..n
      /\ read.features = [i \in 1..n |-> read.features[i]]
  BY <1>1 DEF ReadFrom, Collection
<1>4. ASSUME NEW i \in 1..n
      PROVE  IsFeature(read.features[i])
  <2> DEFINE row == file.rows[i]
             columns == DOMAIN row.properties
             Header(m) == CHOOSE c \in columns : Cased(format, c) = m
             names == {Cased(format, c) : c \in columns}
             properties == [m \in names |-> ValueOf(format, row.properties[Header(m)])]
             g == IF format = "shapefile" THEN OfShape(row.geometry) ELSE row.geometry
  <2>1. read.features[i] = Feature(g, properties, row.from)
    BY <1>1 DEF ReadFrom, Collection
  <2>2. \A m \in names : IsValue(properties[m])
    <3> SUFFICES ASSUME NEW m \in names PROVE IsValue(properties[m])
      OBVIOUS
    <3>1. Header(m) \in columns
      <4>1. \E c \in columns : Cased(format, c) = m OBVIOUS
      <4> QED BY <4>1, Zenon
    <3>2. properties[m] = ValueOf(format, row.properties[Header(m)]) OBVIOUS
    <3> HIDE DEF Header
    <3> QED BY <1>2, <3>1, <3>2
  <2> HIDE DEF g, properties
  <2>3. DOMAIN properties = names /\ properties = [m \in names |-> properties[m]]
    BY DEF properties
  <2> HIDE DEF names
  <2> QED BY <2>1, <2>2, <2>3 DEF IsFeature, Feature
<1>5. WellFormed(read) BY <1>3, <1>4 DEF WellFormed
<1> QED BY <1>5 DEF file

PickedFrom(fc, places) == Collection(Picked(fc.features, places), fc.crs)

IsValues(properties) ==
  /\ properties = [c \in DOMAIN properties |-> properties[c]]
  /\ \A c \in DOMAIN properties : IsValue(properties[c])

-----------------------------------------------------------------------------
(* The ends of a set of numbers.                                           *)

LEMMA LeastIs ==
  ASSUME NEW lo \in Int, NEW S \in SUBSET Int, S # {}, \A x \in S : lo <= x
  PROVE  Min(S) \in S /\ \A x \in S : Min(S) <= x
<1> DEFINE T == {x - lo : x \in S}
<1>1. T \in SUBSET Nat /\ T # {}
  <2>1. \A x \in S : x - lo \in Nat OBVIOUS
  <2> QED BY <2>1
<1> HIDE DEF T
<1>2. \E m \in T : \A y \in T : ~ (<<y, m>> \in OpToRel(<,Nat))
  BY <1>1, WFMin, NatLessThanWellFounded
<1>3. PICK m \in T : \A y \in T : m <= y
  <2>1. \E m \in T : \A y \in T : ~ (y < m) BY <1>1, <1>2 DEF OpToRel
  <2>2. \A m, y \in T : ~ (y < m) => m <= y BY <1>1
  <2> QED BY <2>1, <2>2
<1>4. \E x \in S : \A y \in S : x =< y
  <2> USE DEF T
  <2>1. PICK x \in S : m = x - lo OBVIOUS
  <2>2. \A y \in S : x =< y
    <3> TAKE y \in S
    <3>1. y - lo \in T OBVIOUS
    <3>2. m <= y - lo BY <1>3, <3>1
    <3> QED BY <2>1, <3>2
  <2> QED BY <2>2
<1>5. Min(S) \in S /\ \A y \in S : Min(S) =< y
  BY <1>4, Zenon DEF Min
<1> QED BY <1>5

LEMMA GreatestIs ==
  ASSUME NEW hi \in Int, NEW S \in SUBSET Int, S # {}, \A x \in S : x <= hi
  PROVE  Max(S) \in S /\ \A x \in S : x <= Max(S)
<1> DEFINE T == {hi - x : x \in S}
<1>1. T \in SUBSET Nat /\ T # {}
  <2>1. \A x \in S : hi - x \in Nat OBVIOUS
  <2> QED BY <2>1
<1> HIDE DEF T
<1>2. \E m \in T : \A y \in T : ~ (<<y, m>> \in OpToRel(<,Nat))
  BY <1>1, WFMin, NatLessThanWellFounded
<1>3. PICK m \in T : \A y \in T : m <= y
  <2>1. \E m \in T : \A y \in T : ~ (y < m) BY <1>1, <1>2 DEF OpToRel
  <2>2. \A m, y \in T : ~ (y < m) => m <= y BY <1>1
  <2> QED BY <2>1, <2>2
<1>4. \E x \in S : \A y \in S : x >= y
  <2> USE DEF T
  <2>1. PICK x \in S : m = hi - x OBVIOUS
  <2>2. \A y \in S : x >= y
    <3> TAKE y \in S
    <3>1. hi - y \in T OBVIOUS
    <3>2. m <= hi - y BY <1>3, <3>1
    <3> QED BY <2>1, <3>2
  <2> QED BY <2>2
<1>5. Max(S) \in S /\ \A y \in S : Max(S) >= y
  BY <1>4, Zenon DEF Max
<1> QED BY <1>5

-----------------------------------------------------------------------------
(* The collections of the model, type by type.                             *)

Shapes == [type : GeometryTypes, cells : SUBSET Cells, form : Forms]

KindsAreKnown(properties) ==
  /\ properties = [c \in DOMAIN properties |-> properties[c]]
  /\ \A c \in DOMAIN properties : Kinded(properties[c])

Sane(f) ==
  /\ f = Feature(f.geometry, f.properties, f.from)
  /\ f.geometry \in Shapes /\ KindsAreKnown(f.properties) /\ f.from \subseteq Nat

LEMMA SaneCollection ==
  ASSUME NEW fc
  PROVE  IsCollection(fc) <=>
           /\ fc = Collection(fc.features, fc.crs) /\ fc.crs \in Crs \cup {NoCrs}
           /\ Len(fc.features) \in Nat /\ DOMAIN fc.features = 1..Len(fc.features)
           /\ fc.features = [i \in DOMAIN fc.features |-> fc.features[i]]
           /\ \A i \in DOMAIN fc.features : Sane(fc.features[i])
BY DEF IsCollection, Sane, Shapes, KindsAreKnown

LEMMA MadeIsCollection ==
  ASSUME NEW n \in Nat, NEW crs \in Crs \cup {NoCrs},
         NEW s, DOMAIN s = 1..n, s = [i \in DOMAIN s |-> s[i]], \A i \in 1..n : Sane(s[i])
  PROVE  IsCollection(Collection(s, crs))
<1>1. Len(s) = n BY FunctionIsSeq
<1>2. Collection(s, crs).features = s /\ Collection(s, crs).crs = crs BY DEF Collection
<1> QED BY <1>1, <1>2, SaneCollection

\* Features at some places.
LEMMA PickedIsCollection ==
  ASSUME NEW fc, IsCollection(fc), NEW places \in SUBSET (DOMAIN fc.features)
  PROVE  IsCollection(PickedFrom(fc, places))
<1> DEFINE n == Len(fc.features)
           s == Picked(fc.features, places)
<1>1. n \in Nat /\ DOMAIN fc.features = 1..n /\ fc.crs \in Crs \cup {NoCrs}
      /\ \A i \in 1..n : Sane(fc.features[i])
  BY SaneCollection
<1>2. places \in SUBSET (1..n) BY <1>1
<1> HIDE DEF n
<1>3. Cardinality(places) \in Nat /\ \A i \in 1..Cardinality(places) : Ranked(places, i) \in places
  BY <1>1, <1>2, RanksAreTaken
<1>4. DOMAIN s = 1..Cardinality(places) /\ s = [i \in DOMAIN s |-> s[i]]
      /\ \A i \in 1..Cardinality(places) : s[i] = fc.features[Ranked(places, i)]
  BY DEF Picked
<1>5. \A i \in 1..Cardinality(places) : Sane(s[i]) BY <1>1, <1>2, <1>3, <1>4
<1> HIDE DEF s
<1>6. IsCollection(Collection(s, fc.crs)) BY <1>1, <1>3, <1>4, <1>5, MadeIsCollection
<1> QED BY <1>6 DEF PickedFrom, s

LEMMA AreaIsShape ==
  ASSUME NEW cells \in SUBSET Cells
  PROVE  Area(cells) \in Shapes
BY DEF Area, Geom, Shapes, GeometryTypes, Forms

CrsAfter(op, params, fc) == IF op = "reproject" THEN params["to_crs"].text ELSE fc.crs

LEMMA OverlaidKinds ==
  ASSUME NEW a, NEW b, KindsAreKnown(a), KindsAreKnown(b)
  PROVE  KindsAreKnown(Overlaid(a, b))
BY DEF KindsAreKnown, Overlaid

-----------------------------------------------------------------------------
(* What a reader makes of a file is a collection of the model.             *)

LEMMA ShapeIsShape ==
  ASSUME NEW g \in Shapes
  PROVE  OfShape(g) \in Shapes
<1>1. /\ g.type \in GeometryTypes /\ g.cells \in SUBSET Cells /\ g.form \in Forms
      /\ g = [type |-> g.type, cells |-> g.cells, form |-> g.form]
  BY DEF Shapes
<1>2. FirstRun(g.cells) \in SUBSET Cells BY <1>1 DEF FirstRun, RunFrom
<1>3. [type |-> "Polygon", cells |-> FirstRun(g.cells),
       form |-> IF OneRun(g.cells) THEN g.form ELSE "holed"] \in Shapes
  BY <1>1, <1>2 DEF Shapes, GeometryTypes, Forms
<1>4. \A type \in GeometryTypes : [g EXCEPT !.type = type] \in Shapes
  BY DEF Shapes
<1>5. Geom("Point", {0}) \in Shapes
  BY CollectionsAssumption DEF Geom, Shapes, GeometryTypes, Forms
<1>6. [g EXCEPT !.type = IF OneRun(g.cells) THEN "LineString" ELSE "MultiLineString"] \in Shapes
  BY <1>4 DEF GeometryTypes
<1>7. Polygonal(g) => ~Lineal(g) /\ g.type # "MultiPoint" BY DEF Polygonal, Lineal
<1>8. Lineal(g) => g.type # "MultiPoint" BY DEF Lineal
<1> QED BY <1>3, <1>5, <1>6, <1>7, <1>8 DEF OfShape

\* What a reader makes of a file is a collection.
LEMMA FilesAreCollections ==
  ASSUME NEW format \in FormatNames, NEW fc, IsCollection(fc),
         \A i \in DOMAIN fc.features : \A c \in DOMAIN fc.features[i].properties :
           IsValue(fc.features[i].properties[c])
  PROVE  IsCollection(ReadFrom(Written(format, fc)))
<1> DEFINE file == Written(format, fc)
           read == ReadFrom(file)
           shape(g) == IF format = "shapefile" THEN OfShape(g) ELSE g
<1>1. PICK n \in Nat : DOMAIN fc.features = 1..n BY SaneCollection
<1>2. WellFormed(read) BY <1>1, FilesAreWellFormed
<1>3. /\ file.format = format /\ DOMAIN file.rows = 1..n
      /\ file.crs = IF format = "geopackage" THEN SrsId(fc.crs) ELSE fc.crs
      /\ \A i \in 1..n : file.rows[i].geometry = fc.features[i].geometry /\ file.rows[i].from = fc.features[i].from
  BY <1>1 DEF Written, Feature
<1> HIDE DEF file
<1>4. /\ DOMAIN read.features = 1..n
      /\ \A i \in 1..n : /\ read.features[i].geometry = shape(fc.features[i].geometry)
                          /\ read.features[i].from = fc.features[i].from
  BY <1>3 DEF ReadFrom, Collection, Feature
<1>5. read.crs \in Crs \cup {NoCrs}
  <2>1. read.crs = CASE format = "geopackage" -> file.crs
                     [] format = "shapefile" -> NoCrs
                     [] OTHER -> Wgs84
    BY <1>3 DEF ReadFrom, Collection
  <2>2. fc.crs \in Crs \cup {NoCrs} BY SaneCollection
  <2> QED BY <1>3, <2>1, <2>2, FormatsAssumption DEF SrsId
<1>6. ASSUME NEW i \in 1..n PROVE Sane(read.features[i])
  <2>1. Sane(fc.features[i]) BY <1>1, SaneCollection
  <2>2. shape(fc.features[i].geometry) \in Shapes BY <2>1, ShapeIsShape DEF Sane
  <2>3. IsFeature(read.features[i]) BY <1>2, <1>4 DEF WellFormed
  <2>4. KindsAreKnown(read.features[i].properties) BY <2>3 DEF IsFeature, KindsAreKnown, IsValue
  <2>5. read.features[i] = Feature(read.features[i].geometry, read.features[i].properties, read.features[i].from)
    BY <2>3 DEF IsFeature
  <2> HIDE DEF read, shape
  <2> QED BY <1>4, <2>1, <2>2, <2>4, <2>5 DEF Sane
<1>7. read.features = [i \in DOMAIN read.features |-> read.features[i]]
      /\ read = Collection(read.features, read.crs)
  BY <1>2 DEF WellFormed
<1> HIDE DEF read
<1>8. IsCollection(Collection(read.features, read.crs))
  BY <1>4, <1>5, <1>6, <1>7, MadeIsCollection
<1>9. IsCollection(read) BY <1>7, <1>8
<1> QED BY <1>9 DEF read, file

-----------------------------------------------------------------------------
(* Two orders of the same elements.                                        *)

\* An order of the keys has every key at one place.
LEMMA OrdersAreBijections ==
  ASSUME NEW keys, IsFiniteSet(keys), NEW order \in SetToSeqs(keys)
  PROVE  /\ DOMAIN order = 1..Cardinality(keys)
         /\ \A i \in DOMAIN order : order[i] \in keys
         /\ \A key \in keys : \E i \in DOMAIN order : order[i] = key
         /\ \A i, j \in DOMAIN order : order[i] = order[j] => i = j
<1> DEFINE k == Cardinality(keys)
<1>1. k \in Nat BY FS_CardinalityType
<1>2. order \in [1..k -> keys] /\ \A i, j \in 1..k : i # j => order[i] # order[j] BY DEF SetToSeqs
<1>3. order \in Injection(1..k, keys) BY <1>2 DEF Injection, IsInjective
<1>4. Cardinality(1..k) = k BY <1>1, FS_Interval
<1>5. order \in Surjection(1..k, keys) BY <1>3, <1>4, FS_Injection
<1> QED BY <1>2, <1>5 DEF Surjection

-----------------------------------------------------------------------------
(* What comes back of a file, column by column.                            *)

ShapeIn(format, g) == IF format = "shapefile" THEN OfShape(g) ELSE g
CrsIn(format, fc) ==
  CASE format = "geopackage" -> SrsId(fc.crs) [] format = "shapefile" -> NoCrs [] OTHER -> Wgs84

HeaderIn(format, fc, f, n) == CHOOSE c \in CellColumns(format, fc, f) : Cased(format, c) = n
NamesIn(format, fc, f) == {Cased(format, c) : c \in CellColumns(format, fc, f)}
ValueIn(format, fc, f, c) == ValueOf(format, CellOf(format, fc, c, ValueAt(f, c)))

Again(format, fc) == ReadFrom(Written(format, fc))

\* The rows of a file, and what the reader makes of each.
LEMMA AgainIs ==
  ASSUME NEW format \in FormatNames, NEW fc, NEW n \in Nat, DOMAIN fc.features = 1..n
  PROVE  /\ Again(format, fc).crs = CrsIn(format, fc)
         /\ DOMAIN Again(format, fc).features = 1..n
         /\ \A i \in 1..n :
              LET f == fc.features[i]
                  g == Again(format, fc).features[i]
              IN  /\ g.geometry = ShapeIn(format, f.geometry) /\ g.from = f.from
                  /\ DOMAIN g.properties = NamesIn(format, fc, f)
                  /\ \A m \in NamesIn(format, fc, f) :
                       /\ HeaderIn(format, fc, f, m) \in CellColumns(format, fc, f)
                       /\ Cased(format, HeaderIn(format, fc, f, m)) = m
                       /\ g.properties[m] = ValueIn(format, fc, f, HeaderIn(format, fc, f, m))
<1> DEFINE file == Written(format, fc)
<1>1. /\ file.format = format /\ DOMAIN file.rows = 1..n
      /\ file.crs = IF format = "geopackage" THEN SrsId(fc.crs) ELSE fc.crs
      /\ \A i \in 1..n :
           file.rows[i] = Feature(fc.features[i].geometry,
             [c \in CellColumns(format, fc, fc.features[i]) |->
                CellOf(format, fc, c, ValueAt(fc.features[i], c))], fc.features[i].from)
  BY DEF Written
<1> HIDE DEF file
<1>2. ReadFrom(file).crs = CrsIn(format, fc) BY <1>1 DEF ReadFrom, Collection, CrsIn
<1>3. DOMAIN ReadFrom(file).features = 1..n BY <1>1 DEF ReadFrom, Collection
<1>4. ASSUME NEW i \in 1..n
      PROVE  LET f == fc.features[i]
                 g == ReadFrom(file).features[i]
             IN  /\ g.geometry = ShapeIn(format, f.geometry) /\ g.from = f.from
                 /\ DOMAIN g.properties = NamesIn(format, fc, f)
                 /\ \A m \in NamesIn(format, fc, f) :
                      /\ HeaderIn(format, fc, f, m) \in CellColumns(format, fc, f)
                      /\ Cased(format, HeaderIn(format, fc, f, m)) = m
                      /\ g.properties[m] = ValueIn(format, fc, f, HeaderIn(format, fc, f, m))
  <2> DEFINE f == fc.features[i]
             row == file.rows[i]
             columns == DOMAIN row.properties
             Header(m) == CHOOSE c \in columns : Cased(format, c) = m
             names == {Cased(format, c) : c \in columns}
             properties == [m \in names |-> ValueOf(format, row.properties[Header(m)])]
  <2>1. ReadFrom(file).features[i] = Feature(ShapeIn(format, row.geometry), properties, row.from)
    BY <1>1 DEF ReadFrom, Collection, ShapeIn
  <2>2. /\ row.geometry = f.geometry /\ row.from = f.from
        /\ columns = CellColumns(format, fc, f)
        /\ \A c \in columns : row.properties[c] = CellOf(format, fc, c, ValueAt(f, c))
    <3> DEFINE cells == [c \in CellColumns(format, fc, f) |-> CellOf(format, fc, c, ValueAt(f, c))]
    <3>1. row = Feature(f.geometry, cells, f.from) BY <1>1
    <3>2. /\ DOMAIN cells = CellColumns(format, fc, f)
          /\ \A c \in DOMAIN cells : cells[c] = CellOf(format, fc, c, ValueAt(f, c))
      OBVIOUS
    <3> HIDE DEF cells, row, f
    <3> QED BY <3>1, <3>2 DEF Feature
  <2> HIDE DEF row, f
  <2>3. names = NamesIn(format, fc, f) /\ \A m : Header(m) = HeaderIn(format, fc, f, m)
    BY <2>2 DEF NamesIn, HeaderIn
  <2>4. ASSUME NEW m \in names PROVE Header(m) \in columns /\ Cased(format, Header(m)) = m
    <3>1. \E c \in columns : Cased(format, c) = m OBVIOUS
    <3> QED BY <3>1, Zenon
  <2>5. \A m \in names : properties[m] = ValueIn(format, fc, f, Header(m))
    <3> SUFFICES ASSUME NEW m \in names PROVE properties[m] = ValueIn(format, fc, f, Header(m))
      OBVIOUS
    <3>1. properties[m] = ValueOf(format, row.properties[Header(m)]) OBVIOUS
    <3> HIDE DEF Header, properties, names
    <3> QED BY <2>2, <2>4, <3>1 DEF ValueIn
  <2>6. DOMAIN properties = names OBVIOUS
  <2> HIDE DEF properties, names, Header, columns
  <2>7. /\ ReadFrom(file).features[i].geometry = ShapeIn(format, f.geometry)
        /\ ReadFrom(file).features[i].from = f.from
        /\ ReadFrom(file).features[i].properties = properties
    BY <2>1, <2>2 DEF Feature
  <2>8. \A m \in NamesIn(format, fc, f) :
          /\ HeaderIn(format, fc, f, m) \in CellColumns(format, fc, f)
          /\ Cased(format, HeaderIn(format, fc, f, m)) = m
          /\ properties[m] = ValueIn(format, fc, f, HeaderIn(format, fc, f, m))
    BY <2>2, <2>3, <2>4, <2>5
  <2> QED BY <2>3, <2>6, <2>7, <2>8 DEF f
<1> QED BY <1>2, <1>3, <1>4 DEF Again, file

\* Nothing of a collection is lost in a format that has these.
Steady(format, fc) ==
  /\ CrsIn(format, fc) = fc.crs
  /\ \A i \in DOMAIN fc.features :
       LET f == fc.features[i]
       IN  /\ ShapeIn(format, f.geometry) = f.geometry
           /\ CellColumns(format, fc, f) = DOMAIN f.properties
           /\ \A c \in DOMAIN f.properties :
                Cased(format, c) = c /\ ValueOf(format, CellOf(format, fc, c, f.properties[c])) = f.properties[c]

LEMMA SteadyComesBack ==
  ASSUME NEW format \in FormatNames, NEW fc, IsCollection(fc), IsCollection(Again(format, fc)),
         Steady(format, fc)
  PROVE  Again(format, fc) = fc
<1> DEFINE again == Again(format, fc)
<1>1. PICK n \in Nat : DOMAIN fc.features = 1..n BY SaneCollection
<1>2. /\ fc = Collection(fc.features, fc.crs) /\ fc.features = [i \in DOMAIN fc.features |-> fc.features[i]]
      /\ again = Collection(again.features, again.crs)
      /\ again.features = [i \in DOMAIN again.features |-> again.features[i]]
  BY SaneCollection
<1>3. DOMAIN again.features = 1..n /\ again.crs = fc.crs BY <1>1, AgainIs DEF Steady
<1>4. ASSUME NEW i \in 1..n PROVE again.features[i] = fc.features[i]
  <2> DEFINE f == fc.features[i]
             g == again.features[i]
  <2>1. Sane(f) /\ Sane(g) BY <1>1, <1>3, SaneCollection
  <2>2. /\ ShapeIn(format, f.geometry) = f.geometry
        /\ CellColumns(format, fc, f) = DOMAIN f.properties
        /\ \A c \in DOMAIN f.properties :
             Cased(format, c) = c /\ ValueOf(format, CellOf(format, fc, c, f.properties[c])) = f.properties[c]
    BY <1>1 DEF Steady
  <2>3. NamesIn(format, fc, f) = DOMAIN f.properties BY <2>2 DEF NamesIn
  <2>4. /\ g.geometry = f.geometry /\ g.from = f.from
        /\ DOMAIN g.properties = DOMAIN f.properties
        /\ \A m \in DOMAIN f.properties :
             /\ HeaderIn(format, fc, f, m) \in DOMAIN f.properties
             /\ Cased(format, HeaderIn(format, fc, f, m)) = m
             /\ g.properties[m] = ValueIn(format, fc, f, HeaderIn(format, fc, f, m))
    BY <1>1, <2>2, <2>3, AgainIs
  <2>5. \A m \in DOMAIN f.properties : g.properties[m] = f.properties[m]
    BY <2>2, <2>4 DEF ValueIn, ValueAt
  <2> HIDE DEF f, g
  <2>6. g.properties = f.properties BY <2>1, <2>4, <2>5 DEF Sane, KindsAreKnown
  <2>7. f = g BY <2>1, <2>4, <2>6 DEF Sane
  <2> QED BY <2>7 DEF f, g
<1> HIDE DEF again
<1>5. again.features = fc.features BY <1>1, <1>2, <1>3, <1>4
<1>6. again = fc BY <1>2, <1>3, <1>5
<1> QED BY <1>6 DEF again

-----------------------------------------------------------------------------
(* The texts of numbers.                                                   *)

LEMMA NumberIsTold ==
  ASSUME NEW n \in Numbers, NEW t \in TextsOf(n)
  PROVE  t \in NumericTexts /\ NumberOf[t] = n /\ AsFloat(t) = V("Float", FloatText(n))
<1>1. t \in NumericTexts BY DEF NumericTexts
<1>2. NumberOf[t] = CHOOSE m \in Numbers : t \in TextsOf(m) BY <1>1 DEF NumberOf
<1>3. NumberOf[t] \in Numbers /\ t \in TextsOf(NumberOf[t])
  <2> HIDE DEF TextsOf
  <2> QED BY <1>2, Zenon
<1>4. TextsOf(NumberOf[t]) \cap TextsOf(n) # {} BY <1>3
<1>5. NumberOf[t] = n BY <1>3, <1>4, TextsAssumption
<1>6. t \notin {"NaN", Tiny} BY <1>1, TextsAssumption
<1> QED BY <1>1, <1>5, <1>6 DEF AsFloat

\* A float comes back from its own text, and a whole one from that of the
\* integer.
LEMMA FloatsAreTold ==
  ASSUME NEW v, IsValue(v), v.kind = "Float"
  PROVE  /\ AsFloat(v.text) = v
         /\ v.text \notin {"NaN", Tiny} =>
              /\ AsFloat(ToString(Whole(v.text))) = v
              /\ ToString(Whole(v.text)) # "NaN"
<1>1. v = V("Float", v.text) /\ v.text \in FloatTexts BY DEF IsValue, Kinded
<1>2. CASE v.text \in {"NaN", Tiny} BY <1>1, <1>2 DEF AsFloat
<1>3. CASE v.text \notin {"NaN", Tiny}
  <2>1. PICK n \in Numbers : v.text = FloatText(n) BY <1>1, <1>3 DEF FloatTexts
  <2>2. v.text \in TextsOf(n) /\ ToString(n) \in TextsOf(n) BY <2>1 DEF TextsOf
  <2>3. NumberOf[v.text] = n /\ AsFloat(v.text) = V("Float", v.text) BY <2>1, <2>2, NumberIsTold
  <2>4. AsFloat(ToString(n)) = V("Float", v.text) BY <2>1, <2>2, NumberIsTold
  <2>5. ToString(n) # "NaN" BY <2>2, NumberIsTold, TextsAssumption
  <2>6. Whole(v.text) = n BY <1>3, <2>3 DEF Whole
  <2> QED BY <1>1, <2>3, <2>4, <2>5, <2>6
<1> QED BY <1>2, <1>3

\* What is made a float is one, and a whole one if it was.
LEMMA MadeIsFloat ==
  ASSUME NEW t
  PROVE  /\ AsFloat(t).kind = "Float"
         /\ t \in NumericTexts => AsFloat(t) \notin {V("Float", "NaN"), V("Float", Tiny)}
         /\ AsFloat("NaN") # V("Float", Tiny)
<1>1. AsFloat(t).kind = "Float" BY DEF AsFloat, V
<1>2. ASSUME t \in NumericTexts
      PROVE  AsFloat(t) \notin {V("Float", "NaN"), V("Float", Tiny)}
  <2>1. NumberOf[t] \in Numbers BY <1>2, NumbersAreNumbers
  <2>2. FloatText(NumberOf[t]) \in NumericTexts BY <2>1 DEF NumericTexts, TextsOf
  <2>3. t \notin {"NaN", Tiny} /\ FloatText(NumberOf[t]) \notin {"NaN", Tiny}
    BY <1>2, <2>2, TextsAssumption
  <2> QED BY <2>3 DEF AsFloat, V
<1>3. AsFloat("NaN") # V("Float", Tiny) BY DEF AsFloat, V, Tiny
<1> QED BY <1>1, <1>2, <1>3

LEMMA OnlyNull ==
  ASSUME NEW v, Kinded(v), v.kind = "Null"
  PROVE  v = NullValue
BY DEF Kinded, NullValue

-----------------------------------------------------------------------------
(* CSV and JSON, value by value.                                           *)

\* A text that was inferred once is inferred the same again.
LEMMA InferredSettles ==
  ASSUME NEW t
  PROVE  Inferred(Inferred(t).text) = Inferred(t)
<1>1. CASE t \in IntegerTexts
  <2>1. Inferred(t) = V("Integer", t) BY <1>1 DEF Inferred
  <2> QED BY <2>1 DEF V
<1>2. CASE t \notin IntegerTexts /\ ParsesAsFloat(t)
  <2>1. Inferred(t) = AsFloat(t) BY <1>2 DEF Inferred
  <2>2. IsValue(AsFloat(t)) BY <1>2, NumbersAreTold DEF ParsesAsFloat
  <2>3. AsFloat(t).kind = "Float" BY MadeIsFloat
  <2> DEFINE w == AsFloat(t)
  <2> HIDE DEF w
  <2>4. w.text \in FloatTexts /\ AsFloat(w.text) = w
    BY <2>2, <2>3, FloatsAreTold DEF IsValue, w
  <2>5. w.text \notin IntegerTexts /\ ParsesAsFloat(w.text)
    BY <2>4, TextsAssumption, TextsAreNumeric DEF ParsesAsFloat
  <2>6. Inferred(w.text) = w BY <2>4, <2>5 DEF Inferred
  <2> QED BY <2>1, <2>6 DEF w
<1>3. CASE t \notin IntegerTexts /\ ~ParsesAsFloat(t)
  <2>1. Inferred(t) = V("String", t) BY <1>3 DEF Inferred
  <2> QED BY <2>1 DEF V
<1> QED BY <1>1, <1>2, <1>3

LEMMA TextComesBack ==
  ASSUME NEW v, IsValue(v), v.kind \in {"Integer", "Float", "String"},
         v.kind = "String" => ~ParsesAsFloat(v.text)
  PROVE  Inferred(v.text) = v
<1>1. v = V(v.kind, v.text) BY DEF IsValue, Kinded
<1>2. CASE v.kind = "Integer"
  <2>1. v.text \in IntegerTexts BY <1>2 DEF IsValue
  <2> QED BY <1>1, <1>2, <2>1 DEF Inferred
<1>3. CASE v.kind = "Float"
  <2>1. v.text \in FloatTexts BY <1>3 DEF IsValue
  <2>2. v.text \notin IntegerTexts /\ ParsesAsFloat(v.text)
    BY <2>1, TextsAssumption, TextsAreNumeric DEF ParsesAsFloat
  <2>3. AsFloat(v.text) = v BY <1>3, FloatsAreTold
  <2> QED BY <2>2, <2>3 DEF Inferred
<1>4. CASE v.kind = "String"
  <2>1. v.text \notin IntegerTexts /\ ~ParsesAsFloat(v.text)
    BY <1>4, TextsAreNumeric DEF ParsesAsFloat
  <2> QED BY <1>1, <1>4, <2>1 DEF Inferred
<1> QED BY <1>2, <1>3, <1>4

LEMMA JsonComesBack ==
  ASSUME NEW v, IsValue(v), v # V("Float", "NaN")
  PROVE  ValueOfJson(JsonOf(v)) = v
<1>1. v = V(v.kind, v.text) BY DEF IsValue, Kinded
<1>2. CASE v.kind = "Integer"
  <2>1. v.text \in IntegerTexts /\ v.text # "NaN" BY <1>2, TextsAssumption, TextsAreNumeric DEF IsValue
  <2>2. JsonOf(v) = V("Number", v.text) BY <1>2, <2>1 DEF JsonOf
  <2>3. ValueOfJson(V("Number", v.text)) = V("Integer", v.text) BY <2>1 DEF ValueOfJson, V
  <2> QED BY <1>1, <1>2, <2>2, <2>3
<1>3. CASE v.kind = "Float"
  <2>1. v.text \in FloatTexts /\ v.text # "NaN" BY <1>1, <1>3 DEF IsValue
  <2>2. v.text \notin IntegerTexts BY <2>1, TextsAssumption
  <2>3. JsonOf(v) = V("Number", v.text) BY <1>3, <2>1 DEF JsonOf
  <2>4. ValueOfJson(V("Number", v.text)) = AsFloat(v.text) BY <2>2 DEF ValueOfJson, V
  <2> QED BY <1>3, <2>3, <2>4, FloatsAreTold
<1>4. CASE v.kind \notin {"Integer", "Float"}
  <2>1. v.kind # "Number" BY DEF IsValue, Kinded, ValueKinds
  <2>2. JsonOf(v) = v BY <1>4 DEF JsonOf
  <2> QED BY <2>1, <2>2 DEF ValueOfJson
<1> QED BY <1>2, <1>3, <1>4

LEMMA NoNaNInJson ==
  ASSUME NEW v, IsValue(v)
  PROVE  ValueOfJson(JsonOf(v)) # V("Float", "NaN")
<1>1. CASE v # V("Float", "NaN") BY <1>1, JsonComesBack
<1>2. CASE v = V("Float", "NaN")
  <2>1. JsonOf(v) = V("Number", "0") BY <1>2 DEF JsonOf, V
  <2>2. ValueOfJson(V("Number", "0")) = V("Integer", "0") BY TextsAssumption DEF ValueOfJson, V
  <2> QED BY <2>1, <2>2 DEF V
<1> QED BY <1>1, <1>2

-----------------------------------------------------------------------------
(* A column of a GeoPackage and a field of a shapefile.                    *)

\* The one kind of the values that a column of a type has, but for none.
SqlKind(type) == CASE type = "TEXT" -> "String" [] type = "REAL" -> "Float" [] OTHER -> "Integer"

LEMMA ColumnTypes ==
  ASSUME NEW fc, NEW c
  PROVE  /\ ColumnType(fc, c) \in {"TEXT", "REAL", "INTEGER"}
         /\ ColumnType(fc, c) = "TEXT" <=> KindsIn(fc, c) = {} \/ "String" \in KindsIn(fc, c)
         /\ ColumnType(fc, c) = "REAL" <=> "String" \notin KindsIn(fc, c) /\ "Float" \in KindsIn(fc, c)
<1> DEFINE kinds == KindsIn(fc, c)
<1>1. ColumnType(fc, c) = CASE kinds = {} \/ "String" \in kinds -> "TEXT"
                            [] "String" \notin kinds /\ "Float" \in kinds -> "REAL"
                            [] OTHER -> "INTEGER"
  BY DEF ColumnType
<1> HIDE DEF kinds
<1>2. CASE kinds = {} \/ "String" \in kinds
  <2>1. ColumnType(fc, c) = "TEXT" BY <1>1, <1>2
  <2> QED BY <1>2, <2>1 DEF kinds
<1>3. CASE "String" \notin kinds /\ "Float" \in kinds
  <2>1. ColumnType(fc, c) = "REAL" BY <1>1, <1>3
  <2> QED BY <1>3, <2>1 DEF kinds
<1>4. CASE ~(kinds = {} \/ "String" \in kinds) /\ ~("String" \notin kinds /\ "Float" \in kinds)
  <2>1. ColumnType(fc, c) = "INTEGER" BY <1>1, <1>4
  <2> QED BY <1>4, <2>1 DEF kinds
<1> QED BY <1>2, <1>3, <1>4

\* A column of one kind keeps its values.
LEMMA SqlComesBack ==
  ASSUME NEW fc, NEW c, NEW k \in {"Integer", "Float", "String"}, KindsIn(fc, c) \subseteq {k},
         NEW v, Kinded(v), v.kind \in KindsIn(fc, c) \cup {"Null"}, v # V("Float", "NaN")
  PROVE  Affinity(ColumnType(fc, c), ToSql(v)) = v
<1>1. v = V(v.kind, v.text) BY DEF Kinded
<1>2. v.kind # "Bool" /\ ~(v.text = "NaN" /\ v.kind = "Float") BY <1>1
<1>3. ToSql(v) = v BY <1>2 DEF ToSql
<1>4. CASE v.kind = "Null" BY <1>3, <1>4 DEF Affinity
<1>5. CASE v.kind # "Null"
  <2>1. v.kind = k /\ KindsIn(fc, c) = {k} BY <1>5
  <2>2. ColumnType(fc, c) = CASE k = "String" -> "TEXT" [] k = "Float" -> "REAL" [] OTHER -> "INTEGER"
    BY <2>1, ColumnTypes
  <2> QED BY <1>3, <2>1, <2>2 DEF Affinity
<1> QED BY <1>4, <1>5

\* What a column gives back is of one kind, whatever was inserted.
LEMMA SqlIsOneKind ==
  ASSUME NEW fc, NEW c, NEW v, IsValue(v), v.kind \in KindsIn(fc, c) \cup {"Null"}
  PROVE  LET w == Affinity(ColumnType(fc, c), ToSql(v))
         IN  w.kind \in {SqlKind(ColumnType(fc, c)), "Null"} /\ w # V("Float", "NaN")
<1> DEFINE type == ColumnType(fc, c)
           s == ToSql(v)
           w == Affinity(type, s)
<1>1. /\ type \in {"TEXT", "REAL", "INTEGER"}
      /\ type = "REAL" => v.kind # "String"
      /\ type = "INTEGER" => v.kind \notin {"String", "Float"}
  BY ColumnTypes
<1>2. /\ IsValue(s) /\ s # V("Float", "NaN")
      /\ s.kind \in (IF v.kind = "Bool" THEN {"Integer"} ELSE {v.kind, "Null"})
  <2>1. CASE v.kind = "Bool"
    <3>1. s = V("Integer", IF v.text = "true" THEN "1" ELSE "0") BY <2>1 DEF ToSql
    <3>2. (IF v.text = "true" THEN "1" ELSE "0") \in IntegerTexts BY TextsAssumption
    <3>3. s.kind = "Integer" BY <3>1 DEF V
    <3> HIDE DEF s
    <3> QED BY <2>1, <3>1, <3>2, <3>3, MadeIsValue DEF V
  <2>2. CASE v.text = "NaN" /\ v.kind = "Float"
    <3>1. s = NullValue BY <2>2 DEF ToSql
    <3> HIDE DEF s
    <3> QED BY <2>2, <3>1, NullIsValue DEF NullValue, V
  <2>3. CASE v.kind # "Bool" /\ ~(v.text = "NaN" /\ v.kind = "Float")
    <3>1. s = v BY <2>3 DEF ToSql
    <3> HIDE DEF s
    <3> QED BY <2>3, <3>1 DEF V
  <2> QED BY <2>1, <2>2, <2>3
<1>3. s.kind \in ValueKinds BY <1>2 DEF IsValue, Kinded
<1> HIDE DEF s, type
<1>4. CASE type = "TEXT" /\ s.kind \in {"Integer", "Float"}
  <2>1. w = V("String", s.text) BY <1>4 DEF Affinity
  <2> HIDE DEF w
  <2> QED BY <1>4, <2>1 DEF V, SqlKind, w, s, type
<1>5. CASE type = "REAL" /\ s.kind = "Integer"
  <2>1. w = AsFloat(s.text) BY <1>5 DEF Affinity
  <2>2. s.text \in NumericTexts BY <1>2, <1>5, TextsAreNumeric DEF IsValue
  <2>3. w.kind = "Float" /\ w # V("Float", "NaN") BY <2>1, <2>2, MadeIsFloat
  <2> HIDE DEF w
  <2> QED BY <1>5, <2>3 DEF SqlKind, w, s, type
<1>6. CASE ~(type = "TEXT" /\ s.kind \in {"Integer", "Float"}) /\ ~(type = "REAL" /\ s.kind = "Integer")
  <2>1. w = s BY <1>6 DEF Affinity
  <2>2. s.kind \in {SqlKind(type), "Null"}
    <3>1. CASE type = "TEXT"
      <4>1. s.kind # "Bool" BY <1>2
      <4> QED BY <1>3, <1>6, <3>1, <4>1 DEF ValueKinds, SqlKind
    <3>2. CASE type = "REAL"
      <4>1. s.kind \notin {"String", "Bool"} BY <1>1, <1>2, <3>2
      <4> QED BY <1>3, <1>6, <3>2, <4>1 DEF ValueKinds, SqlKind
    <3>3. CASE type = "INTEGER"
      <4>1. s.kind \notin {"String", "Float", "Bool"} BY <1>1, <1>2, <3>3
      <4> QED BY <1>3, <3>3, <4>1 DEF ValueKinds, SqlKind
    <3> QED BY <1>1, <3>1, <3>2, <3>3
  <2> HIDE DEF w
  <2> QED BY <1>2, <2>1, <2>2 DEF w, s, type
<1> QED BY <1>4, <1>5, <1>6

DbfKind(type) == IF type = "Character" THEN "String" ELSE "Float"

LEMMA FieldKinds ==
  ASSUME NEW fc, NEW c
  PROVE  /\ FieldKind(fc, c) \in {"Logical", "Numeric", "Character"}
         /\ FieldKind(fc, c) = "Logical" <=> KindsIn(fc, c) = {"Bool"}
         /\ FieldKind(fc, c) = "Numeric" <=>
              KindsIn(fc, c) # {} /\ KindsIn(fc, c) \subseteq {"Integer", "Float"}
<1> DEFINE kinds == KindsIn(fc, c)
<1>1. FieldKind(fc, c) = CASE kinds = {"Bool"} -> "Logical"
                           [] kinds # {} /\ kinds \subseteq {"Integer", "Float"} -> "Numeric"
                           [] OTHER -> "Character"
  BY DEF FieldKind
<1>2. ~(kinds = {"Bool"} /\ kinds \subseteq {"Integer", "Float"}) OBVIOUS
<1> HIDE DEF kinds
<1>3. CASE kinds = {"Bool"}
  <2>1. FieldKind(fc, c) = "Logical" BY <1>1, <1>2, <1>3
  <2> QED BY <1>2, <1>3, <2>1 DEF kinds
<1>4. CASE kinds # {} /\ kinds \subseteq {"Integer", "Float"}
  <2>1. FieldKind(fc, c) = "Numeric" BY <1>1, <1>2, <1>4
  <2> QED BY <1>2, <1>4, <2>1 DEF kinds
<1>5. CASE kinds # {"Bool"} /\ ~(kinds # {} /\ kinds \subseteq {"Integer", "Float"})
  <2>1. FieldKind(fc, c) = "Character" BY <1>1, <1>5
  <2> QED BY <1>5, <2>1 DEF kinds
<1> QED BY <1>3, <1>4, <1>5

LEMMA NullField ==
  ASSUME NEW type, NEW v, Kinded(v), v.kind = "Null"
  PROVE  OfField(ToField(type, v)) = NullValue /\ AsText(v) = ""
<1>1. AsText(v) = "" BY DEF AsText, Kinded
<1>2. ToField(type, v) = NullValue BY <1>1 DEF ToField
<1>3. OfField(NullValue) = NullValue BY DEF OfField, NullValue, V
<1> QED BY <1>1, <1>2, <1>3

NumericText(v) == IF v.text = "NaN" THEN v.text ELSE ToString(Whole(v.text))

\* A field of one kind keeps its values, but for those next to zero.
LEMMA FieldComesBack ==
  ASSUME NEW fc, NEW c, NEW k \in {"Float", "String"}, KindsIn(fc, c) \subseteq {k},
         NEW v, IsValue(v), v.kind \in KindsIn(fc, c) \cup {"Null"},
         v \notin {V("String", ""), V("Float", Tiny)}
  PROVE  OfField(ToField(FieldKind(fc, c), v)) = v
<1>1. Kinded(v) /\ v = V(v.kind, v.text) BY DEF IsValue, Kinded
<1>2. CASE v.kind = "Null" BY <1>1, <1>2, NullField, OnlyNull
<1>3. CASE v.kind # "Null" /\ k = "Float"
  <2>1. v.kind = "Float" /\ FieldKind(fc, c) = "Numeric" BY <1>3, FieldKinds
  <2>2. ToField("Numeric", v) = V("Numeric", NumericText(v)) BY <2>1 DEF ToField, NumericText
  <2>3. OfField(V("Numeric", NumericText(v))) = AsFloat(NumericText(v)) BY DEF OfField, V
  <2>4. AsFloat(NumericText(v)) = v BY <1>1, <2>1, FloatsAreTold DEF NumericText
  <2> QED BY <2>1, <2>2, <2>3, <2>4
<1>4. CASE v.kind # "Null" /\ k = "String"
  <2>1. v.kind = "String" /\ v.text # "" BY <1>1, <1>4
  <2>2. FieldKind(fc, c) = "Character" BY <1>4, <2>1, FieldKinds
  <2>3. AsText(v) = v.text BY <2>1 DEF AsText
  <2>4. ToField("Character", v) = V("Character", v.text) BY <2>1, <2>3 DEF ToField
  <2>5. OfField(V("Character", v.text)) = V("String", v.text) BY DEF OfField, V
  <2> QED BY <1>1, <2>1, <2>2, <2>4, <2>5
<1> QED BY <1>2, <1>3, <1>4

\* What a field gives back is of one kind, no longer than it was, and not
\* next to zero.
LEMMA FieldIsOneKind ==
  ASSUME NEW fc, NEW c, NEW v, IsValue(v), v.kind \in KindsIn(fc, c) \cup {"Null"}
  PROVE  LET w == OfField(ToField(FieldKind(fc, c), v))
         IN  /\ w.kind \in {DbfKind(FieldKind(fc, c)), "Null"}
             /\ w \notin {V("String", ""), V("Float", Tiny)}
             /\ w.kind = "String" => AsText(w) = AsText(v)
<1> DEFINE type == FieldKind(fc, c)
           w == OfField(ToField(type, v))
<1> SUFFICES /\ w.kind \in {DbfKind(type), "Null"}
             /\ w \notin {V("String", ""), V("Float", Tiny)}
             /\ w.kind = "String" => AsText(w) = AsText(v)
  OBVIOUS
<1>1. Kinded(v) BY DEF IsValue
<1>2. /\ type \in {"Logical", "Numeric", "Character"}
      /\ type = "Logical" => v.kind \in {"Bool", "Null"}
      /\ type = "Numeric" => v.kind \in {"Integer", "Float", "Null"}
  BY FieldKinds
<1>3. /\ NullValue.kind = "Null" /\ V("String", "").kind = "String" /\ V("String", "").text = ""
      /\ V("Float", Tiny).kind = "Float"
  BY DEF NullValue, V
<1>4. w = OfField(ToField(type, v)) OBVIOUS
<1> HIDE DEF w, type
<1>5. CASE w = NullValue BY <1>3, <1>5
<1>6. CASE v.kind = "Null" BY <1>1, <1>4, <1>5, <1>6, NullField
<1>7. CASE v.kind # "Null" /\ type = "Logical"
  <2>1. v.kind = "Bool" BY <1>2, <1>7
  <2>2. ToField(type, v) = V("Logical", v.text) BY <1>7, <2>1 DEF ToField
  <2>3. OfField(V("Logical", v.text)) = NullValue BY DEF OfField, V
  <2> QED BY <1>4, <1>5, <2>2, <2>3
<1>8. CASE v.kind # "Null" /\ type = "Numeric"
  <2>1. v.kind \in {"Integer", "Float"} BY <1>2, <1>8
  <2>2. ToField(type, v) = V("Numeric", NumericText(v)) BY <1>8, <2>1 DEF ToField, NumericText
  <2>3. OfField(V("Numeric", NumericText(v))) = AsFloat(NumericText(v)) BY DEF OfField, V
  <2>4. w.kind = "Float" BY <1>4, <2>2, <2>3, MadeIsFloat
  <2>5. v.text \in NumericTexts \cup {"NaN", Tiny}
    BY <2>1, TextsAreNumeric DEF IsValue
  <2>6. NumericText(v) \in NumericTexts \cup {"NaN"}
    BY <2>5, WholesAreNumbers DEF NumericText
  <2>7. w # V("Float", Tiny) BY <1>4, <2>2, <2>3, <2>6, MadeIsFloat
  <2> QED BY <1>3, <1>8, <2>4, <2>7 DEF DbfKind
<1>9. CASE v.kind # "Null" /\ type = "Character" /\ AsText(v) # ""
  <2>1. ToField(type, v) = V("Character", AsText(v)) BY <1>9 DEF ToField
  <2>2. OfField(V("Character", AsText(v))) = V("String", AsText(v)) BY DEF OfField, V
  <2>3. w = V("String", AsText(v)) BY <1>4, <2>1, <2>2
  <2>4. w.kind = "String" /\ w.text = AsText(v) BY <2>3 DEF V
  <2>5. AsText(w) = AsText(v) BY <2>4 DEF AsText
  <2> QED BY <1>3, <1>9, <2>4, <2>5 DEF DbfKind
<1>10. CASE v.kind # "Null" /\ type = "Character" /\ AsText(v) = ""
  <2>1. ToField(type, v) = NullValue BY <1>10 DEF ToField
  <2>2. OfField(NullValue) = NullValue BY DEF OfField, V, NullValue
  <2> QED BY <1>4, <1>5, <2>1, <2>2
<1> QED BY <1>2, <1>6, <1>7, <1>8, <1>9, <1>10

-----------------------------------------------------------------------------
(* The columns of a collection, and its shapes.                            *)

\* Every value of a collection is one of the model.
InRange(fc) ==
  \A i \in DOMAIN fc.features : \A c \in DOMAIN fc.features[i].properties :
    IsValue(fc.features[i].properties[c])

LEMMA SameColumns ==
  ASSUME NEW fc, NEW S, \A i \in DOMAIN fc.features : DOMAIN fc.features[i].properties = S
  PROVE  /\ Columns(fc) \subseteq S
         /\ \A i \in DOMAIN fc.features : Columns(fc) = S
BY DEF Columns

LEMMA KindsAre ==
  ASSUME NEW fc, NEW c, NEW k
  PROVE  /\ \A i \in DOMAIN fc.features : ValueAt(fc.features[i], c).kind \in KindsIn(fc, c) \cup {"Null"}
         /\ (\A i \in DOMAIN fc.features : ValueAt(fc.features[i], c).kind \in {k, "Null"}) =>
              KindsIn(fc, c) \subseteq {k}
BY DEF KindsIn

LEMMA ValuesInRange ==
  ASSUME NEW fc, InRange(fc), NEW i \in DOMAIN fc.features, NEW c
  PROVE  IsValue(ValueAt(fc.features[i], c))
BY NullIsValue DEF InRange, ValueAt

LEMMA FirstRunIsRun ==
  ASSUME NEW cells \in SUBSET Cells, cells # {}
  PROVE  FirstRun(cells) # {}
<1>1. PICK a \in Cells, b \in Cells : Cells = a..b BY CollectionsAssumption
<1>2. a \in Int /\ cells \in SUBSET Int /\ \A x \in cells : a <= x BY <1>1, CollectionsAssumption
<1>3. Min(cells) \in cells BY <1>2, LeastIs
<1> DEFINE m == Min(cells)
<1> HIDE DEF m
<1>4. m \in cells /\ m \in Int BY <1>2, <1>3 DEF m
<1>5. m..m = {m} BY <1>4
<1>6. m \in RunFrom(cells, m) BY <1>4, <1>5 DEF RunFrom
<1> QED BY <1>6 DEF FirstRun, m

\* A multipoint reads as a point, every other shape as one of its type.
LEMMA ShapesSettle ==
  ASSUME NEW g \in Shapes
  PROVE  /\ OfShape(OfShape(g)) = OfShape(g)
         /\ ShapeKind(OfShape(g)) = IF ShapeKind(g) = "MultiPoint" THEN "Point" ELSE ShapeKind(g)
         /\ ~NoShape(g) => ~NoShape(OfShape(g))
         /\ g.type \in {"Point", "LineString", "Polygon"} => OfShape(g) = g
<1>1. /\ g.type \in GeometryTypes /\ g.cells \in SUBSET Cells /\ g.form \in Forms
      /\ g = [type |-> g.type, cells |-> g.cells, form |-> g.form]
  BY DEF Shapes
<1>2. CASE g.type = "MultiPolygon"
  <2> DEFINE form == IF OneRun(g.cells) THEN g.form ELSE "holed"
             h == [type |-> "Polygon", cells |-> FirstRun(g.cells), form |-> form]
  <2>1. OfShape(g) = h BY <1>2 DEF OfShape
  <2>2. h.type = "Polygon" /\ h.cells = FirstRun(g.cells) /\ h.form = form OBVIOUS
  <2> HIDE DEF h
  <2>3. OfShape(h) = h BY <2>2 DEF OfShape
  <2>4. ShapeKind(h) = "Polygon" /\ ShapeKind(g) = "Polygon"
    BY <1>2, <2>2 DEF ShapeKind, Lineal, Polygonal
  <2>5. ~NoShape(g) => ~NoShape(h) BY <1>1, <1>2, <2>2, FirstRunIsRun DEF NoShape
  <2> QED BY <1>2, <2>1, <2>3, <2>4, <2>5
<1>3. CASE g.type = "MultiLineString" /\ OneRun(g.cells)
  <2> DEFINE h == [g EXCEPT !.type = "LineString"]
  <2>1. OfShape(g) = h BY <1>3 DEF OfShape
  <2>2. h.type = "LineString" /\ h.cells = g.cells /\ h.form = g.form BY <1>1
  <2> HIDE DEF h
  <2>3. OfShape(h) = h BY <2>2 DEF OfShape
  <2>4. ShapeKind(h) = "Polyline" /\ ShapeKind(g) = "Polyline"
    <3>1. Lineal(h) /\ Lineal(g) /\ ~Polygonal(h) /\ ~Polygonal(g) BY <1>3, <2>2 DEF Lineal, Polygonal
    <3> QED BY <3>1 DEF ShapeKind
  <2>5. ~NoShape(g) => ~NoShape(h) BY <1>3, <2>2 DEF NoShape
  <2> QED BY <1>3, <2>1, <2>3, <2>4, <2>5
<1>4. CASE g.type = "MultiPoint"
  <2>1. OfShape(g) = Geom("Point", {0}) BY <1>4 DEF OfShape
  <2> DEFINE h == Geom("Point", {0})
  <2>2. h.type = "Point" BY DEF Geom
  <2> HIDE DEF h
  <2>3. OfShape(h) = h BY <2>2 DEF OfShape
  <2>4. ShapeKind(h) = "Point" /\ ShapeKind(g) = "MultiPoint"
    BY <1>4, <2>2 DEF ShapeKind, Lineal, Polygonal
  <2>5. ~NoShape(h) BY <2>2 DEF NoShape
  <2> QED BY <1>4, <2>1, <2>3, <2>4, <2>5 DEF h
<1>5. CASE g.type \notin {"MultiPolygon", "MultiPoint"} /\ ~(g.type = "MultiLineString" /\ OneRun(g.cells))
  <2>1. OfShape(g) = g BY <1>5 DEF OfShape
  <2>2. ShapeKind(g) # "MultiPoint"
    <3>1. Lineal(g) => ~Polygonal(g) BY DEF Lineal, Polygonal
    <3> QED BY <1>5, <3>1 DEF ShapeKind
  <2> QED BY <2>1, <2>2
<1> QED BY <1>2, <1>3, <1>4, <1>5

\* All of a set that has at most one element.
LEMMA AtMostOne ==
  ASSUME NEW S, IsFiniteSet(S), Cardinality(S) <= 1, NEW x \in S, NEW y \in S
  PROVE  x = y
<1>1. Cardinality(S) \in Nat BY FS_CardinalityType
<1>2. Cardinality(S) # 0 BY FS_EmptySet
<1>3. Cardinality(S) = 1 BY <1>1, <1>2
<1>4. \E z : S = {z} BY <1>3, FS_Singleton
<1> QED BY <1>4

LEMMA ShapeKindsAreFinite ==
  ASSUME NEW fc, NEW n \in Nat, DOMAIN fc.features = 1..n
  PROVE  IsFiniteSet(ShapeKinds(fc))
<1>0. 1 \in Int /\ n \in Int OBVIOUS
<1>1. IsFiniteSet(1..n) BY <1>0, FS_Interval, Zenon
<1>2. ShapeKinds(fc) = {ShapeKind(fc.features[i].geometry) : i \in 1..n} BY DEF ShapeKinds
<1> DEFINE k == [i \in 1..n |-> ShapeKind(fc.features[i].geometry)]
<1>3. ShapeKinds(fc) = {k[i] : i \in 1..n} BY <1>2
<1>4. k \in Surjection(1..n, ShapeKinds(fc))
  <2>1. DOMAIN k = 1..n /\ \A i \in 1..n : k[i] \in ShapeKinds(fc) BY <1>3
  <2>2. k \in [1..n -> ShapeKinds(fc)] BY <2>1
  <2> QED BY <1>3, <2>2 DEF Surjection
<1> QED BY <1>1, <1>4, FS_Surjection

LEMMA OneKindOfShape ==
  ASSUME NEW fc, NEW k, \A i \in DOMAIN fc.features : ShapeKind(fc.features[i].geometry) = k
  PROVE  Cardinality(ShapeKinds(fc)) <= 1 /\ ShapeKinds(fc) \subseteq {k}
<1>1. ShapeKinds(fc) \subseteq {k} BY DEF ShapeKinds
<1>2. Cardinality({k}) = 1 /\ IsFiniteSet({k}) BY FS_Singleton
<1>3. Cardinality(ShapeKinds(fc)) <= Cardinality({k}) BY <1>1, <1>2, FS_Subset
<1> QED BY <1>1, <1>2, <1>3

-----------------------------------------------------------------------------
(* What a format gave back, it keeps.                                      *)

\* The features of what comes back, in a format that leaves the names alone.
LEMMA AgainByName ==
  ASSUME NEW format \in FormatNames, NEW fc, NEW n \in Nat, DOMAIN fc.features = 1..n,
         \A i \in 1..n : \A c \in CellColumns(format, fc, fc.features[i]) : Cased(format, c) = c
  PROVE  \A i \in 1..n :
           LET f == fc.features[i]
               g == Again(format, fc).features[i]
           IN  /\ DOMAIN g.properties = CellColumns(format, fc, f)
               /\ \A c \in CellColumns(format, fc, f) : g.properties[c] = ValueIn(format, fc, f, c)
<1> SUFFICES ASSUME NEW i \in 1..n
             PROVE  LET f == fc.features[i]
                        g == Again(format, fc).features[i]
                    IN  /\ DOMAIN g.properties = CellColumns(format, fc, f)
                        /\ \A c \in CellColumns(format, fc, f) : g.properties[c] = ValueIn(format, fc, f, c)
  OBVIOUS
<1> DEFINE f == fc.features[i]
           g == Again(format, fc).features[i]
<1>1. NamesIn(format, fc, f) = CellColumns(format, fc, f) BY DEF NamesIn
<1>2. /\ DOMAIN g.properties = NamesIn(format, fc, f)
      /\ \A m \in NamesIn(format, fc, f) :
           /\ HeaderIn(format, fc, f, m) \in CellColumns(format, fc, f)
           /\ Cased(format, HeaderIn(format, fc, f, m)) = m
           /\ g.properties[m] = ValueIn(format, fc, f, HeaderIn(format, fc, f, m))
  BY AgainIs
<1> QED BY <1>1, <1>2

LEMMA LowerSettles ==
  ASSUME NEW c
  PROVE  Lower(Lower(c)) = Lower(c)
BY FormatsAssumption DEF Lower

LEMMA CsvSettles ==
  ASSUME NEW fc, IsCollection(fc), ~RefusedBy("csv", fc)
  PROVE  Steady("csv", Again("csv", fc)) /\ ~RefusedBy("csv", Again("csv", fc))
<1> DEFINE again == Again("csv", fc)
           S == {Lower(c) : c \in Columns(fc)}
<1>0. "csv" \in FormatNames BY DEF FormatNames
<1>1. PICK n \in Nat : DOMAIN fc.features = 1..n BY SaneCollection
<1>2. /\ ~CsvClash(Columns(fc)) /\ \A g \in Geometries(fc) : g.type = "Point"
  BY DEF RefusedBy
<1>3. \A c : Cased("csv", c) = Lower(c) BY DEF Cased
<1>4. \A f, gc : CellColumns("csv", gc, f) = Columns(gc) BY DEF CellColumns
<1>5. /\ again.crs = Wgs84 /\ DOMAIN again.features = 1..n
      /\ \A i \in 1..n : /\ again.features[i].geometry = fc.features[i].geometry
                         /\ DOMAIN again.features[i].properties = S
                         /\ \A m \in S : \E t : again.features[i].properties[m] = Inferred(t)
  <2>1. CrsIn("csv", fc) = Wgs84 /\ \A g : ShapeIn("csv", g) = g BY DEF CrsIn, ShapeIn
  <2>2. \A f : NamesIn("csv", fc, f) = S BY <1>3, <1>4 DEF NamesIn
  <2>3. \A f, c : \E t : ValueIn("csv", fc, f, c) = Inferred(t)
    <3> TAKE f, c
    <3>1. ValueIn("csv", fc, f, c) = Inferred(ValueAt(f, c).text) BY DEF ValueIn, ValueOf, CellOf, V
    <3> QED BY <3>1
  <2> HIDE DEF S
  <2>4. /\ again.crs = Wgs84 /\ DOMAIN again.features = 1..n
        /\ \A i \in 1..n : again.features[i].geometry = fc.features[i].geometry
    BY <1>0, <1>1, <2>1, AgainIs
  <2>5. \A i \in 1..n :
          /\ DOMAIN again.features[i].properties = S
          /\ \A m \in S : again.features[i].properties[m] =
               ValueIn("csv", fc, fc.features[i], HeaderIn("csv", fc, fc.features[i], m))
    BY <1>0, <1>1, <2>2, AgainIs
  <2> HIDE DEF again
  <2> QED BY <2>3, <2>4, <2>5
<1>6. Columns(again) \subseteq S /\ \A i \in 1..n : Columns(again) = S BY <1>5, SameColumns
<1>7. \A m \in S : Lower(m) = m BY LowerSettles
<1> HIDE DEF again
<1>8. Steady("csv", again)
  <2>1. CrsIn("csv", again) = again.crs BY <1>5 DEF CrsIn
  <2>2. ASSUME NEW i \in 1..n, NEW m \in S
        PROVE  LET w == again.features[i].properties[m]
               IN  ValueOf("csv", CellOf("csv", again, m, w)) = w
    <3>1. PICK t : again.features[i].properties[m] = Inferred(t) BY <1>5
    <3> DEFINE w == Inferred(t)
    <3>2. ValueOf("csv", CellOf("csv", again, m, w)) = Inferred(w.text) BY DEF ValueOf, CellOf, V
    <3>3. Inferred(w.text) = w BY InferredSettles
    <3> QED BY <3>1, <3>2, <3>3
  <2>3. \A g : ShapeIn("csv", g) = g BY DEF ShapeIn
  <2> QED BY <1>3, <1>4, <1>5, <1>6, <1>7, <2>1, <2>2, <2>3 DEF Steady
<1>9. ~CsvClash(Columns(again))
  <2>1. \A m \in S : \E c \in Columns(fc) : m = Lower(c) OBVIOUS
  <2>2. \A c \in Columns(fc) : Lower(c) \notin {"lon", "lat"} BY <1>2 DEF CsvClash
  <2> HIDE DEF S
  <2> QED BY <1>6, <1>7, <2>1, <2>2 DEF CsvClash
<1>10. \A g \in Geometries(again) : g.type = "Point" BY <1>1, <1>2, <1>5 DEF Geometries
<1>11. ~RefusedBy("csv", again) BY <1>9, <1>10 DEF RefusedBy
<1> QED BY <1>8, <1>11 DEF again

LEMMA JsonSettles ==
  ASSUME NEW fc, IsCollection(fc), InRange(fc)
  PROVE  Steady("geojson", Again("geojson", fc)) /\ ~RefusedBy("geojson", Again("geojson", fc))
<1> DEFINE again == Again("geojson", fc)
<1>0. "geojson" \in FormatNames BY DEF FormatNames
<1>1. PICK n \in Nat : DOMAIN fc.features = 1..n BY SaneCollection
<1>2. \A c : Cased("geojson", c) = c BY DEF Cased
<1>3. \A f, gc : CellColumns("geojson", gc, f) = DOMAIN f.properties BY DEF CellColumns
<1>4. /\ again.crs = Wgs84 /\ DOMAIN again.features = 1..n
      /\ \A i \in 1..n :
           /\ DOMAIN again.features[i].properties = DOMAIN fc.features[i].properties
           /\ \A c \in DOMAIN fc.features[i].properties :
                again.features[i].properties[c] = ValueIn("geojson", fc, fc.features[i], c)
  <2>1. CrsIn("geojson", fc) = Wgs84 BY DEF CrsIn
  <2>2. again.crs = Wgs84 /\ DOMAIN again.features = 1..n BY <1>0, <1>1, <2>1, AgainIs
  <2> QED BY <1>0, <1>1, <1>2, <1>3, <2>2, AgainByName
<1> HIDE DEF again
<1>5. ASSUME NEW i \in 1..n, NEW c \in DOMAIN fc.features[i].properties
      PROVE  LET w == again.features[i].properties[c]
             IN  ValueOf("geojson", CellOf("geojson", again, c, w)) = w
  <2> DEFINE v == ValueAt(fc.features[i], c)
             w == ValueOfJson(JsonOf(v))
  <2>1. IsValue(v) BY <1>1, ValuesInRange
  <2>2. again.features[i].properties[c] = w BY <1>4 DEF ValueIn, ValueOf, CellOf
  <2> HIDE DEF v
  <2>3. IsValue(w) /\ w # V("Float", "NaN") BY <2>1, NoNaNInJson, JsonIsValue
  <2> HIDE DEF w
  <2>4. ValueOf("geojson", CellOf("geojson", again, c, w)) = ValueOfJson(JsonOf(w)) BY DEF ValueOf, CellOf
  <2> QED BY <2>2, <2>3, <2>4, JsonComesBack
<1>6. CrsIn("geojson", again) = again.crs /\ \A g : ShapeIn("geojson", g) = g BY <1>4 DEF CrsIn, ShapeIn
<1>7. Steady("geojson", again) BY <1>2, <1>3, <1>4, <1>5, <1>6 DEF Steady
<1>8. ~RefusedBy("geojson", again) BY DEF RefusedBy
<1> QED BY <1>7, <1>8 DEF again

LEMMA GeoPackageSettles ==
  ASSUME NEW fc, IsCollection(fc), InRange(fc), ~RefusedBy("geopackage", fc)
  PROVE  Steady("geopackage", Again("geopackage", fc)) /\ ~RefusedBy("geopackage", Again("geopackage", fc))
<1> DEFINE again == Again("geopackage", fc)
           K == Kept(Columns(fc))
<1>0. "geopackage" \in FormatNames BY DEF FormatNames
<1>1. PICK n \in Nat : DOMAIN fc.features = 1..n BY SaneCollection
<1>2. ~ \E c, d \in K : c # d /\ Lower(c) = Lower(d) BY DEF RefusedBy
<1>3. /\ \A c : Cased("geopackage", c) = c
      /\ \A f, gc : CellColumns("geopackage", gc, f) = Kept(Columns(gc))
      /\ \A g : ShapeIn("geopackage", g) = g
      /\ \A gc, c, v : ValueOf("geopackage", CellOf("geopackage", gc, c, v)) = Affinity(ColumnType(gc, c), ToSql(v))
  BY DEF Cased, CellColumns, ShapeIn, ValueOf, CellOf
<1> DEFINE Came(f, c) == Affinity(ColumnType(fc, c), ToSql(ValueAt(f, c)))
<1>4. /\ again.crs = SrsId(fc.crs) /\ DOMAIN again.features = 1..n
      /\ \A i \in 1..n :
           /\ DOMAIN again.features[i].properties = K
           /\ \A c \in K : again.features[i].properties[c] = Came(fc.features[i], c)
  <2>1. CrsIn("geopackage", fc) = SrsId(fc.crs) BY DEF CrsIn
  <2>2. again.crs = SrsId(fc.crs) /\ DOMAIN again.features = 1..n BY <1>0, <1>1, <2>1, AgainIs
  <2>3. \A f, c : ValueIn("geopackage", fc, f, c) = Came(f, c) BY <1>3 DEF ValueIn
  <2> HIDE DEF Came
  <2> QED BY <1>0, <1>1, <1>3, <2>2, <2>3, AgainByName
<1>5. Columns(again) \subseteq K /\ \A i \in 1..n : Columns(again) = K BY <1>4, SameColumns
<1>6. \A S : Kept(S) \subseteq S /\ Kept(Kept(S)) = Kept(S) BY DEF Kept
<1> HIDE DEF again
<1>7. ASSUME NEW i \in 1..n, NEW c \in K
      PROVE  LET w == again.features[i].properties[c]
             IN  ValueOf("geopackage", CellOf("geopackage", again, c, w)) = w
  <2> DEFINE k == SqlKind(ColumnType(fc, c))
             w == again.features[i].properties[c]
  <2>1. ASSUME NEW j \in 1..n
        PROVE  LET u == ValueAt(again.features[j], c)
               IN  u.kind \in {k, "Null"} /\ u # V("Float", "NaN") /\ IsValue(u)
    <3> DEFINE v == ValueAt(fc.features[j], c)
               u == Affinity(ColumnType(fc, c), ToSql(v))
    <3>1. ValueAt(again.features[j], c) = u BY <1>4 DEF ValueAt
    <3>2. IsValue(v) /\ v.kind \in KindsIn(fc, c) \cup {"Null"} BY <1>1, ValuesInRange, KindsAre
    <3> HIDE DEF v
    <3>3. u.kind \in {k, "Null"} /\ u # V("Float", "NaN") BY <3>2, SqlIsOneKind
    <3>4. IsValue(u) BY <3>2, SqlIsValue, ColumnTypes
    <3> QED BY <3>1, <3>3, <3>4
  <2>2. k \in {"Integer", "Float", "String"} BY DEF SqlKind
  <2> HIDE DEF k
  <2>3. KindsIn(again, c) \subseteq {k} BY <1>4, <2>1, KindsAre
  <2>4. w = ValueAt(again.features[i], c) BY <1>4 DEF ValueAt
  <2>5. ValueAt(again.features[i], c).kind \in KindsIn(again, c) \cup {"Null"} BY <1>4, KindsAre
  <2> HIDE DEF w
  <2>6. Kinded(w) /\ w # V("Float", "NaN") BY <2>1, <2>4 DEF IsValue
  <2>7. Affinity(ColumnType(again, c), ToSql(w)) = w BY <2>2, <2>3, <2>4, <2>5, <2>6, SqlComesBack
  <2> QED BY <1>3, <2>7 DEF w
<1>8. CrsIn("geopackage", again) = again.crs
  <2>1. CrsIn("geopackage", again) = SrsId(again.crs) BY DEF CrsIn
  <2> QED BY <1>4, <2>1, FormatsAssumption DEF SrsId
<1> HIDE DEF Came
<1>9. Steady("geopackage", again) BY <1>3, <1>4, <1>5, <1>6, <1>7, <1>8 DEF Steady
<1>10. Kept(Columns(again)) \subseteq K BY <1>5, <1>6
<1>11. ~RefusedBy("geopackage", again) BY <1>2, <1>10 DEF RefusedBy
<1> QED BY <1>9, <1>11 DEF again

LEMMA ShapefileSettles ==
  ASSUME NEW fc, IsCollection(fc), InRange(fc), ~RefusedBy("shapefile", fc)
  PROVE  Steady("shapefile", Again("shapefile", fc)) /\ ~RefusedBy("shapefile", Again("shapefile", fc))
<1> DEFINE again == Again("shapefile", fc)
           S == Columns(fc)
<1>0. "shapefile" \in FormatNames BY DEF FormatNames
<1>1. PICK n \in Nat : DOMAIN fc.features = 1..n BY SaneCollection
<1>2. /\ fc.features # <<>>
      /\ ~(Cardinality(ShapeKinds(fc)) > 1)
      /\ "GeometryCollection" \notin ShapeKinds(fc)
      /\ Columns(fc) \cap LongNames = {}
      /\ \A c \in Columns(fc) : FieldKind(fc, c) = "Character" => Texts(fc, c) \cap WideTexts = {}
      /\ \A g \in Geometries(fc) : ~NoShape(g)
  BY DEF RefusedBy
<1>3. /\ \A c : Cased("shapefile", c) = c
      /\ \A f, gc : CellColumns("shapefile", gc, f) = Columns(gc)
      /\ \A g : ShapeIn("shapefile", g) = OfShape(g)
      /\ \A gc, c, v : ValueOf("shapefile", CellOf("shapefile", gc, c, v)) = OfField(ToField(FieldKind(gc, c), v))
      /\ \A gc : CrsIn("shapefile", gc) = NoCrs
  BY DEF Cased, CellColumns, ShapeIn, ValueOf, CellOf, CrsIn
<1> DEFINE Came(f, c) == OfField(ToField(FieldKind(fc, c), ValueAt(f, c)))
<1>4. /\ again.crs = NoCrs /\ DOMAIN again.features = 1..n
      /\ \A i \in 1..n :
           /\ again.features[i].geometry = OfShape(fc.features[i].geometry)
           /\ DOMAIN again.features[i].properties = S
           /\ \A c \in S : again.features[i].properties[c] = Came(fc.features[i], c)
  <2>1. /\ again.crs = NoCrs /\ DOMAIN again.features = 1..n
        /\ \A i \in 1..n : again.features[i].geometry = OfShape(fc.features[i].geometry)
    BY <1>0, <1>1, <1>3, AgainIs
  <2>2. \A f, c : ValueIn("shapefile", fc, f, c) = Came(f, c) BY <1>3 DEF ValueIn
  <2> HIDE DEF Came
  <2> QED BY <1>0, <1>1, <1>3, <2>1, <2>2, AgainByName
<1>5. Columns(again) \subseteq S /\ \A i \in 1..n : Columns(again) = S BY <1>4, SameColumns
<1>6. \A i \in 1..n : fc.features[i].geometry \in Shapes BY <1>1, SaneCollection DEF Sane
<1> HIDE DEF again
<1>7. ASSUME NEW c \in S
      PROVE  /\ KindsIn(again, c) \subseteq {DbfKind(FieldKind(fc, c))}
             /\ \A i \in 1..n :
                  LET w == again.features[i].properties[c]
                  IN  /\ ValueAt(again.features[i], c) = w /\ IsValue(w)
                      /\ w \notin {V("String", ""), V("Float", Tiny)}
                      /\ w.kind \in KindsIn(again, c) \cup {"Null"}
                      /\ w.kind = "String" => AsText(w) \in Texts(fc, c)
  <2> DEFINE k == DbfKind(FieldKind(fc, c))
  <2>1. ASSUME NEW i \in 1..n
        PROVE  LET w == again.features[i].properties[c]
               IN  /\ ValueAt(again.features[i], c) = w /\ IsValue(w)
                   /\ w \notin {V("String", ""), V("Float", Tiny)}
                   /\ w.kind \in {k, "Null"}
                   /\ w.kind = "String" => AsText(w) \in Texts(fc, c)
    <3> DEFINE v == ValueAt(fc.features[i], c)
               u == OfField(ToField(FieldKind(fc, c), v))
    <3>1. again.features[i].properties[c] = u /\ ValueAt(again.features[i], c) = u BY <1>4 DEF ValueAt
    <3>2. IsValue(v) /\ v.kind \in KindsIn(fc, c) \cup {"Null"} BY <1>1, ValuesInRange, KindsAre
    <3>3. AsText(v) \in Texts(fc, c) BY <1>1 DEF Texts
    <3> HIDE DEF v
    <3>4. /\ u.kind \in {k, "Null"} /\ u \notin {V("String", ""), V("Float", Tiny)}
          /\ u.kind = "String" => AsText(u) = AsText(v)
      BY <3>2, FieldIsOneKind
    <3>5. IsValue(u) BY <3>2, FieldIsValue
    <3> HIDE DEF u, k
    <3> QED BY <3>1, <3>3, <3>4, <3>5
  <2> HIDE DEF k
  <2>2. KindsIn(again, c) \subseteq {k} BY <1>4, <2>1, KindsAre
  <2>3. \A i \in 1..n : ValueAt(again.features[i], c).kind \in KindsIn(again, c) \cup {"Null"} BY <1>4, KindsAre
  <2> QED BY <2>1, <2>2, <2>3 DEF k
<1>8. \A c : DbfKind(FieldKind(fc, c)) \in {"Float", "String"} BY DEF DbfKind
<1> HIDE DEF S, Came
<1>9. ASSUME NEW i \in 1..n, NEW c \in S
      PROVE  LET w == again.features[i].properties[c]
             IN  ValueOf("shapefile", CellOf("shapefile", again, c, w)) = w
  <2> DEFINE w == again.features[i].properties[c]
             k == DbfKind(FieldKind(fc, c))
  <2>1. /\ IsValue(w) /\ w \notin {V("String", ""), V("Float", Tiny)}
        /\ w.kind \in KindsIn(again, c) \cup {"Null"}
    BY <1>7
  <2>2. KindsIn(again, c) \subseteq {k} /\ k \in {"Float", "String"} BY <1>7, <1>8
  <2> HIDE DEF w, k
  <2>3. OfField(ToField(FieldKind(again, c), w)) = w BY <2>1, <2>2, FieldComesBack
  <2> QED BY <1>3, <2>3 DEF w
<1>10. \A i \in 1..n : ShapeIn("shapefile", again.features[i].geometry) = again.features[i].geometry
  BY <1>3, <1>4, <1>6, ShapesSettle
<1>11. Steady("shapefile", again) BY <1>3, <1>4, <1>5, <1>9, <1>10 DEF Steady
<1>12. n # 0
  <2>1. SUFFICES ASSUME n = 0 PROVE FALSE OBVIOUS
  <2>2. fc.features = [i \in DOMAIN fc.features |-> fc.features[i]] BY SaneCollection
  <2>3. IsSeq(fc.features) /\ Len(fc.features) = 0 BY <1>1, <2>1, <2>2, FunctionIsSeq
  <2> QED BY <1>2, <2>3, EmptySeqIsShort
<1>13. again.features # <<>> BY <1>4, <1>12
<1>14. PICK k : k # "GeometryCollection" /\ \A i \in 1..n : ShapeKind(fc.features[i].geometry) = k
  <2> DEFINE k == ShapeKind(fc.features[1].geometry)
  <2>1. 1 \in 1..n BY <1>12
  <2>2. \A i \in 1..n : ShapeKind(fc.features[i].geometry) \in ShapeKinds(fc) BY <1>1 DEF ShapeKinds
  <2>3. IsFiniteSet(ShapeKinds(fc)) BY <1>1, ShapeKindsAreFinite
  <2>4. Cardinality(ShapeKinds(fc)) <= 1 BY <1>2, <2>3, FS_CardinalityType
  <2>5. \A i \in 1..n : ShapeKind(fc.features[i].geometry) = k BY <2>1, <2>2, <2>3, <2>4, AtMostOne
  <2>6. k # "GeometryCollection" BY <1>2, <2>1, <2>2
  <2> QED BY <2>5, <2>6
<1>15. /\ ~(Cardinality(ShapeKinds(again)) > 1)
       /\ "GeometryCollection" \notin ShapeKinds(again)
  <2> DEFINE l == IF k = "MultiPoint" THEN "Point" ELSE k
  <2>1. \A i \in DOMAIN again.features : ShapeKind(again.features[i].geometry) = l
    BY <1>4, <1>6, <1>14, ShapesSettle
  <2>2. l # "GeometryCollection" BY <1>14
  <2> HIDE DEF l
  <2>3. Cardinality(ShapeKinds(again)) <= 1 /\ ShapeKinds(again) \subseteq {l} BY <2>1, OneKindOfShape
  <2>4. IsFiniteSet(ShapeKinds(again)) BY <1>4, ShapeKindsAreFinite
  <2>5. Cardinality(ShapeKinds(again)) \in Nat BY <2>4, FS_CardinalityType
  <2> QED BY <2>2, <2>3, <2>5
<1>16. Columns(again) \cap LongNames = {} BY <1>2, <1>5 DEF S
<1>17. ASSUME NEW c \in Columns(again), FieldKind(again, c) = "Character"
       PROVE  Texts(again, c) \cap WideTexts = {}
  <2>0. c \in S BY <1>5
  <2>1. SUFFICES ASSUME NEW i \in 1..n PROVE AsText(ValueAt(again.features[i], c)) \notin WideTexts
    BY <1>4 DEF Texts
  <2> DEFINE w == again.features[i].properties[c]
             k2 == DbfKind(FieldKind(fc, c))
  <2>2. /\ ValueAt(again.features[i], c) = w /\ IsValue(w)
        /\ w.kind \in KindsIn(again, c) \cup {"Null"} /\ KindsIn(again, c) \subseteq {k2}
        /\ w.kind = "String" => AsText(w) \in Texts(fc, c)
    BY <1>7, <2>0
  <2>3. k2 = "String" => FieldKind(fc, c) = "Character" BY DEF DbfKind
  <2>4. k2 \in {"Float", "String"} BY <1>8
  <2> HIDE DEF w, k2
  <2>5. CASE w.kind = "Null"
    <3>1. AsText(w) = "" BY <2>2, <2>5, NullField DEF IsValue
    <3> QED BY <2>2, <3>1, FormatsAssumption
  <2>6. CASE w.kind = "String"
    <3>1. FieldKind(fc, c) = "Character" BY <2>2, <2>3, <2>6
    <3> QED BY <1>2, <2>0, <2>2, <2>6, <3>1 DEF S
  <2>7. CASE w.kind = "Float"
    <3>1. KindsIn(again, c) = {"Float"} BY <2>2, <2>7
    <3>2. FieldKind(again, c) = "Numeric" BY <3>1, FieldKinds
    <3> QED BY <1>17, <3>2
  <2> QED BY <2>2, <2>4, <2>5, <2>6, <2>7
<1>18. \A g \in Geometries(again) : ~NoShape(g)
  BY <1>1, <1>2, <1>4, <1>6, ShapesSettle DEF Geometries
<1>19. ~RefusedBy("shapefile", again) BY <1>13, <1>15, <1>16, <1>17, <1>18 DEF RefusedBy
<1> QED BY <1>11, <1>19 DEF again

\* What a format loses it loses the first time.
LEMMA FormatsSettle ==
  ASSUME NEW format \in FormatNames, NEW fc, IsCollection(fc), InRange(fc), ~RefusedBy(format, fc)
  PROVE  /\ ~RefusedBy(format, Again(format, fc))
         /\ Again(format, Again(format, fc)) = Again(format, fc)
<1> DEFINE again == Again(format, fc)
<1>1. PICK n \in Nat : DOMAIN fc.features = 1..n BY SaneCollection
<1>2. IsCollection(again) BY FilesAreCollections DEF InRange, Again
<1>3. InRange(again)
  <2>1. WellFormed(again) BY <1>1, FilesAreWellFormed DEF InRange, Again
  <2> QED BY <2>1 DEF WellFormed, IsFeature, InRange
<1>4. Steady(format, again) /\ ~RefusedBy(format, again)
  BY CsvSettles, JsonSettles, GeoPackageSettles, ShapefileSettles DEF FormatNames
<1> HIDE DEF again
<1>5. IsCollection(Again(format, again)) BY <1>2, <1>3, FilesAreCollections DEF InRange, Again
<1>6. Again(format, again) = again BY <1>2, <1>4, <1>5, SteadyComesBack
<1> QED BY <1>4, <1>6 DEF again
=============================================================================
