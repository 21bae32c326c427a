-------------------------- MODULE OperationsProofs --------------------------
(***************************************************************************)
(* Lemmas about the operations, for every collection: what they require,   *)
(* the features they keep, the collections they give, and what the engine  *)
(* gives in their place.                                                   *)
(***************************************************************************)
EXTENDS Operations, FormatsProofs

-----------------------------------------------------------------------------
(* The two tables, what is required and what is read, agree.               *)

LEMMA OperationNames ==
  Operations = {"buffer", "centroid", "clip", "dissolve", "expression", "filter",
                "reproject", "schema_map", "simplify", "spatial_join"}
BY DEF Operations, RequiredOf

NameRead(op, i) == ReadsOf[op][i][1]

\* What an operation reads at all times is what the catalogue requires, but
\* for spatial_join, whose join the pipeline reads in its place.
LEMMA ReadsAreRequired ==
  ASSUME NEW op \in Operations
  PROVE  /\ DOMAIN ReadsOf[op] \subseteq 1..4
         /\ \A i \in DOMAIN ReadsOf[op] : NameRead(op, i) \in RequiredOf[op]
         /\ op # "spatial_join" =>
              \A n \in RequiredOf[op] : \E i \in DOMAIN ReadsOf[op] : NameRead(op, i) = n
<1> USE DEF NameRead
<1>1. CASE op = "buffer" BY <1>1 DEF ReadsOf, RequiredOf
<1>2. CASE op = "centroid" BY <1>2 DEF ReadsOf, RequiredOf
<1>3. CASE op = "clip" BY <1>3 DEF ReadsOf, RequiredOf, Edges
<1>4. CASE op = "dissolve" BY <1>4 DEF ReadsOf, RequiredOf
<1>5. CASE op = "expression" BY <1>5 DEF ReadsOf, RequiredOf
<1>6. CASE op = "filter" BY <1>6 DEF ReadsOf, RequiredOf
<1>7. CASE op = "reproject" BY <1>7 DEF ReadsOf, RequiredOf
<1>8. CASE op = "schema_map" BY <1>8 DEF ReadsOf, RequiredOf
<1>9. CASE op = "simplify" BY <1>9 DEF ReadsOf, RequiredOf
<1>10. CASE op = "spatial_join" BY <1>10 DEF ReadsOf, RequiredOf
<1> QED BY <1>1, <1>2, <1>3, <1>4, <1>5, <1>6, <1>7, <1>8, <1>9, <1>10, OperationNames

LEMMA MissingIsUnmet ==
  ASSUME NEW op \in Operations, NEW params, ParamError(op, params) = "missing parameter"
  PROVE  Unmet(op, params)
<1> DEFINE Bad == {i \in DOMAIN ReadsOf[op] :
                     NameRead(op, i) \in DOMAIN params =>
                       ~HasType(params[NameRead(op, i)], ReadsOf[op][i][2])}
<1>1. CASE RequiresAny[op] # {} /\ RequiresAny[op] \cap DOMAIN params = {}
  BY <1>1 DEF Unmet
<1>2. CASE ~(RequiresAny[op] # {} /\ RequiresAny[op] \cap DOMAIN params = {})
  <2>1. ParamError(op, params) =
          CASE Bad = {} -> "none"
            [] OTHER -> IF NameRead(op, Min(Bad)) \in DOMAIN params
                        THEN "wrong type" ELSE "missing parameter"
    BY <1>2 DEF ParamError, NameRead
  <2>2. Bad # {} /\ NameRead(op, Min(Bad)) \notin DOMAIN params BY <2>1
  <2>3. Min(Bad) \in DOMAIN ReadsOf[op] BY <2>2, MinOfFew, ReadsAreRequired
  <2>4. NameRead(op, Min(Bad)) \in RequiredOf[op] BY <2>3, ReadsAreRequired
  <2> QED BY <2>2, <2>4 DEF Unmet
<1> QED BY <1>1, <1>2

LEMMA ReadIsMet ==
  ASSUME NEW op \in Operations, op # "spatial_join", NEW params,
         ParamError(op, params) = "none"
  PROVE  ~Unmet(op, params)
<1> DEFINE Bad == {i \in DOMAIN ReadsOf[op] :
                     NameRead(op, i) \in DOMAIN params =>
                       ~HasType(params[NameRead(op, i)], ReadsOf[op][i][2])}
<1>1. ASSUME RequiresAny[op] # {} /\ RequiresAny[op] \cap DOMAIN params = {}
      PROVE  FALSE
  <2>1. ParamError(op, params) = "missing parameter" BY <1>1 DEF ParamError
  <2> QED BY <2>1
<1>2. ParamError(op, params) =
        CASE Bad = {} -> "none"
          [] OTHER -> IF NameRead(op, Min(Bad)) \in DOMAIN params
                      THEN "wrong type" ELSE "missing parameter"
  BY <1>1 DEF ParamError, NameRead
<1>3. Bad = {} BY <1>2
<1>4. \A i \in DOMAIN ReadsOf[op] : NameRead(op, i) \in DOMAIN params BY <1>3
<1>5. RequiredOf[op] \subseteq DOMAIN params BY <1>4, ReadsAreRequired
<1> QED BY <1>1, <1>5 DEF Unmet

LEMMA JoinIsMet ==
  ASSUME NEW params
  PROVE  Unmet("spatial_join", params) <=> "join" \notin DOMAIN params
<1>1. RequiredOf["spatial_join"] = {"join"} BY DEF RequiredOf
<1>2. RequiresAny["spatial_join"] = {} BY DEF RequiresAny, RequiredOf
<1> QED BY <1>1, <1>2 DEF Unmet

\* What the engine can run has what it needs.
LEMMA ElementIsMet ==
  ASSUME NEW op, NEW params, HasElement(op, params)
  PROVE  op \in {"filter", "schema_map", "clip"} /\ op \in Operations /\ ~Unmet(op, params)
<1>1. op \in {"filter", "schema_map", "clip"} BY DEF HasElement
<1>2. CASE op = "filter"
  BY <1>2, OperationNames DEF HasElement, Unmet, RequiredOf, RequiresAny
<1>3. CASE op = "schema_map"
  BY <1>3, OperationNames DEF HasElement, Unmet, RequiredOf, RequiresAny
<1>4. CASE op = "clip"
  BY <1>4, OperationNames DEF HasElement, Unmet, RequiredOf, RequiresAny
<1> QED BY <1>1, <1>2, <1>3, <1>4

-----------------------------------------------------------------------------
(* The operations and the features they keep.                              *)

LEMMA CrossingKeepsOrigins ==
  ASSUME NEW fc, NEW To(_)
  PROVE  SameOrigins(OverProperties(fc, To), fc)
BY DEF SameOrigins, OverProperties, WithFeatures, Collection, Holding, Feature

LEMMA PropertiesKeepOrigins ==
  ASSUME NEW fc, NEW Options(_), NEW result \in WithProperties(fc, Options)
  PROVE  SameOrigins(result, fc)
BY DEF SameOrigins, WithProperties, WithFeatures, Collection, Holding, Feature

LEMMA GeometriesKeepOrigins ==
  ASSUME NEW fc, NEW G(_)
  PROVE  SameOrigins(WithGeometries(fc, G), fc)
BY DEF SameOrigins, WithGeometries, WithFeatures, Collection, WithGeometry, Feature

\* An operation that says it keeps the order does.
LEMMA OrderIsKept ==
  ASSUME NEW op \in KeepsOrder, NEW params, NEW fc, NEW join,
         NEW result \in Results(op, params, fc, join)
  PROVE  SameOrigins(result, fc)
<1>1. CASE op = "buffer"
  BY <1>1, GeometriesKeepOrigins DEF Results, Buffer
<1>2. CASE op = "expression"
  BY <1>2, PropertiesKeepOrigins DEF Results, Expression
<1>3. CASE op = "reproject"
  BY <1>3, GeometriesKeepOrigins DEF Results, Reproject, Collection, SameOrigins
<1>4. CASE op = "schema_map"
  BY <1>4, PropertiesKeepOrigins DEF Results, SchemaMap
<1>5. CASE op = "simplify"
  BY <1>5, GeometriesKeepOrigins DEF Results, Simplify
<1>6. CASE op = "spatial_join"
  <2>1. result = SpatialJoin(fc, params, join) BY <1>6 DEF Results
  <2>2. \E Joined : result.features =
          [i \in DOMAIN fc.features |-> Holding(fc.features[i], Joined[i])]
    <3> DEFINE Matching(f) == {j \in DOMAIN join.features :
                 Related(f.geometry, join.features[j].geometry, Text(params, "join_type", "intersects"))}
               Found(f) == join.features[Min(Matching(f))].properties
               Names(f) == {"joined_" \o c : c \in DOMAIN Found(f)}
               J(f) == IF Matching(f) = {} THEN f.properties
                       ELSE Overlaid([n \in Names(f) |->
                              Found(f)[CHOOSE c \in DOMAIN Found(f) : "joined_" \o c = n]], f.properties)
               Joins == [i \in DOMAIN fc.features |-> J(fc.features[i])]
    <3>1. result.features = [i \in DOMAIN fc.features |-> Holding(fc.features[i], J(fc.features[i]))]
      BY <2>1 DEF SpatialJoin, WithFeatures, Collection
    <3>2. \A i \in DOMAIN fc.features : Joins[i] = J(fc.features[i]) OBVIOUS
    <3> HIDE DEF J, Joins
    <3>3. result.features = [i \in DOMAIN fc.features |-> Holding(fc.features[i], Joins[i])]
      BY <3>1, <3>2
    <3> QED BY <3>3
  <2> QED BY <2>2 DEF SameOrigins, Holding, Feature
<1> QED BY <1>1, <1>2, <1>3, <1>4, <1>5, <1>6 DEF KeepsOrder

\* A step that runs was known and had what it needs; one that fails for what
\* validation checks had not.
LEMMA FailureIsFair ==
  ASSUME NEW op, NEW params, NEW fc
  PROVE  /\ Failure(op, params, fc) = "none" => op \in Operations /\ ~Unmet(op, params)
         /\ Failure(op, params, fc) = "unknown operation" => op \notin Operations
         /\ Failure(op, params, fc) = "missing parameter" => op \in Operations /\ Unmet(op, params)
         /\ Failure(op, params, fc) = "no join dataset" => op = "spatial_join"
         /\ Failure(op, params, fc) # "unknown format"
<1>1. CASE op \notin Operations
  BY <1>1, OperationNames DEF Failure
<1>2. CASE op = "spatial_join"
  <2>1. Failure(op, params, fc) = IF JoinInput(params) = "" THEN "no join dataset" ELSE "none"
    BY <1>2, OperationNames DEF Failure
  <2>2. JoinInput(params) # "" => "join" \in DOMAIN params BY DEF JoinInput, Text
  <2> QED BY <1>2, <2>1, <2>2, JoinIsMet, OperationNames
<1>3. CASE op \in Operations /\ op # "spatial_join"
  <2>1. Failure(op, params, fc) =
          IF ParamError(op, params) # "none" THEN ParamError(op, params)
          ELSE IF Projects(op, params, fc) THEN "none" ELSE "no projection"
    BY <1>3 DEF Failure
  <2>2. ParamError(op, params) \in {"none", "missing parameter", "wrong type"}
    BY DEF ParamError
  <2> QED BY <1>3, <2>1, <2>2, ReadIsMet, MissingIsUnmet
<1> QED BY <1>1, <1>2, <1>3

\* An element that keeps the order keeps the features.
LEMMA ElementKeepsOrder ==
  ASSUME NEW op, NEW params, HasElement(op, params), op \in KeepsOrder,
         NEW fc, NEW result \in Element(op, params, fc)
  PROVE  SameOrigins(result, fc)
<1>1. op = "schema_map" BY ElementIsMet DEF KeepsOrder
<1> QED BY <1>1, PropertiesKeepOrigins DEF Element

-----------------------------------------------------------------------------
(* The types of the parameters.                                            *)

LEMMA HasTypes ==
  ASSUME NEW p
  PROVE  /\ HasType(p, "number") <=> p.kind \in {"Integer", "Float"}
         /\ HasType(p, "string") <=> p.kind = "String"
         /\ HasType(P("Float", p.text), "number")
         /\ P("Float", p.text).text = p.text
BY DEF HasType, P

-----------------------------------------------------------------------------
(* What crosses to the engine and back.                                    *)

AsJson(properties) == [c \in DOMAIN properties |-> ToJson(properties[c])]

Crossed(f) == Holding(f, AsJson(f.properties))

LEMMA ValueReturns ==
  ASSUME NEW v, IsValue(v)
  PROVE  FromJson(ToJson(v)) = v
<1>1. v = [kind |-> v.kind, text |-> v.text] /\ v.kind \in ValueKinds
  BY DEF IsValue, Kinded, V
<1>2. CASE v.kind \in {"Integer", "Float"}
  <2>1. ToJson(v) = V("Number", v.text) BY <1>2 DEF ToJson
  <2>2. FromJson(ToJson(v)) = V(IF v.text \in IntegerTexts THEN "Integer" ELSE "Float", v.text)
    BY <2>1 DEF FromJson, V
  <2>3. v.kind = "Integer" <=> v.text \in IntegerTexts
    BY <1>2, TextsAssumption DEF IsValue
  <2> QED BY <1>1, <1>2, <2>2, <2>3 DEF V
<1>3. CASE v.kind \notin {"Integer", "Float"}
  BY <1>1, <1>3 DEF ToJson, FromJson, ValueKinds
<1> QED BY <1>2, <1>3

Sent(fc) == OverProperties(fc, ToJson)

Back(fc) == OverProperties(fc, FromJson)

LEMMA SentIs ==
  ASSUME NEW fc
  PROVE  /\ Sent(fc) = Collection([i \in DOMAIN fc.features |-> Crossed(fc.features[i])], fc.crs)
         /\ Sent(fc).crs = fc.crs /\ DOMAIN Sent(fc).features = DOMAIN fc.features
         /\ \A i \in DOMAIN fc.features :
              /\ Sent(fc).features[i] = Crossed(fc.features[i])
              /\ Sent(fc).features[i].geometry = fc.features[i].geometry
              /\ Sent(fc).features[i].from = fc.features[i].from
              /\ Sent(fc).features[i].properties = AsJson(fc.features[i].properties)
<1>1. Sent(fc) = Collection([i \in DOMAIN fc.features |-> Crossed(fc.features[i])], fc.crs)
  BY DEF Sent, OverProperties, WithFeatures, Crossed, AsJson
<1>2. \A f : /\ Crossed(f).geometry = f.geometry /\ Crossed(f).from = f.from
              /\ Crossed(f).properties = AsJson(f.properties)
  BY DEF Crossed, Holding, Feature
<1> QED BY <1>1, <1>2 DEF Collection

\* What comes back is what was sent.
LEMMA CollectionReturns ==
  ASSUME NEW fc, WellFormed(fc)
  PROVE  Back(Sent(fc)) = fc
<1> DEFINE s == Sent(fc)
           Read(f) == Holding(f, [c \in DOMAIN f.properties |-> FromJson(f.properties[c])])
<1>1. Back(s) = Collection([i \in DOMAIN s.features |-> Read(s.features[i])], s.crs)
  BY DEF Back, OverProperties, WithFeatures
<1>2. ASSUME NEW i \in DOMAIN fc.features
      PROVE  Read(s.features[i]) = fc.features[i]
  <2> DEFINE f == fc.features[i]
             p == f.properties
             q == s.features[i].properties
  <2>1. IsFeature(f) BY DEF WellFormed
  <2>2. q = AsJson(p) /\ s.features[i].geometry = f.geometry /\ s.features[i].from = f.from
    BY SentIs
  <2>3. DOMAIN q = DOMAIN p /\ \A c \in DOMAIN p : FromJson(q[c]) = p[c]
    BY <2>1, <2>2, ValueReturns DEF AsJson, IsFeature
  <2>4. [c \in DOMAIN q |-> FromJson(q[c])] = p
    <3>1. [c \in DOMAIN q |-> FromJson(q[c])] = [c \in DOMAIN p |-> p[c]] BY <2>3
    <3> QED BY <2>1, <3>1 DEF IsFeature
  <2>5. Read(s.features[i]) = Feature(f.geometry, p, f.from)
    BY <2>2, <2>4 DEF Holding
  <2> QED BY <2>1, <2>5 DEF IsFeature
<1>3. Back(s) = Collection([i \in DOMAIN fc.features |-> fc.features[i]], fc.crs)
  BY <1>1, <1>2, SentIs
<1> QED BY <1>3 DEF WellFormed

-----------------------------------------------------------------------------
(* What the elements of the engine give.                                   *)

\* What the operation makes of a collection, when filter compares floats by
\* their text.
Exactly(op, params, fc, join) ==
  IF Blurred(op, params, fc) THEN {Told(params, fc)} ELSE Results(op, params, fc, join)

\* What the operation makes of a collection, as the engine has it: that crosses
\* back to a result of the operation.
Agrees(result, local, op, params, fc, join) ==
  /\ local \in Exactly(op, params, fc, join)
  /\ WellFormed(local) /\ local.crs = fc.crs
  /\ result = Sent(local)

LEMMA CrossedIs ==
  ASSUME NEW f
  PROVE  /\ Crossed(f).geometry = f.geometry /\ Crossed(f).from = f.from
         /\ Crossed(f).properties = AsJson(f.properties)
         /\ DOMAIN Crossed(f).properties = DOMAIN f.properties
         /\ \A c \in DOMAIN f.properties : Crossed(f).properties[c] = ToJson(f.properties[c])
         /\ \A g : WithGeometry(Crossed(f), g) = Crossed(WithGeometry(f, g))
BY DEF Crossed, Holding, Feature, AsJson, WithGeometry

\* Some of the features, in their order, each with a geometry of its own.
Chosen(fc, places, g) ==
  Collection([i \in 1..Cardinality(places) |->
                WithGeometry(fc.features[Ranked(places, i)], g[Ranked(places, i)])], fc.crs)

LEMMA ChosenAgree ==
  ASSUME NEW fc, WellFormed(fc), NEW places \in SUBSET (DOMAIN fc.features), NEW g
  PROVE  LET local == Chosen(fc, places, g)
         IN  WellFormed(local) /\ local.crs = fc.crs /\ Chosen(Sent(fc), places, g) = Sent(local)
<1> PICK n \in Nat : DOMAIN fc.features = 1..n
  BY DEF WellFormed
<1> DEFINE k == Cardinality(places)
           old(i) == fc.features[Ranked(places, i)]
           new(i) == WithGeometry(old(i), g[Ranked(places, i)])
           local == Chosen(fc, places, g)
<1>1. k \in Nat /\ \A i \in 1..k : Ranked(places, i) \in places
  BY RanksAreTaken
<1>2. local = Collection([i \in 1..k |-> new(i)], fc.crs)
  BY DEF Chosen
<1>3. ASSUME NEW i \in 1..k
      PROVE  WithGeometry(Sent(fc).features[Ranked(places, i)], g[Ranked(places, i)]) = Crossed(new(i))
  <2>1. Sent(fc).features[Ranked(places, i)] = Crossed(old(i))
    BY <1>1, SentIs
  <2> QED BY <2>1, CrossedIs
<1>4. Chosen(Sent(fc), places, g) = Collection([i \in 1..k |-> Crossed(new(i))], fc.crs)
  BY <1>3, SentIs DEF Chosen
<1>5. ASSUME NEW i \in 1..k PROVE IsFeature(new(i))
  <2>1. IsFeature(old(i)) BY <1>1 DEF WellFormed
  <2> QED BY <2>1 DEF IsFeature, WithGeometry, Feature
<1> HIDE DEF new, k
<1>6. /\ local.crs = fc.crs /\ DOMAIN local.features = 1..k
      /\ \A i \in 1..k : local.features[i] = new(i)
  BY <1>2 DEF Collection
<1>7. local.features = [i \in DOMAIN local.features |-> local.features[i]]
      /\ local = Collection(local.features, local.crs)
  <2> DEFINE S == [i \in 1..k |-> new(i)]
  <2>1. local.features = S /\ local.crs = fc.crs BY <1>2 DEF Collection
  <2>2. S = [i \in DOMAIN S |-> S[i]] OBVIOUS
  <2>3. local = Collection(S, fc.crs) BY <1>2
  <2> HIDE DEF S, local
  <2> QED BY <2>1, <2>2, <2>3
<1> HIDE DEF local
<1>8. WellFormed(local)
  BY <1>1, <1>5, <1>6, <1>7 DEF WellFormed
<1>9. Chosen(Sent(fc), places, g) = Sent(local)
  BY <1>4, <1>6, SentIs
<1> QED BY <1>6, <1>8, <1>9 DEF local

\* What a clip or a centroid leaves of a geometry, and of the features at some
\* places.
Cut(op, params, g) ==
  IF op = "clip" THEN Within(g, Number(params, "min_x")..Number(params, "max_x"))
  ELSE IF g.cells = {} THEN {} ELSE {Geom("Point", {Mean(g.cells)})}

Remaining(op, params, fc) == {i \in DOMAIN fc.features : Cut(op, params, fc.features[i].geometry) # {}}

Left(op, params, g) == CHOOSE h \in Cut(op, params, g) : TRUE

CutAt(fc, op, params, places) ==
  LET kept == Picked(fc.features, places)
  IN  Collection([i \in DOMAIN kept |->
        WithGeometry(kept[i], Left(op, params, kept[i].geometry))], fc.crs)

LEMMA ClipIsAt ==
  ASSUME NEW fc, NEW params
  PROVE  Clip(fc, params) = CutAt(fc, "clip", params, Remaining("clip", params, fc))
BY DEF Clip, Surviving, Selected, WithFeatures, CutAt, Cut, Left, Remaining

LEMMA CentroidIsAt ==
  ASSUME NEW fc
  PROVE  Centroid(fc) = CutAt(fc, "centroid", <<>>, Remaining("centroid", <<>>, fc))
BY DEF Centroid, Surviving, Selected, WithFeatures, CutAt, Cut, Left, Remaining

LEMMA CutAtIsChosen ==
  ASSUME NEW fc, NEW n \in Nat, NEW places \in SUBSET (1..n), NEW op, NEW params, NEW g,
         \A i \in places : g[i] = Left(op, params, fc.features[i].geometry)
  PROVE  CutAt(fc, op, params, places) = Chosen(fc, places, g)
<1> DEFINE kept == Picked(fc.features, places)
           k == Cardinality(places)
           left(i) == Left(op, params, fc.features[Ranked(places, i)].geometry)
<1>1. /\ DOMAIN kept = 1..k
      /\ \A i \in 1..k : Ranked(places, i) \in places /\ kept[i] = fc.features[Ranked(places, i)]
  <2>1. \A s : /\ DOMAIN Picked(s, places) = 1..Cardinality(places)
                /\ \A i \in DOMAIN Picked(s, places) :
                     Ranked(places, i) \in places /\ Picked(s, places)[i] = s[Ranked(places, i)]
    BY PickedIs, Zenon
  <2> QED BY <2>1
<1>2. CutAt(fc, op, params, places) =
        Collection([i \in DOMAIN kept |->
          WithGeometry(kept[i], Left(op, params, kept[i].geometry))], fc.crs)
  BY DEF CutAt
<1> HIDE DEF kept, k
<1>3. CutAt(fc, op, params, places) =
        Collection([i \in 1..k |-> WithGeometry(fc.features[Ranked(places, i)], left(i))], fc.crs)
  BY <1>1, <1>2
<1>4. \A i \in 1..k : left(i) = g[Ranked(places, i)]
  BY <1>1
<1> HIDE DEF left
<1>5. CutAt(fc, op, params, places) =
        Collection([i \in 1..k |-> WithGeometry(fc.features[Ranked(places, i)], g[Ranked(places, i)])], fc.crs)
  BY <1>3, <1>4
<1> QED BY <1>5 DEF Chosen, k

LEMMA ClipAgrees ==
  ASSUME NEW fc, WellFormed(fc), NEW params, NEW join, NEW result \in Element("clip", params, Sent(fc))
  PROVE  \E local : Agrees(result, local, "clip", params, fc, join)
<1> PICK n \in Nat : DOMAIN fc.features = 1..n
  BY DEF WellFormed
<1> DEFINE places == Remaining("clip", params, fc)
           g == [i \in DOMAIN fc.features |-> Left("clip", params, fc.features[i].geometry)]
<1>1. places \in SUBSET (1..n) BY DEF Remaining
<1>2. Remaining("clip", params, Sent(fc)) = places
  BY SentIs DEF Remaining
<1>3. \A i \in places : /\ g[i] = Left("clip", params, fc.features[i].geometry)
                        /\ g[i] = Left("clip", params, Sent(fc).features[i].geometry)
  BY <1>1, SentIs
<1> HIDE DEF places, g
<1>4. Clip(fc, params) = Chosen(fc, places, g)
  BY <1>1, <1>3, ClipIsAt, CutAtIsChosen DEF places
<1>5. Clip(Sent(fc), params) = Chosen(Sent(fc), places, g)
  <2> DEFINE s == Sent(fc)
  <2>1. \A i \in places : g[i] = Left("clip", params, s.features[i].geometry) BY <1>3
  <2>2. Clip(s, params) = CutAt(s, "clip", params, places) BY <1>2, ClipIsAt
  <2> HIDE DEF s
  <2>3. CutAt(s, "clip", params, places) = Chosen(s, places, g) BY <1>1, <2>1, CutAtIsChosen
  <2> QED BY <2>2, <2>3 DEF s
<1>6. result = Clip(Sent(fc), params) BY DEF Element
<1>7. Clip(fc, params) \in Exactly("clip", params, fc, join) BY DEF Exactly, Blurred, Results
<1>8. Agrees(result, Clip(fc, params), "clip", params, fc, join)
  <2> DEFINE local == Chosen(fc, places, g)
  <2>1. WellFormed(local) /\ local.crs = fc.crs /\ Chosen(Sent(fc), places, g) = Sent(local)
    BY <1>1, ChosenAgree
  <2> QED BY <1>4, <1>5, <1>6, <1>7, <2>1 DEF Agrees
<1> QED BY <1>8

\* JSON compares numbers by their texts, and no two floats of a text are apart.
LEMMA ScalarIsEqual ==
  ASSUME NEW v, IsValue(v), NEW p, Spelled(p), Scalars(p) # {}
  PROVE  ToJson(v) \in Scalars(p) <=> Equals(v, p) /\ v.text = p.text
<1>1. /\ p.kind = "Integer" => p.text \in IntegerTexts
      /\ p.kind = "Float" => p.text \in FloatTexts
  BY DEF Spelled
<1>2. IntegerTexts \cap FloatTexts = {} /\ "NaN" \notin IntegerTexts
  BY TextsAssumption DEF FloatTexts
<1>3. /\ v.kind \in {"Null", "Bool", "Integer", "Float", "String"} /\ v = [kind |-> v.kind, text |-> v.text]
      /\ v.kind = "Integer" => v.text \in IntegerTexts
      /\ v.kind = "Float" => v.text \in FloatTexts
  BY DEF IsValue, Kinded, V, ValueKinds
<1>4. CASE p.kind \in {"Integer", "Float"}
  <2>1. p.text # "NaN" /\ Scalars(p) = {[kind |-> "Number", text |-> p.text]}
    BY <1>1, <1>2, <1>4 DEF Scalars, V
  <2>2. ToJson(v) \in Scalars(p) <=> v.kind \in {"Integer", "Float"} /\ v.text = p.text
    BY <1>3, <2>1 DEF ToJson, V
  <2>3. v.kind \in {"Integer", "Float"} /\ v.text = p.text => v.kind = p.kind
    BY <1>1, <1>2, <1>3, <1>4
  <2>4. Equals(v, p) /\ v.text = p.text <=> v.kind = p.kind /\ v.text = p.text
    BY <1>3, <1>4, <2>1 DEF Equals, Close
  <2> QED BY <1>4, <2>2, <2>3, <2>4
<1>5. CASE p.kind \notin {"Integer", "Float"}
  <2>1. \/ p.kind = "String" /\ Scalars(p) = {[kind |-> "String", text |-> p.text]}
        \/ p.kind = "Boolean" /\ Scalars(p) = {[kind |-> "Bool", text |-> p.text]}
    BY <1>5 DEF Scalars, V
  <2>2. CASE p.kind = "String"
    <3>1. ToJson(v) \in Scalars(p) <=> v.kind = "String" /\ v.text = p.text
      BY <1>3, <2>1, <2>2 DEF ToJson, V
    <3>2. Equals(v, p) <=> v.kind = "String" /\ v.text = p.text
      BY <1>3, <2>2 DEF Equals
    <3> QED BY <3>1, <3>2
  <2>3. CASE p.kind = "Boolean"
    <3>1. ToJson(v) \in Scalars(p) <=> v.kind = "Bool" /\ v.text = p.text
      BY <1>3, <2>1, <2>3 DEF ToJson, V
    <3>2. Equals(v, p) <=> v.kind = "Bool" /\ v.text = p.text
      BY <1>3, <2>3 DEF Equals
    <3> QED BY <3>1, <3>2
  <2> QED BY <2>1, <2>2, <2>3
<1> QED BY <1>4, <1>5

\* The places of the features that an operation and an element keep.
Matching(params, fc) ==
  {i \in DOMAIN fc.features :
     /\ params["field"].text \in DOMAIN fc.features[i].properties
     /\ Equals(fc.features[i].properties[params["field"].text], params["equals"])}

MatchingText(params, fc) ==
  {i \in DOMAIN fc.features :
     /\ params["field"].text \in DOMAIN fc.features[i].properties
     /\ Equals(fc.features[i].properties[params["field"].text], params["equals"])
     /\ fc.features[i].properties[params["field"].text].text = params["equals"].text}

\* Where nothing is next to the parameter, equal and next to it are one.
LEMMA SharpIsExact ==
  ASSUME NEW fc, NEW params, ~Blurred("filter", params, fc)
  PROVE  Matching(params, fc) = MatchingText(params, fc)
<1>1. \A i \in DOMAIN fc.features : fc.features[i] \in ToSet(fc.features)
  BY DEF ToSet
<1> QED BY <1>1 DEF Blurred, Matching, MatchingText

MatchingJson(params, fc) ==
  {i \in DOMAIN fc.features :
     /\ params["field"].text \in DOMAIN fc.features[i].properties
     /\ fc.features[i].properties[params["field"].text] \in Scalars(params["equals"])}

LEMMA PickedIsChosen ==
  ASSUME NEW fc, NEW n \in Nat, NEW places \in SUBSET (1..n), NEW g,
         \A i \in places : WithGeometry(fc.features[i], g[i]) = fc.features[i]
  PROVE  PickedFrom(fc, places) = Chosen(fc, places, g)
<1>1. \A i \in 1..Cardinality(places) : Ranked(places, i) \in places
  BY RanksAreTaken
<1> QED BY <1>1 DEF PickedFrom, Picked, Chosen

LEMMA FilterAgrees ==
  ASSUME NEW fc, WellFormed(fc), NEW params, HasElement("filter", params), Spelled(params["equals"]),
         NEW join, NEW result \in Element("filter", params, Sent(fc))
  PROVE  \E local : Agrees(result, local, "filter", params, fc, join)
<1> PICK n \in Nat : DOMAIN fc.features = 1..n
  BY DEF WellFormed
<1> DEFINE places == MatchingText(params, fc)
           s == Sent(fc)
           g == [i \in DOMAIN fc.features |-> fc.features[i].geometry]
           local == Chosen(fc, places, g)
<1>1. places \in SUBSET (1..n) BY DEF MatchingText
<1>2. Scalars(params["equals"]) # {} BY DEF HasElement
<1>3. MatchingJson(params, s) = places
  <2> DEFINE field == params["field"].text
             p == params["equals"]
  <2>1. ASSUME NEW i \in DOMAIN fc.features
        PROVE  /\ DOMAIN s.features[i].properties = DOMAIN fc.features[i].properties
               /\ field \in DOMAIN fc.features[i].properties =>
                    (s.features[i].properties[field] \in Scalars(p) <=>
                       /\ Equals(fc.features[i].properties[field], p)
                       /\ fc.features[i].properties[field].text = p.text)
    <3>1. s.features[i].properties = AsJson(fc.features[i].properties) BY SentIs
    <3>2. DOMAIN s.features[i].properties = DOMAIN fc.features[i].properties BY <3>1 DEF AsJson
    <3> SUFFICES ASSUME field \in DOMAIN fc.features[i].properties
                 PROVE  s.features[i].properties[field] \in Scalars(p) <=>
                          /\ Equals(fc.features[i].properties[field], p)
                          /\ fc.features[i].properties[field].text = p.text
      BY <3>2
    <3>3. s.features[i].properties[field] = ToJson(fc.features[i].properties[field])
      BY <3>1 DEF AsJson
    <3>4. IsValue(fc.features[i].properties[field]) BY DEF WellFormed, IsFeature
    <3> QED BY <1>2, <3>3, <3>4, ScalarIsEqual
  <2>2. DOMAIN s.features = DOMAIN fc.features BY SentIs
  <2> HIDE DEF s
  <2> QED BY <2>1, <2>2 DEF MatchingText, MatchingJson
<1>4. result = PickedFrom(s, MatchingJson(params, s))
  BY DEF Element, Selected, WithFeatures, PickedFrom, MatchingJson
<1>5. PickedFrom(fc, places) \in Exactly("filter", params, fc, join)
  <2>1. Filter(fc, params) = PickedFrom(fc, Matching(params, fc))
    BY DEF Filter, Selected, WithFeatures, PickedFrom, Matching
  <2>2. Told(params, fc) = PickedFrom(fc, places)
    BY DEF Told, Selected, WithFeatures, PickedFrom, MatchingText
  <2>3. Results("filter", params, fc, join) = {Filter(fc, params)} BY DEF Results
  <2> QED BY <2>1, <2>2, <2>3, SharpIsExact DEF Exactly
<1>6. ASSUME NEW i \in places
      PROVE  /\ WithGeometry(fc.features[i], g[i]) = fc.features[i]
             /\ WithGeometry(s.features[i], g[i]) = s.features[i]
  <2>1. i \in DOMAIN fc.features BY DEF MatchingText
  <2>2. fc.features[i] = Feature(fc.features[i].geometry, fc.features[i].properties, fc.features[i].from)
    BY <2>1 DEF WellFormed, IsFeature
  <2>3. WithGeometry(fc.features[i], g[i]) = fc.features[i]
    BY <2>1, <2>2 DEF WithGeometry
  <2>4. s.features[i] = Crossed(fc.features[i]) BY <2>1, SentIs
  <2> QED BY <2>3, <2>4, CrossedIs
<1> HIDE DEF places, g, s
<1>7. PickedFrom(fc, places) = local /\ PickedFrom(s, places) = Chosen(s, places, g)
  BY <1>1, <1>6, PickedIsChosen
<1>8. WellFormed(local) /\ local.crs = fc.crs /\ Chosen(s, places, g) = Sent(local)
  BY <1>1, ChosenAgree DEF s
<1> HIDE DEF local
<1>9. Agrees(result, local, "filter", params, fc, join)
  BY <1>3, <1>4, <1>5, <1>7, <1>8 DEF Agrees
<1> QED BY <1>9

AsValues(properties) == [c \in DOMAIN properties |-> FromJson(properties[c])]

\* The columns that schema_map adds, as values and as JSON.
Adds(params) == [c \in DOMAIN Table(params, "add") |-> TomlToValue(Table(params, "add")[c])]

JsonAdds(params) == [c \in DOMAIN Table(params, "add") |-> CHOOSE j \in Scalars(Table(params, "add")[c]) : TRUE]

LEMMA ScalarIsAdded ==
  ASSUME NEW p, Spelled(p), Scalars(p) # {}
  PROVE  /\ IsValue(TomlToValue(p))
         /\ \A j \in Scalars(p) : j = ToJson(TomlToValue(p))
<1>1. /\ p.kind = "Integer" => p.text \in IntegerTexts
      /\ p.kind = "Float" => p.text \in FloatTexts
  BY DEF Spelled
<1>2. p.kind \in {"Integer", "Float", "String", "Boolean"}
  BY DEF Scalars
<1>3. CASE p.kind \in {"Integer", "Float"}
  <2>1. TomlToValue(p) = [kind |-> p.kind, text |-> p.text] BY <1>3 DEF TomlToValue, V
  <2>2. Scalars(p) \subseteq {[kind |-> "Number", text |-> p.text]} BY <1>3 DEF Scalars, V
  <2>3. TomlToValue(p).kind = p.kind /\ TomlToValue(p).text = p.text BY <2>1
  <2>4. Kinded(TomlToValue(p))
    BY <1>3, <2>1, <2>3 DEF Kinded, ValueKinds, V
  <2>5. IsValue(TomlToValue(p)) BY <1>1, <2>3, <2>4 DEF IsValue
  <2> QED BY <1>3, <2>2, <2>3, <2>5 DEF V, ToJson
<1>4. CASE p.kind = "String"
  <2>1. TomlToValue(p) = [kind |-> "String", text |-> p.text] BY <1>4 DEF TomlToValue, V
  <2>2. Scalars(p) = {[kind |-> "String", text |-> p.text]} BY <1>4 DEF Scalars, V
  <2> QED BY <2>1, <2>2 DEF IsValue, Kinded, ValueKinds, V, ToJson
<1>5. CASE p.kind = "Boolean"
  <2>1. TomlToValue(p) = [kind |-> "Bool", text |-> p.text] BY <1>5 DEF TomlToValue, V
  <2>2. Scalars(p) = {[kind |-> "Bool", text |-> p.text]} BY <1>5 DEF Scalars, V
  <2> QED BY <2>1, <2>2 DEF IsValue, Kinded, ValueKinds, V, ToJson
<1> QED BY <1>2, <1>3, <1>4, <1>5

LEMMA AddsAgree ==
  ASSUME NEW params, HasElement("schema_map", params),
         \A name \in DOMAIN params : IsToml(params[name])
  PROVE  /\ DOMAIN JsonAdds(params) = DOMAIN Adds(params)
         /\ \A c \in DOMAIN Adds(params) :
              IsValue(Adds(params)[c]) /\ JsonAdds(params)[c] = ToJson(Adds(params)[c])
<1> DEFINE added == Table(params, "add")
<1>1. ASSUME NEW c \in DOMAIN added
      PROVE  Spelled(added[c]) /\ Scalars(added[c]) # {}
  <2>1. Scalars(added[c]) # {} BY DEF HasElement
  <2>2. CASE "add" \in DOMAIN params /\ params["add"].kind = "Table"
    <3>1. added = params["add"].of BY <2>2 DEF Table
    <3>2. IsToml(params["add"]) BY <2>2
    <3> QED BY <2>1, <3>1, <3>2 DEF IsToml
  <2>3. CASE ~("add" \in DOMAIN params /\ params["add"].kind = "Table")
    <3>1. added = <<>> BY <2>3 DEF Table
    <3> QED BY <3>1
  <2> QED BY <2>2, <2>3
<1> QED BY <1>1, ScalarIsAdded DEF Adds, JsonAdds

\* Remapped, by the columns that are kept, the names they get and the values
\* each name may have.
OldOf(p, params) == DOMAIN p \ Dropped(params)

NewOf(p, params) == {Renamed(params, c) : c \in OldOf(p, params)}

ClaimsOf(p, params, n) == {p[c] : c \in {d \in OldOf(p, params) : Renamed(params, d) = n}}

Renaming(p, params) ==
  {q \in [NewOf(p, params) -> UNION {ClaimsOf(p, params, n) : n \in NewOf(p, params)}] :
     \A n \in NewOf(p, params) : q[n] \in ClaimsOf(p, params, n)}

LEMMA RemappedIs ==
  ASSUME NEW p, NEW params, NEW adds
  PROVE  Remapped(p, params, adds) = {Overlaid(q, adds) : q \in Renaming(p, params)}
BY DEF Remapped, OldOf, NewOf, ClaimsOf, Renaming

\* What renaming, dropping and adding make of properties that crossed is what
\* they make of the properties, crossed.
LEMMA RemappedAgrees ==
  ASSUME NEW p, IsValues(p), NEW params, NEW adds, NEW jadds,
         DOMAIN jadds = DOMAIN adds,
         \A c \in DOMAIN adds : IsValue(adds[c]) /\ jadds[c] = ToJson(adds[c]),
         NEW r \in Remapped(AsJson(p), params, jadds)
  PROVE  /\ AsValues(r) \in Remapped(p, params, adds)
         /\ IsValues(AsValues(r)) /\ AsJson(AsValues(r)) = r
<1> DEFINE new == NewOf(p, params)
           j == AsJson(p)
<1>1. DOMAIN j = DOMAIN p /\ \A c \in DOMAIN p : j[c] = ToJson(p[c])
  BY DEF AsJson
<1>2. OldOf(j, params) = OldOf(p, params) /\ NewOf(j, params) = new
  BY <1>1 DEF OldOf, NewOf
<1>3. PICK q \in Renaming(j, params) : r = Overlaid(q, jadds)
  BY RemappedIs
<1>4. /\ DOMAIN q = new /\ q = [n \in new |-> q[n]]
      /\ \A n \in new : q[n] \in ClaimsOf(j, params, n)
  BY <1>2 DEF Renaming
<1>5. ASSUME NEW n \in new
      PROVE  /\ FromJson(q[n]) \in ClaimsOf(p, params, n) /\ IsValue(FromJson(q[n]))
             /\ ToJson(FromJson(q[n])) = q[n]
  <2>1. q[n] \in {j[c] : c \in {d \in OldOf(p, params) : Renamed(params, d) = n}}
    BY <1>2, <1>4 DEF ClaimsOf
  <2>2. PICK c \in OldOf(p, params) : Renamed(params, c) = n /\ q[n] = j[c]
    BY <2>1
  <2>3. c \in DOMAIN p BY DEF OldOf
  <2>4. q[n] = ToJson(p[c]) /\ IsValue(p[c]) BY <1>1, <2>2, <2>3 DEF IsValues
  <2>5. FromJson(q[n]) = p[c] BY <2>4, ValueReturns
  <2>6. p[c] \in ClaimsOf(p, params, n) BY <2>2 DEF ClaimsOf
  <2> QED BY <2>4, <2>5, <2>6
<1> DEFINE v == AsValues(q)
<1>6. DOMAIN v = new /\ \A n \in new : v[n] = FromJson(q[n])
  BY <1>4 DEF AsValues
<1>7. v \in Renaming(p, params)
  <2>1. v = [n \in new |-> FromJson(q[n])] BY <1>4 DEF AsValues
  <2> QED BY <1>5, <2>1 DEF Renaming
<1> HIDE DEF new, v
<1>8. DOMAIN r = new \cup DOMAIN adds /\ r = [c \in DOMAIN r |-> r[c]]
      /\ \A c \in DOMAIN r : r[c] = IF c \in new THEN q[c] ELSE jadds[c]
  BY <1>3, <1>4 DEF Overlaid
<1>9. \A c \in DOMAIN adds : FromJson(jadds[c]) = adds[c]
  BY ValueReturns
<1>10. AsValues(r) = Overlaid(v, adds)
  <2>1. \A c \in new \cup DOMAIN adds : FromJson(r[c]) = IF c \in new THEN v[c] ELSE adds[c]
    BY <1>6, <1>8, <1>9
  <2> QED BY <1>6, <1>8, <2>1 DEF AsValues, Overlaid
<1>11. AsValues(r) \in Remapped(p, params, adds)
  BY <1>7, <1>10, RemappedIs
<1>12. ASSUME NEW c \in DOMAIN r
       PROVE  IsValue(FromJson(r[c])) /\ ToJson(FromJson(r[c])) = r[c]
  <2>1. CASE c \in new BY <1>5, <1>8, <2>1
  <2>2. CASE c \notin new
    <3>1. c \in DOMAIN adds /\ r[c] = ToJson(adds[c]) BY <1>8, <2>2
    <3> QED BY <1>9, <3>1
  <2> QED BY <2>1, <2>2
<1>13. IsValues(AsValues(r)) BY <1>12 DEF IsValues, AsValues
<1>14. AsJson(AsValues(r)) = r
  <2>1. AsJson(AsValues(r)) = [c \in DOMAIN r |-> ToJson(FromJson(r[c]))]
    BY DEF AsJson, AsValues
  <2> QED BY <1>8, <1>12, <2>1
<1> QED BY <1>11, <1>13, <1>14

\* schema_map, by what the features have after it.
Mappings(fc, params, adds) ==
  {q \in [DOMAIN fc.features ->
            UNION {Remapped(fc.features[i].properties, params, adds) : i \in DOMAIN fc.features}] :
     \A i \in DOMAIN fc.features : q[i] \in Remapped(fc.features[i].properties, params, adds)}

Having(fc, q) == Collection([i \in DOMAIN fc.features |-> Holding(fc.features[i], q[i])], fc.crs)

LEMMA SchemaMapIs ==
  ASSUME NEW fc, NEW params
  PROVE  /\ SchemaMap(fc, params) = {Having(fc, q) : q \in Mappings(fc, params, Adds(params))}
         /\ Element("schema_map", params, fc) =
              {Having(fc, q) : q \in Mappings(fc, params, JsonAdds(params))}
<1>1. SchemaMap(fc, params) = {Having(fc, q) : q \in Mappings(fc, params, Adds(params))}
  BY DEF SchemaMap, WithProperties, WithFeatures, Having, Mappings, Adds
<1>2. Element("schema_map", params, fc) =
        {Having(fc, q) : q \in Mappings(fc, params, JsonAdds(params))}
  BY DEF Element, WithProperties, WithFeatures, Having, Mappings, JsonAdds
<1> QED BY <1>1, <1>2

LEMMA HavingIs ==
  ASSUME NEW fc, WellFormed(fc), NEW q, \A i \in DOMAIN fc.features : IsValues(q[i])
  PROVE  /\ WellFormed(Having(fc, q)) /\ Having(fc, q).crs = fc.crs
         /\ Sent(Having(fc, q)) =
              Collection([i \in DOMAIN fc.features |-> Holding(fc.features[i], AsJson(q[i]))], fc.crs)
<1> DEFINE N == DOMAIN fc.features
           new(i) == Holding(fc.features[i], q[i])
           features == [i \in N |-> new(i)]
           x == Having(fc, q)
<1>1. x = Collection(features, fc.crs) BY DEF Having
<1> HIDE DEF x, features
<1>2. x.features = features /\ x.crs = fc.crs BY <1>1 DEF Collection
<1>3. DOMAIN features = N /\ (\A i \in N : features[i] = new(i)) /\ features = [i \in N |-> features[i]]
  BY DEF features
<1>4. \A i \in N : IsFeature(new(i))
  BY DEF IsFeature, IsValues, Holding, Feature
<1>5. WellFormed(x)
  <2>1. \E n \in Nat : N = 1..n BY DEF WellFormed
  <2> HIDE DEF N, new
  <2> QED BY <1>1, <1>2, <1>3, <1>4, <2>1 DEF WellFormed
<1>6. Sent(x) = Collection([i \in N |-> Crossed(new(i))], fc.crs)
  <2>1. Sent(x) = Collection([i \in DOMAIN features |-> Crossed(features[i])], fc.crs)
    BY <1>2, SentIs
  <2> QED BY <1>3, <2>1
<1>7. \A i \in N : Crossed(new(i)) = Holding(fc.features[i], AsJson(q[i]))
  BY DEF Crossed, Holding, Feature
<1> HIDE DEF N, new
<1>8. Sent(x) = Collection([i \in N |-> Holding(fc.features[i], AsJson(q[i]))], fc.crs)
  BY <1>6, <1>7
<1> QED BY <1>2, <1>5, <1>8 DEF x, N

LEMMA SchemaMapAgrees ==
  ASSUME NEW fc, WellFormed(fc), NEW params, HasElement("schema_map", params),
         \A name \in DOMAIN params : IsToml(params[name]),
         NEW join, NEW result \in Element("schema_map", params, Sent(fc))
  PROVE  \E local : Agrees(result, local, "schema_map", params, fc, join)
<1> DEFINE N == DOMAIN fc.features
           s == Sent(fc)
           adds == Adds(params)
           jadds == JsonAdds(params)
           p(i) == fc.features[i].properties
<1>1. DOMAIN s.features = N /\ s.crs = fc.crs
      /\ \A i \in N : s.features[i] = Crossed(fc.features[i]) /\ s.features[i].properties = AsJson(p(i))
  BY SentIs
<1>2. \A i \in N : IsValues(p(i))
  BY DEF WellFormed, IsFeature, IsValues
<1>3. DOMAIN jadds = DOMAIN adds /\ \A c \in DOMAIN adds : IsValue(adds[c]) /\ jadds[c] = ToJson(adds[c])
  BY AddsAgree
<1> HIDE DEF s, adds, jadds
<1>4. PICK r \in Mappings(s, params, jadds) : result = Having(s, r)
  BY SchemaMapIs DEF s, jadds
<1>5. ASSUME NEW i \in N
      PROVE  /\ AsValues(r[i]) \in Remapped(p(i), params, adds)
             /\ IsValues(AsValues(r[i])) /\ AsJson(AsValues(r[i])) = r[i]
  <2>1. r[i] \in Remapped(s.features[i].properties, params, jadds)
    BY <1>1, <1>4 DEF Mappings
  <2>2. r[i] \in Remapped(AsJson(p(i)), params, jadds)
    BY <1>1, <2>1
  <2> HIDE DEF p
  <2> QED BY <1>2, <1>3, <2>2, RemappedAgrees
<1> DEFINE q == [i \in N |-> AsValues(r[i])]
           local == Having(fc, q)
<1>6. q \in Mappings(fc, params, adds)
  BY <1>5 DEF Mappings
<1>7. local \in Exactly("schema_map", params, fc, join)
  BY <1>6, SchemaMapIs DEF Results, Exactly, Blurred, adds
<1>8. \A i \in N : IsValues(q[i]) /\ AsJson(q[i]) = r[i]
  BY <1>5
<1> HIDE DEF q
<1>9. /\ WellFormed(local) /\ local.crs = fc.crs
      /\ Sent(local) = Collection([i \in N |-> Holding(fc.features[i], AsJson(q[i]))], fc.crs)
  BY <1>8, HavingIs
<1>10. Sent(local) = Collection([i \in N |-> Holding(fc.features[i], r[i])], fc.crs)
  BY <1>8, <1>9
<1>11. \A i \in N : Holding(s.features[i], r[i]) = Holding(fc.features[i], r[i])
  BY <1>1, CrossedIs DEF Holding
<1>12. result = Collection([i \in N |-> Holding(s.features[i], r[i])], fc.crs)
  BY <1>1, <1>4 DEF Having
<1> HIDE DEF N
<1>13. result = Sent(local)
  BY <1>10, <1>11, <1>12
<1> HIDE DEF local
<1>14. Agrees(result, local, "schema_map", params, fc, join)
  BY <1>7, <1>9, <1>13 DEF Agrees
<1> QED BY <1>14

-----------------------------------------------------------------------------
(* An element of the engine gives what the operation gives.                *)

LEMMA ElementAgrees ==
  ASSUME NEW op, NEW params, HasElement(op, params), \A name \in DOMAIN params : IsToml(params[name]),
         NEW fc, WellFormed(fc), NEW join, NEW result \in Element(op, params, Sent(fc))
  PROVE  \E local : Agrees(result, local, op, params, fc, join)
<1>1. CASE op = "filter"
  <2>1. Spelled(params["equals"]) BY <1>1 DEF HasElement, IsToml
  <2> QED BY <1>1, <2>1, FilterAgrees
<1>2. CASE op = "schema_map" BY <1>2, SchemaMapAgrees
<1>3. CASE op = "clip" BY <1>3, ClipAgrees
<1> QED BY <1>1, <1>2, <1>3, ElementIsMet

-----------------------------------------------------------------------------
(* Every operation gives a collection.                                     *)

LEMMA FilterIsCollection ==
  ASSUME NEW fc, IsCollection(fc), NEW params
  PROVE  IsCollection(Filter(fc, params))
<1>1. Filter(fc, params) = PickedFrom(fc, Matching(params, fc))
  BY DEF Filter, Selected, WithFeatures, PickedFrom, Matching
<1>2. Matching(params, fc) \in SUBSET (DOMAIN fc.features) BY DEF Matching
<1> QED BY <1>1, <1>2, PickedIsCollection

\* Features with other properties, or other geometries.
LEMMA HavingIsCollection ==
  ASSUME NEW fc, IsCollection(fc), NEW q, \A i \in DOMAIN fc.features : KindsAreKnown(q[i])
  PROVE  IsCollection(Having(fc, q))
<1> DEFINE n == Len(fc.features)
           s == [i \in DOMAIN fc.features |-> Holding(fc.features[i], q[i])]
<1>1. n \in Nat /\ DOMAIN fc.features = 1..n /\ fc.crs \in Crs \cup {NoCrs}
      /\ \A i \in 1..n : Sane(fc.features[i])
  BY SaneCollection
<1>2. \A i \in 1..n : Sane(Holding(fc.features[i], q[i]))
  BY <1>1 DEF Sane, Holding, Feature
<1> HIDE DEF n
<1>3. DOMAIN s = 1..n /\ s = [i \in DOMAIN s |-> s[i]] /\ \A i \in 1..n : Sane(s[i])
  BY <1>1, <1>2
<1> HIDE DEF s
<1>4. IsCollection(Collection(s, fc.crs)) BY <1>1, <1>3, MadeIsCollection
<1> QED BY <1>4 DEF Having, s

Shaped(fc, g, crs) ==
  Collection([i \in DOMAIN fc.features |-> WithGeometry(fc.features[i], g[i])], crs)

LEMMA ShapedIsCollection ==
  ASSUME NEW fc, IsCollection(fc), NEW crs \in Crs \cup {NoCrs},
         NEW g, \A i \in DOMAIN fc.features : g[i] \in Shapes
  PROVE  IsCollection(Shaped(fc, g, crs))
<1> DEFINE n == Len(fc.features)
           s == [i \in DOMAIN fc.features |-> WithGeometry(fc.features[i], g[i])]
<1>1. n \in Nat /\ DOMAIN fc.features = 1..n
      /\ \A i \in 1..n : Sane(fc.features[i])
  BY SaneCollection
<1>2. \A i \in 1..n : Sane(WithGeometry(fc.features[i], g[i]))
  BY <1>1 DEF Sane, WithGeometry, Feature
<1> HIDE DEF n
<1>3. DOMAIN s = 1..n /\ s = [i \in DOMAIN s |-> s[i]] /\ \A i \in 1..n : Sane(s[i])
  BY <1>1, <1>2
<1> HIDE DEF s
<1>4. IsCollection(Collection(s, crs)) BY <1>1, <1>3, MadeIsCollection
<1> QED BY <1>4 DEF Shaped, s

LEMMA SchemaMapIsCollection ==
  ASSUME NEW fc, IsCollection(fc), NEW params, NEW result \in SchemaMap(fc, params)
  PROVE  IsCollection(result)
<1> DEFINE adds == Adds(params)
<1>1. KindsAreKnown(adds)
  <2>1. ASSUME NEW p PROVE Kinded(TomlToValue(p))
    <3>1. CASE p.kind = "Boolean"
      <4>1. TomlToValue(p) = V("Bool", p.text) BY <3>1 DEF TomlToValue
      <4> QED BY <4>1, MadeIsKinded DEF ValueKinds
    <3>2. CASE p.kind \in {"String", "Integer", "Float"}
      <4>1. TomlToValue(p) = V(p.kind, p.text) BY <3>2 DEF TomlToValue
      <4> QED BY <3>2, <4>1, MadeIsKinded DEF ValueKinds
    <3>3. CASE p.kind \notin {"Boolean", "String", "Integer", "Float"}
      <4>1. TomlToValue(p) = NullValue BY <3>3 DEF TomlToValue
      <4> QED BY <4>1, MadeIsKinded DEF ValueKinds
    <3> QED BY <3>1, <3>2, <3>3
  <2>2. adds = [c \in DOMAIN adds |-> adds[c]] BY DEF Adds
  <2>3. \A c \in DOMAIN adds : Kinded(adds[c]) BY <2>1 DEF Adds
  <2> QED BY <2>2, <2>3 DEF KindsAreKnown
<1> HIDE DEF adds
<1>2. PICK q \in Mappings(fc, params, adds) : result = Having(fc, q)
  BY SchemaMapIs DEF adds
<1>3. ASSUME NEW i \in DOMAIN fc.features PROVE KindsAreKnown(q[i])
  <2> DEFINE p == fc.features[i].properties
  <2>1. KindsAreKnown(p) BY SaneCollection DEF Sane
  <2>2. q[i] \in Remapped(p, params, adds) BY <1>2 DEF Mappings
  <2> HIDE DEF p
  <2>3. PICK r \in Renaming(p, params) : q[i] = Overlaid(r, adds) BY <2>2, RemappedIs
  <2>4. DOMAIN r = NewOf(p, params) /\ \A n \in DOMAIN r : r[n] \in ClaimsOf(p, params, n)
    BY DEF Renaming
  <2>5. \A n \in DOMAIN r : Kinded(r[n])
    BY <2>1, <2>4 DEF ClaimsOf, OldOf, KindsAreKnown
  <2>6. r = [n \in DOMAIN r |-> r[n]] BY DEF Renaming
  <2> QED BY <1>1, <2>3, <2>5, <2>6, OverlaidKinds DEF KindsAreKnown
<1> QED BY <1>2, <1>3, HavingIsCollection

LEMMA EvaluatedIsKnown ==
  ASSUME NEW text, NEW g, NEW properties, KindsAreKnown(properties)
  PROVE  Kinded(Evaluate(text, g, properties))
<1> DEFINE Value(c) == IF c \in DOMAIN properties THEN properties[c] ELSE NullValue
           tokens == TokensOf[text]
           s == CHOOSE s \in Split(tokens) : TRUE
           v == Value(s.field)
<1>1. \A t : Kinded(V("Float", t)) /\ Kinded(V("Integer", t)) /\ Kinded(V("String", t)) /\ Kinded(NullValue)
  BY MadeIsKinded DEF ValueKinds
<1>2. \A c : Kinded(Value(c))
  BY <1>1 DEF KindsAreKnown
<1>3. CASE text = "$area" BY <1>1, <1>3 DEF Evaluate, Measures
<1>4. CASE text = "$length" BY <1>1, <1>4 DEF Evaluate, Measures
<1>5. CASE text = "$num_vertices" BY <1>1, <1>5 DEF Evaluate, Measures
<1>6. CASE text = "$geom_type" BY <1>1, <1>6 DEF Evaluate, Measures
<1>7. CASE /\ text \notin Measures
           /\ tokens[1] = "$prop."
  <2>1. Evaluate(text, g, properties) = Value(tokens[2]) BY <1>7 DEF Evaluate, Measures
  <2> QED BY <1>2, <2>1
<1>8. CASE /\ text \notin Measures
           /\ tokens[1] # "$prop." /\ Split(tokens) # {}
  <2> DEFINE n == Whole(v.text)
             kept == v.text = "NaN" \/ (v.text = Tiny /\ StaysTiny(s.op, NumberOf[s.number]))
  <2>1. /\ v.kind \in {"Integer", "Float"} /\ ~kept =>
             Evaluate(text, g, properties) = V("Float", FloatText(Calculated(n, s.op, NumberOf[s.number])))
        /\ v.kind = "Float" /\ kept => Evaluate(text, g, properties) = v
        /\ ~(v.kind \in {"Integer", "Float"} /\ ~kept) /\ ~(v.kind = "Float" /\ kept) =>
             Evaluate(text, g, properties) = NullValue
    BY <1>8 DEF Evaluate, Measures
  <2> HIDE DEF n, kept, Value, s
  <2> QED BY <1>1, <1>2, <2>1
<1>9. CASE /\ text \notin Measures
           /\ tokens[1] # "$prop." /\ Split(tokens) = {}
  BY <1>1, <1>9 DEF Evaluate, Measures
<1> QED BY <1>3, <1>4, <1>5, <1>6, <1>7, <1>8, <1>9 DEF Measures

LEMMA ExpressionIsCollection ==
  ASSUME NEW fc, IsCollection(fc), NEW params, NEW result \in Expression(fc, params)
  PROVE  IsCollection(result)
<1> DEFINE given == params["expressions"].of
           expressions == [c \in {d \in DOMAIN given : given[d].kind = "String"} |-> given[c]]
           Options(i) == Computed(fc.features[i], expressions)
           N == DOMAIN fc.features
<1>1. Expression(fc, params) =
        {Having(fc, q) : q \in {p \in [N -> UNION {Options(i) : i \in N}] : \A i \in N : p[i] \in Options(i)}}
  BY DEF Expression, WithProperties, WithFeatures, Having
<1> HIDE DEF Options
<1>2. PICK q : result = Having(fc, q) /\ \A i \in N : q[i] \in Options(i)
  BY <1>1
<1>3. ASSUME NEW i \in N PROVE KindsAreKnown(q[i])
  <2> DEFINE f == fc.features[i]
  <2>1. KindsAreKnown(f.properties) BY SaneCollection DEF Sane
  <2>2. q[i] \in Computed(f, expressions) BY <1>2 DEF Options
  <2> HIDE DEF f, expressions
  <2> DEFINE Value(c) == IF c \in DOMAIN expressions
                         THEN Evaluate(expressions[c].text, f.geometry, f.properties) ELSE f.properties[c]
  <2>3. q[i] = [c \in DOMAIN f.properties \cup DOMAIN expressions |-> Value(c)]
    BY <2>2 DEF Computed
  <2>4. \A c \in DOMAIN f.properties \cup DOMAIN expressions : Kinded(Value(c))
    BY <2>1, EvaluatedIsKnown DEF KindsAreKnown
  <2> HIDE DEF Value
  <2> QED BY <2>3, <2>4 DEF KindsAreKnown
<1> QED BY <1>2, <1>3, HavingIsCollection

\* The features of which something is left.
LEMMA ChosenIsCollection ==
  ASSUME NEW fc, IsCollection(fc), NEW places \in SUBSET (DOMAIN fc.features),
         NEW g, \A i \in places : g[i] \in Shapes
  PROVE  IsCollection(Chosen(fc, places, g))
<1> DEFINE k == Cardinality(places)
           s == [i \in 1..k |-> WithGeometry(fc.features[Ranked(places, i)], g[Ranked(places, i)])]
<1>1. PICK n \in Nat : DOMAIN fc.features = 1..n BY SaneCollection
<1>2. k \in Nat /\ \A i \in 1..k : Ranked(places, i) \in places
  BY <1>1, RanksAreTaken
<1>3. ASSUME NEW i \in places PROVE Sane(WithGeometry(fc.features[i], g[i]))
  <2>1. Sane(fc.features[i]) BY SaneCollection
  <2> QED BY <2>1 DEF Sane, WithGeometry, Feature
<1>4. \A i \in 1..k : Sane(s[i]) BY <1>2, <1>3
<1>5. DOMAIN s = 1..k /\ s = [i \in DOMAIN s |-> s[i]] OBVIOUS
<1>6. fc.crs \in Crs \cup {NoCrs} BY SaneCollection
<1> HIDE DEF s, k
<1>7. IsCollection(Collection(s, fc.crs)) BY <1>2, <1>4, <1>5, <1>6, MadeIsCollection
<1> QED BY <1>7 DEF Chosen, s, k

LEMMA WithinIsShape ==
  ASSUME NEW g \in Shapes, NEW cells
  PROVE  Within(g, cells) \in SUBSET Shapes
<1> DEFINE left == g.cells \cap cells
           part == CASE Polygonal(g) -> Area(left)
                     [] Lineal(g) -> Geom(IF OneRun(left) THEN "LineString" ELSE "MultiLineString", left)
                     [] OTHER -> [g EXCEPT !.cells = left]
<1>1. left \in SUBSET Cells BY DEF Shapes
<1>2. Within(g, cells) \in {{}, {part}} BY DEF Within
<1> HIDE DEF left
<1>3. [g EXCEPT !.cells = left] \in Shapes BY <1>1 DEF Shapes
<1>4. \A type \in GeometryTypes : Geom(type, left) \in Shapes
  BY <1>1 DEF Geom, Shapes, Forms
<1>5. part \in Shapes BY <1>1, <1>3, <1>4, AreaIsShape DEF GeometryTypes, Polygonal, Lineal
<1> HIDE DEF part
<1> QED BY <1>2, <1>5

\* The middle of some cells is a cell.
LEMMA MeanIsCell ==
  ASSUME NEW cells \in SUBSET Cells, cells # {}
  PROVE  Mean(cells) \in Cells
<1>1. PICK a, b \in Cells : Cells = a..b BY CollectionsAssumption
<1>2. a \in Int /\ b \in Int /\ cells \in SUBSET Int /\ \A c \in cells : a <= c /\ c <= b
  BY <1>1, CollectionsAssumption
<1>3. Min(cells) \in cells /\ Max(cells) \in cells
  BY <1>2, LeastIs, GreatestIs
<1> DEFINE m == Min(cells)
           n == Max(cells)
<1>4. m \in Int /\ n \in Int /\ a <= m /\ m <= b /\ a <= n /\ n <= b BY <1>2, <1>3
<1> HIDE DEF m, n
<1>5. (m + n) \div 2 \in Int /\ a <= (m + n) \div 2 /\ (m + n) \div 2 <= b
  BY <1>2, <1>4
<1>6. (m + n) \div 2 \in Cells BY <1>1, <1>2, <1>5
<1> QED BY <1>6 DEF Mean, m, n

LEMMA CutIsShape ==
  ASSUME NEW op, NEW params, NEW g \in Shapes
  PROVE  Cut(op, params, g) \in SUBSET Shapes
<1>1. g.cells \in SUBSET Cells BY DEF Shapes
<1>2. g.cells # {} => Geom("Point", {Mean(g.cells)}) \in Shapes
  BY <1>1, MeanIsCell DEF Geom, Shapes, GeometryTypes, Forms
<1> QED BY <1>2, WithinIsShape DEF Cut

LEMMA CutIsCollection ==
  ASSUME NEW fc, IsCollection(fc), NEW op, NEW params
  PROVE  IsCollection(CutAt(fc, op, params, Remaining(op, params, fc)))
<1> DEFINE places == Remaining(op, params, fc)
           g == [i \in DOMAIN fc.features |-> Left(op, params, fc.features[i].geometry)]
<1>1. PICK n \in Nat : DOMAIN fc.features = 1..n BY SaneCollection
<1>2. places \in SUBSET (1..n) BY <1>1 DEF Remaining
<1>3. \A i \in places : g[i] = Left(op, params, fc.features[i].geometry)
  BY <1>1, <1>2
<1>4. ASSUME NEW i \in places PROVE g[i] \in Shapes
  <2>1. i \in DOMAIN fc.features /\ Cut(op, params, fc.features[i].geometry) # {}
    BY DEF Remaining
  <2>2. fc.features[i].geometry \in Shapes BY <2>1, SaneCollection DEF Sane
  <2>3. Cut(op, params, fc.features[i].geometry) \in SUBSET Shapes BY <2>2, CutIsShape
  <2>4. Left(op, params, fc.features[i].geometry) \in Cut(op, params, fc.features[i].geometry)
    BY <2>1 DEF Left
  <2> QED BY <1>3, <2>3, <2>4
<1> HIDE DEF places, g
<1>5. CutAt(fc, op, params, places) = Chosen(fc, places, g)
  BY <1>2, <1>3, CutAtIsChosen
<1>6. IsCollection(Chosen(fc, places, g))
  BY <1>1, <1>2, <1>4, ChosenIsCollection
<1> QED BY <1>5, <1>6 DEF places

LEMMA ClipIsCollection ==
  ASSUME NEW fc, IsCollection(fc), NEW params
  PROVE  IsCollection(Clip(fc, params)) /\ IsCollection(Centroid(fc))
BY ClipIsAt, CentroidIsAt, CutIsCollection

\* The geometry that an operation makes of each one.
Reshaped(op, params, fc, g) ==
  LET shift == OriginOf[params["to_crs"].text] - OriginOf[FromCrs(fc, params)]
      Converted(c) == IF c + shift \in Cells THEN c + shift ELSE c
  IN  IF op = "buffer" THEN Geom("MultiPolygon", Offset(g, Number(params, "distance")))
      ELSE IF op = "reproject" THEN [g EXCEPT !.cells = {Converted(c) : c \in g.cells}]
      ELSE IF Polygonal(g) /\ \E c \in Starts(g.cells) : Cardinality(RunFrom(g.cells, c)) <= Number(params, "epsilon")
           THEN [g EXCEPT !.form = "short"] ELSE g

ReshapedAt(fc, op, params) ==
  Collection([i \in DOMAIN fc.features |->
                WithGeometry(fc.features[i], Reshaped(op, params, fc, fc.features[i].geometry))],
             CrsAfter(op, params, fc))

LEMMA ReshapedIs ==
  ASSUME NEW fc, NEW params
  PROVE  /\ Buffer(fc, params) = ReshapedAt(fc, "buffer", params)
         /\ Simplify(fc, params) = ReshapedAt(fc, "simplify", params)
         /\ Reproject(fc, params) = ReshapedAt(fc, "reproject", params)
<1>1. Buffer(fc, params) = ReshapedAt(fc, "buffer", params)
  BY DEF Buffer, WithGeometries, WithFeatures, ReshapedAt, CrsAfter, Reshaped
<1>2. Simplify(fc, params) = ReshapedAt(fc, "simplify", params)
  BY DEF Simplify, WithGeometries, WithFeatures, ReshapedAt, CrsAfter, Reshaped
<1>3. Reproject(fc, params) = ReshapedAt(fc, "reproject", params)
  BY DEF Reproject, WithGeometries, WithFeatures, ReshapedAt, CrsAfter, Reshaped, Collection
<1> QED BY <1>1, <1>2, <1>3

LEMMA ReshapedIsShape ==
  ASSUME NEW op, NEW params, NEW fc, NEW g \in Shapes
  PROVE  Reshaped(op, params, fc, g) \in Shapes
<1> DEFINE shift == OriginOf[params["to_crs"].text] - OriginOf[FromCrs(fc, params)]
           Converted(c) == IF c + shift \in Cells THEN c + shift ELSE c
           moved == {Converted(c) : c \in g.cells}
           grown == Offset(g, Number(params, "distance"))
<1>1. g.cells \in SUBSET Cells BY DEF Shapes
<1>2. moved \in SUBSET Cells
  <2> HIDE DEF shift
  <2> QED BY <1>1
<1>3. grown \in SUBSET Cells BY <1>1 DEF Offset
<1> HIDE DEF moved, grown
<1>4. Geom("MultiPolygon", grown) \in Shapes BY <1>3 DEF Geom, Shapes, GeometryTypes, Forms
<1>5. [g EXCEPT !.cells = moved] \in Shapes BY <1>2 DEF Shapes
<1>6. [g EXCEPT !.form = "short"] \in Shapes BY DEF Shapes, Forms
<1>7. CASE op = "buffer" BY <1>4, <1>7 DEF Reshaped, grown
<1>8. CASE op = "reproject" BY <1>5, <1>8 DEF Reshaped, moved
<1>9. CASE op \notin {"buffer", "reproject"} BY <1>6, <1>9 DEF Reshaped
<1> QED BY <1>7, <1>8, <1>9

LEMMA ReshapedIsCollection ==
  ASSUME NEW fc, IsCollection(fc), NEW op, NEW params, CrsAfter(op, params, fc) \in Crs \cup {NoCrs}
  PROVE  IsCollection(ReshapedAt(fc, op, params))
<1> DEFINE g == [i \in DOMAIN fc.features |-> Reshaped(op, params, fc, fc.features[i].geometry)]
<1>1. \A i \in DOMAIN fc.features : g[i] = Reshaped(op, params, fc, fc.features[i].geometry)
  OBVIOUS
<1>2. \A i \in DOMAIN fc.features : g[i] \in Shapes
  BY <1>1, SaneCollection, ReshapedIsShape DEF Sane
<1> HIDE DEF g
<1>3. ReshapedAt(fc, op, params) = Shaped(fc, g, CrsAfter(op, params, fc))
  BY <1>1 DEF ReshapedAt, Shaped
<1> QED BY <1>2, <1>3, ShapedIsCollection

LEMMA SpatialJoinIsCollection ==
  ASSUME NEW fc, IsCollection(fc), NEW params, NEW join, IsCollection(join)
  PROVE  IsCollection(SpatialJoin(fc, params, join))
<1> DEFINE Match(f) == {j \in DOMAIN join.features :
             Related(f.geometry, join.features[j].geometry, Text(params, "join_type", "intersects"))}
           Found(f) == join.features[Min(Match(f))].properties
           Names(f) == {"joined_" \o c : c \in DOMAIN Found(f)}
           Prefixed(f) == [n \in Names(f) |-> Found(f)[CHOOSE c \in DOMAIN Found(f) : "joined_" \o c = n]]
           J(f) == IF Match(f) = {} THEN f.properties ELSE Overlaid(Prefixed(f), f.properties)
           q == [i \in DOMAIN fc.features |-> J(fc.features[i])]
<1>1. SpatialJoin(fc, params, join) =
        Collection([i \in DOMAIN fc.features |-> Holding(fc.features[i], J(fc.features[i]))], fc.crs)
  BY DEF SpatialJoin, WithFeatures
<1>2. \A i \in DOMAIN fc.features : q[i] = J(fc.features[i]) OBVIOUS
<1>3. ASSUME NEW i \in DOMAIN fc.features PROVE KindsAreKnown(J(fc.features[i]))
  <2> DEFINE f == fc.features[i]
  <2>1. KindsAreKnown(f.properties) BY SaneCollection DEF Sane
  <2>2. CASE Match(f) = {} BY <2>1, <2>2
  <2>3. CASE Match(f) # {}
    <3> DEFINE m == Min(Match(f))
               found == join.features[m].properties
    <3>1. PICK k \in Nat : DOMAIN join.features = 1..k BY SaneCollection
    <3>2. Match(f) \in SUBSET Int /\ \A j \in Match(f) : 1 <= j BY <3>1
    <3>3. m \in Match(f) 
      <4> HIDE DEF Match
      <4> QED BY <2>3, <3>2, LeastIs
    <3>4. m \in DOMAIN join.features BY <3>3
    <3> HIDE DEF m
    <3>5. KindsAreKnown(found) BY <3>4, SaneCollection DEF Sane
    <3>6. Found(f) = found BY DEF m
    <3> HIDE DEF found, Match
    <3>7. KindsAreKnown(Prefixed(f))
      <4>0. DOMAIN Prefixed(f) = Names(f) /\ Prefixed(f) = [n \in DOMAIN Prefixed(f) |-> Prefixed(f)[n]]
        <5> DEFINE Of(n) == Found(f)[CHOOSE c \in DOMAIN Found(f) : "joined_" \o c = n]
        <5>1. Prefixed(f) = [n \in Names(f) |-> Of(n)] OBVIOUS
        <5> HIDE DEF Of, Names, Prefixed
        <5> QED BY <5>1
      <4> SUFFICES ASSUME NEW n \in Names(f) PROVE Kinded(Prefixed(f)[n])
        BY <4>0 DEF KindsAreKnown
      <4> DEFINE from == CHOOSE c \in DOMAIN found : "joined_" \o c = n
      <4>1. \E d \in DOMAIN found : "joined_" \o d = n BY <3>6
      <4>2. from \in DOMAIN found BY <4>1, Zenon
      <4>3. Prefixed(f)[n] = found[from] BY <3>6
      <4> HIDE DEF from
      <4> QED BY <3>5, <4>2, <4>3 DEF KindsAreKnown
    <3> HIDE DEF Prefixed
    <3>8. KindsAreKnown(Overlaid(Prefixed(f), f.properties)) BY <2>1, <3>7, OverlaidKinds
    <3> QED BY <2>3, <3>8
  <2> QED BY <2>2, <2>3
<1> HIDE DEF J, q
<1>4. SpatialJoin(fc, params, join) = Having(fc, q)
  BY <1>1, <1>2 DEF Having
<1> QED BY <1>2, <1>3, <1>4, HavingIsCollection

\* dissolve, by the keys of its groups.
KeysOf(fc, groupBy) == {GroupKey(f, groupBy) : f \in ToSet(fc.features)}

PlacesOf(fc, groupBy, key) == {i \in DOMAIN fc.features : GroupKey(fc.features[i], groupBy) = key}

WholeOf(fc, groupBy, key) ==
  LET group == Members(fc, groupBy, key)
  IN  Feature(Merged(group),
              [c \in {"count"} \cup ({groupBy} \ {""}) |->
                 IF c = "count" THEN V("Integer", ToString(Len(group))) ELSE V("String", key)],
              UNION {f.from : f \in ToSet(group)})

InOrder(fc, groupBy, order) ==
  Collection([i \in DOMAIN order |-> WholeOf(fc, groupBy, order[i])], fc.crs)

GroupBy(params) == Text(params, "group_by", "")

LEMMA DissolveIs ==
  ASSUME NEW fc, NEW params
  PROVE  Dissolve(fc, params) =
           {InOrder(fc, GroupBy(params), order) : order \in SetToSeqs(KeysOf(fc, GroupBy(params)))}
BY DEF Dissolve, WithFeatures, InOrder, WholeOf, KeysOf, GroupBy

LEMMA MembersAre ==
  ASSUME NEW fc, NEW groupBy, NEW key
  PROVE  Members(fc, groupBy, key) = Picked(fc.features, PlacesOf(fc, groupBy, key))
BY DEF Members, Selected, PlacesOf

LEMMA KeysAreFinite ==
  ASSUME NEW fc, IsCollection(fc), NEW groupBy
  PROVE  IsFiniteSet(KeysOf(fc, groupBy)) /\ Cardinality(KeysOf(fc, groupBy)) \in Nat
<1>1. PICK n \in Nat : DOMAIN fc.features = 1..n BY SaneCollection
<1> DEFINE f == [i \in 1..n |-> GroupKey(fc.features[i], groupBy)]
           keys == KeysOf(fc, groupBy)
<1>2. f \in Surjection(1..n, keys)
  BY <1>1 DEF Surjection, KeysOf, ToSet
<1> HIDE DEF f, keys
<1>3. IsFiniteSet(1..n) BY FS_Interval
<1>4. IsFiniteSet(keys) BY <1>2, <1>3, FS_Surjection
<1> QED BY <1>4, FS_CardinalityType DEF keys

LEMMA GroupIsSane ==
  ASSUME NEW fc, IsCollection(fc), NEW groupBy, NEW key \in KeysOf(fc, groupBy)
  PROVE  LET group == Members(fc, groupBy, key)
         IN  /\ 1 \in DOMAIN group /\ Len(group) \in Nat /\ DOMAIN group = 1..Len(group)
             /\ \A i \in DOMAIN group : Sane(group[i])
<1> DEFINE places == PlacesOf(fc, groupBy, key)
           group == Picked(fc.features, places)
<1>1. PICK n \in Nat : DOMAIN fc.features = 1..n BY SaneCollection
<1>2. places \in SUBSET (1..n) BY <1>1 DEF PlacesOf
<1>3. places # {}
  <2>1. PICK f \in ToSet(fc.features) : key = GroupKey(f, groupBy) BY DEF KeysOf
  <2>2. PICK i \in DOMAIN fc.features : f = fc.features[i] BY DEF ToSet
  <2> QED BY <2>1, <2>2 DEF PlacesOf
<1>4. IsCollection(PickedFrom(fc, places)) BY <1>1, <1>2, PickedIsCollection
<1>5. PickedFrom(fc, places).features = group BY DEF PickedFrom, Collection
<1>6. Len(group) \in Nat /\ DOMAIN group = 1..Len(group) /\ \A i \in DOMAIN group : Sane(group[i])
  BY <1>4, <1>5, SaneCollection
<1>7. 1 \in DOMAIN group
  <2> HIDE DEF places
  <2>1. Cardinality(places) \in Nat /\ IsFiniteSet(places) BY <1>2, RanksAreTaken
  <2>2. Cardinality(places) # 0 BY <1>3, <2>1, FS_EmptySet
  <2>3. DOMAIN group = 1..Cardinality(places) BY DEF Picked
  <2> QED BY <2>1, <2>2, <2>3
<1> HIDE DEF group
<1> QED BY <1>6, <1>7, MembersAre DEF group

LEMMA MergedIsShape ==
  ASSUME NEW group, Len(group) \in Nat, DOMAIN group = 1..Len(group), 1 \in DOMAIN group,
         \A i \in DOMAIN group : group[i].geometry \in Shapes
  PROVE  Merged(group) \in Shapes
<1> DEFINE n == Len(group)
           geometries == [i \in DOMAIN group |-> group[i].geometry]
           places == {i \in DOMAIN geometries : geometries[i].type = "Polygon"}
           polygons == Picked(geometries, places)
           united == UNION {g.cells : g \in {h \in ToSet(polygons) : h.form = "sound"}}
<1>1. places \in SUBSET (1..n) /\ n \in Nat OBVIOUS
<1>2. Cardinality(places) \in Nat /\ \A i \in 1..Cardinality(places) : Ranked(places, i) \in places
  BY <1>1, RanksAreTaken
<1>3. \A i \in places : geometries[i] \in Shapes OBVIOUS
<1> HIDE DEF places, geometries, n
<1>4. DOMAIN polygons = 1..Cardinality(places) /\ polygons = [i \in DOMAIN polygons |-> polygons[i]]
      /\ \A i \in DOMAIN polygons : polygons[i] \in Shapes
  BY <1>2, <1>3 DEF Picked
<1> HIDE DEF polygons
<1>5. Len(polygons) = Cardinality(places) BY <1>2, <1>4, FunctionIsSeq
<1>6. Merged(group) =
        CASE polygons = <<>> -> group[1].geometry
          [] Len(polygons) = 1 -> polygons[1]
          [] OTHER -> Area(united)
  BY DEF Merged, Selected, polygons, places, geometries
<1>7. united \in SUBSET Cells
  <2>1. \A g \in ToSet(polygons) : g.cells \in SUBSET Cells BY <1>4 DEF ToSet, Shapes
  <2> QED BY <2>1
<1>8. Area(united) \in Shapes
  <2> HIDE DEF united
  <2> QED BY <1>7, AreaIsShape
<1>9. Len(polygons) = 1 => polygons[1] \in Shapes BY <1>4, <1>5
<1>10. group[1].geometry \in Shapes OBVIOUS
<1> HIDE DEF united
<1> QED BY <1>6, <1>8, <1>9, <1>10

LEMMA WholeIsSane ==
  ASSUME NEW fc, IsCollection(fc), NEW groupBy, NEW key \in KeysOf(fc, groupBy)
  PROVE  Sane(WholeOf(fc, groupBy, key))
<1> DEFINE group == Members(fc, groupBy, key)
           properties == [c \in {"count"} \cup ({groupBy} \ {""}) |->
                            IF c = "count" THEN V("Integer", ToString(Len(group))) ELSE V("String", key)]
           from == UNION {f.from : f \in ToSet(group)}
<1>1. 1 \in DOMAIN group /\ Len(group) \in Nat /\ DOMAIN group = 1..Len(group)
      /\ \A i \in DOMAIN group : Sane(group[i])
  BY GroupIsSane
<1>2. WholeOf(fc, groupBy, key) = Feature(Merged(group), properties, from) BY DEF WholeOf
<1> HIDE DEF group
<1>3. Merged(group) \in Shapes BY <1>1, MergedIsShape DEF Sane
<1>4. KindsAreKnown(properties)
  <2>1. \A t : Kinded(V("Integer", t)) /\ Kinded(V("String", t)) BY MadeIsKinded DEF ValueKinds
  <2> QED BY <2>1 DEF KindsAreKnown
<1>5. from \subseteq Nat BY <1>1 DEF ToSet, Sane
<1> HIDE DEF properties, from
<1> QED BY <1>2, <1>3, <1>4, <1>5 DEF Sane, Feature

LEMMA DissolveIsCollection ==
  ASSUME NEW fc, IsCollection(fc), NEW params, NEW result \in Dissolve(fc, params)
  PROVE  IsCollection(result)
<1> DEFINE keys == KeysOf(fc, GroupBy(params))
           k == Cardinality(keys)
<1>1. PICK order \in SetToSeqs(keys) : result = InOrder(fc, GroupBy(params), order)
  BY DissolveIs
<1>2. k \in Nat BY KeysAreFinite
<1>3. DOMAIN order = 1..k /\ \A i \in 1..k : order[i] \in keys BY DEF SetToSeqs
<1> DEFINE s == [i \in DOMAIN order |-> WholeOf(fc, GroupBy(params), order[i])]
<1>4. \A i \in 1..k : Sane(s[i]) BY <1>3, WholeIsSane
<1> HIDE DEF keys, k
<1>5. DOMAIN s = 1..k /\ s = [i \in DOMAIN s |-> s[i]] BY <1>3
<1>6. fc.crs \in Crs \cup {NoCrs} BY SaneCollection
<1> HIDE DEF s
<1>7. IsCollection(Collection(s, fc.crs)) BY <1>2, <1>4, <1>5, <1>6, MadeIsCollection
<1> QED BY <1>1, <1>7 DEF InOrder, s

\* What a step gives is a collection.
LEMMA ResultIsCollection ==
  ASSUME NEW op \in Operations, NEW fc, IsCollection(fc), NEW join, IsCollection(join), NEW params,
         op = "reproject" => params["to_crs"].text \in Projected,
         NEW result \in Results(op, params, fc, join)
  PROVE  IsCollection(result)
<1>1. CASE op = "filter" BY <1>1, FilterIsCollection DEF Results
<1>2. CASE op = "schema_map" BY <1>2, SchemaMapIsCollection DEF Results
<1>3. CASE op = "expression" BY <1>3, ExpressionIsCollection DEF Results
<1>4. CASE op \in {"clip", "centroid"} BY <1>4, ClipIsCollection DEF Results
<1>5. CASE op \in {"buffer", "simplify", "reproject"}
  <2>1. result = ReshapedAt(fc, op, params) BY <1>5, ReshapedIs DEF Results
  <2>2. CrsAfter(op, params, fc) \in Crs \cup {NoCrs}
    <3>1. fc.crs \in Crs \cup {NoCrs} BY SaneCollection
    <3>2. op = "reproject" => params["to_crs"].text \in Crs
      BY OperationsAssumption
    <3> QED BY <3>1, <3>2 DEF CrsAfter
  <2> QED BY <2>1, <2>2, ReshapedIsCollection
<1>6. CASE op = "dissolve" BY <1>6, DissolveIsCollection DEF Results
<1>7. CASE op = "spatial_join" BY <1>7, SpatialJoinIsCollection DEF Results
<1> QED BY <1>1, <1>2, <1>3, <1>4, <1>5, <1>6, <1>7, OperationNames

-----------------------------------------------------------------------------
(* The same features in another order, and what the operations make of them. *)

LEMMA SameIsSame ==
  ASSUME NEW a
  PROVE  SameFeatures(a, a)
<1> DEFINE p == [i \in DOMAIN a.features |-> i]
<1>1. p \in Matchings(DOMAIN a.features, DOMAIN a.features)
      /\ \A i \in DOMAIN a.features : a.features[p[i]] = a.features[i]
  BY DEF Matchings
<1> QED BY <1>1 DEF SameFeatures

\* The ranks number the elements of a set.
LEMMA RanksNumber ==
  ASSUME NEW N \in Nat, NEW S \in SUBSET (1..N)
  PROVE  /\ \A i, j \in 1..Cardinality(S) : Ranked(S, i) = Ranked(S, j) => i = j
         /\ \A x \in S : \E i \in 1..Cardinality(S) : Ranked(S, i) = x
<1> DEFINE k == Cardinality(S)
           f == [i \in 1..k |-> Ranked(S, i)]
<1>1. /\ IsFiniteSet(S) /\ k \in Nat
      /\ \A i \in 1..k : Ranked(S, i) \in S /\ Cardinality({j \in S : j <= Ranked(S, i)}) = i
  BY RanksAreTaken
<1>2. \A i, j \in 1..k : Ranked(S, i) = Ranked(S, j) => i = j BY <1>1
<1>3. f \in Injection(1..k, S) BY <1>1, <1>2 DEF Injection, IsInjective
<1>4. Cardinality(1..k) = k BY <1>1, FS_Interval
<1>5. f \in Surjection(1..k, S) BY <1>1, <1>3, <1>4, FS_Injection
<1>6. \A x \in S : \E i \in 1..k : f[i] = x BY <1>5 DEF Surjection
<1> QED BY <1>2, <1>6

\* Sequences with the same elements have one length and one set of elements.
LEMMA SameElements ==
  ASSUME NEW m \in Nat, NEW n \in Nat, NEW s, NEW t, DOMAIN s = 1..m, DOMAIN t = 1..n,
         NEW p \in Matchings(1..m, 1..n), \A i \in 1..m : t[p[i]] = s[i]
  PROVE  m = n /\ ToSet(s) = ToSet(t)
<1>1. p \in [1..m -> 1..n] /\ (\A i, j \in 1..m : p[i] = p[j] => i = j)
      /\ \A k \in 1..n : \E i \in 1..m : p[i] = k
  BY DEF Matchings
<1>2. p \in Injection(1..m, 1..n) /\ p \in Surjection(1..m, 1..n)
  BY <1>1 DEF Injection, IsInjective, Surjection
<1>3. IsFiniteSet(1..n) /\ Cardinality(1..n) = n /\ Cardinality(1..m) = m BY FS_Interval
<1>4. m = n BY <1>2, <1>3, FS_Injection
<1>5. ToSet(s) = ToSet(t)
  <2>1. \A x \in ToSet(s) : x \in ToSet(t) BY <1>1 DEF ToSet
  <2>2. ASSUME NEW x \in ToSet(t) PROVE x \in ToSet(s)
    <3>1. PICK k \in 1..n : x = t[k] BY DEF ToSet
    <3>2. PICK i \in 1..m : p[i] = k BY <1>1
    <3> QED BY <3>1, <3>2 DEF ToSet
  <2> QED BY <2>1, <2>2
<1> QED BY <1>4, <1>5

\* What is made feature by feature has the order of what it is made from.
LEMMA MapsAlike ==
  ASSUME NEW a, NEW b, SameFeatures(a, b), NEW r, NEW t, r.crs = t.crs,
         DOMAIN r.features = DOMAIN a.features, DOMAIN t.features = DOMAIN b.features,
         \A i \in DOMAIN a.features : \A j \in DOMAIN b.features :
           a.features[i] = b.features[j] => r.features[i] = t.features[j]
  PROVE  SameFeatures(r, t)
<1>1. PICK p \in Matchings(DOMAIN a.features, DOMAIN b.features) :
        \A i \in DOMAIN a.features : b.features[p[i]] = a.features[i]
  BY DEF SameFeatures
<1>2. \A i \in DOMAIN a.features : p[i] \in DOMAIN b.features BY DEF Matchings
<1>3. p \in Matchings(DOMAIN r.features, DOMAIN t.features) OBVIOUS
<1>4. \A i \in DOMAIN r.features : t.features[p[i]] = r.features[i] BY <1>1, <1>2
<1> QED BY <1>3, <1>4 DEF SameFeatures

\* Elements that are alike are picked alike.
LEMMA PickedAlike ==
  ASSUME NEW m \in Nat, NEW n \in Nat, NEW p \in Matchings(1..m, 1..n),
         NEW A \in SUBSET (1..m), NEW B \in SUBSET (1..n), \A i \in 1..m : i \in A <=> p[i] \in B,
         NEW s, NEW t, \A i \in 1..m : t[p[i]] = s[i]
  PROVE  \E q \in Matchings(DOMAIN Picked(s, A), DOMAIN Picked(t, B)) :
           \A i \in DOMAIN Picked(s, A) : Picked(t, B)[q[i]] = Picked(s, A)[i]
<1> DEFINE k == Cardinality(A)
           l == Cardinality(B)
           q == [i \in 1..k |-> CHOOSE j \in 1..l : Ranked(B, j) = p[Ranked(A, i)]]
<1>1. p \in [1..m -> 1..n] /\ (\A i, j \in 1..m : p[i] = p[j] => i = j)
      /\ \A x \in 1..n : \E i \in 1..m : p[i] = x
  BY DEF Matchings
<1>2. (\A i \in 1..k : Ranked(A, i) \in A) /\ \A j \in 1..l : Ranked(B, j) \in B
  BY RanksAreTaken
<1>3. /\ \A i, j \in 1..k : Ranked(A, i) = Ranked(A, j) => i = j
      /\ \A x \in A : \E i \in 1..k : Ranked(A, i) = x
  BY RanksNumber
<1>4. /\ \A i, j \in 1..l : Ranked(B, i) = Ranked(B, j) => i = j
      /\ \A x \in B : \E i \in 1..l : Ranked(B, i) = x
  BY RanksNumber
<1> HIDE DEF k, l
<1>5. ASSUME NEW i \in 1..k PROVE q[i] \in 1..l /\ Ranked(B, q[i]) = p[Ranked(A, i)]
  <2>1. p[Ranked(A, i)] \in B BY <1>2
  <2>2. \E j \in 1..l : Ranked(B, j) = p[Ranked(A, i)] BY <1>4, <2>1
  <2> QED BY <2>2
<1>6. ASSUME NEW i \in 1..k, NEW j \in 1..k, q[i] = q[j] PROVE i = j
  <2>1. p[Ranked(A, i)] = p[Ranked(A, j)] BY <1>5, <1>6
  <2>2. Ranked(A, i) \in 1..m /\ Ranked(A, j) \in 1..m BY <1>2
  <2> QED BY <1>1, <1>3, <2>1, <2>2
<1>7. ASSUME NEW j \in 1..l PROVE \E i \in 1..k : q[i] = j
  <2>1. PICK x \in 1..m : p[x] = Ranked(B, j) BY <1>1, <1>2
  <2>2. x \in A BY <1>2, <2>1
  <2>3. PICK i \in 1..k : Ranked(A, i) = x BY <1>3, <2>2
  <2> QED BY <1>4, <1>5, <2>1, <2>3
<1>8. q \in Matchings(1..k, 1..l) 
  <2>1. q \in [1..k -> 1..l] BY <1>5
  <2> HIDE DEF q
  <2> QED BY <1>6, <1>7, <2>1 DEF Matchings
<1>9. /\ DOMAIN Picked(s, A) = 1..k /\ \A i \in 1..k : Picked(s, A)[i] = s[Ranked(A, i)]
      /\ DOMAIN Picked(t, B) = 1..l /\ \A j \in 1..l : Picked(t, B)[j] = t[Ranked(B, j)]
  BY DEF Picked, k, l
<1>10. \A i \in 1..k : Picked(t, B)[q[i]] = Picked(s, A)[i]
  <2>1. \A i \in 1..k : Ranked(A, i) \in 1..m BY <1>2
  <2> HIDE DEF q
  <2> QED BY <1>5, <1>9, <2>1
<1> HIDE DEF q
<1> QED BY <1>8, <1>9, <1>10

\* Collections of the model with the same features, by their correspondence.
LEMMA SameCollections ==
  ASSUME NEW a, NEW b, IsCollection(a), IsCollection(b), SameFeatures(a, b)
  PROVE  /\ a.crs = b.crs
         /\ \E m, n \in Nat : \E p \in Matchings(1..m, 1..n) :
              /\ DOMAIN a.features = 1..m /\ DOMAIN b.features = 1..n
              /\ \A i \in 1..m : b.features[p[i]] = a.features[i]
         /\ ToSet(a.features) = ToSet(b.features)
<1>1. PICK m \in Nat : DOMAIN a.features = 1..m BY SaneCollection
<1>2. PICK n \in Nat : DOMAIN b.features = 1..n BY SaneCollection
<1>3. PICK p \in Matchings(1..m, 1..n) : \A i \in 1..m : b.features[p[i]] = a.features[i]
  BY <1>1, <1>2 DEF SameFeatures
<1>4. ToSet(a.features) = ToSet(b.features) BY <1>1, <1>2, <1>3, SameElements
<1> QED BY <1>1, <1>2, <1>3, <1>4 DEF SameFeatures

-----------------------------------------------------------------------------
(* Two results of an operation, over the same features.                    *)

\* What operations make of a feature at a time.
LEMMA ReshapedAlike ==
  ASSUME NEW a, NEW b, SameFeatures(a, b), NEW op, NEW params
  PROVE  SameFeatures(ReshapedAt(a, op, params), ReshapedAt(b, op, params))
<1> DEFINE r == ReshapedAt(a, op, params)
           t == ReshapedAt(b, op, params)
<1>1. a.crs = b.crs BY DEF SameFeatures
<1>2. FromCrs(a, params) = FromCrs(b, params) BY <1>1 DEF FromCrs
<1>3. \A g : Reshaped(op, params, a, g) = Reshaped(op, params, b, g) BY <1>2 DEF Reshaped
<1>4. CrsAfter(op, params, a) = CrsAfter(op, params, b) BY <1>1 DEF CrsAfter
<1>5. /\ r.crs = CrsAfter(op, params, a) /\ DOMAIN r.features = DOMAIN a.features
      /\ \A i \in DOMAIN a.features :
           r.features[i] = WithGeometry(a.features[i], Reshaped(op, params, a, a.features[i].geometry))
  BY DEF ReshapedAt, Collection
<1>6. /\ t.crs = CrsAfter(op, params, b) /\ DOMAIN t.features = DOMAIN b.features
      /\ \A i \in DOMAIN b.features :
           t.features[i] = WithGeometry(b.features[i], Reshaped(op, params, b, b.features[i].geometry))
  BY DEF ReshapedAt, Collection
<1> HIDE DEF r, t
<1>7. \A i \in DOMAIN a.features : \A j \in DOMAIN b.features :
        a.features[i] = b.features[j] => r.features[i] = t.features[j]
  BY <1>3, <1>5, <1>6
<1>8. SameFeatures(r, t) BY <1>4, <1>5, <1>6, <1>7, MapsAlike
<1> QED BY <1>8 DEF r, t

LEMMA HavingAlike ==
  ASSUME NEW a, NEW b, SameFeatures(a, b), NEW q, NEW s,
         \A i \in DOMAIN a.features : \A j \in DOMAIN b.features :
           a.features[i] = b.features[j] => q[i] = s[j]
  PROVE  SameFeatures(Having(a, q), Having(b, s)) /\ (a = b => Having(a, q) = Having(b, s))
<1> DEFINE r == Having(a, q)
           t == Having(b, s)
<1>1. /\ r.crs = a.crs /\ DOMAIN r.features = DOMAIN a.features
      /\ \A i \in DOMAIN a.features : r.features[i] = Holding(a.features[i], q[i])
  BY DEF Having, Collection
<1>2. /\ t.crs = b.crs /\ DOMAIN t.features = DOMAIN b.features
      /\ \A i \in DOMAIN b.features : t.features[i] = Holding(b.features[i], s[i])
  BY DEF Having, Collection
<1>3. a.crs = b.crs BY DEF SameFeatures
<1>4. a = b => r = t
  <2>1. a = b => \A i \in DOMAIN a.features : q[i] = s[i] OBVIOUS
  <2> QED BY <2>1 DEF Having
<1> HIDE DEF r, t
<1>5. SameFeatures(r, t) BY <1>1, <1>2, <1>3, MapsAlike
<1> QED BY <1>4, <1>5 DEF r, t

\* Two columns of a feature get one name, and have different values.
Collides(params, fc) ==
  \E f \in ToSet(fc.features) : \E c, d \in OldOf(f.properties, params) :
    Renamed(params, c) = Renamed(params, d) /\ f.properties[c] # f.properties[d]

LEMMA SchemaMapAlike ==
  ASSUME NEW a, NEW b, SameFeatures(a, b), NEW params, ~Collides(params, a),
         NEW r \in SchemaMap(a, params), NEW t \in SchemaMap(b, params)
  PROVE  SameFeatures(r, t) /\ (a = b => r = t)
<1> DEFINE adds == Adds(params)
<1>1. PICK q \in Mappings(a, params, adds) : r = Having(a, q) BY SchemaMapIs
<1>2. PICK s \in Mappings(b, params, adds) : t = Having(b, s) BY SchemaMapIs
<1> HIDE DEF adds
<1>3. ASSUME NEW i \in DOMAIN a.features, NEW j \in DOMAIN b.features, a.features[i] = b.features[j]
      PROVE  q[i] = s[j]
  <2> DEFINE p == a.features[i].properties
             new == NewOf(p, params)
  <2>1. \A c, d \in OldOf(p, params) : Renamed(params, c) = Renamed(params, d) => p[c] = p[d]
    <3>1. a.features[i] \in ToSet(a.features) BY DEF ToSet
    <3> QED BY <3>1 DEF Collides
  <2>2. q[i] \in Remapped(p, params, adds) /\ s[j] \in Remapped(p, params, adds)
    BY <1>1, <1>2, <1>3 DEF Mappings
  <2> HIDE DEF p
  <2>3. PICK x \in Renaming(p, params) : q[i] = Overlaid(x, adds) BY <2>2, RemappedIs
  <2>4. PICK y \in Renaming(p, params) : s[j] = Overlaid(y, adds) BY <2>2, RemappedIs
  <2>5. /\ x = [n \in new |-> x[n]] /\ y = [n \in new |-> y[n]]
        /\ \A n \in new : x[n] \in ClaimsOf(p, params, n) /\ y[n] \in ClaimsOf(p, params, n)
    BY DEF Renaming
  <2>6. \A n \in new : x[n] = y[n] BY <2>1, <2>5 DEF ClaimsOf
  <2> HIDE DEF new
  <2>7. x = y BY <2>5, <2>6
  <2> QED BY <2>3, <2>4, <2>7
<1> QED BY <1>1, <1>2, <1>3, HavingAlike

LEMMA ExpressionAlike ==
  ASSUME NEW a, NEW b, SameFeatures(a, b), NEW params,
         NEW r \in Expression(a, params), NEW t \in Expression(b, params)
  PROVE  SameFeatures(r, t) /\ (a = b => r = t)
<1> DEFINE given == params["expressions"].of
           expressions == [c \in {d \in DOMAIN given : given[d].kind = "String"} |-> given[c]]
           Made(fc) == {p \in [DOMAIN fc.features ->
                                 UNION {Computed(fc.features[i], expressions) : i \in DOMAIN fc.features}] :
                          \A i \in DOMAIN fc.features : p[i] \in Computed(fc.features[i], expressions)}
<1>1. \A fc : Expression(fc, params) = {Having(fc, q) : q \in Made(fc)}
  BY DEF Expression, WithProperties, WithFeatures, Having
<1>2. \A f : \A x, y \in Computed(f, expressions) : x = y BY DEF Computed
<1> HIDE DEF expressions
<1>3. PICK q \in Made(a) : r = Having(a, q) BY <1>1
<1>4. PICK s \in Made(b) : t = Having(b, s) BY <1>1
<1>5. \A i \in DOMAIN a.features : \A j \in DOMAIN b.features :
        a.features[i] = b.features[j] => q[i] = s[j]
  BY <1>2
<1> QED BY <1>3, <1>4, <1>5, HavingAlike

\* The features that are alike are chosen alike.
LEMMA FilterAlike ==
  ASSUME NEW a, NEW b, IsCollection(a), IsCollection(b), SameFeatures(a, b), NEW params
  PROVE  SameFeatures(Filter(a, params), Filter(b, params))
<1> DEFINE A == Matching(params, a)
           B == Matching(params, b)
           s == Picked(a.features, A)
           t == Picked(b.features, B)
<1>1. PICK m \in Nat, n \in Nat : \E p \in Matchings(1..m, 1..n) :
        /\ DOMAIN a.features = 1..m /\ DOMAIN b.features = 1..n
        /\ \A i \in 1..m : b.features[p[i]] = a.features[i]
  BY SameCollections
<1>2. PICK p \in Matchings(1..m, 1..n) :
        /\ DOMAIN a.features = 1..m /\ DOMAIN b.features = 1..n
        /\ \A i \in 1..m : b.features[p[i]] = a.features[i]
  BY <1>1
<1>3. \A i \in 1..m : p[i] \in 1..n BY DEF Matchings
<1>4. A \in SUBSET (1..m) /\ B \in SUBSET (1..n) /\ \A i \in 1..m : i \in A <=> p[i] \in B
  BY <1>2, <1>3 DEF Matching
<1>5. \A fc : Filter(fc, params) = Collection(Picked(fc.features, Matching(params, fc)), fc.crs)
  BY DEF Filter, Selected, WithFeatures, Matching
<1> HIDE DEF A, B
<1>6. \E q \in Matchings(DOMAIN s, DOMAIN t) : \A i \in DOMAIN s : t[q[i]] = s[i]
  BY <1>2, <1>4, PickedAlike
<1>7. a.crs = b.crs BY DEF SameFeatures
<1>8. /\ Filter(a, params).features = s /\ Filter(a, params).crs = a.crs
      /\ Filter(b, params).features = t /\ Filter(b, params).crs = b.crs
  BY <1>5 DEF Collection, A, B
<1> HIDE DEF s, t
<1> QED BY <1>6, <1>7, <1>8 DEF SameFeatures

LEMMA CutAlike ==
  ASSUME NEW a, NEW b, IsCollection(a), IsCollection(b), SameFeatures(a, b), NEW op, NEW params
  PROVE  SameFeatures(CutAt(a, op, params, Remaining(op, params, a)),
                      CutAt(b, op, params, Remaining(op, params, b)))
<1> DEFINE A == Remaining(op, params, a)
           B == Remaining(op, params, b)
           x == Picked(a.features, A)
           y == Picked(b.features, B)
           Remnant(f) == WithGeometry(f, Left(op, params, f.geometry))
           s == [i \in DOMAIN x |-> Remnant(x[i])]
           t == [i \in DOMAIN y |-> Remnant(y[i])]
<1>1. PICK m \in Nat, n \in Nat : \E p \in Matchings(1..m, 1..n) :
        /\ DOMAIN a.features = 1..m /\ DOMAIN b.features = 1..n
        /\ \A i \in 1..m : b.features[p[i]] = a.features[i]
  BY SameCollections
<1>2. PICK p \in Matchings(1..m, 1..n) :
        /\ DOMAIN a.features = 1..m /\ DOMAIN b.features = 1..n
        /\ \A i \in 1..m : b.features[p[i]] = a.features[i]
  BY <1>1
<1>3. \A i \in 1..m : p[i] \in 1..n BY DEF Matchings
<1>4. A \in SUBSET (1..m) /\ B \in SUBSET (1..n) /\ \A i \in 1..m : i \in A <=> p[i] \in B
  BY <1>2, <1>3 DEF Remaining
<1>5. /\ CutAt(a, op, params, A) = Collection(s, a.crs)
      /\ CutAt(b, op, params, B) = Collection(t, b.crs)
  BY DEF CutAt
<1> HIDE DEF A, B, Remnant
<1>6. \E q \in Matchings(DOMAIN x, DOMAIN y) : \A i \in DOMAIN x : y[q[i]] = x[i]
  BY <1>2, <1>4, PickedAlike
<1> HIDE DEF x, y
<1>7. PICK q \in Matchings(DOMAIN x, DOMAIN y) : \A i \in DOMAIN x : y[q[i]] = x[i] BY <1>6
<1>8. \A i \in DOMAIN x : q[i] \in DOMAIN y BY DEF Matchings
<1>9. \A i \in DOMAIN x : t[q[i]] = s[i] BY <1>7, <1>8
<1>10. DOMAIN s = DOMAIN x /\ DOMAIN t = DOMAIN y OBVIOUS
<1> HIDE DEF s, t
<1>11. a.crs = b.crs BY DEF SameFeatures
<1>12. SameFeatures(CutAt(a, op, params, A), CutAt(b, op, params, B))
  BY <1>5, <1>9, <1>10, <1>11 DEF SameFeatures, Collection
<1> QED BY <1>12 DEF A, B

\* A feature matches features of the join with different properties.
Meeting(f, params, join) ==
  {g \in ToSet(join.features) : Related(f.geometry, g.geometry, Text(params, "join_type", "intersects"))}

Torn(params, fc, join) ==
  \E f \in ToSet(fc.features) : \E g, h \in Meeting(f, params, join) : g.properties # h.properties

\* What a feature gets from the one that it is joined to.
MeetingAt(f, params, join) ==
  {j \in DOMAIN join.features :
     Related(f.geometry, join.features[j].geometry, Text(params, "join_type", "intersects"))}

Joining(found) ==
  LET names == {"joined_" \o c : c \in DOMAIN found}
  IN  [n \in names |-> found[CHOOSE c \in DOMAIN found : "joined_" \o c = n]]

JoinedTo(f, params, join) ==
  IF MeetingAt(f, params, join) = {} THEN f.properties
  ELSE Overlaid(Joining(join.features[Min(MeetingAt(f, params, join))].properties), f.properties)

LEMMA SpatialJoinIs ==
  ASSUME NEW fc, NEW params, NEW join
  PROVE  SpatialJoin(fc, params, join) =
           Having(fc, [i \in DOMAIN fc.features |-> JoinedTo(fc.features[i], params, join)])
<1> DEFINE q == [i \in DOMAIN fc.features |-> JoinedTo(fc.features[i], params, join)]
<1>1. SpatialJoin(fc, params, join) =
        Collection([i \in DOMAIN fc.features |->
                      Holding(fc.features[i], JoinedTo(fc.features[i], params, join))], fc.crs)
  BY DEF SpatialJoin, WithFeatures, JoinedTo, MeetingAt, Joining
<1>2. \A i \in DOMAIN fc.features : q[i] = JoinedTo(fc.features[i], params, join) OBVIOUS
<1> HIDE DEF q
<1>3. SpatialJoin(fc, params, join) = Having(fc, q) BY <1>1, <1>2 DEF Having
<1> QED BY <1>3 DEF q

LEMMA FirstMeets ==
  ASSUME NEW f, NEW params, NEW join, IsCollection(join)
  PROVE  /\ MeetingAt(f, params, join) = {} <=> Meeting(f, params, join) = {}
         /\ MeetingAt(f, params, join) # {} =>
              join.features[Min(MeetingAt(f, params, join))] \in Meeting(f, params, join)
<1> DEFINE M == MeetingAt(f, params, join)
<1>1. PICK k \in Nat : DOMAIN join.features = 1..k BY SaneCollection
<1>2. M \in SUBSET Int /\ \A j \in M : 1 <= j BY <1>1 DEF MeetingAt
<1>3. \A j \in M : j \in DOMAIN join.features /\ join.features[j] \in Meeting(f, params, join)
  BY DEF MeetingAt, Meeting, ToSet
<1>4. \A g \in Meeting(f, params, join) : \E j \in M : g = join.features[j]
  BY DEF MeetingAt, Meeting, ToSet
<1>5. M # {} => Min(M) \in M
  <2> HIDE DEF M
  <2>1. M # {} => \E x \in M : TRUE OBVIOUS
  <2>2. 1 \in Int OBVIOUS
  <2> QED BY <1>2, <2>1, <2>2, LeastIs
<1> QED BY <1>3, <1>4, <1>5

LEMMA SpatialJoinAlike ==
  ASSUME NEW a, NEW b, SameFeatures(a, b), NEW params,
         NEW j, NEW k, IsCollection(j), IsCollection(k), SameFeatures(j, k),
         j = k \/ ~Torn(params, a, j)
  PROVE  /\ SameFeatures(SpatialJoin(a, params, j), SpatialJoin(b, params, k))
         /\ a = b /\ j = k => SpatialJoin(a, params, j) = SpatialJoin(b, params, k)
<1>1. ASSUME NEW f \in ToSet(a.features) PROVE JoinedTo(f, params, j) = JoinedTo(f, params, k)
  <2>1. CASE j = k BY <2>1
  <2>2. CASE ~Torn(params, a, j)
    <3> DEFINE x == j.features[Min(MeetingAt(f, params, j))]
               y == k.features[Min(MeetingAt(f, params, k))]
    <3>1. Meeting(f, params, j) = Meeting(f, params, k)
      <4>1. ToSet(j.features) = ToSet(k.features) BY SameCollections
      <4> QED BY <4>1 DEF Meeting
    <3>2. MeetingAt(f, params, j) = {} <=> MeetingAt(f, params, k) = {} BY <3>1, FirstMeets
    <3>3. MeetingAt(f, params, j) # {} => x \in Meeting(f, params, j) /\ y \in Meeting(f, params, j)
      BY <3>1, <3>2, FirstMeets
    <3> HIDE DEF x, y
    <3>4. MeetingAt(f, params, j) # {} => x.properties = y.properties
      BY <2>2, <3>3 DEF Torn
    <3> QED BY <3>2, <3>4 DEF JoinedTo, x, y
  <2> QED BY <2>1, <2>2
<1> DEFINE q == [i \in DOMAIN a.features |-> JoinedTo(a.features[i], params, j)]
           s == [i \in DOMAIN b.features |-> JoinedTo(b.features[i], params, k)]
<1>2. ASSUME NEW i \in DOMAIN a.features, NEW n \in DOMAIN b.features, a.features[i] = b.features[n]
      PROVE  q[i] = s[n]
  <2>1. a.features[i] \in ToSet(a.features) BY DEF ToSet
  <2> QED BY <1>1, <1>2, <2>1
<1>3. SpatialJoin(a, params, j) = Having(a, q) /\ SpatialJoin(b, params, k) = Having(b, s)
  BY SpatialJoinIs
<1> HIDE DEF q, s
<1> QED BY <1>2, <1>3, HavingAlike

\* The polygons of a group, and what becomes of them.
PolygonPlaces(group) == {i \in DOMAIN group : group[i].geometry.type = "Polygon"}

PolygonsOf(group) == Picked([i \in DOMAIN group |-> group[i].geometry], PolygonPlaces(group))

LEMMA MergedIs ==
  ASSUME NEW m \in Nat, NEW group, DOMAIN group = 1..m
  PROVE  LET polygons == PolygonsOf(group)
         IN  /\ Len(polygons) = Cardinality(PolygonPlaces(group)) /\ Len(polygons) \in Nat
             /\ DOMAIN polygons = 1..Len(polygons)
             /\ Len(polygons) = 0 => Merged(group) = group[1].geometry
             /\ Len(polygons) = 1 => Merged(group) = polygons[1]
             /\ Len(polygons) \notin {0, 1} =>
                  Merged(group) = Area(UNION {g.cells : g \in {h \in ToSet(polygons) : h.form = "sound"}})
<1> DEFINE polygons == PolygonsOf(group)
           geometries == [i \in DOMAIN group |-> group[i].geometry]
           places == PolygonPlaces(group)
           united == Area(UNION {g.cells : g \in {h \in ToSet(polygons) : h.form = "sound"}})
<1>1. places \in SUBSET (1..m) BY DEF PolygonPlaces
<1>2. Cardinality(places) \in Nat BY <1>1, RanksAreTaken
<1>3. DOMAIN polygons = 1..Cardinality(places) /\ polygons = [i \in DOMAIN polygons |-> polygons[i]]
  BY DEF PolygonsOf, Picked
<1>4. {i \in DOMAIN geometries : geometries[i].type = "Polygon"} = places BY DEF PolygonPlaces
<1>5. Selected(geometries, LAMBDA g : g.type = "Polygon") = polygons
  BY <1>4 DEF Selected, PolygonsOf
<1> HIDE DEF polygons, places, geometries
<1>6. IsSeq(polygons) /\ Len(polygons) = Cardinality(places) BY <1>2, <1>3, FunctionIsSeq
<1>7. polygons = <<>> <=> Len(polygons) = 0 BY <1>6, EmptySeqIsShort
<1>8. /\ polygons = <<>> => Merged(group) = group[1].geometry
      /\ polygons # <<>> /\ Len(polygons) = 1 => Merged(group) = polygons[1]
      /\ polygons # <<>> /\ Len(polygons) # 1 => Merged(group) = united
  <2>1. \A x : Len(x) = 1 => x # <<>> OBVIOUS
  <2> HIDE DEF united
  <2> QED BY <1>5, <2>1 DEF Merged, geometries, united
<1> QED BY <1>2, <1>3, <1>6, <1>7, <1>8 DEF polygons, places

LEMMA AlikeElements ==
  ASSUME NEW s, NEW t, Len(s) \in Nat, DOMAIN s = 1..Len(s), Len(t) \in Nat, DOMAIN t = 1..Len(t),
         \E p \in Matchings(DOMAIN s, DOMAIN t) : \A i \in DOMAIN s : t[p[i]] = s[i]
  PROVE  Len(s) = Len(t) /\ ToSet(s) = ToSet(t)
<1> DEFINE m == Len(s)
           n == Len(t)
<1>1. m \in Nat /\ n \in Nat /\ DOMAIN s = 1..m /\ DOMAIN t = 1..n OBVIOUS
<1> HIDE DEF m, n
<1>2. PICK p \in Matchings(DOMAIN s, DOMAIN t) : \A i \in DOMAIN s : t[p[i]] = s[i] OBVIOUS
<1>3. p \in Matchings(1..m, 1..n) /\ \A i \in 1..m : t[p[i]] = s[i] BY <1>1, <1>2
<1>4. m = n /\ ToSet(s) = ToSet(t) BY <1>1, <1>3, SameElements
<1> QED BY <1>4 DEF m, n

\* Groups of the same features are merged alike, whatever their order.
LEMMA MergedAlike ==
  ASSUME NEW m \in Nat, NEW n \in Nat, NEW x, NEW y, DOMAIN x = 1..m, DOMAIN y = 1..n,
         NEW q \in Matchings(1..m, 1..n), \A i \in 1..m : y[q[i]] = x[i],
         (\A i \in 1..m : x[i].geometry.type # "Polygon") => x[1].geometry = y[1].geometry
  PROVE  Merged(x) = Merged(y)
<1> DEFINE A == PolygonPlaces(x)
           B == PolygonPlaces(y)
           s == [i \in DOMAIN x |-> x[i].geometry]
           t == [i \in DOMAIN y |-> y[i].geometry]
<1>1. \A i \in 1..m : q[i] \in 1..n BY DEF Matchings
<1>2. A \in SUBSET (1..m) /\ B \in SUBSET (1..n) /\ \A i \in 1..m : i \in A <=> q[i] \in B
  BY <1>1 DEF PolygonPlaces
<1>3. \A i \in 1..m : t[q[i]] = s[i] BY <1>1
<1>4. PolygonsOf(x) = Picked(s, A) /\ PolygonsOf(y) = Picked(t, B) BY DEF PolygonsOf
<1>5. A = {} => x[1].geometry = y[1].geometry BY DEF PolygonPlaces
<1> HIDE DEF A, B, s, t
<1> DEFINE p == PolygonsOf(x)
           r == PolygonsOf(y)
<1>6. \E o \in Matchings(DOMAIN p, DOMAIN r) : \A i \in DOMAIN p : r[o[i]] = p[i]
  BY <1>2, <1>3, <1>4, PickedAlike
<1>7. /\ Len(p) = Cardinality(A) /\ Len(p) \in Nat /\ DOMAIN p = 1..Len(p)
      /\ Len(p) = 0 => Merged(x) = x[1].geometry
      /\ Len(p) = 1 => Merged(x) = p[1]
      /\ Len(p) \notin {0, 1} =>
           Merged(x) = Area(UNION {g.cells : g \in {h \in ToSet(p) : h.form = "sound"}})
  BY MergedIs DEF A
<1>8. /\ Len(r) \in Nat /\ DOMAIN r = 1..Len(r)
      /\ Len(r) = 0 => Merged(y) = y[1].geometry
      /\ Len(r) = 1 => Merged(y) = r[1]
      /\ Len(r) \notin {0, 1} =>
           Merged(y) = Area(UNION {g.cells : g \in {h \in ToSet(r) : h.form = "sound"}})
  BY MergedIs
<1> HIDE DEF p, r
<1>9. Len(p) = Len(r) /\ ToSet(p) = ToSet(r)
  <2>1. DOMAIN p = 1..Len(p) /\ DOMAIN r = 1..Len(r) /\ Len(p) \in Nat /\ Len(r) \in Nat
    BY <1>7, <1>8
  <2> QED BY <1>6, <2>1, AlikeElements
<1>10. CASE Len(p) = 0
  <2>1. A = {}
    <3>1. IsFiniteSet(A) BY <1>2, RanksAreTaken
    <3> QED BY <1>7, <1>10, <3>1, FS_EmptySet
  <2> QED BY <1>5, <1>7, <1>8, <1>9, <1>10, <2>1
<1>11. CASE Len(p) = 1
  <2>1. p[1] = r[1]
    <3>1. ToSet(p) = {p[1]} /\ ToSet(r) = {r[1]} BY <1>7, <1>8, <1>9, <1>11 DEF ToSet
    <3>2. p[1] \in {r[1]} BY <1>9, <3>1
    <3> QED BY <3>2
  <2> QED BY <1>7, <1>8, <1>9, <1>11, <2>1
<1>12. CASE Len(p) \notin {0, 1} BY <1>7, <1>8, <1>9, <1>12
<1> QED BY <1>10, <1>11, <1>12

\* A group without a polygon has different geometries.
Ambiguous(groupBy, fc) ==
  \E f, g \in ToSet(fc.features) :
    /\ GroupKey(f, groupBy) = GroupKey(g, groupBy) /\ f.geometry # g.geometry
    /\ \A h \in ToSet(fc.features) :
         GroupKey(h, groupBy) = GroupKey(f, groupBy) => h.geometry.type # "Polygon"

LEMMA WholesAlike ==
  ASSUME NEW a, NEW b, IsCollection(a), IsCollection(b), SameFeatures(a, b), NEW groupBy,
         a = b \/ ~Ambiguous(groupBy, a), NEW key \in KeysOf(a, groupBy)
  PROVE  WholeOf(a, groupBy, key) = WholeOf(b, groupBy, key)
<1> DEFINE A == PlacesOf(a, groupBy, key)
           B == PlacesOf(b, groupBy, key)
           x == Members(a, groupBy, key)
           y == Members(b, groupBy, key)
<1>0. SUFFICES ASSUME ~Ambiguous(groupBy, a) PROVE WholeOf(a, groupBy, key) = WholeOf(b, groupBy, key)
  OBVIOUS
<1>1. PICK m \in Nat, n \in Nat : \E p \in Matchings(1..m, 1..n) :
        /\ DOMAIN a.features = 1..m /\ DOMAIN b.features = 1..n
        /\ \A i \in 1..m : b.features[p[i]] = a.features[i]
  BY SameCollections
<1>2. PICK p \in Matchings(1..m, 1..n) :
        /\ DOMAIN a.features = 1..m /\ DOMAIN b.features = 1..n
        /\ \A i \in 1..m : b.features[p[i]] = a.features[i]
  BY <1>1
<1>3. \A i \in 1..m : p[i] \in 1..n BY DEF Matchings
<1>4. A \in SUBSET (1..m) /\ B \in SUBSET (1..n) /\ \A i \in 1..m : i \in A <=> p[i] \in B
  BY <1>2, <1>3 DEF PlacesOf
<1>5. x = Picked(a.features, A) /\ y = Picked(b.features, B) BY MembersAre
<1>6. ToSet(a.features) = ToSet(b.features) BY SameCollections
<1>7. key \in KeysOf(b, groupBy) BY <1>6 DEF KeysOf
<1>8. /\ 1 \in DOMAIN x /\ Len(x) \in Nat /\ DOMAIN x = 1..Len(x)
      /\ 1 \in DOMAIN y /\ Len(y) \in Nat /\ DOMAIN y = 1..Len(y)
  BY <1>7, GroupIsSane
<1>9. \A i \in DOMAIN x : x[i] \in ToSet(a.features) /\ GroupKey(x[i], groupBy) = key
  <2>1. \A i \in DOMAIN x : Ranked(A, i) \in A /\ x[i] = a.features[Ranked(A, i)]
    <3> HIDE DEF A
    <3>1. \A s : /\ DOMAIN Picked(s, A) = 1..Cardinality(A)
                  /\ \A i \in DOMAIN Picked(s, A) : Ranked(A, i) \in A /\ Picked(s, A)[i] = s[Ranked(A, i)]
      BY <1>4, PickedIs, Zenon
    <3> QED BY <1>5, <3>1
  <2> QED BY <1>2, <1>4, <2>1 DEF PlacesOf, ToSet
<1> HIDE DEF A, B, x, y
<1>10. PICK q \in Matchings(DOMAIN x, DOMAIN y) : \A i \in DOMAIN x : y[q[i]] = x[i]
  BY <1>2, <1>4, <1>5, PickedAlike
<1>11. Len(x) = Len(y) /\ ToSet(x) = ToSet(y)
  <2>1. DOMAIN x = 1..Len(x) /\ DOMAIN y = 1..Len(y) /\ Len(x) \in Nat /\ Len(y) \in Nat
    BY <1>8
  <2> QED BY <1>10, <2>1, AlikeElements
<1>12. (\A i \in DOMAIN x : x[i].geometry.type # "Polygon") => x[1].geometry = y[1].geometry
  <2> SUFFICES ASSUME \A i \in DOMAIN x : x[i].geometry.type # "Polygon", x[1].geometry # y[1].geometry
               PROVE  FALSE
    OBVIOUS
  <2>1. PICK k \in DOMAIN x : y[1] = x[k] BY <1>8, <1>11 DEF ToSet
  <2>2. PICK h \in ToSet(a.features) : GroupKey(h, groupBy) = key /\ h.geometry.type = "Polygon"
    BY <1>0, <1>8, <1>9, <2>1 DEF Ambiguous
  <2>3. PICK i \in 1..m : h = a.features[i] BY <1>2 DEF ToSet
  <2>4. i \in A BY <1>2, <2>2, <2>3 DEF A, PlacesOf
  <2>5. \E j \in 1..Cardinality(A) : Ranked(A, j) = i
    <3>1. A \in SUBSET (1..m) BY <1>4
    <3>2. \A u \in A : \E j \in 1..Cardinality(A) : Ranked(A, j) = u BY <3>1, RanksNumber
    <3> QED BY <2>4, <3>2
  <2>7. PICK j \in 1..Cardinality(A) : Ranked(A, j) = i BY <2>5
  <2>6. j \in DOMAIN x /\ x[j] = h BY <1>5, <2>3, <2>7 DEF Picked
  <2> QED BY <2>2, <2>6
<1>13. Merged(x) = Merged(y) BY <1>8, <1>10, <1>12, MergedAlike
<1> QED BY <1>11, <1>13 DEF WholeOf, x, y


LEMMA DissolveAlike ==
  ASSUME NEW a, NEW b, IsCollection(a), IsCollection(b), SameFeatures(a, b), NEW params,
         a = b \/ ~Ambiguous(GroupBy(params), a),
         NEW r \in Dissolve(a, params), NEW t \in Dissolve(b, params)
  PROVE  SameFeatures(r, t)
<1> DEFINE keys == KeysOf(a, GroupBy(params))
           k == Cardinality(keys)
           W(key) == WholeOf(a, GroupBy(params), key)
<1>1. a.crs = b.crs /\ ToSet(a.features) = ToSet(b.features) BY SameCollections
<1>2. KeysOf(b, GroupBy(params)) = keys BY <1>1 DEF KeysOf
<1>3. \A key \in keys : WholeOf(b, GroupBy(params), key) = W(key) BY WholesAlike
<1>4. PICK s \in SetToSeqs(keys) : r = InOrder(a, GroupBy(params), s) BY DissolveIs
<1>5. PICK u \in SetToSeqs(keys) : t = InOrder(b, GroupBy(params), u) BY <1>2, DissolveIs
<1>6. IsFiniteSet(keys) /\ k \in Nat BY KeysAreFinite
<1> HIDE DEF keys
<1>7. /\ DOMAIN s = 1..k /\ (\A i \in 1..k : s[i] \in keys)
      /\ (\A key \in keys : \E i \in 1..k : s[i] = key) /\ (\A i, j \in 1..k : s[i] = s[j] => i = j)
  BY <1>6, OrdersAreBijections
<1>8. /\ DOMAIN u = 1..k /\ (\A i \in 1..k : u[i] \in keys)
      /\ (\A key \in keys : \E i \in 1..k : u[i] = key) /\ (\A i, j \in 1..k : u[i] = u[j] => i = j)
  BY <1>6, OrdersAreBijections
<1> HIDE DEF k
<1>9. /\ r.crs = a.crs /\ t.crs = b.crs
      /\ r.features = [i \in DOMAIN s |-> WholeOf(a, GroupBy(params), s[i])]
      /\ t.features = [i \in DOMAIN u |-> WholeOf(b, GroupBy(params), u[i])]
  BY <1>4, <1>5 DEF InOrder, Collection
<1>10. /\ DOMAIN r.features = 1..k /\ \A i \in 1..k : r.features[i] = W(s[i])
       /\ DOMAIN t.features = 1..k /\ \A i \in 1..k : t.features[i] = W(u[i])
  BY <1>3, <1>7, <1>8, <1>9
<1> HIDE DEF W
<1> DEFINE q == [i \in 1..k |-> CHOOSE j \in 1..k : u[j] = s[i]]
<1>11. \A i \in 1..k : q[i] \in 1..k /\ u[q[i]] = s[i]
  <2>1. \A i \in 1..k : \E j \in 1..k : u[j] = s[i] BY <1>7, <1>8
  <2> QED BY <2>1
<1>12. \A i, j \in 1..k : q[i] = q[j] => i = j BY <1>7, <1>11
<1>13. \A j \in 1..k : \E i \in 1..k : q[i] = j
  <2> SUFFICES ASSUME NEW j \in 1..k PROVE \E i \in 1..k : q[i] = j
    OBVIOUS
  <2>1. PICK i \in 1..k : s[i] = u[j] BY <1>7, <1>8
  <2> QED BY <1>8, <1>11, <2>1
<1>14. q \in [1..k -> 1..k] BY <1>11
<1> HIDE DEF q
<1>15. q \in Matchings(1..k, 1..k) BY <1>12, <1>13, <1>14 DEF Matchings
<1>16. \A i \in 1..k : t.features[q[i]] = r.features[i] BY <1>10, <1>11
<1> QED BY <1>1, <1>9, <1>10, <1>15, <1>16 DEF SameFeatures

\* A step makes the same of the same features, but for their order: unless its
\* renames collide, it keeps the first geometry of a group in which they differ,
\* or joins one of several features whose properties differ.
LEMMA ResultsAlike ==
  ASSUME NEW op \in Operations, NEW params,
         NEW a, NEW b, IsCollection(a), IsCollection(b), SameFeatures(a, b),
         NEW j, NEW k, IsCollection(j), IsCollection(k), SameFeatures(j, k),
         op = "schema_map" => ~Collides(params, a),
         op = "dissolve" => a = b \/ ~Ambiguous(GroupBy(params), a),
         op = "spatial_join" => j = k \/ ~Torn(params, a, j),
         NEW r \in Results(op, params, a, j), NEW t \in Results(op, params, b, k)
  PROVE  /\ SameFeatures(r, t)
         /\ a = b /\ j = k /\ op # "dissolve" => r = t
<1>1. CASE op = "filter"
  <2>1. r = Filter(a, params) /\ t = Filter(b, params) BY <1>1 DEF Results
  <2>2. SameFeatures(Filter(a, params), Filter(b, params)) BY FilterAlike
  <2> QED BY <2>1, <2>2
<1>2. CASE op = "schema_map" BY <1>2, SchemaMapAlike DEF Results
<1>3. CASE op = "expression" BY <1>3, ExpressionAlike DEF Results
<1>4. CASE op = "clip"
  <2>1. r = Clip(a, params) /\ t = Clip(b, params) BY <1>4 DEF Results
  <2>2. SameFeatures(Clip(a, params), Clip(b, params))
    <3>1. /\ Clip(a, params) = CutAt(a, "clip", params, Remaining("clip", params, a))
          /\ Clip(b, params) = CutAt(b, "clip", params, Remaining("clip", params, b))
      BY ClipIsAt
    <3> QED BY <3>1, CutAlike
  <2> QED BY <2>1, <2>2
<1>5. CASE op = "centroid"
  <2>1. r = Centroid(a) /\ t = Centroid(b) BY <1>5 DEF Results
  <2>2. SameFeatures(Centroid(a), Centroid(b))
    <3>1. /\ Centroid(a) = CutAt(a, "centroid", <<>>, Remaining("centroid", <<>>, a))
          /\ Centroid(b) = CutAt(b, "centroid", <<>>, Remaining("centroid", <<>>, b))
      BY CentroidIsAt
    <3> QED BY <3>1, CutAlike
  <2> QED BY <2>1, <2>2
<1>6. CASE op \in {"buffer", "simplify", "reproject"}
  <2>1. r = ReshapedAt(a, op, params) /\ t = ReshapedAt(b, op, params)
    BY <1>6, ReshapedIs DEF Results
  <2>2. SameFeatures(ReshapedAt(a, op, params), ReshapedAt(b, op, params)) BY ReshapedAlike
  <2> QED BY <2>1, <2>2
<1>7. CASE op = "dissolve" BY <1>7, DissolveAlike DEF Results
<1>8. CASE op = "spatial_join"
  <2>1. r = SpatialJoin(a, params, j) /\ t = SpatialJoin(b, params, k) BY <1>8 DEF Results
  <2>2. /\ SameFeatures(SpatialJoin(a, params, j), SpatialJoin(b, params, k))
        /\ a = b /\ j = k => SpatialJoin(a, params, j) = SpatialJoin(b, params, k)
    BY <1>8, SpatialJoinAlike
  <2> QED BY <2>1, <2>2
<1> QED BY <1>1, <1>2, <1>3, <1>4, <1>5, <1>6, <1>7, <1>8, OperationNames

-----------------------------------------------------------------------------
(* The operations that make no number give values of the model.            *)

Computing == {"dissolve", "expression"}

LEMMA KeptInRange ==
  ASSUME NEW fc, InRange(fc), NEW result,
         \A i \in DOMAIN result.features :
           \E j \in DOMAIN fc.features : result.features[i].properties = fc.features[j].properties
  PROVE  InRange(result)
BY DEF InRange

LEMMA HavingInRange ==
  ASSUME NEW fc, NEW q, \A i \in DOMAIN fc.features : \A c \in DOMAIN q[i] : IsValue(q[i][c])
  PROVE  InRange(Having(fc, q))
<1>1. /\ DOMAIN Having(fc, q).features = DOMAIN fc.features
      /\ \A i \in DOMAIN fc.features : Having(fc, q).features[i].properties = q[i]
  BY DEF Having, Collection, Holding, Feature
<1> QED BY <1>1 DEF InRange

LEMMA PickedInRange ==
  ASSUME NEW fc, IsCollection(fc), InRange(fc), NEW places \in SUBSET (DOMAIN fc.features)
  PROVE  InRange(PickedFrom(fc, places))
<1>1. PICK n \in Nat : DOMAIN fc.features = 1..n BY SaneCollection
<1>2. places \in SUBSET (1..n) BY <1>1
<1>3. PickedFrom(fc, places).features = Picked(fc.features, places) BY DEF PickedFrom, Collection
<1>4. \A i \in DOMAIN Picked(fc.features, places) :
        Ranked(places, i) \in places /\ Picked(fc.features, places)[i] = fc.features[Ranked(places, i)]
  BY <1>2, PickedIs
<1>5. \A i \in DOMAIN Picked(fc.features, places) :
        \E j \in DOMAIN fc.features : Picked(fc.features, places)[i] = fc.features[j]
  BY <1>4
<1> QED BY <1>3, <1>5, KeptInRange

LEMMA FilterInRange ==
  ASSUME NEW fc, IsCollection(fc), InRange(fc), NEW params
  PROVE  InRange(Filter(fc, params))
<1>1. Filter(fc, params) = PickedFrom(fc, Matching(params, fc))
  BY DEF Filter, Selected, WithFeatures, PickedFrom, Matching
<1>2. Matching(params, fc) \in SUBSET (DOMAIN fc.features) BY DEF Matching
<1> QED BY <1>1, <1>2, PickedInRange

LEMMA CutInRange ==
  ASSUME NEW fc, IsCollection(fc), InRange(fc), NEW params
  PROVE  InRange(Clip(fc, params)) /\ InRange(Centroid(fc))
<1>1. ASSUME NEW op, NEW any PROVE InRange(CutAt(fc, op, any, Remaining(op, any, fc)))
  <2> DEFINE places == Remaining(op, any, fc)
             kept == Picked(fc.features, places)
  <2>1. PICK n \in Nat : DOMAIN fc.features = 1..n BY SaneCollection
  <2>2. places \in SUBSET (1..n) BY <2>1 DEF Remaining
  <2> HIDE DEF places
  <2>3. \A i \in DOMAIN kept : Ranked(places, i) \in places /\ kept[i] = fc.features[Ranked(places, i)]
    BY <2>2, PickedIs
  <2>4. CutAt(fc, op, any, places) =
          Collection([i \in DOMAIN kept |-> WithGeometry(kept[i], Left(op, any, kept[i].geometry))], fc.crs)
    BY DEF CutAt
  <2> HIDE DEF kept
  <2>5. /\ DOMAIN CutAt(fc, op, any, places).features = DOMAIN kept
        /\ \A i \in DOMAIN kept : CutAt(fc, op, any, places).features[i].properties = kept[i].properties
    BY <2>4 DEF Collection, WithGeometry, Feature
  <2>6. \A i \in DOMAIN kept : \E j \in DOMAIN fc.features : kept[i] = fc.features[j]
    BY <2>1, <2>2, <2>3
  <2>7. InRange(CutAt(fc, op, any, places)) BY <2>5, <2>6, KeptInRange
  <2> QED BY <2>7 DEF places
<1> QED BY <1>1, ClipIsAt, CentroidIsAt

LEMMA ReshapedInRange ==
  ASSUME NEW fc, InRange(fc), NEW op, NEW params
  PROVE  InRange(ReshapedAt(fc, op, params))
<1>1. /\ DOMAIN ReshapedAt(fc, op, params).features = DOMAIN fc.features
      /\ \A i \in DOMAIN fc.features :
           ReshapedAt(fc, op, params).features[i].properties = fc.features[i].properties
  BY DEF ReshapedAt, Collection, WithGeometry, Feature
<1> QED BY <1>1, KeptInRange

LEMMA AddsInRange ==
  ASSUME NEW params, \A name \in DOMAIN params : IsToml(params[name])
  PROVE  \A c \in DOMAIN Adds(params) : IsValue(Adds(params)[c])
<1> DEFINE added == Table(params, "add")
<1>1. ASSUME NEW c \in DOMAIN added PROVE Spelled(added[c])
  <2>1. CASE "add" \in DOMAIN params /\ params["add"].kind = "Table"
    <3>1. added = params["add"].of BY <2>1 DEF Table
    <3>2. IsToml(params["add"]) BY <2>1
    <3> QED BY <3>1, <3>2 DEF IsToml
  <2>2. CASE ~("add" \in DOMAIN params /\ params["add"].kind = "Table")
    <3>1. added = <<>> BY <2>2 DEF Table
    <3> QED BY <3>1
  <2> QED BY <2>1, <2>2
<1>2. ASSUME NEW p, Spelled(p) PROVE IsValue(TomlToValue(p))
  <2>1. CASE p.kind = "Boolean"
    <3>1. TomlToValue(p) = V("Bool", p.text) BY <2>1 DEF TomlToValue
    <3> QED BY <3>1, MadeIsValue
  <2>2. CASE p.kind \in {"String", "Integer", "Float"}
    <3>1. TomlToValue(p) = V(p.kind, p.text) BY <2>2 DEF TomlToValue
    <3>2. Kinded(V(p.kind, p.text)) BY <2>2, MadeIsKinded DEF ValueKinds
    <3>3. V(p.kind, p.text).kind = p.kind /\ V(p.kind, p.text).text = p.text BY DEF V
    <3> QED BY <1>2, <3>1, <3>2, <3>3 DEF Spelled, IsValue
  <2>3. CASE p.kind \notin {"Boolean", "String", "Integer", "Float"}
    <3>1. TomlToValue(p) = NullValue BY <2>3 DEF TomlToValue
    <3> QED BY <3>1, NullIsValue
  <2> QED BY <2>1, <2>2, <2>3
<1> QED BY <1>1, <1>2 DEF Adds

LEMMA SchemaMapInRange ==
  ASSUME NEW fc, InRange(fc), NEW params, \A name \in DOMAIN params : IsToml(params[name]),
         NEW result \in SchemaMap(fc, params)
  PROVE  InRange(result)
<1> DEFINE adds == Adds(params)
<1>1. \A c \in DOMAIN adds : IsValue(adds[c]) BY AddsInRange
<1>2. PICK q \in Mappings(fc, params, adds) : result = Having(fc, q) BY SchemaMapIs
<1> HIDE DEF adds
<1>3. ASSUME NEW i \in DOMAIN fc.features, NEW c \in DOMAIN q[i] PROVE IsValue(q[i][c])
  <2> DEFINE p == fc.features[i].properties
  <2>1. \A d \in DOMAIN p : IsValue(p[d]) BY DEF InRange
  <2>2. q[i] \in Remapped(p, params, adds) BY <1>2 DEF Mappings
  <2> HIDE DEF p
  <2>3. PICK r \in Renaming(p, params) : q[i] = Overlaid(r, adds) BY <2>2, RemappedIs
  <2>4. DOMAIN r = NewOf(p, params) /\ \A n \in DOMAIN r : r[n] \in ClaimsOf(p, params, n)
    BY DEF Renaming
  <2>5. \A n \in DOMAIN r : IsValue(r[n]) BY <2>1, <2>4 DEF ClaimsOf, OldOf
  <2>6. c \in DOMAIN r \cup DOMAIN adds /\ q[i][c] = IF c \in DOMAIN r THEN r[c] ELSE adds[c]
    BY <2>3 DEF Overlaid
  <2> QED BY <1>1, <2>5, <2>6
<1> QED BY <1>2, <1>3, HavingInRange

LEMMA SpatialJoinInRange ==
  ASSUME NEW fc, InRange(fc), NEW params, NEW join, IsCollection(join), InRange(join)
  PROVE  InRange(SpatialJoin(fc, params, join))
<1> DEFINE Match(f) == {j \in DOMAIN join.features :
             Related(f.geometry, join.features[j].geometry, Text(params, "join_type", "intersects"))}
           Found(f) == join.features[Min(Match(f))].properties
           Names(f) == {"joined_" \o c : c \in DOMAIN Found(f)}
           Prefixed(f) == [n \in Names(f) |-> Found(f)[CHOOSE c \in DOMAIN Found(f) : "joined_" \o c = n]]
           J(f) == IF Match(f) = {} THEN f.properties ELSE Overlaid(Prefixed(f), f.properties)
           q == [i \in DOMAIN fc.features |-> J(fc.features[i])]
<1>1. SpatialJoin(fc, params, join) =
        Collection([i \in DOMAIN fc.features |-> Holding(fc.features[i], J(fc.features[i]))], fc.crs)
  BY DEF SpatialJoin, WithFeatures
<1>2. \A i \in DOMAIN fc.features : q[i] = J(fc.features[i]) OBVIOUS
<1>3. ASSUME NEW i \in DOMAIN fc.features
      PROVE  \A d \in DOMAIN J(fc.features[i]) : IsValue(J(fc.features[i])[d])
  <2> DEFINE f == fc.features[i]
  <2>1. \A c \in DOMAIN f.properties : IsValue(f.properties[c]) BY DEF InRange
  <2>2. CASE Match(f) = {} BY <2>1, <2>2
  <2>3. CASE Match(f) # {}
    <3> DEFINE m == Min(Match(f))
               found == join.features[m].properties
    <3>1. PICK k \in Nat : DOMAIN join.features = 1..k BY SaneCollection
    <3>2. Match(f) \subseteq DOMAIN join.features OBVIOUS
    <3>3. m \in Match(f)
      <4> HIDE DEF Match
      <4>1. Match(f) \in SUBSET Int /\ \A j \in Match(f) : 1 <= j BY <3>1, <3>2
      <4> QED BY <2>3, <4>1, LeastIs
    <3>4. m \in DOMAIN join.features BY <3>3
    <3> HIDE DEF m
    <3>5. \A c \in DOMAIN found : IsValue(found[c]) BY <3>4 DEF InRange
    <3>6. Found(f) = found BY DEF m
    <3> HIDE DEF found, Match
    <3>7. DOMAIN Prefixed(f) = Names(f) /\ \A n \in Names(f) : IsValue(Prefixed(f)[n])
      <4>1. DOMAIN Prefixed(f) = Names(f) OBVIOUS
      <4> SUFFICES ASSUME NEW n \in Names(f) PROVE IsValue(Prefixed(f)[n])
        BY <4>1
      <4> DEFINE from == CHOOSE c \in DOMAIN found : "joined_" \o c = n
      <4>2. \E c \in DOMAIN found : "joined_" \o c = n BY <3>6
      <4>3. from \in DOMAIN found BY <4>2, Zenon
      <4>4. Prefixed(f)[n] = found[from] BY <3>6
      <4> HIDE DEF from
      <4> QED BY <3>5, <4>3, <4>4
    <3>8. J(f) = Overlaid(Prefixed(f), f.properties) BY <2>3
    <3> HIDE DEF Prefixed, Names, J, f
    <3>9. /\ DOMAIN J(f) = DOMAIN Prefixed(f) \cup DOMAIN f.properties
          /\ \A d \in DOMAIN J(f) :
               J(f)[d] = IF d \in DOMAIN Prefixed(f) THEN Prefixed(f)[d] ELSE f.properties[d]
      BY <3>8 DEF Overlaid
    <3>10. \A d \in DOMAIN J(f) : IsValue(J(f)[d]) BY <2>1, <3>7, <3>9
    <3> QED BY <3>10 DEF f
  <2> QED BY <2>2, <2>3
<1> HIDE DEF J, q
<1>4. SpatialJoin(fc, params, join) = Having(fc, q) BY <1>1, <1>2 DEF Having
<1> QED BY <1>2, <1>3, <1>4, HavingInRange

\* What a step gives is in range, if the step computes nothing.
LEMMA ResultInRange ==
  ASSUME NEW op \in Operations \ Computing, NEW fc, IsCollection(fc), InRange(fc),
         NEW join, IsCollection(join), InRange(join),
         NEW params, \A name \in DOMAIN params : IsToml(params[name]),
         NEW result \in Results(op, params, fc, join)
  PROVE  InRange(result)
<1>1. CASE op = "filter" BY <1>1, FilterInRange DEF Results
<1>2. CASE op = "schema_map" BY <1>2, SchemaMapInRange DEF Results
<1>3. CASE op \in {"clip", "centroid"} BY <1>3, CutInRange DEF Results
<1>4. CASE op \in {"buffer", "simplify", "reproject"}
  <2>1. result = ReshapedAt(fc, op, params) BY <1>4, ReshapedIs DEF Results
  <2> QED BY <2>1, ReshapedInRange
<1>5. CASE op = "spatial_join" BY <1>5, SpatialJoinInRange DEF Results
<1> QED BY <1>1, <1>2, <1>3, <1>4, <1>5, OperationNames DEF Computing
=============================================================================
