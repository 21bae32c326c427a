----------------------------- MODULE Operations -----------------------------
(***************************************************************************)
(* The operations of a pipeline: the catalogue that describes them, the    *)
(* parameters each one reads, what each one makes of a collection, and the *)
(* three of them that the geoplumb engine can run as elements.             *)
(*                                                                         *)
(* A parameter is a TOML value: [kind, text, of], where "of" holds the     *)
(* entries of a table or an array.  Where the code iterates over a         *)
(* HashMap, what an operation gives is one of a set of collections.  The   *)
(* geometry of topoi, the projections of projicio and the elements of      *)
(* geoplumb are external: they work on cells here.                         *)
(***************************************************************************)
EXTENDS Formats

CONSTANTS
  Projected,  \* the coordinate systems projicio can convert between
  OriginOf,   \* coordinate system -> how far its cells are from those of Wgs84
  Planes,     \* <<coordinate system, cell>>: where it can lay a local plane
  TokensOf    \* text of an expression -> its tokens

ASSUME OperationsAssumption ==
  /\ Projected \subseteq Crs /\ Wgs84 \in Projected /\ OriginOf \in [Projected -> Int]
  /\ Planes \subseteq Projected \X Int

P(kind, text) == [kind |-> kind, text |-> text, of |-> <<>>]
PTable(of) == [kind |-> "Table", text |-> "", of |-> of]
PArray(of) == [kind |-> "Array", text |-> "", of |-> of]

\* The texts of its numbers, at the top or in a table, are those of values.
Spelled(p) ==
  /\ p.kind = "Integer" => p.text \in IntegerTexts
  /\ p.kind = "Float" => p.text \in FloatTexts
IsToml(p) == Spelled(p) /\ \A c \in DOMAIN p.of : Spelled(p.of[c])

(***************************************************************************)
(* The catalogue, which validation and the documentation go by.            *)
(***************************************************************************)
Edges == {"min_x", "min_y", "max_x", "max_y"}
RequiredOf ==
  [buffer |-> {"distance"}, centroid |-> {}, clip |-> Edges, dissolve |-> {},
   expression |-> {"expressions"}, filter |-> {"field", "equals"}, reproject |-> {"to_crs"},
   schema_map |-> {}, simplify |-> {"epsilon"}, spatial_join |-> {"join"}]
RequiresAny == [op \in DOMAIN RequiredOf |-> IF op = "schema_map" THEN {"rename", "drop", "add"} ELSE {}]
Operations == DOMAIN RequiredOf

\* Mutant: one of the required parameters is enough.
Unmet_OneIsEnough(op, params) ==
  \/ RequiredOf[op] # {} /\ RequiredOf[op] \cap DOMAIN params = {}
  \/ RequiresAny[op] # {} /\ RequiresAny[op] \cap DOMAIN params = {}

Unmet(op, params) ==
  \/ ~(RequiredOf[op] \subseteq DOMAIN params)
  \/ RequiresAny[op] # {} /\ RequiresAny[op] \cap DOMAIN params = {}

\* Mutant: clip is taken to keep every feature.
KeepsOrder_Clip == {"buffer", "clip", "expression", "reproject", "schema_map", "simplify", "spatial_join"}

\* Operations whose i-th output is made of their i-th input.
KeepsOrder == {"buffer", "expression", "reproject", "schema_map", "simplify", "spatial_join"}

(***************************************************************************)
(* What the operations read, in the order they read it.                    *)
(***************************************************************************)
ReadsOf ==
  [buffer |-> << <<"distance", "number">> >>, centroid |-> <<>>,
   clip |-> << <<"min_x", "number">>, <<"min_y", "number">>,
               <<"max_x", "number">>, <<"max_y", "number">> >>,
   dissolve |-> <<>>, expression |-> << <<"expressions", "table">> >>,
   filter |-> << <<"field", "string">>, <<"equals", "any">> >>,
   reproject |-> << <<"to_crs", "string">> >>, schema_map |-> <<>>,
   simplify |-> << <<"epsilon", "number">> >>, spatial_join |-> <<>>]

HasType(p, type) ==
  CASE type = "number" -> p.kind \in {"Integer", "Float"}
    [] type = "string" -> p.kind = "String"
    [] type = "table" -> p.kind = "Table"
    [] OTHER -> TRUE

ParamError(op, params) ==
  LET Bad == {i \in DOMAIN ReadsOf[op] :
                LET name == ReadsOf[op][i][1]
                IN  name \in DOMAIN params => ~HasType(params[name], ReadsOf[op][i][2])}
      noneOfAny == RequiresAny[op] # {} /\ RequiresAny[op] \cap DOMAIN params = {}
  IN  CASE noneOfAny -> "missing parameter"
        [] ~noneOfAny /\ Bad = {} -> "none"
        [] OTHER -> IF ReadsOf[op][Min(Bad)][1] \in DOMAIN params
                    THEN "wrong type" ELSE "missing parameter"

\* On cells, a number next to zero is zero.
Number(params, name) == Whole(params[name].text)
Text(params, name, default) ==
  IF name \in DOMAIN params /\ params[name].kind = "String" THEN params[name].text ELSE default
Table(params, name) ==
  IF name \in DOMAIN params /\ params[name].kind = "Table" THEN params[name].of ELSE <<>>

JoinInput(params) == Text(params, "join", "")

(***************************************************************************)
(* filter and schema_map.                                                  *)
(***************************************************************************)
WithFeatures(fc, features) == Collection(features, fc.crs)
WithGeometry(f, g) == Feature(g, f.properties, f.from)
Holding(f, properties) == Feature(f.geometry, properties, f.from)
WithGeometries(fc, G(_)) ==
  WithFeatures(fc, [i \in DOMAIN fc.features |-> WithGeometry(fc.features[i], G(fc.features[i].geometry))])

\* Two floats are less than f64::EPSILON apart.
Close(t, u) == t # "NaN" /\ (t = u \/ {t, u} = {Tiny, FloatText(0)})

Equals(v, p) ==
  /\ <<v.kind, p.kind>> \in {<<"String", "String">>, <<"Integer", "Integer">>,
                             <<"Float", "Float">>, <<"Bool", "Boolean">>}
  /\ IF v.kind = "Float" THEN Close(v.text, p.text) ELSE v.text = p.text

Filter(fc, params) ==
  LET field == params["field"].text
      Matches(f) == field \in DOMAIN f.properties /\ Equals(f.properties[field], params["equals"])
  IN  WithFeatures(fc, Selected(fc.features, Matches))

TomlToValue(p) ==
  CASE p.kind = "Boolean" -> V("Bool", p.text)
    [] p.kind \in {"String", "Integer", "Float"} -> V(p.kind, p.text)
    [] OTHER -> NullValue

Dropped(params) ==
  IF "drop" \in DOMAIN params /\ params["drop"].kind = "Array"
  THEN {p.text : p \in {q \in ToSet(params["drop"].of) : q.kind = "String"}} ELSE {}
Renamed(params, c) ==
  LET renames == Table(params, "rename")
  IN  IF c \in DOMAIN renames /\ renames[c].kind = "String" THEN renames[c].text ELSE c

\* Columns that get one name overwrite each other in the order of a HashMap.
Remapped(properties, params, adds) ==
  LET old == DOMAIN properties \ Dropped(params)
      new == {Renamed(params, c) : c \in old}
      Claims(n) == {properties[c] : c \in {d \in old : Renamed(params, d) = n}}
  IN  {Overlaid(p, adds) :
         p \in {q \in [new -> UNION {Claims(n) : n \in new}] : \A n \in new : q[n] \in Claims(n)}}

\* The collections whose i-th feature has its properties in Options(i).
WithProperties(fc, Options(_)) ==
  LET N == DOMAIN fc.features
  IN  {WithFeatures(fc, [i \in N |-> Holding(fc.features[i], p[i])]) :
         p \in {q \in [N -> UNION {Options(i) : i \in N}] : \A i \in N : q[i] \in Options(i)}}

SchemaMap(fc, params) ==
  LET added == Table(params, "add")
      adds == [c \in DOMAIN added |-> TomlToValue(added[c])]
  IN  WithProperties(fc, LAMBDA i : Remapped(fc.features[i].properties, params, adds))

(***************************************************************************)
(* expression.                                                             *)
(***************************************************************************)
Vertices(g) ==
  CASE g.type = "Point" -> 1
    [] g.type = "GeometryCollection" -> 0
    [] Polygonal(g) -> (IF g.form = "short" THEN 2 ELSE 5) * Cardinality(Starts(g.cells))
    [] OTHER -> Cardinality(g.cells)

Size(g) == Cardinality(g.cells)
Calculated(n, operator, m) ==
  CASE operator = "*" -> n * m
    [] operator = "/" -> IF m = 0 THEN 0 ELSE n \div m
    [] operator = "+" -> n + m
    [] operator = "-" -> n - m

\* What is next to zero is so still, when it is multiplied or divided by another
\* number than zero, or when zero is added to it.
StaysTiny(operator, m) == operator \in {"*", "/"} <=> m # 0

\* The first of the operators that occurs splits the text at its last place,
\* and a right side that is no number makes the whole of it a literal.
Operators == <<"*", "/", "+", "-">>
Split(tokens) ==
  LET present == {i \in DOMAIN Operators : Operators[i] \in ToSet(tokens)}
      op == Operators[Min(present)]
      at == Max({i \in DOMAIN tokens : tokens[i] = op})
  IN  IF present # {} /\ at = Len(tokens) - 1 /\ Last(tokens) \in NumericTexts
      THEN {[field |-> FoldLeft(\o, "", SubSeq(tokens, 1, at - 1)), op |-> op, number |-> Last(tokens)]}
      ELSE {}

Measures == {"$area", "$length", "$num_vertices", "$geom_type"}
Evaluate(text, g, properties) ==
  LET tokens == TokensOf[text]
      At(c) == IF c \in DOMAIN properties THEN properties[c] ELSE NullValue
  IN  CASE text = "$area" -> V("Float", FloatText(IF Polygonal(g) /\ g.form = "sound" THEN Size(g) ELSE 0))
        [] text = "$length" -> V("Float", FloatText(IF Lineal(g) THEN Size(g) ELSE 0))
        [] text = "$num_vertices" -> V("Integer", ToString(Vertices(g)))
        [] text = "$geom_type" ->
             V("String", IF g.type = "GeometryCollection" THEN "Unknown" ELSE g.type)
        [] text \notin Measures /\ tokens[1] = "$prop." -> At(tokens[2])
        [] text \notin Measures /\ tokens[1] # "$prop." /\ Split(tokens) # {} ->
             LET s == CHOOSE s \in Split(tokens) : TRUE
                 v == At(s.field)
                 kept == \/ v.text = "NaN"
                         \/ v.text = Tiny /\ StaysTiny(s.op, NumberOf[s.number])
             IN  CASE v.kind \in {"Integer", "Float"} /\ ~kept ->
                        V("Float", FloatText(Calculated(Whole(v.text), s.op, NumberOf[s.number])))
                   [] v.kind = "Float" /\ kept -> v
                   [] OTHER -> NullValue
        [] OTHER -> V("String", text)

\* Mutant: an expression sees what those before it have computed.
Computed_Growing(f, expressions) ==
  {FoldLeft(LAMBDA properties, c : c :> Evaluate(expressions[c].text, f.geometry, properties) @@ properties,
            f.properties, order) : order \in SetToSeqs(DOMAIN expressions)}

\* Every expression sees the properties as they were, so the order of the
\* HashMap of expressions is not visible.
Computed(f, expressions) ==
  {[c \in DOMAIN f.properties \cup DOMAIN expressions |->
      IF c \in DOMAIN expressions
      THEN Evaluate(expressions[c].text, f.geometry, f.properties) ELSE f.properties[c]]}

Expression(fc, params) ==
  LET given == params["expressions"].of
      expressions == [c \in {d \in DOMAIN given : given[d].kind = "String"} |-> given[c]]
  IN  WithProperties(fc, LAMBDA i : Computed(fc.features[i], expressions))

(***************************************************************************)
(* The operations on geometry.                                             *)
(***************************************************************************)
Mean(cells) == (Min(cells) + Max(cells)) \div 2
\* A polygon may shrink; a point or a line that does leaves nothing.
Offset(g, d) ==
  IF d >= 0 THEN {c \in Cells : \E b \in g.cells : c - b \in -d..d}
  ELSE {c \in g.cells : Polygonal(g) /\ (c + d)..(c - d) \subseteq g.cells}

\* What is left of a geometry within cells, in a set that may be empty.
Within(g, cells) ==
  LET left == g.cells \cap cells
      part == CASE Polygonal(g) -> Area(left)
                [] Lineal(g) -> Geom(IF OneRun(left) THEN "LineString" ELSE "MultiLineString", left)
                [] OTHER -> [g EXCEPT !.cells = left]
  IN  IF left = {} \/ g.form # "sound" THEN {} ELSE {part}

\* The features for which To gives a geometry, in their order.
Surviving(fc, To(_)) ==
  LET kept == Selected(fc.features, LAMBDA f : To(f.geometry) # {})
  IN  WithFeatures(fc, [i \in DOMAIN kept |->
        WithGeometry(kept[i], CHOOSE g \in To(kept[i].geometry) : TRUE)])

Clip(fc, params) ==
  Surviving(fc, LAMBDA g : Within(g, Number(params, "min_x")..Number(params, "max_x")))
Centroid(fc) ==
  Surviving(fc, LAMBDA g : IF g.cells = {} THEN {} ELSE {Geom("Point", {Mean(g.cells)})})
Buffer(fc, params) ==
  WithGeometries(fc, LAMBDA g : Geom("MultiPolygon", Offset(g, Number(params, "distance"))))

\* A ring no wider than epsilon keeps its two ends; a line always has two.
Simplify(fc, params) ==
  WithGeometries(fc, LAMBDA g :
    IF Polygonal(g) /\ \E c \in Starts(g.cells) : Cardinality(RunFrom(g.cells, c)) <= Number(params, "epsilon")
    THEN [g EXCEPT !.form = "short"] ELSE g)

FromCrs(fc, params) == Text(params, "from_crs", IF fc.crs = NoCrs THEN Wgs84 ELSE fc.crs)

\* A coordinate that has no counterpart stays what it was.
Reproject(fc, params) ==
  LET shift == OriginOf[params["to_crs"].text] - OriginOf[FromCrs(fc, params)]
      Converted(c) == IF c + shift \in Cells THEN c + shift ELSE c
  IN  Collection(WithGeometries(fc, LAMBDA g : [g EXCEPT !.cells = {Converted(c) : c \in g.cells}]).features,
                 params["to_crs"].text)

(***************************************************************************)
(* dissolve: the groups come in the order of a HashMap.  Only polygons are *)
(* united; a group without one keeps the geometry of its first feature.    *)
(***************************************************************************)
GroupKey(f, groupBy) ==
  CASE groupBy = "" -> "__all__"
    [] groupBy # "" /\ ValueAt(f, groupBy).kind \in {"String", "Integer"} -> ValueAt(f, groupBy).text
    [] groupBy # "" /\ ValueAt(f, groupBy).kind = "Float" ->
         IF ValueAt(f, groupBy).text \in {"NaN", Tiny} THEN ValueAt(f, groupBy).text
         ELSE ToString(NumberOf[ValueAt(f, groupBy).text])
    [] OTHER -> "__null__"

Members(fc, groupBy, key) == Selected(fc.features, LAMBDA f : GroupKey(f, groupBy) = key)

Merged(group) ==
  LET polygons == Selected([i \in DOMAIN group |-> group[i].geometry], LAMBDA g : g.type = "Polygon")
  IN  CASE polygons = <<>> -> group[1].geometry
        [] Len(polygons) = 1 -> polygons[1]
        [] OTHER -> Area(UNION {g.cells : g \in {h \in ToSet(polygons) : h.form = "sound"}})

Dissolve(fc, params) ==
  LET groupBy == Text(params, "group_by", "")
      United(key) ==
        LET group == Members(fc, groupBy, key)
        IN  Feature(Merged(group),
                    [c \in {"count"} \cup ({groupBy} \ {""}) |->
                       IF c = "count" THEN V("Integer", ToString(Len(group))) ELSE V("String", key)],
                    UNION {f.from : f \in ToSet(group)})
      keys == {GroupKey(f, groupBy) : f \in ToSet(fc.features)}
  IN  {WithFeatures(fc, [i \in DOMAIN order |-> United(order[i])]) : order \in SetToSeqs(keys)}

(***************************************************************************)
(* spatial_join: the properties of the first feature that matches.         *)
(***************************************************************************)
Covers(a, b) == Polygonal(a) /\ b.type = "Point" /\ b.cells \subseteq a.cells
Related(a, b, joinType) ==
  CASE joinType = "contains" -> Covers(a, b)
    [] joinType = "within" -> Covers(b, a)
    [] OTHER -> a.cells \cap b.cells # {}

SpatialJoin(fc, params, join) ==
  LET Joined(f) ==
        LET matching == {j \in DOMAIN join.features :
                           Related(f.geometry, join.features[j].geometry, Text(params, "join_type", "intersects"))}
            found == join.features[Min(matching)].properties
            names == {"joined_" \o c : c \in DOMAIN found}
        IN  IF matching = {} THEN f.properties
            ELSE Overlaid([n \in names |-> found[CHOOSE c \in DOMAIN found : "joined_" \o c = n]], f.properties)
  IN  WithFeatures(fc, [i \in DOMAIN fc.features |->
        Holding(fc.features[i], Joined(fc.features[i]))])

(***************************************************************************)
(* A step that runs in the pipeline: why it fails, or what it may give.    *)
(* The pipeline has the join collection, if any, before the step begins.   *)
(***************************************************************************)
\* buffer works on a plane about the middle of the collection.
Centre(fc) ==
  LET cells == UNION {g.cells : g \in Geometries(fc)}
  IN  IF cells = {} THEN 0 ELSE Mean(cells)

Projects(op, params, fc) ==
  /\ op = "reproject" => {FromCrs(fc, params), params["to_crs"].text} \subseteq Projected
  /\ op = "buffer" => <<IF fc.crs = NoCrs THEN Wgs84 ELSE fc.crs, Centre(fc)>> \in Planes

Failure(op, params, fc) ==
  CASE op \notin Operations -> "unknown operation"
    [] op = "spatial_join" -> IF JoinInput(params) = "" THEN "no join dataset" ELSE "none"
    [] OTHER -> IF ParamError(op, params) # "none" THEN ParamError(op, params)
                ELSE IF Projects(op, params, fc) THEN "none" ELSE "no projection"

Results(op, params, fc, join) ==
  CASE op = "filter" -> {Filter(fc, params)}
    [] op = "schema_map" -> SchemaMap(fc, params)
    [] op = "expression" -> Expression(fc, params)
    [] op = "clip" -> {Clip(fc, params)}
    [] op = "centroid" -> {Centroid(fc)}
    [] op = "buffer" -> {Buffer(fc, params)}
    [] op = "simplify" -> {Simplify(fc, params)}
    [] op = "reproject" -> {Reproject(fc, params)}
    [] op = "dissolve" -> Dissolve(fc, params)
    [] op = "spatial_join" -> {SpatialJoin(fc, params, join)}

(***************************************************************************)
(* The engine.  Properties cross as JSON, which has no NaN.                *)
(***************************************************************************)
ToJson(v) ==
  IF v.kind \in {"Integer", "Float"} THEN V("Number", v.text) ELSE v

\* Mutant: every number comes back as a float.
FromJson_Float(j) == IF j.kind = "Number" THEN AsFloat(j.text) ELSE j

FromJson(j) ==
  IF j.kind = "Number" THEN V(IF j.text \in IntegerTexts THEN "Integer" ELSE "Float", j.text) ELSE j

OverProperties(fc, To(_)) ==
  WithFeatures(fc, [i \in DOMAIN fc.features |->
    LET f == fc.features[i] IN Holding(f, [c \in DOMAIN f.properties |-> To(f.properties[c])])])

\* admit_source: a crs with a code, coordinates, and properties JSON can carry.
Admissible(fc) ==
  /\ fc.crs \in EpsgCrs \cup {NoCrs}
  /\ fc.features # <<>>
  /\ \A i \in DOMAIN fc.features :
       /\ fc.features[i].geometry.cells # {}
       /\ \A c \in DOMAIN fc.features[i].properties : fc.features[i].properties[c] # V("Float", "NaN")

Scalars(p) ==
  CASE p.kind \in {"Integer", "Float"} /\ p.text # "NaN" -> {V("Number", p.text)}
    [] p.kind = "String" -> {V("String", p.text)}
    [] p.kind = "Boolean" -> {V("Bool", p.text)}
    [] OTHER -> {}

HasElement(op, params) ==
  CASE op = "filter" -> /\ {"field", "equals"} \subseteq DOMAIN params
                        /\ params["field"].kind = "String"
                        /\ Scalars(params["equals"]) # {}
    [] op = "schema_map" -> /\ DOMAIN params \cap {"rename", "drop", "add"} # {}
                            /\ \A c \in DOMAIN Table(params, "add") : Scalars(Table(params, "add")[c]) # {}
    [] op = "clip" -> /\ Edges \subseteq DOMAIN params
                      /\ \A e \in Edges : HasType(params[e], "number")
    [] OTHER -> FALSE

\* What an element makes of a collection whose properties are JSON.
Element(op, params, fc) ==
  CASE op = "filter" ->
         LET field == params["field"].text
         IN  {WithFeatures(fc, Selected(fc.features, LAMBDA f :
                field \in DOMAIN f.properties /\ f.properties[field] \in Scalars(params["equals"])))}
    [] op = "schema_map" ->
         LET added == Table(params, "add")
             adds == [c \in DOMAIN added |-> CHOOSE j \in Scalars(added[c]) : TRUE]
         IN  WithProperties(fc, LAMBDA i : Remapped(fc.features[i].properties, params, adds))
    [] op = "clip" -> {Clip(fc, params)}

\* filter meets a float that is next to its parameter and not equal to it.
Blurred(op, params, fc) ==
  /\ op = "filter"
  /\ \E f \in ToSet(fc.features) :
       LET field == params["field"].text
           equals == params["equals"]
       IN  /\ field \in DOMAIN f.properties
           /\ Equals(f.properties[field], equals) /\ f.properties[field].text # equals.text

\* What filter keeps and is equal to its parameter.
Told(params, fc) ==
  LET field == params["field"].text
      equals == params["equals"]
  IN  WithFeatures(fc, Selected(fc.features, LAMBDA f :
        /\ field \in DOMAIN f.properties
        /\ Equals(f.properties[field], equals) /\ f.properties[field].text = equals.text))
=============================================================================
