------------------------------- MODULE MCJob -------------------------------
(***************************************************************************)
(* Instances of Job.  A job is named by what it is made of: the number of  *)
(* its collection and of its chain of steps below, its formats, its gate.  *)
(***************************************************************************)
EXTENDS Job

MCCells == -3..9
MCNumbers == -1..10
MCCrs == {"EPSG:4326", "EPSG:3857", "LOCAL:1"}
MCEpsgCrs == MCCrs \ {"LOCAL:1"}
MCOriginOf == "EPSG:4326" :> 0 @@ "EPSG:3857" :> 2
\* No plane about cell 1 of Wgs84, which is the middle of some collections.
MCPlanes == (MCEpsgCrs \X MCCells) \ {<<"EPSG:4326", 1>>}

MCLowerOf == "Name" :> "name" @@ "POP" :> "pop"

(***************************************************************************)
(* Collections.                                                            *)
(***************************************************************************)
I(n) == V("Integer", ToString(n))
F(n) == V("Float", FloatText(n))
S(text) == V("String", text)
True == V("Bool", "true")
NaN == V("Float", "NaN")
Next0 == V("Float", Tiny)

Made(crs, features) ==
  Collection([i \in DOMAIN features |-> Feature(features[i][1], features[i][2], {i})], crs)
Pt(c) == Geom("Point", {c})
Line(cells) == Geom("LineString", cells)
Poly(cells) == Geom("Polygon", cells)
Thin(cells) == [Poly(cells) EXCEPT !.form = "flat"]
Row(pop, name) == "pop" :> pop @@ "name" :> name

Data == <<
  Made(Wgs84, << <<Pt(1), Row(I(3), S("a"))>>, <<Pt(2), Row(I(4), S("b"))>>, <<Pt(4), Row(I(3), S("b"))>> >>),
  Made(Wgs84, << <<Pt(0), Row(I(3), S("3"))>>, <<Pt(3), "pop" :> F(3) @@ "ok" :> True>>,
                   <<Pt(4), Row(NullValue, S("")) >> >>),
  Made(Wgs84, << <<Pt(1), Row(NaN, True)>>, <<Pt(2), Row(F(3), S("3.00000000"))>>, <<Pt(5), Row(F(4), S("x"))>> >>),
  Made("EPSG:3857", << <<Poly({0, 1}), Row(F(3), S("a"))>>, <<Poly({2, 3}), Row(F(4), S("b"))>>,
                       <<Poly({1, 2}), Row(F(5), S("a"))>> >>),
  Made(NoCrs, << <<Poly({0}), Row(F(3), S("a"))>>, <<Geom("MultiPolygon", {2, 4, 5}), Row(I(3), S("a"))>>,
                 <<Poly({7}), Row(I(4), True)>> >>),
  Made(NoCrs, << <<Line({0, 1, 2}), "ok" :> True>>, <<Geom("MultiLineString", {4, 6}), "ok" :> V("Bool", "false")>> >>),
  Made(Wgs84, << <<Geom("MultiPoint", {1, 5}), "Name" :> S("a") @@ "name" :> S("b")>>,
                   <<Geom("GeometryCollection", {2}), "Name" :> S("a")>> >>),
  Made(NoCrs, <<>>),
  Made("LOCAL:1", << <<Thin({1, 2}), Row(I(1), S("a"))>>, <<Poly({3, 4, 5}), Row(I(2), S("a"))>> >>),
  Made(Wgs84, << <<Pt(1), "fid" :> I(7) @@ "attribute_1" :> S("x")>>, <<Pt(3), "POP" :> I(3) @@ "name" :> S("wide")>> >>),
  Made("EPSG:3857", << <<Geom("MultiPoint", {1, 2}), Row(I(3), I(1))>>, <<Geom("MultiPoint", {4}), Row(F(1), NullValue)>> >>),
  Made(NoCrs, << <<Pt(2), Row(F(3), S("a"))>>, <<Pt(3), Row(F(4), S("b"))>> >>),
  Made(Wgs84, << <<Pt(1), Row(F(0), S("a"))>>, <<Pt(2), Row(Next0, S(Tiny))>>, <<Pt(3), Row(F(3), Next0)>> >>) >>

Other == Made(Wgs84, << <<Poly({1, 2}), "name" :> S("west")>>, <<Poly({2, 3, 4}), "name" :> S("east") @@ "ok" :> True>> >>)

(***************************************************************************)
(* Chains of steps.                                                        *)
(***************************************************************************)
Op(op, params) == [op |-> op, params |-> params]
Named(chain) == [i \in DOMAIN chain |-> chain[i] @@ [name |-> "s" \o ToString(i)]]
PI(n) == P("Integer", ToString(n))
PF(n) == P("Float", FloatText(n))
PS(text) == P("String", text)

Where(p) == Op("filter", "field" :> PS("pop") @@ "equals" :> p)
Rename(from, to) == Op("schema_map", "rename" :> PTable(from :> PS(to)))
Box(lo, hi) == Op("clip", "min_x" :> lo @@ "min_y" :> PI(0) @@ "max_x" :> hi @@ "max_y" :> PF(1))
Compute(table) == Op("expression", "expressions" :> PTable(table))
Join(name, type) == Op("spatial_join", "join" :> PS(name) @@ "join_type" :> PS(type))
By(column) == Op("dissolve", "group_by" :> PS(column))
Buffered(n) == Op("buffer", "distance" :> PI(n))
Simplified(n) == Op("simplify", "epsilon" :> PF(n))
To(crs) == Op("reproject", "to_crs" :> PS(crs))
Centroids == Op("centroid", <<>>)

MCTokensOf ==
  "$area" :> <<"$area">> @@ "$length" :> <<"$length">> @@ "$num_vertices" :> <<"$num_vertices">>
  @@ "$geom_type" :> <<"$geom_type">> @@ "$prop.pop" :> <<"$prop.", "pop">>
  @@ "pop * 2" :> <<"pop", "*", "2">> @@ "pop / 0" :> <<"pop", "/", "0">>
  @@ "pop - 1" :> <<"pop", "-", "1">> @@ "pop + 1" :> <<"pop", "+", "1">>
  @@ "$area / 2" :> <<"$area", "/", "2">> @@ "pop * 2 - 1" :> <<"pop", "*", "2", "-", "1">>
  @@ "name" :> <<"name">>

Chains == <<
  <<>>, <<By("name")>>, <<Buffered(1), By("name")>>,
  <<Where(PI(3))>>, <<Where(PF(3))>>, <<Where(P("Float", "NaN"))>>, <<Where(P("Datetime", "now"))>>,
  <<Op("filter", "field" :> PS("pop"))>>, <<Op("filter", "field" :> PI(1) @@ "equals" :> PI(3))>>,
  <<Op("filter", "field" :> PS("ok") @@ "equals" :> P("Boolean", "true"))>>,
  <<Rename("pop", "size")>>, <<Rename("pop", "name")>>,
  <<Op("schema_map", "drop" :> PArray(<<PS("pop"), PI(1)>>))>>,
  <<Op("schema_map", "add" :> PTable("ok" :> PF(2) @@ "a" :> P("Boolean", "true")))>>,
  <<Op("schema_map", "add" :> PTable("a" :> P("Datetime", "now")))>>,
  <<Op("schema_map", <<>>)>>,
  <<Box(PI(1), PF(3))>>, <<Box(PI(1), PS("east"))>>, <<Op("clip", "min_x" :> PI(0))>>,
  <<Compute("a" :> PS("$area") @@ "id" :> PS("$num_vertices") @@ "title" :> PS("$geom_type"))>>,
  <<Compute("pop" :> PS("pop * 2") @@ "size" :> PS("pop + 1") @@ "id" :> PS("pop / 0"))>>,
  <<Compute("id" :> PS("$length") @@ "a" :> PS("$area / 2") @@ "size" :> PS("$prop.pop")
            @@ "title" :> PS("name") @@ "name" :> PS("pop * 2 - 1") @@ "ok" :> PI(1))>>,
  <<Op("expression", "expressions" :> PI(1))>>, <<Op("expression", <<>>)>>,
  <<Simplified(2)>>, <<Op("simplify", "epsilon" :> PS("2"))>>, <<Op("simplify", <<>>)>>,
  <<Buffered(1)>>, <<Buffered(-1)>>, <<Op("buffer", <<>>)>>,
  <<By("pop")>>, <<Op("dissolve", <<>>)>>, <<By("ok")>>, <<Centroids>>,
  <<To("EPSG:3857")>>, <<To("LOCAL:1")>>, <<Op("reproject", "from_crs" :> PS("EPSG:3857") @@ "to_crs" :> PS("EPSG:4326"))>>, <<Op("reproject", <<>>)>>,
  <<Join("other", "intersects")>>, <<Join("other", "within")>>, <<Join("other", "contains")>>,
  <<Join("", "within")>>, <<Op("spatial_join", <<>>)>>,
  <<Op("warp", <<>>)>>, <<Op("warp", <<>>), Op("clip", <<>>)>>,
  <<Where(PI(3)), Rename("pop", "size"), Box(PI(0), PI(3))>>,
  <<Box(PI(1), PI(3)), Where(PF(3)), Compute("size" :> PS("pop - 1"))>>,
  <<Rename("name", "title"), By("title"), Centroids>>,
  <<Simplified(2), Where(PF(3))>>,
  <<Box(PI(0), PI(3)), Simplified(1), By("name")>>,
  <<To("EPSG:3857"), Buffered(1), Box(PI(0), PI(4))>>,
  <<Join("other", "intersects"), Op("schema_map", "drop" :> PArray(<<PS("name")>>))>>,
  <<Where(PF(3)), Op("clip", "min_x" :> PI(0))>>,
  <<Where(PF(0)), Box(PI(1), PI(3))>>, <<Where(PI(1)), Rename("pop", "size")>>, <<Where(P("Float", Tiny))>>, <<Simplified(1), Where(P("Float", Tiny))>>,
  <<By("pop"), Op("dissolve", <<>>)>>, <<By("name"), By("count"), To("EPSG:3857")>>,
  <<By("name"), Join("s1", "intersects")>>, <<By("name"), Centroids, Join("s1", "within")>>,
  <<By("pop"), Join("source", "intersects"), By("count")>>,
  <<Where(PF(3)), Join("s1", "intersects")>>, <<Where(PF(3)), Join("source", "contains")>>,
  <<Box(PI(0), PI(3)), Where(PF(3)), Op("simplify", "epsilon" :> PF(2) @@ "join" :> PS("s1"))>> >>

(***************************************************************************)
(* Jobs: every collection from every format to every format as it is, and  *)
(* every chain over every collection from a file that can hold it.         *)
(***************************************************************************)
JobName(d, source, chain, sink, quality) ==
  [data |-> d, source |-> source, chain |-> chain, sink |-> sink, quality |-> quality]
Sources == {<<d, f>> \in (1..Len(Data)) \X (FormatNames \cup {"kml"}) : f = "kml" \/ ~RefusedBy(f, Data[d])}

Conversions == {JobName(s[1], s[2], 1, sink, FALSE) : s \in Sources, sink \in FormatNames \cup {"gpkg", "shp", "kml"}}
Runs == {JobName(s[1], s[2], chain, IF s[2] = "geojson" THEN "shapefile" ELSE "csv", quality) :
           s \in {t \in Sources : t[2] \in {"geojson", "geopackage"}},
           chain \in 2..Len(Chains), quality \in BOOLEAN}
MCJobs == Conversions \cup Runs
MCJobOf == [j \in MCJobs |->
  [source |-> j.source, data |-> Data[j.data], other |-> Other,
   steps |-> Named(Chains[j.chain]), sink |-> j.sink, quality |-> j.quality]]

\* Polygons that are dissolved, and the same with a buffer before.
DissolveJobs == {JobName(4, "geopackage", chain, "csv", FALSE) : chain \in {2, 3}}
=============================================================================
