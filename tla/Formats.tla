------------------------------ MODULE Formats ------------------------------
(***************************************************************************)
(* What each format makes of a collection: when a writer refuses it, what  *)
(* ends up in the file, and what the reader makes of that file.  A file is *)
(* a sequence of rows of a geometry and of cells; a cell is a value of the *)
(* format (a text, a JSON value, an SQL value, a .dbf field) and has, like *)
(* a value, a kind and a text.  How the bytes of several writers mix is    *)
(* the business of module Sinks.                                           *)
(***************************************************************************)
EXTENDS Collections

CONSTANTS
  EpsgCrs,    \* the coordinate systems that are named EPSG:<code>
  Wgs84,      \* EPSG:4326
  LowerOf,    \* column name -> the name in lower case, for those that are not
  LongNames,  \* column names over 10 bytes
  WideTexts   \* texts over 254 bytes

ASSUME FormatsAssumption ==
  /\ EpsgCrs \subseteq Crs /\ Wgs84 \in EpsgCrs
  /\ \A c \in DOMAIN LowerOf : LowerOf[c] \notin DOMAIN LowerOf
  /\ "" \notin WideTexts

AliasOf == [gpkg |-> "geopackage", shp |-> "shapefile"]
FormatNames == {"csv", "geojson", "geopackage", "shapefile"}
KnownFormats == FormatNames \cup DOMAIN AliasOf
FormatOf(name) == IF name \in DOMAIN AliasOf THEN AliasOf[name] ELSE name

Lower(c) == IF c \in DOMAIN LowerOf THEN LowerOf[c] ELSE c

(***************************************************************************)
(* JSON.  The text of a number tells an integer from a float.              *)
(***************************************************************************)
JsonOf(v) ==
  IF v.kind \in {"Integer", "Float"} THEN V("Number", IF v.text = "NaN" THEN "0" ELSE v.text) ELSE v
ValueOfJson(j) ==
  CASE j.kind # "Number" -> j
    [] j.kind = "Number" /\ j.text \in IntegerTexts -> V("Integer", j.text)
    [] OTHER -> AsFloat(j.text)

(***************************************************************************)
(* CSV: texts.  The kind of a value is inferred from its text.             *)
(***************************************************************************)
CsvClash(columns) ==
  \/ \E c \in columns : Lower(c) \in {"lon", "lat"}
  \/ \E c, d \in columns : c # d /\ Lower(c) = Lower(d)

\* Mutant: a text is tried as a float first.
Inferred_FloatFirst(t) == IF ParsesAsFloat(t) THEN AsFloat(t) ELSE V("String", t)

Inferred(t) ==
  CASE t \in IntegerTexts -> V("Integer", t)
    [] t \notin IntegerTexts /\ ParsesAsFloat(t) -> AsFloat(t)
    [] OTHER -> V("String", t)

(***************************************************************************)
(* GeoPackage: a column has one type, and SQLite converts what is inserted *)
(* to it.  SQLite stores NaN as NULL.                                      *)
(***************************************************************************)
Reserved == {"fid", "geom"}
Kept(columns) == {c \in columns : Lower(c) \notin Reserved}

ColumnType(fc, c) ==
  LET kinds == KindsIn(fc, c)
  IN  CASE kinds = {} \/ "String" \in kinds -> "TEXT"
        [] "String" \notin kinds /\ "Float" \in kinds -> "REAL"
        [] OTHER -> "INTEGER"

ToSql(v) ==
  CASE v.kind = "Bool" -> V("Integer", IF v.text = "true" THEN "1" ELSE "0")
    [] v.text = "NaN" /\ v.kind = "Float" -> NullValue
    [] OTHER -> v
Affinity(type, v) ==
  CASE type = "TEXT" /\ v.kind \in {"Integer", "Float"} -> V("String", v.text)
    [] type = "REAL" /\ v.kind = "Integer" -> AsFloat(v.text)
    [] OTHER -> v

SrsId(crs) == IF crs \in EpsgCrs THEN crs ELSE Wgs84

(***************************************************************************)
(* Shapefile: one type of shape, and .dbf fields of one type each.         *)
(***************************************************************************)
ShapeKind(g) ==
  CASE Lineal(g) -> "Polyline" [] Polygonal(g) -> "Polygon" [] OTHER -> g.type
ShapeKinds(fc) == {ShapeKind(fc.features[i].geometry) : i \in DOMAIN fc.features}

\* to_multipoint, to_polyline and to_polygon give up on a part without points.
NoShape(g) == g.type # "Point" /\ (g.cells = {} \/ g.form = "short")

FieldKind(fc, c) ==
  CASE KindsIn(fc, c) = {"Bool"} -> "Logical"
    [] KindsIn(fc, c) # {} /\ KindsIn(fc, c) \subseteq {"Integer", "Float"} -> "Numeric"
    [] OTHER -> "Character"

AsText(v) == IF v.kind = "Float" /\ v.text # "NaN" THEN FixedText(Whole(v.text)) ELSE v.text

\* A field of blanks reads as no value, so an empty text is one.
ToField(type, v) ==
  CASE type = "Logical" /\ v.kind = "Bool" -> V("Logical", v.text)
    [] type = "Numeric" /\ v.kind \in {"Integer", "Float"} ->
         V("Numeric", IF v.text = "NaN" THEN v.text ELSE ToString(Whole(v.text)))
    [] type = "Character" /\ AsText(v) # "" -> V("Character", AsText(v))
    [] OTHER -> NullValue

\* Mutant: a logical field reads as the integer 0 or 1.
OfField_LogicalAsInteger(field) ==
  CASE field.kind = "Character" -> V("String", field.text)
    [] field.kind = "Numeric" -> AsFloat(field.text)
    [] field.kind = "Logical" -> V("Integer", IF field.text = "true" THEN "1" ELSE "0")
    [] OTHER -> NullValue

OfField(field) ==
  CASE field.kind = "Character" -> V("String", field.text)
    [] field.kind = "Numeric" -> AsFloat(field.text)
    [] OTHER -> NullValue

\* A record of rings is a polygon, of which the first ring is the outer one and
\* every other a hole; a multipoint has no branch of its own.
OfShape(g) ==
  CASE g.type = "MultiPolygon" -> [type |-> "Polygon", cells |-> FirstRun(g.cells),
                                   form |-> IF OneRun(g.cells) THEN g.form ELSE "holed"]
    [] g.type = "MultiLineString" /\ OneRun(g.cells) -> [g EXCEPT !.type = "LineString"]
    [] g.type = "MultiPoint" -> Geom("Point", {0})
    [] OTHER -> g

(***************************************************************************)
(* The writers and the readers.                                            *)
(***************************************************************************)
Geometries(fc) == {fc.features[i].geometry : i \in DOMAIN fc.features}
Texts(fc, c) == {AsText(ValueAt(fc.features[i], c)) : i \in DOMAIN fc.features}

RefusedBy(format, fc) ==
  CASE format = "csv" -> \/ CsvClash(Columns(fc))
                         \/ \E g \in Geometries(fc) : g.type # "Point"
    [] format = "geojson" -> FALSE
    [] format = "geopackage" ->
         \E c, d \in Kept(Columns(fc)) : c # d /\ Lower(c) = Lower(d)
    [] format = "shapefile" ->
         \/ fc.features = <<>>
         \/ Cardinality(ShapeKinds(fc)) > 1
         \/ "GeometryCollection" \in ShapeKinds(fc)
         \/ Columns(fc) \cap LongNames # {}
         \/ \E c \in Columns(fc) : FieldKind(fc, c) = "Character" /\ Texts(fc, c) \cap WideTexts # {}
         \/ \E g \in Geometries(fc) : NoShape(g)

CellOf(format, fc, c, v) ==
  CASE format = "csv" -> V("Text", v.text)
    [] format = "geojson" -> JsonOf(v)
    [] format = "geopackage" -> Affinity(ColumnType(fc, c), ToSql(v))
    [] format = "shapefile" -> ToField(FieldKind(fc, c), v)

\* Only GeoJSON lets every feature have columns of its own.
CellColumns(format, fc, f) ==
  CASE format = "geojson" -> DOMAIN f.properties
    [] format = "geopackage" -> Kept(Columns(fc))
    [] OTHER -> Columns(fc)

Written(format, fc) ==
  [format |-> format,
   crs |-> IF format = "geopackage" THEN SrsId(fc.crs) ELSE fc.crs,
   rows |-> [i \in DOMAIN fc.features |->
     LET f == fc.features[i]
     IN  Feature(f.geometry,
                 [c \in CellColumns(format, fc, f) |-> CellOf(format, fc, c, ValueAt(f, c))],
                 f.from)]]

ValueOf(format, cell) ==
  CASE format = "csv" -> Inferred(cell.text)
    [] format = "geojson" -> ValueOfJson(cell)
    [] format = "shapefile" -> OfField(cell)
    [] OTHER -> cell

Cased(format, c) == IF format = "csv" THEN Lower(c) ELSE c

ReadFrom(file) ==
  Collection(
    [i \in DOMAIN file.rows |->
      LET row == file.rows[i]
          columns == DOMAIN row.properties
          Header(n) == CHOOSE c \in columns : Cased(file.format, c) = n
      IN  Feature(IF file.format = "shapefile" THEN OfShape(row.geometry) ELSE row.geometry,
                  [n \in {Cased(file.format, c) : c \in columns} |->
                     ValueOf(file.format, row.properties[Header(n)])],
                  row.from)],
    CASE file.format = "geopackage" -> file.crs
      [] file.format = "shapefile" -> NoCrs
      [] OTHER -> Wgs84)
=============================================================================
