------------------------------- MODULE Sinks -------------------------------
(***************************************************************************)
(* The files that sinks write and sources read: MultiFormatWriter and      *)
(* MultiFormatReader over CSV, GeoJSON, GeoPackage and shapefiles.         *)
(*                                                                         *)
(* Writers are the sinks of one wave or of several runs, in one server or  *)
(* in several processes; nothing locks a file for longer than one call or  *)
(* one SQL statement.  A writer may stop between any two of them, because  *)
(* the call failed or the process died.  A row is <<position, writer>>;    *)
(* what a row holds is the business of module Formats.                     *)
(*                                                                         *)
(* A place is what a sink replaces: a CSV or GeoJSON file, the family of   *)
(* files of a shapefile, one layer of a GeoPackage.  Every file has one    *)
(* format, and its buffers go to the disk at once when it is closed.       *)
(***************************************************************************)
EXTENDS Naturals, FiniteSets

CONSTANTS
  Writers,      \* attempts to write, each of them made once
  Readers,      \* attempts to read
  Places,
  FormatOf,     \* place -> its format
  FileOf,       \* place -> the file it is in, shared by the layers of a GeoPackage
  Jobs,         \* what a writer may be given
  Assignments,  \* the functions from writers to jobs to start with
  Targets,      \* what a reader may be given: a place, or any layer of a file
  Crs,          \* the coordinate systems with an EPSG code
  NoCrs,        \* no coordinate system, and no row or file that names one
  DefaultCrs,   \* what a GeoPackage layer gets without one: EPSG:4326
  NoLayer,      \* stands for the columns of a layer without a table
  NoWriter

Formats == {"csv", "geojson", "shapefile", "geopackage"}
Parts == {"data", "shp", "shx", "dbf", "table"}

PartsOf ==
  [csv |-> {"data"}, geojson |-> {"data"},
   shapefile |-> {"shp", "shx", "dbf"}, geopackage |-> {"table"}]

ASSUME SinksAssumption ==
  /\ FormatOf \in [Places -> Formats]
  /\ Places = DOMAIN FileOf
  /\ \A p, q \in Places : FileOf[p] = FileOf[q] => FormatOf[p] = FormatOf[q]
  /\ \A j \in Jobs : /\ j.place \in Places
                     /\ j.rows \in Nat \ {0}
                     /\ j.crs \in Crs \cup {NoCrs}
                     /\ j.fits \in BOOLEAN
                     /\ NoLayer # j.columns
  /\ Assignments \subseteq [Writers -> Jobs]
  /\ Targets \subseteq [place : Places, named : BOOLEAN]
  /\ NoCrs \notin Crs /\ DefaultCrs \in Crs
  /\ NoWriter \notin Writers

VARIABLES
  job,         \* writer -> the sink and the collection it was given
  pc,          \* writer -> the call it makes next, or how it ended
  progress,    \* writer -> the features converted or inserted so far
  rows,        \* place -> part -> the rows in that file or table
  crs,         \* place -> its .prj, or the srs_id in its row of gpkg_contents
  columns,     \* place -> the columns of its table
  known,       \* file -> the codes in its gpkg_spatial_ref_sys
  target,      \* reader -> what it was given
  at,          \* reader -> the call it makes next, or how it ended
  got,         \* reader -> the rows it has read
  gotCrs,      \* reader -> the coordinate system it has read
  overlapped,  \* writers that were under way while another wrote the same place
  unflushed,   \* writers that lost buffered rows when they closed a file
  latest,      \* place -> the last writer to begin
  disturbed    \* readers whose place changed while they were reading

disk == <<rows, crs, columns, known>>
reading == <<target, at, got, gotCrs>>
history == <<overlapped, unflushed, latest, disturbed>>
vars == <<job, pc, progress, disk, reading, history>>

Outcomes == {"idle", "refused", "ok", "stopped"}
Steps == Outcomes \cup
  {"truncate", "write",
   "open shx", "open dbf", "open shp", "convert", "flush shp", "flush shx", "flush dbf", "prj",
   "srs", "drop", "create", "register", "insert"}

(***************************************************************************)
(* The order of the calls in each writer, as the code makes them.          *)
(***************************************************************************)
FirstStep == [csv |-> "truncate", geojson |-> "truncate",
              shapefile |-> "open shx", geopackage |-> "srs"]
OpenStep == [shx |-> "open shx", dbf |-> "open dbf", shp |-> "open shp"]
FlushStep == [shp |-> "flush shp", shx |-> "flush shx", dbf |-> "flush dbf"]
NextStep(s) ==
  CASE s = "open shx" -> "open dbf"    [] s = "open dbf" -> "open shp"
    [] s = "open shp" -> "convert"     [] s = "convert" -> "flush shp"
    [] s = "flush shp" -> "flush shx"  [] s = "flush shx" -> "flush dbf"
    [] s = "srs" -> "drop"             [] s = "drop" -> "create"
    [] s = "create" -> "register"      [] s = "register" -> "insert"

Files == {FileOf[p] : p \in Places}
Place(w) == job[w].place
File(w) == FileOf[Place(w)]
Format(w) == FormatOf[Place(w)]
Active(w) == pc[w] \notin Outcomes
RowsOf(w, n) == (1..n) \X {w}
SrsOf(j) == IF j.crs = NoCrs THEN DefaultCrs ELSE j.crs

ReadSteps == {"begin", "attributes", "select", "crs", "read", "error"}
Reading(r) == at[r] \in {"attributes", "select", "crs"}

Init ==
  /\ job \in Assignments
  /\ pc = [w \in Writers |-> "idle"]
  /\ progress = [w \in Writers |-> 0]
  /\ rows = [p \in Places |-> [part \in Parts |-> {}]]
  /\ crs = [p \in Places |-> NoCrs]
  /\ columns = [p \in Places |-> NoLayer]
  /\ known = [f \in Files |-> {}]
  /\ target \in [Readers -> Targets]
  /\ \A r \in Readers : \E w \in Writers : FileOf[target[r].place] = File(w)
  /\ at = [r \in Readers |-> "begin"]
  /\ got = [r \in Readers |-> {}]
  /\ gotCrs = [r \in Readers |-> NoCrs]
  /\ overlapped = {}
  /\ unflushed = {}
  /\ latest = [p \in Places |-> NoWriter]
  /\ disturbed = {}
(***************************************************************************)
(* A writer begins when its collection is in memory.  Whatever the format  *)
(* cannot hold is found out first, in memory: attribute names that clash   *)
(* or do not fit, geometries of several types.                             *)
(***************************************************************************)
Rivals(w) == {v \in Writers : Active(v) /\ Place(v) = Place(w)}

Begin(w) ==
  /\ pc[w] = "idle"
  /\ job[w].fits
  /\ pc' = [pc EXCEPT ![w] = FirstStep[Format(w)]]
  /\ overlapped' = overlapped \cup
                   (IF Rivals(w) = {} THEN {} ELSE Rivals(w) \cup {w})
  /\ latest' = [latest EXCEPT ![Place(w)] = w]
  /\ UNCHANGED <<job, progress, disk, reading, unflushed, disturbed>>

Refuse(w) ==
  /\ pc[w] = "idle"
  /\ ~job[w].fits
  /\ pc' = [pc EXCEPT ![w] = "refused"]
  /\ UNCHANGED <<job, progress, disk, reading, history>>

\* The call fails before it changes anything, or the process dies there.
Stop(w) ==
  /\ Active(w)
  /\ pc' = [pc EXCEPT ![w] = "stopped"]
  /\ UNCHANGED <<job, progress, disk, reading, history>>

Advance(w) == pc' = [pc EXCEPT ![w] = NextStep(@)]
SetRows(w, part, new) == rows' = [rows EXCEPT ![Place(w)][part] = new]
Disturb(w) ==
  /\ disturbed' = disturbed \cup {r \in Readers : Reading(r) /\ target[r].place = Place(w)}
  /\ UNCHANGED <<job, reading, overlapped, latest>>

(***************************************************************************)
(* CSV and GeoJSON: the text is made in memory and written with fs::write, *)
(* which empties the file and then writes at its start, over whatever      *)
(* another writer has put there meanwhile.                                 *)
(***************************************************************************)
Truncate(w) ==
  /\ pc[w] = "truncate"
  /\ SetRows(w, "data", {})
  /\ pc' = [pc EXCEPT ![w] = "write"]
  /\ Disturb(w)
  /\ UNCHANGED <<progress, crs, columns, known, unflushed>>

Over(new, old, n) == new \cup {x \in old : x[1] > n}

\* Mutant: a short write goes unnoticed.
Write_Unnoticed(w) ==
  /\ pc[w] = "write"
  /\ \E n \in 0..job[w].rows :
       SetRows(w, "data", Over(RowsOf(w, n), rows[Place(w)]["data"], n))
  /\ pc' = [pc EXCEPT ![w] = "ok"]
  /\ Disturb(w)
  /\ UNCHANGED <<progress, crs, columns, known, unflushed>>

Write(w) ==
  /\ pc[w] = "write"
  /\ \E n \in 0..job[w].rows :
       /\ SetRows(w, "data", Over(RowsOf(w, n), rows[Place(w)]["data"], n))
       /\ pc' = [pc EXCEPT ![w] = IF n = job[w].rows THEN "ok" ELSE "stopped"]
  /\ Disturb(w)
  /\ UNCHANGED <<progress, crs, columns, known, unflushed>>

(***************************************************************************)
(* Shapefiles: the three files are emptied first, in this order.  The      *)
(* features are converted one by one; when one cannot be, the writer is    *)
(* dropped with what it has.  Dropping it writes the buffers out, which    *)
(* can fail unnoticed.  A file whose buffer was lost has no header.        *)
(***************************************************************************)
\* Mutant: the file is opened without truncate(true).
OpenPart_KeepsOld(w, part) ==
  /\ pc[w] = OpenStep[part]
  /\ Advance(w)
  /\ Disturb(w)
  /\ UNCHANGED <<progress, rows, crs, columns, known, unflushed>>

OpenPart(w, part) ==
  /\ pc[w] = OpenStep[part]
  /\ SetRows(w, part, {})
  /\ Advance(w)
  /\ Disturb(w)
  /\ UNCHANGED <<progress, crs, columns, known, unflushed>>

Convert(w) ==
  /\ pc[w] = "convert"
  /\ \E n \in 0..job[w].rows : progress' = [progress EXCEPT ![w] = n]
  /\ Advance(w)
  /\ UNCHANGED <<job, disk, reading, history>>

Closed(w) == IF progress[w] < job[w].rows THEN "stopped" ELSE "prj"

Flush(w, part) ==
  /\ pc[w] = FlushStep[part]
  /\ \/ SetRows(w, part, RowsOf(w, progress[w])) /\ UNCHANGED unflushed
     \/ unflushed' = unflushed \cup {w} /\ UNCHANGED rows
  /\ pc' = [pc EXCEPT ![w] = IF part = "dbf" THEN Closed(w) ELSE NextStep(@)]
  /\ Disturb(w)
  /\ UNCHANGED <<progress, crs, columns, known>>

\* Without a code the .prj that may be there stays.
WritePrj(w) ==
  /\ pc[w] = "prj"
  /\ crs' = [crs EXCEPT ![Place(w)] = IF job[w].crs = NoCrs THEN @ ELSE job[w].crs]
  /\ pc' = [pc EXCEPT ![w] = "ok"]
  /\ Disturb(w)
  /\ UNCHANGED <<progress, rows, columns, known, unflushed>>

\* Disk full between creating the .prj and writing it.
EmptyPrj(w) ==
  /\ pc[w] = "prj"
  /\ job[w].crs # NoCrs
  /\ crs' = [crs EXCEPT ![Place(w)] = NoCrs]
  /\ pc' = [pc EXCEPT ![w] = "stopped"]
  /\ Disturb(w)
  /\ UNCHANGED <<progress, rows, columns, known, unflushed>>

(***************************************************************************)
(* GeoPackage: SQL statements, each of which sqlite commits by itself.     *)
(* Two kinds have no step of their own.  The metadata tables are created   *)
(* first, unless they are there, and an empty one tells a reader as little *)
(* as none.  The row in gpkg_geometry_columns names the column "geom",     *)
(* which a reader assumes when there is no such row.                       *)
(***************************************************************************)
InsertSrs(w) ==
  /\ pc[w] = "srs"
  /\ known' = [known EXCEPT ![File(w)] = @ \cup {SrsOf(job[w])}]
  /\ Advance(w)
  /\ Disturb(w)
  /\ UNCHANGED <<progress, rows, crs, columns, unflushed>>

DropLayer(w) ==
  /\ pc[w] = "drop"
  /\ columns' = [columns EXCEPT ![Place(w)] = NoLayer]
  /\ SetRows(w, "table", {})
  /\ Advance(w)
  /\ Disturb(w)
  /\ UNCHANGED <<progress, crs, known, unflushed>>

\* Fails, as Stop, when another writer has just created the table.
CreateLayer(w) ==
  /\ pc[w] = "create"
  /\ columns[Place(w)] = NoLayer
  /\ columns' = [columns EXCEPT ![Place(w)] = job[w].columns]
  /\ Advance(w)
  /\ Disturb(w)
  /\ UNCHANGED <<progress, rows, crs, known, unflushed>>

\* Mutant: INSERT OR IGNORE.
Register_KeepsOld(w) ==
  /\ pc[w] = "register"
  /\ crs' = [crs EXCEPT ![Place(w)] = IF @ = NoCrs THEN SrsOf(job[w]) ELSE @]
  /\ Advance(w)
  /\ Disturb(w)
  /\ UNCHANGED <<progress, rows, columns, known, unflushed>>

Register(w) ==
  /\ pc[w] = "register"
  /\ crs' = [crs EXCEPT ![Place(w)] = SrsOf(job[w])]
  /\ Advance(w)
  /\ Disturb(w)
  /\ UNCHANGED <<progress, rows, columns, known, unflushed>>

\* Mutant: the features are numbered from zero.
InsertFeature_FromZero(w) ==
  /\ pc[w] = "insert"
  /\ progress[w] < job[w].rows
  /\ columns[Place(w)] # NoLayer /\ job[w].columns \subseteq columns[Place(w)]
  /\ progress' = [progress EXCEPT ![w] = @ + 1]
  /\ SetRows(w, "table", rows[Place(w)]["table"] \cup {<<progress[w], w>>})
  /\ Disturb(w)
  /\ UNCHANGED <<pc, crs, columns, known, unflushed>>

\* Fails, as Stop, when another writer replaced the table with other columns.
InsertFeature(w) ==
  /\ pc[w] = "insert"
  /\ progress[w] < job[w].rows
  /\ columns[Place(w)] # NoLayer /\ job[w].columns \subseteq columns[Place(w)]
  /\ progress' = [progress EXCEPT ![w] = @ + 1]
  /\ SetRows(w, "table", rows[Place(w)]["table"] \cup {<<progress'[w], w>>})
  /\ Disturb(w)
  /\ UNCHANGED <<pc, crs, columns, known, unflushed>>

Inserted(w) ==
  /\ pc[w] = "insert"
  /\ progress[w] = job[w].rows
  /\ pc' = [pc EXCEPT ![w] = "ok"]
  /\ UNCHANGED <<job, progress, disk, reading, history>>
(***************************************************************************)
(* Readers.  A small file is read in one call, a shapefile in two: the     *)
(* shapes with their index, then the attributes.  An emptied CSV has no    *)
(* header, an emptied shapefile part none either; a GeoJSON file parses    *)
(* when it is whole.                                                       *)
(***************************************************************************)
Content(r) == rows[target[r].place]

Parses(p) ==
  CASE FormatOf[p] = "csv" -> rows[p]["data"] # {}
    [] FormatOf[p] = "geojson" -> \E w \in Writers : rows[p]["data"] = RowsOf(w, job[w].rows)

Sees(r, seen, next) ==
  /\ got' = [got EXCEPT ![r] = seen]
  /\ at' = [at EXCEPT ![r] = next]
  /\ UNCHANGED <<job, pc, progress, disk, target, gotCrs, history>>

ReadError(r) == Sees(r, {}, "error")

ReadText(r) ==
  /\ at[r] = "begin"
  /\ FormatOf[target[r].place] \in {"csv", "geojson"}
  /\ IF Parses(target[r].place) THEN Sees(r, Content(r)["data"], "read") ELSE ReadError(r)

ReadShapes(r) ==
  /\ at[r] = "begin"
  /\ FormatOf[target[r].place] = "shapefile"
  /\ IF {} \in {Content(r)["shp"], Content(r)["shx"]}
       THEN ReadError(r)
       ELSE Sees(r, {x \in Content(r)["shp"] : \E y \in Content(r)["shx"] : x[1] = y[1]},
                 "attributes")

ReadAttributes(r) ==
  /\ at[r] = "attributes"
  /\ LET dbf == Content(r)["dbf"]
         shapes == {x \in got[r] : \E y \in dbf : x[1] = y[1]}
     IN IF dbf = {} THEN ReadError(r)
        ELSE Sees(r, shapes \cup {y \in dbf : \E x \in got[r] : x[1] = y[1]}, "read")

\* Without a layer name: the first layer that gpkg_contents has.
ResolveLayer(r) ==
  /\ at[r] = "begin"
  /\ FormatOf[target[r].place] = "geopackage"
  /\ \E p \in Places :
       /\ FileOf[p] = FileOf[target[r].place]
       /\ IF target[r].named THEN p = target[r].place ELSE crs[p] # NoCrs
       /\ target' = [target EXCEPT ![r].place = p]
  /\ at' = [at EXCEPT ![r] = "select"]
  /\ UNCHANGED <<job, pc, progress, disk, got, gotCrs, history>>

NoLayerFound(r) ==
  /\ at[r] = "begin"
  /\ FormatOf[target[r].place] = "geopackage" /\ ~target[r].named
  /\ \A p \in Places : FileOf[p] = FileOf[target[r].place] => crs[p] = NoCrs
  /\ ReadError(r)

SelectFeatures(r) ==
  /\ at[r] = "select"
  /\ IF columns[target[r].place] = NoLayer THEN ReadError(r)
     ELSE Sees(r, Content(r)["table"], "crs")

\* Mutant: the coordinate system of whichever layer comes first.
ReadCrs_AnyLayer(r) ==
  /\ at[r] = "crs"
  /\ \E p \in Places :
       /\ FileOf[p] = FileOf[target[r].place] /\ crs[p] # NoCrs
       /\ gotCrs' = [gotCrs EXCEPT ![r] = crs[p]]
  /\ at' = [at EXCEPT ![r] = "read"]
  /\ UNCHANGED <<job, pc, progress, disk, target, got, history>>

\* Looked up after the rows; a code that the file does not know is none.
ReadCrs(r) ==
  LET c == crs[target[r].place] IN
  /\ at[r] = "crs"
  /\ gotCrs' = [gotCrs EXCEPT ![r] = IF c \in known[FileOf[target[r].place]] THEN c ELSE NoCrs]
  /\ at' = [at EXCEPT ![r] = "read"]
  /\ UNCHANGED <<job, pc, progress, disk, target, got, history>>

WriterNext(w) ==
  \/ Begin(w) \/ Refuse(w) \/ Stop(w)
  \/ Truncate(w) \/ Write(w)
  \/ OpenPart(w, "shx") \/ OpenPart(w, "dbf") \/ OpenPart(w, "shp") \/ Convert(w)
  \/ Flush(w, "shp") \/ Flush(w, "shx") \/ Flush(w, "dbf") \/ WritePrj(w) \/ EmptyPrj(w)
  \/ InsertSrs(w) \/ DropLayer(w) \/ CreateLayer(w) \/ Register(w)
  \/ InsertFeature(w) \/ Inserted(w)

ReaderNext(r) ==
  \/ ReadText(r) \/ ReadShapes(r) \/ ReadAttributes(r)
  \/ ResolveLayer(r) \/ NoLayerFound(r) \/ SelectFeatures(r) \/ ReadCrs(r)

Next == (\E w \in Writers : WriterNext(w)) \/ (\E r \in Readers : ReaderNext(r))

Spec == Init /\ [][Next]_vars

-----------------------------------------------------------------------------

Row == (Nat \ {0}) \X Writers

TypeOK ==
  /\ job \in Assignments
  /\ pc \in [Writers -> Steps]
  /\ progress \in [Writers -> Nat]
  /\ rows \in [Places -> [Parts -> SUBSET Row]]
  /\ crs \in [Places -> Crs \cup {NoCrs}]
  /\ columns \in [Places -> {j.columns : j \in Jobs} \cup {NoLayer}]
  /\ known \in [Files -> SUBSET Crs]
  /\ target \in [Readers -> [place : Places, named : BOOLEAN]]
  /\ at \in [Readers -> ReadSteps]
  /\ got \in [Readers -> SUBSET Row]
  /\ gotCrs \in [Readers -> Crs \cup {NoCrs}]
  /\ overlapped \subseteq Writers
  /\ unflushed \subseteq Writers
  /\ latest \in [Places -> Writers \cup {NoWriter}]
  /\ disturbed \subseteq Readers

\* Places that no two writers have ever worked on at the same time.
Calm(p) == \A w \in overlapped : Place(w) # p

(***************************************************************************)
(* A writer that reports success has left exactly its rows, in every part, *)
(* and its coordinate system, whatever earlier writers left half done or   *)
(* wrote into each other, as long as none was under way beside it or came  *)
(* after it.  A shapefile keeps the .prj it finds when there is no code,   *)
(* and does not notice what is lost when its files are closed.             *)
(***************************************************************************)
Delivered ==
  \A w \in Writers :
    (pc[w] = "ok" /\ w \notin overlapped /\ latest[Place(w)] = w) =>
      /\ w \notin unflushed =>
           \A part \in PartsOf[Format(w)] : rows[Place(w)][part] = RowsOf(w, job[w].rows)
      /\ Format(w) = "geopackage" => crs[Place(w)] = SrsOf(job[w])
      /\ Format(w) = "shapefile" /\ job[w].crs # NoCrs => crs[Place(w)] = job[w].crs

(***************************************************************************)
(* Whatever has failed or died where: a place holds rows of one writer     *)
(* only, in all its parts together.  A half-written output is a piece of   *)
(* one run, never the old beside the new, unless two writers overlapped.   *)
(***************************************************************************)
OneWriter ==
  \A p \in Places : Calm(p) =>
    \A part1, part2 \in Parts :
      \A x \in rows[p][part1], y \in rows[p][part2] : x[2] = y[2]

(***************************************************************************)
(* At every moment the coordinate system a GeoPackage layer is registered  *)
(* with, if it has any rows, is that of the rows, and the file defines it: *)
(* a crash cannot leave data that a reader puts in the wrong place.        *)
(***************************************************************************)
CrsOfRows ==
  \A p \in Places : (FormatOf[p] = "geopackage" /\ Calm(p)) =>
    \A x \in rows[p]["table"] :
      crs[p] = SrsOf(job[x[2]]) /\ crs[p] \in known[FileOf[p]]

(***************************************************************************)
(* What a reader gets without an error is one writer's rows from the first *)
(* on without a gap, and in their coordinate system if nobody changed the  *)
(* place while it was reading.  The two files of a shapefile agree under   *)
(* the same condition.                                                     *)
(***************************************************************************)
ReadsOneWriter ==
  \A r \in Readers :
    LET p == target[r].place IN
    (at[r] = "read" /\ Calm(p) /\ got[r] # {}) =>
      \/ \E w \in Writers : /\ \E n \in 1..job[w].rows : got[r] = RowsOf(w, n)
                            /\ FormatOf[p] = "geopackage" =>
                                 gotCrs[r] = SrsOf(job[w]) \/ r \in disturbed
      \/ FormatOf[p] = "shapefile" /\ r \in disturbed
=============================================================================
