---------------------------- MODULE SinksProofs ----------------------------
(***************************************************************************)
(* Theorems about Sinks, for any number of writers, readers, places and    *)
(* rows: the types, and what is on the disk whatever fails or dies where.  *)
(* The argument is about a writer that nobody overlaps (Sole): what its    *)
(* place holds follows from where it is in its sequence of calls.          *)
(***************************************************************************)
EXTENDS Sinks, TLAPS

Early == {"idle", "refused", "truncate", "write", "open shx", "open dbf", "open shp", "convert",
          "srs", "drop", "create", "register"}
StepsOf ==
  [csv |-> {"truncate", "write"}, geojson |-> {"truncate", "write"},
   shapefile |-> {"open shx", "open dbf", "open shp", "convert",
                  "flush shp", "flush shx", "flush dbf", "prj"},
   geopackage |-> {"srs", "drop", "create", "register", "insert"}]

\* A writer makes the calls of its format, and has made progress only late in them.
ISteps ==
  \A w \in Writers :
    /\ Active(w) => pc[w] \in StepsOf[Format(w)]
    /\ pc[w] \in Early => progress[w] = 0
    /\ progress[w] <= job[w].rows

\* A place has no rows in the parts of another format.
IParts == \A p \in Places : \A part \in Parts \ PartsOf[FormatOf[p]] : rows[p][part] = {}

\* Whoever is under way was the last to begin, or was overlapped together with the last.
IAlone ==
  \A w \in Writers : Active(w) =>
    \/ latest[Place(w)] = w
    \/ w \in overlapped /\ latest[Place(w)] \in overlapped

Sole(w) == latest[Place(w)] = w /\ w \notin overlapped

\* The part holds what the writer has converted, or was lost.
Holds(w, part) ==
  \/ rows[Place(w)][part] = RowsOf(w, progress[w])
  \/ rows[Place(w)][part] = {} /\ w \in unflushed

FreshText(w) == pc[w] = "write" => rows[Place(w)]["data"] = {}

FreshShapes(w) ==
  /\ pc[w] \in {"open dbf", "open shp", "convert", "flush shp", "flush shx"} =>
       rows[Place(w)]["shx"] = {}
  /\ pc[w] \in {"open shp", "convert", "flush shp", "flush shx", "flush dbf"} =>
       rows[Place(w)]["dbf"] = {}
  /\ pc[w] \in {"convert", "flush shp"} => rows[Place(w)]["shp"] = {}
  /\ pc[w] \in {"flush shx", "flush dbf", "prj"} => Holds(w, "shp")
  /\ pc[w] \in {"flush dbf", "prj"} => Holds(w, "shx")
  /\ pc[w] = "prj" => Holds(w, "dbf") /\ progress[w] = job[w].rows

FreshLayer(w) ==
  /\ pc[w] \in {"create", "register"} => rows[Place(w)]["table"] = {}
  /\ pc[w] = "insert" => /\ rows[Place(w)]["table"] = RowsOf(w, progress[w])
                         /\ crs[Place(w)] = SrsOf(job[w])
  /\ pc[w] \in {"drop", "create", "register", "insert"} => SrsOf(job[w]) \in known[File(w)]

Left(w) ==
  /\ w \notin unflushed =>
       \A part \in PartsOf[Format(w)] : rows[Place(w)][part] = RowsOf(w, job[w].rows)
  /\ Format(w) = "geopackage" => crs[Place(w)] = SrsOf(job[w])
  /\ Format(w) = "shapefile" /\ job[w].crs # NoCrs => crs[Place(w)] = job[w].crs

Fresh(w) ==
  FreshText(w) /\ FreshShapes(w) /\ FreshLayer(w) /\ (pc[w] = "ok" => Left(w))

ISole == \A w \in Writers : Sole(w) => Fresh(w)

OneAt(p) ==
  \A part1, part2 \in Parts : \A x \in rows[p][part1], y \in rows[p][part2] : x[2] = y[2]
CrsAt(p) ==
  FormatOf[p] = "geopackage" =>
    \A x \in rows[p]["table"] : crs[p] = SrsOf(job[x[2]]) /\ crs[p] \in known[FileOf[p]]

ICalm == \A p \in Places : Calm(p) => OneAt(p) /\ CrsAt(p)

IInv == TypeOK /\ ISteps /\ IParts /\ IAlone /\ ISole /\ ICalm
-----------------------------------------------------------------------------

LEMMA JobFacts ==
  ASSUME job \in Assignments, NEW w \in Writers
  PROVE  /\ job[w] \in Jobs
         /\ Place(w) \in Places /\ Format(w) \in Formats /\ File(w) \in Files
         /\ job[w].rows \in Nat \ {0}
         /\ SrsOf(job[w]) \in Crs /\ job[w].crs \in Crs \cup {NoCrs}
         /\ job[w].columns \in {j.columns : j \in Jobs}
         /\ job[w].columns # NoLayer
<1>1. job[w] \in Jobs
  BY SinksAssumption
<1>2. Place(w) \in Places
  BY <1>1, SinksAssumption DEF Place
<1> QED
  BY <1>1, <1>2, SinksAssumption DEF Place, Format, File, Files, SrsOf

LEMMA NextSteps ==
  /\ NextStep("open shx") = "open dbf" /\ NextStep("open dbf") = "open shp"
  /\ NextStep("open shp") = "convert" /\ NextStep("convert") = "flush shp"
  /\ NextStep("flush shp") = "flush shx" /\ NextStep("flush shx") = "flush dbf"
  /\ NextStep("srs") = "drop" /\ NextStep("drop") = "create"
  /\ NextStep("create") = "register" /\ NextStep("register") = "insert"
BY DEF NextStep

LEMMA PartSteps ==
  ASSUME NEW part \in {"shx", "dbf", "shp"}
  PROVE  /\ NextStep(OpenStep[part]) \in {"open dbf", "open shp", "convert"}
         /\ part # "dbf" => NextStep(FlushStep[part]) \in {"flush shx", "flush dbf"}
<1>1. CASE part = "shx"
  BY <1>1, NextSteps DEF OpenStep, FlushStep
<1>2. CASE part = "dbf"
  BY <1>2, NextSteps DEF OpenStep, FlushStep
<1>3. CASE part = "shp"
  BY <1>3, NextSteps DEF OpenStep, FlushStep
<1> QED
  BY <1>1, <1>2, <1>3

LEMMA PartStepNames ==
  ASSUME NEW part \in {"shx", "dbf", "shp"}
  PROVE  /\ OpenStep[part] \in {"open shx", "open dbf", "open shp"}
         /\ FlushStep[part] \in {"flush shx", "flush dbf", "flush shp"}
<1>1. CASE part = "shx"
  BY <1>1 DEF OpenStep, FlushStep
<1>2. CASE part = "dbf"
  BY <1>2 DEF OpenStep, FlushStep
<1>3. CASE part = "shp"
  BY <1>3 DEF OpenStep, FlushStep
<1> QED
  BY <1>1, <1>2, <1>3

LEMMA RowsType ==
  ASSUME NEW w \in Writers, NEW n \in Nat
  PROVE  RowsOf(w, n) \in SUBSET Row
BY DEF RowsOf, Row

LEMMA RowsAt ==
  ASSUME TypeOK, NEW p \in Places, NEW part \in Parts
  PROVE  rows[p][part] \in SUBSET Row
<1>1. rows \in [Places -> [Parts -> SUBSET Row]]
  BY DEF TypeOK
<1> QED
  BY <1>1

LEMMA ProgressType ==
  ASSUME TypeOK
  PROVE  progress \in [Writers -> Nat]
BY DEF TypeOK

LEMMA FirstSteps ==
  ASSUME NEW f \in Formats
  PROVE  /\ FirstStep[f] \in {"truncate", "open shx", "srs"}
         /\ FirstStep[f] \in StepsOf[f]
<1>1. CASE f = "csv"
  BY <1>1 DEF FirstStep, StepsOf
<1>2. CASE f = "geojson"
  BY <1>2 DEF FirstStep, StepsOf
<1>3. CASE f = "shapefile"
  BY <1>3 DEF FirstStep, StepsOf
<1>4. CASE f = "geopackage"
  BY <1>4 DEF FirstStep, StepsOf
<1> QED
  BY <1>1, <1>2, <1>3, <1>4 DEF Formats

LEMMA RowsTypeKept ==
  ASSUME rows \in [Places -> [Parts -> SUBSET Row]],
         NEW p \in Places, NEW part \in Parts, NEW new \in SUBSET Row
  PROVE  [rows EXCEPT ![p][part] = new] \in [Places -> [Parts -> SUBSET Row]]
OBVIOUS

LEMMA TypeInit ==
  ASSUME Init
  PROVE  TypeOK
BY SinksAssumption DEF Init, TypeOK, Steps, Outcomes, ReadSteps

LEMMA WriterType ==
  ASSUME TypeOK, NEW w \in Writers, WriterNext(w)
  PROVE  TypeOK'
<1> USE DEF Steps, Outcomes
<1>0. /\ Place(w) \in Places /\ Format(w) \in Formats /\ File(w) \in Files
      /\ job[w].rows \in Nat \ {0} /\ SrsOf(job[w]) \in Crs /\ job[w].crs \in Crs \cup {NoCrs}
      /\ job[w].columns \in {j.columns : j \in Jobs}
  BY JobFacts DEF TypeOK
<1>1. CASE Begin(w)
  <2>1. FirstStep[Format(w)] \in Steps
    BY <1>0, FirstSteps
  <2>2. overlapped' \subseteq Writers /\ latest' \in [Places -> Writers \cup {NoWriter}]
    BY <1>0, <1>1 DEF Begin, TypeOK, Rivals
  <2>3. pc' \in [Writers -> Steps]
    BY <1>1, <2>1 DEF Begin, TypeOK
  <2> QED
    BY <1>1, <2>2, <2>3 DEF Begin, TypeOK, disk, reading
<1>2. CASE Refuse(w) \/ Stop(w)
  BY <1>2 DEF Refuse, Stop, TypeOK, disk, reading, history
<1>3. CASE Truncate(w)
  BY <1>0, <1>3, RowsTypeKept DEF Truncate, SetRows, Disturb, TypeOK, reading, Parts
<1>4. CASE Write(w)
  <2>1. PICK n \in 0..job[w].rows :
          /\ SetRows(w, "data", Over(RowsOf(w, n), rows[Place(w)]["data"], n))
          /\ pc' = [pc EXCEPT ![w] = IF n = job[w].rows THEN "ok" ELSE "stopped"]
    BY <1>4 DEF Write
  <2>2. Over(RowsOf(w, n), rows[Place(w)]["data"], n) \in SUBSET Row
    <3>1. RowsOf(w, n) \in SUBSET Row
      BY <1>0, RowsType
    <3>2. rows[Place(w)]["data"] \in SUBSET Row
      BY <1>0, RowsAt DEF Parts
    <3> QED
      BY <3>1, <3>2 DEF Over
  <2>3. rows' \in [Places -> [Parts -> SUBSET Row]]
    BY <1>0, <2>1, <2>2, RowsTypeKept DEF SetRows, TypeOK, Parts
  <2> QED
    BY <1>4, <2>1, <2>3 DEF Write, Disturb, TypeOK, reading
<1>5. ASSUME NEW part \in {"shx", "dbf", "shp"}, OpenPart(w, part) PROVE TypeOK'
  <2>1. rows' \in [Places -> [Parts -> SUBSET Row]]
    BY <1>0, <1>5, RowsTypeKept DEF OpenPart, SetRows, TypeOK, Parts
  <2>2. pc' \in [Writers -> Steps]
    BY <1>5, PartSteps DEF OpenPart, Advance, TypeOK
  <2> QED
    BY <1>5, <2>1, <2>2 DEF OpenPart, Disturb, TypeOK, reading
<1>6. CASE Convert(w)
  <2>1. progress' \in [Writers -> Nat]
    <3>1. PICK n \in 0..job[w].rows : progress' = [progress EXCEPT ![w] = n]
      BY <1>6 DEF Convert
    <3>2. n \in Nat
      BY <1>0
    <3> QED
      BY <3>1, <3>2, ProgressType
  <2>2. pc' \in [Writers -> Steps]
    BY <1>6, NextSteps DEF Convert, Advance, TypeOK
  <2> QED
    BY <1>6, <2>1, <2>2 DEF Convert, TypeOK, disk, reading, history
<1>7. ASSUME NEW part \in {"shp", "shx", "dbf"}, Flush(w, part) PROVE TypeOK'
  <2>1. RowsOf(w, progress[w]) \in SUBSET Row
    BY RowsType DEF TypeOK
  <2>2. rows' \in [Places -> [Parts -> SUBSET Row]] /\ unflushed' \subseteq Writers
    <3>1. CASE SetRows(w, part, RowsOf(w, progress[w])) /\ UNCHANGED unflushed
      BY <1>0, <2>1, <3>1, RowsTypeKept DEF SetRows, TypeOK, Parts
    <3>2. CASE unflushed' = unflushed \cup {w} /\ UNCHANGED rows
      BY <3>2 DEF TypeOK
    <3> QED
      BY <1>7, <3>1, <3>2 DEF Flush
  <2>3. pc' \in [Writers -> Steps]
    <3>1. Closed(w) \in Steps
      BY DEF Closed
    <3>2. CASE part = "dbf"
      BY <1>7, <3>1, <3>2 DEF Flush, TypeOK
    <3>3. CASE part # "dbf"
      BY <1>7, <3>3, PartSteps DEF Flush, TypeOK
    <3> QED
      BY <3>2, <3>3
  <2> QED
    BY <1>7, <2>2, <2>3 DEF Flush, Disturb, TypeOK, reading
<1>8. CASE WritePrj(w) \/ EmptyPrj(w)
  BY <1>0, <1>8 DEF WritePrj, EmptyPrj, Disturb, TypeOK, reading
<1>9. CASE InsertSrs(w)
  BY <1>0, <1>9, NextSteps DEF InsertSrs, Advance, Disturb, TypeOK, reading
<1>10. CASE DropLayer(w)
  <2>1. rows' \in [Places -> [Parts -> SUBSET Row]]
    BY <1>0, <1>10, RowsTypeKept DEF DropLayer, SetRows, TypeOK, Parts
  <2> QED
    BY <1>0, <1>10, <2>1, NextSteps DEF DropLayer, Advance, Disturb, TypeOK, reading
<1>11. CASE CreateLayer(w)
  BY <1>0, <1>11, NextSteps DEF CreateLayer, Advance, Disturb, TypeOK, reading
<1>12. CASE Register(w)
  BY <1>0, <1>12, NextSteps DEF Register, Advance, Disturb, TypeOK, reading
<1>13. CASE InsertFeature(w)
  <2>1. progress' \in [Writers -> Nat] /\ progress'[w] \in Nat \ {0}
    <3>1. progress[w] + 1 \in Nat \ {0}
      BY ProgressType
    <3>2. progress' = [progress EXCEPT ![w] = progress[w] + 1]
      BY <1>13 DEF InsertFeature
    <3> QED
      BY <3>1, <3>2, ProgressType
  <2>2. rows[Place(w)]["table"] \cup {<<progress'[w], w>>} \in SUBSET Row
    <3>1. rows[Place(w)]["table"] \in SUBSET Row
      BY <1>0, RowsAt DEF Parts
    <3>2. <<progress'[w], w>> \in Row
      BY <2>1 DEF Row
    <3> QED
      BY <3>1, <3>2
  <2>3. rows' \in [Places -> [Parts -> SUBSET Row]]
    BY <1>0, <1>13, <2>2, RowsTypeKept DEF InsertFeature, SetRows, TypeOK, Parts
  <2> QED
    BY <1>13, <2>1, <2>3 DEF InsertFeature, Disturb, TypeOK, reading
<1>14. CASE Inserted(w)
  BY <1>14 DEF Inserted, TypeOK, disk, reading, history
<1> QED
  BY <1>1, <1>2, <1>3, <1>4, <1>5, <1>6, <1>7, <1>8, <1>9, <1>10, <1>11, <1>12, <1>13, <1>14
  DEF WriterNext

LEMMA ReaderType ==
  ASSUME TypeOK, NEW r \in Readers, ReaderNext(r)
  PROVE  TypeOK'
<1> USE DEF ReadSteps
<1>0. target[r].place \in Places /\ FormatOf[target[r].place] \in Formats
  BY SinksAssumption DEF TypeOK
<1>1. \A part \in Parts : Content(r)[part] \in SUBSET Row
  BY <1>0 DEF Content, TypeOK
<1>2. ASSUME NEW seen \in SUBSET Row, NEW next \in ReadSteps, Sees(r, seen, next) PROVE TypeOK'
  BY <1>2 DEF Sees, TypeOK, disk, history
<1>3. ASSUME ReadError(r) PROVE TypeOK'
  BY <1>2, <1>3 DEF ReadError
<1>4. CASE ReadText(r)
  BY <1>1, <1>2, <1>3, <1>4 DEF ReadText, Parts
<1>5. CASE ReadShapes(r)
  BY <1>1, <1>2, <1>3, <1>5 DEF ReadShapes, Parts
<1>6. CASE ReadAttributes(r)
  <2>1. got[r] \in SUBSET Row /\ Content(r)["dbf"] \in SUBSET Row
    BY <1>1 DEF Parts, TypeOK
  <2> QED
    BY <1>2, <1>3, <1>6, <2>1 DEF ReadAttributes
<1>7. CASE ResolveLayer(r)
  <2>1. PICK p \in Places : target' = [target EXCEPT ![r].place = p]
    BY <1>7 DEF ResolveLayer
  <2>2. target' \in [Readers -> [place : Places, named : BOOLEAN]]
    BY <2>1 DEF TypeOK
  <2> QED
    BY <1>7, <2>2 DEF ResolveLayer, TypeOK, disk, history
<1>8. CASE NoLayerFound(r)
  BY <1>3, <1>8 DEF NoLayerFound
<1>9. CASE SelectFeatures(r)
  BY <1>1, <1>2, <1>3, <1>9 DEF SelectFeatures, Parts
<1>10. CASE ReadCrs(r)
  BY <1>0, <1>10 DEF ReadCrs, TypeOK, disk, history
<1> QED
  BY <1>4, <1>5, <1>6, <1>7, <1>8, <1>9, <1>10 DEF ReaderNext

LEMMA TypeNext ==
  ASSUME TypeOK, [Next]_vars
  PROVE  TypeOK'
<1>1. CASE UNCHANGED vars
  BY <1>1 DEF vars, disk, reading, history, TypeOK
<1> QED
  BY <1>1, WriterType, ReaderType DEF Next

\* The types of the variables hold in every reachable state.
THEOREM TypeCorrect == Spec => []TypeOK
<1>1. Init => TypeOK
  BY TypeInit
<1>2. TypeOK /\ [Next]_vars => TypeOK'
  BY TypeNext
<1> QED
  BY <1>1, <1>2, PTL DEF Spec
-----------------------------------------------------------------------------

\* What every call of a writer leaves alone.
Local(w) ==
  /\ job' = job /\ overlapped' = overlapped /\ latest' = latest
  /\ \A v \in Writers : v # w =>
       pc'[v] = pc[v] /\ progress'[v] = progress[v] /\ (v \in unflushed' <=> v \in unflushed)
  /\ \A p \in Places : p # Place(w) => rows'[p] = rows[p] /\ crs'[p] = crs[p]
  /\ \A f \in Files : known[f] \subseteq known'[f]

\* What a call has to establish about the writer that makes it.
Own(w) ==
  /\ pc'[w] \in StepsOf[Format(w)] \cup {"ok", "stopped"}
  /\ pc'[w] \in Early => progress'[w] = 0
  /\ progress'[w] <= job[w].rows
  /\ \A part \in Parts \ PartsOf[Format(w)] : rows'[Place(w)][part] = {}
  /\ Sole(w) => Fresh(w)'
  /\ Calm(Place(w)) => OneAt(Place(w))' /\ CrsAt(Place(w))'

\* A writer under way that nobody overlapped is alone at its place.
LEMMA AloneAtPlace ==
  ASSUME IAlone, NEW v \in Writers, NEW w \in Writers, Active(w), Sole(v), v # w
  PROVE  Place(v) # Place(w)
BY DEF IAlone, Sole

LEMMA CalmIsSole ==
  ASSUME IAlone, NEW w \in Writers, Active(w), Calm(Place(w))
  PROVE  Sole(w)
BY DEF IAlone, Sole, Calm

LEMMA FreshKept ==
  ASSUME NEW v \in Writers, Fresh(v),
         pc'[v] = pc[v], UNCHANGED <<job, progress, disk, unflushed>>
  PROVE  Fresh(v)'
<1>1. UNCHANGED <<rows, crs, known>>
  BY DEF disk
<1>2. Place(v)' = Place(v) /\ Format(v)' = Format(v) /\ File(v)' = File(v)
  BY DEF Place, Format, File
<1>3. FreshText(v)' /\ FreshShapes(v)'
  BY <1>1, <1>2 DEF Fresh, FreshText, FreshShapes, Holds
<1>4. FreshLayer(v)' /\ (pc'[v] = "ok" => Left(v)')
  BY <1>1, <1>2 DEF Fresh, FreshLayer, Left
<1> QED
  BY <1>3, <1>4 DEF Fresh

LEMMA PlaceKept ==
  ASSUME NEW p \in Places, OneAt(p), CrsAt(p), UNCHANGED <<job, disk>>
  PROVE  OneAt(p)' /\ CrsAt(p)'
BY DEF OneAt, CrsAt, disk

LEMMA OthersKept ==
  ASSUME TypeOK, IAlone, ISole, NEW w \in Writers, Active(w), Local(w),
         NEW v \in Writers, v # w, Sole(v)
  PROVE  Fresh(v)'
<1>1. Place(v) # Place(w) /\ Place(v) \in Places /\ File(v) \in Files
  BY AloneAtPlace, JobFacts DEF TypeOK
<1>2. /\ pc'[v] = pc[v] /\ progress'[v] = progress[v] /\ (v \in unflushed' <=> v \in unflushed)
      /\ job' = job /\ rows'[Place(v)] = rows[Place(v)] /\ crs'[Place(v)] = crs[Place(v)]
      /\ known[File(v)] \subseteq known'[File(v)]
  BY <1>1 DEF Local
<1>3. Place(v)' = Place(v) /\ Format(v)' = Format(v) /\ File(v)' = File(v)
  BY <1>2 DEF Place, Format, File
<1>4. Fresh(v)
  BY DEF ISole
<1>5. FreshText(v)' /\ FreshShapes(v)'
  BY <1>2, <1>3, <1>4 DEF Fresh, FreshText, FreshShapes, Holds
<1>6. FreshLayer(v)'
  BY <1>2, <1>3, <1>4 DEF Fresh, FreshLayer
<1>7. pc'[v] = "ok" => Left(v)'
  BY <1>2, <1>3, <1>4 DEF Fresh, Left
<1> QED
  BY <1>5, <1>6, <1>7 DEF Fresh

LEMMA OtherPlacesKept ==
  ASSUME TypeOK, ICalm, NEW w \in Writers, Local(w),
         NEW p \in Places, p # Place(w), Calm(p)
  PROVE  OneAt(p)' /\ CrsAt(p)'
<1>1. /\ rows'[p] = rows[p] /\ crs'[p] = crs[p] /\ job' = job
      /\ known[FileOf[p]] \subseteq known'[FileOf[p]]
  BY DEF Local, Files
<1>2. OneAt(p) /\ CrsAt(p)
  BY DEF ICalm
<1> QED
  BY <1>1, <1>2 DEF OneAt, CrsAt

LEMMA Assemble ==
  ASSUME IInv, NEW w \in Writers, Active(w), Local(w), Own(w), TypeOK'
  PROVE  IInv'
<1>0. /\ job' = job /\ overlapped' = overlapped /\ latest' = latest
      /\ \A v \in Writers : Place(v)' = Place(v) /\ Format(v)' = Format(v) /\ Sole(v)' = Sole(v)
      /\ \A p \in Places : Calm(p)' = Calm(p)
  BY DEF Local, Place, Format, Sole, Calm
<1>1. ISteps'
  <2> SUFFICES ASSUME NEW v \in Writers
               PROVE  /\ Active(v)' => pc'[v] \in StepsOf[Format(v)]
                      /\ pc'[v] \in Early => progress'[v] = 0
                      /\ progress'[v] <= job[v].rows
    BY <1>0 DEF ISteps
  <2>1. CASE v = w
    BY <2>1 DEF Own, Active, Outcomes
  <2>2. CASE v # w
    BY <2>2 DEF IInv, ISteps, Local, Active
  <2> QED
    BY <2>1, <2>2
<1>2. IParts'
  BY DEF IInv, IParts, Own, Local, Format
<1>3. IAlone'
  BY <1>0 DEF IInv, IAlone, Local, Active
<1>4. ISole'
  BY <1>0, OthersKept DEF IInv, ISole, Own
<1>5. ICalm'
  BY <1>0, OtherPlacesKept, CalmIsSole DEF IInv, ICalm, Own
<1> QED
  BY <1>1, <1>2, <1>3, <1>4, <1>5 DEF IInv

LEMMA BeginKeeps ==
  ASSUME IInv, NEW w \in Writers, Begin(w), TypeOK'
  PROVE  IInv'
<1>0. /\ Place(w) \in Places /\ Format(w) \in Formats
      /\ pc'[w] \in {"truncate", "open shx", "srs"} /\ pc'[w] \in StepsOf[Format(w)]
      /\ \A v \in Writers : v # w => pc'[v] = pc[v]
      /\ pc[w] = "idle" /\ UNCHANGED <<job, progress, disk, unflushed>>
      /\ latest' = [latest EXCEPT ![Place(w)] = w]
  BY JobFacts, FirstSteps DEF Begin, IInv, TypeOK
<1>00. latest \in [Places -> Writers \cup {NoWriter}]
  BY DEF IInv, TypeOK
<1>1. \A v \in Writers : Place(v)' = Place(v) /\ Format(v)' = Format(v) /\ Place(v) \in Places
  BY <1>0, JobFacts DEF Place, Format, IInv, TypeOK
<1>2. /\ overlapped \subseteq overlapped'
      /\ \A v \in Writers : (v # w /\ Active(v) /\ Place(v) = Place(w)) =>
           v \in overlapped' /\ w \in overlapped'
  BY DEF Begin, Rivals
<1>3. ISteps'
  BY <1>0, <1>1 DEF IInv, ISteps, Active, Early
<1>4. IParts'
  BY <1>0 DEF IInv, IParts, disk
<1>5. IAlone'
  <2> SUFFICES ASSUME NEW v \in Writers, Active(v)'
               PROVE  \/ latest'[Place(v)] = v
                      \/ v \in overlapped' /\ latest'[Place(v)] \in overlapped'
    BY <1>1 DEF IAlone
  <2>1. CASE v = w
    BY <1>0, <1>00, <2>1
  <2>2. CASE v # w /\ Place(v) = Place(w)
    BY <1>0, <1>00, <1>2, <2>2 DEF Active
  <2>3. CASE v # w /\ Place(v) # Place(w)
    BY <1>0, <1>00, <1>1, <1>2, <2>3 DEF IInv, IAlone, Active
  <2> QED
    BY <2>1, <2>2, <2>3
<1>6. ISole'
  <2> SUFFICES ASSUME NEW v \in Writers, Sole(v)'
               PROVE  Fresh(v)'
    BY DEF ISole
  <2>1. CASE v = w
    BY <1>0, <2>1 DEF Fresh, FreshText, FreshShapes, FreshLayer
  <2>2. CASE v # w
    <3>1. Place(v) # Place(w)
      BY <1>0, <1>00, <1>1, <2>2 DEF Sole
    <3>2. Sole(v)
      BY <1>0, <1>00, <1>1, <1>2, <3>1 DEF Sole
    <3>3. Fresh(v)
      BY <3>2 DEF IInv, ISole
    <3> QED
      BY <1>0, <2>2, <3>3, FreshKept
  <2> QED
    BY <2>1, <2>2
<1>7. ICalm'
  <2>1. \A p \in Places : Calm(p)' => Calm(p)
    BY <1>1, <1>2 DEF Calm, IInv, TypeOK
  <2> QED
    BY <1>0, <2>1, PlaceKept DEF IInv, ICalm
<1> QED
  BY <1>3, <1>4, <1>5, <1>6, <1>7 DEF IInv

LEMMA EndKeeps ==
  ASSUME IInv, NEW w \in Writers, Refuse(w) \/ Stop(w), TypeOK'
  PROVE  IInv'
<1>0. /\ UNCHANGED <<job, progress, disk, history>>
      /\ pc' = [pc EXCEPT ![w] = pc'[w]] /\ pc'[w] \in {"refused", "stopped"}
      /\ pc'[w] = "refused" => pc[w] = "idle"
  BY DEF Refuse, Stop, IInv, TypeOK
<1>1. \A v \in Writers : v # w => pc'[v] = pc[v]
  BY <1>0 DEF IInv, TypeOK
<1>2. ISteps'
  BY <1>0, <1>1 DEF IInv, ISteps, Active, Outcomes, Early, Format, Place
<1>3. IParts' /\ ICalm'
  BY <1>0 DEF IInv, IParts, ICalm, OneAt, CrsAt, Calm, Place, disk, history
<1>4. IAlone'
  BY <1>0, <1>1 DEF IInv, IAlone, Active, Outcomes, Place, history
<1>5. ISole'
  <2> SUFFICES ASSUME NEW v \in Writers, Sole(v)'
               PROVE  Fresh(v)'
    BY DEF ISole
  <2>1. Fresh(v)
    BY <1>0 DEF IInv, ISole, Sole, Place, history
  <2>2. CASE v = w
    BY <1>0, <2>2 DEF Fresh, FreshText, FreshShapes, FreshLayer
  <2>3. CASE v # w
    BY <1>0, <1>1, <2>1, <2>3, FreshKept DEF history
  <2> QED
    BY <2>2, <2>3
<1> QED
  BY <1>2, <1>3, <1>4, <1>5 DEF IInv
-----------------------------------------------------------------------------

LEMMA StepSets ==
  /\ StepsOf["csv"] = {"truncate", "write"} /\ StepsOf["geojson"] = {"truncate", "write"}
  /\ StepsOf["shapefile"] = {"open shx", "open dbf", "open shp", "convert",
                            "flush shp", "flush shx", "flush dbf", "prj"}
  /\ StepsOf["geopackage"] = {"srs", "drop", "create", "register", "insert"}
BY DEF StepsOf

\* The format that a call belongs to.
LEMMA FormatOfStep ==
  ASSUME TypeOK, ISteps, NEW w \in Writers, Active(w)
  PROVE  /\ pc[w] \in {"truncate", "write"} => Format(w) \in {"csv", "geojson"}
         /\ pc[w] \in StepsOf["shapefile"] => Format(w) = "shapefile"
         /\ pc[w] \in StepsOf["geopackage"] => Format(w) = "geopackage"
         /\ Format(w) \in Formats
<1>1. Format(w) \in Formats /\ pc[w] \in StepsOf[Format(w)]
  BY JobFacts DEF ISteps, TypeOK
<1>2. CASE Format(w) \in {"csv", "geojson"}
  BY <1>1, <1>2, StepSets
<1>3. CASE Format(w) = "shapefile"
  BY <1>1, <1>3, StepSets
<1>4. CASE Format(w) = "geopackage"
  BY <1>1, <1>4, StepSets
<1> QED
  BY <1>1, <1>2, <1>3, <1>4 DEF Formats

\* The parts of each format.
LEMMA PartsOfFormats ==
  /\ PartsOf["csv"] = {"data"} /\ PartsOf["geojson"] = {"data"}
  /\ PartsOf["shapefile"] = {"shp", "shx", "dbf"} /\ PartsOf["geopackage"] = {"table"}
BY DEF PartsOf

LEMMA OfWriter ==
  ASSUME NEW w \in Writers, NEW n \in Nat
  PROVE  /\ \A x \in RowsOf(w, n) : x[2] = w
         /\ RowsOf(w, 0) = {}
         /\ RowsOf(w, n + 1) = RowsOf(w, n) \cup {<<n + 1, w>>}
BY DEF RowsOf

LEMMA TextKeeps ==
  ASSUME IInv, NEW w \in Writers, Truncate(w) \/ Write(w)
  PROVE  Active(w) /\ Local(w) /\ Own(w)
<1> DEFINE p == Place(w)
<1>1. Active(w) /\ pc[w] \in {"truncate", "write"} /\ progress[w] = 0
  BY DEF Truncate, Write, Active, Outcomes, Early, IInv, ISteps
<1>2. Format(w) \in {"csv", "geojson"} /\ p \in Places /\ job[w].rows \in Nat \ {0}
  BY <1>1, FormatOfStep, JobFacts DEF IInv, TypeOK
<1>3. PICK new \in SUBSET Row : rows' = [rows EXCEPT ![p]["data"] = new]
  <2>1. CASE Truncate(w)
    BY <2>1 DEF Truncate, SetRows
  <2>2. CASE Write(w)
    <3>1. PICK n \in 0..job[w].rows :
            rows' = [rows EXCEPT ![p]["data"] = Over(RowsOf(w, n), rows[p]["data"], n)]
      BY <2>2 DEF Write, SetRows
    <3>2. RowsOf(w, n) \in SUBSET Row /\ rows[p]["data"] \in SUBSET Row
      BY <1>2, RowsType, RowsAt DEF IInv, Parts
    <3> QED
      BY <3>1, <3>2 DEF Over
  <2> QED
    BY <2>1, <2>2
<1>4. /\ job' = job /\ overlapped' = overlapped /\ latest' = latest
      /\ UNCHANGED <<progress, crs, known, unflushed>>
      /\ pc' = [pc EXCEPT ![w] = pc'[w]]
      /\ pc'[w] \in {"write", "ok", "stopped"}
  BY DEF Truncate, Write, Disturb, IInv, TypeOK
<1>5. rows \in [Places -> [Parts -> SUBSET Row]] /\ "data" \in Parts
  BY DEF IInv, TypeOK, Parts
<1>6. Local(w)
  BY <1>2, <1>3, <1>4, <1>5 DEF Local, IInv, TypeOK
<1>7. \A part \in Parts : part # "data" => rows'[p][part] = {}
  BY <1>2, <1>3, <1>5, PartsOfFormats DEF IInv, IParts, Format
<1>8. ASSUME Sole(w)
      PROVE  /\ pc'[w] = "write" => rows'[p]["data"] = {}
             /\ pc'[w] = "ok" => rows'[p]["data"] = RowsOf(w, job[w].rows)
             /\ \A x \in rows'[p]["data"] : x[2] = w
  <2>1. CASE Truncate(w)
    BY <1>2, <1>5, <2>1 DEF Truncate, SetRows, IInv, TypeOK
  <2>2. CASE Write(w)
    <3>1. rows[p]["data"] = {}
      BY <1>8, <2>2 DEF Write, IInv, ISole, Fresh, FreshText
    <3>2. PICK n \in 0..job[w].rows :
            /\ rows' = [rows EXCEPT ![p]["data"] = RowsOf(w, n)]
            /\ pc' = [pc EXCEPT ![w] = IF n = job[w].rows THEN "ok" ELSE "stopped"]
      BY <2>2, <3>1 DEF Write, SetRows, Over
    <3> QED
      BY <1>2, <1>5, <3>2, OfWriter DEF IInv, TypeOK
  <2> QED
    BY <2>1, <2>2
<1>9. Place(w)' = p /\ Format(w)' = Format(w) /\ Sole(w)' = Sole(w)
  BY <1>4 DEF Place, Format, Sole
<1>10. ASSUME Sole(w) PROVE Fresh(w)' /\ OneAt(p)' /\ CrsAt(p)'
  <2>1. FreshText(w)' /\ FreshShapes(w)' /\ FreshLayer(w)'
    BY <1>4, <1>8, <1>9, <1>10 DEF FreshText, FreshShapes, FreshLayer
  <2>2. pc'[w] = "ok" => Left(w)'
    BY <1>2, <1>4, <1>8, <1>9, <1>10, PartsOfFormats DEF Left
  <2>3. OneAt(p)'
    <3>1. \A part \in Parts : \A x \in rows'[p][part] : x[2] = w
      BY <1>7, <1>8, <1>10
    <3> QED
      BY <1>9, <3>1 DEF OneAt
  <2>4. CrsAt(p)'
    BY <1>2, <1>9 DEF CrsAt, Format
  <2> QED
    BY <2>1, <2>2, <2>3, <2>4 DEF Fresh
<1>11. Own(w)
  <2>1. \A part \in Parts \ PartsOf[Format(w)] : rows'[Place(w)][part] = {}
    BY <1>2, <1>7, PartsOfFormats
  <2>2. progress'[w] <= job[w].rows /\ progress'[w] = 0
    BY <1>1, <1>2, <1>4
  <2>3. pc'[w] \in StepsOf[Format(w)] \cup {"ok", "stopped"}
    BY <1>2, <1>4, StepSets
  <2> QED
    BY <1>1, <1>9, <1>10, <2>1, <2>2, <2>3, CalmIsSole DEF Own, IInv
<1> QED
  BY <1>1, <1>6, <1>11

\* What opening, converting and closing have in common.
LEMMA ShapesLocal ==
  ASSUME IInv, NEW w \in Writers, Active(w), Format(w) = "shapefile",
         job' = job, overlapped' = overlapped, latest' = latest,
         UNCHANGED <<crs, columns, known>>,
         pc' = [pc EXCEPT ![w] = pc'[w]], progress' = [progress EXCEPT ![w] = progress'[w]],
         unflushed' \in {unflushed, unflushed \cup {w}},
         NEW part \in {"shx", "dbf", "shp"},
         rows' = [rows EXCEPT ![Place(w)][part] = rows'[Place(w)][part]]
  PROVE  /\ Local(w)
         /\ \A q \in Parts \ PartsOf[Format(w)] : rows'[Place(w)][q] = {}
         /\ \A q \in Parts \ {part} : rows'[Place(w)][q] = rows[Place(w)][q]
<1>1. rows \in [Places -> [Parts -> SUBSET Row]] /\ Place(w) \in Places
  BY JobFacts DEF IInv, TypeOK
<1>2. part \in PartsOf[Format(w)] /\ part \in Parts
  BY PartsOfFormats DEF Parts
<1>3. \A q \in Parts \ {part} : rows'[Place(w)][q] = rows[Place(w)][q]
  BY <1>1, <1>2
<1>4. \A p \in Places : p # Place(w) => rows'[p] = rows[p]
  BY <1>1, <1>2
<1>5. Local(w)
  BY <1>4 DEF Local, IInv, TypeOK
<1> QED
  BY <1>1, <1>2, <1>3, <1>5 DEF IInv, IParts, Format


\* From the writer's own parts and its step, all that it has to establish.
LEMMA ShapesOwn ==
  ASSUME IInv, NEW w \in Writers, Format(w) = "shapefile", Local(w),
         pc'[w] \in StepsOf["shapefile"] \cup {"ok", "stopped"},
         pc'[w] \in Early => progress'[w] = 0,
         progress'[w] <= job[w].rows,
         \A q \in Parts \ PartsOf[Format(w)] : rows'[Place(w)][q] = {},
         Sole(w) => FreshShapes(w)' /\ (pc'[w] = "ok" => Left(w)'),
         Calm(Place(w)) => OneAt(Place(w))'
  PROVE  Own(w)
<1>1. Place(w)' = Place(w) /\ Format(w)' = Format(w)
  BY DEF Local, Place, Format
<1>2. FreshText(w)' /\ FreshLayer(w)'
  BY StepSets DEF FreshText, FreshLayer
<1>3. CrsAt(Place(w))'
  BY <1>1 DEF CrsAt, Format
<1> QED
  BY <1>1, <1>2, <1>3 DEF Own, Fresh

LEMMA OpenKeeps ==
  ASSUME IInv, NEW w \in Writers, NEW part \in {"shx", "dbf", "shp"}, OpenPart(w, part)
  PROVE  Active(w) /\ Local(w) /\ Own(w)
<1>1. pc[w] = OpenStep[part] /\ pc[w] \in {"open shx", "open dbf", "open shp"}
  BY PartStepNames DEF OpenPart
<1>2. Active(w) /\ progress[w] = 0 /\ Format(w) = "shapefile"
  <2>1. Active(w) /\ progress[w] = 0
    BY <1>1 DEF Active, Outcomes, IInv, ISteps, Early
  <2> QED
    BY <1>1, <2>1, FormatOfStep, StepSets DEF IInv
<1>3. /\ pc' = [pc EXCEPT ![w] = pc'[w]] /\ pc'[w] = NextStep(pc[w])
      /\ rows' = [rows EXCEPT ![Place(w)][part] = {}]
      /\ UNCHANGED <<job, overlapped, latest, progress, crs, columns, known, unflushed>>
  BY DEF OpenPart, Advance, SetRows, Disturb, IInv, TypeOK
<1>4. progress' = [progress EXCEPT ![w] = progress'[w]]
  BY <1>3, ProgressType DEF IInv
<1>5. /\ Local(w)
      /\ \A q \in Parts \ PartsOf[Format(w)] : rows'[Place(w)][q] = {}
      /\ \A q \in Parts : rows'[Place(w)][q] = IF q = part THEN {} ELSE rows[Place(w)][q]
  <2>1. rows'[Place(w)][part] = {} /\ part \in Parts
    BY <1>2, <1>3, JobFacts DEF IInv, TypeOK, Parts
  <2>2. rows' = [rows EXCEPT ![Place(w)][part] = rows'[Place(w)][part]]
    BY <1>3, <2>1
  <2>3. Local(w) /\ \A q \in Parts \ PartsOf[Format(w)] : rows'[Place(w)][q] = {}
    BY <1>2, <1>3, <1>4, <2>2, ShapesLocal
  <2>4. \A q \in Parts \ {part} : rows'[Place(w)][q] = rows[Place(w)][q]
    BY <1>2, <1>3, <1>4, <2>2, ShapesLocal
  <2> QED
    BY <2>1, <2>3, <2>4
<1>6. Place(w)' = Place(w) /\ Place(w) \in Places
  BY <1>5, JobFacts DEF Local, Place, IInv, TypeOK
<1>7. pc'[w] \in {"open dbf", "open shp", "convert"}
  BY <1>1, <1>3, PartSteps
<1>8. ASSUME Sole(w) PROVE FreshShapes(w)'
  <2>1. FreshShapes(w)
    BY <1>8 DEF IInv, ISole, Fresh
  <2>2. CASE part = "shx"
    BY <1>1, <1>3, <1>5, <1>6, <2>1, <2>2, NextSteps DEF FreshShapes, OpenStep, Parts
  <2>3. CASE part = "dbf"
    BY <1>1, <1>3, <1>5, <1>6, <2>1, <2>3, NextSteps DEF FreshShapes, OpenStep, Parts
  <2>4. CASE part = "shp"
    BY <1>1, <1>3, <1>5, <1>6, <2>1, <2>4, NextSteps DEF FreshShapes, OpenStep, Parts
  <2> QED
    BY <2>2, <2>3, <2>4
<1>9. ASSUME Calm(Place(w)) PROVE OneAt(Place(w))'
  <2>1. OneAt(Place(w))
    BY <1>6, <1>9 DEF IInv, ICalm
  <2>2. \A q \in Parts : rows'[Place(w)][q] \subseteq rows[Place(w)][q]
    BY <1>5
  <2> QED
    BY <1>6, <2>1, <2>2 DEF OneAt
<1>10. progress'[w] = 0 /\ progress'[w] <= job[w].rows
  BY <1>2, <1>3, JobFacts DEF IInv, TypeOK
<1>11. pc'[w] \in StepsOf["shapefile"] /\ pc'[w] # "ok"
  BY <1>7, StepSets
<1> QED
  BY <1>2, <1>5, <1>8, <1>9, <1>10, <1>11, ShapesOwn

LEMMA ConvertKeeps ==
  ASSUME IInv, NEW w \in Writers, Convert(w)
  PROVE  Active(w) /\ Local(w) /\ Own(w)
<1>1. pc[w] = "convert" /\ Active(w)
  BY DEF Convert, Active, Outcomes
<1>2. Format(w) = "shapefile" /\ Place(w) \in Places /\ job[w].rows \in Nat
  BY <1>1, FormatOfStep, StepSets, JobFacts DEF IInv, TypeOK
<1>3. PICK n \in 0..job[w].rows : progress' = [progress EXCEPT ![w] = n]
  BY DEF Convert
<1>4. /\ pc' = [pc EXCEPT ![w] = "flush shp"]
      /\ UNCHANGED <<job, disk, history>>
  BY <1>1, NextSteps DEF Convert, Advance
<1>5. pc'[w] = "flush shp" /\ progress'[w] = n /\ n <= job[w].rows
  <2>1. pc \in [Writers -> Steps] /\ progress \in [Writers -> Nat]
    BY DEF IInv, TypeOK
  <2>2. pc'[w] = "flush shp"
    BY <1>4, <2>1
  <2>3. progress'[w] = n
    BY <1>3, <2>1
  <2>4. n <= job[w].rows
    BY <1>2
  <2> QED
    BY <2>2, <2>3, <2>4
<1>6. Local(w)
  BY <1>3, <1>4 DEF Local, IInv, TypeOK, disk, history
<1>7. \A q \in Parts \ PartsOf[Format(w)] : rows'[Place(w)][q] = {}
  BY <1>2, <1>4 DEF IInv, IParts, disk, Format
<1>8. Place(w)' = Place(w) /\ UNCHANGED rows
  BY <1>4 DEF Place, disk
<1>9. Sole(w) => FreshShapes(w)'
  BY <1>1, <1>5, <1>8 DEF IInv, ISole, Fresh, FreshShapes
<1>10. Calm(Place(w)) => OneAt(Place(w))'
  BY <1>2, <1>8 DEF IInv, ICalm, OneAt
<1> QED
  BY <1>1, <1>2, <1>5, <1>6, <1>7, <1>9, <1>10, ShapesOwn, StepSets DEF Early

\* A part as its flush leaves it.
Flushed(w, part) ==
  \/ rows'[Place(w)][part] = RowsOf(w, progress[w]) /\ unflushed' = unflushed
  \/ rows'[Place(w)][part] = rows[Place(w)][part] /\ unflushed' = unflushed \cup {w}

LEMMA FlushEffect ==
  ASSUME IInv, NEW w \in Writers, NEW part \in {"shx", "dbf", "shp"}, Flush(w, part)
  PROVE  /\ pc[w] = FlushStep[part] /\ Active(w)
         /\ Format(w) = "shapefile" /\ Place(w) \in Places /\ part \in Parts
         /\ Place(w)' = Place(w) /\ Format(w)' = Format(w)
         /\ pc'[w] = IF part = "dbf" THEN Closed(w) ELSE NextStep(pc[w])
         /\ UNCHANGED <<job, overlapped, latest, progress, crs, columns, known>>
         /\ Flushed(w, part)
         /\ Local(w)
         /\ \A q \in Parts \ PartsOf[Format(w)] : rows'[Place(w)][q] = {}
         /\ \A q \in Parts \ {part} : rows'[Place(w)][q] = rows[Place(w)][q]
<1>1. pc[w] = FlushStep[part] /\ pc[w] \in {"flush shx", "flush dbf", "flush shp"}
  BY PartStepNames DEF Flush
<1>2. Active(w)
  BY <1>1 DEF Active, Outcomes
<1>3. Format(w) = "shapefile" /\ Place(w) \in Places /\ part \in Parts
  BY <1>1, <1>2, FormatOfStep, StepSets, JobFacts DEF IInv, TypeOK, Parts
<1>4. UNCHANGED <<job, overlapped, latest, progress, crs, columns, known>>
  BY DEF Flush, Disturb
<1>5. pc' = [pc EXCEPT ![w] = IF part = "dbf" THEN Closed(w) ELSE NextStep(pc[w])]
  BY DEF Flush
<1>6. pc'[w] = IF part = "dbf" THEN Closed(w) ELSE NextStep(pc[w])
  BY <1>5 DEF IInv, TypeOK
<1>7. Flushed(w, part) /\ rows' = [rows EXCEPT ![Place(w)][part] = rows'[Place(w)][part]]
  <2>1. rows \in [Places -> [Parts -> SUBSET Row]]
    BY DEF IInv, TypeOK
  <2>2. CASE SetRows(w, part, RowsOf(w, progress[w])) /\ UNCHANGED unflushed
    BY <1>3, <2>1, <2>2 DEF Flushed, SetRows
  <2>3. CASE unflushed' = unflushed \cup {w} /\ UNCHANGED rows
    BY <1>3, <2>1, <2>3 DEF Flushed
  <2> QED
    BY <2>2, <2>3 DEF Flush
<1>8. pc' = [pc EXCEPT ![w] = pc'[w]] /\ progress' = [progress EXCEPT ![w] = progress'[w]]
  BY <1>4, <1>5, <1>6, ProgressType DEF IInv
<1>9. unflushed' \in {unflushed, unflushed \cup {w}}
  BY <1>7 DEF Flushed
<1>10. Local(w) /\ \A q \in Parts \ PartsOf[Format(w)] : rows'[Place(w)][q] = {}
  BY <1>2, <1>3, <1>4, <1>7, <1>8, <1>9, ShapesLocal
<1>11. \A q \in Parts \ {part} : rows'[Place(w)][q] = rows[Place(w)][q]
  BY <1>2, <1>3, <1>4, <1>7, <1>8, <1>9, ShapesLocal
<1> QED
  BY <1>1, <1>2, <1>3, <1>4, <1>6, <1>7, <1>10, <1>11 DEF Place, Format

\* While it is under way, each part of a sole writer is empty or its own.
LEMMA FlushOwnRows ==
  ASSUME IInv, NEW w \in Writers, Sole(w), Format(w) = "shapefile",
         NEW part \in {"shx", "dbf", "shp"}, Flush(w, part)
  PROVE  \A q \in Parts : rows'[Place(w)][q] \in {{}, RowsOf(w, progress[w])}
<1>1. FreshShapes(w)
  BY DEF IInv, ISole, Fresh
<1>2. /\ \A q \in Parts \ PartsOf["shapefile"] : rows'[Place(w)][q] = {}
      /\ \A q \in Parts \ {part} : rows'[Place(w)][q] = rows[Place(w)][q]
      /\ Flushed(w, part) /\ pc[w] = FlushStep[part]
  BY FlushEffect
<1>3. \A q \in PartsOf["shapefile"] : rows[Place(w)][q] \in {{}, RowsOf(w, progress[w])}
  <2>1. pc[w] \in {"flush shx", "flush dbf", "flush shp"}
    BY <1>2, PartStepNames
  <2>2. CASE pc[w] = "flush shp"
    BY <1>1, <2>2, PartsOfFormats DEF FreshShapes
  <2>3. CASE pc[w] = "flush shx"
    BY <1>1, <2>3, PartsOfFormats DEF FreshShapes, Holds
  <2>4. CASE pc[w] = "flush dbf"
    <3>1. rows[Place(w)]["shx"] \in {{}, RowsOf(w, progress[w])}
      BY <1>1, <2>4 DEF FreshShapes, Holds
    <3>2. rows[Place(w)]["shp"] \in {{}, RowsOf(w, progress[w])}
      BY <1>1, <2>4 DEF FreshShapes, Holds
    <3>3. rows[Place(w)]["dbf"] = {}
      BY <1>1, <2>4 DEF FreshShapes
    <3> QED
      BY <3>1, <3>2, <3>3, PartsOfFormats
  <2> QED
    BY <2>1, <2>2, <2>3, <2>4
<1>4. part \in PartsOf["shapefile"]
  BY PartsOfFormats
<1> QED
  BY <1>2, <1>3, <1>4 DEF Flushed

LEMMA FlushKeeps ==
  ASSUME IInv, NEW w \in Writers, NEW part \in {"shx", "dbf", "shp"}, Flush(w, part)
  PROVE  Active(w) /\ Local(w) /\ Own(w)
<1> DEFINE p == Place(w)
<1>1. /\ pc[w] = FlushStep[part] /\ Active(w) /\ Format(w) = "shapefile" /\ p \in Places
      /\ Place(w)' = p /\ Local(w) /\ Flushed(w, part) /\ progress' = progress /\ job' = job
      /\ pc'[w] = IF part = "dbf" THEN Closed(w) ELSE NextStep(pc[w])
      /\ \A q \in Parts \ PartsOf[Format(w)] : rows'[p][q] = {}
      /\ \A q \in Parts \ {part} : rows'[p][q] = rows[p][q]
  BY FlushEffect
<1>2. progress[w] \in Nat /\ progress[w] <= job[w].rows /\ job[w].rows \in Nat
  BY ProgressType, JobFacts DEF IInv, ISteps, TypeOK
<1>3. ASSUME Sole(w) PROVE FreshShapes(w)' /\ (pc'[w] # "ok")
  <2>1. FreshShapes(w)
    BY <1>3 DEF IInv, ISole, Fresh
  <2>2. CASE part = "shp"
    <3>1. pc[w] = "flush shp" /\ pc'[w] = "flush shx"
      BY <1>1, <2>2, NextSteps DEF FlushStep
    <3>2. Holds(w, "shp")'
      BY <1>1, <2>1, <2>2, <3>1 DEF FreshShapes, Holds, Flushed
    <3>3. rows'[p]["shx"] = {} /\ rows'[p]["dbf"] = {}
      BY <1>1, <2>1, <2>2, <3>1 DEF FreshShapes, Parts
    <3> QED
      BY <1>1, <3>1, <3>2, <3>3 DEF FreshShapes
  <2>3. CASE part = "shx"
    <3>1. pc[w] = "flush shx" /\ pc'[w] = "flush dbf"
      BY <1>1, <2>3, NextSteps DEF FlushStep
    <3>2. Holds(w, "shx")'
      BY <1>1, <2>1, <2>3, <3>1 DEF FreshShapes, Holds, Flushed
    <3>3. rows'[p]["dbf"] = {} /\ rows'[p]["shp"] = rows[p]["shp"]
      BY <1>1, <2>1, <2>3, <3>1 DEF FreshShapes, Parts
    <3>4. Holds(w, "shp")'
      BY <1>1, <2>1, <3>1, <3>3 DEF FreshShapes, Holds, Flushed
    <3> QED
      BY <1>1, <3>1, <3>2, <3>3, <3>4 DEF FreshShapes
  <2>4. CASE part = "dbf"
    <3>1. pc[w] = "flush dbf" /\ pc'[w] = Closed(w)
      BY <1>1, <2>4 DEF FlushStep
    <3>2. Holds(w, "dbf")'
      BY <1>1, <2>1, <2>4, <3>1 DEF FreshShapes, Holds, Flushed
    <3>3. rows'[p]["shx"] = rows[p]["shx"] /\ rows'[p]["shp"] = rows[p]["shp"]
      BY <1>1, <2>4 DEF Parts
    <3>4. Holds(w, "shp")' /\ Holds(w, "shx")'
      BY <1>1, <2>1, <3>1, <3>3 DEF FreshShapes, Holds, Flushed
    <3>5. pc'[w] = "stopped" \/ (pc'[w] = "prj" /\ progress[w] = job[w].rows)
      <4>1. progress[w] < job[w].rows \/ progress[w] = job[w].rows
        BY <1>2
      <4> QED
        BY <3>1, <4>1 DEF Closed
    <3> QED
      BY <1>1, <3>2, <3>4, <3>5 DEF FreshShapes
  <2> QED
    BY <2>2, <2>3, <2>4
<1>4. ASSUME Calm(p) PROVE OneAt(p)'
  <2>1. Sole(w)
    BY <1>1, <1>4, CalmIsSole DEF IInv
  <2>2. \A q \in Parts : rows'[p][q] \in {{}, RowsOf(w, progress[w])}
    BY <1>1, <2>1, FlushOwnRows
  <2>3. \A q \in Parts : \A x \in rows'[p][q] : x[2] = w
    BY <1>2, <2>2, OfWriter
  <2> QED
    BY <1>1, <2>3 DEF OneAt
<1>5. pc'[w] \in {"flush shx", "flush dbf", "prj", "stopped"}
  <2>1. Closed(w) \in {"prj", "stopped"}
    BY DEF Closed
  <2>2. CASE part = "dbf"
    BY <1>1, <2>1, <2>2
  <2>3. CASE part # "dbf"
    BY <1>1, <2>3, PartSteps
  <2> QED
    BY <2>2, <2>3
<1>6. pc'[w] \in StepsOf["shapefile"] \cup {"ok", "stopped"} /\ pc'[w] \notin Early
  BY <1>5, StepSets DEF Early
<1>7. progress'[w] <= job[w].rows
  BY <1>1, <1>2
<1> QED
  BY <1>1, <1>3, <1>4, <1>6, <1>7, ShapesOwn

LEMMA PrjKeeps ==
  ASSUME IInv, NEW w \in Writers, WritePrj(w) \/ EmptyPrj(w)
  PROVE  Active(w) /\ Local(w) /\ Own(w)
<1> DEFINE p == Place(w)
<1>1. pc[w] = "prj" /\ Active(w)
  BY DEF WritePrj, EmptyPrj, Active, Outcomes
<1>2. Format(w) = "shapefile" /\ p \in Places
  BY <1>1, FormatOfStep, StepSets, JobFacts DEF IInv, TypeOK
<1>3. /\ UNCHANGED <<job, overlapped, latest, progress, rows, columns, known, unflushed>>
      /\ crs' = [crs EXCEPT ![p] = crs'[p]]
      /\ pc' = [pc EXCEPT ![w] = pc'[w]]
      /\ pc'[w] \in {"ok", "stopped"}
      /\ (pc'[w] = "ok" /\ job[w].crs # NoCrs) => crs'[p] = job[w].crs
  BY <1>2 DEF WritePrj, EmptyPrj, Disturb, IInv, TypeOK
<1>4. Place(w)' = p /\ Format(w)' = Format(w)
  BY <1>3 DEF Place, Format
<1>5. Local(w)
  BY <1>2, <1>3 DEF Local, IInv, TypeOK
<1>6. \A q \in Parts \ PartsOf[Format(w)] : rows'[p][q] = {}
  BY <1>2, <1>3 DEF IInv, IParts, Format
<1>7. ASSUME Sole(w) PROVE FreshShapes(w)' /\ (pc'[w] = "ok" => Left(w)')
  <2>1. FreshShapes(w)'
    BY <1>3 DEF FreshShapes
  <2>2. \A part \in PartsOf["shapefile"] : Holds(w, part)
    <3>1. FreshShapes(w)
      BY <1>7 DEF IInv, ISole, Fresh
    <3>2. Holds(w, "shp") /\ Holds(w, "shx") /\ Holds(w, "dbf")
      BY <1>1, <3>1 DEF FreshShapes
    <3> QED
      BY <3>2, PartsOfFormats
  <2>3. progress[w] = job[w].rows
    BY <1>1, <1>7 DEF IInv, ISole, Fresh, FreshShapes
  <2>4. pc'[w] = "ok" => Left(w)'
    BY <1>2, <1>3, <1>4, <2>2, <2>3 DEF Left, Holds
  <2> QED
    BY <2>1, <2>4
<1>8. Calm(p) => OneAt(p)'
  BY <1>2, <1>3, <1>4 DEF IInv, ICalm, OneAt
<1>9. progress'[w] <= job[w].rows
  BY <1>3 DEF IInv, ISteps
<1> QED
  BY <1>1, <1>2, <1>3, <1>4, <1>5, <1>6, <1>7, <1>8, <1>9, ShapesOwn DEF Early

-----------------------------------------------------------------------------

\* The same for a GeoPackage layer, which has one part.
LEMMA LayerOwn ==
  ASSUME IInv, NEW w \in Writers, Format(w) = "geopackage", Local(w),
         pc'[w] \in StepsOf["geopackage"] \cup {"ok", "stopped"},
         pc'[w] \in Early => progress'[w] = 0,
         progress'[w] <= job[w].rows,
         \A q \in Parts \ {"table"} : rows'[Place(w)][q] = {},
         Sole(w) => FreshLayer(w)' /\ (pc'[w] = "ok" => Left(w)'),
         Calm(Place(w)) =>
           /\ \A x, y \in rows'[Place(w)]["table"] : x[2] = y[2]
           /\ CrsAt(Place(w))'
  PROVE  Own(w)
<1>1. Place(w)' = Place(w) /\ Format(w)' = Format(w)
  BY DEF Local, Place, Format
<1>2. FreshText(w)' /\ FreshShapes(w)'
  BY StepSets DEF FreshText, FreshShapes
<1>3. Calm(Place(w)) => OneAt(Place(w))'
  BY <1>1 DEF OneAt
<1>4. PartsOf[Format(w)] = {"table"}
  BY PartsOfFormats
<1> QED
  BY <1>1, <1>2, <1>3, <1>4 DEF Own, Fresh

\* What is known of a writer of a layer before its call, and what no call changes.
LEMMA LayerFacts ==
  ASSUME IInv, NEW w \in Writers, pc[w] \in StepsOf["geopackage"]
  PROVE  /\ Active(w) /\ Format(w) = "geopackage" /\ FormatOf[Place(w)] = "geopackage"
         /\ Place(w) \in Places /\ File(w) \in Files /\ File(w) = FileOf[Place(w)]
         /\ SrsOf(job[w]) \in Crs
         /\ progress[w] \in Nat /\ job[w].rows \in Nat \ {0} /\ progress[w] <= job[w].rows
         /\ \A q \in Parts \ {"table"} : rows[Place(w)][q] = {}
         /\ Sole(w) => FreshLayer(w)
         /\ Calm(Place(w)) => Sole(w)
         /\ Calm(Place(w)) => /\ \A x, y \in rows[Place(w)]["table"] : x[2] = y[2]
                              /\ CrsAt(Place(w))
<1>1. Active(w)
  BY StepSets DEF Active, Outcomes
<1>2. Format(w) = "geopackage"
  BY <1>1, FormatOfStep DEF IInv
<1>3. Place(w) \in Places /\ File(w) \in Files /\ SrsOf(job[w]) \in Crs
      /\ job[w].rows \in Nat \ {0}
  BY JobFacts DEF IInv, TypeOK
<1>4. progress[w] \in Nat /\ progress[w] <= job[w].rows
  BY ProgressType DEF IInv, ISteps
<1>5. \A q \in Parts \ {"table"} : rows[Place(w)][q] = {}
  BY <1>2, <1>3, PartsOfFormats DEF IInv, IParts, Format
<1>6. Calm(Place(w)) => Sole(w)
  BY <1>1, CalmIsSole DEF IInv
<1>7. Sole(w) => FreshLayer(w)
  BY DEF IInv, ISole, Fresh
<1>8. Calm(Place(w)) => OneAt(Place(w)) /\ CrsAt(Place(w))
  BY <1>3 DEF IInv, ICalm
<1>9. Calm(Place(w)) => \A x, y \in rows[Place(w)]["table"] : x[2] = y[2]
  BY <1>8 DEF OneAt, Parts
<1> QED
  BY <1>1, <1>2, <1>3, <1>4, <1>5, <1>6, <1>7, <1>8, <1>9 DEF Format, File

LEMMA InsertSrsKeeps ==
  ASSUME IInv, NEW w \in Writers, InsertSrs(w)
  PROVE  Active(w) /\ Local(w) /\ Own(w)
<1> DEFINE p == Place(w)
<1>1. pc[w] = "srs" /\ pc[w] \in StepsOf["geopackage"]
  BY StepSets DEF InsertSrs
<1>2. /\ UNCHANGED <<job, overlapped, latest, progress, rows, crs, columns, unflushed>>
      /\ pc' = [pc EXCEPT ![w] = "drop"]
      /\ known' = [known EXCEPT ![File(w)] = known[File(w)] \cup {SrsOf(job[w])}]
  BY <1>1, NextSteps DEF InsertSrs, Advance, Disturb
<1>3. /\ pc'[w] = "drop"
      /\ \A f \in Files : known[f] \subseteq known'[f]
      /\ SrsOf(job[w]) \in known'[File(w)]
  BY <1>1, <1>2, LayerFacts DEF IInv, TypeOK
<1>4. Place(w)' = p /\ File(w)' = File(w)
  BY <1>2 DEF Place, File
<1>5. Local(w)
  BY <1>2, <1>3 DEF Local, IInv, TypeOK
<1>6. FreshLayer(w)'
  BY <1>2, <1>3, <1>4 DEF FreshLayer
<1>7. Calm(p) => CrsAt(p)'
  BY <1>1, <1>2, <1>3, <1>4, LayerFacts DEF CrsAt
<1>8. progress'[w] = 0 /\ progress'[w] <= job[w].rows
  BY <1>1, <1>2, LayerFacts DEF IInv, ISteps, Early
<1>9. \A q \in Parts \ {"table"} : rows'[p][q] = {}
  BY <1>1, <1>2, LayerFacts
<1>10. Calm(p) => \A x, y \in rows'[p]["table"] : x[2] = y[2]
  BY <1>1, <1>2, LayerFacts
<1>11. pc'[w] \in StepsOf["geopackage"] \cup {"ok", "stopped"} /\ pc'[w] # "ok"
  BY <1>3, StepSets
<1>12. Own(w)
  BY <1>1, <1>5, <1>6, <1>7, <1>8, <1>9, <1>10, <1>11, LayerFacts, LayerOwn
<1> QED
  BY <1>1, <1>5, <1>12, LayerFacts

LEMMA DropKeeps ==
  ASSUME IInv, NEW w \in Writers, DropLayer(w)
  PROVE  Active(w) /\ Local(w) /\ Own(w)
<1> DEFINE p == Place(w)
<1>1. pc[w] = "drop" /\ pc[w] \in StepsOf["geopackage"]
  BY StepSets DEF DropLayer
<1>2. /\ UNCHANGED <<job, overlapped, latest, progress, crs, known, unflushed>>
      /\ pc' = [pc EXCEPT ![w] = "create"]
      /\ rows' = [rows EXCEPT ![p]["table"] = {}]
  BY <1>1, NextSteps DEF DropLayer, Advance, SetRows, Disturb
<1>3. /\ pc'[w] = "create" /\ rows'[p]["table"] = {}
      /\ \A q \in Parts \ {"table"} : rows'[p][q] = {}
      /\ \A o \in Places : o # p => rows'[o] = rows[o]
  BY <1>1, <1>2, LayerFacts DEF IInv, TypeOK, Parts
<1>4. Place(w)' = p /\ File(w)' = File(w)
  BY <1>2 DEF Place, File
<1>5. Local(w)
  BY <1>2, <1>3 DEF Local, IInv, TypeOK
<1>6. Sole(w) => FreshLayer(w)'
  BY <1>1, <1>2, <1>3, <1>4, LayerFacts DEF FreshLayer
<1>7. CrsAt(p)'
  BY <1>3, <1>4 DEF CrsAt
<1>8. progress'[w] = 0 /\ progress'[w] <= job[w].rows
  BY <1>1, <1>2, LayerFacts DEF IInv, ISteps, Early
<1> QED
  BY <1>1, <1>3, <1>5, <1>6, <1>7, <1>8, LayerFacts, LayerOwn, StepSets

LEMMA CreateKeeps ==
  ASSUME IInv, NEW w \in Writers, CreateLayer(w)
  PROVE  Active(w) /\ Local(w) /\ Own(w)
<1> DEFINE p == Place(w)
<1>1. pc[w] = "create" /\ pc[w] \in StepsOf["geopackage"]
  BY StepSets DEF CreateLayer
<1>2. /\ UNCHANGED <<job, overlapped, latest, progress, rows, crs, known, unflushed>>
      /\ pc' = [pc EXCEPT ![w] = "register"]
  BY <1>1, NextSteps DEF CreateLayer, Advance, Disturb
<1>3. pc'[w] = "register"
  BY <1>2 DEF IInv, TypeOK
<1>4. Place(w)' = p /\ File(w)' = File(w)
  BY <1>2 DEF Place, File
<1>5. Local(w)
  BY <1>2, <1>3 DEF Local, IInv, TypeOK
<1>6. Sole(w) => FreshLayer(w)'
  BY <1>1, <1>2, <1>3, <1>4, LayerFacts DEF FreshLayer
<1>7. Calm(p) => CrsAt(p)'
  BY <1>1, <1>2, <1>4, LayerFacts DEF CrsAt
<1>8. progress'[w] = 0 /\ progress'[w] <= job[w].rows
  BY <1>1, <1>2, LayerFacts DEF IInv, ISteps, Early
<1> QED
  BY <1>1, <1>2, <1>3, <1>5, <1>6, <1>7, <1>8, LayerFacts, LayerOwn, StepSets

LEMMA RegisterKeeps ==
  ASSUME IInv, NEW w \in Writers, Register(w)
  PROVE  Active(w) /\ Local(w) /\ Own(w)
<1> DEFINE p == Place(w)
<1>1. pc[w] = "register" /\ pc[w] \in StepsOf["geopackage"]
  BY StepSets DEF Register
<1>2. /\ UNCHANGED <<job, overlapped, latest, progress, rows, columns, known, unflushed>>
      /\ pc' = [pc EXCEPT ![w] = "insert"]
      /\ crs' = [crs EXCEPT ![p] = SrsOf(job[w])]
  BY <1>1, NextSteps DEF Register, Advance, Disturb
<1>3. pc'[w] = "insert" /\ crs'[p] = SrsOf(job[w])
  BY <1>1, <1>2, LayerFacts DEF IInv, TypeOK
<1>4. Place(w)' = p /\ File(w)' = File(w)
  BY <1>2 DEF Place, File
<1>5. Local(w)
  BY <1>2, <1>3 DEF Local, IInv, TypeOK
<1>6. progress'[w] = 0 /\ progress[w] = 0 /\ progress'[w] <= job[w].rows
  BY <1>1, <1>2, LayerFacts DEF IInv, ISteps, Early
<1>7. ASSUME Sole(w) PROVE rows[p]["table"] = {} /\ SrsOf(job[w]) \in known[File(w)]
  BY <1>1, <1>7, LayerFacts DEF FreshLayer
<1>8. Sole(w) => FreshLayer(w)'
  BY <1>2, <1>3, <1>4, <1>6, <1>7, OfWriter DEF FreshLayer
<1>9. Calm(p) => CrsAt(p)'
  BY <1>1, <1>2, <1>4, <1>7, LayerFacts DEF CrsAt
<1> QED
  BY <1>1, <1>2, <1>3, <1>5, <1>6, <1>8, <1>9, LayerFacts, LayerOwn, StepSets

LEMMA InsertFeatureKeeps ==
  ASSUME IInv, NEW w \in Writers, InsertFeature(w)
  PROVE  Active(w) /\ Local(w) /\ Own(w)
<1> DEFINE p == Place(w)
<1>1. pc[w] = "insert" /\ pc[w] \in StepsOf["geopackage"]
  BY StepSets DEF InsertFeature
<1>2. progress[w] \in Nat /\ job[w].rows \in Nat /\ progress[w] < job[w].rows
  BY <1>1, LayerFacts DEF InsertFeature
<1>3. progress' = [progress EXCEPT ![w] = progress[w] + 1] /\ progress'[w] = progress[w] + 1
  BY ProgressType DEF InsertFeature, IInv
<1>4. /\ UNCHANGED <<job, overlapped, latest, pc, crs, columns, known, unflushed>>
      /\ rows' = [rows EXCEPT ![p]["table"] =
                    rows[p]["table"] \cup {<<progress[w] + 1, w>>}]
  BY <1>3 DEF InsertFeature, SetRows, Disturb
<1>5. /\ rows'[p]["table"] = rows[p]["table"] \cup {<<progress[w] + 1, w>>}
      /\ \A q \in Parts \ {"table"} : rows'[p][q] = {}
      /\ \A o \in Places : o # p => rows'[o] = rows[o]
  BY <1>1, <1>4, LayerFacts DEF IInv, TypeOK, Parts
<1>6. Place(w)' = p /\ File(w)' = File(w)
  BY <1>4 DEF Place, File
<1>7. Local(w)
  BY <1>3, <1>4, <1>5, ProgressType DEF Local, IInv
<1>8. ASSUME Sole(w)
      PROVE  /\ rows'[p]["table"] = RowsOf(w, progress'[w])
             /\ crs[p] = SrsOf(job[w]) /\ SrsOf(job[w]) \in known[File(w)]
  <2>1. /\ rows[p]["table"] = RowsOf(w, progress[w])
        /\ crs[p] = SrsOf(job[w]) /\ SrsOf(job[w]) \in known[File(w)]
    BY <1>1, <1>8, LayerFacts DEF FreshLayer
  <2> QED
    BY <1>2, <1>3, <1>5, <2>1, OfWriter
<1>9. Sole(w) => FreshLayer(w)'
  BY <1>1, <1>4, <1>6, <1>8 DEF FreshLayer
<1>10. ASSUME Calm(p)
       PROVE  /\ \A x, y \in rows'[p]["table"] : x[2] = y[2]
              /\ CrsAt(p)'
  <2>1. Sole(w)
    BY <1>1, <1>10, LayerFacts
  <2>2. \A x \in rows'[p]["table"] : x[2] = w
    BY <1>2, <1>3, <1>8, <2>1, OfWriter
  <2>3. CrsAt(p)'
    BY <1>4, <1>6, <1>8, <2>1, <2>2, LayerFacts, <1>1 DEF CrsAt, File
  <2> QED
    BY <2>2, <2>3
<1>11. progress'[w] <= job[w].rows
  BY <1>2, <1>3
<1> QED
  BY <1>1, <1>4, <1>5, <1>7, <1>9, <1>10, <1>11, LayerFacts, LayerOwn, StepSets DEF Early

LEMMA InsertedKeeps ==
  ASSUME IInv, NEW w \in Writers, Inserted(w)
  PROVE  Active(w) /\ Local(w) /\ Own(w)
<1> DEFINE p == Place(w)
<1>1. pc[w] = "insert" /\ pc[w] \in StepsOf["geopackage"] /\ progress[w] = job[w].rows
  BY StepSets DEF Inserted
<1>2. /\ UNCHANGED <<job, progress, disk, history>>
      /\ pc' = [pc EXCEPT ![w] = "ok"] /\ pc'[w] = "ok"
  BY DEF Inserted, IInv, TypeOK
<1>3. Place(w)' = p /\ File(w)' = File(w) /\ Format(w)' = Format(w) /\ UNCHANGED <<rows, crs, known>>
  BY <1>2 DEF Place, File, Format, disk
<1>4. Local(w)
  BY <1>2, <1>3 DEF Local, IInv, TypeOK, history
<1>5. ASSUME Sole(w) PROVE FreshLayer(w)' /\ Left(w)'
  <2>1. FreshLayer(w)
    BY <1>1, <1>5, LayerFacts
  <2>2. FreshLayer(w)'
    BY <1>2 DEF FreshLayer
  <2>3. rows[p]["table"] = RowsOf(w, job[w].rows) /\ crs[p] = SrsOf(job[w])
    BY <1>1, <2>1 DEF FreshLayer
  <2>4. Format(w) = "geopackage" /\ PartsOf["geopackage"] = {"table"}
    BY <1>1, LayerFacts, PartsOfFormats
  <2>5. Left(w)'
    BY <1>2, <1>3, <2>3, <2>4 DEF Left
  <2> QED
    BY <2>2, <2>5
<1>6. Calm(p) => CrsAt(p)'
  BY <1>1, <1>2, <1>3, LayerFacts DEF CrsAt
<1>7. progress'[w] <= job[w].rows
  BY <1>1, <1>2, LayerFacts
<1> QED
  BY <1>1, <1>2, <1>3, <1>4, <1>5, <1>6, <1>7, LayerFacts, LayerOwn DEF Early
-----------------------------------------------------------------------------

LEMMA WriterKeeps ==
  ASSUME IInv, NEW w \in Writers, WriterNext(w)
  PROVE  IInv'
<1>1. TypeOK'
  BY WriterType DEF IInv
<1>2. CASE Begin(w)
  BY <1>1, <1>2, BeginKeeps
<1>3. CASE Refuse(w) \/ Stop(w)
  BY <1>1, <1>3, EndKeeps
<1>4. CASE ~(Begin(w) \/ Refuse(w) \/ Stop(w))
  <2>1. Active(w) /\ Local(w) /\ Own(w)
    BY <1>4, TextKeeps, OpenKeeps, ConvertKeeps, FlushKeeps, PrjKeeps, InsertSrsKeeps,
       DropKeeps, CreateKeeps, RegisterKeeps, InsertFeatureKeeps, InsertedKeeps DEF WriterNext
  <2> QED
    BY <1>1, <2>1, Assemble
<1> QED
  BY <1>2, <1>3, <1>4

\* Readers, and steps of nobody, change nothing of this.
LEMMA RestKeeps ==
  ASSUME IInv, TypeOK', UNCHANGED <<job, pc, progress, disk, history>>
  PROVE  IInv'
<1>1. UNCHANGED <<job, pc, progress, rows, crs, known, overlapped, unflushed, latest>>
  BY DEF disk, history
<1>2. \A w \in Writers : Place(w)' = Place(w) /\ Format(w)' = Format(w) /\ Sole(w)' = Sole(w)
  BY <1>1 DEF Place, Format, Sole
<1>3. ISteps' /\ IParts' /\ IAlone'
  BY <1>1, <1>2 DEF IInv, ISteps, IParts, IAlone, Active
<1>4. ISole'
  BY <1>1, <1>2, FreshKept DEF IInv, ISole
<1>5. ICalm'
  <2>1. \A p \in Places : Calm(p)' <=> Calm(p)
    BY <1>1, <1>2 DEF Calm, IInv, TypeOK
  <2>2. UNCHANGED <<job, disk>>
    OBVIOUS
  <2> QED
    BY <2>1, <2>2, PlaceKept DEF IInv, ICalm
<1> QED
  BY <1>3, <1>4, <1>5 DEF IInv

LEMMA InvInit ==
  ASSUME Init
  PROVE  IInv
<1>1. TypeOK
  BY TypeInit
<1>2. /\ \A w \in Writers : pc[w] = "idle" /\ progress[w] = 0 /\ job[w].rows \in Nat
      /\ \A p \in Places : \A part \in Parts : rows[p][part] = {}
  BY <1>1, JobFacts DEF Init, TypeOK
<1>3. ISteps /\ IParts /\ IAlone
  BY <1>2 DEF ISteps, IParts, IAlone, Active, Outcomes
<1>4. ISole
  BY <1>2 DEF ISole, Fresh, FreshText, FreshShapes, FreshLayer
<1>5. ICalm
  BY <1>2 DEF ICalm, OneAt, CrsAt, Parts
<1> QED
  BY <1>1, <1>3, <1>4, <1>5 DEF IInv

LEMMA InvNext ==
  ASSUME IInv, [Next]_vars
  PROVE  IInv'
<1>1. TypeOK'
  BY TypeNext DEF IInv
<1>2. CASE UNCHANGED vars
  BY <1>1, <1>2, RestKeeps DEF vars
<1>3. ASSUME NEW r \in Readers, ReaderNext(r) PROVE IInv'
  <2>1. UNCHANGED <<job, pc, progress, disk, history>>
    BY <1>3 DEF ReaderNext, ReadText, ReadShapes, ReadAttributes, ResolveLayer, NoLayerFound,
       SelectFeatures, ReadCrs, ReadError, Sees
  <2> QED
    BY <1>1, <2>1, RestKeeps
<1> QED
  BY <1>2, <1>3, WriterKeeps DEF Next

\* What holds of the disk while a writer that nobody overlaps makes its calls.
THEOREM Inductive == Spec => []IInv
<1>1. Init => IInv
  BY InvInit
<1>2. IInv /\ [Next]_vars => IInv'
  BY InvNext
<1> QED
  BY <1>1, <1>2, PTL DEF Spec

\* A writer that reports success and was not overlapped has left what it was given.
THEOREM SuccessIsDelivered == Spec => []Delivered
<1>1. IInv => Delivered
  BY DEF IInv, ISole, Sole, Fresh, Left, Delivered
<1> QED
  BY <1>1, Inductive, PTL

\* Old and new rows are never together in a place, whatever fails where.
THEOREM PlacesHaveOneWriter == Spec => []OneWriter
<1>1. IInv => OneWriter
  BY DEF IInv, ICalm, OneAt, OneWriter
<1> QED
  BY <1>1, Inductive, PTL

\* A layer that has rows is registered with their coordinate system at every moment.
THEOREM LayersHaveTheCrsOfTheirRows == Spec => []CrsOfRows
<1>1. IInv => CrsOfRows
  BY DEF IInv, ICalm, CrsAt, CrsOfRows
<1> QED
  BY <1>1, Inductive, PTL
-----------------------------------------------------------------------------
(***************************************************************************)
(* The readers.  A place that no two writers worked on at once holds, in   *)
(* each of its parts, nothing or the same first rows of one writer; what a *)
(* reader has read so far is of that kind, and still true of the place     *)
(* when nobody has changed it since.                                       *)
(***************************************************************************)
Piece(p, w, n) == \A part \in Parts : rows[p][part] \in {{}, RowsOf(w, n)}

Uniform(p) ==
  \/ \A part \in Parts : rows[p][part] = {}
  \/ \E w \in Writers : \E n \in 1..job[w].rows : Piece(p, w, n)

IUniform == \A p \in Places : Calm(p) => Uniform(p)

Shapes(p) == {x \in rows[p]["shp"] : \E y \in rows[p]["shx"] : x[1] = y[1]}

ReadSoFar(r, p) ==
  /\ at[r] = "attributes" =>
       FormatOf[p] = "shapefile" /\ (got[r] = Shapes(p) \/ r \in disturbed)
  /\ at[r] \in {"select", "crs"} => FormatOf[p] = "geopackage"
  /\ at[r] = "crs" /\ Calm(p) /\ got[r] # {} =>
       \E w \in Writers :
         /\ \E n \in 1..job[w].rows : got[r] = RowsOf(w, n)
         /\ r \in disturbed \/ (crs[p] = SrsOf(job[w]) /\ crs[p] \in known[FileOf[p]])

IReading == \A r \in Readers : ReadSoFar(r, target[r].place)

RInv == IInv /\ IUniform /\ IReading /\ ReadsOneWriter

LEMMA PieceIsUniform ==
  ASSUME NEW p \in Places, NEW w \in Writers, job[w].rows \in Nat,
         NEW n \in 0..job[w].rows, Piece(p, w, n)
  PROVE  Uniform(p)
<1>1. CASE n = 0
  BY <1>1, OfWriter DEF Piece, Uniform
<1>2. CASE n # 0
  BY <1>2 DEF Uniform
<1> QED
  BY <1>1, <1>2

\* Emptying a part, or leaving all of them as they are, keeps the others uniform.
LEMMA EmptiedIsUniform ==
  ASSUME NEW p \in Places, Uniform(p), job' = job,
         \A part \in Parts : rows'[p][part] \in {{}, rows[p][part]}
  PROVE  Uniform(p)'
<1>1. CASE \A part \in Parts : rows[p][part] = {}
  BY <1>1 DEF Uniform
<1>2. ASSUME NEW w \in Writers, NEW n \in 1..job[w].rows, Piece(p, w, n)
      PROVE  Uniform(p)'
  BY <1>2 DEF Uniform, Piece, RowsOf
<1> QED
  BY <1>1, <1>2 DEF Uniform

\* What a call of a writer changes of what readers look at.
LEMMA WriterEffect ==
  ASSUME IInv, NEW w \in Writers, WriterNext(w)
  PROVE  /\ job' = job /\ UNCHANGED reading
         /\ disturbed \subseteq disturbed' /\ overlapped \subseteq overlapped'
         /\ \A f \in Files : known[f] \subseteq known'[f]
         /\ \A p \in Places :
              \/ rows'[p] = rows[p] /\ crs'[p] = crs[p]
              \/ p = Place(w) /\ \A r \in Readers :
                   Reading(r) /\ target[r].place = p => r \in disturbed'
<1>1. CASE Begin(w) \/ Refuse(w) \/ Stop(w)
  BY <1>1 DEF Begin, Refuse, Stop, disk, history
<1>2. CASE Convert(w) \/ Inserted(w)
  BY <1>2 DEF Convert, Inserted, disk, history
<1>3. CASE ~(Begin(w) \/ Refuse(w) \/ Stop(w) \/ Convert(w) \/ Inserted(w))
  <2>1. Disturb(w)
    BY <1>3 DEF WriterNext, Truncate, Write, OpenPart, Flush, WritePrj, EmptyPrj, InsertSrs,
       DropLayer, CreateLayer, Register, InsertFeature
  <2>2. Local(w)
    BY <1>3, TextKeeps, OpenKeeps, FlushKeeps, PrjKeeps, InsertSrsKeeps,
       DropKeeps, CreateKeeps, RegisterKeeps, InsertFeatureKeeps DEF WriterNext
  <2> QED
    BY <2>1, <2>2 DEF Disturb, Local
<1> QED
  BY <1>1, <1>2, <1>3

LEMMA CalmOnlyShrinks ==
  ASSUME job' = job, overlapped \subseteq overlapped', NEW p \in Places, Calm(p)'
  PROVE  Calm(p)
BY DEF Calm, Place

\* The place a writer works on stays uniform, if no other works on it.
LEMMA WriterUniform ==
  ASSUME IInv, IUniform, NEW w \in Writers, WriterNext(w), Calm(Place(w))
  PROVE  Uniform(Place(w))'
<1> DEFINE p == Place(w)
<1>0. p \in Places /\ job[w].rows \in Nat \ {0} /\ job' = job /\ Place(w)' = p
  BY JobFacts, WriterEffect DEF IInv, TypeOK, Place
<1>u. Uniform(p)
  BY <1>0 DEF IUniform
<1>r. rows \in [Places -> [Parts -> SUBSET Row]]
  BY DEF IInv, TypeOK
<1>1. ASSUME NEW n \in 0..job[w].rows, \A part \in Parts : rows'[p][part] \in {{}, RowsOf(w, n)}
      PROVE  Uniform(p)'
  <2>1. CASE n = 0
    BY <1>0, <1>1, <2>1, OfWriter DEF Uniform
  <2>2. CASE n # 0
    <3>1. n \in 1..job'[w].rows
      BY <1>0, <2>2
    <3>2. Piece(p, w, n)'
      BY <1>0, <1>1 DEF Piece, RowsOf
    <3> QED
      BY <3>1, <3>2 DEF Uniform
  <2> QED
    BY <2>1, <2>2
<1>2. ASSUME \A part \in Parts : rows'[p][part] \in {{}, rows[p][part]}
      PROVE  Uniform(p)'
  BY <1>0, <1>2, <1>u, EmptiedIsUniform
<1>3. CASE rows' = rows
  BY <1>2, <1>3
<1>4. CASE Truncate(w) \/ DropLayer(w)
  <2>1. PICK part \in {"data", "table"} : rows' = [rows EXCEPT ![p][part] = {}]
    BY <1>4 DEF Truncate, DropLayer, SetRows
  <2>2. part \in Parts
    BY DEF Parts
  <2> QED
    BY <1>0, <1>2, <1>r, <2>1, <2>2
<1>5. ASSUME NEW part \in {"shx", "dbf", "shp"}, OpenPart(w, part) PROVE Uniform(p)'
  <2>1. rows' = [rows EXCEPT ![p][part] = {}] /\ part \in Parts
    BY <1>5 DEF OpenPart, SetRows, Parts
  <2> QED
    BY <1>0, <1>2, <1>r, <2>1
<1>6. ASSUME NEW part \in {"shx", "dbf", "shp"}, Flush(w, part) PROVE Uniform(p)'
  <2>1. Active(w) /\ Format(w) = "shapefile"
    BY <1>6, FlushEffect
  <2>2. Sole(w)
    BY <2>1, CalmIsSole DEF IInv
  <2>3. \A q \in Parts : rows'[p][q] \in {{}, RowsOf(w, progress[w])}
    BY <1>6, <2>1, <2>2, FlushOwnRows
  <2>4. progress[w] \in 0..job[w].rows
    BY <1>0, ProgressType DEF IInv, ISteps
  <2> QED
    BY <1>1, <2>3, <2>4
<1>7. CASE Write(w)
  <2>1. Active(w) /\ pc[w] = "write" /\ Format(w) \in {"csv", "geojson"}
    <3>1. Active(w) /\ pc[w] = "write"
      BY <1>7 DEF Write, Active, Outcomes
    <3> QED
      BY <3>1, FormatOfStep DEF IInv
  <2>2. Sole(w)
    BY <2>1, CalmIsSole DEF IInv
  <2>3. rows[p]["data"] = {}
    BY <2>1, <2>2 DEF IInv, ISole, Fresh, FreshText
  <2>4. PICK n \in 0..job[w].rows : rows' = [rows EXCEPT ![p]["data"] = RowsOf(w, n)]
    BY <1>7, <2>3 DEF Write, SetRows, Over
  <2>5. \A part \in Parts : part # "data" => rows[p][part] = {}
    BY <1>0, <2>1, PartsOfFormats DEF IInv, IParts, Format
  <2>6. \A part \in Parts : rows'[p][part] \in {{}, RowsOf(w, n)}
    BY <1>0, <1>r, <2>4, <2>5
  <2> QED
    BY <1>1, <2>6
<1>8. CASE InsertFeature(w)
  <2>1. pc[w] = "insert" /\ pc[w] \in StepsOf["geopackage"]
    BY <1>8, StepSets DEF InsertFeature
  <2>2. /\ Sole(w) /\ FreshLayer(w)
        /\ progress[w] \in Nat /\ progress[w] < job[w].rows
        /\ \A q \in Parts \ {"table"} : rows[p][q] = {}
    BY <1>8, <2>1, LayerFacts DEF InsertFeature
  <2>3. progress'[w] = progress[w] + 1 /\ rows[p]["table"] = RowsOf(w, progress[w])
    BY <1>8, <2>1, <2>2, ProgressType DEF InsertFeature, IInv, FreshLayer
  <2>4. rows' = [rows EXCEPT ![p]["table"] = RowsOf(w, progress[w] + 1)]
    <3>1. RowsOf(w, progress[w] + 1) = RowsOf(w, progress[w]) \cup {<<progress[w] + 1, w>>}
      BY <2>2, OfWriter
    <3>2. rows' = [rows EXCEPT ![p]["table"] = rows[p]["table"] \cup {<<progress[w] + 1, w>>}]
      BY <1>8, <2>3 DEF InsertFeature, SetRows
    <3> QED
      BY <2>3, <3>1, <3>2
  <2>5. \A part \in Parts : rows'[p][part] \in {{}, RowsOf(w, progress[w] + 1)}
    BY <1>0, <1>r, <2>2, <2>4
  <2>6. progress[w] + 1 \in 0..job[w].rows
    BY <1>0, <2>2
  <2> QED
    BY <1>1, <2>5, <2>6
<1>9. \/ rows' = rows \/ Truncate(w) \/ DropLayer(w) \/ Write(w) \/ InsertFeature(w)
      \/ \E part \in {"shx", "dbf", "shp"} : OpenPart(w, part) \/ Flush(w, part)
  BY DEF WriterNext, Begin, Refuse, Stop, Convert, WritePrj, EmptyPrj, InsertSrs, CreateLayer,
     Register, Inserted, disk
<1> QED
  BY <1>3, <1>4, <1>5, <1>6, <1>7, <1>8, <1>9

LEMMA WriterKeepsUniform ==
  ASSUME IInv, IUniform, NEW w \in Writers, WriterNext(w)
  PROVE  IUniform'
<1> SUFFICES ASSUME NEW p \in Places, Calm(p)'
             PROVE  Uniform(p)'
  BY DEF IUniform
<1>1. job' = job /\ Calm(p)
  BY WriterEffect, CalmOnlyShrinks
<1>2. CASE p = Place(w)
  BY <1>1, <1>2, WriterUniform DEF Place
<1>3. CASE p # Place(w)
  <2>1. rows'[p] = rows[p]
    BY <1>3, WriterEffect
  <2> QED
    BY <1>1, <2>1, EmptiedIsUniform DEF IUniform
<1> QED
  BY <1>2, <1>3

\* A reader under way keeps what it has, and what it knows of its place or of its change.
LEMMA WriterKeepsReading ==
  ASSUME IInv, IReading, NEW w \in Writers, WriterNext(w)
  PROVE  IReading'
<1> SUFFICES ASSUME NEW r \in Readers
             PROVE  ReadSoFar(r, target[r].place)'
  BY DEF IReading
<1> DEFINE p == target[r].place
<1>1. /\ job' = job /\ UNCHANGED <<target, at, got, gotCrs>>
      /\ disturbed \subseteq disturbed' /\ overlapped \subseteq overlapped'
  BY WriterEffect DEF reading
<1>2. p \in Places /\ p' = p /\ FileOf[p] \in Files
  BY <1>1 DEF IInv, TypeOK, Files
<1>3. known[FileOf[p]] \subseteq known'[FileOf[p]]
  BY <1>2, WriterEffect
<1>4. Calm(p)' => Calm(p)
  BY <1>1, <1>2, CalmOnlyShrinks
<1>5. \/ rows'[p] = rows[p] /\ crs'[p] = crs[p]
      \/ Reading(r) => r \in disturbed'
  BY <1>2, WriterEffect
<1>6. ReadSoFar(r, p)
  BY DEF IReading
<1>7. at[r] = "attributes" => got[r] = Shapes(p)' \/ r \in disturbed'
  BY <1>1, <1>5, <1>6 DEF ReadSoFar, Shapes, Reading
<1>8. at[r] = "crs" /\ Calm(p) /\ got[r] # {} =>
        \E v \in Writers :
          /\ \E n \in 1..job[v].rows : got[r] = RowsOf(v, n)
          /\ \/ r \in disturbed'
             \/ crs'[p] = SrsOf(job[v]) /\ crs'[p] \in known'[FileOf[p]]
  BY <1>1, <1>3, <1>5, <1>6 DEF ReadSoFar, Reading
<1> QED
  BY <1>1, <1>2, <1>4, <1>6, <1>7, <1>8 DEF ReadSoFar

\* What has been read stays read.
LEMMA WriterKeepsReads ==
  ASSUME IInv, ReadsOneWriter, NEW w \in Writers, WriterNext(w)
  PROVE  ReadsOneWriter'
<1>1. /\ job' = job /\ UNCHANGED <<target, at, got, gotCrs>>
      /\ disturbed \subseteq disturbed' /\ overlapped \subseteq overlapped'
  BY WriterEffect DEF reading
<1>2. \A r \in Readers : target[r].place \in Places
  BY DEF IInv, TypeOK
<1>3. \A r \in Readers : Calm(target[r].place)' => Calm(target[r].place)
  BY <1>1, <1>2, CalmOnlyShrinks
<1> QED
  BY <1>1, <1>3 DEF ReadsOneWriter

-----------------------------------------------------------------------------

\* Two uniform parts that are not empty hold the same rows, and so do the rows they share.
LEMMA SharedRows ==
  ASSUME NEW p \in Places, Uniform(p), NEW part1 \in Parts, NEW part2 \in Parts
  PROVE  LET shared == {x \in rows[p][part1] : \E y \in rows[p][part2] : x[1] = y[1]}
         IN  /\ shared # {} => shared = rows[p][part1] /\ rows[p][part1] = rows[p][part2]
             /\ shared # {} =>
                  \E w \in Writers : \E n \in 1..job[w].rows : shared = RowsOf(w, n)
<1>1. CASE \A part \in Parts : rows[p][part] = {}
  BY <1>1
<1>2. ASSUME NEW w \in Writers, NEW n \in 1..job[w].rows, Piece(p, w, n),
             rows[p][part1] # {}, rows[p][part2] # {}
      PROVE  /\ rows[p][part1] = RowsOf(w, n) /\ rows[p][part2] = RowsOf(w, n)
             /\ {x \in rows[p][part1] : \E y \in rows[p][part2] : x[1] = y[1]} = RowsOf(w, n)
  BY <1>2 DEF Piece
<1> QED
  BY <1>1, <1>2 DEF Uniform

LEMMA OnePiece ==
  ASSUME NEW p \in Places, Uniform(p), NEW part \in Parts, rows[p][part] # {}
  PROVE  \E w \in Writers : \E n \in 1..job[w].rows : rows[p][part] = RowsOf(w, n)
BY DEF Uniform, Piece

\* What a reader's call changes, and what it must establish about itself.
LEMMA ReaderStep ==
  ASSUME RInv, NEW r \in Readers,
         UNCHANGED <<job, disk, history>>,
         \A o \in Readers : o # r =>
           at'[o] = at[o] /\ got'[o] = got[o] /\ gotCrs'[o] = gotCrs[o] /\ target'[o] = target[o],
         ReadSoFar(r, target[r].place)',
         LET p == target'[r].place IN
         (at'[r] = "read" /\ Calm(p) /\ got'[r] # {}) =>
           \/ \E w \in Writers : /\ \E n \in 1..job[w].rows : got'[r] = RowsOf(w, n)
                                 /\ FormatOf[p] = "geopackage" =>
                                      gotCrs'[r] = SrsOf(job[w]) \/ r \in disturbed
           \/ FormatOf[p] = "shapefile" /\ r \in disturbed
  PROVE  IUniform' /\ IReading' /\ ReadsOneWriter'
<1>1. /\ UNCHANGED <<job, rows, crs, known, overlapped, disturbed>>
      /\ \A p : Calm(p)' = Calm(p)
  BY DEF disk, history, Calm, Place
<1>2. IUniform'
  BY <1>1 DEF RInv, IUniform, Uniform, Piece
<1>3. IReading'
  <2> SUFFICES ASSUME NEW o \in Readers, o # r
               PROVE  ReadSoFar(o, target[o].place)'
    BY DEF IReading
  <2>1. ReadSoFar(o, target[o].place)
    BY DEF RInv, IReading
  <2> QED
    BY <1>1, <2>1 DEF ReadSoFar, Shapes
<1>4. ReadsOneWriter'
  <2> SUFFICES ASSUME NEW o \in Readers,
                      at'[o] = "read", Calm(target'[o].place), got'[o] # {}
               PROVE  \/ \E w \in Writers :
                           /\ \E n \in 1..job[w].rows : got'[o] = RowsOf(w, n)
                           /\ FormatOf[target'[o].place] = "geopackage" =>
                                gotCrs'[o] = SrsOf(job[w]) \/ o \in disturbed
                      \/ FormatOf[target'[o].place] = "shapefile" /\ o \in disturbed
    BY <1>1 DEF ReadsOneWriter
  <2>1. CASE o = r
    BY <2>1
  <2>2. CASE o # r
    BY <2>2 DEF RInv, ReadsOneWriter
  <2> QED
    BY <2>1, <2>2
<1> QED
  BY <1>2, <1>3, <1>4

LEMMA ReaderKeeps ==
  ASSUME RInv, NEW r \in Readers, ReaderNext(r)
  PROVE  IUniform' /\ IReading' /\ ReadsOneWriter'
<1> DEFINE p == target[r].place
<1>t. /\ TypeOK /\ p \in Places /\ FormatOf[p] \in Formats
      /\ "data" \in Parts /\ "shp" \in Parts /\ "shx" \in Parts /\ "dbf" \in Parts
      /\ "table" \in Parts
  BY SinksAssumption DEF RInv, IInv, TypeOK, Parts
<1>u. Calm(p) => Uniform(p)
  BY <1>t DEF RInv, IUniform
<1>s. ReadSoFar(r, p)
  BY DEF RInv, IReading
<1>1. ASSUME NEW seen, NEW next, Sees(r, seen, next)
      PROVE  /\ UNCHANGED <<job, disk, history, target, gotCrs>>
             /\ got'[r] = seen /\ at'[r] = next
             /\ \A o \in Readers : o # r => at'[o] = at[o] /\ got'[o] = got[o]
  BY <1>1, <1>t DEF Sees, TypeOK
<1>2. ASSUME ReadError(r)
      PROVE  IUniform' /\ IReading' /\ ReadsOneWriter'
  <2>1. Sees(r, {}, "error")
    BY <1>2 DEF ReadError
  <2>2. ReadSoFar(r, target[r].place)'
    BY <1>1, <2>1 DEF ReadSoFar
  <2> QED
    BY <1>1, <2>1, <2>2, ReaderStep
<1>3. CASE ReadText(r) /\ ~ReadError(r)
  <2>1. Sees(r, rows[p]["data"], "read") /\ FormatOf[p] \in {"csv", "geojson"}
    BY <1>3 DEF ReadText, Content
  <2>2. ReadSoFar(r, target[r].place)'
    BY <1>1, <2>1 DEF ReadSoFar
  <2>3. Calm(p) /\ rows[p]["data"] # {} =>
          \E w \in Writers : \E n \in 1..job[w].rows : rows[p]["data"] = RowsOf(w, n)
    BY <1>t, <1>u, OnePiece
  <2> QED
    BY <1>1, <2>1, <2>2, <2>3, ReaderStep
<1>4. CASE ReadShapes(r) /\ ~ReadError(r)
  <2>1. Sees(r, Shapes(p), "attributes") /\ FormatOf[p] = "shapefile"
    BY <1>4 DEF ReadShapes, Content, Shapes
  <2>2. UNCHANGED <<rows, target>> /\ at'[r] = "attributes" /\ got'[r] = Shapes(p)
    BY <1>1, <2>1 DEF disk
  <2>3. ReadSoFar(r, target[r].place)'
    BY <2>1, <2>2 DEF ReadSoFar, Shapes
  <2> QED
    BY <1>1, <2>1, <2>2, <2>3, ReaderStep
<1>5. CASE ReadAttributes(r) /\ ~ReadError(r)
  <2> DEFINE dbf == rows[p]["dbf"]
             seen == {x \in got[r] : \E y \in dbf : x[1] = y[1]}
                       \cup {y \in dbf : \E x \in got[r] : x[1] = y[1]}
  <2>1. Sees(r, seen, "read") /\ FormatOf[p] = "shapefile"
    BY <1>5, <1>s DEF ReadAttributes, Content, ReadSoFar
  <2>2. ReadSoFar(r, target[r].place)'
    BY <1>1, <2>1 DEF ReadSoFar
  <2>3. ASSUME Calm(p), seen # {}, r \notin disturbed
        PROVE  \E w \in Writers : \E n \in 1..job[w].rows : seen = RowsOf(w, n)
    <3>1. got[r] = Shapes(p)
      BY <1>5, <1>s, <2>3 DEF ReadSoFar, ReadAttributes
    <3>2. got[r] # {} /\ dbf # {}
      BY <2>3
    <3>3. got[r] = rows[p]["shp"]
      BY <1>t, <1>u, <2>3, <3>1, <3>2, SharedRows DEF Shapes
    <3>4. {x \in rows[p]["shp"] : \E y \in rows[p]["dbf"] : x[1] = y[1]} # {}
      BY <2>3, <3>3
    <3>7. rows[p]["shp"] = rows[p]["dbf"]
      BY <1>t, <1>u, <2>3, <3>4, SharedRows
    <3>5. /\ rows[p]["shp"] = dbf
          /\ \E w \in Writers : \E n \in 1..job[w].rows : dbf = RowsOf(w, n)
      BY <1>t, <1>u, <2>3, <3>2, <3>7, OnePiece
    <3>6. seen = dbf
      BY <3>3, <3>5
    <3> QED
      BY <3>5, <3>6
  <2> HIDE DEF seen
  <2> QED
    BY <1>1, <2>1, <2>2, <2>3, ReaderStep
<1>6. CASE ResolveLayer(r)
  <2>1. PICK q \in Places :
          /\ FileOf[q] = FileOf[p]
          /\ target' = [target EXCEPT ![r].place = q]
    BY <1>6 DEF ResolveLayer
  <2>2. /\ FormatOf[p] = "geopackage" /\ at' = [at EXCEPT ![r] = "select"]
        /\ UNCHANGED <<job, disk, got, gotCrs, history>>
    BY <1>6 DEF ResolveLayer
  <2>3. /\ at'[r] = "select" /\ target'[r].place = q
        /\ \A o \in Readers : o # r => at'[o] = at[o] /\ target'[o] = target[o]
    BY <1>t, <2>1, <2>2 DEF TypeOK
  <2>4. FormatOf[q] = "geopackage"
    BY <1>t, <2>1, <2>2, SinksAssumption
  <2>5. ReadSoFar(r, target[r].place)'
    BY <2>3, <2>4 DEF ReadSoFar
  <2> QED
    BY <2>2, <2>3, <2>5, ReaderStep
<1>7. CASE SelectFeatures(r) /\ ~ReadError(r)
  <2>1. Sees(r, rows[p]["table"], "crs") /\ FormatOf[p] = "geopackage"
    BY <1>7, <1>s DEF SelectFeatures, Content, ReadSoFar
  <2>2. Calm(p) /\ rows[p]["table"] # {} =>
          \E w \in Writers :
            /\ \E n \in 1..job[w].rows : rows[p]["table"] = RowsOf(w, n)
            /\ crs[p] = SrsOf(job[w]) /\ crs[p] \in known[FileOf[p]]
    <3> SUFFICES ASSUME Calm(p), rows[p]["table"] # {}
                 PROVE  \E w \in Writers :
                          /\ \E n \in 1..job[w].rows : rows[p]["table"] = RowsOf(w, n)
                          /\ crs[p] = SrsOf(job[w]) /\ crs[p] \in known[FileOf[p]]
      OBVIOUS
    <3>1. PICK w \in Writers : \E n \in 1..job[w].rows : rows[p]["table"] = RowsOf(w, n)
      BY <1>t, <1>u, OnePiece
    <3>2. CrsAt(p)
      BY <1>t DEF RInv, IInv, ICalm
    <3>3. \A x \in rows[p]["table"] : x[2] = w
      BY <3>1 DEF RowsOf
    <3> QED
      BY <2>1, <3>1, <3>2, <3>3 DEF CrsAt
  <2>3. UNCHANGED <<job, rows, crs, known, target, overlapped>>
    BY <1>1, <2>1 DEF disk, history
  <2>4. ReadSoFar(r, target[r].place)'
    BY <1>1, <2>1, <2>2, <2>3 DEF ReadSoFar, Calm, Place
  <2> QED
    BY <1>1, <2>1, <2>4, ReaderStep
<1>8. CASE ReadCrs(r)
  <2>1. /\ UNCHANGED <<job, disk, history, target, got>> /\ at[r] = "crs" /\ at'[r] = "read"
        /\ gotCrs'[r] = IF crs[p] \in known[FileOf[p]] THEN crs[p] ELSE NoCrs
        /\ \A o \in Readers : o # r => at'[o] = at[o] /\ gotCrs'[o] = gotCrs[o]
    BY <1>8, <1>t DEF ReadCrs, TypeOK
  <2>2. ReadSoFar(r, target[r].place)'
    BY <2>1 DEF ReadSoFar
  <2>3. FormatOf[p] = "geopackage"
    BY <1>s, <2>1 DEF ReadSoFar
  <2>4. Calm(p) /\ got[r] # {} =>
          \E w \in Writers :
            /\ \E n \in 1..job[w].rows : got[r] = RowsOf(w, n)
            /\ gotCrs'[r] = SrsOf(job[w]) \/ r \in disturbed
    BY <1>s, <2>1 DEF ReadSoFar
  <2> QED
    BY <2>1, <2>2, <2>4, ReaderStep
<1> QED
  BY <1>2, <1>3, <1>4, <1>5, <1>6, <1>7, <1>8
  DEF ReaderNext, NoLayerFound

LEMMA ReadersInit ==
  ASSUME Init
  PROVE  RInv
<1>1. IUniform
  BY DEF Init, IUniform, Uniform
<1>2. IReading /\ ReadsOneWriter
  BY DEF Init, IReading, ReadSoFar, ReadsOneWriter
<1> QED
  BY <1>1, <1>2, InvInit DEF RInv

LEMMA ReadersNext ==
  ASSUME RInv, [Next]_vars
  PROVE  RInv'
<1>1. IInv'
  BY InvNext DEF RInv
<1>2. ASSUME NEW w \in Writers, WriterNext(w)
      PROVE  IUniform' /\ IReading' /\ ReadsOneWriter'
  BY <1>2, WriterKeepsUniform, WriterKeepsReading, WriterKeepsReads DEF RInv
<1>3. ASSUME NEW r \in Readers, ReaderNext(r)
      PROVE  IUniform' /\ IReading' /\ ReadsOneWriter'
  BY <1>3, ReaderKeeps
<1>4. CASE UNCHANGED vars
  <2>1. /\ UNCHANGED <<job, rows, crs, known, target, at, got, gotCrs, overlapped, disturbed>>
        /\ \A p : Calm(p)' = Calm(p)
    BY <1>4 DEF vars, disk, reading, history, Calm, Place
  <2>2. IUniform'
    BY <2>1 DEF RInv, IUniform, Uniform, Piece
  <2>3. IReading'
    BY <2>1 DEF RInv, IReading, ReadSoFar, Shapes
  <2>4. ReadsOneWriter'
    BY <2>1 DEF RInv, ReadsOneWriter
  <2> QED
    BY <1>1, <2>2, <2>3, <2>4 DEF RInv
<1> QED
  BY <1>1, <1>2, <1>3, <1>4 DEF RInv, Next

\* What a reader gets without an error is one writer's first rows, in their coordinate
\* system unless the place changed while it was reading.
THEOREM ReadersGetOneWriter == Spec => []ReadsOneWriter
<1>1. Init => RInv
  BY ReadersInit
<1>2. RInv /\ [Next]_vars => RInv'
  BY ReadersNext
<1>3. RInv => ReadsOneWriter
  BY DEF RInv
<1> QED
  BY <1>1, <1>2, <1>3, PTL DEF Spec
=============================================================================
