-------------------------------- MODULE Job --------------------------------
(***************************************************************************)
(* One pipeline from its source file to its sink file, or one call of a    *)
(* geoprocessing tool: what is checked before it runs, where each step     *)
(* runs, what the steps hand to each other, what the lineage says of it.   *)
(*                                                                         *)
(* The pipeline is a chain, with a second source to join, and a step may   *)
(* join what an earlier node gave: the order of the nodes of a graph and   *)
(* their waves is the business of modules Dag and Scheduler, a failure     *)
(* half way through a file of Sinks.                                       *)
(***************************************************************************)
EXTENDS Operations

CONSTANTS
  Jobs,   \* the names of the jobs
  JobOf   \* job -> [source, data, other, steps, sink, quality], a step is [name, op, params]

ASSUME JobAssumption ==
  \A j \in Jobs : LET job == JobOf[j]
                  IN  /\ \A fc \in {job.data, job.other} :
                           /\ IsCollection(fc)
                           /\ \A f \in ToSet(fc.features) :
                                \A c \in DOMAIN f.properties : IsValue(f.properties[c])
                      /\ Len(job.steps) \in Nat /\ DOMAIN job.steps = 1..Len(job.steps)
                      /\ \A i \in DOMAIN job.steps :
                           /\ job.steps[i].name \notin {"", "source"}
                           /\ \A k \in DOMAIN job.steps : job.steps[k].name = job.steps[i].name => k = i
                           /\ \A name \in DOMAIN job.steps[i].params : IsToml(job.steps[i].params[name])
                      /\ job.source \in KnownFormats => ~RefusedBy(FormatOf(job.source), job.data)
                      /\ job.quality \in BOOLEAN

VARIABLES
  job,       \* the name of the job
  entry,     \* "run" (the server or the command line), "library" or "tool"
  pc,        \* how far the job has come
  verdict,   \* what /validate says of its manifest
  reason,    \* why it was rejected or failed
  held,      \* what the source and then each step gave, kept by the code or not
  wire,      \* the collection at the engine's last node, properties as JSON
  resident,  \* the steps that run on the engine
  lineage,   \* the records of the run
  out,       \* the file of the sink, once written
  answer,    \* the answer of a geoprocessing tool
  twin       \* "held" and "wire" of a second run over the same source, step by step

vars == <<job, entry, pc, verdict, reason, held, wire, resident, lineage, out, answer, twin>>

Steps == JobOf[job].steps
Step(i) == Steps[i]
Source == Written(FormatOf(JobOf[job].source), JobOf[job].data)
Nothing == Collection(<<>>, NoCrs)
NoFile == Written("geojson", Nothing)
NoAnswer == [status |-> 0, output |-> Nothing]

GpTools == {"buffer", "centroid", "clip", "dissolve", "simplify"}

Init ==
  /\ job \in Jobs
  /\ entry \in {"run", "library", "tool"}
  /\ entry = "tool" => /\ Len(Steps) = 1 /\ Step(1).op \in GpTools
                       /\ JobOf[job].source = "geojson"
  /\ pc = "submitted"
  /\ verdict = "none" /\ reason = "none"
  /\ held = <<>> /\ wire = Nothing /\ resident = {} /\ lineage = <<>>
  /\ out = NoFile /\ answer = NoAnswer
  /\ twin = [held |-> <<>>, wire |-> Nothing]

(***************************************************************************)
(* Before the run.                                                         *)
(***************************************************************************)
UnknownOperation(steps) == \E i \in DOMAIN steps : steps[i].op \notin Operations
\* check_parameters leaves an unknown operation to others.
Lacking(steps) == \E i \in DOMAIN steps : steps[i].op \in Operations /\ Unmet(steps[i].op, steps[i].params)

Verdict(j) ==
  IF UnknownOperation(j.steps) \/ Lacking(j.steps) THEN "operation"
  ELSE IF {j.source, j.sink} \subseteq KnownFormats THEN "ok" ELSE "format"

\* A run is checked less than /validate checks it, and a caller of the library
\* is not checked at all.
Submit ==
  /\ pc = "submitted" /\ entry # "tool"
  /\ verdict' = Verdict(JobOf[job])
  /\ IF entry = "run" /\ Lacking(Steps)
     THEN pc' = "rejected" /\ reason' = "missing parameter"
     ELSE pc' = "reading" /\ UNCHANGED reason
  /\ UNCHANGED <<job, entry, held, wire, resident, lineage, out, answer, twin>>

(***************************************************************************)
(* The run.                                                                *)
(***************************************************************************)
Fail(why) ==
  /\ pc' = "failed" /\ reason' = why
  /\ UNCHANGED <<job, entry, verdict, held, wire, resident, lineage, out, answer, twin>>

\* The steps at the head of the chain that have an element.
Mappable == {i \in DOMAIN Steps : \A k \in 1..i : HasElement(Step(k).op, Step(k).params)}

ReadSource ==
  /\ pc = "reading"
  /\ IF JobOf[job].source \notin KnownFormats
     THEN Fail("unknown format")
     ELSE LET fc == ReadFrom(Source)
          IN  /\ held' = <<fc>>
              /\ resident' = IF Admissible(fc) THEN Mappable ELSE {}
              /\ wire' = IF resident' # {} THEN OverProperties(fc, ToJson) ELSE Nothing
              /\ twin' = [held |-> held', wire |-> wire']
              /\ pc' = "running"
              /\ UNCHANGED <<job, entry, verdict, reason, lineage, out, answer>>

At == Len(held)
Given == held[At]

Record(i, input, output) ==
  [node |-> i, passthrough |-> Step(i).op \in KeepsOrder,
   count |-> Len(output.features), inputCount |-> Len(input.features)]

\* What a pull gives back has the crs that the source had.
Pulled(fc) == Collection(OverProperties(fc, FromJson).features, held[1].crs)

\* The nodes before step i that it joins: the source is 1, and n + 1 is step n.
NodeName(n) == IF n = 1 THEN "source" ELSE Step(n - 1).name
JoinNodes(i) == {n \in 1..i : NodeName(n) = JoinInput(Step(i).params)}
JoinOf(i, results) ==
  IF JoinNodes(i) = {} THEN JobOf[job].other ELSE results[CHOOSE n \in JoinNodes(i) : TRUE]

\* The same step in the second run, whose HashMaps may have another order.
Rerun ==
  LET op == Step(At).op
      params == Step(At).params
  IN  IF At \in resident
      THEN {[held |-> Append(twin.held, Pulled(fc)), wire |-> fc] : fc \in Element(op, params, twin.wire)}
      ELSE {[twin EXCEPT !.held = Append(@, fc)] :
              fc \in Results(op, params, twin.held[At], JoinOf(At, twin.held))}

\* Mutant: a step is not recorded when it gives nothing.
Give_Unrecorded(result, pulled) ==
  /\ held' = Append(held, result) /\ wire' = pulled
  /\ lineage' = IF result.features = <<>> THEN lineage ELSE Append(lineage, Record(At, Given, result))
  /\ twin' \in Rerun
  /\ UNCHANGED <<job, entry, pc, verdict, reason, resident, out, answer>>

\* A step ends with its lineage and its result; "pulled" is what the engine is
\* left with.
Give(result, pulled) ==
  /\ held' = Append(held, result) /\ wire' = pulled
  /\ lineage' = Append(lineage, Record(At, Given, result))
  /\ twin' \in Rerun
  /\ UNCHANGED <<job, entry, pc, verdict, reason, resident, out, answer>>

\* Something off the engine takes what step i gives: the next step or the sink.
FeedsOffEngine(i) == i + 1 \notin resident

\* Mutant: the gate passes over what was not built.
PullResident_Lenient ==
  /\ pc = "running" /\ At \in DOMAIN Steps /\ At \in resident
  /\ \E fc \in Element(Step(At).op, Step(At).params, wire) :
       IF JobOf[job].quality /\ FeedsOffEngine(At) /\ ~Quality(Pulled(fc))
       THEN Fail("invalid geometry")
       ELSE Give(Pulled(fc), fc)

\* The gate of the engine looks at the collection that the pull built, if any.
PullResident ==
  /\ pc = "running" /\ At \in DOMAIN Steps /\ At \in resident
  /\ \E fc \in Element(Step(At).op, Step(At).params, wire) :
       LET built == FeedsOffEngine(At) \/ JobOf[job].quality
       IN  CASE JobOf[job].quality /\ ~built -> Fail("not materialized")
             [] JobOf[job].quality /\ built /\ ~Quality(Pulled(fc)) -> Fail("invalid geometry")
             [] OTHER -> Give(Pulled(fc), fc)

\* What the steps on the engine alone take is not there to be joined.
CannotJoin(i) == Step(i).op \in Operations /\ JoinNodes(i) \cap resident # {}

\* The gate of the threads has the result at hand.
RunLocal ==
  /\ pc = "running" /\ At \in DOMAIN Steps /\ At \notin resident
  /\ LET why == IF CannotJoin(At) THEN "join not available"
                ELSE Failure(Step(At).op, Step(At).params, Given)
     IN  IF why # "none"
         THEN Fail(why)
         ELSE \E result \in Results(Step(At).op, Step(At).params, Given, JoinOf(At, held)) :
                IF JobOf[job].quality /\ ~Quality(result)
                THEN Fail("invalid geometry")
                ELSE Give(result, wire)

WriteSink ==
  /\ pc = "running" /\ At = Len(Steps) + 1
  /\ LET format == FormatOf(JobOf[job].sink)
     IN  CASE format \notin FormatNames -> Fail("unknown format")
           [] format \in FormatNames /\ RefusedBy(format, Given) -> Fail("refused")
           [] OTHER -> /\ out' = Written(format, Given)
                       /\ pc' = "done"
                       /\ UNCHANGED <<job, entry, verdict, reason, held, wire, resident, lineage, answer, twin>>

(***************************************************************************)
(* A geoprocessing tool: the parameters it hands on are those it names.    *)
(***************************************************************************)
GpReads ==
  [buffer |-> << <<"distance", "number">> >>, centroid |-> <<>>, clip |-> ReadsOf.clip,
   dissolve |-> << <<"group_by", "string">> >>, simplify |-> << <<"epsilon", "number">> >>]

\* Mutant: simplify hands its epsilon on as a tolerance.
GpForwarded_Tolerance(tool, params) ==
  IF tool = "simplify" THEN "tolerance" :> P("Float", params["epsilon"].text)
  ELSE [name \in {GpReads[tool][i][1] : i \in DOMAIN GpReads[tool]} |->
          IF HasType(params[name], "number") THEN P("Float", params[name].text) ELSE params[name]]

GpForwarded(tool, params) ==
  [name \in {GpReads[tool][i][1] : i \in DOMAIN GpReads[tool]} |->
     IF HasType(params[name], "number") THEN P("Float", params[name].text) ELSE params[name]]

GpParsed(file) == Collection(ReadFrom(file).features, NoCrs)
GpOutput(fc) ==
  OverProperties(fc, LAMBDA v : IF v = V("Float", "NaN") THEN NullValue ELSE ToJson(v))

AnswerTool ==
  /\ pc = "submitted" /\ entry = "tool"
  /\ LET tool == Step(1).op
         params == Step(1).params
         input == GpParsed(Source)
         Answer(status, output) == answer' = [status |-> status, output |-> output]
     IN  IF \E i \in DOMAIN GpReads[tool] :
              LET name == GpReads[tool][i][1]
              IN  name \in DOMAIN params => ~HasType(params[name], GpReads[tool][i][2])
         THEN Answer(400, Nothing)
         ELSE LET forwarded == GpForwarded(tool, params)
              IN  IF Failure(tool, forwarded, input) # "none"
                  THEN Answer(500, Nothing)
                  ELSE \E result \in Results(tool, forwarded, input, Nothing) :
                         Answer(200, GpOutput(result))
  /\ pc' = "answered"
  /\ UNCHANGED <<job, entry, verdict, reason, held, wire, resident, lineage, out, twin>>

Next == Submit \/ ReadSource \/ PullResident \/ RunLocal \/ WriteSink \/ AnswerTool
Spec == Init /\ [][Next]_vars

(***************************************************************************)
(* The properties.                                                         *)
(***************************************************************************)
\* Every variable has a value of its kind, and what is held is as long as the
\* lineage of the steps that gave it.
TypeOK ==
  /\ job \in Jobs
  /\ entry \in {"run", "library", "tool"}
  /\ pc \in {"submitted", "rejected", "reading", "running", "done", "failed", "answered"}
  /\ verdict \in {"none", "ok", "operation", "format"}
  /\ \A i \in DOMAIN held : IsCollection(held[i])
  /\ resident \subseteq DOMAIN Steps
  /\ held # <<>> => Len(lineage) = Len(held) - 1
  /\ out.format \in FormatNames
  /\ answer.status \in {0, 200, 400, 500}
  /\ \A i \in DOMAIN twin.held : IsCollection(twin.held[i])
  /\ Len(twin.held) = Len(held)

\* /validate and the run agree: a manifest it accepts does not fail for what it
\* checks, and one that it turns down never runs to its end, whoever runs it
\* and wherever its steps run.  Two tables must agree for that, the catalogue
\* that validation reads and the reads of each operation.
VerdictIsRight ==
  /\ verdict = "ok" => reason \notin {"missing parameter", "unknown operation", "unknown format"}
  /\ verdict = "ok" /\ reason = "no join dataset" =>
       \E i \in DOMAIN Steps : Step(i).op = "spatial_join" /\ "join" \in DOMAIN Step(i).params
  /\ verdict \in {"operation", "format"} => pc # "done"

\* A step that ran on the engine gave what the operation itself would have
\* given: types and texts of the properties come back through JSON, and the
\* engine is only asked for what it can do (CHANGELOG, "the same answer").  The
\* one exception is a filter that meets a float within f64::EPSILON of its
\* parameter: the operation keeps it, and the engine only what is equal.
SameAnswerEitherWay ==
  \A i \in resident : i + 1 \in DOMAIN held =>
    IF Blurred(Step(i).op, Step(i).params, held[i])
    THEN held[i + 1] = Told(Step(i).params, held[i])
    ELSE held[i + 1] \in Results(Step(i).op, Step(i).params, held[i], JoinOf(i, held))

\* Where the lineage maps features by their index, the features with that index
\* are made of the same features of the source; elsewhere it counts them right.
LineageIsTrue ==
  \A k \in DOMAIN lineage :
    LET record == lineage[k]
        input == held[record.node].features
        output == held[record.node + 1].features
    IN  /\ record.count = Len(output) /\ record.inputCount = Len(input)
        /\ record.passthrough =>
             /\ DOMAIN output = DOMAIN input
             /\ \A i \in DOMAIN output : output[i].from = input[i].from

\* The two gates are one: with quality on no step hands on an invalid geometry,
\* so a sink after a step writes none; a pull that is checked has always been
\* built; and a run dies of an invalid geometry only where the operation itself
\* gives one, on the engine or off it.
GateHolds ==
  /\ JobOf[job].quality =>
       /\ \A i \in DOMAIN held : i > 1 => Quality(held[i])
       /\ pc = "done" /\ Len(Steps) > 0 => \A i \in DOMAIN out.rows : Valid(out.rows[i].geometry)
  /\ reason # "not materialized"
  /\ reason = "invalid geometry" =>
       /\ JobOf[job].quality
       /\ \E result \in Results(Step(At).op, Step(At).params, Given, JoinOf(At, held)) : ~Quality(result)

\* A dissolve is among the steps that held[i] comes of.
AfterDissolve(i) == \E k \in 1..i - 1 : Step(k).op = "dissolve"

\* Step i gives what depends on the order of a HashMap: two columns of a feature
\* get one name; a group of dissolve without a polygon keeps the first geometry,
\* or a feature is joined to the first of its matches, and an earlier dissolve
\* has ordered them.
Undetermined(i) ==
  LET params == Step(i).params
      features == ToSet(held[i].features)
      Key(f) == GroupKey(f, Text(params, "group_by", ""))
      Matches(f) == {g \in ToSet(JoinOf(i, held).features) :
                       Related(f.geometry, g.geometry, Text(params, "join_type", "intersects"))}
  IN  CASE Step(i).op = "schema_map" ->
             \E f \in features : \E c, d \in DOMAIN f.properties \ Dropped(params) :
               Renamed(params, c) = Renamed(params, d) /\ f.properties[c] # f.properties[d]
        [] Step(i).op = "dissolve" ->
             /\ AfterDissolve(i)
             /\ \E f, g \in features :
                  /\ Key(f) = Key(g) /\ f.geometry # g.geometry
                  /\ \A h \in features : Key(h) = Key(f) => h.geometry.type # "Polygon"
        [] Step(i).op = "spatial_join" ->
             /\ \E n \in JoinNodes(i) : AfterDissolve(n)
             /\ \E f \in features : \E g, h \in Matches(f) : g.properties # h.properties
        [] OTHER -> FALSE

\* Two runs of a manifest over the same source give the same: up to the first
\* dissolve in the same order too, and after it, whatever order its HashMap had
\* in either run, the same features, as long as no step is undetermined.
RunsAreRepeatable ==
  \A i \in DOMAIN held :
    (\A k \in 1..i - 1 : ~Undetermined(k)) =>
      /\ SameFeatures(held[i], twin.held[i])
      /\ ~AfterDissolve(i) => held[i] = twin.held[i]

\* What a format loses it loses the first time: a file that is read and written
\* again in its format is not refused and does not change any more.
ConversionsSettle ==
  pc = "done" =>
    LET again == ReadFrom(out)
    IN  /\ ~RefusedBy(out.format, again)
        /\ ReadFrom(Written(out.format, again)) = again

\* The collections that the README says a format can carry.
Uniform(fc, kinds) ==
  \A c \in Columns(fc) : /\ Cardinality(KindsIn(fc, c)) <= 1 /\ KindsIn(fc, c) \subseteq kinds
                          /\ \A f \in ToSet(fc.features) : c \in DOMAIN f.properties
AllValues(fc) == UNION {{f.properties[c] : c \in DOMAIN f.properties} : f \in ToSet(fc.features)}
Carries(format, fc) ==
  CASE format = "csv" ->
         /\ fc.crs = Wgs84
         /\ \A c \in Columns(fc) : Lower(c) = c
         /\ Uniform(fc, {"Integer", "Float", "String"}) /\ NullValue \notin AllValues(fc)
         /\ \A v \in AllValues(fc) : v.kind = "String" => ~ParsesAsFloat(v.text)
    [] format = "geojson" -> fc.crs = Wgs84 /\ V("Float", "NaN") \notin AllValues(fc)
    [] format = "geopackage" ->
         /\ fc.crs \in EpsgCrs
         /\ Columns(fc) = Kept(Columns(fc))
         /\ Uniform(fc, {"Integer", "Float", "String"}) /\ V("Float", "NaN") \notin AllValues(fc)
    [] format = "shapefile" ->
         /\ fc.crs = NoCrs
         /\ \A g \in Geometries(fc) : g.type \in {"Point", "LineString", "Polygon"}
         /\ Uniform(fc, {"Float", "String"})
         /\ AllValues(fc) \cap {V("String", ""), V("Float", Tiny)} = {}

\* A collection that a format can carry comes back from its file as it was.
RoundTrips ==
  pc = "done" /\ Carries(out.format, Given) => ReadFrom(out) = Given

\* A tool answers what a pipeline step with the same parameters gives over the
\* same GeoJSON; it turns down what the catalogue would, and fails inside when
\* the step would: where buffer finds no plane.  dissolve is an exception: the
\* tool needs the group_by that the catalogue calls optional.
GpGivesTheRunsAnswer ==
  pc = "answered" =>
    LET op == Step(1).op
        params == Step(1).params
        input == GpParsed(Source)
    IN  /\ answer.status = 500 <=> Failure(op, params, input) = "no projection"
        /\ op # "dissolve" => (answer.status = 400 <=> ParamError(op, params) # "none")
        /\ op # "dissolve" /\ Unmet(op, params) => answer.status = 400
        /\ answer.status = 200 =>
             /\ Failure(op, params, input) = "none"
             /\ answer.output \in {GpOutput(fc) : fc \in Results(op, params, input, Nothing)}

\* "Group features by a property value and union each group's geometry"
\* (registry.rs): what the polygons of a group cover, its feature covers.
DissolveKeepsArea ==
  \A i \in DOMAIN Steps :
    i + 1 \in DOMAIN held /\ Step(i).op = "dissolve" =>
      \A whole \in ToSet(held[i + 1].features) : \A f \in ToSet(held[i].features) :
        f.from \subseteq whole.from /\ Polygonal(f.geometry) =>
          f.geometry.cells \subseteq whole.geometry.cells
=============================================================================
