# Verification of geodukt

geodukt runs pipelines over geographic data: a TOML manifest names sources,
transforms and sinks, the program turns it into a graph and executes the graph
wave by wave, part of it on the geoplumb engine and the rest on local threads.
An HTTP server executes manifests for its callers and keeps a history of runs.

This directory holds TLA+ models of that program, the TLC runs that check them
on small instances and TLAPS proofs that hold for every instance. The models
are read off the Rust source; `PROJECT.json` maps every definition to the lines
it stands for.

## Inventory

| part | state it keeps | operations | hard behaviour |
|---|---|---|---|
| graph (`geodukt-core/src/dag.rs`) | nodes, edges, name index | `from_manifest`, `topological_order`, `execution_waves` | three kinds of rejection found by three passes; counting parents down to zero |
| wave scheduler (`scheduler.rs`) | collections (`Run::data`), report, lineage | `execute`, `wave`, `pull_resident`, `run_local` | parallel reads, transforms and writes; decisions taken waves before they matter; five ways to fail, each with its own report |
| engine router (`routing.rs`) | which node is on which engine | `admit_source`, `is_resident`, `feeds_off_engine`, `pull` | what stays on the engine is not in `Run::data` and must never be wanted there |
| pipeline (`pipeline.rs`) | graph and manifest | `plan`, `validate`, `execute` | skipping unchanged runs, state written around the run |
| incremental state (`incremental.rs`) | source name to content hash, in a file | `load`, `changed_sources`, `update`, `save` | one file for all runs of a directory, no lock, written in place, hashed late |
| lineage (`lineage.rs`) | per node, output to input feature ids | `record_node`, `record_passthrough`, `trace` | counts must match between nodes |
| quality, schema (`quality.rs`, `schema.rs`) | none | rules over a collection | pure; the gate must hold for what the engine gives back too |
| operations (`geodukt-transforms`) | none | filter, clip, buffer, dissolve, spatial_join, expressions... | the catalogue and the reads of each operation are two tables; three operations exist a second time, on the engine; HashMaps; geometry in floating point |
| formats (`geodukt-io`) | none | what each format keeps of a value, a column, a shape, a coordinate system | a value changes its type on the way; what is refused, what is lost silently |
| files (`geodukt-io`) | the files themselves | readers and writers of CSV, GeoJSON, GeoPackage, shapefile | a layer replaced statement by statement, a shapefile of several files, concurrent writers, partial writes |
| run API (`geodukt-server/src/lib.rs`) | none of its own | `trigger_run`, `list_runs`, `get_run` | a run outlives its request; panics; the record comes after the outputs |
| run history (`runs.rs`) | a sqlite table | `record`, `list`, `get` | several processes on one file; insert, then fill in under the given id |
| access (`auth.rs`, `caller_roots.rs`) | configuration | who may run, who sees which run, which paths a manifest may name | |
| geoprocessing tools (`gp_tools.rs`) | none | buffer, centroid, clip, dissolve, simplify over HTTP | a second way to the same operations, with checks of its own |
| validation (`validate.rs`) | none | `validate_manifest`, `plan_step` | agrees with `from_manifest` and with execution or misleads |
| command line (`geodukt-cli`) | none | one library call per command | |

How they interact: the run API (or the command line) parses a manifest, confines
its paths, builds a `Pipeline` and calls `execute` on a blocking thread.
`execute` asks the incremental state whether to skip, then hands the graph, the
order and the reader, operations and writer to the scheduler. The scheduler calls
the reader, the operations and the writer from a thread pool, and the router from
its own thread. The report, or the failure with the partial report, goes back up
and becomes the record in the history.

What makes each part correct:

* graph: a manifest is rejected for what is wrong with it and accepted when
  nothing is; the waves are a partition of the nodes, each wave all that can run.
* scheduler and router: a step runs after what it reads and finds it; the report
  names what succeeded, once, in an order that can be replayed; a failure names
  what failed; nothing is written before every source is read; every run returns.
* incremental state: a skipped run would have changed nothing.
* run API and history: every attempt is recorded once, under its own id, and
  seen by those who may see it.
* file writers: after a run a layer holds what the run wrote, other layers what
  they held; a failed run leaves something a reader recognises.
* formats: what a format can carry comes back as it was; what it cannot is lost
  the first time and not a little more with every run.
* operations: the same result on the engine and off it, in a pipeline and as a
  tool, and in every run.
* validation: what it accepts does not fail for what it checks, and what it turns
  down does not run to its end.
* lineage: true of the features, not only of their number.

The hazards of the code, each at its line and with the properties that would
catch it, are listed under `hazards` in `PROJECT.json`.

## Modules

| module | models | checked by |
|---|---|---|
| `Manifest` | a manifest as a value, its parents and ready sets | |
| `Dag` | `Dag::from_manifest` and `Dag::execution_waves` | `MCDag`, `Dag.cfg` |
| `Scheduler` | `ParallelScheduler::execute`, `Run`, `EngineRouter` | `MCScheduler`, `Scheduler*.cfg` |
| `Dataflow` | the abstract promise of a run, no code of its own | as a property of `Scheduler` |
| `SchedulerProofs` | | `tlapm`: types, the inductive invariant, six safety properties; `Scheduler` implements `Dataflow` |
| `DagProofs` | | `tlapm`: types, the inductive invariant and three safety properties |
| `Incremental` | `Pipeline::execute` around the scheduler and `IncrementalState` | `MCIncremental`, `Incremental*.cfg` |
| `IncrementalProofs` | | `tlapm`: types, that a skip rests on completed runs, and when its outputs are fresh |
| `Access` | who may run and who may read what (`auth.rs`), pure | with `RunApi` |
| `RunApi` | `trigger_run`, `list_runs`, `get_run` over `RunStore` | `MCRunApi`, `RunApi*.cfg` |
| `History` | the abstract promise of a run history in a file | as a property of `RunApi` |
| `Sinks` | the calls of the four writers and readers, one by one | `MCSinks`, `Sinks.cfg` |
| `SinksProofs` | | `tlapm`: types, the inductive invariant and four safety properties |
| `Collections` | values, geometries, features, the rule of the quality gate, pure | with `Job` |
| `Formats` | what each format makes of a collection, pure | with `Job` |
| `Operations` | the catalogue, the ten operations and the three engine elements, pure | with `Job` |
| `Job` | one pipeline from file to file, or one call of a tool | `MCJob`, `Job*.cfg` |
| `FormatsProofs` | | `tlapm`: lemmas about collections and formats, and that every format settles |
| `OperationsProofs` | | `tlapm`: lemmas about the operations and the engine's elements |
| `JobProofs` | | `tlapm`: types, the inductive invariant and the safety properties of `Job` |
| `RunApiProofs` | | `tlapm`: types, the inductive invariant, four safety properties; `RunApi` implements `History` |

`Job` EXTENDS `Operations`, which extends `Formats`, which extends `Collections`.
`Scheduler` composes the wave loop with the router, because the two share the
question where a collection is. It takes the waves as `Ready` sets
(`Manifest`); that the counting in `execution_waves` produces those sets is
`WavesAreReadySets` of `Dag`.

### Scheduler

| variable | code |
|---|---|
| `m` | the manifest inside the `Dag` |
| `order` | `Run::order`, as positions |
| `phase` | the place in `execute` and `wave`: between waves, reading sources, admitting and working, returned |
| `finished`, `wave` | the waves done and the one under way |
| `resident` | the vector `resident` of `wave` |
| `call` | what the call made for a node has come to: the `Vec` of read results, `LocalOutcome::error`, the result of a pull |
| `data` | the keys of `Run::data` |
| `owner` | `EngineRouter::owner`, with the source in place of the engine's index |
| `steps`, `failed`, `notRun` | the report, and the fields of `ExecutionFailure` |

One wave is: `BeginWave` classifies its nodes; `StartRead` and `FinishRead` are
the parallel reads; `CollectReads` or `CollectFailedRead` looks at the results;
`AdmitOffEngine`, `AdmitOnEngine` or `AdmitFails` takes the sources by name;
`PullResident` or `PullFails` the resident transforms by name; `StartLocal`,
`FinishLocal` and `FailLocal` are the parallel local steps; `EndWave` or
`EndFailedWave` records them. A parallel call has a start and a return, so
that every interleaving of the calls of a wave is a behaviour. Names are numbers,
their rank in byte order, because the code sorts by name.

Abstracted: what a collection holds (only whether it is there), which operation a
transform has (only whether it maps to an engine element, `mappable`), why
a call fails, feature counts and lineage. A quality check is one more reason for
a step to fail. All of that is what `Job` has instead.

A source that could not be read is reported under the name in its reader's error
(`scheduler.rs:97`), and readers put a fixed word there, `geopackage` or `shapefile`,
or the path of the file. `ErrorNames` are these names. Nothing keeps a node of the
manifest from being called so, and `ReadersNames` makes a sink and a transform or a
second source of them; `NoName` stands for a word that is no node's. Only an unknown
format is reported under the source's own name.

### Dag

A manifest is the sequence of its entries, with names that may repeat and
references that may lead nowhere. The stages are the passes of the code: nodes,
edges, topological sort, then the counting of parents and the wave loop. An
outcome is one of the `DagError`s or a plan. `execution_waves`'s own cycle
check is an outcome too, and `AcceptedIsPlanned` says that it is never reached.

### Incremental

| variable | code |
|---|---|
| `content`, `edits` | the source files, and how often they changed |
| `disk` | `.geodukt/incremental.json`, as `IncrementalState::load` would read it |
| `pc`, `job` | where a run is in `execute`, and the manifest it runs |
| `todo` | the sources the loop of the run has still to visit (checking, reading, hashing) |
| `changed`, `hashes` | whether a changed source was found; `IncrementalState::hashes` |
| `got`, `outputs` | what the run read, and what the outputs of a manifest were made from |

`Load`, `CheckSource` and then `Skip` or `Execute` are the first half of
`execute`; `ReadSource`, `Succeed` and `Fail` stand for the scheduler;
`HashSource`, `OpenState`, `WriteState` and `SaveFails` are the second half, with
`fs::write` split where it empties the file. `Edit` and `Crash` are the
environment. A content stands for its hash, so two contents never collide. Every
source has one file; that only the named file of a shapefile is hashed is listed
as a hazard and not modelled.

### RunApi

| variable | code |
|---|---|
| `pc` | where the handler of a request is: at the `await`, in `RunStore::record`, through |
| `thread` | the blocking task that carries out the run |
| `record` | the `RunRecord` built for the request |
| `mutex` | `RunStore::connection`, one per process |
| `writer`, `table` | sqlite: the write lock of a database and its committed rows |
| `clock`, `crashes` | time, and how often a process died |
| `shown` | what a reader last got from `/runs` or `/runs/{id}` |

A handler is suspended only at the `await` on the run, so that is the only place
where `Disconnect` can drop it; the task it waits for is not stopped. From there
`Lock`, `Insert`, `FillIn`, `Commit` are the statements of `RunStore::record`,
and `StoreFails` is any of them failing, the busy timeout included. The id is
fixed by `Insert`, because the writer of a database is alone. `List` and `Get` are
one step each, because they hold the mutex and one statement reads one snapshot;
`View` is what that statement sees, and it includes the row of the connection's
own open transaction, whose text is still empty before `FillIn`. A database is
a file that several processes open or the memory of one (`DbOf`, `Files`), and a
crash empties the latter. Callers are tokens that verified, or did not (`none`);
verification itself is the `platform-auth` crate and is external.

A record stands for its request, status, subject, id and time; the manifest text
and the steps, whose contents `Scheduler` settles, are left out. The clock moves
when it is read, so that equal millisecond stamps do not occur.

### Sinks

| variable | code |
|---|---|
| `job` | the sink and the collection of a writer: its place, how many rows, which crs and columns, whether the format can take all of them (`fits`) |
| `pc`, `progress` | the call a writer makes next; the features converted or inserted so far |
| `rows` | what is in each file of a place: `data` of CSV and GeoJSON, `shp`, `shx` and `dbf` of a shapefile, `table` of a layer |
| `crs` | the `.prj` of a shapefile, `srs_id` in `gpkg_contents` |
| `columns`, `known` | the columns of a layer's table, the rows of `gpkg_spatial_ref_sys` |
| `target`, `at`, `got`, `gotCrs` | a reader: its file or layer, its next call, what it has |
| `overlapped`, `unflushed`, `latest`, `disturbed` | history, which no action's guard reads but by which the properties are stated |

A text file is `Truncate` and `Write`; a shapefile `OpenPart` three times,
`Convert` (all features, or those before one that cannot be), `Flush` of each
buffer, `WritePrj`; a layer `InsertSrs`,
`DropLayer`, `CreateLayer`, `Register`, `InsertFeature` per feature and `Inserted`.
Every SQL statement commits by itself, as `write_geopackage` opens no transaction.
`Stop` may come between any two calls: the call failed, or the process died. A
flush writes a buffer or loses it, and the writer goes on either way, since dropping
a `BufWriter` ignores errors. `Refuse` is a collection that the format
does not take before it touches the disk. Nothing keeps two writers apart, so
they interleave call by call. A reader of a shapefile reads two files, one of a
layer resolves the layer and then selects its rows and its crs.

### Job

| variable | code |
|---|---|
| `job`, `entry` | the manifest, a chain of steps; whether the server, the library or a geoprocessing tool was called |
| `pc`, `reason` | where the run is; why it was rejected or failed |
| `verdict` | what `validate_manifest` says of the manifest |
| `held` | the collections of the source, then of each step, whether the code keeps or even builds them or not |
| `wire`, `resident` | the collection at the engine's last node, with properties as JSON; the steps that run there |
| `lineage` | the records of `LineageTracker`, one per step |
| `out`, `answer` | the file of the sink; the answer of the tool |
| `twin` | `held` and `wire` of a second run over the same source |

`Submit` is validation and the parameter check of `trigger_run`, which the library
does not make; `ReadSource` the reader and `admit_source`; `PullResident` and
`RunLocal` a step on the engine and off it, each with the gate that the code has in
that place: on the engine a pull is built when something off the engine takes it or
quality is on, and fails when quality is on and it was not built; on a thread the
result is at hand. Both end with `Give`: the lineage record, the collection.
`WriteSink` is the writer, `AnswerTool` a whole tool. Steps have names, so that a
step may join the source or an earlier step; as the parameter `join` is read whatever
the operation, a step of another operation also fails when what it names stays on the
engine (`CannotJoin`).

Every `Give` moves the second run too (`Rerun`). It goes wherever the first goes
and takes the same steps, over its own collections, and picks its own order where
the code goes through a HashMap. Nothing of the first run depends on it.

Abstracted. A value is a kind and a text. A geometry covers cells on a line and
has a form that says whether it is valid (`Collections`); `min_y` and `max_y` of
clip are read and checked but bound nothing. What topoi, projicio and geoplumb
compute is external and works on those cells. Parameters are TOML values, the
query of a tool included; JSON has no NaN, infinities do not occur. Where the code
goes through a HashMap, an operation gives a set of collections, one per order.
Floats are whole numbers, NaN, and `Tiny`, a float other than zero that is less than
`f64::EPSILON` from it: `filter` takes the two for equal, the engine does not (`Close`,
`Element`). On cells `Tiny` is zero, as it is in a `.dbf`, where a number has 8 decimals.
`buffer` lays a plane about the middle of its collection and fails where it cannot,
for which `Planes` says, for each coordinate system, about which cells it can. A feature carries the
features of the source it was made from (`from`), which the program does not know
and against which the lineage is measured.

## Runs

| run | instance | shows |
|---|---|---|
| `Scheduler` | one source, two transforms, one sink in all wirings, joins and mappable sets; two sources, two transforms, one sink; one source, two transforms, two sinks, which may also be read from; every step may fail, and a reader name the sink or another node; fairness | `TypeOK`, `InputsAvailable`, `RoutedAsClassified`, `SinksWaitForSources`, `ReportMatchesExecution`, `ReportedInDependencyOrder`, `FailureIsBounded`, `ImplementsDataflow`, `Terminates` |
| `Dag` | all manifests of 3 entries over clashing and dangling names, and all graphs of 4 entries | verdicts and waves |
| `IncrementalCalm` | three runs of two manifests with their own source names, two edits between runs and never back | `TypeOK`, `SkipWasEarned`, `SkipIsFresh` |
| `RunApiFile` | two servers on a file, two runs on one and one on the other, an editor and an admin reading, each server may crash; fairness | `TypeOK`, `HistoryIsTrue`, `ImplementsHistory`, `Answered` |
| `RunApiMemory` | one server with an in-memory history, three runs, callers of four kinds, a crash | `AnswerIsRecorded`, `ShownStays`, `ShownAreOwn` |
| `Sinks` | three writers and a reader on one file: CSV, GeoJSON, a shapefile (two writers), one layer, two layers | `TypeOK`, `Delivered`, `OneWriter`, `CrsOfRows`, `ReadsOneWriter` |
| `Job` | thirteen collections through every pair of formats, and through 64 chains of up to three steps with the gate on and off; three entries | `TypeOK`, `VerdictIsRight`, `SameAnswerEitherWay`, `LineageIsTrue`, `GateHolds`, `RunsAreRepeatable`, `ConversionsSettle`, `RoundTrips`, `GpGivesTheRunsAnswer` |
| `SchedulerJoin`, `SchedulerBlame`, `IncrementalLate`, `RunApiGone`, `JobDissolve` | | see Findings |

Bounds. Two transforms in a row are the least for a resident transform under
another, for a resident transform read by a local one and for a local one
under a resident; a join needs a second input, which the same two give. Two
sources are needed for admission in turn to matter, two sinks for a wave in
which one write fails while the other succeeds. With two sources
every source is read by something and only one transform has a join, of the other
source or the other transform, and with two sinks there is none, which keeps
`Scheduler` (402514 states) under two minutes; with one source and one sink there
are all joins. `order` ranges over all topological orders. `SchedulerJoin` and
`SchedulerBlame` have the first kind of manifest only.

Three runs are the least for `Incremental`: one whose hashes another loses or
overwrites and one that is skipped. `IncrementalCalm` is calm by its constants:
`EditsInRuns = FALSE` and `Reverts = FALSE` leave out the two changes of a source
that break `SkipIsFresh`, and own names the third way. `SkipWasEarned` needs none
of the three, which its theorem shows. Runs are interchangeable and
only safety is checked, so symmetry is used; `CHECK_DEADLOCK FALSE` because each
run ends and there are no more. Two requests on one server contend for its
connection, one on another for the write lock of the file, which is every
contention there is; `RunApi` stops when all requests are through and nobody may
read, hence `CHECK_DEADLOCK FALSE` there too.

In `Sinks` a larger output comes before a smaller one and a crs with a code before
another and before none, so that what is left behind shows; three writers let a
third come after two that overlapped. The scenarios differ in the file that is
shared, as formats do not touch each other. `Job` has every operation with its
parameters right, missing and of a wrong type, integer and float parameters
against integer and float columns, NaN, booleans, empty texts, columns of mixed
types, names that differ in case, are reserved or too long, each type of
geometry, polygons without area and polygons that simplify leaves too short. Every
chain meets every collection, from a GeoJSON file and, unless it refuses the
collection, from a GeoPackage. One collection has floats next to zero, and filters
that ask for zero and for such a float, on the engine and behind a step that keeps them off
it. Dissolves are followed by a second dissolve and by joins of what they gave, so
that an order can become a difference; steps join the source and earlier steps, on
the engine and off it. No plane lies about one of the cells, the middle of several
collections. In both, `CHECK_DEADLOCK FALSE` because a job ends.
`LOCAL:1` stands for a coordinate system without an EPSG code.

Fairness. In `Scheduler`, `FairSpec` has weak fairness of `Next`: the thread that drives the run
is never blocked by anything but the calls it makes, and the calls (file reads
and writes, computations) return. Nothing else competes for the model's steps, so
one condition is enough. A hanging file system is outside. In `RunApi`, `FairSpec`
has weak fairness of the end of each run, which `Terminates` of `Scheduler` is
about, and of each handler by itself; a mutex is held for a finite number of
steps by a finite number of requests, so nobody can be passed over for ever.

Every property of a passing run has a mutant of the code (operators named
`Definition_Mutation`) that breaks it.

## Proofs

Every safety property and every action property of the runs is proved, and so
are the two refinements; what is not is listed at the end. Each theorem has
the shape `Spec => []Property` and rests on an invariant shown inductive, one lemma per
action.

| assumption | says |
|---|---|
| `ManifestsAssumption`, `RawManifestsAssumption` | what a manifest is; for the scheduler, what `Dag::from_manifest` has checked |
| `IncrementalAssumption`, `RunApiAssumption`, `NoRecordAssumption` | the constants have their kinds |
| `SinksAssumption` | places, rows and collections have their kinds; a file has one format, by its name |
| `CollectionsAssumption`, `FormatsAssumption`, `OperationsAssumption` | cells are an interval of the integers, lower case is idempotent, the empty text is not too wide, the tables have their kinds |
| `TextsAssumption` | the texts of integers and of floats differ, different numbers have different texts, `NaN` is the text of none |
| `JobAssumption` | a source was read from a file that its format could hold; its values and those of a joined dataset are values of the model; parameters are TOML values |

`TLC` evaluates each of them on the instances of the runs.

### Scheduler

The proofs hold for every set of manifests that satisfies `ManifestsAssumption`,
of any finite size, for every `MayFail` and for whatever names readers put in their
errors (`ErrorNames`).

`IInv` is inductive. Its parts:

* `IWave`: the wave under way is the ready set of what is finished.
* `ISources`: sources have no parents, so all are in the first wave. With it,
  admission never happens once a transform has run, and the router is fixed after
  the first wave.
* `ICalls`: what is finished succeeded, what is beyond the wave was not called.
* `IRouting`: a transform is resident exactly when it is mappable and its input
  is resident. This is the fixpoint `admit_source` computes.
* `IClassified`: the split made when the wave began agrees with the router.
* `IKept`: a collection that has been dealt with is in `data`, or on the engine
  with everything that reads it as its input.

`InputsAvailable` alone is not inductive: whether a collection is kept depends on
where its readers will be waves later, which `IRouting` settles once the sources
are in. `RoutedAsClassified` follows because admission happens only in the first
wave, which holds no transform. `SinksWaitForSources` follows from `ISources` and
`ICalls`.

`Refinement` maps a node to `done` when its call succeeded and to `broken` when it
failed. Its one non-local step is `Complete`: an empty ready set means that all
nodes are finished, because otherwise the unfinished node earliest in `order`
would have only finished parents. That step takes the least element from
well-foundedness of the naturals.

`ReportIsExact` and `ReportIsInDependencyOrder` need `IReport`, which says what
the report lacks while a wave is under way (`Unreported`), and `ILocalWaits`: no
local step was called before the resident ones were done. `FailuresAreBounded`
needs, for each place where a run may fail, that the name is that of a failed
step, or that nothing is reported yet and only reads were made (`FailRunIsBounded`).
The latter is the case of a reader that names another node: sources are read in the
first wave, which holds nothing else (`ReadsComeFirst`). The theorem does not say that
the step blamed did fail, which is false (`SchedulerBlame`, see Findings).

### Dag

`DagProofs` holds for every manifest of any length, with names repeated and
references that lead nowhere. While waves are made, `remaining` of a node counts its
parents that are in no wave yet, and the next wave is the set of those that
count zero; with the edges acyclic in the order that the topological sort found, the
least node in no wave has none left, so the loop cannot stop early. That gives
`WavesAreExact` and, with it, that the check for a cycle in `execution_waves` is
never the one that answers (`PlansAreComplete`). `VerdictIsSound` needs
that the name index holds the last entry of a name and that each pass has looked
at all entries before its own.

### Incremental

`SkippingIsEarned` (`IncrementalProofs`) holds for any number of runs, manifests,
names and edits, shared names and reverts included. Its invariant `IAccounted`
says that every hash on disk or loaded was taken by a run that completed, or is
none; it survives lost updates and garbled files because these only take hashes
away, and a completed run never changes its own.

That a completed run is also fresh is not true in general (see Findings).
`SkipsAreFresh` states when it is: no source changes while a run is under way, none
goes back to a content it had, and no two manifests share the name of a source
(`Calm`). Contents are numbered as they come, so of two contents of a source the later
is the larger. The hash that is compared with was then taken by a completed run of
the manifest itself; what the outputs were made from is never older than that hash
(`IStill`) and never newer than the file, and a hash that equals the file leaves
no room between the two (`IForward`). `CInv` joins these with the invariant above.

### RunApi

The proofs about `RunApi` hold for any number of servers, databases, requests,
readers and crashes. The inductive invariant has `ILocks`, by which a handler
inside `RunStore::record` holds the connection of its server, and with it the
write lock once it has inserted; `IFilled`, by which a record that is filled in
carries the next id and the latest time; `ITable`, by which a row is the record of
an answered run; and `IShown`. Two records of one file are never in the making at
the same time, which gives `HistoryIsTrue`. A reader holds the mutex, so no
transaction is open on the connection (`CommittedView`), which gives `ShownStays`
and the reading steps of `Refinement`. `Refinement` maps the history to the
committed rows of every file and an answer to the record of a committed request;
`Commit` is the one step that appends, everything else stutters, a crash included.

### Sinks

The proofs about `Sinks` hold for any number of writers, readers, places, rows and
crashes. The invariant says at every call of a writer what its place holds
(`ISole`): nothing after the truncation, the rows converted so far after that,
or, for a shapefile, nothing where a flush was lost. That is true of a writer that
began last and was not overlapped (`Sole`); `IAlone` says that whoever is under way
either is alone or was overlapped together with the last to begin, so that a
place on which nobody ever overlapped has at most one writer under way. `ICalm` is then
what a crash leaves on such a place: rows of one writer, and a layer registered with
their crs. `IParts` keeps the parts of other formats empty. `Delivered` follows
from `ISole` at the last call, `OneWriter` and `CrsOfRows` from `ICalm`.
`ReadersGetOneWriter` adds what a reader has got so far: rows of one writer as long as
nobody has begun on its place since the reader did (`disturbed`), and for a layer
the crs registered for them; that needs that a file is written in one format only.

### Job

The proofs about `Job` hold for all collections, chains and parameters. `IVerdict`
carries `VerdictIsRight`. It needs `IRan`, that every step that has run was known and
had its parameters, which rests on the agreement of the two tables, what the
catalogue requires (`RequiredOf`) and what the operations read (`ReadsOf`):
`ReadIsMet` and `MissingIsUnmet`, one case per operation, and `ElementIsMet` for what
the engine runs. `ILineage` needs `IWire`, that what the engine holds is made
of the features the last step gave, and `OrderIsKept`, that every operation which
says it keeps the order does. `IResident` says that the engine has the head of the
chain, so that a chain that has left it does not come back to a stale collection.

`JobTypes` needs that each of the ten operations gives a collection for a
collection (`ResultIsCollection`, one lemma per operation), whatever values
the parameters have: cells stay cells, kinds stay kinds, features number
from one. Least and greatest cells exist because cells are an interval.

`EngineGivesTheSame` has the invariant that what the engine holds is the last
step's collection as JSON (`Sent`), so that one element of the engine is one
operation off it: each of the three elements commutes with that
conversion (`FilterAgrees`, `SchemaMapAgrees`, `ClipAgrees`), and what comes back is what
was sent (`CollectionReturns`). A filter on the engine gives what is equal to its
parameter (`Told`); that is what the operation gives unless a float lies within
`f64::EPSILON` of the parameter without being it (`Blurred`, `SharpIsExact`), and the property
says what happens in either case. `Exactly` is the one or
the other. `CollectionReturns` holds for values with the texts of
their kind, which is what a reader gives and the three elements keep.

`ToolsAnswerAsRuns` compares what a tool hands on with what it was given: the
same parameters, numbers as floats, of which the operations that have a tool read only
the value.

`GateIsHeld` is about two gates that the model has where the code has them. That a
step hands on no invalid geometry is one step of each; that a checked pull was
built needs the two decisions of `pull_resident`, `materialize` and the check, to agree.
What the gate of the engine stops the operation would have had stopped on a thread
(`GatesAgree`): the two give the same, or the engine's filter gives less, and what fails a
gate with less fails it with more (`PickedQuality`).

`RunsRepeat` compares two runs from their source on, each with its own order
wherever a HashMap is gone through, so that a difference in order meets the steps that
follow. `RunsInductive` carries three things through every step: the second run has
come as far as the first, what its engine holds is the last step's collection, and
the collections have the same features, in the same order up to the first dissolve.
`ResultsAlike` is the step, one lemma per operation: of the same features in
whatever order, and of a joined dataset in whatever order, an operation makes the same
features. It has three exceptions, where the order decides and not the features, and
`Undetermined` names them in the property: renames that collide; a group of dissolve without a
polygon, which keeps the geometry of its first feature (`dissolve.rs:61`), when an earlier
dissolve ordered the features; a spatial_join with matches of different properties, of which
it takes the first (`spatial_join.rs:63`), when it joins what comes of a dissolve. Correspondences
between the features of two collections (`SameFeatures`) are one-to-one maps of
their places.

The model picks elements by their places (`Picked`, `Selected`) and overlays
functions by `Overlaid`, because the provers do not see through `SelectSeq` and `@@`.
Inductions over numbers go through the set of the numbers for which a fact holds and the
well-foundedness of `<` (`SetInduction`).

Files. `CarriedComesBack` and `FilesSettle` have one argument. `Steady` says, of a
collection and a format, that the columns, the values one by one, the shapes
and the crs are those that the format keeps; `SteadyComesBack` concludes that such a
collection is read back as it was. A collection that the README of the
repository says a format carries is steady (`CarriedIsSteady`). So is whatever a
format has given back once (`CsvSettles`, `JsonSettles`, `GeoPackageSettles`,
`ShapefileSettles`, gathered in `FormatsSettle`): an inferred text is inferred the same
again; JSON gave no NaN; what a GeoPackage column or a `.dbf` field gives back is
of one kind per column, whatever was in it (`SqlIsOneKind`, `FieldIsOneKind`),
and a column of one kind keeps its values; the shapes that a shapefile gives back
are of one kind, with points in every part, and are kept (`ShapesSettle`). Nor
is such a collection refused: its names are in lower case, its field texts no
longer than they were.

Both theorems say `InRange(Given) => ...`: the numbers handed to the sink are
those of the model, the constant `Numbers`, which a sum or a product may leave. TLC
checks the properties without the premise. `ConversionsKeep` has no premise on values, for
every pipeline without `dissolve` and `expression`, the two operations that
compute numbers (`Computing`): `IRange` of `FilesInductive` carries through the other
eight that values are those of the source, of the joined dataset or of the
manifest (`ResultInRange`).

Only model-checked: liveness (`Terminates`, `VerdictIsReached`, `Answered`), which is
beyond the provers with ENABLED.

## Findings

* `SchedulerBlame`: the name of a source that cannot be read is taken from the
  reader's error, which holds `geopackage`, `shapefile` or a path. When another node
  has that name, a sink named `geopackage` for one, the run reports that node as the step
  it died on, though nothing called it, drops it from `not_run` and puts the
  source there. `FailureIsBounded` says what does hold of the failure.
* `SchedulerJoin`: a transform that stays on the engine and is read only as the
  `join` of a `spatial_join` is never brought back, because `feeds_off_engine`
  looks at inputs only; the join fails with "join not available".
  `InputsAvailable` covers joins that are kept for another reason (`JoinKept`).
* `IncrementalLate`: sources are hashed after the run. A source that changes between
  its reading and its hashing is recorded as processed, and the next run skipped.
* `RunApiGone`: a run whose client disconnects is carried out and not recorded.
* `JobDissolve`: dissolve unites polygons only. A group of multipolygons, which is
  what buffer gives, keeps the geometry of its first feature and loses the others.

Known and without a run of their own:

* `filter` compares floats with a tolerance (`filter.rs:26`), the engine is given the
  number as it is (`routing.rs:263`): 0.30000000000000004 against 0.3 is kept by the
  operation and not by the engine, though the repository's README (line 373) says "Feature counts per
  step are the same either way." and its CHANGELOG (line 153) "an operation reports
  the same per-step feature count wherever it runs". `SameAnswerEitherWay` states what each
  gives (`Blurred`, `Told`), and the instance of `Job` has such floats.
* The groups of a dissolve come in the order of a HashMap. A later dissolve of
  geometries none of which is a polygon, or a spatial_join of that output with more than one match,
  gives features that differ from run to run. `RunsAreRepeatable` leaves these out
  by `Undetermined`, and says that nothing else differs.
* The parameter `join` is read whatever the operation (`manifest.rs:62`): a filter with a
  `join` that names a node of the engine fails, with "join not available".
* A source that cannot be read is listed as not run (`scheduler.rs:443`), while
  `pipeline.rs:168` calls the list the steps that were never reached. A local
  step that ran and failed beside the blamed one is listed too.
* Hashes are kept by source name for the whole directory (`incremental.rs:46`), and
  names are unique within one manifest only: a manifest that never ran is
  skipped when another one left the same name and contents.
* With `Reverts = TRUE`, `SkipIsFresh` fails in one more way: a run that fails after
  writing some sinks leaves the hashes of the run before it, and once the source is
  put back the next run is skipped on top of the outputs of the failed one.
* `Pipeline::plan` lists one topological order, the depth-first one of petgraph,
  while execution goes by waves, so the report of a run need not follow the plan.
* Two writers of one layer at the same time both report success and leave the rows
  of both (`geopackage_io.rs:424`): `Delivered` and `OneWriter` are about places that
  no two writers worked on at once.
* A shapefile without a code keeps the `.prj` of an earlier one; a conversion
  that fails half way has already truncated the old file; rows lost when a buffer is
  flushed on closing are not noticed and the sink reports success.
* A shapefile reads a multipolygon back as one polygon with holes beside it and a
  multipoint as a point at the origin, and a logical field as no value. A
  GeoPackage gives booleans back as integers, a column of integers and floats as
  floats, and a coordinate system without an EPSG code as EPSG:4326.
* dissolve puts Integer 3, Float 3.0 and String "3" into one group, and booleans and
  missing values into another. As a tool it needs the `group_by` that the catalogue
  calls optional, and buffer as a tool ignores `segments`.
* `$area / 4047`, the example in `registry.rs:225`, gives Null: the left side of
  an operator is taken as the name of a property.
* The lineage of spatial_join has no record of the join's features.
* For a manifest with an unknown operation and a missing parameter, `/run` names
  the parameter and `/validate` the operation (`validate.rs:148`).
* A rename to a name that exists keeps one of the two values, whichever the HashMap
  gives last (`schema.rs:59`); `RunsAreRepeatable` leaves that case out.

## Not modelled

Floating-point geometry, projections and the engine's computation are outside what
TLC and TLAPS handle; the models have sets of cells in their place. TOML, JSON,
CSV and SQL syntax, the byte layout of geometries and shapefiles and the reader's
errors about them are left to the crates that do them. Path confinement
(`caller_roots.rs`) is one reason for a rejection and its string handling is not
modelled; token verification is external. Documentation generation, the plan that
`/validate` prints and the command line render or parse and keep no state. The schema
detection and the quality rules other than `GeometryValid` have no caller in a
pipeline, and `sources_for` and `summary` only read the lineage. Of a shapefile, that
the incremental state hashes the named file only is a hazard without a property:
`Incremental` has one file per source.

What could be added next: a `Job`
on a graph instead of a chain, composed with `Scheduler`; the family of files of a
shapefile as sources of `Incremental`.
