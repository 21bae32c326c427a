----------------------------- MODULE Scheduler -----------------------------
(***************************************************************************)
(* One run of a pipeline: ParallelScheduler::execute, the Run it drives    *)
(* wave by wave, and the EngineRouter that keeps part of the graph on the  *)
(* engine.                                                                 *)
(*                                                                         *)
(* The calls that leave the scheduler (read a source, pull a resident      *)
(* transform, apply a local transform, write a sink) take time and may     *)
(* fail.  Source reads of a wave run in parallel, and so do its local      *)
(* transforms and sinks: a parallel call starts in one step and returns    *)
(* in another.  Feature data is abstracted to whether a collection is      *)
(* there.                                                                  *)
(***************************************************************************)
EXTENDS Manifest, Sequences

CONSTANTS
  Manifests,   \* the manifests a run may be given
  MayFail,     \* the nodes whose reader, operation, engine or writer can fail
  ErrorNames   \* what a reader may call the source it could not read, if not
               \* by its name: its path, "shapefile", "geopackage", "source".
               \* Any node may have that name; NoName stands for one none has.

ASSUME ManifestsAssumption == \A mf \in Manifests : IsManifest(mf)
ASSUME ErrorNamesAssumption == ErrorNames \subseteq Name \cup {NoName}

VARIABLES
  m,          \* the manifest of the run
  order,      \* node -> position in the topological order of the run
  phase,      \* where execute is
  finished,   \* the nodes of the waves already executed
  wave,       \* the nodes of the current wave
  resident,   \* its transforms on the engine, as classified when it began
  call,       \* node -> state of the call its step makes
  data,       \* the nodes whose collection is in Run::data
  owner,      \* node -> source whose engine holds it, NoName when off
  steps,      \* ExecutionReport::steps
  failed,     \* name of the failed step, NoName while there is none
  notRun      \* ExecutionFailure::not_run

vars == <<m, order, phase, finished, wave, resident, call, data, owner,
          steps, failed, notRun>>

Phases == {"next wave", "read", "work", "completed", "failed"}

(***************************************************************************)
(* idle: not called.  running: called, not returned.  loaded: a source     *)
(* read, not yet admitted.  ok, err: the step succeeded, failed.           *)
(***************************************************************************)
CallStates == {"idle", "running", "loaded", "ok", "err"}

TypeOK ==
  /\ m \in Manifests
  /\ order \in Orders(m)
  /\ phase \in Phases
  /\ finished \subseteq Nodes(m)
  /\ wave \subseteq Nodes(m)
  /\ resident \subseteq m.transform
  /\ call \in [Nodes(m) -> CallStates]
  /\ data \subseteq Nodes(m)
  /\ owner \in [Nodes(m) -> m.source \cup {NoName}]
  /\ steps \in Seq(Nodes(m))
  /\ failed \in Nodes(m) \cup ErrorNames \cup {NoName}
  /\ notRun \subseteq Nodes(m)

-----------------------------------------------------------------------------
(* Routing                                                                 *)

IsResident(n) == owner[n] # NoName

(***************************************************************************)
(* The nodes admit_source puts on the engine of source s: s and every      *)
(* mappable transform reached from it through inputs that are mappable     *)
(* too.  The graph is acyclic, so there is exactly one such set.           *)
(***************************************************************************)
EngineTrees(s) ==
  {T \in SUBSET ({s} \cup m.mappable) :
     /\ s \in T
     /\ \A t \in m.mappable : t \in T <=> m.input[t] \in T}

HasMappableChild(s) == \E t \in m.mappable : m.input[t] = s

(***************************************************************************)
(* Mutant: sinks are forgotten.                                            *)
(***************************************************************************)
FeedsOffEngine_IgnoresSinks(own, n) ==
  \E t \in m.transform : m.input[t] = n /\ own[t] = NoName

(***************************************************************************)
(* True when something reads n from outside the engine: a transform that   *)
(* is not resident, or a sink.  Only the input of a transform is looked    *)
(* at, not its join, as in the code.                                       *)
(***************************************************************************)
FeedsOffEngine(own, n) ==
  \/ \E t \in m.transform : m.input[t] = n /\ own[t] = NoName
  \/ \E k \in m.sink : m.input[k] = n

-----------------------------------------------------------------------------
(* Reporting                                                               *)

Reported == {steps[i] : i \in DOMAIN steps}

(***************************************************************************)
(* The listing of S by ascending name, as the set of sequences it is one   *)
(* member of.                                                              *)
(***************************************************************************)
InNameOrder(S) ==
  {q \in [1..Cardinality(S) -> S] :
     /\ \A i, j \in 1..Cardinality(S) : i < j => q[i] < q[j]
     /\ \A n \in S : \E i \in 1..Cardinality(S) : q[i] = n}

(***************************************************************************)
(* Mutant: the reported name is not taken off the steps not run, but put   *)
(* among them.                                                             *)
(***************************************************************************)
FailRun_KeepsName(name, done) ==
  /\ phase' = "failed"
  /\ steps' = done
  /\ failed' = name
  /\ notRun' = (Nodes(m) \cup {name}) \ {done[i] : i \in DOMAIN done}

(***************************************************************************)
(* Return the failure of the step reported as name, with the steps in done *)
(* as the completed ones and all the other nodes as not run.               *)
(***************************************************************************)
FailRun(name, done) ==
  /\ phase' = "failed"
  /\ steps' = done
  /\ failed' = name
  /\ notRun' = Nodes(m) \ ({name} \cup {done[i] : i \in DOMAIN done})

Earliest(n, S) == n \in S /\ \A k \in S : order[n] <= order[k]

-----------------------------------------------------------------------------
(* The wave loop                                                           *)

Init ==
  /\ m \in Manifests
  /\ order \in Orders(m)
  /\ phase = "next wave"
  /\ finished = {}
  /\ wave = {}
  /\ resident = {}
  /\ call = [n \in Nodes(m) |-> "idle"]
  /\ data = {}
  /\ owner = [n \in Nodes(m) |-> NoName]
  /\ steps = <<>>
  /\ failed = NoName
  /\ notRun = {}

(***************************************************************************)
(* Mutant: a transform is taken as resident because its operation is       *)
(* mappable.                                                               *)
(***************************************************************************)
BeginWave_ByOperation ==
  /\ phase = "next wave"
  /\ Ready(m, finished) # {}
  /\ phase' = "read"
  /\ wave' = Ready(m, finished)
  /\ resident' = Ready(m, finished) \cap m.mappable
  /\ UNCHANGED <<m, order, finished, call, data, owner, steps, failed, notRun>>

(***************************************************************************)
(* The next wave begins: its transforms are split into resident and local  *)
(* by where they are at this moment.                                       *)
(***************************************************************************)
BeginWave ==
  /\ phase = "next wave"
  /\ Ready(m, finished) # {}
  /\ phase' = "read"
  /\ wave' = Ready(m, finished)
  /\ resident' = {t \in Ready(m, finished) \cap m.transform : IsResident(t)}
  /\ UNCHANGED <<m, order, finished, call, data, owner, steps, failed, notRun>>

Complete ==
  /\ phase = "next wave"
  /\ Ready(m, finished) = {}
  /\ phase' = "completed"
  /\ UNCHANGED <<m, order, finished, wave, resident, call, data, owner, steps,
                 failed, notRun>>

Reads == wave \cap m.source

Local == wave \ (m.source \cup resident)

-----------------------------------------------------------------------------
(* Sources: read in parallel, then admitted one by one by name             *)

StartRead(s) ==
  /\ phase = "read"
  /\ s \in Reads
  /\ call[s] = "idle"
  /\ call' = [call EXCEPT ![s] = "running"]
  /\ UNCHANGED <<m, order, phase, finished, wave, resident, data, owner, steps,
                 failed, notRun>>

FinishRead(s) ==
  /\ phase = "read"
  /\ s \in Reads
  /\ call[s] = "running"
  /\ \/ call' = [call EXCEPT ![s] = "loaded"]
     \/ s \in MayFail /\ call' = [call EXCEPT ![s] = "err"]
  /\ UNCHANGED <<m, order, phase, finished, wave, resident, data, owner, steps,
                 failed, notRun>>

AllReadsBack == \A s \in Reads : call[s] \in {"loaded", "err"}

CollectReads ==
  /\ phase = "read"
  /\ \A s \in Reads : call[s] = "loaded"
  /\ phase' = "work"
  /\ UNCHANGED <<m, order, finished, wave, resident, call, data, owner, steps,
                 failed, notRun>>

(***************************************************************************)
(* The first failed read by name ends the run, under the name its error    *)
(* carries: the source's own name when the format is unknown, a name the   *)
(* reader made up for every other error, which may be that of another      *)
(* node.  Nothing read in the wave has been reported yet.                  *)
(***************************************************************************)
CollectFailedRead ==
  /\ phase = "read"
  /\ AllReadsBack
  /\ \E s \in Reads :
       /\ call[s] = "err"
       /\ \A k \in Reads : call[k] = "err" => s <= k
       /\ \E name \in {s} \cup ErrorNames : FailRun(name, steps)
  /\ UNCHANGED <<m, order, finished, wave, resident, call, data, owner>>

NextToAdmit(s) ==
  /\ phase = "work"
  /\ s \in Reads
  /\ call[s] = "loaded"
  /\ \A k \in Reads : call[k] = "loaded" => s <= k

(***************************************************************************)
(* Record an admitted source, and keep its collection when it stays off    *)
(* the engine or something off the engine reads it.                        *)
(***************************************************************************)
RecordSource(s) ==
  /\ call' = [call EXCEPT ![s] = "ok"]
  /\ steps' = Append(steps, s)
  /\ data' = IF owner'[s] = NoName \/ FeedsOffEngine(owner', s)
             THEN data \cup {s} ELSE data
  /\ UNCHANGED <<m, order, phase, finished, wave, resident, failed, notRun>>

(***************************************************************************)
(* A source with no mappable child stays off; so does one whose data the   *)
(* engine cannot hold.                                                     *)
(***************************************************************************)
AdmitOffEngine(s) ==
  /\ NextToAdmit(s)
  /\ owner' = owner
  /\ RecordSource(s)

AdmitOnEngine(s) ==
  /\ NextToAdmit(s)
  /\ HasMappableChild(s)
  /\ \E T \in EngineTrees(s) :
       owner' = [n \in Nodes(m) |-> IF n \in T THEN s ELSE owner[n]]
  /\ RecordSource(s)

(***************************************************************************)
(* The engine refuses the source or the graph.  The error is reported      *)
(* under the source's name.                                                *)
(***************************************************************************)
AdmitFails(s) ==
  /\ NextToAdmit(s)
  /\ s \in MayFail
  /\ HasMappableChild(s)
  /\ call' = [call EXCEPT ![s] = "err"]
  /\ FailRun(s, steps)
  /\ UNCHANGED <<m, order, finished, wave, resident, data, owner>>

(***************************************************************************)
(* Mutant: local work need not wait for the admission of every source.     *)
(***************************************************************************)
AllAdmitted_OnceRead == \A s \in Reads : call[s] \in {"loaded", "ok"}

AllAdmitted == \A s \in Reads : call[s] = "ok"

-----------------------------------------------------------------------------
(* Resident transforms: pulled one by one by name                          *)

NextToPull(t) ==
  /\ phase = "work"
  /\ AllAdmitted
  /\ t \in resident
  /\ call[t] = "idle"
  /\ \A k \in resident : call[k] = "idle" => t <= k

PullResident(t) ==
  /\ NextToPull(t)
  /\ call' = [call EXCEPT ![t] = "ok"]
  /\ steps' = Append(steps, t)
  /\ data' = IF FeedsOffEngine(owner, t) THEN data \cup {t} ELSE data
  /\ UNCHANGED <<m, order, phase, finished, wave, resident, owner, failed,
                 notRun>>

(***************************************************************************)
(* The pull fails, or the quality check rejects what it returned.          *)
(***************************************************************************)
PullFails(t) ==
  /\ NextToPull(t)
  /\ t \in MayFail
  /\ call' = [call EXCEPT ![t] = "err"]
  /\ FailRun(t, steps)
  /\ UNCHANGED <<m, order, finished, wave, resident, data, owner>>

AllPulled == \A t \in resident : call[t] = "ok"

-----------------------------------------------------------------------------
(* Local transforms and sinks: run in parallel, recorded together          *)

StartLocal(n) ==
  /\ phase = "work"
  /\ AllAdmitted
  /\ AllPulled
  /\ n \in Local
  /\ call[n] = "idle"
  /\ call' = [call EXCEPT ![n] = "running"]
  /\ UNCHANGED <<m, order, phase, finished, wave, resident, data, owner, steps,
                 failed, notRun>>

(***************************************************************************)
(* A collection n reads is not in Run::data: its input or, when it names   *)
(* one, its join.                                                          *)
(***************************************************************************)
LacksInput(n) ==
  \/ m.input[n] \notin data
  \/ n \in m.transform /\ m.join[n] # NoName /\ m.join[n] \notin data

FinishLocal(n) ==
  /\ phase = "work"
  /\ n \in Local
  /\ call[n] = "running"
  /\ ~LacksInput(n)
  /\ call' = [call EXCEPT ![n] = "ok"]
  /\ UNCHANGED <<m, order, phase, finished, wave, resident, data, owner, steps,
                 failed, notRun>>

(***************************************************************************)
(* Mutant: a failed call is made again.                                    *)
(***************************************************************************)
FailLocal_Retries(n) ==
  /\ phase = "work"
  /\ n \in Local
  /\ call[n] = "running"
  /\ LacksInput(n) \/ n \in MayFail
  /\ call' = [call EXCEPT ![n] = "idle"]
  /\ UNCHANGED <<m, order, phase, finished, wave, resident, data, owner, steps,
                 failed, notRun>>

(***************************************************************************)
(* An input is not available, or the operation, the quality check or the   *)
(* writer returned an error.                                               *)
(***************************************************************************)
FailLocal(n) ==
  /\ phase = "work"
  /\ n \in Local
  /\ call[n] = "running"
  /\ LacksInput(n) \/ n \in MayFail
  /\ call' = [call EXCEPT ![n] = "err"]
  /\ UNCHANGED <<m, order, phase, finished, wave, resident, data, owner, steps,
                 failed, notRun>>

AllLocalBack ==
  /\ AllAdmitted
  /\ AllPulled
  /\ \A n \in Local : call[n] \in {"ok", "err"}

(***************************************************************************)
(* Mutant: the steps of the wave are reported ahead of the earlier ones.   *)
(***************************************************************************)
EndWave_Prepends ==
  /\ phase = "work"
  /\ AllLocalBack
  /\ \A n \in Local : call[n] = "ok"
  /\ \E q \in InNameOrder(Local) : steps' = q \o steps
  /\ data' = data \cup (Local \cap m.transform)
  /\ finished' = finished \cup wave
  /\ phase' = "next wave"
  /\ UNCHANGED <<m, order, wave, resident, call, owner, failed, notRun>>

EndWave ==
  /\ phase = "work"
  /\ AllLocalBack
  /\ \A n \in Local : call[n] = "ok"
  /\ \E q \in InNameOrder(Local) : steps' = steps \o q
  /\ data' = data \cup (Local \cap m.transform)
  /\ finished' = finished \cup wave
  /\ phase' = "next wave"
  /\ UNCHANGED <<m, order, wave, resident, call, owner, failed, notRun>>

(***************************************************************************)
(* Mutant: what succeeded beside the failure is not reported.              *)
(***************************************************************************)
EndFailedWave_DropsSuccesses ==
  /\ phase = "work"
  /\ AllLocalBack
  /\ \E f \in Local :
       /\ Earliest(f, {n \in Local : call[n] = "err"})
       /\ FailRun(f, steps)
  /\ UNCHANGED <<m, order, finished, wave, resident, call, data, owner>>

(***************************************************************************)
(* Mutant: the earliest local step is blamed, whether it failed or not.    *)
(***************************************************************************)
EndFailedWave_BlamesFirst ==
  /\ phase = "work"
  /\ AllLocalBack
  /\ \E n \in Local : call[n] = "err"
  /\ \E q \in InNameOrder({n \in Local : call[n] = "ok"}) :
       \E f \in Local :
         /\ Earliest(f, Local)
         /\ FailRun(f, steps \o q)
  /\ UNCHANGED <<m, order, finished, wave, resident, call, data, owner>>

(***************************************************************************)
(* Some of the wave's local work failed: what succeeded is reported, and   *)
(* the failure earliest in the topological order is the run's.             *)
(***************************************************************************)
EndFailedWave ==
  /\ phase = "work"
  /\ AllLocalBack
  /\ \E q \in InNameOrder({n \in Local : call[n] = "ok"}) :
       \E f \in Local :
         /\ Earliest(f, {n \in Local : call[n] = "err"})
         /\ FailRun(f, steps \o q)
  /\ UNCHANGED <<m, order, finished, wave, resident, call, data, owner>>

-----------------------------------------------------------------------------

Ended == phase \in {"completed", "failed"}

(***************************************************************************)
(* execute has returned.                                                   *)
(***************************************************************************)
Returned == Ended /\ UNCHANGED vars

Next ==
  \/ BeginWave
  \/ Complete
  \/ \E s \in m.source :
       \/ StartRead(s)
       \/ FinishRead(s)
       \/ AdmitOffEngine(s)
       \/ AdmitOnEngine(s)
       \/ AdmitFails(s)
  \/ CollectReads
  \/ CollectFailedRead
  \/ \E t \in m.transform : PullResident(t) \/ PullFails(t)
  \/ \E n \in Nodes(m) : StartLocal(n) \/ FinishLocal(n) \/ FailLocal(n)
  \/ EndWave
  \/ EndFailedWave
  \/ Returned

Spec == Init /\ [][Next]_vars

(***************************************************************************)
(* Every call returns and the thread driving the run is scheduled: a run   *)
(* does not stop while a step is possible.                                 *)
(***************************************************************************)
FairSpec == Spec /\ WF_vars(Next)

-----------------------------------------------------------------------------
(* Properties                                                              *)

(***************************************************************************)
(* The collection of p is sure to be there for a join: p cannot be on the  *)
(* engine, or something that certainly is not on it reads p as its input.  *)
(***************************************************************************)
JoinKept(p) ==
  /\ p \in m.source \cup m.transform
  /\ \/ p \in m.transform \ m.mappable
     \/ p \in m.source /\ ~HasMappableChild(p)
     \/ \E t \in m.transform \ m.mappable : m.input[t] = p
     \/ \E k \in m.sink : m.input[k] = p

(***************************************************************************)
(* When a local transform or a sink runs, the collection it takes as input *)
(* is in Run::data, although what stays on the engine is not brought back  *)
(* and whether it stays was decided waves earlier.  So is its join, when   *)
(* JoinKept.  Only a sink, which produces nothing, is read in vain.        *)
(***************************************************************************)
InputsAvailable ==
  phase = "work" =>
    \A n \in Local :
      /\ m.input[n] \in data \cup m.sink
      /\ n \in m.transform /\ JoinKept(m.join[n]) => m.join[n] \in data

(***************************************************************************)
(* What run's wave function decided at the start of a wave still holds     *)
(* when it acts on it, although admitting sources changes the router in    *)
(* between: the pulled transforms are on an engine, the local ones not.    *)
(***************************************************************************)
RoutedAsClassified ==
  phase = "work" =>
    \A t \in wave \cap m.transform : t \in resident <=> IsResident(t)

(***************************************************************************)
(* Once execute has returned, the report names exactly the steps that      *)
(* succeeded, each once, also when part of a wave failed.                  *)
(***************************************************************************)
ReportMatchesExecution ==
  Ended =>
    /\ Reported = {n \in Nodes(m) : call[n] = "ok"}
    /\ \A i, j \in DOMAIN steps : steps[i] = steps[j] => i = j

(***************************************************************************)
(* Every reported step comes after the steps it read from, so a reader of  *)
(* the report can replay it front to back.                                 *)
(***************************************************************************)
ReportedInDependencyOrder ==
  \A j \in DOMAIN steps : \A p \in Parents(m, steps[j]) :
    \E i \in 1..(j - 1) : steps[i] = p

(***************************************************************************)
(* Nothing is written before every source of the manifest has been read    *)
(* and admitted: a run with an unreadable source leaves all sinks alone.   *)
(***************************************************************************)
SinksWaitForSources ==
  (\E k \in m.sink : call[k] # "idle") => \A s \in m.source : call[s] = "ok"

(***************************************************************************)
(* What a failed run says of its nodes.  Some step of the last wave did    *)
(* fail, and no call is still out.  Every node is either reported, or the  *)
(* failed one, or not run.  The node blamed failed, unless its name is the *)
(* one a reader put in its error: then nothing but reads was called.  What *)
(* is called not run is idle, but for steps of the last wave, which may    *)
(* have failed too, or be sources that were read and not admitted.         *)
(***************************************************************************)
FailureIsBounded ==
  phase = "failed" =>
    /\ \E n \in wave : call[n] = "err"
    /\ \A n \in Nodes(m) : call[n] # "running"
    /\ Nodes(m) \subseteq Reported \cup notRun \cup {failed}
    /\ Reported \cap notRun = {} /\ failed \notin Reported \cup notRun
    /\ failed \in Nodes(m) /\ call[failed] # "err" =>
         steps = <<>> /\ \A n \in Nodes(m) \ m.source : call[n] = "idle"
    /\ \A n \in notRun :
         \/ call[n] = "idle"
         \/ n \in wave /\ call[n] = "err"
         \/ n \in Reads /\ call[n] = "loaded"

(***************************************************************************)
(* execute returns, whatever fails.                                        *)
(***************************************************************************)
Terminates == <>Ended

(***************************************************************************)
(* The run implements the dataflow promise: a node is done when its step   *)
(* succeeded and broken when it failed.                                    *)
(***************************************************************************)
Abstract == INSTANCE Dataflow WITH
  done <- {n \in Nodes(m) : call[n] = "ok"},
  broken <- {n \in Nodes(m) : call[n] = "err"},
  outcome <- IF Ended THEN phase ELSE "running"

ImplementsDataflow == Abstract!DataflowSpec

-----------------------------------------------------------------------------
(* Why it works: the inductive invariant                                   *)

(***************************************************************************)
(* A wave under way, or cut short by a failure, is the ready set of what   *)
(* finished before it; between waves the last one has finished.            *)
(***************************************************************************)
IWave ==
  IF phase \in {"read", "work", "failed"}
  THEN wave = Ready(m, finished)
  ELSE wave \subseteq finished

(***************************************************************************)
(* All sources are in the first wave.                                      *)
(***************************************************************************)
ISources == finished = {} \/ m.source \subseteq finished

ICalls ==
  /\ \A n \in finished : call[n] = "ok"
  /\ \A n \in Nodes(m) \ (finished \cup wave) : call[n] = "idle"
  /\ phase = "read" =>
       \A n \in wave : call[n] # "ok" /\ (n \notin m.source => call[n] = "idle")
  /\ phase = "work" =>
       /\ \A s \in Reads : call[s] \in {"loaded", "ok"}
       /\ \A t \in resident : call[t] \in {"idle", "ok"}

(***************************************************************************)
(* Residency is closed under mappable inputs, in both directions, and      *)
(* starts at admitted sources.                                             *)
(***************************************************************************)
IRouting ==
  /\ \A t \in m.transform :
       IsResident(t) <=> t \in m.mappable /\ IsResident(m.input[t])
  /\ \A k \in m.sink : ~IsResident(k)
  /\ \A s \in m.source : IsResident(s) => HasMappableChild(s)

IClassified ==
  phase \in {"read", "work"} =>
    resident = {t \in wave \cap m.transform : IsResident(t)}

(***************************************************************************)
(* n has run and its collection has been dealt with.                       *)
(***************************************************************************)
Settled(n) == n \in finished \/ (n \in wave \ Local /\ call[n] = "ok")

(***************************************************************************)
(* A settled collection is there, or it is on the engine and so is all     *)
(* that reads it as its input.                                             *)
(***************************************************************************)
IKept ==
  phase \in {"next wave", "read", "work"} =>
    \A n \in m.source \cup m.transform :
      Settled(n) =>
        n \in data \/ (IsResident(n) /\ ~FeedsOffEngine(owner, n))

IInv ==
  /\ TypeOK
  /\ IWave
  /\ ISources
  /\ ICalls
  /\ IRouting
  /\ IClassified
  /\ IKept

(***************************************************************************)
(* The report is up to date with the calls, but for the local work of a    *)
(* wave under way, which waits for the resident transforms and is reported *)
(* together at the end.                                                    *)
(***************************************************************************)
Unreported == IF phase = "work" THEN Local ELSE {}

ILocalWaits ==
  phase = "work" /\ ~(AllAdmitted /\ AllPulled) =>
    \A n \in Local : call[n] = "idle"

IReport ==
  /\ Reported = {n \in Nodes(m) : call[n] = "ok"} \ Unreported
  /\ \A i, j \in DOMAIN steps : steps[i] = steps[j] => i = j
  /\ ReportedInDependencyOrder

-----------------------------------------------------------------------------
(* What the documentation says and the code does not do                    *)

(***************************************************************************)
(* README: the graph treats the join step as a second parent, so both      *)
(* inputs run before the join and are there for it.                        *)
(***************************************************************************)
JoinAvailable ==
  phase = "work" =>
    \A t \in Local \cap m.transform :
      m.join[t] \in m.source \cup m.transform => m.join[t] \in data

(***************************************************************************)
(* ExecutionFailure: failed is the step that failed, "the step a run died  *)
(* on".                                                                    *)
(***************************************************************************)
BlamedStepFailed ==
  phase = "failed" /\ failed \in Nodes(m) => call[failed] = "err"
=============================================================================
