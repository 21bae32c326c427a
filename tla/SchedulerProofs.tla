-------------------------- MODULE SchedulerProofs --------------------------
(***************************************************************************)
(* Proofs about the scheduler for every set of manifests and every set of  *)
(* nodes that may fail, and that it implements the promise of Dataflow.    *)
(***************************************************************************)
EXTENDS Scheduler, FiniteSetTheorems, SequenceTheorems, WellFoundedInduction, TLAPS

-----------------------------------------------------------------------------
(* The graph of a manifest                                                 *)

(***************************************************************************)
(* What a node waits for: a source for nothing, any other node for its     *)
(* input, and a transform for its join when it has one.                    *)
(***************************************************************************)
LEMMA ParentsFacts ==
  ASSUME NEW mf, IsManifest(mf)
  PROVE  /\ \A s \in mf.source : Parents(mf, s) = {}
         /\ \A n \in mf.transform \cup mf.sink :
              /\ mf.input[n] \in Nodes(mf)
              /\ mf.input[n] \in Parents(mf, n)
         /\ \A t \in mf.transform :
              /\ mf.join[t] \in Nodes(mf) \cup {NoName}
              /\ mf.join[t] \in Nodes(mf) => mf.join[t] \in Parents(mf, t)
<1>1. \A s \in mf.source : Parents(mf, s) = {}
  BY DEF IsManifest, Parents
<1>2. \A n \in mf.transform \cup mf.sink :
        mf.input[n] \in Nodes(mf) /\ mf.input[n] \in Parents(mf, n)
  BY DEF IsManifest, Parents
<1>3. \A t \in mf.transform :
        /\ mf.join[t] \in Nodes(mf) \cup {NoName}
        /\ mf.join[t] \in Nodes(mf) => mf.join[t] \in Parents(mf, t)
  BY DEF IsManifest, Parents
<1>4. QED BY <1>1, <1>2, <1>3

(***************************************************************************)
(* The first wave is the sources, all of them and nothing else.            *)
(***************************************************************************)
LEMMA FirstWave ==
  ASSUME NEW mf, IsManifest(mf)
  PROVE  Ready(mf, {}) = mf.source
<1>1. mf.source \subseteq Ready(mf, {})
  BY ParentsFacts DEF Ready, Nodes
<1>2. ASSUME NEW n \in Ready(mf, {}) PROVE n \in mf.source
  BY ParentsFacts DEF Ready, Nodes
<1>3. QED BY <1>1, <1>2

LEMMA ManifestOfRun == TypeOK => IsManifest(m)
BY ManifestsAssumption DEF TypeOK

(***************************************************************************)
(* The listing of a set of nodes by name is a sequence of nodes.           *)
(***************************************************************************)
LEMMA ListingIsSeq ==
  ASSUME NEW N, IsFiniteSet(N), NEW S, S \subseteq N, NEW q \in InNameOrder(S)
  PROVE  q \in Seq(N)
<1>1. Cardinality(S) \in Nat
  BY FS_Subset, FS_CardinalityType
<1>2. q \in [1..Cardinality(S) -> N]
  BY DEF InNameOrder
<1>3. QED BY <1>1, <1>2, SeqDef

-----------------------------------------------------------------------------
(* Types                                                                   *)

LEMMA TypeInit == Init => TypeOK
<1> SUFFICES ASSUME Init PROVE TypeOK
  OBVIOUS
<1>1. call \in [Nodes(m) -> CallStates] BY DEF Init, CallStates
<1>2. owner \in [Nodes(m) -> m.source \cup {NoName}] BY DEF Init
<1>3. steps \in Seq(Nodes(m)) BY EmptySeq DEF Init
<1>4. m \in Manifests /\ order \in Orders(m) BY DEF Init
<1>5. /\ phase \in Phases /\ finished \subseteq Nodes(m)
      /\ wave \subseteq Nodes(m) /\ resident \subseteq m.transform
      /\ data \subseteq Nodes(m) /\ failed \in Nodes(m) \cup ErrorNames \cup {NoName}
      /\ notRun \subseteq Nodes(m)
  BY DEF Init, Phases
<1>6. QED BY <1>1, <1>2, <1>3, <1>4, <1>5 DEF TypeOK

LEMMA FailRunTypes ==
  ASSUME NEW name, NEW done, m' = m, name \in Nodes(m) \cup ErrorNames,
         done \in Seq(Nodes(m)), FailRun(name, done)
  PROVE  /\ phase' \in Phases
         /\ steps' \in Seq(Nodes(m))
         /\ failed' \in Nodes(m) \cup ErrorNames \cup {NoName}
         /\ notRun' \subseteq Nodes(m)
BY DEF FailRun, Phases

LEMMA TypeNext == TypeOK /\ [Next]_vars => TypeOK'
<1> SUFFICES ASSUME TypeOK, [Next]_vars PROVE TypeOK'
  OBVIOUS
<1> USE DEF TypeOK
<1>m. IsManifest(m) BY ManifestOfRun
<1>n. m.source \subseteq Nodes(m) /\ m.transform \subseteq Nodes(m)
  BY DEF Nodes
<1>fin. IsFiniteSet(Nodes(m)) BY <1>m DEF IsManifest
<1>1. CASE BeginWave
  BY <1>1 DEF BeginWave, Phases, Ready
<1>2. CASE Complete
  BY <1>2 DEF Complete, Phases
<1>3. ASSUME NEW s \in m.source, StartRead(s) PROVE TypeOK'
  BY <1>3 DEF StartRead, CallStates
<1>4. ASSUME NEW s \in m.source, FinishRead(s) PROVE TypeOK'
  BY <1>4 DEF FinishRead, CallStates
<1>5. ASSUME NEW s \in m.source, owner' \in [Nodes(m) -> m.source \cup {NoName}],
             RecordSource(s)
      PROVE  TypeOK'
  BY <1>5, <1>n DEF RecordSource, CallStates
<1>6. ASSUME NEW s \in m.source, AdmitOffEngine(s) PROVE TypeOK'
  BY <1>5, <1>6 DEF AdmitOffEngine
<1>7. ASSUME NEW s \in m.source, AdmitOnEngine(s) PROVE TypeOK'
  BY <1>5, <1>7 DEF AdmitOnEngine
<1>8. ASSUME NEW s \in m.source, AdmitFails(s) PROVE TypeOK'
  BY <1>8, <1>n, FailRunTypes DEF AdmitFails, CallStates
<1>9. CASE CollectReads
  BY <1>9 DEF CollectReads, Phases
<1>10. CASE CollectFailedRead
  <2>1. PICK s \in Reads : \E name \in {s} \cup ErrorNames : FailRun(name, steps)
    BY <1>10 DEF CollectFailedRead
  <2>2. PICK name \in Nodes(m) \cup ErrorNames : FailRun(name, steps)
    BY <2>1 DEF Reads
  <2>3. m' = m BY <1>10 DEF CollectFailedRead
  <2>4. QED BY <1>10, <2>2, <2>3, FailRunTypes DEF CollectFailedRead
<1>11. ASSUME NEW t \in m.transform, PullResident(t) PROVE TypeOK'
  BY <1>11, <1>n DEF PullResident, CallStates
<1>12. ASSUME NEW t \in m.transform, PullFails(t) PROVE TypeOK'
  BY <1>12, <1>n, FailRunTypes DEF PullFails, CallStates
<1>13. ASSUME NEW n \in Nodes(m), StartLocal(n) PROVE TypeOK'
  BY <1>13 DEF StartLocal, CallStates
<1>14. ASSUME NEW n \in Nodes(m), FinishLocal(n) PROVE TypeOK'
  BY <1>14 DEF FinishLocal, CallStates
<1>15. ASSUME NEW n \in Nodes(m), FailLocal(n) PROVE TypeOK'
  BY <1>15 DEF FailLocal, CallStates
<1>16. CASE EndWave
  <2>1. PICK q \in InNameOrder(Local) : steps' = steps \o q
    BY <1>16 DEF EndWave
  <2>2. q \in Seq(Nodes(m)) BY <1>fin, ListingIsSeq DEF Local
  <2>3. steps' \in Seq(Nodes(m)) BY <2>1, <2>2
  <2>4. QED BY <1>16, <1>n, <2>3 DEF EndWave, Phases
<1>17. CASE EndFailedWave
  <2> DEFINE S == {n \in Local : call[n] = "ok"}
  <2>1. PICK q \in InNameOrder(S), f \in Local : FailRun(f, steps \o q)
    BY <1>17 DEF EndFailedWave
  <2>2. q \in Seq(Nodes(m)) BY <1>fin, ListingIsSeq DEF Local
  <2>3. steps \o q \in Seq(Nodes(m)) BY <2>2
  <2>4. f \in Nodes(m) /\ m' = m BY <1>17 DEF Local, EndFailedWave
  <2>5. QED BY <1>17, <2>1, <2>3, <2>4, FailRunTypes DEF EndFailedWave
<1>18. CASE UNCHANGED vars
  BY <1>18 DEF vars
<1>19. QED
  BY <1>1, <1>2, <1>3, <1>4, <1>6, <1>7, <1>8, <1>9, <1>10, <1>11, <1>12,
     <1>13, <1>14, <1>15, <1>16, <1>17, <1>18 DEF Next, Returned

(***************************************************************************)
(* Every variable of a run has its type in every reachable state.          *)
(***************************************************************************)
THEOREM TypeCorrect == Spec => []TypeOK
BY TypeInit, TypeNext, PTL DEF Spec

-----------------------------------------------------------------------------
(* The inductive invariant                                                 *)

LEMMA InvInit == Init => IInv
<1> SUFFICES ASSUME Init PROVE IInv
  OBVIOUS
<1>1. TypeOK BY TypeInit
<1>2. IsManifest(m) BY <1>1, ManifestOfRun
<1>3. \A n \in Nodes(m) : ~IsResident(n)
  BY DEF Init, IsResident
<1>4. IRouting
  BY <1>2, <1>3, ParentsFacts DEF IRouting, Nodes
<1>5. IWave /\ ISources /\ IClassified
  BY DEF Init, IWave, ISources, IClassified
<1>6. ICalls BY DEF Init, ICalls
<1>7. IKept BY DEF Init, IKept, Settled
<1>8. QED BY <1>1, <1>4, <1>5, <1>6, <1>7 DEF IInv

(***************************************************************************)
(* A wave under way is disjoint from what finished; sources are read in    *)
(* the first wave, when nothing has finished and nothing is classified.    *)
(***************************************************************************)
LEMMA WaveFacts ==
  ASSUME IInv, phase \in {"read", "work"}
  PROVE  /\ wave = Ready(m, finished)
         /\ wave \cap finished = {}
         /\ Reads # {} => /\ finished = {}
                          /\ wave = m.source
                          /\ resident = {}
                          /\ Local = {}
<1> USE DEF IInv
<1>1. wave = Ready(m, finished) BY DEF IWave
<1>2. wave \cap finished = {} BY <1>1 DEF Ready
<1>3. ASSUME Reads # {}
      PROVE  finished = {} /\ wave = m.source /\ resident = {} /\ Local = {}
  <2>1. finished = {} BY <1>2, <1>3 DEF ISources, Reads
  <2>2. wave = m.source BY <1>1, <2>1, FirstWave, ManifestOfRun
  <2>3. m.source \cap m.transform = {} BY ManifestOfRun DEF IsManifest
  <2>4. resident = {} BY <2>2, <2>3 DEF IClassified
  <2>5. QED BY <2>1, <2>2, <2>4 DEF Local
<1>4. QED BY <1>1, <1>2, <1>3

(***************************************************************************)
(* A call in the wave that starts, returns or fails leaves the invariant   *)
(* standing as long as it keeps to the states the phase allows.            *)
(***************************************************************************)
LEMMA CallKeepsInv ==
  ASSUME IInv, TypeOK', phase \in {"read", "work"},
         NEW n \in wave, NEW c \in CallStates,
         call' = [call EXCEPT ![n] = c], call[n] # "ok",
         phase = "read" => n \in m.source /\ c # "ok",
         phase = "work" => n \in Local,
         UNCHANGED <<m, phase, finished, wave, resident, data, owner>>
  PROVE  IInv'
<1> USE DEF IInv
<1>1. wave \cap finished = {} BY WaveFacts
<1>2. \A k \in Nodes(m) : k # n => call'[k] = call[k]
  BY DEF TypeOK
<1>3. call'[n] = c BY DEF TypeOK
<1>4. finished \subseteq Nodes(m) /\ wave \subseteq Nodes(m)
      /\ resident \subseteq Nodes(m)
  BY DEF TypeOK, Nodes
<1>5. IWave' /\ ISources' /\ IRouting' /\ IClassified'
  BY DEF IWave, ISources, IRouting, IClassified, IsResident, HasMappableChild
<1>6. ICalls'
  BY <1>1, <1>2, <1>3, <1>4 DEF ICalls, Reads, Local
<1>7. \A k \in Nodes(m) : Settled(k)' => Settled(k)
  BY <1>2, <1>3 DEF Settled, Local
<1>8. IKept'
  BY <1>7 DEF IKept, IsResident, FeedsOffEngine, Nodes
<1>9. QED BY <1>5, <1>6, <1>8

(***************************************************************************)
(* So does the failure of the run in the wave under way.                   *)
(***************************************************************************)
LEMMA FailureKeepsInv ==
  ASSUME IInv, TypeOK', phase \in {"read", "work"}, phase' = "failed",
         NEW n \in wave, call' = [call EXCEPT ![n] = "err"] \/ call' = call,
         UNCHANGED <<m, finished, wave, resident, owner>>
  PROVE  IInv'
<1> USE DEF IInv
<1>1. wave \cap finished = {} BY WaveFacts
<1>2. \A k \in Nodes(m) : k # n => call'[k] = call[k]
  BY DEF TypeOK
<1>3. finished \subseteq Nodes(m) BY DEF TypeOK
<1>4. IWave' /\ ISources' /\ IRouting' /\ IClassified' /\ IKept'
  BY DEF IWave, ISources, IRouting, IClassified, IsResident, HasMappableChild,
         IKept
<1>5. ICalls' BY <1>1, <1>2, <1>3 DEF ICalls
<1>6. QED BY <1>4, <1>5

(***************************************************************************)
(* Recording a source, on an engine or off it: what was resident stays so, *)
(* so what was kept stays kept.                                            *)
(***************************************************************************)
LEMMA RecordSourceKeepsInv ==
  ASSUME IInv, TypeOK', NEW s \in m.source, NextToAdmit(s), RecordSource(s),
         IRouting', \A k \in Nodes(m) : IsResident(k) => IsResident(k)'
  PROVE  IInv'
<1> USE DEF IInv
<1>1. /\ phase = "work" /\ s \in Reads /\ s \in Nodes(m)
      /\ UNCHANGED <<m, phase, finished, wave, resident>>
  BY DEF NextToAdmit, RecordSource, Nodes
<1>2. finished = {} /\ wave = m.source /\ resident = {} /\ Local = {}
  BY <1>1, WaveFacts
<1>3. \A k \in Nodes(m) : call'[k] = IF k = s THEN "ok" ELSE call[k]
  BY <1>1 DEF TypeOK, RecordSource
<1>4. m.source \cap m.transform = {} /\ m.source \cap m.sink = {}
  BY ManifestOfRun DEF IsManifest
<1>5. IWave' /\ ISources' BY <1>1 DEF IWave, ISources
<1>6. ICalls' BY <1>1, <1>2, <1>3 DEF ICalls, Reads, Nodes
<1>7. IClassified' BY <1>1, <1>2, <1>4 DEF IClassified
<1>8. IKept'
  <2> SUFFICES ASSUME NEW n \in m.source \cup m.transform, Settled(n)'
               PROVE  \/ n \in data'
                      \/ IsResident(n)' /\ ~FeedsOffEngine(owner', n)
    BY <1>1 DEF IKept, FeedsOffEngine
  <2>1. CASE n = s
    BY <1>1, <2>1 DEF RecordSource, IsResident
  <2>2. CASE n # s
    <3>1. Settled(n)
      BY <1>1, <1>2, <1>3, <2>2 DEF Settled, Local, Nodes
    <3>2. n \in data \/ (IsResident(n) /\ ~FeedsOffEngine(owner, n))
      BY <1>1, <3>1 DEF IKept
    <3>3. FeedsOffEngine(owner', n) => FeedsOffEngine(owner, n)
      BY DEF FeedsOffEngine, IsResident, Nodes
    <3>4. data \subseteq data' BY DEF RecordSource
    <3>5. QED BY <3>2, <3>3, <3>4 DEF Nodes
  <2>3. QED BY <2>1, <2>2
<1>9. QED BY <1>5, <1>6, <1>7, <1>8

(***************************************************************************)
(* Putting a source on an engine keeps residency closed, and takes nothing *)
(* off an engine.                                                          *)
(***************************************************************************)
LEMMA AdmissionKeepsRouting ==
  ASSUME IInv, NEW s \in m.source, AdmitOnEngine(s)
  PROVE  IRouting' /\ \A k \in Nodes(m) : IsResident(k) => IsResident(k)'
<1> USE DEF IInv
<1>1. IsManifest(m) BY ManifestOfRun
<1>2. m' = m BY DEF AdmitOnEngine, RecordSource
<1>3. PICK T \in EngineTrees(s) :
        owner' = [n \in Nodes(m) |-> IF n \in T THEN s ELSE owner[n]]
  BY DEF AdmitOnEngine
<1>4. s # NoName BY <1>1 DEF IsManifest, Name, NoName
<1>5. \A n \in Nodes(m) : IsResident(n)' <=> n \in T \/ IsResident(n)
  BY <1>3, <1>4 DEF IsResident
<1>6. /\ s \in T /\ T \subseteq {s} \cup m.mappable
      /\ \A t \in m.mappable : t \in T <=> m.input[t] \in T
  BY <1>3 DEF EngineTrees
<1>7. ASSUME NEW t \in m.transform
      PROVE  IsResident(t)' <=> t \in m.mappable /\ IsResident(m.input[t])'
  <2>1. t \in Nodes(m) /\ m.input[t] \in Nodes(m) /\ t # s
    BY <1>1, ParentsFacts DEF Nodes, IsManifest
  <2>2. IsResident(t) <=> t \in m.mappable /\ IsResident(m.input[t])
    BY DEF IRouting
  <2>3. t \in T => t \in m.mappable /\ m.input[t] \in T
    BY <1>6, <2>1
  <2>4. t \in m.mappable /\ m.input[t] \in T => t \in T
    BY <1>6
  <2>5. IsResident(m.input[t])' <=> m.input[t] \in T \/ IsResident(m.input[t])
    BY <1>2, <1>5, <2>1 DEF IsResident
  <2>6. IsResident(t)' <=> t \in T \/ IsResident(t) BY <1>5, <2>1
  <2>7. QED BY <2>2, <2>3, <2>4, <2>5, <2>6
<1>8. \A k \in m.sink : ~IsResident(k)'
  BY <1>1, <1>5, <1>6 DEF IRouting, IsManifest, Nodes
<1>9. \A r \in m.source : IsResident(r)' => HasMappableChild(r)
  BY <1>1, <1>5, <1>6 DEF IRouting, IsManifest, Nodes, AdmitOnEngine
<1>10. IRouting'
  BY <1>2, <1>7, <1>8, <1>9 DEF IRouting, HasMappableChild
<1>11. QED BY <1>5, <1>10

LEMMA InvNext == IInv /\ [Next]_vars => IInv'
<1> SUFFICES ASSUME IInv, [Next]_vars PROVE IInv'
  OBVIOUS
<1> USE DEF IInv
<1>t. TypeOK' BY TypeNext
<1>m. IsManifest(m) BY ManifestOfRun
<1>n. m.source \subseteq Nodes(m) /\ m.transform \subseteq Nodes(m)
  BY DEF Nodes
<1>1. CASE BeginWave
  <2> USE <1>1 DEF BeginWave
  <2>1. wave' \cap finished = {} /\ wave' \subseteq Nodes(m) BY DEF Ready
  <2>2. \A n \in Nodes(m) \ finished : call[n] = "idle"
    BY DEF ICalls, IWave
  <2>3. IWave' /\ ISources' /\ IRouting' /\ IClassified'
    BY DEF IWave, ISources, IRouting, IClassified, IsResident, HasMappableChild
  <2>4. ICalls' BY <2>1, <2>2 DEF ICalls
  <2>5. \A n \in Nodes(m) : Settled(n)' => Settled(n)
    BY <2>1, <2>2 DEF Settled
  <2>6. IKept' BY <2>5, <1>n DEF IKept, IsResident, FeedsOffEngine
  <2>7. QED BY <1>t, <2>3, <2>4, <2>6
<1>2. CASE Complete
  BY <1>t, <1>2 DEF Complete, IWave, ISources, ICalls, IRouting, IClassified,
     IKept, IsResident, HasMappableChild
<1>3. ASSUME NEW s \in m.source, StartRead(s) PROVE IInv'
  BY <1>t, <1>3, CallKeepsInv DEF StartRead, Reads, CallStates
<1>4. ASSUME NEW s \in m.source, FinishRead(s) PROVE IInv'
  BY <1>t, <1>4, CallKeepsInv DEF FinishRead, Reads, CallStates
<1>5. ASSUME NEW s \in m.source, AdmitOffEngine(s) PROVE IInv'
  <2>1. IRouting' /\ \A k \in Nodes(m) : IsResident(k) => IsResident(k)'
    BY <1>5 DEF AdmitOffEngine, RecordSource, IRouting, IsResident,
                HasMappableChild
  <2>2. QED BY <1>t, <1>5, <2>1, RecordSourceKeepsInv DEF AdmitOffEngine
<1>6. ASSUME NEW s \in m.source, AdmitOnEngine(s) PROVE IInv'
  BY <1>t, <1>6, AdmissionKeepsRouting, RecordSourceKeepsInv DEF AdmitOnEngine
<1>7. ASSUME NEW s \in m.source, AdmitFails(s) PROVE IInv'
  BY <1>t, <1>7, FailureKeepsInv DEF AdmitFails, NextToAdmit, Reads, FailRun
<1>8. CASE CollectReads
  <2> USE <1>8 DEF CollectReads
  <2>1. resident \subseteq wave /\ resident \cap m.source = {}
    BY <1>m DEF IClassified, IsManifest
  <2>2. IWave' /\ ISources' /\ IRouting' /\ IClassified'
    BY DEF IWave, ISources, IRouting, IClassified, IsResident, HasMappableChild
  <2>3. ICalls' BY <2>1 DEF ICalls, Reads
  <2>4. IKept'
    BY DEF IKept, Settled, Local, IsResident, FeedsOffEngine
  <2>5. QED BY <1>t, <2>2, <2>3, <2>4
<1>9. CASE CollectFailedRead
  <2>1. PICK s \in Reads : phase' = "failed"
    BY <1>9 DEF CollectFailedRead, FailRun
  <2>2. QED BY <1>t, <1>9, <2>1, FailureKeepsInv DEF CollectFailedRead, Reads
<1>10. ASSUME NEW t \in m.transform, PullResident(t) PROVE IInv'
  <2> USE <1>10 DEF PullResident, NextToPull
  <2>1. t \in wave \ Local /\ t \in Nodes(m) /\ IsResident(t)
    BY <1>n DEF IClassified, Local
  <2>2. \A k \in Nodes(m) : call'[k] = IF k = t THEN "ok" ELSE call[k]
    BY DEF TypeOK
  <2>3. wave \cap finished = {} /\ wave \subseteq Nodes(m)
    BY WaveFacts DEF TypeOK
  <2>4. IWave' /\ ISources' /\ IRouting' /\ IClassified'
    BY DEF IWave, ISources, IRouting, IClassified, IsResident, HasMappableChild
  <2>5. ICalls'
    <3>1. finished \subseteq Nodes(m) /\ resident \subseteq Nodes(m)
      BY <1>n DEF TypeOK
    <3>2. QED BY <2>1, <2>2, <2>3, <3>1 DEF ICalls, Reads
  <2>6. IKept'
    <3> SUFFICES ASSUME NEW n \in m.source \cup m.transform, Settled(n)'
                 PROVE  \/ n \in data'
                        \/ IsResident(n)' /\ ~FeedsOffEngine(owner', n)
      BY DEF IKept, FeedsOffEngine
    <3>1. IsResident(n)' <=> IsResident(n) BY DEF IsResident
    <3>2. FeedsOffEngine(owner', n) <=> FeedsOffEngine(owner, n) OBVIOUS
    <3>3. n # t => Settled(n) BY <2>2, <1>n DEF Settled, Local
    <3>4. QED BY <2>1, <3>1, <3>2, <3>3 DEF IKept
  <2>7. QED BY <1>t, <2>4, <2>5, <2>6
<1>11. ASSUME NEW t \in m.transform, PullFails(t) PROVE IInv'
  <2>1. t \in wave BY <1>11 DEF PullFails, NextToPull, IClassified
  <2>2. QED
    BY <1>t, <1>11, <2>1, FailureKeepsInv DEF PullFails, NextToPull, FailRun
<1>12. ASSUME NEW n \in Nodes(m), StartLocal(n) PROVE IInv'
  BY <1>t, <1>12, CallKeepsInv DEF StartLocal, Local, CallStates
<1>13. ASSUME NEW n \in Nodes(m), FinishLocal(n) PROVE IInv'
  BY <1>t, <1>13, CallKeepsInv DEF FinishLocal, Local, CallStates
<1>14. ASSUME NEW n \in Nodes(m), FailLocal(n) PROVE IInv'
  BY <1>t, <1>14, CallKeepsInv DEF FailLocal, Local, CallStates
<1>15. CASE EndWave
  <2> USE <1>15 DEF EndWave
  <2>1. \A n \in wave : call[n] = "ok"
    BY DEF AllLocalBack, AllAdmitted, AllPulled, Local, Reads
  <2>2. wave = Ready(m, finished) BY WaveFacts
  <2>3. finished = {} => wave = m.source BY <1>m, <2>2, FirstWave
  <2>4. IWave' /\ ISources' /\ IRouting' /\ IClassified'
    BY <2>3 DEF IWave, ISources, IRouting, IClassified, IsResident,
                HasMappableChild
  <2>5. ICalls' BY <2>1 DEF ICalls
  <2>6. IKept'
    <3> SUFFICES ASSUME NEW n \in m.source \cup m.transform, Settled(n)'
                 PROVE  \/ n \in data'
                        \/ IsResident(n)' /\ ~FeedsOffEngine(owner', n)
      BY DEF IKept, FeedsOffEngine
    <3>1. IsResident(n)' <=> IsResident(n) BY DEF IsResident
    <3>2. FeedsOffEngine(owner', n) <=> FeedsOffEngine(owner, n) OBVIOUS
    <3>3. n \in finished \cup wave BY DEF Settled
    <3>4. CASE n \in Local BY <3>4 DEF Local
    <3>5. CASE n \notin Local
      <4>1. Settled(n) BY <2>1, <3>3, <3>5 DEF Settled
      <4>2. QED BY <3>1, <3>2, <4>1 DEF IKept
    <3>6. QED BY <3>4, <3>5
  <2>7. QED BY <1>t, <2>4, <2>5, <2>6
<1>16. CASE EndFailedWave
  <2>1. PICK f \in Local : phase' = "failed"
    BY <1>16 DEF EndFailedWave, FailRun
  <2>2. QED BY <1>t, <1>16, <2>1, FailureKeepsInv DEF EndFailedWave, Local
<1>17. CASE UNCHANGED vars
  BY <1>t, <1>17 DEF vars, IWave, ISources, ICalls, IRouting, IClassified, IKept,
     Settled, IsResident, HasMappableChild, FeedsOffEngine, Reads, Local
<1>18. QED
  BY <1>1, <1>2, <1>3, <1>4, <1>5, <1>6, <1>7, <1>8, <1>9, <1>10, <1>11,
     <1>12, <1>13, <1>14, <1>15, <1>16, <1>17 DEF Next, Returned

(***************************************************************************)
(* The strengthened invariant holds in every reachable state.              *)
(***************************************************************************)
THEOREM InductiveInvariant == Spec => []IInv
BY InvInit, InvNext, PTL DEF Spec

(***************************************************************************)
(* A collection left on the engine is missed by nobody: residency is       *)
(* closed under mappable inputs (IRouting), so a local reader of n makes   *)
(* feeds_off_engine true of n, and n was brought back when it settled.     *)
(***************************************************************************)
LEMMA InvGivesInputs == IInv => InputsAvailable
<1> SUFFICES ASSUME IInv, phase = "work", NEW n \in Local
             PROVE  /\ m.input[n] \in data \cup m.sink
                    /\ n \in m.transform /\ JoinKept(m.join[n])
                         => m.join[n] \in data
  BY DEF InputsAvailable
<1> USE DEF IInv
<1>1. IsManifest(m) BY ManifestOfRun
<1>2. n \in wave /\ n \in m.transform \cup m.sink
  BY DEF Local, Nodes, TypeOK
<1>3. Parents(m, n) \subseteq finished BY <1>2, WaveFacts DEF Ready
<1>4. n \in m.transform => ~IsResident(n)
  BY <1>2 DEF Local, IClassified
<1>5. m.input[n] \in finished BY <1>1, <1>2, <1>3, ParentsFacts
<1>6. ASSUME NEW p \in (m.source \cup m.transform) \cap finished
      PROVE  p \in data \/ (IsResident(p) /\ ~FeedsOffEngine(owner, p))
  BY <1>6 DEF IKept, Settled
<1>7. m.input[n] \in data \cup m.sink
  <2>1. FeedsOffEngine(owner, m.input[n])
    BY <1>2, <1>4 DEF FeedsOffEngine, IsResident
  <2>2. QED BY <1>5, <1>6, <2>1 DEF TypeOK, Nodes
<1>8. ASSUME n \in m.transform, JoinKept(m.join[n]) PROVE m.join[n] \in data
  <2> DEFINE p == m.join[n]
  <2>1. p \in m.source \cup m.transform BY <1>8 DEF JoinKept
  <2>2. p \in finished BY <1>1, <1>3, <1>8, <2>1, ParentsFacts DEF Nodes
  <2>3. \A t \in m.transform \ m.mappable : ~IsResident(t) BY DEF IRouting
  <2>4. \/ ~IsResident(p)
        \/ FeedsOffEngine(owner, p)
    BY <1>8, <2>3 DEF JoinKept, FeedsOffEngine, IsResident, IRouting
  <2>5. QED BY <1>6, <2>1, <2>2, <2>4
<1>9. QED BY <1>7, <1>8

(***************************************************************************)
(* Routing never loses the collection a local step takes as its input, nor *)
(* a join that is kept, whatever the manifest and whatever fails.          *)
(***************************************************************************)
THEOREM InputsAreAvailable == Spec => []InputsAvailable
BY InductiveInvariant, InvGivesInputs, PTL

(***************************************************************************)
(* The split of a wave into resident and local stays right while the wave  *)
(* runs.                                                                   *)
(***************************************************************************)
THEOREM ClassificationIsStable == Spec => []RoutedAsClassified
<1>1. IInv => RoutedAsClassified
  BY DEF IInv, IClassified, RoutedAsClassified
<1>2. QED BY <1>1, InductiveInvariant, PTL

(***************************************************************************)
(* No sink is written before every source has been read and admitted.      *)
(***************************************************************************)
THEOREM NothingWrittenEarly == Spec => []SinksWaitForSources
<1>1. IInv => SinksWaitForSources
  <2> SUFFICES ASSUME IInv, NEW k \in m.sink, call[k] # "idle",
                      NEW s \in m.source
               PROVE  call[s] = "ok"
    BY DEF SinksWaitForSources
  <2> USE DEF IInv
  <2>1. IsManifest(m) BY ManifestOfRun
  <2>2. k \in finished \cup wave BY DEF ICalls, Nodes
  <2>3. finished # {}
    <3>1. k \notin m.source BY <2>1 DEF IsManifest
    <3>2. Ready(m, {}) = m.source BY <2>1, FirstWave
    <3>3. QED BY <2>2, <3>1, <3>2 DEF IWave
  <2>4. QED BY <2>3 DEF ISources, ICalls
<1>2. QED BY <1>1, InductiveInvariant, PTL

-----------------------------------------------------------------------------
(* The report                                                              *)

(***************************************************************************)
(* A listing of S by name lists S and nothing else, without repetition.    *)
(***************************************************************************)
LEMMA ListingFacts ==
  ASSUME NEW N, N \subseteq Nat, IsFiniteSet(N), NEW S, S \subseteq N,
         NEW q \in InNameOrder(S)
  PROVE  /\ q \in Seq(N)
         /\ {q[i] : i \in DOMAIN q} = S
         /\ \A i, j \in DOMAIN q : q[i] = q[j] => i = j
<1>1. q \in Seq(N) BY ListingIsSeq
<1>2. Cardinality(S) \in Nat BY FS_Subset, FS_CardinalityType
<1>3. /\ DOMAIN q = 1..Cardinality(S)
      /\ \A i \in DOMAIN q : q[i] \in S
      /\ \A n \in S : \E i \in DOMAIN q : q[i] = n
      /\ \A i, j \in DOMAIN q : i < j => q[i] < q[j]
  BY DEF InNameOrder
<1>4. \A i, j \in DOMAIN q : q[i] = q[j] => i = j
  <2> SUFFICES ASSUME NEW i \in DOMAIN q, NEW j \in DOMAIN q, q[i] = q[j], i < j
               PROVE  FALSE
    BY <1>2, <1>3
  <2>1. q[i] \in Nat /\ q[j] \in Nat BY <1>3
  <2>2. q[i] < q[j] BY <1>3
  <2>3. QED BY <2>1, <2>2
<1>5. {q[i] : i \in DOMAIN q} = S
  <2>1. \A i \in DOMAIN q : q[i] \in S BY <1>3
  <2>2. \A n \in S : \E i \in DOMAIN q : q[i] = n BY <1>3
  <2>3. QED BY <2>1, <2>2
<1>6. QED BY <1>1, <1>4, <1>5

(***************************************************************************)
(* Appending a listing of nodes that are not in the report yet and whose   *)
(* parents all are keeps the report without repetition and in dependency   *)
(* order.                                                                  *)
(***************************************************************************)
LEMMA ExtendReport ==
  ASSUME TypeOK, IReport, m' = m,
         NEW q \in Seq(Nodes(m)), NEW S,
         {q[i] : i \in DOMAIN q} = S,
         \A i, j \in DOMAIN q : q[i] = q[j] => i = j,
         S \cap Reported = {},
         \A n \in S : Parents(m, n) \subseteq Reported,
         steps' = steps \o q
  PROVE  /\ Reported' = Reported \cup S
         /\ (\A i, j \in DOMAIN steps : steps[i] = steps[j] => i = j)'
         /\ ReportedInDependencyOrder'
<1>1. steps \in Seq(Nodes(m)) BY DEF TypeOK
<1>2. /\ Len(steps) \in Nat /\ Len(q) \in Nat
      /\ DOMAIN steps = 1..Len(steps) /\ DOMAIN q = 1..Len(q)
  BY <1>1
<1>3. /\ DOMAIN steps' = 1..(Len(steps) + Len(q))
      /\ \A i \in 1..Len(steps) : steps'[i] = steps[i]
      /\ \A i \in 1..Len(q) : steps'[Len(steps) + i] = q[i]
  BY <1>1, <1>2
<1>4. \A k \in DOMAIN steps' :
        \/ k \in 1..Len(steps) /\ steps'[k] = steps[k]
        \/ k - Len(steps) \in 1..Len(q) /\ steps'[k] = q[k - Len(steps)]
  <2> SUFFICES ASSUME NEW k \in 1..(Len(steps) + Len(q)), k \notin 1..Len(steps)
               PROVE  /\ k - Len(steps) \in 1..Len(q)
                      /\ steps'[k] = q[k - Len(steps)]
    BY <1>3
  <2>1. k - Len(steps) \in 1..Len(q) BY <1>2
  <2>2. steps'[Len(steps) + (k - Len(steps))] = q[k - Len(steps)]
    BY <1>3, <2>1
  <2>3. Len(steps) + (k - Len(steps)) = k BY <1>2
  <2>4. QED BY <2>1, <2>2, <2>3
<1>5. Reported' = Reported \cup S
  <2>1. Reported' \subseteq Reported \cup S BY <1>2, <1>4 DEF Reported
  <2>2. Reported \subseteq Reported'
    BY <1>2, <1>3 DEF Reported
  <2>3. S \subseteq Reported'
    <3> SUFFICES ASSUME NEW i \in 1..Len(q) PROVE q[i] \in Reported'
      BY <1>2
    <3>1. Len(steps) + i \in DOMAIN steps' BY <1>2, <1>3
    <3>2. QED BY <1>3, <3>1 DEF Reported
  <2>4. QED BY <2>1, <2>2, <2>3
<1>e. \A k \in DOMAIN steps' :
        IF k \in 1..Len(steps) THEN steps'[k] \in Reported ELSE steps'[k] \in S
  <2> TAKE k \in DOMAIN steps'
  <2>1. CASE k \in 1..Len(steps) BY <1>2, <1>3, <2>1 DEF Reported
  <2>2. CASE k \notin 1..Len(steps) BY <1>2, <1>4, <2>2
  <2>3. QED BY <2>1, <2>2
<1>6. ASSUME NEW i \in DOMAIN steps', NEW j \in DOMAIN steps',
             steps'[i] = steps'[j]
      PROVE  i = j
  <2>1. CASE i \in 1..Len(steps) /\ j \in 1..Len(steps)
    BY <1>2, <1>3, <1>6, <2>1 DEF IReport
  <2>2. CASE i \notin 1..Len(steps) /\ j \notin 1..Len(steps)
    <3>1. i - Len(steps) = j - Len(steps) BY <1>2, <1>4, <1>6, <2>2
    <3>2. QED BY <1>2, <1>3, <3>1
  <2>3. CASE i \in 1..Len(steps) /\ j \notin 1..Len(steps)
    BY <1>e, <1>6, <2>3
  <2>4. CASE i \notin 1..Len(steps) /\ j \in 1..Len(steps)
    BY <1>e, <1>6, <2>4
  <2>5. QED BY <2>1, <2>2, <2>3, <2>4
<1>7. ASSUME NEW j \in DOMAIN steps', NEW p \in Parents(m, steps'[j])
      PROVE  \E i \in 1..(j - 1) : steps'[i] = p
  <2>1. CASE j \in 1..Len(steps)
    <3>1. PICK i \in 1..(j - 1) : steps[i] = p
      BY <1>2, <1>3, <1>7, <2>1 DEF IReport, ReportedInDependencyOrder
    <3>2. i \in 1..Len(steps) BY <1>2, <2>1
    <3>3. QED BY <1>3, <3>1, <3>2
  <2>2. CASE j \notin 1..Len(steps)
    <3>1. j - Len(steps) \in 1..Len(q) /\ steps'[j] = q[j - Len(steps)]
      BY <1>4, <2>2
    <3>2. steps'[j] \in S BY <1>2, <3>1
    <3>3. p \in Reported BY <1>7, <3>2
    <3>4. PICK i \in 1..Len(steps) : steps[i] = p BY <1>2, <3>3 DEF Reported
    <3>5. i \in 1..(j - 1) BY <1>2, <1>3, <2>2
    <3>6. QED BY <1>3, <3>4, <3>5
  <2>3. QED BY <2>1, <2>2
<1>8. QED BY <1>5, <1>6, <1>7 DEF ReportedInDependencyOrder

-----------------------------------------------------------------------------
(* The invariant of the report                                             *)

RInv == IInv /\ ILocalWaits /\ IReport

Ok == {n \in Nodes(m) : call[n] = "ok"}

(***************************************************************************)
(* A node of the wave under way that has not been reported can be: what it *)
(* reads from finished and is in the report.                               *)
(***************************************************************************)
LEMMA WaveIsReportable ==
  ASSUME RInv, phase \in {"read", "work"}, NEW n \in wave
  PROVE  /\ n \in Nodes(m)
         /\ Parents(m, n) \subseteq Reported
         /\ phase = "work" /\ (n \in Local \/ call[n] # "ok") => n \notin Reported
<1> USE DEF RInv
<1>1. wave = Ready(m, finished) /\ wave \cap finished = {} BY WaveFacts
<1>2. n \in Nodes(m) /\ Parents(m, n) \subseteq finished BY <1>1 DEF Ready
<1>3. finished \subseteq Nodes(m) /\ \A k \in finished : call[k] = "ok"
  BY DEF IInv, TypeOK, ICalls
<1>4. finished \subseteq Reported
  BY <1>1, <1>3 DEF IReport, Unreported, Local
<1>5. QED BY <1>2, <1>4 DEF IReport, Unreported

(***************************************************************************)
(* A step that reports nothing keeps the report exact when the succeeded   *)
(* calls it answers for do not change.                                     *)
(***************************************************************************)
LEMMA QuietReport ==
  ASSUME IReport, UNCHANGED <<m, steps>>,
         (Ok \ Unreported)' = Ok \ Unreported
  PROVE  IReport'
BY DEF IReport, Ok, Reported, ReportedInDependencyOrder

(***************************************************************************)
(* A source admitted or a resident transform pulled is reported at once.   *)
(***************************************************************************)
LEMMA RecordOne ==
  ASSUME RInv, phase = "work", NEW n \in wave \ Local, call[n] # "ok",
         call' = [call EXCEPT ![n] = "ok"], steps' = Append(steps, n),
         UNCHANGED <<m, phase, wave, resident>>
  PROVE  IReport'
<1> USE DEF RInv
<1>1. n \in Nodes(m) /\ Parents(m, n) \subseteq Reported /\ n \notin Reported
  BY WaveIsReportable
<1> DEFINE q == <<n>>
<1>2. /\ q \in Seq(Nodes(m))
      /\ {q[i] : i \in DOMAIN q} = {n}
      /\ \A i, j \in DOMAIN q : q[i] = q[j] => i = j
  BY <1>1
<1>3. steps' = steps \o q BY DEF IInv, TypeOK
<1>4. /\ Reported' = Reported \cup {n}
      /\ (\A i, j \in DOMAIN steps : steps[i] = steps[j] => i = j)'
      /\ ReportedInDependencyOrder'
  <2> HIDE DEF q
  <2> QED BY <1>1, <1>2, <1>3, ExtendReport DEF IInv
<1>5. \A k \in Nodes(m) : call'[k] = IF k = n THEN "ok" ELSE call[k]
  BY DEF IInv, TypeOK
<1>6. Unreported' = Unreported BY DEF Unreported, Local
<1>7. Reported' = {k \in Nodes(m)' : call'[k] = "ok"} \ Unreported'
  BY <1>1, <1>4, <1>5, <1>6 DEF IReport, Unreported
<1>8. QED BY <1>4, <1>7 DEF IReport

(***************************************************************************)
(* The local work that succeeded is reported together when its wave ends,  *)
(* well or badly.                                                          *)
(***************************************************************************)
LEMMA RecordLocal ==
  ASSUME RInv, phase = "work", phase' # "work",
         NEW q \in InNameOrder({n \in Local : call[n] = "ok"}),
         steps' = steps \o q, UNCHANGED <<m, call>>
  PROVE  IReport'
<1> USE DEF RInv
<1> DEFINE S == {n \in Local : call[n] = "ok"}
<1>1. Nodes(m) \subseteq Nat /\ IsFiniteSet(Nodes(m))
  BY ManifestOfRun DEF IInv, IsManifest, Nodes, Name
<1>2. S \subseteq Nodes(m) /\ S \subseteq wave BY DEF Local, IInv, TypeOK
<1>3. /\ q \in Seq(Nodes(m))
      /\ {q[i] : i \in DOMAIN q} = S
      /\ \A i, j \in DOMAIN q : q[i] = q[j] => i = j
  <2> HIDE DEF S
  <2>1. q \in InNameOrder(S) BY DEF S
  <2>2. QED BY <1>1, <1>2, <2>1, ListingFacts
<1>4. S \cap Reported = {} BY DEF IReport, Unreported
<1>5. \A n \in S : Parents(m, n) \subseteq Reported
  BY <1>2, WaveIsReportable
<1>6. /\ Reported' = Reported \cup S
      /\ (\A i, j \in DOMAIN steps : steps[i] = steps[j] => i = j)'
      /\ ReportedInDependencyOrder'
  <2> HIDE DEF S
  <2> QED BY <1>3, <1>4, <1>5, ExtendReport DEF IInv
<1>7. Reported' = {k \in Nodes(m)' : call'[k] = "ok"} \ Unreported'
  BY <1>2, <1>6 DEF IReport, Unreported
<1>8. QED BY <1>6, <1>7 DEF IReport

LEMMA RInvInit == Init => RInv
<1> SUFFICES ASSUME Init PROVE RInv
  OBVIOUS
<1>1. IInv BY InvInit
<1>2. ILocalWaits BY DEF Init, ILocalWaits
<1>3. DOMAIN steps = {}
  <2>1. steps \in Seq(Nodes(m)) /\ Len(steps) = 0 BY EmptySeq DEF Init
  <2>2. QED BY <2>1
<1>4. Reported = {} BY <1>3 DEF Reported
<1>5. {n \in Nodes(m) : call[n] = "ok"} = {} BY DEF Init
<1>6. IReport BY <1>3, <1>4, <1>5 DEF IReport, ReportedInDependencyOrder
<1>7. QED BY <1>1, <1>2, <1>6 DEF RInv

LEMMA RInvNext == RInv /\ [Next]_vars => RInv'
<1> SUFFICES ASSUME RInv, [Next]_vars PROVE ILocalWaits' /\ IReport'
  BY InvNext DEF RInv
<1> USE DEF RInv
<1>t. TypeOK /\ IInv BY DEF IInv
<1>1. CASE BeginWave
  BY <1>1, QuietReport DEF BeginWave, ILocalWaits, Ok, Unreported
<1>2. CASE Complete
  BY <1>2, QuietReport DEF Complete, ILocalWaits, Ok, Unreported
<1>3. ASSUME NEW s \in m.source, NEW c \in {"running", "loaded", "err"},
             phase = "read", s \in Reads, call[s] # "ok",
             call' = [call EXCEPT ![s] = c],
             UNCHANGED <<m, phase, wave, resident, steps>>
      PROVE  ILocalWaits' /\ IReport'
  <2>1. Ok' = Ok BY <1>t, <1>3 DEF TypeOK, Ok
  <2>2. QED BY <1>3, <2>1, QuietReport DEF ILocalWaits, Unreported
<1>4. ASSUME NEW s \in m.source, StartRead(s) PROVE ILocalWaits' /\ IReport'
  BY <1>3, <1>4 DEF StartRead
<1>5. ASSUME NEW s \in m.source, FinishRead(s) PROVE ILocalWaits' /\ IReport'
  BY <1>3, <1>5 DEF FinishRead
<1>6. ASSUME NEW s \in m.source, NextToAdmit(s), RecordSource(s)
      PROVE  ILocalWaits' /\ IReport'
  <2> USE <1>6 DEF NextToAdmit, RecordSource
  <2>1. Local = {} /\ Local' = {} /\ s \in wave
    BY <1>t, WaveFacts DEF Local, Reads
  <2>2. ILocalWaits' BY <2>1 DEF ILocalWaits
  <2>3. QED BY <2>1, <2>2, RecordOne
<1>7. ASSUME NEW s \in m.source, AdmitFails(s) PROVE ILocalWaits' /\ IReport'
  <2> USE <1>7 DEF AdmitFails, NextToAdmit, FailRun
  <2>1. Local = {} /\ s \in Nodes(m) BY <1>t, WaveFacts DEF Nodes
  <2>2. Ok' = Ok BY <1>t, <2>1 DEF TypeOK, Ok
  <2>3. QED BY <2>1, <2>2, QuietReport DEF ILocalWaits, Unreported
<1>8. CASE CollectReads
  <2> USE <1>8 DEF CollectReads
  <2>1. \A n \in Local : call[n] = "idle"
    BY <1>t DEF IInv, ICalls, Local
  <2>2. Local' = Local /\ Ok' = Ok BY DEF Local, Ok
  <2>3. ILocalWaits' BY <2>1, <2>2 DEF ILocalWaits
  <2>4. QED BY <2>1, <2>2, <2>3, QuietReport DEF Unreported, Ok
<1>9. CASE CollectFailedRead
  <2>1. phase' = "failed" /\ steps' = steps
    BY <1>9 DEF CollectFailedRead, FailRun
  <2>2. QED
    BY <1>9, <2>1, QuietReport DEF CollectFailedRead, ILocalWaits, Ok, Unreported
<1>10. ASSUME NEW t \in m.transform, PullResident(t)
       PROVE  ILocalWaits' /\ IReport'
  <2> USE <1>10 DEF PullResident, NextToPull
  <2>1. t \in wave \ Local BY <1>t DEF IInv, IClassified, Local
  <2>2. Local' = Local BY DEF Local
  <2>3. ~AllPulled BY DEF AllPulled
  <2>4. ILocalWaits' BY <1>t, <2>1, <2>2, <2>3 DEF ILocalWaits, TypeOK
  <2>5. QED BY <2>1, <2>4, RecordOne
<1>11. ASSUME NEW t \in m.transform, PullFails(t)
       PROVE  ILocalWaits' /\ IReport'
  <2> USE <1>11 DEF PullFails, NextToPull, FailRun
  <2>1. \A n \in Local : call[n] = "idle" BY DEF ILocalWaits, AllPulled
  <2>2. t \in Nodes(m) BY DEF Nodes
  <2>3. Ok' = Ok BY <1>t, <2>2 DEF TypeOK, Ok
  <2>4. QED BY <2>1, <2>3, QuietReport DEF ILocalWaits, Unreported, Ok
<1>12. ASSUME NEW n \in Local, NEW c \in CallStates, phase = "work",
              AllAdmitted, AllPulled,
              call' = [call EXCEPT ![n] = c],
              UNCHANGED <<m, phase, wave, resident, steps>>
       PROVE  ILocalWaits' /\ IReport'
  <2>1. Local' = Local /\ n \notin Reads /\ n \notin resident
    BY <1>12 DEF Local, Reads
  <2>2. \A k \in Nodes(m) : k # n => call'[k] = call[k]
    BY <1>t, <1>12 DEF TypeOK
  <2>3. Reads \subseteq Nodes(m) /\ resident \subseteq Nodes(m)
    BY <1>t DEF TypeOK, Nodes, Reads
  <2>4. AllAdmitted' /\ AllPulled'
    BY <1>12, <2>1, <2>2, <2>3 DEF AllAdmitted, AllPulled, Reads
  <2>5. (Ok \ Unreported)' = Ok \ Unreported
    BY <1>12, <2>1, <2>2 DEF Ok, Unreported
  <2>6. QED BY <1>12, <2>4, <2>5, QuietReport DEF ILocalWaits
<1>13. ASSUME NEW n \in Nodes(m), StartLocal(n)
       PROVE  ILocalWaits' /\ IReport'
  BY <1>12, <1>13 DEF StartLocal, CallStates
<1>14. ASSUME NEW n \in Local, call[n] = "running", phase = "work"
       PROVE  AllAdmitted /\ AllPulled
  BY <1>14 DEF ILocalWaits
<1>15. ASSUME NEW n \in Nodes(m), FinishLocal(n)
       PROVE  ILocalWaits' /\ IReport'
  BY <1>12, <1>14, <1>15 DEF FinishLocal, CallStates
<1>16. ASSUME NEW n \in Nodes(m), FailLocal(n)
       PROVE  ILocalWaits' /\ IReport'
  BY <1>12, <1>14, <1>16 DEF FailLocal, CallStates
<1>17. CASE EndWave
  <2>1. {n \in Local : call[n] = "ok"} = Local BY <1>17 DEF EndWave
  <2>2. ILocalWaits' BY <1>17 DEF EndWave, ILocalWaits
  <2>3. QED BY <1>17, <2>1, <2>2, RecordLocal DEF EndWave
<1>18. CASE EndFailedWave
  <2>1. PICK q \in InNameOrder({n \in Local : call[n] = "ok"}) :
          phase' = "failed" /\ steps' = steps \o q
    BY <1>18 DEF EndFailedWave, FailRun
  <2>2. ILocalWaits' BY <2>1 DEF ILocalWaits
  <2>3. QED BY <1>18, <2>1, <2>2, RecordLocal DEF EndFailedWave
<1>19. CASE UNCHANGED vars
  BY <1>19 DEF vars, ILocalWaits, IReport, AllAdmitted, AllPulled, Local, Reads,
     Reported, Unreported, ReportedInDependencyOrder
<1>20. QED
  BY <1>1, <1>2, <1>4, <1>5, <1>6, <1>7, <1>8, <1>9, <1>10, <1>11, <1>13,
     <1>15, <1>16, <1>17, <1>18, <1>19
  DEF Next, Returned, AdmitOffEngine, AdmitOnEngine

LEMMA ReportInvariant == Spec => []RInv
BY RInvInit, RInvNext, PTL DEF Spec

(***************************************************************************)
(* When execute returns, its report names exactly the steps that           *)
(* succeeded, each once, also when part of the last wave failed.           *)
(***************************************************************************)
THEOREM ReportIsExact == Spec => []ReportMatchesExecution
<1>1. RInv => ReportMatchesExecution
  BY DEF RInv, IReport, ReportMatchesExecution, Ended, Unreported
<1>2. QED BY <1>1, ReportInvariant, PTL

(***************************************************************************)
(* The report never names a step before one it read from.                  *)
(***************************************************************************)
THEOREM ReportIsInDependencyOrder == Spec => []ReportedInDependencyOrder
<1>1. RInv => ReportedInDependencyOrder
  BY DEF RInv, IReport
<1>2. QED BY <1>1, ReportInvariant, PTL

-----------------------------------------------------------------------------
(* The failure                                                             *)

(***************************************************************************)
(* A run that fails under a name, with the steps in done as its report,    *)
(* accounts for every node, as soon as the name is that of a failed step   *)
(* or no step is reported and only reads were made.                        *)
(***************************************************************************)
LEMMA FailRunIsBounded ==
  ASSUME NEW name, NEW done, RInv', FailRun(name, done), m' = m,
         \E n \in wave' : call'[n] = "err",
         \A n \in wave' :
           \/ call'[n] \in {"idle", "ok", "err"}
           \/ n \in m.source /\ call'[n] = "loaded",
         \/ name \in Nodes(m) /\ call'[name] = "err"
         \/ done = <<>> /\ \A n \in Nodes(m) \ m.source : call'[n] = "idle"
  PROVE  FailureIsBounded'
<1>1. phase' = "failed" /\ failed' = name /\ steps' = done
      /\ notRun' = Nodes(m) \ ({name} \cup Reported')
  BY DEF FailRun, Reported
<1>2. Reported' = {n \in Nodes(m) : call'[n] = "ok"}
  BY <1>1 DEF RInv, IReport, Unreported, Nodes
<1>3. Reported' \cap notRun' = {} /\ failed' \notin Reported' \cup notRun'
  <2>1. CASE name \in Nodes(m) /\ call'[name] = "err"
    BY <2>1, <1>1, <1>2
  <2>2. CASE done = <<>>
    <3>1. Reported' = {} BY <2>2, <1>1 DEF Reported
    <3>2. QED BY <3>1, <1>1
  <2>3. QED BY <2>1, <2>2
<1>4. Nodes(m) \subseteq Reported' \cup notRun' \cup {failed'} BY <1>1
<1>5. \A n \in Nodes(m) : n \notin wave' => call'[n] \in {"ok", "idle"}
  BY DEF RInv, IInv, ICalls, Nodes
<1>6. \A n \in Nodes(m) : call'[n] # "running" BY <1>5
<1>7. ASSUME NEW n \in notRun'
      PROVE  \/ call'[n] = "idle"
             \/ n \in wave' /\ call'[n] = "err"
             \/ n \in Reads' /\ call'[n] = "loaded"
  <2>1. n \in Nodes(m) /\ call'[n] # "ok" BY <1>1, <1>2
  <2>2. CASE n \notin wave' BY <2>1, <2>2, <1>5
  <2>3. CASE n \in wave' BY <2>1, <2>3 DEF Reads
  <2>4. QED BY <2>2, <2>3
<1>8. failed' \in Nodes(m) /\ call'[failed'] # "err" =>
        steps' = <<>> /\ \A n \in Nodes(m) \ m.source : call'[n] = "idle"
  BY <1>1
<1>9. Nodes(m)' = Nodes(m) BY DEF Nodes
<1>10. QED BY <1>3, <1>4, <1>6, <1>7, <1>8, <1>9 DEF FailureIsBounded

(***************************************************************************)
(* While sources are read, nothing else was called and nothing is          *)
(* reported: the first wave is the sources, and so is no other.            *)
(***************************************************************************)
LEMMA ReadsComeFirst ==
  ASSUME RInv, phase = "read", Reads # {}
  PROVE  /\ finished = {} /\ wave = m.source /\ steps = <<>>
         /\ \A n \in Nodes(m) \ m.source : call[n] = "idle"
<1>m. IsManifest(m) BY ManifestOfRun DEF RInv, IInv
<1>1. wave = Ready(m, finished) BY DEF RInv, IInv, IWave
<1>2. finished = {} BY <1>1 DEF RInv, IInv, ISources, Reads, Ready
<1>3. wave = m.source BY <1>m, <1>1, <1>2, FirstWave
<1>4. \A n \in Nodes(m) : call[n] # "ok"
  BY <1>2 DEF RInv, IInv, ICalls
<1>5. Reported = {} BY <1>4 DEF RInv, IReport
<1>6. steps \in Seq(Nodes(m)) BY DEF RInv, IInv, TypeOK
<1>7. steps = <<>>
  <2>1. DOMAIN steps = {} BY <1>5 DEF Reported
  <2>2. QED BY <2>1, <1>6
<1>8. \A n \in Nodes(m) \ m.source : call[n] = "idle"
  BY <1>2, <1>3 DEF RInv, IInv, ICalls
<1>9. QED BY <1>2, <1>3, <1>7, <1>8

LEMMA FailureNext ==
  RInv /\ FailureIsBounded /\ [Next]_vars => FailureIsBounded'
<1> SUFFICES ASSUME RInv, FailureIsBounded, [Next]_vars
             PROVE  FailureIsBounded'
  OBVIOUS
<1>t. TypeOK /\ IInv /\ RInv' BY RInvNext DEF RInv, IInv
<1>m. IsManifest(m) BY <1>t, ManifestOfRun
<1>1. ASSUME phase' # "failed" PROVE FailureIsBounded'
  BY <1>1 DEF FailureIsBounded
<1>2. CASE CollectFailedRead
  <2>1. PICK s \in Reads :
          call[s] = "err" /\ \E name \in {s} \cup ErrorNames : FailRun(name, steps)
    BY <1>2 DEF CollectFailedRead
  <2>2. PICK name \in {s} \cup ErrorNames : FailRun(name, steps) BY <2>1
  <2>3. UNCHANGED <<m, call, wave>> /\ phase = "read" /\ AllReadsBack
    BY <1>2 DEF CollectFailedRead
  <2>4. /\ wave = m.source /\ steps = <<>>
        /\ \A n \in Nodes(m) \ m.source : call[n] = "idle"
    BY <2>1, <2>3, ReadsComeFirst
  <2>5. \A n \in wave' :
          call'[n] = "err" \/ (n \in m.source /\ call'[n] = "loaded")
    BY <2>3, <2>4 DEF AllReadsBack, Reads
  <2>6. \E n \in wave' : call'[n] = "err" BY <2>1, <2>3 DEF Reads
  <2>7. QED BY <1>t, <2>2, <2>3, <2>4, <2>5, <2>6, FailRunIsBounded
<1>3. ASSUME NEW s \in m.source, AdmitFails(s) PROVE FailureIsBounded'
  <2>1. FailRun(s, steps) /\ UNCHANGED <<m, wave>> /\ s \in wave /\ phase = "work"
    BY <1>3 DEF AdmitFails, NextToAdmit, Reads
  <2>2. s \in Nodes(m) BY DEF Nodes
  <2>3. call'[s] = "err" /\ \A n \in Nodes(m) : n # s => call'[n] = call[n]
    BY <1>t, <2>2, <1>3 DEF AdmitFails, TypeOK
  <2>4. wave = m.source
    <3>1. wave = Ready(m, finished) BY <1>t, <2>1 DEF IInv, IWave
    <3>2. finished = {} BY <1>t, <2>1, <3>1 DEF IInv, ISources, Ready
    <3>3. QED BY <1>m, <3>1, <3>2, FirstWave
  <2>5. \A n \in wave' : call'[n] \in {"loaded", "ok", "err"} /\ n \in m.source
    BY <1>t, <2>1, <2>3, <2>4 DEF IInv, ICalls, Reads, Nodes
  <2>6. QED BY <1>t, <2>1, <2>2, <2>3, <2>5, FailRunIsBounded
<1>4. ASSUME NEW t \in m.transform, PullFails(t) PROVE FailureIsBounded'
  <2>1. FailRun(t, steps) /\ UNCHANGED <<m, wave>> /\ phase = "work" /\ AllAdmitted
    BY <1>4 DEF PullFails, NextToPull
  <2>2. t \in wave /\ t \in Nodes(m) /\ t \in resident /\ call[t] = "idle"
    BY <1>4 DEF PullFails, NextToPull, RInv, IInv, IClassified, Nodes
  <2>3. call'[t] = "err" /\ \A n \in Nodes(m) : n # t => call'[n] = call[n]
    BY <1>t, <2>2, <1>4 DEF PullFails, TypeOK
  <2>4. wave \subseteq Nodes(m) BY <1>t DEF TypeOK
  <2>5. ~AllPulled BY <2>2 DEF AllPulled
  <2>6. \A n \in wave : call[n] \in {"idle", "ok"}
    <3>1. \A n \in Local : call[n] = "idle"
      BY <2>1, <2>5 DEF RInv, ILocalWaits
    <3>2. \A n \in Reads : call[n] = "ok" BY <2>1 DEF AllAdmitted
    <3>3. \A n \in resident : call[n] \in {"idle", "ok"}
      BY <1>t, <2>1 DEF IInv, ICalls
    <3>4. QED BY <3>1, <3>2, <3>3 DEF Local, Reads
  <2>7. \A n \in wave' : call'[n] \in {"idle", "ok", "err"}
    BY <2>1, <2>3, <2>4, <2>6
  <2>8. QED BY <1>t, <2>1, <2>2, <2>3, <2>7, FailRunIsBounded
<1>5. CASE EndFailedWave
  <2>1. PICK q \in InNameOrder({n \in Local : call[n] = "ok"}), f \in Local :
          /\ Earliest(f, {n \in Local : call[n] = "err"})
          /\ FailRun(f, steps \o q)
    BY <1>5 DEF EndFailedWave
  <2>2. f \in wave /\ f \in Nodes(m) /\ call[f] = "err"
    BY <1>t, <2>1 DEF Earliest, Local, TypeOK
  <2>3. UNCHANGED <<m, call, wave>> /\ AllLocalBack BY <1>5 DEF EndFailedWave
  <2>4. \A n \in wave : call[n] \in {"ok", "err"}
    BY <2>3 DEF AllLocalBack, AllAdmitted, AllPulled, Local, Reads
  <2>5. QED BY <1>t, <2>1, <2>2, <2>3, <2>4, FailRunIsBounded
<1>6. CASE UNCHANGED vars
  BY <1>6 DEF vars, FailureIsBounded, Reported, Nodes, Reads
<1>7. ASSUME Next, phase' = "failed"
      PROVE  \/ CollectFailedRead
             \/ \E s \in m.source : AdmitFails(s)
             \/ \E t \in m.transform : PullFails(t)
             \/ EndFailedWave
             \/ UNCHANGED vars
  BY <1>7 DEF Next, BeginWave, Complete, StartRead, FinishRead, AdmitOffEngine,
     AdmitOnEngine, NextToAdmit, RecordSource, CollectReads, PullResident,
     NextToPull, StartLocal, FinishLocal, FailLocal, EndWave, Returned
<1>8. QED BY <1>1, <1>2, <1>3, <1>4, <1>5, <1>6, <1>7

(***************************************************************************)
(* A failed run accounts for every node once, as reported, failed or not   *)
(* run, whatever its readers call their sources: the node it blames did    *)
(* fail, or only reads were made; what is not run is idle, or of the last  *)
(* wave and failed, or a source read and not admitted.                     *)
(***************************************************************************)
THEOREM FailuresAreBounded == Spec => []FailureIsBounded
<1>1. Init => FailureIsBounded BY DEF Init, FailureIsBounded
<1>2. QED BY <1>1, FailureNext, ReportInvariant, PTL DEF Spec

-----------------------------------------------------------------------------
(* The scheduler implements the dataflow promise                           *)

(***************************************************************************)
(* Among some nodes one is earliest in the topological order, and its      *)
(* parents are not among them.                                             *)
(***************************************************************************)
LEMMA EarliestHasNoParent ==
  ASSUME TypeOK, NEW S, S \subseteq Nodes(m), S # {}
  PROVE  \E n \in S : Parents(m, n) \cap S = {}
<1> DEFINE P == {order[k] : k \in S}
<1>1. \A k \in Nodes(m) : order[k] \in Nat
  <2>1. Cardinality(Nodes(m)) \in Nat
    BY ManifestOfRun, FS_CardinalityType DEF IsManifest
  <2>2. QED BY <2>1 DEF TypeOK, Orders
<1>2. P \subseteq Nat /\ P # {} BY <1>1
<1>3. IsWellFoundedOn(OpToRel(<, Nat), Nat) BY NatLessThanWellFounded
<1>4. PICK x \in P : \A y \in P : ~(<<y, x>> \in OpToRel(<, Nat))
  <2> HIDE DEF P
  <2> QED BY <1>2, <1>3, WFMin
<1>5. \A y \in P : ~(y < x) BY <1>2, <1>4 DEF OpToRel
<1>6. PICK n \in S : x = order[n] BY <1>4
<1>7. \A k \in Parents(m, n) : order[k] < order[n]
  BY DEF TypeOK, Orders
<1>8. QED BY <1>5, <1>6, <1>7

(***************************************************************************)
(* execution_waves leaves no node behind: when no wave is ready every node *)
(* has finished.                                                           *)
(***************************************************************************)
LEMMA NothingReadyMeansAllFinished ==
  ASSUME TypeOK, Ready(m, finished) = {}
  PROVE  finished = Nodes(m)
<1> SUFFICES ASSUME Nodes(m) \ finished # {} PROVE FALSE
  BY DEF TypeOK
<1>1. PICK n \in Nodes(m) \ finished :
        Parents(m, n) \cap (Nodes(m) \ finished) = {}
  BY EarliestHasNoParent
<1>2. Parents(m, n) \subseteq finished BY <1>1 DEF Parents
<1>3. QED BY <1>1, <1>2 DEF Ready

(***************************************************************************)
(* The abstract specification sees the same graph.                         *)
(***************************************************************************)
LEMMA SameGraph ==
  /\ Abstract!Nodes(m) = Nodes(m)
  /\ \A n : Abstract!Parents(m, n) = Parents(m, n)
BY DEF Abstract!Nodes, Nodes, Abstract!Parents, Parents

Errored == {n \in Nodes(m) : call[n] = "err"}

(***************************************************************************)
(* A node of the wave under way that has neither succeeded nor failed may  *)
(* run in the abstract specification: its parents have all succeeded.      *)
(***************************************************************************)
LEMMA WaveMayRun ==
  ASSUME IInv, phase \in {"read", "work"}, NEW n \in wave,
         call[n] \notin {"ok", "err"}
  PROVE  n \in Nodes(m) /\ Abstract!MayRun(n)
<1>1. wave = Ready(m, finished) BY WaveFacts
<1>2. n \in Nodes(m) /\ Parents(m, n) \subseteq finished
  BY <1>1 DEF Ready
<1>3. finished \subseteq Ok
  BY DEF IInv, TypeOK, ICalls, Ok
<1>4. QED BY <1>2, <1>3, SameGraph DEF Abstract!MayRun, Ended, Ok

(***************************************************************************)
(* What a change of one call does to the mapped state.                     *)
(***************************************************************************)
LEMMA MappedCall ==
  ASSUME TypeOK, NEW n \in Nodes(m), NEW c \in CallStates,
         m' = m, call' = [call EXCEPT ![n] = c], call[n] \notin {"ok", "err"}
  PROVE  /\ Ok' = IF c = "ok" THEN Ok \cup {n} ELSE Ok
         /\ Errored' = IF c = "err" THEN Errored \cup {n} ELSE Errored
<1>1. \A k \in Nodes(m) : call'[k] = IF k = n THEN c ELSE call[k]
  BY DEF TypeOK
<1>2. QED BY <1>1 DEF Ok, Errored

LEMMA RunStep ==
  ASSUME IInv, phase \in {"read", "work"}, NEW n \in wave,
         call[n] \notin {"ok", "err"},
         call' = [call EXCEPT ![n] = "ok"], UNCHANGED <<m, phase>>
  PROVE  Abstract!DataflowNext
<1>1. n \in Nodes(m) /\ Abstract!MayRun(n) BY WaveMayRun
<1>2. Ok' = Ok \cup {n} /\ Errored' = Errored
  BY <1>1, MappedCall DEF IInv, CallStates
<1>3. Abstract!Run(n)
  BY <1>1, <1>2 DEF Abstract!Run, Ok, Errored, Ended
<1>4. QED BY <1>1, <1>3, SameGraph DEF Abstract!DataflowNext

LEMMA BreakStep ==
  ASSUME IInv, phase \in {"read", "work"}, NEW n \in wave,
         call[n] \notin {"ok", "err"},
         call' = [call EXCEPT ![n] = "err"], m' = m,
         phase' = phase \/ phase' = "failed"
  PROVE  Abstract!DataflowNext
<1>1. n \in Nodes(m) /\ Abstract!MayRun(n) BY WaveMayRun
<1>2. Ok' = Ok /\ Errored' = Errored \cup {n}
  BY <1>1, MappedCall DEF IInv, CallStates
<1>3. Abstract!Break(n)
  BY <1>1, <1>2 DEF Abstract!Break, Ok, Errored, Ended
<1>4. QED BY <1>1, <1>3, SameGraph DEF Abstract!DataflowNext

LEMMA QuietStep ==
  ASSUME IInv, m' = m, Ok' = Ok, Errored' = Errored,
         ~Ended, ~Ended'
  PROVE  UNCHANGED Abstract!dataflowVars
BY DEF Abstract!dataflowVars, Ok, Errored

LEMMA GiveUpStep ==
  ASSUME IInv, phase \in {"read", "work"}, phase' = "failed",
         UNCHANGED <<m, call>>, \E n \in wave : call[n] = "err"
  PROVE  Abstract!DataflowNext
<1>1. Errored # {} BY DEF IInv, TypeOK, Errored
<1>2. Ok' = Ok /\ Errored' = Errored
  BY DEF Ok, Errored
<1>3. Abstract!GiveUp
  BY <1>1, <1>2 DEF Abstract!GiveUp, Ok, Errored, Ended
<1>4. QED BY <1>3 DEF Abstract!DataflowNext

LEMMA StepSimulation ==
  IInv /\ [Next]_vars => [Abstract!DataflowNext]_(Abstract!dataflowVars)
<1> SUFFICES ASSUME IInv, [Next]_vars
             PROVE  [Abstract!DataflowNext]_(Abstract!dataflowVars)
  OBVIOUS
<1>t. TypeOK BY DEF IInv
<1>1. CASE BeginWave
  BY <1>1, QuietStep DEF BeginWave, Ok, Errored, Ended
<1>2. CASE Complete
  <2> USE <1>2 DEF Complete
  <2>1. Ok = Nodes(m)
    BY <1>t, NothingReadyMeansAllFinished DEF IInv, ICalls, Ok
  <2>2. Ok' = Ok /\ Errored' = Errored
    BY DEF Ok, Errored
  <2>3. Abstract!Succeed
    BY <2>1, <2>2, SameGraph DEF Abstract!Succeed, Ok, Errored, Ended
  <2>4. QED BY <2>3 DEF Abstract!DataflowNext
<1>3. ASSUME NEW s \in m.source, StartRead(s)
      PROVE  UNCHANGED Abstract!dataflowVars
  <2>1. Ok' = Ok /\ Errored' = Errored
    BY <1>t, <1>3, MappedCall DEF StartRead, CallStates, Nodes
  <2>2. QED BY <1>3, <2>1, QuietStep DEF StartRead, Ended
<1>4. ASSUME NEW s \in m.source, FinishRead(s)
      PROVE  [Abstract!DataflowNext]_(Abstract!dataflowVars)
  <2>1. CASE call' = [call EXCEPT ![s] = "loaded"]
    <3>1. Ok' = Ok /\ Errored' = Errored
      BY <1>t, <1>4, <2>1, MappedCall DEF FinishRead, CallStates, Nodes
    <3>2. QED BY <1>4, <3>1, QuietStep DEF FinishRead, Ended
  <2>2. CASE call' = [call EXCEPT ![s] = "err"]
    BY <1>4, <2>2, BreakStep DEF FinishRead, Reads
  <2>3. QED BY <1>4, <2>1, <2>2 DEF FinishRead
<1>5. ASSUME NEW s \in m.source, NextToAdmit(s), RecordSource(s)
      PROVE  Abstract!DataflowNext
  BY <1>5, RunStep DEF NextToAdmit, RecordSource, Reads
<1>6. ASSUME NEW s \in m.source, AdmitFails(s) PROVE Abstract!DataflowNext
  BY <1>6, BreakStep DEF AdmitFails, NextToAdmit, Reads, FailRun
<1>7. CASE CollectReads
  BY <1>7, QuietStep DEF CollectReads, Ok, Errored, Ended
<1>8. CASE CollectFailedRead
  <2>1. phase' = "failed" BY <1>8 DEF CollectFailedRead, FailRun
  <2>2. QED BY <1>8, <2>1, GiveUpStep DEF CollectFailedRead, Reads
<1>9. ASSUME NEW t \in m.transform, PullResident(t)
      PROVE  Abstract!DataflowNext
  <2>1. t \in wave BY <1>9 DEF PullResident, NextToPull, IInv, IClassified
  <2>2. QED BY <1>9, <2>1, RunStep DEF PullResident, NextToPull
<1>10. ASSUME NEW t \in m.transform, PullFails(t) PROVE Abstract!DataflowNext
  <2>1. t \in wave BY <1>10 DEF PullFails, NextToPull, IInv, IClassified
  <2>2. QED BY <1>10, <2>1, BreakStep DEF PullFails, NextToPull, FailRun
<1>11. ASSUME NEW n \in Nodes(m), StartLocal(n)
       PROVE  UNCHANGED Abstract!dataflowVars
  <2>1. Ok' = Ok /\ Errored' = Errored
    BY <1>t, <1>11, MappedCall DEF StartLocal, CallStates
  <2>2. QED BY <1>11, <2>1, QuietStep DEF StartLocal, Ended
<1>12. ASSUME NEW n \in Nodes(m), FinishLocal(n) PROVE Abstract!DataflowNext
  BY <1>12, RunStep DEF FinishLocal, Local
<1>13. ASSUME NEW n \in Nodes(m), FailLocal(n) PROVE Abstract!DataflowNext
  BY <1>13, BreakStep DEF FailLocal, Local
<1>14. CASE EndWave
  BY <1>14, QuietStep DEF EndWave, Ok, Errored, Ended
<1>15. CASE EndFailedWave
  <2>1. phase' = "failed" /\ \E f \in Local : call[f] = "err"
    BY <1>15 DEF EndFailedWave, FailRun, Earliest
  <2>2. QED BY <1>15, <2>1, GiveUpStep DEF EndFailedWave, Local
<1>16. CASE UNCHANGED vars
  BY <1>16 DEF vars, Abstract!dataflowVars, Ended
<1>17. QED
  BY <1>1, <1>2, <1>3, <1>4, <1>5, <1>6, <1>7, <1>8, <1>9, <1>10, <1>11,
     <1>12, <1>13, <1>14, <1>15, <1>16
  DEF Next, Returned, AdmitOffEngine, AdmitOnEngine

LEMMA InitSimulation == Init => Abstract!DataflowInit
BY DEF Init, Abstract!DataflowInit, Ended

(***************************************************************************)
(* A run is a run of the dataflow specification: whatever the waves, the   *)
(* threads and the engine do, a node runs at most once and only after what *)
(* it reads from succeeded, and a completed run ran every node.            *)
(***************************************************************************)
THEOREM Refinement == Spec => ImplementsDataflow
BY InitSimulation, StepSimulation, InductiveInvariant, PTL
   DEF Spec, ImplementsDataflow, Abstract!DataflowSpec
=============================================================================
