----------------------------- MODULE JobProofs ------------------------------
(***************************************************************************)
(* Proofs about Job, for every set of jobs: whatever the collections, the  *)
(* chains of steps and the texts of their parameters.                      *)
(***************************************************************************)
EXTENDS Job, OperationsProofs

-----------------------------------------------------------------------------
(* The inductive invariant.                                                *)

\* The calls that have been made, in the order of the code.
IProgress ==
  /\ job \in Jobs
  /\ IsSeq(held) /\ IsSeq(lineage)
  /\ pc \in {"submitted", "reading"} => held = <<>> /\ lineage = <<>>
  /\ pc = "running" => held # <<>>
  /\ entry = "tool" => pc \in {"submitted", "answered"}

\* The engine holds the head of the chain.
IResident == resident \in {{}, Mappable}

GateOf(fc) == JobOf[job].quality => Quality(fc)

IGate == \A i \in DOMAIN held : i > 1 => GateOf(held[i])

ILineage ==
  /\ held = <<>> => lineage = <<>>
  /\ held # <<>> => Len(lineage) = Len(held) - 1
  /\ \A k \in DOMAIN lineage :
       /\ lineage[k].node = k
       /\ RecordIsTrue(lineage[k], held[k], held[k + 1])

IWire == held # <<>> /\ Len(held) \in resident => SameOrigins(wire, held[Len(held)])

\* A step that has run was known and had its parameters.
Runnable(i) == Step(i).op \in Operations /\ ~Unmet(Step(i).op, Step(i).params)

IRan ==
  pc = "running" =>
    /\ JobOf[job].source \in KnownFormats
    /\ \A i \in 1..(Len(held) - 1) : Runnable(i)

IVerdict ==
  /\ pc = "submitted" \/ entry = "tool" => verdict = "none"
  /\ verdict \in {"none", Verdict(JobOf[job])}
  /\ pc \notin {"rejected", "failed"} => reason = "none"
  /\ VerdictIsRight

IInv == IProgress /\ IResident /\ IGate /\ ILineage /\ IWire /\ IRan /\ IVerdict

-----------------------------------------------------------------------------
(* The chain of steps.                                                     *)

LEMMA JobFacts ==
  ASSUME job \in Jobs
  PROVE  Len(Steps) \in Nat /\ DOMAIN Steps = 1..Len(Steps)
BY JobAssumption DEF Steps

\* Once the chain has left the engine it does not go back.
LEMMA ResidentHead ==
  ASSUME job \in Jobs, IResident, NEW i \in Nat \ {0}, i + 1 \in resident
  PROVE  i \in resident
<1>1. i + 1 \in Mappable BY DEF IResident
<1>2. i + 1 \in 1..Len(Steps) BY <1>1, JobFacts DEF Mappable
<1>3. i \in DOMAIN Steps BY <1>2, JobFacts
<1>4. \A k \in 1..i : HasElement(Step(k).op, Step(k).params) BY <1>1 DEF Mappable
<1>5. i \in Mappable BY <1>3, <1>4 DEF Mappable
<1> QED BY <1>1, <1>5 DEF IResident

LEMMA ResidentHasElement ==
  ASSUME job \in Jobs, IResident, NEW i \in resident
  PROVE  HasElement(Step(i).op, Step(i).params)
<1>1. i \in Mappable BY DEF IResident
<1>2. i \in 1..Len(Steps) BY <1>1, JobFacts DEF Mappable
<1> QED BY <1>1, <1>2 DEF Mappable

\* What validation accepts names operations and formats there are, and gives
\* every operation what it needs.
LEMMA Accepted ==
  ASSUME Verdict(JobOf[job]) = "ok"
  PROVE  /\ \A i \in DOMAIN Steps : Runnable(i)
         /\ {JobOf[job].source, JobOf[job].sink} \subseteq KnownFormats
BY DEF Verdict, UnknownOperation, Lacking, Runnable, Step, Steps

LEMMA AcceptedWhen ==
  ASSUME \A i \in DOMAIN Steps : Runnable(i),
         JobOf[job].source \in KnownFormats, JobOf[job].sink \in KnownFormats
  PROVE  Verdict(JobOf[job]) = "ok"
BY DEF Verdict, UnknownOperation, Lacking, Runnable, Step, Steps

LEMMA VerdictValues == Verdict(JobOf[job]) \in {"ok", "operation", "format"}
BY DEF Verdict

-----------------------------------------------------------------------------
(* The steps before a step, and what they gave.                            *)

\* What is joined is the second source or what an earlier node gave.
LEMMA JoinIs ==
  ASSUME NEW i, NEW results
  PROVE  \/ JoinOf(i, results) = JobOf[job].other /\ JoinNodes(i) = {}
         \/ \E n \in JoinNodes(i) : n \in 1..i /\ \A s : JoinOf(i, s) = s[n]
BY DEF JoinOf, JoinNodes

\* What has been given does not change.
LEMMA JoinStays ==
  ASSUME job' = job, NEW i, \A n \in 1..i : held'[n] = held[n]
  PROVE  JoinOf(i, held)' = JoinOf(i, held)
<1>1. JoinNodes(i)' = JoinNodes(i) BY DEF JoinNodes, NodeName, Step, Steps
<1>2. CASE JoinNodes(i) = {} BY <1>1, <1>2 DEF JoinOf
<1>3. CASE JoinNodes(i) # {}
  <2>1. (CHOOSE n \in JoinNodes(i) : TRUE) \in 1..i BY <1>3 DEF JoinNodes
  <2>2. held'[CHOOSE n \in JoinNodes(i) : TRUE] = held[CHOOSE n \in JoinNodes(i) : TRUE] BY <2>1
  <2> QED BY <1>1, <1>3, <2>2 DEF JoinOf
<1> QED BY <1>2, <1>3

-----------------------------------------------------------------------------
(* A step that ends, by whatever way it got its result.                    *)

\* What may be said of the result of step At, and of the engine after it.
Sound(result, pulled) ==
  /\ Step(At).op \in KeepsOrder => SameOrigins(result, Given)
  /\ At + 1 \in resident => SameOrigins(pulled, result)

\* What a step adds to the collections that are held.
LEMMA GiveAdds ==
  ASSUME IProgress, pc = "running", NEW result, NEW pulled, Give(result, pulled)
  PROVE  /\ wire' = pulled /\ lineage' = Append(lineage, Record(At, Given, result)) /\ twin' \in Rerun
         /\ UNCHANGED <<job, entry, pc, verdict, reason, resident, out, answer>>
         /\ Len(held) \in Nat \ {0} /\ DOMAIN held = 1..Len(held)
         /\ IsSeq(held') /\ Len(held') = Len(held) + 1 /\ DOMAIN held' = 1..(Len(held) + 1)
         /\ \A i \in 1..Len(held) : held'[i] = held[i]
         /\ held'[Len(held) + 1] = result
<1>1. /\ held' = Append(held, result) /\ wire' = pulled
      /\ lineage' = Append(lineage, Record(At, Given, result)) /\ twin' \in Rerun
      /\ UNCHANGED <<job, entry, pc, verdict, reason, resident, out, answer>>
  BY DEF Give
<1>2. IsSeq(held) /\ held # <<>> BY DEF IProgress
<1>3. Len(held) \in Nat \ {0} /\ DOMAIN held = 1..Len(held)
  BY <1>2, SeqLength, EmptySeqIsShort
<1>4. /\ IsSeq(held') /\ Len(held') = Len(held) + 1 /\ DOMAIN held' = 1..(Len(held) + 1)
      /\ \A i \in 1..Len(held) : held'[i] = held[i]
      /\ held'[Len(held) + 1] = result
  BY <1>1, <1>2, Appended
<1> QED BY <1>1, <1>3, <1>4

\* A pull ends in a failure of its gate or with a result that passes it.
LEMMA PullEnds ==
  ASSUME PullResident
  PROVE  /\ pc = "running" /\ At \in DOMAIN Steps /\ At \in resident
         /\ \E fc \in Element(Step(At).op, Step(At).params, wire) :
              \/ /\ Fail("invalid geometry") /\ JobOf[job].quality /\ ~Quality(Pulled(fc))
              \/ /\ Give(Pulled(fc), fc) /\ GateOf(Pulled(fc))
<1>1. PICK fc \in Element(Step(At).op, Step(At).params, wire) :
        LET built == FeedsOffEngine(At) \/ JobOf[job].quality
        IN  CASE JobOf[job].quality /\ ~built -> Fail("not materialized")
              [] JobOf[job].quality /\ built /\ ~Quality(Pulled(fc)) -> Fail("invalid geometry")
              [] OTHER -> Give(Pulled(fc), fc)
  BY DEF PullResident
<1>2. ~(JobOf[job].quality /\ ~(FeedsOffEngine(At) \/ JobOf[job].quality)) OBVIOUS
<1>3. pc = "running" /\ At \in DOMAIN Steps /\ At \in resident BY DEF PullResident
<1>4. CASE JobOf[job].quality /\ ~Quality(Pulled(fc))
  <2>1. Fail("invalid geometry") BY <1>1, <1>4
  <2> QED BY <1>3, <1>4, <2>1
<1>5. CASE ~(JobOf[job].quality /\ ~Quality(Pulled(fc)))
  <2>1. Give(Pulled(fc), fc) BY <1>1, <1>2, <1>5
  <2>2. GateOf(Pulled(fc)) BY <1>5 DEF GateOf
  <2> QED BY <1>3, <2>1, <2>2
<1> QED BY <1>4, <1>5

\* A step on a thread fails before it begins or at its gate, or passes it.
LEMMA LocalEnds ==
  ASSUME RunLocal
  PROVE  /\ pc = "running" /\ At \in DOMAIN Steps /\ At \notin resident
         /\ \/ Fail("join not available")
            \/ /\ Failure(Step(At).op, Step(At).params, Given) # "none"
               /\ Fail(Failure(Step(At).op, Step(At).params, Given))
            \/ /\ Failure(Step(At).op, Step(At).params, Given) = "none"
               /\ \E result \in Results(Step(At).op, Step(At).params, Given, JoinOf(At, held)) :
                    \/ Fail("invalid geometry") /\ JobOf[job].quality /\ ~Quality(result)
                    \/ Give(result, wire) /\ GateOf(result)
<1> DEFINE why == IF CannotJoin(At) THEN "join not available"
                  ELSE Failure(Step(At).op, Step(At).params, Given)
<1>1. /\ pc = "running" /\ At \in DOMAIN Steps /\ At \notin resident
      /\ why # "none" => Fail(why)
      /\ why = "none" =>
           \E result \in Results(Step(At).op, Step(At).params, Given, JoinOf(At, held)) :
             IF JobOf[job].quality /\ ~Quality(result) THEN Fail("invalid geometry") ELSE Give(result, wire)
  BY DEF RunLocal
<1>2. CASE why # "none" BY <1>1, <1>2
<1>3. CASE why = "none"
  <2>1. Failure(Step(At).op, Step(At).params, Given) = "none" BY <1>3
  <2>2. PICK result \in Results(Step(At).op, Step(At).params, Given, JoinOf(At, held)) :
          IF JobOf[job].quality /\ ~Quality(result) THEN Fail("invalid geometry") ELSE Give(result, wire)
    BY <1>1, <1>3
  <2>3. \/ Fail("invalid geometry") /\ JobOf[job].quality /\ ~Quality(result)
        \/ Give(result, wire) /\ GateOf(result)
    BY <2>2 DEF GateOf
  <2> QED BY <1>1, <2>1, <2>3
<1> QED BY <1>2, <1>3

\* A job that fails for a reason that its verdict allows.
LEMMA FailKeeps ==
  ASSUME IInv, pc \in {"reading", "running"}, NEW why, Fail(why),
         verdict = "ok" => why \notin {"missing parameter", "unknown operation", "unknown format"},
         verdict = "ok" /\ why = "no join dataset" =>
           \E i \in DOMAIN Steps : Step(i).op = "spatial_join" /\ "join" \in DOMAIN Step(i).params
  PROVE  IInv'
<1>1. /\ pc' = "failed" /\ reason' = why
      /\ UNCHANGED <<job, entry, verdict, held, wire, resident, lineage, out, answer>>
  BY DEF Fail
<1>2. IProgress' BY <1>1 DEF IInv, IProgress
<1>3. IResident' BY <1>1 DEF IInv, IResident, Mappable, Step, Steps
<1>4. IGate' BY <1>1 DEF IInv, IGate, GateOf
<1>5. ILineage' BY <1>1 DEF IInv, ILineage, RecordIsTrue
<1>6. IWire' BY <1>1 DEF IInv, IWire
<1>7. IRan' BY <1>1 DEF IRan
<1>8. IVerdict' BY <1>1 DEF IInv, IProgress, IVerdict, VerdictIsRight, Steps, Step
<1> QED BY <1>2, <1>3, <1>4, <1>5, <1>6, <1>7, <1>8 DEF IInv

LEMMA GiveKeeps ==
  ASSUME IInv, pc = "running", At \in DOMAIN Steps, Runnable(At),
         NEW result, NEW pulled, Sound(result, pulled), GateOf(result), Give(result, pulled)
  PROVE  IInv'
<1>1. job \in Jobs /\ IsSeq(held) /\ IsSeq(lineage) /\ held # <<>> /\ entry # "tool"
  BY DEF IInv, IProgress
<1>2. /\ wire' = pulled /\ lineage' = Append(lineage, Record(At, Given, result))
      /\ UNCHANGED <<job, entry, pc, verdict, reason, resident, out, answer>>
      /\ Len(held) \in Nat \ {0} /\ DOMAIN held = 1..Len(held)
      /\ IsSeq(held') /\ Len(held') = Len(held) + 1 /\ DOMAIN held' = 1..(Len(held) + 1)
      /\ \A i \in 1..Len(held) : held'[i] = held[i]
      /\ held'[Len(held) + 1] = result
  BY GiveAdds DEF IInv
<1>3. Len(lineage) = Len(held) - 1 /\ DOMAIN lineage = 1..(Len(held) - 1)
  BY <1>1, <1>2, SeqLength DEF IInv, ILineage
<1>4. /\ IsSeq(lineage') /\ Len(lineage') = Len(held) /\ DOMAIN lineage' = 1..Len(held)
      /\ \A i \in 1..(Len(held) - 1) : lineage'[i] = lineage[i]
      /\ lineage'[Len(held)] = Record(At, Given, result)
  <2>1. Len(lineage) + 1 = Len(held) /\ Len(lineage) = Len(held) - 1 BY <1>2, <1>3
  <2> DEFINE r == Record(At, Given, result)
  <2>2. lineage' = Append(lineage, r) BY <1>2
  <2> HIDE DEF r
  <2>3. /\ IsSeq(Append(lineage, r)) /\ Len(Append(lineage, r)) = Len(lineage) + 1
        /\ DOMAIN Append(lineage, r) = 1..(Len(lineage) + 1)
        /\ \A i \in 1..Len(lineage) : Append(lineage, r)[i] = lineage[i]
        /\ Append(lineage, r)[Len(lineage) + 1] = r
    BY <1>1, Appended
  <2>4. /\ IsSeq(lineage') /\ Len(lineage') = Len(held) /\ DOMAIN lineage' = 1..Len(held)
        /\ \A i \in 1..(Len(held) - 1) : lineage'[i] = lineage[i]
        /\ lineage'[Len(held)] = r
    BY <2>1, <2>2, <2>3
  <2> QED BY <2>4 DEF r
<1>5. IProgress'
  <2>1. held' # <<>>
    <3>1. 1 \in DOMAIN held' BY <1>2
    <3> QED BY <3>1
  <2> QED BY <1>1, <1>2, <1>4, <2>1 DEF IProgress
<1>6. IResident' BY <1>2 DEF IInv, IResident, Mappable, Step, Steps
<1>7. IGate'
  <2>1. \A i \in 1..Len(held) : i > 1 => GateOf(held'[i]) BY <1>2 DEF IInv, IGate
  <2>2. \A i \in 1..(Len(held) + 1) : i > 1 => GateOf(held'[i]) BY <1>2, <2>1
  <2> QED BY <1>2, <2>2 DEF IGate, GateOf
<1>8. ILineage'
  <2>1. \A k \in 1..(Len(held) - 1) :
          lineage'[k].node = k /\ RecordIsTrue(lineage'[k], held'[k], held'[k + 1])
    <3> TAKE k \in 1..(Len(held) - 1)
    <3>1. k \in 1..Len(held) /\ k + 1 \in 1..Len(held) BY <1>2
    <3>2. lineage'[k] = lineage[k] /\ held'[k] = held[k] /\ held'[k + 1] = held[k + 1]
      BY <1>2, <1>4, <3>1
    <3>3. lineage[k].node = k /\ RecordIsTrue(lineage[k], held[k], held[k + 1])
      BY <1>3 DEF IInv, ILineage
    <3> QED BY <3>2, <3>3
  <2>2. RecordIsTrue(Record(At, Given, result), Given, result) /\ Record(At, Given, result).node = At
    BY DEF RecordIsTrue, Record, Sound
  <2>3. held'[Len(held)] = Given BY <1>2 DEF Given, At
  <2>4. Len(held) \in Nat \ {0} /\ Len(held') = Len(held) + 1 /\ held'[Len(held) + 1] = result
    BY <1>2
  <2>5. \A k \in 1..Len(held) :
          lineage'[k].node = k /\ RecordIsTrue(lineage'[k], held'[k], held'[k + 1])
    BY <1>4, <2>1, <2>2, <2>3, <2>4 DEF At
  <2>6. held' # <<>> /\ Len(lineage') = Len(held') - 1
    <3>1. Len(lineage') = Len(held') - 1 BY <1>4, <2>4
    <3>2. 1 \in DOMAIN held' BY <1>2
    <3> QED BY <3>1, <3>2
  <2> QED BY <1>4, <2>5, <2>6 DEF ILineage, RecordIsTrue
<1>9. IWire' BY <1>2 DEF IWire, Sound, At
<1>10. IRan'
  <2>1. \A i \in 1..Len(held) : Runnable(i) BY <1>2 DEF IInv, IRan, At
  <2>2. \A i \in 1..(Len(held') - 1) : Runnable(i) BY <1>2, <2>1
  <2> QED BY <1>2, <2>2 DEF IInv, IRan, Runnable, Step, Steps
<1>11. IVerdict' BY <1>2 DEF IInv, IVerdict, VerdictIsRight, Steps, Step
<1> QED BY <1>5, <1>6, <1>7, <1>8, <1>9, <1>10, <1>11 DEF IInv

-----------------------------------------------------------------------------
(* The actions.                                                            *)

LEMMA InitHolds ==
  ASSUME Init
  PROVE  IInv
<1>1. IsSeq(held) /\ IsSeq(lineage) /\ held = <<>> /\ lineage = <<>>
  <2>1. <<>> \in Seq({}) OBVIOUS
  <2> QED BY <2>1 DEF Init, IsSeq
<1>2. DOMAIN held = {} /\ DOMAIN lineage = {} BY <1>1
<1>3. IProgress BY <1>1 DEF Init, IProgress
<1>4. IResident BY DEF Init, IResident
<1>5. IGate BY <1>2 DEF IGate
<1>6. ILineage BY <1>1, <1>2 DEF ILineage
<1>7. IWire BY <1>1 DEF IWire
<1>8. IRan BY DEF Init, IRan
<1>9. IVerdict BY DEF Init, IVerdict, VerdictIsRight
<1> QED BY <1>3, <1>4, <1>5, <1>6, <1>7, <1>8, <1>9 DEF IInv

\* A step that leaves the collections of the run as they are.
LEMMA CollectionsStand ==
  ASSUME IInv, UNCHANGED <<job, held, wire, resident, lineage>>
  PROVE  IResident' /\ IGate' /\ ILineage' /\ IWire'
<1>1. IResident' BY DEF IInv, IResident, Mappable, Step, Steps
<1>2. IGate' BY DEF IInv, IGate, GateOf
<1>3. ILineage' BY DEF IInv, ILineage, RecordIsTrue
<1>4. IWire' BY DEF IInv, IWire
<1> QED BY <1>1, <1>2, <1>3, <1>4

LEMMA SubmitKeeps ==
  ASSUME IInv, Submit
  PROVE  IInv'
<1>1. /\ pc = "submitted" /\ entry # "tool" /\ verdict' = Verdict(JobOf[job])
      /\ UNCHANGED <<job, entry, held, wire, resident, lineage>>
  BY DEF Submit
<1>2. \/ pc' = "rejected" /\ reason' = "missing parameter" /\ Lacking(Steps)
      \/ pc' = "reading" /\ reason' = "none"
  BY <1>1 DEF Submit, IInv, IVerdict
<1>3. Lacking(Steps) => Verdict(JobOf[job]) # "ok"
  BY DEF Verdict, Steps
<1>4. IProgress' BY <1>1, <1>2 DEF IInv, IProgress
<1>5. IRan' BY <1>2 DEF IRan
<1>6. IVerdict' BY <1>1, <1>2, <1>3 DEF IVerdict, VerdictIsRight, Steps, Step
<1> QED BY <1>1, <1>4, <1>5, <1>6, CollectionsStand DEF IInv

LEMMA ReadKeeps ==
  ASSUME IInv, ReadSource
  PROVE  IInv'
<1>1. pc = "reading" /\ job \in Jobs /\ lineage = <<>> /\ entry # "tool"
  BY DEF ReadSource, IInv, IProgress
<1>2. CASE JobOf[job].source \notin KnownFormats
  <2>1. Fail("unknown format") BY <1>2 DEF ReadSource
  <2>2. verdict # "ok" BY <1>2, Accepted DEF IInv, IVerdict
  <2> QED BY <1>1, <2>1, <2>2, FailKeeps
<1>3. CASE JobOf[job].source \in KnownFormats
  <2> DEFINE fc == ReadFrom(Source)
  <2>1. /\ held' = <<fc>> /\ resident' \in {{}, Mappable}
        /\ wire' = (IF resident' # {} THEN OverProperties(fc, ToJson) ELSE Nothing)
        /\ pc' = "running"
        /\ UNCHANGED <<job, entry, verdict, reason, lineage, out, answer>>
    BY <1>3 DEF ReadSource
  <2> HIDE DEF fc
  <2>2. IsSeq(held') /\ Len(held') = 1 /\ held'[1] = fc /\ DOMAIN held' = {1} /\ held' # <<>>
    BY <2>1, OneElement
  <2>3. DOMAIN lineage = {} /\ Len(lineage) = 0 BY <1>1
  <2>4. IProgress' BY <1>1, <2>1, <2>2 DEF IInv, IProgress
  <2>5. IResident' BY <2>1 DEF IResident, Mappable, Step, Steps
  <2>6. IGate' BY <2>2 DEF IGate
  <2>7. ILineage' BY <2>1, <2>2, <2>3 DEF ILineage
  <2>8. IWire' BY <2>1, <2>2, CrossingKeepsOrigins DEF IWire
  <2>9. IRan' BY <1>3, <2>1, <2>2 DEF IRan
  <2>10. IVerdict' BY <1>1, <2>1 DEF IInv, IVerdict, VerdictIsRight, Steps, Step
  <2> QED BY <2>4, <2>5, <2>6, <2>7, <2>8, <2>9, <2>10 DEF IInv
<1> QED BY <1>2, <1>3

LEMMA PullKeeps ==
  ASSUME IInv, PullResident
  PROVE  IInv'
<1>1. pc = "running" /\ At \in DOMAIN Steps /\ At \in resident BY PullEnds
<1>2. PICK fc \in Element(Step(At).op, Step(At).params, wire) :
        \/ Fail("invalid geometry")
        \/ Give(Pulled(fc), fc) /\ GateOf(Pulled(fc))
  BY PullEnds
<1>3. CASE Fail("invalid geometry") BY <1>1, <1>3, FailKeeps
<1>4. CASE Give(Pulled(fc), fc) /\ GateOf(Pulled(fc))
  <2>1. HasElement(Step(At).op, Step(At).params)
    BY <1>1, ResidentHasElement DEF IInv, IProgress
  <2>2. Runnable(At) BY <2>1, ElementIsMet DEF Runnable
  <2>3. SameOrigins(Pulled(fc), fc)
    <3>1. SameOrigins(OverProperties(fc, FromJson), fc) BY CrossingKeepsOrigins
    <3>2. Pulled(fc).features = OverProperties(fc, FromJson).features BY DEF Pulled, Collection
    <3> QED BY <3>1, <3>2 DEF SameOrigins
  <2>4. Step(At).op \in KeepsOrder => SameOrigins(Pulled(fc), Given)
    <3>1. held # <<>> BY <1>1 DEF IInv, IProgress
    <3>2. SameOrigins(wire, Given) BY <1>1, <3>1 DEF IInv, IWire, At, Given
    <3>3. Step(At).op \in KeepsOrder => SameOrigins(fc, wire) BY <1>2, <2>1, ElementKeepsOrder
    <3> QED BY <2>3, <3>2, <3>3, SameOriginsChain
  <2>5. SameOrigins(fc, Pulled(fc)) BY <2>3 DEF SameOrigins
  <2>6. Sound(Pulled(fc), fc) BY <2>4, <2>5 DEF Sound
  <2> QED BY <1>1, <1>4, <2>2, <2>6, GiveKeeps
<1> QED BY <1>2, <1>3, <1>4

LEMMA LocalKeeps ==
  ASSUME IInv, RunLocal
  PROVE  IInv'
<1> DEFINE why == Failure(Step(At).op, Step(At).params, Given)
<1>1. pc = "running" /\ At \in DOMAIN Steps /\ At \notin resident /\ job \in Jobs /\ held # <<>>
  BY LocalEnds DEF IInv, IProgress
<1>2. CASE Fail("join not available") \/ Fail("invalid geometry") BY <1>1, <1>2, FailKeeps
<1>3. CASE why # "none" /\ Fail(why)
  <2>1. verdict = "ok" => Runnable(At)
    BY <1>1, Accepted DEF IInv, IVerdict
  <2>2. verdict = "ok" => why \notin {"missing parameter", "unknown operation", "unknown format"}
    BY <2>1, FailureIsFair DEF Runnable
  <2>3. verdict = "ok" /\ why = "no join dataset" =>
          Step(At).op = "spatial_join" /\ "join" \in DOMAIN Step(At).params
    BY <2>1, FailureIsFair, JoinIsMet DEF Runnable
  <2> QED BY <1>1, <1>3, <2>2, <2>3, FailKeeps
<1>4. ASSUME why = "none", NEW result \in Results(Step(At).op, Step(At).params, Given, JoinOf(At, held)),
             Give(result, wire), GateOf(result)
      PROVE  IInv'
  <2>1. Runnable(At) BY <1>4, FailureIsFair DEF Runnable
  <2>2. Step(At).op \in KeepsOrder => SameOrigins(result, Given) BY OrderIsKept
  <2>3. At \in Nat \ {0} BY <1>1, SeqLength, EmptySeqIsShort DEF IInv, IProgress, At
  <2>4. At + 1 \notin resident BY <1>1, <2>3, ResidentHead DEF IInv
  <2>5. Sound(result, wire) BY <2>2, <2>4 DEF Sound
  <2> QED BY <1>1, <1>4, <2>1, <2>5, GiveKeeps
<1> QED BY <1>2, <1>3, <1>4, LocalEnds

LEMMA WriteKeeps ==
  ASSUME IInv, WriteSink
  PROVE  IInv'
<1> DEFINE format == FormatOf(JobOf[job].sink)
<1>1. pc = "running" /\ At = Len(Steps) + 1 /\ job \in Jobs /\ entry # "tool" /\ held # <<>>
  BY DEF WriteSink, IInv, IProgress
<1>2. CASE format \notin FormatNames
  <2>1. Fail("unknown format") BY <1>2 DEF WriteSink
  <2>2. verdict # "ok" BY <1>2, Accepted, FormatsKnown DEF IInv, IVerdict
  <2> QED BY <1>1, <2>1, <2>2, FailKeeps
<1>3. CASE format \in FormatNames /\ RefusedBy(format, Given)
  <2>1. Fail("refused") BY <1>3 DEF WriteSink
  <2> QED BY <1>1, <2>1, FailKeeps
<1>4. CASE format \in FormatNames /\ ~RefusedBy(format, Given)
  <2>1. /\ pc' = "done"
        /\ UNCHANGED <<job, entry, verdict, reason, held, wire, resident, lineage, answer>>
    BY <1>4 DEF WriteSink
  <2>2. \A i \in DOMAIN Steps : Runnable(i)
    BY <1>1, JobFacts DEF IInv, IRan, At
  <2>3. Verdict(JobOf[job]) = "ok"
    BY <1>1, <1>4, <2>2, AcceptedWhen, FormatsKnown DEF IInv, IRan
  <2>4. IProgress' BY <1>1, <2>1 DEF IInv, IProgress
  <2>5. IRan' BY <2>1 DEF IRan
  <2>6. IVerdict' BY <1>1, <2>1, <2>3 DEF IInv, IVerdict, VerdictIsRight, Steps, Step
  <2> QED BY <2>1, <2>4, <2>5, <2>6, CollectionsStand DEF IInv
<1> QED BY <1>2, <1>3, <1>4

LEMMA AnswerKeeps ==
  ASSUME IInv, AnswerTool
  PROVE  IInv'
<1>1. /\ pc = "submitted" /\ entry = "tool" /\ pc' = "answered"
      /\ UNCHANGED <<job, entry, verdict, reason, held, wire, resident, lineage>>
  BY DEF AnswerTool
<1>2. IProgress' BY <1>1 DEF IInv, IProgress
<1>3. IRan' BY <1>1 DEF IRan
<1>4. IVerdict' BY <1>1 DEF IInv, IVerdict, VerdictIsRight, Steps, Step
<1> QED BY <1>1, <1>2, <1>3, <1>4, CollectionsStand DEF IInv

LEMMA StutterKeeps ==
  ASSUME IInv, UNCHANGED vars
  PROVE  IInv'
<1>1. IProgress' BY DEF vars, IInv, IProgress
<1>2. IRan' BY DEF vars, IInv, IRan, Runnable, Step, Steps
<1>3. IVerdict' BY DEF vars, IInv, IVerdict, VerdictIsRight, Steps, Step
<1> QED BY <1>1, <1>2, <1>3, CollectionsStand DEF vars, IInv

-----------------------------------------------------------------------------
(* The theorems: the verdict and the lineage.                               *)

\* The calls of a run come in their order, the engine holds the head of the
\* chain or nothing, what it holds is made of the features the last step gave,
\* and every step that has run was known and had what it needs.
THEOREM JobInductive == Spec => []IInv
<1>1. Init => IInv BY InitHolds
<1>2. IInv /\ [Next]_vars => IInv'
  BY SubmitKeeps, ReadKeeps, PullKeeps, LocalKeeps, WriteKeeps, AnswerKeeps, StutterKeeps DEF Next
<1> QED BY <1>1, <1>2, PTL DEF Spec

\* /validate (validate.rs) and a run (pipeline.rs, registry.rs) agree for every
\* chain of steps and every set of parameters: what it accepts does not fail for
\* what it checks, what it turns down never runs to its end.
THEOREM VerdictIsSound == Spec => []VerdictIsRight
<1>1. IInv => VerdictIsRight BY DEF IInv, IVerdict
<1> QED BY <1>1, JobInductive, PTL

\* The lineage (lineage.rs) counts the features of every step right, and maps
\* them by their index only where those with one index are made of the same
\* features of the source, on the engine or off it.
THEOREM LineageIsSound == Spec => []LineageIsTrue
<1>1. IInv => LineageIsTrue
  <2>1. ASSUME ILineage, NEW k \in DOMAIN lineage
        PROVE  /\ lineage[k].count = Len(held[lineage[k].node + 1].features)
               /\ lineage[k].inputCount = Len(held[lineage[k].node].features)
               /\ lineage[k].passthrough =>
                    SameOrigins(held[lineage[k].node + 1], held[lineage[k].node])
    BY <2>1 DEF ILineage, RecordIsTrue
  <2>2. ILineage => LineageIsTrue BY <2>1 DEF LineageIsTrue, SameOrigins
  <2> QED BY <2>2 DEF IInv
<1> QED BY <1>1, JobInductive, PTL

-----------------------------------------------------------------------------
(* The tools answer as the runs.                                           *)

\* Some parameter that the tool reads is missing or of another type.
Turned(tool, params) ==
  \E i \in DOMAIN GpReads[tool] :
    LET name == GpReads[tool][i][1]
    IN  name \in DOMAIN params => ~HasType(params[name], GpReads[tool][i][2])

LEMMA ToolReads ==
  ASSUME NEW tool \in GpTools
  PROVE  /\ DOMAIN GpReads[tool] \subseteq 1..4 /\ tool \in Operations
         /\ RequiresAny[tool] = {}
         /\ tool # "dissolve" => GpReads[tool] = ReadsOf[tool]
         /\ tool = "dissolve" => ReadsOf[tool] = <<>> /\ GpReads[tool] = << <<"group_by", "string">> >>
         /\ tool \in {"buffer", "simplify", "clip"} => 
              \A i \in DOMAIN GpReads[tool] : GpReads[tool][i][2] = "number"
         /\ tool # "spatial_join" /\ tool # "reproject"
<1>1. CASE tool = "buffer" BY <1>1, OperationNames DEF GpReads, ReadsOf, RequiresAny, RequiredOf
<1>2. CASE tool = "centroid" BY <1>2, OperationNames DEF GpReads, ReadsOf, RequiresAny, RequiredOf
<1>3. CASE tool = "clip" BY <1>3, OperationNames DEF GpReads, ReadsOf, RequiresAny, RequiredOf
<1>4. CASE tool = "dissolve" BY <1>4, OperationNames DEF GpReads, ReadsOf, RequiresAny, RequiredOf
<1>5. CASE tool = "simplify" BY <1>5, OperationNames DEF GpReads, ReadsOf, RequiresAny, RequiredOf
<1> QED BY <1>1, <1>2, <1>3, <1>4, <1>5 DEF GpTools

\* What a tool checks is what the operation would find wrong.
LEMMA ToolChecksWhatIsRead ==
  ASSUME NEW tool \in GpTools, NEW params, tool # "dissolve"
  PROVE  /\ Turned(tool, params) <=> ParamError(tool, params) # "none"
         /\ Unmet(tool, params) => Turned(tool, params)
<1> DEFINE Bad == {i \in DOMAIN ReadsOf[tool] :
                     NameRead(tool, i) \in DOMAIN params =>
                       ~HasType(params[NameRead(tool, i)], ReadsOf[tool][i][2])}
<1>1. ParamError(tool, params) =
        CASE Bad = {} -> "none"
          [] OTHER -> IF NameRead(tool, Min(Bad)) \in DOMAIN params
                      THEN "wrong type" ELSE "missing parameter"
  BY ToolReads DEF ParamError, NameRead
<1>2. Turned(tool, params) <=> Bad # {}
  BY ToolReads DEF Turned, NameRead
<1>3. ParamError(tool, params) # "none" <=> Bad # {}
  BY <1>1
<1>4. ParamError(tool, params) = "none" => ~Unmet(tool, params)
  BY ReadIsMet, ToolReads
<1> QED BY <1>2, <1>3, <1>4

\* What it hands on has the names and, for a number, the text of what it was given.
LEMMA ForwardedIsRead ==
  ASSUME NEW tool \in GpTools, NEW params, ~Turned(tool, params),
         NEW i \in DOMAIN GpReads[tool]
  PROVE  LET name == GpReads[tool][i][1]
             forwarded == GpForwarded(tool, params)
         IN  /\ name \in DOMAIN params /\ name \in DOMAIN forwarded
             /\ HasType(params[name], GpReads[tool][i][2])
             /\ forwarded[name].text = params[name].text
             /\ forwarded[name].kind = IF HasType(params[name], "number") THEN "Float" ELSE params[name].kind
BY DEF Turned, GpForwarded, P

LEMMA DissolveReads ==
  ASSUME NEW p
  PROVE  ParamError("dissolve", p) = "none"
<1> DEFINE Bad == {i \in DOMAIN ReadsOf["dissolve"] :
                     NameRead("dissolve", i) \in DOMAIN p =>
                       ~HasType(p[NameRead("dissolve", i)], ReadsOf["dissolve"][i][2])}
<1>1. "dissolve" \in GpTools BY DEF GpTools
<1>2. ParamError("dissolve", p) =
        CASE Bad = {} -> "none"
          [] OTHER -> IF NameRead("dissolve", Min(Bad)) \in DOMAIN p
                      THEN "wrong type" ELSE "missing parameter"
  BY <1>1, ToolReads DEF ParamError, NameRead
<1>3. Bad = {} BY <1>1, ToolReads
<1> QED BY <1>2, <1>3

\* With its numbers as floats, a tool fails where the step would.
LEMMA ToolFailsAlike ==
  ASSUME NEW tool \in GpTools, NEW params, ~Turned(tool, params), NEW fc
  PROVE  /\ Failure(tool, GpForwarded(tool, params), fc) = Failure(tool, params, fc)
         /\ Failure(tool, params, fc) \in {"none", "no projection"}
         /\ ParamError(tool, params) = "none"
<1> DEFINE forwarded == GpForwarded(tool, params)
<1>1. ~Turned(tool, forwarded)
  <2> SUFFICES ASSUME NEW i \in DOMAIN GpReads[tool]
               PROVE  /\ GpReads[tool][i][1] \in DOMAIN forwarded
                      /\ HasType(forwarded[GpReads[tool][i][1]], GpReads[tool][i][2])
    BY DEF Turned
  <2>1. GpReads[tool][i][2] \in {"number", "string"}
    BY ToolReads DEF GpTools, GpReads
  <2> QED BY <2>1, ForwardedIsRead, HasTypes
<1>2. ASSUME NEW p, ~Turned(tool, p) PROVE ParamError(tool, p) = "none"
  <2>1. CASE tool = "dissolve" BY <2>1, DissolveReads
  <2>2. CASE tool # "dissolve" BY <1>2, <2>2, ToolChecksWhatIsRead
  <2> QED BY <2>1, <2>2
<1>3. ParamError(tool, params) = "none" /\ ParamError(tool, forwarded) = "none" BY <1>1, <1>2
<1>4. Projects(tool, forwarded, fc) <=> Projects(tool, params, fc) BY ToolReads DEF Projects
<1>5. \A p : ParamError(tool, p) = "none" =>
        Failure(tool, p, fc) = IF Projects(tool, p, fc) THEN "none" ELSE "no projection"
  BY ToolReads DEF Failure
<1> QED BY <1>3, <1>4, <1>5

LEMMA ToolGivesTheSame ==
  ASSUME NEW tool \in GpTools, NEW params, ~Turned(tool, params), NEW fc
  PROVE  Results(tool, GpForwarded(tool, params), fc, Nothing) = Results(tool, params, fc, Nothing)
<1> DEFINE forwarded == GpForwarded(tool, params)
<1>1. CASE tool = "buffer"
  <2> DEFINE By(d) == WithGeometries(fc, LAMBDA g : Geom("MultiPolygon", Offset(g, d)))
  <2>1. Number(forwarded, "distance") = Number(params, "distance")
    BY <1>1, ForwardedIsRead DEF GpReads, Number
  <2>2. \A p : Buffer(fc, p) = By(Number(p, "distance")) BY DEF Buffer
  <2> HIDE DEF By, forwarded
  <2>3. Buffer(fc, forwarded) = Buffer(fc, params) BY <2>1, <2>2
  <2>4. \A p : Results(tool, p, fc, Nothing) = {Buffer(fc, p)} BY <1>1 DEF Results
  <2> QED BY <2>3, <2>4 DEF forwarded
<1>2. CASE tool = "centroid" BY <1>2 DEF Results
<1>3. CASE tool = "clip"
  <2> DEFINE By(lo, hi) == Surviving(fc, LAMBDA g : Within(g, lo..hi))
  <2>1. Number(forwarded, "min_x") = Number(params, "min_x")
    BY <1>3, ForwardedIsRead DEF GpReads, ReadsOf, Number
  <2>2. Number(forwarded, "max_x") = Number(params, "max_x")
    BY <1>3, ForwardedIsRead DEF GpReads, ReadsOf, Number
  <2>3. \A p : Clip(fc, p) = By(Number(p, "min_x"), Number(p, "max_x")) BY DEF Clip
  <2> HIDE DEF By, forwarded
  <2>4. Clip(fc, forwarded) = Clip(fc, params) BY <2>1, <2>2, <2>3
  <2>5. \A p : Results(tool, p, fc, Nothing) = {Clip(fc, p)} BY <1>3 DEF Results
  <2> QED BY <2>4, <2>5 DEF forwarded
<1>4. CASE tool = "dissolve"
  <2>1. Text(forwarded, "group_by", "") = Text(params, "group_by", "")
    <3>1. GpReads[tool][1][1] = "group_by" /\ GpReads[tool][1][2] = "string" /\ 1 \in DOMAIN GpReads[tool]
      BY <1>4, ToolReads
    <3>2. /\ "group_by" \in DOMAIN params /\ "group_by" \in DOMAIN forwarded
          /\ HasType(params["group_by"], "string")
          /\ forwarded["group_by"].text = params["group_by"].text
          /\ forwarded["group_by"].kind =
               IF HasType(params["group_by"], "number") THEN "Float" ELSE params["group_by"].kind
      BY <3>1, ForwardedIsRead
    <3>3. params["group_by"].kind = "String" /\ forwarded["group_by"].kind = "String"
      BY <3>2, HasTypes
    <3> HIDE DEF forwarded
    <3> QED BY <3>2, <3>3 DEF Text
  <2> DEFINE By(groupBy) ==
        LET United(key) ==
              LET group == Members(fc, groupBy, key)
              IN  Feature(Merged(group),
                          [c \in {"count"} \cup ({groupBy} \ {""}) |->
                             IF c = "count" THEN V("Integer", ToString(Len(group))) ELSE V("String", key)],
                          UNION {f.from : f \in ToSet(group)})
            keys == {GroupKey(f, groupBy) : f \in ToSet(fc.features)}
        IN  {WithFeatures(fc, [i \in DOMAIN order |-> United(order[i])]) : order \in SetToSeqs(keys)}
  <2>2. \A p : Dissolve(fc, p) = By(Text(p, "group_by", "")) BY DEF Dissolve
  <2> HIDE DEF By, forwarded
  <2>3. Dissolve(fc, forwarded) = Dissolve(fc, params) BY <2>1, <2>2
  <2>4. \A p : Results(tool, p, fc, Nothing) = Dissolve(fc, p) BY <1>4 DEF Results
  <2> QED BY <2>3, <2>4 DEF forwarded
<1>5. CASE tool = "simplify"
  <2> DEFINE By(epsilon) == WithGeometries(fc, LAMBDA g :
        IF Polygonal(g) /\ \E c \in Starts(g.cells) : Cardinality(RunFrom(g.cells, c)) <= epsilon
        THEN [g EXCEPT !.form = "short"] ELSE g)
  <2>1. Number(forwarded, "epsilon") = Number(params, "epsilon")
    BY <1>5, ForwardedIsRead DEF GpReads, Number
  <2>2. \A p : Simplify(fc, p) = By(Number(p, "epsilon")) BY DEF Simplify
  <2> HIDE DEF By, forwarded
  <2>3. Simplify(fc, forwarded) = Simplify(fc, params) BY <2>1, <2>2
  <2>4. \A p : Results(tool, p, fc, Nothing) = {Simplify(fc, p)} BY <1>5 DEF Results
  <2> QED BY <2>3, <2>4 DEF forwarded
<1> QED BY <1>1, <1>2, <1>3, <1>4, <1>5 DEF GpTools

\* A tool has one step, which is one of the tools.
ITool == entry = "tool" => Step(1).op \in GpTools

\* The answer to an input, whoever gives it.
Right(op, params, input, a) ==
  /\ a.status = 500 <=> Failure(op, params, input) = "no projection"
  /\ op # "dissolve" => (a.status = 400 <=> ParamError(op, params) # "none")
  /\ op # "dissolve" /\ Unmet(op, params) => a.status = 400
  /\ a.status = 200 =>
       /\ Failure(op, params, input) = "none"
       /\ a.output \in {GpOutput(fc) : fc \in Results(op, params, input, Nothing)}

LEMMA RightIs ==
  ASSUME UNCHANGED job
  PROVE  Right(Step(1).op, Step(1).params, GpParsed(Source), answer') => GpGivesTheRunsAnswer'
BY DEF Right, GpGivesTheRunsAnswer, Step, Steps, Source

\* The answer of a tool (gp_tools.rs) is that of a pipeline step with the same
\* parameters over the same GeoJSON, and it fails inside where the step would.
THEOREM ToolsAnswerAsRuns == Spec => []GpGivesTheRunsAnswer
<1>1. Init => ITool /\ GpGivesTheRunsAnswer
  BY DEF Init, ITool, GpGivesTheRunsAnswer
<1>2. ITool /\ GpGivesTheRunsAnswer /\ [Next]_vars => ITool' /\ GpGivesTheRunsAnswer'
  <2> SUFFICES ASSUME ITool, GpGivesTheRunsAnswer, [Next]_vars
               PROVE  ITool' /\ GpGivesTheRunsAnswer'
    OBVIOUS
  <2>0. /\ PullResident => UNCHANGED <<job, entry, answer>> /\ pc' # "answered"
        /\ RunLocal => UNCHANGED <<job, entry, answer>> /\ pc' # "answered"
    BY PullEnds, LocalEnds DEF Give, Fail
  <2>1. UNCHANGED <<job, entry>>
    BY <2>0 DEF Next, Submit, ReadSource, WriteSink, AnswerTool, Fail, vars
  <2>2. ITool' BY <2>1 DEF ITool, Step, Steps
  <2>3. CASE pc' = "answered" /\ ~AnswerTool
    <3>1. pc = "answered" /\ answer' = answer
      BY <2>0, <2>3 DEF Next, Submit, ReadSource, WriteSink, Fail, vars
    <3> QED BY <2>1, <2>2, <3>1 DEF GpGivesTheRunsAnswer, Step, Steps, Source
  <2>4. CASE AnswerTool
    <3> DEFINE tool == Step(1).op
               params == Step(1).params
               input == GpParsed(Source)
    <3>1. tool \in GpTools BY <2>4 DEF AnswerTool, ITool
    <3>2. Right(tool, params, input, answer') => GpGivesTheRunsAnswer'
      BY <2>1, RightIs
    <3>3. CASE Turned(tool, params)
      <4>1. answer'.status = 400 BY <2>4, <3>3 DEF AnswerTool, Turned
      <4>2. Failure(tool, params, input) # "no projection"
        <5>1. CASE tool = "dissolve"
          <6>1. Projects(tool, params, input) BY <5>1 DEF Projects
          <6>2. tool \in Operations /\ tool # "spatial_join" BY <3>1, ToolReads
          <6>3. ParamError(tool, params) = "none" BY <5>1, DissolveReads
          <6> HIDE DEF tool, params, input
          <6> QED BY <6>1, <6>2, <6>3 DEF Failure
        <5>2. CASE tool # "dissolve"
          <6>1. ParamError(tool, params) # "none" BY <3>1, <3>3, <5>2, ToolChecksWhatIsRead
          <6>2. ParamError(tool, params) # "no projection" BY DEF ParamError
          <6>3. tool \in Operations /\ tool # "spatial_join" BY <3>1, ToolReads
          <6> HIDE DEF tool, params, input
          <6> QED BY <6>1, <6>2, <6>3 DEF Failure
        <5> QED BY <5>1, <5>2
      <4>3. tool # "dissolve" => ParamError(tool, params) # "none"
        BY <3>1, <3>3, ToolChecksWhatIsRead
      <4> HIDE DEF tool, params, input
      <4>4. tool # "dissolve" => (answer'.status = 400 <=> ParamError(tool, params) # "none")
        BY <4>1, <4>3
      <4>5. answer'.status # 200 /\ answer'.status # 500 BY <4>1
      <4>6. Right(tool, params, input, answer') BY <4>1, <4>2, <4>4, <4>5, Zenon DEF Right
      <4> QED BY <2>2, <3>2, <4>6 DEF tool, params, input
    <3>4. CASE ~Turned(tool, params)
      <4>1. /\ Failure(tool, GpForwarded(tool, params), input) = Failure(tool, params, input)
            /\ Failure(tool, params, input) \in {"none", "no projection"}
            /\ ParamError(tool, params) = "none"
        BY <3>1, <3>4, ToolFailsAlike
      <4>2. tool # "dissolve" => ~Unmet(tool, params)
        BY <3>1, <3>4, ToolChecksWhatIsRead
      <4>3. CASE Failure(tool, params, input) = "no projection"
        <5>1. Failure(tool, GpForwarded(tool, params), input) # "none" BY <4>1, <4>3
        <5>2. answer'.status = 500 BY <2>4, <3>4, <5>1 DEF AnswerTool, Turned
        <5> HIDE DEF tool, params, input
        <5>3. answer'.status # 200 /\ answer'.status # 400 BY <5>2
        <5>4. Right(tool, params, input, answer') BY <4>1, <4>2, <4>3, <5>2, <5>3, Zenon DEF Right
        <5> QED BY <2>2, <3>2, <5>4 DEF tool, params, input
      <4>4. CASE Failure(tool, params, input) = "none"
        <5>0. Failure(tool, GpForwarded(tool, params), input) = "none" BY <4>1, <4>4
        <5>1. \E result \in Results(tool, GpForwarded(tool, params), input, Nothing) :
                answer' = [status |-> 200, output |-> GpOutput(result)]
          BY <2>4, <3>4, <5>0 DEF AnswerTool, Turned
        <5>2. \E result \in Results(tool, params, input, Nothing) :
                answer' = [status |-> 200, output |-> GpOutput(result)]
          BY <3>1, <3>4, <5>1, ToolGivesTheSame
        <5>3. /\ answer'.status = 200
              /\ answer'.output \in {GpOutput(fc) : fc \in Results(tool, params, input, Nothing)}
          BY <5>2
        <5> HIDE DEF tool, params, input
        <5>4. Right(tool, params, input, answer') BY <4>1, <4>2, <4>4, <5>3 DEF Right
        <5> QED BY <2>2, <3>2, <5>4 DEF tool, params, input
      <4> QED BY <4>1, <4>3, <4>4
    <3> QED BY <3>3, <3>4
  <2> QED BY <2>2, <2>3, <2>4 DEF GpGivesTheRunsAnswer
<1> QED BY <1>1, <1>2, PTL DEF Spec

-----------------------------------------------------------------------------
(* The engine gives what the operations give.                              *)

\* What the operation of step i gives is what is held after it; on the engine,
\* where filter compares floats by their text.
IsAnswer(i, result) ==
  /\ i \in resident => result \in Exactly(Step(i).op, Step(i).params, held[i], JoinOf(i, held))
  /\ i \notin resident => result \in Results(Step(i).op, Step(i).params, held[i], JoinOf(i, held))

IAnswers ==
  \A i \in DOMAIN Steps :
    i + 1 \in DOMAIN held => Step(i).op \in Operations /\ IsAnswer(i, held[i + 1])

\* The engine has what the last step gave, as JSON.
OnEngine(fc, sent) == sent = Sent(fc) /\ fc.crs = held[1].crs /\ WellFormed(fc)

IEngine == held # <<>> /\ Len(held) \in resident => OnEngine(held[Len(held)], wire)

EInv == IInv /\ IAnswers /\ IEngine

LEMMA GiveAnswers ==
  ASSUME EInv, pc = "running", At \in DOMAIN Steps, NEW result, NEW pulled, Give(result, pulled),
         Step(At).op \in Operations, IsAnswer(At, result), At + 1 \in resident => OnEngine(result, pulled)
  PROVE  IAnswers' /\ IEngine'
<1>1. /\ wire' = pulled /\ UNCHANGED <<job, resident>>
      /\ Len(held) \in Nat \ {0} /\ DOMAIN held = 1..Len(held)
      /\ Len(held') = Len(held) + 1 /\ DOMAIN held' = 1..(Len(held) + 1)
      /\ \A i \in 1..Len(held) : held'[i] = held[i]
      /\ held'[Len(held) + 1] = result
  BY GiveAdds DEF EInv, IInv
<1>2. job \in Jobs BY DEF EInv, IInv, IProgress
<1>3. Steps' = Steps /\ \A i : Step(i)' = Step(i) BY <1>1 DEF Steps, Step
<1>4. ASSUME NEW i \in DOMAIN Steps, i + 1 \in DOMAIN held'
      PROVE  Step(i).op \in Operations /\ IsAnswer(i, held[i + 1])'
  <2>1. i \in Nat \ {0} /\ i \in 1..Len(held) /\ held'[i] = held[i]
    BY <1>1, <1>2, <1>4, JobFacts
  <2>2. \A n \in 1..i : held'[n] = held[n] BY <1>1, <2>1
  <2>3. JoinOf(i, held)' = JoinOf(i, held) BY <1>1, <2>2, JoinStays
  <2>4. Step(i).op \in Operations /\ IsAnswer(i, held'[i + 1])
    <3>1. CASE i = Len(held) BY <1>1, <3>1 DEF At
    <3>2. CASE i # Len(held)
      <4>1. i + 1 \in DOMAIN held /\ held'[i + 1] = held[i + 1] BY <1>1, <2>1, <3>2
      <4> QED BY <4>1 DEF EInv, IAnswers
    <3> QED BY <3>1, <3>2
  <2>5. Step(i)' = Step(i) /\ resident' = resident BY <1>1, <1>3
  <2> QED BY <2>1, <2>3, <2>4, <2>5 DEF IsAnswer
<1>5. IAnswers' BY <1>1, <1>3, <1>4 DEF IAnswers
<1>6. IEngine'
  <2>1. held'[1] = held[1] BY <1>1
  <2> QED BY <1>1, <2>1 DEF IEngine, OnEngine, At
<1> QED BY <1>5, <1>6

\* What a step leaves alone is as true as before.
LEMMA AnswersStand ==
  ASSUME EInv, UNCHANGED <<job, held, wire, resident>>
  PROVE  IAnswers' /\ IEngine'
<1>1. \A i : JoinOf(i, held)' = JoinOf(i, held) BY JoinStays
<1>2. \A i : IsAnswer(i, held[i + 1])' <=> IsAnswer(i, held[i + 1])
  BY <1>1 DEF IsAnswer, Step, Steps
<1>3. IAnswers' BY <1>2 DEF EInv, IAnswers, Step, Steps
<1>4. IEngine' BY DEF EInv, IEngine, OnEngine
<1> QED BY <1>3, <1>4

\* The source of a run, as its reader gives it.
LEMMA SourceIsSound ==
  ASSUME job \in Jobs, JobOf[job].source \in KnownFormats
  PROVE  WellFormed(ReadFrom(Source)) /\ IsCollection(ReadFrom(Source))
<1> DEFINE data == JobOf[job].data
<1>1. FormatOf(JobOf[job].source) \in FormatNames BY FormatsKnown
<1>2. IsCollection(data) BY JobAssumption
<1>3. \A i \in DOMAIN data.features : \A c \in DOMAIN data.features[i].properties :
        IsValue(data.features[i].properties[c])
  <2>1. \A i \in DOMAIN data.features : data.features[i] \in ToSet(data.features) BY DEF ToSet
  <2> QED BY <2>1, JobAssumption
<1>4. PICK n \in Nat : DOMAIN data.features = 1..n BY <1>2, SaneCollection
<1> QED BY <1>1, <1>2, <1>3, <1>4, FilesAreWellFormed, FilesAreCollections DEF Source

LEMMA ReadAnswers ==
  ASSUME EInv, ReadSource
  PROVE  IAnswers' /\ IEngine'
<1>1. job \in Jobs /\ held = <<>> BY DEF EInv, IInv, IProgress, ReadSource
<1>2. CASE JobOf[job].source \notin KnownFormats
  <2>1. UNCHANGED <<job, held, wire, resident>> BY <1>2 DEF ReadSource, Fail
  <2> QED BY <2>1, AnswersStand
<1>3. CASE JobOf[job].source \in KnownFormats
  <2> DEFINE fc == ReadFrom(Source)
  <2>1. /\ held' = <<fc>> /\ job' = job
        /\ wire' = (IF resident' # {} THEN OverProperties(fc, ToJson) ELSE Nothing)
    BY <1>3 DEF ReadSource
  <2>2. WellFormed(fc) BY <1>1, <1>3, SourceIsSound
  <2> HIDE DEF fc
  <2>3. IsSeq(held') /\ Len(held') = 1 /\ held'[1] = fc /\ DOMAIN held' = {1}
    BY <2>1, OneElement, SeqLength
  <2>4. IEngine' BY <2>1, <2>2, <2>3 DEF IEngine, OnEngine, Sent
  <2>5. \A i \in DOMAIN Steps' : i + 1 # 1
    BY <1>1, <2>1, JobFacts DEF Steps
  <2>6. IAnswers' BY <2>3, <2>5 DEF IAnswers
  <2> QED BY <2>4, <2>6
<1> QED BY <1>2, <1>3

\* A pull gives what the operation makes of the collection that was sent, and
\* leaves it on the engine as JSON.
LEMMA PulledIs ==
  ASSUME job \in Jobs, NEW i \in DOMAIN Steps, HasElement(Step(i).op, Step(i).params),
         NEW given, WellFormed(given), given.crs = held[1].crs, NEW join,
         NEW fc \in Element(Step(i).op, Step(i).params, Sent(given))
  PROVE  /\ Pulled(fc) \in Exactly(Step(i).op, Step(i).params, given, join)
         /\ OnEngine(Pulled(fc), fc)
<1> DEFINE op == Step(i).op
           params == Step(i).params
<1>1. \A name \in DOMAIN params : IsToml(params[name])
  BY JobAssumption DEF Step, Steps
<1>2. PICK local : Agrees(fc, local, op, params, given, join)
  <2> HIDE DEF op, params
  <2> QED BY <1>1, ElementAgrees DEF op, params
<1>3. Pulled(fc) = local
  <2>1. Back(fc) = local BY <1>2, CollectionReturns DEF Agrees
  <2>2. Pulled(fc) = Collection(Back(fc).features, held[1].crs) BY DEF Pulled, Back
  <2>3. local = Collection(local.features, local.crs) BY <1>2 DEF Agrees, WellFormed
  <2> QED BY <1>2, <2>1, <2>2, <2>3 DEF Agrees
<1> QED BY <1>2, <1>3 DEF Agrees, OnEngine

\* A pull of the run, and what the engine has of it.
LEMMA PullGives ==
  ASSUME EInv, PullResident
  PROVE  /\ job \in Jobs /\ HasElement(Step(At).op, Step(At).params) /\ Step(At).op \in Operations
         /\ \A fc \in Element(Step(At).op, Step(At).params, wire) :
              IsAnswer(At, Pulled(fc)) /\ OnEngine(Pulled(fc), fc)
<1>1. /\ pc = "running" /\ At \in DOMAIN Steps /\ At \in resident /\ job \in Jobs
      /\ held # <<>> /\ IResident
  BY PullEnds DEF EInv, IInv, IProgress
<1>2. HasElement(Step(At).op, Step(At).params) BY <1>1, ResidentHasElement
<1>3. wire = Sent(Given) /\ Given.crs = held[1].crs /\ WellFormed(Given)
  BY <1>1 DEF EInv, IEngine, OnEngine, Given, At
<1>4. \A fc \in Element(Step(At).op, Step(At).params, wire) :
        /\ Pulled(fc) \in Exactly(Step(At).op, Step(At).params, Given, JoinOf(At, held))
        /\ OnEngine(Pulled(fc), fc)
  BY <1>1, <1>2, <1>3, PulledIs
<1>5. Step(At).op \in Operations BY <1>2, ElementIsMet
<1> QED BY <1>1, <1>2, <1>4, <1>5 DEF IsAnswer, Given

LEMMA PullAnswers ==
  ASSUME EInv, PullResident
  PROVE  IAnswers' /\ IEngine'
<1>1. pc = "running" /\ At \in DOMAIN Steps BY PullEnds
<1>2. PICK fc \in Element(Step(At).op, Step(At).params, wire) :
        \/ Fail("invalid geometry")
        \/ Give(Pulled(fc), fc)
  BY PullEnds
<1>3. CASE Fail("invalid geometry")
  <2>1. UNCHANGED <<job, held, wire, resident>> BY <1>3 DEF Fail
  <2> QED BY <2>1, AnswersStand
<1>4. CASE Give(Pulled(fc), fc) BY <1>1, <1>4, PullGives, GiveAnswers
<1> QED BY <1>2, <1>3, <1>4

LEMMA LocalAnswers ==
  ASSUME EInv, RunLocal
  PROVE  IAnswers' /\ IEngine'
<1>1. /\ pc = "running" /\ At \in DOMAIN Steps /\ At \notin resident /\ job \in Jobs
      /\ IsSeq(held) /\ held # <<>> /\ IResident
  BY LocalEnds DEF EInv, IInv, IProgress
<1>2. ASSUME NEW why, Fail(why) PROVE IAnswers' /\ IEngine'
  <2>1. UNCHANGED <<job, held, wire, resident>> BY <1>2 DEF Fail
  <2> QED BY <2>1, AnswersStand
<1>3. ASSUME Failure(Step(At).op, Step(At).params, Given) = "none",
             NEW result \in Results(Step(At).op, Step(At).params, Given, JoinOf(At, held)),
             Give(result, wire)
      PROVE  IAnswers' /\ IEngine'
  <2>1. At \in Nat \ {0} BY <1>1, SeqLength, EmptySeqIsShort DEF At
  <2>2. At + 1 \notin resident BY <1>1, <2>1, ResidentHead
  <2>3. IsAnswer(At, result) BY <1>1 DEF IsAnswer, Given
  <2>4. Step(At).op \in Operations BY <1>3, FailureIsFair
  <2> QED BY <1>1, <1>3, <2>2, <2>3, <2>4, GiveAnswers
<1> QED BY <1>2, <1>3, LocalEnds

LEMMA InitAnswers ==
  ASSUME Init
  PROVE  EInv
<1>1. held = <<>> /\ DOMAIN held = {} BY DEF Init
<1> QED BY <1>1, InitHolds DEF EInv, IAnswers, IEngine

LEMMA AnswersKept ==
  ASSUME EInv, [Next]_vars
  PROVE  EInv'
<1>1. IInv'
  BY SubmitKeeps, ReadKeeps, PullKeeps, LocalKeeps, WriteKeeps, AnswerKeeps, StutterKeeps DEF Next, EInv
<1>2. CASE Submit \/ WriteSink \/ AnswerTool \/ UNCHANGED vars
  <2>1. UNCHANGED <<job, held, wire, resident>>
    BY <1>2 DEF Submit, WriteSink, Fail, AnswerTool, vars
  <2> QED BY <1>1, <2>1, AnswersStand DEF EInv
<1>3. CASE ReadSource BY <1>1, <1>3, ReadAnswers DEF EInv
<1>4. CASE PullResident BY <1>1, <1>4, PullAnswers DEF EInv
<1>5. CASE RunLocal BY <1>1, <1>5, LocalAnswers DEF EInv
<1> QED BY <1>2, <1>3, <1>4, <1>5 DEF Next

\* Every step holds what its operation makes of what the step before it gave,
\* floats compared as the engine or the thread that ran it compares them, and
\* the engine has what the last step gave as JSON, which comes back as it was.
THEOREM AnswersInductive == Spec => []EInv
<1>1. Init => EInv BY InitAnswers
<1>2. EInv /\ [Next]_vars => EInv' BY AnswersKept
<1> QED BY <1>1, <1>2, PTL DEF Spec

\* A step that ran on the engine (routing.rs, scheduler.rs) gave what the operation
\* itself would have given: types and texts of the properties come back. Only a
\* filter that meets a float next to its parameter (filter.rs:26-28) gives less,
\* and then what is equal to it.
THEOREM EngineGivesTheSame == Spec => []SameAnswerEitherWay
<1>1. EInv => SameAnswerEitherWay
  <2> SUFFICES ASSUME EInv, NEW i \in resident, i + 1 \in DOMAIN held
               PROVE  IF Blurred(Step(i).op, Step(i).params, held[i])
                      THEN held[i + 1] = Told(Step(i).params, held[i])
                      ELSE held[i + 1] \in Results(Step(i).op, Step(i).params, held[i], JoinOf(i, held))
    BY DEF SameAnswerEitherWay
  <2>1. i \in DOMAIN Steps BY DEF EInv, IInv, IResident, Mappable
  <2>2. held[i + 1] \in Exactly(Step(i).op, Step(i).params, held[i], JoinOf(i, held))
    BY <2>1 DEF EInv, IAnswers, IsAnswer
  <2> QED BY <2>2 DEF Exactly
<1> QED BY <1>1, AnswersInductive, PTL


-----------------------------------------------------------------------------
(* Type correctness.                                                       *)

\* The source and every step gave a collection.
Collected(results) == \A i \in DOMAIN results : IsCollection(results[i])

ITypes ==
  /\ entry \in {"run", "library", "tool"}
  /\ pc \in {"submitted", "rejected", "reading", "running", "done", "failed", "answered"}
  /\ verdict \in {"none", "ok", "operation", "format"}
  /\ Collected(held)
  /\ out.format \in FormatNames
  /\ answer.status \in {0, 200, 400, 500}

TInv == EInv /\ ITypes

LEMMA FailTypes ==
  ASSUME ITypes, NEW why, Fail(why)
  PROVE  ITypes'
BY DEF ITypes, Fail, Collected

LEMMA GiveTypes ==
  ASSUME TInv, pc = "running", NEW result, NEW pulled, IsCollection(result), Give(result, pulled)
  PROVE  ITypes'
<1>1. /\ UNCHANGED <<entry, pc, verdict, out, answer>>
      /\ Len(held) \in Nat /\ DOMAIN held = 1..Len(held)
      /\ DOMAIN held' = 1..(Len(held) + 1)
      /\ \A i \in 1..Len(held) : held'[i] = held[i]
      /\ held'[Len(held) + 1] = result
  BY GiveAdds DEF TInv, EInv, IInv
<1>2. Collected(held)' BY <1>1 DEF TInv, ITypes, Collected
<1> QED BY <1>1, <1>2 DEF TInv, ITypes, Collected

\* The collection that the next step is given.
LEMMA GivenIsCollection ==
  ASSUME TInv, pc = "running"
  PROVE  IsCollection(Given) /\ IsCollection(JobOf[job].other) /\ job \in Jobs
<1>1. job \in Jobs /\ IsSeq(held) /\ held # <<>> BY DEF TInv, EInv, IInv, IProgress
<1>2. Len(held) \in DOMAIN held BY <1>1, SeqLength, EmptySeqIsShort
<1> QED BY <1>1, <1>2, JobAssumption DEF TInv, ITypes, Collected, Given, At

\* What a step joins is a collection, in either run.
LEMMA JoinIsCollection ==
  ASSUME job \in Jobs, NEW results, NEW i, Collected(results), 1..i \subseteq DOMAIN results
  PROVE  IsCollection(JoinOf(i, results))
<1>1. IsCollection(JobOf[job].other) BY JobAssumption
<1>2. CASE JoinOf(i, results) = JobOf[job].other BY <1>1, <1>2
<1>3. CASE \E n \in JoinNodes(i) : n \in 1..i /\ \A s : JoinOf(i, s) = s[n]
  <2>1. PICK n \in 1..i : \A s : JoinOf(i, s) = s[n] BY <1>3
  <2>2. n \in DOMAIN results /\ JoinOf(i, results) = results[n] BY <2>1
  <2> QED BY <2>2 DEF Collected
<1> QED BY <1>2, <1>3, JoinIs

\* What filter keeps and is equal to its parameter.
LEMMA ToldIs ==
  ASSUME NEW fc, NEW params
  PROVE  Told(params, fc) = PickedFrom(fc, MatchingText(params, fc))
BY DEF Told, Selected, WithFeatures, PickedFrom, MatchingText

LEMMA ExactIsCollection ==
  ASSUME NEW op, NEW params, HasElement(op, params), NEW fc, IsCollection(fc),
         NEW join, IsCollection(join), NEW result \in Exactly(op, params, fc, join)
  PROVE  IsCollection(result)
<1>1. op \in {"filter", "schema_map", "clip"} /\ op \in Operations BY ElementIsMet
<1>2. CASE Blurred(op, params, fc)
  <2>1. MatchingText(params, fc) \in SUBSET (DOMAIN fc.features) BY DEF MatchingText
  <2>2. result = PickedFrom(fc, MatchingText(params, fc)) BY <1>2, ToldIs DEF Exactly
  <2> QED BY <2>1, <2>2, PickedIsCollection
<1>3. CASE ~Blurred(op, params, fc)
  <2>1. result \in Results(op, params, fc, join) BY <1>3 DEF Exactly
  <2> QED BY <1>1, <2>1, ResultIsCollection
<1> QED BY <1>2, <1>3

LEMMA LocalIsCollection ==
  ASSUME NEW op, NEW params, NEW given, Failure(op, params, given) = "none",
         NEW fc, IsCollection(fc), NEW join, IsCollection(join), NEW result \in Results(op, params, fc, join)
  PROVE  IsCollection(result)
<1>1. op \in Operations BY FailureIsFair
<1>2. op = "reproject" => params["to_crs"].text \in Projected
  BY <1>1 DEF Failure, Projects
<1> QED BY <1>1, <1>2, ResultIsCollection

LEMMA ReadTypes ==
  ASSUME TInv, ReadSource
  PROVE  ITypes'
<1>1. job \in Jobs BY DEF TInv, EInv, IInv, IProgress
<1>2. CASE JobOf[job].source \notin KnownFormats
  <2>1. Fail("unknown format") BY <1>2 DEF ReadSource
  <2> QED BY <2>1, FailTypes DEF TInv
<1>3. CASE JobOf[job].source \in KnownFormats
  <2> DEFINE fc == ReadFrom(Source)
  <2>1. held' = <<fc>> /\ pc' = "running" /\ UNCHANGED <<entry, verdict, out, answer>>
    BY <1>3 DEF ReadSource
  <2>2. IsCollection(fc) BY <1>1, <1>3, SourceIsSound
  <2> HIDE DEF fc
  <2>3. DOMAIN held' = {1} /\ held'[1] = fc BY <2>1, OneElement, SeqLength
  <2> QED BY <2>1, <2>2, <2>3 DEF TInv, ITypes, Collected
<1> QED BY <1>2, <1>3

\* The steps so far are the places that a step may join.
LEMMA HeldSoFar ==
  ASSUME TInv, pc = "running"
  PROVE  /\ At \in Nat \ {0} /\ 1..At = DOMAIN held
         /\ IsCollection(JoinOf(At, held))
<1>1. IsSeq(held) /\ held # <<>> /\ job \in Jobs BY DEF TInv, EInv, IInv, IProgress
<1>2. At \in Nat \ {0} /\ 1..At = DOMAIN held BY <1>1, SeqLength, EmptySeqIsShort DEF At
<1> QED BY <1>1, <1>2, JoinIsCollection DEF TInv, ITypes, Collected

LEMMA PullTypes ==
  ASSUME TInv, PullResident
  PROVE  ITypes'
<1>1. pc = "running" /\ At \in resident BY PullEnds
<1>2. PICK fc \in Element(Step(At).op, Step(At).params, wire) :
        Fail("invalid geometry") \/ Give(Pulled(fc), fc)
  BY PullEnds
<1>3. CASE Fail("invalid geometry") BY <1>3, FailTypes DEF TInv
<1>4. CASE Give(Pulled(fc), fc)
  <2>1. HasElement(Step(At).op, Step(At).params) /\ IsAnswer(At, Pulled(fc))
    BY <1>2, PullGives DEF TInv
  <2>2. Pulled(fc) \in Exactly(Step(At).op, Step(At).params, Given, JoinOf(At, held))
    BY <1>1, <2>1 DEF IsAnswer, Given
  <2>3. IsCollection(Pulled(fc))
    BY <1>1, <2>1, <2>2, GivenIsCollection, HeldSoFar, ExactIsCollection
  <2> QED BY <1>1, <1>4, <2>3, GiveTypes
<1> QED BY <1>2, <1>3, <1>4

LEMMA LocalTypes ==
  ASSUME TInv, RunLocal
  PROVE  ITypes'
<1>1. pc = "running" BY LocalEnds
<1>2. ASSUME NEW why, Fail(why) PROVE ITypes' BY <1>2, FailTypes DEF TInv
<1>3. ASSUME Failure(Step(At).op, Step(At).params, Given) = "none",
             NEW result \in Results(Step(At).op, Step(At).params, Given, JoinOf(At, held)),
             Give(result, wire)
      PROVE  ITypes'
  <2>1. IsCollection(result) BY <1>1, <1>3, GivenIsCollection, HeldSoFar, LocalIsCollection
  <2> QED BY <1>1, <1>3, <2>1, GiveTypes
<1> QED BY <1>2, <1>3, LocalEnds

LEMMA OthersType ==
  ASSUME TInv, Submit \/ WriteSink \/ AnswerTool \/ UNCHANGED vars
  PROVE  ITypes'
<1>1. CASE Submit BY <1>1, VerdictValues DEF Submit, TInv, ITypes
<1>2. CASE WriteSink
  <2> DEFINE format == FormatOf(JobOf[job].sink)
  <2>1. CASE format \in FormatNames /\ ~RefusedBy(format, Given)
    <3>1. /\ out' = Written(format, Given) /\ pc' = "done"
          /\ UNCHANGED <<entry, verdict, held, answer>>
      BY <1>2, <2>1 DEF WriteSink
    <3>2. out'.format = format BY <3>1 DEF Written
    <3> QED BY <2>1, <3>1, <3>2 DEF TInv, ITypes, Collected
  <2>2. CASE ~(format \in FormatNames /\ ~RefusedBy(format, Given))
    <3>1. Fail("unknown format") \/ Fail("refused") BY <1>2, <2>2 DEF WriteSink
    <3> QED BY <3>1, FailTypes DEF TInv
  <2> QED BY <2>1, <2>2
<1>3. CASE AnswerTool
  <2>1. pc' = "answered" /\ UNCHANGED <<entry, verdict, held, out>> BY <1>3 DEF AnswerTool
  <2>2. answer'.status \in {200, 400, 500} BY <1>3 DEF AnswerTool
  <2> QED BY <2>1, <2>2 DEF TInv, ITypes, Collected
<1>4. CASE UNCHANGED vars BY <1>4 DEF vars, TInv, ITypes, Collected
<1> QED BY <1>1, <1>2, <1>3, <1>4

LEMMA InitTypes ==
  ASSUME Init
  PROVE  TInv
<1>1. EInv BY InitAnswers
<1>2. DOMAIN held = {} BY DEF Init
<1>3. out.format \in FormatNames /\ answer.status = 0
  BY DEF Init, NoFile, NoAnswer, Written, FormatNames
<1> QED BY <1>1, <1>2, <1>3 DEF Init, TInv, ITypes, Collected

LEMMA TypesKept ==
  ASSUME TInv, [Next]_vars
  PROVE  TInv'
<1>1. EInv' BY AnswersKept DEF TInv
<1>2. ITypes' BY ReadTypes, PullTypes, LocalTypes, OthersType DEF Next
<1> QED BY <1>1, <1>2 DEF TInv

\* Besides, what the source and every step gave is a collection of the model,
\* and the call, the verdict, the file and the answer have their types.
THEOREM TypesInductive == Spec => []TInv
<1>1. Init => TInv BY InitTypes
<1>2. TInv /\ [Next]_vars => TInv' BY TypesKept
<1> QED BY <1>1, <1>2, PTL DEF Spec

-----------------------------------------------------------------------------
(* Two runs over one source.                                               *)

\* The second run has come as far as the first, and its engine has what its last
\* step gave.
ITwin ==
  /\ twin = [held |-> twin.held, wire |-> twin.wire]
  /\ IsSeq(twin.held) /\ Len(twin.held) = Len(held)
  /\ Collected(twin.held)
  /\ held # <<>> /\ Len(held) \in resident => OnEngine(twin.held[Len(held)], twin.wire)

RInv == TInv /\ ITwin /\ RunsAreRepeatable

Determined(i) == \A k \in 1..i - 1 : ~Undetermined(k)
Alike(i) ==
  /\ SameFeatures(held[i], twin.held[i])
  /\ ~AfterDissolve(i) => held[i] = twin.held[i]

LEMMA RepeatableIs == RunsAreRepeatable <=> \A i \in DOMAIN held : Determined(i) => Alike(i)
BY DEF RunsAreRepeatable, Determined, Alike

\* The three ways in which a step may depend on the order of a HashMap.
TornAt(i) == Torn(Step(i).params, held[i], JoinOf(i, held))

LEMMA UndeterminedIs ==
  ASSUME NEW i
  PROVE  /\ Step(i).op = "schema_map" => (Undetermined(i) <=> Collides(Step(i).params, held[i]))
         /\ Step(i).op = "dissolve" =>
              (Undetermined(i) <=> AfterDissolve(i) /\ Ambiguous(GroupBy(Step(i).params), held[i]))
         /\ Step(i).op = "spatial_join" =>
              (Undetermined(i) <=> (\E n \in JoinNodes(i) : AfterDissolve(n)) /\ TornAt(i))
         /\ Step(i).op \notin {"schema_map", "dissolve", "spatial_join"} => ~Undetermined(i)
<1> DEFINE params == Step(i).params
<1>1. CASE Step(i).op = "schema_map"
  BY <1>1 DEF Undetermined, Collides, OldOf
<1>2. CASE Step(i).op = "dissolve"
  BY <1>2 DEF Undetermined, Ambiguous, GroupBy
<1>3. CASE Step(i).op = "spatial_join"
  BY <1>3 DEF Undetermined, TornAt, Torn, Meeting
<1>4. CASE Step(i).op \notin {"schema_map", "dissolve", "spatial_join"}
  BY <1>4 DEF Undetermined
<1> QED BY <1>1, <1>2, <1>3, <1>4

\* What may be said of a step that has run stays as it is.
LEMMA UndeterminedStays ==
  ASSUME job' = job, NEW i \in Nat \ {0}, \A n \in 1..i : held'[n] = held[n]
  PROVE  Undetermined(i)' <=> Undetermined(i)
<1>1. /\ Step(i)' = Step(i) /\ held'[i] = held[i]
      /\ \A n : AfterDissolve(n)' <=> AfterDissolve(n)
      /\ JoinNodes(i)' = JoinNodes(i)
      /\ JoinOf(i, held)' = JoinOf(i, held)
  <2>1. JoinOf(i, held)' = JoinOf(i, held) BY JoinStays
  <2>2. /\ Step(i)' = Step(i) /\ JoinNodes(i)' = JoinNodes(i)
        /\ \A n : AfterDissolve(n)' <=> AfterDissolve(n)
    BY DEF JoinNodes, NodeName, Step, Steps, AfterDissolve
  <2> QED BY <2>1, <2>2
<1>2. TornAt(i)' <=> TornAt(i) BY <1>1 DEF TornAt
<1>3. /\ (Step(i).op = "schema_map" => (Undetermined(i) <=> Collides(Step(i).params, held[i])))'
      /\ (Step(i).op = "dissolve" =>
           (Undetermined(i) <=> AfterDissolve(i) /\ Ambiguous(GroupBy(Step(i).params), held[i])))'
      /\ (Step(i).op = "spatial_join" =>
           (Undetermined(i) <=> (\E n \in JoinNodes(i) : AfterDissolve(n)) /\ TornAt(i)))'
      /\ (Step(i).op \notin {"schema_map", "dissolve", "spatial_join"} => ~Undetermined(i))'
  BY UndeterminedIs, PTL
<1> QED BY <1>1, <1>2, <1>3, UndeterminedIs

\* The steps on the engine are at the head of the chain, and none is a dissolve.
LEMMA NoDissolveOnEngine ==
  ASSUME job \in Jobs, IResident, NEW i \in resident
  PROVE  ~AfterDissolve(i + 1)
<1>1. i \in Mappable BY DEF IResident
<1>2. i \in 1..Len(Steps) /\ \A k \in 1..i : HasElement(Step(k).op, Step(k).params)
  BY <1>1, JobFacts DEF Mappable
<1>3. \A k \in 1..i : Step(k).op \in {"filter", "schema_map", "clip"} BY <1>2, ElementIsMet
<1>4. \A k \in 1..(i + 1) - 1 : Step(k).op # "dissolve" BY <1>2, <1>3
<1> QED BY <1>4 DEF AfterDissolve

\* What the second run has of a step is an answer of its own, too.
LEMMA RerunGives ==
  ASSUME RInv, pc = "running", At \in DOMAIN Steps, twin' \in Rerun,
         At \notin resident => Failure(Step(At).op, Step(At).params, Given) = "none"
  PROVE  LET op == Step(At).op
             params == Step(At).params
         IN  \E t : /\ twin' = [held |-> twin'.held, wire |-> twin'.wire]
                    /\ twin'.held = Append(twin.held, t) /\ IsCollection(t)
                    /\ At \in resident => t \in Exactly(op, params, twin.held[At], JoinOf(At, held))
                    /\ At \notin resident => t \in Results(op, params, twin.held[At], JoinOf(At, twin.held))
                    /\ At + 1 \in resident => OnEngine(t, twin'.wire)
<1> DEFINE op == Step(At).op
           params == Step(At).params
           given == twin.held[At]
<1>1. /\ job \in Jobs /\ IResident /\ held # <<>>
      /\ At \in Nat \ {0} /\ 1..At = DOMAIN held /\ IsCollection(JoinOf(At, held))
  BY HeldSoFar DEF RInv, TInv, EInv, IInv, IProgress
<1>2. /\ twin = [held |-> twin.held, wire |-> twin.wire] /\ Collected(twin.held)
      /\ IsSeq(twin.held) /\ Len(twin.held) = At /\ DOMAIN twin.held = 1..At
  BY SeqLength DEF RInv, ITwin, At
<1>3. IsCollection(given) BY <1>1, <1>2 DEF Collected
<1>4. CASE At \in resident
  <2>1. HasElement(op, params) BY <1>1, <1>4, ResidentHasElement
  <2>2. twin.wire = Sent(given) /\ given.crs = held[1].crs /\ WellFormed(given)
    BY <1>1, <1>4 DEF RInv, ITwin, OnEngine, At
  <2>3. PICK fc \in Element(op, params, twin.wire) :
          twin' = [held |-> Append(twin.held, Pulled(fc)), wire |-> fc]
    BY <1>4 DEF Rerun
  <2>4. /\ Pulled(fc) \in Exactly(op, params, given, JoinOf(At, held))
        /\ OnEngine(Pulled(fc), fc)
    BY <1>1, <2>1, <2>2, PulledIs
  <2>5. IsCollection(Pulled(fc)) BY <1>1, <1>3, <2>1, <2>4, ExactIsCollection
  <2>6. /\ twin' = [held |-> twin'.held, wire |-> twin'.wire]
        /\ twin'.held = Append(twin.held, Pulled(fc)) /\ twin'.wire = fc
    BY <2>3
  <2> QED BY <1>4, <2>4, <2>5, <2>6
<1>5. CASE At \notin resident
  <2>1. PICK fc \in Results(op, params, given, JoinOf(At, twin.held)) :
          twin' = [twin EXCEPT !.held = Append(@, fc)]
    BY <1>5 DEF Rerun
  <2>2. twin' = [held |-> Append(twin.held, fc), wire |-> twin.wire] BY <1>2, <2>1
  <2>3. /\ twin' = [held |-> twin'.held, wire |-> twin'.wire]
        /\ twin'.held = Append(twin.held, fc)
    BY <2>2
  <2>4. IsCollection(JoinOf(At, twin.held)) BY <1>1, <1>2, JoinIsCollection
  <2>5. IsCollection(fc) BY <1>3, <1>5, <2>1, <2>4, LocalIsCollection
  <2>6. At + 1 \notin resident BY <1>1, <1>5, ResidentHead
  <2> QED BY <1>5, <2>1, <2>3, <2>5, <2>6
<1> QED BY <1>4, <1>5

\* The runs joined the same features, in the same order up to the first dissolve.
LEMMA JoinsAlike ==
  ASSUME RInv, pc = "running", Determined(At)
  PROVE  /\ IsCollection(JoinOf(At, twin.held))
         /\ SameFeatures(JoinOf(At, held), JoinOf(At, twin.held))
         /\ \/ JoinOf(At, held) = JoinOf(At, twin.held)
            \/ AfterDissolve(At) /\ \E n \in JoinNodes(At) : AfterDissolve(n)
<1>1. /\ job \in Jobs /\ At \in Nat \ {0} /\ 1..At = DOMAIN held /\ Len(held) = At
  BY HeldSoFar DEF RInv, TInv, EInv, IInv, IProgress, At
<1>2. Collected(twin.held) /\ DOMAIN twin.held = 1..At
  BY <1>1, SeqLength DEF RInv, ITwin
<1>3. IsCollection(JoinOf(At, twin.held)) BY <1>1, <1>2, JoinIsCollection
<1>4. CASE JoinOf(At, held) = JobOf[job].other /\ JoinNodes(At) = {}
  <2>1. JoinOf(At, held) = JoinOf(At, twin.held) BY <1>4 DEF JoinOf
  <2> QED BY <1>3, <2>1, SameIsSame
<1>5. CASE \E n \in JoinNodes(At) : n \in 1..At /\ \A s : JoinOf(At, s) = s[n]
  <2>1. PICK n \in JoinNodes(At) : n \in 1..At /\ \A s : JoinOf(At, s) = s[n] BY <1>5
  <2>2. Determined(n) BY <1>1, <2>1 DEF Determined
  <2>3. Alike(n) BY <1>1, <2>1, <2>2, RepeatableIs DEF RInv
  <2>4. JoinOf(At, held) = held[n] /\ JoinOf(At, twin.held) = twin.held[n] BY <2>1
  <2>5. AfterDissolve(n) => AfterDissolve(At) BY <1>1, <2>1 DEF AfterDissolve
  <2> QED BY <1>3, <2>1, <2>3, <2>4, <2>5 DEF Alike
<1> QED BY <1>4, <1>5, JoinIs

\* Two answers of a step that is not undetermined, on what the runs gave it.
LEMMA AnswersAlike ==
  ASSUME RInv, pc = "running", At \in DOMAIN Steps, Determined(At), ~Undetermined(At),
         Step(At).op \in Operations, NEW result, IsAnswer(At, result), NEW t,
         At \in resident => t \in Exactly(Step(At).op, Step(At).params, twin.held[At], JoinOf(At, held)),
         At \notin resident => t \in Results(Step(At).op, Step(At).params, twin.held[At], JoinOf(At, twin.held))
  PROVE  /\ SameFeatures(result, t)
         /\ ~AfterDissolve(At + 1) => result = t
<1> DEFINE op == Step(At).op
           params == Step(At).params
           b == twin.held[At]
           j == JoinOf(At, held)
           k == JoinOf(At, twin.held)
<1>1. /\ job \in Jobs /\ IResident /\ At \in Nat \ {0} /\ 1..At = DOMAIN held /\ Len(held) = At
      /\ IsCollection(j) /\ IsCollection(Given)
  BY HeldSoFar, GivenIsCollection DEF RInv, TInv, EInv, IInv, IProgress, At
<1>2. IsCollection(b)
  <2>1. Collected(twin.held) /\ DOMAIN twin.held = 1..At
    BY <1>1, SeqLength DEF RInv, ITwin
  <2> QED BY <1>1, <2>1 DEF Collected
<1>3. Alike(At) BY <1>1, RepeatableIs DEF RInv
<1>4. SameFeatures(Given, b) /\ (~AfterDissolve(At) => Given = b) BY <1>3 DEF Alike, Given
<1>5. /\ op = "schema_map" => ~Collides(params, Given)
      /\ op = "dissolve" => Given = b \/ ~Ambiguous(GroupBy(params), Given)
  BY <1>4, UndeterminedIs DEF Given
<1>6. op \in Operations OBVIOUS
<1>7. CASE At \in resident
  <2>1. /\ result \in Exactly(op, params, Given, j)
        /\ t \in Exactly(op, params, b, j)
    BY <1>7 DEF IsAnswer, Given
  <2>2. ~AfterDissolve(At + 1) BY <1>1, <1>7, NoDissolveOnEngine
  <2>3. ~AfterDissolve(At) BY <1>1, <2>2 DEF AfterDissolve
  <2>4. Given = b BY <1>4, <2>3
  <2>5. CASE Blurred(op, params, Given)
    <3>1. result = t BY <2>1, <2>4, <2>5 DEF Exactly
    <3> QED BY <3>1, SameIsSame
  <2>6. CASE ~Blurred(op, params, Given)
    <3>1. result \in Results(op, params, Given, j) /\ t \in Results(op, params, Given, j)
      BY <2>1, <2>4, <2>6 DEF Exactly
    <3>2. op # "dissolve"
      <4>1. HasElement(op, params) BY <1>1, <1>7, ResidentHasElement
      <4> QED BY <4>1, ElementIsMet
    <3>3. SameFeatures(Given, Given) /\ SameFeatures(j, j) BY SameIsSame
    <3>4. SameFeatures(result, t) /\ result = t
      <4> HIDE DEF op, params, j
      <4> QED BY <1>1, <1>5, <1>6, <3>1, <3>2, <3>3, ResultsAlike
    <3> QED BY <3>4
  <2> QED BY <2>5, <2>6
<1>8. CASE At \notin resident
  <2>1. result \in Results(op, params, Given, j) /\ t \in Results(op, params, b, k)
    BY <1>8 DEF IsAnswer, Given
  <2>2. IsCollection(k) /\ SameFeatures(j, k)
        /\ (j = k \/ (AfterDissolve(At) /\ \E n \in JoinNodes(At) : AfterDissolve(n)))
    BY JoinsAlike
  <2>3. op = "spatial_join" => j = k \/ ~Torn(params, Given, j)
    BY <2>2, UndeterminedIs DEF TornAt, Given
  <2>4. SameFeatures(result, t) /\ (Given = b /\ j = k /\ op # "dissolve" => result = t)
    <3> HIDE DEF op, params, b, j, k
    <3> QED BY <1>1, <1>2, <1>4, <1>5, <1>6, <2>1, <2>2, <2>3, ResultsAlike
  <2>5. ~AfterDissolve(At + 1) => ~AfterDissolve(At) /\ op # "dissolve"
    BY <1>1 DEF AfterDissolve
  <2> QED BY <1>4, <2>2, <2>4, <2>5
<1> QED BY <1>7, <1>8

LEMMA GiveRepeats ==
  ASSUME RInv, pc = "running", At \in DOMAIN Steps, Step(At).op \in Operations,
         At \notin resident => Failure(Step(At).op, Step(At).params, Given) = "none",
         NEW result, IsAnswer(At, result), NEW pulled, Give(result, pulled)
  PROVE  ITwin' /\ RunsAreRepeatable'
<1>1. /\ twin' \in Rerun /\ UNCHANGED <<job, resident>>
      /\ Len(held) \in Nat \ {0} /\ DOMAIN held = 1..Len(held)
      /\ Len(held') = Len(held) + 1 /\ DOMAIN held' = 1..(Len(held) + 1)
      /\ \A i \in 1..Len(held) : held'[i] = held[i]
      /\ held'[Len(held) + 1] = result
  BY GiveAdds DEF RInv, TInv, EInv, IInv
<1>2. PICK t : /\ twin' = [held |-> twin'.held, wire |-> twin'.wire]
               /\ twin'.held = Append(twin.held, t) /\ IsCollection(t)
               /\ At \in resident => t \in Exactly(Step(At).op, Step(At).params, twin.held[At], JoinOf(At, held))
               /\ At \notin resident => t \in Results(Step(At).op, Step(At).params, twin.held[At], JoinOf(At, twin.held))
               /\ At + 1 \in resident => OnEngine(t, twin'.wire)
  BY <1>1, RerunGives
<1>3. IsSeq(twin.held) /\ Len(twin.held) = Len(held) /\ DOMAIN twin.held = 1..Len(held) /\ Collected(twin.held)
  BY SeqLength DEF RInv, ITwin
<1>4. /\ IsSeq(twin'.held) /\ Len(twin'.held) = Len(held) + 1 /\ DOMAIN twin'.held = 1..(Len(held) + 1)
      /\ \A i \in 1..Len(held) : twin'.held[i] = twin.held[i]
      /\ twin'.held[Len(held) + 1] = t
  <2>1. /\ IsSeq(Append(twin.held, t)) /\ Len(Append(twin.held, t)) = Len(twin.held) + 1
        /\ DOMAIN Append(twin.held, t) = 1..(Len(twin.held) + 1)
        /\ \A i \in 1..Len(twin.held) : Append(twin.held, t)[i] = twin.held[i]
        /\ Append(twin.held, t)[Len(twin.held) + 1] = t
    BY <1>3, Appended
  <2> QED BY <1>2, <1>3, <2>1
<1>5. ITwin'
  <2>1. \A i \in 1..(Len(held) + 1) : IsCollection(twin'.held[i])
    BY <1>1, <1>2, <1>3, <1>4 DEF Collected
  <2>2. Collected(twin'.held) BY <1>4, <2>1 DEF Collected
  <2>3. held'[1] = held[1] BY <1>1
  <2>4. At + 1 \in resident => twin'.wire = Sent(t) /\ t.crs = held'[1].crs /\ WellFormed(t)
    BY <1>2, <2>3 DEF OnEngine
  <2>5. Len(held') \in resident' => OnEngine(twin.held[Len(held)], twin.wire)'
    BY <1>1, <1>4, <2>4 DEF At, OnEngine
  <2> QED BY <1>1, <1>2, <1>4, <2>2, <2>5 DEF ITwin
<1>6. ASSUME NEW i \in 1..Len(held) PROVE Undetermined(i)' <=> Undetermined(i)
  <2>1. i \in Nat \ {0} /\ \A n \in 1..i : held'[n] = held[n] BY <1>1
  <2> QED BY <1>1, <2>1, UndeterminedStays
<1>7. \A i : AfterDissolve(i)' <=> AfterDissolve(i) BY <1>1 DEF AfterDissolve, Step, Steps
<1>8. ASSUME NEW i \in 1..(Len(held) + 1), Determined(i)' PROVE Alike(i)'
  <2>1. Determined(i) BY <1>1, <1>6, <1>8 DEF Determined
  <2>2. CASE i \in 1..Len(held)
    <3>1. Alike(i) BY <1>1, <2>1, <2>2, RepeatableIs DEF RInv
    <3> QED BY <1>1, <1>4, <1>7, <2>2, <3>1 DEF Alike
  <2>3. CASE i = Len(held) + 1
    <3>1. Determined(At) /\ ~Undetermined(At) BY <1>1, <2>1, <2>3 DEF Determined, At
    <3>2. SameFeatures(result, t) /\ (~AfterDissolve(At + 1) => result = t)
      BY <1>2, <3>1, AnswersAlike
    <3> QED BY <1>1, <1>4, <1>7, <2>3, <3>2 DEF Alike, At
  <2> QED BY <1>1, <2>2, <2>3
<1>9. RunsAreRepeatable'
  <2>1. (RunsAreRepeatable <=> \A i \in DOMAIN held : Determined(i) => Alike(i))' BY RepeatableIs, PTL
  <2> QED BY <1>1, <1>8, <2>1
<1> QED BY <1>5, <1>9

\* What a step leaves alone is repeatable as before.
LEMMA TwinStands ==
  ASSUME RInv, UNCHANGED <<job, held, resident, twin>>
  PROVE  ITwin' /\ RunsAreRepeatable'
<1>1. IsSeq(held) BY DEF RInv, TInv, EInv, IInv, IProgress
<1>2. Len(held) \in Nat /\ DOMAIN held = 1..Len(held) BY <1>1, SeqLength
<1>3. ITwin' BY DEF RInv, ITwin, Collected, OnEngine
<1>4. \A i \in 1..Len(held) : Undetermined(i)' <=> Undetermined(i)
  BY <1>2, UndeterminedStays
<1>5. \A i : AfterDissolve(i)' <=> AfterDissolve(i) BY DEF AfterDissolve, Step, Steps
<1>6. \A i \in 1..Len(held) : Determined(i)' => Determined(i) BY <1>2, <1>4 DEF Determined
<1>7. \A i \in 1..Len(held) : Determined(i)' => Alike(i)'
  BY <1>2, <1>5, <1>6, RepeatableIs DEF RInv, Alike
<1>8. (RunsAreRepeatable <=> \A i \in DOMAIN held : Determined(i) => Alike(i))' BY RepeatableIs, PTL
<1> QED BY <1>2, <1>3, <1>7, <1>8

LEMMA ReadRepeats ==
  ASSUME RInv, ReadSource
  PROVE  ITwin' /\ RunsAreRepeatable'
<1>1. CASE JobOf[job].source \notin KnownFormats
  <2>1. UNCHANGED <<job, held, resident, twin>> BY <1>1 DEF ReadSource, Fail
  <2> QED BY <2>1, TwinStands
<1>2. CASE JobOf[job].source \in KnownFormats
  <2> DEFINE fc == ReadFrom(Source)
  <2>1. /\ held' = <<fc>> /\ job' = job /\ twin' = [held |-> held', wire |-> wire']
        /\ wire' = (IF resident' # {} THEN OverProperties(fc, ToJson) ELSE Nothing)
    BY <1>2 DEF ReadSource
  <2>2. WellFormed(fc) /\ IsCollection(fc)
    BY <1>2, SourceIsSound DEF RInv, TInv, EInv, IInv, IProgress
  <2> HIDE DEF fc
  <2>3. IsSeq(held') /\ Len(held') = 1 /\ held'[1] = fc /\ DOMAIN held' = {1}
    BY <2>1, OneElement, SeqLength
  <2>4. twin'.held = held' /\ twin'.wire = wire' /\ twin' = [held |-> twin'.held, wire |-> twin'.wire]
    BY <2>1
  <2>5. ITwin' BY <2>1, <2>2, <2>3, <2>4 DEF ITwin, Collected, OnEngine, Sent
  <2>6. SameFeatures(fc, fc) BY SameIsSame
  <2>7. Alike(1)' BY <2>3, <2>4, <2>6 DEF Alike
  <2>8. (RunsAreRepeatable <=> \A i \in DOMAIN held : Determined(i) => Alike(i))' BY RepeatableIs, PTL
  <2> QED BY <2>3, <2>5, <2>7, <2>8
<1> QED BY <1>1, <1>2

LEMMA PullRepeats ==
  ASSUME RInv, PullResident
  PROVE  ITwin' /\ RunsAreRepeatable'
<1>1. pc = "running" /\ At \in DOMAIN Steps /\ At \in resident BY PullEnds
<1>2. PICK fc \in Element(Step(At).op, Step(At).params, wire) :
        Fail("invalid geometry") \/ Give(Pulled(fc), fc)
  BY PullEnds
<1>3. CASE Fail("invalid geometry")
  <2>1. UNCHANGED <<job, held, resident, twin>> BY <1>3 DEF Fail
  <2> QED BY <2>1, TwinStands
<1>4. CASE Give(Pulled(fc), fc)
  <2>1. Step(At).op \in Operations /\ IsAnswer(At, Pulled(fc))
    BY <1>2, PullGives DEF RInv, TInv
  <2> QED BY <1>1, <1>4, <2>1, GiveRepeats
<1> QED BY <1>2, <1>3, <1>4

LEMMA LocalRepeats ==
  ASSUME RInv, RunLocal
  PROVE  ITwin' /\ RunsAreRepeatable'
<1>1. pc = "running" /\ At \in DOMAIN Steps /\ At \notin resident BY LocalEnds
<1>2. ASSUME NEW why, Fail(why) PROVE ITwin' /\ RunsAreRepeatable'
  <2>1. UNCHANGED <<job, held, resident, twin>> BY <1>2 DEF Fail
  <2> QED BY <2>1, TwinStands
<1>3. ASSUME Failure(Step(At).op, Step(At).params, Given) = "none",
             NEW result \in Results(Step(At).op, Step(At).params, Given, JoinOf(At, held)),
             Give(result, wire)
      PROVE  ITwin' /\ RunsAreRepeatable'
  <2>1. Step(At).op \in Operations BY <1>3, FailureIsFair
  <2>2. IsAnswer(At, result) BY <1>1, <1>3 DEF IsAnswer, Given
  <2> QED BY <1>1, <1>3, <2>1, <2>2, GiveRepeats
<1> QED BY <1>2, <1>3, LocalEnds

\* Besides, a second run, whose HashMaps may have another order, has answers of
\* its own, alike as long as no step is undetermined.
THEOREM RunsInductive == Spec => []RInv
<1>1. Init => RInv
  <2> SUFFICES ASSUME Init PROVE RInv
    OBVIOUS
  <2>1. TInv BY InitTypes
  <2>2. held = <<>> /\ twin = [held |-> <<>>, wire |-> Nothing] /\ DOMAIN held = {} BY DEF Init
  <2>3. \E S : <<>> \in Seq(S)
    <3>1. <<>> \in Seq({}) OBVIOUS
    <3> QED BY <3>1
  <2>4. ITwin BY <2>2, <2>3 DEF ITwin, Collected, IsSeq
  <2>5. RunsAreRepeatable BY <2>2 DEF RunsAreRepeatable
  <2> QED BY <2>1, <2>4, <2>5 DEF RInv
<1>2. RInv /\ [Next]_vars => RInv'
  <2> SUFFICES ASSUME RInv, [Next]_vars PROVE RInv'
    OBVIOUS
  <2>1. TInv' BY TypesKept DEF RInv
  <2>2. CASE Submit \/ WriteSink \/ AnswerTool \/ UNCHANGED vars
    <3>1. UNCHANGED <<job, held, resident, twin>>
      BY <2>2 DEF Submit, WriteSink, Fail, AnswerTool, vars
    <3> QED BY <2>1, <3>1, TwinStands DEF RInv
  <2>3. CASE ReadSource BY <2>1, <2>3, ReadRepeats DEF RInv
  <2>4. CASE PullResident BY <2>1, <2>4, PullRepeats DEF RInv
  <2>5. CASE RunLocal BY <2>1, <2>5, LocalRepeats DEF RInv
  <2> QED BY <2>2, <2>3, <2>4, <2>5 DEF Next
<1> QED BY <1>1, <1>2, PTL DEF Spec

\* Every variable of a run (pipeline.rs, gp_tools.rs) has its type in every
\* reachable state: every operation gives a collection of every collection.
THEOREM JobTypes == Spec => []TypeOK
<1>1. RInv => TypeOK
  <2>1. IInv => job \in Jobs /\ resident \subseteq DOMAIN Steps
                /\ (held # <<>> => Len(lineage) = Len(held) - 1)
    BY DEF IInv, IProgress, IResident, ILineage, Mappable
  <2> QED BY <2>1 DEF RInv, TInv, EInv, ITypes, ITwin, Collected, TypeOK
<1> QED BY <1>1, RunsInductive, PTL

\* Two runs of a manifest over one source (pipeline.rs, registry.rs), step by
\* step from the source, give the same features, whatever the order of the
\* HashMaps in either, as long as no step depends on that order: on its own, or
\* because an earlier dissolve ordered what it takes or joins (dissolve.rs:61-72,
\* spatial_join.rs:63-75).  Up to the first dissolve their order is the same.
THEOREM RunsRepeat == Spec => []RunsAreRepeatable
<1>1. RInv => RunsAreRepeatable BY DEF RInv
<1> QED BY <1>1, RunsInductive, PTL

-----------------------------------------------------------------------------
(* What a file gives back.                                                 *)

LEMMA OneKind ==
  ASSUME NEW kinds \in {{"Integer", "Float", "String"}, {"Float", "String"}},
         NEW S \in SUBSET kinds, Cardinality(S) <= 1
  PROVE  \E k \in kinds : S \subseteq {k}
<1>1. IsFiniteSet({"Integer"}) /\ IsFiniteSet({"Float"}) /\ IsFiniteSet({"String"}) BY FS_Singleton
<1>2. IsFiniteSet({"Float"} \cup {"String"}) BY <1>1, FS_Union
<1>3. IsFiniteSet({"Integer"} \cup ({"Float"} \cup {"String"})) BY <1>1, <1>2, FS_Union
<1>4. S \subseteq {"Integer"} \cup ({"Float"} \cup {"String"}) OBVIOUS
<1>5. IsFiniteSet(S) BY <1>3, <1>4, FS_Subset
<1>6. \A x, y \in S : x = y BY <1>5, AtMostOne
<1>7. CASE S = {} BY <1>7
<1>8. CASE S # {}
  <2>1. PICK k \in S : TRUE BY <1>8
  <2> QED BY <1>6, <2>1
<1> QED BY <1>7, <1>8

\* A column of one kind that every feature has.
LEMMA UniformIs ==
  ASSUME NEW fc, IsCollection(fc),
         NEW kinds \in {{"Integer", "Float", "String"}, {"Float", "String"}}, Uniform(fc, kinds)
  PROVE  \A i \in DOMAIN fc.features :
           /\ Columns(fc) = DOMAIN fc.features[i].properties
           /\ \A c \in Columns(fc) :
                /\ fc.features[i].properties[c].kind \in KindsIn(fc, c) \cup {"Null"}
                /\ fc.features[i].properties[c] \in AllValues(fc)
                /\ \E k \in kinds : KindsIn(fc, c) \subseteq {k}
<1> SUFFICES ASSUME NEW i \in DOMAIN fc.features
             PROVE  /\ Columns(fc) = DOMAIN fc.features[i].properties
                    /\ \A c \in Columns(fc) :
                         /\ fc.features[i].properties[c].kind \in KindsIn(fc, c) \cup {"Null"}
                         /\ fc.features[i].properties[c] \in AllValues(fc)
                         /\ \E k \in kinds : KindsIn(fc, c) \subseteq {k}
  OBVIOUS
<1>1. fc.features[i] \in ToSet(fc.features) BY DEF ToSet
<1>2. Columns(fc) = DOMAIN fc.features[i].properties
  <2>1. DOMAIN fc.features[i].properties \subseteq Columns(fc) BY DEF Columns
  <2>2. Columns(fc) \subseteq DOMAIN fc.features[i].properties BY <1>1 DEF Uniform
  <2> QED BY <2>1, <2>2
<1>3. ASSUME NEW c \in Columns(fc)
      PROVE  /\ fc.features[i].properties[c].kind \in KindsIn(fc, c) \cup {"Null"}
             /\ fc.features[i].properties[c] \in AllValues(fc)
             /\ \E k \in kinds : KindsIn(fc, c) \subseteq {k}
  <2>1. fc.features[i].properties[c] \in AllValues(fc) BY <1>1, <1>2 DEF AllValues
  <2>2. ValueAt(fc.features[i], c) = fc.features[i].properties[c] BY <1>2 DEF ValueAt
  <2>3. ValueAt(fc.features[i], c).kind \in KindsIn(fc, c) \cup {"Null"} BY KindsAre
  <2>4. Cardinality(KindsIn(fc, c)) <= 1 /\ KindsIn(fc, c) \subseteq kinds BY DEF Uniform
  <2>5. \E k \in kinds : KindsIn(fc, c) \subseteq {k} BY <2>4, OneKind
  <2> QED BY <2>1, <2>2, <2>3, <2>5
<1> QED BY <1>2, <1>3

LEMMA CarriedIsSteady ==
  ASSUME NEW format \in FormatNames, NEW fc, IsCollection(fc), InRange(fc), Carries(format, fc)
  PROVE  Steady(format, fc)
<1> DEFINE Comes(i, c) == Cased(format, c) = c
                          /\ ValueOf(format, CellOf(format, fc, c, fc.features[i].properties[c]))
                               = fc.features[i].properties[c]
<1>0. \A i \in DOMAIN fc.features : \A c \in DOMAIN fc.features[i].properties :
        IsValue(fc.features[i].properties[c]) /\ c \in Columns(fc)
        /\ fc.features[i].properties[c] \in AllValues(fc)
  <2>1. \A i \in DOMAIN fc.features : fc.features[i] \in ToSet(fc.features) BY DEF ToSet
  <2> QED BY <2>1 DEF InRange, Columns, AllValues
<1>1. CASE format = "csv"
  <2>1. /\ fc.crs = Wgs84 /\ \A c \in Columns(fc) : Lower(c) = c
        /\ Uniform(fc, {"Integer", "Float", "String"}) /\ NullValue \notin AllValues(fc)
        /\ \A v \in AllValues(fc) : v.kind = "String" => ~ParsesAsFloat(v.text)
    BY <1>1 DEF Carries
  <2>2. ASSUME NEW i \in DOMAIN fc.features, NEW c \in DOMAIN fc.features[i].properties
        PROVE  Comes(i, c)
    <3> DEFINE v == fc.features[i].properties[c]
    <3>1. IsValue(v) /\ v \in AllValues(fc) /\ c \in Columns(fc) BY <1>0
    <3>2. v.kind \in KindsIn(fc, c) \cup {"Null"}
          /\ \E k \in {"Integer", "Float", "String"} : KindsIn(fc, c) \subseteq {k}
      BY <2>1, <3>1, UniformIs
    <3>3. ValueOf("csv", CellOf("csv", fc, c, v)) = Inferred(v.text) BY DEF ValueOf, CellOf, V
    <3>4. Cased("csv", c) = c BY <2>1, <3>1 DEF Cased
    <3> HIDE DEF v
    <3>5. v.kind # "Null" BY <2>1, <3>1, OnlyNull DEF IsValue
    <3>6. v.kind \in {"Integer", "Float", "String"} BY <3>2, <3>5
    <3>7. v.kind = "String" => ~ParsesAsFloat(v.text) BY <2>1, <3>1
    <3>8. Inferred(v.text) = v BY <3>1, <3>6, <3>7, TextComesBack
    <3> QED BY <1>1, <3>3, <3>4, <3>8 DEF v
  <2>3. \A i \in DOMAIN fc.features :
          ShapeIn("csv", fc.features[i].geometry) = fc.features[i].geometry
          /\ CellColumns("csv", fc, fc.features[i]) = DOMAIN fc.features[i].properties
    BY <2>1, UniformIs DEF ShapeIn, CellColumns
  <2>4. CrsIn("csv", fc) = fc.crs BY <2>1 DEF CrsIn
  <2> QED BY <1>1, <2>2, <2>3, <2>4 DEF Steady
<1>2. CASE format = "geojson"
  <2>1. fc.crs = Wgs84 /\ V("Float", "NaN") \notin AllValues(fc) BY <1>2 DEF Carries
  <2>2. ASSUME NEW i \in DOMAIN fc.features, NEW c \in DOMAIN fc.features[i].properties
        PROVE  Comes(i, c)
    <3> DEFINE v == fc.features[i].properties[c]
    <3>1. IsValue(v) /\ v \in AllValues(fc) BY <1>0
    <3>2. ValueOf("geojson", CellOf("geojson", fc, c, v)) = ValueOfJson(JsonOf(v)) BY DEF ValueOf, CellOf
    <3>3. Cased("geojson", c) = c BY DEF Cased
    <3> HIDE DEF v
    <3>4. ValueOfJson(JsonOf(v)) = v BY <2>1, <3>1, JsonComesBack
    <3> QED BY <1>2, <3>2, <3>3, <3>4 DEF v
  <2>3. \A i \in DOMAIN fc.features :
          ShapeIn("geojson", fc.features[i].geometry) = fc.features[i].geometry
          /\ CellColumns("geojson", fc, fc.features[i]) = DOMAIN fc.features[i].properties
    BY DEF ShapeIn, CellColumns
  <2>4. CrsIn("geojson", fc) = fc.crs BY <2>1 DEF CrsIn
  <2> QED BY <1>2, <2>2, <2>3, <2>4 DEF Steady
<1>3. CASE format = "geopackage"
  <2>1. /\ fc.crs \in EpsgCrs /\ Columns(fc) = Kept(Columns(fc))
        /\ Uniform(fc, {"Integer", "Float", "String"}) /\ V("Float", "NaN") \notin AllValues(fc)
    BY <1>3 DEF Carries
  <2>2. ASSUME NEW i \in DOMAIN fc.features, NEW c \in DOMAIN fc.features[i].properties
        PROVE  Comes(i, c)
    <3> DEFINE v == fc.features[i].properties[c]
    <3>1. IsValue(v) /\ v \in AllValues(fc) /\ c \in Columns(fc) BY <1>0
    <3>2. v.kind \in KindsIn(fc, c) \cup {"Null"}
          /\ \E k \in {"Integer", "Float", "String"} : KindsIn(fc, c) \subseteq {k}
      BY <2>1, <3>1, UniformIs
    <3>3. ValueOf("geopackage", CellOf("geopackage", fc, c, v)) = Affinity(ColumnType(fc, c), ToSql(v))
      BY DEF ValueOf, CellOf
    <3>4. Cased("geopackage", c) = c BY DEF Cased
    <3> HIDE DEF v
    <3>5. Kinded(v) /\ v # V("Float", "NaN") BY <2>1, <3>1 DEF IsValue
    <3>6. Affinity(ColumnType(fc, c), ToSql(v)) = v BY <3>2, <3>5, SqlComesBack
    <3> QED BY <1>3, <3>3, <3>4, <3>6 DEF v
  <2>3. \A i \in DOMAIN fc.features :
          ShapeIn("geopackage", fc.features[i].geometry) = fc.features[i].geometry
          /\ CellColumns("geopackage", fc, fc.features[i]) = DOMAIN fc.features[i].properties
    BY <2>1, UniformIs DEF ShapeIn, CellColumns
  <2>4. CrsIn("geopackage", fc) = fc.crs BY <2>1 DEF CrsIn, SrsId
  <2> QED BY <1>3, <2>2, <2>3, <2>4 DEF Steady
<1>4. CASE format = "shapefile"
  <2>1. /\ fc.crs = NoCrs /\ \A g \in Geometries(fc) : g.type \in {"Point", "LineString", "Polygon"}
        /\ Uniform(fc, {"Float", "String"}) /\ AllValues(fc) \cap {V("String", ""), V("Float", Tiny)} = {}
    BY <1>4 DEF Carries
  <2>2. ASSUME NEW i \in DOMAIN fc.features, NEW c \in DOMAIN fc.features[i].properties
        PROVE  Comes(i, c)
    <3> DEFINE v == fc.features[i].properties[c]
    <3>1. IsValue(v) /\ v \in AllValues(fc) /\ c \in Columns(fc) BY <1>0
    <3>2. v.kind \in KindsIn(fc, c) \cup {"Null"} /\ \E k \in {"Float", "String"} : KindsIn(fc, c) \subseteq {k}
      BY <2>1, <3>1, UniformIs
    <3>3. ValueOf("shapefile", CellOf("shapefile", fc, c, v)) = OfField(ToField(FieldKind(fc, c), v))
      BY DEF ValueOf, CellOf
    <3>4. Cased("shapefile", c) = c BY DEF Cased
    <3> HIDE DEF v
    <3>5. v \notin {V("String", ""), V("Float", Tiny)} BY <2>1, <3>1
    <3>6. OfField(ToField(FieldKind(fc, c), v)) = v BY <3>1, <3>2, <3>5, FieldComesBack
    <3> QED BY <1>4, <3>3, <3>4, <3>6 DEF v
  <2>3. ASSUME NEW i \in DOMAIN fc.features
        PROVE  ShapeIn("shapefile", fc.features[i].geometry) = fc.features[i].geometry
               /\ CellColumns("shapefile", fc, fc.features[i]) = DOMAIN fc.features[i].properties
    <3>1. fc.features[i].geometry \in Shapes BY SaneCollection DEF Sane
    <3>2. fc.features[i].geometry.type \in {"Point", "LineString", "Polygon"} BY <2>1 DEF Geometries
    <3>3. OfShape(fc.features[i].geometry) = fc.features[i].geometry BY <3>1, <3>2, ShapesSettle
    <3> QED BY <2>1, <3>3, UniformIs DEF ShapeIn, CellColumns
  <2>4. CrsIn("shapefile", fc) = fc.crs BY <2>1 DEF CrsIn
  <2> QED BY <1>4, <2>2, <2>3, <2>4 DEF Steady
<1> QED BY <1>1, <1>2, <1>3, <1>4 DEF FormatNames

\* The file of a run that is done holds what the last step gave.
IFile ==
  pc = "done" =>
    /\ held # <<>> /\ At = Len(Steps) + 1 /\ out.format \in FormatNames
    /\ out = Written(out.format, Given) /\ ~RefusedBy(out.format, Given)

\* The values are those of the model until a step computes some.
Computes(i) == \E k \in DOMAIN Steps : k < i /\ Step(k).op \in Computing
IRange == \A i \in DOMAIN held : ~Computes(i) => InRange(held[i])

FInv == TInv /\ IFile /\ IRange

\* Only the sink makes a run done.
LEMMA FileKept ==
  ASSUME FInv, [Next]_vars
  PROVE  IFile'
<1>1. \A why : Fail(why) => pc' # "done" BY DEF Fail
<1>2. CASE Submit \/ ReadSource \/ AnswerTool
  <2>1. pc' # "done" BY <1>1, <1>2 DEF Submit, ReadSource, AnswerTool
  <2> QED BY <2>1 DEF IFile
<1>3. CASE PullResident
  <2>1. pc' # "done" BY <1>1, <1>3, PullEnds DEF Give
  <2> QED BY <2>1 DEF IFile
<1>4. CASE RunLocal
  <2>1. pc' # "done" BY <1>1, <1>4, LocalEnds DEF Give
  <2> QED BY <2>1 DEF IFile
<1>5. CASE WriteSink
  <2> DEFINE format == FormatOf(JobOf[job].sink)
  <2>1. CASE format \in FormatNames /\ ~RefusedBy(format, Given)
    <3>1. out' = Written(format, Given) /\ UNCHANGED <<job, held>> BY <1>5, <2>1 DEF WriteSink
    <3>2. out'.format = format BY <3>1 DEF Written
    <3>3. held # <<>> /\ At = Len(Steps) + 1 BY <1>5 DEF WriteSink, FInv, TInv, EInv, IInv, IProgress
    <3>4. Given' = Given /\ At' = At /\ Steps' = Steps BY <3>1 DEF Given, At, Steps
    <3> HIDE DEF format
    <3> QED BY <2>1, <3>1, <3>2, <3>3, <3>4 DEF IFile
  <2>2. CASE ~(format \in FormatNames /\ ~RefusedBy(format, Given))
    <3>1. Fail("unknown format") \/ Fail("refused") BY <1>5, <2>2 DEF WriteSink
    <3>2. pc' # "done" BY <1>1, <3>1
    <3> QED BY <3>2 DEF IFile
  <2> QED BY <2>1, <2>2
<1>6. CASE UNCHANGED vars
  <2>1. UNCHANGED <<pc, job, held, out>> BY <1>6 DEF vars
  <2>2. Given' = Given /\ At' = At /\ Steps' = Steps BY <2>1 DEF Given, At, Steps
  <2> QED BY <2>1, <2>2 DEF FInv, IFile
<1> QED BY <1>2, <1>3, <1>4, <1>5, <1>6 DEF Next

\* An answer of a step that computes nothing.
LEMMA AnswerInRange ==
  ASSUME FInv, pc = "running", At \in DOMAIN Steps, ~Computes(At + 1),
         NEW result, Step(At).op \in Operations, IsAnswer(At, result)
  PROVE  InRange(result)
<1> DEFINE op == Step(At).op
           params == Step(At).params
           j == JoinOf(At, held)
<1>1. job \in Jobs /\ At \in Nat \ {0} /\ 1..At = DOMAIN held /\ IsCollection(j) /\ IsCollection(Given)
  BY HeldSoFar, GivenIsCollection DEF FInv
<1>2. \A k \in DOMAIN Steps : k \in Nat BY <1>1, JobFacts
<1>3. \A n \in 1..At : ~Computes(n) BY <1>1, <1>2 DEF Computes
<1>4. op \notin Computing BY <1>1 DEF Computes
<1>5. \A n \in 1..At : InRange(held[n]) BY <1>1, <1>3 DEF FInv, IRange
<1>6. InRange(Given) BY <1>1, <1>5 DEF Given
<1>7. InRange(j)
  <2>1. CASE j = JobOf[job].other
    <3> DEFINE fc == JobOf[job].other
    <3>1. \A f \in ToSet(fc.features) : \A c \in DOMAIN f.properties : IsValue(f.properties[c])
      BY <1>1, JobAssumption
    <3>2. \A n \in DOMAIN fc.features : fc.features[n] \in ToSet(fc.features) BY DEF ToSet
    <3> HIDE DEF fc
    <3>3. InRange(fc) BY <3>1, <3>2 DEF InRange
    <3> QED BY <2>1, <3>3 DEF fc
  <2>2. CASE \E n \in JoinNodes(At) : n \in 1..At /\ \A s : JoinOf(At, s) = s[n]
    BY <1>5, <2>2
  <2> QED BY <2>1, <2>2, JoinIs
<1>8. \A name \in DOMAIN params : IsToml(params[name])
  BY <1>1, JobAssumption DEF Step, Steps
<1>9. CASE At \in resident /\ Blurred(op, params, Given)
  <2>1. result = PickedFrom(Given, MatchingText(params, Given))
    BY <1>9, ToldIs DEF IsAnswer, Exactly, Given
  <2>2. MatchingText(params, Given) \in SUBSET (DOMAIN Given.features) BY DEF MatchingText
  <2> QED BY <1>1, <1>6, <2>1, <2>2, PickedInRange
<1>10. CASE ~(At \in resident /\ Blurred(op, params, Given))
  <2>1. result \in Results(op, params, Given, j) BY <1>10 DEF IsAnswer, Exactly, Given
  <2>2. op \in Operations \ Computing BY <1>4
  <2> HIDE DEF op, params, j
  <2> QED BY <1>1, <1>6, <1>7, <1>8, <2>1, <2>2, ResultInRange
<1> QED BY <1>9, <1>10

\* What one more step gave is in range if it computed nothing.
LEMMA RangeGrows ==
  ASSUME FInv, pc = "running", At \in DOMAIN Steps, NEW result, NEW pulled, Give(result, pulled),
         Step(At).op \in Operations, IsAnswer(At, result)
  PROVE  IRange'
<1>1. /\ UNCHANGED job /\ Len(held) \in Nat \ {0} /\ DOMAIN held = 1..Len(held)
      /\ DOMAIN held' = 1..(Len(held) + 1)
      /\ \A i \in 1..Len(held) : held'[i] = held[i]
      /\ held'[Len(held) + 1] = result
  BY GiveAdds DEF FInv, TInv, EInv, IInv
<1>2. \A i : Computes(i)' <=> Computes(i) BY <1>1 DEF Computes, Step, Steps
<1>3. \A i \in 1..Len(held) : ~Computes(i) => InRange(held'[i]) BY <1>1 DEF FInv, IRange
<1>4. ~Computes(Len(held) + 1) => InRange(result) BY AnswerInRange DEF At
<1> QED BY <1>1, <1>2, <1>3, <1>4 DEF IRange

LEMMA RangeKept ==
  ASSUME FInv, [Next]_vars
  PROVE  IRange'
<1>1. UNCHANGED <<job, held>> => IRange' BY DEF FInv, IRange, Computes, Step, Steps
<1>2. CASE Submit \/ WriteSink \/ AnswerTool \/ UNCHANGED vars
  <2>1. UNCHANGED <<job, held>> BY <1>2 DEF Submit, WriteSink, Fail, AnswerTool, vars
  <2> QED BY <1>1, <2>1
<1>3. CASE ReadSource
  <2>1. CASE JobOf[job].source \notin KnownFormats
    <3>1. UNCHANGED <<job, held>> BY <1>3, <2>1 DEF ReadSource, Fail
    <3> QED BY <1>1, <3>1
  <2>2. CASE JobOf[job].source \in KnownFormats
    <3> DEFINE fc == ReadFrom(Source)
    <3>1. held' = <<fc>> BY <1>3, <2>2 DEF ReadSource
    <3>2. WellFormed(fc) BY <2>2, SourceIsSound DEF FInv, TInv, EInv, IInv, IProgress
    <3> HIDE DEF fc
    <3>3. InRange(fc) BY <3>2 DEF WellFormed, IsFeature, InRange
    <3>4. DOMAIN held' = {1} /\ held'[1] = fc BY <3>1, OneElement, SeqLength
    <3> QED BY <3>3, <3>4 DEF IRange
  <2> QED BY <2>1, <2>2
<1>4. CASE PullResident
  <2>1. pc = "running" /\ At \in DOMAIN Steps BY <1>4, PullEnds
  <2>2. PICK fc \in Element(Step(At).op, Step(At).params, wire) :
          Fail("invalid geometry") \/ Give(Pulled(fc), fc)
    BY <1>4, PullEnds
  <2>3. CASE Fail("invalid geometry") BY <1>1, <2>3 DEF Fail
  <2>4. CASE Give(Pulled(fc), fc)
    <3>1. Step(At).op \in Operations /\ IsAnswer(At, Pulled(fc))
      BY <1>4, <2>2, PullGives DEF FInv, TInv
    <3> QED BY <2>1, <2>4, <3>1, RangeGrows
  <2> QED BY <2>2, <2>3, <2>4
<1>5. CASE RunLocal
  <2>1. pc = "running" /\ At \in DOMAIN Steps /\ At \notin resident BY <1>5, LocalEnds
  <2>2. ASSUME NEW why, Fail(why) PROVE IRange' BY <1>1, <2>2 DEF Fail
  <2>3. ASSUME Failure(Step(At).op, Step(At).params, Given) = "none",
               NEW result \in Results(Step(At).op, Step(At).params, Given, JoinOf(At, held)),
               Give(result, wire)
        PROVE  IRange'
    <3>1. Step(At).op \in Operations BY <2>3, FailureIsFair
    <3>2. IsAnswer(At, result) BY <2>1, <2>3 DEF IsAnswer, Given
    <3> QED BY <2>1, <2>3, <3>1, <3>2, RangeGrows
  <2> QED BY <1>5, <2>2, <2>3, LocalEnds
<1> QED BY <1>2, <1>3, <1>4, <1>5 DEF Next

\* Besides, the file of a run that is done is what its format makes of what the
\* last step gave (WriteSink, pipeline.rs), and until a step computes a number
\* the values are those of the source file and of the manifest.
THEOREM FilesInductive == Spec => []FInv
<1>1. Init => FInv
  <2> SUFFICES ASSUME Init PROVE FInv
    OBVIOUS
  <2>1. TInv BY InitTypes
  <2>2. DOMAIN held = {} /\ pc # "done" BY DEF Init
  <2> QED BY <2>1, <2>2 DEF FInv, IFile, IRange
<1>2. FInv /\ [Next]_vars => FInv'
  <2> SUFFICES ASSUME FInv, [Next]_vars PROVE FInv'
    OBVIOUS
  <2>1. TInv' BY TypesKept DEF FInv
  <2> QED BY <2>1, FileKept, RangeKept DEF FInv
<1> QED BY <1>1, <1>2, PTL DEF Spec

LEMMA LastIsCollection ==
  ASSUME FInv, pc = "done"
  PROVE  /\ IsCollection(Given) /\ Len(held) \in DOMAIN held
         /\ ReadFrom(out) = Again(out.format, Given)
<1>1. IsSeq(held) /\ held # <<>> BY DEF FInv, IFile, TInv, EInv, IInv, IProgress
<1>2. Len(held) \in DOMAIN held BY <1>1, SeqLength, EmptySeqIsShort
<1>3. IsCollection(Given) BY <1>2 DEF FInv, TInv, ITypes, Collected, Given, At
<1> QED BY <1>2, <1>3 DEF FInv, IFile, Again

\* A collection that a format can carry comes back from its file as it was
\* (the writers and readers of geodukt-io), whatever its texts and numbers; its
\* numbers are those of the model.
THEOREM CarriedComesBack == Spec => [](InRange(Given) => RoundTrips)
<1>1. FInv => (InRange(Given) => RoundTrips)
  <2> SUFFICES ASSUME FInv, InRange(Given), pc = "done", Carries(out.format, Given)
               PROVE  ReadFrom(out) = Given
    BY DEF RoundTrips
  <2>1. IsCollection(Given) /\ out.format \in FormatNames BY LastIsCollection DEF FInv, IFile
  <2>2. Steady(out.format, Given) BY <2>1, CarriedIsSteady
  <2>3. IsCollection(Again(out.format, Given)) BY <2>1, FilesAreCollections DEF InRange, Again
  <2>4. Again(out.format, Given) = Given BY <2>1, <2>2, <2>3, SteadyComesBack
  <2> QED BY <2>4, LastIsCollection
<1> QED BY <1>1, FilesInductive, PTL

\* What a writer of geodukt-io loses it loses the first time: its own file is
\* not refused and does not change any more; the numbers are those of the model.
THEOREM FilesSettle == Spec => [](InRange(Given) => ConversionsSettle)
<1>1. FInv => (InRange(Given) => ConversionsSettle)
  <2> SUFFICES ASSUME FInv, InRange(Given), pc = "done"
               PROVE  /\ ~RefusedBy(out.format, ReadFrom(out))
                      /\ ReadFrom(Written(out.format, ReadFrom(out))) = ReadFrom(out)
    BY DEF ConversionsSettle
  <2>1. IsCollection(Given) /\ out.format \in FormatNames /\ ~RefusedBy(out.format, Given)
    BY LastIsCollection DEF FInv, IFile
  <2>2. /\ ~RefusedBy(out.format, Again(out.format, Given))
        /\ Again(out.format, Again(out.format, Given)) = Again(out.format, Given)
    BY <2>1, FormatsSettle
  <2> QED BY <2>2, LastIsCollection DEF Again
<1> QED BY <1>1, FilesInductive, PTL

\* A pipeline whose steps compute no number, a plain conversion among them, has
\* both with no premise on what its steps gave (geodukt-io, registry.rs).
THEOREM ConversionsKeep ==
  Spec => []((\A i \in DOMAIN Steps : Step(i).op \notin Computing) => RoundTrips /\ ConversionsSettle)
<1>1. FInv /\ (InRange(Given) => RoundTrips) /\ (InRange(Given) => ConversionsSettle) =>
        ((\A i \in DOMAIN Steps : Step(i).op \notin Computing) => RoundTrips /\ ConversionsSettle)
  <2> SUFFICES ASSUME FInv, InRange(Given) => RoundTrips, InRange(Given) => ConversionsSettle,
                      \A i \in DOMAIN Steps : Step(i).op \notin Computing
               PROVE  RoundTrips /\ ConversionsSettle
    OBVIOUS
  <2>1. CASE pc # "done" BY <2>1 DEF RoundTrips, ConversionsSettle
  <2>2. CASE pc = "done"
    <3>1. Len(held) \in DOMAIN held BY <2>2, LastIsCollection
    <3>2. InRange(held[Len(held)]) BY <3>1 DEF FInv, IRange, Computes
    <3> QED BY <3>2 DEF Given, At
  <2> QED BY <2>1, <2>2
<1> QED BY <1>1, FilesInductive, CarriedComesBack, FilesSettle, PTL

-----------------------------------------------------------------------------
(* The two gates.                                                          *)

\* Whatever fails a step before it runs is not what a gate says.
LEMMA FailureNames ==
  ASSUME NEW op, NEW params, NEW fc
  PROVE  Failure(op, params, fc) \notin {"invalid geometry", "not materialized"}
<1>1. CASE op \notin Operations BY <1>1 DEF Failure
<1>2. CASE op \in Operations /\ op = "spatial_join" BY <1>2 DEF Failure
<1>3. CASE op \in Operations /\ op # "spatial_join"
  <2>1. ParamError(op, params) \in {"none", "missing parameter", "wrong type"} BY DEF ParamError
  <2> QED BY <1>3, <2>1 DEF Failure
<1> QED BY <1>1, <1>2, <1>3

\* A gate that what is picked does not pass, more of the same does not pass.
LEMMA PickedQuality ==
  ASSUME NEW fc, IsCollection(fc), NEW B \in SUBSET (DOMAIN fc.features), NEW A \in SUBSET B,
         Quality(PickedFrom(fc, B))
  PROVE  Quality(PickedFrom(fc, A))
<1>1. PICK n \in Nat : DOMAIN fc.features = 1..n BY SaneCollection
<1>2. A \in SUBSET (1..n) /\ B \in SUBSET (1..n) BY <1>1
<1>3. \A S : PickedFrom(fc, S).features = Picked(fc.features, S) BY DEF PickedFrom, Collection
<1>4. ASSUME NEW x \in B PROVE Valid(fc.features[x].geometry)
  <2>1. PICK i \in 1..Cardinality(B) : Ranked(B, i) = x BY <1>2, RanksNumber
  <2>2. /\ DOMAIN Picked(fc.features, B) = 1..Cardinality(B)
        /\ \A k \in DOMAIN Picked(fc.features, B) : Picked(fc.features, B)[k] = fc.features[Ranked(B, k)]
    BY <1>2, PickedIs
  <2>3. i \in DOMAIN Picked(fc.features, B) /\ Picked(fc.features, B)[i] = fc.features[x]
    BY <2>1, <2>2
  <2> QED BY <1>3, <2>3 DEF Quality
<1>5. \A i \in DOMAIN Picked(fc.features, A) :
        Ranked(A, i) \in A /\ Picked(fc.features, A)[i] = fc.features[Ranked(A, i)]
  BY <1>2, PickedIs
<1> QED BY <1>3, <1>4, <1>5 DEF Quality

\* What the engine fails at its gate, the operation would have failed at its own.
LEMMA GatesAgree ==
  ASSUME NEW op, NEW params, HasElement(op, params), NEW fc, IsCollection(fc), NEW join,
         NEW result \in Exactly(op, params, fc, join), ~Quality(result)
  PROVE  \E other \in Results(op, params, fc, join) : ~Quality(other)
<1>1. CASE ~Blurred(op, params, fc) BY <1>1 DEF Exactly
<1>2. CASE Blurred(op, params, fc)
  <2>1. op = "filter" BY <1>2 DEF Blurred
  <2>2. result = PickedFrom(fc, MatchingText(params, fc)) BY <1>2, ToldIs DEF Exactly
  <2>3. Filter(fc, params) = PickedFrom(fc, Matching(params, fc))
    BY DEF Filter, Selected, WithFeatures, PickedFrom, Matching
  <2>4. /\ Matching(params, fc) \in SUBSET (DOMAIN fc.features)
        /\ MatchingText(params, fc) \in SUBSET Matching(params, fc)
    BY DEF Matching, MatchingText
  <2>5. ~Quality(Filter(fc, params)) BY <2>2, <2>3, <2>4, PickedQuality
  <2> QED BY <2>1, <2>5 DEF Results
<1> QED BY <1>1, <1>2

\* Step At of the operation gives, or may give, an invalid geometry.
Spoils ==
  \E result \in Results(Step(At).op, Step(At).params, Given, JoinOf(At, held)) : ~Quality(result)

IReason ==
  /\ reason # "not materialized"
  /\ reason = "invalid geometry" => JobOf[job].quality /\ Spoils

GInv == FInv /\ IReason

\* A step that fails for another reason, or does not fail.
LEMMA OtherReason ==
  ASSUME reason' \notin {"invalid geometry", "not materialized"}
  PROVE  IReason'
BY DEF IReason

LEMMA GateFails ==
  ASSUME Fail("invalid geometry"), JobOf[job].quality, Spoils
  PROVE  IReason'
<1>1. reason' = "invalid geometry" /\ UNCHANGED <<job, held>> BY DEF Fail
<1>2. \A i : JoinOf(i, held)' = JoinOf(i, held) BY <1>1, JoinStays
<1>3. Spoils' BY <1>1, <1>2 DEF Spoils, Step, Steps, Given, At
<1> QED BY <1>1, <1>3 DEF IReason

LEMMA ReasonKept ==
  ASSUME GInv, [Next]_vars
  PROVE  IReason'
<1>1. pc \notin {"rejected", "failed"} => reason = "none"
  BY DEF GInv, FInv, TInv, EInv, IInv, IVerdict
<1>2. CASE Submit \/ AnswerTool
  <2>1. reason' \in {"none", "missing parameter"} BY <1>1, <1>2 DEF Submit, AnswerTool
  <2> QED BY <2>1, OtherReason
<1>3. CASE ReadSource
  <2>1. reason' \in {"none", "unknown format"} BY <1>1, <1>3 DEF ReadSource, Fail
  <2> QED BY <2>1, OtherReason
<1>4. CASE WriteSink
  <2>1. reason' \in {"none", "unknown format", "refused"} BY <1>1, <1>4 DEF WriteSink, Fail
  <2> QED BY <2>1, OtherReason
<1>5. CASE PullResident
  <2>1. pc = "running" /\ At \in resident BY <1>5, PullEnds
  <2>2. PICK fc \in Element(Step(At).op, Step(At).params, wire) :
          \/ Fail("invalid geometry") /\ JobOf[job].quality /\ ~Quality(Pulled(fc))
          \/ Give(Pulled(fc), fc)
    BY <1>5, PullEnds
  <2>3. CASE Give(Pulled(fc), fc)
    <3>1. reason' = "none" BY <1>1, <2>1, <2>3 DEF Give
    <3> QED BY <3>1, OtherReason
  <2>4. CASE Fail("invalid geometry") /\ JobOf[job].quality /\ ~Quality(Pulled(fc))
    <3>1. HasElement(Step(At).op, Step(At).params) /\ IsAnswer(At, Pulled(fc))
      BY <1>5, <2>2, PullGives DEF GInv, FInv, TInv
    <3>2. Pulled(fc) \in Exactly(Step(At).op, Step(At).params, Given, JoinOf(At, held))
      BY <2>1, <3>1 DEF IsAnswer, Given
    <3>3. IsCollection(Given) BY <2>1, GivenIsCollection DEF GInv, FInv
    <3>4. Spoils BY <2>4, <3>1, <3>2, <3>3, GatesAgree DEF Spoils
    <3> QED BY <2>4, <3>4, GateFails
  <2> QED BY <2>2, <2>3, <2>4
<1>6. CASE RunLocal
  <2> DEFINE why == Failure(Step(At).op, Step(At).params, Given)
  <2>1. pc = "running" BY <1>6, LocalEnds
  <2>2. CASE Fail("join not available")
    <3>1. reason' = "join not available" BY <2>2 DEF Fail
    <3> QED BY <3>1, OtherReason
  <2>3. CASE Fail(why)
    <3>1. reason' = why BY <2>3 DEF Fail
    <3> QED BY <3>1, FailureNames, OtherReason
  <2>4. ASSUME NEW result \in Results(Step(At).op, Step(At).params, Given, JoinOf(At, held)),
               \/ Fail("invalid geometry") /\ JobOf[job].quality /\ ~Quality(result)
               \/ Give(result, wire)
        PROVE  IReason'
    <3>1. CASE Give(result, wire)
      <4>1. reason' = "none" BY <1>1, <2>1, <3>1 DEF Give
      <4> QED BY <4>1, OtherReason
    <3>2. CASE Fail("invalid geometry") /\ JobOf[job].quality /\ ~Quality(result)
      <4>1. Spoils BY <3>2 DEF Spoils
      <4> QED BY <3>2, <4>1, GateFails
    <3> QED BY <2>4, <3>1, <3>2
  <2> QED BY <1>6, <2>2, <2>3, <2>4, LocalEnds
<1>7. CASE UNCHANGED vars
  <2>1. UNCHANGED <<job, held, reason>> BY <1>7 DEF vars
  <2>2. \A i : JoinOf(i, held)' = JoinOf(i, held) BY <2>1, JoinStays
  <2>3. Spoils' <=> Spoils BY <2>1, <2>2 DEF Spoils, Step, Steps, Given, At
  <2> QED BY <2>1, <2>3 DEF GInv, IReason
<1> QED BY <1>2, <1>3, <1>4, <1>5, <1>6, <1>7 DEF Next

\* The gate of the engine (scheduler.rs:181-196) and that of the threads
\* (scheduler.rs:310-321) are one: with quality on no step hands on an invalid
\* geometry and a sink after a step writes none, a pull that is checked has been
\* built, and a run dies of an invalid geometry only where the operation gives
\* one, even when the engine compared floats in its own way.
THEOREM GateIsHeld == Spec => []GateHolds
<1>1. Init => GInv
  <2> SUFFICES ASSUME Init PROVE GInv
    OBVIOUS
  <2>1. TInv BY InitTypes
  <2>2. DOMAIN held = {} /\ pc # "done" /\ reason = "none" BY DEF Init
  <2> QED BY <2>1, <2>2 DEF GInv, FInv, IFile, IRange, IReason
<1>2. GInv /\ [Next]_vars => GInv'
  <2> SUFFICES ASSUME GInv, [Next]_vars PROVE GInv'
    OBVIOUS
  <2>1. TInv' BY TypesKept DEF GInv, FInv
  <2> QED BY <2>1, FileKept, RangeKept, ReasonKept DEF GInv, FInv
<1>3. GInv => GateHolds
  <2> SUFFICES ASSUME GInv PROVE GateHolds
    OBVIOUS
  <2>1. IGate BY DEF GInv, FInv, TInv, EInv, IInv
  <2>2. JobOf[job].quality => \A i \in DOMAIN held : i > 1 => Quality(held[i])
    BY <2>1 DEF IGate, GateOf
  <2>3. ASSUME JobOf[job].quality, pc = "done", Len(Steps) > 0
        PROVE  \A i \in DOMAIN out.rows : Valid(out.rows[i].geometry)
    <3>1. job \in Jobs BY DEF GInv, FInv, TInv, EInv, IInv, IProgress
    <3>2. Len(held) = Len(Steps) + 1 /\ out = Written(out.format, Given)
      BY <2>3 DEF GInv, FInv, IFile, At
    <3>3. Len(held) \in DOMAIN held BY <2>3, LastIsCollection DEF GInv
    <3>4. Len(held) > 1 BY <2>3, <3>1, <3>2, JobFacts
    <3>5. Quality(Given) BY <2>2, <2>3, <3>3, <3>4 DEF Given, At
    <3>6. /\ DOMAIN out.rows = DOMAIN Given.features
          /\ \A i \in DOMAIN out.rows : out.rows[i].geometry = Given.features[i].geometry
      <4> DEFINE file == Written(out.format, Given)
      <4>1. DOMAIN file.rows = DOMAIN Given.features
            /\ \A i \in DOMAIN file.rows : file.rows[i].geometry = Given.features[i].geometry
        BY DEF Written, Feature
      <4> QED BY <3>2, <4>1
    <3> QED BY <3>5, <3>6 DEF Quality
  <2> QED BY <2>2, <2>3 DEF GateHolds, GInv, IReason, Spoils
<1> QED BY <1>1, <1>2, <1>3, PTL DEF Spec
=============================================================================
