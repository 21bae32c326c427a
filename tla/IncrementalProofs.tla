------------------------- MODULE IncrementalProofs -------------------------
(***************************************************************************)
(* A run is skipped only on the word of completed runs, and rightly when   *)
(* files are calm, for any number of runs, manifests, names and files.     *)
(***************************************************************************)
EXTENDS Incremental, TLAPS

USE DEF Steps, Ends, Goto

LEMMA TypeInit ==
  ASSUME Init
  PROVE  TypeOK
BY IncrementalAssumption
DEF Init, TypeOK, Contents, Hashes, NoHashes

LEMMA TypeNext ==
  ASSUME TypeOK, [Next]_vars
  PROVE  TypeOK'
<1>0. \A r \in Runs : Sources(job[r]) \subseteq Names
         /\ \A n \in Sources(job[r]) : Current(r, n) \in Contents
  BY IncrementalAssumption DEF TypeOK, Sources, Current
<1>1. ASSUME NEW r \in Runs, Load(r) PROVE TypeOK'
  BY <1>0, <1>1 DEF Load, TypeOK
<1>2. ASSUME NEW r \in Runs, Skip(r) PROVE TypeOK'
  BY <1>2 DEF Skip, TypeOK
<1>3. ASSUME NEW r \in Runs, Execute(r) PROVE TypeOK'
  BY <1>0, <1>3 DEF Execute, TypeOK
<1>4. ASSUME NEW r \in Runs, Succeed(r) PROVE TypeOK'
  BY <1>0, <1>4 DEF Succeed, TypeOK
<1>5. ASSUME NEW r \in Runs, Fail(r) PROVE TypeOK'
  BY <1>5 DEF Fail, TypeOK
<1>6. ASSUME NEW r \in Runs, OpenState(r) PROVE TypeOK'
  BY <1>6 DEF OpenState, TypeOK, Hashes, NoHashes
<1>7. ASSUME NEW r \in Runs, WriteState(r) PROVE TypeOK'
  BY <1>7 DEF WriteState, TypeOK, Hashes, NoHashes
<1>8. ASSUME NEW r \in Runs, SaveFails(r) PROVE TypeOK'
  BY <1>8 DEF SaveFails, TypeOK
<1>9. ASSUME NEW r \in Runs, Crash(r) PROVE TypeOK'
  BY <1>9 DEF Crash, TypeOK
<1>10. ASSUME NEW r \in Runs, NEW n \in Names, CheckSource(r, n) PROVE TypeOK'
  BY <1>10 DEF CheckSource, TypeOK
<1>11. ASSUME NEW r \in Runs, NEW n \in Names, ReadSource(r, n) PROVE TypeOK'
  <2>1. Current(r, n) \in Contents
    BY <1>0, <1>11 DEF ReadSource, TypeOK
  <2> QED
    BY <1>11, <2>1 DEF ReadSource, TypeOK, Hashes
<1>12. ASSUME NEW r \in Runs, NEW n \in Names, HashSource(r, n) PROVE TypeOK'
  BY <1>0, <1>12 DEF HashSource, IsNext, TypeOK, Hashes
<1>13. ASSUME NEW f \in Files, Edit(f) PROVE TypeOK'
  BY <1>13, IncrementalAssumption DEF Edit, TypeOK, runVars, Contents
<1>14. CASE UNCHANGED vars
  BY <1>14 DEF vars, runVars, TypeOK
<1> QED
  BY <1>1, <1>2, <1>3, <1>4, <1>5, <1>6, <1>7, <1>8, <1>9, <1>10, <1>11,
     <1>12, <1>13, <1>14 DEF Next

(***************************************************************************)
(* The state of a run is well typed in every reachable state.              *)
(***************************************************************************)
THEOREM TypeCorrect == Spec => []TypeOK
BY TypeInit, TypeNext, PTL DEF Spec

-----------------------------------------------------------------------------

(***************************************************************************)
(* A completed run does not take its word back.                            *)
(***************************************************************************)
LEMMA CompletedStays ==
  ASSUME TypeOK, [Next]_vars, NEW r \in Runs, pc[r] = "completed"
  PROVE  pc'[r] = "completed" /\ job'[r] = job[r] /\ hashes'[r] = hashes[r]
<1>1. ASSUME NEW s \in Runs,
             \/ Load(s) \/ Skip(s) \/ Execute(s) \/ Succeed(s) \/ Fail(s)
             \/ OpenState(s) \/ WriteState(s) \/ SaveFails(s) \/ Crash(s)
      PROVE  pc'[r] = "completed" /\ job'[r] = job[r] /\ hashes'[r] = hashes[r]
  BY <1>1 DEF Load, Skip, Execute, Succeed, Fail, OpenState, WriteState,
    SaveFails, Crash, Active, TypeOK
<1>2. ASSUME NEW s \in Runs, NEW n \in Names,
             CheckSource(s, n) \/ ReadSource(s, n) \/ HashSource(s, n)
      PROVE  pc'[r] = "completed" /\ job'[r] = job[r] /\ hashes'[r] = hashes[r]
  BY <1>2 DEF CheckSource, ReadSource, HashSource, TypeOK
<1>3. CASE UNCHANGED runVars
  BY <1>3 DEF runVars
<1> QED
  BY <1>1, <1>2, <1>3 DEF Next, vars, Edit

LEMMA AccountedStays ==
  ASSUME TypeOK, [Next]_vars, NEW n, NEW h, Accounted(n, h)
  PROVE  Accounted(n, h)'
BY CompletedStays DEF Accounted, Vouched

LEMMA InvInit ==
  ASSUME Init
  PROVE  IInv
BY TypeInit
DEF Init, IInv, IAccounted, IChecked, ISkipped, Accounted, NoHashes

(***************************************************************************)
(* What every run but r holds is accounted for if r alone moves.           *)
(***************************************************************************)
HeldBy(r) ==
  \A n \in Names :
    \/ pc[r] \in {"hashing", "saving"} /\ n \in Sources(job[r]) \ todo[r]
    \/ pc[r] \in {"failed", "crashed"}
    \/ Accounted(n, hashes[r][n])

LEMMA OthersHold ==
  ASSUME IInv, [Next]_vars, NEW s \in Runs,
         pc'[s] = pc[s], job'[s] = job[s], todo'[s] = todo[s],
         hashes'[s] = hashes[s]
  PROVE  HeldBy(s)'
BY AccountedStays DEF IInv, IAccounted, HeldBy

(***************************************************************************)
(* The step of run r preserves the rest of the invariant once what r holds *)
(* and what is on disk are accounted for.                                  *)
(***************************************************************************)
LEMMA RunKeepsInv ==
  ASSUME IInv, [Next]_vars, NEW r \in Runs,
         \A s \in Runs \ {r} :
           /\ pc'[s] = pc[s] /\ job'[s] = job[s] /\ todo'[s] = todo[s]
           /\ hashes'[s] = hashes[s] /\ changed'[s] = changed[s],
         HeldBy(r)',
         \A n \in Names : Accounted(n, disk[n])',
         pc'[r] \in {"checking", "skipped"} /\ ~changed'[r] =>
           \A n \in Sources(job'[r]) \ todo'[r] : hashes'[r][n] # Unknown,
         pc'[r] = "skipped" =>
           ~changed'[r] /\ todo'[r] = {} /\ Sources(job'[r]) # {}
  PROVE  IInv'
<1>1. TypeOK'
  BY TypeNext DEF IInv
<1>2. IAccounted'
  BY OthersHold DEF IAccounted, HeldBy
<1>3. IChecked'
  BY DEF IInv, IChecked
<1>4. ISkipped'
  BY DEF IInv, ISkipped
<1> QED
  BY <1>1, <1>2, <1>3, <1>4 DEF IInv

LEMMA InvNext ==
  ASSUME IInv, [Next]_vars
  PROVE  IInv'
<1>0. TypeOK /\ TypeOK'
  BY TypeNext DEF IInv
<1>d. ASSUME disk' = disk PROVE \A n \in Names : Accounted(n, disk[n])'
  BY <1>0, <1>d, AccountedStays DEF IInv, IAccounted
<1>h. ASSUME NEW r \in Runs, pc[r] \notin {"failed", "crashed"}, NEW n \in Names,
             pc[r] \in {"hashing", "saving"} => n \notin Sources(job[r]) \ todo[r],
             hashes'[r] = hashes[r]
      PROVE  Accounted(n, hashes[r][n])'
  BY <1>0, <1>h, AccountedStays DEF IInv, IAccounted
<1>l. ASSUME NEW r \in Runs, hashes'[r] = disk, NEW n \in Names
      PROVE  Accounted(n, hashes[r][n])'
  BY <1>0, <1>l, AccountedStays DEF IInv, IAccounted
<1>1. ASSUME NEW r \in Runs, Load(r) PROVE IInv'
  <2>1. HeldBy(r)'
    BY <1>0, <1>1, <1>l DEF Load, TypeOK, HeldBy
  <2> QED
    BY <1>0, <1>1, <1>d, <2>1, RunKeepsInv DEF Load, TypeOK
<1>2. ASSUME NEW r \in Runs, Skip(r) PROVE IInv'
  <2>1. HeldBy(r)'
    BY <1>0, <1>2, <1>h DEF Skip, TypeOK, HeldBy
  <2> QED
    BY <1>0, <1>2, <1>d, <2>1, RunKeepsInv DEF Skip, TypeOK, IInv, IChecked
<1>3. ASSUME NEW r \in Runs, Execute(r) PROVE IInv'
  <2>1. HeldBy(r)'
    BY <1>0, <1>3, <1>h DEF Execute, TypeOK, HeldBy
  <2> QED
    BY <1>0, <1>3, <1>d, <2>1, RunKeepsInv DEF Execute, TypeOK
<1>4. ASSUME NEW r \in Runs, Succeed(r) PROVE IInv'
  <2>1. HeldBy(r)'
    BY <1>0, <1>4, <1>l DEF Succeed, TypeOK, HeldBy
  <2> QED
    BY <1>0, <1>4, <1>d, <2>1, RunKeepsInv DEF Succeed, TypeOK
<1>5. ASSUME NEW r \in Runs, Fail(r) PROVE IInv'
  <2>1. HeldBy(r)'
    BY <1>0, <1>5 DEF Fail, TypeOK, HeldBy
  <2> QED
    BY <1>0, <1>5, <1>d, <2>1, RunKeepsInv DEF Fail, TypeOK
<1>6. ASSUME NEW r \in Runs, OpenState(r) PROVE IInv'
  <2>1. HeldBy(r)'
    BY <1>0, <1>6, <1>h DEF OpenState, TypeOK, HeldBy
  <2>2. \A n \in Names : Accounted(n, disk[n])'
    BY <1>6 DEF OpenState, Accounted, NoHashes
  <2> QED
    BY <1>0, <1>6, <2>1, <2>2, RunKeepsInv DEF OpenState, TypeOK
(***************************************************************************)
(* The run is completed in this step, so what it hashed is vouched for.    *)
(***************************************************************************)
<1>7. ASSUME NEW r \in Runs, WriteState(r) PROVE IInv'
  <2>1. HeldBy(r)'
    <3> SUFFICES ASSUME NEW n \in Names PROVE Accounted(n, hashes[r][n])'
      BY DEF HeldBy
    <3>1. CASE n \in Sources(job[r])
      BY <1>0, <1>7, <3>1 DEF WriteState, TypeOK, Accounted, Vouched
    <3>2. CASE n \notin Sources(job[r])
      BY <1>0, <1>7, <1>h, <3>2 DEF WriteState, TypeOK
    <3> QED BY <3>1, <3>2
  <2>2. \A n \in Names : Accounted(n, disk[n])'
    BY <1>0, <1>7, <2>1 DEF WriteState, TypeOK, Accounted, NoHashes, HeldBy
  <2> QED
    BY <1>0, <1>7, <2>1, <2>2, RunKeepsInv DEF WriteState, TypeOK
<1>8. ASSUME NEW r \in Runs, SaveFails(r) PROVE IInv'
  <2>1. HeldBy(r)'
    <3> SUFFICES ASSUME NEW n \in Names PROVE Accounted(n, hashes[r][n])'
      BY DEF HeldBy
    <3>1. CASE n \in Sources(job[r])
      BY <1>0, <1>8, <3>1 DEF SaveFails, TypeOK, Accounted, Vouched
    <3>2. CASE n \notin Sources(job[r])
      BY <1>0, <1>8, <1>h, <3>2 DEF SaveFails, TypeOK
    <3> QED BY <3>1, <3>2
  <2> QED
    BY <1>0, <1>8, <1>d, <2>1, RunKeepsInv DEF SaveFails, TypeOK
<1>9. ASSUME NEW r \in Runs, Crash(r) PROVE IInv'
  <2>1. HeldBy(r)'
    BY <1>0, <1>9 DEF Crash, TypeOK, HeldBy
  <2> QED
    BY <1>0, <1>9, <1>d, <2>1, RunKeepsInv DEF Crash, TypeOK
<1>10. ASSUME NEW r \in Runs, NEW n \in Names, CheckSource(r, n) PROVE IInv'
  <2>1. HeldBy(r)'
    BY <1>0, <1>10, <1>h DEF CheckSource, TypeOK, HeldBy
  <2>2. n \in Sources(job[r]) /\ Current(r, n) # Unknown
    BY <1>0, <1>10, IncrementalAssumption
    DEF CheckSource, IsNext, TypeOK, Contents, Current, Sources
  <2>3. ~changed'[r] =>
          \A k \in Sources(job[r]) \ todo'[r] : hashes[r][k] # Unknown
    BY <1>0, <1>10, <2>2 DEF CheckSource, TypeOK, IInv, IChecked
  <2> QED
    BY <1>0, <1>10, <1>d, <2>1, <2>3, RunKeepsInv DEF CheckSource, TypeOK
<1>11. ASSUME NEW r \in Runs, NEW n \in Names, ReadSource(r, n) PROVE IInv'
  <2>1. HeldBy(r)'
    BY <1>0, <1>11, <1>h DEF ReadSource, TypeOK, HeldBy
  <2> QED
    BY <1>0, <1>11, <1>d, <2>1, RunKeepsInv DEF ReadSource, TypeOK
<1>12. ASSUME NEW r \in Runs, NEW n \in Names, HashSource(r, n) PROVE IInv'
  <2>1. HeldBy(r)'
    <3> SUFFICES ASSUME NEW k \in Names, k \notin Sources(job[r]) \ todo'[r]
                 PROVE  Accounted(k, hashes[r][k])'
      BY <1>0, <1>12 DEF HashSource, HeldBy
    <3>1. k # n /\ k \notin Sources(job[r]) \ todo[r]
      BY <1>0, <1>12 DEF HashSource, IsNext, TypeOK
    <3>2. Accounted(k, hashes[r][k])
      BY <1>0, <1>12, <3>1 DEF HashSource, IInv, IAccounted
    <3>3. hashes'[r][k] = hashes[r][k]
      BY <1>0, <1>12, <3>1 DEF HashSource, TypeOK, Hashes
    <3> QED
      BY <1>0, <3>2, <3>3, AccountedStays
  <2> QED
    BY <1>0, <1>12, <1>d, <2>1, RunKeepsInv DEF HashSource, TypeOK
<1>13. CASE UNCHANGED <<disk, runVars>>
  <2>1. \A r \in Runs : HeldBy(r)'
    BY <1>13, OthersHold DEF runVars
  <2>2. IAccounted'
    BY <1>13, <1>d, <2>1 DEF IAccounted, HeldBy
  <2> QED
    BY <1>0, <1>13, <2>2 DEF IInv, IChecked, ISkipped, runVars
<1> QED
  BY <1>1, <1>2, <1>3, <1>4, <1>5, <1>6, <1>7, <1>8, <1>9, <1>10, <1>11,
     <1>12, <1>13 DEF Next, Edit, vars

(***************************************************************************)
(* A run is skipped only on the word of completed runs: with any number of *)
(* runs at once, crashes, garbled state files and edits at any time.       *)
(***************************************************************************)
THEOREM SkippingIsEarned == Spec => []SkipWasEarned
<1>1. IInv => SkipWasEarned
  BY IncrementalAssumption
  DEF IInv, TypeOK, IAccounted, IChecked, ISkipped, SkipWasEarned, Accounted, Sources
<1> QED
  BY <1>1, InvInit, InvNext, PTL DEF Spec

-----------------------------------------------------------------------------
(* When a skip is right                                                    *)

(***************************************************************************)
(* The three conditions: files do not change under a run, a file does not  *)
(* get a content back, and no two manifests have a source of one name.     *)
(***************************************************************************)
Calm ==
  /\ ~EditsInRuns /\ ~Reverts
  /\ \A j, k \in Jobs : Sources(j) \cap Sources(k) # {} => j = k

(***************************************************************************)
(* What a run under way has found unchanged, read or hashed is what the    *)
(* files hold, and once it has written its outputs so are they.            *)
(***************************************************************************)
IStill ==
  \A r \in Runs :
    /\ pc[r] = "checking" /\ ~changed[r] =>
         \A n \in Sources(job[r]) \ todo[r] : hashes[r][n] = Current(r, n)
    /\ pc[r] = "executing" =>
         \A n \in Sources(job[r]) \ todo[r] :
           got[r][n] = Current(r, n) /\ Current(r, n) # Gone
    /\ pc[r] \in {"hashing", "saving"} =>
         /\ \A n \in Sources(job[r]) :
              outputs[job[r]][n] = Current(r, n) /\ Current(r, n) # Gone
         /\ \A n \in Sources(job[r]) \ todo[r] : hashes[r][n] = Current(r, n)
         /\ pc[r] = "saving" => todo[r] = {}

(***************************************************************************)
(* Contents are numbered as they come, so outputs are never made from what *)
(* is older than what a completed run hashed or newer than what there is.  *)
(***************************************************************************)
IForward ==
  /\ \A f \in Files : content[f] # Gone => content[f] <= edits
  /\ \A j \in Jobs : \A n \in Sources(j) :
       LET now == content[FileOf[j][n]]
       IN  outputs[j][n] # Unknown =>
             /\ outputs[j][n] # Gone /\ outputs[j][n] <= edits
             /\ now # Gone => outputs[j][n] <= now
  /\ \A r \in Runs : pc[r] = "completed" =>
       \A n \in Sources(job[r]) :
         /\ hashes[r][n] \in Nat /\ outputs[job[r]][n] \in Nat
         /\ hashes[r][n] <= outputs[job[r]][n]

CInv == IInv /\ IStill /\ IForward

LEMMA CalmInit ==
  ASSUME Init
  PROVE  CInv
<1> USE IncrementalAssumption
<1>1. IInv BY InvInit
<1>2. IStill BY DEF Init, IStill
<1>3. IForward BY DEF Init, IForward, NoHashes, Sources
<1> QED BY <1>1, <1>2, <1>3 DEF CInv

LEMMA CurrentIsContent ==
  ASSUME TypeOK, NEW r \in Runs, NEW n \in Sources(job[r])
  PROVE  /\ job[r] \in Jobs /\ n \in Names
         /\ FileOf[job[r]][n] \in Files
         /\ Current(r, n) = content[FileOf[job[r]][n]]
         /\ Current(r, n) \in Nat \cup {Gone} /\ Current(r, n) # Unknown
BY IncrementalAssumption DEF TypeOK, Sources, Current, Contents

(***************************************************************************)
(* The outputs of a manifest become what the sources hold, or stay.        *)
(***************************************************************************)
LEMMA OutputsMove ==
  ASSUME CInv, NEW r \in Runs, pc[r] = "executing", UNCHANGED <<content, edits, job>>,
         \/ UNCHANGED outputs
         \/ todo[r] = {} /\ outputs' = [outputs EXCEPT ![job[r]] = got[r]]
  PROVE  /\ \A j \in Jobs : \A n \in Sources(j) :
              \/ outputs'[j][n] = outputs[j][n]
              \/ outputs'[j][n] = content[FileOf[j][n]] /\ content[FileOf[j][n]] # Gone
         /\ todo[r] = {} /\ outputs' = [outputs EXCEPT ![job[r]] = got[r]] =>
              \A n \in Sources(job[r]) : outputs'[job[r]][n] = Current(r, n) /\ Current(r, n) # Gone
<1> USE DEF CInv, IInv
<1>1. job[r] \in Jobs /\ \A n \in Sources(job[r]) : Current(r, n) = content[FileOf[job[r]][n]]
  BY DEF TypeOK, Current
<1>2. todo[r] = {} => \A n \in Sources(job[r]) : got[r][n] = Current(r, n) /\ Current(r, n) # Gone
  BY DEF IStill
<1>3. outputs \in [Jobs -> Hashes] BY DEF TypeOK
<1> QED BY <1>1, <1>2, <1>3

LEMMA ForwardKept ==
  ASSUME CInv, TypeOK', UNCHANGED <<content, edits, job>>,
         \A j \in Jobs : \A n \in Sources(j) :
           \/ outputs'[j][n] = outputs[j][n]
           \/ outputs'[j][n] = content[FileOf[j][n]] /\ content[FileOf[j][n]] # Gone,
         \A s \in Runs : pc'[s] = "completed" =>
           \/ pc[s] = "completed" /\ hashes'[s] = hashes[s]
           \/ \A n \in Sources(job[s]) :
                /\ hashes'[s][n] = Current(s, n) /\ Current(s, n) # Gone
                /\ outputs'[job[s]][n] = Current(s, n)
  PROVE  IForward'
<1> USE DEF CInv, IInv
<1>0. TypeOK OBVIOUS
<1>1. \A f \in Files : content[f] # Gone => content[f] <= edits /\ content[f] \in Nat
  BY <1>0, IncrementalAssumption DEF IForward, TypeOK, Contents
<1>2. \A j \in Jobs : \A n \in Sources(j) :
        FileOf[j][n] \in Files /\ outputs[j][n] \in Nat \cup {Gone, Unknown} /\ n \in Names
  <2> SUFFICES ASSUME NEW j \in Jobs, NEW n \in Sources(j)
               PROVE  FileOf[j][n] \in Files /\ outputs[j][n] \in Nat \cup {Gone, Unknown} /\ n \in Names
    OBVIOUS
  <2>1. n \in Names /\ FileOf[j][n] \in Files BY IncrementalAssumption
  <2>2. outputs[j] \in Hashes BY <1>0 DEF TypeOK
  <2> QED BY <2>1, <2>2, IncrementalAssumption DEF Hashes, Contents
<1>3. ASSUME NEW j \in Jobs, NEW n \in Sources(j), outputs'[j][n] # Unknown
      PROVE  /\ outputs'[j][n] # Gone /\ outputs'[j][n] <= edits
             /\ content[FileOf[j][n]] # Gone => outputs'[j][n] <= content[FileOf[j][n]]
  BY <1>1, <1>2, <1>3 DEF IForward
<1>4. ASSUME NEW s \in Runs, pc'[s] = "completed", NEW n \in Sources(job[s])
      PROVE  /\ hashes'[s][n] \in Nat /\ outputs'[job[s]][n] \in Nat
             /\ hashes'[s][n] <= outputs'[job[s]][n]
  <2>1. job[s] \in Jobs BY <1>0 DEF TypeOK
  <2>2. CASE pc[s] = "completed" /\ hashes'[s] = hashes[s]
    <3>1. /\ hashes[s][n] \in Nat /\ outputs[job[s]][n] \in Nat
          /\ hashes[s][n] <= outputs[job[s]][n]
      BY <2>2 DEF IForward
    <3>2. outputs[job[s]][n] # Unknown BY <3>1, IncrementalAssumption
    <3>3. content[FileOf[job[s]][n]] # Gone => outputs[job[s]][n] <= content[FileOf[job[s]][n]]
      BY <2>1, <3>2 DEF IForward
    <3> QED BY <1>1, <1>2, <2>1, <2>2, <3>1, <3>3
  <2>3. CASE ~(pc[s] = "completed" /\ hashes'[s] = hashes[s])
    <3>1. /\ hashes'[s][n] = Current(s, n) /\ Current(s, n) # Gone
          /\ outputs'[job[s]][n] = Current(s, n)
      BY <1>4, <2>3
    <3>2. Current(s, n) \in Nat BY <1>0, <3>1, CurrentIsContent
    <3> QED BY <3>1, <3>2
  <2> QED BY <2>2, <2>3
<1>5. job' = job /\ content' = content /\ edits' = edits OBVIOUS
<1> QED BY <1>1, <1>3, <1>4, <1>5 DEF IForward

(***************************************************************************)
(* The runs that do not move are as still as they were.                    *)
(***************************************************************************)
StillOf(r) ==
  /\ pc[r] = "checking" /\ ~changed[r] =>
       \A n \in Sources(job[r]) \ todo[r] : hashes[r][n] = Current(r, n)
  /\ pc[r] = "executing" =>
       \A n \in Sources(job[r]) \ todo[r] :
         got[r][n] = Current(r, n) /\ Current(r, n) # Gone
  /\ pc[r] \in {"hashing", "saving"} =>
       /\ \A n \in Sources(job[r]) :
            outputs[job[r]][n] = Current(r, n) /\ Current(r, n) # Gone
       /\ \A n \in Sources(job[r]) \ todo[r] : hashes[r][n] = Current(r, n)
       /\ pc[r] = "saving" => todo[r] = {}

LEMMA StillKept ==
  ASSUME CInv, UNCHANGED <<content, edits, job>>, NEW r \in Runs,
         \A s \in Runs \ {r} :
           /\ pc'[s] = pc[s] /\ todo'[s] = todo[s] /\ hashes'[s] = hashes[s]
           /\ changed'[s] = changed[s] /\ got'[s] = got[s],
         \A j \in Jobs : \A n \in Sources(j) :
           \/ outputs'[j][n] = outputs[j][n]
           \/ outputs'[j][n] = content[FileOf[j][n]] /\ content[FileOf[j][n]] # Gone,
         StillOf(r)'
  PROVE  IStill'
<1> USE DEF CInv, IInv
<1>1. ASSUME NEW s \in Runs \ {r} PROVE StillOf(s)'
  <2>1. job[s] \in Jobs /\ \A n : Current(s, n)' = Current(s, n) /\ Current(s, n) = content[FileOf[job[s]][n]]
    BY DEF TypeOK, Current
  <2>2. StillOf(s) BY DEF IStill, StillOf
  <2>3. pc[s] \in {"hashing", "saving"} =>
          \A n \in Sources(job[s]) : outputs'[job[s]][n] = Current(s, n) /\ Current(s, n) # Gone
    BY <2>1, <2>2 DEF StillOf
  <2>4. job' = job OBVIOUS
  <2> QED BY <1>1, <2>1, <2>2, <2>3, <2>4 DEF StillOf
<1> QED BY <1>1 DEF IStill, StillOf

LEMMA CalmNext ==
  ASSUME Calm, CInv, [Next]_vars
  PROVE  CInv'
<1> USE DEF CInv, IInv
<1>0. IInv' /\ TypeOK /\ TypeOK' BY InvNext DEF IInv
<1>c. \A r \in Runs : \A n \in Sources(job[r]) : Current(r, n) \in Nat \cup {Gone}
  BY <1>0, CurrentIsContent
<1>s. ASSUME NEW r \in Runs PROVE StillOf(r) BY DEF IStill, StillOf
<1>1. ASSUME NEW r \in Runs, Load(r) PROVE IStill' /\ IForward'
  <2>1. StillOf(r)' BY <1>0, <1>1 DEF Load, TypeOK, StillOf
  <2> QED BY <1>0, <1>1, <2>1, StillKept, ForwardKept DEF Load, TypeOK
<1>2. ASSUME NEW r \in Runs, Skip(r) PROVE IStill' /\ IForward'
  <2>1. StillOf(r)' BY <1>0, <1>2 DEF Skip, TypeOK, StillOf
  <2> QED BY <1>0, <1>2, <2>1, StillKept, ForwardKept DEF Skip, TypeOK
<1>3. ASSUME NEW r \in Runs, Execute(r) PROVE IStill' /\ IForward'
  <2>1. StillOf(r)' BY <1>0, <1>3 DEF Execute, TypeOK, StillOf
  <2> QED BY <1>0, <1>3, <2>1, StillKept, ForwardKept DEF Execute, TypeOK
<1>4. ASSUME NEW r \in Runs, Succeed(r) PROVE IStill' /\ IForward'
  <2>0. pc[r] = "executing" /\ UNCHANGED <<content, edits, job>> BY <1>4 DEF Succeed
  <2>1. /\ \A j \in Jobs : \A n \in Sources(j) :
             \/ outputs'[j][n] = outputs[j][n]
             \/ outputs'[j][n] = content[FileOf[j][n]] /\ content[FileOf[j][n]] # Gone
        /\ \A n \in Sources(job[r]) : outputs'[job[r]][n] = Current(r, n) /\ Current(r, n) # Gone
    BY <1>4, <2>0, OutputsMove DEF Succeed
  <2>2. StillOf(r)'
    <3>1. \A n : Current(r, n)' = Current(r, n) BY <2>0 DEF Current
    <3>2. pc'[r] = "hashing" /\ todo'[r] = Sources(job[r]) BY <1>0, <1>4 DEF Succeed, TypeOK
    <3> QED BY <2>0, <2>1, <3>1, <3>2 DEF StillOf
  <2>3. /\ \A s \in Runs \ {r} :
             /\ pc'[s] = pc[s] /\ todo'[s] = todo[s] /\ hashes'[s] = hashes[s]
             /\ changed'[s] = changed[s] /\ got'[s] = got[s]
        /\ pc'[r] = "hashing"
    BY <1>0, <1>4 DEF Succeed, TypeOK
  <2>4. IStill' BY <2>0, <2>1, <2>2, <2>3, StillKept
  <2>5. IForward' BY <1>0, <2>0, <2>1, <2>3, ForwardKept
  <2> QED BY <2>4, <2>5
<1>5. ASSUME NEW r \in Runs, Fail(r) PROVE IStill' /\ IForward'
  <2>0. pc[r] = "executing" /\ UNCHANGED <<content, edits, job>> BY <1>5 DEF Fail
  <2>1. \A j \in Jobs : \A n \in Sources(j) :
             \/ outputs'[j][n] = outputs[j][n]
             \/ outputs'[j][n] = content[FileOf[j][n]] /\ content[FileOf[j][n]] # Gone
    BY <1>5, <2>0, OutputsMove DEF Fail
  <2>3. /\ \A s \in Runs \ {r} :
             /\ pc'[s] = pc[s] /\ todo'[s] = todo[s] /\ hashes'[s] = hashes[s]
             /\ changed'[s] = changed[s] /\ got'[s] = got[s]
        /\ pc'[r] = "failed"
    BY <1>0, <1>5 DEF Fail, TypeOK
  <2>4. IStill' BY <2>0, <2>1, <2>3, StillKept DEF StillOf
  <2>5. IForward' BY <1>0, <2>0, <2>1, <2>3, ForwardKept
  <2> QED BY <2>4, <2>5
<1>6. ASSUME NEW r \in Runs, OpenState(r) PROVE IStill' /\ IForward'
  <2>1. StillOf(r)' BY <1>0, <1>6, <1>s DEF OpenState, TypeOK, StillOf, Current
  <2> QED BY <1>0, <1>6, <2>1, StillKept, ForwardKept DEF OpenState, TypeOK
<1>7. ASSUME NEW r \in Runs, WriteState(r) \/ SaveFails(r) PROVE IStill' /\ IForward'
  <2>0. /\ pc'[r] = "completed" /\ UNCHANGED <<content, edits, job, outputs, hashes>>
        /\ \A s \in Runs \ {r} :
             /\ pc'[s] = pc[s] /\ todo'[s] = todo[s] /\ hashes'[s] = hashes[s]
             /\ changed'[s] = changed[s] /\ got'[s] = got[s]
    BY <1>0, <1>7 DEF WriteState, SaveFails, TypeOK
  <2>1. StillOf(r)' BY <2>0 DEF StillOf
  <2>2. pc[r] \in {"hashing", "saving"} /\ todo[r] = {}
    BY <1>7, <1>s DEF WriteState, SaveFails, StillOf
  <2>3. \A n \in Sources(job[r]) :
          /\ hashes'[r][n] = Current(r, n) /\ Current(r, n) # Gone
          /\ outputs'[job[r]][n] = Current(r, n)
    BY <1>s, <2>0, <2>2 DEF StillOf
  <2>4. IStill' BY <2>0, <2>1, StillKept
  <2>5. IForward' BY <1>0, <2>0, <2>3, ForwardKept
  <2> QED BY <2>4, <2>5
<1>9. ASSUME NEW r \in Runs, Crash(r) PROVE IStill' /\ IForward'
  <2>1. StillOf(r)' BY <1>0, <1>9 DEF Crash, TypeOK, StillOf
  <2> QED BY <1>0, <1>9, <2>1, StillKept, ForwardKept DEF Crash, TypeOK
<1>10. ASSUME NEW r \in Runs, NEW n \in Names, CheckSource(r, n) PROVE IStill' /\ IForward'
  <2>1. StillOf(r)'
    <3>1. \A k : Current(r, k)' = Current(r, k) BY <1>10 DEF CheckSource, Current
    <3>2. /\ pc'[r] = "checking" /\ pc[r] = "checking" /\ job' = job /\ hashes' = hashes
          /\ todo'[r] = todo[r] \ {n}
          /\ ~changed'[r] => ~changed[r] /\ hashes[r][n] = Current(r, n)
      BY <1>0, <1>10 DEF CheckSource, TypeOK
    <3> QED BY <1>s, <3>1, <3>2 DEF StillOf
  <2> QED BY <1>0, <1>10, <2>1, StillKept, ForwardKept DEF CheckSource, TypeOK
<1>11. ASSUME NEW r \in Runs, NEW n \in Names, ReadSource(r, n) PROVE IStill' /\ IForward'
  <2>1. StillOf(r)'
    <3>1. \A k : Current(r, k)' = Current(r, k) BY <1>11 DEF ReadSource, Current
    <3>2. /\ pc'[r] = "executing" /\ pc[r] = "executing" /\ job' = job
          /\ todo'[r] = todo[r] \ {n} /\ Current(r, n) # Gone
      BY <1>0, <1>11 DEF ReadSource, TypeOK
    <3>3. got'[r] = [got[r] EXCEPT ![n] = Current(r, n)] /\ got[r] \in Hashes
      BY <1>0, <1>11 DEF ReadSource, TypeOK
    <3>4. Sources(job[r]) \subseteq Names BY <1>0, CurrentIsContent
    <3>5. \A k \in Sources(job[r]) : got'[r][k] = IF k = n THEN Current(r, n) ELSE got[r][k]
      BY <3>3, <3>4 DEF Hashes
    <3> QED BY <1>s, <3>1, <3>2, <3>5 DEF StillOf
  <2> QED BY <1>0, <1>11, <2>1, StillKept, ForwardKept DEF ReadSource, TypeOK
<1>12. ASSUME NEW r \in Runs, NEW n \in Names, HashSource(r, n) PROVE IStill' /\ IForward'
  <2>1. StillOf(r)'
    <3>1. \A k : Current(r, k)' = Current(r, k) BY <1>12 DEF HashSource, Current
    <3>2. /\ pc'[r] = "hashing" /\ pc[r] = "hashing" /\ job' = job /\ outputs' = outputs
          /\ todo'[r] = todo[r] \ {n}
      BY <1>0, <1>12 DEF HashSource, TypeOK
    <3>3. hashes'[r] = [hashes[r] EXCEPT ![n] = Current(r, n)] /\ hashes[r] \in Hashes
      BY <1>0, <1>12 DEF HashSource, TypeOK
    <3>4. Sources(job[r]) \subseteq Names BY <1>0, CurrentIsContent
    <3>5. \A k \in Sources(job[r]) : hashes'[r][k] = IF k = n THEN Current(r, n) ELSE hashes[r][k]
      BY <3>3, <3>4 DEF Hashes
    <3> QED BY <1>s, <3>1, <3>2, <3>5 DEF StillOf
  <2> QED BY <1>0, <1>12, <2>1, StillKept, ForwardKept DEF HashSource, TypeOK
(***************************************************************************)
(* A file changes while nothing runs, to a content that is gone or new.    *)
(***************************************************************************)
<1>13. ASSUME NEW f \in Files, Edit(f) PROVE IStill' /\ IForward'
  <2>1. IStill' BY <1>13 DEF Calm, Edit, runVars, Active, Steps, IStill
  <2>2. /\ edits' = edits + 1 /\ edits \in Nat
        /\ content' \in [Files -> Nat \cup {Gone}] /\ content \in [Files -> Nat \cup {Gone}]
        /\ \A g \in Files : content'[g] \in {content[g], edits', Gone}
    BY <1>0, <1>13, IncrementalAssumption DEF Calm, Edit, TypeOK, Contents
  <2>3. \A g \in Files : content'[g] # Gone => content'[g] <= edits'
    BY <2>2 DEF IForward
  <2>4. ASSUME NEW j \in Jobs, NEW n \in Sources(j), outputs[j][n] # Unknown
        PROVE  /\ outputs[j][n] # Gone /\ outputs[j][n] <= edits'
               /\ content'[FileOf[j][n]] # Gone => outputs[j][n] <= content'[FileOf[j][n]]
    <3>1. FileOf[j][n] \in Files /\ n \in Names BY IncrementalAssumption DEF Sources
    <3>2. outputs[j][n] \in Nat
      <4>1. outputs[j] \in Hashes BY <1>0 DEF TypeOK
      <4>2. outputs[j][n] \in Nat \cup {Gone, Unknown}
        BY <3>1, <4>1, IncrementalAssumption DEF Hashes, Contents
      <4> QED BY <2>4, <4>2 DEF IForward
    <3>3. /\ outputs[j][n] # Gone /\ outputs[j][n] <= edits
          /\ content[FileOf[j][n]] # Gone => outputs[j][n] <= content[FileOf[j][n]]
      BY <2>4 DEF IForward
    <3> QED BY <2>2, <3>1, <3>2, <3>3
  <2>5. IForward'
    <3>1. UNCHANGED <<pc, job, hashes, outputs>> BY <1>13 DEF Edit, runVars
    <3>2. \A s \in Runs : pc'[s] = "completed" =>
            \A n \in Sources(job'[s]) :
              /\ hashes'[s][n] \in Nat /\ outputs'[job'[s]][n] \in Nat
              /\ hashes'[s][n] <= outputs'[job'[s]][n]
      BY <3>1 DEF IForward
    <3> QED BY <2>3, <2>4, <3>1, <3>2 DEF IForward
  <2> QED BY <2>1, <2>5
<1>14. CASE UNCHANGED vars
  <2>1. IStill' BY <1>14 DEF vars, runVars, IStill, Current
  <2>2. IForward' BY <1>14 DEF vars, runVars, IForward
  <2> QED BY <1>0, <2>1, <2>2
<1> QED
  BY <1>0, <1>1, <1>2, <1>3, <1>4, <1>5, <1>6, <1>7, <1>9, <1>10, <1>11,
     <1>12, <1>13, <1>14 DEF Next

(***************************************************************************)
(* A run that is skipped finds its outputs made from what its sources      *)
(* hold: the hash it compared with is that of a completed run of its own   *)
(* manifest, what was written since is no older, and nothing is newer than *)
(* the file.                                                               *)
(***************************************************************************)
LEMMA SkipIsRight ==
  ASSUME Calm, CInv, NEW r \in Runs, Skip(r), NEW n \in Sources(job[r])
  PROVE  outputs[job[r]][n] = hashes[r][n]
<1> USE DEF CInv, IInv
<1>1. /\ job[r] \in Jobs /\ n \in Names /\ FileOf[job[r]][n] \in Files
      /\ Current(r, n) = content[FileOf[job[r]][n]]
      /\ Current(r, n) \in Nat \cup {Gone} /\ Current(r, n) # Unknown
  BY CurrentIsContent
<1>2. hashes[r][n] = Current(r, n) BY DEF Skip, IStill
<1>3. Accounted(n, hashes[r][n]) BY <1>1 DEF Skip, IAccounted
<1>4. PICK s \in Runs : pc[s] = "completed" /\ n \in Sources(job[s]) /\ hashes[s][n] = hashes[r][n]
  BY <1>1, <1>2, <1>3 DEF Accounted, Vouched
<1>5. job[s] = job[r] BY <1>1, <1>4 DEF Calm, TypeOK
<1>6. /\ hashes[r][n] \in Nat /\ outputs[job[r]][n] \in Nat
      /\ hashes[r][n] <= outputs[job[r]][n]
  BY <1>4, <1>5 DEF IForward
<1>7. outputs[job[r]][n] # Unknown /\ Current(r, n) # Gone
  BY <1>2, <1>6, IncrementalAssumption
<1>8. outputs[job[r]][n] <= hashes[r][n] BY <1>1, <1>2, <1>7 DEF IForward
<1> QED BY <1>6, <1>8

(***************************************************************************)
(* A run is skipped only when the outputs of its manifest were made from   *)
(* what its sources hold, with any number of runs at once, failures,       *)
(* crashes and lost or garbled state files, under the three conditions.    *)
(***************************************************************************)
THEOREM SkipsAreFresh ==
  ASSUME Calm
  PROVE  Spec => SkipIsFresh
<1>1. Init => CInv BY CalmInit
<1>2. CInv /\ [Next]_vars => CInv' BY CalmNext
<1>3. CInv /\ [Next]_vars =>
        [\A r \in Runs : pc[r] # "skipped" /\ pc'[r] = "skipped" =>
           \A n \in Sources(job[r]) : outputs[job[r]][n] = hashes[r][n]]_vars
  <2> SUFFICES ASSUME CInv, Next, NEW r \in Runs, pc[r] # "skipped", pc'[r] = "skipped",
                      NEW n \in Sources(job[r])
               PROVE  outputs[job[r]][n] = hashes[r][n]
    OBVIOUS
  <2>1. Skip(r)
    <3> USE DEF CInv, IInv
    <3>1. ASSUME NEW s \in Runs,
                 \/ Load(s) \/ Execute(s) \/ Succeed(s) \/ Fail(s)
                 \/ OpenState(s) \/ WriteState(s) \/ SaveFails(s) \/ Crash(s)
          PROVE  FALSE
      BY <3>1 DEF Load, Execute, Succeed, Fail, OpenState, WriteState, SaveFails, Crash, TypeOK
    <3>2. ASSUME NEW s \in Runs, NEW k \in Names,
                 CheckSource(s, k) \/ ReadSource(s, k) \/ HashSource(s, k)
          PROVE  FALSE
      BY <3>2 DEF CheckSource, ReadSource, HashSource
    <3>3. ASSUME NEW s \in Runs, Skip(s) PROVE s = r
      BY <3>3 DEF Skip, TypeOK
    <3>4. ASSUME NEW f \in Files, Edit(f) PROVE FALSE BY <3>4 DEF Edit, runVars
    <3> QED BY <3>1, <3>2, <3>3, <3>4 DEF Next
  <2> QED BY <2>1, SkipIsRight
<1> QED BY <1>1, <1>2, <1>3, PTL DEF Spec, SkipIsFresh
=============================================================================
