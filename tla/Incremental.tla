---------------------------- MODULE Incremental ----------------------------
(***************************************************************************)
(* Skipping unchanged runs: Pipeline::execute around the scheduler for     *)
(* manifests with incremental = true, and the IncrementalState it loads    *)
(* and saves.                                                              *)
(*                                                                         *)
(* All runs of a working directory, in one server or several processes,    *)
(* share one state file and no lock.  Source files change under them.      *)
(* What the scheduler does with the sources is abstracted to: it reads     *)
(* each of them once, writes the outputs, and may fail before or after.    *)
(* A content stands for its hash.                                          *)
(***************************************************************************)
EXTENDS Naturals

CONSTANTS
  Runs,          \* the runs there may be
  Jobs,          \* the manifests
  Names,         \* the source names, in manifest order
  FileOf,        \* job -> its source names -> the file each is read from
  Files,
  MaxEdits,      \* bound on the changes to files
  EditsInRuns,   \* may a file change while a run is under way?
  Reverts,       \* may a file get a content it had before?
  Gone,          \* the content of a file that cannot be read
  Unknown        \* stands for the hash of a source that has none

Sources(j) == DOMAIN FileOf[j]

ASSUME IncrementalAssumption ==
  /\ Names \subseteq Nat
  /\ MaxEdits \in Nat
  /\ Gone \notin Nat
  /\ Unknown \notin Nat \cup {Gone}
  /\ EditsInRuns \in BOOLEAN
  /\ Reverts \in BOOLEAN
  /\ \A j \in Jobs : Sources(j) \subseteq Names /\ FileOf[j] \in [Sources(j) -> Files]

VARIABLES
  content,    \* file -> what is in it
  edits,      \* how often files changed
  disk,       \* what incremental.json parses to
  pc,         \* run -> where it is
  job,        \* run -> its manifest
  todo,       \* run -> the sources its current loop has still to visit
  changed,    \* run -> has it seen a changed source?
  hashes,     \* run -> its IncrementalState::hashes
  got,        \* run -> the contents its sources were read with
  outputs     \* job -> the contents its outputs were made from

runVars == <<pc, job, todo, changed, hashes, got>>
vars == <<content, edits, disk, runVars, outputs>>

Contents == 0..MaxEdits \cup {Gone}

(***************************************************************************)
(* Hashes by source name.  A file that is absent, empty or not JSON loads  *)
(* as NoHashes.                                                            *)
(***************************************************************************)
Hashes == [Names -> Contents \cup {Unknown}]
NoHashes == [n \in Names |-> Unknown]

Steps == {"idle", "checking", "executing", "hashing", "saving"}
Ends == {"skipped", "completed", "failed", "crashed"}

TypeOK ==
  /\ content \in [Files -> Contents]
  /\ edits \in 0..MaxEdits
  /\ disk \in Hashes
  /\ pc \in [Runs -> Steps \cup Ends]
  /\ job \in [Runs -> Jobs]
  /\ todo \in [Runs -> SUBSET Names]
  /\ \A r \in Runs : todo[r] \subseteq Sources(job[r])
  /\ changed \in [Runs -> BOOLEAN]
  /\ hashes \in [Runs -> Hashes]
  /\ got \in [Runs -> Hashes]
  /\ outputs \in [Jobs -> Hashes]

Init ==
  /\ content = [f \in Files |-> 0]
  /\ edits = 0
  /\ disk = NoHashes
  /\ pc = [r \in Runs |-> "idle"]
  /\ job \in [Runs -> Jobs]
  /\ todo = [r \in Runs |-> {}]
  /\ changed = [r \in Runs |-> FALSE]
  /\ hashes = [r \in Runs |-> NoHashes]
  /\ got = [r \in Runs |-> NoHashes]
  /\ outputs = [j \in Jobs |-> NoHashes]

Current(r, n) == content[FileOf[job[r]][n]]

(***************************************************************************)
(* The source a loop over the manifest's sources visits next.              *)
(***************************************************************************)
IsNext(r, n) == n \in todo[r] /\ \A k \in todo[r] : n <= k

Goto(r, step) == pc' = [pc EXCEPT ![r] = step]

-----------------------------------------------------------------------------
(* Before the run: is there anything to do?                                *)

(***************************************************************************)
(* Mutant: only the hashes of the manifest's own sources are kept.         *)
(***************************************************************************)
Load_OwnOnly(r) ==
  /\ pc[r] = "idle"
  /\ Goto(r, "checking")
  /\ hashes' = [hashes EXCEPT ![r] = [n \in Sources(job[r]) |-> disk[n]]]
  /\ todo' = [todo EXCEPT ![r] = Sources(job[r])]
  /\ UNCHANGED <<content, edits, disk, job, changed, got, outputs>>

Load(r) ==
  /\ pc[r] = "idle"
  /\ Goto(r, "checking")
  /\ hashes' = [hashes EXCEPT ![r] = disk]
  /\ todo' = [todo EXCEPT ![r] = Sources(job[r])]
  /\ UNCHANGED <<content, edits, disk, job, changed, got, outputs>>

(***************************************************************************)
(* Mutant: a source without a hash counts as unchanged.                    *)
(***************************************************************************)
CheckSource_TrustsUnknown(r, n) ==
  /\ pc[r] = "checking"
  /\ IsNext(r, n)
  /\ changed' = [changed EXCEPT
                   ![r] = @ \/ hashes[r][n] \notin {Unknown, Current(r, n)}]
  /\ todo' = [todo EXCEPT ![r] = @ \ {n}]
  /\ UNCHANGED <<content, edits, disk, pc, job, hashes, got, outputs>>

CheckSource(r, n) ==
  /\ pc[r] = "checking"
  /\ IsNext(r, n)
  /\ changed' = [changed EXCEPT ![r] = @ \/ hashes[r][n] # Current(r, n)]
  /\ todo' = [todo EXCEPT ![r] = @ \ {n}]
  /\ UNCHANGED <<content, edits, disk, pc, job, hashes, got, outputs>>

Skip(r) ==
  /\ pc[r] = "checking"
  /\ todo[r] = {}
  /\ Sources(job[r]) # {}
  /\ ~changed[r]
  /\ Goto(r, "skipped")
  /\ UNCHANGED <<content, edits, disk, job, todo, changed, hashes, got, outputs>>

Execute(r) ==
  /\ pc[r] = "checking"
  /\ todo[r] = {}
  /\ Sources(job[r]) = {} \/ changed[r]
  /\ Goto(r, "executing")
  /\ todo' = [todo EXCEPT ![r] = Sources(job[r])]
  /\ UNCHANGED <<content, edits, disk, job, changed, hashes, got, outputs>>

-----------------------------------------------------------------------------
(* The run                                                                 *)

(***************************************************************************)
(* The scheduler reads its sources in parallel, in any order.              *)
(***************************************************************************)
ReadSource(r, n) ==
  /\ pc[r] = "executing"
  /\ n \in todo[r]
  /\ Current(r, n) # Gone
  /\ got' = [got EXCEPT ![r][n] = Current(r, n)]
  /\ todo' = [todo EXCEPT ![r] = @ \ {n}]
  /\ UNCHANGED <<content, edits, disk, pc, job, changed, hashes, outputs>>

(***************************************************************************)
(* The outputs are written, and the state is loaded once more.             *)
(***************************************************************************)
Succeed(r) ==
  /\ pc[r] = "executing"
  /\ todo[r] = {}
  /\ outputs' = [outputs EXCEPT ![job[r]] = got[r]]
  /\ Goto(r, "hashing")
  /\ hashes' = [hashes EXCEPT ![r] = disk]
  /\ todo' = [todo EXCEPT ![r] = Sources(job[r])]
  /\ UNCHANGED <<content, edits, disk, job, changed, got>>

(***************************************************************************)
(* Mutant: the sources are remembered after a failure, too.                *)
(***************************************************************************)
Fail_Remembers(r) ==
  /\ pc[r] = "executing"
  /\ \/ UNCHANGED outputs
     \/ todo[r] = {} /\ outputs' = [outputs EXCEPT ![job[r]] = got[r]]
  /\ Goto(r, "hashing")
  /\ hashes' = [hashes EXCEPT ![r] = disk]
  /\ todo' = [todo EXCEPT ![r] = Sources(job[r])]
  /\ UNCHANGED <<content, edits, disk, job, changed, got>>

(***************************************************************************)
(* A step fails: a source cannot be read, or something later, when outputs *)
(* may be written already.                                                 *)
(***************************************************************************)
Fail(r) ==
  /\ pc[r] = "executing"
  /\ \/ UNCHANGED outputs
     \/ todo[r] = {} /\ outputs' = [outputs EXCEPT ![job[r]] = got[r]]
  /\ Goto(r, "failed")
  /\ UNCHANGED <<content, edits, disk, job, todo, changed, hashes, got>>

-----------------------------------------------------------------------------
(* After the run: remember the sources                                     *)

HashSource(r, n) ==
  /\ pc[r] = "hashing"
  /\ IsNext(r, n)
  /\ hashes' = [hashes EXCEPT ![r][n] = Current(r, n)]
  /\ todo' = [todo EXCEPT ![r] = @ \ {n}]
  /\ UNCHANGED <<content, edits, disk, pc, job, changed, got, outputs>>

(***************************************************************************)
(* fs::write opens the file, which empties it, and then writes.            *)
(***************************************************************************)
OpenState(r) ==
  /\ pc[r] = "hashing"
  /\ todo[r] = {}
  /\ disk' = NoHashes
  /\ Goto(r, "saving")
  /\ UNCHANGED <<content, edits, job, todo, changed, hashes, got, outputs>>

(***************************************************************************)
(* When another run wrote since the file was emptied and its text is       *)
(* longer, the end of it stays behind and the file is not JSON.            *)
(***************************************************************************)
WriteState(r) ==
  /\ pc[r] = "saving"
  /\ \/ disk' = hashes[r]
     \/ disk \notin {NoHashes, hashes[r]} /\ disk' = NoHashes
  /\ Goto(r, "completed")
  /\ UNCHANGED <<content, edits, job, todo, changed, hashes, got, outputs>>

(***************************************************************************)
(* The file cannot be opened, or not be written.  The error is dropped.    *)
(***************************************************************************)
SaveFails(r) ==
  /\ pc[r] = "saving" \/ (pc[r] = "hashing" /\ todo[r] = {})
  /\ Goto(r, "completed")
  /\ UNCHANGED <<content, edits, disk, job, todo, changed, hashes, got, outputs>>

-----------------------------------------------------------------------------
(* The environment                                                         *)

Active(r) == pc[r] \in Steps \ {"idle"}

Crash(r) ==
  /\ Active(r)
  /\ Goto(r, "crashed")
  /\ UNCHANGED <<content, edits, disk, job, todo, changed, hashes, got, outputs>>

Edit(f) ==
  /\ edits < MaxEdits
  /\ EditsInRuns \/ \A r \in Runs : ~Active(r)
  /\ edits' = edits + 1
  /\ \E c \in {edits', Gone} \cup (IF Reverts THEN 0..edits ELSE {}) :
       content' = [content EXCEPT ![f] = c]
  /\ UNCHANGED <<disk, runVars, outputs>>

Next ==
  \/ \E r \in Runs :
       \/ Load(r) \/ Skip(r) \/ Execute(r)
       \/ Succeed(r) \/ Fail(r)
       \/ OpenState(r) \/ WriteState(r) \/ SaveFails(r)
       \/ Crash(r)
       \/ \E n \in Names : CheckSource(r, n) \/ ReadSource(r, n) \/ HashSource(r, n)
  \/ \E f \in Files : Edit(f)

Spec == Init /\ [][Next]_vars

-----------------------------------------------------------------------------
(* Properties                                                              *)

(***************************************************************************)
(* A completed run hashed its source n to h.                               *)
(***************************************************************************)
Vouched(n, h) ==
  \E r \in Runs :
    pc[r] = "completed" /\ n \in Sources(job[r]) /\ hashes[r][n] = h

(***************************************************************************)
(* A run is skipped only on the word of runs that completed: whatever is   *)
(* lost, garbled or cut short between the runs that share the state file,  *)
(* no hash in it is one that no completed run took.                        *)
(***************************************************************************)
SkipWasEarned ==
  \A r \in Runs : pc[r] = "skipped" =>
    /\ Sources(job[r]) # {}
    /\ \A n \in Sources(job[r]) : Vouched(n, hashes[r][n])

(***************************************************************************)
(* A run is skipped only when the outputs of its manifest were made from   *)
(* what its sources hold.  README: a run is skipped when no source changed. *)
(***************************************************************************)
SkipIsFresh ==
  [][\A r \in Runs : pc[r] # "skipped" /\ pc'[r] = "skipped" =>
       \A n \in Sources(job[r]) : outputs[job[r]][n] = hashes[r][n]]_vars

-----------------------------------------------------------------------------
(* Why it works: the inductive invariant                                   *)

Accounted(n, h) == h = Unknown \/ Vouched(n, h)

(***************************************************************************)
(* What is on disk, and what a run has loaded and not replaced since, is   *)
(* accounted for.                                                          *)
(***************************************************************************)
IAccounted ==
  /\ \A n \in Names : Accounted(n, disk[n])
  /\ \A r \in Runs : \A n \in Names :
       \/ pc[r] \in {"hashing", "saving"} /\ n \in Sources(job[r]) \ todo[r]
       \/ pc[r] \in {"failed", "crashed"}
       \/ Accounted(n, hashes[r][n])

(***************************************************************************)
(* A source that was checked and not found changed has a hash.             *)
(***************************************************************************)
IChecked ==
  \A r \in Runs : pc[r] \in {"checking", "skipped"} /\ ~changed[r] =>
    \A n \in Sources(job[r]) \ todo[r] : hashes[r][n] # Unknown

ISkipped ==
  \A r \in Runs : pc[r] = "skipped" =>
    ~changed[r] /\ todo[r] = {} /\ Sources(job[r]) # {}

IInv == TypeOK /\ IAccounted /\ IChecked /\ ISkipped
=============================================================================
