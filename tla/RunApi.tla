------------------------------- MODULE RunApi -------------------------------
(***************************************************************************)
(* The run endpoints and the run history: trigger_run, list_runs and       *)
(* get_run over RunStore, in several server processes.                     *)
(*                                                                         *)
(* A database is a sqlite file, which processes may share, or the memory   *)
(* of one process.  A process has one connection behind a mutex.  Sqlite   *)
(* gives a transaction that writes the one write lock of its database,     *)
(* lets other connections read what was committed, and drops what was not  *)
(* when the process dies.  A record carries the request in place of the    *)
(* manifest and its steps.  The clock moves when it is read.               *)
(***************************************************************************)
EXTENDS Access, Naturals, Sequences

CONSTANTS
  Processes,
  Databases,
  DbOf,         \* process -> its database
  Files,        \* the databases that are files
  Requests,     \* the requests to run a manifest
  ServerOf,     \* request -> the process it is sent to
  Callers,
  CallerOf,     \* request -> its caller
  Ids,          \* the ids readers ask for
  MaxCrashes,   \* bound on the crashes of a process
  NoRequest,
  NoRecord      \* the text '' in place of a record

ASSUME RunApiAssumption ==
  /\ Files \subseteq Databases
  /\ DbOf \in [Processes -> Databases]
  /\ \A p, q \in Processes : p # q /\ DbOf[p] = DbOf[q] => DbOf[p] \in Files
  /\ ServerOf \in [Requests -> Processes]
  /\ CallerOf \in [Requests -> Callers]
  /\ \A c \in Callers : c.role \in Roles
  /\ Ids \subseteq Nat
  /\ MaxCrashes \in Nat
  /\ GateOn \in BOOLEAN
  /\ NoRequest \notin Requests

VARIABLES
  pc,        \* request -> where its handler is
  thread,    \* request -> what its run on the blocking thread has come to
  record,    \* request -> the record built for it
  mutex,     \* process -> the request that holds its connection
  writer,    \* database -> the request whose transaction holds its write lock
  table,     \* database -> the committed rows, by id
  clock,
  crashes,   \* process -> how often it died
  shown      \* database -> reader -> the records last read there, by id

storeVars == <<mutex, writer, table>>
vars == <<pc, thread, record, storeVars, clock, crashes, shown>>

Ended == {"denied", "rejected", "answered", "unrecorded", "gone", "broken", "lost"}
Statuses == {"completed", "failed"}
Db(r) == DbOf[ServerOf[r]]

Subjects == {Subject(c) : c \in Callers}
Records ==
  [id : Nat, run : Requests, status : Statuses, sub : Subjects, finished : Nat]
Rows == [sub : Subjects, record : Records]

ASSUME NoRecordAssumption == NoRecord \notin Records

TypeOK ==
  /\ pc \in [Requests -> {"idle", "waiting", "locked", "inserted", "filled"} \cup Ended]
  /\ thread \in [Requests -> Statuses \cup {"none", "running", "panicked", "killed"}]
  /\ record \in [Requests -> Records \cup {NoRecord}]
  /\ mutex \in [Processes -> Requests \cup {NoRequest}]
  /\ writer \in [Databases -> Requests \cup {NoRequest}]
  /\ table \in [Databases -> Seq(Rows)]
  /\ clock \in Nat
  /\ crashes \in [Processes -> 0..MaxCrashes]
  /\ shown = [d \in Databases |-> [c \in Callers |-> shown[d][c]]]
  /\ \A p \in Processes : mutex[p] # NoRequest =>
       ServerOf[mutex[p]] = p /\ pc[mutex[p]] \in {"locked", "inserted", "filled"}
  /\ \A d \in Databases : writer[d] # NoRequest =>
       Db(writer[d]) = d /\ pc[writer[d]] \in {"inserted", "filled"}

Init ==
  /\ pc = [r \in Requests |-> "idle"]
  /\ thread = [r \in Requests |-> "none"]
  /\ record = [r \in Requests |-> NoRecord]
  /\ mutex = [p \in Processes |-> NoRequest]
  /\ writer = [d \in Databases |-> NoRequest]
  /\ table = [d \in Databases |-> <<>>]
  /\ clock = 0
  /\ crashes = [p \in Processes |-> 0]
  /\ shown = [d \in Databases |-> [c \in Callers |-> <<>>]]

Goto(r, to) == pc' = [pc EXCEPT ![r] = to]

-----------------------------------------------------------------------------
(* A request to run a manifest                                             *)

Deny(r) ==
  /\ pc[r] = "idle"
  /\ ~CanRun(CallerOf[r])
  /\ Goto(r, "denied")
  /\ UNCHANGED <<thread, record, storeVars, clock, crashes, shown>>

(***************************************************************************)
(* Not a manifest, a path outside the caller's directory, not a graph, or  *)
(* a parameter missing.                                                    *)
(***************************************************************************)
Reject(r) ==
  /\ pc[r] = "idle"
  /\ CanRun(CallerOf[r])
  /\ Goto(r, "rejected")
  /\ UNCHANGED <<thread, record, storeVars, clock, crashes, shown>>

Start(r) ==
  /\ pc[r] = "idle"
  /\ CanRun(CallerOf[r])
  /\ Goto(r, "waiting")
  /\ thread' = [thread EXCEPT ![r] = "running"]
  /\ UNCHANGED <<record, storeVars, clock, crashes, shown>>

EndRun(r) ==
  /\ thread[r] = "running"
  /\ \E outcome \in Statuses \cup {"panicked"} :
       thread' = [thread EXCEPT ![r] = outcome]
  /\ UNCHANGED <<pc, record, storeVars, clock, crashes, shown>>

(***************************************************************************)
(* The client closes the connection.  The handler is dropped where it      *)
(* waits; the run it started goes on.                                      *)
(***************************************************************************)
Disconnect(r) ==
  /\ pc[r] = "waiting"
  /\ Goto(r, "gone")
  /\ UNCHANGED <<thread, record, storeVars, clock, crashes, shown>>

(***************************************************************************)
(* The handler panics with the run.                                        *)
(***************************************************************************)
Panic(r) ==
  /\ pc[r] = "waiting"
  /\ thread[r] = "panicked"
  /\ Goto(r, "broken")
  /\ UNCHANGED <<thread, record, storeVars, clock, crashes, shown>>

-----------------------------------------------------------------------------
(* RunStore::record                                                        *)

Lock(r) ==
  /\ pc[r] = "waiting"
  /\ thread[r] \in Statuses
  /\ mutex[ServerOf[r]] = NoRequest
  /\ mutex' = [mutex EXCEPT ![ServerOf[r]] = r]
  /\ Goto(r, "locked")
  /\ UNCHANGED <<thread, record, writer, table, clock, crashes, shown>>

(***************************************************************************)
(* Mutant: the rows are counted, and inserted without waiting for others.  *)
(***************************************************************************)
Insert_Unlocked(r) ==
  /\ pc[r] = "locked"
  /\ writer' = [writer EXCEPT ![Db(r)] = r]
  /\ Goto(r, "inserted")
  /\ UNCHANGED <<thread, record, mutex, table, clock, crashes, shown>>

(***************************************************************************)
(* The first statement of the transaction takes the write lock.            *)
(***************************************************************************)
Insert(r) ==
  /\ pc[r] = "locked"
  /\ writer[Db(r)] = NoRequest
  /\ writer' = [writer EXCEPT ![Db(r)] = r]
  /\ Goto(r, "inserted")
  /\ UNCHANGED <<thread, record, mutex, table, clock, crashes, shown>>

FillIn(r) ==
  /\ pc[r] = "inserted"
  /\ record' = [record EXCEPT
                  ![r] = [id |-> Len(table[Db(r)]) + 1, run |-> r,
                          status |-> thread[r], sub |-> Subject(CallerOf[r]),
                          finished |-> clock]]
  /\ clock' = clock + 1
  /\ Goto(r, "filled")
  /\ UNCHANGED <<thread, storeVars, crashes, shown>>

Row(r) == [sub |-> Subject(CallerOf[r]), record |-> record[r]]

Commit(r) ==
  /\ pc[r] = "filled"
  /\ table' = [table EXCEPT ![Db(r)] = Append(@, Row(r))]
  /\ writer' = [writer EXCEPT ![Db(r)] = NoRequest]
  /\ mutex' = [mutex EXCEPT ![ServerOf[r]] = NoRequest]
  /\ Goto(r, "answered")
  /\ UNCHANGED <<thread, record, clock, crashes, shown>>

(***************************************************************************)
(* Mutant: the transaction is left open.                                   *)
(***************************************************************************)
StoreFails_KeepsTransaction(r) ==
  /\ pc[r] \in {"locked", "inserted", "filled"}
  /\ mutex' = [mutex EXCEPT ![ServerOf[r]] = NoRequest]
  /\ Goto(r, "unrecorded")
  /\ UNCHANGED <<thread, record, writer, table, clock, crashes, shown>>

(***************************************************************************)
(* Mutant: the connection is not given back.                               *)
(***************************************************************************)
StoreFails_KeepsConnection(r) ==
  /\ pc[r] \in {"locked", "inserted", "filled"}
  /\ writer' = [writer EXCEPT ![Db(r)] = IF @ = r THEN NoRequest ELSE @]
  /\ Goto(r, "unrecorded")
  /\ UNCHANGED <<thread, record, mutex, table, clock, crashes, shown>>

(***************************************************************************)
(* Mutant: the error is ignored and the record handed out.                 *)
(***************************************************************************)
StoreFails_Answers(r) ==
  /\ pc[r] \in {"locked", "inserted", "filled"}
  /\ writer' = [writer EXCEPT ![Db(r)] = IF @ = r THEN NoRequest ELSE @]
  /\ mutex' = [mutex EXCEPT ![ServerOf[r]] = NoRequest]
  /\ Goto(r, IF pc[r] = "filled" THEN "answered" ELSE "unrecorded")
  /\ UNCHANGED <<thread, record, table, clock, crashes, shown>>

(***************************************************************************)
(* A statement fails: the write lock was not free in time, or the disk is  *)
(* full.  The transaction rolls back.                                      *)
(***************************************************************************)
StoreFails(r) ==
  /\ pc[r] \in {"locked", "inserted", "filled"}
  /\ writer' = [writer EXCEPT ![Db(r)] = IF @ = r THEN NoRequest ELSE @]
  /\ mutex' = [mutex EXCEPT ![ServerOf[r]] = NoRequest]
  /\ Goto(r, "unrecorded")
  /\ UNCHANGED <<thread, record, table, clock, crashes, shown>>

-----------------------------------------------------------------------------
(* Reading the history                                                     *)

(***************************************************************************)
(* What a connection reads: the committed rows, and its own row before it  *)
(* commits.                                                                *)
(***************************************************************************)
View(p) ==
  LET r == writer[DbOf[p]]
  IN IF r # NoRequest /\ ServerOf[r] = p
     THEN Append(table[DbOf[p]], Row(r))
     ELSE table[DbOf[p]]

(***************************************************************************)
(* The records of the rows the caller may see.                             *)
(***************************************************************************)
Visible(c, rows) ==
  [i \in {i \in DOMAIN rows : MaySee(c, rows[i].sub)} |-> rows[i].record]

(***************************************************************************)
(* Mutant: the connection is read without its mutex.                       *)
(***************************************************************************)
List_Unlocked(c, p) ==
  /\ CanReadHistory(c)
  /\ shown' = [shown EXCEPT ![DbOf[p]][c] = Visible(c, View(p))]
  /\ UNCHANGED <<pc, thread, record, storeVars, clock, crashes>>

List(c, p) ==
  /\ CanReadHistory(c)
  /\ mutex[p] = NoRequest
  /\ shown' = [shown EXCEPT ![DbOf[p]][c] = Visible(c, View(p))]
  /\ UNCHANGED <<pc, thread, record, storeVars, clock, crashes>>

Get(c, p, i) ==
  /\ CanReadHistory(c)
  /\ mutex[p] = NoRequest
  /\ LET seen == Visible(c, View(p))
     IN shown' = [shown EXCEPT ![DbOf[p]][c] = [j \in DOMAIN seen \cap {i} |-> seen[j]]]
  /\ UNCHANGED <<pc, thread, record, storeVars, clock, crashes>>

-----------------------------------------------------------------------------

(***************************************************************************)
(* A process dies with its handlers, its runs and its transaction, and is  *)
(* started again.                                                          *)
(***************************************************************************)
Crash(p) ==
  /\ crashes[p] < MaxCrashes
  /\ crashes' = [crashes EXCEPT ![p] = @ + 1]
  /\ LET Mine(r) == r # NoRequest /\ ServerOf[r] = p
     IN /\ pc' = [r \in Requests |->
                    IF Mine(r) /\ pc[r] \notin {"idle"} \cup Ended THEN "lost" ELSE pc[r]]
        /\ thread' = [r \in Requests |->
                    IF Mine(r) /\ thread[r] = "running" THEN "killed" ELSE thread[r]]
        /\ writer' = [d \in Databases |-> IF Mine(writer[d]) THEN NoRequest ELSE writer[d]]
  /\ mutex' = [mutex EXCEPT ![p] = NoRequest]
  /\ table' = [table EXCEPT ![DbOf[p]] = IF DbOf[p] \in Files THEN @ ELSE <<>>]
  /\ UNCHANGED <<record, clock, shown>>

(***************************************************************************)
(* What the thread of a handler does by itself.                            *)
(***************************************************************************)
Handle(r) == Panic(r) \/ Lock(r) \/ Insert(r) \/ FillIn(r) \/ Commit(r) \/ StoreFails(r)

Next ==
  \/ \E r \in Requests :
       Deny(r) \/ Reject(r) \/ Start(r) \/ EndRun(r) \/ Disconnect(r) \/ Handle(r)
  \/ \E c \in Callers, p \in Processes : List(c, p) \/ \E i \in Ids : Get(c, p, i)
  \/ \E p \in Processes : Crash(p)

Spec == Init /\ [][Next]_vars

(***************************************************************************)
(* A run returns, and a handler that can go on does.                       *)
(***************************************************************************)
FairSpec == Spec /\ \A r \in Requests : WF_vars(EndRun(r)) /\ WF_vars(Handle(r))

-----------------------------------------------------------------------------
(* Properties                                                              *)

(***************************************************************************)
(* A server that crashes keeps the history only if it is in a file.        *)
(***************************************************************************)
Kept(d) == d \in Files \/ \A p \in Processes : DbOf[p] = d => crashes[p] = 0

(***************************************************************************)
(* The record a run was answered with is in the history under its id,      *)
(* whatever other processes, failures and crashes did since.               *)
(***************************************************************************)
AnswerIsRecorded ==
  \A r \in Requests : pc[r] = "answered" /\ Kept(Db(r)) =>
    /\ record[r].id \in DOMAIN table[Db(r)]
    /\ table[Db(r)][record[r].id].record = record[r]

(***************************************************************************)
(* What a reader was ever shown stays in the history: no row is read       *)
(* before it is filled in and committed, and none changes after.           *)
(***************************************************************************)
ShownStays ==
  \A d \in Databases, c \in Callers : Kept(d) =>
    \A i \in DOMAIN shown[d][c] :
      /\ shown[d][c][i] # NoRecord
      /\ i \in DOMAIN table[d]
      /\ table[d][i].record = shown[d][c][i]

(***************************************************************************)
(* A reader is shown runs of the reader's own, unless an admin.            *)
(***************************************************************************)
ShownAreOwn ==
  \A d \in Databases, c \in Callers : \A i \in DOMAIN shown[d][c] :
    GateOn /\ c.role # "admin" => CallerOf[shown[d][c][i].run].sub = c.sub

(***************************************************************************)
(* The history holds attempts that ran, each once, with their outcome,     *)
(* under consecutive ids that follow the time they finished at.            *)
(***************************************************************************)
HistoryIsTrue ==
  \A d \in Databases : \A i \in DOMAIN table[d] :
    LET rec == table[d][i].record
    IN /\ rec.id = i
       /\ Db(rec.run) = d
       /\ rec.status = thread[rec.run]
       /\ rec.sub = table[d][i].sub
       /\ \A j \in 1..(i - 1) :
            /\ table[d][j].record.finished < rec.finished
            /\ table[d][j].record.run # rec.run

(***************************************************************************)
(* README: /run records the attempt, whether it succeeds or fails.  A run  *)
(* that ended is recorded once its handler is through, unless the answer   *)
(* said that it is not.                                                    *)
(***************************************************************************)
RunIsRecorded ==
  \A r \in Requests :
    thread[r] \in Statuses /\ pc[r] \in Ended \ {"unrecorded"} =>
      \E i \in DOMAIN table[Db(r)] : table[Db(r)][i].record.run = r

(***************************************************************************)
(* A request that started a run is done with in the end: nobody waits for  *)
(* the connection or the write lock for ever.                              *)
(***************************************************************************)
Answered == \A r \in Requests : pc[r] = "waiting" ~> pc[r] \in Ended

(***************************************************************************)
(* On a file, the servers together are one history.                        *)
(***************************************************************************)
Promise ==
  INSTANCE History WITH
    history <- [d \in Files |-> [i \in DOMAIN table[d] |-> table[d][i].record]],
    answers <- [r \in Requests |->
                  IF pc[r] = "answered" /\ Db(r) \in Files THEN record[r] ELSE NoRecord],
    shown <- [d \in Files |-> shown[d]],
    FileOf <- [r \in Requests |-> Db(r)]

ImplementsHistory == Promise!Spec

-----------------------------------------------------------------------------
(* Why it works: the inductive invariant                                   *)

(***************************************************************************)
(* A handler inside RunStore::record holds the locks, with a run that was  *)
(* allowed and has ended.                                                  *)
(***************************************************************************)
ILocks ==
  \A r \in Requests :
    /\ pc[r] = "idle" => thread[r] = "none"
    /\ pc[r] \in {"locked", "inserted", "filled"} =>
         mutex[ServerOf[r]] = r /\ thread[r] \in Statuses
    /\ pc[r] \in {"inserted", "filled"} => writer[Db(r)] = r
    /\ pc[r] \in {"waiting", "locked", "inserted", "filled"} => CanRun(CallerOf[r])

(***************************************************************************)
(* A record that is filled in is the next one of its database.             *)
(***************************************************************************)
IFilled ==
  \A r \in Requests : pc[r] = "filled" =>
    /\ record[r] \in Records
    /\ record[r].id = Len(table[Db(r)]) + 1
    /\ record[r].run = r
    /\ record[r].status = thread[r]
    /\ record[r].sub = Subject(CallerOf[r])
    /\ record[r].finished < clock
    /\ \A i \in DOMAIN table[Db(r)] :
         table[Db(r)][i].record.finished < record[r].finished

(***************************************************************************)
(* A row is the record of a run that was answered.                         *)
(***************************************************************************)
Stands(row, r) ==
  /\ pc[r] = "answered"
  /\ thread[r] \in Statuses
  /\ row.record = record[r]
  /\ row.sub = Subject(CallerOf[r])
  /\ record[r] \in Records
  /\ record[r].run = r
  /\ record[r].status = thread[r]
  /\ record[r].sub = row.sub
  /\ record[r].finished < clock

ITable ==
  \A d \in Databases : \A i \in DOMAIN table[d] :
    \E r \in Requests : Db(r) = d /\ Stands(table[d][i], r)

IShown ==
  \A d \in Databases, c \in Callers : \A i \in DOMAIN shown[d][c] :
    LET rec == shown[d][c][i]
    IN /\ rec \in Records
       /\ rec.sub = Subject(CallerOf[rec.run])
       /\ MaySee(c, rec.sub)

IInv ==
  /\ TypeOK
  /\ ILocks
  /\ IFilled
  /\ ITable
  /\ IShown
  /\ HistoryIsTrue
  /\ AnswerIsRecorded
  /\ ShownStays
=============================================================================
