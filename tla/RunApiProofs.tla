---------------------------- MODULE RunApiProofs ----------------------------
(***************************************************************************)
(* The run history is true, an answer is in it and what readers are shown  *)
(* stays, for any number of servers, requests and crashes.                 *)
(***************************************************************************)
EXTENDS RunApi, TLAPS

USE DEF Ended, Statuses, Goto, Db

LEMMA TypeInit ==
  ASSUME Init
  PROVE  TypeOK
BY RunApiAssumption DEF Init, TypeOK

LEMMA RecordType ==
  ASSUME NEW i \in Nat, NEW r \in Requests, NEW status \in Statuses,
         NEW sub \in Subjects, NEW time \in Nat
  PROVE  [id |-> i, run |-> r, status |-> status, sub |-> sub, finished |-> time] \in Records
BY DEF Records

LEMMA SubjectType ==
  ASSUME NEW r \in Requests
  PROVE  Subject(CallerOf[r]) \in Subjects
BY RunApiAssumption DEF Subjects

LEMMA TypeNext ==
  ASSUME TypeOK, ILocks, IFilled, [Next]_vars
  PROVE  TypeOK'
<1> USE RunApiAssumption DEF storeVars
<1>1. ASSUME NEW r \in Requests, Deny(r) PROVE TypeOK'
  BY <1>1 DEF Deny, TypeOK
<1>2. ASSUME NEW r \in Requests, Reject(r) PROVE TypeOK'
  BY <1>2 DEF Reject, TypeOK
<1>3. ASSUME NEW r \in Requests, Start(r) PROVE TypeOK'
  BY <1>3 DEF Start, TypeOK
<1>4. ASSUME NEW r \in Requests, EndRun(r) PROVE TypeOK'
  BY <1>4 DEF EndRun, TypeOK
<1>5. ASSUME NEW r \in Requests, Disconnect(r) PROVE TypeOK'
  BY <1>5 DEF Disconnect, TypeOK
<1>6. ASSUME NEW r \in Requests, Panic(r) PROVE TypeOK'
  BY <1>6 DEF Panic, TypeOK
<1>7. ASSUME NEW r \in Requests, Lock(r) PROVE TypeOK'
  BY <1>7 DEF Lock, TypeOK
<1>8. ASSUME NEW r \in Requests, Insert(r) PROVE TypeOK'
  BY <1>8 DEF Insert, TypeOK
<1>9. ASSUME NEW r \in Requests, StoreFails(r) PROVE TypeOK'
  BY <1>9 DEF StoreFails, TypeOK
<1>10. ASSUME NEW r \in Requests, FillIn(r) PROVE TypeOK'
  <2>1. thread[r] \in Statuses /\ Len(table[Db(r)]) + 1 \in Nat
    BY <1>10 DEF FillIn, ILocks, TypeOK
  <2>2. Subject(CallerOf[r]) \in Subjects
    BY SubjectType
  <2>3. record'[r] = [id |-> Len(table[Db(r)]) + 1, run |-> r, status |-> thread[r],
                      sub |-> Subject(CallerOf[r]), finished |-> clock]
    BY <1>10 DEF FillIn, TypeOK
  <2>4. record'[r] \in Records
    <3>1. PICK i \in Nat : i = Len(table[Db(r)]) + 1
      BY <2>1
    <3>2. clock \in Nat
      BY DEF TypeOK
    <3>3. [id |-> i, run |-> r, status |-> thread[r], sub |-> Subject(CallerOf[r]),
           finished |-> clock] \in Records
      BY <2>1, <2>2, <3>2, RecordType
    <3> QED
      BY <2>3, <3>1, <3>3
  <2> QED
    BY <1>10, <2>4 DEF FillIn, TypeOK
<1>11. ASSUME NEW r \in Requests, Commit(r) PROVE TypeOK'
  <2>1. Row(r) \in Rows
    BY <1>11, SubjectType DEF Commit, Row, Rows, IFilled
  <2>2. table' \in [Databases -> Seq(Rows)]
    BY <1>11, <2>1 DEF Commit, TypeOK
  <2> QED
    BY <1>11, <2>2 DEF Commit, TypeOK
<1>12. ASSUME NEW c \in Callers, NEW p \in Processes,
              List(c, p) \/ \E i \in Ids : Get(c, p, i)
       PROVE  TypeOK'
  <2>1. PICK f : shown' = [shown EXCEPT ![DbOf[p]][c] = f]
    BY <1>12 DEF List, Get
  <2>2. shown' = [d \in Databases |-> [e \in Callers |-> shown'[d][e]]]
    <3>1. shown = [d \in Databases |-> [e \in Callers |-> shown[d][e]]]
      BY DEF TypeOK
    <3> QED
      BY <2>1, <3>1
  <2>3. UNCHANGED <<pc, thread, record, mutex, writer, table, clock, crashes>>
    BY <1>12 DEF List, Get
  <2> QED
    BY <2>2, <2>3 DEF TypeOK
<1>13. ASSUME NEW p \in Processes, Crash(p) PROVE TypeOK'
  <2>1. table' \in [Databases -> Seq(Rows)]
    BY <1>13 DEF Crash, TypeOK
  <2>2. /\ pc' \in [Requests -> {"idle", "waiting", "locked", "inserted", "filled"} \cup Ended]
        /\ thread' \in [Requests -> Statuses \cup {"none", "running", "panicked", "killed"}]
        /\ crashes' \in [Processes -> 0..MaxCrashes]
    BY <1>13 DEF Crash, TypeOK
  <2>3. /\ mutex' \in [Processes -> Requests \cup {NoRequest}]
        /\ writer' \in [Databases -> Requests \cup {NoRequest}]
    BY <1>13 DEF Crash, TypeOK
  <2>4. ASSUME NEW q \in Processes, mutex'[q] # NoRequest
        PROVE  ServerOf[mutex'[q]] = q /\ pc'[mutex'[q]] \in {"locked", "inserted", "filled"}
    BY <1>13, <2>4 DEF Crash, TypeOK
  <2>5. ASSUME NEW d \in Databases, writer'[d] # NoRequest
        PROVE  Db(writer'[d]) = d /\ pc'[writer'[d]] \in {"inserted", "filled"}
    BY <1>13, <2>5 DEF Crash, TypeOK
  <2> QED
    BY <1>13, <2>1, <2>2, <2>3, <2>4, <2>5 DEF Crash, TypeOK
<1>14. CASE UNCHANGED vars
  BY <1>14 DEF vars, TypeOK
<1> QED
  BY <1>1, <1>2, <1>3, <1>4, <1>5, <1>6, <1>7, <1>8, <1>9, <1>10, <1>11,
     <1>12, <1>13, <1>14 DEF Next, Handle

-----------------------------------------------------------------------------

LEMMA LocksNext ==
  ASSUME TypeOK, ILocks, [Next]_vars
  PROVE  ILocks'
<1> USE RunApiAssumption DEF storeVars, ILocks
<1>1. ASSUME NEW r \in Requests,
             Deny(r) \/ Reject(r) \/ Start(r) \/ EndRun(r) \/ Disconnect(r) \/ Panic(r)
      PROVE  ILocks'
  BY <1>1 DEF Deny, Reject, Start, EndRun, Disconnect, Panic, TypeOK
<1>2. ASSUME NEW r \in Requests, Lock(r) PROVE ILocks'
  BY <1>2 DEF Lock, TypeOK
<1>3. ASSUME NEW r \in Requests, Insert(r) PROVE ILocks'
  BY <1>3 DEF Insert, TypeOK
<1>4. ASSUME NEW r \in Requests, FillIn(r) PROVE ILocks'
  BY <1>4 DEF FillIn, TypeOK
<1>5. ASSUME NEW r \in Requests, Commit(r) PROVE ILocks'
  BY <1>5 DEF Commit, TypeOK
<1>6. ASSUME NEW r \in Requests, StoreFails(r) PROVE ILocks'
  BY <1>6 DEF StoreFails, TypeOK
<1>7. ASSUME NEW c \in Callers, NEW p \in Processes,
             List(c, p) \/ \E i \in Ids : Get(c, p, i)
      PROVE  ILocks'
  BY <1>7 DEF List, Get
<1>8. ASSUME NEW p \in Processes, Crash(p) PROVE ILocks'
  BY <1>8 DEF Crash, TypeOK
<1>9. CASE UNCHANGED vars
  BY <1>9 DEF vars
<1> QED
  BY <1>1, <1>2, <1>3, <1>4, <1>5, <1>6, <1>7, <1>8, <1>9 DEF Next, Handle

-----------------------------------------------------------------------------
(* The history                                                             *)

IHistory ==
  IFilled /\ ITable /\ IShown /\ HistoryIsTrue /\ AnswerIsRecorded /\ ShownStays

(***************************************************************************)
(* A step that stores nothing and shows nothing keeps all of it, if no     *)
(* request gets into or out of the state that counts.                      *)
(***************************************************************************)
LEMMA QuietStep ==
  ASSUME TypeOK, ILocks, IHistory,
         UNCHANGED <<record, table, clock, crashes, shown>>,
         \A r \in Requests :
           /\ pc'[r] = "filled" => pc[r] = "filled"
           /\ pc'[r] = "answered" <=> pc[r] = "answered"
           /\ thread[r] \in Statuses => thread'[r] = thread[r]
  PROVE  IHistory'
<1>1. IFilled'
  BY DEF IHistory, IFilled, ILocks
<1>2. ITable'
  BY DEF IHistory, ITable, Stands
<1>3. IShown'
  BY DEF IHistory, IShown
<1>4. HistoryIsTrue'
  BY DEF IHistory, HistoryIsTrue, ITable, Stands
<1>5. AnswerIsRecorded' /\ ShownStays'
  BY DEF IHistory, AnswerIsRecorded, ShownStays, Kept
<1> QED
  BY <1>1, <1>2, <1>3, <1>4, <1>5 DEF IHistory

LEMMA FillInStep ==
  ASSUME TypeOK, ILocks, IHistory, NEW r \in Requests, FillIn(r)
  PROVE  IHistory'
<1> USE RunApiAssumption
<1>1. /\ record'[r] = [id |-> Len(table[Db(r)]) + 1, run |-> r, status |-> thread[r],
                       sub |-> Subject(CallerOf[r]), finished |-> clock]
      /\ \A s \in Requests \ {r} : record'[s] = record[s] /\ pc'[s] = pc[s]
      /\ pc[r] = "inserted" /\ pc'[r] = "filled"
      /\ clock \in Nat /\ clock' = clock + 1
      /\ UNCHANGED <<thread, table, crashes, shown>>
  BY DEF FillIn, TypeOK, storeVars
<1>2. record'[r] \in Records
  <2>1. thread[r] \in Statuses /\ Len(table[Db(r)]) + 1 \in Nat
    BY <1>1 DEF ILocks, TypeOK
  <2>2. PICK i \in Nat : i = Len(table[Db(r)]) + 1
    BY <2>1
  <2>3. [id |-> i, run |-> r, status |-> thread[r], sub |-> Subject(CallerOf[r]),
         finished |-> clock] \in Records
    BY <1>1, <2>1, SubjectType, RecordType
  <2> QED
    BY <1>1, <2>2, <2>3
<1>3. ITable'
  <2> SUFFICES ASSUME NEW d \in Databases, NEW i \in DOMAIN table'[d]
               PROVE  \E s \in Requests : Db(s) = d /\ Stands(table[d][i], s)'
    BY <1>1 DEF ITable
  <2>1. PICK s \in Requests : Db(s) = d /\ Stands(table[d][i], s)
    BY <1>1 DEF IHistory, ITable
  <2>2. s # r /\ record[s].finished \in Nat
    BY <1>1, <2>1 DEF Stands, Records
  <2> QED
    BY <1>1, <2>1, <2>2 DEF Stands
<1>4. \A d \in Databases : \A i \in DOMAIN table[d] :
        table[d][i].record.finished < clock
  BY DEF IHistory, ITable, Stands
<1>5. IFilled'
  <2> SUFFICES ASSUME NEW s \in Requests, pc'[s] = "filled"
               PROVE  /\ record'[s] \in Records
                      /\ record'[s].id = Len(table'[Db(s)]) + 1
                      /\ record'[s].run = s
                      /\ record'[s].status = thread'[s]
                      /\ record'[s].sub = Subject(CallerOf[s])
                      /\ record'[s].finished < clock'
                      /\ \A i \in DOMAIN table'[Db(s)] :
                           table'[Db(s)][i].record.finished < record'[s].finished
    BY DEF IFilled
  <2>1. CASE s = r
    BY <1>1, <1>2, <1>4, <2>1
  <2>2. CASE s # r
    <3>1. /\ pc[s] = "filled" /\ record'[s] = record[s]
      BY <1>1, <2>2
    <3>2. record[s].finished \in Nat /\ record[s].finished < clock
      BY <3>1 DEF IHistory, IFilled, Records
    <3>3. record[s].finished < clock'
      BY <1>1, <3>2
    <3> QED
      BY <1>1, <3>1, <3>3 DEF IHistory, IFilled
  <2> QED
    BY <2>1, <2>2
<1>6. IShown'
  BY <1>1 DEF IHistory, IShown
<1>7. HistoryIsTrue'
  BY <1>1 DEF IHistory, HistoryIsTrue
<1>8. AnswerIsRecorded' /\ ShownStays'
  BY <1>1 DEF IHistory, AnswerIsRecorded, ShownStays, Kept
<1> QED
  BY <1>3, <1>5, <1>6, <1>7, <1>8 DEF IHistory

LEMMA CommitStep ==
  ASSUME TypeOK, ILocks, IHistory, NEW r \in Requests, Commit(r)
  PROVE  IHistory'
<1> USE RunApiAssumption
<1> DEFINE n == Len(table[Db(r)]) + 1
<1>1. /\ pc[r] = "filled" /\ pc'[r] = "answered"
      /\ \A s \in Requests \ {r} : pc'[s] = pc[s]
      /\ UNCHANGED <<thread, record, clock, crashes, shown>>
  BY DEF Commit, TypeOK
<1>2. /\ \A d \in Databases \ {Db(r)} : table'[d] = table[d]
      /\ DOMAIN table'[Db(r)] = 1..n
      /\ DOMAIN table[Db(r)] = 1..(n - 1)
      /\ n \in Nat \ {0}
      /\ \A i \in 1..(n - 1) : table'[Db(r)][i] = table[Db(r)][i]
      /\ table'[Db(r)][n] = Row(r)
  <2>1. table[Db(r)] \in Seq(Rows)
    BY DEF TypeOK
  <2>2. table' = [table EXCEPT ![Db(r)] = Append(@, Row(r))]
    BY DEF Commit
  <2>3. table'[Db(r)] = Append(table[Db(r)], Row(r))
    BY <2>2 DEF TypeOK
  <2>4. \A d \in Databases \ {Db(r)} : table'[d] = table[d]
    BY <2>2 DEF TypeOK
  <2> QED
    BY <2>1, <2>3, <2>4
<1>3. /\ record[r] \in Records
      /\ record[r].id = n
      /\ record[r].run = r
      /\ record[r].status = thread[r]
      /\ record[r].sub = Subject(CallerOf[r])
      /\ record[r].finished < clock
      /\ thread[r] \in Statuses
      /\ \A i \in DOMAIN table[Db(r)] :
           table[Db(r)][i].record.finished < record[r].finished
  BY <1>1 DEF IHistory, IFilled, ILocks
<1>4. \A d \in Databases : DOMAIN table[d] \subseteq DOMAIN table'[d]
        /\ \A i \in DOMAIN table[d] : table'[d][i] = table[d][i]
  BY <1>2
<1>5. \A s \in Requests \ {r} : pc[s] = "filled" => Db(s) # Db(r)
  BY <1>1 DEF ILocks
<1>6. IFilled'
  <2> SUFFICES ASSUME NEW s \in Requests, pc'[s] = "filled"
               PROVE  /\ record'[s] \in Records
                      /\ record'[s].id = Len(table'[Db(s)]) + 1
                      /\ record'[s].run = s
                      /\ record'[s].status = thread'[s]
                      /\ record'[s].sub = Subject(CallerOf[s])
                      /\ record'[s].finished < clock'
                      /\ \A i \in DOMAIN table'[Db(s)] :
                           table'[Db(s)][i].record.finished < record'[s].finished
    BY DEF IFilled
  <2>1. s # r /\ pc[s] = "filled"
    BY <1>1
  <2>2. table'[Db(s)] = table[Db(s)]
    BY <1>2, <1>5, <2>1
  <2> QED
    BY <1>1, <2>1, <2>2 DEF IHistory, IFilled
<1>7. ITable'
  <2> SUFFICES ASSUME NEW d \in Databases, NEW i \in DOMAIN table'[d]
               PROVE  \E s \in Requests : Db(s) = d /\ Stands(table[d][i], s)'
    BY DEF ITable
  <2>1. CASE i \in DOMAIN table[d]
    <3>1. PICK s \in Requests : Db(s) = d /\ Stands(table[d][i], s)
      BY <2>1 DEF IHistory, ITable
    <3> QED
      BY <1>1, <1>4, <2>1, <3>1 DEF Stands
  <2>2. CASE i \notin DOMAIN table[d]
    <3>1. d = Db(r) /\ table'[d][i] = Row(r)
      BY <1>2, <2>2
    <3> QED
      BY <1>1, <1>3, <3>1 DEF Stands, Row
  <2> QED
    BY <2>1, <2>2
<1>8. IShown'
  BY <1>1 DEF IHistory, IShown
<1>9. HistoryIsTrue'
  <2> SUFFICES ASSUME NEW d \in Databases, NEW i \in DOMAIN table'[d]
               PROVE  LET rec == table'[d][i].record
                      IN /\ rec.id = i
                         /\ Db(rec.run) = d
                         /\ rec.status = thread'[rec.run]
                         /\ rec.sub = table'[d][i].sub
                         /\ \A j \in 1..(i - 1) :
                              /\ table'[d][j].record.finished < rec.finished
                              /\ table'[d][j].record.run # rec.run
    BY DEF HistoryIsTrue
  <2>1. CASE i \in DOMAIN table[d]
    <3>1. \A j \in 1..(i - 1) : j \in DOMAIN table[d]
      BY <2>1 DEF TypeOK
    <3>2. \A j \in 1..(i - 1) : table'[d][j] = table[d][j]
      BY <1>4, <3>1
    <3>3. table'[d][i] = table[d][i]
      BY <1>4, <2>1
    <3> QED
      BY <1>1, <2>1, <3>2, <3>3 DEF IHistory, HistoryIsTrue
  <2>2. CASE i \notin DOMAIN table[d]
    <3>1. d = Db(r) /\ i = n /\ table'[d][i] = Row(r)
      BY <1>2, <2>2
    <3>2. ASSUME NEW j \in 1..(i - 1)
          PROVE  /\ table'[d][j].record.finished < record[r].finished
                 /\ table'[d][j].record.run # r
      <4>1. j \in DOMAIN table[d] /\ table'[d][j] = table[d][j]
        BY <1>2, <3>1
      <4>2. PICK s \in Requests : Stands(table[d][j], s)
        BY <4>1 DEF IHistory, ITable
      <4> QED
        BY <1>1, <1>3, <3>1, <4>1, <4>2 DEF Stands
    <3> QED
      BY <1>1, <1>3, <3>1, <3>2 DEF Row
  <2> QED
    BY <2>1, <2>2
<1>10. AnswerIsRecorded'
  <2> SUFFICES ASSUME NEW s \in Requests, pc'[s] = "answered", Kept(Db(s))
               PROVE  /\ record'[s].id \in DOMAIN table'[Db(s)]
                      /\ table'[Db(s)][record'[s].id].record = record'[s]
    BY <1>1 DEF AnswerIsRecorded, Kept
  <2>1. CASE s = r
    BY <1>1, <1>2, <1>3, <2>1 DEF Row
  <2>2. CASE s # r
    <3>1. /\ record[s].id \in DOMAIN table[Db(s)]
          /\ table[Db(s)][record[s].id].record = record[s]
      BY <1>1, <2>2 DEF IHistory, AnswerIsRecorded
    <3> QED
      BY <1>1, <1>4, <3>1
  <2> QED
    BY <2>1, <2>2
<1>11. ShownStays'
  BY <1>1, <1>4 DEF IHistory, ShownStays, Kept
<1> QED
  BY <1>6, <1>7, <1>8, <1>9, <1>10, <1>11 DEF IHistory

(***************************************************************************)
(* Nobody reads on a connection whose mutex another request holds, so a    *)
(* reader never sees the row of an open transaction.                       *)
(***************************************************************************)
LEMMA CommittedView ==
  ASSUME TypeOK, ILocks, NEW p \in Processes, mutex[p] = NoRequest
  PROVE  View(p) = table[DbOf[p]]
BY RunApiAssumption DEF View, TypeOK, ILocks

LEMMA ReadStep ==
  ASSUME TypeOK, ILocks, IHistory, NEW c \in Callers, NEW p \in Processes,
         List(c, p) \/ \E i \in Ids : Get(c, p, i)
  PROVE  IHistory'
<1> USE RunApiAssumption
<1> DEFINE d == DbOf[p]
           seen == Visible(c, table[d])
<1>1. UNCHANGED <<pc, thread, record, mutex, writer, table, clock, crashes>>
  BY DEF List, Get, storeVars
<1>2. View(p) = table[d]
  BY CommittedView DEF List, Get
<1>3. PICK f : /\ shown' = [shown EXCEPT ![d][c] = f]
               /\ \A i \in DOMAIN f : i \in DOMAIN seen /\ f[i] = seen[i]
  <2>1. CASE List(c, p)
    <3>1. shown' = [shown EXCEPT ![d][c] = seen]
      BY <1>2, <2>1 DEF List
    <3> QED
      BY <3>1
  <2>2. CASE \E i \in Ids : Get(c, p, i)
    <3>1. PICK i \in Ids : Get(c, p, i)
      BY <2>2
    <3>2. shown' = [shown EXCEPT ![d][c] = [j \in DOMAIN seen \cap {i} |-> seen[j]]]
      BY <1>2, <3>1 DEF Get
    <3> DEFINE g == [j \in DOMAIN seen \cap {i} |-> seen[j]]
    <3>3. \A j \in DOMAIN g : j \in DOMAIN seen /\ g[j] = seen[j]
      OBVIOUS
    <3> HIDE DEF g, seen
    <3> QED
      BY <3>2, <3>3 DEF g
  <2> QED
    BY <2>1, <2>2
<1>4. \A i \in DOMAIN f :
        /\ i \in DOMAIN table[d]
        /\ f[i] = table[d][i].record
        /\ MaySee(c, table[d][i].sub)
  BY <1>3 DEF Visible
<1>5. ASSUME NEW e \in Databases, NEW b \in Callers
      PROVE  shown'[e][b] = IF e = d /\ b = c THEN f ELSE shown[e][b]
  <2>1. shown = [x \in Databases |-> [y \in Callers |-> shown[x][y]]]
    BY DEF TypeOK
  <2> QED
    BY <1>3, <2>1
<1>6. IShown'
  <2> SUFFICES ASSUME NEW e \in Databases, NEW b \in Callers, NEW i \in DOMAIN shown'[e][b]
               PROVE  /\ shown'[e][b][i] \in Records
                      /\ shown'[e][b][i].sub = Subject(CallerOf[shown'[e][b][i].run])
                      /\ MaySee(b, shown'[e][b][i].sub)
    BY DEF IShown
  <2>1. CASE e = d /\ b = c
    <3>1. i \in DOMAIN f /\ shown'[e][b][i] = f[i]
      BY <1>5, <2>1
    <3>2. PICK s \in Requests : Stands(table[d][i], s)
      BY <1>4, <3>1 DEF IHistory, ITable
    <3> QED
      BY <1>4, <2>1, <3>1, <3>2 DEF Stands
  <2>2. CASE ~(e = d /\ b = c)
    BY <1>5, <2>2 DEF IHistory, IShown
  <2> QED
    BY <2>1, <2>2
<1>7. ShownStays'
  <2> SUFFICES ASSUME NEW e \in Databases, NEW b \in Callers, Kept(e),
                      NEW i \in DOMAIN shown'[e][b]
               PROVE  /\ shown'[e][b][i] # NoRecord
                      /\ i \in DOMAIN table[e]
                      /\ table[e][i].record = shown'[e][b][i]
    BY <1>1 DEF ShownStays, Kept
  <2>1. CASE e = d /\ b = c
    <3>1. i \in DOMAIN f /\ shown'[e][b][i] = f[i]
      BY <1>5, <2>1
    <3>2. PICK s \in Requests : Stands(table[d][i], s)
      BY <1>4, <3>1 DEF IHistory, ITable
    <3> QED
      BY <1>4, <2>1, <3>1, <3>2, NoRecordAssumption DEF Stands
  <2>2. CASE ~(e = d /\ b = c)
    BY <1>5, <2>2 DEF IHistory, ShownStays
  <2> QED
    BY <2>1, <2>2
<1>8. IFilled' /\ ITable'
  BY <1>1 DEF IHistory, IFilled, ITable, Stands
<1>9. HistoryIsTrue' /\ AnswerIsRecorded'
  BY <1>1 DEF IHistory, HistoryIsTrue, AnswerIsRecorded, Kept
<1> QED
  BY <1>6, <1>7, <1>8, <1>9 DEF IHistory

LEMMA CrashStep ==
  ASSUME TypeOK, ILocks, IHistory, NEW p \in Processes, Crash(p)
  PROVE  IHistory'
<1> USE RunApiAssumption
<1>1. /\ \A r \in Requests :
           /\ pc'[r] = "filled" => pc[r] = "filled" /\ ServerOf[r] # p
           /\ pc'[r] = "answered" <=> pc[r] = "answered"
           /\ thread[r] \in Statuses => thread'[r] = thread[r]
      /\ UNCHANGED <<record, clock, shown>>
  BY DEF Crash, TypeOK
<1>2. ASSUME NEW d \in Databases
      PROVE  table'[d] = IF d = DbOf[p] /\ d \notin Files THEN <<>> ELSE table[d]
  BY DEF Crash, TypeOK
<1>3. ASSUME NEW d \in Databases, Kept(d)' PROVE Kept(d) /\ table'[d] = table[d]
  <2>1. CASE d \in Files
    BY <1>2, <2>1 DEF Kept
  <2>2. CASE d \notin Files
    <3>1. \A q \in Processes : crashes[q] \in Nat /\ crashes'[q] = 0 => crashes[q] = 0 /\ q # p
      BY DEF Crash, TypeOK
    <3>2. \A q \in Processes : DbOf[q] = d => crashes'[q] = 0
      BY <1>3, <2>2 DEF Kept
    <3> QED
      BY <1>2, <2>2, <3>1, <3>2 DEF Kept, TypeOK
  <2> QED
    BY <2>1, <2>2
<1>4. IFilled'
  <2> SUFFICES ASSUME NEW s \in Requests, pc'[s] = "filled"
               PROVE  /\ record'[s] \in Records
                      /\ record'[s].id = Len(table'[Db(s)]) + 1
                      /\ record'[s].run = s
                      /\ record'[s].status = thread'[s]
                      /\ record'[s].sub = Subject(CallerOf[s])
                      /\ record'[s].finished < clock'
                      /\ \A i \in DOMAIN table'[Db(s)] :
                           table'[Db(s)][i].record.finished < record'[s].finished
    BY DEF IFilled
  <2>1. pc[s] = "filled" /\ ServerOf[s] # p
    BY <1>1
  <2>2. table'[Db(s)] = table[Db(s)]
    BY <1>2, <2>1
  <2>3. thread'[s] = thread[s]
    BY <1>1, <2>1 DEF ILocks
  <2> QED
    BY <1>1, <2>1, <2>2, <2>3 DEF IHistory, IFilled
<1>5. ITable'
  BY <1>1, <1>2 DEF IHistory, ITable, Stands
<1>6. IShown'
  BY <1>1 DEF IHistory, IShown
<1>7. HistoryIsTrue'
  BY <1>1, <1>2 DEF IHistory, HistoryIsTrue, ITable, Stands
<1>8. AnswerIsRecorded'
  BY <1>1, <1>3 DEF IHistory, AnswerIsRecorded
<1>9. ShownStays'
  BY <1>1, <1>3 DEF IHistory, ShownStays
<1> QED
  BY <1>4, <1>5, <1>6, <1>7, <1>8, <1>9 DEF IHistory

-----------------------------------------------------------------------------

LEMMA InvInit ==
  ASSUME Init
  PROVE  TypeOK /\ ILocks /\ IHistory
<1>1. TypeOK
  BY TypeInit
<1>2. ILocks /\ IFilled
  BY DEF Init, ILocks, IFilled
<1>3. \A d \in Databases : DOMAIN table[d] = {} /\ \A c \in Callers : DOMAIN shown[d][c] = {}
  BY DEF Init
<1>4. ITable /\ HistoryIsTrue /\ IShown /\ ShownStays
  BY <1>3 DEF ITable, HistoryIsTrue, IShown, ShownStays
<1>5. AnswerIsRecorded
  BY DEF Init, AnswerIsRecorded
<1> QED
  BY <1>1, <1>2, <1>4, <1>5 DEF IHistory

LEMMA InvNext ==
  ASSUME TypeOK, ILocks, IHistory, [Next]_vars
  PROVE  TypeOK' /\ ILocks' /\ IHistory'
<1>1. TypeOK' /\ ILocks'
  BY TypeNext, LocksNext DEF IHistory
<1>2. ASSUME NEW r \in Requests,
             \/ Deny(r) \/ Reject(r) \/ Start(r) \/ EndRun(r) \/ Disconnect(r)
             \/ Panic(r) \/ Lock(r) \/ Insert(r) \/ StoreFails(r)
      PROVE  IHistory'
  <2>1. UNCHANGED <<record, table, clock, crashes, shown>>
    BY <1>2 DEF Deny, Reject, Start, EndRun, Disconnect, Panic, Lock, Insert,
      StoreFails, storeVars
  <2>2. ASSUME NEW s \in Requests
        PROVE  /\ pc'[s] = "filled" => pc[s] = "filled"
               /\ pc'[s] = "answered" <=> pc[s] = "answered"
    BY <1>2 DEF Deny, Reject, Start, EndRun, Disconnect, Panic, Lock, Insert,
      StoreFails, TypeOK
  <2>3. ASSUME NEW s \in Requests, thread[s] \in Statuses PROVE thread'[s] = thread[s]
    <3>1. CASE EndRun(r)
      BY <2>3, <3>1 DEF EndRun, TypeOK
    <3>2. CASE Start(r)
      BY <2>3, <3>2 DEF Start, TypeOK, ILocks
    <3>3. CASE ~EndRun(r) /\ ~Start(r)
      BY <1>2, <3>3 DEF Deny, Reject, Disconnect, Panic, Lock, Insert, StoreFails
    <3> QED
      BY <3>1, <3>2, <3>3
  <2> QED
    BY <2>1, <2>2, <2>3, QuietStep
<1>3. ASSUME NEW r \in Requests, FillIn(r) PROVE IHistory'
  BY <1>3, FillInStep
<1>4. ASSUME NEW r \in Requests, Commit(r) PROVE IHistory'
  BY <1>4, CommitStep
<1>5. ASSUME NEW c \in Callers, NEW p \in Processes,
             List(c, p) \/ \E i \in Ids : Get(c, p, i)
      PROVE  IHistory'
  BY <1>5, ReadStep
<1>6. ASSUME NEW p \in Processes, Crash(p) PROVE IHistory'
  BY <1>6, CrashStep
<1>7. ASSUME UNCHANGED vars PROVE IHistory'
  <2>1. UNCHANGED <<pc, thread, record, table, clock, crashes, shown>>
    BY <1>7 DEF vars, storeVars
  <2>2. UNCHANGED <<record, table, clock, crashes, shown>>
    BY <2>1
  <2>3. ASSUME NEW s \in Requests
        PROVE  /\ pc'[s] = "filled" => pc[s] = "filled"
               /\ pc'[s] = "answered" <=> pc[s] = "answered"
    BY <2>1
  <2>4. ASSUME NEW s \in Requests, thread[s] \in Statuses PROVE thread'[s] = thread[s]
    BY <2>1
  <2> QED
    BY <2>2, <2>3, <2>4, QuietStep
<1>8. IHistory'
  BY <1>2, <1>3, <1>4, <1>5, <1>6, <1>7 DEF Next, Handle
<1> QED
  BY <1>1, <1>8

(***************************************************************************)
(* The inductive invariant holds in every reachable state.                 *)
(***************************************************************************)
THEOREM InductiveInvariant == Spec => []IInv
<1>1. Init => TypeOK /\ ILocks /\ IHistory
  BY InvInit
<1>2. TypeOK /\ ILocks /\ IHistory /\ [Next]_vars => TypeOK' /\ ILocks' /\ IHistory'
  BY InvNext
<1>3. TypeOK /\ ILocks /\ IHistory => IInv
  BY DEF IInv, IHistory
<1> QED
  BY <1>1, <1>2, <1>3, PTL DEF Spec

(***************************************************************************)
(* The servers, their connections and their databases are well typed, and  *)
(* a lock is held by a handler that is storing a record.                   *)
(***************************************************************************)
THEOREM TypeCorrect == Spec => []TypeOK
<1>1. IInv => TypeOK
  BY DEF IInv
<1> QED
  BY <1>1, InductiveInvariant, PTL

(***************************************************************************)
(* The history holds runs that ended, once each, with their outcome, under *)
(* consecutive ids in the order they finished in, for any number of        *)
(* servers that share it.                                                  *)
(***************************************************************************)
THEOREM HistoryHoldsTheTruth == Spec => []HistoryIsTrue
<1>1. IInv => HistoryIsTrue
  BY DEF IInv
<1> QED
  BY <1>1, InductiveInvariant, PTL

(***************************************************************************)
(* What RunStore::record handed back is in the history, and in a file it   *)
(* stays there through every crash.                                        *)
(***************************************************************************)
THEOREM AnswersAreRecorded == Spec => []AnswerIsRecorded
<1>1. IInv => AnswerIsRecorded
  BY DEF IInv
<1> QED
  BY <1>1, InductiveInvariant, PTL

(***************************************************************************)
(* What list_runs and get_run ever showed is in the history and stays.     *)
(***************************************************************************)
THEOREM ReadersSeeTheHistory == Spec => []ShownStays
<1>1. IInv => ShownStays
  BY DEF IInv
<1> QED
  BY <1>1, InductiveInvariant, PTL

(***************************************************************************)
(* Only an admin is shown runs of others.                                  *)
(***************************************************************************)
THEOREM ReadersSeeTheirOwn == Spec => []ShownAreOwn
<1>1. IInv => ShownAreOwn
  BY DEF IInv, IShown, ShownAreOwn, MaySee, Subject
<1> QED
  BY <1>1, InductiveInvariant, PTL

-----------------------------------------------------------------------------
(* The servers on a file are together one run history: every behaviour of  *)
(* RunApi is one of History, for any number of servers, requests, readers  *)
(* and crashes.                                                            *)

AllInv == TypeOK /\ ILocks /\ IHistory

(***************************************************************************)
(* The refinement mapping.                                                 *)
(***************************************************************************)
Log == [d \in Files |-> [i \in DOMAIN table[d] |-> table[d][i].record]]
Answers ==
  [r \in Requests |->
     IF pc[r] = "answered" /\ Db(r) \in Files THEN record[r] ELSE NoRecord]
Shown == [d \in Files |-> shown[d]]

LEMMA InitMaps ==
  ASSUME Init
  PROVE  Promise!Init
<1> USE RunApiAssumption
<1>1. ASSUME NEW d \in Files PROVE [i \in DOMAIN table[d] |-> table[d][i].record] = <<>>
  <2>1. table[d] = <<>>
    BY DEF Init
  <2>2. DOMAIN table[d] = {}
    BY <2>1
  <2> QED
    BY <2>2
<1>2. Log = [f \in Files |-> <<>>]
  BY <1>1 DEF Log
<1>3. Answers = [r \in Requests |-> NoRecord]
  BY DEF Init, Answers
<1>4. Shown = [f \in Files |-> [c \in Callers |-> <<>>]]
  BY DEF Init, Shown
<1> QED
  BY <1>2, <1>3, <1>4 DEF Promise!Init, Log, Answers, Shown

(***************************************************************************)
(* The history in a file, as a sequence of records.                        *)
(***************************************************************************)
LEMMA HistoryType ==
  ASSUME TypeOK, NEW d \in Files
  PROVE  /\ Log[d] \in Seq(Records)
         /\ Len(Log[d]) = Len(table[d])
         /\ DOMAIN Log[d] = DOMAIN table[d]
         /\ \A i \in DOMAIN table[d] : Log[d][i] = table[d][i].record
<1>1. table[d] \in Seq(Rows)
  BY RunApiAssumption DEF TypeOK
<1>2. ASSUME NEW i \in 1..Len(table[d]) PROVE table[d][i].record \in Records
  <2>1. table[d][i] \in Rows
    BY <1>1
  <2> QED
    BY <2>1 DEF Rows
<1>3. Log[d] = [i \in 1..Len(table[d]) |-> table[d][i].record]
  BY <1>1 DEF Log
<1> QED
  BY <1>1, <1>2, <1>3

LEMMA CommitMaps ==
  ASSUME AllInv, NEW r \in Requests, Commit(r), Db(r) \in Files, TypeOK'
  PROVE  Promise!Record(r, Db(r))
<1> USE RunApiAssumption
<1> DEFINE d == Db(r)
           n == Len(table[d])
<1>1. /\ pc[r] = "filled" /\ CanRun(CallerOf[r])
      /\ pc' = [pc EXCEPT ![r] = "answered"]
      /\ UNCHANGED <<record, shown>>
      /\ table' = [table EXCEPT ![d] = Append(@, Row(r))]
  BY DEF Commit, AllInv, ILocks
<1>2. /\ record[r] \in Records /\ record[r].id = n + 1 /\ record[r].run = r
      /\ record[r].sub = Subject(CallerOf[r])
      /\ \A i \in DOMAIN table[d] : table[d][i].record.finished < record[r].finished
  BY <1>1 DEF AllInv, IHistory, IFilled
<1>3. \A i \in DOMAIN table[d] : table[d][i].record.run # r
  BY <1>1 DEF AllInv, IHistory, ITable, Stands
<1>4. Answers' = [Answers EXCEPT ![r] = record[r]]
  BY <1>1 DEF Answers, AllInv, TypeOK
<1>5. Log' = [Log EXCEPT ![d] = Append(@, record[r])]
  <2>1. ASSUME NEW e \in Files, e # d PROVE Log'[e] = Log[e]
    <3>1. table'[e] = table[e]
      BY <1>1, <2>1 DEF AllInv, TypeOK
    <3> QED
      BY <3>1 DEF Log
  <2>2. Log'[d] = Append(Log[d], record[r])
    <3>1. table[d] \in Seq(Rows) /\ table'[d] = Append(table[d], Row(r))
      BY <1>1 DEF AllInv, TypeOK
    <3>2. Log'[d] = [i \in 1..(n + 1) |-> table'[d][i].record]
      <4>1. DOMAIN table'[d] = 1..(n + 1)
        BY <3>1
      <4>2. Log'[d] = [i \in DOMAIN table'[d] |-> table'[d][i].record]
        BY DEF Log
      <4> QED
        BY <4>1, <4>2
    <3>3. Log[d] \in Seq(Records) /\ Len(Log[d]) = n
          /\ \A i \in 1..n : Log[d][i] = table[d][i].record
      BY <3>1, HistoryType DEF AllInv
    <3>4. Append(Log[d], record[r])
            = [i \in 1..(n + 1) |-> IF i = n + 1 THEN record[r] ELSE Log[d][i]]
      BY <1>2, <3>3
    <3>5. ASSUME NEW i \in 1..(n + 1)
          PROVE  table'[d][i].record = IF i = n + 1 THEN record[r] ELSE Log[d][i]
      <4>1. n \in Nat
        BY <3>1
      <4>2. CASE i = n + 1
        BY <3>1, <4>1, <4>2 DEF Row
      <4>3. CASE i # n + 1
        <5>1. i \in 1..n
          BY <4>1, <4>3
        <5> QED
          BY <3>1, <3>3, <4>3, <5>1
      <4> QED
        BY <4>2, <4>3
    <3> QED
      BY <3>2, <3>4, <3>5
  <2>3. Log' = [e \in Files |-> Log'[e]] /\ Log = [e \in Files |-> Log[e]]
    BY DEF Log
  <2> HIDE DEF d
  <2> QED
    BY <2>1, <2>2, <2>3
<1>6. Shown' = Shown
  BY <1>1 DEF Shown
<1>7. /\ DOMAIN Log[d] = DOMAIN table[d]
      /\ \A i \in DOMAIN table[d] : Log[d][i] = table[d][i].record
      /\ Log[d] \in Seq(Records) /\ Len(Log[d]) = n
  BY HistoryType DEF AllInv
<1>8. Answers'[r] = record[r]
  BY <1>4 DEF Answers
<1>9. Len(Log'[d]) = n + 1
  <2>1. Log'[d] = Append(Log[d], record[r])
    BY <1>5 DEF Log
  <2> QED
    BY <1>2, <1>7, <2>1
<1>10. /\ Promise!CanRun(CallerOf[r])
       /\ Promise!Subject(CallerOf[r]) = Subject(CallerOf[r])
  BY <1>1 DEF CanRun, Subject, Promise!CanRun, Promise!Subject
<1>11. record[r].status \in {"completed", "failed"}
  BY <1>2 DEF Records
<1>12. \A i \in DOMAIN Log[d] :
         Log[d][i].run # r /\ Log[d][i].finished < record[r].finished
  BY <1>2, <1>3, <1>7
<1>13. [q \in Requests |-> Db(q)][r] = d
  OBVIOUS
<1> QED
  BY <1>2, <1>4, <1>5, <1>6, <1>8, <1>9, <1>10, <1>11, <1>12, <1>13
  DEF Promise!Record, Log, Answers, Shown

(***************************************************************************)
(* Reading a connection that nobody writes on shows the history itself.    *)
(***************************************************************************)
LEMMA SeenIsVisible ==
  ASSUME AllInv, NEW c \in Callers, NEW p \in Processes, DbOf[p] \in Files,
         mutex[p] = NoRequest
  PROVE  Promise!Seen(c, DbOf[p]) = Visible(c, View(p))
<1> USE RunApiAssumption
<1> DEFINE d == DbOf[p]
<1>1. View(p) = table[d]
  BY CommittedView DEF AllInv
<1>2. \A i \in DOMAIN table[d] : table[d][i].record.sub = table[d][i].sub
  BY DEF AllInv, IHistory, ITable, Stands
<1>3. DOMAIN Log[d] = DOMAIN table[d] /\ \A i \in DOMAIN table[d] : Log[d][i] = table[d][i].record
  BY HistoryType DEF AllInv
<1>4. {i \in DOMAIN Log[d] : MaySee(c, Log[d][i].sub)}
        = {i \in DOMAIN table[d] : MaySee(c, table[d][i].sub)}
  BY <1>2, <1>3
<1>5. [i \in {i \in DOMAIN Log[d] : MaySee(c, Log[d][i].sub)} |-> Log[d][i]]
        = Visible(c, table[d])
  BY <1>3, <1>4 DEF Visible
<1>6. Promise!Seen(c, d)
        = [i \in {i \in DOMAIN Log[d] : MaySee(c, Log[d][i].sub)} |-> Log[d][i]]
  BY DEF Promise!Seen, Promise!MaySee, MaySee, Log
<1> QED
  BY <1>1, <1>5, <1>6

LEMMA ReadMaps ==
  ASSUME AllInv, NEW c \in Callers, NEW p \in Processes, DbOf[p] \in Files
  PROVE  /\ List(c, p) => Promise!List(c, DbOf[p])
         /\ \A i \in Ids : Get(c, p, i) => Promise!Get(c, DbOf[p], i)
<1> USE RunApiAssumption
<1> DEFINE d == DbOf[p]
<1>1. ASSUME NEW f, shown' = [shown EXCEPT ![d][c] = f]
      PROVE  Shown' = [Shown EXCEPT ![d][c] = f]
  <2>1. shown = [x \in Databases |-> [y \in Callers |-> shown[x][y]]]
    BY DEF AllInv, TypeOK
  <2> QED
    BY <1>1, <2>1 DEF Shown
<1>2. ASSUME UNCHANGED <<pc, thread, record, storeVars, clock, crashes>>
      PROVE  UNCHANGED <<Log, Answers>>
  BY <1>2 DEF storeVars, Log, Answers
<1>3. CanReadHistory(c) <=> Promise!CanReadHistory(c)
  BY DEF CanReadHistory, Promise!CanReadHistory
<1>4. ASSUME List(c, p) PROVE Promise!List(c, d)
  <2>1. shown' = [shown EXCEPT ![d][c] = Promise!Seen(c, d)]
    BY <1>4, SeenIsVisible DEF List
  <2>2. Shown' = [Shown EXCEPT ![d][c] = Promise!Seen(c, d)]
    BY <1>1, <2>1
  <2>3. CanReadHistory(c) /\ UNCHANGED <<Log, Answers>>
    BY <1>2, <1>4 DEF List
  <2> QED
    BY <1>3, <2>2, <2>3 DEF Promise!List, Log, Answers, Shown
<1>5. ASSUME NEW i \in Ids, Get(c, p, i) PROVE Promise!Get(c, d, i)
  <2> DEFINE f == [j \in DOMAIN Promise!Seen(c, d) \cap {i} |-> Promise!Seen(c, d)[j]]
  <2>1. shown' = [shown EXCEPT ![d][c] = f]
    BY <1>5, SeenIsVisible DEF Get
  <2>2. Shown' = [Shown EXCEPT ![d][c] = f]
    BY <1>1, <2>1
  <2>3. CanReadHistory(c) /\ UNCHANGED <<Log, Answers>>
    BY <1>2, <1>5 DEF Get
  <2> QED
    BY <1>3, <2>2, <2>3 DEF Promise!Get, Log, Answers, Shown
<1> QED
  BY <1>4, <1>5

LEMMA StepMaps ==
  ASSUME AllInv, [Next]_vars, AllInv'
  PROVE  Promise!Next \/ UNCHANGED <<Log, Answers, Shown>>
<1> USE RunApiAssumption
<1>0. TypeOK
  BY DEF AllInv
<1>1. ASSUME UNCHANGED <<table, shown>>,
             \A r \in Requests :
               /\ pc'[r] = "answered" <=> pc[r] = "answered"
               /\ pc[r] = "answered" => record'[r] = record[r]
      PROVE  UNCHANGED <<Log, Answers, Shown>>
  BY <1>1 DEF Log, Answers, Shown
<1>2. ASSUME NEW r \in Requests,
             \/ Deny(r) \/ Reject(r) \/ Start(r) \/ EndRun(r) \/ Disconnect(r)
             \/ Panic(r) \/ Lock(r) \/ Insert(r) \/ StoreFails(r)
      PROVE  UNCHANGED <<Log, Answers, Shown>>
  <2>1. UNCHANGED <<record, table, shown>>
    BY <1>2 DEF Deny, Reject, Start, EndRun, Disconnect, Panic, Lock, Insert,
      StoreFails, storeVars
  <2>2. ASSUME NEW s \in Requests PROVE pc'[s] = "answered" <=> pc[s] = "answered"
    BY <1>0, <1>2 DEF Deny, Reject, Start, EndRun, Disconnect, Panic, Lock,
      Insert, StoreFails, TypeOK
  <2> QED
    BY <1>1, <2>1, <2>2
<1>3. ASSUME NEW r \in Requests, FillIn(r) PROVE UNCHANGED <<Log, Answers, Shown>>
  <2>1. UNCHANGED <<table, shown>>
    BY <1>3 DEF FillIn, storeVars
  <2>2. /\ pc[r] = "inserted" /\ pc'[r] = "filled"
        /\ \A s \in Requests \ {r} : pc'[s] = pc[s] /\ record'[s] = record[s]
    BY <1>3 DEF FillIn, AllInv, TypeOK
  <2> QED
    BY <1>1, <2>1, <2>2
<1>4. ASSUME NEW r \in Requests, Commit(r)
      PROVE  Promise!Next \/ UNCHANGED <<Log, Answers, Shown>>
  <2>1. CASE Db(r) \in Files
    BY <1>4, <2>1, CommitMaps DEF AllInv, Promise!Next
  <2>2. CASE Db(r) \notin Files
    <3>1. UNCHANGED <<record, shown>>
          /\ \A s \in Requests \ {r} : pc'[s] = pc[s]
      BY <1>4 DEF Commit, AllInv, TypeOK
    <3>2. \A d \in Files : table'[d] = table[d]
      BY <1>4, <2>2 DEF Commit, AllInv, TypeOK
    <3> QED
      BY <2>2, <3>1, <3>2 DEF Log, Answers, Shown
  <2> QED
    BY <2>1, <2>2
<1>5. ASSUME NEW c \in Callers, NEW p \in Processes,
             List(c, p) \/ \E i \in Ids : Get(c, p, i)
      PROVE  Promise!Next \/ UNCHANGED <<Log, Answers, Shown>>
  <2>1. CASE DbOf[p] \in Files
    BY <1>5, <2>1, ReadMaps DEF Promise!Next
  <2>2. CASE DbOf[p] \notin Files
    <3>1. UNCHANGED <<pc, record, table>>
      BY <1>5 DEF List, Get, storeVars
    <3>2. PICK f : shown' = [shown EXCEPT ![DbOf[p]][c] = f]
      BY <1>5 DEF List, Get
    <3>3. \A d \in Files : shown'[d] = shown[d]
      BY <2>2, <3>2 DEF AllInv, TypeOK
    <3> QED
      BY <3>1, <3>3 DEF Log, Answers, Shown
  <2> QED
    BY <2>1, <2>2
<1>6. ASSUME NEW p \in Processes, Crash(p) PROVE UNCHANGED <<Log, Answers, Shown>>
  <2>1. UNCHANGED <<record, shown>>
        /\ \A s \in Requests : pc'[s] = "answered" <=> pc[s] = "answered"
    BY <1>6 DEF Crash, AllInv, TypeOK
  <2>2. \A d \in Files : table'[d] = table[d]
    BY <1>6 DEF Crash, AllInv, TypeOK
  <2> QED
    BY <2>1, <2>2 DEF Log, Answers, Shown
<1>7. ASSUME UNCHANGED vars PROVE UNCHANGED <<Log, Answers, Shown>>
  <2>1. UNCHANGED <<pc, record, table, shown>>
    BY <1>7 DEF vars, storeVars
  <2> QED
    BY <1>1, <2>1
<1> QED
  BY <1>2, <1>3, <1>4, <1>5, <1>6, <1>7 DEF Next, Handle

(***************************************************************************)
(* Together, the servers on a file do what History promises: RunStore's    *)
(* transactions and the mutex of each connection make every record appear  *)
(* at once, to every reader, in the order of its id.                       *)
(***************************************************************************)
THEOREM Refinement == Spec => ImplementsHistory
<1>1. Init => Promise!Init
  BY InitMaps
<1>2. AllInv /\ [Next]_vars /\ AllInv' => [Promise!Next]_(Promise!vars)
  <2> SUFFICES ASSUME AllInv, [Next]_vars, AllInv' PROVE [Promise!Next]_(Promise!vars)
    OBVIOUS
  <2>1. CASE Promise!Next
    BY <2>1
  <2>2. CASE UNCHANGED <<Log, Answers, Shown>>
    BY <2>2 DEF Promise!vars, Log, Answers, Shown
  <2> QED
    BY <2>1, <2>2, StepMaps
<1>3. IInv => AllInv
  BY DEF IInv, AllInv, IHistory
<1> QED
  BY <1>1, <1>2, <1>3, InductiveInvariant, PTL DEF Spec, ImplementsHistory, Promise!Spec
=============================================================================
