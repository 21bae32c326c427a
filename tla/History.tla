------------------------------ MODULE History ------------------------------
(***************************************************************************)
(* What a run history in a file promises, whatever the number of servers   *)
(* on it: attempts are appended one by one under consecutive ids, whole    *)
(* and for good; the answer to a run is its record; and a reader is shown  *)
(* what the history holds at one moment of the runs the reader may see.    *)
(***************************************************************************)
EXTENDS Access, Naturals, Sequences

CONSTANTS Files, Requests, FileOf, Callers, CallerOf, Ids, NoRecord

VARIABLES
  history,   \* file -> the records, by id
  answers,   \* request -> the record it was answered with
  shown      \* file -> reader -> the records last shown, by id

vars == <<history, answers, shown>>

Init ==
  /\ history = [f \in Files |-> <<>>]
  /\ answers = [r \in Requests |-> NoRecord]
  /\ shown = [f \in Files |-> [c \in Callers |-> <<>>]]

(***************************************************************************)
(* The moment a run was recorded at is later than those before it.         *)
(***************************************************************************)
Record(r, f) ==
  /\ FileOf[r] = f
  /\ CanRun(CallerOf[r])
  /\ \A i \in DOMAIN history[f] : history[f][i].run # r
  /\ LET rec == answers'[r]
     IN /\ answers' = [answers EXCEPT ![r] = rec]
        /\ history' = [history EXCEPT ![f] = Append(@, rec)]
        /\ rec.id = Len(history'[f])
        /\ rec.run = r
        /\ rec.sub = Subject(CallerOf[r])
        /\ rec.status \in {"completed", "failed"}
        /\ \A i \in DOMAIN history[f] : history[f][i].finished < rec.finished
  /\ UNCHANGED shown

Seen(c, f) ==
  LET own == {i \in DOMAIN history[f] : MaySee(c, history[f][i].sub)}
  IN [i \in own |-> history[f][i]]

List(c, f) ==
  /\ CanReadHistory(c)
  /\ shown' = [shown EXCEPT ![f][c] = Seen(c, f)]
  /\ UNCHANGED <<history, answers>>

Get(c, f, i) ==
  /\ CanReadHistory(c)
  /\ LET seen == Seen(c, f)
     IN shown' = [shown EXCEPT ![f][c] = [j \in DOMAIN seen \cap {i} |-> seen[j]]]
  /\ UNCHANGED <<history, answers>>

Next ==
  \E f \in Files :
    \/ \E r \in Requests : Record(r, f)
    \/ \E c \in Callers : List(c, f) \/ \E i \in Ids : Get(c, f, i)

Spec == Init /\ [][Next]_vars
=============================================================================
