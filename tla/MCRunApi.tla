------------------------------ MODULE MCRunApi ------------------------------
(* Servers, requests and callers for the model checker.                    *)
EXTENDS RunApi, TLC

CONSTANTS p1, p2, file, memory, r1, r2, r3

(* Two tokens of one person, an admin and somebody else.                   *)
editor == [sub |-> "ann", role |-> "editor"]
tool == [sub |-> "ann", role |-> "tool"]
admin == [sub |-> "root", role |-> "admin"]
viewer == [sub |-> "eve", role |-> "viewer"]

EditorOnly == {editor}
EditorAndAdmin == {editor, admin}
Everyone == {editor, tool, admin, viewer}

OneFile == [p \in Processes |-> file]
OwnMemory == [p \in Processes |-> memory]

OneAndTwo == [r \in Requests |-> IF r = r1 THEN p1 ELSE p2]
AllOnOne == [r \in Requests |-> p1]

AllByEditor == [r \in Requests |-> editor]
ByTurns == [r \in Requests |-> IF r = r1 THEN editor ELSE admin]
ByAll == [r \in Requests |-> IF r = r1 THEN tool ELSE IF r = r2 THEN admin ELSE viewer]

IdSet == 1..2
NoIds == {}
=============================================================================
