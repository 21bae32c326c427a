------------------------------- MODULE Access -------------------------------
(***************************************************************************)
(* Who may run a manifest and who may read which run.  A caller is the     *)
(* verified token of a request: a subject and a role.  The role "tool" is  *)
(* a tool token with the scope geodukt:run, "unscoped" one without it, and *)
(* "none" a request whose token is missing or does not verify.             *)
(***************************************************************************)

CONSTANTS
  GateOn,     \* is a platform secret configured?
  Nobody      \* the subject of a run when it is not

Roles == {"admin", "editor", "viewer", "tool", "unscoped", "none"}

CanRun(c) == GateOn => c.role \in {"admin", "editor", "tool"}

CanReadHistory(c) == GateOn => c.role \in {"admin", "editor", "viewer"}

(***************************************************************************)
(* The subject a run of this caller is recorded with.                      *)
(***************************************************************************)
Subject(c) == IF GateOn THEN c.sub ELSE Nobody

(***************************************************************************)
(* Mutant: only the roles that can run are narrowed to their own runs.     *)
(***************************************************************************)
MaySee_Others(c, sub) == GateOn => c.role \notin {"editor", "tool"} \/ c.sub = sub

MaySee(c, sub) == GateOn => c.role = "admin" \/ c.sub = sub
=============================================================================
