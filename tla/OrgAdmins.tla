----------------------------- MODULE OrgAdmins -----------------------------
(***************************************************************************)
(* Roles and activation of the users of ONE organization: PATCH and DELETE *)
(* users/{id} (handlers/users.py update_user, delete_user) and the guard   *)
(* against losing the last active administrator (_is_last_active_admin).   *)
(*                                                                         *)
(* Each SELECT and UPDATE of a call is a step (READ COMMITTED).  SELECT    *)
(* ... FOR UPDATE is two: its snapshot, and the moment it holds every row, *)
(* re-checked against what was committed while it waited.                  *)
(***************************************************************************)
EXTENDS Naturals, FiniteSets

CONSTANTS
  Users,       \* users of the organization
  Calls,       \* concurrent calls of update_user and delete_user
  None

Roles == {"admin", "analyst", "viewer"}       \* ROLE_PATTERN
Statuses == {"active", "inactive"}            \* STATUS_PATTERN
Change == [role : Roles \cup {None}, status : Statuses \cup {None}]

ASSUME AdminsAssumption ==
  /\ None \notin Users \cup Calls \cup Roles \cup Statuses
  /\ IsFiniteSet(Users)

VARIABLES
  role, status,  \* users.role, users.status
  rowLock,       \* the call that holds each row FOR UPDATE
  pc,            \* control state of each call; "clear" once the guard let it
                 \* through, "unguarded" if the guard did not apply
  target, change,\* what each call asks for
  seen           \* rows in the snapshot of its FOR UPDATE

vars == <<role, status, rowLock, pc, target, change, seen>>

IsAdmin(u) == role[u] = "admin" /\ status[u] = "active"
Admins == {u \in Users : IsAdmin(u)}

Init ==
  /\ role \in [Users -> Roles] /\ status \in [Users -> Statuses]
  /\ Admins # {}
  /\ rowLock = [u \in Users |-> None]
  /\ pc = [c \in Calls |-> "idle"]
  /\ target = [c \in Calls |-> None] /\ change = [c \in Calls |-> None]
  /\ seen = [c \in Calls |-> {}]

Demotes(ch) == ch.role \notin {None, "admin"}
Deactivates(ch) == ch.status = "inactive"

End(c) ==
  /\ pc' = [pc EXCEPT ![c] = "idle"]
  /\ target' = [target EXCEPT ![c] = None]
  /\ change' = [change EXCEPT ![c] = None]
  /\ seen' = [seen EXCEPT ![c] = {}]
  /\ rowLock' = [u \in Users |-> IF rowLock[u] = c THEN None ELSE rowLock[u]]

\* load_active_caller, assert_active_admin: the row now, whatever the token says
MayManage(u) == IsAdmin(u)

\* A user who may (anyone else changes no role or status)
\* asks for change ch of user u; one that takes nothing away skips the guard.
Begin(c, u, ch) ==
  /\ pc[c] = "idle" /\ \E caller \in Users : MayManage(caller)
  /\ ch.role # None \/ ch.status # None
  /\ target' = [target EXCEPT ![c] = u] /\ change' = [change EXCEPT ![c] = ch]
  /\ pc' = [pc EXCEPT ![c] = IF Demotes(ch) \/ Deactivates(ch)
                             THEN "guard" ELSE "unguarded"]
  /\ UNCHANGED <<role, status, rowLock, seen>>

\* _is_last_active_admin: a target that is no active admin is not the last one.
ReadTarget(c) ==
  /\ pc[c] = "guard"
  /\ pc' = [pc EXCEPT ![c] = IF IsAdmin(target[c]) THEN "admin" ELSE "unguarded"]
  /\ UNCHANGED <<role, status, rowLock, target, change, seen>>

Snapshot(c) ==
  /\ pc[c] = "admin"
  /\ seen' = [seen EXCEPT ![c] = Admins]
  /\ pc' = [pc EXCEPT ![c] = "locking"]
  /\ UNCHANGED <<role, status, rowLock, target, change>>

RowsFree_Unlocked(c) == TRUE  \* mutant: SELECT without FOR UPDATE
RowsFree(c) == \A u \in seen[c] : rowLock[u] = None

\* The rows of the snapshot that are still active admins once all are held
StillAdmins(c) == seen[c] \cap Admins

\* COUNT <= 1 raises _LastAdmin (409, rollback).
CountAdmins(c) ==
  /\ pc[c] = "locking" /\ RowsFree(c)
  /\ IF Cardinality(StillAdmins(c)) <= 1
     THEN End(c)
     ELSE /\ rowLock' = [u \in Users |-> IF u \in StillAdmins(c) THEN c
                                         ELSE rowLock[u]]
          /\ pc' = [pc EXCEPT ![c] = "clear"]
          /\ UNCHANGED <<target, change, seen>>
  /\ UNCHANGED <<role, status>>

Update(c) ==
  LET u == target[c]  ch == change[c]
  IN /\ pc[c] \in {"clear", "unguarded"} /\ rowLock[u] \in {None, c}
     /\ role' = IF ch.role = None THEN role ELSE [role EXCEPT ![u] = ch.role]
     /\ status' = IF ch.status = None THEN status
                  ELSE [status EXCEPT ![u] = ch.status]
     /\ End(c)

Abort(c) == pc[c] # "idle" /\ End(c) /\ UNCHANGED <<role, status>>

Call(c) ==
  \/ \E u \in Users, ch \in Change : Begin(c, u, ch)
  \/ ReadTarget(c) \/ Snapshot(c) \/ CountAdmins(c) \/ Update(c) \/ Abort(c)

Next == \E c \in Calls : Call(c)

Spec == Init /\ [][Next]_vars

-----------------------------------------------------------------------------
(* Properties *)

TypeOK ==
  /\ role \in [Users -> Roles] /\ status \in [Users -> Statuses]
  /\ rowLock \in [Users -> Calls \cup {None}]
  /\ pc \in [Calls -> {"idle", "guard", "admin", "locking", "clear", "unguarded"}]
  /\ target \in [Calls -> Users \cup {None}]
  /\ change \in [Calls -> Change \cup {None}]
  /\ seen \in [Calls -> SUBSET Users]

\* AUTH-05 (users.py:82) "serializando mutacoes concorrentes": a call the guard
\* let through never takes the last active administrator away, whatever other
\* calls demote, deactivate or promote meanwhile.  Only a call whose target was
\* no active admin when the guard read it can: the target was promoted since.
GuardedKeepsAnAdmin ==
  [][Admins # {} /\ Admins' = {} =>
       \A c \in Calls : pc[c] = "clear" => pc'[c] = "clear"]_vars
=============================================================================
