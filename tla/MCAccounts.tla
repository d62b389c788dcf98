---------------------------- MODULE MCAccounts -----------------------------
(* Instances of Accounts and OrgAdmins for TLC.  Three scenes share one run:  *)
(* "admins": two calls race over roles and nobody uses the account;           *)
(* "session": a login and two requests for a link, while one call at a time   *)
(* deactivates or reactivates the owner; "links": more requests for a link    *)
(* and no login.  Two ticks are a second.  Analysts and viewers are alike to  *)
(* these calls, so there are no viewers.                                      *)
EXTENDS Accounts, TLC

VARIABLE scene

TwoTicks == [t \in Ticks |-> t \div 2]

MCInit ==
  /\ AccountsInit /\ scene \in {"admins", "session", "links"}
  /\ \A u \in Users : role[u] # "viewer"
  /\ scene # "admins" => Admins = Users

Race ==
  /\ Next
  /\ \A c \in Calls : change'[c] # None => change'[c].role # "viewer"

SwitchOwner(c) ==
  /\ \A d \in Calls \ {c} : pc[d] = "idle"
  /\ \/ \E s \in Statuses \ {status[Owner]} :
          Begin(c, Owner, [role |-> None, status |-> s])
     \/ ReadTarget(c) \/ Snapshot(c) \/ CountAdmins(c) \/ Update(c) \/ Abort(c)

Requested == {f \in Forgots : forgotPc[f] # "idle"}

MCNext ==
  /\ UNCHANGED scene
  /\ \/ scene = "admins" /\ Race /\ UNCHANGED accountVars
     \/ scene = "session" /\ (\E c \in Calls : SwitchOwner(c)) /\ UNCHANGED accountVars
     \/ /\ scene # "admins" /\ AccountStep /\ UNCHANGED vars
        /\ IF scene = "session" THEN Cardinality(Requested') <= 2
           ELSE UNCHANGED sessionVars

MCSpec == MCInit /\ [][MCNext]_<<vars, accountVars, scene>>

Symmetry == Permutations(Users \ {Owner}) \cup Permutations(Calls)
            \cup Permutations(Forgots) \cup Permutations(Resets)
=============================================================================
