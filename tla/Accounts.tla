------------------------------ MODULE Accounts -----------------------------
(***************************************************************************)
(* The account of one user of an organization: login, forgotten password   *)
(* and reset (handlers/users.py), and the check that every admin and       *)
(* writing route makes of a session (authorizers/jwt_authorizer.py,        *)
(* utils/context.py load_active_caller), beside the administrators who     *)
(* activate and deactivate that user (OrgAdmins).                          *)
(*                                                                         *)
(* Time is the clock of the database in ticks; a token keeps whole seconds *)
(* only.  NOW() is the start of a transaction, not of a statement.  Login  *)
(* verifies the hash that it read after its transaction has ended.         *)
(***************************************************************************)
EXTENDS OrgAdmins, Sequences

CONSTANTS
  Owner,       \* the user whose account it is
  Logins, Forgots, Resets,  \* calls of the three public routes, each runs once
  MaxClock,    \* bound on the clock
  Second,      \* the second each tick falls in
  Cooldown,    \* 60 seconds between two links, in ticks
  LinkLife,    \* 1 hour, in ticks
  SessionLife  \* TOKEN_TTL_SECONDS, in seconds

Ticks == 0..MaxClock
Original == "original"  \* the password given at signup
Link == [token : Forgots, createdAt : Ticks, expiresAt : Nat]  \* password_resets

ASSUME AccountsAssumption ==
  /\ Owner \in Users
  /\ None \notin Logins \cup Forgots \cup Resets /\ None \notin Ticks \cup Link
  /\ Forgots \cap Resets = {}
  /\ Original \notin Resets \cup {None}
  /\ MaxClock \in Nat /\ Cooldown \in Nat /\ LinkLife \in Nat /\ SessionLife \in Nat
  /\ Second \in [Ticks -> Nat]
  /\ \A s, t \in Ticks : s <= t => Second[s] <= Second[t]

VARIABLES
  clock,
  password,   \* users.password_hash: Original, or the reset that wrote it
  changedAt,  \* users.password_changed_at, or None
  link,       \* the row of password_resets, or None
  linkLock,   \* the reset that deleted it and has not committed
  inbox,      \* tokens that reached the user by e-mail
  issued,     \* history: every link issued, when, and the password it replaces
  loginPc, verified, session,  \* per login: the hash it read, the token it gave
  forgotPc, resetPc, typed,    \* control; the token each reset sends
  now         \* NOW() of the transaction of each forgot and reset

accountVars == <<clock, password, changedAt, link, linkLock, inbox, issued,
                 loginPc, verified, session, forgotPc, resetPc, typed, now>>
sessionVars == <<loginPc, verified, session>>
linkVars == <<link, linkLock, inbox, issued, forgotPc, resetPc, typed, now>>

Passwords == {Original} \cup Resets

AccountsInit ==
  /\ Init
  /\ clock = 0 /\ password = Original /\ changedAt = None
  /\ link = None /\ linkLock = None /\ inbox = {} /\ issued = <<>>
  /\ loginPc = [l \in Logins |-> "idle"]
  /\ verified = [l \in Logins |-> None] /\ session = [l \in Logins |-> None]
  /\ forgotPc = [f \in Forgots |-> "idle"]
  /\ resetPc = [r \in Resets |-> "idle"] /\ typed = [r \in Resets |-> None]
  /\ now = [x \in Forgots \cup Resets |-> None]

Tick ==
  /\ clock < MaxClock /\ clock' = clock + 1
  /\ UNCHANGED <<password, changedAt, linkVars, sessionVars>>

-----------------------------------------------------------------------------
(* Login and the check of a session *)

\* One SELECT in a transaction of its own: an inactive user is not found.
LoginRead(l) ==
  /\ loginPc[l] = "idle" /\ status[Owner] = "active"
  /\ verified' = [verified EXCEPT ![l] = password]
  /\ loginPc' = [loginPc EXCEPT ![l] = "read"]
  /\ UNCHANGED <<clock, password, changedAt, session, linkVars>>

\* The password matches the hash that was read; create_access_token.
LoginIssue(l) ==
  /\ loginPc[l] = "read"
  /\ session' = [session EXCEPT ![l] = [password |-> verified[l], iat |-> Second[clock]]]
  /\ loginPc' = [loginPc EXCEPT ![l] = "done"]
  /\ UNCHANGED <<clock, password, changedAt, verified, linkVars>>

\* It does not match (401), or the call dies.
LoginFails(l) ==
  /\ loginPc[l] = "read"
  /\ loginPc' = [loginPc EXCEPT ![l] = "done"]
  /\ UNCHANGED <<clock, password, changedAt, verified, session, linkVars>>

\* authorize: the token has not expired
Live(l) == session[l] # None /\ Second[clock] < session[l].iat + SessionLife

Revoked_Exact(l) ==  \* mutant: the instant of the change without floor
  /\ changedAt # None
  /\ \/ session[l].iat < Second[changedAt]
     \/ changedAt > 0 /\ session[l].iat = Second[changedAt - 1]
\* load_active_caller: the second of the token against the second of the change
Revoked(l) == changedAt # None /\ session[l].iat < Second[changedAt]

Accepted(l) == Live(l) /\ status[Owner] = "active" /\ ~Revoked(l)

-----------------------------------------------------------------------------
(* A forgotten password: one link per user, renewed after the cooldown *)

ForgotBegin(f) ==
  /\ forgotPc[f] = "idle"
  /\ now' = [now EXCEPT ![f] = clock]
  /\ forgotPc' = [forgotPc EXCEPT ![f] = "open"]
  /\ UNCHANGED <<clock, password, changedAt, sessionVars, link, linkLock, inbox,
                 issued, resetPc, typed>>

NewLink_NotRenewed(f) ==  \* mutant: DO UPDATE without created_at
  [token |-> f, expiresAt |-> now[f] + LinkLife,
   createdAt |-> IF link = None THEN now[f] ELSE link.createdAt]
NewLink(f) ==
  [token |-> f, expiresAt |-> now[f] + LinkLife, createdAt |-> now[f]]

Cooled(f) == link # None => link.createdAt + Cooldown < now[f]

\* The upsert waits for a reset that holds the row; then it issues a link ...
Issue(f) ==
  /\ forgotPc[f] = "open" /\ linkLock = None /\ Cooled(f)
  /\ link' = NewLink(f)
  /\ issued' = Append(issued, [token |-> f, at |-> now[f], under |-> password])
  /\ forgotPc' = [forgotPc EXCEPT ![f] = "issued"]
  /\ UNCHANGED <<clock, password, changedAt, sessionVars, linkLock, inbox,
                 resetPc, typed, now>>

\* ... or keeps the one in force; or the transaction fails.
Throttle(f) ==
  /\ forgotPc[f] = "open" /\ linkLock = None /\ ~Cooled(f)
  /\ forgotPc' = [forgotPc EXCEPT ![f] = "done"]
  /\ UNCHANGED <<clock, password, changedAt, sessionVars, link, linkLock, inbox,
                 issued, resetPc, typed, now>>

ForgotFails(f) ==
  /\ forgotPc[f] = "open"
  /\ forgotPc' = [forgotPc EXCEPT ![f] = "done"]
  /\ UNCHANGED <<clock, password, changedAt, sessionVars, link, linkLock, inbox,
                 issued, resetPc, typed, now>>

\* After the commit: a link whose e-mail fails stays in force, known to nobody.
SendEmail(f) ==
  /\ forgotPc[f] = "issued"
  /\ inbox' \in {inbox, inbox \cup {f}}
  /\ forgotPc' = [forgotPc EXCEPT ![f] = "done"]
  /\ UNCHANGED <<clock, password, changedAt, sessionVars, link, linkLock,
                 issued, resetPc, typed, now>>

-----------------------------------------------------------------------------
(* Reset: one transaction that consumes the link and writes the password *)

ResetBegin(r, t) ==
  /\ resetPc[r] = "idle" /\ t \in inbox
  /\ typed' = [typed EXCEPT ![r] = t]
  /\ now' = [now EXCEPT ![r] = clock]
  /\ resetPc' = [resetPc EXCEPT ![r] = "waiting"]
  /\ UNCHANGED <<clock, password, changedAt, sessionVars, link, linkLock, inbox,
                 issued, forgotPc>>

Usable(r) ==
  link # None /\ link.token = typed[r] /\ now[r] < link.expiresAt

LinkFree_Unlocked(r) == TRUE  \* mutant: SELECT of the link, deleted at the end
LinkFree(r) == linkLock = None

\* DELETE ... RETURNING waits for another holder and re-checks its WHERE.
Consume(r) ==
  /\ resetPc[r] = "waiting" /\ LinkFree(r)
  /\ IF Usable(r)
     THEN /\ resetPc' = [resetPc EXCEPT ![r] = "holding"]
          /\ linkLock' = r
     ELSE /\ resetPc' = [resetPc EXCEPT ![r] = "ended"]
          /\ UNCHANGED linkLock
  /\ UNCHANGED <<clock, password, changedAt, sessionVars, link, inbox, issued,
                 forgotPc, typed, now>>

ChangedAt(r) == now[r]

\* UPDATE of the user, who may be held by _is_last_active_admin, and commit
ChangePassword(r) ==
  /\ resetPc[r] = "holding" /\ rowLock[Owner] = None
  /\ password' = r /\ changedAt' = ChangedAt(r)
  /\ link' = None /\ linkLock' = None
  /\ resetPc' = [resetPc EXCEPT ![r] = "changed"]
  /\ UNCHANGED <<clock, sessionVars, inbox, issued, forgotPc, typed, now>>

\* Any error rolls back: the link is there again.
ResetFails(r) ==
  /\ resetPc[r] \in {"waiting", "holding"}
  /\ linkLock' = IF linkLock = r THEN None ELSE linkLock
  /\ resetPc' = [resetPc EXCEPT ![r] = "ended"]
  /\ UNCHANGED <<clock, password, changedAt, sessionVars, link, inbox, issued,
                 forgotPc, typed, now>>

-----------------------------------------------------------------------------
AccountStep ==
  \/ Tick
  \/ \E l \in Logins : LoginRead(l) \/ LoginIssue(l) \/ LoginFails(l)
  \/ \E f \in Forgots : \/ ForgotBegin(f) \/ Issue(f) \/ Throttle(f)
                        \/ ForgotFails(f) \/ SendEmail(f)
  \/ \E r \in Resets : \/ \E t \in Forgots : ResetBegin(r, t)
                       \/ Consume(r) \/ ChangePassword(r) \/ ResetFails(r)

AccountsNext ==
  \/ AccountStep /\ UNCHANGED vars
  \/ Next /\ UNCHANGED accountVars

AccountsSpec == AccountsInit /\ [][AccountsNext]_<<vars, accountVars>>

-----------------------------------------------------------------------------
(* Properties *)

AccountsTypeOK ==
  /\ clock \in Ticks /\ password \in Passwords /\ changedAt \in Ticks \cup {None}
  /\ link \in Link \cup {None} /\ linkLock \in Resets \cup {None}
  /\ inbox \in SUBSET Forgots
  /\ issued \in Seq([token : Forgots, at : Ticks, under : Passwords])
  /\ loginPc \in [Logins -> {"idle", "read", "done"}]
  /\ verified \in [Logins -> Passwords \cup {None}]
  /\ session \in [Logins -> [password : Passwords, iat : Nat] \cup {None}]
  /\ forgotPc \in [Forgots -> {"idle", "open", "issued", "done"}]
  /\ resetPc \in [Resets -> {"idle", "waiting", "holding", "changed", "ended"}]
  /\ typed \in [Resets -> Forgots \cup {None}]
  /\ now \in [Forgots \cup Resets -> Ticks \cup {None}]

\* AUTH-02 (context.py:219): a session opened with the present password is never
\* taken for an older one, though the token keeps whole seconds and the login may
\* answer in the very second of the reset.
FreshIsAccepted ==
  \A l \in Logins :
    Live(l) /\ status[Owner] = "active" /\ session[l].password = password => Accepted(l)

\* README.md:184 "O reset de senha revoga sessões anteriores": a session of an
\* older password that is still accepted was given in the second the reset that
\* replaced it began, or later: by a login that had read the old hash.
OutdatedIsRefused ==
  \A l \in Logins :
    Accepted(l) /\ session[l].password # password
      => session[l].iat >= Second[now[password]]

RevocationIsExact == FreshIsAccepted /\ OutdatedIsRefused

\* "uso único (atômico)" (README.md:183, users.py:290): a link changes the password
\* once, and only while it is the newest and was in force when the reset began,
\* whatever resets and requests for a new link meet, fail or wait in between.
OnlyNewestLinkOnce ==
  [][\A r \in Resets : resetPc[r] # "changed" /\ resetPc'[r] = "changed" =>
       LET newest == issued[Len(issued)]
       IN /\ typed[r] = newest.token
          /\ now[r] < newest.at + LinkLife
          /\ \A q \in Resets : resetPc[q] = "changed" => typed[q] # typed[r]
    ]_<<vars, accountVars>>

\* SEC-08 (users.py:241) "COOLDOWN atômico": two links in a row are more than a
\* cooldown apart, unless a reset used the first.
LinksSpaced ==
  \A i \in 1..(Len(issued) - 1) :
    issued[i].under = issued[i + 1].under
      => issued[i].at + Cooldown < issued[i + 1].at
=============================================================================
