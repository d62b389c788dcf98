--------------------------- MODULE AccountsProofs --------------------------
(***************************************************************************)
(* Theorems of OrgAdmins and Accounts.  A session is compared with the     *)
(* instant of the password in force, which no later step moves; the row of *)
(* the link, and the reset that holds it, always agree with the last link  *)
(* issued.                                                                 *)
(***************************************************************************)
EXTENDS Accounts, FiniteSetTheorems, SequenceTheorems, TLAPS

-----------------------------------------------------------------------------
(* The administrators (OrgAdmins).  A call the guard let through holds the    *)
(* rows of two active administrators; nobody else can change them, and the    *)
(* call itself changes one row.                                               *)

\* Call c holds the rows of two active administrators.
HoldsTwo(c) ==
  \E u, v \in Users : /\ u # v /\ rowLock[u] = c /\ rowLock[v] = c
                      /\ IsAdmin(u) /\ IsAdmin(v)

\* _is_last_active_admin answered no: the call holds two of them until it ends.
GuardInv == \A c \in Calls : pc[c] = "clear" => HoldsTwo(c)

\* A call that has begun asks for a change of a user.
AskInv ==
  \A c \in Calls : pc[c] # "idle" => target[c] \in Users /\ change[c] \in Change

AdminsInv == TypeOK /\ AskInv /\ GuardInv

\* A finite set that counts more than one has two elements.
LEMMA TwoOfMany ==
  ASSUME NEW S, IsFiniteSet(S), ~(Cardinality(S) <= 1)
  PROVE \E u, v \in S : u # v
<1> SUFFICES ASSUME \A u, v \in S : u = v PROVE FALSE
  OBVIOUS
<1>1. CASE S = {}
  BY <1>1, FS_EmptySet
<1>2. CASE S # {}
  <2>1. PICK x \in S : S = {x}
    BY <1>2
  <2> QED
    BY <2>1, FS_Singleton
<1> QED
  BY <1>1, <1>2

\* No call is under way at first.
LEMMA InitAdmins == Init => AdminsInv
  BY DEF Init, AdminsInv, TypeOK, AskInv, GuardInv

\* Every variable keeps its type, and every call what it asks for.
LEMMA AdminsTypeStep == TypeOK /\ AskInv /\ [Next]_vars => TypeOK' /\ AskInv'
<1> SUFFICES ASSUME TypeOK, AskInv, [Next]_vars PROVE TypeOK' /\ AskInv'
  OBVIOUS
<1> USE AdminsAssumption DEF TypeOK, AskInv
<1>1. ASSUME NEW c \in Calls, NEW u \in Users, NEW ch \in Change, Begin(c, u, ch)
      PROVE TypeOK' /\ AskInv'
  BY <1>1 DEF Begin
<1>2. ASSUME NEW c \in Calls, ReadTarget(c) PROVE TypeOK' /\ AskInv'
  BY <1>2 DEF ReadTarget
<1>3. ASSUME NEW c \in Calls, Snapshot(c) PROVE TypeOK' /\ AskInv'
  BY <1>3 DEF Snapshot, Admins
<1>4. ASSUME NEW c \in Calls, CountAdmins(c) PROVE TypeOK' /\ AskInv'
  BY <1>4 DEF CountAdmins, End
<1>5. ASSUME NEW c \in Calls, Update(c) PROVE TypeOK' /\ AskInv'
  <2>1. target[c] \in Users /\ change[c] \in Change
    BY <1>5 DEF Update
  <2>2. role' \in [Users -> Roles] /\ status' \in [Users -> Statuses]
    BY <1>5, <2>1 DEF Update, Change
  <2> QED
    BY <1>5, <2>2 DEF Update, End
<1>6. ASSUME NEW c \in Calls, Abort(c) PROVE TypeOK' /\ AskInv'
  BY <1>6 DEF Abort, End
<1>7. CASE UNCHANGED vars
  BY <1>7 DEF vars
<1> QED
  BY <1>1, <1>2, <1>3, <1>4, <1>5, <1>6, <1>7 DEF Next, Call

\* What another call does leaves the rows a call holds, and their columns.
LEMMA RowsAreKept ==
  ASSUME TypeOK, NEW c \in Calls, NEW d \in Calls, c # d,
         CountAdmins(d) \/ Update(d) \/ Abort(d), HoldsTwo(c)
  PROVE HoldsTwo(c)'
<1> USE AdminsAssumption DEF TypeOK
<1>1. PICK u, v \in Users : /\ u # v /\ rowLock[u] = c /\ rowLock[v] = c
                            /\ IsAdmin(u) /\ IsAdmin(v)
  BY DEF HoldsTwo
<1>2. rowLock'[u] = c /\ rowLock'[v] = c
  BY <1>1 DEF CountAdmins, Update, Abort, End, RowsFree, StillAdmins
<1>3. role'[u] = role[u] /\ role'[v] = role[v]
  BY <1>1 DEF CountAdmins, Update, Abort
<1>4. status'[u] = status[u] /\ status'[v] = status[v]
  BY <1>1 DEF CountAdmins, Update, Abort
<1> QED
  BY <1>1, <1>2, <1>3, <1>4 DEF HoldsTwo, IsAdmin

\* COUNT > 1: the call takes the rows of at least two active administrators.
LEMMA CountTakesTwo ==
  ASSUME TypeOK, NEW c \in Calls, CountAdmins(c), pc'[c] = "clear"
  PROVE HoldsTwo(c)'
<1> USE AdminsAssumption DEF TypeOK
<1>1. ~(Cardinality(StillAdmins(c)) <= 1)
  BY DEF CountAdmins, End
<1>2. StillAdmins(c) \subseteq Users /\ IsFiniteSet(StillAdmins(c))
  <2>1. StillAdmins(c) \subseteq Users
    BY DEF StillAdmins, Admins
  <2> QED
    BY <2>1, FS_Subset
<1>3. PICK u, v \in StillAdmins(c) : u # v
  BY <1>1, <1>2, TwoOfMany
<1>4. rowLock'[u] = c /\ rowLock'[v] = c
  BY <1>1, <1>2, <1>3 DEF CountAdmins
<1>5. IsAdmin(u)' /\ IsAdmin(v)'
  BY <1>3 DEF CountAdmins, StillAdmins, Admins, IsAdmin
<1> QED
  BY <1>2, <1>3, <1>4, <1>5 DEF HoldsTwo

\* Every step keeps two administrators in the hands of a call the guard let through.
LEMMA GuardStep == AdminsInv /\ [Next]_vars => GuardInv'
<1> SUFFICES ASSUME AdminsInv, [Next]_vars, NEW c \in Calls, pc'[c] = "clear"
             PROVE HoldsTwo(c)'
  BY DEF GuardInv
<1> USE DEF AdminsInv, TypeOK
<1>1. ASSUME NEW d \in Calls, NEW u \in Users, NEW ch \in Change, Begin(d, u, ch)
      PROVE HoldsTwo(c)'
  BY <1>1 DEF Begin, GuardInv, HoldsTwo, IsAdmin
<1>2. ASSUME NEW d \in Calls, ReadTarget(d) PROVE HoldsTwo(c)'
  BY <1>2 DEF ReadTarget, GuardInv, HoldsTwo, IsAdmin
<1>3. ASSUME NEW d \in Calls, Snapshot(d) PROVE HoldsTwo(c)'
  BY <1>3 DEF Snapshot, GuardInv, HoldsTwo, IsAdmin
<1>4. ASSUME NEW d \in Calls, CountAdmins(d) PROVE HoldsTwo(c)'
  <2>1. CASE c = d
    BY <1>4, <2>1, CountTakesTwo
  <2>2. CASE c # d
    <3>1. pc[c] = "clear"
      BY <1>4, <2>2 DEF CountAdmins, End
    <3> QED
      BY <1>4, <2>2, <3>1, RowsAreKept DEF GuardInv
  <2> QED
    BY <2>1, <2>2
<1>5. ASSUME NEW d \in Calls, Update(d) \/ Abort(d) PROVE HoldsTwo(c)'
  <2>1. c # d /\ pc[c] = "clear"
    BY <1>5 DEF Update, Abort, End
  <2> QED
    BY <1>5, <2>1, RowsAreKept DEF GuardInv
<1>6. CASE UNCHANGED vars
  BY <1>6 DEF vars, GuardInv, HoldsTwo, IsAdmin
<1> QED
  BY <1>1, <1>2, <1>3, <1>4, <1>5, <1>6 DEF Next, Call

\* A call that the guard let through holds two active administrators.
THEOREM AdminsInvariance == Spec => []AdminsInv
<1>1. AdminsInv /\ [Next]_vars => AdminsInv'
  BY AdminsTypeStep, GuardStep DEF AdminsInv
<1> QED
  BY InitAdmins, <1>1, PTL DEF Spec

\* users.py:82: whatever calls run at once, one that the guard let through does
\* not take the last active administrator away.
THEOREM GuardKeepsAnAdmin == Spec => GuardedKeepsAnAdmin
<1>1. ASSUME AdminsInv, [Next]_vars
      PROVE Admins # {} /\ Admins' = {} =>
              \A c \in Calls : pc[c] = "clear" => pc'[c] = "clear"
  <2> SUFFICES ASSUME NEW c \in Calls, pc[c] = "clear", pc'[c] # "clear"
               PROVE Admins' # {}
    OBVIOUS
  <2> USE DEF AdminsInv, TypeOK
  <2>1. Update(c) \/ Abort(c)
    BY <1>1 DEF Next, Call, Begin, ReadTarget, Snapshot, CountAdmins, Update, Abort,
                End, vars
  <2>2. PICK u, v \in Users : u # v /\ IsAdmin(u) /\ IsAdmin(v)
    BY <1>1 DEF GuardInv, HoldsTwo
  <2>3. \E w \in {u, v} : role'[w] = role[w] /\ status'[w] = status[w]
    BY <1>1, <2>1, <2>2 DEF Update, Abort
  <2> QED
    BY <2>2, <2>3 DEF Admins, IsAdmin
<1> QED
  BY <1>1, AdminsInvariance, PTL DEF Spec, GuardedKeepsAnAdmin

\* AccountsSpec keeps the rules of OrgAdmins: a step of the account leaves the rows
\* of the users alone.
THEOREM AccountsImplementsAdmins == AccountsSpec => Spec
<1>1. AccountsInit => Init
  BY DEF AccountsInit
<1>2. [AccountsNext]_<<vars, accountVars>> => [Next]_vars
  BY DEF AccountsNext
<1> QED
  BY <1>1, <1>2, PTL DEF AccountsSpec, Spec

\* The same guard while one of the users logs in, forgets the password and resets it.
THEOREM AccountsKeepAnAdmin == AccountsSpec => GuardedKeepsAnAdmin
<1> QED
  BY AccountsImplementsAdmins, GuardKeepsAnAdmin

-----------------------------------------------------------------------------
(* The account *)

\* What has begun has an instant, no later than the clock, and a token it was sent.
BegunInv ==
  /\ \A x \in Forgots \cup Resets : now[x] # None => now[x] <= clock
  /\ \A f \in Forgots : forgotPc[f] # "idle" => now[f] # None
  /\ \A r \in Resets : resetPc[r] # "idle" => now[r] # None /\ typed[r] \in inbox
  /\ \A f \in inbox : forgotPc[f] = "done"

\* A password that is or has been in force.
Written(p) == p = Original \/ (p \in Resets /\ resetPc[p] = "changed")

\* The password in force and the instant of its change.
PasswordInv ==
  /\ Written(password)
  /\ password = Original => changedAt = None /\ \A r \in Resets : resetPc[r] # "changed"
  /\ password \in Resets => changedAt = now[password]

\* A login read some password, and its token is not older than that password.
SessionInv ==
  \A l \in Logins :
    /\ loginPc[l] = "read" => Written(verified[l])
    /\ session[l] # None =>
         /\ Written(session[l].password)
         /\ session[l].password \in Resets
              => Second[now[session[l].password]] <= session[l].iat

Newest == issued[Len(issued)]

\* The row is the last link issued, unless a reset has used it; that reset wrote
\* another password since.
RowInv ==
  /\ link # None => /\ issued # <<>> /\ link.token = Newest.token
                    /\ link.createdAt = Newest.at
                    /\ link.expiresAt = Newest.at + LinkLife
  /\ link = None /\ issued # <<>> => Newest.under # password
  /\ \A i \in 1..Len(issued) : Written(issued[i].under)

\* The row is held by the reset that matched it, and by no other; a token that was
\* used is not in it.
HolderInv ==
  /\ \A r \in Resets : resetPc[r] = "holding" => linkLock = r /\ Usable(r)
  /\ linkLock # None => resetPc[linkLock] = "holding"
  /\ \A r \in Resets : resetPc[r] = "changed" /\ link # None => link.token # typed[r]

IInv == /\ AccountsTypeOK /\ BegunInv /\ PasswordInv /\ SessionInv
        /\ RowInv /\ HolderInv /\ LinksSpaced
-----------------------------------------------------------------------------
allVars == <<vars, accountVars>>

\* A step that is not one of the account leaves all of it.
LEMMA OtherSteps ==
  ASSUME [AccountsNext]_allVars, ~AccountStep PROVE UNCHANGED accountVars
BY DEF AccountsNext, allVars

\* The account starts with its first password, and nothing under way.
LEMMA InitIInv == AccountsInit => IInv
<1> SUFFICES ASSUME AccountsInit PROVE IInv
  OBVIOUS
<1> USE AccountsAssumption
<1>1. AccountsTypeOK
  BY DEF AccountsInit, AccountsTypeOK, Ticks, Passwords, Link
<1>2. BegunInv /\ PasswordInv /\ SessionInv /\ HolderInv
  BY DEF AccountsInit, BegunInv, PasswordInv, SessionInv, HolderInv, Written
<1>3. RowInv /\ LinksSpaced
  BY DEF AccountsInit, RowInv, LinksSpaced
<1> QED
  BY <1>1, <1>2, <1>3 DEF IInv

\* Every variable of the account keeps its type.
LEMMA TypeStep ==
  ASSUME AccountsTypeOK, BegunInv, SessionInv, [AccountsNext]_allVars PROVE AccountsTypeOK'
<1> USE AccountsAssumption DEF AccountsTypeOK, sessionVars, linkVars
<1>1. CASE Tick
  BY <1>1 DEF Tick, Ticks
<1>2. ASSUME NEW l \in Logins, LoginRead(l) \/ LoginIssue(l) \/ LoginFails(l)
      PROVE AccountsTypeOK'
  <2>1. clock \in Ticks /\ Second[clock] \in Nat
    OBVIOUS
  <2>2. loginPc' \in [Logins -> {"idle", "read", "done"}]
    BY <1>2 DEF LoginRead, LoginIssue, LoginFails
  <2>3. verified' \in [Logins -> Passwords \cup {None}]
    BY <1>2 DEF LoginRead, LoginIssue, LoginFails
  <2>4. session' \in [Logins -> [password : Passwords, iat : Nat] \cup {None}]
    <3>1. loginPc[l] = "read" => verified[l] \in Passwords
      BY DEF SessionInv, Written, Passwords
    <3> QED
      BY <1>2, <2>1, <3>1 DEF LoginRead, LoginIssue, LoginFails
  <2> QED
    BY <1>2, <2>2, <2>3, <2>4 DEF LoginRead, LoginIssue, LoginFails
<1>3. ASSUME NEW f \in Forgots, ForgotBegin(f) PROVE AccountsTypeOK'
  BY <1>3 DEF ForgotBegin
<1>4. ASSUME NEW f \in Forgots, Issue(f) PROVE AccountsTypeOK'
  <2>1. now[f] \in Ticks /\ now[f] + LinkLife \in Nat
    BY <1>4 DEF Issue, BegunInv, Ticks
  <2>2. link' \in Link
    BY <1>4, <2>1 DEF Issue, NewLink, Link
  <2>3. issued' \in Seq([token : Forgots, at : Ticks, under : Passwords])
    BY <1>4, <2>1, AppendProperties DEF Issue
  <2> QED
    BY <1>4, <2>2, <2>3 DEF Issue
<1>5. ASSUME NEW f \in Forgots, Throttle(f) \/ ForgotFails(f) \/ SendEmail(f)
      PROVE AccountsTypeOK'
  BY <1>5 DEF Throttle, ForgotFails, SendEmail
<1>6. ASSUME NEW r \in Resets, NEW t \in Forgots, ResetBegin(r, t) PROVE AccountsTypeOK'
  BY <1>6 DEF ResetBegin
<1>7. ASSUME NEW r \in Resets, Consume(r) \/ ResetFails(r) PROVE AccountsTypeOK'
  BY <1>7 DEF Consume, ResetFails
<1>8. ASSUME NEW r \in Resets, ChangePassword(r) PROVE AccountsTypeOK'
  BY <1>8 DEF ChangePassword, ChangedAt, Passwords
<1>9. CASE UNCHANGED accountVars
  BY <1>9 DEF accountVars
<1> QED
  BY <1>1, <1>2, <1>3, <1>4, <1>5, <1>6, <1>7, <1>8, <1>9, OtherSteps DEF AccountStep

\* The clock only advances, and a transaction keeps its instant.
LEMMA BegunStep ==
  ASSUME AccountsTypeOK, BegunInv, [AccountsNext]_allVars PROVE BegunInv'
<1> USE AccountsAssumption DEF AccountsTypeOK, BegunInv, sessionVars, linkVars
<1>1. CASE Tick
  BY <1>1 DEF Tick, Ticks
<1>2. ASSUME NEW l \in Logins, LoginRead(l) \/ LoginIssue(l) \/ LoginFails(l)
      PROVE BegunInv'
  BY <1>2 DEF LoginRead, LoginIssue, LoginFails
<1>3. ASSUME NEW f \in Forgots, ForgotBegin(f) PROVE BegunInv'
  BY <1>3 DEF ForgotBegin, Ticks
<1>4. ASSUME NEW f \in Forgots, Issue(f) \/ Throttle(f) \/ ForgotFails(f) \/ SendEmail(f)
      PROVE BegunInv'
  BY <1>4 DEF Issue, Throttle, ForgotFails, SendEmail
<1>5. ASSUME NEW r \in Resets, NEW t \in Forgots, ResetBegin(r, t) PROVE BegunInv'
  BY <1>5 DEF ResetBegin, Ticks
<1>6. ASSUME NEW r \in Resets, Consume(r) \/ ResetFails(r) PROVE BegunInv'
  BY <1>6 DEF Consume, ResetFails
<1>7. ASSUME NEW r \in Resets, ChangePassword(r) PROVE BegunInv'
  BY <1>7 DEF ChangePassword
<1>8. CASE UNCHANGED accountVars
  BY <1>8 DEF accountVars
<1> QED
  BY <1>1, <1>2, <1>3, <1>4, <1>5, <1>6, <1>7, <1>8, OtherSteps DEF AccountStep

\* A reset that has changed the password stays so, and keeps its instant.
LEMMA WrittenStays ==
  ASSUME AccountsTypeOK, [AccountsNext]_allVars,
         NEW r \in Resets, resetPc[r] = "changed"
  PROVE resetPc'[r] = "changed" /\ now'[r] = now[r]
<1> USE AccountsAssumption DEF AccountsTypeOK, sessionVars, linkVars
<1>1. CASE Tick \/ \E l \in Logins : LoginRead(l) \/ LoginIssue(l) \/ LoginFails(l)
  BY <1>1 DEF Tick, LoginRead, LoginIssue, LoginFails
<1>2. ASSUME NEW f \in Forgots, \/ ForgotBegin(f) \/ Issue(f) \/ Throttle(f)
                                \/ ForgotFails(f) \/ SendEmail(f)
      PROVE resetPc'[r] = "changed" /\ now'[r] = now[r]
  BY <1>2 DEF ForgotBegin, Issue, Throttle, ForgotFails, SendEmail
<1>3. ASSUME NEW q \in Resets, \/ \E t \in Forgots : ResetBegin(q, t)
                               \/ Consume(q) \/ ChangePassword(q) \/ ResetFails(q)
      PROVE resetPc'[r] = "changed" /\ now'[r] = now[r]
  BY <1>3 DEF ResetBegin, Consume, ChangePassword, ResetFails
<1>4. CASE UNCHANGED accountVars
  BY <1>4 DEF accountVars
<1> QED
  BY <1>1, <1>2, <1>3, <1>4, OtherSteps DEF AccountStep

\* Only ChangePassword writes the password and its instant, and answers 200.
LEMMA OnlyResetsWrite ==
  ASSUME AccountsTypeOK, [AccountsNext]_allVars, \A r \in Resets : ~ChangePassword(r)
  PROVE /\ UNCHANGED <<password, changedAt>>
        /\ \A r \in Resets : resetPc'[r] = "changed" => resetPc[r] = "changed"
<1> USE DEF AccountsTypeOK, sessionVars, linkVars
<1>1. CASE Tick \/ \E l \in Logins : LoginRead(l) \/ LoginIssue(l) \/ LoginFails(l)
  BY <1>1 DEF Tick, LoginRead, LoginIssue, LoginFails
<1>2. CASE \E f \in Forgots : \/ ForgotBegin(f) \/ Issue(f) \/ Throttle(f)
                              \/ ForgotFails(f) \/ SendEmail(f)
  BY <1>2 DEF ForgotBegin, Issue, Throttle, ForgotFails, SendEmail
<1>3. CASE \E q \in Resets : \/ \E t \in Forgots : ResetBegin(q, t)
                             \/ Consume(q) \/ ResetFails(q)
  BY <1>3 DEF ResetBegin, Consume, ResetFails
<1>4. CASE UNCHANGED accountVars
  BY <1>4 DEF accountVars
<1> QED
  BY <1>1, <1>2, <1>3, <1>4, OtherSteps DEF AccountStep

\* changedAt is the instant at which the reset that wrote the password began.
LEMMA PasswordStep ==
  ASSUME AccountsTypeOK, PasswordInv, [AccountsNext]_allVars PROVE PasswordInv'
<1> USE AccountsAssumption
<1>1. ASSUME NEW r \in Resets, ChangePassword(r) PROVE PasswordInv'
  BY <1>1 DEF ChangePassword, ChangedAt, PasswordInv, Written, AccountsTypeOK
<1>2. CASE \A r \in Resets : ~ChangePassword(r)
  BY <1>2, OnlyResetsWrite, WrittenStays DEF PasswordInv, Written
<1> QED
  BY <1>1, <1>2

\* A token is issued no earlier than the change of the password it was given for.
LEMMA SessionStep ==
  ASSUME AccountsTypeOK, BegunInv, PasswordInv, SessionInv, [AccountsNext]_allVars
  PROVE SessionInv'
<1> USE AccountsAssumption DEF AccountsTypeOK
<1>1. \A p : Written(p) => Written(p)'
  BY WrittenStays DEF Written
<1>2. ASSUME NEW l \in Logins, LoginRead(l) PROVE SessionInv'
  BY <1>1, <1>2 DEF LoginRead, linkVars, PasswordInv, SessionInv
<1>3. ASSUME NEW l \in Logins, LoginIssue(l) PROVE SessionInv'
  <2>1. Written(verified[l])
    BY <1>3 DEF LoginIssue, SessionInv
  <2>2. verified[l] \in Resets => Second[now[verified[l]]] <= Second[clock]
    BY <2>1 DEF Written, BegunInv, Ticks
  <2> QED
    BY <1>1, <1>3, <2>1, <2>2 DEF LoginIssue, linkVars, SessionInv
<1>4. ASSUME NEW l \in Logins, LoginFails(l) PROVE SessionInv'
  BY <1>1, <1>4 DEF LoginFails, linkVars, SessionInv
<1>5. ASSUME UNCHANGED sessionVars PROVE SessionInv'
  <2>1. \A r \in Resets : resetPc[r] = "changed" => now'[r] = now[r]
    BY WrittenStays
  <2> QED
    BY <1>1, <1>5, <2>1 DEF sessionVars, SessionInv, Written
<1>6. CASE \A l \in Logins : ~(LoginRead(l) \/ LoginIssue(l) \/ LoginFails(l))
  BY <1>5, <1>6, OtherSteps DEF AccountStep, Tick, ForgotBegin, Issue, Throttle,
    ForgotFails, SendEmail, ResetBegin, Consume, ChangePassword, ResetFails,
    sessionVars, accountVars
<1> QED
  BY <1>2, <1>3, <1>4, <1>6

-----------------------------------------------------------------------------
\* The row and its holder change only in these steps.
LEMMA OnlyLinkSteps ==
  ASSUME AccountsTypeOK, [AccountsNext]_allVars,
         \A f \in Forgots : ~Issue(f),
         \A r \in Resets : ~(Consume(r) \/ ChangePassword(r) \/ ResetFails(r))
  PROVE /\ UNCHANGED <<link, linkLock, issued, password>>
        /\ \A r \in Resets : /\ resetPc'[r] = "holding" <=> resetPc[r] = "holding"
                             /\ resetPc'[r] = "changed" <=> resetPc[r] = "changed"
                             /\ resetPc[r] # "idle" => /\ typed'[r] = typed[r]
                                                        /\ now'[r] = now[r]
<1> USE AccountsAssumption DEF AccountsTypeOK, sessionVars, linkVars
<1>1. CASE Tick \/ \E l \in Logins : LoginRead(l) \/ LoginIssue(l) \/ LoginFails(l)
  BY <1>1 DEF Tick, LoginRead, LoginIssue, LoginFails
<1>2. CASE \E f \in Forgots : ForgotBegin(f) \/ Throttle(f) \/ ForgotFails(f) \/ SendEmail(f)
  BY <1>2 DEF ForgotBegin, Throttle, ForgotFails, SendEmail
<1>3. CASE \E q \in Resets, t \in Forgots : ResetBegin(q, t)
  BY <1>3 DEF ResetBegin
<1>4. CASE UNCHANGED accountVars
  BY <1>4 DEF accountVars
<1> QED
  BY <1>1, <1>2, <1>3, <1>4, OtherSteps DEF AccountStep

\* A new link is appended to those issued before.
LEMMA IssueAppends ==
  ASSUME AccountsTypeOK, BegunInv, NEW f \in Forgots, Issue(f)
  PROVE /\ now[f] \in Ticks /\ issued' # <<>>
        /\ Len(issued) \in Nat /\ Len(issued') = Len(issued) + 1
        /\ issued'[Len(issued')] = [token |-> f, at |-> now[f], under |-> password]
        /\ \A i \in 1..Len(issued) : issued'[i] = issued[i]
<1>1. now[f] \in Ticks
  BY AccountsAssumption DEF Issue, BegunInv, AccountsTypeOK
<1>2. issued \in Seq([token : Forgots, at : Ticks, under : Passwords])
  BY DEF AccountsTypeOK
<1>3. [token |-> f, at |-> now[f], under |-> password]
        \in [token : Forgots, at : Ticks, under : Passwords]
  BY <1>1 DEF AccountsTypeOK
<1> QED
  BY <1>1, <1>2, <1>3, AppendProperties, LenProperties DEF Issue, Ticks

\* A reset that writes the password held the row of the newest link.
LEMMA HolderUsesNewest ==
  ASSUME AccountsTypeOK, RowInv, HolderInv, NEW r \in Resets, ChangePassword(r)
  PROVE /\ linkLock = r /\ link # None /\ issued # <<>>
        /\ typed[r] = Newest.token /\ now[r] < Newest.at + LinkLife
        /\ \A q \in Resets : resetPc[q] = "changed" => typed[q] # typed[r]
BY DEF ChangePassword, HolderInv, RowInv, Usable

\* The row agrees with the last link issued.
LEMMA RowStep ==
  ASSUME IInv, [AccountsNext]_allVars PROVE RowInv'
<1> USE AccountsAssumption DEF IInv, AccountsTypeOK
<1>1. \A p : Written(p) => Written(p)'
  BY WrittenStays DEF Written
<1>2. ASSUME NEW f \in Forgots, Issue(f) PROVE RowInv'
  <2>1. link' = NewLink(f) /\ link' # None
    <3>1. NewLink(f) \in Link
      <4>1. now[f] \in Ticks
        BY <1>2, IssueAppends
      <4>2. now[f] + LinkLife \in Nat
        BY <4>1 DEF Ticks
      <4> QED
        BY <4>1, <4>2 DEF NewLink, Link
    <3> QED
      BY <1>2, <3>1 DEF Issue
  <2>2. Written(password)
    BY DEF PasswordInv
  <2>3. Newest' = [token |-> f, at |-> now[f], under |-> password] /\ issued' # <<>>
    BY <1>2, IssueAppends DEF Newest
  <2>4. \A i \in 1..Len(issued') : Written(issued'[i].under)
    <3> SUFFICES ASSUME NEW i \in 1..Len(issued') PROVE Written(issued'[i].under)
      OBVIOUS
    <3>1. CASE i \in 1..Len(issued)
      <4>1. issued'[i] = issued[i] /\ Written(issued[i].under)
        BY <1>2, <3>1, IssueAppends DEF RowInv
      <4> QED
        BY <4>1
    <3>2. CASE i = Len(issued')
      BY <2>2, <2>3, <3>2 DEF Newest
    <3>3. i \in 1..Len(issued) \/ i = Len(issued')
      <4> HIDE DEF IInv, AccountsTypeOK
      <4>1. Len(issued) \in Nat /\ Len(issued') = Len(issued) + 1
        BY <1>2, IssueAppends DEF IInv
      <4> QED
        BY <4>1
    <3> QED
      BY <3>1, <3>2, <3>3
  <2> QED
    BY <1>1, <2>1, <2>3, <2>4 DEF RowInv, NewLink
<1>3. ASSUME NEW r \in Resets, ChangePassword(r) PROVE RowInv'
  <2>1. link' = None /\ issued' = issued /\ password' = r /\ resetPc[r] = "holding"
    BY <1>3 DEF ChangePassword
  <2>2. ~Written(r)
    BY <2>1 DEF Written
  <2>3. Len(issued) \in 1..Len(issued)
    BY <1>3, HolderUsesNewest, LenProperties, EmptySeq
  <2>4. Newest.under # r
    BY <2>2, <2>3 DEF RowInv, Newest
  <2> QED
    BY <1>1, <2>1, <2>4 DEF RowInv, Newest
<1>4. ASSUME UNCHANGED <<link, issued, password>> PROVE RowInv'
  BY <1>1, <1>4 DEF RowInv, Newest
<1>5. CASE \E r \in Resets : Consume(r) \/ ResetFails(r)
  BY <1>4, <1>5 DEF Consume, ResetFails
<1> QED
  BY <1>2, <1>3, <1>4, <1>5, OnlyLinkSteps

\* One reset holds the row, and what it sent is still in it.
LEMMA HolderStep ==
  ASSUME IInv, [AccountsNext]_allVars PROVE HolderInv'
<1> USE AccountsAssumption DEF IInv, AccountsTypeOK
<1>1. ASSUME NEW f \in Forgots, Issue(f) PROVE HolderInv'
  <2>1. \A r \in Resets : resetPc[r] = "changed" => typed[r] # f
    BY <1>1 DEF Issue, BegunInv
  <2> QED
    BY <1>1, <2>1 DEF Issue, NewLink, HolderInv, sessionVars
<1>2. ASSUME NEW r \in Resets, Consume(r) PROVE HolderInv'
  BY <1>2 DEF Consume, LinkFree, HolderInv, Usable, sessionVars
<1>3. ASSUME NEW r \in Resets, ChangePassword(r) PROVE HolderInv'
  BY <1>3 DEF ChangePassword, HolderInv, sessionVars
<1>4. ASSUME NEW r \in Resets, ResetFails(r) PROVE HolderInv'
  BY <1>4 DEF ResetFails, HolderInv, Usable, sessionVars
<1>5. CASE /\ \A f \in Forgots : ~Issue(f)
           /\ \A r \in Resets : ~(Consume(r) \/ ChangePassword(r) \/ ResetFails(r))
  BY <1>5, OnlyLinkSteps DEF HolderInv, Usable
<1> QED
  BY <1>1, <1>2, <1>3, <1>4, <1>5

\* A link is issued after the cooldown of the one in the row, or after a reset.
LEMMA SpacedStep ==
  ASSUME IInv, [AccountsNext]_allVars PROVE LinksSpaced'
<1> USE AccountsAssumption DEF IInv
<1>1. ASSUME NEW f \in Forgots, Issue(f) PROVE LinksSpaced'
  <2> SUFFICES ASSUME NEW i \in 1..(Len(issued') - 1),
                      issued'[i].under = issued'[i + 1].under
               PROVE issued'[i].at + Cooldown < issued'[i + 1].at
    BY DEF LinksSpaced
  <2>1. Len(issued) \in Nat /\ Len(issued') = Len(issued) + 1
    BY <1>1, IssueAppends
  <2>2. i \in 1..Len(issued) /\ issued'[i] = issued[i]
    <3>1. i \in 1..Len(issued)
      <4> HIDE DEF IInv
      <4> QED
        BY <2>1
    <3> QED
      BY <1>1, <3>1, IssueAppends
  <2>3. CASE i = Len(issued)
    <3>1. issued'[i + 1] = [token |-> f, at |-> now[f], under |-> password]
      BY <1>1, <2>1, <2>3, IssueAppends
    <3>2. issued # <<>> /\ Newest.under = password
      BY <2>1, <2>2, <2>3, <3>1 DEF Newest
    <3>3. link # None /\ link.createdAt = Newest.at
      BY <3>2 DEF RowInv
    <3>4. Newest.at + Cooldown < now[f]
      BY <1>1, <3>3 DEF Issue, Cooled
    <3> QED
      BY <2>2, <2>3, <3>1, <3>4 DEF Newest
  <2>4. CASE i # Len(issued)
    <3>1. i \in 1..(Len(issued) - 1) /\ i + 1 \in 1..Len(issued)
      BY <2>1, <2>2, <2>4
    <3>2. issued'[i + 1] = issued[i + 1]
      BY <1>1, <3>1, IssueAppends
    <3> QED
      BY <2>2, <3>1, <3>2 DEF LinksSpaced
  <2> QED
    BY <2>3, <2>4
<1>2. CASE issued' = issued
  BY <1>2 DEF LinksSpaced
<1>3. CASE \E r \in Resets : Consume(r) \/ ChangePassword(r) \/ ResetFails(r)
  BY <1>2, <1>3 DEF Consume, ChangePassword, ResetFails
<1> QED
  BY <1>1, <1>2, <1>3, OnlyLinkSteps

-----------------------------------------------------------------------------
\* What the account is, whatever requests, resets and logins run at once, and
\* whatever administrators do to its user.
THEOREM AccountsInvariance == AccountsSpec => []IInv
<1>1. IInv /\ [AccountsNext]_allVars => IInv'
  BY TypeStep, BegunStep, PasswordStep, SessionStep, RowStep, HolderStep, SpacedStep
     DEF IInv
<1> QED
  BY InitIInv, <1>1, PTL DEF AccountsSpec, allVars

\* AUTH-02: an accepted session of an older password was given no earlier than the
\* second of the reset, and one of the present password is accepted.
THEOREM ResetRevokes == AccountsSpec => []RevocationIsExact
<1>1. IInv => RevocationIsExact
  <2> SUFFICES ASSUME IInv, NEW l \in Logins, Live(l), status[Owner] = "active"
               PROVE /\ session[l].password = password => ~Revoked(l)
                     /\ ~Revoked(l) /\ session[l].password # password
                          => session[l].iat >= Second[now[password]]
    BY DEF RevocationIsExact, FreshIsAccepted, OutdatedIsRefused, Accepted
  <2> USE AccountsAssumption DEF IInv, AccountsTypeOK
  <2>1. Written(session[l].password) /\ session[l].iat \in Nat
    BY DEF Live, SessionInv
  <2>2. CASE password = Original
    <3>1. session[l].password = Original /\ changedAt = None
      BY <2>1, <2>2 DEF PasswordInv, Written
    <3> QED
      BY <2>2, <3>1 DEF Revoked
  <2>3. CASE password \in Resets
    <3>1. changedAt = now[password]
      BY <2>3 DEF PasswordInv
    <3>2. changedAt # None => Second[changedAt] \in Nat
      OBVIOUS
    <3>3. changedAt # None
      BY <2>3, <3>1 DEF PasswordInv, Written, BegunInv
    <3> QED
      BY <2>1, <2>3, <3>1, <3>2, <3>3 DEF Revoked, Live, SessionInv
  <2> QED
    BY <2>2, <2>3 DEF PasswordInv, Written
<1> QED
  BY <1>1, AccountsInvariance, PTL

\* SEC-08: two links in a row are more than a cooldown apart, or a reset used one.
THEOREM LinksAreSpaced == AccountsSpec => []LinksSpaced
<1>1. IInv => LinksSpaced
  BY DEF IInv
<1> QED
  BY <1>1, AccountsInvariance, PTL

\* users.py:290: a password is changed with the newest link, in force when the
\* reset began, and never twice with one link.
THEOREM LinkIsUsedOnce == AccountsSpec => OnlyNewestLinkOnce
<1>1. ASSUME IInv, [AccountsNext]_allVars
      PROVE \A r \in Resets : resetPc[r] # "changed" /\ resetPc'[r] = "changed" =>
              LET newest == issued[Len(issued)]
              IN /\ typed[r] = newest.token
                 /\ now[r] < newest.at + LinkLife
                 /\ \A q \in Resets : resetPc[q] = "changed" => typed[q] # typed[r]
  <2> SUFFICES ASSUME NEW r \in Resets, resetPc[r] # "changed", resetPc'[r] = "changed"
               PROVE /\ typed[r] = Newest.token
                     /\ now[r] < Newest.at + LinkLife
                     /\ \A q \in Resets : resetPc[q] = "changed" => typed[q] # typed[r]
    BY DEF Newest
  <2>1. PICK q \in Resets : ChangePassword(q)
    BY <1>1, OnlyResetsWrite DEF IInv
  <2>2. q = r
    BY <1>1, <2>1 DEF ChangePassword, IInv, AccountsTypeOK
  <2> QED
    BY <1>1, <2>1, <2>2, HolderUsesNewest DEF IInv
<1> QED
  BY <1>1, AccountsInvariance, PTL DEF AccountsSpec, OnlyNewestLinkOnce, allVars
=============================================================================
