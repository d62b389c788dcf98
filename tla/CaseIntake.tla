----------------------------- MODULE CaseIntake ----------------------------
(***************************************************************************)
(* Opening cases in ONE organization: POST cases (handlers/cases.py        *)
(* create_case), POST requests (handlers/requests.py create_request, which *)
(* also inserts the request with its idempotency key), under the quota     *)
(* pricing_configs.cases_limit and the sequence that numbers them          *)
(* (_next_request_code), for a client that PATCH and DELETE clients/{id}   *)
(* (handlers/clients.py) activate and deactivate.  DELETE cases/{id} and   *)
(* PUT pricing/config, the writer of that quota (PricingConfig), run       *)
(* beside them.                                                            *)
(*                                                                         *)
(* READ COMMITTED: the client, the quota and the number of cases are read  *)
(* by three statements without a lock, in another order by each endpoint;  *)
(* the upsert of the sequence keeps its row locked until the end of the    *)
(* transaction.  One year, so one sequence; one client.                    *)
(***************************************************************************)
EXTENDS PricingConfig

CONSTANTS
  Calls,   \* transactions that may be open at a time
  Cases,   \* case ids (bounds how many are ever opened)
  Keys,    \* idempotency keys a wizard may send
  QuotaField,    \* the field cases_limit of the configuration row
  InitialLimit,  \* its value in a row that exists from the start (None: NULL)
  Asked          \* the value each PUT asks for, if its body names the field

Limits == {Asked[p] : p \in Puts} \cup {InitialLimit, None}

Case == [code : Nat \ {0}, key : Keys \cup {None}, active : BOOLEAN]

ASSUME IntakeAssumption ==
  /\ IsFiniteSet(Calls) /\ Calls # {} /\ IsFiniteSet(Cases) /\ QuotaField \in Fields
  /\ Limits \ {None} \subseteq Nat
  /\ None \notin Calls \cup Keys /\ None \notin Case

Routes == {"case", "request", "bare"}  \* bare: a request without a client

VARIABLES
  client,   \* whether clients.status is active
  cases,    \* each id: None (free) or its code, key and whether it is active
  next,     \* request_code_sequences.next_number
  seqLock,  \* the transaction that holds that row
  pc, route, sawLimit, key, number,  \* per call: control, endpoint, quota read,
                                      \* key, code taken
  chance    \* history: the client was active at some time during the call

callVars == <<pc, route, sawLimit, key, number, chance>>
intakeVars == <<client, cases, next, seqLock, callVars>>
vars == <<configVars, intakeVars>>

\* pricing_configs.cases_limit; no row and NULL mean no quota.
limit == IF row = None THEN None
         ELSE IF row.fields[QuotaField] = None THEN InitialLimit
         ELSE Asked[row.fields[QuotaField]]

Opened == {k \in Cases : cases[k] # None}
Active == {k \in Opened : cases[k].active}

Init ==
  /\ ConfigInit
  /\ client = TRUE
  /\ cases = [k \in Cases |-> None] /\ next = 0 /\ seqLock = None
  /\ pc = [c \in Calls |-> "idle"] /\ route = [c \in Calls |-> None]
  /\ chance = [c \in Calls |-> FALSE]
  /\ sawLimit = [c \in Calls |-> None] /\ key = [c \in Calls |-> None]
  /\ number = [c \in Calls |-> None]

End(c) ==
  /\ pc' = [pc EXCEPT ![c] = "idle"]
  /\ route' = [route EXCEPT ![c] = None]
  /\ sawLimit' = [sawLimit EXCEPT ![c] = None]
  /\ key' = [key EXCEPT ![c] = None]
  /\ number' = [number EXCEPT ![c] = None]
  /\ chance' = [chance EXCEPT ![c] = FALSE]
  /\ seqLock' = IF seqLock = c THEN None ELSE seqLock

\* A call of endpoint e begins: create_case, which has no key, reads the client
\* first; create_request reads the quota first.
Begin(c, e, i) ==
  /\ pc[c] = "idle" /\ (e = "case" => i = None)
  /\ pc' = [pc EXCEPT ![c] = IF e = "case" THEN "client" ELSE "quota"]
  /\ route' = [route EXCEPT ![c] = e]
  /\ key' = [key EXCEPT ![c] = i]
  /\ chance' = [chance EXCEPT ![c] = client]
  /\ UNCHANGED <<client, cases, next, seqLock, sawLimit, number>>

ClientOk_Exists == TRUE  \* mutant: only the existence is checked (before API-01)
ClientOk == client

\* cases.py:97, requests.py:115: a client that is not active ends the call (409).
CheckClient(c) ==
  /\ pc[c] = "client"
  /\ IF ClientOk
     THEN /\ pc' = [pc EXCEPT ![c] = IF route[c] = "case" THEN "quota" ELSE "admitted"]
          /\ UNCHANGED <<route, sawLimit, key, number, chance, seqLock>>
     ELSE End(c)
  /\ UNCHANGED <<client, cases, next>>

\* cases_limit_status, first statement
ReadLimit(c) ==
  /\ pc[c] = "quota"
  /\ sawLimit' = [sawLimit EXCEPT ![c] = limit]
  /\ pc' = [pc EXCEPT ![c] = "limited"]
  /\ UNCHANGED <<client, cases, next, seqLock, route, key, number, chance>>

Admitted_AtLimit(l) == l = None \/ Cardinality(Active) <= l  \* mutant: > for >=
Admitted(l) == l = None \/ Cardinality(Active) < l

\* ... second statement: at the limit the call ends with 402.
CountCases(c) ==
  /\ pc[c] = "limited"
  /\ IF Admitted(sawLimit[c])
     THEN /\ pc' = [pc EXCEPT ![c] = IF route[c] = "request" THEN "client" ELSE "admitted"]
          /\ UNCHANGED <<route, sawLimit, key, number, chance, seqLock>>
     ELSE End(c)
  /\ UNCHANGED <<client, cases, next>>

SeqFree_Unlocked(c) == TRUE  \* mutant: number read, then written back
SeqFree(c) == seqLock = None

NextNumber(n) == n + 1

\* _next_request_code: the upsert waits for the row
TakeCode(c) ==
  /\ pc[c] = "admitted" /\ SeqFree(c)
  /\ number' = [number EXCEPT ![c] = NextNumber(next)]
  /\ seqLock' = c
  /\ pc' = [pc EXCEPT ![c] = "numbered"]
  /\ UNCHANGED <<client, cases, next, route, sawLimit, key, chance>>

KeyTaken_Active(i) ==  \* mutant: the key of an archived case is free again
  i # None /\ \E k \in Active : cases[k].key = i
KeyTaken(i) == i # None /\ \E k \in Opened : cases[k].key = i

\* The inserts and the commit: request, case, parties, document and plan are
\* one transaction.  Case and request take the code.
Open(c) ==
  /\ pc[c] = "numbered" /\ ~KeyTaken(key[c])
  /\ \E k \in Cases \ Opened :
       cases' = [cases EXCEPT ![k] = [code |-> number[c], key |-> key[c],
                                      active |-> TRUE]]
  /\ next' = number[c]
  /\ End(c)
  /\ UNCHANGED client

\* UniqueViolation on the key (409), unknown client, any error: the rollback
\* gives the number back.
Reject(c) ==
  /\ pc[c] # "idle"
  /\ End(c)
  /\ UNCHANGED <<client, cases, next>>

DeleteCase(k) ==
  /\ k \in Active
  /\ cases' = [cases EXCEPT ![k].active = FALSE]
  /\ UNCHANGED <<client, next, seqLock, callVars>>

\* update_client with a status, delete_client: one UPDATE; nobody holds the row.
SetClient(active) ==
  /\ client' = active
  /\ chance' = [c \in Calls |-> chance[c] \/ (active /\ pc[c] # "idle")]
  /\ UNCHANGED <<cases, next, seqLock, pc, route, sawLimit, key, number>>

IntakeStep ==
  \/ \E c \in Calls :
       \/ \E e \in Routes, i \in Keys \cup {None} : Begin(c, e, i)
       \/ CheckClient(c) \/ ReadLimit(c) \/ CountCases(c)
       \/ TakeCode(c) \/ Open(c) \/ Reject(c)
  \/ \E k \in Cases : DeleteCase(k)
  \/ \E active \in BOOLEAN : SetClient(active)

Next == \/ IntakeStep /\ UNCHANGED configVars
        \/ ConfigStep /\ UNCHANGED intakeVars

Spec == Init /\ [][Next]_vars

-----------------------------------------------------------------------------
(* Properties *)

TypeOK ==
  /\ ConfigTypeOK
  /\ cases \in [Cases -> Case \cup {None}]
  /\ next \in Nat /\ seqLock \in Calls \cup {None}
  /\ client \in BOOLEAN /\ chance \in [Calls -> BOOLEAN]
  /\ pc \in [Calls -> {"idle", "client", "quota", "limited", "admitted", "numbered"}]
  /\ route \in [Calls -> Routes \cup {None}]
  /\ sawLimit \in [Calls -> Limits \cup {None}]
  /\ key \in [Calls -> Keys \cup {None}]
  /\ number \in [Calls -> (Nat \ {0}) \cup {None}]

\* _next_request_code (requests.py:44): codes are unique and without gaps,
\* whatever transactions roll back between the number and the commit.
CodesDense ==
  /\ \A k1, k2 \in Opened : cases[k1].code = cases[k2].code => k1 = k2
  /\ {cases[k].code : k \in Opened} = 1..next

\* UNIQUE (organization_id, idempotency_key): a wizard sent twice, at once or
\* after the case was archived, opens one case.
OncePerKey ==
  \A k1, k2 \in Opened :
    cases[k1].key = cases[k2].key /\ cases[k1].key # None => k1 = k2

\* README.md:189 "cliente inativo não recebe casos", by both endpoints (API-01): a
\* case is opened for a client only by a call during which the client was active
\* at some time.  The row is not locked, so it may be inactive at the insert.
NoCaseForInactive ==
  [][\A c \in Calls : pc[c] = "numbered" /\ cases' # cases /\ pc'[c] = "idle"
                        /\ route[c] # "bare" => chance[c]]_vars

\* Past the count: it may still have to check its client.
Passed == {c \in Calls : \/ pc[c] \in {"admitted", "numbered"}
                         \/ pc[c] = "client" /\ route[c] = "request"}

\* Every quota that has been in force where the row existed from the start.
Quotas == {InitialLimit} \cup
          {Asked[p] : p \in {q \in Puts : putPc[q] = "done"
                                          /\ QuotaField \in changed[q]}}
RowFromStart ==
  row # None /\ \A p \in Puts : putPc[p] # "idle" => read[p] # None

\* assert_cases_within_limit (case_lifecycle.py:111): however creators meet each
\* other and a PUT, some quota that was in force is overrun by at most the other
\* calls in flight, those already admitted included.
OverrunBounded ==
  RowFromStart /\ None \notin Quotas =>
    \E q \in Quotas :
      Cardinality(Active) + Cardinality(Passed) <= q + Cardinality(Calls) - 1
=============================================================================
