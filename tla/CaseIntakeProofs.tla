-------------------------- MODULE CaseIntakeProofs -------------------------
(***************************************************************************)
(* Theorems of CaseIntake and of the PricingConfig it composes.  The lock  *)
(* of the configuration row ties what its holder read to the row; the lock *)
(* of the sequence ties the number taken to the last one committed; and    *)
(* every quota that a call read has been in force.                         *)
(***************************************************************************)
EXTENDS CaseIntake, FiniteSetTheorems, TLAPS

-----------------------------------------------------------------------------
(* The configuration row *)

\* A reader of an existing row holds it, and what it read is still there.
HeldInv ==
  /\ rowLock # None => /\ putPc[rowLock] = "read" /\ row # None
                       /\ read[rowLock] = row
  /\ \A c \in Puts : putPc[c] = "read" /\ read[c] # None => rowLock = c

\* Before the first writer nothing is committed; after it, who read no row is one
\* of the writers that raced for it or is still to be.
FirstInv ==
  /\ IsFiniteSet(FirstWriters)
  /\ row = None => commits = 0 /\ last = [f \in Fields |-> None]
                   /\ FirstWriters = {}
  /\ row # None /\ FirstWriters = {}
       => \A c \in Puts : putPc[c] = "read" => read[c] # None

ConfigInv == ConfigTypeOK /\ HeldInv /\ FirstInv /\ NoLostUpdate

\* No call has begun, so nobody holds or has read the row.
LEMMA ConfigStart == ConfigInit => ConfigInv
<1> SUFFICES ASSUME ConfigInit PROVE ConfigInv
  OBVIOUS
<1> USE ConfigAssumption DEF ConfigInit
<1>1. FirstWriters = {}
  BY DEF FirstWriters
<1>2. ConfigTypeOK /\ HeldInv
  BY DEF ConfigTypeOK, HeldInv, Row, Fresh
<1>3. FirstInv
  BY <1>1, FS_EmptySet DEF FirstInv
<1>4. NoLostUpdate
  BY DEF NoLostUpdate, Fresh
<1> QED
  BY <1>2, <1>3, <1>4 DEF ConfigInv

\* Every variable of the configuration keeps its type.
LEMMA ConfigTypes ==
  ASSUME ConfigTypeOK, ConfigStep PROVE ConfigTypeOK'
<1> USE ConfigAssumption DEF ConfigTypeOK
<1>1. ASSUME NEW c \in Puts, SelectForUpdate(c) PROVE ConfigTypeOK'
  BY <1>1 DEF SelectForUpdate
<1>2. ASSUME NEW c \in Puts, Upsert(c) PROVE ConfigTypeOK'
  <2>1. Base(c) \in Row
    BY DEF Base, Fresh, Row
  <2>2. row' \in Row
    BY <1>2, <2>1 DEF Upsert, Merged, Row
  <2> QED
    BY <1>2, <2>2 DEF Upsert
<1>3. ASSUME NEW c \in Puts, Fail(c) PROVE ConfigTypeOK'
  BY <1>3 DEF Fail
<1> QED
  BY <1>1, <1>2, <1>3 DEF ConfigStep

\* A writer that read no row joins the first writers; another writes what it holds.
LEMMA UpsertKeeps ==
  ASSUME ConfigInv, NEW c \in Puts, Upsert(c)
  PROVE HeldInv' /\ FirstInv' /\ NoLostUpdate'
<1> USE ConfigAssumption DEF ConfigInv, ConfigTypeOK
<1>1. row' \in Row /\ row' # None
  <2>1. ConfigTypeOK'
    BY ConfigTypes DEF ConfigStep
  <2>2. row' # None
    <3>1. Base(c) \in Row
      BY DEF Base, Fresh, Row
    <3>2. row' \in Row
      BY <3>1 DEF Upsert, Merged, Row
    <3> QED
      BY <3>2
  <2> QED
    BY <2>1, <2>2
<1>2. HeldInv'
  BY <1>1 DEF Upsert, HeldInv
<1>3. CASE read[c] = None
  <2>1. FirstWriters' = FirstWriters \cup {c} /\ c \notin FirstWriters
    BY <1>3 DEF Upsert, FirstWriters
  <2>2. IsFiniteSet(FirstWriters')
    BY <2>1, FS_AddElement DEF FirstInv
  <2>3. FirstInv'
    BY <1>1, <2>1, <2>2 DEF FirstInv
  <2>4. ASSUME Cardinality(FirstWriters') <= 1
        PROVE row'.version = commits' /\ row'.fields = last'
    <3>1. FirstWriters = {}
      <4>1. IsFiniteSet(FirstWriters) /\ Cardinality(FirstWriters') = Cardinality(FirstWriters) + 1
        BY <2>1, FS_AddElement DEF FirstInv
      <4>2. Cardinality(FirstWriters) \in Nat
        BY <4>1, FS_CardinalityType
      <4>3. Cardinality(FirstWriters) = 0
        BY <2>4, <4>1, <4>2
      <4> QED
        BY <4>1, <4>3, FS_EmptySet
    <3>2. row = None
      BY <1>3, <3>1 DEF Upsert, FirstInv
    <3>3. commits = 0 /\ last = [f \in Fields |-> None]
      BY <3>2 DEF FirstInv
    <3> QED
      BY <1>3, <3>3 DEF Upsert, Base, Fresh, Merged
  <2> QED
    BY <1>2, <2>3, <2>4 DEF NoLostUpdate
<1>4. CASE read[c] # None
  <2>1. rowLock = c /\ row # None /\ read[c] = row
    BY <1>4 DEF Upsert, HeldInv
  <2>2. FirstWriters' = FirstWriters
    BY <1>4 DEF Upsert, FirstWriters
  <2>3. FirstInv'
    BY <1>1, <2>1, <2>2 DEF Upsert, FirstInv
  <2>4. NoLostUpdate'
    <3>1. Base(c) = row
      BY <1>4, <2>1 DEF Base
    <3> QED
      BY <2>1, <2>2, <3>1 DEF Upsert, Merged, NoLostUpdate
  <2> QED
    BY <1>2, <2>3, <2>4
<1> QED
  BY <1>3, <1>4

\* Every step of an update keeps the invariant of the row.
LEMMA ConfigKeeps ==
  ASSUME ConfigInv, ConfigStep PROVE ConfigInv'
<1> USE ConfigAssumption DEF ConfigInv, ConfigTypeOK
<1>1. ConfigTypeOK'
  BY ConfigTypes
<1>2. ASSUME NEW c \in Puts, SelectForUpdate(c) PROVE ConfigInv'
  <2>1. FirstWriters' = FirstWriters
    BY <1>2 DEF SelectForUpdate, FirstWriters
  <2>2. HeldInv'
    BY <1>2 DEF SelectForUpdate, HeldInv, Locked
  <2>3. FirstInv' /\ NoLostUpdate'
    BY <1>2, <2>1 DEF SelectForUpdate, FirstInv, NoLostUpdate
  <2> QED
    BY <1>1, <2>2, <2>3
<1>3. ASSUME NEW c \in Puts, Upsert(c) PROVE ConfigInv'
  BY <1>1, <1>3, UpsertKeeps
<1>4. ASSUME NEW c \in Puts, Fail(c) PROVE ConfigInv'
  <2>1. FirstWriters' = FirstWriters
    BY <1>4 DEF Fail, FirstWriters
  <2>2. HeldInv'
    BY <1>4 DEF Fail, HeldInv
  <2>3. FirstInv' /\ NoLostUpdate'
    BY <1>4, <2>1 DEF Fail, FirstInv, NoLostUpdate
  <2> QED
    BY <1>1, <2>2, <2>3
<1> QED
  BY <1>2, <1>3, <1>4 DEF ConfigStep

-----------------------------------------------------------------------------
(* Codes and keys *)

\* The call that holds the sequence took the number after the last one committed.
SeqInv ==
  /\ \A c \in Calls : pc[c] = "numbered" => seqLock = c /\ number[c] = next + 1
  /\ seqLock # None => pc[seqLock] = "numbered"

\* A call that is past the check of the client saw it active.
ChanceInv ==
  \A c \in Calls : pc[c] # "idle" =>
    /\ route[c] \in Routes /\ (pc[c] = "client" => route[c] # "bare")
    /\ client => chance[c]
    /\ route[c] = "case" /\ pc[c] # "client" => chance[c]
    /\ route[c] = "request" /\ pc[c] \in {"admitted", "numbered"} => chance[c]

CallsInv == TypeOK /\ SeqInv /\ ChanceInv /\ CodesDense /\ OncePerKey

\* The steps of a call that open no case.
Preparing(c) ==
  \/ \E e \in Routes, i \in Keys \cup {None} : Begin(c, e, i)
  \/ CheckClient(c) \/ ReadLimit(c) \/ CountCases(c) \/ TakeCode(c) \/ Reject(c)

\* No case is open and no call has begun.
LEMMA CallsStart == Init => CallsInv
<1> SUFFICES ASSUME Init PROVE CallsInv
  OBVIOUS
<1> USE IntakeAssumption DEF Init
<1>1. ConfigTypeOK
  BY ConfigStart DEF ConfigInv
<1>2. Opened = {}
  BY DEF Opened
<1>3. TypeOK /\ SeqInv /\ ChanceInv
  BY <1>1 DEF TypeOK, SeqInv, ChanceInv
<1>4. CodesDense /\ OncePerKey
  BY <1>2 DEF CodesDense, OncePerKey
<1> QED
  BY <1>3, <1>4 DEF CallsInv

\* The quota is one that was asked for, the initial one, or none.
LEMMA LimitType == TypeOK => limit \in Limits
<1> SUFFICES ASSUME TypeOK, row # None, row.fields[QuotaField] # None
             PROVE limit \in Limits
  BY DEF limit, Limits
<1>1. row.fields[QuotaField] \in Puts
  BY IntakeAssumption DEF TypeOK, ConfigTypeOK, Row
<1> QED
  BY <1>1 DEF limit, Limits

\* A call that prepares its inserts changes neither cases nor the sequence.
LEMMA PreparingKeeps ==
  ASSUME CallsInv, NEW c \in Calls, Preparing(c), UNCHANGED configVars
  PROVE  CallsInv'
<1> USE IntakeAssumption DEF CallsInv, TypeOK
<1>1. ConfigTypeOK'
  BY DEF ConfigTypeOK, configVars
<1>2. UNCHANGED <<client, cases, next>>
  BY DEF Preparing, Begin, CheckClient, ReadLimit, CountCases, TakeCode, Reject
<1>3. CodesDense' /\ OncePerKey'
  BY <1>2 DEF CodesDense, OncePerKey, Opened
<1>4. CASE \E e \in Routes, i \in Keys \cup {None} : Begin(c, e, i)
  BY <1>1, <1>2, <1>3, <1>4 DEF Begin, SeqInv, ChanceInv, Routes
<1>5. CASE ReadLimit(c)
  <2>1. sawLimit' \in [Calls -> Limits \cup {None}]
    BY <1>5, LimitType DEF ReadLimit
  <2> QED
    BY <1>1, <1>2, <1>3, <1>5, <2>1 DEF ReadLimit, SeqInv, ChanceInv
<1>6. CASE End(c)
  BY <1>1, <1>2, <1>3, <1>6 DEF End, SeqInv, ChanceInv
<1>7. CASE CheckClient(c) /\ ~End(c)
  BY <1>1, <1>2, <1>3, <1>7 DEF CheckClient, ClientOk, SeqInv, ChanceInv, Routes
<1>8. CASE CountCases(c) /\ ~End(c)
  BY <1>1, <1>2, <1>3, <1>8 DEF CountCases, SeqInv, ChanceInv, Routes
<1>9. CASE TakeCode(c)
  BY <1>1, <1>2, <1>3, <1>9 DEF TakeCode, NextNumber, SeqFree, SeqInv, ChanceInv
<1> QED
  BY <1>4, <1>5, <1>6, <1>7, <1>8, <1>9 DEF Preparing, Reject

\* The case takes the next code and a key that no case has.
LEMMA OpenKeeps ==
  ASSUME CallsInv, NEW c \in Calls, Open(c), UNCHANGED configVars
  PROVE  CallsInv'
<1> USE IntakeAssumption DEF CallsInv, TypeOK
<1>1. PICK k \in Cases \ Opened :
        cases' = [cases EXCEPT ![k] = [code |-> number[c], key |-> key[c], active |-> TRUE]]
  BY DEF Open
<1>2. number[c] = next + 1 /\ next' = next + 1
  BY DEF Open, SeqInv
<1>3. cases'[k] \in Case /\ cases'[k].code = next + 1 /\ cases'[k].key = key[c]
  BY <1>1, <1>2 DEF Case
<1>4. Opened' = Opened \cup {k}
  BY <1>1, <1>3 DEF Opened
<1>5. \A j \in Opened : cases'[j] = cases[j] /\ cases[j] \in Case
  BY <1>1 DEF Opened
<1>6. TypeOK' /\ SeqInv' /\ ChanceInv'
  <2>1. ConfigTypeOK'
    BY DEF ConfigTypeOK, configVars
  <2>2. cases' \in [Cases -> Case \cup {None}]
    BY <1>1, <1>3
  <2> QED
    BY <1>2, <2>1, <2>2 DEF Open, End, SeqInv, ChanceInv
<1>7. CodesDense'
  <2>1. \A j \in Opened : cases[j].code \in 1..next
    BY DEF CodesDense
  <2>2. {cases'[j].code : j \in Opened'} = {cases[j].code : j \in Opened} \cup {next + 1}
    BY <1>3, <1>4, <1>5
  <2>3. 1..next' = 1..next \cup {next + 1}
    BY <1>2
  <2>4. \A i, j \in Opened' : cases'[i].code = cases'[j].code => i = j
    BY <1>3, <1>4, <1>5, <2>1 DEF CodesDense
  <2> QED
    BY <2>2, <2>3, <2>4 DEF CodesDense
<1>8. OncePerKey'
  BY <1>3, <1>4, <1>5 DEF Open, KeyTaken, OncePerKey
<1> QED
  BY <1>6, <1>7, <1>8

\* Archiving keeps the code and the key of a case.
LEMMA DeleteKeeps ==
  ASSUME CallsInv, NEW k \in Cases, DeleteCase(k), UNCHANGED configVars
  PROVE  CallsInv'
<1> USE IntakeAssumption DEF CallsInv, TypeOK
<1>1. cases[k] \in Case
  BY DEF DeleteCase, Active, Opened
<1>2. cases'[k] \in Case /\ cases'[k].code = cases[k].code /\ cases'[k].key = cases[k].key
  BY <1>1 DEF DeleteCase, Case
<1>3. Opened' = Opened
  BY <1>1, <1>2 DEF DeleteCase, Opened
<1>4. \A j \in Opened : cases'[j].code = cases[j].code /\ cases'[j].key = cases[j].key
  BY <1>2 DEF DeleteCase, Opened
<1>5. TypeOK' /\ SeqInv' /\ ChanceInv'
  <2>1. ConfigTypeOK'
    BY DEF ConfigTypeOK, configVars
  <2>2. cases' \in [Cases -> Case \cup {None}]
    BY <1>2 DEF DeleteCase
  <2> QED
    BY <2>1, <2>2 DEF DeleteCase, callVars, SeqInv, ChanceInv
<1>6. CodesDense' /\ OncePerKey'
  <2>1. next' = next /\ {cases'[j].code : j \in Opened'} = {cases[j].code : j \in Opened}
    BY <1>3, <1>4 DEF DeleteCase
  <2> QED
    BY <1>3, <1>4, <2>1 DEF CodesDense, OncePerKey
<1> QED
  BY <1>5, <1>6

\* A client set active is seen by every open call; the configuration is read only.
LEMMA OthersKeep ==
  ASSUME CallsInv,
         \/ \E active \in BOOLEAN : SetClient(active) /\ UNCHANGED configVars
         \/ ConfigTypeOK' /\ UNCHANGED intakeVars
         \/ UNCHANGED vars
  PROVE  CallsInv'
<1> USE DEF CallsInv, TypeOK
<1>1. ConfigTypeOK'
  BY DEF ConfigTypeOK, configVars, vars
<1>2. CodesDense' /\ OncePerKey'
  BY DEF SetClient, intakeVars, vars, CodesDense, OncePerKey, Opened
<1>3. CASE \E active \in BOOLEAN : SetClient(active)
  BY <1>1, <1>2, <1>3 DEF SetClient, SeqInv, ChanceInv
<1>4. CASE UNCHANGED intakeVars
  BY <1>1, <1>2, <1>4 DEF intakeVars, callVars, SeqInv, ChanceInv
<1> QED
  BY <1>3, <1>4 DEF vars

\* Every step keeps the codes, the keys and what the calls have seen.
LEMMA CallsKeep ==
  ASSUME ConfigInv, CallsInv, [Next]_vars PROVE CallsInv'
<1>1. ASSUME NEW c \in Calls, Preparing(c) \/ Open(c), UNCHANGED configVars PROVE CallsInv'
  BY <1>1, PreparingKeeps, OpenKeeps
<1>2. ASSUME NEW k \in Cases, DeleteCase(k), UNCHANGED configVars PROVE CallsInv'
  BY <1>2, DeleteKeeps
<1>3. ASSUME ConfigStep, UNCHANGED intakeVars PROVE CallsInv'
  BY <1>3, ConfigTypes, OthersKeep DEF ConfigInv
<1> QED
  BY <1>1, <1>2, <1>3, OthersKeep DEF Next, IntakeStep, Preparing

\* The configuration row is touched by its own steps only.
LEMMA ConfigStays ==
  ASSUME ConfigInv, [Next]_vars PROVE ConfigInv'
<1>1. CASE ConfigStep
  BY <1>1, ConfigKeeps
<1>2. CASE UNCHANGED configVars
  BY <1>2 DEF ConfigInv, ConfigTypeOK, HeldInv, FirstInv, NoLostUpdate, FirstWriters,
              configVars
<1> QED
  BY <1>1, <1>2 DEF Next, vars

-----------------------------------------------------------------------------
(* The quota *)

\* Where the row existed from the start, the quota in force and those that calls
\* have read are among the quotas that have been in force.
QuotaInv ==
  RowFromStart =>
    /\ limit \in Quotas
    /\ \A c \in Calls : pc[c] = "limited" => sawLimit[c] \in Quotas

IInv == ConfigInv /\ CallsInv /\ QuotaInv /\ OverrunBounded

\* A quota that has been in force was asked for, or is the initial one.
LEMMA QuotasInLimits == Quotas \subseteq Limits
BY DEF Quotas, Limits

\* A quota that has been in force stays one, and a late row is never from the start.
LEMMA QuotasGrow ==
  ASSUME ConfigInv, [Next]_vars
  PROVE  Quotas \subseteq Quotas' /\ (RowFromStart' => RowFromStart)
<1> USE DEF ConfigInv, ConfigTypeOK
<1>1. CASE UNCHANGED configVars
  BY <1>1 DEF configVars, Quotas, RowFromStart
<1>2. ASSUME NEW c \in Puts, SelectForUpdate(c)
      PROVE  Quotas \subseteq Quotas' /\ (RowFromStart' => RowFromStart)
  BY <1>2 DEF SelectForUpdate, Quotas, RowFromStart
<1>3. ASSUME NEW c \in Puts, Upsert(c)
      PROVE  Quotas \subseteq Quotas' /\ (RowFromStart' => RowFromStart)
  <2>1. Quotas \subseteq Quotas'
    BY <1>3 DEF Upsert, Quotas
  <2>2. read[c] # None => row # None
    BY <1>3, ConfigAssumption DEF Upsert, HeldInv
  <2> QED
    BY <1>3, <2>1, <2>2 DEF Upsert, RowFromStart
<1>4. ASSUME NEW c \in Puts, Fail(c)
      PROVE  Quotas \subseteq Quotas' /\ (RowFromStart' => RowFromStart)
  BY <1>4 DEF Fail, Quotas, RowFromStart
<1> QED
  BY <1>1, <1>2, <1>3, <1>4 DEF Next, ConfigStep, vars

\* What the row holds was written by a call that committed, or is there from the start.
LEMMA QuotaKeeps ==
  ASSUME ConfigInv, CallsInv, QuotaInv, [Next]_vars PROVE QuotaInv'
<1> SUFFICES ASSUME RowFromStart'
             PROVE /\ limit' \in Quotas'
                   /\ \A c \in Calls : pc'[c] = "limited" => sawLimit'[c] \in Quotas'
  BY DEF QuotaInv
<1>1. RowFromStart /\ Quotas \subseteq Quotas'
  BY QuotasGrow
<1>2. limit' \in Quotas'
  <2>1. CASE row' = row
    BY <1>1, <2>1 DEF QuotaInv, limit
  <2>2. ASSUME NEW p \in Puts, Upsert(p) PROVE limit' \in Quotas'
    <3>1. read[p] = row /\ row # None
      BY <1>1, <2>2, ConfigAssumption DEF Upsert, ConfigInv, HeldInv, RowFromStart
    <3>2. row'.fields[QuotaField]
            = IF QuotaField \in changed[p] THEN p ELSE row.fields[QuotaField]
      BY <2>2, <3>1, IntakeAssumption DEF Upsert, Merged, Base
    <3>3. CASE QuotaField \in changed[p]
      <4>1. Asked[p] \in Quotas'
        BY <2>2, <3>3 DEF Upsert, Quotas, ConfigInv, ConfigTypeOK
      <4>2. limit' = Asked[p]
        BY <3>2, <3>3, ConfigAssumption DEF RowFromStart, limit
      <4> QED
        BY <4>1, <4>2
    <3>4. CASE QuotaField \notin changed[p]
      <4>1. limit' = limit
        BY <3>1, <3>2, <3>4 DEF RowFromStart, limit
      <4> QED
        BY <1>1, <4>1 DEF QuotaInv
    <3> QED
      BY <3>3, <3>4
  <2> QED
    BY <2>1, <2>2 DEF Next, ConfigStep, SelectForUpdate, Fail, configVars, vars
<1>3. ASSUME NEW c \in Calls, pc'[c] = "limited" PROVE sawLimit'[c] \in Quotas'
  <2>1. ASSUME NEW d \in Calls, ReadLimit(d) PROVE sawLimit'[c] \in Quotas'
    BY <1>1, <1>3, <2>1 DEF ReadLimit, QuotaInv, CallsInv, TypeOK
  <2>2. CASE pc[c] = "limited" /\ sawLimit'[c] = sawLimit[c]
    BY <1>1, <2>2 DEF QuotaInv
  <2>3. CASE \A d \in Calls : ~ReadLimit(d)
    BY <1>3, <2>2, <2>3 DEF Next, IntakeStep, Begin, CheckClient, CountCases, TakeCode,
      Open, Reject, End, DeleteCase, SetClient, callVars, intakeVars, vars, CallsInv, TypeOK
  <2> QED
    BY <2>1, <2>3
<1> QED
  BY <1>2, <1>3

\* A bound on sets that only shrink, by quotas that only grow.
LEMMA BoundStays ==
  ASSUME OverrunBounded, Quotas \subseteq Quotas', RowFromStart' => RowFromStart,
         Active' \subseteq Active, Passed' \subseteq Passed
  PROVE  OverrunBounded'
<1> SUFFICES ASSUME RowFromStart', None \notin Quotas'
             PROVE \E q \in Quotas' : Cardinality(Active') + Cardinality(Passed')
                                      <= q + Cardinality(Calls) - 1
  BY DEF OverrunBounded
<1>1. PICK q \in Quotas : Cardinality(Active) + Cardinality(Passed)
                           <= q + Cardinality(Calls) - 1
  BY DEF OverrunBounded
<1>2. q \in Nat /\ q \in Quotas'
  BY <1>1, QuotasInLimits, IntakeAssumption
<1>3. Active \subseteq Cases /\ Passed \subseteq Calls
  BY DEF Active, Opened, Passed
<1>4. IsFiniteSet(Active) /\ IsFiniteSet(Passed)
  BY <1>3, FS_Subset, IntakeAssumption
<1>5. /\ Cardinality(Active') <= Cardinality(Active) /\ Cardinality(Active') \in Nat
      /\ Cardinality(Passed') <= Cardinality(Passed) /\ Cardinality(Passed') \in Nat
      /\ Cardinality(Active) \in Nat /\ Cardinality(Passed) \in Nat
      /\ Cardinality(Calls) \in Nat
  BY <1>4, FS_Subset, FS_CardinalityType, IntakeAssumption
<1>6. Cardinality(Active') + Cardinality(Passed') <= q + Cardinality(Calls) - 1
  BY <1>1, <1>2, <1>5
<1> QED
  BY <1>2, <1>6

\* A call is admitted below a quota that has been in force; from then on it is one
\* of the calls that passed, until it opens its case or ends.
LEMMA BoundKeeps ==
  ASSUME ConfigInv, CallsInv, QuotaInv, OverrunBounded, [Next]_vars
  PROVE  OverrunBounded'
<1> USE DEF CallsInv, TypeOK
<1>1. Quotas \subseteq Quotas' /\ (RowFromStart' => RowFromStart)
  BY QuotasGrow
<1>2. ASSUME NEW c \in Calls, CountCases(c), ~End(c), UNCHANGED configVars
      PROVE  OverrunBounded'
  <2> SUFFICES ASSUME RowFromStart, None \notin Quotas
               PROVE \E q \in Quotas' : Cardinality(Active') + Cardinality(Passed')
                                        <= q + Cardinality(Calls) - 1
    BY <1>1 DEF OverrunBounded
  <2> DEFINE q == sawLimit[c]
  <2>1. q \in Quotas /\ q \in Nat /\ q \in Quotas'
    <3>1. q \in Quotas
      BY <1>2 DEF CountCases, QuotaInv
    <3> QED
      BY <1>1, <3>1, QuotasInLimits, IntakeAssumption
  <2>2. Cardinality(Active) < q
    BY <1>2, <2>1 DEF CountCases, Admitted
  <2>3. Active' = Active /\ Active \subseteq Cases /\ Passed' \subseteq Calls
    BY <1>2 DEF CountCases, Active, Opened, Passed
  <2>4. /\ Cardinality(Active) \in Nat /\ Cardinality(Calls) \in Nat
        /\ Cardinality(Passed') \in Nat /\ Cardinality(Passed') <= Cardinality(Calls)
    BY <2>3, FS_Subset, FS_CardinalityType, IntakeAssumption
  <2>5. Cardinality(Active') + Cardinality(Passed') <= q + Cardinality(Calls) - 1
    BY <2>1, <2>2, <2>3, <2>4
  <2> QED
    BY <2>1, <2>5
<1>3. ASSUME NEW c \in Calls, Open(c), UNCHANGED configVars PROVE OverrunBounded'
  <2>1. PICK k \in Cases \ Opened :
          cases' = [cases EXCEPT ![k] = [code |-> number[c], key |-> key[c], active |-> TRUE]]
    BY <1>3 DEF Open
  <2>2. Active' \subseteq Active \cup {k} /\ Active \subseteq Cases
    BY <2>1 DEF Active, Opened
  <2>3. Passed' \subseteq Passed \ {c} /\ c \in Passed /\ Passed \subseteq Calls
    BY <1>3 DEF Open, End, Passed
  <2>4. IsFiniteSet(Active) /\ IsFiniteSet(Passed)
    BY <2>2, <2>3, FS_Subset, IntakeAssumption
  <2>5. /\ Cardinality(Active) \in Nat /\ Cardinality(Active') \in Nat
        /\ Cardinality(Active') <= Cardinality(Active) + 1
    <3>1. k \notin Active
      BY <2>1 DEF Active
    <3>2. /\ IsFiniteSet(Active \cup {k})
          /\ Cardinality(Active \cup {k}) = Cardinality(Active) + 1
      BY <2>4, <3>1, FS_AddElement
    <3> QED
      BY <2>2, <2>4, <3>2, FS_Subset, FS_CardinalityType
  <2>6. /\ Cardinality(Passed) \in Nat /\ Cardinality(Passed') \in Nat
        /\ Cardinality(Passed') <= Cardinality(Passed) - 1
    <3>1. /\ IsFiniteSet(Passed \ {c})
          /\ Cardinality(Passed \ {c}) = Cardinality(Passed) - 1
      BY <2>3, <2>4, FS_RemoveElement
    <3> QED
      BY <2>3, <2>4, <3>1, FS_Subset, FS_CardinalityType
  <2> SUFFICES ASSUME RowFromStart', None \notin Quotas'
               PROVE \E q \in Quotas' : Cardinality(Active') + Cardinality(Passed')
                                        <= q + Cardinality(Calls) - 1
    BY DEF OverrunBounded
  <2>7. PICK q \in Quotas : Cardinality(Active) + Cardinality(Passed)
                             <= q + Cardinality(Calls) - 1
    BY <1>1 DEF OverrunBounded
  <2>8. q \in Nat /\ q \in Quotas' /\ Cardinality(Calls) \in Nat
    BY <1>1, <2>7, QuotasInLimits, FS_CardinalityType, IntakeAssumption
  <2>9. Cardinality(Active') + Cardinality(Passed') <= q + Cardinality(Calls) - 1
    BY <2>5, <2>6, <2>7, <2>8
  <2> QED
    BY <2>8, <2>9
<1>4. ASSUME Active' \subseteq Active, Passed' \subseteq Passed PROVE OverrunBounded'
  BY <1>1, <1>4, BoundStays
<1>5. ASSUME NEW c \in Calls, Preparing(c), ~CountCases(c) \/ End(c)
      PROVE Active' \subseteq Active /\ Passed' \subseteq Passed
  <2>1. cases' = cases
    BY <1>5 DEF Preparing, Begin, CheckClient, ReadLimit, CountCases, TakeCode, Reject
  <2>2. Passed' \subseteq Passed
    <3>1. pc[c] = "client" => route[c] \in {"case", "request"}
      BY DEF ChanceInv, Routes
    <3>2. CASE End(c)
      BY <3>2 DEF End, Passed
    <3>3. CASE CheckClient(c) /\ ~End(c)
      BY <3>1, <3>3 DEF CheckClient, Passed
    <3>4. CASE \/ \E e \in Routes, i \in Keys \cup {None} : Begin(c, e, i)
               \/ ReadLimit(c) \/ TakeCode(c)
      BY <3>4 DEF Begin, ReadLimit, TakeCode, Passed
    <3> QED
      BY <1>5, <3>2, <3>3, <3>4 DEF Preparing, Reject
  <2> QED
    BY <2>1, <2>2 DEF Active, Opened
<1>6. ASSUME NEW k \in Cases, DeleteCase(k) PROVE Active' \subseteq Active /\ Passed' \subseteq Passed
  BY <1>6 DEF DeleteCase, Active, Opened, Passed, callVars
<1>7. ASSUME NEW active \in BOOLEAN, SetClient(active)
      PROVE Active' \subseteq Active /\ Passed' \subseteq Passed
  BY <1>7 DEF SetClient, Active, Opened, Passed
<1>8. CASE UNCHANGED intakeVars
  BY <1>4, <1>8 DEF intakeVars, callVars, Active, Opened, Passed
<1>9. ASSUME IntakeStep, UNCHANGED configVars PROVE OverrunBounded'
  <2> HIDE DEF CallsInv, TypeOK
  <2> QED
    BY <1>2, <1>3, <1>4, <1>5, <1>6, <1>7, <1>9 DEF IntakeStep, Preparing
<1> QED
  BY <1>8, <1>9 DEF Next, vars

-----------------------------------------------------------------------------
\* What intake and the configuration are, whatever calls run at once and fail.
THEOREM Invariance == Spec => []IInv
<1>1. Init => IInv
  <2> SUFFICES ASSUME Init PROVE IInv
    OBVIOUS
  <2>1. ConfigInv /\ CallsInv
    BY ConfigStart, CallsStart DEF Init
  <2>2. QuotaInv
    BY IntakeAssumption DEF Init, ConfigInit, QuotaInv, RowFromStart, limit, Quotas, Fresh
  <2>3. OverrunBounded
    <3>1. Active = {} /\ Passed = {}
      BY DEF Init, Active, Opened, Passed
    <3>2. Cardinality(Active) = 0 /\ Cardinality(Passed) = 0
      BY <3>1, FS_EmptySet
    <3>3. Cardinality(Calls) \in Nat /\ Cardinality(Calls) # 0
      BY FS_EmptySet, FS_CardinalityType, IntakeAssumption
    <3>4. None \notin Quotas => InitialLimit \in Quotas /\ InitialLimit \in Nat
      BY IntakeAssumption DEF Quotas, Limits
    <3> QED
      BY <3>2, <3>3, <3>4 DEF OverrunBounded
  <2> QED
    BY <2>1, <2>2, <2>3 DEF IInv
<1>2. IInv /\ [Next]_vars => IInv'
  BY ConfigStays, CallsKeep, QuotaKeeps, BoundKeeps DEF IInv
<1> QED
  BY <1>1, <1>2, PTL DEF Spec

\* _next_request_code: codes are unique and without gaps.
THEOREM CodesAreDense == Spec => []CodesDense
<1>1. IInv => CodesDense
  BY DEF IInv, CallsInv
<1> QED
  BY <1>1, Invariance, PTL

\* UNIQUE (organization_id, idempotency_key): a key opens one case.
THEOREM KeysOpenOnce == Spec => []OncePerKey
<1>1. IInv => OncePerKey
  BY DEF IInv, CallsInv
<1> QED
  BY <1>1, Invariance, PTL

\* assert_cases_within_limit: the overrun of the quota, for any number of calls.
THEOREM QuotaOverrun == Spec => []OverrunBounded
<1>1. IInv => OverrunBounded
  BY DEF IInv
<1> QED
  BY <1>1, Invariance, PTL

\* M5: no committed field or version of the configuration is lost.
THEOREM ConfigKept == Spec => []NoLostUpdate
<1>1. IInv => NoLostUpdate
  BY DEF IInv, ConfigInv
<1> QED
  BY <1>1, Invariance, PTL

\* API-01: a case is opened only by a call during which its client was active.
THEOREM ClientWasActive == Spec => NoCaseForInactive
<1>1. ASSUME IInv, [Next]_vars
      PROVE \A c \in Calls : pc[c] = "numbered" /\ cases' # cases /\ pc'[c] = "idle"
                              /\ route[c] # "bare" => chance[c]
  BY <1>1 DEF IInv, CallsInv, ChanceInv, Routes
<1> QED
  BY <1>1, Invariance, PTL DEF Spec, NoCaseForInactive
=============================================================================
