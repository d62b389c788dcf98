------------------------ MODULE CaseLifecycleProofs ------------------------
(* Proofs about CaseLifecycle for any calls, modules, rows and bounds.      *)
EXTENDS CaseLifecycle, TLAPS

\* The initial case satisfies the inductive invariant.
LEMMA InitIInv == Init => IInv
<1> SUFFICES ASSUME Init PROVE IInv
  OBVIOUS
<1>1. TypeOK
  BY DEF Init, TypeOK, CaseStatus, Evidence, PaymentStatus
<1>2. LockInv
  BY DEF Init, LockInv
<1>3. EvidenceInv /\ WorkIsPaid
  BY DEF Init, EvidenceInv, WorkIsPaid, Some, Evidence
<1>4. CompletedAtMatches /\ RecommendationSynced /\ ApprovedIsReal
  BY DEF Init, CompletedAtMatches, Finalized, FinalizedStatuses,
         RecommendationSynced, ApprovedIsReal
<1> QED BY <1>1, <1>2, <1>3, <1>4 DEF IInv

\* What taking part of a transaction does to the lock and the control state.
LEMMA EndKeepsLockInv ==
  ASSUME TypeOK, LockInv, NEW t \in Txs, End(t),
         UNCHANGED payment,
         txPc[t] \in {"locked", "cleared"} \/ UNCHANGED <<status, deleted>>
  PROVE  /\ LockInv'
         /\ txPc' \in [Txs -> {"idle", "locked", "cleared", "seen"}]
         /\ txOp' \in [Txs -> Locking \cup {None}]
         /\ rowLock' \in Txs \cup {None}
<1> USE CaseConstants DEF TypeOK, End
<1>1. ASSUME NEW u \in Txs, txPc'[u] \in {"locked", "cleared"}
      PROVE  u # t /\ txPc[u] = txPc'[u] /\ rowLock = u /\ Writable
             /\ rowLock' = u
  BY <1>1 DEF LockInv
<1>2. ASSUME NEW u \in Txs, txPc'[u] \in {"locked", "cleared"}
      PROVE  Writable'
  <2>1. rowLock = u /\ u # t /\ Writable
    BY <1>1, <1>2
  <2>2. ~(txPc[t] \in {"locked", "cleared"})
    BY <2>1 DEF LockInv
  <2> QED BY <2>1, <2>2 DEF Writable, Finalized
<1>3. ASSUME NEW u \in Txs, txPc'[u] = "cleared"
      PROVE  Hard => payment' \in Accepted
  BY <1>1, <1>3 DEF LockInv
<1>4. rowLock' # None => txPc'[rowLock'] \in {"locked", "cleared"}
  BY DEF LockInv
<1>5. LockInv'
  BY <1>1, <1>2, <1>3, <1>4 DEF LockInv, Accepted
<1> QED BY <1>5

\* A payment that was accepted is never taken back.
LEMMA AcceptedStays ==
  ASSUME payment \in Accepted, PaymentMoves
  PROVE  FALSE
BY DEF Accepted, PaymentMoves, Pay!Next, Pay!Reserve, Pay!Release, Pay!Record,
       Pay!Confirm

LEMMA RiskTypes == ASSUME NEW ev
                   PROVE  /\ TriageRisk(ev) \in Risk
                          /\ ReportRisk(ev) = TriageRisk(ev)
                          /\ RecommendationFor(ev) \in Recommendation
<1>1. TriageRisk(ev) \in Risk /\ ReportRisk(ev) = TriageRisk(ev)
  BY DEF TriageRisk, ReportRisk, ClassifyRisk, Risk
<1>2. RecommendationFor(ev) \in Recommendation
  BY DEF RecommendationFor, Recommendation
<1> QED BY <1>1, <1>2

\* Every step preserves the inductive invariant.
LEMMA StepIInv == IInv /\ [Next]_vars => IInv'
<1> USE CaseConstants
<1> SUFFICES ASSUME IInv, [Next]_vars PROVE IInv'
  OBVIOUS
<1> USE DEF IInv
<1>0. CASE UNCHANGED vars
  BY <1>0 DEF vars, caseVars, workVars, txVars, TypeOK, LockInv, EvidenceInv,
     WorkIsPaid, CompletedAtMatches, RecommendationSynced, ApprovedIsReal,
     Writable, Finalized, Accepted, Some
<1>1. ASSUME NEW t \in Txs, NEW op \in Locking, Begin(t, op) PROVE IInv'
  <2> USE <1>1 DEF Begin, caseVars, workVars
  <2>1. TypeOK'
    BY DEF TypeOK, TakeRow
  <2>2. LockInv'
    BY DEF TypeOK, TakeRow, LockInv, RowFree, Writable, Finalized, Accepted
  <2> QED BY <2>1, <2>2 DEF EvidenceInv, WorkIsPaid, CompletedAtMatches,
             Finalized, RecommendationSynced, ApprovedIsReal, Some, Accepted
<1>2. ASSUME NEW t \in Txs, ClearPayment(t) PROVE IInv'
  <2> USE <1>2 DEF ClearPayment, caseVars, workVars
  <2>1. TypeOK'
    BY DEF TypeOK
  <2>2. LockInv'
    BY DEF TypeOK, LockInv, Writable, Finalized, Accepted
  <2> QED BY <2>1, <2>2 DEF EvidenceInv, WorkIsPaid, CompletedAtMatches,
             Finalized, RecommendationSynced, ApprovedIsReal, Some, Accepted
<1>3. ASSUME NEW t \in Txs, RunTriage(t) PROVE IInv'
  <2> USE <1>3 DEF RunTriage
  <2>1. LockInv' /\ txPc' \in [Txs -> {"idle", "locked", "cleared", "seen"}]
        /\ txOp' \in [Txs -> Locking \cup {None}] /\ rowLock' \in Txs \cup {None}
    BY EndKeepsLockInv
  <2>2. evidence' \in [Modules -> Evidence] /\ risk' = TriageRisk(evidence')
    BY DEF Evidence
  <2>3. TypeOK'
    BY <2>1, <2>2, RiskTypes DEF TypeOK, CaseStatus
  <2>4. EvidenceInv'
    BY <2>2 DEF EvidenceInv
  <2>5. WorkIsPaid'
    BY DEF WorkIsPaid, LockInv, Accepted
  <2>6. CompletedAtMatches'
    BY DEF CompletedAtMatches, LockInv, Writable, Finalized, FinalizedStatuses
  <2> QED BY <2>1, <2>3, <2>4, <2>5, <2>6
          DEF RecommendationSynced, ApprovedIsReal
<1>4. ASSUME NEW t \in Txs, Generate(t) PROVE IInv'
  <2> USE <1>4 DEF Generate
  <2>1. LockInv' /\ txPc' \in [Txs -> {"idle", "locked", "cleared", "seen"}]
        /\ txOp' \in [Txs -> Locking \cup {None}] /\ rowLock' \in Txs \cup {None}
    BY EndKeepsLockInv
  <2>2. NextVersion \in Nat /\ Reviewed \in BOOLEAN
    BY DEF NextVersion, Reviewed, TypeOK, Report
  <2>3. PICK s \in Provenance :
          report' = [status |-> "ready", simulated |-> s,
                     recommendation |-> RecommendationFor(evidence),
                     version |-> NextVersion, reviewed |-> Reviewed]
    OBVIOUS
  <2>4. report' \in Report /\ report'.status = "ready"
        /\ report'.recommendation = RecommendationFor(evidence)
    BY <2>2, <2>3, RiskTypes DEF Report
  <2>5. TypeOK'
    BY <2>1, <2>4, RiskTypes DEF TypeOK, CaseStatus
  <2>6. EvidenceInv'
    BY RiskTypes DEF EvidenceInv, Some
  <2>7. WorkIsPaid'
    BY DEF WorkIsPaid, LockInv, Accepted
  <2>8. CompletedAtMatches'
    BY DEF CompletedAtMatches, LockInv, Writable, Finalized, FinalizedStatuses
  <2>9. RecommendationSynced' /\ ApprovedIsReal'
    BY <2>4 DEF RecommendationSynced, ApprovedIsReal
  <2> QED BY <2>1, <2>5, <2>6, <2>7, <2>8, <2>9
<1>5. ASSUME NEW t \in Txs, Review(t) PROVE IInv'
  <2> USE <1>5 DEF Review
  <2>1. LockInv' /\ txPc' \in [Txs -> {"idle", "locked", "cleared", "seen"}]
        /\ txOp' \in [Txs -> Locking \cup {None}] /\ rowLock' \in Txs \cup {None}
    BY EndKeepsLockInv
  <2>2. PICK to \in {"reviewed", "approved"}, r \in Recommendation \cup {None} :
          /\ to = "approved" => Approvable
          /\ report' = [report EXCEPT
               !.reviewed = TRUE,
               !.status = IF to = "approved" THEN "approved" ELSE @,
               !.recommendation = IF r = None THEN @ ELSE r]
          /\ recommendation' = SyncedRecommendation(r)
          /\ IF to = "approved" THEN status' = "completed" /\ completedAt' = TRUE
                                ELSE UNCHANGED <<status, completedAt>>
    OBVIOUS
  <2>3. report \in Report
    BY DEF TypeOK
  <2>4. report' \in Report
        /\ report'.simulated = report.simulated
        /\ report'.status = (IF to = "approved" THEN "approved" ELSE report.status)
        /\ report'.recommendation = (IF r = None THEN report.recommendation ELSE r)
    BY <2>2, <2>3 DEF Report
  <2>5. recommendation' = report'.recommendation
    BY <2>2, <2>4 DEF RecommendationSynced, SyncedRecommendation
  <2>6. TypeOK'
    <3>1. status' \in CaseStatus /\ completedAt' \in BOOLEAN
      BY <2>2 DEF TypeOK, CaseStatus
    <3> QED BY <2>1, <2>4, <2>5, <3>1 DEF TypeOK, Report
  <2>7. CompletedAtMatches'
    BY <2>2 DEF CompletedAtMatches, Finalized, FinalizedStatuses
  <2>8. ApprovedIsReal'
    BY <2>2, <2>3, <2>4 DEF ApprovedIsReal, Approvable
  <2>9. EvidenceInv' /\ WorkIsPaid'
    BY DEF EvidenceInv, WorkIsPaid, Some, Accepted
  <2> QED BY <2>1, <2>5, <2>6, <2>7, <2>8, <2>9 DEF RecommendationSynced
<1>6. ASSUME NEW t \in Txs, WriteChild(t) \/ InsertResult(t) \/ Abort(t)
      PROVE IInv'
  <2>1. End(t) /\ UNCHANGED <<caseVars, workVars, payment>>
    BY <1>6 DEF WriteChild, InsertResult, Abort
  <2>2. LockInv' /\ txPc' \in [Txs -> {"idle", "locked", "cleared", "seen"}]
        /\ txOp' \in [Txs -> Locking \cup {None}] /\ rowLock' \in Txs \cup {None}
    BY <2>1, EndKeepsLockInv DEF caseVars
  <2>3. edits' \in [Children -> Nat]
    BY <1>6 DEF TypeOK, WriteChild, Edited, CreateParty, UpdateParty,
                 UpdateResult, DeleteResult, InsertResult, Abort
  <2>4. TypeOK'
    BY <2>1, <2>2, <2>3 DEF TypeOK, caseVars, workVars
  <2> QED BY <2>1, <2>2, <2>4 DEF caseVars, workVars, EvidenceInv, WorkIsPaid,
             CompletedAtMatches, Finalized, RecommendationSynced,
             ApprovedIsReal, Some, Accepted
<1>7. ASSUME NEW t \in Txs, CheckCase(t) PROVE IInv'
  <2> USE <1>7 DEF CheckCase, caseVars, workVars
  <2>1. TypeOK'
    BY DEF TypeOK
  <2>2. LockInv'
    BY DEF TypeOK, LockInv, Writable, Finalized, Accepted
  <2> QED BY <2>1, <2>2 DEF EvidenceInv, WorkIsPaid, CompletedAtMatches,
             Finalized, RecommendationSynced, ApprovedIsReal, Some, Accepted
<1>8. ASSUME NEW st \in CaseStatus, UpdateCase(st) PROVE IInv'
  <2> USE <1>8 DEF UpdateCase, workVars, txVars
  <2>1. TypeOK'
    BY DEF TypeOK, CompletedAfter
  <2>2. LockInv'
    BY DEF TypeOK, LockInv, RowFree, Accepted
  <2>3. CompletedAtMatches'
    BY DEF CompletedAtMatches, CompletedAfter, Finalized
  <2> QED BY <2>1, <2>2, <2>3 DEF EvidenceInv, WorkIsPaid,
             RecommendationSynced, ApprovedIsReal, Some, Accepted
<1>9. CASE DeleteCase
  <2> USE <1>9 DEF DeleteCase, workVars, txVars
  <2>1. TypeOK'
    BY DEF TypeOK
  <2>2. LockInv'
    BY DEF TypeOK, LockInv, RowFree, Accepted
  <2> QED BY <2>1, <2>2 DEF EvidenceInv, WorkIsPaid, CompletedAtMatches,
             Finalized, RecommendationSynced, ApprovedIsReal, Some, Accepted
<1>10. CASE PaymentMoves
  <2> USE <1>10 DEF PaymentMoves, caseVars, workVars, txVars
  <2>1. TypeOK'
    BY DEF TypeOK, PaymentStatus, Pay!Next, Pay!Reserve, Pay!Release,
           Pay!Record, Pay!Confirm
  <2>2. payment \notin Accepted
    BY AcceptedStays
  <2>3. LockInv'
    BY <2>2 DEF LockInv, Writable, Finalized, Accepted
  <2>4. WorkIsPaid'
    BY <2>2 DEF WorkIsPaid, Some
  <2> QED BY <2>1, <2>3, <2>4 DEF EvidenceInv, CompletedAtMatches,
             Finalized, RecommendationSynced, ApprovedIsReal, Some
<1> QED BY <1>0, <1>1, <1>2, <1>3, <1>4, <1>5, <1>6, <1>7, <1>8, <1>9, <1>10
        DEF Next, Transaction

\* The inductive invariant holds in every state.
THEOREM Invariance == Spec => []IInv
BY InitIInv, StepIInv, PTL DEF Spec

\* PAYMENT_GATE=hard: paid work exists only for a paid request.
THEOREM PaidGate == Spec => []WorkIsPaid
<1>1. IInv => WorkIsPaid
  BY DEF IInv
<1> QED BY <1>1, Invariance, PTL

\* Whatever the transactions of the case do, its request is paid as RequestPayment
\* says: what CasePayment was proved to implement is all that a case assumes.
THEOREM RequestIsPaidElsewhere == Spec => Pay!Spec
<1>1. Init => Pay!Init
  BY DEF Init, Pay!Init
<1>2. [Next]_vars => [Pay!Next]_payment
  <2> SUFFICES ASSUME Next, payment' # payment PROVE Pay!Next
    BY DEF vars
  <2>1. ASSUME NEW t \in Txs, Transaction(t) PROVE payment' = payment
    BY <2>1 DEF Transaction, Begin, ClearPayment, RunTriage, Generate, Review, WriteChild,
       Edited, CreateParty, UpdateParty, UpdateResult, DeleteResult, InsertResult,
       CheckCase, Abort
  <2> QED BY <2>1 DEF Next, UpdateCase, DeleteCase, PaymentMoves
<1> QED BY <1>1, <1>2, PTL DEF Spec, Pay!Spec

\* cases.completed_at is set exactly in the finalized statuses.
THEOREM CompletionDate == Spec => []CompletedAtMatches
<1>1. IInv => CompletedAtMatches
  BY DEF IInv
<1> QED BY <1>1, Invariance, PTL

\* The case shows the recommendation of its report.
THEOREM RecommendationIsSynced == Spec => []RecommendationSynced
<1>1. IInv => RecommendationSynced
  BY DEF IInv
<1> QED BY <1>1, Invariance, PTL

\* No simulated report is ever approved.
THEOREM ApprovalIsReal == Spec => []ApprovedIsReal
<1>1. IInv => ApprovedIsReal
  BY DEF IInv
<1> QED BY <1>1, Invariance, PTL

\* The risk badge says what the stored evidence says.
THEOREM RiskIsHonest == Spec => []RiskHonest
<1>1. IInv => RiskHonest
  BY DEF IInv, EvidenceInv, RiskHonest, TriageRisk, ClassifyRisk, Some
<1> QED BY <1>1, Invariance, PTL

\* A step from a finalized or deleted case leaves its work alone.
LEMMA FrozenStep ==
  IInv /\ [Next]_vars =>
    [ ~Writable =>
        /\ UNCHANGED <<evidence, report, risk, recommendation>>
        /\ \A c \in Children :
             c \in Parties \/ edits[c] > 0 => edits'[c] = edits[c] ]_vars
<1> USE CaseConstants
<1> SUFFICES ASSUME IInv, Next, ~Writable
             PROVE  /\ UNCHANGED <<evidence, report, risk, recommendation>>
                    /\ \A c \in Children :
                         c \in Parties \/ edits[c] > 0 => edits'[c] = edits[c]
  OBVIOUS
<1>1. \A t \in Txs : txPc[t] \notin {"locked", "cleared"}
  BY DEF IInv, LockInv
<1>2. ASSUME NEW t \in Txs, InsertResult(t)
      PROVE  /\ UNCHANGED <<evidence, report, risk, recommendation>>
             /\ \A c \in Children :
                  c \in Parties \/ edits[c] > 0 => edits'[c] = edits[c]
  BY <1>2 DEF InsertResult, caseVars, workVars, IInv, TypeOK, Children
<1>3. ASSUME NEW t \in Txs, Transaction(t), ~InsertResult(t)
      PROVE  UNCHANGED <<evidence, report, risk, recommendation, edits>>
  BY <1>1, <1>3 DEF Transaction, Begin, ClearPayment, RunTriage, Generate,
     Review, WriteChild, Edited, CreateParty, UpdateParty, UpdateResult,
     DeleteResult, CheckCase, Abort, caseVars, workVars
<1>4. ASSUME NEW st \in CaseStatus, UpdateCase(st)
      PROVE  UNCHANGED <<evidence, report, risk, recommendation, edits>>
  BY <1>4 DEF UpdateCase, workVars
<1>5. CASE DeleteCase \/ PaymentMoves
  BY <1>5 DEF DeleteCase, PaymentMoves, workVars, caseVars
<1> QED BY <1>2, <1>3, <1>4, <1>5 DEF Next

\* Work of a finalized or deleted case is frozen, whatever was in flight.
THEOREM FinalizedIsFrozen == Spec => FinalizedFrozen
BY Invariance, FrozenStep, PTL DEF Spec, FinalizedFrozen
=============================================================================
