--------------------------- MODULE CaseLifecycle ---------------------------
(***************************************************************************)
(* Life of ONE case (row of public.cases) with the rows that hang from it: *)
(* evidence of its triage modules, its report, its results and parties.    *)
(*                                                                         *)
(*  - POST cases/{id}/triage          handlers/triage.py run_triage        *)
(*  - POST cases/{id}/report          handlers/reports.py generate         *)
(*  - PATCH cases/{id}/report/review  handlers/reports.py review           *)
(*  - case_results / case_parties     create, update, delete               *)
(*  - PATCH / DELETE cases/{id}       handlers/cases.py                    *)
(*                                                                         *)
(* Each call is one database transaction.  services/case_lifecycle.py      *)
(* locks the case row (FOR UPDATE) before the writes of most of them, so a *)
(* transaction is: take the row | further reads | writes and commit; what  *)
(* it reads of rows it does not lock may move in between.  create_case_    *)
(* result and upload_document take no lock: their check and their insert   *)
(* see two different moments.  A call that is refused changes nothing and  *)
(* is not a step.                                                          *)
(***************************************************************************)
EXTENDS Naturals, FiniteSets

CONSTANTS
  Txs,          \* calls that can be in flight at a time
  Modules,      \* triage modules planned for the case
  Results,      \* ids of case_results rows (documents behave alike)
  Parties,      \* ids of case_parties rows
  Hard,         \* PAYMENT_GATE = hard
  Production,   \* is_production()
  Provenance,   \* whether a generated report carries the simulated marker
  CardResults,  \* what the provider of a card payment may answer
  None,         \* NULL, no row
  MaxVersion,   \* bound on case_reports.version
  MaxEdits      \* bound on the writes to one result or party

ASSUME CaseConstants ==
  /\ None \notin Txs
  /\ Results \cap Parties = {}
  /\ Hard \in BOOLEAN /\ Production \in BOOLEAN
  /\ Provenance \subseteq BOOLEAN
  /\ MaxVersion \in Nat /\ MaxEdits \in Nat

\* schemas CASE_STATUS_PATTERN
CaseStatus == {"open", "in_progress", "awaiting_triage", "triage_completed",
               "report_ready", "completed", "closed"}
FinalizedStatuses == {"completed", "closed"}

\* What run_triage left of one module: nothing yet, a failed query, or the
\* signals that _interpret drew from the evidence (none, some, a HIGH_RISK one).
Evidence == {"none", "failed", "clean", "signal", "grave"}
Risk == {"low", "medium", "high"}
Recommendation == {"proceed", "proceed_with_caution", "do_not_proceed",
                   "human_review_required"}
Children == Results \cup Parties

Report == [status : {"ready", "approved"}, simulated : BOOLEAN,
           recommendation : Recommendation, version : Nat, reviewed : BOOLEAN]

Gated == {"triage", "generate"}           \* work that must have been paid
Locking == Gated \cup {"review", "child"} \* calls of assert_case_writable

PaymentStatus == {"pending", "processing", "paid"} \cup CardResults

VARIABLES
  status,          \* cases.status
  completedAt,     \* cases.completed_at IS NOT NULL
  deleted,         \* cases.deleted_at IS NOT NULL
  risk,            \* cases.risk_level
  recommendation,  \* cases.recommendation
  evidence,        \* provider_results / triage_modules.status of each module
  report,          \* case_reports row of the case
  edits,           \* writes to each result or party; 0: no such row
  payment,         \* requests.payment_status
  rowLock,         \* transaction that holds the case row
  txPc, txOp       \* each call: where it is in its transaction, what it does

caseVars == <<status, completedAt, deleted, risk, recommendation>>
workVars == <<evidence, report>>
txVars == <<rowLock, txPc, txOp>>
vars == <<caseVars, workVars, edits, payment, txVars>>

\* create_request: a case, its plan and its unpaid request.
Init ==
  /\ status = "awaiting_triage" /\ completedAt = FALSE /\ deleted = FALSE
  /\ risk = None /\ recommendation = None
  /\ evidence = [m \in Modules |-> "none"]
  /\ report = None
  /\ edits = [c \in Children |-> 0]
  /\ payment = "pending"
  /\ rowLock = None
  /\ txPc = [t \in Txs |-> "idle"] /\ txOp = [t \in Txs |-> None]

-----------------------------------------------------------------------------
(* services/case_lifecycle.py *)

Finalized == status \in FinalizedStatuses
Writable == ~deleted /\ ~Finalized

Accepted_InFlight == PaymentStatus \ {"pending"}  \* mutant: reserved is paid

\* _PAID_STATUSES / _PAID_STATUSES_DEV
Accepted == IF Production THEN {"paid"} ELSE {"simulated", "paid"}

Triaged == \E m \in Modules : evidence[m] \in {"clean", "signal", "grave"}

RowFree == rowLock = None

TakeRow_NoLock(t) == rowLock' = rowLock  \* mutant: SELECT without FOR UPDATE

\* SELECT ... FOR UPDATE: waits for the row, then sees its latest version.
TakeRow(t) == rowLock' = t

End(t) == /\ txPc' = [txPc EXCEPT ![t] = "idle"]
          /\ txOp' = [txOp EXCEPT ![t] = None]
          /\ rowLock' = IF rowLock = t THEN None ELSE rowLock

\* assert_case_writable
Begin(t, op) ==
  /\ txPc[t] = "idle" /\ RowFree /\ Writable
  /\ TakeRow(t)
  /\ txPc' = [txPc EXCEPT ![t] = "locked"]
  /\ txOp' = [txOp EXCEPT ![t] = op]
  /\ UNCHANGED <<caseVars, workVars, edits, payment>>

\* assert_case_paid: reads public.requests, which this transaction does not lock.
ClearPayment(t) ==
  /\ txPc[t] = "locked" /\ txOp[t] \in Gated
  /\ Hard => payment \in Accepted
  /\ txPc' = [txPc EXCEPT ![t] = "cleared"]
  /\ UNCHANGED <<caseVars, workVars, edits, payment, rowLock, txOp>>

\* Any refusal or exception after the lock, a timeout, a dead Lambda: rollback.
Abort(t) ==
  /\ txPc[t] # "idle"
  /\ End(t)
  /\ UNCHANGED <<caseVars, workVars, edits, payment>>

-----------------------------------------------------------------------------
(* services/triage_runner.py and services/report_generator.py *)

Some(ev, kinds) == \E m \in Modules : ev[m] \in kinds

\* classify_risk over the signals of all modules
ClassifyRisk(ev) == IF Some(ev, {"grave"}) THEN "high"
                    ELSE IF Some(ev, {"signal"}) THEN "medium" ELSE "low"

\* TRIAGE-03: a failed module is not a clean one.
TriageRisk(ev) == IF Some(ev, {"failed"}) /\ ClassifyRisk(ev) = "low"
                  THEN "medium" ELSE ClassifyRisk(ev)

ReportRisk_NoFloor(ev) == ClassifyRisk(ev)  \* mutant: before TRIAGE-02

\* TRIAGE-02: the same floor when the report recomputes the risk.
ReportRisk(ev) == IF Some(ev, {"failed"}) /\ ClassifyRisk(ev) = "low"
                  THEN "medium" ELSE ClassifyRisk(ev)

RecommendationFor(ev) ==
  IF Some(ev, {"failed"}) \/ ~Some(ev, Evidence \ {"none"})
  THEN "human_review_required"
  ELSE CASE ReportRisk(ev) = "low" -> "proceed"
         [] ReportRisk(ev) = "medium" -> "proceed_with_caution"
         [] OTHER -> "do_not_proceed"

\* run_case_triage: every module answers or fails; all in one transaction.
RunTriage(t) ==
  /\ txPc[t] = "cleared" /\ txOp[t] = "triage"
  /\ \E ev \in [Modules -> Evidence \ {"none"}] :
       /\ evidence' = ev
       /\ risk' = TriageRisk(ev)
  /\ status' = "triage_completed"
  /\ End(t)
  /\ UNCHANGED <<completedAt, deleted, recommendation, report, edits, payment>>

NextVersion == IF report = None THEN 1 ELSE report.version + 1
Reviewed == report # None /\ report.reviewed

\* generate_report: the upsert makes the report 'ready' again and a version
\* newer; it leaves reviewed_by and reviewed_at as they were.
Generate(t) ==
  /\ txPc[t] = "cleared" /\ txOp[t] = "generate"
  /\ Triaged
  /\ NextVersion <= MaxVersion
  /\ \E s \in Provenance :
       report' = [status |-> "ready", simulated |-> s,
                  recommendation |-> RecommendationFor(evidence),
                  version |-> NextVersion, reviewed |-> Reviewed]
  /\ status' = "report_ready"
  /\ risk' = ReportRisk(evidence)
  /\ recommendation' = RecommendationFor(evidence)
  /\ End(t)
  /\ UNCHANGED <<completedAt, deleted, evidence, edits, payment>>

Approvable_Any == TRUE  \* mutant: before SEC-13
Approvable == ~report.simulated

SyncedRecommendation_Stale(r) == recommendation  \* mutant: report edited alone

\* cases.recommendation after a review that sent recommendation r (or none)
SyncedRecommendation(r) == IF r = None THEN recommendation ELSE r

\* review_report: 'reviewed' records the reviewer, 'approved' closes the case.
Review(t) ==
  /\ txPc[t] = "locked" /\ txOp[t] = "review"
  /\ report # None
  /\ \E to \in {"reviewed", "approved"}, r \in Recommendation \cup {None} :
       /\ to = "approved" => Approvable
       /\ report' = [report EXCEPT
            !.reviewed = TRUE,
            !.status = IF to = "approved" THEN "approved" ELSE @,
            !.recommendation = IF r = None THEN @ ELSE r]
       /\ recommendation' = SyncedRecommendation(r)
       /\ IF to = "approved" THEN status' = "completed" /\ completedAt' = TRUE
                             ELSE UNCHANGED <<status, completedAt>>
  /\ End(t)
  /\ UNCHANGED <<deleted, risk, evidence, edits, payment>>

-----------------------------------------------------------------------------
(* Results, parties and documents *)

Edited(c) == /\ edits[c] > 0 /\ edits[c] < MaxEdits
             /\ edits' = [edits EXCEPT ![c] = @ + 1]

CreateParty(c) == edits[c] = 0 /\ edits' = [edits EXCEPT ![c] = 1]
UpdateParty(c) == Edited(c)
UpdateResult(c) == Edited(c)
DeleteResult(c) == edits[c] > 0 /\ edits' = [edits EXCEPT ![c] = 0]

\* The calls on results and parties that hold the case row.
WriteChild(t) ==
  /\ txPc[t] = "locked" /\ txOp[t] = "child"
  /\ \/ \E c \in Parties : CreateParty(c) \/ UpdateParty(c)
     \/ \E c \in Results : UpdateResult(c) \/ DeleteResult(c)
  /\ End(t)
  /\ UNCHANGED <<caseVars, workVars, payment>>

\* create_case_result, upload_document: WHERE EXISTS reads the case without
\* locking it ...
CheckCase(t) ==
  /\ txPc[t] = "idle" /\ Writable
  /\ txPc' = [txPc EXCEPT ![t] = "seen"]
  /\ UNCHANGED <<caseVars, workVars, edits, payment, rowLock, txOp>>

\* ... and the foreign key of the inserted row waits for a FOR UPDATE holder.
InsertResult(t) ==
  /\ txPc[t] = "seen" /\ RowFree
  /\ \E c \in Results : edits[c] = 0 /\ edits' = [edits EXCEPT ![c] = 1]
  /\ End(t)
  /\ UNCHANGED <<caseVars, workVars, payment>>

-----------------------------------------------------------------------------
(* handlers/cases.py *)

\* COALESCE(completed_at, now()) in a finalized status, NULL in any other
CompletedAfter(st) == st \in FinalizedStatuses

\* update_case: any status of the pattern, deleted or finalized case alike.
UpdateCase(st) ==
  /\ RowFree
  /\ status' = st /\ completedAt' = CompletedAfter(st)
  /\ UNCHANGED <<deleted, risk, recommendation, workVars, edits, payment,
                 txVars>>

DeleteCase ==
  /\ RowFree /\ ~deleted
  /\ deleted' = TRUE
  /\ UNCHANGED <<status, completedAt, risk, recommendation, workVars, edits,
                 payment, txVars>>

\* handlers/payments.py and pix.py on the request: what CasePayment implements.
Pay == INSTANCE RequestPayment WITH Answers <- CardResults

PaymentMoves == Pay!Next /\ UNCHANGED <<caseVars, workVars, edits, txVars>>

Transaction(t) ==
  \/ \E op \in Locking : Begin(t, op)
  \/ ClearPayment(t) \/ RunTriage(t) \/ Generate(t) \/ Review(t)
  \/ WriteChild(t) \/ CheckCase(t) \/ InsertResult(t) \/ Abort(t)

Next == \/ \E t \in Txs : Transaction(t)
        \/ \E st \in CaseStatus : UpdateCase(st)
        \/ DeleteCase \/ PaymentMoves

Spec == Init /\ [][Next]_vars

-----------------------------------------------------------------------------
(* Properties *)

TypeOK ==
  /\ status \in CaseStatus /\ completedAt \in BOOLEAN /\ deleted \in BOOLEAN
  /\ risk \in Risk \cup {None}
  /\ recommendation \in Recommendation \cup {None}
  /\ evidence \in [Modules -> Evidence]
  /\ report \in Report \cup {None}
  /\ edits \in [Children -> Nat]
  /\ payment \in PaymentStatus
  /\ rowLock \in Txs \cup {None}
  /\ txPc \in [Txs -> {"idle", "locked", "cleared", "seen"}]
  /\ txOp \in [Txs -> Locking \cup {None}]

\* PAYMENT_GATE=hard (case_lifecycle.py:67): evidence and reports exist only
\* for a request that is paid, though its status was read without a lock.
WorkIsPaid ==
  Hard /\ (report # None \/ Some(evidence, Evidence \ {"none"}))
    => payment \in Accepted

\* "tornando o guard atomico (sem TOCTOU)" (case_lifecycle.py:53): evidence,
\* report, risk, recommendation, parties and existing results of a finalized
\* or deleted case do not change, whatever was in flight when it was finalized.
FinalizedFrozen ==
  [][ ~Writable =>
        /\ UNCHANGED <<evidence, report, risk, recommendation>>
        /\ \A c \in Children :
             c \in Parties \/ edits[c] > 0 => edits'[c] = edits[c] ]_vars

\* cases.py:494: a case has a completion date exactly while it is finalized,
\* through approvals, re-triages, reopenings and PATCHes in any order.
CompletedAtMatches == completedAt <=> Finalized

\* report_generator.py:202: the recommendation shown with the case is the one
\* of its report, regenerated or edited by a reviewer.
RecommendationSynced ==
  report # None => recommendation = report.recommendation

\* TRIAGE-02 / TRIAGE-03: the badge of the case always says what the evidence
\* now stored says, and is never 'low' when a module failed.
RiskHonest ==
  Some(evidence, Evidence \ {"none"}) =>
    /\ risk = "high" <=> Some(evidence, {"grave"})
    /\ risk = "low" <=> ~Some(evidence, {"grave", "signal", "failed"})

\* SEC-13: an approved report is never a simulated one, even if it was
\* regenerated after its case was reopened.
ApprovedIsReal == report # None => ~(report.status = "approved"
                                     /\ report.simulated)

\* A transaction past its guard holds the row of a case that can be written,
\* and, when it was cleared, of a request that stays paid.
LockInv ==
  /\ \A t \in Txs :
       /\ txPc[t] \in {"locked", "cleared"} => rowLock = t /\ Writable
       /\ txPc[t] = "cleared" => (Hard => payment \in Accepted)
  /\ rowLock # None => txPc[rowLock] \in {"locked", "cleared"}

\* Once the case was triaged its risk is the floored risk of its evidence.
EvidenceInv == Some(evidence, Evidence \ {"none"}) =>
                 risk = TriageRisk(evidence)

IInv == /\ TypeOK /\ LockInv /\ EvidenceInv /\ WorkIsPaid
        /\ CompletedAtMatches /\ RecommendationSynced /\ ApprovedIsReal

=============================================================================
