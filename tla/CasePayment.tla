---------------------------- MODULE CasePayment ----------------------------
(***************************************************************************)
(* Payment of ONE request (row of public.requests) of one case:            *)
(*                                                                         *)
(*  - POST cases/{id}/payment     handlers/payments.py create_case_payment *)
(*    TX1 (check) | reserve | provider | TX2 (finalize) or rollback;       *)
(*  - POST cases/{id}/pix-charge  handlers/pix.py create_pix_charge        *)
(*    TX1 (check) | provider | INSERT;                                     *)
(*  - POST webhooks/pix           handlers/pix.py pix_webhook              *)
(*    read | one atomic transaction | alert or post-payment;               *)
(*  - POST .../simulate           handlers/pix.py simulate_pix_paid;       *)
(*  - DELETE cases/{id}           handlers/cases.py delete_case.           *)
(*                                                                         *)
(* Every handler is a Lambda invocation that may die between two of its    *)
(* database transactions; each transaction is one step (PostgreSQL READ    *)
(* COMMITTED: a single guarded UPDATE or INSERT re-evaluates its WHERE on  *)
(* the committed row it locks).  Distinct requests share no row, so one is *)
(* enough.                                                                 *)
(***************************************************************************)
EXTENDS Naturals, FiniteSets

CONSTANTS
  CardCalls,     \* invocations of create_case_payment, each runs once
  Charges,       \* invocations of create_pix_charge = the payment_id each gets
  Hooks,         \* webhook executions that can be in flight at a time
  Selections,    \* (idempotency_key, payload_hash) pairs of a card body
  PixKeys,       \* idempotency keys of Pix bodies
  CardResults,   \* statuses PaymentResult.status may carry on success
  PixOutcomes,   \* statuses the Pix provider notifies
  EventIds,      \* distinct event_ids the provider may use for one fact
  Exact,         \* whether an event may carry the charge's amount and currency
  None,          \* "no value" (NULL)
  SlowProvider,  \* TRUE: a live card call may outlive _RESERVE_STALE_MIN
  LatePayment,   \* TRUE: a charge that expired or failed may still be paid
  MockMode,      \* TRUE: PAYMENT_MODE=mock, events come from simulate only
  MaxCrashes     \* bound on crashes

ASSUME NoneAssumption ==
  /\ None \notin CardCalls
  /\ None \notin Charges
  /\ CardCalls \cap Charges = {}

ASSUME ModeAssumption ==
  /\ SlowProvider \in BOOLEAN
  /\ LatePayment \in BOOLEAN
  /\ MockMode \in BOOLEAN
  /\ MaxCrashes \in Nat

\* states.PixState without its initial PENDING_PAYMENT.
PixTerminal == {"PAID", "EXPIRED", "CANCELLED", "REFUNDED", "PAYMENT_FAILED"}

\* adapters/payment.py Status: what a payment provider may answer.
CardStatus == {"simulated", "pending", "paid", "failed", "canceled", "expired",
               "refunded"}

ASSUME OutcomeAssumption ==
  /\ PixOutcomes \subseteq PixTerminal
  /\ CardResults \subseteq CardStatus
  /\ Exact \subseteq BOOLEAN

PixState == PixTerminal \cup {"PENDING_PAYMENT", "absent"}

CardLive == {"reserved", "charged", "declined"}
CardPc == {"idle", "checked", "registered", "replayed", "refused", "failed",
           "crashed"} \cup CardLive
PixPc == {"idle", "checked", "created", "active", "replayed", "refused",
          "crashed"}
HookCommitted == {"projected", "unprojected", "unapplied", "quiet"}
HookPc == {"idle", "read"} \cup HookCommitted

Event == [charge : Charges, status : PixOutcomes, exact : Exact, n : EventIds]

VARIABLES
  status,      \* requests.payment_status
  settledBy,   \* requests.installment_plan: whose payment it records, or NULL
  holder,      \* requests.updated_at of a reservation = the call that wrote it
  stale,       \* that updated_at is more than _RESERVE_STALE_MIN minutes old
  deleted,     \* cases.deleted_at IS NOT NULL
  cardPc,      \* control state of each card call, or the answer it gave
  sel,         \* the selection (key, hash) in the body of each card call
  result,      \* status the payment provider answered to each card call
  charged,     \* card calls for which the provider created a charge
  pixPc,       \* control state of each create_pix_charge, or its answer
  pixKey,      \* idempotency key of each create_pix_charge
  charge,      \* pix_charges.status of each payment_id ("absent": no row)
  events,      \* webhook events the provider has emitted
  acked,       \* events answered 2xx at least once (no retry is due)
  dedup,       \* pix_webhook_events: events consumed
  hookPc, hookEv, hookSaw,  \* webhook executions: control, event, status read
  enqueued,    \* charges handed to the post-payment flow
  alerts,      \* charges for which a PIX_PAID_NOT_* alert was raised
  unnotified,  \* history: charges whose execution died between commit and alert
  crashes

reqVars  == <<status, settledBy, holder, stale>>
cardVars == <<cardPc, sel, result, charged>>
pixVars  == <<pixPc, pixKey>>
hookVars == <<hookPc, hookEv, hookSaw>>
noteVars == <<enqueued, alerts, unnotified>>
rowVars == <<reqVars, deleted>>
webVars == <<events, acked, dedup, hookVars, noteVars>>
vars == <<rowVars, cardVars, pixVars, charge, webVars, crashes>>

Init ==
  /\ status = "pending" /\ settledBy = None /\ holder = None /\ stale = FALSE
  /\ deleted = FALSE
  /\ cardPc = [a \in CardCalls |-> "idle"]
  /\ sel = [a \in CardCalls |-> None]
  /\ result = [a \in CardCalls |-> None]
  /\ charged = {}
  /\ pixPc = [p \in Charges |-> "idle"]
  /\ pixKey = [p \in Charges |-> None]
  /\ charge = [p \in Charges |-> "absent"]
  /\ events = {} /\ acked = {} /\ dedup = {}
  /\ hookPc = [w \in Hooks |-> "idle"]
  /\ hookEv = [w \in Hooks |-> None]
  /\ hookSaw = [w \in Hooks |-> None]
  /\ enqueued = {} /\ alerts = {} /\ unnotified = {}
  /\ crashes = 0

CanCrash == crashes < MaxCrashes /\ crashes' = crashes + 1

-----------------------------------------------------------------------------
(* create_case_payment *)

\* TX1: what the call answers, or "checked" when it may go on to reserve.  A
\* deleted case is 404; a recorded plan is replayed to the very selection that
\* made it and refused to any other (a Pix plan carries no key).  A writer whose
\* access was revoked is refused in every case; validation and a diverging
\* expected_total refuse before the reserve.
CardCheckOutcomes_AnyKey(s) ==  \* mutant: the key and hash are not compared
  {"refused"} \cup IF deleted THEN {}
                  ELSE IF settledBy # None THEN {"replayed"} ELSE {"checked"}

CardCheckOutcomes(s) ==
  {"refused"} \cup
    IF deleted THEN {}
    ELSE IF settledBy = None THEN {"checked"}
    ELSE IF settledBy \in CardCalls /\ sel[settledBy] = s THEN {"replayed"} ELSE {}

CardCheck(a) ==
  /\ cardPc[a] = "idle"
  /\ \E s \in Selections : \E o \in CardCheckOutcomes(s) :
       /\ cardPc' = [cardPc EXCEPT ![a] = o]
       /\ sel' = [sel EXCEPT ![a] = s]
  /\ UNCHANGED <<rowVars, result, charged, pixVars, charge, webVars, crashes>>

Reservable_Fresh ==  \* mutant: any reservation can be reclaimed
  settledBy = None /\ status \in {"pending", "processing"}

\* WHERE installment_plan IS NULL AND (pending OR stale processing)
Reservable == /\ settledBy = None
              /\ \/ status = "pending"
                 \/ status = "processing" /\ stale

CardReserve(a) ==
  /\ cardPc[a] = "checked"
  /\ IF Reservable
     THEN /\ status' = "processing" /\ holder' = a /\ stale' = FALSE
          /\ cardPc' = [cardPc EXCEPT ![a] = "reserved"]
     ELSE /\ cardPc' = [cardPc EXCEPT ![a] = "refused"]
          /\ UNCHANGED <<status, holder, stale>>
  /\ UNCHANGED <<settledBy, deleted, sel, result, charged, pixVars, charge,
                 webVars, crashes>>

\* provider.create_charge, outside any transaction.
CardCharge(a) ==
  /\ cardPc[a] = "reserved"
  /\ \E r \in CardResults : result' = [result EXCEPT ![a] = r]
  /\ charged' = charged \cup {a}
  /\ cardPc' = [cardPc EXCEPT ![a] = "charged"]
  /\ UNCHANGED <<rowVars, sel, pixVars, charge, webVars, crashes>>

\* provider.create_charge raises.
CardDecline(a) ==
  /\ cardPc[a] = "reserved"
  /\ cardPc' = [cardPc EXCEPT ![a] = "declined"]
  /\ UNCHANGED <<rowVars, sel, result, charged, pixVars, charge, webVars,
                 crashes>>

OwnsReservation_NoToken(a) == status = "processing"  \* mutant: before M4

\* WHERE payment_status = 'processing' AND updated_at = reserved_at
OwnsReservation(a) == status = "processing" /\ holder = a

CardRollback(a) ==
  /\ cardPc[a] = "declined"
  /\ cardPc' = [cardPc EXCEPT ![a] = "failed"]
  /\ IF OwnsReservation(a)
     THEN status' = "pending" /\ holder' = None /\ stale' = FALSE
     ELSE UNCHANGED <<status, holder, stale>>
  /\ UNCHANGED <<settledBy, deleted, sel, result, charged, pixVars, charge,
                 webVars, crashes>>

\* TX2: plan and status in one guarded UPDATE; 0 rows is a 409.
CardFinalize(a) ==
  /\ cardPc[a] = "charged"
  /\ IF OwnsReservation(a)
     THEN /\ status' = result[a] /\ settledBy' = a
          /\ holder' = None /\ stale' = FALSE
          /\ cardPc' = [cardPc EXCEPT ![a] = "registered"]
     ELSE /\ cardPc' = [cardPc EXCEPT ![a] = "refused"]
          /\ UNCHANGED reqVars
  /\ UNCHANGED <<deleted, sel, result, charged, pixVars, charge, webVars,
                 crashes>>

\* The Lambda dies, the provider factory raises, or TX2 or the rollback raises.
CardCrash(a) ==
  /\ cardPc[a] \in {"checked"} \cup CardLive
  /\ CanCrash
  /\ cardPc' = [cardPc EXCEPT ![a] = "crashed"]
  /\ UNCHANGED <<rowVars, sel, result, charged, pixVars, charge, webVars>>

\* Time: the reservation passes _RESERVE_STALE_MIN.  A Lambda lives 15 s at
\* most, so a reservation that old has a dead holder unless SlowProvider.
ReservationAges ==
  /\ status = "processing" /\ ~stale
  /\ SlowProvider \/ cardPc[holder] \notin CardLive
  /\ stale' = TRUE
  /\ UNCHANGED <<status, settledBy, holder, deleted, cardVars, pixVars,
                 charge, webVars, crashes>>

-----------------------------------------------------------------------------
(* create_pix_charge *)

Active == {p \in Charges : charge[p] = "PENDING_PAYMENT"}

\* TX1: 404 deleted, 409 unless 'pending'; an active charge is replayed to its
\* own key and refuses any other; Pix may be disabled for the organization.
PixCheckOutcomes(k) ==
  IF deleted \/ status # "pending" THEN {"refused"}
  ELSE IF Active # {}
       THEN IF \E q \in Active : pixKey[q] = k THEN {"replayed"} ELSE {"refused"}
       ELSE {"checked", "refused"}

PixCheck(p) ==
  /\ pixPc[p] = "idle"
  /\ \E k \in PixKeys : \E o \in PixCheckOutcomes(k) :
       /\ pixPc' = [pixPc EXCEPT ![p] = o]
       /\ pixKey' = [pixKey EXCEPT ![p] = k]
  /\ UNCHANGED <<rowVars, cardVars, charge, webVars, crashes>>

\* provider.create_dynamic_charge, outside any transaction.
PixCreate(p) ==
  /\ pixPc[p] = "checked"
  /\ pixPc' = [pixPc EXCEPT ![p] = "created"]
  /\ UNCHANGED <<rowVars, cardVars, pixKey, charge, webVars, crashes>>

NoActiveCharge_NoIndex == TRUE  \* mutant: no partial unique index
NoActiveCharge == Active = {}

\* INSERT under the partial unique index; UniqueViolation is a 409.  The
\* request is NOT read again: its payment_status may have moved since TX1.
PixInsert(p) ==
  /\ pixPc[p] = "created"
  /\ IF NoActiveCharge
     THEN /\ charge' = [charge EXCEPT ![p] = "PENDING_PAYMENT"]
          /\ pixPc' = [pixPc EXCEPT ![p] = "active"]
     ELSE /\ pixPc' = [pixPc EXCEPT ![p] = "refused"]
          /\ UNCHANGED charge
  /\ UNCHANGED <<rowVars, cardVars, pixKey, webVars, crashes>>

\* The Lambda dies, or the provider or the INSERT raises (500).
PixCrash(p) ==
  /\ pixPc[p] \in {"checked", "created"}
  /\ CanCrash
  /\ pixPc' = [pixPc EXCEPT ![p] = "crashed"]
  /\ UNCHANGED <<rowVars, cardVars, pixKey, charge, webVars>>

-----------------------------------------------------------------------------
(* The Pix provider (external) and the DEV-ONLY simulate endpoint *)

Emitted(p, st) == \E e \in events : e.charge = p /\ e.status = st
Unpaid == PixOutcomes \ {"PAID", "REFUNDED"}

\* What the provider may truthfully say about a charge it holds.  Only a payer
\* who was given the QR code (the row exists) can pay.
CanEmit(p, st) ==
  CASE st = "PAID" ->
         /\ charge[p] # "absent"
         /\ LatePayment \/ \A u \in Unpaid : ~Emitted(p, u)
    [] st = "REFUNDED" -> Emitted(p, "PAID")
    [] OTHER -> \A u \in PixOutcomes \ {st} : ~Emitted(p, u)

ProviderEmits(e) ==
  /\ ~MockMode
  /\ pixPc[e.charge] \in {"created", "active"} \/ charge[e.charge] # "absent"
  /\ CanEmit(e.charge, e.status)
  /\ events' = events \cup {e}
  /\ UNCHANGED <<rowVars, cardVars, pixVars, charge, acked, dedup, hookVars,
                 noteVars, crashes>>

\* Signs a PAID event, with a fresh event_id, for the active charge.
SimulatePixPaid(e) ==
  /\ MockMode
  /\ e.charge \in Active /\ e.status = "PAID" /\ e.exact
  /\ e \notin events
  /\ events' = events \cup {e}
  /\ UNCHANGED <<rowVars, cardVars, pixVars, charge, acked, dedup, hookVars,
                 noteVars, crashes>>

-----------------------------------------------------------------------------
(* pix_webhook *)

\* states._TRANSITIONS
ValidTransition(cur, target) ==
  \/ cur = "PENDING_PAYMENT" /\ target \in PixTerminal \ {"REFUNDED"}
  \/ cur = "PAID" /\ target = "REFUNDED"

\* Answered 200 without touching any table: unknown charge, diverging amount or
\* currency (logged), or a transition that is not applicable (not logged).
Ignored(e) == \/ charge[e.charge] = "absent"
              \/ ~e.exact
              \/ ~ValidTransition(charge[e.charge], e.status)

\* Delivery of an event (at least once, any order) and the read of its charge.
HookRead(w, e) ==
  /\ hookPc[w] = "idle" /\ e \in events
  /\ IF Ignored(e)
     THEN acked' = acked \cup {e} /\ UNCHANGED hookVars
     ELSE /\ hookPc' = [hookPc EXCEPT ![w] = "read"]
          /\ hookEv' = [hookEv EXCEPT ![w] = e]
          /\ hookSaw' = [hookSaw EXCEPT ![w] = charge[e.charge]]
          /\ UNCHANGED acked
  /\ UNCHANGED <<rowVars, cardVars, pixVars, charge, events, dedup,
                 noteVars, crashes>>

HookIdle(w) == /\ hookPc' = [hookPc EXCEPT ![w] = "idle"]
               /\ hookEv' = [hookEv EXCEPT ![w] = None]
               /\ hookSaw' = [hookSaw EXCEPT ![w] = None]

Projectable_AnyUnpaid == status # "paid"   \* mutant: M1 forgotten
Projectable_OverReservation == settledBy = None  \* mutant: half of M1

\* WHERE payment_status = 'pending' AND installment_plan IS NULL
Projectable == status = "pending" /\ settledBy = None

\* The projection of a PAID charge p on the request.
ProjectPaid(p) == IF Projectable
                  THEN /\ status' = "paid" /\ settledBy' = p
                       /\ UNCHANGED <<holder, stale>>
                  ELSE UNCHANGED reqVars

HookOutcome_TwoEndings(e, saw) ==  \* mutant: no PIX_PAID_NOT_PROJECTED
  IF e.status = "PAID" /\ charge[e.charge] = saw /\ Projectable
  THEN "projected" ELSE "quiet"
HookOutcome_Applied(e, saw) ==  \* mutant: applied is taken for projected
  IF e.status # "PAID" THEN "quiet"
  ELSE IF charge[e.charge] = saw THEN "projected" ELSE "unapplied"

\* Which of its endings the transaction of event e, which read `saw`, takes.
HookOutcome(e, saw) ==
  IF e.status # "PAID" THEN "quiet"
  ELSE IF charge[e.charge] # saw THEN "unapplied"
  ELSE IF Projectable THEN "projected" ELSE "unprojected"

\* The event was consumed by another execution: answer 200 {deduped}.
HookDuplicate(w) ==
  /\ hookPc[w] = "read" /\ hookEv[w] \in dedup
  /\ acked' = acked \cup {hookEv[w]}
  /\ HookIdle(w)
  /\ UNCHANGED <<rowVars, cardVars, pixVars, charge, events, dedup,
                 noteVars, crashes>>

Unmoved_Unguarded(w) == TRUE  \* mutant: UPDATE without AND status = <read>

\* WHERE ... AND status = <the status read before the transaction>
Unmoved(w) == charge[hookEv[w].charge] = hookSaw[w]

\* One transaction: dedup row, guarded charge transition, projection.
HookCommit(w) ==
  LET e == hookEv[w] IN
  /\ hookPc[w] = "read" /\ e \notin dedup
  /\ dedup' = dedup \cup {e}
  /\ hookPc' = [hookPc EXCEPT ![w] = HookOutcome(e, hookSaw[w])]
  /\ IF Unmoved(w)
     THEN /\ charge' = [charge EXCEPT ![e.charge] = e.status]
          /\ IF e.status = "PAID" THEN ProjectPaid(e.charge)
                                  ELSE UNCHANGED reqVars
     ELSE UNCHANGED <<charge, reqVars>>
  /\ UNCHANGED <<deleted, cardVars, pixVars, events, acked, hookEv, hookSaw,
                 noteVars, crashes>>

\* After the commit: post-payment, alert or nothing, then 200.
HookNotify(w) ==
  LET p == hookEv[w].charge IN
  /\ hookPc[w] \in HookCommitted
  /\ enqueued' = IF hookPc[w] = "projected" THEN enqueued \cup {p} ELSE enqueued
  /\ alerts' = IF hookPc[w] \in {"unprojected", "unapplied"}
               THEN alerts \cup {p} ELSE alerts
  /\ acked' = acked \cup {hookEv[w]}
  /\ HookIdle(w)
  /\ UNCHANGED <<rowVars, cardVars, pixVars, charge, events, dedup,
                 unnotified, crashes>>

RollBack_ButDedup(w) ==  \* mutant: the dedup row is committed on its own
  dedup' = IF hookPc[w] = "read" THEN dedup \cup {hookEv[w]} ELSE dedup

\* A failure before the commit leaves no row behind, the dedup row included.
RollBack(w) == dedup' = dedup

\* The transaction raises (500, rolled back) or the Lambda dies before or after
\* the commit: no 2xx, the provider will retry.
HookCrash(w) ==
  /\ hookPc[w] # "idle"
  /\ CanCrash
  /\ unnotified' = IF hookPc[w] \in HookCommitted \ {"quiet"}
                   THEN unnotified \cup {hookEv[w].charge} ELSE unnotified
  /\ HookIdle(w) /\ RollBack(w)
  /\ UNCHANGED <<rowVars, cardVars, pixVars, charge, events, acked,
                 enqueued, alerts>>

-----------------------------------------------------------------------------
\* delete_case: soft delete, whatever the payment state.
DeleteCase ==
  /\ ~deleted /\ deleted' = TRUE
  /\ UNCHANGED <<reqVars, cardVars, pixVars, charge, webVars, crashes>>

CardStep(a) == \/ CardCheck(a) \/ CardReserve(a) \/ CardCharge(a)
               \/ CardDecline(a) \/ CardRollback(a) \/ CardFinalize(a)
               \/ CardCrash(a)
PixStep(p) == PixCheck(p) \/ PixCreate(p) \/ PixInsert(p) \/ PixCrash(p)
HookStep(w) == \/ \E e \in Event : HookRead(w, e)
               \/ HookDuplicate(w) \/ HookCommit(w) \/ HookNotify(w)
               \/ HookCrash(w)

Next == \/ \E a \in CardCalls : CardStep(a)
        \/ ReservationAges
        \/ \E p \in Charges : PixStep(p)
        \/ \E e \in Event : ProviderEmits(e) \/ SimulatePixPaid(e)
        \/ \E w \in Hooks : HookStep(w)
        \/ DeleteCase

Spec == Init /\ [][Next]_vars

-----------------------------------------------------------------------------
(* Fairness: a running handler goes on to its next transaction (or crashes, *)
(* but only MaxCrashes times), and the provider redelivers an event until   *)
(* it is answered 2xx.  Users, payers and the provider's decisions are not  *)
(* fair.                                                                    *)
DeliverUnacked(e) == e \notin acked /\ \E w \in Hooks : HookRead(w, e)

Fairness ==
  /\ \A w \in Hooks : WF_vars(HookDuplicate(w) \/ HookCommit(w) \/ HookNotify(w))
  /\ \A e \in Event : WF_vars(DeliverUnacked(e))

FairSpec == Spec /\ Fairness

-----------------------------------------------------------------------------
(* Properties *)

TypeOK ==
  /\ status \in {"processing"} \cup CardStatus
  /\ settledBy \in CardCalls \cup Charges \cup {None}
  /\ holder \in CardCalls \cup {None}
  /\ stale \in BOOLEAN /\ deleted \in BOOLEAN
  /\ cardPc \in [CardCalls -> CardPc]
  /\ sel \in [CardCalls -> Selections \cup {None}]
  /\ result \in [CardCalls -> CardResults \cup {None}]
  /\ charged \subseteq CardCalls
  /\ pixPc \in [Charges -> PixPc]
  /\ pixKey \in [Charges -> PixKeys \cup {None}]
  /\ charge \in [Charges -> PixState]
  /\ events \subseteq Event /\ acked \subseteq Event /\ dedup \subseteq Event
  /\ hookPc \in [Hooks -> HookPc]
  /\ hookEv \in [Hooks -> Event \cup {None}]
  /\ hookSaw \in [Hooks -> PixState \cup {None}]
  /\ enqueued \subseteq Charges /\ alerts \subseteq Charges
  /\ unnotified \subseteq Charges
  /\ crashes \in Nat

\* "so um request passa de pending->processing" (payments.py:109): while no
\* live call outlives the reservation, at most one call is between its reserve
\* and its finalize or rollback, whatever crashed before it.
ExclusiveReservation ==
  ~SlowProvider =>
    \A a, b \in CardCalls : cardPc[a] \in CardLive /\ cardPc[b] \in CardLive
                            => a = b

\* The rows of TX2 and of the Pix projection never defeat a live card call: a
\* call whose provider charged, and that did not die, is the one recorded.
ChargedCallSettles ==
  ~SlowProvider =>
    \A a \in charged : cardPc[a] \in {"charged", "crashed"} \/ settledBy = a

\* M4 (payments.py:126): a reservation is ended only by the last step of the
\* call that made it, even if calls outlive their reservation.
OnlyHolderEndsReservation ==
  [][ status = "processing" /\ status' # "processing"
      => /\ cardPc[holder] \in {"charged", "declined"}
         /\ cardPc'[holder] \in {"registered", "failed"} ]_vars

\* M1 (pix.py:277): a recorded plan and its payment_status are never rewritten,
\* by a second card call, a reclaimed reservation, a webhook or a refund.
SettledIsFinal ==
  [][ settledBy # None => UNCHANGED <<settledBy, status>> ]_vars

\* Idempotency of create_case_payment: a 200 replay was given only to the same
\* key and payload as those of the payment recorded, now and ever after.
ReplayMatchesPlan ==
  \A a \in CardCalls : cardPc[a] = "replayed" =>
    settledBy \in CardCalls /\ cardPc[settledBy] = "registered"
                            /\ sel[settledBy] = sel[a]

Confirmed == {p \in Charges : charge[p] \in {"PAID", "REFUNDED"}}

\* "Uma confirmacao PAID NUNCA pode ser silenciosa" (pix.py:290) for the
\* confirmations that were applied: the charge was handed to post-payment or
\* alerted, or an execution is about to, or the one that would have died.
AppliedPaidAccounted ==
  \A p \in Confirmed :
    \/ p \in enqueued \cup alerts \cup unnotified
    \/ \E w \in Hooks : /\ hookPc[w] \in HookCommitted \ {"quiet"}
                        /\ hookEv[w].charge = p

\* Post-payment runs only for the charge that settled the request, so at most
\* one charge ever gets it, though several may be paid.
PostPaymentOnlyForSettler == \A p \in enqueued : settledBy = p

\* 026 and states.py: at most one charge can be waiting for payment, however
\* many create_pix_charge calls raced past TX1.
OneActiveCharge == \A p, q \in Active : p = q

\* states._TRANSITIONS hold on the row, not only on the status that was read:
\* an execution that read an older status never overwrites a newer one.
ChargeMovesValid ==
  [][ \A p \in Charges :
        charge'[p] # charge[p] =>
          \/ charge[p] = "absent" /\ charge'[p] = "PENDING_PAYMENT"
          \/ ValidTransition(charge[p], charge'[p]) ]_vars

PaidEvent(p) == \E e \in events : e.charge = p /\ e.status = "PAID" /\ e.exact

\* "sem perder o pagamento por falha pos-dedup" (pix.py:257): whatever fails
\* half-way, a PAID event that the provider keeps delivering ends the wait.
PaidIsApplied ==
  \A p \in Charges :
    PaidEvent(p) /\ charge[p] = "PENDING_PAYMENT"
      ~> charge[p] # "PENDING_PAYMENT"

\* The ledger promise: settled at most once, and only by collected money.
Ledger == INSTANCE PaymentLedger WITH
            Payments <- CardCalls \cup Charges,
            collected <- charged \cup Confirmed

\* What the payment gate relies on (CaseLifecycle): the payment status moves only
\* by a reservation, its end, or the confirmation of an open request.
Pay == INSTANCE RequestPayment WITH Answers <- CardResults, payment <- status

LedgerSpec == Ledger!Spec /\ Pay!Spec

-----------------------------------------------------------------------------
(* The inductive invariant behind the properties above *)

\* A reservation belongs to a call that has not answered yet; it is stale only
\* if that call died, unless calls may outlive it.
ReservationInv ==
  /\ status = "processing" <=> holder # None
  /\ holder # None =>
       settledBy = None /\ cardPc[holder] \in CardLive \cup {"crashed"}
  /\ ~SlowProvider =>
       /\ stale => holder # None /\ cardPc[holder] = "crashed"
       /\ \A a \in CardCalls : cardPc[a] \in CardLive => holder = a

\* The plan, its status and the call or charge it records agree.
PlanInv ==
  /\ settledBy = None => status \in {"pending", "processing"}
  /\ settledBy \in CardCalls => cardPc[settledBy] = "registered"
                              /\ status = result[settledBy]
  /\ settledBy \in Charges => settledBy \in Confirmed /\ status = "paid"

\* What the control state of a card call says about the provider.
ChargedInv ==
  \A a \in CardCalls :
    /\ cardPc[a] \in {"charged", "registered"} => a \in charged
    /\ a \in charged => /\ result[a] \in CardResults
                        /\ cardPc[a] \in {"charged", "crashed", "registered",
                                          "refused"}

\* A row exists exactly for the calls that inserted it; an execution past its
\* read holds an event and the status from which that event is a transition.
ChargeInv == \A p \in Charges : charge[p] = "absent" <=> pixPc[p] # "active"
HookInv ==
  \A w \in Hooks : hookPc[w] # "idle" =>
    /\ hookEv[w] \in Event
    /\ ValidTransition(hookSaw[w], hookEv[w].status)
    /\ hookPc[w] = "projected" => settledBy = hookEv[w].charge

IInv == /\ TypeOK /\ ReservationInv /\ PlanInv /\ ChargedInv /\ ChargeInv
        /\ HookInv /\ ReplayMatchesPlan /\ ChargedCallSettles
        /\ OneActiveCharge /\ AppliedPaidAccounted
        /\ PostPaymentOnlyForSettler

-----------------------------------------------------------------------------
(* Claims of the repository that the code does not keep *)

\* pix.py:290 "Uma confirmacao PAID NUNCA pode ser silenciosa": once a PAID
\* event with the right amount was answered 2xx and no execution is running,
\* its charge was handed to post-payment or alerted.
PaidNeverSilent ==
  (\A w \in Hooks : hookPc[w] = "idle") =>
    \A e \in acked : e.status = "PAID" /\ e.exact /\ charge[e.charge] # "absent"
                     => e.charge \in enqueued \cup alerts
=============================================================================
