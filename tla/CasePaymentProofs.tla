------------------------- MODULE CasePaymentProofs -------------------------
(***************************************************************************)
(* Proofs about CasePayment, for every number of calls, charges, webhook   *)
(* executions, selections and crashes, and for both settings of every      *)
(* switch.                                                                 *)
(***************************************************************************)
EXTENDS CasePayment, TLAPS

USE DEF rowVars, reqVars, cardVars, pixVars, webVars, hookVars, noteVars

-----------------------------------------------------------------------------
(* The initial states *)

LEMMA InitInv == Init => IInv
<1> SUFFICES ASSUME Init PROVE IInv
  OBVIOUS
<1>1. /\ status \in {"processing"} \cup CardStatus
      /\ settledBy \in CardCalls \cup Charges \cup {None}
      /\ holder \in CardCalls \cup {None}
      /\ stale \in BOOLEAN /\ deleted \in BOOLEAN
  BY DEF Init, CardStatus
<1>2. /\ cardPc \in [CardCalls -> CardPc]
      /\ sel \in [CardCalls -> Selections \cup {None}]
      /\ result \in [CardCalls -> CardResults \cup {None}]
  BY DEF Init, CardPc
<1>3. /\ pixPc \in [Charges -> PixPc]
      /\ pixKey \in [Charges -> PixKeys \cup {None}]
      /\ charge \in [Charges -> PixState]
  BY DEF Init, PixPc, PixState
<1>4. /\ hookPc \in [Hooks -> HookPc]
      /\ hookEv \in [Hooks -> Event \cup {None}]
      /\ hookSaw \in [Hooks -> PixState \cup {None}]
  BY DEF Init, HookPc
<1>5. TypeOK
  BY <1>1, <1>2, <1>3, <1>4 DEF Init, TypeOK
<1>6. ReservationInv /\ PlanInv /\ ChargedInv
  BY NoneAssumption DEF Init, ReservationInv, PlanInv, ChargedInv, CardLive
<1>7. ChargeInv /\ HookInv
  BY DEF Init, ChargeInv, HookInv
<1>8. ReplayMatchesPlan /\ ChargedCallSettles
  BY DEF Init, ReplayMatchesPlan, ChargedCallSettles
<1>9. OneActiveCharge /\ AppliedPaidAccounted /\ PostPaymentOnlyForSettler
  BY DEF Init, OneActiveCharge, Active, AppliedPaidAccounted, Confirmed,
         PostPaymentOnlyForSettler
<1>. QED
  BY <1>5, <1>6, <1>7, <1>8, <1>9 DEF IInv

-----------------------------------------------------------------------------
(* The webhook side of the invariant depends on few variables: steps that   *)
(* leave them alone preserve it.                                            *)

WebInv == /\ ChargeInv /\ HookInv /\ OneActiveCharge /\ AppliedPaidAccounted
          /\ PostPaymentOnlyForSettler

LEMMA WebFrame ==
  ASSUME WebInv,
         UNCHANGED <<charge, webVars>>,
         \A p \in Charges : pixPc'[p] = "active" <=> pixPc[p] = "active",
         settledBy \in Charges => settledBy' = settledBy,
         settledBy = None \/ settledBy \in Charges \/ settledBy' = settledBy,
         TypeOK
  PROVE  WebInv'
<1>1. ChargeInv'
  BY DEF WebInv, ChargeInv
<1>2. HookInv'
  BY NoneAssumption DEF WebInv, HookInv, TypeOK, Event, ValidTransition
<1>3. OneActiveCharge' /\ AppliedPaidAccounted'
  BY DEF WebInv, OneActiveCharge, Active, AppliedPaidAccounted, Confirmed
<1>4. PostPaymentOnlyForSettler'
  BY NoneAssumption DEF WebInv, PostPaymentOnlyForSettler, TypeOK
<1>. QED
  BY <1>1, <1>2, <1>3, <1>4 DEF WebInv

CardInv == /\ ReservationInv /\ PlanInv /\ ChargedInv
           /\ ReplayMatchesPlan /\ ChargedCallSettles

LEMMA CardFrame ==
  ASSUME CardInv, UNCHANGED <<reqVars, cardVars>>, Confirmed \subseteq Confirmed'
  PROVE  CardInv'
<1>1. ReservationInv' /\ PlanInv'
  BY DEF CardInv, ReservationInv, PlanInv
<1>2. ChargedInv' /\ ReplayMatchesPlan' /\ ChargedCallSettles'
  BY DEF CardInv, ChargedInv, ReplayMatchesPlan, ChargedCallSettles
<1>. QED
  BY <1>1, <1>2 DEF CardInv

-----------------------------------------------------------------------------
(* create_case_payment *)

LEMMA CardCheckInv ==
  ASSUME IInv, NEW a \in CardCalls, CardCheck(a)
  PROVE  IInv'
<1> USE DEF CardCheck, CardCheckOutcomes, IInv, CardLive
<1>1. TypeOK'
  BY OutcomeAssumption DEF TypeOK, CardPc, CardStatus, ChargedInv
<1>2. ReservationInv'
  BY NoneAssumption DEF TypeOK, ReservationInv, ChargedInv
<1>3. PlanInv'
  BY NoneAssumption DEF TypeOK, ReservationInv, PlanInv, ChargedInv, Confirmed
<1>4. ChargedInv'
  BY DEF TypeOK, ChargedInv
<1>5. ReplayMatchesPlan'
  BY NoneAssumption DEF TypeOK, ReplayMatchesPlan, PlanInv, ReservationInv
<1>6. ChargedCallSettles'
  BY NoneAssumption DEF TypeOK, ChargedCallSettles, ReservationInv, PlanInv,
                        ChargedInv
<1>7. WebInv'
  BY WebFrame, NoneAssumption DEF WebInv, TypeOK, ReservationInv
<1>. QED
  BY <1>1, <1>2, <1>3, <1>4, <1>5, <1>6, <1>7 DEF WebInv

LEMMA CardReserveInv ==
  ASSUME IInv, NEW a \in CardCalls, CardReserve(a)
  PROVE  IInv'
<1> USE DEF CardReserve, Reservable, IInv, CardLive
<1>1. TypeOK'
  BY OutcomeAssumption DEF TypeOK, CardPc, CardStatus, ChargedInv
<1>2. ReservationInv'
  BY NoneAssumption DEF TypeOK, ReservationInv, ChargedInv
<1>3. PlanInv'
  BY NoneAssumption DEF TypeOK, ReservationInv, PlanInv, ChargedInv, Confirmed
<1>4. ChargedInv'
  BY DEF TypeOK, ChargedInv
<1>5. ReplayMatchesPlan'
  BY NoneAssumption DEF TypeOK, ReplayMatchesPlan, PlanInv, ReservationInv
<1>6. ChargedCallSettles'
  BY NoneAssumption DEF TypeOK, ChargedCallSettles, ReservationInv, PlanInv,
                        ChargedInv
<1>7. WebInv'
  BY WebFrame, NoneAssumption DEF WebInv, TypeOK, ReservationInv
<1>. QED
  BY <1>1, <1>2, <1>3, <1>4, <1>5, <1>6, <1>7 DEF WebInv

LEMMA CardChargeInv ==
  ASSUME IInv, NEW a \in CardCalls, CardCharge(a)
  PROVE  IInv'
<1> USE DEF CardCharge, IInv, CardLive
<1>1. TypeOK'
  BY OutcomeAssumption DEF TypeOK, CardPc, CardStatus, ChargedInv
<1>2. ReservationInv'
  BY NoneAssumption DEF TypeOK, ReservationInv, ChargedInv
<1>3. PlanInv'
  BY NoneAssumption DEF TypeOK, ReservationInv, PlanInv, ChargedInv, Confirmed
<1>4. ChargedInv'
  BY DEF TypeOK, ChargedInv
<1>5. ReplayMatchesPlan'
  BY NoneAssumption DEF TypeOK, ReplayMatchesPlan, PlanInv, ReservationInv
<1>6. ChargedCallSettles'
  BY NoneAssumption DEF TypeOK, ChargedCallSettles, ReservationInv, PlanInv,
                        ChargedInv
<1>7. WebInv'
  BY WebFrame, NoneAssumption DEF WebInv, TypeOK, ReservationInv
<1>. QED
  BY <1>1, <1>2, <1>3, <1>4, <1>5, <1>6, <1>7 DEF WebInv

LEMMA CardDeclineInv ==
  ASSUME IInv, NEW a \in CardCalls, CardDecline(a)
  PROVE  IInv'
<1> USE DEF CardDecline, IInv, CardLive
<1>1. TypeOK'
  BY OutcomeAssumption DEF TypeOK, CardPc, CardStatus, ChargedInv
<1>2. ReservationInv'
  BY NoneAssumption DEF TypeOK, ReservationInv, ChargedInv
<1>3. PlanInv'
  BY NoneAssumption DEF TypeOK, ReservationInv, PlanInv, ChargedInv, Confirmed
<1>4. ChargedInv'
  BY DEF TypeOK, ChargedInv
<1>5. ReplayMatchesPlan'
  BY NoneAssumption DEF TypeOK, ReplayMatchesPlan, PlanInv, ReservationInv
<1>6. ChargedCallSettles'
  BY NoneAssumption DEF TypeOK, ChargedCallSettles, ReservationInv, PlanInv,
                        ChargedInv
<1>7. WebInv'
  BY WebFrame, NoneAssumption DEF WebInv, TypeOK, ReservationInv
<1>. QED
  BY <1>1, <1>2, <1>3, <1>4, <1>5, <1>6, <1>7 DEF WebInv

LEMMA CardRollbackInv ==
  ASSUME IInv, NEW a \in CardCalls, CardRollback(a)
  PROVE  IInv'
<1> USE DEF CardRollback, OwnsReservation, IInv, CardLive
<1>1. TypeOK'
  BY OutcomeAssumption DEF TypeOK, CardPc, CardStatus, ChargedInv
<1>2. ReservationInv'
  BY NoneAssumption DEF TypeOK, ReservationInv, ChargedInv
<1>3. PlanInv'
  BY NoneAssumption DEF TypeOK, ReservationInv, PlanInv, ChargedInv, Confirmed
<1>4. ChargedInv'
  BY DEF TypeOK, ChargedInv
<1>5. ReplayMatchesPlan'
  BY NoneAssumption DEF TypeOK, ReplayMatchesPlan, PlanInv, ReservationInv
<1>6. ChargedCallSettles'
  BY NoneAssumption DEF TypeOK, ChargedCallSettles, ReservationInv, PlanInv,
                        ChargedInv
<1>7. WebInv'
  BY WebFrame, NoneAssumption DEF WebInv, TypeOK, ReservationInv
<1>. QED
  BY <1>1, <1>2, <1>3, <1>4, <1>5, <1>6, <1>7 DEF WebInv

LEMMA CardFinalizeInv ==
  ASSUME IInv, NEW a \in CardCalls, CardFinalize(a)
  PROVE  IInv'
<1> USE DEF CardFinalize, OwnsReservation, IInv, CardLive
<1>0. result[a] \in CardStatus
  BY OutcomeAssumption DEF ChargedInv
<1>20. cardPc' \in [CardCalls -> CardPc]
  BY DEF TypeOK, CardPc
<1>21. /\ status' \in {"processing"} \cup CardStatus
      /\ settledBy' \in CardCalls \cup Charges \cup {None}
      /\ holder' \in CardCalls \cup {None}
      /\ stale' \in BOOLEAN
  BY <1>0 DEF TypeOK
<1>22. UNCHANGED <<deleted, sel, result, charged, pixVars, charge, webVars,
                 crashes>>
  OBVIOUS
<1>1. TypeOK'
  <2> HIDE DEF CardFinalize
  <2>. QED
    BY <1>20, <1>21, <1>22 DEF TypeOK
<1>23. result[a] # "processing"
  BY <1>0 DEF CardStatus
<1>2. ReservationInv'
  BY <1>23, NoneAssumption DEF TypeOK, ReservationInv, ChargedInv
<1>3. PlanInv'
  BY NoneAssumption DEF TypeOK, ReservationInv, PlanInv, ChargedInv, Confirmed
<1>4. ChargedInv'
  BY DEF TypeOK, ChargedInv
<1>5. ReplayMatchesPlan'
  BY NoneAssumption DEF TypeOK, ReplayMatchesPlan, PlanInv, ReservationInv
<1>6. ChargedCallSettles'
  BY NoneAssumption DEF TypeOK, ChargedCallSettles, ReservationInv, PlanInv,
                        ChargedInv
<1>7. WebInv'
  BY WebFrame, NoneAssumption DEF WebInv, TypeOK, ReservationInv
<1>. QED
  BY <1>1, <1>2, <1>3, <1>4, <1>5, <1>6, <1>7 DEF WebInv

LEMMA CardCrashInv ==
  ASSUME IInv, NEW a \in CardCalls, CardCrash(a)
  PROVE  IInv'
<1> USE DEF CardCrash, CanCrash, IInv, CardLive
<1>1. TypeOK'
  BY OutcomeAssumption DEF TypeOK, CardPc, CardStatus, ChargedInv
<1>2. ReservationInv'
  BY NoneAssumption DEF TypeOK, ReservationInv, ChargedInv
<1>3. PlanInv'
  BY NoneAssumption DEF TypeOK, ReservationInv, PlanInv, ChargedInv, Confirmed
<1>4. ChargedInv'
  BY DEF TypeOK, ChargedInv
<1>5. ReplayMatchesPlan'
  BY NoneAssumption DEF TypeOK, ReplayMatchesPlan, PlanInv, ReservationInv
<1>6. ChargedCallSettles'
  BY NoneAssumption DEF TypeOK, ChargedCallSettles, ReservationInv, PlanInv,
                        ChargedInv
<1>7. WebInv'
  BY WebFrame, NoneAssumption DEF WebInv, TypeOK, ReservationInv
<1>. QED
  BY <1>1, <1>2, <1>3, <1>4, <1>5, <1>6, <1>7 DEF WebInv

LEMMA ReservationAgesInv ==
  ASSUME IInv, ReservationAges
  PROVE  IInv'
<1> USE DEF ReservationAges, IInv
<1>1. TypeOK'
  BY DEF TypeOK
<1>2. ReservationInv' /\ PlanInv'
  BY DEF TypeOK, ReservationInv, PlanInv, CardLive, Confirmed
<1>3. ChargedInv' /\ ReplayMatchesPlan' /\ ChargedCallSettles'
  BY DEF ChargedInv, ReplayMatchesPlan, ChargedCallSettles
<1>4. WebInv'
  BY WebFrame DEF WebInv
<1>. QED
  BY <1>1, <1>2, <1>3, <1>4 DEF WebInv

-----------------------------------------------------------------------------
(* create_pix_charge *)

LEMMA PixStepInv ==
  ASSUME IInv, NEW p \in Charges, PixStep(p)
  PROVE  IInv'
<1> USE DEF IInv
<1>1. ASSUME PixCheck(p) \/ PixCreate(p) \/ PixCrash(p)
      PROVE  IInv'
  <2> USE <1>1 DEF PixCheck, PixCreate, PixCrash, PixCheckOutcomes, CanCrash
  <2>1. TypeOK'
    BY DEF TypeOK, PixPc
  <2>2. CardInv'
    BY CardFrame DEF CardInv, Confirmed
  <2>3. WebInv'
    BY WebFrame DEF WebInv, TypeOK
  <2>. QED
    BY <2>1, <2>2, <2>3 DEF CardInv, WebInv
<1>2. CASE PixInsert(p)
  <2> USE <1>2 DEF PixInsert
  <2>1. TypeOK'
    BY DEF TypeOK, PixPc, PixState
  <2>2. charge[p] = "absent"
    BY DEF ChargeInv
  <2>3. Confirmed' = Confirmed
    BY <2>2 DEF Confirmed, TypeOK
  <2>4. CardInv'
    BY <2>3, CardFrame DEF CardInv
  <2>5. ChargeInv' /\ HookInv' /\ PostPaymentOnlyForSettler'
    BY <2>2 DEF TypeOK, ChargeInv, HookInv, PostPaymentOnlyForSettler,
                ValidTransition, Event
  <2>6. OneActiveCharge'
    BY <2>2 DEF TypeOK, OneActiveCharge, Active, NoActiveCharge
  <2>7. AppliedPaidAccounted'
    BY <2>3 DEF AppliedPaidAccounted
  <2>. QED
    BY <2>1, <2>4, <2>5, <2>6, <2>7 DEF CardInv
<1>. QED
  BY <1>1, <1>2 DEF PixStep

-----------------------------------------------------------------------------
(* The provider, simulate_pix_paid and delete_case *)

LEMMA EnvironmentInv ==
  ASSUME IInv,
         DeleteCase \/ \E e \in Event : ProviderEmits(e) \/ SimulatePixPaid(e)
  PROVE  IInv'
<1> USE DEF IInv, DeleteCase, ProviderEmits, SimulatePixPaid
<1>1. TypeOK'
  BY DEF TypeOK
<1>2. CardInv'
  BY CardFrame DEF CardInv, Confirmed
<1>3. ChargeInv' /\ HookInv' /\ PostPaymentOnlyForSettler'
  BY DEF ChargeInv, HookInv, PostPaymentOnlyForSettler, ValidTransition
<1>4. OneActiveCharge' /\ AppliedPaidAccounted'
  BY DEF OneActiveCharge, Active, AppliedPaidAccounted, Confirmed
<1>. QED
  BY <1>1, <1>2, <1>3, <1>4 DEF CardInv

-----------------------------------------------------------------------------
(* pix_webhook *)

LEMMA HookReadInv ==
  ASSUME IInv, NEW w \in Hooks, NEW e \in Event, HookRead(w, e)
  PROVE  IInv'
<1> USE DEF IInv, HookRead
<1>1. TypeOK'
  BY DEF TypeOK, HookPc, Event
<1>2. CardInv'
  BY CardFrame DEF CardInv, Confirmed
<1>3. HookInv'
  BY DEF TypeOK, HookInv, Ignored, ValidTransition
<1>4. ChargeInv' /\ PostPaymentOnlyForSettler' /\ OneActiveCharge'
  BY DEF ChargeInv, PostPaymentOnlyForSettler, OneActiveCharge, Active
<1>5. AppliedPaidAccounted'
  BY DEF TypeOK, AppliedPaidAccounted, Confirmed, HookCommitted
<1>. QED
  BY <1>1, <1>2, <1>3, <1>4, <1>5 DEF CardInv

LEMMA HookEndInv ==
  ASSUME IInv, NEW w \in Hooks,
         HookDuplicate(w) \/ HookNotify(w) \/ HookCrash(w)
  PROVE  IInv'
<1> USE DEF IInv, HookDuplicate, HookNotify, HookCrash, HookIdle, RollBack
<1>1. hookEv[w] \in Event
  BY DEF HookInv, HookCommitted
<1>2. TypeOK'
  BY <1>1 DEF TypeOK, HookPc, Event, CanCrash
<1>3. CardInv'
  BY CardFrame DEF CardInv, Confirmed
<1>4. HookInv'
  BY DEF TypeOK, HookInv, ValidTransition
<1>5. ChargeInv' /\ OneActiveCharge'
  BY DEF ChargeInv, OneActiveCharge, Active
<1>6. PostPaymentOnlyForSettler'
  BY <1>1 DEF PostPaymentOnlyForSettler, HookInv, HookCommitted
<1>7. AppliedPaidAccounted'
  BY <1>1 DEF TypeOK, AppliedPaidAccounted, Confirmed, HookCommitted
<1>. QED
  BY <1>2, <1>3, <1>4, <1>5, <1>6, <1>7 DEF CardInv

LEMMA HookCommitInv ==
  ASSUME IInv, NEW w \in Hooks, HookCommit(w)
  PROVE  IInv'
<1> DEFINE e == hookEv[w]
<1> USE DEF IInv, HookCommit, Unmoved, ProjectPaid, Projectable
<1>1. /\ e \in Event /\ e.charge \in Charges /\ e.status \in PixTerminal
      /\ ValidTransition(hookSaw[w], e.status)
  BY OutcomeAssumption DEF HookInv, Event
<1>2. HookOutcome(e, hookSaw[w]) \in HookCommitted
  BY DEF HookOutcome, HookCommitted
<1>3. charge' \in [Charges -> PixState]
  BY <1>1 DEF TypeOK, PixState
<1>4. TypeOK'
  BY <1>1, <1>2, <1>3 DEF TypeOK, HookPc, CardStatus
<1>5. Confirmed \subseteq Confirmed'
  BY <1>1 DEF Confirmed, ValidTransition, TypeOK
<1>6. ReservationInv'
  BY NoneAssumption, <1>1 DEF ReservationInv, TypeOK
<1>7. PlanInv'
  BY NoneAssumption, <1>1, <1>5 DEF PlanInv, TypeOK, Confirmed
<1>8. ChargedInv' /\ ReplayMatchesPlan' /\ ChargedCallSettles'
  BY NoneAssumption, <1>1
  DEF ChargedInv, ReplayMatchesPlan, ChargedCallSettles, TypeOK
<1>9. ChargeInv' /\ OneActiveCharge'
  BY <1>1 DEF ChargeInv, OneActiveCharge, Active, ValidTransition, TypeOK,
              PixTerminal
<1>10. HookInv'
  <2> SUFFICES ASSUME NEW v \in Hooks, hookPc'[v] # "idle"
               PROVE  /\ hookEv'[v] \in Event
                      /\ ValidTransition(hookSaw'[v], hookEv'[v].status)
                      /\ hookPc'[v] = "projected"
                           => settledBy' = hookEv'[v].charge
    BY DEF HookInv, ValidTransition
  <2>1. CASE v = w
    BY <2>1, <1>1 DEF TypeOK, HookOutcome
  <2>2. CASE v # w
    <3>1. hookPc'[v] = hookPc[v] /\ hookEv'[v] = hookEv[v]
                                /\ hookSaw'[v] = hookSaw[v]
      BY <2>2 DEF TypeOK
    <3>2. /\ hookEv[v] \in Event /\ hookEv[v].charge # None
          /\ ValidTransition(hookSaw[v], hookEv[v].status)
          /\ hookPc[v] = "projected" => settledBy = hookEv[v].charge
      BY <3>1, NoneAssumption DEF HookInv, Event
    <3>. QED
      BY <3>1, <3>2
  <2>. QED
    BY <2>1, <2>2
<1>11. PostPaymentOnlyForSettler'
  BY NoneAssumption, <1>1 DEF PostPaymentOnlyForSettler, TypeOK
<1>12. AppliedPaidAccounted'
  BY <1>1, <1>2 DEF AppliedPaidAccounted, TypeOK, Confirmed, HookOutcome,
                    HookCommitted, ValidTransition
<1>. QED
  BY <1>4, <1>6, <1>7, <1>8, <1>9, <1>10, <1>11, <1>12

-----------------------------------------------------------------------------
(* Safety *)

LEMMA NextInv == IInv /\ [Next]_vars => IInv'
<1> SUFFICES ASSUME IInv, [Next]_vars PROVE IInv'
  OBVIOUS
<1>1. ASSUME NEW a \in CardCalls, CardStep(a) PROVE IInv'
  BY <1>1, CardCheckInv, CardReserveInv, CardChargeInv, CardDeclineInv,
     CardRollbackInv, CardFinalizeInv, CardCrashInv DEF CardStep
<1>2. ASSUME NEW w \in Hooks, HookStep(w) PROVE IInv'
  BY <1>2, HookReadInv, HookEndInv, HookCommitInv DEF HookStep
<1>3. CASE UNCHANGED vars
  <2>1. TypeOK'
    BY <1>3 DEF IInv, TypeOK, vars
  <2>2. CardInv'
    BY <1>3, CardFrame DEF IInv, CardInv, Confirmed, vars
  <2>3. WebInv'
    BY <1>3, WebFrame DEF IInv, WebInv, vars
  <2>. QED
    BY <2>1, <2>2, <2>3 DEF IInv, CardInv, WebInv
<1>. QED
  BY <1>1, <1>2, <1>3, ReservationAgesInv, PixStepInv, EnvironmentInv DEF Next

\* Every conjunct of the inductive invariant holds in every reachable state.
THEOREM Invariance == Spec => []IInv
  BY InitInv, NextInv, PTL DEF Spec

\* The type invariant of the module.
THEOREM TypeCorrect == Spec => []TypeOK
<1>1. IInv => TypeOK
  BY DEF IInv
<1>. QED
  BY <1>1, Invariance, PTL

\* At most one live card call is between its reserve and its last step, for any
\* number of calls, crashes and stale reservations (payments.py:109-130).
THEOREM ReservationIsExclusive == Spec => []ExclusiveReservation
<1>1. IInv => ExclusiveReservation
  BY DEF IInv, ReservationInv, ExclusiveReservation
<1>. QED
  BY <1>1, Invariance, PTL

\* A live card call whose provider charged is the payment that is recorded: no
\* webhook and no other call takes the request away from it.
THEOREM ChargedCallIsRecorded == Spec => []ChargedCallSettles
<1>1. IInv => ChargedCallSettles
  BY DEF IInv
<1>. QED
  BY <1>1, Invariance, PTL

\* A 200 replay was given only to the selection of the recorded payment.
THEOREM ReplayIsIdempotent == Spec => []ReplayMatchesPlan
<1>1. IInv => ReplayMatchesPlan
  BY DEF IInv
<1>. QED
  BY <1>1, Invariance, PTL

\* An applied PAID confirmation is in post-payment, alerted, about to be, or
\* the execution that applied it died before it could tell.
THEOREM AppliedPaidIsAccounted == Spec => []AppliedPaidAccounted
<1>1. IInv => AppliedPaidAccounted
  BY DEF IInv
<1>. QED
  BY <1>1, Invariance, PTL

\* Post-payment runs only for the charge that settled the request.
THEOREM PostPaymentIsForSettler == Spec => []PostPaymentOnlyForSettler
<1>1. IInv => PostPaymentOnlyForSettler
  BY DEF IInv
<1>. QED
  BY <1>1, Invariance, PTL

-----------------------------------------------------------------------------
(* Action properties *)

LEMMA StepSettledIsFinal ==
  IInv /\ [Next]_vars /\ settledBy # None => UNCHANGED <<settledBy, status>>
<1> SUFFICES ASSUME IInv, Next, settledBy # None
             PROVE  UNCHANGED <<settledBy, status>>
  BY DEF vars
<1>1. holder = None /\ status # "processing"
  BY DEF IInv, ReservationInv
<1>2. ASSUME NEW a \in CardCalls, CardStep(a)
      PROVE  UNCHANGED <<settledBy, status>>
  BY <1>1, <1>2, NoneAssumption
  DEF CardStep, CardCheck, CardReserve, Reservable, CardCharge, CardDecline,
      CardRollback, CardFinalize, OwnsReservation, CardCrash
<1>3. ASSUME NEW w \in Hooks, HookStep(w)
      PROVE  UNCHANGED <<settledBy, status>>
  BY <1>3 DEF HookStep, HookRead, HookDuplicate, HookCommit, ProjectPaid,
              Projectable, HookNotify, HookCrash
<1>. QED
  BY <1>1, <1>2, <1>3
  DEF Next, ReservationAges, PixStep, PixCheck, PixCreate, PixInsert, PixCrash,
      ProviderEmits, SimulatePixPaid, DeleteCase

\* Once a plan is recorded, neither it nor the payment status ever changes.
THEOREM SettlementIsFinal == Spec => SettledIsFinal
<1>1. IInv /\ [Next]_vars
        => [settledBy # None => UNCHANGED <<settledBy, status>>]_vars
  BY StepSettledIsFinal
<1>. QED
  BY <1>1, Invariance, PTL DEF Spec, SettledIsFinal

EndsReservation ==
  status = "processing" /\ status' # "processing"
    => /\ cardPc[holder] \in {"charged", "declined"}
       /\ cardPc'[holder] \in {"registered", "failed"}

LEMMA StepOnlyHolderEnds == IInv /\ [Next]_vars => EndsReservation
<1> SUFFICES ASSUME IInv, Next, status = "processing", status' # "processing"
             PROVE  /\ cardPc[holder] \in {"charged", "declined"}
                    /\ cardPc'[holder] \in {"registered", "failed"}
  BY DEF vars, EndsReservation
<1>1. PICK a \in CardCalls : CardRollback(a) \/ CardFinalize(a)
  BY DEF Next, CardStep, CardCheck, CardReserve, CardCharge, CardDecline,
         CardCrash, ReservationAges, PixStep, PixCheck, PixCreate, PixInsert,
         PixCrash, ProviderEmits, SimulatePixPaid, DeleteCase, HookStep,
         HookRead, HookDuplicate, HookCommit, ProjectPaid, Projectable,
         HookNotify, HookCrash
<1>2. holder = a
  BY <1>1 DEF CardRollback, CardFinalize, OwnsReservation
<1>. QED
  BY <1>1, <1>2 DEF CardRollback, CardFinalize, OwnsReservation, IInv, TypeOK

\* Only the call that made a reservation ends it, even when calls outlive it.
THEOREM HolderEndsReservation == Spec => OnlyHolderEndsReservation
<1>1. IInv /\ [Next]_vars => [EndsReservation]_vars
  BY StepOnlyHolderEnds
<1>2. Spec => [][EndsReservation]_vars
  BY <1>1, Invariance, PTL DEF Spec
<1>. QED
  BY <1>2 DEF OnlyHolderEndsReservation, EndsReservation

-----------------------------------------------------------------------------
(* Refinement *)

LEMMA LedgerInit == Init => Ledger!Init
  BY DEF Init, Ledger!Init, Confirmed

\* Steps that move neither the provider's charges nor the plan.
LEMMA LedgerStutter ==
  ASSUME UNCHANGED <<settledBy, charged, charge>>
  PROVE  UNCHANGED Ledger!ledgerVars
  BY DEF Ledger!ledgerVars, Confirmed

LEMMA LedgerCard ==
  ASSUME IInv, NEW a \in CardCalls, CardStep(a)
  PROVE  [Ledger!Next]_Ledger!ledgerVars
<1>1. CASE CardCharge(a)
  <2>1. Ledger!Collect(a)
    BY <1>1 DEF CardCharge, Ledger!Collect, Confirmed
  <2>. QED
    BY <2>1 DEF Ledger!Next
<1>2. CASE CardFinalize(a) /\ OwnsReservation(a)
  <2>1. settledBy = None /\ a \in charged
    BY <1>2, NoneAssumption
    DEF CardFinalize, OwnsReservation, IInv, ReservationInv, ChargedInv
  <2>2. Ledger!Settle(a)
    BY <1>2, <2>1 DEF CardFinalize, Ledger!Settle, Confirmed
  <2>. QED
    BY <2>2 DEF Ledger!Next
<1>3. CASE ~CardCharge(a) /\ ~(CardFinalize(a) /\ OwnsReservation(a))
  <2>1. UNCHANGED <<settledBy, charged, charge>>
    BY <1>3 DEF CardStep, CardCheck, CardReserve, CardDecline, CardRollback,
                CardFinalize, CardCrash
  <2>. QED
    BY <2>1, LedgerStutter
<1>. QED
  BY <1>1, <1>2, <1>3

LEMMA LedgerPix ==
  ASSUME IInv, NEW p \in Charges, PixStep(p)
  PROVE  [Ledger!Next]_Ledger!ledgerVars
<1>1. charge'  = charge \/ (/\ charge[p] = "absent"
                            /\ charge' = [charge EXCEPT ![p] = "PENDING_PAYMENT"])
  BY DEF PixStep, PixCheck, PixCreate, PixInsert, PixCrash, IInv, ChargeInv
<1>2. Confirmed' = Confirmed
  BY <1>1 DEF Confirmed, IInv, TypeOK
<1>3. UNCHANGED <<settledBy, charged>>
  BY DEF PixStep, PixCheck, PixCreate, PixInsert, PixCrash
<1>. QED
  BY <1>2, <1>3 DEF Ledger!ledgerVars

LEMMA LedgerHookCommit ==
  ASSUME IInv, NEW w \in Hooks, HookCommit(w)
  PROVE  [Ledger!Next]_Ledger!ledgerVars
<1> DEFINE e == hookEv[w]
<1> USE DEF IInv, HookCommit, Unmoved, ProjectPaid, Projectable
<1>1. /\ e \in Event /\ e.charge \in Charges
      /\ ValidTransition(hookSaw[w], e.status)
  BY DEF HookInv, Event
<1>2. charged' = charged
  OBVIOUS
<1>3. CASE ~Unmoved(w)
  BY <1>3, LedgerStutter
<1>4. CASE Unmoved(w) /\ e.status # "PAID"
  <2>1. Confirmed' = Confirmed
    BY <1>1, <1>4 DEF Confirmed, ValidTransition, TypeOK
  <2>. QED
    BY <1>2, <1>4, <2>1 DEF Ledger!ledgerVars
<1>5. CASE Unmoved(w) /\ e.status = "PAID"
  <2>1. Confirmed' = Confirmed \cup {e.charge}
    BY <1>1, <1>5 DEF Confirmed, TypeOK
  <2>2. Ledger!Collect(e.charge) \/ Ledger!Settle(e.charge)
    BY <1>2, <1>5, <2>1 DEF Ledger!Collect, Ledger!Settle
  <2>. QED
    BY <1>1, <2>2 DEF Ledger!Next
<1>. QED
  BY <1>3, <1>4, <1>5

LEMMA LedgerStep == IInv /\ [Next]_vars => [Ledger!Next]_Ledger!ledgerVars
<1> SUFFICES ASSUME IInv, [Next]_vars
             PROVE  [Ledger!Next]_Ledger!ledgerVars
  OBVIOUS
<1>1. ASSUME NEW w \in Hooks, HookStep(w)
      PROVE  [Ledger!Next]_Ledger!ledgerVars
  <2>1. CASE HookCommit(w)
    BY <2>1, LedgerHookCommit
  <2>2. CASE ~HookCommit(w)
    BY <1>1, <2>2, LedgerStutter
    DEF HookStep, HookRead, HookDuplicate, HookNotify, HookCrash
  <2>. QED
    BY <2>1, <2>2
<1>2. CASE \/ UNCHANGED vars \/ ReservationAges \/ DeleteCase
           \/ \E e \in Event : ProviderEmits(e) \/ SimulatePixPaid(e)
  BY <1>2, LedgerStutter
  DEF vars, ReservationAges, DeleteCase, ProviderEmits, SimulatePixPaid
<1>. QED
  BY <1>1, <1>2, LedgerCard, LedgerPix DEF Next

\* Only the owner of a reservation ends it, and only an open request is confirmed.
LEMMA PayStep == IInv /\ [Next]_vars => [Pay!Next]_status
<1> SUFFICES ASSUME IInv, Next, status' # status
             PROVE  Pay!Next
  BY DEF vars
<1> USE DEF Pay!Next, Pay!Reserve, Pay!Release, Pay!Record, Pay!Confirm
<1>1. ASSUME NEW a \in CardCalls, CardStep(a)
      PROVE  Pay!Next
  <2>1. CASE CardReserve(a)
    BY <2>1 DEF CardReserve, Reservable
  <2>2. CASE CardRollback(a)
    BY <2>2 DEF CardRollback, OwnsReservation, IInv, ReservationInv
  <2>3. CASE CardFinalize(a)
    BY <2>3 DEF CardFinalize, OwnsReservation, IInv, ReservationInv, TypeOK, ChargedInv
  <2>. QED
    BY <1>1, <2>1, <2>2, <2>3 DEF CardStep, CardCheck, CardCharge, CardDecline, CardCrash
<1>2. ASSUME NEW w \in Hooks, HookStep(w)
      PROVE  Pay!Next
  BY <1>2 DEF HookStep, HookRead, HookDuplicate, HookCommit, ProjectPaid,
              Projectable, HookNotify, HookCrash
<1>. QED
  BY <1>1, <1>2
  DEF Next, ReservationAges, PixStep, PixCheck, PixCreate, PixInsert, PixCrash,
      ProviderEmits, SimulatePixPaid, DeleteCase

\* CasePayment implements PaymentLedger: the request is settled at most once,
\* and only by a payment whose money the provider confirmed.  It implements
\* RequestPayment too: what CaseLifecycle assumes of the payment status.
THEOREM ImplementsLedger == Spec => LedgerSpec
<1>1. Init => Pay!Init
  BY DEF Init, Pay!Init
<1>. QED
  BY <1>1, LedgerInit, LedgerStep, PayStep, Invariance, PTL
  DEF Spec, LedgerSpec, Ledger!Spec, Pay!Spec

\* What the abstract ledger promises: the recorded plan is one of a payment whose
\* money was collected.
LEMMA LedgerSettles ==
  Ledger!Spec => [](settledBy # None => settledBy \in charged \cup Confirmed)
<1> DEFINE Settled == settledBy # None => settledBy \in charged \cup Confirmed
<1>1. Ledger!Init => Settled
  BY DEF Ledger!Init
<1>2. Settled /\ [Ledger!Next]_Ledger!ledgerVars => Settled'
  BY DEF Ledger!Next, Ledger!Collect, Ledger!Settle, Ledger!ledgerVars
<1> QED BY <1>1, <1>2, PTL DEF Ledger!Spec

\* Whatever crashes, comes twice or races, no request is settled by a payment whose
\* money the provider did not confirm: the promise of the ledger, kept by the endpoints.
THEOREM SettledByCollected ==
  Spec => [](settledBy # None => settledBy \in charged \cup Confirmed)
BY ImplementsLedger, LedgerSettles DEF LedgerSpec

-----------------------------------------------------------------------------
\* migration 026: however many create_pix_charge calls race past TX1, one charge
\* at most waits for its payment.
THEOREM OneChargeWaits == Spec => []OneActiveCharge
<1>1. IInv => OneActiveCharge
  BY DEF IInv
<1>. QED
  BY <1>1, Invariance, PTL

\* A charge row is written by the insert of its call, or by the webhook execution
\* whose event is a transition from the status it read and that is still there.
LEMMA StepChargeMoves ==
  ASSUME IInv, [Next]_vars, NEW p \in Charges, charge'[p] # charge[p]
  PROVE  \/ charge[p] = "absent" /\ charge'[p] = "PENDING_PAYMENT"
         \/ ValidTransition(charge[p], charge'[p])
<1>1. ASSUME NEW q \in Charges, PixStep(q)
      PROVE  charge[p] = "absent" /\ charge'[p] = "PENDING_PAYMENT"
  <2>1. charge' = charge \/ (/\ charge[q] = "absent"
                             /\ charge' = [charge EXCEPT ![q] = "PENDING_PAYMENT"])
    BY <1>1 DEF PixStep, PixCheck, PixCreate, PixInsert, PixCrash, IInv, ChargeInv
  <2>. QED
    BY <2>1 DEF IInv, TypeOK
<1>2. ASSUME NEW w \in Hooks, HookCommit(w)
      PROVE  ValidTransition(charge[p], charge'[p])
  <2> DEFINE e == hookEv[w]
  <2>1. e \in Event /\ ValidTransition(hookSaw[w], e.status)
    BY <1>2 DEF HookCommit, IInv, HookInv
  <2>2. Unmoved(w) /\ charge' = [charge EXCEPT ![e.charge] = e.status]
    BY <1>2 DEF HookCommit
  <2>3. p = e.charge /\ charge'[p] = e.status /\ charge[p] = hookSaw[w]
    BY <2>1, <2>2 DEF Unmoved, IInv, TypeOK
  <2>. QED
    BY <2>1, <2>3
<1>3. CASE UNCHANGED charge
  BY <1>3
<1>. QED
  BY <1>1, <1>2, <1>3
     DEF Next, vars, CardStep, CardCheck, CardReserve, CardCharge, CardDecline, CardRollback,
         CardFinalize, CardCrash, ReservationAges, DeleteCase, ProviderEmits,
         SimulatePixPaid, HookStep, HookRead, HookDuplicate, HookNotify, HookCrash

\* states.py _TRANSITIONS hold on the row, not only on the status that was read.
THEOREM ChargesMove == Spec => ChargeMovesValid
<1>1. IInv /\ [Next]_vars
        => \A p \in Charges : charge'[p] # charge[p] =>
             \/ charge[p] = "absent" /\ charge'[p] = "PENDING_PAYMENT"
             \/ ValidTransition(charge[p], charge'[p])
  BY StepChargeMoves
<1>. QED
  BY <1>1, Invariance, PTL DEF Spec, ChargeMovesValid
=============================================================================
