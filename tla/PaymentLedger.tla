--------------------------- MODULE PaymentLedger ---------------------------
(***************************************************************************)
(* What the payment endpoints promise about one request (row of            *)
(* public.requests), whatever the interleaving of card invocations, Pix    *)
(* charges, webhook deliveries and crashes: money may be collected by any  *)
(* number of payments, but the request is settled at most once, by a       *)
(* payment whose money was collected, and what settled it never changes.   *)
(***************************************************************************)
CONSTANTS
  Payments,   \* everything that can pay the request: card calls, Pix charges
  None        \* the request is not settled

VARIABLES
  collected,  \* payments whose money the provider confirmed
  settledBy   \* the payment recorded in requests.installment_plan

ledgerVars == <<collected, settledBy>>

Init == collected = {} /\ settledBy = None

\* The provider confirms money that does not (or does not yet) settle.
Collect(x) == /\ collected' = collected \cup {x}
              /\ UNCHANGED settledBy

\* A payment, collected before or in this very step, settles an open request.
Settle(x) == /\ settledBy = None
             /\ collected' = collected \cup {x}
             /\ settledBy' = x

Next == \E x \in Payments : Collect(x) \/ Settle(x)

Spec == Init /\ [][Next]_ledgerVars
=============================================================================
