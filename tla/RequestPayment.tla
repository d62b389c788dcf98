--------------------------- MODULE RequestPayment --------------------------
(***************************************************************************)
(* requests.payment_status as the rest of the backend sees it: the column  *)
(* that the payment gate of a case reads without a lock.  CasePayment      *)
(* implements this specification; CaseLifecycle is composed with it, so    *)
(* that a case meets every payment status in every order that the payment  *)
(* endpoints can produce, and no other.                                    *)
(***************************************************************************)
CONSTANT Answers    \* what the provider of a card payment may answer

VARIABLE payment

Init == payment = "pending"

\* A card call takes the request before it calls the provider ...
Reserve == payment = "pending" /\ payment' = "processing"

\* ... gives it back when the provider declines ...
Release == payment = "processing" /\ payment' = "pending"

\* ... or records the answer.
Record == payment = "processing" /\ payment' \in Answers

\* A confirmed Pix charge settles a request that no card call holds.
Confirm == payment = "pending" /\ payment' = "paid"

Next == Reserve \/ Release \/ Record \/ Confirm

Spec == Init /\ [][Next]_payment
=============================================================================
