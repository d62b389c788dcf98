--------------------------- MODULE MCCasePayment ---------------------------
(* Instances of CasePayment for TLC: symmetry of the interchangeable calls. *)
EXTENDS CasePayment, TLC

Symmetry == Permutations(CardCalls) \cup Permutations(Charges)
              \cup Permutations(Hooks) \cup Permutations(Selections)
=============================================================================
