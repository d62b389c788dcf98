----------------------------- MODULE MCFinance ------------------------------
(* Instance of Finance for TLC.  Day 0 is the first of December; the clock    *)
(* goes from the afternoon of January 31 to its last hours (already February  *)
(* in UTC), and to the night of February 3.                                   *)
EXTENDS Finance

ClockOfJanuary == {1480, 1489, 1540}
Months == {-334, 0, 31, 62, 90, 396}
Years == {-334, 31, 396}

OneOffer == {[product |-> "cv", client |-> None, total |-> 3]}

OldRows ==
  {[product |-> "cv", client |-> "c1", total |-> 5, created |-> 1480,
    status |-> "refunded", plan |-> None],
   [product |-> "old", client |-> None, total |-> None, created |-> 1480,
    status |-> "expired", plan |-> None]}

SomeTaxes ==
  {[type |-> "iss", status |-> "divergente", estimated |-> 1, confirmed |-> 2,
    month |-> 31, external |-> None, ref |-> None],
   [type |-> "pis", status |-> "cancelado", estimated |-> 3, confirmed |-> None,
    month |-> 31, external |-> None, ref |-> None]}

SomeNotes ==
  {[type |-> "nfse", numero |-> 1, serie |-> None, status |-> "authorized",
    provider |-> None, external |-> None, ref |-> None],
   [type |-> "nfse", numero |-> None, serie |-> None, status |-> "note_pending",
    provider |-> "prefeitura", external |-> None, ref |-> 1480]}

SomeCosts ==
  {[provider |-> "serasa", quantity |-> 2, unit |-> 3, status |-> "processado",
    external |-> "f1", ref |-> None],
   [provider |-> "serasa", quantity |-> 1, unit |-> 5, status |-> "previsto",
    external |-> None, ref |-> None]}
=============================================================================
