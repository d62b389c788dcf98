--------------------------- MODULE MCDocumentQueue --------------------------
(* Instances of DocumentQueue for TLC: m1 and m2 carry two jobs of one        *)
(* document; or m1 and m2 one job at two attempts and m3 a job at an attempt  *)
(* beyond the limit.                                                          *)
EXTENDS DocumentQueue, TLC

CONSTANTS m1, m2, m3, j1, j2, d1

TwoJobs == m1 :> j1 @@ m2 :> j2
RetriedJob == m1 :> j1 @@ m2 :> j1 @@ m3 :> j2
OneDoc == j1 :> d1 @@ j2 :> d1
FirstAttempts == m1 :> 1 @@ m2 :> 1
LaterAttempts == m1 :> 1 @@ m2 :> 2 @@ m3 :> 3

Symmetry == Permutations(Workers) \cup Permutations(Users)
=============================================================================
