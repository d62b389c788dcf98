-------------------------- MODULE MCCaseLifecycle --------------------------
(* Instances of CaseLifecycle for TLC: symmetry of calls, modules and rows. *)
EXTENDS CaseLifecycle, TLC

Symmetry == Permutations(Txs) \cup Permutations(Modules)
              \cup Permutations(Results) \cup Permutations(Parties)
=============================================================================
