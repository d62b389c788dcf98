---------------------------- MODULE MCCaseIntake ---------------------------
(* Instances of CaseIntake for TLC: calls, ids and keys are interchangeable;  *)
(* one PUT asks for a quota of 2, the other for none.  Two scenes share one   *)
(* run: "quota", where the PUTs run and no request names a client, and        *)
(* "client", where the client changes and the configuration does not.         *)
EXTENDS CaseIntake, TLC

CONSTANTS p1, p2
VARIABLE scene

Raise == p1 :> 2 @@ p2 :> None

MCInit ==
  /\ Init /\ scene \in {"quota", "client"}
  /\ scene = "client" => \A p \in Puts : changed[p] = Fields

MCNext ==
  /\ UNCHANGED scene /\ Next
  /\ IF scene = "client" THEN UNCHANGED configVars
     ELSE UNCHANGED client /\ \A c \in Calls : route'[c] \in {None, "bare"}

MCSpec == MCInit /\ [][MCNext]_<<vars, scene>>

Symmetry == Permutations(Calls) \cup Permutations(Cases) \cup Permutations(Keys)
=============================================================================
