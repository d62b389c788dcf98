--------------------------- MODULE PricingConfig ---------------------------
(***************************************************************************)
(* The row of public.pricing_configs of ONE organization and the partial   *)
(* updates of it: PUT pricing/config (handlers/pricing.py                  *)
(* update_pricing_config).  A call reads the row FOR UPDATE, keeps the     *)
(* fields its body does not name, and upserts the whole row with the       *)
(* version it read plus one.  Where there is no row yet there is nothing   *)
(* to lock.  The value of a field is the call that wrote it.               *)
(***************************************************************************)
EXTENDS Naturals, FiniteSets

CONSTANTS
  Puts,     \* calls of update_pricing_config, each runs once
  Fields,   \* cases_limit, module_overrides, installment_config, notes
  None

Row == [fields : [Fields -> Puts \cup {None}], version : Nat]
Fresh == [fields |-> [f \in Fields |-> None], version |-> 0]

ASSUME ConfigAssumption == None \notin Puts /\ None \notin Row

VARIABLES
  row,      \* the committed row, or None
  rowLock,  \* the call that holds it FOR UPDATE
  putPc,
  changed,  \* data.model_fields_set of each call
  read,     \* what its SELECT returned
  last,     \* history: the last call that committed a change of each field
  commits   \* history: how many calls have committed

configVars == <<row, rowLock, putPc, changed, read, last, commits>>

ConfigInit ==
  /\ row \in {None, Fresh}
  /\ rowLock = None
  /\ putPc = [c \in Puts |-> "idle"]
  /\ changed \in [Puts -> SUBSET Fields \ {{}}]
  /\ read = [c \in Puts |-> None]
  /\ last = [f \in Fields |-> None] /\ commits = 0

Locked_Never(c) == FALSE  \* mutant: SELECT without FOR UPDATE (before M5)
\* Only an existing row can be locked.
Locked(c) == row # None

SelectForUpdate(c) ==
  /\ putPc[c] = "idle" /\ rowLock = None
  /\ read' = [read EXCEPT ![c] = row]
  /\ rowLock' = IF Locked(c) THEN c ELSE None
  /\ putPc' = [putPc EXCEPT ![c] = "read"]
  /\ UNCHANGED <<row, changed, last, commits>>

Base(c) == IF read[c] = None THEN Fresh ELSE read[c]

Merged(c) == [f \in Fields |-> IF f \in changed[c] THEN c ELSE Base(c).fields[f]]

\* INSERT ... ON CONFLICT DO UPDATE (it waits for a holder) and the commit.
Upsert(c) ==
  /\ putPc[c] = "read" /\ rowLock \in {None, c}
  /\ row' = [fields |-> Merged(c), version |-> Base(c).version + 1]
  /\ rowLock' = None
  /\ putPc' = [putPc EXCEPT ![c] = "done"]
  /\ last' = [f \in Fields |-> IF f \in changed[c] THEN c ELSE last[f]]
  /\ commits' = commits + 1
  /\ UNCHANGED <<changed, read>>

Fail(c) ==
  /\ putPc[c] = "read"
  /\ rowLock' = IF rowLock = c THEN None ELSE rowLock
  /\ putPc' = [putPc EXCEPT ![c] = "failed"]
  /\ UNCHANGED <<row, changed, read, last, commits>>

ConfigStep == \E c \in Puts : SelectForUpdate(c) \/ Upsert(c) \/ Fail(c)

-----------------------------------------------------------------------------
(* Properties *)

ConfigTypeOK ==
  /\ row \in Row \cup {None} /\ rowLock \in Puts \cup {None}
  /\ putPc \in [Puts -> {"idle", "read", "done", "failed"}]
  /\ changed \in [Puts -> SUBSET Fields \ {{}}]
  /\ read \in [Puts -> Row \cup {None}]
  /\ last \in [Fields -> Puts \cup {None}] /\ commits \in Nat

FirstWriters == {c \in Puts : putPc[c] = "done" /\ read[c] = None}

\* M5 (pricing.py:203) "impedindo o lost update de version + o last-writer-wins
\* nos demais campos": a field holds what the last call that named it wrote, and
\* the version counts the calls; unless two calls raced for a row that did not
\* exist yet, where FOR UPDATE locks nothing.
NoLostUpdate ==
  row # None /\ Cardinality(FirstWriters) <= 1
    => row.version = commits /\ row.fields = last
=============================================================================
