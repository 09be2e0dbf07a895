----------------------------- MODULE Certificate -----------------------------
(***************************************************************************)
(* What submits.py promises about the signatures of the relayers: a chain  *)
(* acts on a message once, and only with the signatures of a quorum of     *)
(* distinct relayers who signed it.  RbcRelay and RoundUp treat the        *)
(* certificate of a relay as such a set.                                   *)
(***************************************************************************)
EXTENDS FiniteSets, Integers

CONSTANTS Relayers, Quorum

VARIABLES
  signed,   \* the relayers who have signed the message
  acted     \* the signers shown to the chain that has acted on it, or {}

Init == signed = {} /\ acted = {}

Sign(r) ==
  /\ r \notin signed
  /\ signed' = signed \union {r}
  /\ UNCHANGED acted

Act ==
  /\ acted = {}
  /\ \E shown \in SUBSET signed : Cardinality(shown) >= Quorum /\ acted' = shown
  /\ UNCHANGED signed

Next == Act \/ \E r \in Relayers : Sign(r)

Spec == Init /\ [][Next]_<<signed, acted>>

\* A quorum is enough.
Acts == Cardinality(signed) >= Quorum ~> acted # {}
=============================================================================
