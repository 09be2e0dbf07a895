----------------------------- MODULE MCRoundUp -----------------------------
(* Values of RoundUp's function constants for TLC. *)
EXTENDS RoundUp

\* Two relayers are selected in each round, and one of them changes.
Rotating == [n \in Rounds |-> IF n % 2 = 0 THEN {"a", "b"} ELSE {"b", "c"}]

One == [n \in Rounds |-> 1]
Two == [n \in Rounds |-> 2]
=============================================================================
