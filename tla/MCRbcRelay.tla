----------------------------- MODULE MCRbcRelay -----------------------------
(* Values of RbcRelay's function constants for TLC. *)
EXTENDS RbcRelay

\* The number of relayers stays the same ...
Steady == [n \in 0..MaxRound |-> N]

\* ... or falls after round 0, so that another index becomes the primary one.
Shrinking == [n \in 0..MaxRound |-> IF n = 0 THEN N ELSE N - 1]
=============================================================================
