------------------------------ MODULE MCMetrics ------------------------------
(* The value of RbcRelay's function constant for TLC. *)
EXTENDS Metrics

\* The number of relayers stays the same.
Steady == [n \in 0..MaxRound |-> N]
=============================================================================
