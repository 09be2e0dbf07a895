------------------------------ MODULE MCSubmits ------------------------------
(* Model-checking instance of Submits. *)
EXTENDS Submits

\* Strings of hexadecimal digits in the order of their numbers.
MCHex == [a \in -4..4 |-> a]
=============================================================================
