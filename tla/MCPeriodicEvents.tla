-------------------------- MODULE MCPeriodicEvents --------------------------
(* Values of PeriodicEvents's constants for TLC. *)
EXTENDS PeriodicEvents

\* Relayer "b" is always selected, "a" leaves and comes back.
MCCommittees == {{"a", "b"}, {"b"}}
=============================================================================
