--------------------------- MODULE MCHeightSearch ---------------------------
(* Chains of a few blocks for TLC.  A window is two units of time; blocks    *)
(* are up to five units apart, more than two windows, and the time wanted    *)
(* may be later than the head of any chain.                                  *)
EXTENDS HeightSearch

MCGaps == 0..(2 * Window + 1)

MCWanted == 0..((Head + 1) * (2 * Window + 1))

\* Every chain whose genesis block is at time 0.
MCTimes ==
  {t \in [0..Head -> 0..(Head * (2 * Window + 1))] :
     t[0] = 0 /\ \A h \in 1..Head : t[h] - t[h - 1] \in MCGaps}
=============================================================================
