------------------------------ MODULE Handover ------------------------------
(***************************************************************************)
(* What the round-up promises (rbclib/periodic/vsp_feed.py and             *)
(* rbclib/events/roundup_event.py): the lists of relayers are handed over  *)
(* from round to round.  The list of a round that has begun is endorsed by *)
(* a majority of the relayers of the round before, and only then may an    *)
(* external chain take it over.  No chain goes back to an older list or    *)
(* runs ahead of Bifrost; it may skip one.  There are no relayers,         *)
(* signatures, events or messages.                                         *)
(***************************************************************************)
EXTENDS Integers

CONSTANTS Chains, MaxRound

VARIABLES
  round,      \* latest round on Bifrost
  endorsed,   \* rounds whose list has a majority of the round before
  latest      \* the round whose list each external chain has

vars == <<round, endorsed, latest>>

Init ==
  /\ round = 1
  /\ endorsed = {}
  /\ latest = [c \in Chains |-> 1]

Begin ==
  /\ round < MaxRound
  /\ round' = round + 1
  /\ UNCHANGED <<endorsed, latest>>

Endorse(n) ==
  /\ n \notin endorsed
  /\ endorsed' = endorsed \union {n}
  /\ UNCHANGED <<round, latest>>

TakeOver(c, n) ==
  /\ n > latest[c]
  /\ latest' = [latest EXCEPT ![c] = n]
  /\ UNCHANGED <<round, endorsed>>

Next ==
  \/ Begin
  \/ \E n \in 2..round : Endorse(n)
  \/ \E c \in Chains, n \in endorsed : TakeOver(c, n)

Spec == Init /\ [][Next]_vars
=============================================================================
