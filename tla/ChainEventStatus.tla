-------------------------- MODULE ChainEventStatus --------------------------
(***************************************************************************)
(* The status of a cross-chain request, as carried by the Socket event     *)
(* (rbclib/primitives/chain.py), and the order in which the statuses of    *)
(* one request overtake each other (rbclib/utils.py).  The numbers are the *)
(* ones of the enum: "status + 2" is part of the protocol.                 *)
(***************************************************************************)
EXTENDS Integers

NONE       == 0
REQUESTED  == 1
FAILED     == 2
EXECUTED   == 3
REVERTED   == 4
ACCEPTED   == 5
REJECTED   == 6
COMMITTED  == 7
ROLLBACKED == 8

Status == NONE..ROLLBACKED

\* Statuses after which nothing is left to do for a request.
Final == {COMMITTED, ROLLBACKED}

\* Statuses that are relayed with the collected signatures to a chain.
Aggregated == {ACCEPTED, REJECTED}

\* Statuses that every selected relayer reports to Bifrost on its own.
Voted == {REQUESTED, FAILED, EXECUTED, REVERTED}

-----------------------------------------------------------------------------
(***************************************************************************)
(* How late a status is in the life of a request.  An inbound request      *)
(* follows the numbering.  An outbound one is ACCEPTED on Bifrost before   *)
(* it is EXECUTED or REVERTED on the other chain, so its statuses are      *)
(* looked up in a preference order of their own, which has no place for    *)
(* NONE and FAILED: of events that have no other status the code picks     *)
(* none, it raises ("Invalid event status", or the index of a REQUESTED    *)
(* that is not in the list).                                               *)
(***************************************************************************)
Ranked(inbound) == IF inbound THEN Status ELSE Status \ {NONE, FAILED}

OutboundRank ==
  [s \in Ranked(FALSE) |->
     CASE s = COMMITTED  -> 7
       [] s = ROLLBACKED -> 6
       [] s = EXECUTED   -> 5
       [] s = REVERTED   -> 4
       [] s = ACCEPTED   -> 3
       [] s = REJECTED   -> 2
       [] s = REQUESTED  -> 1]

\* Mutant: outbound statuses are ordered by their numbers, as inbound ones.
RankMutantNumbers(inbound, s) == s

Rank(inbound, s) == IF inbound THEN s ELSE OutboundRank[s]

\* s is the status that extract_latest_event_status picks out of S ...
IsLatest(inbound, s, S) ==
  /\ s \in S \intersect Ranked(inbound)
  /\ \A other \in S \intersect Ranked(inbound) : Rank(inbound, other) <= Rank(inbound, s)

\* ... and it raises when S has none that it could pick.
LatestRaises(inbound, S) == S \intersect Ranked(inbound) = {}
=============================================================================
