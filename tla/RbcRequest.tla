----------------------------- MODULE RbcRequest -----------------------------
(***************************************************************************)
(* What the relayers promise about a cross-chain request, seen from        *)
(* outside: the request is executed or reverted on the destination chain,  *)
(* and then settled on the source chain in the way that fits: committed    *)
(* after an execution, rolled back after a revert.  Neither answer is ever *)
(* taken back.  These are the four final classes of rbc_event.py, without  *)
(* votes, signatures, relayers or messages.                                *)
(***************************************************************************)
CONSTANT Requests

VARIABLES
  outcome,     \* what happened to each request on its destination chain
  settlement   \* how each request ended on its source chain

vars == <<outcome, settlement>>

Outcome    == {"pending", "executed", "reverted"}
Settlement == {"open", "committed", "rollbacked"}

Init ==
  /\ outcome = [q \in Requests |-> "pending"]
  /\ settlement = [q \in Requests |-> "open"]

Execute(q) ==
  /\ outcome[q] = "pending"
  /\ outcome' = [outcome EXCEPT ![q] = "executed"]
  /\ UNCHANGED settlement

Revert(q) ==
  /\ outcome[q] = "pending"
  /\ outcome' = [outcome EXCEPT ![q] = "reverted"]
  /\ UNCHANGED settlement

Commit(q) ==
  /\ outcome[q] = "executed" /\ settlement[q] = "open"
  /\ settlement' = [settlement EXCEPT ![q] = "committed"]
  /\ UNCHANGED outcome

Rollback(q) ==
  /\ outcome[q] = "reverted" /\ settlement[q] = "open"
  /\ settlement' = [settlement EXCEPT ![q] = "rollbacked"]
  /\ UNCHANGED outcome

Next == \E q \in Requests : Execute(q) \/ Revert(q) \/ Commit(q) \/ Rollback(q)

Spec == Init /\ [][Next]_vars
=============================================================================
