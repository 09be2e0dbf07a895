---------------------------- MODULE HeightSearch ----------------------------
(***************************************************************************)
(* The search for the block of an external chain from which a starting     *)
(* relayer scans for events (find_height_by_timestamp and binary_search of *)
(* rbclib/utils.py).  The height is wanted whose block is about as old as  *)
(* the Bifrost block that the bootstrap starts from.  Each step is one     *)
(* call of binary_search, with one block fetched from the node.            *)
(***************************************************************************)
EXTENDS Integers

CONSTANTS
  Head,     \* height of the chain's latest block when the search starts
  Times,    \* possible timestamps of the blocks, functions of the height
  Wanted,   \* possible values of bootstrap_start_time
  Latest,   \* possible values of chain_manager.latest_height from the config
  Window    \* the 30 seconds within which a block is near enough

Heights == 0..Head

ASSUME SearchAssumption ==
  /\ Head \in Nat
  /\ Times \subseteq [Heights -> Int]
  /\ Wanted \subseteq Int
  /\ Latest \subseteq Heights
  /\ Window \in Nat \ {0}

\* No block of a chain is older than the block before it.  Nothing is assumed
\* of how far apart they are, nor of how far the node has got.
ASSUME BlockAssumption ==
  \A t \in Times : \A i, j \in Heights : i <= j => t[i] <= t[j]

VARIABLES
  time,     \* timestamp of each block
  wanted,   \* target_time as find_height_by_timestamp is called with it
  target,   \* target_time as binary_search is called with it
  front,    \* front_height of the current call
  rear,     \* rear_height of the current call
  phase,    \* "start", "search", "found" or "raised"
  height    \* the height returned, or -1

vars == <<time, wanted, target, front, rear, phase, height>>

TypeOK ==
  /\ time \in Times
  /\ wanted \in Wanted
  /\ target \in Int
  /\ front \in Heights
  /\ rear \in Heights
  /\ phase \in {"start", "search", "found", "raised"}
  /\ height \in Heights \union {-1}

-----------------------------------------------------------------------------
\* run_relayer has waited for the Bifrost node only, so the node of this chain
\* may be behind the time that is wanted.
Init ==
  /\ time \in Times
  /\ wanted \in Wanted
  /\ target = wanted
  /\ front \in Latest
  /\ rear = Head
  /\ phase = "start"
  /\ height = -1

\* find_height_by_timestamp: the configured height is late enough already ...
StartAtFront ==
  /\ phase = "start"
  /\ time[front] >= wanted
  /\ phase' = "found"
  /\ height' = front
  /\ UNCHANGED <<time, wanted, target, front, rear>>

\* Mutant: the search is for the wanted time itself.
StartSearchMutantMargin ==
  /\ phase = "start"
  /\ time[front] < wanted
  /\ target' = wanted
  /\ phase' = "search"
  /\ UNCHANGED <<time, wanted, front, rear, height>>

\* ... or the search begins, for a time that is a window earlier.
StartSearch ==
  /\ phase = "start"
  /\ time[front] < wanted
  /\ target' = wanted - Window
  /\ phase' = "search"
  /\ UNCHANGED <<time, wanted, front, rear, height>>

\* Mutant: the middle is rounded up.
MediumMutantUp == (front + rear + 1) \div 2

Medium == (front + rear) \div 2

Distance(t) == IF target > t THEN target - t ELSE t - target

\* The interval that binary_search calls itself with.
Half == IF target > time[Medium] THEN <<Medium, rear>> ELSE <<front, Medium>>

\* What binary_search demands of its parameters.
WellFormed == time[front] <= time[rear] /\ front <= rear

\* It calls itself with the parameters it has got, again and again.
Repeats == Distance(time[Medium]) >= Window /\ Half = <<front, rear>>

\* binary_search: the block in the middle is near enough.
Hit ==
  /\ phase = "search"
  /\ WellFormed
  /\ Distance(time[Medium]) < Window
  /\ phase' = "found"
  /\ height' = Medium
  /\ UNCHANGED <<time, wanted, target, front, rear>>

\* binary_search: it is too old or too young, and the search goes on in a half.
Narrow ==
  /\ phase = "search"
  /\ WellFormed
  /\ Distance(time[Medium]) >= Window
  /\ ~Repeats
  /\ front' = Half[1] /\ rear' = Half[2]
  /\ UNCHANGED <<time, wanted, target, phase, height>>

\* binary_search: an exception, of its own or, at the end of the recursion, of
\* Python.  Nothing catches it on the way to main.
Raise ==
  /\ phase = "search"
  /\ ~WellFormed \/ Repeats
  /\ phase' = "raised"
  /\ UNCHANGED <<time, wanted, target, front, rear, height>>

Next == StartAtFront \/ StartSearch \/ Hit \/ Narrow \/ Raise

Spec == Init /\ [][Next]_vars

\* The function runs to its end: nothing else happens in the process meanwhile.
FairSpec == Spec /\ WF_vars(Next)

-----------------------------------------------------------------------------
\* A block that the search would take if it looked at it.
Near(h) == wanted - Window - Window < time[h] /\ time[h] < wanted

\* The search gives up only if no block below the head is near enough.  (It does
\* not look at the head, at the end of the interval, before it gives up.)
MissesOnlyHead ==
  phase = "raised" => \A h \in Heights \ {Head} : ~Near(h)

\* If there is such a block, the search returns.
Finds == (\E h \in Heights \ {Head} : Near(h)) ~> phase = "found"

\* No event is skipped: the scan starts before the wanted time, or at the height
\* that the configuration names, and it starts less than two windows early.
StartsInTime ==
  phase = "found" =>
    \/ time[front] >= wanted /\ height = front
    \/ time[height] < wanted /\ wanted - time[height] < 2 * Window

\* What a call of binary_search may rely on: its parameters are in order, the
\* front block is not a window after the target, and the rear block is a window
\* after it or is the head of the chain, which may be anywhere.  It gives up with
\* a front block that is too old and nothing between front and rear.
IInv ==
  /\ TypeOK
  /\ front <= rear
  /\ phase = "start" => rear = Head
  /\ phase \in {"search", "raised"} =>
       /\ WellFormed
       /\ target = wanted - Window
       /\ time[front] - target < Window
       /\ rear = Head \/ target + Window <= time[rear]
  /\ phase = "raised" => time[front] + Window <= target /\ rear <= front + 1
  /\ StartsInTime
=============================================================================
