------------------------------ MODULE RoundUp ------------------------------
(***************************************************************************)
(* The relayers tell the external chains who the relayers of a new round   *)
(* are.  VSPFeed (rbclib/periodic/vsp_feed.py) looks at the round on       *)
(* Bifrost every minute; the relayers of round n - 1 sign the list of      *)
(* round n and poll it.  Once Bifrost has a majority it emits a RoundUp    *)
(* event, and RoundUpEvent (rbclib/events/roundup_event.py) relays the     *)
(* list with the signatures to each external chain: the primary relayer at *)
(* once, the others later if the chain has not got it by then.             *)
(*                                                                         *)
(* VSPFeed reads the round and, with a later call, the list it signs:      *)
(* Bifrost may enter the next round between the two.  The view calls of    *)
(* RoundUpEvent are read at once.  Delays are abstracted to interleaving.  *)
(* The contracts are external.                                             *)
(***************************************************************************)
EXTENDS Integers, FiniteSets

CONSTANTS
  Relayers,      \* the relayers whose process runs, at least at first
  FastRelayers,  \* those launched in the fast role, which run no VSPFeed
  Chains,        \* the external chains
  NoChain,       \* chain_enum.NONE, the chain of an event not yet split
  MaxRound,      \* bound on the rounds of Bifrost; the first one here is 1
  Selected,      \* the relayers selected in each round
  Majority,      \* votes of the relayers of a round that Bifrost asks for
  HistoryLimit,  \* BIFROST_VALIDATOR_HISTORY_LIMIT_BLOCKS
  Offset,        \* BOOTSTRAP_OFFSET_ROUNDS
  Live,          \* relayers whose process is assumed to keep running
  MaxFaults,     \* bound on lost transactions
  MaxRestarts    \* bound on restarts of each relayer

Rounds == 0..MaxRound

ASSUME RoundUpAssumption ==
  /\ IsFiniteSet(Relayers)
  /\ FastRelayers \subseteq Relayers
  /\ Live \subseteq Relayers
  /\ NoChain \notin Chains
  /\ MaxRound \in Nat \ {0}
  /\ Selected \in [Rounds -> SUBSET Relayers]
  /\ Majority \in [Rounds -> Nat \ {0}]
  /\ HistoryLimit \in Nat \ {0}
  /\ Offset \in Nat
  /\ MaxFaults \in Nat
  /\ MaxRestarts \in Nat

VARIABLES
  round,    \* latest round on Bifrost
  polls,    \* the relayers whose signature of each round's list is stored
  events,   \* RoundUp events with status NEXT_AUTHORITY_COMMITTED
  latest,   \* latest round on each external chain
  cached,   \* VSPFeed's current_round of each relayer
  reading,  \* round that each relayer's VSPFeed is building a vote for, or 0
  known,    \* rounds in each relayer's index cache
  seen,     \* the events each relayer's monitor has passed
  tasks,    \* the RoundUpEvents in each relayer's queue
  boots,    \* times each relayer has been restarted
  pool,     \* transactions sent and not yet in a block
  faults    \* transactions lost so far

contractVars == <<polls, events, latest>>
vars == <<round, contractVars, cached, reading, known, seen, tasks, boots, pool, faults>>

\* primary stands for the block number: its remainder is the primary's index.
Event == [round : Rounds \ {0}, primary : Relayers, at : Rounds]
Task  == [event : Event, chain : Chains \union {NoChain}, aggregated : BOOLEAN]
\* list is the round whose list of relayers is signed.
Vote  == [kind : {"vote"}, by : Relayers, round : Rounds \ {0}, list : Rounds \ {0}]
Relay == [kind : {"relay"}, by : Relayers, round : Rounds \ {0}, chain : Chains,
          cert : SUBSET Relayers]

TypeOK ==
  /\ round \in Rounds \ {0}
  /\ polls \in [Rounds -> SUBSET Relayers]
  /\ events \subseteq Event
  /\ latest \in [Chains -> Rounds]
  /\ cached \in [Relayers -> Rounds]
  /\ reading \in [Relayers -> Rounds]
  /\ known \in [Relayers -> SUBSET Rounds]
  /\ seen \in [Relayers -> SUBSET Event]
  /\ tasks \in [Relayers -> SUBSET Task]
  /\ boots \in [Relayers -> 0..MaxRestarts]
  /\ pool \subseteq Vote \union Relay
  /\ faults \in 0..MaxFaults

-----------------------------------------------------------------------------
(* The contracts (external).  Bifrost stores signatures over the list of   *)
(* the round only, and counts them; it is left to the relayers to sign only *)
(* when they should.                                                       *)

Committed(n) == \E e \in events : e.round = n

TakesVote(tx) ==
  /\ Selected[tx.list] = Selected[tx.round]
  /\ tx.by \notin polls[tx.round]
  /\ ~Committed(tx.round)

TakesRelay(tx) ==
  Cardinality(tx.cert) >= Majority[tx.round - 1] /\ tx.round > latest[tx.chain]

\* The transaction would succeed now; estimateGas reports the same.
Accepts(tx) == IF tx.kind = "vote" THEN TakesVote(tx) ELSE TakesRelay(tx)

\* round_control_poll: the vote that completes the majority emits the event.
CountVote(tx) ==
  LET signers == polls[tx.round] \union {tx.by}
  IN /\ polls' = [polls EXCEPT ![tx.round] = signers]
     /\ IF Cardinality(signers) < Majority[tx.round - 1]
        THEN UNCHANGED events
        ELSE \E p \in Selected[tx.round - 1] :
               events' = events \union {[round |-> tx.round, primary |-> p, at |-> round]}
     /\ UNCHANGED latest

\* round_control_relay: the chain takes over the list.
TakeOver(tx) ==
  /\ latest' = [latest EXCEPT ![tx.chain] = tx.round]
  /\ UNCHANGED <<polls, events>>

-----------------------------------------------------------------------------
(* VSPFeed. *)

Send(tx) == pool' = IF Accepts(tx) THEN pool \union {tx} ELSE pool

\* The event loop is not inside VSPFeed.build_transaction_params.
Idle(r) == reading[r] = 0

\* Mutant: the relayers of the new round sign, not those of the one before.
MayVoteMutantNew(r, n) == r \in Selected[n]

\* Mutant: a relayer that is not selected any more does not sign.
MayVoteMutantLeaving(r, n) == r \in Selected[n] \intersect Selected[n - 1]

\* The list of round n is signed by the relayers of the round before.
MayVote(r, n) == r \in Selected[n - 1]

\* build_transaction_params, in a round that the relayer has not looked at yet.
\* The round is marked as done whatever becomes of the vote.
CheckRound(r) ==
  /\ r \notin FastRelayers
  /\ Idle(r)
  /\ cached[r] < round
  /\ cached' = [cached EXCEPT ![r] = round]
  /\ known' = [known EXCEPT ![r] =
                 IF r \in Selected[round] THEN @ \union {round} ELSE @]
  /\ reading' = [reading EXCEPT ![r] = IF MayVote(r, round) THEN round ELSE 0]
  /\ UNCHANGED <<round, contractVars, seen, tasks, boots, pool, faults>>

\* Its last view call, for the list of the round that it is by now.
BuildVote(r) ==
  /\ ~Idle(r)
  /\ reading' = [reading EXCEPT ![r] = 0]
  /\ Send([kind |-> "vote", by |-> r, round |-> reading[r], list |-> round])
  /\ UNCHANGED <<round, contractVars, cached, known, seen, tasks, boots, faults>>

\* The index cache is shared with the RbcEvents: check_my_event puts the index
\* for the round of a request into it, if the relayer was selected then.
CheckMyEvent(r) ==
  /\ Idle(r)
  /\ \E n \in 1..round :
       /\ r \in Selected[n] /\ n \notin known[r]
       /\ known' = [known EXCEPT ![r] = @ \union {n}]
  /\ UNCHANGED <<round, contractVars, cached, reading, seen, tasks, boots, pool, faults>>

-----------------------------------------------------------------------------
(* RoundUpEvent. *)

\* is_previous_relayer: the cache has an entry for the round before.
IsPrevious(r, e) == r \in FastRelayers \/ e.round - 1 \in known[r]

IsPrimary(r, e) == r \in FastRelayers \/ r = e.primary

NewTask(e) == [event |-> e, chain |-> NoChain, aggregated |-> TRUE]

\* The chain monitor delivers an event.
Detect(r) ==
  \E e \in events \ seen[r] :
    /\ seen' = [seen EXCEPT ![r] = @ \union {e}]
    /\ tasks' = [tasks EXCEPT ![r] = @ \union {NewTask(e)}]
    /\ UNCHANGED <<round, contractVars, cached, reading, known, boots, pool, faults>>

Replace(r, t, successors) ==
  tasks' = [tasks EXCEPT ![r] = (@ \ {t}) \union successors]

\* One event for each external chain takes the place of the event.
Split(r, t) ==
  /\ IsPrevious(r, t.event)
  /\ t.chain = NoChain
  /\ Replace(r, t, {[t EXCEPT !.chain = c] : c \in Chains})
  /\ UNCHANGED pool

\* This relayer relays, and is done whatever becomes of the transaction.
SendRelay(r, t) ==
  /\ IsPrevious(r, t.event)
  /\ t.chain # NoChain
  /\ latest[t.chain] < t.event.round
  /\ IsPrimary(r, t.event) \/ ~t.aggregated
  /\ Replace(r, t, {})
  /\ Send([kind |-> "relay", by |-> r, round |-> t.event.round, chain |-> t.chain,
           cert |-> polls[t.event.round]])

\* Another one is the primary: look again later.
Defer(r, t) ==
  /\ IsPrevious(r, t.event)
  /\ t.chain # NoChain
  /\ latest[t.chain] < t.event.round
  /\ ~IsPrimary(r, t.event) /\ t.aggregated
  /\ Replace(r, t, {[t EXCEPT !.aggregated = FALSE]})
  /\ UNCHANGED pool

\* The relayer was not selected, or the chain has the list already.
Drop(r, t) ==
  /\ \/ ~IsPrevious(r, t.event)
     \/ t.chain # NoChain /\ latest[t.chain] >= t.event.round
  /\ Replace(r, t, {})
  /\ UNCHANGED pool

\* The event loop pops an event and calls build_transaction_params.
Handle(r) ==
  /\ Idle(r)
  /\ \E t \in tasks[r] : Split(r, t) \/ SendRelay(r, t) \/ Defer(r, t) \/ Drop(r, t)
  /\ UNCHANGED <<round, contractVars, cached, reading, known, seen, boots, faults>>

-----------------------------------------------------------------------------
(* Transactions, rounds and restarts. *)

\* None of the three result handlers does anything.
Land(tx) ==
  /\ pool' = pool \ {tx}
  /\ \/ ~Accepts(tx) /\ UNCHANGED contractVars
     \/ Accepts(tx) /\ tx.kind = "vote" /\ CountVote(tx)
     \/ Accepts(tx) /\ tx.kind = "relay" /\ TakeOver(tx)
  /\ UNCHANGED <<round, cached, reading, known, seen, tasks, boots, faults>>

Lose(tx) ==
  /\ faults < MaxFaults
  /\ faults' = faults + 1
  /\ pool' = pool \ {tx}
  /\ UNCHANGED <<round, contractVars, cached, reading, known, seen, tasks, boots>>

\* A round lasts for hours and VSPFeed runs every minute: the next one does not
\* begin before the live relayers have noticed this one.  They may not have read
\* the list yet.
NextRound ==
  /\ round < MaxRound
  /\ \A r \in Live \ FastRelayers : cached[r] = round
  /\ round' = round + 1
  /\ UNCHANGED <<contractVars, cached, reading, known, seen, tasks, boots, pool, faults>>

\* n is what fetch_bottom_round finds on Bifrost and the external chains.
IsBottomRound(n) ==
  /\ n = round \/ \E c \in Chains : n = latest[c]
  /\ n <= round /\ \A c \in Chains : n <= latest[c]

\* Mutant: one entry less.
RegisteredMutantShort == {n \in 1..round : round - n < HistoryLimit - 1}

\* register_relayer_auth: an entry for each of the last rounds, with the index
\* None where the relayer was not selected; round 0 never gets one.
Registered == {n \in 1..round : round - n < HistoryLimit}

\* bootstrap keeps the latest of the events in the rounds scanned.
Bootstrapped(first) ==
  LET recent == {e \in events : e.at >= first}
  IN {NewTask(e) : e \in {x \in recent : \A o \in recent : o.round <= x.round}}

\* The process stops, losing its queue and its caches, and starts again.
Restart(r) ==
  /\ boots[r] < MaxRestarts
  /\ boots' = [boots EXCEPT ![r] = @ + 1]
  /\ \E n \in Rounds : IsBottomRound(n) /\ cached' = [cached EXCEPT ![r] = n]
  /\ reading' = [reading EXCEPT ![r] = 0]
  /\ known' = [known EXCEPT ![r] = Registered]
  /\ \E first \in {round - Offset, round - Offset + 1} :
       tasks' = [tasks EXCEPT ![r] = Bootstrapped(first)]
  /\ seen' = [seen EXCEPT ![r] = events]
  /\ UNCHANGED <<round, contractVars, pool, faults>>

-----------------------------------------------------------------------------
\* Everybody has just started in round 1, which all chains know of.
Init ==
  /\ round = 1
  /\ polls = [n \in Rounds |-> {}]
  /\ events = {}
  /\ latest = [c \in Chains |-> 1]
  /\ cached = [r \in Relayers |-> 1]
  /\ reading = [r \in Relayers |-> 0]
  /\ known = [r \in Relayers |-> {1}]
  /\ seen = [r \in Relayers |-> {}]
  /\ tasks = [r \in Relayers |-> {}]
  /\ boots = [r \in Relayers |-> 0]
  /\ pool = {}
  /\ faults = 0

Next ==
  \/ \E r \in Relayers :
       \/ CheckRound(r) \/ BuildVote(r) \/ CheckMyEvent(r)
       \/ Detect(r) \/ Handle(r) \/ Restart(r)
  \/ \E tx \in pool : Land(tx) \/ Lose(tx)
  \/ NextRound

Spec == Init /\ [][Next]_vars

\* The live relayers check, monitor and pop events, and the chains include
\* transactions.  The rounds need not go on.
Fairness ==
  /\ \A r \in Live : /\ WF_vars(CheckRound(r)) /\ WF_vars(BuildVote(r))
                     /\ WF_vars(Detect(r)) /\ WF_vars(Handle(r))
  /\ WF_vars(\E tx \in pool : Land(tx))

FairSpec == Spec /\ Fairness

-----------------------------------------------------------------------------
(* Properties. *)

\* A chain only takes over a list that a majority of the relayers of the round
\* before has signed.  The contracts here count signatures; that they come from
\* the right relayers is due to VSPFeed ("vote for new validator list by only
\* previous validator").
Endorsed ==
  \A c \in Chains : latest[c] > 1 =>
    Cardinality(polls[latest[c]] \intersect Selected[latest[c] - 1]) >= Majority[latest[c] - 1]

\* The rounds whose list a majority of the relayers of the round before has signed.
EndorsedRounds ==
  {n \in Rounds \ {0} : Cardinality(polls[n] \intersect Selected[n - 1]) >= Majority[n - 1]}

Lists == INSTANCE Handover WITH endorsed <- EndorsedRounds

\* Whoever signs and relays, whatever is lost, and although VSPFeed may read the round
\* and the list in different rounds, the lists are handed over as Handover says: no
\* list is endorsed before its round, and no late relay takes a chain back.
ImplementsHandover == Lists!Spec

\* As long as rounds last, every external chain catches up with Bifrost, also
\* when the primary's relay is lost, relayers restart, or the lists change.
Synced == \A c \in Chains : []<>(latest[c] = round)

-----------------------------------------------------------------------------
(* The inductive invariant behind Endorsed and ImplementsHandover. *)

\* Only relayers of the round before have signed, or are about to.
VotesOwn ==
  /\ \A n \in Rounds \ {0} : polls[n] \subseteq Selected[n - 1]
  /\ \A r \in Relayers : reading[r] # 0 => r \in Selected[reading[r] - 1]
  /\ \A tx \in pool : tx.kind = "vote" => tx.by \in Selected[tx.round - 1]

\* A relay carries signatures that Bifrost has stored.
CertsStored == \A tx \in pool : tx.kind = "relay" => tx.cert \subseteq polls[tx.round]

\* The rounds after the first one that have begun.
BegunRounds == 2..round

\* Nobody signs a list before its round has begun, or the list of the first round: a
\* restarted VSPFeed goes on from the bottom round of the chains, never from round 0.
VotesBegun ==
  /\ \A n \in Rounds : polls[n] # {} => n \in BegunRounds
  /\ \A r \in Relayers : cached[r] >= 1 /\ (reading[r] # 0 => reading[r] \in BegunRounds)
  /\ \A tx \in pool : tx.kind = "vote" => tx.round \in BegunRounds
  /\ \A c \in Chains : latest[c] >= 1

\* Every signature of a list, stored or on its way, is one of a relayer of the
\* round before, made after the round had begun.
IInv == TypeOK /\ VotesOwn /\ CertsStored /\ Endorsed /\ VotesBegun
=============================================================================
