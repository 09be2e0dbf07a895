------------------------------ MODULE RbcRelay ------------------------------
(***************************************************************************)
(* The relayers that carry cross-chain requests between Bifrost and one    *)
(* external chain (rbclib/events/rbc_event.py), together with the two      *)
(* Socket contracts they talk to.                                          *)
(*                                                                         *)
(* A relayer keeps a queue of events.  An event is popped in one of two    *)
(* roles, "send" (build_transaction_params) or "call"                      *)
(* (build_call_transaction_params and handle_call_result); after a send    *)
(* it waits for its receipt and one of the handle_tx_result methods runs.  *)
(* Delays are abstracted to interleaving: a queued event may be popped at  *)
(* any later time.                                                         *)
(*                                                                         *)
(* The contracts and the event bridge that drives the queue are not part   *)
(* of the repository.  Their definitions below (marked external) say what  *)
(* the relayer's code expects of them.                                     *)
(***************************************************************************)
EXTENDS ChainEventStatus, FiniteSets

CONSTANTS
  Requests,      \* the requests, all registered in round 0
  Inbound,       \* those whose source is the external chain
  Relayers,      \* the relayers whose process runs, at least at first
  FastRelayers,  \* those launched in the fast role
  N,             \* relayers selected in round 0: 0..N-1 are their indices
  Quorum,        \* previous_majority of round 0
  RelayerNum,    \* number of selected relayers in each round
  MaxRound,      \* bound on the rounds Bifrost goes through
  HistoryLimit,  \* BIFROST_VALIDATOR_HISTORY_LIMIT_BLOCKS
  Offset,        \* BOOTSTRAP_OFFSET_ROUNDS
  Blocks,        \* numbers of the blocks that aggregated events appear in
  Live,          \* relayers whose process is assumed to keep running
  MaxFaults,     \* bound on lost transactions and missing receipts
  MaxRestarts    \* bound on restarts of each relayer

Selected == 0..(N - 1)

ASSUME ConstantsAssumption ==
  /\ Inbound \subseteq Requests
  /\ FastRelayers \subseteq Relayers
  /\ Live \subseteq Relayers
  /\ N \in Nat
  /\ Quorum \in Nat \ {0}
  /\ MaxRound \in Nat
  /\ RelayerNum \in [0..MaxRound -> Nat \ {0}]
  /\ HistoryLimit \in Nat
  /\ Offset \in Nat
  /\ Blocks \subseteq Nat
  /\ MaxFaults \in Nat
  /\ MaxRestarts \in Nat

VARIABLES
  bifrost,   \* status of each request in the Socket contract on Bifrost
  external,  \* status of each request in the Socket contract elsewhere
  polls,     \* votes that the Bifrost contract has counted
  events,    \* the Socket events emitted, with the round of their block
  block,     \* block number of the aggregated event of each request
  round,     \* latest round on Bifrost
  seen,      \* the events each relayer's monitor has passed
  tasks,     \* the events in each relayer's queue, or awaiting a receipt
  boots,     \* times each relayer has been restarted
  pool,      \* transactions sent and not yet in a block
  faults     \* transactions lost or without a receipt so far

chainVars   == <<bifrost, external, polls, events>>
relayerVars == <<seen, tasks, boots>>
vars == <<chainVars, relayerVars, block, round, pool, faults>>

Phases == {"send", "call", "wait"}

Event == [req : Requests, status : Status, round : 0..MaxRound]

Task == [req : Requests, status : Status, phase : Phases, aggregated : BOOLEAN]

Vote == [by : Relayers, msg : Status, sig : Status]

Tx == [by : Relayers, boot : Nat, req : Requests, msg : Status, sig : Status,
       cert : SUBSET Relayers]

TypeOK ==
  /\ bifrost \in [Requests -> Status]
  /\ external \in [Requests -> Status]
  /\ polls \in [Requests -> SUBSET Vote]
  /\ events \subseteq Event
  /\ block \in [Requests -> Blocks]
  /\ round \in 0..MaxRound
  /\ seen \in [Relayers -> SUBSET Event]
  /\ tasks \in [Relayers -> SUBSET Task]
  /\ boots \in [Relayers -> Nat]
  /\ pool \subseteq Tx
  /\ faults \in 0..MaxFaults

-----------------------------------------------------------------------------
(* What the contracts answer to the relayers' view calls. *)

\* The relayers whose vote with message status msg has been counted.
Voters(q, msg) == {v.by : v \in {w \in polls[q] : w.msg = msg}}

\* The relayers whose signature over a message with this status is stored.
Signers(q, status) == {v.by : v \in {w \in polls[q] : w.sig = status}}

-----------------------------------------------------------------------------
(* The Socket contracts (external). *)

\* How a request moves when a message has its quorum: <<message, from, to>>.
\* An inbound request is executed on Bifrost and settled on the external chain,
\* an outbound one the other way round.
InboundMoves ==
  {<<REQUESTED, NONE, EXECUTED>>, <<REQUESTED, NONE, REVERTED>>,
   <<FAILED, NONE, REVERTED>>,
   <<EXECUTED, EXECUTED, ACCEPTED>>, <<REVERTED, REVERTED, REJECTED>>,
   <<ACCEPTED, REQUESTED, COMMITTED>>, <<REJECTED, REQUESTED, ROLLBACKED>>}

OutboundMoves ==
  {<<REQUESTED, REQUESTED, ACCEPTED>>,
   <<ACCEPTED, NONE, EXECUTED>>, <<ACCEPTED, NONE, REVERTED>>,
   <<REJECTED, NONE, REVERTED>>,
   <<EXECUTED, ACCEPTED, COMMITTED>>, <<REVERTED, ACCEPTED, ROLLBACKED>>}

Moves(q, msg, from) ==
  {to \in Status :
     <<msg, from, to>> \in IF q \in Inbound THEN InboundMoves ELSE OutboundMoves}

BifrostAccepts(tx) ==
  /\ tx.by \in Selected
  /\ tx.by \notin Voters(tx.req, tx.msg)
  /\ Moves(tx.req, tx.msg, bifrost[tx.req]) # {}

ExternalAccepts(tx) ==
  /\ Cardinality(tx.cert) >= Quorum
  /\ Moves(tx.req, tx.msg, external[tx.req]) # {}

\* poll() would succeed now; estimateGas reports the same.
Accepts(tx) ==
  IF tx.msg \in Aggregated THEN ExternalAccepts(tx) ELSE BifrostAccepts(tx)

\* The chains emit an event whenever the status of a request changes.
Emit(q, status) ==
  events' = events \union {[req |-> q, status |-> status, round |-> round]}

\* Bifrost counts a vote; the vote that completes the quorum moves the request.
CountVote(tx) ==
  LET q == tx.req
      counted == polls[q] \union {[by |-> tx.by, msg |-> tx.msg, sig |-> tx.sig]}
      complete == Cardinality(Voters(q, tx.msg) \union {tx.by}) >= Quorum
  IN /\ polls' = [polls EXCEPT ![q] = counted]
     /\ \/ /\ ~complete
           /\ UNCHANGED <<bifrost, events>>
        \/ /\ complete
           /\ \E status \in Moves(q, tx.msg, bifrost[q]) :
                /\ bifrost' = [bifrost EXCEPT ![q] = status]
                /\ Emit(q, status)
     /\ UNCHANGED external

\* The external chain verifies the signatures and moves the request.
ApplyRelay(tx) ==
  \E status \in Moves(tx.req, tx.msg, external[tx.req]) :
    /\ external' = [external EXCEPT ![tx.req] = status]
    /\ Emit(tx.req, status)
    /\ UNCHANGED <<bifrost, polls>>

ExecutePoll(tx) ==
  IF tx.msg \in Aggregated THEN ApplyRelay(tx) ELSE CountVote(tx)

-----------------------------------------------------------------------------
(* Decisions of the event classes. *)

\* check_my_event: fast relayers take every event, the others those of the
\* rounds they are selected in.
IsMyEvent(r) == r \in FastRelayers \/ r \in Selected

\* is_primary_relayer: the block number modulo the number of relayers selected
\* NOW, compared with the index this relayer had in the request's round.
IsPrimary(r, q) ==
  r \in FastRelayers \/ block[q] % RelayerNum[round] = r

\* check_already_done: the status that means a relay is not needed any more.
ExpectedStatus(q, status) ==
  IF status = ACCEPTED
  THEN IF q \in Inbound THEN COMMITTED ELSE EXECUTED
  ELSE IF q \in Inbound THEN ROLLBACKED ELSE REVERTED

AlreadyDone(t) == external[t.req] = ExpectedStatus(t.req, t.status)

\* Mutant: a FAILED vote signs the rejection at once.
SignedStatusMutantFailed(q, status) ==
  CASE status = REQUESTED -> IF q \in Inbound THEN NONE ELSE ACCEPTED
    [] status = FAILED    -> REJECTED
    [] OTHER              -> status + 2

\* The status a vote signs for: NONE when it carries no signature.
SignedStatus(q, status) ==
  CASE status = REQUESTED -> IF q \in Inbound THEN NONE ELSE ACCEPTED
    [] status = FAILED    -> FAILED
    [] OTHER              -> status + 2

\* The event object made for a status: first popped as a send.
NewTask(q, status) ==
  [req |-> q, status |-> status, phase |-> "send", aggregated |-> TRUE]

VoteTx(r, t) ==
  [by |-> r, boot |-> boots[r], req |-> t.req, msg |-> t.status,
   sig |-> SignedStatus(t.req, t.status), cert |-> {}]

\* Mutant: poll is called with ACCEPTED whatever the signatures are for.
RelayTxMutantAccepted(r, t) ==
  [by |-> r, boot |-> boots[r], req |-> t.req, msg |-> ACCEPTED,
   sig |-> NONE, cert |-> Signers(t.req, t.status)]

RelayTx(r, t) ==
  [by |-> r, boot |-> boots[r], req |-> t.req, msg |-> t.status,
   sig |-> NONE, cert |-> Signers(t.req, t.status)]

\* handle_tx_result_success: the events that take the place of t.
AfterSuccess(t) ==
  IF t.status = REQUESTED /\ t.req \in Inbound
  THEN {[t EXCEPT !.phase = "call"]}
  ELSE {}

\* Mutant: an outbound relay that fails counts as reverted.
AfterFailMutantReverted(t) ==
  CASE t.status = REQUESTED -> {NewTask(t.req, FAILED)}
    [] t.status = ACCEPTED /\ t.req \notin Inbound -> {NewTask(t.req, REVERTED)}
    [] OTHER -> {}

\* Mutant: whatever fails is sent again.
AfterFailMutantRetry(t) == {[t EXCEPT !.phase = "send"]}

\* handle_tx_result_fail, which handle_tx_result_no_receipt calls too.
AfterFail(t) ==
  CASE t.status = REQUESTED -> {NewTask(t.req, FAILED)}
    [] t.status = ACCEPTED /\ t.req \notin Inbound ->
         {[NewTask(t.req, REJECTED) EXCEPT !.aggregated = FALSE]}
    [] OTHER -> {}

Replace(r, t, successors) ==
  tasks' = [tasks EXCEPT ![r] = (@ \ {t}) \union successors]

-----------------------------------------------------------------------------
(* Steps of one relayer. *)

\* The statuses for which a relayer makes an event object that acts: the final
\* ones only export metrics, and the fast relayer's class keeps the aggregated.
Handled(r) ==
  IF r \in FastRelayers THEN Aggregated ELSE Voted \union Aggregated

\* The chain monitor delivers an event.
Detect(r) ==
  \E e \in {x \in events \ seen[r] : x.status \in Handled(r)} :
    /\ seen' = [seen EXCEPT ![r] = @ \union {e}]
    /\ tasks' = [tasks EXCEPT ![r] = @ \union {NewTask(e.req, e.status)}]
    /\ UNCHANGED <<chainVars, boots, block, round, pool, faults>>

\* The transaction is sent if estimateGas passes, else it has failed at once.
Submit(r, t, tx) ==
  \/ /\ Accepts(tx)
     /\ pool' = pool \union {tx}
     /\ Replace(r, t, {[t EXCEPT !.phase = "wait"]})
  \/ /\ ~Accepts(tx)
     /\ Replace(r, t, AfterFail(t))
     /\ UNCHANGED pool

\* build_transaction_params of the four voting events.
SendVote(r, t) ==
  /\ t.phase = "send" /\ t.status \in Voted
  /\ IsMyEvent(r)
  /\ t.status = FAILED => t.req \in Inbound
  /\ Submit(r, t, VoteTx(r, t))

\* build_transaction_params of the aggregated events, when this relayer sends.
SendRelay(r, t) ==
  /\ t.phase = "send" /\ t.status \in Aggregated
  /\ IsMyEvent(r)
  /\ ~AlreadyDone(t)
  /\ IsPrimary(r, t.req) \/ ~t.aggregated
  /\ Submit(r, t, RelayTx(r, t))

\* Mutant: the event is not put back into the queue.
DeferRelayMutantForgets(r, t) ==
  /\ t.phase = "send" /\ t.status \in Aggregated
  /\ IsMyEvent(r)
  /\ ~AlreadyDone(t)
  /\ ~IsPrimary(r, t.req) /\ t.aggregated
  /\ Replace(r, t, {})
  /\ UNCHANGED pool

\* The same, when it is not the primary and looks again later.
DeferRelay(r, t) ==
  /\ t.phase = "send" /\ t.status \in Aggregated
  /\ IsMyEvent(r)
  /\ ~AlreadyDone(t)
  /\ ~IsPrimary(r, t.req) /\ t.aggregated
  /\ Replace(r, t, {[t EXCEPT !.phase = "call"]})
  /\ UNCHANGED pool

\* A popped event for which there is nothing to send.
DropTask(r, t) ==
  /\ t.phase = "send"
  /\ \/ ~IsMyEvent(r)
     \/ t.status = FAILED /\ t.req \notin Inbound
     \/ t.status \in Aggregated /\ AlreadyDone(t)
  /\ Replace(r, t, {})
  /\ UNCHANGED pool

\* ChainRequestedEvent.handle_call_result: did the request find its quorum?
CheckVoting(r, t) ==
  /\ t.phase = "call" /\ t.status = REQUESTED
  /\ Replace(r, t, IF Cardinality(Voters(t.req, REQUESTED)) >= Quorum
                   THEN {} ELSE AfterFail(t))
  /\ UNCHANGED pool

\* Mutant: the relay of the primary is taken for granted.
CheckRelayMutantTrusts(r, t) ==
  /\ t.phase = "call" /\ t.status \in Aggregated
  /\ Replace(r, t, {})
  /\ UNCHANGED pool

\* Mutant: aggregated is not cleared, so the relayer stays a secondary one.
CheckRelayMutantSecondary(r, t) ==
  /\ t.phase = "call" /\ t.status \in Aggregated
  /\ Replace(r, t, IF AlreadyDone(t) THEN {} ELSE {[t EXCEPT !.phase = "send"]})
  /\ UNCHANGED pool

\* _AggregatedRelayEvent.handle_call_result: has the primary relayed it?
CheckRelay(r, t) ==
  /\ t.phase = "call" /\ t.status \in Aggregated
  /\ Replace(r, t, IF AlreadyDone(t) THEN {}
                   ELSE {[t EXCEPT !.phase = "send", !.aggregated = FALSE]})
  /\ UNCHANGED pool

\* The event loop of one relayer pops an event.
Handle(r) ==
  /\ \E t \in tasks[r] :
       \/ SendVote(r, t)
       \/ SendRelay(r, t)
       \/ DeferRelay(r, t)
       \/ DropTask(r, t)
       \/ CheckVoting(r, t)
       \/ CheckRelay(r, t)
  /\ UNCHANGED <<chainVars, seen, boots, block, round, faults>>

-----------------------------------------------------------------------------
(* Transactions and their receipts. *)

\* The events of the sender that wait for this transaction.  A transaction of
\* an earlier run of the process, or one given up on, has none.
Awaiting(tx) ==
  {t \in tasks[tx.by] : /\ t.phase = "wait"
                        /\ t.req = tx.req /\ t.status = tx.msg
                        /\ boots[tx.by] = tx.boot}

Resolve(tx, successors) ==
  tasks' = [tasks EXCEPT ![tx.by] = (@ \ Awaiting(tx)) \union successors]

Succeed(tx) == Resolve(tx, UNION {AfterSuccess(t) : t \in Awaiting(tx)})
Fail(tx)    == Resolve(tx, UNION {AfterFail(t) : t \in Awaiting(tx)})

\* The transaction gets into a block and its sender reads the receipt.
Land(tx) ==
  /\ pool' = pool \ {tx}
  /\ \/ /\ Accepts(tx)
        /\ ExecutePoll(tx)
        /\ Succeed(tx)
     \/ /\ ~Accepts(tx)
        /\ UNCHANGED chainVars
        /\ Fail(tx)
  /\ UNCHANGED <<seen, boots, block, round, faults>>

\* The transaction fails for a reason of its own: out of gas, nonce, node.
Lose(tx) ==
  /\ faults < MaxFaults
  /\ faults' = faults + 1
  /\ pool' = pool \ {tx}
  /\ Fail(tx)
  /\ UNCHANGED <<chainVars, seen, boots, block, round>>

\* The receipt does not arrive in time; the transaction may still do.
NoReceipt(tx) ==
  /\ faults < MaxFaults
  /\ Awaiting(tx) # {}
  /\ faults' = faults + 1
  /\ Fail(tx)
  /\ UNCHANGED <<chainVars, seen, boots, block, round, pool>>

-----------------------------------------------------------------------------
(* Restarts and rounds. *)

\* Mutant: a request of the oldest round that counts is too late.
BootstrappedMutantLimit(r, first) ==
  LET recent == {e \in events : e.round >= first}
      Kept(e) ==
        /\ IsLatest(e.req \in Inbound, e.status,
                    {o.status : o \in {x \in recent : x.req = e.req}})
        /\ e.status \notin Final
        /\ round - HistoryLimit < 0
        /\ r \in FastRelayers => e.status = ACCEPTED
  IN {NewTask(e.req, e.status) : e \in {x \in recent : Kept(x)}}

\* bootstrap keeps of a request its latest event in the rounds scanned, unless
\* the request is finalized or too old; a fast relayer keeps ACCEPTED only.
Bootstrapped(r, first) ==
  LET recent == {e \in events : e.round >= first}
      Kept(e) ==
        /\ IsLatest(e.req \in Inbound, e.status,
                    {o.status : o \in {x \in recent : x.req = e.req}})
        /\ e.status \notin Final
        /\ round - HistoryLimit <= 0
        /\ r \in FastRelayers => e.status = ACCEPTED
  IN {NewTask(e.req, e.status) : e \in {x \in recent : Kept(x)}}

\* Some request of the rounds scanned has no status that is ranked.
BootstrapRaises(first) ==
  \E q \in {e.req : e \in {x \in events : x.round >= first}} :
    LatestRaises(q \in Inbound,
                 {o.status : o \in {x \in events : x.round >= first /\ x.req = q}})

\* The process stops, losing its queue, and starts again.  It scans the chains
\* from the height of Offset rounds ago, somewhere inside that round.  An
\* exception in bootstrap ends the start, and nothing is queued.
Restart(r) ==
  /\ boots[r] < MaxRestarts
  /\ boots' = [boots EXCEPT ![r] = @ + 1]
  /\ \E first \in {round - Offset, round - Offset + 1} :
       tasks' = [tasks EXCEPT ![r] = IF BootstrapRaises(first) THEN {}
                                     ELSE Bootstrapped(r, first)]
  /\ seen' = [seen EXCEPT ![r] = events]
  /\ UNCHANGED <<chainVars, block, round, pool, faults>>

\* Bifrost enters the next round.
NextRound ==
  /\ round < MaxRound
  /\ round' = round + 1
  /\ UNCHANGED <<chainVars, relayerVars, block, pool, faults>>

-----------------------------------------------------------------------------
Init ==
  /\ bifrost = [q \in Requests |-> IF q \in Inbound THEN NONE ELSE REQUESTED]
  /\ external = [q \in Requests |-> IF q \in Inbound THEN REQUESTED ELSE NONE]
  /\ polls = [q \in Requests |-> {}]
  /\ events = [req : Requests, status : {REQUESTED}, round : {0}]
  /\ block \in [Requests -> Blocks]
  /\ round = 0
  /\ seen = [r \in Relayers |-> {}]
  /\ tasks = [r \in Relayers |-> {}]
  /\ boots = [r \in Relayers |-> 0]
  /\ pool = {}
  /\ faults = 0

Next ==
  \/ \E r \in Relayers : Detect(r) \/ Handle(r) \/ Restart(r)
  \/ \E tx \in pool : Land(tx) \/ Lose(tx) \/ NoReceipt(tx)
  \/ NextRound

Spec == Init /\ [][Next]_vars

\* The live relayers keep monitoring and popping events, and the chains keep
\* including transactions.  Nothing obliges a relayer outside Live to act.
Fairness ==
  /\ \A r \in Live : WF_vars(Detect(r)) /\ WF_vars(Handle(r))
  /\ WF_vars(\E tx \in pool : Land(tx))

FairSpec == Spec /\ Fairness

-----------------------------------------------------------------------------
(* Properties. *)

\* What became of a request on its destination chain ...
Outcome(q) ==
  LET status == IF q \in Inbound THEN bifrost[q] ELSE external[q]
  IN IF status \in {EXECUTED, ACCEPTED} THEN "executed"
     ELSE IF status \in {REVERTED, REJECTED} THEN "reverted"
     ELSE "pending"

\* ... and how it ended on its source chain.
Settlement(q) ==
  LET status == IF q \in Inbound THEN external[q] ELSE bifrost[q]
  IN IF status = COMMITTED THEN "committed"
     ELSE IF status = ROLLBACKED THEN "rollbacked"
     ELSE "open"

\* No signature is stored for an answer that the destination chain has not
\* given: what build_transaction_param_with_sig signs, the status plus two,
\* is backed by what happened to the request.
CertificateSound ==
  \A q \in Requests :
    /\ Signers(q, REJECTED) # {} => Outcome(q) = "reverted"
    /\ q \in Inbound /\ Signers(q, ACCEPTED) # {} => Outcome(q) = "executed"

\* The pairs of statuses <<on Bifrost, on the external chain>> that an inbound and an
\* outbound request go through.
InboundPairs ==
  ({NONE, EXECUTED, REVERTED, ACCEPTED, REJECTED} \X {REQUESTED})
    \union {<<ACCEPTED, COMMITTED>>, <<REJECTED, ROLLBACKED>>}

OutboundPairs ==
  {<<REQUESTED, NONE>>, <<ACCEPTED, NONE>>, <<ACCEPTED, EXECUTED>>,
   <<ACCEPTED, REVERTED>>, <<COMMITTED, EXECUTED>>, <<ROLLBACKED, REVERTED>>}

\* The two contracts never see each other, and move only by the relayers' votes and
\* relays; yet neither runs ahead of the other or answers what the other did not do.
ChainsInStep ==
  \A q \in Requests :
    <<bifrost[q], external[q]>> \in IF q \in Inbound THEN InboundPairs ELSE OutboundPairs

\* Events come in the order that extract_latest_event_status goes by, although they
\* come from two chains: a new one is the latest of its request, so bootstrap picks
\* the newest, and the round of the block does not matter.
NewestIsLatest ==
  [][\A e \in events' \ events :
       IsLatest(e.req \in Inbound, e.status,
                {o.status : o \in {x \in events' : x.req = e.req}})]_vars

Request == INSTANCE RbcRequest WITH
  outcome    <- [q \in Requests |-> Outcome(q)],
  settlement <- [q \in Requests |-> Settlement(q)]

\* Whatever is lost, late or repeated, and whoever relays, a request takes only
\* the steps of RbcRequest: the relayers' votes and relays give it one outcome,
\* and then the settlement that fits it.
ImplementsRequest == Request!Spec

\* Every request is settled, although relayers outside Live stop, transactions
\* are lost and relayers restart: the votes, the primary's relay, the relays
\* of the others after handle_call_result and bootstrap see to it.
Settles == \A q \in Requests : <>(Settlement(q) # "open")

\* The live relayers finish: no event is passed between "send" and "call", or
\* turned from one status into another, for ever.
Quiesces == \A r \in Live : <>[](tasks[r] = {})

\* The latest event of a request, if it is one that r acts on, in a round that
\* is scanned to the end, and neither final nor too late.
Unfinished(r, q) ==
  LET mine == {e \in events : e.req = q}
  IN {e \in mine : /\ IsLatest(q \in Inbound, e.status, {o.status : o \in mine})
                   /\ e.status \in Handled(r) \ Final
                   /\ e.round > round - Offset
                   /\ round <= HistoryLimit}

\* A restart forgets no request that still needs this relayer: of the latest
\* events, bootstrap drops those of finalized requests ("remove finalized event
\* objects") and the late ones ("remove too late event"), and nothing else.
BootstrapDropsOnlyLate ==
  [][\A r \in Relayers : boots'[r] > boots[r] =>
       \A q \in Requests : \A e \in Unfinished(r, q) :
         \E t \in tasks'[r] : t.req = q /\ t.status = e.status]_vars

-----------------------------------------------------------------------------
(* The inductive invariant behind the safety properties. *)

\* The outcome that an event or a message with this status speaks of.
Claims(q, status) ==
  /\ status = EXECUTED => Outcome(q) = "executed"
  /\ status = REVERTED => Outcome(q) = "reverted"

\* Every EXECUTED or REVERTED that travels is true: in an event, in a queue
\* (even if the event has been cloned with another status) and in a message.
EventsTrue == \A e \in events : Claims(e.req, e.status)
TasksTrue  == \A r \in Relayers : \A t \in tasks[r] : Claims(t.req, t.status)

\* No event has a status on which extract_latest_event_status would raise.
EventsRanked == \A e \in events : e.status \in Ranked(e.req \in Inbound)

\* A vote in flight is true and signs what its class signs.
VoteSound(tx) ==
  /\ tx.msg \in Voted
  /\ Claims(tx.req, tx.msg)
  /\ tx.sig = SignedStatus(tx.req, tx.msg)
  /\ tx.msg = FAILED => tx.req \in Inbound

\* A relay in flight carries signatures that Bifrost has stored.
RelaySound(tx) == tx.cert \subseteq Signers(tx.req, tx.msg)

PoolSound ==
  \A tx \in pool : IF tx.msg \in Aggregated THEN RelaySound(tx) ELSE VoteSound(tx)

\* Everything the relayers hold or have sent is backed by the chains: the
\* invariant that makes CertificateSound and the refinement inductive.
IInv ==
  TypeOK /\ EventsTrue /\ EventsRanked /\ TasksTrue /\ PoolSound /\ CertificateSound

\* One of the contracts has this status for q, or has moved on from it.
Reached(q, s) ==
  \E now \in {bifrost[q], external[q]} :
    now = s \/ \E msg \in Status : now \in Moves(q, msg, s)

\* What is relayed was an event, except the REJECTED that an outbound relay turns
\* into when it fails.
RelayReached(q, s) ==
  s = ACCEPTED \/ (s = REJECTED /\ q \in Inbound) => Reached(q, s)

EventsReached ==
  \A e \in events : \/ e.status = REQUESTED
                    \/ e.status # NONE /\ Reached(e.req, e.status)
TasksReached  == \A r \in Relayers : \A t \in tasks[r] : RelayReached(t.req, t.status)
PoolReached   == \A tx \in pool : RelayReached(tx.req, tx.msg)

\* The invariant that makes ChainsInStep inductive.
StepIInv == IInv /\ ChainsInStep /\ EventsReached /\ TasksReached /\ PoolReached
=============================================================================
