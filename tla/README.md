# A TLA+ model of the Bifrost relayer

The relayer carries cross-chain requests and lists of relayers between the
Bifrost network and external chains (Ethereum, Binance, Matic, ...). Many
relayers run the same program; the Socket contracts count their votes and check
their signatures. This directory holds TLA+ modules that model the relayer, TLC
configurations that check them on small instances, and proofs for TLAPS.

## The system

| Component | Code | State | Operations | Talks to |
|---|---|---|---|---|
| Socket events | `rbclib/events/rbc_event.py` | an event object per status of a request: data, block number, send/call role, time lock, `aggregated` | `build_transaction_params`, `build_call_transaction_params`, `handle_call_result`, `handle_tx_result_*`, `bootstrap` | Socket contracts (poll, get_request, get_signatures), index cache, queue |
| Event status helpers | `rbclib/utils.py`, `rbclib/primitives/chain.py` | none | `sort_by_event_status`, `extract_latest_event_status` | used by `bootstrap` |
| Round-ups | `rbclib/periodic/vsp_feed.py`, `rbclib/events/roundup_event.py` | `current_round`; an event object per RoundUp event and chain | `VSPFeed.build_transaction_params` each minute; `RoundUpEvent.build_transaction_params`, `bootstrap` | Socket and authority contracts, index cache, queue |
| Start-up | `relayer/relayer.py` | `round_cache`, index cache, `latest_height` of each chain | `run_relayer`, `register_relayer_auth`, `determine_latest_heights_for_each_chain` | Bifrost and external nodes |
| Height search | `rbclib/utils.py` | the interval of the search | `find_height_by_timestamp`, `binary_search` | external nodes |
| View calls | `rbclib/utils.py` | none | `fetch_*`, `is_*` | contracts |
| Submits | `rbclib/submits.py` | list of signatures | `merge_sigs`, `_sort_sigs`, `submit_tuple` | used by the events |
| Periodic events: heartbeat, price oracle (and a bitcoin hash oracle that is not registered) | `rbclib/periodic/` | time lock, period, `delayed` | `clone_next`, `build_transaction_params`: one transaction per pop at most | authority and oracle contracts, web, Bitcoin client |
| Encodings | `rbclib/primitives/` | none | bytes to enum and back | used everywhere |
| Metrics | `rbclib/metric.py` | Prometheus counters and gauges | `exporting_*` | called by the events |
| Launcher, configuration | `relayer-launcher.py`, `relayer/global_config.py` | role, delays, network | choice of role, files and event classes | start-up |
| Event bridge (chainpy) | outside the repository | priority queue by time lock, monitors, receipts, index cache | pops events, calls the methods above, sends transactions | everything |
| Contracts | outside the repository | status, votes and signatures of each request; relayers of each round | poll, round_control_poll, round_control_relay | everything |

A request starts with a REQUESTED event on its source chain. **Inbound** (the
source is external): the selected relayers vote REQUESTED on Bifrost; with a
quorum Bifrost executes or reverts it and emits EXECUTED or REVERTED; the
relayers vote for that with a signature over the next status, ACCEPTED or
REJECTED; with a quorum Bifrost emits that event, and now one relayer carries
the signatures to the external chain, which emits COMMITTED or ROLLBACKED.
**Outbound**: the signatures are collected with the REQUESTED votes, ACCEPTED is
relayed to the external chain, which executes or reverts, and the votes for
EXECUTED or REVERTED settle the request on Bifrost. A relayer whose REQUESTED
vote fails votes FAILED (inbound), one whose outbound relay fails goes on with a
REJECTED event. The *primary* relayer, picked by block number, relays at once;
the others look at the external chain later and relay if it has not happened.
*Slow* relayers wait longer, the *fast* one only relays and is always primary.

What is hard: votes and relays of several relayers in any order; stale reads (the
primary is picked by the number of relayers now, the request is of an earlier
round); transactions that fail, or whose receipt is late though they do land;
restarts, after which the queue is rebuilt from the chains' logs; the index cache
that three components fill; periodic events that remember nothing of what they
have sent, and transactions that are late or lost; options, files and
enumerations that each choose a network by themselves. `PROJECT.json` lists these hazards line by line with
the properties that cover them.

What makes the components correct: a request is settled once, in the way that
fits its outcome, whatever happens; it is settled although relayers stop, restart
or lose transactions; stored signatures speak the truth; the queues run empty; a
start scans from early enough a block, and finds one where there is one; external chains only
get lists of relayers that the previous relayers signed, and do get them; a relay
carries its signatures in the order that the contract demands; selected relayers
send their heartbeat in each session and fresh prices, and do not flood Bifrost
with them; a start takes the configuration that the documentation names.

## Modules

| Module | Contents |
|---|---|
| `ChainEventStatus` | statuses of requests, the order that picks the latest, and the statuses that have none |
| `RbcRelay` | the relayers, their Socket events and the two Socket contracts; properties and inductive invariant |
| `RbcRequest` | abstract specification of a request: one outcome, then the settlement that fits |
| `RbcRelayProofs` | type correctness, the inductive invariant, `CertificateSound`, refinement of `RbcRequest`, `BootstrapDropsOnlyLate` |
| `RbcOrderProofs` | the second invariant, `ChainsInStep`, `NewestIsLatest` |
| `RoundUp` | VSPFeed, RoundUpEvent, the index cache and the contracts' round methods |
| `Handover` | abstract specification of `RoundUp`: lists are endorsed round by round and taken over |
| `RoundUpProofs` | type correctness, the inductive invariant, `Endorsed`, refinement of `Handover` |
| `PeriodicEvents` | heartbeat and price oracle in discrete time |
| `PeriodicEventsProofs` | type correctness, the inductive invariant, `InTime`, `FewUnderWay` |
| `Submits` | lists of signatures on their way from votes to relays |
| `Certificate` | abstract specification of `Submits`: a set of signers |
| `SubmitsProofs` | type correctness, the inductive invariant, `Complete`, `RelaysAccepted`, refinement of `Certificate` |
| `Launcher` | options, files, role and the phases of a start |
| `Metrics` | the gauge of incomplete requests on top of `RbcRelay` |
| `HeightSearch` | the search for the block to start scanning from |
| `HeightSearchProofs` | it starts in time, and gives up only where no block below the head fits |
| `MCRbcRelay`, `MCRoundUp`, `MCHeightSearch`, `MCPeriodicEvents`, `MCSubmits`, `MCMetrics` | values of function constants for TLC |

Operators whose names contain `Mutant` are deliberately wrong variants of the
definition that follows. They take no part in the specifications; each shows
that some property fails if the definition is replaced by the variant.

### RbcRelay

The contracts are two functions from requests to statuses (`bifrost`,
`external`), the counted votes (`polls`) and the emitted `events`. Each relayer
has a queue of `tasks`. A task is an event object: the request, the status its
class stands for, whether it is to be popped as a send or a call or waits for a
receipt (`phase`), and the attribute `aggregated`. Transactions are in a `pool`
until they get into a block.

`Handle` is one pop of the event loop: `SendVote`, `SendRelay`, `DeferRelay` and
`DropTask` are the outcomes of `build_transaction_params` over all classes,
`CheckVoting` and `CheckRelay` the two `handle_call_result` methods. `Submit`
includes the estimateGas that comes before sending: if it fails, the handler of
a failed transaction runs at once. `Land`, `Lose` and `NoReceipt` end in
`handle_tx_result_success`, `_fail` and `_no_receipt`; the receipt is read in the
same step as the block, except that `NoReceipt` leaves the transaction in the
pool, so that it may land after its sender has given it up. `Restart` empties
the queue and rebuilds it with `bootstrap` from the events of the window of
rounds. `extract_latest_event_status` raises an exception for an outbound request
of which only a FAILED or an unknown status is known (`Ranked` holds the statuses
it can answer for); then the start fails and the queue stays empty
(`BootstrapRaises`). `EventsRanked`, a part of `IInv`, says that there is no such
request.

Abstractions: delays and time locks are interleavings (an event may be popped at
any later time, so slow relayers are general ones); the payload of a request
beside its status is left out; a certificate is the set of its signers; all
requests are of round 0; messages to unsupported chains are left out.

The contracts are external. `InboundMoves` and `OutboundMoves` say how a message
with its quorum moves a request; each selected relayer has one vote per request
and message, and an external chain wants signatures of a quorum over the message.
Whether an execution succeeds is the contract's free choice.

### RoundUp

`CheckRound` and `BuildVote` are `VSPFeed.build_transaction_params` in a new round:
the round is read first, the list that is signed by a later view call, and the
round may change between the two (`reading` holds the first answer; no other
handler of this relayer runs meanwhile). A vote whose list is not that of its
round does not count. `Split`,
`SendRelay`, `Defer` and `Drop` are the paths through
`RoundUpEvent.build_transaction_params`. `known` is the set of rounds in the
index cache, which VSPFeed, `register_relayer_auth` and the Socket events
(`CheckMyEvent`) fill and `is_previous_relayer` asks. The contract counts one
vote per relayer and list and does not ask who votes: that only relayers of the
round before sign is what VSPFeed is for. `Handover` is what remains when relayers,
signatures and events are forgotten: `EndorsedRounds` are the rounds whose list has
its majority, and a chain goes forward to one of them. `NextRound` waits until the live
relayers have looked at the current round, since a round lasts for hours and
VSPFeed runs every minute.

### PeriodicEvents

`wait` is the time until each relayer's time lock, `Poll` one turn of the event
loop: `clone_next` for the next event, and `build_transaction_params`, of which
`HeartBeatDue` and `PriceDue` are the conditions. `Tick` lets time pass, but no event
is popped later than `Late` after its time lock, once the process runs, and no
transaction is in the pool for longer than `Inclusion`. How these delays compare
with the period is left open: a transaction may well take longer than a period.
`unserved` counts, from the start of the event loop, for how long Bifrost has been
without something it wants from a relayer.

The first time lock is a default argument of `__init__`, so it is the time at which
Python imported the module. By the time the event loop runs, it is overdue by the
whole start-up (`StartUps`: reading files, waiting for the node, the bootstrap), and
since `clone_next` counts from the old time lock, the process pops the missed
periods one after the other, before the first transaction is in a block. Nothing in
the code prevents that; `FewUnderWay` says how many transactions come of it.

The two events share no state, so a behaviour follows one of them, chosen in
`Init`. A process does not restart within a behaviour; each relayer starts with a
time lock of its own. The contract takes heartbeats and prices of selected relayers
only; whatever else it demands is left out.

### Submits and Certificate

A list of signatures has a `list` and a `size`, as `SocketSignature` has. A
signature does not name its signer; `Recover` gives the address that it has with
the message of the relaying event, which is another address if that is not the
message that was signed. `_sort_sigs` leaves a single signature alone, builds a
dictionary by address and sorts it.

The data of an event has two parts, `head` and `emitted`. For a poll, `head` is the
status of the Socket event that the relayers vote on. They sign that data with the
next status spliced in (`ChangeStatus`, `NextStatus`); the relayer that relays
recovers the signers with the data of another event, the one that the contract emits
when the votes have their quorum (`AggregatedData`); that both are the same is what
the numbering of the statuses is for. FAILED votes also sign, but are never relayed.
For a round-up, `head` is the round and `emitted` the list of addresses in any order:
`VSPFeed` signs the list that it has sorted, and `AggregatedRoundUpSubmit` sorts the
list of the event. The other contract takes signatures over the data that it is sent.

Addresses are numbers, which the contracts compare. The code sorts by the strings
`addr.hex()`, here `Hex`. `HexAssumption` says that the strings are in the order of the
numbers, as strings of hexadecimal digits in letters of one case are; `hex()` is
chainpy's, so the code does not show that it is so.
`Certificate` is what remains: a set of signers, and a chain that acts once, on the
signatures of a quorum. It justifies that `RbcRelay` and `RoundUp` treat
certificates as sets.

### Launcher and Metrics

`Launcher` goes through the phases of `run_relayer`; `Die` is any exception, after
which the container is started again. `SlowOption` and `TestnetOption` are true
whatever is given. `Metrics` adds the gauge to the steps of `RbcRelay` that change
it, and `PopFinal`, the final events, of which `RbcRelay` has no tasks since they
do nothing else.

### HeightSearch

One action per call of `binary_search`. Timestamps do not decrease with the height
(`BlockAssumption`); nothing is assumed of the gaps between blocks, nor of how far
the node has got: `wait_until_node_sync` looks at the Bifrost node only. If two
blocks are two windows (a minute) or more apart around the target, or the head is
older than it by a window, `binary_search` comes to call itself with the interval it
has got. `Raise` is the exception in which Python ends such a recursion, or the one
that `binary_search` raises itself; it ends the process, so a relayer whose external
node is behind does not come up. That is what the TODO at `relayer.py:123` leaves open
("check all supported chain"), and with a long gap between two blocks waiting would
not help either. `MissesOnlyHead` and `Finds` say when it happens: whenever a block
below the head is near enough, the search returns one. The search never looks at the
head before it gives up.

## Runs

`tlc -config X.cfg M` with the module that `PROJECT.json` names. Deadlock is
checked in `PeriodicEvents`, where time goes on for ever. It is not in the others: the
queues run empty, a search or a start ends, and the bounds on rounds, faults and
restarts end every behaviour.

| Run | Instance | Properties | Shows |
|---|---|---|---|
| `RbcInboundFaults` | 2 relayers, quorum 1, and a fast one that may stop; one lost transaction or receipt | `ChainsInStep`, `Settles`, `Quiesces`, `ImplementsRequest` | the two contracts stay in step; the secondary relay, the FAILED path, late landings; nobody relies on the fast relayer, and its relays disturb nobody |
| `RbcOutboundFaults` | 2 relayers, quorum 1, either is primary, one lost transaction or receipt | `StepIInv`, `Settles`, `Quiesces` | the REJECTED path of a failed relay, and the invariant behind `ChainsInStep` |
| `RbcInboundRestarts`, `RbcOutboundRestarts` | 2 of 3 selected relayers run, quorum 2, one restart each, two rounds, no relayer is primary in the first | `Settles`, `ImplementsRequest`, `CertificateSound` (inbound), `IInv`, `BootstrapDropsOnlyLate`, `NewestIsLatest` (outbound) | all orders of votes and relays: signatures are true, events come in the order of `extract_latest_event_status`, the request takes the steps of `RbcRequest` only, and `bootstrap` finds all that is left to do, although both votes are needed |
| `RbcFastBootstrap` | 1 relayer and a fast one that restarts | `BootstrapDropsOnlyLate` violated | the first finding below |
| `HeightSearch` | all chains of 5 blocks up to five time units apart (a window is two), all wanted times, also later than the head | `IInv`, `StartsInTime`, `MissesOnlyHead`, `Finds` | the height found is one from which no event is missed; the search gives up only where no block below the head is near enough, and ends where there is one |
| `RoundUpRotating` | relayers a, b, c; two are selected and one changes, three rounds, majority 2 | `IInv`, `Endorsed`, `ImplementsHandover`, `Synced` | two changes in a row, also in the middle of a vote, with relays of both lists under way at once |
| `RoundUpFaults` | majority 1, one lost transaction, one restart each; the first relayer runs in the fast role and may stop | `Synced` | a lost vote or relay, the secondary relay; start-up rebuilds cache, round and queue; neither the primary nor the fast relayer is needed |
| `Submits` | 4 relayers, 2 of which relay, quorum 2; votes for REQUESTED, EXECUTED and REVERTED, and lists of addresses in every order; one lost relay | `IInv`, `Complete`, `RelaysAccepted`, `ImplementsCertificate` | what is signed is what is recovered with and sent; relays are complete and in order, none is refused unless another came first, and a quorum is enough |
| `PeriodicEvents` | 2 relayers, one of them selected in some sessions only; period 3, pops up to 1 late, inclusion up to 4, sessions of 7, start-ups of 0 or 7, two lost transactions | `IInv`, `InTime`, `FewUnderWay` | heartbeats and prices in time, although transactions overtake one another and are lost, and no more under way than the backlog of the start and the inclusion explain |
| `Launcher` | all subsets of the options -s -f -t -c -a, two starts | `InjectsDocumentedFiles` violated | the second finding below |
| `Metrics` | 2 relayers, quorum 1, one inbound request, no faults | `GaugeAsDocumented` violated | the third finding below |

**Bounds.** Requests do not interact: no action reads the state of another one
than its own, so one request shows what many do. A quorum of 2 of 3 makes each
certificate need two relayers and leaves one to disagree; with a quorum of 1 two
relayers are enough for a primary and a secondary one. Two rounds are enough for
the number of relayers to change once between request and relay. `HistoryLimit`
and `Offset` are 1 and 2 for RbcRelay, 2 and 1 for RoundUp (6 and 5 in `consts.py`)
so that rounds at the limit of history occur; the scan reaches back over all rounds
of these runs, so `Offset` never cuts anything off there (`BootstrapForgetsNothing` is
proved for every offset). `Blocks` picks the primary. In PeriodicEvents inclusion
takes longer than a period and the longest start misses two periods and more, a
session has two periods and a tick, and different committees overlap in one relayer. Faults and restarts
are bounded by constants; one of each per run keeps the runs within minutes,
and the proofs have no bound.

**Fairness.** A relayer in `Live` keeps detecting and popping events, and the
chains keep including transactions (weak fairness of `Detect`, `Handle`,
`CheckRound`, `BuildVote`, `Relay`, `Land`): the event bridge polls in a loop, and a
queued event is popped once its time lock has run out. A search runs to its end (weak
fairness of `Next` in HeightSearch): nothing else happens in the process meanwhile. Weak fairness of `Handle` says that a
relayer with a non-empty queue keeps popping, not that every event gets its
turn by itself; the queues are small and each event leaves its phase. Relayers
outside `Live` may stop at any moment; no fairness is asked of faults, restarts
and rounds. `Settles` with quorum 2 of 2 running relayers has no faults, because
a lost EXECUTED vote is not repeated until a restart: `RbcInboundFaults` has
quorum 1 for that reason, and `RoundUpFaults` majority 1 likewise.

**Findings.** 1. `rbc_event.py:268` compares a status with the class
`ChainEventStatus` instead of `ChainEventStatus.REJECTED`, so the bootstrap of a
fast relayer drops REJECTED events too. Run `RbcFastBootstrap` shows a request
that is reverted, REJECTED, and forgotten at the restart. Ordinary relayers, for
whom `RbcOutboundRestarts` checks the same property, are not affected, and they
settle the request. At this commit the fast option cannot be used from the command
line, as the second finding says.

2. `relayer-launcher.py:126` lets `--testnet` default to true, so that the files of
`configs-testnet/` are read whatever is given, while `chain.py:74` takes the chain
ids of the testnet only if the option stands in `sys.argv`. README.md:145-147 names
the files of `configs/`. Run `Launcher` shows a start with the files of the one
network and the chain ids of the other. In the container only `configs/` is
mounted: there the private file is missing, and the process dies at every start.
`--slow-relayer` is on in the same way (:124), so that the fast option always ends
in the exception of `determine_relayer_role`.

3. The comment at `metric.py:32` says that the gauge counts the events discovered.
The code counts an event when this relayer's own vote succeeds. Run `Metrics` shows
a relayer whose vote comes after the other's has moved the request: the gauge
misses its 2, though nobody has restarted and nothing is lost.

## Proofs

All theorems hold for every value of the constants that satisfies the named
assumptions (`ConstantsAssumption`, `RoundUpAssumption`, `SearchAssumption`,
`BlockAssumption`, `PeriodicAssumption`, `SubmitsAssumption`, `HexAssumption`). Those of
`PeriodicAssumption`, `ConstantsAssumption`, `RoundUpAssumption`, `SearchAssumption` and
`SubmitsAssumption` say of what kind the constants are; `BlockAssumption` and
`HexAssumption` are explained above.

* **RbcRelay.** `CertificateSound` is not inductive: a vote is counted because
  it was sent, and was sent because an event was in the queue. `IInv` adds that
  every EXECUTED or REVERTED event emitted (`EventsTrue`) or queued
  (`TasksTrue`) is true, that events have statuses for which
  `extract_latest_event_status` has an answer (`EventsRanked`), and that each transaction in the pool signs what its
  class signs and carries only stored signatures (`PoolSound`). Outcomes never
  change once given, so true events stay true. `Soundness` proves `IInv`;
  `CertificatesAreSound` and `RelayImplementsRequest` follow. In the refinement,
  only `Land` changes outcome or settlement: a counted vote executes or reverts
  an inbound request and settles an outbound one, an applied relay the other way
  round; all other steps stutter. `BootstrapForgetsNothing` proves
  `BootstrapDropsOnlyLate` where there is no fast relayer (with one it is violated,
  as the first finding shows): wherever in the first round the scan begins, the
  latest event of a request is still the latest of those scanned.
* **RbcRelay, the order of events.** `ChainsInStep` lists the pairs of statuses that
  the two contracts go through, which never ask each other. It is not inductive: that
  Bifrost has moved before the external chain does is due to the relays, which are
  made from events. `StepIInv` adds that what is in the queues and in the pool has been
  reached (`EventsReached`, `TasksReached`, `PoolReached`): a contract has that status
  or the one that follows. The exception is the REJECTED that a failed outbound relay
  turns into; its relay is not taken, because by `CertificateSound` nobody has signed it.
  `ChainsStep` shows that a step moves no request or one by one move, `StepInvariant`
  proves `StepIInv`, and `ContractsStayInStep` and `NewestEventIsLatest` follow, the
  latter because each move outranks all statuses reached before.
* **RoundUp.** `Endorsed` needs that stored signatures and votes in flight are by
  relayers of the round before (`VotesOwn`) and that relays carry stored
  signatures (`CertsStored`); then a certificate that the external chain accepts
  is a subset of the endorsers. For the refinement of `Handover`, `VotesBegun` says
  that signatures are made after their round has begun, also by a relayer that
  restarts with the round of a chain that is behind. `NextRound` maps to `Begin`, a
  counted vote to `Endorse` or a stutter, an accepted relay to `TakeOver`, everything
  else stutters.
* **Submits.** `SameData` shows that the data that is relayed is the data that was
  signed, for each status and for the lists. The invariant is `TypeOK` (every signature is over the message),
  `OncePerSigner` (Bifrost stores one of each relayer) and `Complete`. The dictionary
  of `_sort_sigs`, modelled by the places of the signatures it holds, then holds the
  place of each signature, and `sorted` makes a list of the same length with the same
  members. Induction over lists is not needed: the k-th item is the one with k
  addresses up to its own, and `PlacesSort` shows that in a finite set with different
  keys there is one item at each place and that the items by place are the set sorted.
  `RelaysComplete`, `NoRelayRefused` and `ImplementsCertificateSafety` follow; the last
  is the safety part of `ImplementsCertificate`. That the order of strings is
  that of numbers is `HexOrder`. What `sorted` does to the addresses of
  the event (`Sorted`) is not opened: the proofs need only that signing and recovering
  use the same list.
* **PeriodicEvents.** `FewUnderWay` needs `Spaced`: each transaction was sent a period
  after the one before it, as the time locks count, and a time lock is never overdue by
  more than the backlog. `InTime` needs `Served`: a relayer that has not got what it waits
  for either has a transaction under way, sent within the allowance, or its next poll is
  within the allowance; a lost transaction adds a period to it, also to those sent after
  it. `LateAtStartOnly` says that only a start leaves time locks overdue by more than
  `Late`, when Bifrost has not waited yet. All rest on `clone_next` counting from the
  old time lock. `Inductive` proves `IInv` for every period, delay, start-up time, set of
  relayers and number of faults.
* **HeightSearch.** The invariant: the parameters are in order, the front block is not a
  window after the target, and the rear block is at least a window after it or is the
  head of the chain. So a search that repeats its interval has a front block that is too
  old, with the rear one height above it at most: nothing is between them, and since
  timestamps do not decrease, no block below the head is near enough
  (`RaisesOnlyAtHead`). `ScanStartsInTime` follows from the margin of a window.

Only model-checked: the liveness properties (`Settles`, `Quiesces`, `Synced`, `Finds`,
and `Acts` of `Certificate`, the second half of `ImplementsCertificate`), which need
fairness and ENABLED. Every invariant and every other action or refinement property of
a passing run is a theorem.

## Not modelled, and the plan

Possible extension: a restart of a relayer in the middle of a behaviour of `PeriodicEvents`.

Left out:

* `RBCMethodV1`, chain identifiers, symbols and oracle identifiers to bytes and back:
  enumerations and conversions without state. Methods are only decoded to be read,
  and the part of the encoding that decides anything, the numbers of the statuses,
  is in `ChainEventStatus`.
* Logging, HTTP and RPC, the aggregation of prices in chainpy, the check of the
  configuration files, keys and delays in them.
* The gauges that only copy a value, and the counter that goes up where the gauge of
  incomplete requests changes.
* `BtcHashUpOracle`: it does not run at this commit. The launcher does not register it
  (`relayer-launcher.py:34-36`, "TODO: Back to code after fix btc hash oracle"), and its
  module cannot be imported, since it takes names from `rbclib.primitives`, whose
  `__init__.py` is empty.
* The unknowns of chainpy, which `PROJECT.json` lists as hazards without a property:
  the case of `addr.hex()`, and events that are delivered twice.
