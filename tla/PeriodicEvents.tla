--------------------------- MODULE PeriodicEvents ---------------------------
(***************************************************************************)
(* The periodic events of rbclib/periodic that feed Bifrost: heartbeat and *)
(* price oracle.  Each is an object with a time lock; when it has run out, *)
(* the event loop calls clone_next for the next one and                    *)
(* build_transaction_params, which sends one transaction at most.  Neither *)
(* remembers what it has sent: a transaction that is lost is made up for   *)
(* by a later period, and nothing but the time lock keeps an event from    *)
(* being sent again while the last one is under way.                       *)
(*                                                                         *)
(* The two share no state, so a behaviour follows one of them.  Time is    *)
(* discrete; Late and Inclusion bound the delays of the event loop and the *)
(* chain, and may well be longer than a period.  The contracts are         *)
(* external.                                                               *)
(***************************************************************************)
EXTENDS Integers, Sequences, SequencesExt

CONSTANTS
  Relayers,    \* the relayers, which all run
  Committees,  \* the sets of relayers that may be selected in a session
  Events,      \* the periodic events considered
  Period,      \* period_sec
  Late,        \* an event is popped at most this long after its time lock
  Inclusion,   \* time within which a transaction gets into a block
  StartUps,    \* time from the import of the modules to the event loop
  Backlog,     \* a time lock is never overdue by more
  Session,     \* least length of a session of Bifrost
  MaxFaults    \* bound on lost transactions

Kinds == {"heart_beat", "price"}

ASSUME PeriodicAssumption ==
  /\ Committees \subseteq SUBSET Relayers
  /\ Events \subseteq Kinds
  /\ Period \in Nat /\ Late \in Nat /\ Inclusion \in Nat
  /\ Backlog \in Nat /\ Late <= Backlog /\ StartUps \subseteq 0..Backlog
  /\ Session \in Nat /\ MaxFaults \in Nat

VARIABLES
  event,      \* the periodic event of this behaviour
  wait,       \* time that is left until each relayer's time lock
  selected,   \* the relayers selected in this session
  age,        \* time since the session began, Session at most
  pulsed,     \* the relayers whose heartbeat this session has got
  unserved,   \* time for which Bifrost has wanted something of each relayer
  pool,       \* ages of each relayer's transactions under way, oldest first
  faults      \* transactions lost so far

vars == <<event, wait, selected, age, pulsed, unserved, pool, faults>>

TypeOK ==
  /\ event \in Kinds
  /\ wait \in [Relayers -> (-Backlog)..Period]
  /\ selected \subseteq Relayers
  /\ age \in 0..Session
  /\ pulsed \subseteq Relayers
  /\ unserved \in [Relayers -> Nat]
  /\ pool \in [Relayers -> Seq(0..Inclusion)]
  /\ faults \in 0..MaxFaults

-----------------------------------------------------------------------------
(* The contracts (external). *)

\* Heartbeats and prices are accepted from selected relayers only.
Accepts(r) == r \in selected

\* What Bifrost would like to get from r: one heartbeat in each session, and
\* prices all the time.
Wanted(r) ==
  /\ r \in selected
  /\ \/ event = "price"
     \/ event = "heart_beat" /\ r \notin pulsed

\* heartbeat and oracle_aggregate_feeding.
Execute(r) ==
  /\ pulsed' = IF event = "heart_beat" THEN pulsed \union {r} ELSE pulsed
  /\ unserved' = [unserved EXCEPT ![r] = 0]

-----------------------------------------------------------------------------
(* The events. *)

\* Mutant: the milliseconds of the time lock are left alone, or as good as that,
\* because the period is added in seconds.
CloneNextMutantUnits(r) == wait' = wait

\* Mutant: the period starts when the event is popped.
CloneNextMutantDrift(r) == wait' = [wait EXCEPT ![r] = Period]

\* clone_next adds the period to the old time lock, not to the current time.
CloneNext(r) == wait' = [wait EXCEPT ![r] = @ + Period]

\* build_transaction_params of RelayerHeartBeat: once in a session.
HeartBeatDue(r) == event = "heart_beat" /\ r \notin pulsed

\* The one of PriceUpOracle: always, if the relayer is selected.
PriceDue(r) == event = "price" /\ r \in selected

\* A transaction is sent, unless estimateGas says that it would fail.
Sends(r) == (HeartBeatDue(r) \/ PriceDue(r)) /\ Accepts(r)

\* The event loop pops the event, whose time lock has run out.
Poll(r) ==
  /\ wait[r] <= 0
  /\ CloneNext(r)
  /\ pool' = IF Sends(r) THEN [pool EXCEPT ![r] = Append(@, 0)] ELSE pool
  /\ UNCHANGED <<event, selected, age, pulsed, unserved, faults>>

-----------------------------------------------------------------------------
(* The chains and time.  The handlers of results change nothing. *)

\* The i-th transaction of r gets into a block.
Land(r, i) ==
  /\ pool' = [pool EXCEPT ![r] = RemoveAt(@, i)]
  /\ \/ Accepts(r) /\ Execute(r)
     \/ ~Accepts(r) /\ UNCHANGED <<pulsed, unserved>>
  /\ UNCHANGED <<event, wait, selected, age, faults>>

Lose(r, i) ==
  /\ faults < MaxFaults
  /\ faults' = faults + 1
  /\ pool' = [pool EXCEPT ![r] = RemoveAt(@, i)]
  /\ UNCHANGED <<event, wait, selected, age, pulsed, unserved>>

\* A session begins, maybe with other relayers.
NewSession ==
  /\ age = Session
  /\ age' = 0
  /\ pulsed' = {}
  /\ selected' \in Committees
  /\ unserved' = [r \in Relayers |->
       IF event = "price" /\ r \in selected \intersect selected' THEN unserved[r] ELSE 0]
  /\ UNCHANGED <<event, wait, pool, faults>>

\* Time passes, unless an event or a transaction is due.
Tick ==
  /\ \A r \in Relayers : wait[r] > -Late
  /\ \A r \in Relayers : \A i \in DOMAIN pool[r] : pool[r][i] < Inclusion
  /\ wait' = [r \in Relayers |-> wait[r] - 1]
  /\ pool' = [r \in Relayers |-> [i \in 1..Len(pool[r]) |-> pool[r][i] + 1]]
  /\ age' = IF age < Session THEN age + 1 ELSE age
  /\ unserved' = [r \in Relayers |-> IF Wanted(r) THEN unserved[r] + 1 ELSE 0]
  /\ UNCHANGED <<event, selected, pulsed, faults>>

\* The first time lock is the default argument of __init__, the time at which
\* Python imported the module.  It is overdue by all that came since: reading the
\* files, waiting for the node, the bootstrap.
Init ==
  /\ event \in Events
  /\ wait \in [Relayers -> {-s : s \in StartUps}]
  /\ selected \in Committees
  /\ age = 0
  /\ pulsed = {}
  /\ unserved = [r \in Relayers |-> 0]
  /\ pool = [r \in Relayers |-> <<>>]
  /\ faults = 0

Next ==
  \/ \E r \in Relayers : Poll(r)
  \/ \E r \in Relayers : \E i \in DOMAIN pool[r] : Land(r, i) \/ Lose(r, i)
  \/ NewSession
  \/ Tick

Spec == Init /\ [][Next]_vars

-----------------------------------------------------------------------------
(* Properties. *)

\* The time that every lost transaction and the next poll may cost.
Allowance == (1 + faults) * Period

\* A selected relayer pulses soon in every session, and its prices are never
\* old: nobody waits for longer than a period, and another one for every lost
\* transaction.  The handlers retry nothing; the time locks, which clone_next
\* keeps in step, see to it.
InTime == \A r \in Relayers : unserved[r] <= Allowance + Late + Inclusion

\* Nothing keeps an event from being sent twice: a relayer catches up with the
\* time locks that it missed while it started, all at once.  But there are never
\* more transactions under way than the periods of that backlog and of the time
\* that the chain takes account for, and one.
FewUnderWay ==
  \A r \in Relayers : Period * (Len(pool[r]) - 1) <= Backlog + Inclusion

-----------------------------------------------------------------------------
(* The inductive invariant behind InTime and FewUnderWay. *)

\* Each transaction was sent a period after the one before it, as the time locks
\* count, and those are overdue by the backlog at most.
Spaced ==
  \A r \in Relayers : \A i \in DOMAIN pool[r] :
    wait[r] + pool[r][i] >= Period * (Len(pool[r]) - i + 1) - Backlog

\* Only the start of the process leaves time locks that are overdue by more than
\* Late, and then Bifrost has not waited yet.
LateAtStartOnly == \A r \in Relayers : wait[r] < -Late => unserved[r] = 0

\* Whoever is not served polls before the allowance is used up, or has a
\* transaction under way that was sent before that.
Served ==
  \A r \in Relayers :
    /\ unserved[r] > 0 => Wanted(r)
    /\ unserved[r] + wait[r] <= Allowance + Period * Len(pool[r])
    /\ \A i \in DOMAIN pool[r] :
         unserved[r] <= Allowance + Late + pool[r][i] + Period * (i - 1)

\* Time locks, ages and waiting times are in step.
IInv == TypeOK /\ Spaced /\ LateAtStartOnly /\ Served
=============================================================================
