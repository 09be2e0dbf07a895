--------------------------- MODULE RbcOrderProofs ---------------------------
(***************************************************************************)
(* Proofs about RbcRelay: the two contracts stay in step, and the events   *)
(* of a request come in the order of extract_latest_event_status.          *)
(***************************************************************************)
EXTENDS RbcRelayProofs

-----------------------------------------------------------------------------
(* The table of moves again: what may follow a status other than the first. *)

Follows(q) ==
  IF q \in Inbound
  THEN {<<EXECUTED, ACCEPTED>>, <<REVERTED, REJECTED>>}
  ELSE {<<ACCEPTED, COMMITTED>>, <<ACCEPTED, ROLLBACKED>>}

LEMMA MovesOn ==
  ASSUME NEW q, NEW s \in Status \ {NONE, REQUESTED}, NEW now
  PROVE  (\E msg \in Status : now \in Moves(q, msg, s)) <=> <<s, now>> \in Follows(q)
<1> USE DEF NONE, REQUESTED, FAILED, EXECUTED, REVERTED, ACCEPTED, REJECTED, COMMITTED,
            ROLLBACKED, Status
<1>1. ASSUME NEW msg \in Status, now \in Moves(q, msg, s)
      PROVE  <<s, now>> \in Follows(q)
  BY <1>1 DEF Moves, InboundMoves, OutboundMoves, Follows
<1>2. ASSUME <<s, now>> \in Follows(q)
      PROVE  \E msg \in Status : now \in Moves(q, msg, s)
  <2>1. CASE s \in {EXECUTED, REVERTED}
    <3>1. now \in Moves(q, s, s)
      BY <1>2, <2>1 DEF Moves, InboundMoves, Follows
    <3> QED
      BY <3>1
  <2>2. CASE s = ACCEPTED
    <3>1. now \in Moves(q, EXECUTED, s) \/ now \in Moves(q, REVERTED, s)
      BY <1>2, <2>2 DEF Moves, OutboundMoves, Follows
    <3>2. EXECUTED \in Status /\ REVERTED \in Status
      OBVIOUS
    <3> QED
      BY <3>1, <3>2
  <2> QED
    BY <1>2, <2>1, <2>2 DEF Follows
<1> QED
  BY <1>1, <1>2

-----------------------------------------------------------------------------
(* The steps of a request. *)

\* An inbound request moves to status s: on Bifrost, then on the external chain.
InboundStep(q, s) ==
  \/ /\ external[q] = REQUESTED /\ external'[q] = REQUESTED /\ bifrost'[q] = s
     /\ \/ bifrost[q] = NONE /\ s \in {EXECUTED, REVERTED}
        \/ bifrost[q] = EXECUTED /\ s = ACCEPTED
        \/ bifrost[q] = REVERTED /\ s = REJECTED
  \/ /\ external[q] = REQUESTED /\ external'[q] = s /\ bifrost'[q] = bifrost[q]
     /\ \/ bifrost[q] = ACCEPTED /\ s = COMMITTED
        \/ bifrost[q] = REJECTED /\ s = ROLLBACKED

\* An outbound request is accepted on Bifrost, answered on the external chain and
\* settled on Bifrost.
OutboundStep(q, s) ==
  \/ /\ external'[q] = external[q] /\ bifrost'[q] = s
     /\ \/ bifrost[q] = REQUESTED /\ external[q] = NONE /\ s = ACCEPTED
        \/ bifrost[q] = ACCEPTED /\ external[q] = EXECUTED /\ s = COMMITTED
        \/ bifrost[q] = ACCEPTED /\ external[q] = REVERTED /\ s = ROLLBACKED
  \/ /\ bifrost[q] = ACCEPTED /\ bifrost'[q] = ACCEPTED
     /\ external[q] = NONE /\ external'[q] = s /\ s \in {EXECUTED, REVERTED}

RequestStep(q, s) == IF q \in Inbound THEN InboundStep(q, s) ELSE OutboundStep(q, s)

\* A step leaves the contracts in step, forgets no status, reaches its own, and
\* outranks everything reached before.
LEMMA InboundStepEffect ==
  ASSUME NEW q \in Inbound, <<bifrost[q], external[q]>> \in InboundPairs,
         NEW s \in Status, InboundStep(q, s)
  PROVE  /\ <<bifrost'[q], external'[q]>> \in InboundPairs
         /\ s \notin {NONE, REQUESTED}
         /\ Reached(q, s)'
         /\ \A o \in Status \ {NONE, REQUESTED} :
              Reached(q, o) => Reached(q, o)' /\ Rank(TRUE, o) <= Rank(TRUE, s)
<1> USE DEF NONE, REQUESTED, EXECUTED, REVERTED, ACCEPTED, REJECTED, COMMITTED, ROLLBACKED
<1>1. <<bifrost'[q], external'[q]>> \in InboundPairs /\ s \notin {NONE, REQUESTED}
  BY DEF InboundPairs, InboundStep
<1>2. \A o \in Status \ {NONE, REQUESTED} :
        Reached(q, o) <=> \E now \in {bifrost[q], external[q]} :
                            now = o \/ <<o, now>> \in Follows(q)
  BY MovesOn DEF Reached
<1>3. \A o \in Status \ {NONE, REQUESTED} :
        Reached(q, o)' <=> \E now \in {bifrost'[q], external'[q]} :
                             now = o \/ <<o, now>> \in Follows(q)
  BY MovesOn DEF Reached
<1>4. ASSUME NEW o \in Status \ {NONE, REQUESTED}, Reached(q, o)
      PROVE  Reached(q, o)' /\ Rank(TRUE, o) <= Rank(TRUE, s)
  BY <1>2, <1>3, <1>4 DEF InboundStep, Follows, Rank, Status
<1>5. Reached(q, s)'
  BY <1>1, <1>3 DEF InboundStep
<1> QED
  BY <1>1, <1>4, <1>5

LEMMA OutboundRanks ==
  /\ OutboundRank[COMMITTED] = 7 /\ OutboundRank[ROLLBACKED] = 6
  /\ OutboundRank[EXECUTED] = 5 /\ OutboundRank[REVERTED] = 4
  /\ OutboundRank[ACCEPTED] = 3 /\ OutboundRank[REQUESTED] = 1
BY DEF OutboundRank, Ranked, Status, NONE, REQUESTED, FAILED, EXECUTED, REVERTED, ACCEPTED,
       REJECTED, COMMITTED, ROLLBACKED

LEMMA OutboundStepEffect ==
  ASSUME NEW q \in Requests \ Inbound, <<bifrost[q], external[q]>> \in OutboundPairs,
         NEW s \in Status, OutboundStep(q, s)
  PROVE  /\ <<bifrost'[q], external'[q]>> \in OutboundPairs
         /\ s \notin {NONE, REQUESTED}
         /\ Reached(q, s)'
         /\ \A o \in Status \ {NONE, REQUESTED} :
              Reached(q, o) => Reached(q, o)' /\ Rank(FALSE, o) <= Rank(FALSE, s)
<1> USE DEF NONE, REQUESTED, EXECUTED, REVERTED, ACCEPTED, REJECTED, COMMITTED, ROLLBACKED
<1>1. <<bifrost'[q], external'[q]>> \in OutboundPairs /\ s \notin {NONE, REQUESTED}
  BY DEF OutboundPairs, OutboundStep
<1>2. \A o \in Status \ {NONE, REQUESTED} :
        Reached(q, o) <=> \E now \in {bifrost[q], external[q]} :
                            now = o \/ <<o, now>> \in Follows(q)
  BY MovesOn DEF Reached
<1>3. \A o \in Status \ {NONE, REQUESTED} :
        Reached(q, o)' <=> \E now \in {bifrost'[q], external'[q]} :
                             now = o \/ <<o, now>> \in Follows(q)
  BY MovesOn DEF Reached
<1>4. ASSUME NEW o \in Status \ {NONE, REQUESTED}, Reached(q, o)
      PROVE  Reached(q, o)' /\ Rank(FALSE, o) <= Rank(FALSE, s)
  <2>1. Reached(q, o)'
    BY <1>2, <1>3, <1>4 DEF OutboundStep, Follows
  <2>2. \/ o = ACCEPTED /\ s \in {EXECUTED, REVERTED, COMMITTED, ROLLBACKED}
        \/ o \in {EXECUTED, REVERTED} /\ s \in {COMMITTED, ROLLBACKED}
    BY <1>2, <1>4 DEF OutboundStep, Follows
  <2> QED
    BY <2>1, <2>2, OutboundRanks DEF Rank
<1>5. Reached(q, s)'
  BY <1>1, <1>3 DEF OutboundStep
<1> QED
  BY <1>1, <1>4, <1>5

\* One request moves and the move is emitted.
OneStep(q, s) ==
  /\ RequestStep(q, s)
  /\ Emit(q, s)
  /\ \A p \in Requests \ {q} : bifrost'[p] = bifrost[p] /\ external'[p] = external[p]

LEMMA ReachedUnchanged ==
  ASSUME NEW q, NEW s, bifrost'[q] = bifrost[q], external'[q] = external[q]
  PROVE  Reached(q, s)' <=> Reached(q, s)
BY DEF Reached

\* The two directions together.
LEMMA RequestStepEffect ==
  ASSUME ChainsInStep, NEW q \in Requests, NEW s \in Status, RequestStep(q, s)
  PROVE  /\ <<bifrost'[q], external'[q]>> \in
              IF q \in Inbound THEN InboundPairs ELSE OutboundPairs
         /\ s \notin {NONE, REQUESTED}
         /\ Reached(q, s)'
         /\ \A o \in Status \ {NONE, REQUESTED} :
              Reached(q, o) =>
                Reached(q, o)' /\ Rank(q \in Inbound, o) <= Rank(q \in Inbound, s)
<1>1. CASE q \in Inbound
  <2>1. InboundStep(q, s) /\ <<bifrost[q], external[q]>> \in InboundPairs
    BY <1>1 DEF RequestStep, ChainsInStep
  <2>2. (q \in Inbound) = TRUE
    BY <1>1
  <2> QED
    BY <1>1, <2>1, <2>2, InboundStepEffect
<1>2. CASE q \notin Inbound
  <2>1. OutboundStep(q, s) /\ <<bifrost[q], external[q]>> \in OutboundPairs
    BY <1>2 DEF RequestStep, ChainsInStep
  <2>2. (q \in Inbound) = FALSE
    BY <1>2
  <2> QED
    BY <1>2, <2>1, <2>2, OutboundStepEffect
<1> QED
  BY <1>1, <1>2

LEMMA OneStepPreserves ==
  ASSUME TypeOK, ChainsInStep, EventsReached,
         NEW q \in Requests, NEW s \in Status, OneStep(q, s)
  PROVE  /\ ChainsInStep' /\ EventsReached'
         /\ \A p \in Requests, o \in Status : RelayReached(p, o) => RelayReached(p, o)'
<1>1. /\ <<bifrost'[q], external'[q]>> \in
           IF q \in Inbound THEN InboundPairs ELSE OutboundPairs
      /\ Reached(q, s)' /\ s # NONE
      /\ \A o \in Status \ {NONE, REQUESTED} : Reached(q, o) => Reached(q, o)'
  BY RequestStepEffect DEF OneStep
<1>2. \A p \in Requests \ {q} : bifrost'[p] = bifrost[p] /\ external'[p] = external[p]
  BY DEF OneStep
<1>3. ChainsInStep'
  BY <1>1, <1>2 DEF ChainsInStep
<1>4. \A p \in Requests, o \in Status \ {NONE, REQUESTED} : Reached(p, o) => Reached(p, o)'
  BY <1>1, <1>2, ReachedUnchanged
<1>5. \A p \in Requests, o \in Status : RelayReached(p, o) => RelayReached(p, o)'
  BY <1>4 DEF RelayReached, NONE, REQUESTED, ACCEPTED, REJECTED
<1>6. EventsReached'
  <2> SUFFICES ASSUME NEW e \in events'
               PROVE  \/ e.status = REQUESTED
                      \/ e.status # NONE /\ Reached(e.req, e.status)'
    BY DEF EventsReached
  <2>1. CASE e \in events
    BY <1>4, <2>1 DEF EventsReached, TypeOK, Event
  <2>2. CASE e = [req |-> q, status |-> s, round |-> round]
    BY <1>1, <2>2
  <2> QED
    BY <2>1, <2>2 DEF OneStep, Emit
<1> QED
  BY <1>3, <1>5, <1>6

-----------------------------------------------------------------------------
(* Executing a message makes one of these steps or none. *)

\* The claims of a vote tie the settlement of an outbound request to its outcome.
LEMMA VoteSteps ==
  ASSUME StepIInv, NEW tx \in pool, tx.msg \notin Aggregated, BifrostAccepts(tx), CountVote(tx)
  PROVE  \/ UNCHANGED <<bifrost, external, events>>
         \/ \E s \in Status : OneStep(tx.req, s)
<1> DEFINE q == tx.req
<1>1. /\ TypeOK /\ VoteSound(tx) /\ q \in Requests /\ tx.msg \in Voted
      /\ <<bifrost[q], external[q]>> \in IF q \in Inbound THEN InboundPairs ELSE OutboundPairs
  BY DEF StepIInv, IInv, PoolSound, VoteSound, TypeOK, Tx, ChainsInStep
<1>2. bifrost \in [Requests -> Status] /\ UNCHANGED external
  BY <1>1 DEF TypeOK, CountVote
<1>3. SUFFICES ASSUME NEW s \in Moves(q, tx.msg, bifrost[q]),
                      bifrost' = [bifrost EXCEPT ![q] = s], Emit(q, s)
               PROVE  OneStep(q, s) /\ s \in Status
  BY <1>2 DEF CountVote
<1>4. /\ bifrost'[q] = s /\ external'[q] = external[q] /\ s \in Status
      /\ \A p \in Requests \ {q} : bifrost'[p] = bifrost[p] /\ external'[p] = external[p]
  BY <1>1, <1>2, <1>3, MovesType
<1>5. CASE q \in Inbound
  <2>1. \/ bifrost[q] = NONE /\ s \in {EXECUTED, REVERTED}
        \/ bifrost[q] = EXECUTED /\ s = ACCEPTED
        \/ bifrost[q] = REVERTED /\ s = REJECTED
    BY <1>1, <1>5, InboundVoteMoves
  <2>2. external[q] = REQUESTED
    BY <1>1, <1>5, <2>1 DEF InboundPairs, NONE, EXECUTED, REVERTED, ACCEPTED, REJECTED
  <2> QED
    BY <1>3, <1>4, <1>5, <2>1, <2>2 DEF OneStep, RequestStep, InboundStep
<1>6. CASE q \notin Inbound
  <2>1. \/ bifrost[q] = REQUESTED /\ s = ACCEPTED
        \/ tx.msg = EXECUTED /\ bifrost[q] = ACCEPTED /\ s = COMMITTED
        \/ tx.msg = REVERTED /\ bifrost[q] = ACCEPTED /\ s = ROLLBACKED
    BY <1>1, <1>6, OutboundVoteMoves
  <2>2. <<bifrost[q], external[q]>> \in OutboundPairs
    BY <1>1, <1>6
  <2>3. CASE bifrost[q] = REQUESTED /\ s = ACCEPTED
    <3>1. external[q] = NONE
      BY <2>2, <2>3 DEF OutboundPairs, REQUESTED, ACCEPTED, COMMITTED, ROLLBACKED
    <3> QED
      BY <1>3, <1>4, <1>6, <2>3, <3>1 DEF OneStep, RequestStep, OutboundStep
  <2>4. CASE tx.msg = EXECUTED /\ bifrost[q] = ACCEPTED /\ s = COMMITTED
    <3>1. external[q] = EXECUTED
      BY <1>1, <1>6, <2>2, <2>4 DEF VoteSound, Claims, Outcome, OutboundPairs, NONE, EXECUTED,
                                    REVERTED, ACCEPTED, REJECTED, COMMITTED, ROLLBACKED
    <3> QED
      BY <1>3, <1>4, <1>6, <2>4, <3>1 DEF OneStep, RequestStep, OutboundStep
  <2>5. CASE tx.msg = REVERTED /\ bifrost[q] = ACCEPTED /\ s = ROLLBACKED
    <3>1. external[q] = REVERTED
      BY <1>1, <1>6, <2>2, <2>5 DEF VoteSound, Claims, Outcome, OutboundPairs, NONE, EXECUTED,
                                    REVERTED, ACCEPTED, REJECTED, COMMITTED, ROLLBACKED
    <3> QED
      BY <1>3, <1>4, <1>6, <2>5, <3>1 DEF OneStep, RequestStep, OutboundStep
  <2> QED
    BY <2>1, <2>3, <2>4, <2>5
<1> QED
  BY <1>5, <1>6

\* A certificate that the external chain takes has a signer.
LEMMA CertificateNotEmpty ==
  ASSUME NEW tx, ExternalAccepts(tx)
  PROVE  tx.cert # {}
<1>1. Cardinality({}) = 0 /\ Quorum \in Nat \ {0}
  BY FS_EmptySet, ConstantsAssumption
<1>2. Cardinality(tx.cert) >= Quorum
  BY DEF ExternalAccepts
<1>3. tx.cert = {} => 0 >= Quorum
  BY <1>1, <1>2
<1> QED
  BY <1>1, <1>3

\* Nobody has signed the REJECTED of an outbound request that is not reverted.
LEMMA NoOutboundRejection ==
  ASSUME StepIInv, NEW tx \in pool, tx.msg = REJECTED, tx.req \notin Inbound,
         ExternalAccepts(tx)
  PROVE  FALSE
<1>1. tx.msg \in Aggregated /\ tx.req \in Requests
  BY DEF StepIInv, IInv, TypeOK, Tx, Aggregated
<1>2. Signers(tx.req, REJECTED) # {}
  BY <1>1, CertificateNotEmpty DEF StepIInv, IInv, PoolSound, RelaySound
<1>3. Outcome(tx.req) = "reverted"
  BY <1>1, <1>2 DEF StepIInv, IInv, CertificateSound
<1>4. external[tx.req] # NONE
  BY <1>3 DEF Outcome, NONE, EXECUTED, REVERTED, ACCEPTED, REJECTED
<1>5. PICK to \in Status : to \in Moves(tx.req, tx.msg, external[tx.req])
  BY MovesType DEF ExternalAccepts
<1> QED
  BY <1>1, <1>4, <1>5, OutboundRelayMoves

\* A relay follows an event of Bifrost, so Bifrost has moved before.
LEMMA RelaySteps ==
  ASSUME StepIInv, NEW tx \in pool, tx.msg \in Aggregated, ExternalAccepts(tx), ApplyRelay(tx)
  PROVE  \E s \in Status : OneStep(tx.req, s)
<1> DEFINE q == tx.req
<1>1. /\ TypeOK /\ q \in Requests /\ RelayReached(q, tx.msg)
      /\ <<bifrost[q], external[q]>> \in IF q \in Inbound THEN InboundPairs ELSE OutboundPairs
  BY DEF StepIInv, IInv, PoolReached, TypeOK, Tx, ChainsInStep
<1>2. external \in [Requests -> Status] /\ UNCHANGED bifrost
  BY <1>1 DEF TypeOK, ApplyRelay
<1>3. PICK s \in Moves(q, tx.msg, external[q]) :
        external' = [external EXCEPT ![q] = s] /\ Emit(q, s)
  BY DEF ApplyRelay
<1>4. /\ external'[q] = s /\ bifrost'[q] = bifrost[q] /\ s \in Status
      /\ \A p \in Requests \ {q} : bifrost'[p] = bifrost[p] /\ external'[p] = external[p]
  BY <1>1, <1>2, <1>3, MovesType
<1>5. \A o \in {ACCEPTED, REJECTED} :
        Reached(q, o) => \E now \in {bifrost[q], external[q]} :
                           now = o \/ <<o, now>> \in Follows(q)
  BY MovesOn DEF Reached, Status, NONE, REQUESTED, ACCEPTED, REJECTED, ROLLBACKED
<1>6. CASE q \in Inbound
  <2>1. \/ tx.msg = ACCEPTED /\ external[q] = REQUESTED /\ s = COMMITTED
        \/ tx.msg = REJECTED /\ external[q] = REQUESTED /\ s = ROLLBACKED
    BY <1>6, InboundRelayMoves
  <2>2. Reached(q, tx.msg)
    BY <1>1, <1>6 DEF RelayReached, Aggregated
  <2>3. bifrost[q] = tx.msg
    BY <1>5, <1>6, <2>1, <2>2 DEF Follows, NONE, REQUESTED, EXECUTED, REVERTED, ACCEPTED,
                                  REJECTED
  <2> QED
    BY <1>3, <1>4, <1>6, <2>1, <2>3 DEF OneStep, RequestStep, InboundStep
<1>7. CASE q \notin Inbound
  <2>1. external[q] = NONE /\ s \in {EXECUTED, REVERTED}
    BY <1>7, OutboundRelayMoves
  <2>2. tx.msg = ACCEPTED
    BY <1>7, NoOutboundRejection DEF Aggregated
  <2>3. Reached(q, ACCEPTED)
    BY <1>1, <2>2 DEF RelayReached
  <2>4. bifrost[q] = ACCEPTED
    BY <1>1, <1>5, <1>7, <2>1, <2>3 DEF Follows, OutboundPairs, NONE, REQUESTED, EXECUTED,
                                REVERTED, ACCEPTED, REJECTED, COMMITTED, ROLLBACKED
  <2> QED
    BY <1>3, <1>4, <1>7, <2>1, <2>4 DEF OneStep, RequestStep, OutboundStep
<1> QED
  BY <1>4, <1>6, <1>7

-----------------------------------------------------------------------------
(* What the relayers relay was an event. *)

LEMMA RelayReachedUnchanged ==
  ASSUME NEW q, NEW s, UNCHANGED <<bifrost, external>>
  PROVE  RelayReached(q, s)' <=> RelayReached(q, s)
BY DEF RelayReached, Reached

LEMMA AfterReached ==
  ASSUME NEW t \in Task, RelayReached(t.req, t.status),
         NEW u \in AfterSuccess(t) \union AfterFail(t)
  PROVE  RelayReached(u.req, u.status)
<1> USE DEF NONE, REQUESTED, FAILED, ACCEPTED, REJECTED
<1>1. CASE u \in AfterSuccess(t)
  BY <1>1 DEF AfterSuccess, Task
<1>2. CASE u \in AfterFail(t)
  <2>1. u.status = FAILED \/ (u.status = REJECTED /\ u.req \notin Inbound)
    BY <1>2 DEF AfterFail, NewTask
  <2> QED
    BY <2>1 DEF RelayReached
<1> QED
  BY <1>1, <1>2

\* Whatever a step puts into a queue, it has reached its status if all of the
\* queue had.
LEMMA ReplaceReached ==
  ASSUME TypeOK, TasksReached, NEW r \in Relayers, NEW t, NEW S,
         Replace(r, t, S), \A u \in S : RelayReached(u.req, u.status)
  PROVE  \A p \in Relayers : \A u \in tasks'[p] : RelayReached(u.req, u.status)
BY DEF TypeOK, TasksReached, Replace

LEMMA HandleReached ==
  ASSUME TypeOK, TasksReached, PoolReached, NEW r \in Relayers, Handle(r)
  PROVE  /\ \A p \in Relayers : \A u \in tasks'[p] : RelayReached(u.req, u.status)
         /\ \A tx \in pool' : RelayReached(tx.req, tx.msg)
<1>1. PICK t \in tasks[r] :
        \/ SendVote(r, t) \/ SendRelay(r, t) \/ DeferRelay(r, t)
        \/ DropTask(r, t) \/ CheckVoting(r, t) \/ CheckRelay(r, t)
  BY DEF Handle
<1>2. t \in Task /\ RelayReached(t.req, t.status)
  BY DEF TypeOK, TasksReached
<1>3. PICK S : /\ Replace(r, t, S)
               /\ \A u \in S : u \in AfterFail(t) \/ (u.req = t.req /\ u.status = t.status)
  <2>1. \/ Replace(r, t, {}) \/ Replace(r, t, AfterFail(t))
        \/ Replace(r, t, {[t EXCEPT !.phase = "wait"]})
        \/ Replace(r, t, {[t EXCEPT !.phase = "call"]})
        \/ Replace(r, t, {[t EXCEPT !.phase = "send", !.aggregated = FALSE]})
    BY <1>1 DEF SendVote, SendRelay, Submit, DeferRelay, CheckRelay, DropTask, CheckVoting,
                Replace
  <2>2. /\ [t EXCEPT !.phase = "wait"].req = t.req /\ [t EXCEPT !.phase = "wait"].status = t.status
        /\ [t EXCEPT !.phase = "call"].req = t.req /\ [t EXCEPT !.phase = "call"].status = t.status
        /\ [t EXCEPT !.phase = "send", !.aggregated = FALSE].req = t.req
        /\ [t EXCEPT !.phase = "send", !.aggregated = FALSE].status = t.status
    BY <1>2 DEF Task
  <2>3. ASSUME NEW u, u.req = t.req, u.status = t.status, Replace(r, t, {u})
        PROVE  \E S : /\ Replace(r, t, S)
                      /\ \A v \in S : v \in AfterFail(t) \/ (v.req = t.req /\ v.status = t.status)
    <3>1. \A v \in {u} : v.req = t.req /\ v.status = t.status
      BY <2>3
    <3> QED
      BY <2>3, <3>1
  <2>4. CASE Replace(r, t, {})
    BY <2>4
  <2>5. CASE Replace(r, t, AfterFail(t))
    BY <2>5
  <2> QED
    BY <2>1, <2>2, <2>3, <2>4, <2>5
<1>4. \A u \in S : RelayReached(u.req, u.status)
  BY <1>2, <1>3, AfterReached
<1>5. \A tx \in pool' : tx \in pool \/ tx = VoteTx(r, t) \/ tx = RelayTx(r, t)
  BY <1>1 DEF SendVote, SendRelay, Submit, DeferRelay, CheckRelay, DropTask, CheckVoting
<1>6. /\ VoteTx(r, t).req = t.req /\ VoteTx(r, t).msg = t.status
      /\ RelayTx(r, t).req = t.req /\ RelayTx(r, t).msg = t.status
  BY DEF VoteTx, RelayTx
<1> QED
  BY <1>2, <1>3, <1>4, <1>5, <1>6, ReplaceReached DEF PoolReached

LEMMA ResolveReached ==
  ASSUME TypeOK, TasksReached, NEW tx \in pool, Succeed(tx) \/ Fail(tx)
  PROVE  \A r \in Relayers : \A u \in tasks'[r] : RelayReached(u.req, u.status)
<1>1. tx.by \in Relayers /\ Awaiting(tx) \subseteq tasks[tx.by]
  BY DEF TypeOK, Tx, Awaiting
<1>2. \A t \in Awaiting(tx) : \A u \in AfterSuccess(t) \union AfterFail(t) :
        RelayReached(u.req, u.status)
  BY <1>1, AfterReached DEF TasksReached, TypeOK
<1>3. PICK S : Resolve(tx, S) /\ \A u \in S : RelayReached(u.req, u.status)
  BY <1>2 DEF Succeed, Fail
<1> QED
  BY <1>1, <1>3 DEF Resolve, TypeOK, TasksReached

\* An event that is detected, at once or at a restart, has been reached.
LEMMA EventReached ==
  ASSUME EventsReached, NEW e \in events
  PROVE  RelayReached(NewTask(e.req, e.status).req, NewTask(e.req, e.status).status)
BY DEF EventsReached, RelayReached, NewTask, REQUESTED, ACCEPTED, REJECTED

-----------------------------------------------------------------------------
(* The invariant. *)

\* Of the queues and messages after a step it is enough to know that they had
\* reached their statuses before it.
LEMMA StepPreserves ==
  ASSUME StepIInv, TypeOK',
         UNCHANGED <<bifrost, external, events>>
           \/ \E q \in Requests, s \in Status : OneStep(q, s),
         \A p \in Relayers : \A u \in tasks'[p] : RelayReached(u.req, u.status),
         \A tx \in pool' : RelayReached(tx.req, tx.msg)
  PROVE  ChainsInStep' /\ EventsReached' /\ TasksReached' /\ PoolReached'
<1>1. TypeOK /\ ChainsInStep /\ EventsReached
  BY DEF StepIInv, IInv
<1>2. /\ ChainsInStep' /\ EventsReached'
      /\ \A p \in Requests, o \in Status : RelayReached(p, o) => RelayReached(p, o)'
  <2>1. CASE UNCHANGED <<bifrost, external, events>>
    BY <1>1, <2>1, RelayReachedUnchanged DEF ChainsInStep, EventsReached, Reached
  <2>2. CASE \E q \in Requests, s \in Status : OneStep(q, s)
    BY <1>1, <2>2, OneStepPreserves
  <2> QED
    BY <2>1, <2>2
<1>3. TasksReached'
  BY <1>2 DEF TasksReached, TypeOK, Task
<1>4. PoolReached'
  BY <1>2 DEF PoolReached, TypeOK, Tx
<1> QED
  BY <1>2, <1>3, <1>4

\* Whatever a step is, it moves no request, or one by one move.
LEMMA ChainsStep ==
  ASSUME StepIInv, [Next]_vars
  PROVE  \/ UNCHANGED <<bifrost, external, events>>
         \/ \E q \in Requests, s \in Status : OneStep(q, s)
<1> DEFINE Goal == \/ UNCHANGED <<bifrost, external, events>>
                   \/ \E q \in Requests, s \in Status : OneStep(q, s)
<1>1. ASSUME NEW tx \in pool, Land(tx) PROVE Goal
  <2>1. tx.req \in Requests
    BY DEF StepIInv, IInv, TypeOK, Tx
  <2>2. CASE Accepts(tx) /\ ExecutePoll(tx)
    <3>1. CASE tx.msg \in Aggregated
      BY <2>1, <2>2, <3>1, RelaySteps DEF Accepts, ExecutePoll
    <3>2. CASE tx.msg \notin Aggregated
      BY <2>1, <2>2, <3>2, VoteSteps DEF Accepts, ExecutePoll
    <3> QED
      BY <3>1, <3>2
  <2>3. CASE UNCHANGED chainVars
    BY <2>3 DEF chainVars
  <2> QED
    BY <1>1, <2>2, <2>3 DEF Land
<1>2. CASE \E r \in Relayers : Detect(r) \/ Handle(r) \/ Restart(r)
  BY <1>2 DEF Detect, Handle, Restart, chainVars
<1>3. CASE \E tx \in pool : Lose(tx) \/ NoReceipt(tx)
  BY <1>3 DEF Lose, NoReceipt, chainVars
<1>4. CASE NextRound \/ UNCHANGED vars
  BY <1>4 DEF NextRound, vars, chainVars
<1> QED
  BY <1>1, <1>2, <1>3, <1>4 DEF Next

\* Whatever enters a queue or is sent had been reached.
LEMMA QueueStep ==
  ASSUME StepIInv, [Next]_vars
  PROVE  /\ \A p \in Relayers : \A u \in tasks'[p] : RelayReached(u.req, u.status)
         /\ \A tx \in pool' : RelayReached(tx.req, tx.msg)
<1>1. TypeOK /\ EventsReached /\ TasksReached /\ PoolReached
  BY DEF StepIInv, IInv
<1> DEFINE Queues == \A p \in Relayers : \A u \in tasks'[p] : RelayReached(u.req, u.status)
           Sent   == \A tx \in pool' : RelayReached(tx.req, tx.msg)
<1>2. ASSUME pool' \subseteq pool PROVE Sent
  BY <1>1, <1>2 DEF PoolReached
<1>3. ASSUME NEW r \in Relayers, Detect(r) PROVE Queues /\ Sent
  <2>1. PICK e \in events : tasks' = [tasks EXCEPT ![r] = @ \union {NewTask(e.req, e.status)}]
    BY <1>3 DEF Detect
  <2>2. RelayReached(NewTask(e.req, e.status).req, NewTask(e.req, e.status).status)
    BY <1>1, EventReached
  <2>3. Queues
    BY <1>1, <2>1, <2>2 DEF TasksReached, TypeOK
  <2> QED
    BY <1>2, <1>3, <2>3 DEF Detect
<1>4. ASSUME NEW r \in Relayers, Handle(r) PROVE Queues /\ Sent
  BY <1>1, <1>4, HandleReached
<1>5. ASSUME NEW r \in Relayers, Restart(r) PROVE Queues /\ Sent
  <2>1. PICK kept : /\ tasks' = [tasks EXCEPT ![r] = kept]
                    /\ \A u \in kept : \E e \in events : u = NewTask(e.req, e.status)
    BY <1>5, RestartTasks
  <2>3. \A u \in kept : RelayReached(u.req, u.status)
    BY <1>1, <2>1, EventReached
  <2>4. Queues
    BY <1>1, <2>1, <2>3 DEF TasksReached, TypeOK
  <2> QED
    BY <1>2, <1>5, <2>4 DEF Restart
<1>6. ASSUME NEW tx \in pool, Land(tx) \/ Lose(tx) \/ NoReceipt(tx) PROVE Queues /\ Sent
  <2>1. Succeed(tx) \/ Fail(tx)
    BY <1>6 DEF Land, Lose, NoReceipt
  <2>2. pool' \subseteq pool
    BY <1>6 DEF Land, Lose, NoReceipt
  <2> QED
    BY <1>1, <1>2, <2>1, <2>2, ResolveReached
<1>7. CASE UNCHANGED <<tasks, pool>>
  BY <1>1, <1>7 DEF TasksReached, PoolReached
<1>8. CASE NextRound \/ UNCHANGED vars
  BY <1>7, <1>8 DEF NextRound, vars, relayerVars
<1> QED
  BY <1>3, <1>4, <1>5, <1>6, <1>8 DEF Next

LEMMA InitStep == Init => StepIInv
<1> SUFFICES ASSUME Init PROVE StepIInv
  OBVIOUS
<1>1. IInv
  BY InitSound
<1>2. ChainsInStep
  BY DEF Init, ChainsInStep, InboundPairs, OutboundPairs
<1>3. EventsReached
  BY DEF Init, EventsReached
<1>4. TasksReached /\ PoolReached
  BY DEF Init, TasksReached, PoolReached
<1> QED
  BY <1>1, <1>2, <1>3, <1>4 DEF StepIInv

LEMMA NextStep == StepIInv /\ [Next]_vars => StepIInv'
<1> SUFFICES ASSUME StepIInv, [Next]_vars PROVE StepIInv'
  OBVIOUS
<1>1. IInv'
  BY NextSound DEF StepIInv
<1>2. TypeOK'
  BY <1>1 DEF IInv
<1>3. ChainsInStep' /\ EventsReached' /\ TasksReached' /\ PoolReached'
  BY <1>2, ChainsStep, QueueStep, StepPreserves
<1> QED
  BY <1>1, <1>3 DEF StepIInv

\* What is relayed was an event first, and the contracts move one request by one of
\* its moves at a time: the invariant behind the two theorems below.
THEOREM StepInvariant == Spec => []StepIInv
BY InitStep, NextStep, PTL DEF Spec

\* Neither contract runs ahead of the other or answers what the other has not done,
\* whoever relays, and whatever is lost, late, repeated or forgotten at a restart.
THEOREM ContractsStayInStep == Spec => []ChainsInStep
<1>1. StepIInv => ChainsInStep
  BY DEF StepIInv
<1> QED
  BY <1>1, StepInvariant, PTL

-----------------------------------------------------------------------------
(* The order of the events. *)

\* The first status ranks below whatever a request moves to.
LEMMA FirstRank ==
  ASSUME NEW q \in Requests, NEW s \in Status, RequestStep(q, s)
  PROVE  Rank(q \in Inbound, REQUESTED) <= Rank(q \in Inbound, s)
<1> USE DEF REQUESTED, EXECUTED, REVERTED, ACCEPTED, REJECTED, COMMITTED, ROLLBACKED
<1>1. CASE q \in Inbound
  <2>1. s \in {EXECUTED, REVERTED, ACCEPTED, REJECTED, COMMITTED, ROLLBACKED}
    BY <1>1 DEF RequestStep, InboundStep
  <2> QED
    BY <1>1, <2>1 DEF Rank
<1>2. CASE q \notin Inbound
  <2>1. s \in {ACCEPTED, EXECUTED, REVERTED, COMMITTED, ROLLBACKED}
    BY <1>2 DEF RequestStep, OutboundStep
  <2> QED
    BY <1>2, <2>1, OutboundRanks DEF Rank
<1> QED
  BY <1>1, <1>2

LEMMA RankReflexive ==
  ASSUME NEW inbound \in BOOLEAN, NEW s \in Ranked(inbound)
  PROVE  Rank(inbound, s) <= Rank(inbound, s)
<1>1. s \in Status /\ (~inbound => OutboundRank[s] \in 1..7)
  BY DEF OutboundRank, Ranked, Status, NONE, REQUESTED, FAILED, EXECUTED, REVERTED,
         ACCEPTED, REJECTED, COMMITTED, ROLLBACKED
<1>2. Rank(inbound, s) \in Int
  BY <1>1 DEF Rank, Status, NONE, ROLLBACKED
<1> QED
  BY <1>2

\* A new event outranks the events that its request has had.
LEMMA NewEventLatest ==
  ASSUME StepIInv, EventsRanked', NEW q \in Requests, NEW s \in Status, OneStep(q, s),
         NEW e \in events' \ events
  PROVE  IsLatest(e.req \in Inbound, e.status, {o.status : o \in {x \in events' : x.req = e.req}})
<1>1. e = [req |-> q, status |-> s, round |-> round]
  BY DEF OneStep, Emit
<1>2. e.req = q /\ e.status = s
  BY <1>1
<1>3. /\ RequestStep(q, s) /\ ChainsInStep /\ EventsReached /\ events \subseteq Event
      /\ events' = events \union {e}
  BY <1>1 DEF OneStep, Emit, StepIInv, IInv, TypeOK
<1>0. s \in Ranked(q \in Inbound)
  BY <1>2, <1>3 DEF EventsRanked
<1>4. ASSUME NEW x \in events', x.req = q
      PROVE  Rank(q \in Inbound, x.status) <= Rank(q \in Inbound, s)
  <2>1. CASE x = e
    <3>1. x.status = s
      BY <1>2, <2>1
    <3>2. (q \in Inbound) \in BOOLEAN
      OBVIOUS
    <3> QED
      BY <1>0, <3>1, <3>2, RankReflexive
  <2>2. CASE x \in events /\ x.status = REQUESTED
    BY <1>3, <2>2, FirstRank
  <2>3. CASE x \in events /\ x.status # REQUESTED
    <3>1. x.status \in Status \ {NONE, REQUESTED} /\ Reached(q, x.status)
      BY <1>3, <1>4, <2>3 DEF EventsReached, Event
    <3> QED
      BY <1>3, <3>1, RequestStepEffect
  <2> QED
    BY <1>3, <1>4, <2>1, <2>2, <2>3
<1>5. s \in {o.status : o \in {x \in events' : x.req = q}}
  BY <1>2, <1>3
<1> QED
  BY <1>0, <1>2, <1>4, <1>5 DEF IsLatest

\* The newest event of a request is the latest by extract_latest_event_status,
\* although its events come from two chains.
THEOREM NewestEventIsLatest == Spec => NewestIsLatest
<1>1. StepIInv /\ [Next]_vars =>
        [\A e \in events' \ events :
           IsLatest(e.req \in Inbound, e.status,
                    {o.status : o \in {x \in events' : x.req = e.req}})]_vars
  <2> SUFFICES ASSUME StepIInv, [Next]_vars, NEW e \in events' \ events
               PROVE  IsLatest(e.req \in Inbound, e.status,
                               {o.status : o \in {x \in events' : x.req = e.req}})
    OBVIOUS
  <2>1. PICK q \in Requests, s \in Status : OneStep(q, s)
    BY ChainsStep
  <2>2. EventsRanked'
    BY NextSound DEF StepIInv, IInv
  <2> QED
    BY <2>1, <2>2, NewEventLatest
<1> QED
  BY <1>1, StepInvariant, PTL DEF Spec, NewestIsLatest
=============================================================================
