--------------------------- MODULE RbcRelayProofs ---------------------------
(***************************************************************************)
(* Proofs about RbcRelay, for any number of requests, relayers and rounds, *)
(* any quorum and any bound on faults and restarts.                        *)
(***************************************************************************)
EXTENDS RbcRelay, FiniteSetTheorems, TLAPS

-----------------------------------------------------------------------------
(* Types. *)

\* What a relayer puts into its queue or sends has the right type.
LEMMA NewTaskType ==
  ASSUME NEW q \in Requests, NEW s \in Status
  PROVE  NewTask(q, s) \in Task
BY DEF NewTask, Task, Phases

LEMMA AfterType ==
  ASSUME NEW t \in Task
  PROVE  AfterSuccess(t) \subseteq Task /\ AfterFail(t) \subseteq Task
<1>1. AfterSuccess(t) \subseteq Task
  BY DEF AfterSuccess, Task, Phases
<1>2. NewTask(t.req, FAILED) \in Task /\ NewTask(t.req, REJECTED) \in Task
  BY NewTaskType DEF Task, Status, NONE, FAILED, REJECTED, ROLLBACKED
<1>3. [NewTask(t.req, REJECTED) EXCEPT !.aggregated = FALSE] \in Task
  BY <1>2 DEF Task
<1>4. AfterFail(t) \subseteq Task
  BY <1>2, <1>3 DEF AfterFail
<1> QED
  BY <1>1, <1>4

LEMMA VoteTxType ==
  ASSUME TypeOK, NEW r \in Relayers, NEW t \in Task, t.status \in Voted
  PROVE  VoteTx(r, t) \in Tx
<1>1. SignedStatus(t.req, t.status) \in Status
  BY DEF SignedStatus, Voted, Status, NONE, REQUESTED, FAILED, EXECUTED,
         REVERTED, ACCEPTED, ROLLBACKED
<1>2. boots[r] \in Nat /\ t.req \in Requests /\ t.status \in Status
  BY DEF TypeOK, Task
<1> QED
  BY <1>1, <1>2 DEF VoteTx, Tx

LEMMA SignersType ==
  ASSUME TypeOK, NEW q \in Requests, NEW s
  PROVE  Signers(q, s) \subseteq Relayers
BY DEF TypeOK, Signers, Vote

LEMMA RelayTxType ==
  ASSUME TypeOK, NEW r \in Relayers, NEW t \in Task
  PROVE  RelayTx(r, t) \in Tx
<1>1. boots[r] \in Nat /\ t.req \in Requests /\ t.status \in Status
  BY DEF TypeOK, Task
<1>2. Signers(t.req, t.status) \subseteq Relayers /\ NONE \in Status
  BY <1>1, SignersType DEF Status, NONE, ROLLBACKED
<1> QED
  BY <1>1, <1>2 DEF RelayTx, Tx

LEMMA MovesType == \A q, msg, from : Moves(q, msg, from) \subseteq Status
BY DEF Moves

-----------------------------------------------------------------------------
(* Each kind of step keeps the types of the variables it changes. *)

LEMMA ReplaceType ==
  ASSUME TypeOK, NEW r \in Relayers, NEW t, NEW S \in SUBSET Task, Replace(r, t, S)
  PROVE  tasks' \in [Relayers -> SUBSET Task]
BY DEF TypeOK, Replace

LEMMA SubmitType ==
  ASSUME TypeOK, NEW r \in Relayers, NEW t \in Task, NEW tx \in Tx, Submit(r, t, tx)
  PROVE  tasks' \in [Relayers -> SUBSET Task] /\ pool' \subseteq Tx
<1>1. CASE Replace(r, t, {[t EXCEPT !.phase = "wait"]}) /\ pool' = pool \union {tx}
  <2>1. {[t EXCEPT !.phase = "wait"]} \in SUBSET Task
    BY DEF Task, Phases
  <2> QED
    BY <1>1, <2>1, ReplaceType DEF TypeOK
<1>2. CASE Replace(r, t, AfterFail(t)) /\ UNCHANGED pool
  BY <1>2, AfterType, ReplaceType DEF TypeOK
<1> QED
  BY <1>1, <1>2 DEF Submit

LEMMA HandleType ==
  ASSUME TypeOK, NEW r \in Relayers, Handle(r)
  PROVE  tasks' \in [Relayers -> SUBSET Task] /\ pool' \subseteq Tx
<1>1. PICK t \in tasks[r] :
        \/ SendVote(r, t) \/ SendRelay(r, t) \/ DeferRelay(r, t)
        \/ DropTask(r, t) \/ CheckVoting(r, t) \/ CheckRelay(r, t)
  BY DEF Handle
<1>2. t \in Task
  BY DEF TypeOK
<1>3. CASE SendVote(r, t)
  BY <1>2, <1>3, VoteTxType, SubmitType DEF SendVote
<1>4. CASE SendRelay(r, t)
  BY <1>2, <1>4, RelayTxType, SubmitType DEF SendRelay
<1>5. CASE DeferRelay(r, t)
  <2>1. {[t EXCEPT !.phase = "call"]} \in SUBSET Task
    BY <1>2 DEF Task, Phases
  <2> QED
    BY <1>5, <2>1, ReplaceType DEF DeferRelay, TypeOK
<1>6. CASE DropTask(r, t)
  BY <1>6, ReplaceType DEF DropTask, TypeOK
<1>7. CASE CheckVoting(r, t)
  BY <1>2, <1>7, AfterType, ReplaceType DEF CheckVoting, TypeOK
<1>8. CASE CheckRelay(r, t)
  <2>1. {[t EXCEPT !.phase = "send", !.aggregated = FALSE]} \in SUBSET Task
    BY <1>2 DEF Task, Phases
  <2> QED
    BY <1>8, <2>1, ReplaceType DEF CheckRelay, TypeOK
<1> QED
  BY <1>1, <1>3, <1>4, <1>5, <1>6, <1>7, <1>8

LEMMA ResolveType ==
  ASSUME TypeOK, NEW tx \in pool, Succeed(tx) \/ Fail(tx)
  PROVE  tasks' \in [Relayers -> SUBSET Task]
<1>1. tx.by \in Relayers /\ Awaiting(tx) \subseteq Task
  BY DEF TypeOK, Tx, Awaiting
<1>2. UNION {AfterSuccess(t) : t \in Awaiting(tx)} \subseteq Task
  BY <1>1, AfterType
<1>3. UNION {AfterFail(t) : t \in Awaiting(tx)} \subseteq Task
  BY <1>1, AfterType
<1> QED
  BY <1>1, <1>2, <1>3 DEF TypeOK, Resolve, Succeed, Fail

LEMMA CountVoteType ==
  ASSUME TypeOK, NEW tx \in Tx, CountVote(tx)
  PROVE  /\ polls' \in [Requests -> SUBSET Vote]
         /\ bifrost' \in [Requests -> Status]
         /\ events' \subseteq Event
<1>1. tx.req \in Requests /\ tx.msg \in Status /\ round \in 0..MaxRound
  BY DEF TypeOK, Tx
<1>2. [by |-> tx.by, msg |-> tx.msg, sig |-> tx.sig] \in Vote
  BY DEF Tx, Vote
<1>3. polls' \in [Requests -> SUBSET Vote]
  BY <1>1, <1>2 DEF CountVote, TypeOK
<1>4. CASE UNCHANGED <<bifrost, events>>
  BY <1>3, <1>4 DEF TypeOK
<1>5. CASE \E status \in Moves(tx.req, tx.msg, bifrost[tx.req]) :
             bifrost' = [bifrost EXCEPT ![tx.req] = status] /\ Emit(tx.req, status)
  BY <1>1, <1>3, <1>5, MovesType DEF TypeOK, Emit, Event
<1> QED
  BY <1>4, <1>5 DEF CountVote

LEMMA ApplyRelayType ==
  ASSUME TypeOK, NEW tx \in Tx, ApplyRelay(tx)
  PROVE  external' \in [Requests -> Status] /\ events' \subseteq Event
<1>1. tx.req \in Requests /\ tx.msg \in Status /\ round \in 0..MaxRound
  BY DEF TypeOK, Tx
<1> QED
  BY <1>1, MovesType DEF ApplyRelay, TypeOK, Emit, Event

LEMMA LandType ==
  ASSUME TypeOK, NEW tx \in pool, Land(tx)
  PROVE  TypeOK'
<1>1. tasks' \in [Relayers -> SUBSET Task] /\ pool' \subseteq Tx
  BY ResolveType DEF Land, TypeOK
<1>2. tx \in Tx
  BY DEF TypeOK
<1>3. CASE UNCHANGED chainVars
  BY <1>1, <1>3 DEF Land, TypeOK, chainVars
<1>4. CASE CountVote(tx)
  <2>1. UNCHANGED external
    BY <1>4 DEF CountVote
  <2> QED
    BY <1>1, <1>2, <1>4, <2>1, CountVoteType DEF Land, TypeOK
<1>5. CASE ApplyRelay(tx)
  <2>1. UNCHANGED <<bifrost, polls>>
    BY <1>5 DEF ApplyRelay
  <2> QED
    BY <1>1, <1>2, <1>5, <2>1, ApplyRelayType DEF Land, TypeOK
<1> QED
  BY <1>3, <1>4, <1>5 DEF Land, ExecutePoll

\* A restart leaves in the queue some of the events that bootstrap keeps: all of them,
\* or none if it raises.
LEMMA RestartTasks ==
  ASSUME NEW r \in Relayers, Restart(r)
  PROVE  \E kept :
           /\ tasks' = [tasks EXCEPT ![r] = kept]
           /\ \A u \in kept : \E e \in events : u = NewTask(e.req, e.status)
<1>1. PICK first : tasks' = [tasks EXCEPT ![r] = IF BootstrapRaises(first) THEN {}
                                               ELSE Bootstrapped(r, first)]
  BY DEF Restart
<1> DEFINE kept == IF BootstrapRaises(first) THEN {} ELSE Bootstrapped(r, first)
<1>2. \A u \in Bootstrapped(r, first) : \E e \in events : u = NewTask(e.req, e.status)
  BY DEF Bootstrapped
<1>3. \A u \in kept : u \in Bootstrapped(r, first)
  OBVIOUS
<1>4. tasks' = [tasks EXCEPT ![r] = kept]
  BY <1>1
<1> HIDE DEF kept
<1>5. \A u \in kept : \E e \in events : u = NewTask(e.req, e.status)
  BY <1>2, <1>3
<1> QED
  BY <1>4, <1>5

LEMMA RestartType ==
  ASSUME TypeOK, NEW r \in Relayers, Restart(r)
  PROVE  TypeOK'
<1>1. PICK kept : /\ tasks' = [tasks EXCEPT ![r] = kept]
                  /\ \A u \in kept : \E e \in events : u = NewTask(e.req, e.status)
  BY RestartTasks
<1>2. kept \subseteq Task
  BY <1>1, NewTaskType DEF TypeOK, Event
<1> QED
  BY <1>1, <1>2 DEF Restart, TypeOK, chainVars

LEMMA DetectType ==
  ASSUME TypeOK, NEW r \in Relayers, Detect(r)
  PROVE  TypeOK'
<1>1. PICK e \in events :
        /\ seen' = [seen EXCEPT ![r] = @ \union {e}]
        /\ tasks' = [tasks EXCEPT ![r] = @ \union {NewTask(e.req, e.status)}]
  BY DEF Detect
<1>2. e \in Event /\ NewTask(e.req, e.status) \in Task
  BY NewTaskType DEF TypeOK, Event
<1> QED
  BY <1>1, <1>2 DEF Detect, TypeOK, chainVars

LEMMA InitType == Init => TypeOK
<1> SUFFICES ASSUME Init PROVE TypeOK
  OBVIOUS
<1>1. NONE \in Status /\ REQUESTED \in Status /\ 0 \in 0..MaxRound /\ 0 \in 0..MaxFaults
  BY ConstantsAssumption DEF Status, NONE, REQUESTED, ROLLBACKED
<1> QED
  BY <1>1 DEF Init, TypeOK, Event

LEMMA NextType == TypeOK /\ [Next]_vars => TypeOK'
<1> SUFFICES ASSUME TypeOK, [Next]_vars PROVE TypeOK'
  OBVIOUS
<1>1. CASE UNCHANGED vars
  BY <1>1 DEF TypeOK, vars, chainVars, relayerVars
<1>2. ASSUME NEW r \in Relayers, Detect(r) PROVE TypeOK'
  BY <1>2, DetectType
<1>3. ASSUME NEW r \in Relayers, Handle(r) PROVE TypeOK'
  BY <1>3, HandleType DEF Handle, TypeOK, chainVars
<1>4. ASSUME NEW r \in Relayers, Restart(r) PROVE TypeOK'
  BY <1>4, RestartType
<1>5. ASSUME NEW tx \in pool, Land(tx) PROVE TypeOK'
  BY <1>5, LandType
<1>6. ASSUME NEW tx \in pool, Lose(tx) PROVE TypeOK'
  BY <1>6, ResolveType, ConstantsAssumption DEF Lose, TypeOK, chainVars
<1>7. ASSUME NEW tx \in pool, NoReceipt(tx) PROVE TypeOK'
  BY <1>7, ResolveType, ConstantsAssumption DEF NoReceipt, TypeOK, chainVars
<1>8. CASE NextRound
  BY <1>8, ConstantsAssumption DEF NextRound, TypeOK, chainVars, relayerVars
<1> QED
  BY <1>1, <1>2, <1>3, <1>4, <1>5, <1>6, <1>7, <1>8 DEF Next

\* Every reachable state has the types of TypeOK.
THEOREM TypeCorrect == Spec => []TypeOK
BY InitType, NextType, PTL DEF Spec

-----------------------------------------------------------------------------
(* What changes when a message is executed. *)

\* A claim stays true as long as both contracts keep their statuses.
LEMMA ClaimsUnchanged ==
  ASSUME NEW q, NEW s, Claims(q, s), UNCHANGED <<bifrost, external>>
  PROVE  Claims(q, s)'
BY DEF Claims, Outcome

\* The table of moves, read for each direction.
LEMMA InboundVoteMoves ==
  ASSUME NEW q \in Inbound, NEW msg \in Voted, NEW from, NEW to \in Moves(q, msg, from)
  PROVE  \/ from = NONE /\ to \in {EXECUTED, REVERTED}
         \/ from = EXECUTED /\ to = ACCEPTED
         \/ from = REVERTED /\ to = REJECTED
BY DEF Moves, InboundMoves, Voted, NONE, REQUESTED, FAILED, EXECUTED, REVERTED,
       ACCEPTED, REJECTED, COMMITTED, ROLLBACKED

LEMMA OutboundVoteMoves ==
  ASSUME NEW q, q \notin Inbound, NEW msg \in Voted, NEW from, NEW to \in Moves(q, msg, from)
  PROVE  \/ msg = REQUESTED /\ from = REQUESTED /\ to = ACCEPTED
         \/ msg = EXECUTED /\ from = ACCEPTED /\ to = COMMITTED
         \/ msg = REVERTED /\ from = ACCEPTED /\ to = ROLLBACKED
BY DEF Moves, OutboundMoves, Voted, NONE, REQUESTED, FAILED, EXECUTED, REVERTED,
       ACCEPTED, REJECTED, COMMITTED, ROLLBACKED

LEMMA InboundRelayMoves ==
  ASSUME NEW q \in Inbound, NEW msg \in Aggregated, NEW from, NEW to \in Moves(q, msg, from)
  PROVE  \/ msg = ACCEPTED /\ from = REQUESTED /\ to = COMMITTED
         \/ msg = REJECTED /\ from = REQUESTED /\ to = ROLLBACKED
BY DEF Moves, InboundMoves, Aggregated, NONE, REQUESTED, FAILED, EXECUTED, REVERTED,
       ACCEPTED, REJECTED, COMMITTED, ROLLBACKED

LEMMA OutboundRelayMoves ==
  ASSUME NEW q, q \notin Inbound, NEW msg \in Aggregated, NEW from,
         NEW to \in Moves(q, msg, from)
  PROVE  from = NONE /\ to \in {EXECUTED, REVERTED}
BY DEF Moves, OutboundMoves, Aggregated, NONE, REQUESTED, FAILED, EXECUTED, REVERTED,
       ACCEPTED, REJECTED, COMMITTED, ROLLBACKED

\* A vote is only counted for a request whose outcome on Bifrost is open, or
\* moves it on without changing the outcome.
LEMMA VoteEffect ==
  ASSUME TypeOK, NEW tx \in pool, VoteSound(tx), BifrostAccepts(tx), CountVote(tx)
  PROVE  /\ \A q \in Requests : Outcome(q) # "pending" => Outcome(q)' = Outcome(q)
         /\ \A e \in events' \ events : Claims(e.req, e.status)'
<1>1. tx.req \in Requests /\ tx.msg \in Voted
  BY DEF TypeOK, Tx, VoteSound
<1>2. bifrost \in [Requests -> Status] /\ UNCHANGED external
  BY DEF TypeOK, CountVote
<1>3. CASE UNCHANGED <<bifrost, events>>
  BY <1>2, <1>3 DEF Outcome
<1>4. ASSUME NEW status \in Moves(tx.req, tx.msg, bifrost[tx.req]),
             bifrost' = [bifrost EXCEPT ![tx.req] = status], Emit(tx.req, status)
      PROVE  /\ \A q \in Requests : Outcome(q) # "pending" => Outcome(q)' = Outcome(q)
             /\ \A e \in events' \ events : Claims(e.req, e.status)'
  <2>1. bifrost'[tx.req] = status
        /\ \A q \in Requests \ {tx.req} : bifrost'[q] = bifrost[q]
    BY <1>1, <1>2, <1>4
  <2>3. CASE tx.req \in Inbound
    <3>1. \/ /\ bifrost[tx.req] = NONE
             /\ status \in {EXECUTED, REVERTED}
          \/ bifrost[tx.req] = EXECUTED /\ status = ACCEPTED
          \/ bifrost[tx.req] = REVERTED /\ status = REJECTED
      BY <1>1, <2>3, InboundVoteMoves
    <3>2. \A q \in Requests : Outcome(q) # "pending" => Outcome(q)' = Outcome(q)
      BY <1>2, <2>1, <3>1 DEF Outcome, NONE, EXECUTED, REVERTED, ACCEPTED, REJECTED
    <3>3. Claims(tx.req, status)'
      BY <2>1, <2>3, <3>1 DEF Claims, Outcome, EXECUTED, REVERTED, ACCEPTED, REJECTED
    <3> QED
      BY <1>4, <3>2, <3>3 DEF Emit
  <2>4. CASE tx.req \notin Inbound
    <3>1. status \in {ACCEPTED, COMMITTED, ROLLBACKED}
      BY <1>1, <2>4, OutboundVoteMoves
    <3>2. \A q \in Requests : Outcome(q)' = Outcome(q)
      BY <1>2, <2>1, <2>4 DEF Outcome
    <3>3. Claims(tx.req, status)'
      BY <3>1 DEF Claims, EXECUTED, REVERTED, ACCEPTED, COMMITTED, ROLLBACKED
    <3> QED
      BY <1>4, <3>2, <3>3 DEF Emit
  <2> QED
    BY <2>3, <2>4
<1> QED
  BY <1>3, <1>4 DEF CountVote

\* A relay is only taken for a request that is still open on the other chain.
LEMMA RelayEffect ==
  ASSUME TypeOK, NEW tx \in pool, tx.msg \in Aggregated, ExternalAccepts(tx), ApplyRelay(tx)
  PROVE  /\ \A q \in Requests : Outcome(q) # "pending" => Outcome(q)' = Outcome(q)
         /\ \A e \in events' \ events : Claims(e.req, e.status)'
<1>1. tx.req \in Requests
  BY DEF TypeOK, Tx
<1>2. external \in [Requests -> Status] /\ UNCHANGED bifrost
  BY DEF TypeOK, ApplyRelay
<1>3. PICK status \in Moves(tx.req, tx.msg, external[tx.req]) :
        external' = [external EXCEPT ![tx.req] = status] /\ Emit(tx.req, status)
  BY DEF ApplyRelay
<1>4. external'[tx.req] = status
      /\ \A q \in Requests \ {tx.req} : external'[q] = external[q]
  BY <1>1, <1>2, <1>3
<1>6. CASE tx.req \in Inbound
  <2>1. status \in {COMMITTED, ROLLBACKED}
    BY <1>6, InboundRelayMoves
  <2>2. \A q \in Requests : Outcome(q)' = Outcome(q)
    BY <1>2, <1>4, <1>6 DEF Outcome
  <2>3. Claims(tx.req, status)'
    BY <2>1 DEF Claims, EXECUTED, REVERTED, COMMITTED, ROLLBACKED
  <2> QED
    BY <1>3, <2>2, <2>3 DEF Emit
<1>7. CASE tx.req \notin Inbound
  <2>1. external[tx.req] = NONE /\ status \in {EXECUTED, REVERTED}
    BY <1>1, <1>7, OutboundRelayMoves
  <2>2. \A q \in Requests : Outcome(q) # "pending" => Outcome(q)' = Outcome(q)
    BY <1>2, <1>4, <1>7, <2>1 DEF Outcome, NONE, EXECUTED, REVERTED, ACCEPTED, REJECTED
  <2>3. Claims(tx.req, status)'
    BY <1>4, <1>7, <2>1 DEF Claims, Outcome, EXECUTED, REVERTED, ACCEPTED, REJECTED
  <2> QED
    BY <1>3, <2>2, <2>3 DEF Emit
<1> QED
  BY <1>6, <1>7

\* An outcome that does not change keeps every claim about it.
LEMMA ClaimsStable ==
  ASSUME NEW q, NEW s, Claims(q, s), Outcome(q) # "pending" => Outcome(q)' = Outcome(q)
  PROVE  Claims(q, s)'
BY DEF Claims

\* Counting a vote only adds the voter's own signature.
LEMMA SignersAfterVote ==
  ASSUME TypeOK, NEW tx \in pool, CountVote(tx), NEW q \in Requests, NEW s
  PROVE  /\ Signers(q, s) \subseteq Signers(q, s)'
         /\ Signers(q, s)' # {} => Signers(q, s) # {} \/ (q = tx.req /\ s = tx.sig)
<1>1. tx.req \in Requests /\ polls \in [Requests -> SUBSET Vote]
  BY DEF TypeOK, Tx
<1>2. polls' = [polls EXCEPT ![tx.req] =
        polls[tx.req] \union {[by |-> tx.by, msg |-> tx.msg, sig |-> tx.sig]}]
  BY DEF CountVote
<1>3. polls[q] \subseteq polls'[q]
  BY <1>1, <1>2
<1>4. \A v \in polls'[q] : v \in polls[q] \/ (q = tx.req /\ v.sig = tx.sig)
  BY <1>1, <1>2
<1> QED
  BY <1>3, <1>4 DEF Signers

\* A signature for REJECTED, or for an inbound ACCEPTED, comes with a claim.
LEMMA SignatureClaims ==
  ASSUME NEW tx, VoteSound(tx)
  PROVE  /\ tx.sig = REJECTED => tx.msg = REVERTED
         /\ tx.sig = ACCEPTED /\ tx.req \in Inbound => tx.msg = EXECUTED
BY DEF VoteSound, Voted, SignedStatus, NONE, REQUESTED, FAILED, EXECUTED, REVERTED,
       ACCEPTED, REJECTED

-----------------------------------------------------------------------------
(* The queues stay true. *)

LEMMA AfterTrue ==
  ASSUME NEW t \in Task, Claims(t.req, t.status), NEW u \in AfterSuccess(t) \union AfterFail(t)
  PROVE  Claims(u.req, u.status)
<1>1. CASE u \in AfterSuccess(t)
  BY <1>1 DEF AfterSuccess, Task, Claims
<1>2. CASE u \in AfterFail(t)
  <2>1. u.status \in {FAILED, REJECTED}
    BY <1>2 DEF AfterFail, NewTask
  <2> QED
    BY <2>1 DEF Claims, FAILED, REJECTED, EXECUTED, REVERTED
<1> QED
  BY <1>1, <1>2

LEMMA ReplaceTrue ==
  ASSUME TypeOK, TasksTrue, NEW r \in Relayers, NEW t, NEW S,
         Replace(r, t, S), \A u \in S : Claims(u.req, u.status),
         UNCHANGED <<bifrost, external>>
  PROVE  TasksTrue'
<1>1. \A p \in Relayers : \A u \in tasks'[p] : Claims(u.req, u.status)
  BY DEF TypeOK, TasksTrue, Replace
<1> QED
  BY <1>1, ClaimsUnchanged DEF TasksTrue

LEMMA ResolveTrue ==
  ASSUME TypeOK, TasksTrue, NEW tx \in pool, Succeed(tx) \/ Fail(tx)
  PROVE  \A r \in Relayers : \A u \in tasks'[r] : Claims(u.req, u.status)
<1>1. tx.by \in Relayers /\ Awaiting(tx) \subseteq tasks[tx.by]
  BY DEF TypeOK, Tx, Awaiting
<1>2. \A t \in Awaiting(tx) : \A u \in AfterSuccess(t) \union AfterFail(t) :
        Claims(u.req, u.status)
  BY <1>1, AfterTrue DEF TasksTrue, TypeOK
<1>3. PICK S : Resolve(tx, S) /\ \A u \in S : Claims(u.req, u.status)
  BY <1>2 DEF Succeed, Fail
<1> QED
  BY <1>1, <1>3 DEF Resolve, TypeOK, TasksTrue

-----------------------------------------------------------------------------
(* Messages stay sound. *)

LEMMA PoolUnchanged ==
  ASSUME PoolSound, UNCHANGED <<bifrost, external, polls>>, pool' \subseteq pool
  PROVE  PoolSound'
<1>1. \A tx \in pool' : VoteSound(tx) => VoteSound(tx)'
  BY ClaimsUnchanged DEF VoteSound, SignedStatus
<1>2. \A tx \in pool' : RelaySound(tx) => RelaySound(tx)'
  BY DEF RelaySound, Signers
<1> QED
  BY <1>1, <1>2 DEF PoolSound

LEMMA SubmitSound ==
  ASSUME TypeOK, TasksTrue, PoolSound, NEW r \in Relayers, NEW t \in tasks[r], NEW tx,
         Submit(r, t, tx), UNCHANGED <<bifrost, external, polls>>,
         IF tx.msg \in Aggregated THEN RelaySound(tx) ELSE VoteSound(tx)
  PROVE  TasksTrue' /\ PoolSound'
<1>1. Claims(t.req, t.status)
  BY DEF TasksTrue
<1>2. \A u \in {[t EXCEPT !.phase = "wait"]} \union AfterFail(t) : Claims(u.req, u.status)
  <2>1. t \in Task
    BY DEF TypeOK
  <2> QED
    BY <1>1, <2>1, AfterTrue DEF Task
<1>3. TasksTrue'
  BY <1>2, ReplaceTrue DEF Submit
<1>4. \A x \in pool' : x \in pool \/ x = tx
  BY DEF Submit
<1>5. \A x \in pool' : VoteSound(x) => VoteSound(x)'
  BY ClaimsUnchanged DEF VoteSound, SignedStatus
<1>6. \A x \in pool' : RelaySound(x) => RelaySound(x)'
  BY DEF RelaySound, Signers
<1> QED
  BY <1>3, <1>4, <1>5, <1>6 DEF PoolSound

LEMMA HandleSound ==
  ASSUME TypeOK, TasksTrue, PoolSound, NEW r \in Relayers, Handle(r)
  PROVE  TasksTrue' /\ PoolSound'
<1>1. PICK t \in tasks[r] :
        \/ SendVote(r, t) \/ SendRelay(r, t) \/ DeferRelay(r, t)
        \/ DropTask(r, t) \/ CheckVoting(r, t) \/ CheckRelay(r, t)
  BY DEF Handle
<1>2. UNCHANGED <<bifrost, external, polls>>
  BY DEF Handle, chainVars
<1>3. t \in Task /\ Claims(t.req, t.status)
  BY DEF TypeOK, TasksTrue
<1>4. CASE SendVote(r, t)
  <2>1. VoteSound(VoteTx(r, t)) /\ VoteTx(r, t).msg \notin Aggregated
    BY <1>3, <1>4 DEF SendVote, VoteSound, VoteTx, Voted, Aggregated, REQUESTED,
                      FAILED, EXECUTED, REVERTED, ACCEPTED, REJECTED
  <2> QED
    BY <1>2, <1>4, <2>1, SubmitSound DEF SendVote
<1>5. CASE SendRelay(r, t)
  <2>1. RelaySound(RelayTx(r, t)) /\ RelayTx(r, t).msg \in Aggregated
    BY <1>5 DEF SendRelay, RelaySound, RelayTx
  <2> QED
    BY <1>2, <1>5, <2>1, SubmitSound DEF SendRelay
<1>6. CASE DeferRelay(r, t) \/ CheckRelay(r, t) \/ DropTask(r, t) \/ CheckVoting(r, t)
  <2>1. \/ Replace(r, t, {}) \/ Replace(r, t, AfterFail(t))
        \/ Replace(r, t, {[t EXCEPT !.phase = "call"]})
        \/ Replace(r, t, {[t EXCEPT !.phase = "send", !.aggregated = FALSE]})
    BY <1>6 DEF DeferRelay, CheckRelay, DropTask, CheckVoting, Replace
  <2>2. TasksTrue'
    <3>1. \A u \in AfterFail(t) : Claims(u.req, u.status)
      BY <1>3, AfterTrue
    <3>2. \A u \in {[t EXCEPT !.phase = "call"]} : Claims(u.req, u.status)
      BY <1>3 DEF Task
    <3>3. \A u \in {[t EXCEPT !.phase = "send", !.aggregated = FALSE]} :
            Claims(u.req, u.status)
      BY <1>3 DEF Task
    <3>4. CASE Replace(r, t, {})
      BY <1>2, <3>4, ReplaceTrue
    <3>5. CASE Replace(r, t, AfterFail(t))
      BY <1>2, <3>1, <3>5, ReplaceTrue
    <3>6. CASE Replace(r, t, {[t EXCEPT !.phase = "call"]})
      BY <1>2, <3>2, <3>6, ReplaceTrue
    <3>7. CASE Replace(r, t, {[t EXCEPT !.phase = "send", !.aggregated = FALSE]})
      BY <1>2, <3>3, <3>7, ReplaceTrue
    <3> QED
      BY <2>1, <3>4, <3>5, <3>6, <3>7
  <2>3. UNCHANGED pool
    BY <1>6 DEF DeferRelay, CheckRelay, DropTask, CheckVoting
  <2> QED
    BY <1>2, <2>2, <2>3, PoolUnchanged
<1> QED
  BY <1>1, <1>4, <1>5, <1>6

-----------------------------------------------------------------------------
(* Executing a message. *)

\* A vote that is counted: its signature is backed by what it claims.
LEMMA LandVoteSound ==
  ASSUME IInv, NEW tx \in pool, tx.msg \notin Aggregated, BifrostAccepts(tx),
         CountVote(tx), pool' = pool \ {tx}, Succeed(tx)
  PROVE  EventsTrue' /\ TasksTrue' /\ PoolSound' /\ CertificateSound'
<1>1. VoteSound(tx) /\ TypeOK /\ tx.req \in Requests
  BY DEF IInv, PoolSound, TypeOK, Tx
<1>2. \A q \in Requests : Outcome(q) # "pending" => Outcome(q)' = Outcome(q)
  BY <1>1, VoteEffect
<1>3. \A q \in Requests : \A s : Claims(q, s) => Claims(q, s)'
  BY <1>2, ClaimsStable
<1>4. EventsTrue'
  BY <1>1, <1>3, VoteEffect DEF IInv, EventsTrue, TypeOK, Event
<1>5. TasksTrue'
  <2>1. tasks' \in [Relayers -> SUBSET Task]
    BY <1>1, ResolveType
  <2>2. \A r \in Relayers : \A u \in tasks'[r] : Claims(u.req, u.status)
    BY <1>1, ResolveTrue DEF IInv
  <2> QED
    BY <1>3, <2>1, <2>2 DEF TasksTrue, Task
<1>6. PoolSound'
  <2>1. \A x \in pool' : x \in pool /\ x.req \in Requests
    BY <1>1 DEF TypeOK, Tx
  <2>2. \A x \in pool' : VoteSound(x) => VoteSound(x)'
    BY <1>3, <2>1 DEF VoteSound, SignedStatus
  <2>3. \A x \in pool' : RelaySound(x) => RelaySound(x)'
    BY <1>1, <2>1, SignersAfterVote DEF RelaySound
  <2> QED
    BY <2>1, <2>2, <2>3 DEF IInv, PoolSound
<1>7. CertificateSound'
  <2> SUFFICES ASSUME NEW q \in Requests
               PROVE  /\ Signers(q, REJECTED)' # {} => Outcome(q)' = "reverted"
                      /\ q \in Inbound /\ Signers(q, ACCEPTED)' # {} => Outcome(q)' = "executed"
    BY DEF CertificateSound
  <2>1. /\ Signers(q, REJECTED)' # {} => Outcome(q) = "reverted"
        /\ q \in Inbound /\ Signers(q, ACCEPTED)' # {} => Outcome(q) = "executed"
    <3>1. /\ Signers(q, REJECTED) # {} => Outcome(q) = "reverted"
          /\ q \in Inbound /\ Signers(q, ACCEPTED) # {} => Outcome(q) = "executed"
      BY DEF IInv, CertificateSound
    <3>2. /\ q = tx.req /\ tx.sig = REJECTED => Outcome(q) = "reverted"
          /\ q = tx.req /\ tx.sig = ACCEPTED /\ q \in Inbound => Outcome(q) = "executed"
      BY <1>1, SignatureClaims DEF VoteSound, Claims
    <3> QED
      BY <1>1, <3>1, <3>2, SignersAfterVote
  <2> QED
    BY <1>2, <2>1
<1> QED
  BY <1>4, <1>5, <1>6, <1>7

\* A relay that is taken changes no vote and no outcome already given.
LEMMA LandRelaySound ==
  ASSUME IInv, NEW tx \in pool, tx.msg \in Aggregated, ExternalAccepts(tx),
         ApplyRelay(tx), pool' = pool \ {tx}, Succeed(tx)
  PROVE  EventsTrue' /\ TasksTrue' /\ PoolSound' /\ CertificateSound'
<1>1. TypeOK /\ tx.req \in Requests
  BY DEF IInv, TypeOK, Tx
<1>2. \A q \in Requests : Outcome(q) # "pending" => Outcome(q)' = Outcome(q)
  BY <1>1, RelayEffect
<1>3. \A q \in Requests : \A s : Claims(q, s) => Claims(q, s)'
  BY <1>2, ClaimsStable
<1>4. EventsTrue'
  BY <1>1, <1>3, RelayEffect DEF IInv, EventsTrue, TypeOK, Event
<1>5. TasksTrue'
  <2>1. tasks' \in [Relayers -> SUBSET Task]
    BY <1>1, ResolveType
  <2>2. \A r \in Relayers : \A u \in tasks'[r] : Claims(u.req, u.status)
    BY <1>1, ResolveTrue DEF IInv
  <2> QED
    BY <1>3, <2>1, <2>2 DEF TasksTrue, Task
<1>6. \A q, s : Signers(q, s)' = Signers(q, s)
  BY DEF ApplyRelay, Signers
<1>7. PoolSound'
  <2>1. \A x \in pool' : x \in pool /\ x.req \in Requests
    BY <1>1 DEF TypeOK, Tx
  <2>2. \A x \in pool' : VoteSound(x) => VoteSound(x)'
    BY <1>3, <2>1 DEF VoteSound, SignedStatus
  <2>3. \A x \in pool' : RelaySound(x) => RelaySound(x)'
    BY <1>6 DEF RelaySound
  <2> QED
    BY <2>1, <2>2, <2>3 DEF IInv, PoolSound
<1>8. CertificateSound'
  BY <1>2, <1>6 DEF IInv, CertificateSound
<1> QED
  BY <1>4, <1>5, <1>7, <1>8

-----------------------------------------------------------------------------
(* The inductive invariant. *)

\* A step that changes no contract keeps the votes and their signatures.
LEMMA ChainsUnchanged ==
  ASSUME EventsTrue, CertificateSound, UNCHANGED chainVars
  PROVE  EventsTrue' /\ CertificateSound'
BY ClaimsUnchanged DEF EventsTrue, CertificateSound, chainVars, Outcome, Signers

LEMMA InitSound == Init => IInv
<1> SUFFICES ASSUME Init PROVE IInv
  OBVIOUS
<1>1. EventsTrue
  BY DEF Init, EventsTrue, Claims, REQUESTED, EXECUTED, REVERTED
<1>2. \A q \in Requests : \A s : Signers(q, s) = {}
  BY DEF Init, Signers
<1>3. TasksTrue /\ PoolSound /\ CertificateSound
  BY <1>2 DEF Init, TasksTrue, PoolSound, CertificateSound
<1>4. EventsRanked
  BY DEF Init, EventsRanked, Ranked, Status, NONE, REQUESTED, FAILED, ROLLBACKED
<1> QED
  BY <1>1, <1>3, <1>4, InitType DEF IInv

\* The contracts only emit statuses that are ranked.
LEMMA RankedStep ==
  ASSUME TypeOK, EventsRanked, [Next]_vars
  PROVE  EventsRanked'
<1>1. ASSUME NEW q, NEW msg, NEW from, NEW to \in Moves(q, msg, from)
      PROVE  to \in Ranked(q \in Inbound)
  BY DEF Moves, InboundMoves, OutboundMoves, Ranked, Status, NONE, REQUESTED, FAILED,
         EXECUTED, REVERTED, ACCEPTED, REJECTED, COMMITTED, ROLLBACKED
<1>2. CASE events' = events
  BY <1>2 DEF EventsRanked
<1>3. ASSUME NEW q, NEW msg, NEW from, NEW to \in Moves(q, msg, from), Emit(q, to)
      PROVE  EventsRanked'
  BY <1>1, <1>3 DEF Emit, EventsRanked
<1>4. ASSUME NEW tx \in pool, Land(tx) PROVE EventsRanked'
  <2>1. CASE CountVote(tx)
    BY <1>2, <1>3, <2>1 DEF CountVote
  <2>2. CASE ApplyRelay(tx)
    BY <1>3, <2>2 DEF ApplyRelay
  <2> QED
    BY <1>2, <1>4, <2>1, <2>2 DEF Land, ExecutePoll, chainVars
<1> QED
  BY <1>2, <1>4 DEF Next, vars, chainVars, Detect, Handle, Restart, Lose, NoReceipt, NextRound

LEMMA NextSound == IInv /\ [Next]_vars => IInv'
<1> SUFFICES ASSUME IInv, [Next]_vars PROVE IInv'
  OBVIOUS
<1>1. TypeOK /\ TypeOK' /\ EventsTrue /\ TasksTrue /\ PoolSound /\ CertificateSound
  BY NextType DEF IInv
<1>0. EventsRanked'
  BY <1>1, RankedStep DEF IInv
<1> SUFFICES EventsTrue' /\ TasksTrue' /\ PoolSound' /\ CertificateSound'
  BY <1>0, <1>1 DEF IInv
<1> DEFINE Goal == EventsTrue' /\ TasksTrue' /\ PoolSound' /\ CertificateSound'
<1>2. ASSUME UNCHANGED <<chainVars, tasks, pool>> PROVE Goal
  <2>1. EventsTrue' /\ CertificateSound'
    BY <1>1, <1>2, ChainsUnchanged
  <2>2. TasksTrue'
    BY <1>1, <1>2, ClaimsUnchanged DEF TasksTrue, chainVars
  <2>3. PoolSound'
    BY <1>1, <1>2, PoolUnchanged DEF chainVars
  <2> QED
    BY <2>1, <2>2, <2>3
<1>3. ASSUME NEW r \in Relayers, Detect(r) PROVE Goal
  <2>1. UNCHANGED <<chainVars, pool>>
    BY <1>3 DEF Detect
  <2>2. PICK e \in events : tasks' = [tasks EXCEPT ![r] = @ \union {NewTask(e.req, e.status)}]
    BY <1>3 DEF Detect
  <2>3. Claims(NewTask(e.req, e.status).req, NewTask(e.req, e.status).status)
    BY <1>1 DEF EventsTrue, NewTask
  <2>4. \A p \in Relayers : \A u \in tasks'[p] : Claims(u.req, u.status)
    BY <1>1, <2>2, <2>3 DEF TasksTrue, TypeOK
  <2>5. TasksTrue'
    BY <2>1, <2>4, ClaimsUnchanged DEF TasksTrue, chainVars
  <2>6. PoolSound'
    BY <1>1, <2>1, PoolUnchanged DEF chainVars
  <2> QED
    BY <1>1, <2>1, <2>5, <2>6, ChainsUnchanged
<1>4. ASSUME NEW r \in Relayers, Handle(r) PROVE Goal
  <2>1. UNCHANGED chainVars
    BY <1>4 DEF Handle
  <2> QED
    BY <1>1, <1>4, <2>1, HandleSound, ChainsUnchanged
<1>5. ASSUME NEW r \in Relayers, Restart(r) PROVE Goal
  <2>1. UNCHANGED <<chainVars, pool>>
    BY <1>5 DEF Restart
  <2>2. PICK kept : /\ tasks' = [tasks EXCEPT ![r] = kept]
                    /\ \A u \in kept : \E e \in events : u = NewTask(e.req, e.status)
    BY <1>5, RestartTasks
  <2>3. \A u \in kept : Claims(u.req, u.status)
    BY <1>1, <2>2 DEF NewTask, EventsTrue
  <2>4. \A p \in Relayers : \A u \in tasks'[p] : Claims(u.req, u.status)
    BY <1>1, <2>2, <2>3 DEF TasksTrue, TypeOK
  <2>5. TasksTrue'
    BY <2>1, <2>4, ClaimsUnchanged DEF TasksTrue, chainVars
  <2>6. PoolSound'
    BY <1>1, <2>1, PoolUnchanged DEF chainVars
  <2> QED
    BY <1>1, <2>1, <2>5, <2>6, ChainsUnchanged
<1>6. ASSUME NEW tx \in pool, Fail(tx), UNCHANGED chainVars, pool' \subseteq pool PROVE Goal
  <2>1. \A r \in Relayers : \A u \in tasks'[r] : Claims(u.req, u.status)
    BY <1>1, <1>6, ResolveTrue
  <2>2. TasksTrue'
    BY <1>6, <2>1, ClaimsUnchanged DEF TasksTrue, chainVars
  <2>3. PoolSound'
    BY <1>1, <1>6, PoolUnchanged DEF chainVars
  <2> QED
    BY <1>1, <1>6, <2>2, <2>3, ChainsUnchanged
<1>7. ASSUME NEW tx \in pool, Land(tx) PROVE Goal
  <2>1. pool' = pool \ {tx}
    BY <1>7 DEF Land
  <2>2. CASE Accepts(tx) /\ ExecutePoll(tx) /\ Succeed(tx)
    <3>1. CASE tx.msg \in Aggregated
      BY <2>1, <2>2, <3>1, LandRelaySound DEF Accepts, ExecutePoll
    <3>2. CASE tx.msg \notin Aggregated
      BY <2>1, <2>2, <3>2, LandVoteSound DEF Accepts, ExecutePoll
    <3> QED
      BY <3>1, <3>2
  <2>3. CASE UNCHANGED chainVars /\ Fail(tx)
    BY <1>6, <2>1, <2>3
  <2> QED
    BY <1>7, <2>2, <2>3 DEF Land
<1>8. ASSUME NEW tx \in pool, Lose(tx) PROVE Goal
  BY <1>6, <1>8 DEF Lose
<1>9. ASSUME NEW tx \in pool, NoReceipt(tx) PROVE Goal
  BY <1>6, <1>9 DEF NoReceipt
<1>10. CASE NextRound
  BY <1>2, <1>10 DEF NextRound, relayerVars
<1>11. CASE UNCHANGED vars
  BY <1>2, <1>11 DEF vars, relayerVars
<1> QED
  BY <1>3, <1>4, <1>5, <1>7, <1>8, <1>9, <1>10, <1>11 DEF Next

\* Everything the relayers hold or have sent is backed by the chains.
THEOREM Soundness == Spec => []IInv
BY InitSound, NextSound, PTL DEF Spec

\* No signature is ever stored for an answer that the destination chain has not
\* given, whatever is lost or repeated and however often relayers restart.
THEOREM CertificatesAreSound == Spec => []CertificateSound
<1>1. IInv => CertificateSound
  BY DEF IInv
<1> QED
  BY <1>1, Soundness, PTL

-----------------------------------------------------------------------------
(* The relayers implement RbcRequest. *)

\* A step that changes at most one request, in one of the allowed ways, is a
\* step of the abstract specification or a stutter.
LEMMA MappedStep ==
  ASSUME NEW q \in Requests,
         \A p \in Requests \ {q} : Outcome(p)' = Outcome(p) /\ Settlement(p)' = Settlement(p),
         \/ Outcome(q)' = Outcome(q) /\ Settlement(q)' = Settlement(q)
         \/ /\ Outcome(q) = "pending" /\ Outcome(q)' \in {"executed", "reverted"}
            /\ Settlement(q)' = Settlement(q)
         \/ /\ Settlement(q) = "open" /\ Outcome(q)' = Outcome(q)
            /\ \/ Outcome(q) = "executed" /\ Settlement(q)' = "committed"
               \/ Outcome(q) = "reverted" /\ Settlement(q)' = "rollbacked"
  PROVE  [Request!Next]_(Request!vars)
<1> DEFINE out == [p \in Requests |-> Outcome(p)]
           set == [p \in Requests |-> Settlement(p)]
<1>1. out' = [p \in Requests |-> Outcome(p)'] /\ set' = [p \in Requests |-> Settlement(p)']
  OBVIOUS
<1>2. CASE Outcome(q)' = Outcome(q) /\ Settlement(q)' = Settlement(q)
  <2>1. out' = out /\ set' = set
    BY <1>1, <1>2
  <2> QED
    BY <2>1 DEF Request!vars
<1>3. CASE /\ Outcome(q) = "pending" /\ Outcome(q)' \in {"executed", "reverted"}
           /\ Settlement(q)' = Settlement(q)
  <2>1. set' = set /\ out' = [out EXCEPT ![q] = Outcome(q)']
    BY <1>1, <1>3
  <2>2. Request!Execute(q) \/ Request!Revert(q)
    BY <1>3, <2>1 DEF Request!Execute, Request!Revert
  <2> QED
    BY <2>2 DEF Request!Next
<1>4. CASE /\ Settlement(q) = "open" /\ Outcome(q)' = Outcome(q)
           /\ \/ Outcome(q) = "executed" /\ Settlement(q)' = "committed"
              \/ Outcome(q) = "reverted" /\ Settlement(q)' = "rollbacked"
  <2>1. out' = out /\ set' = [set EXCEPT ![q] = Settlement(q)']
    BY <1>1, <1>4
  <2>2. Request!Commit(q) \/ Request!Rollback(q)
    BY <1>4, <2>1 DEF Request!Commit, Request!Rollback
  <2> QED
    BY <2>2 DEF Request!Next
<1> QED
  BY <1>2, <1>3, <1>4

\* The vote that completes a quorum gives an inbound request its outcome and
\* settles an outbound one as its outcome says.
LEMMA VoteImplements ==
  ASSUME IInv, NEW tx \in pool, tx.msg \notin Aggregated, BifrostAccepts(tx), CountVote(tx)
  PROVE  [Request!Next]_(Request!vars)
<1>1. TypeOK /\ VoteSound(tx) /\ tx.req \in Requests /\ tx.msg \in Voted
  BY DEF IInv, PoolSound, VoteSound, TypeOK, Tx
<1>2. bifrost \in [Requests -> Status] /\ UNCHANGED external
  BY <1>1 DEF TypeOK, CountVote
<1>3. CASE UNCHANGED bifrost
  BY <1>1, <1>2, <1>3, MappedStep DEF Outcome, Settlement
<1>4. ASSUME NEW status \in Moves(tx.req, tx.msg, bifrost[tx.req]),
             bifrost' = [bifrost EXCEPT ![tx.req] = status]
      PROVE  [Request!Next]_(Request!vars)
  <2>1. bifrost'[tx.req] = status
        /\ \A q \in Requests \ {tx.req} : bifrost'[q] = bifrost[q]
    BY <1>1, <1>2, <1>4
  <2>2. \A q \in Requests \ {tx.req} :
          Outcome(q)' = Outcome(q) /\ Settlement(q)' = Settlement(q)
    BY <1>2, <2>1 DEF Outcome, Settlement
  <2>3. CASE tx.req \in Inbound
    <3>1. \/ bifrost[tx.req] = NONE /\ status \in {EXECUTED, REVERTED}
          \/ bifrost[tx.req] = EXECUTED /\ status = ACCEPTED
          \/ bifrost[tx.req] = REVERTED /\ status = REJECTED
      BY <1>1, <2>3, InboundVoteMoves
    <3>2. Settlement(tx.req)' = Settlement(tx.req)
      BY <1>2, <2>3 DEF Settlement
    <3>3. \/ Outcome(tx.req)' = Outcome(tx.req)
          \/ Outcome(tx.req) = "pending" /\ Outcome(tx.req)' \in {"executed", "reverted"}
      BY <2>1, <2>3, <3>1 DEF Outcome, NONE, EXECUTED, REVERTED, ACCEPTED, REJECTED
    <3> QED
      BY <1>1, <2>2, <3>2, <3>3, MappedStep
  <2>4. CASE tx.req \notin Inbound
    <3>1. \/ bifrost[tx.req] = REQUESTED /\ status = ACCEPTED
          \/ tx.msg = EXECUTED /\ bifrost[tx.req] = ACCEPTED /\ status = COMMITTED
          \/ tx.msg = REVERTED /\ bifrost[tx.req] = ACCEPTED /\ status = ROLLBACKED
      BY <1>1, <2>4, OutboundVoteMoves
    <3>2. Outcome(tx.req)' = Outcome(tx.req)
      BY <1>2, <2>4 DEF Outcome
    <3>3. /\ tx.msg = EXECUTED => Outcome(tx.req) = "executed"
          /\ tx.msg = REVERTED => Outcome(tx.req) = "reverted"
      BY <1>1 DEF VoteSound, Claims
    <3>4. CASE bifrost[tx.req] = REQUESTED /\ status = ACCEPTED
      <4>1. Settlement(tx.req)' = Settlement(tx.req)
        BY <2>1, <2>4, <3>4 DEF Settlement, REQUESTED, ACCEPTED, COMMITTED, ROLLBACKED
      <4> QED
        BY <1>1, <2>2, <3>2, <4>1, MappedStep
    <3>5. CASE tx.msg = EXECUTED /\ bifrost[tx.req] = ACCEPTED /\ status = COMMITTED
      <4>1. Settlement(tx.req) = "open" /\ Settlement(tx.req)' = "committed"
        BY <2>1, <2>4, <3>5 DEF Settlement, ACCEPTED, COMMITTED, ROLLBACKED
      <4> QED
        BY <1>1, <2>2, <3>2, <3>3, <3>5, <4>1, MappedStep
    <3>6. CASE tx.msg = REVERTED /\ bifrost[tx.req] = ACCEPTED /\ status = ROLLBACKED
      <4>1. Settlement(tx.req) = "open" /\ Settlement(tx.req)' = "rollbacked"
        BY <2>1, <2>4, <3>6 DEF Settlement, ACCEPTED, COMMITTED, ROLLBACKED
      <4> QED
        BY <1>1, <2>2, <3>2, <3>3, <3>6, <4>1, MappedStep
    <3> QED
      BY <3>1, <3>4, <3>5, <3>6
  <2> QED
    BY <2>3, <2>4
<1> QED
  BY <1>3, <1>4 DEF CountVote

\* A certificate that the external chain takes is not empty, so somebody has
\* signed it, and CertificateSound says what happened to the request.
LEMMA CertificateBacked ==
  ASSUME IInv, NEW tx \in pool, tx.msg \in Aggregated, ExternalAccepts(tx), tx.req \in Inbound
  PROVE  /\ tx.msg = ACCEPTED => Outcome(tx.req) = "executed"
         /\ tx.msg = REJECTED => Outcome(tx.req) = "reverted"
<1>1. tx.cert # {}
  <2>1. Cardinality({}) = 0 /\ Quorum \in Nat \ {0}
    BY FS_EmptySet, ConstantsAssumption
  <2>2. Cardinality(tx.cert) >= Quorum
    BY DEF ExternalAccepts
  <2>3. tx.cert = {} => 0 >= Quorum
    BY <2>1, <2>2
  <2> QED
    BY <2>1, <2>3
<1>2. Signers(tx.req, tx.msg) # {}
  BY <1>1 DEF IInv, PoolSound, RelaySound
<1>3. tx.req \in Requests
  BY DEF IInv, TypeOK, Tx
<1> QED
  BY <1>2, <1>3 DEF IInv, CertificateSound

\* A relay settles an inbound request as its outcome says and gives an
\* outbound one its outcome.
LEMMA RelayImplements ==
  ASSUME IInv, NEW tx \in pool, tx.msg \in Aggregated, ExternalAccepts(tx), ApplyRelay(tx)
  PROVE  [Request!Next]_(Request!vars)
<1>1. TypeOK /\ tx.req \in Requests
  BY DEF IInv, TypeOK, Tx
<1>2. external \in [Requests -> Status] /\ UNCHANGED bifrost
  BY <1>1 DEF TypeOK, ApplyRelay
<1>3. PICK status \in Moves(tx.req, tx.msg, external[tx.req]) :
        external' = [external EXCEPT ![tx.req] = status]
  BY DEF ApplyRelay
<1>4. external'[tx.req] = status
      /\ \A q \in Requests \ {tx.req} : external'[q] = external[q]
  BY <1>1, <1>2, <1>3
<1>5. \A q \in Requests \ {tx.req} :
        Outcome(q)' = Outcome(q) /\ Settlement(q)' = Settlement(q)
  BY <1>2, <1>4 DEF Outcome, Settlement
<1>6. CASE tx.req \in Inbound
  <2>1. \/ tx.msg = ACCEPTED /\ external[tx.req] = REQUESTED /\ status = COMMITTED
        \/ tx.msg = REJECTED /\ external[tx.req] = REQUESTED /\ status = ROLLBACKED
    BY <1>6, InboundRelayMoves
  <2>2. Outcome(tx.req)' = Outcome(tx.req)
    BY <1>2, <1>6 DEF Outcome
  <2>3. Settlement(tx.req) = "open"
        /\ Settlement(tx.req)' = IF tx.msg = ACCEPTED THEN "committed" ELSE "rollbacked"
    BY <1>4, <1>6, <2>1 DEF Settlement, REQUESTED, ACCEPTED, REJECTED, COMMITTED, ROLLBACKED
  <2>4. \/ Outcome(tx.req) = "executed" /\ Settlement(tx.req)' = "committed"
        \/ Outcome(tx.req) = "reverted" /\ Settlement(tx.req)' = "rollbacked"
    BY <1>6, <2>1, <2>3, CertificateBacked DEF ACCEPTED, REJECTED
  <2> QED
    BY <1>1, <1>5, <2>2, <2>3, <2>4, MappedStep
<1>7. CASE tx.req \notin Inbound
  <2>1. external[tx.req] = NONE /\ status \in {EXECUTED, REVERTED}
    BY <1>1, <1>7, OutboundRelayMoves
  <2>2. Outcome(tx.req) = "pending" /\ Outcome(tx.req)' \in {"executed", "reverted"}
    BY <1>4, <1>7, <2>1 DEF Outcome, NONE, EXECUTED, REVERTED, ACCEPTED, REJECTED
  <2>3. Settlement(tx.req)' = Settlement(tx.req)
    BY <1>2, <1>7 DEF Settlement
  <2> QED
    BY <1>1, <1>5, <2>2, <2>3, MappedStep
<1> QED
  BY <1>6, <1>7

LEMMA InitImplements == Init => Request!Init
BY DEF Init, Request!Init, Outcome, Settlement, NONE, REQUESTED, EXECUTED, REVERTED,
       ACCEPTED, REJECTED, COMMITTED, ROLLBACKED

LEMMA NextImplements ==
  IInv /\ [Next]_vars => [Request!Next]_(Request!vars)
<1> SUFFICES ASSUME IInv, [Next]_vars PROVE [Request!Next]_(Request!vars)
  OBVIOUS
<1>1. ASSUME UNCHANGED <<bifrost, external>>
      PROVE  [Request!Next]_(Request!vars)
  BY <1>1 DEF Outcome, Settlement, Request!vars
<1>2. ASSUME NEW tx \in pool, Land(tx) PROVE [Request!Next]_(Request!vars)
  <2>1. CASE Accepts(tx) /\ ExecutePoll(tx)
    <3>1. CASE tx.msg \in Aggregated
      BY <2>1, <3>1, RelayImplements DEF Accepts, ExecutePoll
    <3>2. CASE tx.msg \notin Aggregated
      BY <2>1, <3>2, VoteImplements DEF Accepts, ExecutePoll
    <3> QED
      BY <3>1, <3>2
  <2>2. CASE UNCHANGED chainVars
    BY <1>1, <2>2 DEF chainVars
  <2> QED
    BY <1>2, <2>1, <2>2 DEF Land
<1>3. CASE \E r \in Relayers : Detect(r) \/ Handle(r) \/ Restart(r)
  BY <1>1, <1>3 DEF Detect, Handle, Restart, chainVars
<1>4. CASE \E tx \in pool : Lose(tx) \/ NoReceipt(tx)
  BY <1>1, <1>4 DEF Lose, NoReceipt, chainVars
<1>5. CASE NextRound \/ UNCHANGED vars
  BY <1>1, <1>5 DEF NextRound, vars, chainVars
<1> QED
  BY <1>2, <1>3, <1>4, <1>5 DEF Next

\* The protocol of the relayers and the two contracts implements RbcRequest:
\* one outcome for each request, and the settlement that fits it.
THEOREM RelayImplementsRequest == Spec => ImplementsRequest
<1>1. Init => Request!Init
  BY InitImplements
<1>2. IInv /\ [Next]_vars => [Request!Next]_(Request!vars)
  BY NextImplements
<1> QED
  BY <1>1, <1>2, Soundness, PTL DEF Spec, ImplementsRequest, Request!Spec

-----------------------------------------------------------------------------
\* What bootstrap keeps includes every event that is not finished, wherever in
\* the first round the scan begins: the latest event of a request is still the
\* latest of those scanned.
LEMMA BootstrapKeeps ==
  ASSUME TypeOK, NEW r \in Relayers, r \notin FastRelayers,
         NEW first \in {round - Offset, round - Offset + 1},
         NEW q \in Requests, NEW e \in Unfinished(r, q)
  PROVE  NewTask(q, e.status) \in Bootstrapped(r, first)
<1> DEFINE recent == {x \in events : x.round >= first}
           statuses == {o.status : o \in {x \in events : x.req = q}}
           scanned == {o.status : o \in {x \in recent : x.req = q}}
<1>1. /\ e \in events /\ e.req = q
      /\ IsLatest(q \in Inbound, e.status, statuses)
      /\ e.status \notin Final
      /\ e.round > round - Offset /\ round <= HistoryLimit
  BY DEF Unfinished
<1>2. /\ round \in Nat /\ Offset \in Nat /\ HistoryLimit \in Nat /\ e.round \in Nat
      /\ first \in Int
  BY <1>1, ConstantsAssumption DEF TypeOK, Event
<1>3. e.round >= first /\ round - HistoryLimit <= 0
  BY <1>1, <1>2
<1>4. e \in recent
  BY <1>1, <1>3
<1>5. IsLatest(q \in Inbound, e.status, scanned)
  <2>1. scanned \subseteq statuses /\ e.status \in scanned
    BY <1>1, <1>4
  <2> QED
    BY <1>1, <2>1 DEF IsLatest
<1> QED
  BY <1>1, <1>3, <1>4, <1>5 DEF Bootstrapped

\* Bootstrap does not raise: every request that it scans has a status that is ranked.
LEMMA BootstrapAnswers ==
  ASSUME EventsRanked, NEW first
  PROVE  ~BootstrapRaises(first)
<1> SUFFICES ASSUME NEW e \in events, e.round >= first
             PROVE  ~LatestRaises(e.req \in Inbound,
                       {o.status : o \in {x \in events : x.round >= first /\ x.req = e.req}})
  BY DEF BootstrapRaises
<1>1. e.status \in {o.status : o \in {x \in events : x.round >= first /\ x.req = e.req}}
  OBVIOUS
<1> QED
  BY <1>1 DEF EventsRanked, LatestRaises

LEMMA BootstrapStep ==
  ASSUME FastRelayers = {}, TypeOK, EventsRanked, [Next]_vars,
         NEW r \in Relayers, boots'[r] > boots[r],
         NEW q \in Requests, NEW e \in Unfinished(r, q)
  PROVE  \E t \in tasks'[r] : t.req = q /\ t.status = e.status
<1>1. boots' # boots
  BY DEF TypeOK
<1>2. PICK s \in Relayers : Restart(s)
  BY <1>1 DEF Next, vars, relayerVars, Detect, Handle, Land, Lose, NoReceipt, NextRound
<1>3. s = r
  BY <1>2 DEF Restart, TypeOK
<1>4. PICK first \in {round - Offset, round - Offset + 1} : tasks'[r] = Bootstrapped(r, first)
  BY <1>2, <1>3, BootstrapAnswers DEF Restart, TypeOK
<1>5. NewTask(q, e.status) \in tasks'[r]
  BY <1>4, BootstrapKeeps
<1> QED
  BY <1>5 DEF NewTask

\* Where no relayer is fast, a restart forgets no request that still needs the
\* relayer, whatever the limits of the history and of the scan are.
THEOREM BootstrapForgetsNothing ==
  ASSUME FastRelayers = {}
  PROVE  Spec => BootstrapDropsOnlyLate
<1>1. IInv /\ [Next]_vars =>
        [\A r \in Relayers : boots'[r] > boots[r] =>
           \A q \in Requests : \A e \in Unfinished(r, q) :
             \E t \in tasks'[r] : t.req = q /\ t.status = e.status]_vars
  BY BootstrapStep DEF IInv
<1> QED
  BY <1>1, Soundness, PTL DEF Spec, BootstrapDropsOnlyLate
=============================================================================
