--------------------------- MODULE RoundUpProofs ---------------------------
(***************************************************************************)
(* Proofs about RoundUp, for any relayers, chains, number of rounds and    *)
(* majorities, and any bound on faults and restarts.                       *)
(***************************************************************************)
EXTENDS RoundUp, FiniteSetTheorems, TLAPS

-----------------------------------------------------------------------------
(* Types. *)

LEMMA NewTaskType ==
  ASSUME NEW e \in Event
  PROVE  NewTask(e) \in Task
BY DEF NewTask, Task

LEMMA SendType ==
  ASSUME TypeOK, NEW tx \in Vote \union Relay, Send(tx)
  PROVE  pool' \subseteq Vote \union Relay
BY DEF Send, TypeOK

\* A new vote is one for a round that has begun.
LEMMA VoteType ==
  ASSUME NEW r \in Relayers, NEW n \in Rounds \ {0}, NEW m \in Rounds \ {0}
  PROVE  [kind |-> "vote", by |-> r, round |-> n, list |-> m] \in Vote
BY DEF Vote

\* A relay carries the signatures stored for the round of its event.
LEMMA RelayType ==
  ASSUME TypeOK, NEW r \in Relayers, NEW t \in Task, t.chain # NoChain
  PROVE  [kind |-> "relay", by |-> r, round |-> t.event.round, chain |-> t.chain,
          cert |-> polls[t.event.round]] \in Relay
<1>1. t.event.round \in Rounds \ {0} /\ t.chain \in Chains
  BY DEF Task, Event
<1>2. polls[t.event.round] \in SUBSET Relayers
  BY <1>1 DEF TypeOK
<1> QED
  BY <1>1, <1>2 DEF Relay

\* What takes the place of a task in the queue is a task.
LEMMA ReplaceType ==
  ASSUME TypeOK, NEW r \in Relayers, NEW t, NEW S \in SUBSET Task, Replace(r, t, S)
  PROVE  tasks' \in [Relayers -> SUBSET Task]
<1>1. (tasks[r] \ {t}) \union S \in SUBSET Task
  BY DEF TypeOK
<1> QED
  BY <1>1 DEF Replace, TypeOK

LEMMA HandleType ==
  ASSUME TypeOK, NEW r \in Relayers, Handle(r)
  PROVE  tasks' \in [Relayers -> SUBSET Task] /\ pool' \subseteq Vote \union Relay
<1> PICK t \in tasks[r] : Split(r, t) \/ SendRelay(r, t) \/ Defer(r, t) \/ Drop(r, t)
  BY DEF Handle
<1>1. t \in Task
  BY DEF TypeOK
<1>2. pool \subseteq Vote \union Relay
  BY DEF TypeOK
<1>3. CASE Split(r, t)
  <2>1. {[t EXCEPT !.chain = c] : c \in Chains} \in SUBSET Task
    BY <1>1 DEF Task
  <2> QED
    BY <1>2, <1>3, <2>1, ReplaceType DEF Split
<1>4. CASE SendRelay(r, t)
  <2>1. tasks' \in [Relayers -> SUBSET Task]
    BY <1>4, ReplaceType DEF SendRelay
  <2> QED
    BY <1>1, <1>4, <2>1, RelayType, SendType DEF SendRelay
<1>5. CASE Defer(r, t)
  <2>1. {[t EXCEPT !.aggregated = FALSE]} \in SUBSET Task
    BY <1>1 DEF Task
  <2> QED
    BY <1>2, <1>5, <2>1, ReplaceType DEF Defer
<1>6. CASE Drop(r, t)
  BY <1>2, <1>6, ReplaceType DEF Drop
<1> QED
  BY <1>3, <1>4, <1>5, <1>6

LEMMA CheckRoundType ==
  ASSUME TypeOK, NEW r \in Relayers, CheckRound(r)
  PROVE  TypeOK'
<1>1. round \in Rounds \ {0}
  BY DEF TypeOK
<1>2. reading' \in [Relayers -> Rounds]
  BY <1>1, RoundUpAssumption DEF CheckRound, TypeOK, Rounds
<1>3. cached' \in [Relayers -> Rounds]
  BY <1>1 DEF CheckRound, TypeOK
<1>4. known' \in [Relayers -> SUBSET Rounds]
  <2>1. known[r] \in SUBSET Rounds
    BY DEF TypeOK
  <2>2. known[r] \union {round} \in SUBSET Rounds
    BY <1>1, <2>1
  <2> QED
    BY <2>1, <2>2 DEF CheckRound, TypeOK
<1> QED
  BY <1>2, <1>3, <1>4 DEF CheckRound, contractVars, TypeOK

LEMMA BuildVoteType ==
  ASSUME TypeOK, NEW r \in Relayers, BuildVote(r)
  PROVE  TypeOK'
<1>1. round \in Rounds \ {0} /\ reading[r] \in Rounds \ {0} /\ 0 \in Rounds
  BY RoundUpAssumption DEF BuildVote, Idle, TypeOK, Rounds
<1>2. pool' \subseteq Vote \union Relay
  BY <1>1, VoteType, SendType DEF BuildVote
<1>3. reading' \in [Relayers -> Rounds]
  BY <1>1 DEF BuildVote, TypeOK
<1> QED
  BY <1>2, <1>3 DEF BuildVote, contractVars, TypeOK

LEMMA CheckMyEventType ==
  ASSUME TypeOK, NEW r \in Relayers, CheckMyEvent(r)
  PROVE  TypeOK'
<1> PICK n \in 1..round : known' = [known EXCEPT ![r] = @ \union {n}]
  BY DEF CheckMyEvent
<1>1. n \in Rounds
  BY RoundUpAssumption DEF TypeOK, Rounds
<1>2. known[r] \union {n} \in SUBSET Rounds
  BY <1>1 DEF TypeOK
<1>3. known' \in [Relayers -> SUBSET Rounds]
  BY <1>2 DEF TypeOK
<1> QED
  BY <1>3 DEF CheckMyEvent, contractVars, TypeOK

LEMMA DetectType ==
  ASSUME TypeOK, NEW r \in Relayers, Detect(r)
  PROVE  TypeOK'
<1> PICK e \in events \ seen[r] :
      /\ seen' = [seen EXCEPT ![r] = @ \union {e}]
      /\ tasks' = [tasks EXCEPT ![r] = @ \union {NewTask(e)}]
      /\ UNCHANGED <<round, contractVars, cached, reading, known, boots, pool, faults>>
  BY DEF Detect
<1>1. e \in Event /\ NewTask(e) \in Task
  BY NewTaskType DEF TypeOK
<1> QED
  BY <1>1 DEF contractVars, TypeOK

LEMMA LandType ==
  ASSUME TypeOK, NEW tx \in pool, Land(tx)
  PROVE  TypeOK'
<1>1. tx \in Vote \union Relay
  BY DEF TypeOK
<1>2. CASE UNCHANGED contractVars
  BY <1>2 DEF Land, contractVars, TypeOK
<1>3. CASE tx.kind = "vote" /\ CountVote(tx)
  <2>1. tx.by \in Relayers /\ tx.round \in Rounds \ {0}
    BY <1>1, <1>3 DEF Vote, Relay
  <2>2. polls[tx.round] \union {tx.by} \in SUBSET Relayers
    BY <2>1 DEF TypeOK
  <2>3. polls' \in [Rounds -> SUBSET Relayers]
    BY <1>3, <2>2 DEF CountVote, TypeOK
  <2>4. tx.round - 1 \in Rounds
    BY <2>1, RoundUpAssumption DEF Rounds
  <2>5. events' \subseteq Event
    <3>1. \A p \in Selected[tx.round - 1] :
            [round |-> tx.round, primary |-> p, at |-> round] \in Event
      BY <2>1, <2>4, RoundUpAssumption DEF Event, TypeOK
    <3> QED
      BY <1>3, <3>1 DEF CountVote, TypeOK
  <2> QED
    BY <1>3, <2>3, <2>5 DEF Land, CountVote, TypeOK
<1>4. CASE tx.kind = "relay" /\ TakeOver(tx)
  <2>1. tx.chain \in Chains /\ tx.round \in Rounds
    BY <1>1, <1>4 DEF Vote, Relay
  <2> QED
    BY <1>4, <2>1 DEF Land, TakeOver, TypeOK
<1> QED
  BY <1>2, <1>3, <1>4 DEF Land

LEMMA RestartType ==
  ASSUME TypeOK, NEW r \in Relayers, Restart(r)
  PROVE  TypeOK'
<1> PICK first \in {round - Offset, round - Offset + 1} :
      tasks' = [tasks EXCEPT ![r] = Bootstrapped(first)]
  BY DEF Restart
<1>1. Bootstrapped(first) \in SUBSET Task
  BY NewTaskType DEF Bootstrapped, TypeOK
<1>2. Registered \in SUBSET Rounds
  BY RoundUpAssumption, SMTT(30) DEF Registered, Rounds, TypeOK
<1>3. boots[r] + 1 \in 0..MaxRestarts
  BY RoundUpAssumption DEF Restart, TypeOK
<1>4. cached' \in [Relayers -> Rounds] /\ reading' \in [Relayers -> Rounds]
  BY RoundUpAssumption DEF Restart, TypeOK, Rounds
<1>5. boots' \in [Relayers -> 0..MaxRestarts] /\ known' \in [Relayers -> SUBSET Rounds]
      /\ tasks' \in [Relayers -> SUBSET Task] /\ seen' \in [Relayers -> SUBSET Event]
  BY <1>1, <1>2, <1>3 DEF Restart, TypeOK
<1> QED
  BY <1>4, <1>5 DEF Restart, contractVars, TypeOK

LEMMA NextType == TypeOK /\ [Next]_vars => TypeOK'
<1> SUFFICES ASSUME TypeOK, [Next]_vars PROVE TypeOK'
  OBVIOUS
<1>1. ASSUME NEW r \in Relayers, Handle(r) PROVE TypeOK'
  BY <1>1, HandleType DEF Handle, contractVars, TypeOK
<1>2. ASSUME NEW tx \in pool, Lose(tx) PROVE TypeOK'
  BY <1>2, RoundUpAssumption DEF Lose, contractVars, TypeOK
<1>3. CASE NextRound
  BY <1>3, RoundUpAssumption DEF NextRound, contractVars, TypeOK, Rounds
<1>4. CASE UNCHANGED vars
  BY <1>4 DEF vars, contractVars, TypeOK
<1> QED
  BY <1>1, <1>2, <1>3, <1>4, CheckRoundType, BuildVoteType, CheckMyEventType, DetectType,
     LandType, RestartType DEF Next

LEMMA InitType == Init => TypeOK
<1> SUFFICES ASSUME Init PROVE TypeOK
  OBVIOUS
<1>1. 1 \in Rounds \ {0} /\ 0 \in Rounds /\ 0 \in 0..MaxRestarts /\ 0 \in 0..MaxFaults
  BY RoundUpAssumption DEF Rounds
<1> QED
  BY <1>1 DEF Init, TypeOK

\* The variables keep their types.
THEOREM TypeCorrect == Spec => []TypeOK
BY InitType, NextType, PTL DEF Spec

-----------------------------------------------------------------------------
(* Signatures. *)

\* A majority among the signatures of a relay is one among the stored ones.
LEMMA CertEndorses ==
  ASSUME TypeOK, VotesOwn, CertsStored, NEW tx \in pool, tx.kind = "relay", TakesRelay(tx)
  PROVE  /\ tx.round \in Rounds \ {0} /\ tx.chain \in Chains
         /\ Cardinality(polls[tx.round] \intersect Selected[tx.round - 1])
              >= Majority[tx.round - 1]
<1>1. tx.round \in Rounds \ {0} /\ tx.chain \in Chains /\ tx.round - 1 \in Rounds
  <2>1. tx \in Vote \union Relay
    BY DEF TypeOK
  <2>2. tx.round \in Rounds \ {0} /\ tx.chain \in Chains
    BY <2>1 DEF Vote, Relay
  <2> QED
    BY <2>2, RoundUpAssumption DEF Rounds
<1> DEFINE S == polls[tx.round] \intersect Selected[tx.round - 1]
<1>2. tx.cert \subseteq S
  BY <1>1 DEF VotesOwn, CertsStored
<1>3. IsFiniteSet(S)
  BY <1>1, FS_Subset, RoundUpAssumption DEF TypeOK
<1>4. Cardinality(tx.cert) <= Cardinality(S)
  BY <1>2, <1>3, FS_Subset
<1>5. Cardinality(tx.cert) \in Nat /\ Cardinality(S) \in Nat /\ Majority[tx.round - 1] \in Nat
  BY <1>1, <1>2, <1>3, FS_Subset, FS_CardinalityType, RoundUpAssumption
<1> QED
  BY <1>1, <1>4, <1>5 DEF TakesRelay

LEMMA InitSound == Init => IInv
<1> SUFFICES ASSUME Init PROVE IInv
  OBVIOUS
<1>1. VotesOwn /\ CertsStored
  BY DEF Init, VotesOwn, CertsStored
<1>2. Endorsed
  BY DEF Init, Endorsed
<1>3. VotesBegun
  BY DEF Init, VotesBegun
<1> QED
  BY <1>1, <1>2, <1>3, InitType DEF IInv

\* Steps that add no vote, no relay and no signature, begin no vote, and leave
\* the chains alone.
LEMMA QuietSound ==
  ASSUME IInv, TypeOK', UNCHANGED <<polls, latest>>, pool' \subseteq pool,
         \A r \in Relayers : reading'[r] \in {0, reading[r]}
  PROVE  VotesOwn' /\ CertsStored' /\ Endorsed'
BY DEF IInv, VotesOwn, CertsStored, Endorsed

LEMMA CheckRoundSound ==
  ASSUME IInv, TypeOK', NEW r \in Relayers, CheckRound(r)
  PROVE  VotesOwn' /\ CertsStored' /\ Endorsed'
<1>1. UNCHANGED <<polls, latest, pool>>
  BY DEF CheckRound, contractVars
<1>2. reading' = [reading EXCEPT ![r] = IF MayVote(r, round) THEN round ELSE 0]
      /\ reading \in [Relayers -> Rounds]
  BY DEF CheckRound, IInv, TypeOK
<1>3. ASSUME NEW s \in Relayers, reading'[s] # 0
      PROVE  s \in Selected[reading'[s] - 1]
  <2>1. CASE s = r
    BY <1>2, <1>3, <2>1 DEF MayVote
  <2>2. CASE s # r
    BY <1>2, <1>3, <2>2 DEF IInv, VotesOwn
  <2> QED
    BY <2>1, <2>2
<1>4. VotesOwn'
  BY <1>1, <1>3 DEF IInv, VotesOwn
<1> QED
  BY <1>1, <1>4 DEF IInv, CertsStored, Endorsed

LEMMA BuildVoteSound ==
  ASSUME IInv, TypeOK', NEW r \in Relayers, BuildVote(r)
  PROVE  VotesOwn' /\ CertsStored' /\ Endorsed'
<1> DEFINE tx == [kind |-> "vote", by |-> r, round |-> reading[r], list |-> round]
<1>1. pool' \subseteq pool \union {tx} /\ UNCHANGED <<polls, latest>>
  BY DEF BuildVote, Send, contractVars
<1>2. \A s \in Relayers : reading'[s] \in {0, reading[s]}
  BY DEF BuildVote, IInv, TypeOK
<1>3. tx.kind = "vote" /\ tx.by \in Selected[tx.round - 1]
  BY DEF BuildVote, Idle, IInv, VotesOwn
<1>4. VotesOwn' /\ CertsStored'
  BY <1>1, <1>2, <1>3 DEF IInv, VotesOwn, CertsStored
<1> QED
  BY <1>1, <1>4 DEF IInv, Endorsed

LEMMA HandleSound ==
  ASSUME IInv, TypeOK', NEW r \in Relayers, Handle(r)
  PROVE  VotesOwn' /\ CertsStored' /\ Endorsed'
<1> PICK t \in tasks[r] : Split(r, t) \/ SendRelay(r, t) \/ Defer(r, t) \/ Drop(r, t)
  BY DEF Handle
<1>1. UNCHANGED <<polls, latest, reading>>
  BY DEF Handle, contractVars
<1>2. CASE Split(r, t) \/ Defer(r, t) \/ Drop(r, t)
  BY <1>1, <1>2, QuietSound DEF Split, Defer, Drop
<1>3. CASE SendRelay(r, t)
  <2> DEFINE tx == [kind |-> "relay", by |-> r, round |-> t.event.round,
                    chain |-> t.chain, cert |-> polls[t.event.round]]
  <2>1. pool' \subseteq pool \union {tx}
    BY <1>3 DEF SendRelay, Send
  <2>2. tx.kind = "relay" /\ tx.cert \subseteq polls[tx.round]
    OBVIOUS
  <2>3. VotesOwn' /\ CertsStored'
    BY <1>1, <2>1, <2>2 DEF IInv, VotesOwn, CertsStored
  <2> QED
    BY <1>1, <2>3 DEF IInv, Endorsed
<1> QED
  BY <1>2, <1>3

LEMMA LandSound ==
  ASSUME IInv, TypeOK', NEW tx \in pool, Land(tx)
  PROVE  VotesOwn' /\ CertsStored' /\ Endorsed'
<1>1. pool' = pool \ {tx} /\ tx \in Vote \union Relay /\ reading' = reading
  BY DEF Land, IInv, TypeOK
<1>2. CASE UNCHANGED contractVars
  BY <1>1, <1>2, QuietSound DEF contractVars
<1>3. CASE tx.kind = "vote" /\ CountVote(tx)
  <2>1. tx.round \in Rounds \ {0} /\ tx.by \in Selected[tx.round - 1] /\ tx.by \in Relayers
    BY <1>1, <1>3 DEF IInv, VotesOwn, Vote, Relay
  <2>2. polls \in [Rounds -> SUBSET Relayers] /\ latest \in [Chains -> Rounds]
    BY DEF IInv, TypeOK
  <2>3. polls' = [polls EXCEPT ![tx.round] = @ \union {tx.by}] /\ latest' = latest
    BY <1>3 DEF CountVote
  <2>4. \A n \in Rounds : polls[n] \subseteq polls'[n]
    BY <2>1, <2>2, <2>3
  <2>5. VotesOwn'
    BY <1>1, <2>1, <2>2, <2>3 DEF IInv, VotesOwn
  <2>6. CertsStored'
    <3> SUFFICES ASSUME NEW w \in pool', w.kind = "relay"
                 PROVE  w.cert \subseteq polls'[w.round]
      BY DEF CertsStored
    <3>1. w \in pool /\ w.round \in Rounds
      BY <1>1 DEF IInv, TypeOK, Vote, Relay
    <3> QED
      BY <2>4, <3>1 DEF IInv, CertsStored
  <2>7. Endorsed'
    <3> SUFFICES ASSUME NEW c \in Chains, latest[c] > 1
                 PROVE  Cardinality(polls'[latest[c]] \intersect Selected[latest[c] - 1])
                          >= Majority[latest[c] - 1]
      BY <2>3 DEF Endorsed
    <3> DEFINE n == latest[c]
               old == polls[n] \intersect Selected[n - 1]
               new == polls'[n] \intersect Selected[n - 1]
    <3>1. n \in Rounds /\ n - 1 \in Rounds
      BY <2>2, RoundUpAssumption DEF Rounds
    <3>2. old \subseteq new /\ IsFiniteSet(new)
      BY <2>4, <3>1, FS_Subset, RoundUpAssumption DEF TypeOK
    <3>3. Cardinality(old) <= Cardinality(new) /\ Cardinality(new) \in Nat
          /\ Cardinality(old) \in Nat
      BY <3>2, FS_Subset, FS_CardinalityType
    <3>4. Cardinality(old) >= Majority[n - 1] /\ Majority[n - 1] \in Nat
      BY <3>1, RoundUpAssumption DEF IInv, Endorsed
    <3> QED
      BY <3>3, <3>4
  <2> QED
    BY <2>5, <2>6, <2>7 DEF IInv
<1>4. CASE TakesRelay(tx) /\ tx.kind = "relay" /\ TakeOver(tx)
  <2>1. /\ tx.round \in Rounds \ {0} /\ tx.chain \in Chains
        /\ Cardinality(polls[tx.round] \intersect Selected[tx.round - 1])
             >= Majority[tx.round - 1]
    BY <1>4, CertEndorses DEF IInv
  <2>2. polls' = polls /\ latest' = [latest EXCEPT ![tx.chain] = tx.round]
    BY <1>4 DEF TakeOver
  <2>3. VotesOwn' /\ CertsStored'
    BY <1>1, <2>2 DEF IInv, VotesOwn, CertsStored
  <2>4. Endorsed'
    <3> SUFFICES ASSUME NEW c \in Chains, latest'[c] > 1
                 PROVE  Cardinality(polls[latest'[c]] \intersect Selected[latest'[c] - 1])
                          >= Majority[latest'[c] - 1]
      BY <2>2 DEF Endorsed
    <3>1. latest \in [Chains -> Rounds]
      BY DEF IInv, TypeOK
    <3>2. CASE c = tx.chain
      BY <2>1, <2>2, <3>1, <3>2
    <3>3. CASE c # tx.chain
      BY <2>2, <3>1, <3>3 DEF IInv, Endorsed
    <3> QED
      BY <3>2, <3>3
  <2> QED
    BY <2>3, <2>4 DEF IInv
<1> QED
  BY <1>1, <1>2, <1>3, <1>4 DEF Land, Accepts

\* Signatures are made in the rounds they are for.
LEMMA NextBegun ==
  ASSUME IInv, TypeOK', [Next]_vars
  PROVE  VotesBegun'
<1>1. TypeOK /\ VotesBegun /\ round \in Nat /\ round' \in Nat
  BY RoundUpAssumption DEF IInv, TypeOK, Rounds
<1>2. ASSUME round' >= round, UNCHANGED <<polls, latest>>,
             \A r \in Relayers : cached'[r] >= 1 /\ reading'[r] \in {0, reading[r]},
             \A tx \in pool' : tx \in pool \/ (tx.kind = "vote" => tx.round \in BegunRounds)
      PROVE  VotesBegun'
  <2>1. BegunRounds \subseteq BegunRounds'
    BY <1>1, <1>2 DEF BegunRounds
  <2> QED
    BY <1>1, <1>2, <2>1 DEF VotesBegun
<1>3. ASSUME NEW r \in Relayers, CheckRound(r) PROVE VotesBegun'
  <2>1. /\ UNCHANGED <<round, polls, latest, pool>>
        /\ cached' = [cached EXCEPT ![r] = round] /\ cached[r] < round
        /\ reading' = [reading EXCEPT ![r] = IF MayVote(r, round) THEN round ELSE 0]
    BY <1>3 DEF CheckRound, contractVars
  <2>2. BegunRounds' = BegunRounds
    BY <2>1 DEF BegunRounds
  <2>3. round \in BegunRounds /\ round >= 1
    <3>1. cached[r] \in Nat /\ cached[r] >= 1
      BY <1>1, RoundUpAssumption DEF VotesBegun, TypeOK, Rounds
    <3> QED
      BY <1>1, <2>1, <3>1 DEF BegunRounds
  <2>4. \A s \in Relayers : cached'[s] >= 1 /\ (reading'[s] # 0 => reading'[s] \in BegunRounds)
    BY <1>1, <2>1, <2>3 DEF VotesBegun, TypeOK
  <2> QED
    BY <1>1, <2>1, <2>2, <2>4 DEF VotesBegun
<1>4. ASSUME NEW r \in Relayers, BuildVote(r) PROVE VotesBegun'
  <2> DEFINE tx == [kind |-> "vote", by |-> r, round |-> reading[r], list |-> round]
  <2>1. /\ pool' \subseteq pool \union {tx} /\ tx.round \in BegunRounds
        /\ UNCHANGED <<round, polls, latest, cached>>
    BY <1>1, <1>4 DEF BuildVote, Send, Idle, contractVars, VotesBegun
  <2>2. \A s \in Relayers : cached'[s] >= 1 /\ reading'[s] \in {0, reading[s]}
    BY <1>1, <1>4, <2>1 DEF BuildVote, VotesBegun, TypeOK
  <2> QED
    BY <1>1, <1>2, <2>1, <2>2
<1>5. ASSUME NEW r \in Relayers, CheckMyEvent(r) \/ Detect(r) \/ Handle(r) PROVE VotesBegun'
  <2>1. UNCHANGED <<round, polls, latest, cached, reading>>
    BY <1>5 DEF CheckMyEvent, Detect, Handle, contractVars
  <2>2. \A tx \in pool' : tx \in pool \/ tx.kind = "relay"
    <3>1. CASE CheckMyEvent(r) \/ Detect(r)
      BY <3>1 DEF CheckMyEvent, Detect
    <3>2. CASE Handle(r)
      <4>1. PICK t \in tasks[r] : Split(r, t) \/ SendRelay(r, t) \/ Defer(r, t) \/ Drop(r, t)
        BY <3>2 DEF Handle
      <4>2. CASE SendRelay(r, t)
        BY <4>2 DEF SendRelay, Send
      <4>3. CASE Split(r, t) \/ Defer(r, t) \/ Drop(r, t)
        BY <4>3 DEF Split, Defer, Drop
      <4> QED
        BY <4>1, <4>2, <4>3
    <3> QED
      BY <1>5, <3>1, <3>2
  <2> QED
    BY <1>1, <1>2, <2>1, <2>2 DEF VotesBegun
<1>6. ASSUME NEW r \in Relayers, Restart(r) PROVE VotesBegun'
  <2>1. PICK n \in Rounds : IsBottomRound(n) /\ cached' = [cached EXCEPT ![r] = n]
    BY <1>6 DEF Restart
  <2>2. n >= 1
    BY <1>1, <2>1 DEF IsBottomRound, VotesBegun, TypeOK, Rounds
  <2>3. UNCHANGED <<round, polls, latest, pool>> /\ reading' = [reading EXCEPT ![r] = 0]
    BY <1>6 DEF Restart, contractVars
  <2>4. \A s \in Relayers : cached'[s] >= 1 /\ reading'[s] \in {0, reading[s]}
    BY <1>1, <2>1, <2>2, <2>3 DEF VotesBegun, TypeOK
  <2> QED
    BY <1>1, <1>2, <2>3, <2>4
<1>7. ASSUME NEW tx \in pool, Land(tx) PROVE VotesBegun'
  <2>1. UNCHANGED <<round, cached, reading>> /\ pool' \subseteq pool
    BY <1>7 DEF Land
  <2>2. BegunRounds' = BegunRounds
    BY <2>1 DEF BegunRounds
  <2>3. tx \in Vote \union Relay
    BY <1>1 DEF TypeOK
  <2>4. \A n \in Rounds : polls'[n] # {} => n \in BegunRounds
    <3>1. CASE polls' = polls
      BY <1>1, <3>1 DEF VotesBegun
    <3>2. CASE tx.kind = "vote" /\ CountVote(tx)
      BY <1>1, <3>2 DEF CountVote, VotesBegun, TypeOK
    <3> QED
      BY <1>7, <3>1, <3>2 DEF Land, TakeOver, contractVars
  <2>5. \A c \in Chains : latest'[c] >= 1
    <3>1. CASE latest' = latest
      BY <1>1, <3>1 DEF VotesBegun
    <3>2. CASE tx.kind = "relay" /\ TakeOver(tx)
      <4>1. tx.round \in Rounds \ {0}
        BY <2>3, <3>2 DEF Vote, Relay
      <4>2. tx.round >= 1
        BY <4>1, RoundUpAssumption DEF Rounds
      <4> QED
        BY <1>1, <3>2, <4>2 DEF TakeOver, VotesBegun, TypeOK
    <3> QED
      BY <1>7, <3>1, <3>2 DEF Land, CountVote, contractVars
  <2> QED
    BY <1>1, <2>1, <2>2, <2>4, <2>5 DEF VotesBegun
<1>8. ASSUME NEW tx \in pool, Lose(tx) PROVE VotesBegun'
  BY <1>1, <1>2, <1>8 DEF Lose, contractVars, VotesBegun
<1>9. CASE NextRound
  BY <1>1, <1>2, <1>9 DEF NextRound, contractVars, VotesBegun
<1>10. CASE UNCHANGED vars
  BY <1>1, <1>2, <1>10 DEF vars, contractVars, VotesBegun
<1> QED
  BY <1>3, <1>4, <1>5, <1>6, <1>7, <1>8, <1>9, <1>10 DEF Next

LEMMA NextSound == IInv /\ [Next]_vars => IInv'
<1> SUFFICES ASSUME IInv, [Next]_vars PROVE IInv'
  OBVIOUS
<1>1. TypeOK'
  BY NextType DEF IInv
<1> DEFINE Goal == VotesOwn' /\ CertsStored' /\ Endorsed'
<1>2. ASSUME NEW r \in Relayers, CheckMyEvent(r) \/ Detect(r) \/ Restart(r) PROVE Goal
  <2>1. \A s \in Relayers : reading'[s] \in {0, reading[s]}
    BY <1>2 DEF CheckMyEvent, Detect, Restart, IInv, TypeOK
  <2> QED
    BY <1>1, <1>2, <2>1, QuietSound DEF CheckMyEvent, Detect, Restart, contractVars
<1>3. ASSUME NEW tx \in pool, Lose(tx) PROVE Goal
  BY <1>1, <1>3, QuietSound DEF Lose, contractVars
<1>4. ASSUME NextRound \/ UNCHANGED vars PROVE Goal
  BY <1>1, <1>4, QuietSound DEF NextRound, vars, contractVars
<1>5. Goal
  BY <1>1, <1>2, <1>3, <1>4, CheckRoundSound, BuildVoteSound, HandleSound, LandSound DEF Next
<1> QED
  BY <1>1, <1>5, NextBegun DEF IInv

\* Every signature for the list of a round is by a relayer of the round before.
THEOREM SignaturesAreOwn == Spec => []IInv
BY InitSound, NextSound, PTL DEF Spec

\* A chain only takes over a list that a majority of the round before signed.
THEOREM ListsAreEndorsed == Spec => []Endorsed
<1>1. IInv => Endorsed
  BY DEF IInv
<1> QED
  BY <1>1, SignaturesAreOwn, PTL

-----------------------------------------------------------------------------
(* The implementation of Handover. *)

LEMMA InitImplements == Init => Lists!Init
<1> SUFFICES ASSUME Init PROVE Lists!Init
  OBVIOUS
<1>1. ASSUME NEW n \in Rounds \ {0}
      PROVE  ~(Cardinality(polls[n] \intersect Selected[n - 1]) >= Majority[n - 1])
  <2>1. polls[n] \intersect Selected[n - 1] = {}
    BY DEF Init
  <2>2. Cardinality(polls[n] \intersect Selected[n - 1]) = 0
    BY <2>1, FS_EmptySet
  <2>3. Majority[n - 1] \in Nat \ {0}
    BY RoundUpAssumption DEF Rounds
  <2> QED
    BY <2>1, <2>2, <2>3
<1>2. EndorsedRounds = {}
  BY <1>1 DEF EndorsedRounds
<1> QED
  BY <1>2 DEF Init, Lists!Init

\* Only a round that has begun has a majority of signatures.
LEMMA EndorsedBegun ==
  ASSUME TypeOK, VotesBegun
  PROVE  EndorsedRounds \subseteq BegunRounds
<1> SUFFICES ASSUME NEW n \in EndorsedRounds PROVE n \in BegunRounds
  OBVIOUS
<1>1. n \in Rounds \ {0} /\ Majority[n - 1] \in Nat \ {0}
  BY RoundUpAssumption DEF EndorsedRounds, Rounds
<1>2. polls[n] \intersect Selected[n - 1] # {}
  <2>1. Cardinality(polls[n] \intersect Selected[n - 1]) >= Majority[n - 1]
    BY DEF EndorsedRounds
  <2>2. polls[n] \intersect Selected[n - 1] = {} =>
          Cardinality(polls[n] \intersect Selected[n - 1]) = 0
    BY FS_EmptySet
  <2> QED
    BY <1>1, <2>1, <2>2
<1> QED
  BY <1>1, <1>2 DEF VotesBegun

\* A vote endorses the list of its round or none.
LEMMA VoteImplements ==
  ASSUME IInv, IInv', NEW tx \in pool, Land(tx), tx.kind = "vote", CountVote(tx)
  PROVE  [Lists!Next]_(Lists!vars)
<1> DEFINE n == tx.round
<1>1. /\ n \in Rounds \ {0} /\ polls \in [Rounds -> SUBSET Relayers]
      /\ polls' = [polls EXCEPT ![n] = @ \union {tx.by}]
      /\ UNCHANGED <<round, latest>>
  BY DEF IInv, TypeOK, Vote, Relay, Land, CountVote
<1>2. \A m \in Rounds \ {0, n} : polls'[m] = polls[m]
  BY <1>1
<1>3. \A m \in Rounds \ {0, n} : m \in EndorsedRounds' <=> m \in EndorsedRounds
  BY <1>2 DEF EndorsedRounds
<1>4. EndorsedRounds \subseteq Rounds \ {0} /\ EndorsedRounds' \subseteq Rounds \ {0}
  BY DEF EndorsedRounds
<1>5. n \in EndorsedRounds => n \in EndorsedRounds'
  <2> SUFFICES ASSUME n \in EndorsedRounds PROVE n \in EndorsedRounds'
    OBVIOUS
  <2> DEFINE old == polls[n] \intersect Selected[n - 1]
             new == polls'[n] \intersect Selected[n - 1]
  <2>1. old \subseteq new /\ new \subseteq Relayers
    BY <1>1 DEF IInv, TypeOK
  <2>2. IsFiniteSet(new) /\ IsFiniteSet(old)
    BY <2>1, FS_Subset, RoundUpAssumption
  <2>3. Cardinality(old) <= Cardinality(new) /\ Cardinality(new) \in Nat
        /\ Cardinality(old) \in Nat
    BY <2>1, <2>2, FS_Subset, FS_CardinalityType
  <2>4. Cardinality(old) >= Majority[n - 1]
    BY DEF EndorsedRounds
  <2>5. Majority[n - 1] \in Nat
    BY <1>1, RoundUpAssumption DEF Rounds
  <2>6. Cardinality(new) >= Majority[n - 1]
    BY <2>3, <2>4, <2>5
  <2> QED
    BY <1>1, <2>6 DEF EndorsedRounds
<1>6. CASE n \in EndorsedRounds \/ n \notin EndorsedRounds'
  <2>1. EndorsedRounds' = EndorsedRounds
    BY <1>3, <1>4, <1>5, <1>6
  <2> QED
    BY <1>1, <2>1 DEF Lists!vars
<1>7. CASE n \notin EndorsedRounds /\ n \in EndorsedRounds'
  <2>1. EndorsedRounds' = EndorsedRounds \union {n}
    BY <1>3, <1>4, <1>7
  <2>2. n \in 2..round
    BY <1>1, <1>7, EndorsedBegun DEF IInv, BegunRounds, VotesBegun, CountVote
  <2>3. Lists!Endorse(n)
    BY <1>1, <1>7, <2>1 DEF Lists!Endorse
  <2> QED
    BY <2>2, <2>3 DEF Lists!Next
<1> QED
  BY <1>6, <1>7

\* A relay takes a chain forward to an endorsed list.
LEMMA RelayImplements ==
  ASSUME IInv, NEW tx \in pool, Land(tx), tx.kind = "relay", TakesRelay(tx), TakeOver(tx)
  PROVE  [Lists!Next]_(Lists!vars)
<1>1. /\ tx.round \in Rounds \ {0} /\ tx.chain \in Chains
      /\ Cardinality(polls[tx.round] \intersect Selected[tx.round - 1])
           >= Majority[tx.round - 1]
  BY CertEndorses DEF IInv
<1>2. tx.round \in EndorsedRounds
  BY <1>1 DEF EndorsedRounds
<1>3. UNCHANGED <<round, polls>> /\ EndorsedRounds' = EndorsedRounds
  BY DEF Land, TakeOver, EndorsedRounds
<1>4. Lists!TakeOver(tx.chain, tx.round)
  BY <1>3 DEF Lists!TakeOver, TakeOver, TakesRelay
<1> QED
  BY <1>1, <1>2, <1>4 DEF Lists!Next

LEMMA NextImplements ==
  IInv /\ IInv' /\ [Next]_vars => [Lists!Next]_(Lists!vars)
<1> SUFFICES ASSUME IInv, IInv', [Next]_vars PROVE [Lists!Next]_(Lists!vars)
  OBVIOUS
<1>1. ASSUME UNCHANGED polls PROVE UNCHANGED EndorsedRounds
  BY <1>1 DEF EndorsedRounds
<1>2. ASSUME UNCHANGED <<round, polls, latest>> PROVE UNCHANGED Lists!vars
  BY <1>1, <1>2 DEF Lists!vars
<1>3. ASSUME NEW tx \in pool, Land(tx) PROVE [Lists!Next]_(Lists!vars)
  <2>1. CASE UNCHANGED contractVars
    BY <1>2, <1>3, <2>1 DEF Land, contractVars
  <2>2. CASE tx.kind = "vote" /\ CountVote(tx)
    BY <1>3, <2>2, VoteImplements
  <2>3. CASE Accepts(tx) /\ tx.kind = "relay" /\ TakeOver(tx)
    BY <1>3, <2>3, RelayImplements DEF Accepts
  <2> QED
    BY <1>3, <2>1, <2>2, <2>3 DEF Land
<1>4. CASE NextRound
  <2>1. UNCHANGED <<polls, latest>> /\ round < MaxRound /\ round' = round + 1
    BY <1>4 DEF NextRound, contractVars
  <2>2. Lists!Begin
    BY <1>1, <2>1 DEF Lists!Begin
  <2> QED
    BY <2>2 DEF Lists!Next
<1>5. CASE \E r \in Relayers : \/ CheckRound(r) \/ BuildVote(r) \/ CheckMyEvent(r)
                               \/ Detect(r) \/ Handle(r) \/ Restart(r)
  BY <1>2, <1>5 DEF CheckRound, BuildVote, CheckMyEvent, Detect, Handle, Restart, contractVars
<1>6. CASE (\E tx \in pool : Lose(tx)) \/ UNCHANGED vars
  BY <1>2, <1>6 DEF Lose, vars, contractVars
<1> QED
  BY <1>3, <1>4, <1>5, <1>6 DEF Next

\* The relayers hand over the lists as Handover says: no list is endorsed before its
\* round has begun, no chain takes over one that is not, or goes back.
THEOREM RoundUpImplementsHandover == Spec => ImplementsHandover
<1>1. Init => Lists!Init
  BY InitImplements
<1>2. IInv /\ IInv' /\ [Next]_vars => [Lists!Next]_(Lists!vars)
  BY NextImplements
<1> QED
  BY <1>1, <1>2, SignaturesAreOwn, PTL DEF Spec, ImplementsHandover, Lists!Spec
=============================================================================
