------------------------------- MODULE Submits -------------------------------
(***************************************************************************)
(* The signatures of rbclib/submits.py.  Relayers sign a message and send  *)
(* their signature to Bifrost, which keeps the signatures as they come.    *)
(* Whoever relays the message fetches them, and submit_tuple puts them in  *)
(* the order of the signers' addresses: the contract on the other chain    *)
(* takes them in strictly ascending order only, which is how it sees that  *)
(* no signer occurs twice.  A signature does not tell its signer; the      *)
(* relayer recovers the signer from the message that it has itself.        *)
(*                                                                         *)
(* A behaviour follows one message.  Addresses are numbers; Hex gives the  *)
(* place of addr.hex() in the order of strings, which is what the          *)
(* signatures are sorted by.  The contracts compare numbers and are        *)
(* external.                                                               *)
(***************************************************************************)
EXTENDS ChainEventStatus, FiniteSets, Sequences, SequencesExt

CONSTANTS
  Relayers,    \* addresses of the relayers
  Senders,     \* the relayers that relay the message at some time
  Hex,         \* order of the strings that addr.hex() gives
  Quorum,      \* signatures the contracts demand
  MaxFaults    \* bound on lost transactions

ASSUME SubmitsAssumption ==
  /\ IsFiniteSet(Relayers) /\ Relayers \subseteq Nat \ {0}
  /\ Senders \subseteq Relayers
  /\ Quorum \in Nat \ {0} /\ MaxFaults \in Nat

\* The addresses that a signature can be recovered to (see Recover).
Addresses == Relayers \union {-r : r \in Relayers}

\* Strings of hexadecimal digits are in the order of their numbers if they have one
\* length and letters of one case: what addr.hex() of chainpy is taken to give.
ASSUME HexAssumption ==
  /\ \A a \in Addresses : Hex[a] \in Int
  /\ \A a, b \in Addresses : a < b => Hex[a] < Hex[b]

VARIABLES
  kind,      \* PollSubmit or AggregatedRoundUpSubmit
  head,      \* status of the Socket event that relayers vote on, or the round
  emitted,   \* the rest of that event, or the list of addresses in any order
  stored,    \* the signatures on Bifrost
  relayed,   \* the senders that have relayed the message
  pool,      \* relays sent and not yet in a block
  acted,     \* the signers shown to the chain that has acted, or {}
  faults     \* relays lost so far

vars == <<kind, head, emitted, stored, relayed, pool, acted, faults>>

\* A signature is [by, data]; the signer can only be recovered with the data.
Signers(sigs) == {s.by : s \in Range(sigs)}

-----------------------------------------------------------------------------
(* SocketSignature: a list of signatures that keeps its size. *)

NoSigs == [list |-> <<>>, size |-> 0]

SocketSignature(data) == [list |-> data, size |-> Len(data)]

MergeSigs(sigs, other) ==
  [list |-> sigs.list \o other.list, size |-> sigs.size + other.size]

AddSingleSig(sigs, sig) == MergeSigs(sigs, SocketSignature(<<sig>>))

AddTupleSigs(data) == MergeSigs(NoSigs, SocketSignature(data))

-----------------------------------------------------------------------------
(* SubmitWithSig. *)

\* ecdsa_recover_address: with other data it is some address, here one that
\* turns the order round.
Recover(sig, data) == IF sig.data = data THEN sig.by ELSE -sig.by

\* addr.hex() of the recovered address.
AddrHex(sig, data) == Hex[Recover(sig, data)]

\* sig_dict, as the places of the signatures that it holds: of two signatures by one
\* signer it keeps the last.
SigDict(sigs, data) ==
  {i \in 1..sigs.size : \A j \in i + 1 .. sigs.size :
     AddrHex(sigs.list[j], data) # AddrHex(sigs.list[i], data)}

\* sorted(sig_dict.items()): of the keys, k are up to that of the k-th item.
SortedItems(sigs, data) ==
  LET Key(i)  == AddrHex(sigs.list[i], data)
      UpTo(i) == {j \in SigDict(sigs, data) : Key(j) <= Key(i)}
  IN [k \in 1..Cardinality(SigDict(sigs, data)) |->
        sigs.list[CHOOSE i \in SigDict(sigs, data) : Cardinality(UpTo(i)) = k]]

\* Mutant: the last signature is skipped.
SortSigsMutantSkip(sigs, data) ==
  IF sigs.size = 1
  THEN sigs
  ELSE SocketSignature(SortedItems([sigs EXCEPT !.size = @ - 1], data))

\* _sort_sigs: a single signature stays, whatever the data says of it.
SortSigs(sigs, data) ==
  IF sigs.size = 1 THEN sigs ELSE SocketSignature(SortedItems(sigs, data))

Sorted(list) == SortSeq(list, <)

\* validator_list: the list of the event, sorted.
ValidatorList == Sorted(emitted)

\* The data of the event that relayers vote on.
EventData == [head |-> head, body |-> emitted]

\* change_status_of_data: the event's data with another status spliced in.
ChangeStatus(data, status) == [data EXCEPT !.head = status]

\* The status that a vote signs for: ACCEPTED for an (outbound) REQUESTED, in
\* ChainRequestedEvent, and the status plus two in build_transaction_param_with_sig.
NextStatus == IF head = REQUESTED THEN ACCEPTED ELSE head + 2

\* Mutant: the status plus two, for every event.
DataToSignMutantPlusTwo ==
  IF kind = "poll" THEN ChangeStatus(EventData, head + 2)
  ELSE [EventData EXCEPT !.body = Sorted(emitted)]

\* What relayers sign: a poll signs the data of the event with the next status,
\* VSPFeed the round with the list that it has sorted.
DataToSign ==
  IF kind = "poll" THEN ChangeStatus(EventData, NextStatus)
  ELSE [EventData EXCEPT !.body = Sorted(emitted)]

\* The event that the Socket contract emits when the votes have their quorum.  It
\* says what the event before it said, with the status that the contract moves to
\* (external).
AggregatedData ==
  ChangeStatus(EventData, IF head = REVERTED THEN REJECTED ELSE ACCEPTED)

\* Mutant: the list of the event is taken as it comes.
DataOfSubmitMutantRaw == IF kind = "poll" THEN AggregatedData ELSE EventData

\* The data that submit_tuple recovers the signers with, and sends: a poll takes
\* that of the aggregated event.
DataOfSubmit ==
  IF kind = "poll" THEN AggregatedData
  ELSE [EventData EXCEPT !.body = ValidatorList]

-----------------------------------------------------------------------------
(* The chains (external). *)

Ascending(sigs) == \A i \in 1..Len(sigs) - 1 : sigs[i].by < sigs[i + 1].by

\* The contract on the other chain, which acts once, on what it is sent.
Accepts(tx) ==
  /\ acted = {}
  /\ Len(tx.sigs) >= Quorum
  /\ Ascending(tx.sigs)
  /\ \A s \in Range(tx.sigs) : s.data = tx.data

Land(tx) ==
  /\ pool' = pool \ {tx}
  /\ acted' = IF Accepts(tx) THEN Signers(tx.sigs) ELSE acted
  /\ UNCHANGED <<kind, head, emitted, stored, relayed, faults>>

Lose(tx) ==
  /\ faults < MaxFaults
  /\ faults' = faults + 1
  /\ pool' = pool \ {tx}
  /\ UNCHANGED <<kind, head, emitted, stored, relayed, acted>>

-----------------------------------------------------------------------------
(* The relayers. *)

\* Mutant: the relayer signs the event as it is.
OwnSigMutantStale(r) == [by |-> r, data |-> EventData]

OwnSig(r) == [by |-> r, data |-> DataToSign]

\* A vote with one signature, which Bifrost takes and stores.
Vote(r) ==
  /\ r \notin Signers(stored)
  /\ stored' = stored \o SortSigs(AddSingleSig(NoSigs, OwnSig(r)), EventData).list
  /\ UNCHANGED <<kind, head, emitted, relayed, pool, acted, faults>>

\* The primary, a secondary or a slow relayer relays the message, with the
\* signatures that Bifrost has by then.
Relay(r) ==
  /\ Len(stored) >= Quorum
  /\ r \notin relayed
  /\ relayed' = relayed \union {r}
  /\ pool' = pool \union
       {[by |-> r, data |-> DataOfSubmit,
         sigs |-> SortSigs(AddTupleSigs(stored), DataOfSubmit).list]}
  /\ UNCHANGED <<kind, head, emitted, stored, acted, faults>>

\* The events that start it: a Socket event whose status the relayers vote on (a
\* FAILED vote signs FAILED, which is never relayed), or the change of the list.
PollEvent  == head \in {REQUESTED, EXECUTED, REVERTED} /\ emitted = <<>>
RoundEvent == head = 0 /\ emitted \in SetToSeqs(Relayers)

Init ==
  /\ \/ kind = "poll" /\ PollEvent
     \/ kind = "round" /\ RoundEvent
  /\ stored = <<>>
  /\ relayed = {}
  /\ pool = {}
  /\ acted = {}
  /\ faults = 0

Next ==
  \/ \E r \in Relayers : Vote(r)
  \/ \E r \in Senders : Relay(r)
  \/ \E tx \in pool : Land(tx) \/ Lose(tx)

Spec == Init /\ [][Next]_vars

\* Senders pop their events and chains include transactions.  Nobody has to vote.
Fairness == (\A r \in Senders : WF_vars(Relay(r))) /\ WF_vars(\E tx \in pool : Land(tx))

FairSpec == Spec /\ Fairness

-----------------------------------------------------------------------------
(* Properties. *)

\* A signature over the message that was voted on.
Signature == [by : Relayers, data : {DataToSign}]

\* In particular, every signature on Bifrost is over the message.
TypeOK ==
  /\ \/ kind = "poll" /\ head \in {REQUESTED, EXECUTED, REVERTED}
     \/ kind = "round" /\ head \in Nat
  /\ emitted \in Seq(Relayers)
  /\ stored \in Seq(Signature)
  /\ relayed \subseteq Senders
  /\ \A tx \in pool :
       tx.by \in relayed /\ tx.data = DataToSign /\ tx.sigs \in Seq(Signature)
  /\ acted \subseteq Relayers
  /\ faults \in 0..MaxFaults

\* A relay carries all signatures that were stored when it was made, however late
\* other votes come, and each of them once and in ascending order.
Complete ==
  \A tx \in pool :
    /\ Ascending(tx.sigs)
    /\ \E n \in Quorum..Len(stored) :
         Len(tx.sigs) = n /\ Range(tx.sigs) = Range(SubSeq(stored, 1, n))

\* While no relay has been executed, each that is under way would be: whatever the
\* order of the votes and of the list in the event, a relay fails only because
\* another came first.
RelaysAccepted == \A tx \in pool : acted = {} => Accepts(tx)

\* The lists of signatures are as good as sets of signers: a chain acts on the
\* signatures of a quorum only, and does act when a quorum has signed, in whatever
\* order the votes came, and although relays are lost.
Abstract == INSTANCE Certificate WITH signed <- Signers(stored)

ImplementsCertificate == Abstract!Spec /\ Abstract!Acts

-----------------------------------------------------------------------------
(* The inductive invariant behind the safety properties. *)

\* Bifrost stores one signature of a relayer.
OncePerSigner ==
  \A i, j \in 1..Len(stored) : i # j => stored[i].by # stored[j].by

IInv == TypeOK /\ OncePerSigner /\ Complete
=============================================================================
