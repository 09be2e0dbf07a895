---------------------------- MODULE SubmitsProofs ----------------------------
(***************************************************************************)
(* Proofs about Submits, for any relayers, senders and quorum, and any     *)
(* bound on lost transactions: lists of signatures of any length.          *)
(***************************************************************************)
EXTENDS Submits, FiniteSetTheorems, TLAPS

-----------------------------------------------------------------------------
(* Sorting.  What sorted() returns needs no induction over the list: the   *)
(* place of an item is the count of the keys up to its own.                *)

LEMMA OneTo ==
  ASSUME NEW n \in Nat
  PROVE  IsFiniteSet(1..n) /\ Cardinality(1..n) = n
BY FS_Interval

\* The place of x in S, in ascending order of keys.
PlaceOf(S, key, x) == Cardinality({y \in S : key[y] <= key[x]})

Different(S, key) == \A x, y \in S : x # y => key[x] # key[y]

\* order gives an item at each place.
ByPlace(S, key, count, order) ==
  /\ order \in [1..count -> S]
  /\ \A k \in 1..count : PlaceOf(S, key, order[k]) = k

\* order gives all items, in ascending order of their keys.
Sorts(S, key, count, order) ==
  /\ \A i, j \in 1..count : i < j => key[order[i]] < key[order[j]]
  /\ \A x \in S : \E k \in 1..count : order[k] = x

\* In a finite set with different keys there is one item at each place, and the items
\* by place are the set sorted.
LEMMA PlacesSort ==
  ASSUME NEW S, IsFiniteSet(S), NEW key, key \in [S -> Int], Different(S, key),
         NEW count, count = Cardinality(S)
  PROVE  /\ \A k \in 1..count : \E x \in S : PlaceOf(S, key, x) = k
         /\ \A order : ByPlace(S, key, count, order) => Sorts(S, key, count, order)
<1> DEFINE UpTo(x) == {y \in S : key[y] <= key[x]}
           Place(x) == PlaceOf(S, key, x)
           place == [x \in S |-> Place(x)]
<1>0. \A x \in S : key[x] \in Int
  OBVIOUS
<1> USE DEF PlaceOf, Different
<1>1. count \in Nat
  BY FS_CardinalityType
<1>2. ASSUME NEW x \in S
      PROVE  Place(x) \in 1..count
  <2>1. UpTo(x) \in SUBSET S /\ x \in UpTo(x)
    BY <1>0
  <2>0. Place(x) = Cardinality(UpTo(x))
    OBVIOUS
  <2> HIDE DEF UpTo, Place
  <2>2. IsFiniteSet(UpTo(x)) /\ Place(x) <= count
    BY <2>0, <2>1, FS_Subset
  <2>3. Place(x) \in Nat /\ Place(x) # 0
    BY <2>0, <2>1, <2>2, FS_CardinalityType, FS_EmptySet
  <2> QED
    BY <1>1, <2>2, <2>3
<1>3. ASSUME NEW x \in S, NEW y \in S, key[x] < key[y]
      PROVE  Place(x) < Place(y)
  <2>1. IsFiniteSet(UpTo(y))
    BY FS_Subset, UpTo(y) \in SUBSET S
  <2>2. ASSUME NEW z \in UpTo(x)
        PROVE  z \in UpTo(y)
    <3>1. z \in S /\ key[z] \in Int /\ key[x] \in Int /\ key[y] \in Int /\ key[z] <= key[x]
      BY <1>0
    <3>2. key[z] <= key[y]
      BY <1>3, <3>1
    <3> QED
      BY <3>1, <3>2
  <2>3. y \in UpTo(y) /\ y \notin UpTo(x)
    BY <1>0, <1>3
  <2>4. Place(x) <= Place(y) /\ Place(x) # Place(y)
    BY <2>1, <2>2, <2>3, FS_Subset, UpTo(x) \in SUBSET UpTo(y)
  <2>5. Place(x) \in Int /\ Place(y) \in Int
    BY <1>1, <1>2
  <2> HIDE DEF Place
  <2> QED
    BY <2>4, <2>5
<1>4. ASSUME NEW x \in S, NEW y \in S, Place(x) = Place(y)
      PROVE  x = y
  <2>1. Place(x) \in Int /\ Place(y) \in Int
    BY <1>1, <1>2
  <2> HIDE DEF Place
  <2>2. ~(key[x] < key[y]) /\ ~(key[y] < key[x])
    BY <1>3, <1>4, <2>1
  <2> QED
    BY <1>0, <2>2
<1>5. place \in Surjection(S, 1..count)
  <2>1. IsFiniteSet(1..count) /\ Cardinality(1..count) = count
    BY <1>1, FS_Interval
  <2>2. place \in Injection(S, 1..count)
    BY <1>2, <1>4 DEF Injection, IsInjective
  <2> QED
    BY <2>1, <2>2, FS_Injection
<1>6. \A k \in 1..count : \E x \in S : Place(x) = k
  BY <1>5 DEF Surjection
<1>7. ASSUME NEW order, ByPlace(S, key, count, order)
      PROVE  Sorts(S, key, count, order)
  <2>0. \A k \in 1..count : order[k] \in S /\ Place(order[k]) = k
    BY <1>7 DEF ByPlace
  <2>1. ASSUME NEW i \in 1..count, NEW j \in 1..count, i < j
        PROVE  key[order[i]] < key[order[j]]
    <3>1. /\ order[i] \in S /\ Place(order[i]) = i
          /\ order[j] \in S /\ Place(order[j]) = j
      BY <2>0
    <3>2. i \in Int /\ j \in Int
      BY <1>1
    <3> HIDE DEF Place
    <3>3. ~(key[order[j]] < key[order[i]])
      BY <3>1, <3>2, <1>3, <2>1
    <3>4. order[j] # order[i]
      BY <3>1, <3>2, <2>1
    <3> QED
      BY <1>0, <3>1, <3>3, <3>4
  <2>2. ASSUME NEW x \in S
        PROVE  \E k \in 1..count : order[k] = x
    <3>1. Place(x) \in 1..count
      BY <1>2
    <3>2. order[Place(x)] \in S /\ Place(order[Place(x)]) = Place(x)
      BY <2>0, <3>1
    <3> HIDE DEF Place
    <3>3. order[Place(x)] = x
      BY <1>4, <3>2
    <3> QED
      BY <3>1, <3>3
  <2> QED
    BY <2>1, <2>2 DEF Sorts
<1> QED
  BY <1>6, <1>7

-----------------------------------------------------------------------------
(* submits.py. *)

\* Bifrost stores one signature of a relayer.
Distinct(list) ==
  \A i, j \in 1..Len(list) : i # j => list[i].by # list[j].by

\* What submit_tuple recovers the signers with is what the relayers have signed: the
\* status that they splice in is the one that the contract moves to.
LEMMA SameData ==
  ASSUME TypeOK
  PROVE  DataOfSubmit = DataToSign
<1>1. CASE kind = "poll"
  <2>1. NextStatus = IF head = REVERTED THEN REJECTED ELSE ACCEPTED
    BY <1>1 DEF TypeOK, NextStatus, REQUESTED, EXECUTED, REVERTED, ACCEPTED, REJECTED
  <2> QED
    BY <1>1, <2>1 DEF DataOfSubmit, DataToSign, AggregatedData
<1>2. CASE kind # "poll"
  BY <1>2 DEF DataOfSubmit, DataToSign, ValidatorList
<1> QED
  BY <1>1, <1>2

\* Keys order and tell apart the signatures as the addresses of their signers do.
LEMMA HexOrder ==
  ASSUME NEW a \in Relayers, NEW b \in Relayers
  PROVE  /\ Hex[a] \in Int
         /\ a # b => Hex[a] # Hex[b]
         /\ Hex[a] < Hex[b] => a < b
<1>1. a \in Addresses /\ b \in Addresses /\ a \in Int /\ b \in Int
  BY SubmitsAssumption DEF Addresses
<1>2. /\ Hex[a] \in Int /\ Hex[b] \in Int
      /\ a < b => Hex[a] < Hex[b]
      /\ b < a => Hex[b] < Hex[a]
  BY <1>1, HexAssumption
<1> QED
  BY <1>1, <1>2

LEMMA SignerType ==
  ASSUME NEW sig \in Signature
  PROVE  sig.by \in Relayers /\ sig.by \in Int /\ sig.data = DataToSign
<1>1. sig.by \in Relayers /\ sig.data = DataToSign
  BY DEF Signature
<1>2. Relayers \subseteq Int
  BY SubmitsAssumption
<1> QED
  BY <1>1, <1>2

\* add_tuple_sigs on a fresh object gives the list as it is.
LEMMA AddTupleSigsList ==
  ASSUME NEW list \in Seq(Signature)
  PROVE  AddTupleSigs(list) = SocketSignature(list)
<1>1. <<>> \o list = list /\ Len(list) \in Nat
  OBVIOUS
<1> QED
  BY <1>1 DEF AddTupleSigs, MergeSigs, SocketSignature, NoSigs

\* A vote's single signature is sent as it is.
LEMMA SingleSigList ==
  ASSUME NEW sig \in Signature, NEW data
  PROVE  SortSigs(AddSingleSig(NoSigs, sig), data).list = <<sig>>
<1>1. <<>> \o <<sig>> = <<sig>> /\ Len(<<sig>>) = 1
  OBVIOUS
<1> QED
  BY <1>1 DEF AddSingleSig, MergeSigs, SocketSignature, NoSigs, SortSigs

\* With the data that was signed, the dictionary has an entry for each signature.
LEMMA DictOfSignatures ==
  ASSUME NEW list \in Seq(Signature), Distinct(list)
  PROVE  SigDict(SocketSignature(list), DataToSign) = 1..Len(list)
<1> DEFINE sigs == SocketSignature(list)
<1>1. sigs.list = list /\ sigs.size = Len(list) /\ Len(list) \in Nat
  BY DEF SocketSignature
<1>2. \A i \in 1..Len(list) : /\ list[i].by \in Relayers
                              /\ AddrHex(list[i], DataToSign) = Hex[list[i].by]
  BY <1>1, SignerType DEF Recover, AddrHex
<1> SUFFICES ASSUME NEW i \in 1..Len(list), NEW j \in i + 1 .. Len(list)
             PROVE  AddrHex(list[j], DataToSign) # AddrHex(list[i], DataToSign)
  BY <1>1 DEF SigDict
<1>3. j \in 1..Len(list) /\ i # j
  BY <1>1
<1>4. list[i].by # list[j].by
  BY <1>3 DEF Distinct
<1> QED
  BY <1>2, <1>3, <1>4, HexOrder

\* _sort_sigs, with the data that was signed, loses and repeats no signature and
\* puts them in ascending order of their signers.
LEMMA SortSigsSorts ==
  ASSUME NEW list \in Seq(Signature), Distinct(list)
  PROVE  LET sorted == SortSigs(SocketSignature(list), DataToSign).list
         IN /\ sorted \in Seq(Signature)
            /\ Len(sorted) = Len(list)
            /\ Ascending(sorted)
            /\ Range(sorted) = Range(list)
<1> DEFINE sigs   == SocketSignature(list)
           n      == Len(list)
           key    == [i \in 1..n |-> Hex[list[i].by]]
           Place(i) == PlaceOf(1..n, key, i)
           order  == [k \in 1..n |-> CHOOSE i \in 1..n :
                        Cardinality({j \in 1..n : AddrHex(list[j], DataToSign)
                                                     <= AddrHex(list[i], DataToSign)}) = k]
           sorted == SortSigs(sigs, DataToSign).list
<1>1. sigs.list = list /\ sigs.size = Len(list) /\ Len(list) \in Nat
  BY DEF SocketSignature
<1>2. \A i \in 1..n : /\ list[i] \in Signature /\ list[i].by \in Relayers
                      /\ AddrHex(list[i], DataToSign) = Hex[list[i].by]
                      /\ Hex[list[i].by] \in Int
  BY <1>1, SignerType, HexOrder DEF Recover, AddrHex
<1>3. CASE Len(list) = 1
  <2>1. sorted = list
    BY <1>1, <1>3 DEF SortSigs
  <2>2. Ascending(list)
    BY <1>3 DEF Ascending
  <2> QED
    BY <2>1, <2>2
<1>4. CASE Len(list) # 1
  <2>1. key \in [1..n -> Int] /\ Different(1..n, key)
    <3>1. \A i, j \in 1..n : i # j => Hex[list[i].by] # Hex[list[j].by]
      BY <1>2, HexOrder DEF Distinct
    <3> QED
      BY <1>2, <3>1 DEF Different
  <2>2. IsFiniteSet(1..n) /\ Cardinality(1..n) = n
    BY <1>1, OneTo
  <2>3. /\ \A k \in 1..n : \E i \in 1..n : Place(i) = k
        /\ \A o : ByPlace(1..n, key, n, o) => Sorts(1..n, key, n, o)
    <3> HIDE DEF key, n
    <3> QED
      BY <2>1, <2>2, PlacesSort
  <2>4. \A i \in 1..n :
          Cardinality({j \in 1..n : AddrHex(list[j], DataToSign)
                                       <= AddrHex(list[i], DataToSign)}) = Place(i)
    <3>1. ASSUME NEW i \in 1..n
          PROVE  {j \in 1..n : AddrHex(list[j], DataToSign)
                                  <= AddrHex(list[i], DataToSign)} =
                 {j \in 1..n : key[j] <= key[i]}
      BY <1>2
    <3> QED
      BY <3>1 DEF PlaceOf
  <2>5. ASSUME NEW k \in 1..n
        PROVE  order[k] \in 1..n /\ Place(order[k]) = k
    <3>1. \E i \in 1..n :
            Cardinality({j \in 1..n : AddrHex(list[j], DataToSign)
                                         <= AddrHex(list[i], DataToSign)}) = k
      BY <2>3, <2>4
    <3>2. /\ order[k] \in 1..n
          /\ Cardinality({j \in 1..n : AddrHex(list[j], DataToSign)
                                          <= AddrHex(list[order[k]], DataToSign)}) = k
      BY <3>1
    <3> HIDE DEF order, Place
    <3> QED
      BY <3>2, <2>4
  <2>6. sorted = [k \in 1..n |-> list[order[k]]]
    <3>1. SigDict(sigs, DataToSign) = 1..n
      BY DictOfSignatures
    <3>2. SortedItems(sigs, DataToSign) = [k \in 1..n |-> list[order[k]]]
      BY <1>1, <2>2, <3>1 DEF SortedItems
    <3> HIDE DEF order
    <3> QED
      BY <1>1, <1>4, <3>2 DEF SortSigs, SocketSignature
  <2>7. order \in [1..n -> 1..n]
    BY <2>5
  <2>8. /\ \A i, j \in 1..n : i < j => key[order[i]] < key[order[j]]
        /\ \A i \in 1..n : \E k \in 1..n : order[k] = i
    <3>1. ByPlace(1..n, key, n, order)
      BY <2>5, <2>7 DEF ByPlace
    <3> HIDE DEF order, key
    <3> QED
      BY <2>3, <3>1 DEF Sorts
  <2> HIDE DEF order
  <2>9. sorted \in Seq(Signature) /\ Len(sorted) = n /\ DOMAIN sorted = 1..n
    <3>1. \A k \in 1..n : list[order[k]] \in Signature
      BY <1>2, <2>7
    <3> HIDE DEF sorted
    <3> QED
      BY <1>1, <2>6, <3>1
  <2>10. \A k \in 1..n : /\ sorted[k] = list[order[k]]
                         /\ sorted[k].by \in Relayers
                         /\ key[order[k]] = Hex[sorted[k].by]
    <3> HIDE DEF sorted
    <3> QED
      BY <1>2, <2>6, <2>7
  <2> HIDE DEF sorted, key
  <2>11. Ascending(sorted)
    <3>1. \A k \in 1..n - 1 : k \in 1..n /\ k + 1 \in 1..n /\ k < k + 1
      BY <1>1
    <3>2. \A k \in 1..n - 1 : Hex[sorted[k].by] < Hex[sorted[k + 1].by]
      BY <2>8, <2>10, <3>1
    <3>3. \A k \in 1..n - 1 : sorted[k].by < sorted[k + 1].by
      BY <2>10, <3>1, <3>2, HexOrder, SMTT(30)
    <3> QED
      BY <2>9, <3>3 DEF Ascending
  <2>12. Range(sorted) = Range(list)
    <3>1. \A i \in 1..n : \E k \in 1..n : sorted[k] = list[i]
      BY <2>8, <2>10
    <3>2. \A k \in 1..n : order[k] \in 1..n /\ sorted[k] = list[order[k]]
      BY <2>7, <2>10
    <3>3. DOMAIN list = 1..n
      OBVIOUS
    <3>4. \A x \in Range(sorted) : x \in Range(list)
      BY <2>9, <3>2, <3>3 DEF Range
    <3>5. \A x \in Range(list) : x \in Range(sorted)
      BY <2>9, <3>1, <3>3 DEF Range
    <3> QED
      BY <3>4, <3>5
  <2> QED
    BY <2>9, <2>11, <2>12 DEF sorted
<1> QED
  BY <1>3, <1>4

-----------------------------------------------------------------------------
(* The inductive invariant, and what follows from it. *)

LEMMA SameSignature ==
  ASSUME UNCHANGED <<kind, head, emitted>>
  PROVE  DataToSign' = DataToSign /\ Signature' = Signature
BY DEF DataToSign, EventData, NextStatus, Signature

LEMMA InitIInv == Init => IInv
<1> SUFFICES ASSUME Init PROVE IInv
  OBVIOUS
<1>1. emitted \in Seq(Relayers)
  <2>1. CASE PollEvent
    BY <2>1 DEF PollEvent
  <2>2. CASE RoundEvent
    <3>1. Cardinality(Relayers) \in Nat
      BY SubmitsAssumption, FS_CardinalityType
    <3> QED
      BY <2>2, <3>1 DEF RoundEvent, SetToSeqs
  <2> QED
    BY <2>1, <2>2 DEF Init
<1>2. stored = <<>> /\ Len(stored) = 0 /\ stored \in Seq(Signature)
  BY DEF Init
<1>3. TypeOK
  BY <1>1, <1>2, SubmitsAssumption DEF Init, TypeOK, PollEvent, RoundEvent
<1>4. OncePerSigner
  BY <1>2 DEF OncePerSigner
<1>5. Complete
  BY DEF Init, Complete
<1> QED
  BY <1>3, <1>4, <1>5 DEF IInv

\* A vote adds a signature at the end.
LEMMA VoteAppends ==
  ASSUME IInv, NEW r \in Relayers, Vote(r)
  PROVE  /\ stored' = Append(stored, OwnSig(r))
         /\ OwnSig(r) \in Signature
         /\ \A i \in 1..Len(stored) : stored[i].by # r
<1>1. OwnSig(r) \in Signature
  BY DEF OwnSig, Signature
<1>2. stored \in Seq(Signature)
  BY DEF IInv, TypeOK
<1>3. stored' = stored \o <<OwnSig(r)>>
  BY <1>1, SingleSigList DEF Vote
<1>4. stored' = Append(stored, OwnSig(r))
  BY <1>1, <1>2, <1>3
<1>5. \A i \in 1..Len(stored) : stored[i].by # r
  BY <1>2 DEF Vote, Signers, Range
<1> QED
  BY <1>1, <1>4, <1>5

LEMMA VotePreserves ==
  ASSUME IInv, NEW r \in Relayers, Vote(r)
  PROVE  IInv'
<1>0. /\ stored' = Append(stored, OwnSig(r))
      /\ OwnSig(r) \in Signature
      /\ \A i \in 1..Len(stored) : stored[i].by # r
  BY VoteAppends
<1>1. /\ UNCHANGED <<kind, head, emitted, relayed, pool, acted, faults>>
      /\ DataToSign' = DataToSign /\ Signature' = Signature
  BY SameSignature DEF Vote
<1>2. stored \in Seq(Signature) /\ Len(stored) \in Nat
  BY DEF IInv, TypeOK
<1>3. stored' \in Seq(Signature) /\ Len(stored') = Len(stored) + 1
  BY <1>0, <1>1, <1>2
<1>4. TypeOK'
  BY <1>1, <1>3 DEF IInv, TypeOK
<1>5. OncePerSigner'
  <2> SUFFICES ASSUME NEW i \in 1..Len(stored'), NEW j \in 1..Len(stored'), i # j
               PROVE  stored'[i].by # stored'[j].by
    BY DEF OncePerSigner
  <2>1. \A k \in 1..Len(stored) : stored'[k] = stored[k]
    BY <1>0, <1>2
  <2>2. stored'[Len(stored) + 1] = OwnSig(r) /\ OwnSig(r).by = r
    BY <1>0, <1>2 DEF OwnSig
  <2> QED
    BY <1>0, <1>2, <1>3, <2>1, <2>2 DEF IInv, OncePerSigner
<1>6. Complete'
  <2> SUFFICES ASSUME NEW tx \in pool
               PROVE  /\ Ascending(tx.sigs)
                      /\ \E n \in Quorum..Len(stored') :
                           /\ Len(tx.sigs) = n
                           /\ Range(tx.sigs) = Range(SubSeq(stored', 1, n))
    BY <1>1 DEF Complete, Ascending
  <2>1. PICK n \in Quorum..Len(stored) :
          Len(tx.sigs) = n /\ Range(tx.sigs) = Range(SubSeq(stored, 1, n))
    BY DEF IInv, Complete
  <2>2. n \in Nat /\ n <= Len(stored)
    BY <1>2, <2>1, SubmitsAssumption
  <2>3. SubSeq(stored', 1, n) = SubSeq(stored, 1, n)
    BY <1>0, <1>2, <2>2
  <2>4. Ascending(tx.sigs)
    BY DEF IInv, Complete
  <2>5. n \in Quorum..Len(stored')
    BY <1>2, <1>3, <2>1, <2>2
  <2> QED
    BY <2>1, <2>3, <2>4, <2>5
<1> QED
  BY <1>4, <1>5, <1>6 DEF IInv

\* A relay carries the stored signatures, sorted.
LEMMA RelayCarriesAll ==
  ASSUME IInv, NEW r \in Senders, Relay(r)
  PROVE  \E tx : /\ pool' = pool \union {tx} /\ tx.by = r /\ tx.data = DataToSign
                 /\ tx.sigs \in Seq(Signature) /\ Ascending(tx.sigs)
                 /\ Len(tx.sigs) = Len(stored) /\ Range(tx.sigs) = Range(stored)
<1> DEFINE sorted == SortSigs(SocketSignature(stored), DataToSign).list
           tx == [by |-> r, data |-> DataToSign, sigs |-> sorted]
<1>1. stored \in Seq(Signature) /\ Distinct(stored)
  BY DEF IInv, TypeOK, OncePerSigner, Distinct
<1>2. pool' = pool \union {tx}
  BY <1>1, SameData, AddTupleSigsList DEF Relay, IInv
<1>3. /\ sorted \in Seq(Signature) /\ Ascending(sorted)
      /\ Len(sorted) = Len(stored) /\ Range(sorted) = Range(stored)
  BY <1>1, SortSigsSorts
<1> HIDE DEF sorted
<1>4. tx.by = r /\ tx.data = DataToSign /\ tx.sigs = sorted
  OBVIOUS
<1> QED
  BY <1>2, <1>3, <1>4

LEMMA RelayPreserves ==
  ASSUME IInv, NEW r \in Senders, Relay(r)
  PROVE  IInv'
<1>1. /\ UNCHANGED <<kind, head, emitted, stored, acted, faults>>
      /\ relayed' = relayed \union {r}
      /\ DataToSign' = DataToSign /\ Signature' = Signature
  BY SameSignature DEF Relay
<1>2. PICK new : /\ pool' = pool \union {new} /\ new.by = r /\ new.data = DataToSign
                 /\ new.sigs \in Seq(Signature) /\ Ascending(new.sigs)
                 /\ Len(new.sigs) = Len(stored) /\ Range(new.sigs) = Range(stored)
  BY RelayCarriesAll
<1>3. TypeOK'
  BY <1>1, <1>2 DEF IInv, TypeOK
<1>4. OncePerSigner'
  BY <1>1 DEF IInv, OncePerSigner
<1>5. Complete'
  <2> SUFFICES ASSUME NEW tx \in pool'
               PROVE  /\ Ascending(tx.sigs)
                      /\ \E n \in Quorum..Len(stored) :
                           /\ Len(tx.sigs) = n
                           /\ Range(tx.sigs) = Range(SubSeq(stored, 1, n))
    BY <1>1 DEF Complete, Ascending
  <2>1. CASE tx \in pool
    BY <2>1 DEF IInv, Complete
  <2>2. CASE tx = new
    <3>1. stored \in Seq(Signature) /\ Len(stored) \in Nat
      BY DEF IInv, TypeOK
    <3>2. SubSeq(stored, 1, Len(stored)) = stored
      BY <3>1
    <3>3. Len(stored) \in Quorum..Len(stored)
      BY <3>1, SubmitsAssumption DEF Relay
    <3> QED
      BY <1>2, <2>2, <3>2, <3>3
  <2> QED
    BY <1>2, <2>1, <2>2
<1> QED
  BY <1>3, <1>4, <1>5 DEF IInv

\* A transaction that leaves the pool disturbs nothing that the others carry.
LEMMA LeavingPreserves ==
  ASSUME IInv, NEW tx \in pool, pool' = pool \ {tx},
         UNCHANGED <<kind, head, emitted, stored, relayed>>,
         acted' \subseteq Relayers, faults' \in 0..MaxFaults
  PROVE  IInv'
<1>1. DataToSign' = DataToSign /\ Signature' = Signature
  BY SameSignature
<1>2. TypeOK'
  BY <1>1 DEF IInv, TypeOK
<1>3. OncePerSigner'
  BY DEF IInv, OncePerSigner
<1>4. Complete'
  BY DEF IInv, Complete, Ascending
<1> QED
  BY <1>2, <1>3, <1>4 DEF IInv

LEMMA ShownAreRelayers ==
  ASSUME IInv, NEW tx \in pool
  PROVE  Signers(tx.sigs) \subseteq Relayers
<1>1. tx.sigs \in Seq(Signature)
  BY DEF IInv, TypeOK
<1>2. \A i \in DOMAIN tx.sigs : tx.sigs[i] \in Signature
  BY <1>1
<1> QED
  BY <1>2, SignerType DEF Signers, Range

LEMMA LandPreserves ==
  ASSUME IInv, NEW tx \in pool, Land(tx)
  PROVE  IInv'
<1>1. acted' \subseteq Relayers
  BY ShownAreRelayers DEF Land, IInv, TypeOK
<1>2. faults' \in 0..MaxFaults
  BY DEF Land, IInv, TypeOK
<1> QED
  BY <1>1, <1>2, LeavingPreserves DEF Land

LEMMA LosePreserves ==
  ASSUME IInv, NEW tx \in pool, Lose(tx)
  PROVE  IInv'
<1>1. acted' \subseteq Relayers
  BY DEF Lose, IInv, TypeOK
<1>2. faults' \in 0..MaxFaults
  BY SubmitsAssumption DEF Lose, IInv, TypeOK
<1> QED
  BY <1>1, <1>2, LeavingPreserves DEF Lose

LEMMA StutterPreserves ==
  ASSUME IInv, UNCHANGED vars
  PROVE  IInv'
<1>1. DataToSign' = DataToSign /\ Signature' = Signature
  BY SameSignature DEF vars
<1> QED
  BY <1>1 DEF vars, IInv, TypeOK, OncePerSigner, Complete, Ascending

LEMMA NextPreservesIInv == IInv /\ [Next]_vars => IInv'
<1> SUFFICES ASSUME IInv, [Next]_vars PROVE IInv'
  OBVIOUS
<1>1. ASSUME NEW r \in Relayers, Vote(r) PROVE IInv'
  BY <1>1, VotePreserves
<1>2. ASSUME NEW r \in Senders, Relay(r) PROVE IInv'
  BY <1>2, RelayPreserves
<1>3. ASSUME NEW tx \in pool, Land(tx) PROVE IInv'
  BY <1>3, LandPreserves
<1>4. ASSUME NEW tx \in pool, Lose(tx) PROVE IInv'
  BY <1>4, LosePreserves
<1>5. CASE UNCHANGED vars
  BY <1>5, StutterPreserves
<1> QED
  BY <1>1, <1>2, <1>3, <1>4, <1>5 DEF Next

\* Every signature on Bifrost and in a relay is over the message, Bifrost stores
\* one of a relayer, and relays carry the stored ones in order.
THEOREM InductiveInvariant == Spec => []IInv
BY InitIInv, NextPreservesIInv, PTL DEF Spec

\* Types, and the data of every signature: what add_single_sig keeps and Recover
\* needs.
THEOREM TypeCorrect == Spec => []TypeOK
<1>1. IInv => TypeOK
  BY DEF IInv
<1> QED
  BY <1>1, InductiveInvariant, PTL

\* Whatever the order of the votes, _sort_sigs gives a relay all signatures that
\* were stored when it was made, each once and in ascending order.
THEOREM RelaysComplete == Spec => []Complete
<1>1. IInv => Complete
  BY DEF IInv
<1> QED
  BY <1>1, InductiveInvariant, PTL

\* A relay can fail only because another has been executed before: the contract
\* never refuses the signatures that submit_tuple puts together.
THEOREM NoRelayRefused == Spec => []RelaysAccepted
<1>1. IInv => RelaysAccepted
  <2> SUFFICES ASSUME IInv, NEW tx \in pool, acted = {}
               PROVE  Accepts(tx)
    BY DEF RelaysAccepted
  <2>1. Ascending(tx.sigs) /\ Len(tx.sigs) \in Quorum..Len(stored)
    BY DEF IInv, Complete
  <2>2. Len(stored) \in Nat /\ tx.sigs \in Seq(Signature)
    BY DEF IInv, TypeOK
  <2>3. \A s \in Range(tx.sigs) : s.data = tx.data
    <3>0. tx.data = DataToSign
      BY DEF IInv, TypeOK
    <3>1. \A i \in DOMAIN tx.sigs : tx.sigs[i] \in Signature
      BY <2>2
    <3> QED
      BY <3>0, <3>1, SignerType DEF Range
  <2>4. Len(tx.sigs) >= Quorum
    BY <2>1, <2>2, SubmitsAssumption
  <2> QED
    BY <2>1, <2>3, <2>4 DEF Accepts
<1> QED
  BY <1>1, InductiveInvariant, PTL

-----------------------------------------------------------------------------
(* The lists of signatures implement sets of signers. *)

\* The signers that a relay shows are those of the first n votes: n different
\* relayers.
LEMMA ShownSigners ==
  ASSUME IInv, NEW tx \in pool
  PROVE  /\ Signers(tx.sigs) \subseteq Signers(stored)
         /\ Cardinality(Signers(tx.sigs)) >= Quorum
<1>1. stored \in Seq(Signature) /\ Len(stored) \in Nat
  BY DEF IInv, TypeOK
<1>2. PICK n \in Quorum..Len(stored) : Range(tx.sigs) = Range(SubSeq(stored, 1, n))
  BY DEF IInv, Complete
<1>3. n \in Nat /\ n <= Len(stored) /\ Quorum <= n
  BY <1>1, <1>2, SubmitsAssumption
<1>4. Range(SubSeq(stored, 1, n)) = {stored[i] : i \in 1..n}
  <2>1. DOMAIN SubSeq(stored, 1, n) = 1..n
    BY <1>1, <1>3
  <2>2. \A i \in 1..n : SubSeq(stored, 1, n)[i] = stored[i]
    BY <1>1, <1>3
  <2> QED
    BY <2>1, <2>2 DEF Range
<1>5. Signers(tx.sigs) = {stored[i].by : i \in 1..n}
  BY <1>2, <1>4 DEF Signers
<1>6. Signers(tx.sigs) \subseteq Signers(stored)
  <2>1. \A i \in 1..n : stored[i] \in Range(stored)
    BY <1>1, <1>3 DEF Range
  <2> QED
    BY <1>5, <2>1 DEF Signers
<1>7. Cardinality(Signers(tx.sigs)) = n
  <2> DEFINE by == [i \in 1..n |-> stored[i].by]
  <2>1. by \in [1..n -> Signers(tx.sigs)]
    BY <1>5
  <2>2. IsInjective(by)
    BY <1>1, <1>3 DEF IsInjective, IInv, OncePerSigner
  <2>3. by \in Bijection(1..n, Signers(tx.sigs))
    BY <1>5, <2>1, <2>2 DEF Bijection, Injection, Surjection
  <2>4. IsFiniteSet(1..n) /\ Cardinality(1..n) = n
    BY <1>3, OneTo
  <2> QED
    BY <2>3, <2>4, FS_Bijection DEF ExistsBijection
<1> QED
  BY <1>3, <1>6, <1>7

\* A vote adds its signer to those who have signed.
LEMMA VoteSigns ==
  ASSUME IInv, NEW r \in Relayers, Vote(r)
  PROVE  Abstract!Sign(r)
<1>1. /\ stored' = Append(stored, OwnSig(r)) /\ OwnSig(r).by = r
  BY VoteAppends DEF OwnSig
<1>2. stored \in Seq(Signature) /\ Len(stored) \in Nat
  BY DEF IInv, TypeOK
<1>3. Range(stored') = Range(stored) \union {OwnSig(r)}
  <2>1. /\ DOMAIN stored = 1..Len(stored)
        /\ DOMAIN stored' = 1..Len(stored) + 1
    BY <1>1, <1>2, VoteAppends
  <2>2. /\ \A i \in 1..Len(stored) : stored'[i] = stored[i]
        /\ stored'[Len(stored) + 1] = OwnSig(r)
    BY <1>1, <1>2, VoteAppends
  <2> QED
    BY <1>2, <2>1, <2>2 DEF Range
<1>4. Signers(stored)' = Signers(stored) \union {r}
  BY <1>1, <1>3 DEF Signers
<1> QED
  BY <1>4 DEF Vote, Abstract!Sign

LEMMA SameCardinality ==
  ASSUME NEW S
  PROVE  Abstract!Cardinality(S) = Cardinality(S)
BY DEF Cardinality, Abstract!Cardinality

\* A relay that the contract accepts is the abstract step, any other changes
\* nothing.
LEMMA LandActs ==
  ASSUME IInv, NEW tx \in pool, Land(tx)
  PROVE  Abstract!Act \/ UNCHANGED <<Signers(stored), acted>>
<1>1. Signers(stored)' = Signers(stored)
  BY DEF Land, Signers
<1>2. CASE Accepts(tx)
  <2>1. acted = {} /\ acted' = Signers(tx.sigs)
    BY <1>2 DEF Land, Accepts
  <2> QED
    BY <1>1, <2>1, ShownSigners, SameCardinality DEF Abstract!Act
<1>3. CASE ~Accepts(tx)
  BY <1>1, <1>3 DEF Land
<1> QED
  BY <1>2, <1>3

\* Lists, orders, lost transactions and late votes are nothing that the two chains
\* can tell from a set of signers: a chain acts once, and only on the signatures of
\* a quorum of different relayers who have signed the message.
THEOREM ImplementsCertificateSafety == Spec => Abstract!Spec
<1>1. Init => Abstract!Init
  BY DEF Init, Abstract!Init, Signers, Range
<1>2. IInv /\ [Next]_vars => [Abstract!Next]_<<Signers(stored), acted>>
  <2> SUFFICES ASSUME IInv, [Next]_vars
               PROVE  Abstract!Next \/ UNCHANGED <<Signers(stored), acted>>
    OBVIOUS
  <2>1. ASSUME NEW r \in Relayers, Vote(r) PROVE Abstract!Next
    BY <2>1, VoteSigns DEF Abstract!Next
  <2>2. ASSUME NEW r \in Senders, Relay(r) PROVE UNCHANGED <<Signers(stored), acted>>
    BY <2>2 DEF Relay, Signers
  <2>3. ASSUME NEW tx \in pool, Land(tx)
        PROVE  Abstract!Next \/ UNCHANGED <<Signers(stored), acted>>
    BY <2>3, LandActs DEF Abstract!Next
  <2>4. ASSUME NEW tx \in pool, Lose(tx) PROVE UNCHANGED <<Signers(stored), acted>>
    BY <2>4 DEF Lose, Signers
  <2>5. CASE UNCHANGED vars
    BY <2>5 DEF vars, Signers
  <2> QED
    BY <2>1, <2>2, <2>3, <2>4, <2>5 DEF Next
<1> QED
  BY <1>1, <1>2, InductiveInvariant, PTL DEF Spec, Abstract!Spec
=============================================================================
