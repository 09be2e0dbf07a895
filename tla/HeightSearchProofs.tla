------------------------- MODULE HeightSearchProofs -------------------------
(***************************************************************************)
(* Proofs about HeightSearch, for every chain whose blocks do not get      *)
(* older with the height, however far apart they are.                      *)
(***************************************************************************)
EXTENDS HeightSearch, TLAPS

\* The middle of an interval lies in it, and before its end if it has two ends.
LEMMA MediumBetween ==
  ASSUME NEW f \in Nat, NEW r \in Nat, f <= r
  PROVE  /\ (f + r) \div 2 \in Nat
         /\ f <= (f + r) \div 2 /\ (f + r) \div 2 <= r
         /\ f < r => (f + r) \div 2 < r
         /\ f + 1 < r => f < (f + r) \div 2
OBVIOUS

\* While the search runs, the middle block is one of the chain.
LEMMA MediumType ==
  ASSUME IInv
  PROVE  Medium \in Heights /\ time[Medium] \in Int /\ time[front] \in Int /\ time[rear] \in Int
<1>1. front \in Nat /\ rear \in Nat /\ front <= rear /\ rear <= Head /\ Head \in Nat
  BY SearchAssumption DEF IInv, TypeOK, Heights
<1>2. Medium \in Nat /\ Medium <= rear
  BY <1>1, MediumBetween DEF Medium
<1>3. Medium \in Heights /\ front \in Heights /\ rear \in Heights
  BY <1>1, <1>2 DEF Heights
<1>4. time \in [Heights -> Int]
  BY SearchAssumption DEF IInv, TypeOK
<1> QED
  BY <1>3, <1>4

\* A block that is not near enough and not too old is a window younger.
LEMMA TooYoung ==
  ASSUME IInv, phase = "search", Distance(time[Medium]) >= Window, ~(target > time[Medium])
  PROVE  target + Window <= time[Medium] /\ front < rear /\ Medium < rear
<1>1. front \in Nat /\ rear \in Nat /\ front <= rear
      /\ Window \in Nat \ {0} /\ target \in Int
  BY SearchAssumption DEF IInv, TypeOK, Heights
<1>2. time[Medium] \in Int /\ time[front] \in Int
  BY MediumType
<1>3. target + Window <= time[Medium]
  BY <1>1, <1>2 DEF Distance
<1>4. front # rear
  <2> SUFFICES ASSUME front = rear PROVE FALSE
    OBVIOUS
  <2>1. Medium = front
    BY <1>1, MediumBetween DEF Medium
  <2>2. time[front] - target < Window
    BY DEF IInv
  <2> QED
    BY <1>1, <1>2, <1>3, <2>1, <2>2
<1> QED
  BY <1>1, <1>3, <1>4, MediumBetween DEF Medium

\* The halves of an interval whose middle block is too old.
LEMMA UpperHalf ==
  ASSUME IInv, phase = "search", Distance(time[Medium]) >= Window, target > time[Medium]
  PROVE  /\ Half = <<Medium, rear>> /\ Medium <= rear
         /\ time[Medium] + Window <= target
         /\ Repeats => Medium = front /\ rear <= front + 1
<1>1. front \in Nat /\ rear \in Nat /\ front <= rear
      /\ Window \in Nat \ {0} /\ target \in Int
  BY SearchAssumption DEF IInv, TypeOK, Heights
<1>2. time[Medium] \in Int
  BY MediumType
<1>3. time[Medium] + Window <= target
  BY <1>1, <1>2 DEF Distance
<1>4. Half = <<Medium, rear>>
  BY DEF Half
<1>5. Repeats => Medium = front
  BY <1>4 DEF Repeats
<1>6. Medium = front => rear <= front + 1
  BY <1>1, MediumBetween DEF Medium
<1>7. Medium <= rear
  BY <1>1, MediumBetween DEF Medium
<1> QED
  BY <1>3, <1>4, <1>5, <1>6, <1>7

\* Blocks are in the order of their times.
LEMMA Monotone ==
  ASSUME IInv, NEW i \in Heights, NEW j \in Heights, i <= j
  PROVE  time[i] <= time[j]
BY BlockAssumption DEF IInv, TypeOK

-----------------------------------------------------------------------------
LEMMA InitSound == Init => IInv
<1> SUFFICES ASSUME Init PROVE IInv
  OBVIOUS
<1>1. TypeOK
  BY SearchAssumption DEF Init, TypeOK, Heights
<1>2. front <= rear
  BY SearchAssumption DEF Init, Heights
<1> QED
  BY <1>1, <1>2 DEF Init, IInv, StartsInTime

LEMMA NextSound == IInv /\ [Next]_vars => IInv'
<1> SUFFICES ASSUME IInv, [Next]_vars PROVE IInv'
  OBVIOUS
<1>1. /\ front \in Nat /\ rear \in Nat /\ Head \in Nat /\ Window \in Nat \ {0}
      /\ target \in Int /\ wanted \in Int
      /\ front \in Heights /\ rear \in Heights
  BY SearchAssumption DEF IInv, TypeOK, Heights
<1>2. Medium \in Heights /\ time[Medium] \in Int /\ time[front] \in Int /\ time[rear] \in Int
  BY MediumType
<1>3. CASE UNCHANGED vars
  BY <1>3 DEF vars, IInv, TypeOK, StartsInTime, WellFormed
<1>4. CASE StartAtFront
  BY <1>4 DEF StartAtFront, IInv, TypeOK, StartsInTime
<1>5. CASE StartSearch
  <2>1. target' = wanted - Window /\ target' \in Int
    BY <1>1, <1>5 DEF StartSearch
  <2>2. time[front] - target' < Window /\ rear = Head
    BY <1>1, <1>2, <1>5, <2>1 DEF StartSearch, IInv
  <2>3. (WellFormed /\ phase = "search")'
    BY <1>1, <1>5, Monotone DEF StartSearch, WellFormed, IInv
  <2> QED
    BY <1>5, <2>1, <2>2, <2>3 DEF StartSearch, IInv, TypeOK, StartsInTime
<1>6. CASE Hit
  <2>1. time[Medium] < wanted /\ wanted - time[Medium] < 2 * Window
    BY <1>1, <1>2, <1>6 DEF Hit, Distance, IInv
  <2>2. StartsInTime'
    BY <1>6, <2>1 DEF Hit, StartsInTime
  <2> QED
    BY <1>2, <1>6, <2>2 DEF Hit, IInv, TypeOK
<1>7. CASE Narrow /\ target > time[Medium]
  <2>1. front' = Medium /\ rear' = rear /\ Medium <= rear /\ time[Medium] + Window <= target
    BY <1>7, UpperHalf DEF Narrow
  <2>2. time[Medium] - target < Window
    BY <1>1, <1>2, <1>7
  <2>3. WellFormed'
    BY <1>1, <1>2, <1>7, <2>1, Monotone DEF Narrow, WellFormed
  <2> QED
    BY <1>2, <1>7, <2>1, <2>2, <2>3 DEF Narrow, IInv, TypeOK, StartsInTime
<1>8. CASE Narrow /\ ~(target > time[Medium])
  <2>1. target + Window <= time[Medium] /\ front < rear
    BY <1>8, TooYoung DEF Narrow
  <2>2. front' = front /\ rear' = Medium /\ front <= Medium
    BY <1>1, <1>8, <2>1, MediumBetween DEF Narrow, Half, Medium
  <2>3. WellFormed'
    BY <1>1, <1>2, <1>8, <2>1, <2>2 DEF Narrow, WellFormed, IInv
  <2> QED
    BY <1>2, <1>8, <2>1, <2>2, <2>3 DEF Narrow, IInv, TypeOK, StartsInTime
<1>9. CASE Raise
  <2>1. WellFormed /\ Repeats /\ phase = "search"
    BY <1>9 DEF Raise, IInv
  <2>2. target > time[Medium]
    <3> SUFFICES ASSUME ~(target > time[Medium]) PROVE FALSE
      OBVIOUS
    <3>1. Half = <<front, Medium>> /\ Medium < rear
      BY <2>1, TooYoung DEF Half, Repeats
    <3>2. Medium = rear
      BY <2>1, <3>1 DEF Repeats
    <3> QED
      BY <1>1, <3>1, <3>2
  <2>3. Medium = front /\ rear <= front + 1 /\ time[front] + Window <= target
    BY <2>1, <2>2, UpperHalf DEF Repeats
  <2> QED
    BY <1>9, <2>1, <2>3 DEF Raise, IInv, TypeOK, StartsInTime, WellFormed
<1> QED
  BY <1>3, <1>4, <1>5, <1>6, <1>7, <1>8, <1>9 DEF Next

\* The parameters of each call are in order, and enclose the target unless it is
\* beyond the head of the chain.
THEOREM SearchSound == Spec => []IInv
BY InitSound, NextSound, PTL DEF Spec

\* The scan starts in time.
THEOREM ScanStartsInTime == Spec => []StartsInTime
<1>1. IInv => StartsInTime
  BY DEF IInv
<1> QED
  BY <1>1, SearchSound, PTL

\* The search gives up only if no block below the head is near enough: those up
\* to the front are too old, and those from the rear on too young.
THEOREM RaisesOnlyAtHead == Spec => []MissesOnlyHead
<1>1. IInv => MissesOnlyHead
  <2> SUFFICES ASSUME IInv, phase = "raised", NEW h \in Heights \ {Head}, Near(h)
               PROVE  FALSE
    BY DEF MissesOnlyHead
  <2>1. /\ front \in Heights /\ rear \in Heights /\ Head \in Nat /\ h \in Nat
        /\ front \in Nat /\ rear \in Nat /\ Window \in Nat \ {0} /\ wanted \in Int
    BY SearchAssumption DEF IInv, TypeOK, Heights
  <2>2. time[front] \in Int /\ time[rear] \in Int /\ time[h] \in Int
    BY <2>1, SearchAssumption DEF IInv, TypeOK
  <2>3. /\ target = wanted - Window /\ time[front] + Window <= target
        /\ rear <= front + 1 /\ (rear = Head \/ target + Window <= time[rear])
    BY DEF IInv
  <2>4. CASE h <= front
    <3>1. time[h] <= time[front]
      BY <2>1, <2>4, Monotone
    <3> QED
      BY <2>1, <2>2, <2>3, <3>1 DEF Near
  <2>5. CASE ~(h <= front)
    <3>1. rear <= h /\ rear # Head
      BY <2>1, <2>3, <2>5 DEF Heights
    <3>2. time[rear] <= time[h]
      BY <2>1, <3>1, Monotone
    <3> QED
      BY <2>1, <2>2, <2>3, <3>1, <3>2 DEF Near
  <2> QED
    BY <2>4, <2>5
<1> QED
  BY <1>1, SearchSound, PTL
=============================================================================
