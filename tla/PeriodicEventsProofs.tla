------------------------ MODULE PeriodicEventsProofs ------------------------
(***************************************************************************)
(* Proofs about PeriodicEvents, for any relayers, committees, periods,     *)
(* delays and start-up times.  What the invariant says of one relayer is a *)
(* matter of its time lock, its waiting time and its transactions under    *)
(* way; lemmas about these come first.                                     *)
(***************************************************************************)
EXTENDS PeriodicEvents, SequenceTheorems, TLAPS

\* The length of n periods.
Span(n) == Period * n

\* Spaced for one relayer, with time lock w and transactions p under way.
SpacedOf(w, p) ==
  \A i \in DOMAIN p : w + p[i] >= Span(Len(p) - i + 1) - Backlog

\* Served for one relayer, which has waited for u with an allowance of a.
ServedOf(w, u, p, a) ==
  /\ u + w <= a + Span(Len(p))
  /\ \A i \in DOMAIN p : u <= a + Late + p[i] + Span(i - 1)

LEMMA Constants ==
  /\ Period \in Nat /\ Late \in Nat /\ Inclusion \in Nat
  /\ Backlog \in Nat /\ Late <= Backlog /\ Session \in Nat /\ MaxFaults \in Nat
BY PeriodicAssumption

LEMMA Products ==
  /\ \A m, n \in Nat : m * n \in Nat
  /\ \A m, n \in Nat : m * (n + 1) = m * n + m
  /\ \A m, n \in Nat : (1 + m) * n = n + m * n /\ (1 + (m + 1)) * n = (1 + m) * n + n
  /\ \A m \in Nat : m * 0 = 0
<1>1. \A m, n \in Nat : m * n \in Nat
  OBVIOUS
<1>2. \A m, n \in Nat : m * (n + 1) = m * n + m
  OBVIOUS
<1>3. \A m, n \in Nat : (1 + m) * n = n + m * n
  OBVIOUS
<1>4. \A m, n \in Nat : (1 + (m + 1)) * n = (1 + m) * n + n
  OBVIOUS
<1>5. \A m \in Nat : m * 0 = 0
  OBVIOUS
<1> QED
  BY <1>1, <1>2, <1>3, <1>4, <1>5

LEMMA Spans ==
  /\ \A n \in Nat : Span(n) \in Nat /\ Span(n + 1) = Span(n) + Period
  /\ Span(0) = 0
BY Constants, Products DEF Span

\* Every lost transaction adds a period to the allowance.
LEMMA Allowances ==
  ASSUME faults \in Nat
  PROVE  /\ Allowance \in Nat /\ Period <= Allowance
         /\ faults' = faults + 1 => Allowance' = Allowance + Period
<1>1. faults * Period \in Nat /\ Allowance = Period + faults * Period
  BY Constants, Products DEF Allowance
<1>2. ASSUME faults' = faults + 1 PROVE Allowance' = Allowance + Period
  BY Constants, <1>2, Products DEF Allowance
<1> QED
  BY Constants, <1>1, <1>2

\* RemoveAt takes one element out and keeps the order of the others.
LEMMA Removed ==
  ASSUME NEW S, NEW s \in Seq(S), NEW k \in DOMAIN s
  PROVE  /\ RemoveAt(s, k) \in Seq(S)
         /\ Len(RemoveAt(s, k)) = Len(s) - 1
         /\ \A j \in 1..Len(s) - 1 :
              RemoveAt(s, k)[j] = IF j < k THEN s[j] ELSE s[j + 1]
<1>1. k \in 1..Len(s) /\ Len(s) \in Nat
  OBVIOUS
<1>2. /\ SubSeq(s, 1, k - 1) \in Seq(S) /\ Len(SubSeq(s, 1, k - 1)) = k - 1
      /\ \A j \in 1..k - 1 : SubSeq(s, 1, k - 1)[j] = s[j]
  BY <1>1
<1>3. /\ SubSeq(s, k + 1, Len(s)) \in Seq(S) /\ Len(SubSeq(s, k + 1, Len(s))) = Len(s) - k
      /\ \A j \in 1..Len(s) - k : SubSeq(s, k + 1, Len(s))[j] = s[k + j]
  BY <1>1
<1> DEFINE f == SubSeq(s, 1, k - 1)
           g == SubSeq(s, k + 1, Len(s))
<1>4. f \in Seq(S) /\ g \in Seq(S) /\ Len(f) = k - 1 /\ Len(g) = Len(s) - k
  BY <1>2, <1>3
<1> HIDE DEF f, g
<1>5. /\ f \o g \in Seq(S) /\ Len(f \o g) = Len(f) + Len(g)
      /\ \A j \in 1..Len(f) + Len(g) :
           (f \o g)[j] = IF j <= Len(f) THEN f[j] ELSE g[j - Len(f)]
  BY <1>4, ConcatProperties
<1>6. Len(f \o g) = Len(s) - 1
  BY <1>1, <1>4, <1>5
<1>7. ASSUME NEW j \in 1..Len(s) - 1
      PROVE  (f \o g)[j] = IF j < k THEN s[j] ELSE s[j + 1]
  <2>1. /\ j \in 1..Len(f) + Len(g) /\ j \in Nat /\ k \in Nat /\ Len(f) = k - 1
    BY <1>1, <1>4
  <2>2. CASE j < k
    <3>1. j <= Len(f) /\ j \in 1..k - 1
      BY <2>1, <2>2, <1>7
    <3>2. (f \o g)[j] = f[j]
      BY <1>5, <2>1, <3>1
    <3> QED
      BY <1>2, <2>2, <3>1, <3>2 DEF f
  <2>3. CASE ~(j < k)
    <3>1. ~(j <= Len(f)) /\ j - Len(f) \in 1..Len(s) - k /\ k + (j - Len(f)) = j + 1
      BY <1>1, <2>1, <2>3, <1>7
    <3>2. (f \o g)[j] = g[j - Len(f)]
      BY <1>5, <2>1, <3>1
    <3>3. g[j - Len(f)] = s[k + (j - Len(f))]
      BY <1>3, <3>1 DEF g
    <3> QED
      BY <2>3, <3>1, <3>2, <3>3
  <2> QED
    BY <2>2, <2>3
<1>8. RemoveAt(s, k) = f \o g
  BY DEF RemoveAt, f, g
<1> QED
  BY <1>5, <1>6, <1>7, <1>8

\* The first element of a sequence.
LEMMA NonEmptySeq ==
  ASSUME NEW S, NEW s \in Seq(S), s # <<>>
  PROVE  1 \in DOMAIN s /\ s[1] \in S /\ Len(s) - 1 \in Nat
<1>1. Len(s) \in Nat /\ Len(s) # 0 /\ DOMAIN s = 1..Len(s)
  BY EmptySeq
<1>2. 1 \in 1..Len(s) /\ Len(s) - 1 \in Nat
  BY <1>1
<1> QED
  BY <1>1, <1>2, ElementOfSeq

-----------------------------------------------------------------------------
(* What each kind of step does to the times of one relayer. *)

\* A transaction is sent, and the next time lock is a period later.
LEMMA SendingKeeps ==
  ASSUME NEW p \in Seq(Nat), NEW w \in Int, NEW u \in Nat, NEW a \in Nat,
         -Backlog <= w, w < -Late => u = 0,
         SpacedOf(w, p), ServedOf(w, u, p, a)
  PROVE  SpacedOf(w + Period, Append(p, 0)) /\ ServedOf(w + Period, u, Append(p, 0), a)
<1> DEFINE q == Append(p, 0)
<1>1. /\ Len(p) \in Nat /\ Len(q) = Len(p) + 1 /\ q[Len(p) + 1] = 0
      /\ DOMAIN q = 1..Len(p) + 1 /\ DOMAIN p = 1..Len(p)
      /\ \A i \in 1..Len(p) : q[i] = p[i] /\ p[i] \in Nat
  OBVIOUS
<1>2. ASSUME NEW i \in DOMAIN q PROVE w + Period + q[i] >= Span(Len(q) - i + 1) - Backlog
  <2>1. CASE i \in 1..Len(p)
    <3>1. Len(p) - i + 1 \in Nat /\ Len(q) - i + 1 = Len(p) - i + 1 + 1
      BY <1>1, <2>1
    <3>2. Span(Len(q) - i + 1) = Span(Len(p) - i + 1) + Period
      BY <3>1, Spans
    <3>3. Span(Len(p) - i + 1) \in Nat
      BY <3>1, Spans
    <3>4. w + p[i] >= Span(Len(p) - i + 1) - Backlog
      BY <1>1, <2>1 DEF SpacedOf
    <3>5. q[i] = p[i] /\ p[i] \in Nat
      BY <1>1, <2>1
    <3> DEFINE x == Span(Len(q) - i + 1)
               y == Span(Len(p) - i + 1)
               v == q[i]
    <3>6. x = y + Period /\ y \in Nat /\ w + v >= y - Backlog /\ v \in Nat
      BY <3>2, <3>3, <3>4, <3>5
    <3> HIDE DEF x, y, v
    <3>7. w + Period + v >= x - Backlog
      BY <3>6, Constants
    <3> QED
      BY <3>7 DEF x, v
  <2>2. CASE i = Len(p) + 1
    <3>1. Len(q) - i + 1 = 0 + 1
      BY <1>1, <2>2
    <3>2. Span(0 + 1) = Period
      BY Spans, Constants
    <3>3. Span(Len(q) - i + 1) = Period
      BY <3>1, <3>2
    <3> QED
      BY <1>1, <2>2, <3>3, Constants
  <2> QED
    BY <1>1, <1>2, <2>1, <2>2
<1>3. u + (w + Period) <= a + Span(Len(q))
  <2>1. Span(Len(q)) = Span(Len(p)) + Period /\ Span(Len(p)) \in Nat
    BY <1>1, Spans
  <2>2. u + w <= a + Span(Len(p))
    BY DEF ServedOf
  <2> HIDE DEF q
  <2> QED
    BY <2>1, <2>2, Constants
<1>4. ASSUME NEW i \in DOMAIN q PROVE u <= a + Late + q[i] + Span(i - 1)
  <2>1. CASE i \in 1..Len(p)
    BY <1>1, <2>1 DEF ServedOf
  <2>2. CASE i = Len(p) + 1
    <3>1. i - 1 = Len(p) /\ Span(i - 1) = Span(Len(p)) /\ Span(Len(p)) \in Nat
      BY <1>1, <2>2, Spans
    <3>2. u + w <= a + Span(Len(p))
      BY DEF ServedOf
    <3> QED
      BY <1>1, <2>2, <3>1, <3>2, Constants
  <2> QED
    BY <1>1, <1>4, <2>1, <2>2
<1> HIDE DEF q
<1>5. SpacedOf(w + Period, q)
  BY <1>2 DEF SpacedOf
<1>6. ServedOf(w + Period, u, q, a)
  BY <1>3, <1>4, <1>1, Spans, Constants DEF ServedOf
<1> QED
  BY <1>5, <1>6 DEF q

\* The arithmetic of Spaced and Served when what was j + 1 becomes j.
LEMMA Shifting ==
  ASSUME NEW n \in Nat, NEW j \in 1..n
  PROVE  /\ n - (j + 1) + 1 = n - j /\ n - j \in Nat
         /\ n - j + 1 = (n - j) + 1
         /\ Span(n - j + 1) = Span(n - j) + Period /\ Span(n - j) \in Nat
         /\ (j + 1) - 1 = (j - 1) + 1 /\ j - 1 \in Nat
         /\ Span((j + 1) - 1) = Span(j - 1) + Period /\ Span(j - 1) \in Nat
<1>1. n - (j + 1) + 1 = n - j /\ n - j \in Nat
  OBVIOUS
<1>2. (j + 1) - 1 = (j - 1) + 1 /\ j - 1 \in Nat
  OBVIOUS
<1>3. Span((n - j) + 1) = Span(n - j) + Period /\ Span(n - j) \in Nat
  BY <1>1, Spans
<1>4. Span((j - 1) + 1) = Span(j - 1) + Period /\ Span(j - 1) \in Nat
  BY <1>2, Spans
<1>5. Span((j + 1) - 1) = Span(j - 1) + Period
  BY <1>2, <1>4
<1> QED
  BY <1>1, <1>2, <1>3, <1>4, <1>5

\* A transaction leaves the pool.  If it is lost, the allowance grows.
LEMMA RemovingKeeps ==
  ASSUME NEW p \in Seq(Nat), NEW w \in Int, NEW u \in Nat, NEW a \in Nat,
         NEW k \in DOMAIN p
  PROVE  /\ SpacedOf(w, p) => SpacedOf(w, RemoveAt(p, k))
         /\ ServedOf(w, u, p, a) => ServedOf(w, u, RemoveAt(p, k), a + Period)
<1> DEFINE q == RemoveAt(p, k)
           n == Len(p)
<1>1. /\ k \in 1..n /\ n \in Nat /\ DOMAIN p = 1..n
      /\ \A i \in 1..n : p[i] \in Nat
  OBVIOUS
<1>2. /\ q \in Seq(Nat) /\ Len(q) = n - 1
      /\ \A j \in 1..n - 1 : q[j] = IF j < k THEN p[j] ELSE p[j + 1]
  BY Removed
<1>3. DOMAIN q = 1..n - 1
  BY <1>2
<1> HIDE DEF q, n
<1>4. ASSUME NEW j \in 1..n - 1
      PROVE  /\ j \in Nat /\ j \in 1..n /\ j + 1 \in 1..n
             /\ q[j] = p[j] \/ q[j] = p[j + 1]
             /\ p[j] \in Nat /\ p[j + 1] \in Nat
  <2>1. j \in Nat /\ j \in 1..n /\ j + 1 \in 1..n
    BY <1>1
  <2> QED
    BY <1>1, <1>2, <2>1
<1>5. ASSUME SpacedOf(w, p), NEW j \in 1..n - 1
      PROVE  w + q[j] >= Span(Len(q) - j + 1) - Backlog
  <2>1. /\ w + p[j] >= Span(n - j + 1) - Backlog
        /\ w + p[j + 1] >= Span(n - (j + 1) + 1) - Backlog
    BY <1>1, <1>4, <1>5 DEF SpacedOf, n
  <2>2. Len(q) - j + 1 = n - j
    BY <1>1, <1>2
  <2>3. /\ Span(n - (j + 1) + 1) = Span(n - j) /\ Span(Len(q) - j + 1) = Span(n - j)
        /\ Span(n - j + 1) = Span(n - j) + Period /\ Span(n - j) \in Nat
    BY <1>1, <1>4, <2>2, Shifting
  <2>4. p[j] \in Nat /\ p[j + 1] \in Nat /\ (q[j] = p[j] \/ q[j] = p[j + 1])
    BY <1>4, <1>5
  <2> DEFINE x == Span(n - j)
             y == Span(n - j + 1)
             v == p[j]
  <2>5. /\ w + v >= y - Backlog /\ y = x + Period /\ x \in Nat
        /\ p[j + 1] \in Nat /\ w + p[j + 1] >= x - Backlog /\ v \in Nat
    BY <2>1, <2>3, <2>4
  <2> HIDE DEF x, y, v
  <2>6. w + v >= x - Backlog
    BY <2>5, Constants
  <2>7. w + p[j] >= x - Backlog /\ w + p[j + 1] >= x - Backlog
    BY <2>5, <2>6 DEF v
  <2> QED
    BY <2>3, <2>4, <2>7 DEF x
<1>6. ASSUME ServedOf(w, u, p, a)
      PROVE  u + w <= a + Period + Span(Len(q))
  <2>1. Len(q) \in Nat /\ n = Len(q) + 1
    BY <1>1, <1>2
  <2>2. Span(n) = Span(Len(q)) + Period /\ Span(Len(q)) \in Nat
    BY <2>1, Spans
  <2> QED
    BY <1>6, <2>2, Constants DEF ServedOf, n
<1>7. ASSUME ServedOf(w, u, p, a), NEW j \in 1..n - 1
      PROVE  u <= a + Period + Late + q[j] + Span(j - 1)
  <2>1. /\ u <= a + Late + p[j] + Span(j - 1)
        /\ u <= a + Late + p[j + 1] + Span((j + 1) - 1)
    BY <1>1, <1>4, <1>7 DEF ServedOf
  <2>2. Span((j + 1) - 1) = Span(j - 1) + Period /\ Span(j - 1) \in Nat
    BY <1>1, <1>4, Shifting
  <2>3. p[j] \in Nat /\ p[j + 1] \in Nat /\ (q[j] = p[j] \/ q[j] = p[j + 1])
    BY <1>4, <1>7
  <2> DEFINE x == Span(j - 1)
             y == Span((j + 1) - 1)
             v == p[j]
             v1 == p[j + 1]
  <2>4. /\ u <= a + Late + v + x /\ y = x + Period /\ x \in Nat
        /\ u <= a + Late + v1 + y /\ v \in Nat /\ v1 \in Nat
    BY <2>1, <2>2, <2>3
  <2> HIDE DEF x, y, v, v1
  <2>5. u <= a + Period + Late + v + x /\ u <= a + Period + Late + v1 + x
    BY <2>4, Constants
  <2> QED
    BY <2>3, <2>5 DEF x, v, v1
<1>8. SpacedOf(w, p) => SpacedOf(w, q)
  BY <1>3, <1>5 DEF SpacedOf
<1>9. ServedOf(w, u, p, a) => ServedOf(w, u, q, a + Period)
  BY <1>3, <1>6, <1>7 DEF ServedOf
<1> QED
  BY <1>8, <1>9 DEF q

\* Whoever has not waited is served.
LEMMA NotWaiting ==
  ASSUME NEW p \in Seq(Nat), NEW w \in Int, NEW a \in Nat, w <= Period, Period <= a
  PROVE  ServedOf(w, 0, p, a)
<1>1. Len(p) \in Nat /\ \A i \in DOMAIN p : p[i] \in Nat /\ i - 1 \in Nat
  OBVIOUS
<1>2. Span(Len(p)) \in Nat /\ \A i \in DOMAIN p : Span(i - 1) \in Nat
  BY <1>1, Spans
<1>3. 0 + w <= a + Span(Len(p))
  BY <1>2, Constants
<1>4. ASSUME NEW i \in DOMAIN p PROVE 0 <= a + Late + p[i] + Span(i - 1)
  <2> DEFINE x == Span(i - 1)
             v == p[i]
  <2>1. x \in Nat /\ v \in Nat
    BY <1>1, <1>2
  <2> HIDE DEF x, v
  <2>2. 0 <= a + Late + v + x
    BY <2>1, Constants
  <2> QED
    BY <2>2 DEF x, v
<1> QED
  BY <1>3, <1>4 DEF ServedOf

\* A greater allowance does no harm.
LEMMA AllowingKeeps ==
  ASSUME NEW p \in Seq(Nat), NEW w \in Int, NEW u \in Nat, NEW a \in Nat,
         ServedOf(w, u, p, a)
  PROVE  ServedOf(w, u, p, a + Period)
<1>1. Len(p) \in Nat /\ Span(Len(p)) \in Nat
  BY Spans
<1>2. u + w <= a + Span(Len(p))
  BY DEF ServedOf
<1>3. u + w <= a + Period + Span(Len(p))
  BY <1>1, <1>2, Constants
<1>4. ASSUME NEW i \in DOMAIN p PROVE u <= a + Period + Late + p[i] + Span(i - 1)
  <2>1. p[i] \in Nat /\ i - 1 \in Nat
    OBVIOUS
  <2> DEFINE x == Span(i - 1)
             v == p[i]
  <2>2. x \in Nat /\ v \in Nat /\ u <= a + Late + v + x
    BY <2>1, Spans DEF ServedOf
  <2> HIDE DEF x, v
  <2>3. u <= a + Period + Late + v + x
    BY <2>2, Constants
  <2> QED
    BY <2>3 DEF x, v
<1> QED
  BY <1>3, <1>4 DEF ServedOf

\* Time passes for the time lock, the transactions and the relayer.
LEMMA PassingKeeps ==
  ASSUME NEW p \in Seq(Nat), NEW w \in Int, NEW u \in Nat, NEW a \in Nat
  PROVE  LET q == [i \in 1..Len(p) |-> p[i] + 1]
         IN /\ SpacedOf(w, p) => SpacedOf(w - 1, q)
            /\ ServedOf(w, u, p, a) => ServedOf(w - 1, u + 1, q, a)
<1> DEFINE q == [i \in 1..Len(p) |-> p[i] + 1]
           n == Len(p)
<1>1. /\ n \in Nat /\ DOMAIN p = 1..n /\ DOMAIN q = 1..n
      /\ \A i \in 1..n : q[i] = p[i] + 1 /\ p[i] \in Nat
  OBVIOUS
<1>2. Len(q) = n
  BY <1>1
<1> HIDE DEF q
<1>3. Span(n) \in Nat
  BY <1>1, Spans
<1> HIDE DEF n
<1>4. ASSUME NEW i \in 1..n
      PROVE  Span(n - i + 1) \in Nat /\ Span(i - 1) \in Nat
  <2>1. n - i + 1 \in Nat /\ i - 1 \in Nat
    BY <1>1
  <2> QED
    BY <2>1, Spans
<1>5. ASSUME SpacedOf(w, p), NEW i \in 1..n
      PROVE  w - 1 + q[i] >= Span(n - i + 1) - Backlog
  <2>1. w + p[i] >= Span(n - i + 1) - Backlog
    BY <1>1, <1>5 DEF SpacedOf, n
  <2> QED
    BY <1>1, <1>4, <2>1, Constants
<1>6. ASSUME ServedOf(w, u, p, a), NEW i \in 1..n
      PROVE  u + 1 <= a + Late + q[i] + Span(i - 1)
  <2>1. u <= a + Late + p[i] + Span(i - 1)
    BY <1>1, <1>6 DEF ServedOf
  <2>2. q[i] = p[i] + 1 /\ p[i] \in Nat /\ Span(i - 1) \in Nat
    BY <1>1, <1>4, <1>6
  <2> DEFINE x == Span(i - 1)
             v == p[i]
  <2>3. u <= a + Late + v + x /\ x \in Nat /\ v \in Nat
    BY <2>1, <2>2
  <2> HIDE DEF x, v
  <2>4. u + 1 <= a + Late + (v + 1) + x
    BY <2>3, Constants
  <2> QED
    BY <2>2, <2>4 DEF x, v
<1>7. SpacedOf(w, p) => SpacedOf(w - 1, q)
  BY <1>1, <1>2, <1>5 DEF SpacedOf
<1>8. ASSUME ServedOf(w, u, p, a) PROVE u + 1 + (w - 1) <= a + Span(n)
  BY <1>3, <1>8 DEF ServedOf, n
<1>9. ServedOf(w, u, p, a) => ServedOf(w - 1, u + 1, q, a)
  BY <1>1, <1>2, <1>6, <1>8 DEF ServedOf
<1> QED
  BY <1>7, <1>9 DEF q

-----------------------------------------------------------------------------
(* The invariant. *)

\* What the invariant says of one relayer.
RelayerInStep(r) ==
  /\ SpacedOf(wait[r], pool[r])
  /\ wait[r] < -Late => unserved[r] = 0
  /\ unserved[r] > 0 => Wanted(r)
  /\ ServedOf(wait[r], unserved[r], pool[r], Allowance)

LEMMA InStep == IInv <=> TypeOK /\ \A r \in Relayers : RelayerInStep(r)
BY DEF IInv, Spaced, LateAtStartOnly, Served, RelayerInStep, SpacedOf, ServedOf, Span

LEMMA InStepNext == TypeOK' /\ (\A r \in Relayers : RelayerInStep(r)') => IInv'
BY DEF IInv, Spaced, LateAtStartOnly, Served, RelayerInStep, SpacedOf, ServedOf, Span

LEMMA Types ==
  ASSUME TypeOK, NEW r \in Relayers
  PROVE  /\ wait[r] \in Int /\ -Backlog <= wait[r] /\ wait[r] <= Period
         /\ unserved[r] \in Nat /\ pool[r] \in Seq(0..Inclusion) /\ pool[r] \in Seq(Nat)
         /\ faults \in Nat /\ Allowance \in Nat /\ Period <= Allowance
<1>1. wait[r] \in (-Backlog)..Period /\ unserved[r] \in Nat /\ pool[r] \in Seq(0..Inclusion)
      /\ faults \in Nat
  BY Constants DEF TypeOK
<1>2. pool[r] \in Seq(Nat)
  <2>1. 0..Inclusion \subseteq Nat
    BY Constants
  <2> QED
    BY <1>1, <2>1, SeqMonotonic
<1> QED
  BY <1>1, <1>2, Constants, Allowances

LEMMA InitSound == Init => IInv
<1> SUFFICES ASSUME Init PROVE IInv
  OBVIOUS
<1>1. TypeOK
  <2>1. wait \in [Relayers -> (-Backlog)..Period]
    <3>1. \A s \in StartUps : -s \in (-Backlog)..Period
      BY PeriodicAssumption
    <3> QED
      BY <3>1 DEF Init
  <2>2. pool \in [Relayers -> Seq(0..Inclusion)]
    BY DEF Init
  <2> QED
    BY <2>1, <2>2, PeriodicAssumption DEF Init, TypeOK
<1>2. ASSUME NEW r \in Relayers PROVE RelayerInStep(r)
  <2>1. pool[r] = <<>> /\ unserved[r] = 0
    BY DEF Init
  <2>2. ServedOf(wait[r], 0, pool[r], Allowance)
    BY <1>1, Types, NotWaiting
  <2>3. SpacedOf(wait[r], pool[r])
    BY <2>1 DEF SpacedOf
  <2> QED
    BY <2>1, <2>2, <2>3 DEF RelayerInStep
<1> QED
  BY <1>1, <1>2, InStep

LEMMA PollSound ==
  ASSUME IInv, NEW r \in Relayers, Poll(r)
  PROVE  IInv'
<1>1. TypeOK /\ RelayerInStep(r)
  BY InStep
<1>2. /\ unserved' = unserved /\ Allowance' = Allowance
      /\ \A q \in Relayers : Wanted(q)' = Wanted(q)
  BY DEF Poll, Allowance, Wanted
<1>3. /\ wait[r] <= 0 /\ wait'[r] = wait[r] + Period
      /\ wait' = [wait EXCEPT ![r] = wait[r] + Period]
      /\ \A q \in Relayers \ {r} : wait'[q] = wait[q]
  BY <1>1 DEF Poll, CloneNext, TypeOK
<1>4. /\ pool'[r] = IF Sends(r) THEN Append(pool[r], 0) ELSE pool[r]
      /\ \A q \in Relayers \ {r} : pool'[q] = pool[q]
  BY <1>1 DEF Poll, TypeOK
<1>5. /\ wait[r] \in Int /\ -Backlog <= wait[r] /\ wait[r] <= Period
      /\ unserved[r] \in Nat /\ pool[r] \in Seq(Nat) /\ pool[r] \in Seq(0..Inclusion)
      /\ Allowance \in Nat /\ Period <= Allowance
  BY <1>1, Types
<1>6. TypeOK'
  <2>1. wait[r] + Period \in (-Backlog)..Period
    BY <1>3, <1>5, Constants
  <2>2. wait' \in [Relayers -> (-Backlog)..Period]
    BY <1>1, <1>3, <2>1 DEF TypeOK
  <2>3. Append(pool[r], 0) \in Seq(0..Inclusion)
    <3>1. 0 \in 0..Inclusion
      BY Constants
    <3> QED
      BY <1>5, <3>1
  <2>4. pool' \in [Relayers -> Seq(0..Inclusion)]
    BY <1>1, <2>3 DEF Poll, TypeOK
  <2> QED
    BY <1>1, <2>2, <2>4 DEF Poll, TypeOK
<1>7. ASSUME NEW q \in Relayers \ {r} PROVE RelayerInStep(q)'
  <2>1. RelayerInStep(q)
    BY InStep
  <2> QED
    BY <1>2, <1>3, <1>4, <2>1 DEF RelayerInStep
<1>8. RelayerInStep(r)'
  <2>1. wait[r] + Period < -Late => unserved[r] = 0
    BY <1>1, <1>5, Constants DEF RelayerInStep
  <2>2. CASE Sends(r)
    <3>1. /\ SpacedOf(wait[r] + Period, Append(pool[r], 0))
          /\ ServedOf(wait[r] + Period, unserved[r], Append(pool[r], 0), Allowance)
      BY <1>1, <1>5, SendingKeeps DEF RelayerInStep
    <3> QED
      BY <1>1, <1>2, <1>3, <1>4, <2>1, <2>2, <3>1 DEF RelayerInStep
  <2>3. CASE ~Sends(r)
    <3>1. unserved[r] = 0
      BY <1>1, <1>5, <2>3 DEF RelayerInStep, Sends, HeartBeatDue, PriceDue, Accepts, Wanted
    <3>2. ServedOf(wait[r] + Period, 0, pool[r], Allowance)
      <4>1. wait[r] + Period \in Int /\ wait[r] + Period <= Period
        BY <1>3, <1>5, Constants
      <4> QED
        BY <1>5, <4>1, NotWaiting
    <3>3. SpacedOf(wait[r] + Period, pool[r])
      <4>1. ASSUME NEW i \in DOMAIN pool[r]
            PROVE  wait[r] + Period + pool[r][i] >= Span(Len(pool[r]) - i + 1) - Backlog
        <5>1. Len(pool[r]) - i + 1 \in Nat /\ pool[r][i] \in Nat
          BY <1>5
        <5> DEFINE x == Span(Len(pool[r]) - i + 1)
                   v == pool[r][i]
        <5>2. x \in Nat /\ v \in Nat /\ wait[r] + v >= x - Backlog
          BY <1>1, <5>1, Spans DEF RelayerInStep, SpacedOf
        <5> HIDE DEF x, v
        <5>3. wait[r] + Period + v >= x - Backlog
          BY <1>5, <5>2, Constants
        <5> QED
          BY <5>3 DEF x, v
      <4> QED
        BY <4>1 DEF SpacedOf
    <3> QED
      BY <1>1, <1>2, <1>3, <1>4, <2>1, <2>3, <3>1, <3>2, <3>3 DEF RelayerInStep
  <2> QED
    BY <2>2, <2>3
<1> QED
  BY <1>6, <1>7, <1>8, InStepNext

\* A transaction of r leaves the pool, in a block or not.
LEMMA PoolShrinks ==
  ASSUME TypeOK, NEW r \in Relayers, NEW i \in DOMAIN pool[r],
         pool' = [pool EXCEPT ![r] = RemoveAt(@, i)]
  PROVE  /\ pool' \in [Relayers -> Seq(0..Inclusion)]
         /\ pool'[r] = RemoveAt(pool[r], i)
         /\ \A q \in Relayers \ {r} : pool'[q] = pool[q]
<1>1. pool \in [Relayers -> Seq(0..Inclusion)] /\ pool[r] \in Seq(0..Inclusion)
  BY DEF TypeOK
<1>2. RemoveAt(pool[r], i) \in Seq(0..Inclusion)
  BY <1>1, Removed
<1> QED
  BY <1>1, <1>2

LEMMA LandSound ==
  ASSUME IInv, NEW r \in Relayers, NEW i \in DOMAIN pool[r], Land(r, i)
  PROVE  IInv'
<1>1. TypeOK /\ RelayerInStep(r)
  BY InStep
<1>2. /\ wait' = wait /\ event' = event /\ selected' = selected /\ Allowance' = Allowance
      /\ pool' = [pool EXCEPT ![r] = RemoveAt(@, i)]
  BY DEF Land, Allowance
<1>3. /\ wait[r] \in Int /\ wait[r] <= Period /\ unserved[r] \in Nat /\ pool[r] \in Seq(Nat)
      /\ Allowance \in Nat /\ Period <= Allowance
  BY <1>1, Types
<1>4. /\ pool' \in [Relayers -> Seq(0..Inclusion)]
      /\ pool'[r] = RemoveAt(pool[r], i)
      /\ \A q \in Relayers \ {r} : pool'[q] = pool[q]
  BY <1>1, <1>2, PoolShrinks
<1>5. /\ unserved' \in [Relayers -> Nat] /\ unserved'[r] = 0
      /\ \A q \in Relayers \ {r} : unserved'[q] = unserved[q] /\ Wanted(q)' = Wanted(q)
      /\ pulsed' \subseteq Relayers
  <2>1. CASE Accepts(r) /\ Execute(r)
    BY <1>1, <1>2, <2>1 DEF Execute, TypeOK, Wanted
  <2>2. CASE ~Accepts(r) /\ UNCHANGED <<pulsed, unserved>>
    <3>1. unserved[r] = 0
      BY <1>1, <1>3, <2>2 DEF RelayerInStep, Wanted, Accepts
    <3> QED
      BY <1>1, <1>2, <2>2, <3>1 DEF TypeOK, Wanted
  <2> QED
    BY <2>1, <2>2 DEF Land
<1>6. TypeOK'
  BY <1>1, <1>4, <1>5 DEF TypeOK, Land
<1>7. ASSUME NEW q \in Relayers \ {r} PROVE RelayerInStep(q)'
  <2>1. RelayerInStep(q)
    BY InStep
  <2> QED
    BY <1>2, <1>4, <1>5, <2>1 DEF RelayerInStep
<1>8. RelayerInStep(r)'
  <2>1. SpacedOf(wait[r], RemoveAt(pool[r], i))
    BY <1>1, <1>3, RemovingKeeps DEF RelayerInStep
  <2>2. RemoveAt(pool[r], i) \in Seq(Nat)
    BY <1>3, Removed
  <2>3. ServedOf(wait[r], 0, RemoveAt(pool[r], i), Allowance)
    BY <1>3, <2>2, NotWaiting
  <2> QED
    BY <1>2, <1>4, <1>5, <2>1, <2>3 DEF RelayerInStep
<1> QED
  BY <1>6, <1>7, <1>8, InStepNext

LEMMA LoseSound ==
  ASSUME IInv, NEW r \in Relayers, NEW i \in DOMAIN pool[r], Lose(r, i)
  PROVE  IInv'
<1>1. TypeOK
  BY InStep
<1>2. /\ wait' = wait /\ unserved' = unserved /\ faults' = faults + 1
      /\ pool' = [pool EXCEPT ![r] = RemoveAt(@, i)]
      /\ \A q \in Relayers : Wanted(q)' = Wanted(q)
  BY DEF Lose, Wanted
<1>3. Allowance' = Allowance + Period
  BY <1>1, <1>2, Types, Allowances
<1>4. /\ pool' \in [Relayers -> Seq(0..Inclusion)]
      /\ pool'[r] = RemoveAt(pool[r], i)
      /\ \A q \in Relayers \ {r} : pool'[q] = pool[q]
  BY <1>1, <1>2, PoolShrinks
<1>5. TypeOK'
  BY <1>1, <1>4, Constants DEF TypeOK, Lose
<1>6. ASSUME NEW q \in Relayers PROVE RelayerInStep(q)'
  <2>1. /\ RelayerInStep(q) /\ wait[q] \in Int /\ unserved[q] \in Nat
        /\ pool[q] \in Seq(Nat) /\ Allowance \in Nat
    BY <1>1, Types, InStep
  <2>2. CASE q = r
    <3>1. /\ SpacedOf(wait[q], RemoveAt(pool[q], i))
          /\ ServedOf(wait[q], unserved[q], RemoveAt(pool[q], i), Allowance + Period)
      BY <2>1, <2>2, RemovingKeeps DEF RelayerInStep
    <3> QED
      BY <1>2, <1>3, <1>4, <2>1, <2>2, <3>1 DEF RelayerInStep
  <2>3. CASE q # r
    <3>1. ServedOf(wait[q], unserved[q], pool[q], Allowance + Period)
      BY <2>1, AllowingKeeps DEF RelayerInStep
    <3> QED
      BY <1>2, <1>3, <1>4, <2>1, <2>3, <3>1 DEF RelayerInStep
  <2> QED
    BY <2>2, <2>3
<1> QED
  BY <1>5, <1>6, InStepNext

LEMMA NewSessionSound == ASSUME IInv, NewSession PROVE IInv'
<1>1. TypeOK
  BY InStep
<1>2. event' = event /\ wait' = wait /\ pool' = pool /\ Allowance' = Allowance
  BY DEF NewSession, Allowance
<1>3. \A q \in Relayers :
        \/ unserved'[q] = 0
        \/ unserved'[q] = unserved[q] /\ event = "price" /\ q \in selected'
  BY DEF NewSession
<1>4. TypeOK'
  <2>1. selected' \subseteq Relayers
    BY PeriodicAssumption DEF NewSession
  <2>2. unserved' \in [Relayers -> Nat]
    BY <1>1 DEF NewSession, TypeOK
  <2> QED
    BY <1>1, <2>1, <2>2, Constants DEF NewSession, TypeOK
<1>5. ASSUME NEW q \in Relayers PROVE RelayerInStep(q)'
  <2>1. /\ RelayerInStep(q) /\ wait[q] \in Int /\ wait[q] <= Period
        /\ pool[q] \in Seq(Nat) /\ Allowance \in Nat /\ Period <= Allowance
    BY <1>1, Types, InStep
  <2>2. CASE unserved'[q] = 0
    <3>1. ServedOf(wait[q], 0, pool[q], Allowance)
      BY <2>1, NotWaiting
    <3> QED
      BY <1>2, <2>1, <2>2, <3>1 DEF RelayerInStep
  <2>3. CASE unserved'[q] = unserved[q] /\ event = "price" /\ q \in selected'
    <3>1. Wanted(q)'
      BY <1>2, <2>3 DEF Wanted
    <3> QED
      BY <1>2, <2>1, <2>3, <3>1 DEF RelayerInStep
  <2> QED
    BY <1>3, <2>2, <2>3
<1> QED
  BY <1>4, <1>5, InStepNext

LEMMA TickSound == ASSUME IInv, Tick PROVE IInv'
<1>1. TypeOK
  BY InStep
<1>2. /\ Allowance' = Allowance
      /\ \A q \in Relayers : Wanted(q)' = Wanted(q)
  BY DEF Tick, Allowance, Wanted
<1>3. \A q \in Relayers :
        /\ wait'[q] = wait[q] - 1 /\ wait[q] > -Late
        /\ pool'[q] = [i \in 1..Len(pool[q]) |-> pool[q][i] + 1]
        /\ unserved'[q] = IF Wanted(q) THEN unserved[q] + 1 ELSE 0
  BY DEF Tick
<1>4. TypeOK'
  <2>1. ASSUME NEW q \in Relayers
        PROVE  /\ wait[q] - 1 \in (-Backlog)..Period
               /\ [i \in 1..Len(pool[q]) |-> pool[q][i] + 1] \in Seq(0..Inclusion)
    <3>1. wait[q] \in Int /\ wait[q] <= Period /\ pool[q] \in Seq(0..Inclusion)
      BY <1>1, Types
    <3>2. wait[q] - 1 \in (-Backlog)..Period
      <4>1. wait[q] > -Late
        BY <1>3
      <4> QED
        BY <3>1, <4>1, Constants
    <3>3. Len(pool[q]) \in Nat /\ \A i \in 1..Len(pool[q]) : pool[q][i] + 1 \in 0..Inclusion
      <4>1. Len(pool[q]) \in Nat /\ DOMAIN pool[q] = 1..Len(pool[q])
        BY <3>1
      <4>2. ASSUME NEW i \in 1..Len(pool[q]) PROVE pool[q][i] + 1 \in 0..Inclusion
        <5>1. pool[q][i] \in 0..Inclusion
          BY <3>1, <4>1, ElementOfSeq
        <5>2. pool[q][i] < Inclusion
          BY <4>1 DEF Tick
        <5> QED
          BY <5>1, <5>2, Constants
      <4> QED
        BY <4>1, <4>2
    <3>4. [i \in 1..Len(pool[q]) |-> pool[q][i] + 1] \in [1..Len(pool[q]) -> 0..Inclusion]
      BY <3>3
    <3> QED
      BY <3>2, <3>3, <3>4, SeqDef
  <2>2. wait' \in [Relayers -> (-Backlog)..Period] /\ pool' \in [Relayers -> Seq(0..Inclusion)]
    BY <2>1 DEF Tick
  <2>3. unserved' \in [Relayers -> Nat]
    BY <1>1 DEF Tick, TypeOK
  <2>4. age' \in 0..Session
    BY <1>1, Constants DEF Tick, TypeOK
  <2> QED
    BY <1>1, <2>2, <2>3, <2>4 DEF Tick, TypeOK
<1>5. ASSUME NEW q \in Relayers PROVE RelayerInStep(q)'
  <2>1. /\ RelayerInStep(q) /\ wait[q] \in Int /\ wait[q] <= Period /\ unserved[q] \in Nat
        /\ pool[q] \in Seq(Nat) /\ pool'[q] \in Seq(Nat)
        /\ Allowance \in Nat /\ Period <= Allowance
    <3>1. pool[q] \in Seq(Nat)
      BY <1>1, Types
    <3>2. pool'[q] \in Seq(0..Inclusion) /\ 0..Inclusion \subseteq Nat
      BY <1>4, Constants DEF TypeOK
    <3>3. pool'[q] \in Seq(Nat)
      BY <3>2, SeqMonotonic
    <3> QED
      BY <1>1, <3>1, <3>3, Types, InStep
  <2>2. SpacedOf(wait'[q], pool'[q])
    BY <1>3, <2>1, PassingKeeps DEF RelayerInStep
  <2>3. ~(wait'[q] < -Late) /\ wait'[q] \in Int /\ wait'[q] <= Period
    <3>1. wait'[q] = wait[q] - 1 /\ wait[q] > -Late
      BY <1>3
    <3> QED
      BY <2>1, <3>1, Constants
  <2>4. CASE Wanted(q)
    <3>1. ServedOf(wait'[q], unserved[q] + 1, pool'[q], Allowance)
      BY <1>3, <2>1, PassingKeeps DEF RelayerInStep
    <3> QED
      BY <1>2, <1>3, <2>1, <2>2, <2>3, <2>4, <3>1 DEF RelayerInStep
  <2>5. CASE ~Wanted(q)
    <3>1. ServedOf(wait'[q], 0, pool'[q], Allowance)
      BY <2>1, <2>3, NotWaiting
    <3>2. unserved'[q] = 0
      BY <1>3, <2>5
    <3> QED
      BY <1>2, <2>2, <3>1, <3>2 DEF RelayerInStep
  <2> QED
    BY <2>4, <2>5
<1> QED
  BY <1>4, <1>5, InStepNext

LEMMA NextSound == IInv /\ [Next]_vars => IInv'
<1> SUFFICES ASSUME IInv, [Next]_vars PROVE IInv'
  OBVIOUS
<1>1. CASE Next
  BY <1>1, PollSound, LandSound, LoseSound, NewSessionSound, TickSound DEF Next
<1>2. CASE UNCHANGED vars
  BY <1>2 DEF vars, IInv, TypeOK, Spaced, LateAtStartOnly, Served, Allowance, Wanted
<1> QED
  BY <1>1, <1>2

\* No wait is longer than the allowance and the delays: the time lock of whoever
\* has nothing under way, or the oldest transaction, sees to it.
LEMMA ServedInTime == IInv => InTime
<1> SUFFICES ASSUME IInv, NEW r \in Relayers
             PROVE  unserved[r] <= Allowance + Late + Inclusion
  BY DEF InTime
<1>1. /\ wait[r] \in Int /\ unserved[r] \in Nat /\ Allowance \in Nat
      /\ pool[r] \in Seq(0..Inclusion) /\ pool[r] \in Seq(Nat) /\ RelayerInStep(r)
  BY InStep, Types
<1>2. CASE pool[r] = <<>>
  <2>1. Span(Len(pool[r])) = 0
    BY <1>2, Spans
  <2>2. unserved[r] + wait[r] <= Allowance + 0
    BY <1>1, <2>1 DEF RelayerInStep, ServedOf
  <2> QED
    BY <1>1, <2>2, Constants DEF RelayerInStep
<1>3. CASE pool[r] # <<>>
  <2>1. 1 \in DOMAIN pool[r] /\ pool[r][1] \in 0..Inclusion
    BY <1>1, <1>3, NonEmptySeq
  <2>2. Span(1 - 1) = 0
    BY Spans
  <2>3. unserved[r] <= Allowance + Late + pool[r][1] + Span(1 - 1)
    BY <1>1, <2>1 DEF RelayerInStep, ServedOf
  <2>4. unserved[r] <= Allowance + Late + pool[r][1] + 0
    BY <2>2, <2>3
  <2> QED
    BY <1>1, <2>1, <2>4, Constants
<1> QED
  BY <1>2, <1>3

\* The oldest transaction was sent as many periods ago as there are in the pool.
LEMMA SpacedIsFew == IInv => FewUnderWay
<1> SUFFICES ASSUME IInv, NEW r \in Relayers
             PROVE  Span(Len(pool[r]) - 1) <= Backlog + Inclusion
  BY DEF FewUnderWay, Span
<1>1. /\ wait[r] \in Int /\ wait[r] <= Period /\ pool[r] \in Seq(0..Inclusion)
      /\ RelayerInStep(r)
  BY InStep, Types
<1>2. CASE pool[r] = <<>>
  <2>1. Span(Len(pool[r]) - 1) = -Period
    BY <1>2, Constants DEF Span
  <2> QED
    BY <2>1, Constants
<1>3. CASE pool[r] # <<>>
  <2>1. /\ 1 \in DOMAIN pool[r] /\ pool[r][1] \in 0..Inclusion
        /\ Len(pool[r]) - 1 \in Nat
    BY <1>1, <1>3, NonEmptySeq
  <2> DEFINE x == Span(Len(pool[r]) - 1)
             y == Span(Len(pool[r]) - 1 + 1)
             v == pool[r][1]
  <2>2. x \in Nat /\ y = x + Period /\ v \in 0..Inclusion /\ wait[r] + v >= y - Backlog
    BY <1>1, <2>1, Spans DEF RelayerInStep, SpacedOf
  <2> HIDE DEF x, y, v
  <2>3. x <= Backlog + Inclusion
    BY <1>1, <2>2, Constants
  <2> QED
    BY <2>3 DEF x
<1> QED
  BY <1>2, <1>3

-----------------------------------------------------------------------------
\* The inductive invariant: time locks, the ages of transactions and the times
\* that relayers have waited (clone_next, build_transaction_params) are in step.
THEOREM Inductive == Spec => []IInv
<1> QED
  BY InitSound, NextSound, PTL DEF Spec

\* Every variable keeps its type; in particular a time lock is never more than a
\* period away and never overdue by more than the backlog.
THEOREM TypeCorrect == Spec => []TypeOK
<1>1. IInv => TypeOK
  BY DEF IInv
<1> QED
  BY <1>1, Inductive, PTL

\* A relayer has no more heartbeats or prices under way than it missed while it
\* started and sends while the chain takes one in, whatever the delays are.
THEOREM NeverFloods == Spec => []FewUnderWay
<1> QED
  BY Inductive, SpacedIsFew, PTL

\* A selected relayer pulses within a period and the delays of every session,
\* its prices are never older, and each lost transaction costs one period.
THEOREM AlwaysInTime == Spec => []InTime
<1> QED
  BY Inductive, ServedInTime, PTL
=============================================================================
