----------------------------- MODULE RelayProofs -----------------------------
(***************************************************************************)
(* Proofs about MobileRelay, for any devices, fetchers, items, halts of    *)
(* the gateway and crashes of the admin server: the order in which         *)
(* messages reach the bus, and which ones do; what a client's cursor       *)
(* skips, and what the push notifier has told of; the order of the replies.*)
(***************************************************************************)
EXTENDS MobileRelay, SequenceTheorems, FiniteSetTheorems, WellFoundedInduction, TLAPS

Ordered(s) == \A m, n \in DOMAIN s : m < n => s[m] < s[n]
Before(s, r) == \A m \in DOMAIN s, n \in DOMAIN r : s[m] < r[n]

\* Lines whose ids have been given out.
Stamped(s) == s \in Seq(Nat) /\ \A n \in DOMAIN s : s[n] <= Len(items)

Shape ==
    /\ setup \in Setups /\ items \in Seq(Item) /\ halts \in Nat
    /\ Stamped(inbound) /\ Stamped(polled) /\ Stamped(published)
    /\ gate # "read" => polled = <<>>

\* What the channel has put on the bus is older than what it has taken, and older than
\* what waits in the file.
Sorted ==
    /\ Ordered(inbound) /\ Ordered(polled) /\ Ordered(published)
    /\ Before(published, inbound) /\ Before(published, polled)

\* Until the gateway stops, the lines it will throw away are those it was deaf to.
Heard ==
    halts = 0 => /\ gate = "down" => Range(inbound) \subseteq unheard
                 /\ gate = "read" => Range(inbound) \ Range(polled) \subseteq unheard

\* What it will look at, and has taken, is of devices it lets in, but for what is exempt.
Judged ==
    /\ Range(inbound) \subseteq DOMAIN items /\ Range(polled) \subseteq DOMAIN items
    /\ halts = 0 => /\ gate \notin {"down", "read"} => \A i \in Range(inbound) \ unheard : DeviceOf(i) \in Welcome
                    /\ \A i \in Range(polled) \ unheard : DeviceOf(i) \in accepts

IInv == Shape /\ Sorted /\ Heard /\ Judged /\ NoMessageLost

relayed == <<setup, items, inbound, polled, published, gate, halts, unheard, listed, accepts>>

----------------------------------------------------------------------------
\* Sequences.

LEMMA RangeOf ==
    ASSUME NEW s \in Seq(Nat)
    PROVE  /\ DOMAIN s = 1..Len(s) /\ Len(s) \in Nat
           /\ \A n \in DOMAIN s : s[n] \in Nat
           /\ \A i : i \in Range(s) <=> \E n \in DOMAIN s : s[n] = i
  BY LenProperties, ElementOfSeq DEF Range

LEMMA EmptyLines == Stamped(<<>>) /\ Ordered(<<>>) /\ DOMAIN <<>> = {} /\ Range(<<>>) = {}
  <1>1. <<>> \in Seq(Nat) /\ DOMAIN <<>> = {}
    BY EmptySeq, LenProperties
  <1>2. QED
    BY <1>1 DEF Stamped, Ordered, Range

\* A line with a new id comes after all that are there.
LEMMA AppendLine ==
    ASSUME NEW s, Stamped(s), Ordered(s), NEW k \in Nat, Len(items) \in Nat, Len(items) < k
    PROVE  /\ Append(s, k) \in Seq(Nat) /\ Ordered(Append(s, k))
           /\ \A n \in DOMAIN Append(s, k) : Append(s, k)[n] <= k
           /\ Range(Append(s, k)) = Range(s) \cup {k}
           /\ \A r : Stamped(r) /\ Before(r, s) => Before(r, Append(s, k))
  <1>1. s \in Seq(Nat)
    BY DEF Stamped
  <1>2. /\ Append(s, k) \in Seq(Nat) /\ Len(Append(s, k)) = Len(s) + 1 /\ Len(s) \in Nat
        /\ \A n \in 1..Len(s) : Append(s, k)[n] = s[n] /\ s[n] \in Nat /\ s[n] < k
        /\ Append(s, k)[Len(s) + 1] = k /\ DOMAIN s = 1..Len(s)
        /\ DOMAIN Append(s, k) = 1..(Len(s) + 1)
    BY <1>1, AppendProperties, LenProperties, RangeOf DEF Stamped
  <1>3. Ordered(Append(s, k)) /\ \A n \in DOMAIN Append(s, k) : Append(s, k)[n] <= k
    BY <1>2 DEF Ordered
  <1>4. Range(Append(s, k)) = Range(s) \cup {k}
    BY <1>2 DEF Range
  <1>5. \A r : Stamped(r) /\ Before(r, s) => Before(r, Append(s, k))
    <2>1. SUFFICES ASSUME NEW r, Stamped(r), Before(r, s),
                          NEW m \in DOMAIN r, NEW n \in DOMAIN Append(s, k)
                   PROVE  r[m] < Append(s, k)[n]
      BY DEF Before
    <2>2. r[m] \in Nat /\ r[m] < k
      BY <2>1, RangeOf DEF Stamped
    <2>3. QED
      BY <1>2, <2>1, <2>2 DEF Before
  <1>6. QED
    BY <1>2, <1>3, <1>4, <1>5

LEMMA ConcatLines ==
    ASSUME NEW s, NEW r, Stamped(s), Stamped(r), Ordered(s), Ordered(r), Before(s, r)
    PROVE  Stamped(s \o r) /\ Ordered(s \o r) /\ Range(s \o r) = Range(s) \cup Range(r)
  <1>1. s \in Seq(Nat) /\ r \in Seq(Nat)
    BY DEF Stamped
  <1> DEFINE c == s \o r
  <1>2. /\ c \in Seq(Nat) /\ DOMAIN c = 1..(Len(s) + Len(r)) /\ Len(s) \in Nat /\ Len(r) \in Nat
        /\ DOMAIN s = 1..Len(s) /\ DOMAIN r = 1..Len(r)
        /\ \A n \in DOMAIN c : c[n] = IF n <= Len(s) THEN s[n] ELSE r[n - Len(s)]
    BY <1>1, ConcatProperties, LenProperties
  <1>3. \A n \in DOMAIN c : (n \in DOMAIN s /\ c[n] = s[n]) \/ (n - Len(s) \in DOMAIN r /\ c[n] = r[n - Len(s)])
    BY <1>2
  <1>4. \A n \in DOMAIN r : n + Len(s) \in DOMAIN c /\ c[n + Len(s)] = r[n]
    BY <1>2
  <1>5. \A n \in DOMAIN s : n \in DOMAIN c /\ c[n] = s[n]
    BY <1>2
  <1>6. Stamped(c)
    BY <1>2, <1>3 DEF Stamped
  <1>7. Ordered(c)
    <2>1. SUFFICES ASSUME NEW m \in DOMAIN c, NEW n \in DOMAIN c, m < n PROVE c[m] < c[n]
      BY DEF Ordered
    <2>2. CASE n <= Len(s)
      BY <1>2, <2>1, <2>2 DEF Ordered
    <2>3. CASE m <= Len(s) /\ ~(n <= Len(s))
      BY <1>2, <2>1, <2>3 DEF Before
    <2>4. CASE ~(m <= Len(s))
      BY <1>2, <2>1, <2>4 DEF Ordered
    <2>5. QED
      BY <1>2, <2>1, <2>2, <2>3, <2>4
  <1>8. Range(c) = Range(s) \cup Range(r)
    <2>1. Range(c) \subseteq Range(s) \cup Range(r)
      BY <1>3 DEF Range
    <2>2. Range(s) \subseteq Range(c)
      BY <1>5 DEF Range
    <2>3. Range(r) \subseteq Range(c)
      BY <1>4 DEF Range
    <2>4. QED
      BY <2>1, <2>2, <2>3
  <1>9. QED
    BY <1>6, <1>7, <1>8

----------------------------------------------------------------------------
\* The lines of some devices: what a poll lets in, and what a fetch leaves.

LEMMA LeastOfNaturals ==
    ASSUME NEW W \in SUBSET Nat, W # {}
    PROVE  \E w \in W : \A v \in W : w <= v
  <1>1. PICK n \in W : TRUE
    OBVIOUS
  <1> DEFINE T == {0 .. k : k \in {v \in W : v <= n}}
  <1>2. T \subseteq SUBSET (0 .. n) /\ T # {}
    <2>1. n \in {v \in W : v <= n} /\ \A k \in {v \in W : v <= n} : 0 .. k \subseteq 0 .. n
      BY <1>1
    <2>2. QED
      BY <2>1
  <1>3. PICK x \in T : \A y \in T : <<y, x>> \notin StrictSubsetOrdering(0 .. n)
    <2>1. IsFiniteSet(0 .. n)
      BY <1>1, FS_Interval
    <2>2. IsWellFoundedOn(StrictSubsetOrdering(0 .. n), SUBSET (0 .. n))
      BY <2>1, FS_StrictSubsetOrderingWellFounded, FS_FiniteSubsetsOfFinite
    <2> HIDE DEF T
    <2>3. QED
      BY <1>2, <2>2, WFMin
  <1>4. PICK m \in W : m <= n /\ x = 0 .. m
    OBVIOUS
  <1>5. ASSUME NEW v \in W, v <= n, v < m PROVE FALSE
    <2>1. 0 .. v \in T /\ m \in 0 .. m /\ m \notin 0 .. v /\ 0 .. v \subseteq 0 .. m
      BY <1>4, <1>5
    <2>2. <<0 .. v, x>> \in StrictSubsetOrdering(0 .. n)
      BY <1>2, <1>4, <2>1 DEF StrictSubsetOrdering
    <2>3. QED
      BY <1>3, <2>1, <2>2
  <1>6. \A v \in W : v \in Nat /\ n \in Nat /\ m \in Nat
    BY <1>1, <1>4
  <1> HIDE DEF T
  <1>7. ASSUME NEW v \in W PROVE m <= v
    <2>1. v \in Nat /\ n \in Nat /\ m \in Nat /\ m <= n
      BY <1>4, <1>6
    <2>2. CASE v <= n
      BY <1>5, <2>1, <2>2
    <2>3. CASE v > n
      BY <2>1, <2>3
    <2>4. QED
      BY <2>1, <2>2, <2>3
  <1>8. QED
    BY <1>7

LEMMA AppendedRange ==
    ASSUME NEW s \in Seq(Nat), NEW i \in Nat
    PROVE  Append(s, i) \in Seq(Nat) /\ Range(Append(s, i)) = Range(s) \cup {i}
  <1>1. /\ Append(s, i) \in Seq(Nat) /\ Len(Append(s, i)) = Len(s) + 1 /\ Len(s) \in Nat
        /\ \A n \in 1..Len(s) : Append(s, i)[n] = s[n]
        /\ Append(s, i)[Len(s) + 1] = i /\ DOMAIN s = 1..Len(s)
        /\ DOMAIN Append(s, i) = 1..(Len(s) + 1)
    BY AppendProperties, LenProperties
  <1>2. QED
    BY <1>1 DEF Range

\* What holds of 0, and of a number when it does of the one before, holds of all up to k.
LEMMA Upwards ==
  ASSUME NEW k \in Nat, NEW G, 0 \in G, \A n \in 1..k : n - 1 \in G => n \in G
  PROVE  \A n \in 0..k : n \in G
  <1> DEFINE T == (0..k) \ G
  <1>1. SUFFICES ASSUME T # {} PROVE FALSE
    OBVIOUS
  <1>2. PICK n \in T : \A i \in T : n <= i
    <2>1. T \in SUBSET Nat
      OBVIOUS
    <2> HIDE DEF T
    <2> QED
      BY <1>1, <2>1, LeastOfNaturals
  <1>3. n \in 1..k /\ n \notin G
    OBVIOUS
  <1>4. n - 1 \in 0..k /\ ~(n <= n - 1)
    BY <1>3
  <1> QED
    BY <1>2, <1>3, <1>4

\* The values from base on, each made of the one before by its own step.
Iterations(k, A, base, step) ==
  {f \in [0..k -> A] : f[0] = base /\ \A n \in 1..k : f[n] = step[n][f[n - 1]]}

\* What is done to a value for one element of a sequence after the other can be done.
LEMMA Iterated ==
  ASSUME NEW k \in Nat, NEW A, NEW base \in A, NEW step \in [1..k -> [A -> A]]
  PROVE  Iterations(k, A, base, step) # {}
  <1> DEFINE Upto(n) == \E f \in [0..n -> A] : f[0] = base /\ \A i \in 1..n : f[i] = step[i][f[i - 1]]
             G == {n \in 0..k : Upto(n)}
  <1>1. 0 \in G
    <2> DEFINE f == [i \in 0..0 |-> base]
    <2>1. f \in [0..0 -> A] /\ f[0] = base
      OBVIOUS
    <2>2. 1..0 = {}
      OBVIOUS
    <2> HIDE DEF f
    <2>3. Upto(0)
      BY <2>1, <2>2
    <2> QED
      BY <2>3
  <1>2. ASSUME NEW n \in 1..k, n - 1 \in G PROVE n \in G
    <2>3. PICK f \in [0..(n - 1) -> A] : f[0] = base /\ \A i \in 1..(n - 1) : f[i] = step[i][f[i - 1]]
      BY <1>2
    <2> DEFINE v == step[n][f[n - 1]]
               g == [i \in 0..n |-> IF i = n THEN v ELSE f[i]]
    <2>1. n - 1 \in 0..(n - 1) /\ n # 0 /\ 0 \in 0..(n - 1) /\ 0 \in 0..n
      OBVIOUS
    <2>4. f[n - 1] \in A /\ step[n] \in [A -> A]
      BY <2>1
    <2>4a. v \in A
      BY <2>4
    <2>a. \A i \in 0..n : i = n \/ i \in 0..(n - 1)
      OBVIOUS
    <2> HIDE DEF v
    <2>5. g \in [0..n -> A] /\ \A i \in 0..n : g[i] = IF i = n THEN v ELSE f[i]
      BY <2>4a, <2>a
    <2> HIDE DEF g
    <2>6. g[0] = base
      BY <2>1, <2>3, <2>5
    <2>7. ASSUME NEW i \in 1..n PROVE g[i] = step[i][g[i - 1]]
      <3>1. i - 1 \in 0..n /\ i - 1 # n /\ i \in 0..n
        OBVIOUS
      <3>2. g[i - 1] = f[i - 1]
        BY <2>5, <3>1
      <3>3. CASE i = n
        BY <2>5, <3>1, <3>2, <3>3 DEF v
      <3>4. CASE i # n
        <4>1. i \in 1..(n - 1)
          BY <3>4
        <4> QED
          BY <2>3, <2>5, <3>1, <3>2, <3>4, <4>1
      <3> QED
        BY <3>3, <3>4
    <2>8. Upto(n)
      BY <2>5, <2>6, <2>7
    <2> QED
      BY <2>8
  <1> HIDE DEF G
  <1>3. \A n \in 0..k : n \in G
    BY <1>1, <1>2, Upwards
  <1>4. k \in G
    BY <1>3
  <1> QED
    BY <1>4 DEF G, Iterations

\* The lines of some devices are in the order they were in.
LEMMA FromFacts ==
  ASSUME NEW ds, NEW s \in Seq(Nat)
  PROVE  LET r == From(ds, s)
         IN  r \in Seq(Nat) /\ (Ordered(s) => Ordered(r)) /\ Range(r) = {i \in Range(s) : DeviceOf(i) \in ds}
  <1> DEFINE l == Len(s)
             A == Seq(Nat)
             Kept(n, r) == IF DeviceOf(s[n]) \notin ds THEN r ELSE Append(r, s[n])
             step == [n \in 1..l |-> [r \in A |-> Kept(n, r)]]
             next(f) == [n \in 0..l |-> IF n = 0 THEN <<>>
                                        ELSE IF DeviceOf(s[n]) \notin ds THEN f[n - 1] ELSE Append(f[n - 1], s[n])]
             from == CHOOSE f : f = next(f)
  <1>1. l \in Nat /\ DOMAIN s = 1..l /\ \A n \in 1..l : s[n] \in Nat
    BY RangeOf
  <1>2. From(ds, s) = from[l]
    BY DEF From
  <1> HIDE DEF l
  <1>3. step \in [1..l -> [A -> A]]
    <2>1. SUFFICES ASSUME NEW n \in 1..l, NEW r \in A PROVE Kept(n, r) \in A
      OBVIOUS
    <2>2. s[n] \in Nat
      BY <1>1
    <2> QED
      BY <2>2, AppendProperties
  <1>4. from = next(from)
    <2> DEFINE base == <<>>
    <2>1. base \in A
      OBVIOUS
    <2> HIDE DEF A, step, base
    <2>2. Iterations(l, A, base, step) # {}
      BY <1>1, <1>3, <2>1, Iterated
    <2>3. PICK f \in [0..l -> A] : f[0] = base /\ \A n \in 1..l : f[n] = step[n][f[n - 1]]
      BY <2>2 DEF Iterations
    <2>4. ASSUME NEW n \in 0..l
          PROVE  f[n] = IF n = 0 THEN <<>> ELSE IF DeviceOf(s[n]) \notin ds THEN f[n - 1] ELSE Append(f[n - 1], s[n])
      <3>1. CASE n # 0
        <4>1. n \in 1..l /\ n - 1 \in 0..l
          BY <1>1, <3>1
        <4>2. f[n - 1] \in A
          BY <2>3, <4>1
        <4>3. f[n] = Kept(n, f[n - 1])
          BY <2>3, <4>1, <4>2 DEF step
        <4> QED
          BY <3>1, <4>3
      <3> QED
        BY <2>3, <3>1 DEF base
    <2>5. f = next(f)
      BY <2>4
    <2> HIDE DEF next
    <2> QED
      BY <2>5
  <1> HIDE DEF from
  <1>5. /\ from[0] = <<>>
        /\ \A n \in 1..l : from[n] = IF DeviceOf(s[n]) \notin ds THEN from[n - 1] ELSE Append(from[n - 1], s[n])
    <2>1. \A n \in 0..l : next(from)[n] = IF n = 0 THEN <<>>
                                            ELSE IF DeviceOf(s[n]) \notin ds THEN from[n - 1] ELSE Append(from[n - 1], s[n])
      OBVIOUS
    <2>2. \A n \in 1..l : n \in 0..l /\ n # 0
      BY <1>1
    <2>3. 0 \in 0..l
      BY <1>1
    <2>4. \A n \in 0..l : from[n] = next(from)[n]
      BY <1>4
    <2> HIDE DEF next
    <2> QED
      BY <2>1, <2>2, <2>3, <2>4
  <1> DEFINE Done(n) ==
               /\ from[n] \in Seq(Nat) /\ (Ordered(s) => Ordered(from[n]))
               /\ \A i : i \in Range(from[n]) <=> \E k \in 1..n : s[k] = i /\ DeviceOf(i) \in ds
             G == {n \in 0..l : Done(n)}
  <1>6. 0 \in G
    <2>1. from[0] = <<>> /\ 1..0 = {} /\ <<>> \in Seq(Nat) /\ Ordered(<<>>) /\ Range(<<>>) = {}
      BY <1>5, EmptyLines
    <2>2. Done(0)
      BY <2>1
    <2> HIDE DEF Done
    <2> QED
      BY <1>1, <2>2
  <1>7. ASSUME NEW n \in 1..l, n - 1 \in G PROVE n \in G
    <2> DEFINE q == from[n - 1]
               r == from[n]
    <2>1. q \in Seq(Nat) /\ (Ordered(s) => Ordered(q)) /\ \A i : i \in Range(q) <=> \E k \in 1..(n - 1) : s[k] = i /\ DeviceOf(i) \in ds
      <3>1. Done(n - 1)
        <4> HIDE DEF Done
        <4> QED
          BY <1>7
      <3> QED
        BY <3>1
    <2>2. r = (IF DeviceOf(s[n]) \notin ds THEN q ELSE Append(q, s[n])) /\ s[n] \in Nat
      BY <1>1, <1>5
    <2> HIDE DEF q, r
    <2>3. \A k \in 1..n : k \in 1..(n - 1) \/ k = n
      OBVIOUS
    <2>4. n \in 1..n /\ \A k \in 1..(n - 1) : k \in 1..n /\ k \in 1..l /\ k < n
      BY <1>1
    <2>5. CASE DeviceOf(s[n]) \notin ds
      <3>1. r = q
        BY <2>2, <2>5
      <3>2. \A i : i \in Range(r) <=> \E k \in 1..n : s[k] = i /\ DeviceOf(i) \in ds
        BY <2>1, <2>3, <2>4, <2>5, <3>1
      <3>3. Done(n)
        BY <2>1, <3>1, <3>2 DEF r
      <3> HIDE DEF Done
      <3> QED
        BY <3>3
    <2>6. CASE DeviceOf(s[n]) \in ds
      <3>1. r = Append(q, s[n])
        BY <2>2, <2>6
      <3>2. r \in Seq(Nat) /\ Range(r) = Range(q) \cup {s[n]}
        BY <2>1, <2>2, <3>1, AppendedRange
      <3>3. \A i : i \in Range(r) <=> \E k \in 1..n : s[k] = i /\ DeviceOf(i) \in ds
        BY <2>1, <2>3, <2>4, <2>6, <3>2
      <3>4. Ordered(s) => \A m \in DOMAIN q : q[m] < s[n]
        <4>1. SUFFICES ASSUME Ordered(s), NEW m \in DOMAIN q PROVE q[m] < s[n]
          OBVIOUS
        <4>2. q[m] \in Range(q)
          BY DEF Range
        <4>3. PICK k \in 1..(n - 1) : s[k] = q[m]
          BY <2>1, <4>2
        <4>4. k \in DOMAIN s /\ n \in DOMAIN s /\ k < n
          BY <1>1, <2>4
        <4> QED
          BY <4>1, <4>3, <4>4 DEF Ordered
      <3>5. Ordered(s) => Ordered(r)
        <4>1. /\ Len(r) = Len(q) + 1 /\ Len(q) \in Nat /\ \A m \in 1..Len(q) : r[m] = q[m]
              /\ r[Len(q) + 1] = s[n] /\ DOMAIN q = 1..Len(q) /\ DOMAIN r = 1..Len(r)
          BY <2>1, <2>2, <3>1, <3>2, AppendProperties, LenProperties
        <4>2. \A m \in 1..Len(r) : m \in 1..Len(q) \/ m = Len(q) + 1
          BY <4>1
        <4>3. SUFFICES ASSUME Ordered(s), NEW m \in DOMAIN r, NEW k \in DOMAIN r, m < k PROVE r[m] < r[k]
          BY DEF Ordered
        <4>4. m \in 1..Len(q)
          BY <4>1, <4>3
        <4>5. CASE k \in 1..Len(q)
          BY <2>1, <4>1, <4>3, <4>4, <4>5 DEF Ordered
        <4>6. CASE k = Len(q) + 1
          BY <3>4, <4>1, <4>3, <4>4, <4>6
        <4> QED
          BY <4>1, <4>2, <4>5, <4>6
      <3>6. Done(n)
        BY <3>2, <3>3, <3>5 DEF r
      <3> HIDE DEF Done
      <3> QED
        BY <3>6
    <2> QED
      BY <2>5, <2>6
  <1> HIDE DEF G
  <1>8. \A n \in 0..l : n \in G
    BY <1>1, <1>6, <1>7, Upwards
  <1>9. l \in G
    BY <1>1, <1>8
  <1>10. Done(l)
    BY <1>9 DEF G
  <1>11. Range(from[l]) = {i \in Range(s) : DeviceOf(i) \in ds}
    BY <1>1, <1>10, RangeOf
  <1> QED
    BY <1>2, <1>10, <1>11

----------------------------------------------------------------------------
\* The steps that concern the messages.

LEMMA ItemFacts ==
    ASSUME Shape
    PROVE  DOMAIN items = 1..Len(items) /\ Len(items) \in Nat
  BY LenProperties DEF Shape

LEMMA StampFacts ==
    ASSUME Shape, NEW d \in Devices, NEW k \in Kinds, Stamp(d, k)
    PROVE  /\ items' \in Seq(Item) /\ Len(items') = Len(items) + 1 /\ DOMAIN items' = DOMAIN items \cup {NewId}
           /\ \A i \in DOMAIN items : items'[i] = items[i]
           /\ items'[NewId].kind = k /\ NewId \in Nat /\ Len(items) < NewId /\ NewId = Len(items')
           /\ \A s : Stamped(s) => Stamped(s)'
  <1> DEFINE x == [device |-> d, kind |-> k]
  <1>1. x \in Item /\ x.kind = k
    BY DEF Item
  <1> HIDE DEF x
  <1>2. items' = Append(items, x)
    BY DEF Stamp, x
  <1>3. /\ items' \in Seq(Item) /\ Len(items') = Len(items) + 1 /\ items'[Len(items) + 1] = x
        /\ \A i \in 1..Len(items) : items'[i] = items[i]
    BY <1>1, <1>2, AppendProperties DEF Shape
  <1>4. DOMAIN items' = 1..(Len(items) + 1) /\ DOMAIN items = 1..Len(items) /\ Len(items) \in Nat
    BY <1>3, LenProperties DEF Shape
  <1>5. ASSUME NEW s, Stamped(s) PROVE s \in Seq(Nat) /\ \A n \in DOMAIN s : s[n] <= Len(items')
    BY <1>3, <1>4, <1>5, RangeOf DEF Stamped
  <1>6. QED
    BY <1>1, <1>3, <1>4, <1>5 DEF NewId, Stamped

\* A message that is relayed.
LEMMA RelayInKeeps ==
    ASSUME IInv, NEW d \in Devices, RelayIn(d), UNCHANGED <<setup, gateway>>
    PROVE  IInv'
  <1>1. Stamp(d, "message") /\ "message" \in Kinds /\ Shape /\ Stamped(inbound) /\ Ordered(inbound)
    BY DEF RelayIn, IInv, Kinds, Shape, Sorted
  <1>2. /\ items' \in Seq(Item) /\ Len(items') = NewId /\ DOMAIN items' = DOMAIN items \cup {NewId}
        /\ \A i \in DOMAIN items : items'[i] = items[i]
        /\ NewId \in Nat /\ Len(items) < NewId /\ Len(items) \in Nat
        /\ \A s : Stamped(s) => Stamped(s)'
    BY <1>1, StampFacts, ItemFacts
  <1>3. /\ inbound' = Append(inbound, NewId)
        /\ inbound' \in Seq(Nat) /\ Ordered(inbound')
        /\ \A n \in DOMAIN inbound' : inbound'[n] <= NewId
        /\ Range(inbound') = Range(inbound) \cup {NewId}
        /\ \A r : Stamped(r) /\ Before(r, inbound) => Before(r, inbound')
    BY <1>1, <1>2, AppendLine DEF RelayIn
  <1>4. UNCHANGED <<setup, gate, polled, halts, published>>
    BY DEF gateway
  <1>5. Stamped(polled)' /\ Stamped(published)' /\ Stamped(inbound)'
    BY <1>1, <1>2, <1>3, <1>4 DEF Shape, Stamped
  <1>6. Shape'
    BY <1>1, <1>2, <1>4, <1>5 DEF Shape
  <1>7. Sorted'
    BY <1>1, <1>3, <1>4 DEF IInv, Shape, Sorted, Ordered, Before
  <1>8. unheard' = IF gate \in {"down", "read"} \/ d \notin Welcome THEN unheard \cup {NewId} ELSE unheard
    BY DEF RelayIn
  <1>9. Heard'
    BY <1>3, <1>4, <1>8 DEF IInv, Heard
  <1>10. NoMessageLost'
    BY <1>2, <1>3, <1>4, <1>8 DEF IInv, NoMessageLost
  <1>11. Judged'
    <2>1. /\ Range(inbound) \subseteq DOMAIN items /\ Range(polled) \subseteq DOMAIN items
          /\ \A i \in DOMAIN items : DeviceOf(i)' = DeviceOf(i)
      BY <1>2 DEF IInv, Judged, DeviceOf
    <2>2. items'[NewId].device = d
      <3> DEFINE x == [device |-> d, kind |-> "message"]
      <3>1. x \in Item /\ x.device = d /\ items' = Append(items, x)
        BY <1>1 DEF Item, Stamp
      <3> HIDE DEF x
      <3>2. items'[Len(items) + 1] = x
        BY <1>1, <3>1, AppendProperties DEF Shape
      <3>3. QED
        BY <3>1, <3>2 DEF NewId
    <2>3. Welcome' = Welcome /\ accepts' = accepts
      BY <1>4 DEF RelayIn, Welcome, gateway
    <2>4. /\ Range(inbound') \subseteq DOMAIN items' /\ Range(polled') \subseteq DOMAIN items'
          /\ \A i \in Range(inbound') \ unheard' : i \in Range(inbound) \ unheard \/ (i = NewId /\ d \in Welcome)
          /\ \A i \in Range(polled') \ unheard' : i \in Range(polled) \ unheard
      BY <1>2, <1>3, <1>4, <1>8, <2>1
    <2>5. ASSUME halts' = 0, gate' \notin {"down", "read"}, NEW i \in Range(inbound') \ unheard'
          PROVE  items'[i].device \in Welcome'
      <3>1. CASE i \in Range(inbound) \ unheard
        <4>1. DeviceOf(i) \in Welcome
          BY <1>4, <2>5, <3>1 DEF IInv, Judged
        <4>2. QED
          BY <2>1, <2>3, <3>1, <4>1 DEF DeviceOf
      <3>2. QED
        BY <2>2, <2>3, <2>4, <2>5, <3>1
    <2>6. ASSUME halts' = 0, NEW i \in Range(polled') \ unheard' PROVE items'[i].device \in accepts'
      BY <1>4, <2>1, <2>3, <2>4, <2>6 DEF IInv, Judged, DeviceOf
    <2>7. QED
      BY <2>4, <2>5, <2>6 DEF Judged, DeviceOf
  <1>12. QED
    BY <1>6, <1>7, <1>9, <1>10, <1>11 DEF IInv

\* A reply that is stamped.
LEMMA SendOutKeeps ==
    ASSUME IInv, NEW d \in Devices, NEW k \in {"progress", "answer"}, SendOut(d, k), UNCHANGED <<setup, admin>>
    PROVE  IInv'
  <1>1. Stamp(d, k) /\ k \in Kinds /\ Shape /\ gate = "idle" /\ gate' = "sent"
    BY DEF SendOut, IInv, Kinds
  <1>2. /\ items' \in Seq(Item) /\ DOMAIN items' = DOMAIN items \cup {NewId}
        /\ \A i \in DOMAIN items : items'[i] = items[i]
        /\ items'[NewId].kind = k
        /\ \A s : Stamped(s) => Stamped(s)'
    BY <1>1, StampFacts
  <1>3. UNCHANGED <<setup, inbound, polled, halts, published, unheard>>
    BY DEF SendOut, admin
  <1>4. Stamped(inbound)' /\ Stamped(polled)' /\ Stamped(published)'
    BY <1>1, <1>2, <1>3 DEF Shape, Stamped
  <1>5. Shape' /\ Sorted' /\ Heard'
    BY <1>1, <1>2, <1>3, <1>4 DEF IInv, Shape, Sorted, Heard, Ordered, Before
  <1>6. NoMessageLost'
    BY <1>2, <1>3 DEF IInv, NoMessageLost
  <1>7. Judged'
    <2>1. /\ Range(inbound) \subseteq DOMAIN items /\ Range(polled) \subseteq DOMAIN items
          /\ \A i \in DOMAIN items : DeviceOf(i)' = DeviceOf(i)
      BY <1>2 DEF IInv, Judged, DeviceOf
    <2>2. Welcome' = Welcome /\ accepts' = accepts
      BY <1>1 DEF SendOut, Welcome, admin
    <2>3. QED
      BY <1>1, <1>2, <1>3, <2>1, <2>2 DEF IInv, Judged
  <1>8. QED
    BY <1>5, <1>6, <1>7 DEF IInv

\* The channel takes the list, then the lines, and empties the file.
LEMMA PollListKeeps ==
    ASSUME IInv, PollList, UNCHANGED <<setup, items, unheard, listed>>
    PROVE  IInv'
  <1>1. gate = "idle" /\ gate' = "listed" /\ accepts' = Welcome /\ UNCHANGED <<inbound, polled, halts, published>> /\ polled = <<>>
    BY DEF PollList, files, IInv, Shape
  <1>2. Shape' /\ Sorted' /\ Heard' /\ NoMessageLost'
    BY <1>1 DEF IInv, Shape, Sorted, Heard, NoMessageLost, Stamped, Ordered, Before, Range
  <1>3. Welcome' = Welcome /\ \A i : DeviceOf(i)' = DeviceOf(i)
    BY <1>1 DEF Welcome, DeviceOf
  <1>4. Judged'
    BY <1>1, <1>3, EmptyLines DEF IInv, Judged
  <1>5. QED
    BY <1>2, <1>4 DEF IInv

LEMMA PollReadKeeps ==
    ASSUME IInv, PollRead, UNCHANGED <<setup, items, unheard>>
    PROVE  IInv'
  <1>1. /\ gate' = "read" /\ gate = "listed" /\ polled' = inbound
        /\ UNCHANGED <<inbound, accepts, halts, published>> /\ polled = <<>>
    BY DEF PollRead, files, IInv, Shape
  <1>2. Shape' /\ Sorted'
    BY <1>1 DEF IInv, Shape, Sorted, Stamped, Ordered, Before
  <1>3. Heard' /\ NoMessageLost'
    BY <1>1, EmptyLines DEF IInv, Heard, NoMessageLost
  <1>4. Welcome = accepts /\ \A i : DeviceOf(i)' = DeviceOf(i)
    BY <1>1 DEF Welcome, DeviceOf
  <1>5. Judged'
    BY <1>1, <1>4 DEF IInv, Judged
  <1>6. QED
    BY <1>2, <1>3, <1>5 DEF IInv

LEMMA PollClearKeeps ==
    ASSUME IInv, PollClear, UNCHANGED <<setup, items, unheard>>
    PROVE  IInv'
  <1> DEFINE r == From(accepts, polled)
  <1>1. /\ gate = "read" /\ gate' = "idle" /\ inbound' = <<>> /\ polled' = <<>>
        /\ published' = published \o r /\ halts' = halts
    BY DEF PollClear
  <1>2. r \in Seq(Nat) /\ Ordered(r) /\ Range(r) = {i \in Range(polled) : DeviceOf(i) \in accepts}
    BY FromFacts DEF IInv, Shape, Sorted, Stamped
  <1> HIDE DEF r
  <1>3. \A n \in DOMAIN r : \E m \in DOMAIN polled : r[n] = polled[m]
    <2>1. SUFFICES ASSUME NEW n \in DOMAIN r PROVE \E m \in DOMAIN polled : r[n] = polled[m]
      OBVIOUS
    <2>2. r[n] \in Range(polled)
      BY <1>2 DEF Range
    <2>3. QED
      BY <2>2 DEF Range
  <1>4. Stamped(r) /\ Before(published, r)
    BY <1>2, <1>3 DEF IInv, Shape, Sorted, Stamped, Before
  <1>5. Stamped(published') /\ Ordered(published') /\ Range(published') = Range(published) \cup Range(r)
    BY <1>1, <1>2, <1>4, ConcatLines DEF IInv, Shape, Sorted
  <1>6. Shape'
    BY <1>1, <1>5, EmptyLines DEF IInv, Shape, Stamped
  <1>7. Sorted'
    BY <1>1, <1>5, EmptyLines DEF Sorted, Ordered, Before
  <1>8. Heard' /\ Judged'
    BY <1>1, EmptyLines DEF Heard, Judged
  <1>9. NoMessageLost'
    <2>1. SUFFICES ASSUME halts = 0, NEW i \in DOMAIN items, items[i].kind = "message", i \notin unheard
                   PROVE  i \in Range(published')
      BY <1>1 DEF NoMessageLost
    <2>2. i \in Range(inbound) \cup Range(polled) \cup Range(published)
      BY <2>1 DEF IInv, NoMessageLost
    <2>3. i \in Range(inbound) => i \in Range(polled)
      BY <1>1, <2>1 DEF IInv, Heard
    <2>4. i \in Range(polled) => DeviceOf(i) \in accepts
      BY <2>1 DEF IInv, Judged
    <2>5. QED
      BY <1>2, <1>5, <2>2, <2>3, <2>4
  <1>10. QED
    BY <1>6, <1>7, <1>8, <1>9 DEF IInv

\* The gateway starts and empties the file, or stops.
LEMMA StartKeeps ==
    ASSUME IInv, Start, UNCHANGED <<setup, items, unheard>>
    PROVE  IInv'
  <1>1. gate = "down" /\ gate' = "idle" /\ inbound' = <<>> /\ UNCHANGED <<polled, halts, published>> /\ polled = <<>>
    BY DEF Start, IInv, Shape
  <1>2. Shape' /\ Sorted'
    BY <1>1, EmptyLines DEF IInv, Shape, Sorted, Stamped, Ordered, Before
  <1>3. Heard' /\ NoMessageLost' /\ Judged'
    BY <1>1, EmptyLines DEF IInv, Heard, NoMessageLost, Judged
  <1>4. QED
    BY <1>2, <1>3 DEF IInv

LEMMA HaltKeeps ==
    ASSUME IInv, Halt, UNCHANGED <<setup, items, unheard>>
    PROVE  IInv'
  <1>1. gate' = "down" /\ polled' = <<>> /\ halts' = halts + 1 /\ UNCHANGED <<inbound, published>>
    BY DEF Halt, files
  <1>2. halts' \in Nat /\ halts' # 0
    BY <1>1 DEF IInv, Shape
  <1>3. Shape' /\ Sorted'
    BY <1>1, <1>2, EmptyLines DEF IInv, Shape, Sorted, Stamped, Ordered, Before
  <1>4. Heard' /\ NoMessageLost'
    BY <1>2 DEF Heard, NoMessageLost
  <1>5. Judged'
    BY <1>1, <1>2, EmptyLines DEF IInv, Judged
  <1>6. QED
    BY <1>3, <1>4, <1>5 DEF IInv

\* The list is written, or that of the configuration is taken.
LEMMA ListingKeeps ==
    ASSUME IInv, Listing
    PROVE  IInv'
  <1>1. /\ UNCHANGED <<setup, items, inbound, polled, published, gate, halts>>
        /\ unheard' = unheard \cup {i \in Range(inbound) : DeviceOf(i) \notin Welcome'}
        /\ accepts' = accepts \/ gate = "idle"
    BY DEF Listing, ListOpen, ListWrite, Reload, files, stamps
  <1>2. Shape' /\ Sorted' /\ Heard' /\ NoMessageLost'
    BY <1>1 DEF IInv, Shape, Sorted, Heard, NoMessageLost, Stamped, Ordered, Before, Range
  <1>3. \A i : DeviceOf(i)' = DeviceOf(i)
    BY <1>1 DEF DeviceOf
  <1>4. gate = "idle" => polled = <<>>
    BY DEF IInv, Shape
  <1>5. Judged'
    BY <1>1, <1>3, <1>4, EmptyLines DEF IInv, Judged
  <1>6. QED
    BY <1>2, <1>5 DEF IInv

\* Everything else leaves what is relayed alone.
LEMMA SameKeeps ==
    ASSUME IInv, UNCHANGED relayed
    PROVE  IInv'
  <1>1. Shape' /\ Sorted' /\ Heard' /\ NoMessageLost'
    BY DEF IInv, relayed, Shape, Sorted, Heard, NoMessageLost, Stamped, Ordered, Before, Range
  <1>2. Judged'
    BY DEF IInv, relayed, Judged, Welcome, DeviceOf
  <1>3. QED
    BY <1>1, <1>2 DEF IInv

LEMMA InitInv == Init => IInv
  <1>1. SUFFICES ASSUME Init PROVE IInv
    OBVIOUS
  <1>2. items \in Seq(Item) /\ DOMAIN items = {}
    BY <1>1, EmptySeq, LenProperties DEF Init
  <1>3. Shape /\ Sorted /\ Heard /\ Judged /\ NoMessageLost
    BY <1>1, <1>2, EmptyLines DEF Init, Shape, Sorted, Heard, Judged, NoMessageLost, Before
  <1>4. QED
    BY <1>3 DEF IInv

LEMMA NextInv == IInv /\ [Next]_vars => IInv'
  <1>1. SUFFICES ASSUME IInv, [Next]_vars PROVE IInv'
    OBVIOUS
  <1>2. CASE ChannelSteps
    <2>1. UNCHANGED <<setup, items, unheard, listed>>
      BY <1>2 DEF ChannelSteps, admin, stamps
    <2>2. CASE SendLog
      <3>1. gate = "sent" /\ gate' = "idle" /\ UNCHANGED <<inbound, accepts, polled, halts, published>>
        BY <2>2 DEF SendLog
      <3>2. Shape' /\ Sorted' /\ Heard' /\ NoMessageLost'
        BY <1>1, <2>1, <3>1 DEF IInv, Shape, Sorted, Heard, NoMessageLost, Stamped, Ordered, Before, Range
      <3>3. Judged'
        BY <1>1, <2>1, <3>1 DEF IInv, Judged, Welcome, DeviceOf
      <3>4. QED
        BY <3>2, <3>3 DEF IInv
    <2>3. PollList \/ PollRead \/ PollClear \/ SendLog
      BY <1>2 DEF ChannelSteps
    <2>4. QED
      BY <1>1, <2>1, <2>2, <2>3, PollListKeeps, PollReadKeeps, PollClearKeeps
  <1>3. CASE ChannelInputs
    <2>1. CASE (Start \/ Halt) /\ UNCHANGED stamps
      BY <1>1, <1>3, <2>1, StartKeeps, HaltKeeps DEF ChannelInputs, admin, stamps
    <2>2. CASE \E d \in Devices, k \in {"progress", "answer"} : SendOut(d, k)
      <3>1. PICK d \in Devices, k \in {"progress", "answer"} : SendOut(d, k)
        BY <2>2
      <3>2. UNCHANGED <<setup, admin>>
        BY <1>3 DEF ChannelInputs
      <3>3. QED
        BY <1>1, <3>1, <3>2, SendOutKeeps
    <2>3. QED
      BY <1>3, <2>1, <2>2 DEF ChannelInputs
  <1>4. CASE Requests
    <2>1. UNCHANGED <<setup, gateway>>
      BY <1>4 DEF Requests
    <2>2. CASE \E d \in Devices : RelayIn(d)
      BY <1>1, <2>1, <2>2, RelayInKeeps
    <2>3. CASE \E f \in Fetchers : FetchWrite(f) /\ UNCHANGED stamps
      BY <1>1, <2>1, <2>3, SameKeeps DEF FetchWrite, relayed, gateway, stamps
    <2>4. CASE \E f \in Fetchers, d \in Devices : FetchRead(f, d) /\ UNCHANGED stamps
      BY <1>1, <2>1, <2>4, SameKeeps DEF FetchRead, relayed, files, gateway, stamps
    <2>5. QED
      BY <1>4, <2>2, <2>3, <2>4 DEF Requests
  <1>5. CASE Notify
    BY <1>1, <1>5, SameKeeps DEF Notify, relayed, files, gateway, admin, stamps
  <1>6. CASE AdminCrash
    BY <1>1, <1>6, SameKeeps DEF AdminCrash, relayed, files, gateway, stamps
  <1>7. CASE \E i \in posting : FinishPost(i)
    BY <1>1, <1>7, SameKeeps DEF FinishPost, RelayLog, relayed, gateway, stamps
  <1>8. CASE \E d \in Devices : Follow(d)
    BY <1>1, <1>8, SameKeeps DEF Follow, relayed, files, gateway, admin, stamps
  <1>9. CASE UNCHANGED vars
    BY <1>1, <1>9, SameKeeps DEF vars, relayed, files, gateway, admin, stamps
  <1>10. QED
    BY <1>1, <1>2, <1>3, <1>4, <1>5, <1>6, <1>7, <1>8, <1>9, ListingKeeps DEF Next

LEMMA AlwaysInv == Spec => []IInv
  BY InitInv, NextInv, PTL DEF Spec

\* The bus gets messages in the order they were relayed and none twice, however reading,
\* emptying, appending, stops and starts interleave (SoftnixAppChannel._poll_loop).
THEOREM BusInOrder == Spec => []PublishedInOrder
  <1>1. IInv => PublishedInOrder
    BY DEF IInv, Sorted, Ordered, PublishedInOrder
  <1>2. QED
    BY <1>1, AlwaysInv, PTL

\* As long as the gateway runs, a message waits in the file, is in the hands of the channel or
\* has reached the bus, but for those that were appended while nobody would look at them, and those
\* of devices that were not allowed all the time since: for any changes of the list, torn writes of
\* its file included (relay_mobile_message, SoftnixAppChannel._process_inbound, _sync_relay_allow_from).
THEOREM MessagesKept == Spec => []NoMessageLost
  <1>1. IInv => NoMessageLost
    BY DEF IInv
  <1>2. QED
    BY <1>1, AlwaysInv, PTL

----------------------------------------------------------------------------
\* What clients follow: the history files.

LEMMA GreatestUpTo ==
    ASSUME NEW N \in Nat, NEW W \in SUBSET (0 .. N), W # {}
    PROVE  \E w \in W : \A v \in W : v <= w
  <1> DEFINE B == {b \in Nat : \A v \in W : v <= b}
  <1>1. N \in B /\ B \in SUBSET Nat
    OBVIOUS
  <1>2. PICK b \in B : \A c \in B : b <= c
    BY <1>1, LeastOfNaturals
  <1>3. ASSUME b \notin W PROVE FALSE
    <2>1. \A v \in W : v <= b - 1 /\ v >= 0
      BY <1>2, <1>3
    <2>2. b - 1 \in B
      <3>1. PICK v \in W : TRUE
        OBVIOUS
      <3>2. b - 1 \in Nat
        BY <1>2, <2>1, <3>1
      <3>3. QED
        BY <2>1, <3>2
    <2>3. QED
      BY <1>2, <2>2
  <1>4. QED
    BY <1>2, <1>3

\* The history file of a device holds its items.  What a request has read of it was all of it
\* at some time; items come late, or in the order of their stamps; a client whose last event
\* came from the file has the older ones that are in it, unless some came late.
Histories ==
    /\ log \in [Devices -> Seq(Nat)]
    /\ \A d \in Devices : \A i \in Range(log[d]) : i \in DOMAIN items /\ DeviceOf(i) = d
    /\ gate = "sent" => replying \in DOMAIN items
    /\ posting \subseteq DOMAIN items /\ late \subseteq DOMAIN items
    /\ view \in [Devices -> Seq(Nat) \cup {None}] /\ seen \in [Devices -> SUBSET Nat]
    /\ marker \in [Devices -> [id : Nat, form : {"none", "log", "out"}]]
    /\ \A d \in Devices : marker[d].form = "none" => marker[d].id = 0

Precedes(i, j) == i \in DOMAIN items /\ j \in DOMAIN items /\ DeviceOf(i) = DeviceOf(j) /\ i < j

LoggedOrLate == \A i, j : Precedes(i, j) => i \in Range(log[DeviceOf(i)]) \cup late

ViewsWhole ==
    \A d \in Devices : view[d] # None =>
        /\ Range(view[d]) \subseteq Range(log[d])
        /\ \A i, j : Precedes(i, j) /\ j \in Range(view[d]) => i \in Range(view[d]) \cup late

Punctual(d) == \A i \in late : DeviceOf(i) # d

MarkersSound ==
    \A d \in Devices : marker[d].form = "log" =>
        /\ marker[d].id \in Range(log[d])
        /\ Punctual(d) => \A i \in Range(log[d]) : i <= marker[d].id => i \in seen[d]

CursorInv == Histories /\ LoggedOrLate /\ ViewsWhole /\ MarkersSound

LEMMA InitCursor == Init => CursorInv
  <1>1. SUFFICES ASSUME Init PROVE CursorInv
    OBVIOUS
  <1>2. DOMAIN items = {} /\ \A d \in Devices : log[d] = <<>> /\ marker[d] = NoMarker /\ view[d] = None /\ seen[d] = {}
    BY <1>1, EmptyLines DEF Init
  <1>3. NoMarker \in [id : Nat, form : {"none", "log", "out"}] /\ NoMarker.form = "none" /\ NoMarker.id = 0
    BY DEF NoMarker
  <1>4. Histories
    BY <1>1, <1>2, <1>3, EmptyLines DEF Init, Histories, Stamped
  <1>5. LoggedOrLate /\ ViewsWhole /\ MarkersSound
    BY <1>2, <1>3 DEF LoggedOrLate, ViewsWhole, MarkersSound, Precedes
  <1>6. QED
    BY <1>4, <1>5 DEF CursorInv

\* A new item.
LEMMA StampCursor ==
    ASSUME Shape, CursorInv, NEW d \in Devices, NEW k \in Kinds, Stamp(d, k), UNCHANGED <<log, clients>>,
           posting' \subseteq posting \cup {NewId}, gate' = "sent" => replying' \in {replying, NewId},
           gate' = "sent" /\ gate # "sent" => replying' = NewId
    PROVE  CursorInv'
  <1>0. /\ DOMAIN items' = DOMAIN items \cup {NewId} /\ \A i \in DOMAIN items : items'[i] = items[i]
        /\ NewId \in Nat /\ Len(items) < NewId
    BY StampFacts
  <1>1. /\ DOMAIN items' = DOMAIN items \cup {NewId} /\ \A i \in DOMAIN items : items'[i] = items[i]
        /\ NewId \in Nat /\ NewId \notin DOMAIN items /\ DOMAIN items \subseteq Nat
        /\ \A i \in DOMAIN items : i < NewId
    BY <1>0, ItemFacts
  <1>2. late' = late \cup Unlogged(d) /\ UNCHANGED <<view, seen, marker>> /\ items' = Append(items, [device |-> d, kind |-> k])
    BY DEF Stamp, clients
  <1>3. items'[NewId].device = d
    <2>1. [device |-> d, kind |-> k] \in Item
      BY DEF Item
    <2>2. items'[NewId] = [device |-> d, kind |-> k]
      BY <1>2, <2>1, AppendProperties DEF Shape, NewId
    <2>3. QED
      BY <2>2
  <1>4. \A i \in DOMAIN items : DeviceOf(i)' = DeviceOf(i)
    BY <1>1 DEF DeviceOf
  <1>5. Histories'
    BY <1>1, <1>2, <1>4 DEF CursorInv, Histories, Unlogged
  <1>6. LoggedOrLate'
    <2>1. SUFFICES ASSUME NEW i, NEW j, Precedes(i, j)' PROVE i \in Range(log'[DeviceOf(i)']) \cup late'
      BY DEF LoggedOrLate
    <2>2. i \in DOMAIN items /\ DeviceOf(i)' = DeviceOf(i) /\ i < j
      BY <1>1, <1>4, <2>1 DEF Precedes
    <2>3. CASE j \in DOMAIN items
      BY <1>2, <1>4, <2>1, <2>2, <2>3 DEF Precedes, CursorInv, LoggedOrLate
    <2>4. CASE j = NewId
      BY <1>2, <1>3, <2>1, <2>2, <2>4 DEF Precedes, DeviceOf, Unlogged
    <2>5. QED
      BY <1>1, <2>1, <2>3, <2>4 DEF Precedes
  <1>7. ViewsWhole'
    <2>1. SUFFICES ASSUME NEW e \in Devices, view[e] # None
                   PROVE  /\ Range(view[e]) \subseteq Range(log[e])
                          /\ \A i, j : Precedes(i, j)' /\ j \in Range(view[e]) => i \in Range(view[e]) \cup late'
      BY <1>2 DEF ViewsWhole
    <2>2. /\ Range(view[e]) \subseteq Range(log[e])
          /\ \A i, j : Precedes(i, j) /\ j \in Range(view[e]) => i \in Range(view[e]) \cup late
          /\ Range(log[e]) \subseteq DOMAIN items
      BY <2>1 DEF CursorInv, ViewsWhole, Histories
    <2>3. ASSUME NEW i, NEW j, Precedes(i, j)', j \in Range(view[e]) PROVE Precedes(i, j)
      BY <1>1, <1>4, <2>2, <2>3 DEF Precedes
    <2>4. QED
      BY <1>2, <2>2, <2>3
  <1>8. MarkersSound'
    <2>1. \A e \in Devices : Punctual(e)' => Punctual(e)
      BY <1>2, <1>4 DEF Punctual, CursorInv, Histories
    <2>2. QED
      BY <1>2, <2>1 DEF MarkersSound, CursorInv
  <1>9. QED
    BY <1>5, <1>6, <1>7, <1>8 DEF CursorInv

LEMMA OwnersOfItems ==
    ASSUME Shape
    PROVE  \A i \in DOMAIN items : items[i] \in Item /\ DeviceOf(i) \in Devices
  <1>1. \A i \in DOMAIN items : items[i] \in Item
    BY ItemFacts, ElementOfSeq DEF Shape
  <1>2. QED
    BY <1>1 DEF DeviceOf, Item

\* An item reaches the history file.
LEMMA LogCursor ==
    ASSUME Shape, CursorInv, NEW i \in DOMAIN items, DeviceOf(i) \in Devices,
           log' = [log EXCEPT ![DeviceOf(i)] = Append(@, i)],
           UNCHANGED <<clients, stamps>>, posting' \subseteq posting, gate' = "sent" => gate = "sent" /\ replying' = replying
    PROVE  CursorInv'
  <1> DEFINE d == DeviceOf(i)
  <1>1. UNCHANGED <<items, late, view, seen, marker>> /\ \A j : DeviceOf(j)' = DeviceOf(j)
    BY DEF clients, stamps, DeviceOf
  <1>2. i \in Nat /\ log[d] \in Seq(Nat)
    BY ItemFacts DEF CursorInv, Histories
  <1>3. /\ log' \in [Devices -> Seq(Nat)] /\ Range(log'[d]) = Range(log[d]) \cup {i}
        /\ \A e \in Devices : e # d => log'[e] = log[e]
    BY <1>2, AppendedRange DEF CursorInv, Histories
  <1>4. \A e \in Devices : Range(log[e]) \subseteq Range(log'[e]) /\ Range(log'[e]) \subseteq Range(log[e]) \cup {i}
    BY <1>3
  <1>5. Histories'
    <2>1. \A e \in Devices : \A j \in Range(log'[e]) : j \in DOMAIN items /\ DeviceOf(j) = e
      BY <1>3 DEF CursorInv, Histories
    <2>2. QED
      BY <1>1, <1>3, <2>1 DEF CursorInv, Histories
  <1>6. \A j : j \in DOMAIN items => DeviceOf(j) \in Devices
    BY OwnersOfItems
  <1>7. LoggedOrLate'
    BY <1>1, <1>4, <1>6 DEF LoggedOrLate, CursorInv, Precedes
  <1>8. ViewsWhole'
    BY <1>1, <1>4 DEF ViewsWhole, CursorInv, Precedes
  <1>9. MarkersSound'
    <2>1. SUFFICES ASSUME NEW e \in Devices, marker[e].form = "log"
                   PROVE  /\ marker[e].id \in Range(log'[e])
                          /\ Punctual(e) => \A j \in Range(log'[e]) : j <= marker[e].id => j \in seen[e]
      BY <1>1 DEF MarkersSound, Punctual
    <2>2. /\ marker[e].id \in Range(log[e]) /\ marker[e].id \in DOMAIN items /\ DeviceOf(marker[e].id) = e
          /\ Punctual(e) => \A j \in Range(log[e]) : j <= marker[e].id => j \in seen[e]
      BY <2>1 DEF CursorInv, MarkersSound, Histories
    <2>3. ASSUME Punctual(e), i <= marker[e].id, e = d PROVE i \in seen[e]
      <3>1. CASE i = marker[e].id
        BY <1>2, <2>2, <2>3, <3>1
      <3>2. CASE i # marker[e].id
        <4>1. i < marker[e].id /\ i \notin late
          BY <1>2, <2>2, <2>3, <3>2, ItemFacts DEF Punctual
        <4>2. Precedes(i, marker[e].id)
          BY <2>2, <2>3, <4>1 DEF Precedes
        <4>3. i \in Range(log[e])
          BY <2>3, <4>1, <4>2 DEF CursorInv, LoggedOrLate
        <4>4. QED
          BY <2>2, <2>3, <4>3
      <3>3. QED
        BY <3>1, <3>2
    <2>4. QED
      BY <1>3, <1>4, <2>2, <2>3
  <1>10. QED
    BY <1>5, <1>7, <1>8, <1>9 DEF CursorInv

LEMMA ReadCursor ==
    ASSUME CursorInv, NEW d \in Devices, HistoryRead(d), UNCHANGED <<log, posting, gateway, stamps>>
    PROVE  CursorInv'
  <1>1. UNCHANGED <<items, late, seen, marker, gate, replying>> /\ view' = [view EXCEPT ![d] = log[d]]
        /\ \A i : DeviceOf(i)' = DeviceOf(i)
    BY DEF HistoryRead, stamps, gateway, DeviceOf
  <1>2. log \in [Devices -> Seq(Nat)] /\ view \in [Devices -> Seq(Nat) \cup {None}]
    BY DEF CursorInv, Histories
  <1>3. view' \in [Devices -> Seq(Nat) \cup {None}] /\ view'[d] = log[d] /\ \A e \in Devices : e # d => view'[e] = view[e]
    BY <1>1, <1>2
  <1>4. Histories'
    BY <1>1, <1>3 DEF CursorInv, Histories
  <1>5. LoggedOrLate' /\ MarkersSound'
    BY <1>1 DEF CursorInv, LoggedOrLate, MarkersSound, Precedes, Punctual
  <1>6. ViewsWhole'
    <2>1. \A i, j : Precedes(i, j) /\ j \in Range(log[d]) => i \in Range(log[d]) \cup late
      BY DEF CursorInv, LoggedOrLate, Histories, Precedes
    <2>2. \A e \in Devices : e # d /\ view[e] # None =>
            /\ Range(view[e]) \subseteq Range(log[e])
            /\ \A i, j : Precedes(i, j) /\ j \in Range(view[e]) => i \in Range(view[e]) \cup late
      BY DEF CursorInv, ViewsWhole
    <2>3. \A i, j : Precedes(i, j)' <=> Precedes(i, j)
      BY <1>1 DEF Precedes
    <2>4. QED
      BY <1>1, <1>3, <2>1, <2>2, <2>3 DEF ViewsWhole
  <1>7. QED
    BY <1>4, <1>5, <1>6 DEF CursorInv

\* The events of a poll, and the last of them.
LEMMA ShownFacts ==
    ASSUME Shape, CursorInv, NEW d \in Devices, view[d] # None, NEW new,
           new \subseteq DOMAIN History(d, view[d], outbound), new # {}, NEW last,
           last = CHOOSE i \in new : \A j \in new : j <= i
    PROVE  /\ last \in new /\ last \in DOMAIN items
           /\ \A j \in new : j <= last
           /\ History(d, view[d], outbound)[last] \in {"log", "out"}
           /\ History(d, view[d], outbound)[last] = "log" <=> last \in Range(view[d])
  <1> DEFINE h == History(d, view[d], outbound)
  <1>1. DOMAIN h = Range(view[d]) \cup Of(d, outbound)
        /\ \A i \in DOMAIN h : h[i] = IF i \in Range(view[d]) THEN "log" ELSE "out"
    BY DEF History
  <1>2. DOMAIN h \subseteq DOMAIN items
    BY <1>1 DEF Of, CursorInv, ViewsWhole, Histories
  <1>3. Len(items) \in Nat /\ new \subseteq 0..Len(items)
    BY <1>2, ItemFacts
  <1>4. \E i \in new : \A j \in new : j <= i
    BY <1>3, GreatestUpTo
  <1>5. last \in new /\ \A j \in new : j <= last
    BY <1>4
  <1>6. QED
    BY <1>1, <1>2, <1>5

LEMMA ShowCursor ==
    ASSUME Shape, CursorInv, NEW d \in Devices, HistoryShow(d), UNCHANGED <<log, posting, gateway, stamps>>
    PROVE  CursorInv'
  <1> DEFINE h == History(d, view[d], outbound)
             new == After(h, marker[d])
             last == CHOOSE i \in new : \A j \in new : j <= i
             m == marker[d]
  <1>1. /\ view[d] # None /\ view' = [view EXCEPT ![d] = None]
        /\ seen' = [seen EXCEPT ![d] = @ \cup new]
        /\ marker' = IF new = {} THEN marker ELSE [marker EXCEPT ![d] = [id |-> last, form |-> h[last]]]
        /\ UNCHANGED <<items, late, gate, replying>>
    BY DEF HistoryShow, stamps, gateway
  <1>2. DOMAIN h = Range(view[d]) \cup Of(d, outbound)
        /\ \A i \in DOMAIN h : h[i] = IF i \in Range(view[d]) THEN "log" ELSE "out"
    BY DEF History
  <1>3. new = (IF m.id \in DOMAIN h /\ h[m.id] = m.form THEN {i \in DOMAIN h : i > m.id} ELSE DOMAIN h)
    BY DEF After
  <1>4. DOMAIN h \subseteq DOMAIN items /\ \A i \in DOMAIN h : DeviceOf(i) = d
    BY <1>1, <1>2 DEF Of, CursorInv, ViewsWhole, Histories
  <1>5. new # {} => /\ last \in new /\ last \in DOMAIN items /\ (\A j \in new : j <= last)
                    /\ h[last] \in {"log", "out"} /\ (h[last] = "log" <=> last \in Range(view[d]))
    <2>1. new \subseteq DOMAIN h
      BY <1>3
    <2>2. QED
      BY <1>1, <2>1, ShownFacts
  <1> HIDE DEF new, last, h
  <1>6. /\ seen \in [Devices -> SUBSET Nat] /\ view \in [Devices -> Seq(Nat) \cup {None}]
        /\ marker \in [Devices -> [id : Nat, form : {"none", "log", "out"}]]
        /\ DOMAIN items \subseteq Nat /\ \A i : DeviceOf(i)' = DeviceOf(i)
    BY <1>1, ItemFacts DEF CursorInv, Histories, DeviceOf
  <1>7. /\ seen' \in [Devices -> SUBSET Nat] /\ seen'[d] = seen[d] \cup new
        /\ \A e \in Devices : e # d => seen'[e] = seen[e] /\ view'[e] = view[e] /\ marker'[e] = marker[e]
        /\ view' \in [Devices -> Seq(Nat) \cup {None}] /\ view'[d] = None
    <2>1. new \subseteq Nat
      BY <1>3, <1>4, <1>6
    <2>2. QED
      BY <1>1, <1>6, <2>1
  <1>8. new # {} => marker'[d].id = last /\ marker'[d].form = h[last]
    BY <1>1, <1>6
  <1>9. marker' \in [Devices -> [id : Nat, form : {"none", "log", "out"}]]
    <2>1. CASE new = {}
      BY <1>1, <1>6, <2>1
    <2>2. CASE new # {}
      <3>1. [id |-> last, form |-> h[last]] \in [id : Nat, form : {"none", "log", "out"}]
        BY <1>5, <1>6, <2>2
      <3>2. QED
        BY <1>1, <1>6, <2>2, <3>1
    <2>3. QED
      BY <2>1, <2>2
  <1>10. Histories'
    <2>1. \A e \in Devices : marker'[e].form = "none" => marker'[e].id = 0
      BY <1>1, <1>5, <1>7, <1>8 DEF CursorInv, Histories
    <2>2. QED
      BY <1>1, <1>6, <1>7, <1>9, <2>1 DEF CursorInv, Histories
  <1>11. LoggedOrLate'
    BY <1>1, <1>6 DEF CursorInv, LoggedOrLate, Precedes
  <1>12. ViewsWhole'
    BY <1>1, <1>6, <1>7 DEF CursorInv, ViewsWhole, Precedes
  <1>13. MarkersSound'
    <2>1. SUFFICES ASSUME NEW e \in Devices, marker'[e].form = "log"
                   PROVE  /\ marker'[e].id \in Range(log[e])
                          /\ Punctual(e) => \A i \in Range(log[e]) : i <= marker'[e].id => i \in seen'[e]
      BY <1>1, <1>6 DEF MarkersSound, Punctual
    <2>2. CASE e # d \/ new = {}
      BY <1>1, <1>7, <2>1, <2>2 DEF CursorInv, MarkersSound
    <2>3. CASE e = d /\ new # {}
      <3>1. /\ last \in new /\ last \in DOMAIN h /\ last \in DOMAIN items /\ last \in Range(view[d])
            /\ marker'[d].id = last /\ Range(view[d]) \subseteq Range(log[d])
        BY <1>1, <1>3, <1>5, <1>8, <2>1, <2>3 DEF CursorInv, ViewsWhole
      <3>2. ASSUME Punctual(d), NEW i \in Range(log[d]), i <= last PROVE i \in seen[d] \cup new
        <4>1. i \in DOMAIN items /\ DeviceOf(i) = d /\ i \notin late /\ DeviceOf(last) = d /\ m.id \in Nat
          BY <1>4, <1>6, <3>1, <3>2 DEF CursorInv, Histories, Punctual
        <4>2. \A j : Precedes(j, last) /\ j \notin late => j \in Range(view[d])
          BY <1>1, <3>1 DEF CursorInv, ViewsWhole
        <4>3. i \in Range(view[d])
          <5>1. CASE i = last
            BY <3>1, <5>1
          <5>2. CASE i # last
            BY <1>6, <3>1, <3>2, <4>1, <4>2, <5>2 DEF Precedes
          <5>3. QED
            BY <5>1, <5>2
        <4>4. i \in DOMAIN h
          BY <1>2, <4>3
        <4>5. CASE ~(m.id \in DOMAIN h /\ h[m.id] = m.form)
          BY <1>3, <4>4, <4>5
        <4>6. CASE m.id \in DOMAIN h /\ h[m.id] = m.form /\ i > m.id
          BY <1>3, <4>4, <4>6
        <4>7. CASE m.id \in DOMAIN h /\ h[m.id] = m.form /\ i <= m.id
          <5>1. m.id < last /\ DeviceOf(m.id) = d /\ m.id \in DOMAIN items
            BY <1>3, <1>4, <3>1, <4>7
          <5>2. m.id \notin late
            BY <3>2, <5>1 DEF Punctual
          <5>3. m.id \in Range(view[d])
            BY <3>1, <4>1, <4>2, <5>1, <5>2 DEF Precedes
          <5>4. m.form = "log"
            BY <1>2, <4>7, <5>3
          <5>5. QED
            BY <3>2, <4>7, <5>4 DEF CursorInv, MarkersSound
        <4>8. QED
          BY <1>6, <4>1, <4>5, <4>6, <4>7
      <3>3. QED
        BY <1>7, <2>3, <3>1, <3>2
    <2>4. QED
      BY <2>2, <2>3
  <1>14. QED
    BY <1>10, <1>11, <1>12, <1>13 DEF CursorInv

\* Everything else leaves the histories and the clients alone.
LEMMA SameCursor ==
    ASSUME CursorInv, UNCHANGED <<log, stamps, seen, marker>>, posting' \subseteq posting,
           gate' = "sent" => gate = "sent" /\ replying' = replying,
           view' = view \/ view' = [d \in Devices |-> None]
    PROVE  CursorInv'
  <1>1. UNCHANGED <<items, late>> /\ \A i : DeviceOf(i)' = DeviceOf(i)
    BY DEF stamps, DeviceOf
  <1>2. Histories'
    BY <1>1 DEF CursorInv, Histories
  <1>3. LoggedOrLate' /\ MarkersSound'
    BY <1>1 DEF CursorInv, LoggedOrLate, MarkersSound, Precedes, Punctual
  <1>4. ViewsWhole'
    BY <1>1 DEF CursorInv, ViewsWhole, Precedes
  <1>5. QED
    BY <1>2, <1>3, <1>4 DEF CursorInv

LEMMA NextCursor == IInv /\ CursorInv /\ [Next]_vars => CursorInv'
  <1>1. SUFFICES ASSUME IInv, CursorInv, [Next]_vars PROVE CursorInv'
    OBVIOUS
  <1>2. Shape /\ \A i \in DOMAIN items : DeviceOf(i) \in Devices
    BY <1>1, OwnersOfItems DEF IInv
  <1>3. CASE ChannelSteps
    <2>1. UNCHANGED <<posting, clients, stamps>>
      BY <1>3 DEF ChannelSteps, admin
    <2>2. CASE SendLog
      <3>1. /\ gate = "sent" /\ gate' = "idle" /\ replying \in DOMAIN items
            /\ log' = [log EXCEPT ![DeviceOf(replying)] = Append(@, replying)]
        BY <1>1, <2>2 DEF SendLog, CursorInv, Histories
      <3>2. QED
        BY <1>1, <1>2, <2>1, <3>1, LogCursor
    <2>3. CASE PollList \/ PollRead \/ PollClear
      BY <1>1, <2>1, <2>3, SameCursor DEF PollList, PollRead, PollClear, files, clients
    <2>4. QED
      BY <1>3, <2>2, <2>3 DEF ChannelSteps
  <1>4. CASE ChannelInputs
    <2>1. UNCHANGED <<posting, clients>>
      BY <1>4 DEF ChannelInputs, admin
    <2>2. CASE (Start \/ Halt) /\ UNCHANGED stamps
      BY <1>1, <2>1, <2>2, SameCursor DEF Start, Halt, files, clients
    <2>3. CASE \E d \in Devices, k \in {"progress", "answer"} : SendOut(d, k)
      <3>1. PICK d \in Devices, k \in {"progress", "answer"} : SendOut(d, k)
        BY <2>3
      <3>2. Stamp(d, k) /\ k \in Kinds /\ replying' = NewId /\ UNCHANGED log
        BY <3>1 DEF SendOut, Kinds
      <3>3. QED
        BY <1>1, <1>2, <2>1, <3>2, StampCursor
    <2>4. QED
      BY <1>4, <2>2, <2>3 DEF ChannelInputs
  <1>5. CASE Requests
    <2>1. UNCHANGED <<gate, replying, clients>>
      BY <1>5 DEF Requests, gateway
    <2>2. CASE \E d \in Devices : RelayIn(d)
      <3>1. PICK d \in Devices : RelayIn(d)
        BY <2>2
      <3>2. Stamp(d, "message") /\ "message" \in Kinds /\ posting' = posting \cup {NewId} /\ UNCHANGED log
        BY <3>1 DEF RelayIn, Kinds
      <3>3. QED
        BY <1>1, <1>2, <2>1, <3>2, StampCursor
    <2>3. CASE \E f \in Fetchers : FetchWrite(f) /\ UNCHANGED stamps
      BY <1>1, <2>1, <2>3, SameCursor DEF FetchWrite, clients
    <2>4. CASE \E f \in Fetchers, d \in Devices : FetchRead(f, d) /\ UNCHANGED stamps
      BY <1>1, <2>1, <2>4, SameCursor DEF FetchRead, files, clients
    <2>5. QED
      BY <1>5, <2>2, <2>3, <2>4 DEF Requests
  <1>6. CASE Notify
    BY <1>1, <1>6, SameCursor DEF Notify, files, gateway, admin, clients
  <1>7. CASE AdminCrash
    BY <1>1, <1>7, SameCursor DEF AdminCrash, files, gateway
  <1>8. CASE \E i \in posting : FinishPost(i)
    <2>1. PICK i \in posting : FinishPost(i)
      BY <1>8
    <2>2. i \in DOMAIN items /\ posting' \subseteq posting /\ log' = [log EXCEPT ![DeviceOf(i)] = Append(@, i)]
      BY <1>1, <2>1 DEF FinishPost, RelayLog, CursorInv, Histories
    <2>3. UNCHANGED <<gate, replying, clients, stamps>>
      BY <2>1 DEF FinishPost, gateway
    <2>4. QED
      BY <1>1, <1>2, <2>2, <2>3, LogCursor
  <1>9. CASE \E d \in Devices : Follow(d)
    <2>1. PICK d \in Devices : Follow(d)
      BY <1>9
    <2>2. UNCHANGED <<log, posting, gateway, stamps>> /\ (HistoryRead(d) \/ HistoryShow(d))
      BY <2>1 DEF Follow, files, admin
    <2>3. QED
      BY <1>1, <1>2, <2>2, ReadCursor, ShowCursor
  <1>10. CASE UNCHANGED vars
    BY <1>1, <1>10, SameCursor DEF vars, files, gateway, admin, clients
  <1>11. CASE Listing
    BY <1>1, <1>11, SameCursor DEF Listing, files, clients
  <1>12. QED
    BY <1>1, <1>3, <1>4, <1>5, <1>6, <1>7, <1>8, <1>9, <1>10, <1>11 DEF Next

\* A client that polls with the id of its last event is not led past an event of its history
\* file, as long as the device's items reach the file in the order of their stamps and the
\* client's last event is in the file (get_mobile_chat_events, relay_mobile_message, send).
THEOREM ClientsMissNothing == Spec => []CursorSkipsNothing
  <1>1. ASSUME Shape, CursorInv PROVE CursorSkipsNothing
    <2>1. SUFFICES ASSUME NEW d \in setup.open, ~(marker[d].form = "out" /\ marker[d].id \notin Range(log[d])), Punctual(d),
                          NEW i \in Range(log[d])
                   PROVE  i \in seen[d] \cup After(History(d, log[d], outbound), marker[d])
      BY DEF CursorSkipsNothing, Punctual
    <2> DEFINE h == History(d, log[d], outbound)
               m == marker[d]
    <2>2. d \in Devices
      BY <1>1, RelayAssumption DEF Shape
    <2>3. /\ DOMAIN h = Range(log[d]) \cup Of(d, outbound)
          /\ \A j \in DOMAIN h : h[j] = IF j \in Range(log[d]) THEN "log" ELSE "out"
      BY DEF History
    <2>4. After(h, m) = (IF m.id \in DOMAIN h /\ h[m.id] = m.form THEN {j \in DOMAIN h : j > m.id} ELSE DOMAIN h)
      BY DEF After
    <2> HIDE DEF h
    <2>5. /\ i \in DOMAIN items /\ i \in Nat /\ m.id \in Nat /\ m.form \in {"none", "log", "out"}
          /\ m.form = "none" => m.id = 0
      BY <1>1, <2>2, ItemFacts DEF CursorInv, Histories
    <2>6. CASE m.form = "log"
      <3>1. i <= m.id => i \in seen[d]
        BY <1>1, <2>1, <2>2, <2>6 DEF CursorInv, MarkersSound
      <3>2. QED
        BY <2>3, <2>4, <2>5, <3>1 DEF h
    <2>7. CASE m.form = "out"
      BY <2>1, <2>3, <2>4, <2>7 DEF h
    <2>8. CASE m.form = "none"
      <3>1. m.id \notin DOMAIN items
        BY <1>1, <2>5, <2>8, ItemFacts
      <3>2. DOMAIN h \subseteq DOMAIN items
        BY <1>1, <2>2, <2>3 DEF Of, CursorInv, Histories, h
      <3>3. QED
        BY <2>3, <2>4, <3>1, <3>2 DEF h
    <2>9. QED
      BY <2>5, <2>6, <2>7, <2>8
  <1>2. IInv => Shape
    BY DEF IInv
  <1>3. QED
    BY <1>1, <1>2, InitCursor, NextCursor, InitInv, NextInv, PTL DEF Spec

----------------------------------------------------------------------------
\* What the notifier follows: the bytes of the relay file.

\* The lines up to the n-th that hold answers, and the bytes up to its end.
Answers(s, n) == {k \in 1..n : items[s[k]].kind = "answer"}
EndOf(s, n) == n + Cardinality(Answers(s, n))

LEMMA AnswersFinite ==
    ASSUME NEW s, NEW n \in Nat, NEW m \in 0..n
    PROVE  /\ Cardinality(Answers(s, n)) \in Nat /\ Cardinality(Answers(s, m)) \in Nat
           /\ Cardinality(Answers(s, m)) <= Cardinality(Answers(s, n))
  <1>1. IsFiniteSet(1..n) /\ Answers(s, n) \in SUBSET (1..n)
    BY FS_Interval DEF Answers
  <1>2. IsFiniteSet(Answers(s, n)) /\ Answers(s, m) \in SUBSET Answers(s, n)
    BY <1>1, FS_Subset DEF Answers
  <1>3. IsFiniteSet(Answers(s, m)) /\ Cardinality(Answers(s, m)) <= Cardinality(Answers(s, n))
    BY <1>2, FS_Subset
  <1>4. QED
    BY <1>2, <1>3, FS_CardinalityType

\* Offsets of line ends grow with the lines.
LEMMA EndsGrow ==
    ASSUME NEW s, NEW n \in Nat, NEW m \in 0..n
    PROVE  EndOf(s, n) \in Nat /\ EndOf(s, m) \in Nat /\ EndOf(s, 0) = 0 /\ (m < n => EndOf(s, m) < EndOf(s, n))
  <1>1. /\ Cardinality(Answers(s, n)) \in Nat /\ Cardinality(Answers(s, m)) \in Nat
        /\ Cardinality(Answers(s, m)) <= Cardinality(Answers(s, n))
    BY AnswersFinite
  <1>2. Answers(s, 0) = {}
    BY DEF Answers
  <1>3. Cardinality(Answers(s, 0)) = 0
    BY <1>2, FS_EmptySet
  <1>4. QED
    BY <1>1, <1>3 DEF EndOf

LEMMA PrefixBytes ==
    ASSUME NEW s \in Seq(Nat), NEW n \in 0..Len(s)
    PROVE  Bytes(SubSeq(s, 1, n)) = EndOf(s, n)
  <1> DEFINE t == SubSeq(s, 1, n)
  <1>1. Len(s) \in Nat /\ n \in Int /\ 1 \in Int /\ \A i \in 1 .. n : s[i] \in Nat
    BY RangeOf
  <1>2. /\ t \in Seq(Nat) /\ Len(t) = (IF 1 <= n THEN n - 1 + 1 ELSE 0)
        /\ \A i \in 1 .. n - 1 + 1 : t[i] = s[1 + i - 1]
    BY <1>1, SubSeqProperties
  <1>3. DOMAIN t = 1..n /\ Len(t) = n /\ \A i \in 1..n : t[i] = s[i]
    BY <1>1, <1>2, RangeOf
  <1>4. {i \in DOMAIN t : items[t[i]].kind = "answer"} = Answers(s, n)
    BY <1>3 DEF Answers
  <1> HIDE DEF t
  <1>5. QED
    BY <1>3, <1>4 DEF Bytes, EndOf, t

LEMMA FileBytes ==
    ASSUME NEW s \in Seq(Nat)
    PROVE  Bytes(s) = EndOf(s, Len(s))
  <1>1. Len(s) \in 0..Len(s) /\ SubSeq(s, 1, Len(s)) = s
    BY SubSeqFull, RangeOf
  <1>2. QED
    BY <1>1, PrefixBytes

\* After a seek to the end of a line, the rest of the file is read.
LEMMA ReadsTheRest ==
    ASSUME NEW s \in Seq(Nat), NEW b \in 0..Len(s)
    PROVE  LinesFrom(s, EndOf(s, b)) = SubSeq(s, b + 1, Len(s))
  <1> DEFINE before == {n \in DOMAIN s : Bytes(SubSeq(s, 1, n - 1)) < EndOf(s, b)}
  <1>1. DOMAIN s = 1..Len(s) /\ Len(s) \in Nat /\ b \in Nat
    BY RangeOf
  <1>2. ASSUME NEW n \in 1..Len(s)
        PROVE  Bytes(SubSeq(s, 1, n - 1)) < EndOf(s, b) <=> n <= b
    <2>1. n - 1 \in 0..Len(s) /\ Bytes(SubSeq(s, 1, n - 1)) = EndOf(s, n - 1)
      BY <1>1, PrefixBytes
    <2>2. CASE n <= b
      BY <1>1, <2>1, <2>2, EndsGrow
    <2>3. CASE b < n
      <3>1. b \in 0..(n - 1) /\ n - 1 \in Nat
        BY <1>1, <2>3
      <3>2. EndOf(s, n - 1) \in Nat /\ EndOf(s, b) \in Nat /\ (b < n - 1 => EndOf(s, b) < EndOf(s, n - 1))
        BY <3>1, EndsGrow
      <3>3. QED
        BY <1>1, <2>1, <2>3, <3>1, <3>2
    <2>4. QED
      BY <1>1, <2>2, <2>3
  <1>3. before = 1..b
    BY <1>1, <1>2
  <1>4. Cardinality(1..b) = b
    BY <1>1, FS_Interval
  <1>5. LinesFrom(s, EndOf(s, b)) = SubSeq(s, Cardinality(before) + 1, Len(s))
    BY DEF LinesFrom
  <1> HIDE DEF before
  <1>6. QED
    BY <1>3, <1>4, <1>5

LEMMA AppendKeepsLines ==
    ASSUME NEW s \in Seq(Nat), NEW k \in Nat, NEW m \in 1..(Len(s) + 1), NEW n \in 0..Len(s)
    PROVE  SubSeq(Append(s, k), m, n) = SubSeq(s, m, n)
  <1>1. Len(s) \in Nat /\ m \in Int /\ n \in Int
    BY RangeOf
  <1>2. CASE n < m
    BY <1>1, <1>2, SubSeqEmpty
  <1>3. CASE m <= n
    <2> DEFINE t == Append(s, k)
    <2>1. /\ t \in Seq(Nat) /\ \A i \in 1..Len(s) : t[i] = s[i] /\ s[i] \in Nat
      BY AppendProperties, RangeOf
    <2>2. \A i \in m..n : s[i] \in Nat /\ t[i] \in Nat /\ t[i] = s[i]
      BY <1>1, <2>1
    <2> HIDE DEF t
    <2>3. /\ SubSeq(s, m, n) \in Seq(Nat) /\ Len(SubSeq(s, m, n)) = n - m + 1
          /\ \A i \in 1 .. n - m + 1 : SubSeq(s, m, n)[i] = s[m + i - 1]
      BY <1>1, <1>3, <2>2, SubSeqProperties
    <2>4. /\ SubSeq(t, m, n) \in Seq(Nat) /\ Len(SubSeq(t, m, n)) = n - m + 1
          /\ \A i \in 1 .. n - m + 1 : SubSeq(t, m, n)[i] = t[m + i - 1]
      BY <1>1, <1>3, <2>2, SubSeqProperties
    <2>5. \A i \in 1 .. n - m + 1 : SubSeq(t, m, n)[i] = SubSeq(s, m, n)[i]
      BY <1>1, <1>3, <2>2, <2>3, <2>4
    <2>6. SubSeq(t, m, n) = SubSeq(s, m, n)
      BY <2>3, <2>4, <2>5, SeqEqual
    <2>7. QED
      BY <2>6 DEF t
  <1>4. QED
    BY <1>1, <1>2, <1>3

\* Up to line c the persisted offset has got, up to line b the notifier's; of the lines between,
\* those up to line a are dispatched and the others are in its hands.
Wanted(i) == items[i].kind = "answer" /\ DeviceOf(i) \in Subscribed

Reached(c, a, b) ==
    /\ c <= a /\ a <= b
    /\ saved = EndOf(outbound, c) /\ offset = EndOf(outbound, b)
    /\ batch = SubSeq(outbound, a + 1, b)
    /\ push # "lines" => c = b
    /\ \A n \in DOMAIN outbound : Wanted(outbound[n]) =>
         IF n <= a THEN pushed[outbound[n]] \in 1..(crashes + 1) ELSE pushed[outbound[n]] <= crashes

RelayFile ==
    /\ Stamped(outbound) /\ Ordered(outbound) /\ \A n \in DOMAIN outbound : outbound[n] \in DOMAIN items
    /\ Len(items) <= MaxItems /\ crashes \in Nat
    /\ pushed \in [Ids -> Nat] /\ \A i \in Ids \ DOMAIN items : pushed[i] = 0

PushInv ==
    /\ Len(items) <= MaxItems /\ crashes \in Nat
    /\ ~rewritten => RelayFile /\ \E c, a, b \in 0..Len(outbound) : Reached(c, a, b)

LEMMA LinesAreIds ==
    ASSUME Shape, RelayFile, NEW n \in DOMAIN outbound
    PROVE  n \in Nat /\ outbound[n] \in DOMAIN items /\ outbound[n] \in Nat /\ outbound[n] \in Ids
  <1>1. DOMAIN items = 1..Len(items) /\ Len(items) \in Nat /\ outbound[n] \in DOMAIN items /\ Len(items) <= MaxItems
    BY ItemFacts DEF RelayFile
  <1>2. n \in Nat
    BY RangeOf DEF RelayFile, Stamped
  <1>3. QED
    BY <1>1, <1>2, RelayAssumption DEF Ids

LEMMA InitPush == Init => PushInv
  <1>1. SUFFICES ASSUME Init PROVE PushInv
    OBVIOUS
  <1>2. items \in Seq(Item) /\ DOMAIN items = {} /\ Len(items) = 0 /\ outbound = <<>> /\ Len(outbound) = 0
    BY <1>1, EmptySeq, LenProperties DEF Init
  <1>3. RelayFile /\ Len(items) <= MaxItems /\ crashes \in Nat
    BY <1>1, <1>2, EmptyLines, RelayAssumption DEF Init, RelayFile, Ids
  <1>4. EndOf(outbound, 0) = 0 /\ SubSeq(outbound, 0 + 1, 0) = <<>>
    BY EndsGrow, SubSeqEmpty
  <1>5. saved = 0 /\ offset = 0 /\ batch = <<>> /\ push = "idle" /\ DOMAIN outbound = {}
    BY <1>1, <1>2, EmptyLines DEF Init
  <1>6. Reached(0, 0, 0)
    BY <1>4, <1>5 DEF Reached
  <1>7. QED
    BY <1>2, <1>3, <1>6 DEF PushInv

LEMMA EndsStay ==
    ASSUME NEW n \in Nat, \A k \in 1..n : outbound'[k] = outbound[k] /\ items'[outbound[k]] = items[outbound[k]]
    PROVE  EndOf(outbound, n)' = EndOf(outbound, n)
  <1>1. Answers(outbound, n)' = Answers(outbound, n)
    BY DEF Answers
  <1>2. QED
    BY <1>1 DEF EndOf

\* An item is stamped, and its line may be appended.
LEMMA GrowPush ==
    ASSUME Shape, PushInv, NEW d \in Devices, NEW k \in Kinds, Stamp(d, k),
           UNCHANGED <<setup, notifier, crashes, rewritten>>,
           outbound' = outbound \/ outbound' = Append(outbound, NewId)
    PROVE  PushInv'
  <1>1. /\ items' \in Seq(Item) /\ Len(items') = Len(items) + 1 /\ DOMAIN items' = DOMAIN items \cup {NewId}
        /\ \A i \in DOMAIN items : items'[i] = items[i]
        /\ NewId \in Nat /\ Len(items) < NewId /\ NewId = Len(items')
    BY StampFacts
  <1>2. \A s : Stamped(s) => Stamped(s)'
    BY StampFacts
  <1>3. DOMAIN items = 1..Len(items) /\ Len(items) \in Nat
    BY ItemFacts
  <1>4. UNCHANGED <<offset, saved, push, batch, pushed, crashes, rewritten>>
    BY DEF notifier
  <1>5. Len(items') <= MaxItems /\ NewId \in Ids \ DOMAIN items
    BY <1>1, <1>3, RelayAssumption DEF Stamp, Shape, Ids
  <1>6. SUFFICES ASSUME ~rewritten PROVE (RelayFile /\ \E c, a, b \in 0..Len(outbound) : Reached(c, a, b))'
    BY <1>4, <1>5 DEF PushInv
  <1>7. RelayFile
    BY <1>6 DEF PushInv
  <1>8. PICK c \in 0..Len(outbound), a \in 0..Len(outbound), b \in 0..Len(outbound) : Reached(c, a, b)
    BY <1>6 DEF PushInv
  <1>9. outbound \in Seq(Nat) /\ DOMAIN outbound = 1..Len(outbound) /\ Len(outbound) \in Nat
    BY <1>7, RangeOf DEF RelayFile, Stamped
  <1>10. c <= a /\ a <= b /\ c \in Nat /\ a \in Nat /\ b \in Nat
    BY <1>8, <1>9 DEF Reached
  <1>11. /\ outbound' \in Seq(Nat) /\ Len(outbound') \in Nat /\ Len(outbound) <= Len(outbound')
         /\ \A n \in 1..Len(outbound) : outbound'[n] = outbound[n]
         /\ \A n \in DOMAIN outbound' : n \in DOMAIN outbound \/ (outbound'[n] = NewId /\ n > Len(outbound))
         /\ Ordered(outbound') /\ (\A n \in DOMAIN outbound' : outbound'[n] <= NewId)
         /\ SubSeq(outbound', a + 1, b) = SubSeq(outbound, a + 1, b)
    <2>1. CASE outbound' = outbound
      <3>1. \A n \in DOMAIN outbound : outbound[n] <= NewId
        BY <1>1, <1>3, <1>7 DEF RelayFile
      <3>2. QED
        BY <1>7, <1>9, <2>1, <3>1 DEF RelayFile
    <2>2. CASE outbound' = Append(outbound, NewId)
      <3>1. /\ Append(outbound, NewId) \in Seq(Nat) /\ Ordered(Append(outbound, NewId))
            /\ \A n \in DOMAIN Append(outbound, NewId) : Append(outbound, NewId)[n] <= NewId
        BY <1>1, <1>3, <1>7, AppendLine DEF RelayFile
      <3>2. /\ Len(Append(outbound, NewId)) = Len(outbound) + 1
            /\ \A n \in 1..Len(outbound) : Append(outbound, NewId)[n] = outbound[n]
            /\ Append(outbound, NewId)[Len(outbound) + 1] = NewId
        BY <1>1, <1>9, AppendProperties
      <3>3. DOMAIN Append(outbound, NewId) = 1..(Len(outbound) + 1)
        BY <3>1, <3>2, RangeOf
      <3>4. SubSeq(Append(outbound, NewId), a + 1, b) = SubSeq(outbound, a + 1, b)
        BY <1>1, <1>9, <1>10, AppendKeepsLines
      <3>5. QED
        BY <1>9, <2>2, <3>1, <3>2, <3>3, <3>4
    <2>3. QED
      BY <2>1, <2>2
  <1>12. \A n \in DOMAIN outbound : outbound'[n] = outbound[n] /\ outbound[n] \in DOMAIN items
    BY <1>7, <1>9, <1>11 DEF RelayFile
  <1>13. RelayFile'
    <2>1. Stamped(outbound)'
      BY <1>1, <1>11 DEF Stamped
    <2>2. \A n \in DOMAIN outbound' : outbound'[n] \in DOMAIN items'
      BY <1>1, <1>11, <1>12
    <2>3. QED
      BY <1>1, <1>4, <1>5, <1>7, <1>11, <2>1, <2>2 DEF RelayFile, Ordered
  <1>14. \A n \in 0..Len(outbound) : EndOf(outbound, n)' = EndOf(outbound, n)
    <2>1. SUFFICES ASSUME NEW n \in 0..Len(outbound) PROVE EndOf(outbound, n)' = EndOf(outbound, n)
      OBVIOUS
    <2>2. n \in Nat /\ \A j \in 1..n : j \in DOMAIN outbound
      BY <1>9
    <2>3. \A j \in 1..n : outbound'[j] = outbound[j] /\ items'[outbound[j]] = items[outbound[j]]
      BY <1>1, <1>12, <2>2
    <2>4. QED
      BY <2>2, <2>3, EndsStay
  <1>15. Reached(c, a, b)'
    <2>1. /\ saved' = EndOf(outbound, c)' /\ offset' = EndOf(outbound, b)'
          /\ batch' = SubSeq(outbound', a + 1, b)
          /\ push' # "lines" => c = b
      BY <1>4, <1>8, <1>11, <1>14 DEF Reached
    <2>2. ASSUME NEW n \in DOMAIN outbound', Wanted(outbound[n])'
          PROVE  IF n <= a THEN pushed[outbound'[n]] \in 1..(crashes + 1) ELSE pushed[outbound'[n]] <= crashes
      <3>1. CASE n \in DOMAIN outbound
        <4>1. Wanted(outbound[n])
          BY <1>1, <1>12, <2>2, <3>1 DEF Wanted, DeviceOf
        <4>2. QED
          BY <1>8, <1>12, <3>1, <4>1 DEF Reached
      <3>2. CASE outbound'[n] = NewId /\ n > Len(outbound)
        <4>1. pushed[NewId] = 0 /\ crashes \in Nat
          BY <1>5, <1>7 DEF RelayFile
        <4>2. ~(n <= a)
          BY <1>9, <1>10, <1>11, <3>2, RangeOf
        <4>3. QED
          BY <3>2, <4>1, <4>2
      <3>3. QED
        BY <1>11, <3>1, <3>2
    <2>3. QED
      BY <1>4, <1>10, <2>1, <2>2 DEF Reached
  <1>16. QED
    BY <1>9, <1>11, <1>13, <1>15

LEMMA SamePush ==
    ASSUME PushInv, UNCHANGED <<items, outbound, saved, offset, push, batch, pushed, crashes, rewritten>>
    PROVE  PushInv'
  <1>1. RelayFile => RelayFile'
    BY DEF RelayFile, Stamped
  <1>2. \A c, a, b \in 0..Len(outbound) : Reached(c, a, b) => Reached(c, a, b)'
    BY DEF Reached, EndOf, Answers, Wanted, DeviceOf
  <1>3. QED
    BY <1>1, <1>2 DEF PushInv

\* The notifier's own steps, and a crash of the admin server, leave the file alone.
LEMMA NotifierPush ==
    ASSUME Shape, PushInv, PushStat \/ PushRead \/ PushNext \/ PushSave, UNCHANGED <<items, outbound, crashes, rewritten>>
    PROVE  PushInv'
  <1>1. SUFFICES ASSUME ~rewritten PROVE (RelayFile /\ \E c, a, b \in 0..Len(outbound) : Reached(c, a, b))'
    BY DEF PushInv
  <1>2. RelayFile
    BY <1>1 DEF PushInv
  <1>3. PICK c \in 0..Len(outbound), a \in 0..Len(outbound), b \in 0..Len(outbound) : Reached(c, a, b)
    BY <1>1 DEF PushInv
  <1>4. outbound \in Seq(Nat) /\ DOMAIN outbound = 1..Len(outbound) /\ Len(outbound) \in Nat
    BY <1>2, RangeOf DEF RelayFile, Stamped
  <1>5. /\ c <= a /\ a <= b /\ b <= Len(outbound) /\ c \in Nat /\ a \in Nat /\ b \in Nat
        /\ saved = EndOf(outbound, c) /\ offset = EndOf(outbound, b)
        /\ batch = SubSeq(outbound, a + 1, b) /\ (push # "lines" => c = b)
    BY <1>3, <1>4 DEF Reached
  <1>6. /\ Bytes(outbound) = EndOf(outbound, Len(outbound)) /\ Bytes(outbound) \in Nat /\ offset \in Nat
        /\ offset <= Bytes(outbound)
    <2>1. Bytes(outbound) = EndOf(outbound, Len(outbound))
      BY <1>4, FileBytes
    <2>2. b \in 0..Len(outbound)
      BY <1>5
    <2>3. /\ EndOf(outbound, Len(outbound)) \in Nat /\ EndOf(outbound, b) \in Nat
          /\ b < Len(outbound) => EndOf(outbound, b) < EndOf(outbound, Len(outbound))
      BY <1>4, <2>2, EndsGrow
    <2>4. QED
      BY <1>4, <1>5, <2>1, <2>3
  <1>7. \A n \in Nat : EndOf(outbound, n)' = EndOf(outbound, n)
    BY DEF EndOf, Answers
  <1>8. pushed' = pushed => RelayFile'
    BY <1>2 DEF RelayFile, Stamped
  <1>9. \A i : Wanted(i)' <=> Wanted(i)
    BY DEF Wanted, DeviceOf
  <1>10. CASE PushStat
    <2>1. push = "idle" /\ push' \in {"idle", "opened"} /\ UNCHANGED <<batch, pushed>> /\ c = b /\ a = b
      BY <1>5, <1>10 DEF PushStat
    <2>2. SeekTo(Bytes(outbound)) = offset
      BY <1>6 DEF SeekTo
    <2>3. offset' = offset /\ saved' = saved
      BY <1>5, <1>10, <2>1, <2>2 DEF PushStat
    <2>4. Reached(c, a, b)'
      BY <1>3, <1>5, <1>7, <1>9, <2>1, <2>3 DEF Reached
    <2>5. QED
      BY <1>8, <2>1, <2>4
  <1>11. CASE PushRead
    <2>1. push = "opened" /\ push' = "lines" /\ batch' = LinesFrom(outbound, offset) /\ UNCHANGED <<saved, pushed>>
          /\ c = b /\ a = b
      BY <1>5, <1>11 DEF PushRead
    <2>2. offset' = EndOf(outbound, Len(outbound))
      BY <1>6, <1>11 DEF PushRead
    <2>3. batch' = SubSeq(outbound, a + 1, Len(outbound))
      BY <1>4, <1>5, <2>1, ReadsTheRest
    <2>4. Reached(c, a, Len(outbound))'
      <3>1. a <= Len(outbound) /\ saved' = EndOf(outbound, c)' /\ offset' = EndOf(outbound, Len(outbound))'
            /\ batch' = SubSeq(outbound', a + 1, Len(outbound))
        BY <1>4, <1>5, <1>7, <2>1, <2>2, <2>3
      <3>2. QED
        BY <1>3, <1>5, <1>9, <2>1, <3>1 DEF Reached
    <2>5. QED
      BY <1>4, <1>8, <2>1, <2>4
  <1>12. CASE PushNext
    <2>1. /\ push = "lines" /\ batch # <<>> /\ batch' = Tail(batch) /\ UNCHANGED <<offset, saved, push>>
          /\ pushed' = IF Wanted(Head(batch)) THEN [pushed EXCEPT ![Head(batch)] = @ + 1] ELSE pushed
      BY <1>12 DEF PushNext, Wanted
    <2>2. a < b
      <3>1. CASE b < a + 1
        BY <1>4, <1>5, <2>1, <3>1, SubSeqEmpty
      <3>2. QED
        BY <1>5, <3>1
    <2>3. a + 1 \in 1..Len(outbound) /\ b \in (a + 1)..Len(outbound)
      BY <1>4, <1>5, <2>2
    <2>4. Head(batch) = outbound[a + 1] /\ batch' = SubSeq(outbound, a + 1 + 1, b)
      BY <1>4, <1>5, <2>1, <2>3, HeadTailOfSubSeq
    <2> DEFINE i == outbound[a + 1]
    <2>5. i \in DOMAIN items /\ i \in Nat /\ i \in Ids
      <3>1. a + 1 \in DOMAIN outbound
        BY <1>4, <2>3
      <3>2. QED
        BY <1>2, <3>1, LinesAreIds
    <2>6. pushed \in [Ids -> Nat] /\ crashes \in Nat
      BY <1>2 DEF RelayFile
    <2>7. /\ pushed' \in [Ids -> Nat] /\ pushed'[i] = (IF Wanted(i) THEN pushed[i] + 1 ELSE pushed[i])
          /\ \A j \in Ids : j # i => pushed'[j] = pushed[j]
      BY <2>1, <2>4, <2>5, <2>6
    <2>8. RelayFile'
      BY <1>2, <2>5, <2>7 DEF RelayFile, Stamped
    <2>9. \A n \in DOMAIN outbound : outbound[n] \in Ids /\ (n # a + 1 => outbound[n] # i)
      <3>1. SUFFICES ASSUME NEW n \in DOMAIN outbound PROVE outbound[n] \in Ids /\ (n # a + 1 => outbound[n] # i)
        OBVIOUS
      <3>2. n \in Nat /\ outbound[n] \in Nat /\ outbound[n] \in Ids /\ a + 1 \in DOMAIN outbound
        BY <1>2, <1>4, <2>3, LinesAreIds
      <3>3. n < a + 1 => outbound[n] < i
        BY <1>2, <3>2 DEF RelayFile, Ordered
      <3>4. a + 1 < n => i < outbound[n]
        BY <1>2, <3>2 DEF RelayFile, Ordered
      <3>5. QED
        BY <1>5, <2>5, <3>2, <3>3, <3>4
    <2>10. ASSUME NEW n \in DOMAIN outbound, Wanted(outbound[n])
           PROVE  IF n <= a + 1 THEN pushed'[outbound[n]] \in 1..(crashes + 1) ELSE pushed'[outbound[n]] <= crashes
      <3>1. IF n <= a THEN pushed[outbound[n]] \in 1..(crashes + 1) ELSE pushed[outbound[n]] <= crashes
        BY <1>3, <2>10 DEF Reached
      <3>2. n \in Nat /\ pushed[outbound[n]] \in Nat
        BY <1>4, <2>6, <2>9
      <3>3. CASE n = a + 1
        BY <1>5, <2>6, <2>7, <2>10, <3>1, <3>2, <3>3
      <3>4. CASE n # a + 1
        BY <1>5, <2>7, <2>9, <3>1, <3>2, <3>4
      <3>5. QED
        BY <3>3, <3>4
    <2>11. Reached(c, a + 1, b)'
      <3>1. c <= a + 1 /\ a + 1 <= b
        BY <1>5, <2>2
      <3>2. QED
        BY <1>5, <1>7, <1>9, <2>1, <2>4, <2>10, <3>1 DEF Reached
    <2>12. a + 1 \in 0..Len(outbound)
      BY <2>3
    <2>13. QED
      BY <2>8, <2>11, <2>12
  <1>13. CASE PushSave
    <2>1. push = "lines" /\ batch = <<>> /\ push' = "idle" /\ saved' = offset /\ UNCHANGED <<offset, batch, pushed>>
      BY <1>13 DEF PushSave
    <2>2. a = b
      <3>1. CASE a < b
        <4>1. /\ \A n \in (a + 1)..b : outbound[n] \in Nat
              /\ a + 1 \in Int /\ b \in Int /\ a + 1 <= b
          BY <1>4, <1>5, <3>1, RangeOf
        <4>2. Len(batch) = b - (a + 1) + 1
          BY <1>5, <4>1, SubSeqProperties
        <4>3. Len(batch) = 0
          BY <2>1, EmptySeq
        <4>4. QED
          BY <1>5, <3>1, <4>2, <4>3
      <3>2. QED
        BY <1>5, <3>1
    <2>3. Reached(b, b, b)'
      BY <1>3, <1>5, <1>7, <1>9, <2>1, <2>2 DEF Reached
    <2>4. QED
      BY <1>8, <2>1, <2>3
  <1>14. QED
    BY <1>10, <1>11, <1>12, <1>13

LEMMA CrashPush ==
    ASSUME Shape, PushInv, AdminCrash
    PROVE  PushInv'
  <1>1. /\ UNCHANGED <<items, outbound, rewritten, saved, pushed>> /\ crashes' = crashes + 1
        /\ offset' = saved /\ push' = "idle" /\ batch' = <<>>
    BY DEF AdminCrash, files, stamps
  <1>2. Len(items') <= MaxItems /\ crashes' \in Nat /\ crashes \in Nat
    BY <1>1 DEF PushInv
  <1>3. SUFFICES ASSUME ~rewritten PROVE (RelayFile /\ \E c, a, b \in 0..Len(outbound) : Reached(c, a, b))'
    BY <1>1, <1>2 DEF PushInv
  <1>4. RelayFile /\ RelayFile'
    BY <1>1, <1>2, <1>3 DEF PushInv, RelayFile, Stamped
  <1>5. PICK c \in 0..Len(outbound), a \in 0..Len(outbound), b \in 0..Len(outbound) : Reached(c, a, b)
    BY <1>3 DEF PushInv
  <1>6. /\ outbound \in Seq(Nat) /\ DOMAIN outbound = 1..Len(outbound) /\ Len(outbound) \in Nat
        /\ c <= a /\ c \in Nat /\ a \in Nat /\ saved = EndOf(outbound, c)
    BY <1>4, <1>5, RangeOf DEF RelayFile, Stamped, Reached
  <1>7. EndOf(outbound, c)' = EndOf(outbound, c) /\ \A i : Wanted(i)' <=> Wanted(i)
    BY <1>1 DEF EndOf, Answers, Wanted, DeviceOf
  <1>8. SubSeq(outbound, c + 1, c) = <<>>
    BY <1>6, SubSeqEmpty
  <1>9. ASSUME NEW n \in DOMAIN outbound, Wanted(outbound[n])
        PROVE  IF n <= c THEN pushed[outbound[n]] \in 1..(crashes + 1 + 1) ELSE pushed[outbound[n]] <= crashes + 1
    <2>1. IF n <= a THEN pushed[outbound[n]] \in 1..(crashes + 1) ELSE pushed[outbound[n]] <= crashes
      BY <1>5, <1>9 DEF Reached
    <2>2. outbound[n] \in Ids
      BY <1>4, <1>9, LinesAreIds
    <2>3. pushed[outbound[n]] \in Nat /\ n \in Nat
      BY <1>4, <1>6, <2>2 DEF RelayFile
    <2>4. QED
      BY <1>2, <1>6, <2>1, <2>3
  <1>10. Reached(c, c, c)'
    BY <1>1, <1>6, <1>7, <1>8, <1>9 DEF Reached
  <1>11. QED
    BY <1>1, <1>4, <1>10

LEMMA NextPush == IInv /\ PushInv /\ [Next]_vars => PushInv'
  <1>1. SUFFICES ASSUME IInv, PushInv, [Next]_vars PROVE PushInv'
    OBVIOUS
  <1>2. Shape
    BY <1>1 DEF IInv
  <1>3. CASE ChannelSteps
    BY <1>1, <1>3, SamePush DEF ChannelSteps, PollList, PollRead, PollClear, SendLog, files, admin, notifier, stamps
  <1>4. CASE ChannelInputs
    <2>1. UNCHANGED <<setup, notifier, crashes, rewritten>>
      BY <1>4 DEF ChannelInputs, admin
    <2>2. CASE (Start \/ Halt) /\ UNCHANGED stamps
      BY <1>1, <2>1, <2>2, SamePush DEF Start, Halt, files, notifier, stamps
    <2>3. CASE \E d \in Devices, k \in {"progress", "answer"} : SendOut(d, k)
      <3>1. PICK d \in Devices, k \in {"progress", "answer"} : SendOut(d, k)
        BY <2>3
      <3>2. Stamp(d, k) /\ k \in Kinds /\ outbound' = Append(outbound, NewId)
        BY <3>1 DEF SendOut, Kinds
      <3>3. QED
        BY <1>1, <1>2, <2>1, <3>2, GrowPush
    <2>4. QED
      BY <1>4, <2>2, <2>3 DEF ChannelInputs
  <1>5. CASE Requests
    <2>1. UNCHANGED <<setup, notifier>>
      BY <1>5 DEF Requests
    <2>2. CASE \E d \in Devices : RelayIn(d)
      <3>1. PICK d \in Devices : RelayIn(d)
        BY <2>2
      <3>2. Stamp(d, "message") /\ "message" \in Kinds /\ outbound' = outbound /\ UNCHANGED <<crashes, rewritten>>
        BY <3>1 DEF RelayIn, Kinds
      <3>3. QED
        BY <1>1, <1>2, <2>1, <3>2, GrowPush
    <2>3. CASE \E f \in Fetchers : FetchWrite(f) /\ UNCHANGED stamps
      BY <1>1, <2>3 DEF FetchWrite, stamps, PushInv
    <2>4. CASE \E f \in Fetchers, d \in Devices : FetchRead(f, d) /\ UNCHANGED stamps
      BY <1>1, <2>1, <2>4, SamePush DEF FetchRead, files, notifier, stamps
    <2>5. QED
      BY <1>5, <2>2, <2>3, <2>4 DEF Requests
  <1>6. CASE Notify
    <2>1. UNCHANGED <<items, outbound, crashes, rewritten>>
      BY <1>6 DEF Notify, files, admin, stamps
    <2>2. QED
      BY <1>1, <1>2, <1>6, <2>1, NotifierPush DEF Notify
  <1>7. CASE AdminCrash
    BY <1>1, <1>2, <1>7, CrashPush
  <1>8. CASE \E i \in posting : FinishPost(i)
    BY <1>1, <1>8, SamePush DEF FinishPost, RelayLog, notifier, stamps
  <1>9. CASE \E d \in Devices : Follow(d)
    BY <1>1, <1>9, SamePush DEF Follow, HistoryRead, HistoryShow, files, admin, notifier, stamps
  <1>10. CASE UNCHANGED vars
    BY <1>1, <1>10, SamePush DEF vars, files, admin, notifier, stamps
  <1>11. CASE Listing
    BY <1>1, <1>11, SamePush DEF Listing, files, notifier, stamps
  <1>12. QED
    BY <1>1, <1>3, <1>4, <1>5, <1>6, <1>7, <1>8, <1>9, <1>10, <1>11 DEF Next

\* While no fetch has rewritten the relay file, the push notifier loses no answer and repeats one
\* only after a crash (_scan_mobile_push_events, _save_mobile_push_offsets).
THEOREM NotifierLosesNothing == Spec => []PushFollowsFile
  <1>1. ASSUME Shape, PushInv PROVE PushFollowsFile
    <2>1. SUFFICES ASSUME ~rewritten, NEW n \in DOMAIN outbound, Wanted(outbound[n])
                   PROVE  /\ Bytes(SubSeq(outbound, 1, n)) <= saved => pushed[outbound[n]] > 0
                          /\ Bytes(SubSeq(outbound, 1, n)) > offset /\ crashes = 0 => pushed[outbound[n]] = 0
                          /\ pushed[outbound[n]] <= 1 + crashes
      BY DEF PushFollowsFile, Wanted
    <2>2. RelayFile
      BY <1>1, <2>1 DEF PushInv
    <2>3. PICK c \in 0..Len(outbound), a \in 0..Len(outbound), b \in 0..Len(outbound) : Reached(c, a, b)
      BY <1>1, <2>1 DEF PushInv
    <2>4. outbound \in Seq(Nat) /\ DOMAIN outbound = 1..Len(outbound) /\ Len(outbound) \in Nat
      BY <2>2, RangeOf DEF RelayFile, Stamped
    <2>5. /\ c <= a /\ a <= b /\ saved = EndOf(outbound, c) /\ offset = EndOf(outbound, b)
          /\ IF n <= a THEN pushed[outbound[n]] \in 1..(crashes + 1) ELSE pushed[outbound[n]] <= crashes
      BY <2>1, <2>3 DEF Reached
    <2>6. outbound[n] \in Ids
      BY <1>1, <2>1, <2>2, LinesAreIds
    <2>7. pushed[outbound[n]] \in Nat /\ crashes \in Nat
      BY <2>2, <2>6 DEF RelayFile
    <2>8. Bytes(SubSeq(outbound, 1, n)) = EndOf(outbound, n)
      BY <2>4, PrefixBytes
    <2>9. c < n => saved < EndOf(outbound, n)
      <3>1. n \in Nat /\ c \in Nat
        BY <2>4
      <3>2. QED
        BY <2>5, <3>1, EndsGrow
    <2>10. n <= b => EndOf(outbound, n) <= offset
      <3>1. n \in Nat /\ b \in Nat
        BY <2>4
      <3>2. QED
        BY <2>5, <3>1, EndsGrow
    <2>11. EndOf(outbound, n) \in Nat /\ saved \in Nat /\ offset \in Nat
      BY <2>4, <2>5, EndsGrow
    <2>12. QED
      BY <2>4, <2>5, <2>7, <2>8, <2>9, <2>10, <2>11
  <1>2. IInv => Shape
    BY DEF IInv
  <1>3. QED
    BY <1>1, <1>2, InitPush, NextPush, InitInv, NextInv, PTL DEF Spec

----------------------------------------------------------------------------
\* The types, and the order of the relay file.

Lines == Seq(DOMAIN items)

StampTypes == setup \in Setups /\ items \in Seq(Item) /\ Len(items) <= MaxItems /\ late \subseteq DOMAIN items

FileTypes ==
    /\ inbound \in Lines /\ outbound \in Lines /\ log \in [Devices -> Lines]
    /\ Ordered(outbound)

ChannelTypes ==
    /\ gate \in {"down", "idle", "listed", "read", "sent"} /\ halts \in Nat /\ accepts \in SUBSET Devices
    /\ polled \in Lines /\ (gate # "read" => polled = <<>>) /\ published \in Lines
    /\ replying \in DOMAIN items \cup {None} /\ (replying # None) = (gate = "sent")

\* What a fetch will leave is in order.
AdminTypes ==
    /\ posting \subseteq DOMAIN items /\ unheard \subseteq DOMAIN items /\ rewritten \in BOOLEAN /\ crashes \in Nat
    /\ listed \in (SUBSET Devices) \cup {None} /\ relists \in Nat
    /\ fetch \in [Fetchers -> Lines \cup {None}]
    /\ \A f \in Fetchers : fetch[f] # None => Ordered(fetch[f])

NotifierTypes ==
    /\ offset \in Nat /\ saved \in Nat /\ push \in {"idle", "opened", "lines"}
    /\ batch \in Lines /\ pushed \in [Ids -> Nat]

ClientTypes ==
    /\ view \in [Devices -> Lines \cup {None}] /\ seen \in [Devices -> SUBSET DOMAIN items]
    /\ marker \in [Devices -> [id : Nat, form : {"none", "log", "out"}]]

Typed == StampTypes /\ FileTypes /\ ChannelTypes /\ AdminTypes /\ NotifierTypes /\ ClientTypes

\* The lines of a file are ids.
LEMMA LineFacts ==
    ASSUME StampTypes
    PROVE  /\ Len(items) \in Nat /\ DOMAIN items = 1..Len(items) /\ DOMAIN items \subseteq Ids /\ None \notin Nat
           /\ <<>> \in Lines /\ None \notin Lines
           /\ \A s \in Lines : s \in Seq(Nat) /\ Range(s) \subseteq DOMAIN items /\ \A n \in 1..Len(s) : s[n] \in DOMAIN items
           /\ \A i \in DOMAIN items : DeviceOf(i) \in Devices
  <1>1. Len(items) \in Nat /\ DOMAIN items = 1..Len(items) /\ MaxItems \in Nat
    BY LenProperties, RelayAssumption DEF StampTypes
  <1>2. DOMAIN items \subseteq Nat /\ DOMAIN items \subseteq Ids
    BY <1>1 DEF Ids, StampTypes
  <1>3. \A s \in Lines : s \in Seq(Nat)
    BY <1>2, SeqMonotonic DEF Lines
  <1>4. \A s \in Lines : Range(s) \subseteq DOMAIN items /\ \A n \in 1..Len(s) : s[n] \in DOMAIN items
    <2>1. SUFFICES ASSUME NEW s \in Lines
                   PROVE  Range(s) \subseteq DOMAIN items /\ \A n \in 1..Len(s) : s[n] \in DOMAIN items
      OBVIOUS
    <2>2. DOMAIN s = 1..Len(s) /\ \A n \in 1..Len(s) : s[n] \in DOMAIN items
      BY LenProperties, ElementOfSeq DEF Lines
    <2> QED
      BY <2>2 DEF Range
  <1>5. \A i \in DOMAIN items : DeviceOf(i) \in Devices
    <2>1. \A i \in DOMAIN items : items[i] \in Item
      BY <1>1, ElementOfSeq DEF StampTypes
    <2> QED
      BY <2>1 DEF DeviceOf, Item
  <1>6. <<>> \in Lines
    BY DEF Lines
  <1>7. None \notin Nat /\ None \notin Seq(Nat)
    BY RelayAssumption
  <1> QED
    BY <1>1, <1>2, <1>3, <1>4, <1>5, <1>6, <1>7

\* A sequence of ids that have been given out.
LEMMA LinesOf ==
    ASSUME NEW r \in Seq(Nat), Range(r) \subseteq DOMAIN items
    PROVE  r \in Lines
  <1>1. \A n \in 1..Len(r) : r[n] \in DOMAIN items
    BY RangeOf
  <1>2. SubSeq(r, 1, Len(r)) = r
    BY SubSeqFull
  <1>3. 1 \in Int /\ Len(r) \in Int
    BY RangeOf
  <1>4. SubSeq(r, 1, Len(r)) \in Seq(DOMAIN items)
    BY <1>1, <1>3, SubSeqProperties
  <1> QED
    BY <1>2, <1>4 DEF Lines

\* What is not touched keeps its type when an item is stamped.
LEMMA KeptTypes ==
    ASSUME Typed, DOMAIN items \subseteq DOMAIN items'
    PROVE  /\ Lines \subseteq Lines'
           /\ UNCHANGED files => FileTypes'
           /\ UNCHANGED gateway => ChannelTypes'
           /\ UNCHANGED admin => AdminTypes'
           /\ UNCHANGED notifier => NotifierTypes'
           /\ UNCHANGED clients => ClientTypes'
           /\ UNCHANGED <<setup, stamps>> => StampTypes'
  <1>1. Lines \subseteq Lines'
    BY SeqMonotonic DEF Lines
  <1> DEFINE L == Lines
             M == Lines'
  <1>2. L \subseteq M
    BY <1>1
  <1>3. UNCHANGED files => FileTypes'
    <2>1. inbound \in L /\ outbound \in L /\ log \in [Devices -> L] /\ Ordered(outbound)
      BY DEF Typed, FileTypes
    <2> HIDE DEF L, M
    <2>2. inbound \in M /\ outbound \in M /\ log \in [Devices -> M]
      BY <1>2, <2>1
    <2> USE DEF M
    <2> QED
      BY <2>1, <2>2 DEF FileTypes, files
  <1>4. UNCHANGED gateway => ChannelTypes'
    <2>1. polled \in L /\ published \in L
      BY DEF Typed, ChannelTypes
    <2>2. polled \in M /\ published \in M
      BY <1>2, <2>1
    <2> QED
      BY <2>2 DEF Typed, ChannelTypes, gateway
  <1>5. UNCHANGED admin => AdminTypes'
    <2>1. fetch \in [Fetchers -> L \cup {None}]
      BY DEF Typed, AdminTypes
    <2> HIDE DEF L, M
    <2>2. fetch \in [Fetchers -> M \cup {None}]
      BY <1>2, <2>1
    <2> USE DEF M
    <2> QED
      BY <2>2 DEF Typed, AdminTypes, admin
  <1>6. UNCHANGED notifier => NotifierTypes'
    <2>1. batch \in L
      BY DEF Typed, NotifierTypes
    <2>2. batch \in M
      BY <1>2, <2>1
    <2> QED
      BY <2>2 DEF Typed, NotifierTypes, notifier
  <1>7. UNCHANGED clients => ClientTypes'
    <2>1. view \in [Devices -> L \cup {None}] /\ seen \in [Devices -> SUBSET DOMAIN items]
      BY DEF Typed, ClientTypes
    <2> HIDE DEF L, M
    <2>2. view \in [Devices -> M \cup {None}] /\ seen \in [Devices -> SUBSET DOMAIN items']
      BY <1>2, <2>1
    <2> USE DEF M
    <2> QED
      BY <2>2 DEF Typed, ClientTypes, clients
  <1>8. UNCHANGED <<setup, stamps>> => StampTypes'
    BY DEF Typed, StampTypes, stamps
  <1> QED
    BY <1>1, <1>3, <1>4, <1>5, <1>6, <1>7, <1>8

\* An item that is stamped, and a line with its id.
LEMMA StampTyped ==
    ASSUME StampTypes, NEW d \in Devices, NEW k \in Kinds, Stamp(d, k), setup' = setup
    PROVE  /\ StampTypes' /\ DOMAIN items \subseteq DOMAIN items' /\ NewId \in DOMAIN items' /\ NewId \in Nat /\ NewId # None
           /\ \A s \in Lines : Append(s, NewId) \in Lines' /\ (Ordered(s) => Ordered(Append(s, NewId)))
  <1> DEFINE x == [device |-> d, kind |-> k]
  <1>0. /\ Len(items) \in Nat /\ DOMAIN items = 1..Len(items) /\ DOMAIN items \subseteq Ids /\ None \notin Nat
        /\ \A s \in Lines : s \in Seq(Nat) /\ \A n \in 1..Len(s) : s[n] \in DOMAIN items
    BY LineFacts
  <1>1. x \in Item
    BY DEF Item
  <1> HIDE DEF x
  <1>2. items' = Append(items, x) /\ Len(items) < setup.items /\ late' = late \cup Unlogged(d)
    BY DEF Stamp, x
  <1>3. items' \in Seq(Item) /\ Len(items') = Len(items) + 1
    BY <1>1, <1>2, AppendProperties DEF StampTypes
  <1>4. DOMAIN items' = 1..(Len(items) + 1)
    BY <1>0, <1>3, LenProperties
  <1>5. DOMAIN items \subseteq DOMAIN items' /\ NewId \in DOMAIN items' /\ NewId \in Nat /\ NewId # None
    BY <1>0, <1>4 DEF NewId
  <1>6. Len(items') <= MaxItems
    <2>1. setup.items \in Ids /\ MaxItems \in Nat
      BY RelayAssumption DEF StampTypes
    <2> QED
      BY <1>0, <1>2, <1>3, <2>1 DEF Ids
  <1>7. late' \subseteq DOMAIN items'
    BY <1>2, <1>5 DEF StampTypes, Unlogged
  <1>8. StampTypes'
    BY <1>3, <1>6, <1>7 DEF StampTypes
  <1>9. ASSUME NEW s \in Lines PROVE Append(s, NewId) \in Lines' /\ (Ordered(s) => Ordered(Append(s, NewId)))
    <2>1. s \in Lines'
      BY <1>5, SeqMonotonic DEF Lines
    <2>2. Append(s, NewId) \in Lines'
      BY <1>5, <2>1, AppendProperties DEF Lines
    <2>3. Stamped(s)
      BY <1>0, RangeOf DEF Stamped
    <2>4. Len(items) < NewId
      BY <1>0 DEF NewId
    <2> QED
      BY <1>0, <1>5, <2>2, <2>3, <2>4, AppendLine
  <1> QED
    BY <1>5, <1>8, <1>9

\* The steps of the channel.
LEMMA ChannelTyped ==
    ASSUME Typed, ChannelSteps \/ ChannelInputs
    PROVE  Typed'
  <1> USE DEF Typed
  <1>0. /\ None \notin Nat /\ <<>> \in Lines
        /\ \A i \in DOMAIN items : DeviceOf(i) \in Devices
        /\ inbound \in Lines /\ polled \in Lines /\ published \in Lines /\ log \in [Devices -> Lines]
        /\ polled \in Seq(Nat) /\ Range(polled) \subseteq DOMAIN items
    BY LineFacts DEF ChannelTypes, FileTypes
  <1>1. CASE \E d \in Devices, k \in {"progress", "answer"} : SendOut(d, k) /\ UNCHANGED <<setup, admin, notifier, clients>>
    <2>1. PICK d, k : d \in Devices /\ k \in {"progress", "answer"} /\ SendOut(d, k)
      BY <1>1
    <2>2. Stamp(d, k) /\ k \in Kinds /\ UNCHANGED <<setup, admin, notifier, clients>>
      BY <1>1, <2>1 DEF SendOut, Kinds
    <2>3. /\ StampTypes' /\ DOMAIN items \subseteq DOMAIN items' /\ NewId \in DOMAIN items' /\ NewId \in Nat /\ NewId # None
          /\ \A s \in Lines : Append(s, NewId) \in Lines' /\ (Ordered(s) => Ordered(Append(s, NewId)))
      BY <2>1, <2>2, StampTyped
    <2>4. Lines \subseteq Lines' /\ AdminTypes' /\ NotifierTypes' /\ ClientTypes'
      BY <2>2, <2>3, KeptTypes
    <2>5. FileTypes'
      <3>1. outbound' = Append(outbound, NewId) /\ inbound' = inbound /\ log' = log
        BY <2>1 DEF SendOut
      <3>2. outbound' \in Lines' /\ Ordered(outbound') /\ inbound' \in Lines'
        BY <2>3, <2>4, <3>1 DEF FileTypes
      <3>3. log' \in [Devices -> Lines']
        <4> DEFINE M == Lines'
        <4>1. Lines \subseteq M
          BY <2>4
        <4> HIDE DEF M
        <4>2. log' \in [Devices -> M]
          BY <1>0, <3>1, <4>1
        <4> QED
          BY <4>2 DEF M
      <3> QED
        BY <3>2, <3>3 DEF FileTypes
    <2>6. ChannelTypes'
      <3>1. gate = "idle" /\ gate' = "sent" /\ replying' = NewId /\ UNCHANGED <<accepts, polled, halts, published>>
        BY <2>1 DEF SendOut
      <3>2. polled' \in Lines' /\ published' \in Lines'
        BY <1>0, <2>4, <3>1
      <3> QED
        BY <2>3, <3>1, <3>2 DEF ChannelTypes
    <2> QED
      BY <2>3, <2>4, <2>5, <2>6
  <1>2. CASE (PollList \/ PollRead \/ PollClear \/ SendLog \/ Start \/ Halt) /\ UNCHANGED <<setup, admin, notifier, clients, stamps>>
    <2>1. /\ UNCHANGED <<setup, stamps>> /\ DOMAIN items \subseteq DOMAIN items' /\ Lines' = Lines
          /\ UNCHANGED admin /\ UNCHANGED notifier /\ UNCHANGED clients
      BY <1>2 DEF stamps, Lines
    <2>2. StampTypes' /\ AdminTypes' /\ NotifierTypes' /\ ClientTypes'
      BY <2>1, KeptTypes
    <2>3. FileTypes' /\ ChannelTypes'
      <3>1. CASE PollRead
        <4>1. FileTypes'
          BY <2>1, <3>1 DEF PollRead, FileTypes, files
        <4>2. ChannelTypes'
          BY <1>0, <2>1, <3>1 DEF PollRead, ChannelTypes, stamps
        <4> QED
          BY <4>1, <4>2
      <3>2. CASE PollClear
        <4> DEFINE q == From(accepts, polled)
        <4>a. q \in Seq(Nat) /\ Range(q) \subseteq Range(polled)
          BY <1>0, FromFacts
        <4> HIDE DEF q
        <4>b. q \in Lines
          BY <1>0, <4>a, LinesOf
        <4>1. published \o q \in Lines
          BY <1>0, <4>b, ConcatProperties DEF Lines
        <4>2. FileTypes'
          BY <1>0, <2>1, <3>2 DEF PollClear, FileTypes
        <4>3. ChannelTypes'
          BY <1>0, <2>1, <3>2, <4>1 DEF PollClear, ChannelTypes, stamps, q
        <4> QED
          BY <4>2, <4>3
      <3>3. CASE SendLog
        <4>1. replying \in DOMAIN items /\ DeviceOf(replying) \in Devices
          BY <1>0, <3>3 DEF SendLog, ChannelTypes
        <4>2. Append(log[DeviceOf(replying)], replying) \in Lines
          BY <1>0, <4>1, AppendProperties DEF Lines
        <4>3. log' \in [Devices -> Lines]
          BY <1>0, <3>3, <4>1, <4>2 DEF SendLog
        <4>4. FileTypes'
          BY <2>1, <3>3, <4>3 DEF SendLog, FileTypes
        <4>5. ChannelTypes'
          BY <2>1, <3>3 DEF SendLog, ChannelTypes, stamps
        <4> QED
          BY <4>4, <4>5
      <3>4. CASE Start
        <4>1. FileTypes'
          BY <1>0, <2>1, <3>4 DEF Start, FileTypes
        <4>2. accepts' \in SUBSET Devices
          BY <3>4, RelayAssumption DEF Start, StampTypes
        <4>3. ChannelTypes'
          BY <2>1, <3>4, <4>2 DEF Start, ChannelTypes, stamps
        <4> QED
          BY <4>1, <4>3
      <3>5. CASE Halt
        <4>1. FileTypes'
          BY <2>1, <3>5 DEF Halt, FileTypes, files
        <4>2. ChannelTypes'
          BY <1>0, <2>1, <3>5 DEF Halt, ChannelTypes, stamps
        <4> QED
          BY <4>1, <4>2
      <3>6. CASE PollList
        <4>1. FileTypes'
          BY <2>1, <3>6 DEF PollList, FileTypes, files
        <4>a. accepts \in SUBSET Devices /\ (listed # None => listed \in SUBSET Devices)
          BY DEF ChannelTypes, AdminTypes
        <4>2. Welcome \in SUBSET Devices
          BY <4>a DEF Welcome
        <4>3. ChannelTypes'
          BY <2>1, <3>6, <4>2 DEF PollList, ChannelTypes, stamps
        <4> QED
          BY <4>1, <4>3
      <3> QED
        BY <1>2, <3>1, <3>2, <3>3, <3>4, <3>5, <3>6
    <2> QED
      BY <2>2, <2>3
  <1> QED
    BY <1>1, <1>2 DEF ChannelSteps, ChannelInputs

\* The steps of the threads that serve devices.
LEMMA RequestTyped ==
    ASSUME Typed, Requests \/ \E i \in posting : FinishPost(i)
    PROVE  Typed'
  <1> USE DEF Typed
  <1>0. /\ <<>> \in Lines /\ None \notin Lines
        /\ \A s \in Lines : s \in Seq(Nat) /\ Range(s) \subseteq DOMAIN items
        /\ \A i \in DOMAIN items : DeviceOf(i) \in Devices
        /\ inbound \in Lines /\ outbound \in Lines /\ Ordered(outbound) /\ log \in [Devices -> Lines]
        /\ fetch \in [Fetchers -> Lines \cup {None}] /\ \A f \in Fetchers : fetch[f] # None => Ordered(fetch[f])
    BY LineFacts DEF FileTypes, AdminTypes
  <1>1. ASSUME NEW d \in Devices, RelayIn(d), UNCHANGED <<setup, gateway, notifier, clients>> PROVE Typed'
    <2>1. Stamp(d, "message") /\ "message" \in Kinds
      BY <1>1 DEF RelayIn, Kinds
    <2>2. /\ StampTypes' /\ DOMAIN items \subseteq DOMAIN items' /\ NewId \in DOMAIN items'
          /\ \A s \in Lines : Append(s, NewId) \in Lines'
      BY <1>1, <2>1, StampTyped
    <2>3. Lines \subseteq Lines' /\ ChannelTypes' /\ NotifierTypes' /\ ClientTypes'
      BY <1>1, <2>2, KeptTypes
    <2> DEFINE M == Lines'
    <2>4. Lines \subseteq M /\ Append(inbound, NewId) \in M
      BY <1>0, <2>2, <2>3
    <2> HIDE DEF M
    <2>5. FileTypes'
      <3>1. inbound' \in M /\ outbound' \in M /\ log' \in [Devices -> M] /\ Ordered(outbound')
        BY <1>0, <1>1, <2>4 DEF RelayIn
      <3> QED
        BY <3>1 DEF FileTypes, M
    <2>6. AdminTypes'
      <3>1. posting' \subseteq DOMAIN items' /\ unheard' \subseteq DOMAIN items'
        BY <1>1, <2>2 DEF RelayIn, AdminTypes
      <3>2. fetch' \in [Fetchers -> M \cup {None}] /\ \A f \in Fetchers : fetch'[f] # None => Ordered(fetch'[f])
        BY <1>0, <1>1, <2>4 DEF RelayIn
      <3> QED
        BY <1>1, <3>1, <3>2 DEF RelayIn, AdminTypes, M
    <2> QED
      BY <2>2, <2>3, <2>5, <2>6
  <1>2. ASSUME UNCHANGED <<setup, gateway, notifier, clients, stamps>>, FileTypes', AdminTypes' PROVE Typed'
    <2>1. /\ UNCHANGED <<setup, stamps>> /\ DOMAIN items \subseteq DOMAIN items'
          /\ UNCHANGED gateway /\ UNCHANGED notifier /\ UNCHANGED clients
      BY <1>2 DEF stamps
    <2>2. StampTypes' /\ ChannelTypes' /\ NotifierTypes' /\ ClientTypes'
      BY <2>1, KeptTypes
    <2> QED
      BY <1>2, <2>2
  <1>3. ASSUME NEW i \in posting, RelayLog(i), UNCHANGED <<setup, gateway, notifier, clients, stamps>> PROVE Typed'
    <2>1. i \in DOMAIN items /\ DeviceOf(i) \in Devices /\ Lines' = Lines
      BY <1>0, <1>3 DEF AdminTypes, stamps, Lines
    <2>2. Append(log[DeviceOf(i)], i) \in Lines
      BY <1>0, <2>1, AppendProperties DEF Lines
    <2>3. log' \in [Devices -> Lines]
      BY <1>0, <1>3, <2>1, <2>2 DEF RelayLog
    <2>4. FileTypes'
      BY <1>0, <1>3, <2>1, <2>3 DEF RelayLog, FileTypes
    <2>5. AdminTypes'
      BY <1>3, <2>1 DEF RelayLog, AdminTypes, stamps
    <2> QED
      BY <1>2, <1>3, <2>4, <2>5
  <1>4. ASSUME NEW f \in Fetchers, FetchWrite(f), UNCHANGED <<setup, gateway, notifier, clients, stamps>> PROVE Typed'
    <2>1. Lines' = Lines /\ DOMAIN items' = DOMAIN items
      BY <1>4 DEF stamps, Lines
    <2>2. fetch[f] \in Lines /\ Ordered(fetch[f])
      BY <1>0, <1>4 DEF FetchWrite
    <2>3. FileTypes'
      BY <1>0, <1>4, <2>1, <2>2 DEF FetchWrite, FileTypes
    <2>4. fetch' \in [Fetchers -> Lines \cup {None}] /\ \A e \in Fetchers : fetch'[e] # None => Ordered(fetch'[e])
      BY <1>0, <1>4 DEF FetchWrite
    <2>5. AdminTypes'
      BY <1>4, <2>1, <2>4 DEF FetchWrite, AdminTypes
    <2> QED
      BY <1>2, <1>4, <2>3, <2>5
  <1>5. ASSUME NEW f \in Fetchers, NEW d \in Devices, FetchRead(f, d), UNCHANGED <<setup, gateway, notifier, clients, stamps>>
        PROVE  Typed'
    <2>1. Lines' = Lines /\ DOMAIN items' = DOMAIN items
      BY <1>5 DEF stamps, Lines
    <2> DEFINE r == From(Devices \ {d}, outbound)
    <2>2. r \in Seq(Nat) /\ Ordered(r) /\ Range(r) = {i \in Range(outbound) : DeviceOf(i) \in Devices \ {d}}
      BY <1>0, FromFacts
    <2> HIDE DEF r
    <2>3. r \in Lines
      BY <1>0, <2>2, LinesOf
    <2>4. fetch' = [fetch EXCEPT ![f] = r] /\ UNCHANGED <<files, listed, posting, crashes, relists, rewritten, unheard>>
      BY <1>5 DEF FetchRead, r
    <2>5. FileTypes'
      BY <1>0, <2>1, <2>4 DEF files, FileTypes
    <2>6. fetch' \in [Fetchers -> Lines \cup {None}] /\ \A e \in Fetchers : fetch'[e] # None => Ordered(fetch'[e])
      BY <1>0, <2>2, <2>3, <2>4
    <2>7. AdminTypes'
      BY <2>1, <2>4, <2>6 DEF AdminTypes
    <2> QED
      BY <1>2, <1>5, <2>5, <2>7
  <1> QED
    BY <1>1, <1>3, <1>4, <1>5 DEF Requests, FinishPost

\* The steps of the notifier, of clients, and a crash of the admin server.
LEMMA NotifyTyped ==
    ASSUME Typed, Notify
    PROVE  Typed'
  <1> USE DEF Typed
  <1>1. /\ UNCHANGED <<setup, stamps>> /\ DOMAIN items' = DOMAIN items /\ Lines' = Lines
        /\ UNCHANGED files /\ UNCHANGED gateway /\ UNCHANGED admin /\ UNCHANGED clients
    BY DEF Notify, stamps, Lines
  <1>2. StampTypes' /\ FileTypes' /\ ChannelTypes' /\ AdminTypes' /\ ClientTypes'
    BY <1>1, KeptTypes
  <1>3. /\ outbound \in Seq(Nat) /\ outbound \in Lines /\ Len(outbound) \in Nat /\ DOMAIN outbound = 1..Len(outbound)
        /\ \A n \in 1..Len(outbound) : outbound[n] \in DOMAIN items
    BY LineFacts, RangeOf DEF FileTypes
  <1>4. Bytes(outbound) \in Nat
    <2>1. Len(outbound) \in 0..Len(outbound)
      BY <1>3
    <2>2. EndOf(outbound, Len(outbound)) \in Nat
      BY <1>3, <2>1, EndsGrow
    <2> QED
      BY <1>3, <2>2, FileBytes
  <1>5. offset \in Nat /\ saved \in Nat /\ batch \in Lines /\ pushed \in [Ids -> Nat]
    BY DEF NotifierTypes
  <1>6. NotifierTypes'
    <2>1. CASE PushStat
      <3>1. offset' \in Nat /\ saved' \in Nat /\ push' \in {"idle", "opened"} /\ UNCHANGED <<batch, pushed>>
        BY <1>4, <1>5, <2>1 DEF PushStat, SeekTo
      <3> QED
        BY <1>1, <1>5, <3>1 DEF NotifierTypes
    <2>2. CASE PushRead
      <3> DEFINE before == {n \in DOMAIN outbound : Bytes(SubSeq(outbound, 1, n - 1)) < offset}
                 c == Cardinality(before)
      <3>1. c \in Nat
        <4>1. IsFiniteSet(1..Len(outbound))
          BY <1>3, FS_Interval
        <4>2. before \in SUBSET (1..Len(outbound))
          BY <1>3
        <4> HIDE DEF before
        <4> QED
          BY <4>1, <4>2, FS_Subset, FS_CardinalityType
      <3>2. batch' = SubSeq(outbound, c + 1, Len(outbound))
        BY <2>2 DEF PushRead, LinesFrom
      <3> HIDE DEF c
      <3>3. \A n \in c + 1..Len(outbound) : outbound[n] \in DOMAIN items
        BY <1>3, <3>1
      <3>4. c + 1 \in Int /\ Len(outbound) \in Int
        BY <1>3, <3>1
      <3>5. batch' \in Lines
        BY <3>2, <3>3, <3>4, SubSeqProperties DEF Lines
      <3> QED
        BY <1>1, <1>4, <1>5, <2>2, <3>5 DEF PushRead, NotifierTypes
    <2>3. CASE PushNext
      <3>1. Head(batch) \in DOMAIN items /\ Tail(batch) \in Lines
        BY <1>5, <2>3, HeadTailProperties DEF PushNext, Lines
      <3>2. Head(batch) \in Ids
        BY <3>1, LineFacts
      <3>3. pushed' \in [Ids -> Nat]
        BY <1>5, <2>3, <3>2 DEF PushNext
      <3> QED
        BY <1>1, <2>3, <3>1, <3>3 DEF PushNext, NotifierTypes
    <2>4. CASE PushSave
      BY <1>1, <1>5, <2>4 DEF PushSave, NotifierTypes
    <2> QED
      BY <2>1, <2>2, <2>3, <2>4 DEF Notify
  <1> QED
    BY <1>2, <1>6

LEMMA FollowTyped ==
    ASSUME Typed, NEW d \in Devices, Follow(d)
    PROVE  Typed'
  <1> USE DEF Typed
  <1>1. /\ UNCHANGED <<setup, stamps>> /\ DOMAIN items' = DOMAIN items /\ Lines' = Lines
        /\ UNCHANGED files /\ UNCHANGED gateway /\ UNCHANGED admin /\ UNCHANGED notifier
    BY DEF Follow, stamps, Lines
  <1>2. StampTypes' /\ FileTypes' /\ ChannelTypes' /\ AdminTypes' /\ NotifierTypes'
    BY <1>1, KeptTypes
  <1>3. /\ view \in [Devices -> Lines \cup {None}] /\ seen \in [Devices -> SUBSET DOMAIN items]
        /\ marker \in [Devices -> [id : Nat, form : {"none", "log", "out"}]]
        /\ log \in [Devices -> Lines] /\ \A s \in Lines : Range(s) \subseteq DOMAIN items
        /\ DOMAIN items = 1..Len(items) /\ Len(items) \in Nat
    BY LineFacts DEF ClientTypes, FileTypes
  <1>4. CASE HistoryRead(d)
    <2>1. view' \in [Devices -> Lines \cup {None}] /\ UNCHANGED <<seen, marker>>
      BY <1>3, <1>4 DEF HistoryRead
    <2>2. ClientTypes'
      BY <1>1, <1>3, <2>1 DEF ClientTypes
    <2> QED
      BY <1>2, <2>2
  <1>5. CASE HistoryShow(d)
    <2> DEFINE h == History(d, view[d], outbound)
               new == After(h, marker[d])
               last == CHOOSE i \in new : \A j \in new : j <= i
    <2>1. /\ view' = [view EXCEPT ![d] = None]
          /\ seen' = [seen EXCEPT ![d] = @ \cup new]
          /\ marker' = IF new = {} THEN marker ELSE [marker EXCEPT ![d] = [id |-> last, form |-> h[last]]]
      BY <1>5 DEF HistoryShow
    <2>2. /\ DOMAIN h = Range(view[d]) \cup Of(d, outbound)
          /\ \A i \in DOMAIN h : h[i] \in {"log", "out"}
      BY DEF History
    <2>3. view[d] \in Lines
      BY <1>3, <1>5 DEF HistoryShow
    <2>4. DOMAIN h \subseteq DOMAIN items
      BY <1>3, <2>2, <2>3 DEF Of
    <2>5. new \subseteq DOMAIN h
      BY DEF After
    <2> HIDE DEF h, new
    <2>6. view' \in [Devices -> Lines \cup {None}] /\ seen' \in [Devices -> SUBSET DOMAIN items]
      BY <1>3, <2>1, <2>4, <2>5
    <2>7. marker' \in [Devices -> [id : Nat, form : {"none", "log", "out"}]]
      <3>1. CASE new = {}
        BY <1>3, <2>1, <3>1
      <3>2. CASE new # {}
        <4>1. new \in SUBSET (0..Len(items))
          BY <1>3, <2>4, <2>5
        <4>2. \E i \in new : \A j \in new : j <= i
          BY <1>3, <3>2, <4>1, GreatestUpTo
        <4>3. last \in new
          BY <4>2
        <4>4. last \in Nat /\ h[last] \in {"log", "out"}
          BY <2>2, <2>5, <4>1, <4>3
        <4> HIDE DEF last
        <4>5. [id |-> last, form |-> h[last]] \in [id : Nat, form : {"none", "log", "out"}]
          BY <4>4
        <4> QED
          BY <1>3, <2>1, <3>2, <4>5
      <3> QED
        BY <3>1, <3>2
    <2>8. ClientTypes'
      BY <1>1, <2>6, <2>7 DEF ClientTypes
    <2> QED
      BY <1>2, <2>8
  <1> QED
    BY <1>4, <1>5 DEF Follow

\* What is done to the list.
LEMMA ListingTyped ==
    ASSUME Typed, Listing
    PROVE  Typed'
  <1> USE DEF Typed
  <1>1. /\ UNCHANGED <<setup, stamps>> /\ DOMAIN items' = DOMAIN items /\ Lines' = Lines
        /\ UNCHANGED files /\ UNCHANGED notifier /\ UNCHANGED clients
        /\ UNCHANGED <<gate, polled, replying, halts, published, posting, fetch, crashes, rewritten>>
    BY DEF Listing, stamps, Lines
  <1>2. StampTypes' /\ FileTypes' /\ NotifierTypes' /\ ClientTypes'
    BY <1>1, KeptTypes
  <1>3. /\ accepts' \in SUBSET Devices /\ listed' \in (SUBSET Devices) \cup {None} /\ relists' \in Nat
    <2>1. setup.lists \subseteq SUBSET Devices /\ relists + 1 \in Nat
      BY RelayAssumption DEF StampTypes, AdminTypes
    <2>2. accepts \in SUBSET Devices /\ listed \in (SUBSET Devices) \cup {None} /\ relists \in Nat
      BY DEF ChannelTypes, AdminTypes
    <2>3. CASE ListOpen
      BY <2>1, <2>2, <2>3 DEF ListOpen
    <2>4. ASSUME NEW ds \in setup.lists, ListWrite(ds) \/ Reload(ds)
          PROVE  accepts' \in SUBSET Devices /\ listed' \in (SUBSET Devices) \cup {None} /\ relists' \in Nat
      <3>1. ds \in SUBSET Devices
        BY <2>1
      <3> QED
        BY <2>1, <2>2, <2>4, <3>1 DEF ListWrite, Reload
    <2> QED
      BY <2>3, <2>4 DEF Listing
  <1>4. unheard' \subseteq DOMAIN items
    BY LineFacts DEF Listing, AdminTypes, FileTypes
  <1>5. ChannelTypes'
    BY <1>1, <1>3 DEF ChannelTypes
  <1>6. AdminTypes'
    BY <1>1, <1>3, <1>4 DEF AdminTypes
  <1> QED
    BY <1>2, <1>5, <1>6

LEMMA CrashTyped ==
    ASSUME Typed, AdminCrash
    PROVE  Typed'
  <1> USE DEF Typed
  <1>1. /\ UNCHANGED <<setup, stamps>> /\ DOMAIN items' = DOMAIN items /\ Lines' = Lines
        /\ UNCHANGED files /\ UNCHANGED gateway
    BY DEF AdminCrash, stamps, Lines
  <1>2. StampTypes' /\ FileTypes' /\ ChannelTypes'
    BY <1>1, KeptTypes
  <1>3. AdminTypes'
    BY <1>1 DEF AdminCrash, AdminTypes
  <1>4. NotifierTypes'
    BY <1>1, LineFacts DEF AdminCrash, NotifierTypes
  <1>5. ClientTypes'
    BY <1>1 DEF AdminCrash, ClientTypes
  <1> QED
    BY <1>2, <1>3, <1>4, <1>5

LEMMA InitTyped == Init => Typed
  <1>1. SUFFICES ASSUME Init PROVE Typed
    OBVIOUS
  <1>2. items = <<>> /\ <<>> \in Seq(Item) /\ Len(<<>>) = 0 /\ MaxItems \in Nat
    BY <1>1, RelayAssumption DEF Init
  <1>3. StampTypes
    BY <1>1, <1>2 DEF Init, StampTypes
  <1>4. <<>> \in Lines /\ Ordered(<<>>)
    BY <1>3, LineFacts, EmptyLines
  <1>5. FileTypes /\ ChannelTypes
    BY <1>1, <1>4 DEF Init, FileTypes, ChannelTypes
  <1>a. setup.first \in SUBSET Devices
    BY <1>1, RelayAssumption DEF Init
  <1>6. AdminTypes /\ NotifierTypes
    BY <1>1, <1>4, <1>a DEF Init, AdminTypes, NotifierTypes
  <1>7. ClientTypes
    BY <1>1 DEF Init, ClientTypes, NoMarker
  <1> QED
    BY <1>3, <1>5, <1>6, <1>7 DEF Typed

LEMMA NextTyped == Typed /\ [Next]_vars => Typed'
  <1>1. SUFFICES ASSUME Typed, [Next]_vars PROVE Typed'
    OBVIOUS
  <1>2. CASE UNCHANGED vars
    <2>1. /\ UNCHANGED <<setup, stamps>> /\ DOMAIN items \subseteq DOMAIN items'
          /\ UNCHANGED files /\ UNCHANGED gateway /\ UNCHANGED admin /\ UNCHANGED notifier /\ UNCHANGED clients
      BY <1>2 DEF vars, stamps
    <2> QED
      BY <1>1, <2>1, KeptTypes DEF Typed
  <1> QED
    BY <1>1, <1>2, ChannelTyped, RequestTyped, NotifyTyped, FollowTyped, CrashTyped, ListingTyped DEF Next

LEMMA AlwaysTyped == Spec => []Typed
  BY InitTyped, NextTyped, PTL DEF Spec

\* The files hold items that have been stamped, the steps of the channel, of a fetch and of the notifier
\* have in hand what they expect, an answer exactly between its two files (SoftnixAppChannel.send,
\* get_mobile_replies, _scan_mobile_push_events).
THEOREM RelayTypes == Spec => []TypeOK
  <1>1. Typed => TypeOK
    BY DEF Typed, StampTypes, FileTypes, ChannelTypes, AdminTypes, NotifierTypes, ClientTypes, Lines, TypeOK
  <1> QED
    BY <1>1, AlwaysTyped, PTL

\* However many fetches of different devices read the relay file and write back what they read, over
\* each other's results and over new replies, the file holds no reply twice and none before an
\* older one: a fetch that is late brings replies back, or loses some, but repeats and reorders none
\* (get_mobile_replies, SoftnixAppChannel.send).
THEOREM RepliesOrdered == Spec => []RepliesInOrder
  <1>1. Typed => RepliesInOrder
    BY DEF Typed, FileTypes, Ordered, RepliesInOrder
  <1> QED
    BY <1>1, AlwaysTyped, PTL

=============================================================================
