------------------------------ MODULE SeqProofs ------------------------------
(***************************************************************************)
(* What the proofs about several components need of sequences: the rings   *)
(* of bytes of both console drivers are queues, sets of numbers have a     *)
(* least member, which is induction over data without an operator as a     *)
(* parameter, and FlattenSeq() joins its parts one after the other.        *)
(***************************************************************************)
EXTENDS Integers, Sequences, SequencesExt, SequenceTheorems, WellFoundedInduction, TLAPS

-----------------------------------------------------------------------------
(* The rings of bytes (ring_push and ring_pop, kr_push and kr_pop) are     *)
(* queues of K - 1 places, for every K.                                    *)

\* What lies between tail and head, oldest first.
RingQueue(r, K, head, tail) ==
    [i \in 1 .. (head - tail + K) % K |-> r[(tail + i - 1) % K]]

\* The indices wrap at most once.
LEMMA ModOnce ==
    ASSUME NEW K \in Nat \ {0}, NEW n \in 0 .. 2 * K - 1
    PROVE  n % K = IF n < K THEN n ELSE n - K
<1>1. CASE n < K
  BY <1>1, SMT
<1>2. CASE ~(n < K)
  <2>1. PICK m \in 0 .. K - 1 : n = m + K
    BY <1>2
  <2>2. (m + K) % K = m
    BY SMT
  <2> QED
    BY <1>2, <2>1, <2>2
<1> QED
  BY <1>1, <1>2

LEMMA RingLen ==
    ASSUME NEW K \in Nat \ {0}, NEW head \in 0 .. K - 1, NEW tail \in 0 .. K - 1
    PROVE  (head - tail + K) % K = IF head < tail THEN head - tail + K ELSE head - tail
<1> DEFINE n == head - tail + K
<1>1. n \in 0 .. 2 * K - 1
  OBVIOUS
<1>2. n % K = IF n < K THEN n ELSE n - K
  <2> HIDE DEF n
  <2> QED
    BY <1>1, ModOnce
<1> QED
  BY <1>2

LEMMA RingNext ==
    ASSUME NEW K \in Nat \ {0}, NEW i \in 0 .. K - 1
    PROVE  (i + 1) % K = IF i + 1 < K THEN i + 1 ELSE 0
<1> DEFINE n == i + 1
<1>1. n \in 0 .. 2 * K - 1 /\ n <= K
  OBVIOUS
<1>2. n % K = IF n < K THEN n ELSE n - K
  <2> HIDE DEF n
  <2> QED
    BY <1>1, ModOnce
<1> QED
  BY <1>1, <1>2

\* The entries of the queue q in a ring of values of S, without %.
Reads(q, S, r, K, head, tail) ==
    /\ q \in Seq(S)
    /\ Len(q) = IF head < tail THEN head - tail + K ELSE head - tail
    /\ \A i \in 1 .. Len(q) : q[i] = r[IF tail + i - 1 < K THEN tail + i - 1 ELSE tail + i - 1 - K]

LEMMA RingReads ==
    ASSUME NEW K \in Nat \ {0}, NEW S, NEW r \in [0 .. K - 1 -> S],
           NEW head \in 0 .. K - 1, NEW tail \in 0 .. K - 1
    PROVE  Reads(RingQueue(r, K, head, tail), S, r, K, head, tail)
<1> DEFINE n == IF head < tail THEN head - tail + K ELSE head - tail
           q == RingQueue(r, K, head, tail)
<1>1. n \in 0 .. K - 1 /\ (head - tail + K) % K = n
  BY RingLen
<1> HIDE DEF n
<1>2. q = [i \in 1 .. n |-> r[(tail + i - 1) % K]]
  BY <1>1 DEF RingQueue
<1>3. ASSUME NEW i \in 1 .. n
      PROVE  /\ (tail + i - 1) % K = IF tail + i - 1 < K THEN tail + i - 1 ELSE tail + i - 1 - K
             /\ (tail + i - 1) % K \in 0 .. K - 1
  <2> DEFINE m == tail + i - 1
  <2>1. m \in 0 .. 2 * K - 1
    BY <1>1
  <2>2. m % K = IF m < K THEN m ELSE m - K
    <3> HIDE DEF m
    <3> QED
      BY <2>1, ModOnce
  <2> QED
    BY <2>1, <2>2
<1> HIDE DEF q
<1>4. q \in [1 .. n -> S]
  BY <1>2, <1>3
<1>5. q \in Seq(S) /\ Len(q) = n
  BY <1>1, <1>4
<1> QED
  BY <1>2, <1>3, <1>5 DEF n, q, Reads

Empties(r, K, head, tail) == RingQueue(r, K, head, tail) = << >> <=> head = tail

LEMMA RingEmpty ==
    ASSUME NEW K \in Nat \ {0}, NEW S, NEW r \in [0 .. K - 1 -> S],
           NEW head \in 0 .. K - 1, NEW tail \in 0 .. K - 1
    PROVE  Empties(r, K, head, tail)
<1>1. /\ RingQueue(r, K, head, tail) \in Seq(S)
      /\ Len(RingQueue(r, K, head, tail)) = 0 <=> head = tail
  BY RingReads DEF Reads
<1> QED
  BY <1>1, EmptySeq DEF Empties

\* A byte that finds a place goes to the end of the queue.
Pushes(r, K, head, tail, c) ==
    /\ (head + 1) % K \in 0 .. K - 1
    /\ Len(RingQueue(r, K, head, tail)) < K - 1
    /\ RingQueue([r EXCEPT ![head] = c], K, (head + 1) % K, tail)
          = Append(RingQueue(r, K, head, tail), c)

LEMMA RingPush ==
    ASSUME NEW K \in Nat \ {0}, NEW S, NEW r \in [0 .. K - 1 -> S], NEW c \in S,
           NEW head \in 0 .. K - 1, NEW tail \in 0 .. K - 1, (head + 1) % K # tail
    PROVE  Pushes(r, K, head, tail, c)
<1> DEFINE q  == RingQueue(r, K, head, tail)
           s  == [r EXCEPT ![head] = c]
           h  == (head + 1) % K
           p  == RingQueue(s, K, h, tail)
<1>1. h = IF head + 1 < K THEN head + 1 ELSE 0
  BY RingNext
<1>2. h \in 0 .. K - 1 /\ h # tail
  BY <1>1
<1>3. s \in [0 .. K - 1 -> S] /\ s[head] = c /\ \A i \in 0 .. K - 1 : i # head => s[i] = r[i]
  OBVIOUS
<1> HIDE DEF h, s
<1>4. Reads(q, S, r, K, head, tail)
  BY RingReads
<1>5. Reads(p, S, s, K, h, tail)
  BY <1>2, <1>3, RingReads
<1> HIDE DEF p, q
<1> USE DEF Reads
<1>6. Len(p) = Len(q) + 1 /\ Len(q) < K - 1 /\ Len(q) \in Nat
  BY <1>1, <1>2, <1>4, <1>5
<1>7. ASSUME NEW i \in 1 .. Len(q) PROVE p[i] = q[i]
  <2> DEFINE j == IF tail + i - 1 < K THEN tail + i - 1 ELSE tail + i - 1 - K
  <2>1. i \in 1 .. Len(p)
    BY <1>6
  <2>2. q[i] = r[j]
    BY <1>4
  <2>3. p[i] = s[j]
    BY <1>5, <2>1
  <2>4. j \in 0 .. K - 1 /\ j # head
    BY <1>4, <1>6
  <2> QED
    BY <1>3, <2>2, <2>3, <2>4
<1>8. p[Len(q) + 1] = c
  <2>1. (IF tail + (Len(q) + 1) - 1 < K THEN tail + (Len(q) + 1) - 1 ELSE tail + (Len(q) + 1) - 1 - K) = head
    BY <1>4, <1>6
  <2>2. Len(q) + 1 \in 1 .. Len(p)
    BY <1>6
  <2> QED
    BY <1>3, <1>5, <2>1, <2>2
<1>9. p = Append(q, c)
  <2>1. /\ Append(q, c) \in Seq(S) /\ Len(Append(q, c)) = Len(q) + 1
        /\ \A i \in 1 .. Len(q) : Append(q, c)[i] = q[i]
        /\ Append(q, c)[Len(q) + 1] = c
    <3>1. q \in Seq(S) /\ c \in S
      BY <1>4
    <3> QED
      BY ONLY <3>1, AppendProperties
  <2>2. ASSUME NEW i \in 1 .. Len(p) PROVE p[i] = Append(q, c)[i]
    <3>1. i \in 1 .. Len(q) \/ i = Len(q) + 1
      BY <1>6
    <3>2. CASE i \in 1 .. Len(q)
      BY <1>7, <2>1, <3>2
    <3>3. CASE i = Len(q) + 1
      BY <1>8, <2>1, <3>3
    <3> QED
      BY <3>1, <3>2, <3>3
  <2> DEFINE a == Append(q, c)
  <2> HIDE DEF a
  <2>3. p \in Seq(S) /\ a \in Seq(S) /\ Len(p) = Len(a) /\ \A i \in 1 .. Len(p) : p[i] = a[i]
    BY <1>5, <1>6, <2>1, <2>2 DEF a
  <2> QED
    BY <2>3, SeqEqual DEF a
<1> QED
  BY <1>2, <1>6, <1>9 DEF p, q, h, s, Pushes

\* The oldest byte leaves it; what its slot holds then does not matter.
Pulls(r, K, head, tail, c) ==
    /\ (tail + 1) % K \in 0 .. K - 1
    /\ RingQueue(r, K, head, tail) # << >>
    /\ RingQueue([r EXCEPT ![tail] = c], K, head, (tail + 1) % K)
          = Tail(RingQueue(r, K, head, tail))

LEMMA RingPop ==
    ASSUME NEW K \in Nat \ {0}, NEW S, NEW r \in [0 .. K - 1 -> S], NEW c \in S,
           NEW head \in 0 .. K - 1, NEW tail \in 0 .. K - 1, head # tail
    PROVE  Pulls(r, K, head, tail, c)
<1> DEFINE q  == RingQueue(r, K, head, tail)
           s  == [r EXCEPT ![tail] = c]
           t  == (tail + 1) % K
           p  == RingQueue(s, K, head, t)
<1>1. t = IF tail + 1 < K THEN tail + 1 ELSE 0
  BY RingNext
<1>2. t \in 0 .. K - 1
  BY <1>1
<1>3. s \in [0 .. K - 1 -> S] /\ \A i \in 0 .. K - 1 : i # tail => s[i] = r[i]
  OBVIOUS
<1> HIDE DEF t, s
<1>4. Reads(q, S, r, K, head, tail)
  BY RingReads
<1>5. Reads(p, S, s, K, head, t)
  BY <1>2, <1>3, RingReads
<1> HIDE DEF p, q
<1> USE DEF Reads
<1>6. Len(p) = Len(q) - 1 /\ Len(q) \in 1 .. K - 1
  BY <1>1, <1>2, <1>4, <1>5
<1>7. q # << >>
  BY <1>4, <1>6
<1>8. ASSUME NEW i \in 1 .. Len(p) PROVE p[i] = q[i + 1]
  <2> DEFINE j == IF t + i - 1 < K THEN t + i - 1 ELSE t + i - 1 - K
             k == IF tail + (i + 1) - 1 < K THEN tail + (i + 1) - 1 ELSE tail + (i + 1) - 1 - K
  <2>1. p[i] = s[j]
    BY <1>5
  <2>2. i + 1 \in 1 .. Len(q)
    BY <1>6
  <2>3. q[i + 1] = r[k]
    BY <1>4, <2>2
  <2>4. j = k /\ j \in 0 .. K - 1 /\ j # tail
    BY <1>1, <1>6
  <2> QED
    BY <1>3, <2>1, <2>3, <2>4
<1>9. p = Tail(q)
  <2>1. /\ Tail(q) \in Seq(S) /\ Len(Tail(q)) = Len(q) - 1
        /\ \A i \in 1 .. Len(q) - 1 : Tail(q)[i] = q[i + 1]
    BY <1>4, <1>7, HeadTailProperties
  <2>2. \A i \in 1 .. Len(p) : p[i] = Tail(q)[i]
    BY <1>6, <1>8, <2>1
  <2> QED
    BY <1>5, <1>6, <2>1, <2>2, SeqEqual
<1> QED
  BY <1>2, <1>7, <1>9 DEF p, q, t, s, Pulls

-----------------------------------------------------------------------------
LEMMA Cat ==
    ASSUME NEW S, NEW x \in Seq(S), NEW y \in Seq(S)
    PROVE  /\ x \o y \in Seq(S)
           /\ Len(x \o y) = Len(x) + Len(y)
           /\ \A i \in 1 .. Len(x) : (x \o y)[i] = x[i]
           /\ \A i \in Len(x) + 1 .. Len(x) + Len(y) : (x \o y)[i] = y[i - Len(x)]
OBVIOUS

-----------------------------------------------------------------------------
(* Induction.                                                              *)
LEMMA LeastMember ==
    ASSUME NEW S \in SUBSET Nat, S # {}
    PROVE  \E i \in S : \A j \in S : i <= j
<1> DEFINE Less == OpToRel(<, Nat)
<1>1. \A i, j \in Nat : <<j, i>> \in Less <=> j < i
  BY DEF OpToRel
<1>2. IsWellFoundedOn(Less, Nat)
  BY NatLessThanWellFounded
<1> HIDE DEF Less
<1>3. \E i \in S : \A j \in S : ~ (<<j, i>> \in Less)
  BY <1>2, WFMin
<1>4. PICK i \in S : \A j \in S : ~ (<<j, i>> \in Less)
  BY <1>3
<1>5. \A j \in S : j \in Nat /\ i \in Nat /\ ~ (j < i)
  BY <1>1, <1>4
<1>6. \A j \in S : i <= j
  BY <1>5
<1> QED
  BY <1>6

\* A set that has 0 and every number's successor has all numbers.
LEMMA SetInduction ==
    ASSUME NEW S, 0 \in S, \A n \in Nat : n \in S => n + 1 \in S
    PROVE  Nat \subseteq S
<1> SUFFICES ASSUME Nat \ S # {} PROVE FALSE
  OBVIOUS
<1>1. PICK n \in Nat \ S : \A m \in Nat \ S : n <= m
  BY LeastMember
<1>2. n # 0 /\ n - 1 \in Nat /\ n = (n - 1) + 1
  BY <1>1
<1>3. n - 1 \in S
  BY <1>1, <1>2
<1> QED
  BY <1>1, <1>2, <1>3

-----------------------------------------------------------------------------
(* FlattenSeq(s) is the last of its prefixes: nothing, the first part, the *)
(* first two, ...                                                          *)
Accumulates(p, s) ==
    /\ DOMAIN p = 0 .. Len(s)
    /\ p[0] = << >>
    /\ \A i \in 1 .. Len(s) : p[i] = p[i - 1] \o s[i]

Joins(s, n) == \E f : f = [i \in 1 .. n |-> IF i = 1 THEN s[i] ELSE f[i - 1] \o s[i]]

\* The recursion of FlattenSeq() defines a function.
LEMMA JoinsAll == ASSUME NEW s, NEW n \in Nat PROVE Joins(s, n)
<1> DEFINE S == {m \in Nat : Joins(s, m)}
<1>1. 0 \in S
  <2> DEFINE f == [i \in 1 .. 0 |-> s[i]]
  <2>1. f = [i \in 1 .. 0 |-> IF i = 1 THEN s[i] ELSE f[i - 1] \o s[i]]
    OBVIOUS
  <2> QED
    BY <2>1 DEF Joins
<1>2. ASSUME NEW m \in Nat, m \in S PROVE m + 1 \in S
  <2>1. PICK f : f = [i \in 1 .. m |-> IF i = 1 THEN s[i] ELSE f[i - 1] \o s[i]]
    BY <1>2 DEF Joins
  <2> DEFINE g == [i \in 1 .. m + 1 |->
                     IF i <= m THEN f[i] ELSE IF i = 1 THEN s[i] ELSE f[i - 1] \o s[i]]
  <2>2. ASSUME NEW i \in 1 .. m + 1
        PROVE  g[i] = IF i = 1 THEN s[i] ELSE g[i - 1] \o s[i]
    <3>1. CASE i <= m
      <4>1. i \in 1 .. m /\ g[i] = f[i] /\ (i # 1 => g[i - 1] = f[i - 1])
        BY <3>1
      <4>2. f[i] = IF i = 1 THEN s[i] ELSE f[i - 1] \o s[i]
        BY <2>1, <4>1
      <4> QED
        BY <4>1, <4>2
    <3>2. CASE i = m + 1
      <4>1. g[i] = (IF i = 1 THEN s[i] ELSE f[i - 1] \o s[i]) /\ (i # 1 => g[i - 1] = f[i - 1])
        BY <3>2
      <4> QED
        BY <4>1
    <3> QED
      BY <3>1, <3>2
  <2>3. g = [i \in 1 .. m + 1 |-> IF i = 1 THEN s[i] ELSE g[i - 1] \o s[i]]
    <3> HIDE DEF g
    <3>1. g = [i \in 1 .. m + 1 |-> g[i]]
      BY DEF g
    <3> QED
      BY <2>2, <3>1
  <2> HIDE DEF g
  <2>4. Joins(s, m + 1)
    BY <2>3, Zenon DEF Joins
  <2> QED
    BY <2>4
<1> HIDE DEF S
<1>3. Nat \subseteq S
  BY <1>1, <1>2, SetInduction
<1> QED
  BY <1>3 DEF S

LEMMA FlattenPrefixes ==
    ASSUME NEW S, NEW s \in Seq(Seq(S))
    PROVE  \E p \in [0 .. Len(s) -> Seq(S)] : Accumulates(p, s) /\ FlattenSeq(s) = p[Len(s)]
<1>1. CASE Len(s) = 0
  <2>1. s = << >> /\ FlattenSeq(s) = << >>
    BY <1>1, EmptySeq DEF FlattenSeq
  <2> DEFINE p == [i \in 0 .. Len(s) |-> << >>]
  <2>2. p \in [0 .. Len(s) -> Seq(S)] /\ Accumulates(p, s) /\ p[Len(s)] = << >>
    BY <1>1 DEF Accumulates
  <2> QED
    BY <2>1, <2>2
<1>2. CASE Len(s) # 0
  <2> DEFINE n == Len(s)
             F == CHOOSE f : f = [i \in 1 .. Len(s) |-> IF i = 1 THEN s[i] ELSE f[i - 1] \o s[i]]
  <2>1. FlattenSeq(s) = F[n]
    BY <1>2, Zenon DEF FlattenSeq
  <2>2. \E f : f = [i \in 1 .. n |-> IF i = 1 THEN s[i] ELSE f[i - 1] \o s[i]]
    <3>1. Joins(s, n)
      BY JoinsAll, LenProperties
    <3> QED
      BY <3>1 DEF Joins
  <2>3. F = [i \in 1 .. n |-> IF i = 1 THEN s[i] ELSE F[i - 1] \o s[i]]
    BY <2>2, Zenon
  <2> HIDE DEF F
  <2>a. \A i \in 1 .. n : F[i] = IF i = 1 THEN s[i] ELSE F[i - 1] \o s[i]
    BY <2>3, Zenon
  <2>b. n \in Nat
    BY LenProperties
  <2> DEFINE p == [i \in 0 .. n |-> IF i = 0 THEN << >> ELSE F[i]]
             T == {i \in Nat : i <= n => p[i] \in Seq(S)}
  <2>4. ASSUME NEW i \in 1 .. n, p[i - 1] \in Seq(S)
        PROVE  p[i] = p[i - 1] \o s[i] /\ p[i] \in Seq(S)
    <3>1. s[i] \in Seq(S) /\ p[i] = F[i]
      BY ElementOfSeq
    <3>2. CASE i = 1
      <4>1. p[i] = s[i] /\ p[i - 1] = << >>
        BY <2>a, <3>1, <3>2
      <4> QED
        BY <3>1, <4>1, ConcatEmptySeq
    <3>3. CASE i # 1
      <4>1. p[i] = F[i - 1] \o s[i]
        BY <2>a, <3>1, <3>3
      <4>2. p[i - 1] = F[i - 1]
        BY <2>b, <3>3
      <4> HIDE DEF p
      <4> QED
        BY <2>4, <3>1, <4>1, <4>2, ConcatProperties
    <3> QED
      BY <3>2, <3>3
  <2>5. Nat \subseteq T
    <3>1. 0 \in T
      BY DEF p
    <3>2. ASSUME NEW i \in Nat, i \in T PROVE i + 1 \in T
      <4>1. CASE i + 1 <= n
        <5> HIDE DEF p
        <5>1. i + 1 \in 1 .. n /\ (i + 1) - 1 = i /\ p[i] \in Seq(S)
          BY <2>b, <3>2, <4>1
        <5>2. p[i + 1] \in Seq(S)
          BY <2>4, <5>1
        <5> QED
          BY <5>2
      <4>2. CASE ~(i + 1 <= n)
        BY <4>2
      <4> QED
        BY <4>1, <4>2
    <3> HIDE DEF T
    <3> QED
      BY <3>1, <3>2, SetInduction
  <2>6. DOMAIN p = 0 .. n /\ p = [i \in 0 .. n |-> p[i]] /\ p[0] = << >> /\ p[n] = F[n]
    BY <1>2
  <2> HIDE DEF p
  <2>7. \A i \in 0 .. n : p[i] \in Seq(S)
    BY <2>5
  <2>8. p \in [0 .. n -> Seq(S)]
    BY <2>6, <2>7
  <2>9. Accumulates(p, s)
    <3>1. ASSUME NEW i \in 1 .. n PROVE p[i] = p[i - 1] \o s[i]
      <4>1. i - 1 \in 0 .. n
        BY <2>b
      <4> QED
        BY <2>4, <2>7, <4>1
    <3> QED
      BY <2>6, <3>1 DEF Accumulates
  <2> QED
    BY <2>1, <2>6, <2>8, <2>9
<1> QED
  BY <1>1, <1>2

\* An earlier prefix begins a later one.
Continues(x, y) == Len(x) <= Len(y) /\ \A n \in 1 .. Len(x) : y[n] = x[n]

LEMMA PrefixBegins ==
    ASSUME NEW S, NEW s \in Seq(Seq(S)), NEW p \in [0 .. Len(s) -> Seq(S)], Accumulates(p, s),
           NEW i \in 0 .. Len(s), NEW j \in i .. Len(s)
    PROVE  Continues(p[i], p[j])
<1> DEFINE Starts(k) == Continues(p[i], p[k])
           T == {m \in Nat : i + m <= Len(s) => Starts(i + m)}
<1>1. 0 \in T
  BY LenProperties DEF Continues
<1>2. ASSUME NEW m \in Nat, m \in T, i + m + 1 <= Len(s) PROVE Starts(i + m + 1)
  <2> DEFINE k == i + m
  <2>1. k \in 0 .. Len(s) /\ k + 1 \in 1 .. Len(s) /\ Starts(k)
    BY <1>2
  <2> HIDE DEF k
  <2>2. p[k] \in Seq(S) /\ s[k + 1] \in Seq(S) /\ p[i] \in Seq(S)
    BY <2>1, ElementOfSeq
  <2>3. p[k + 1] = p[k] \o s[k + 1]
    <3>1. p[k + 1] = p[(k + 1) - 1] \o s[k + 1]
      BY <2>1 DEF Accumulates
    <3>2. (k + 1) - 1 = k
      BY <2>1
    <3> QED
      BY <3>1, <3>2
  <2>4. /\ Len(p[k + 1]) = Len(p[k]) + Len(s[k + 1])
        /\ \A n \in 1 .. Len(p[k]) : p[k + 1][n] = p[k][n]
    <3> DEFINE x == p[k]
               y == s[k + 1]
               z == p[k + 1]
    <3>1. x \in Seq(S) /\ y \in Seq(S) /\ z = x \o y
      BY <2>2, <2>3
    <3> HIDE DEF x, y, z
    <3>2. Len(z) = Len(x) + Len(y) /\ \A n \in 1 .. Len(x) : z[n] = x[n]
      BY ONLY <3>1, ConcatProperties
    <3> QED
      BY <3>2 DEF x, y, z
  <2>5. Len(p[k]) \in Nat /\ Len(s[k + 1]) \in Nat /\ Len(p[i]) \in Nat
    BY <2>2, LenProperties
  <2>6. Starts(k + 1)
    BY <2>1, <2>4, <2>5 DEF Continues
  <2> QED
    BY <2>6 DEF k
<1>3. \A m \in Nat : m \in T => m + 1 \in T
  BY <1>2
<1> HIDE DEF T
<1>4. Nat \subseteq T
  BY <1>1, <1>3, SetInduction
<1>5. j - i \in T /\ i + (j - i) = j
  BY <1>4
<1> QED
  BY <1>5 DEF T
=============================================================================
