----------------------------- MODULE SharedLemmas -----------------------------
(***************************************************************************)
(* Lemmas that the proofs about several components need: on the number of  *)
(* threads that stand at given locations, from which semaphores, counters  *)
(* and wait sets follow, on the remainders that place the elements of a    *)
(* queue in the slots of a ring, on sequences as queues of distinct        *)
(* elements, and on what a ring contains.                                  *)
(***************************************************************************)
EXTENDS Integers, Sequences, FiniteSetTheorems, SequenceTheorems, TLAPS

-----------------------------------------------------------------------------
(* Counting: f is the program counter, S a finite set of threads, L a set  *)
(* of locations.                                                           *)

Standing(S, f, L) == {t \in S : f[t] \in L}

Count(S, f, L) == Cardinality(Standing(S, f, L))

LEMMA CountIsNat ==
  ASSUME NEW S, IsFiniteSet(S), NEW f, NEW L
  PROVE  Count(S, f, L) \in Nat /\ Count(S, f, L) <= Cardinality(S)
<1>1. IsFiniteSet(Standing(S, f, L)) /\ Standing(S, f, L) \subseteq S
  BY FS_Subset DEF Standing
<1> QED
  BY <1>1, FS_Subset, FS_CardinalityType DEF Count

LEMMA CountPositive ==
  ASSUME NEW S, IsFiniteSet(S), NEW f, NEW L, NEW t \in S, f[t] \in L
  PROVE  Count(S, f, L) >= 1
<1>1. IsFiniteSet(Standing(S, f, L)) /\ t \in Standing(S, f, L)
  BY FS_Subset DEF Standing
<1> QED
  BY <1>1, FS_EmptySet, FS_CardinalityType DEF Count

LEMMA CountZero ==
  ASSUME NEW S, IsFiniteSet(S), NEW f, NEW L
  PROVE  Count(S, f, L) = 0 <=> \A t \in S : f[t] \notin L
<1>1. IsFiniteSet(Standing(S, f, L))
  BY FS_Subset DEF Standing
<1> QED
  BY <1>1, FS_EmptySet DEF Count, Standing

(* Threads outside S do not count in S.                                    *)
LEMMA CountSame ==
  ASSUME NEW S, NEW f, NEW g, NEW L,
         \A t \in S : f[t] \in L <=> g[t] \in L
  PROVE  Count(S, g, L) = Count(S, f, L)
<1>1. Standing(S, g, L) = Standing(S, f, L)
  BY DEF Standing
<1> QED
  BY <1>1 DEF Count

(* One thread goes from one location to another (one slot is written).     *)
Moves(t, to, f, g) == t \in DOMAIN f /\ g = [f EXCEPT ![t] = to]

LEMMA CountAfterMove ==
  ASSUME NEW t, NEW to, NEW f, NEW g, Moves(t, to, f, g),
         NEW S, S \subseteq DOMAIN f, IsFiniteSet(S), NEW L
  PROVE  Count(S, g, L) =
           Count(S, f, L) +
             (IF t \notin S \/ (f[t] \in L <=> to \in L) THEN 0
              ELSE IF to \in L THEN 1 ELSE -1)
<1>1. \A u \in DOMAIN f : g[u] = IF u = t THEN to ELSE f[u]
  BY DEF Moves
<1>n. Count(S, f, L) \in Nat
  BY CountIsNat
<1>2. CASE t \notin S \/ (f[t] \in L <=> to \in L)
  <2>1. \A u \in S : f[u] \in L <=> g[u] \in L
    BY <1>1, <1>2
  <2>2. Count(S, g, L) = Count(S, f, L)
    BY <2>1, CountSame
  <2> QED
    BY <1>2, <1>n, <2>2
<1>f. IsFiniteSet(Standing(S, f, L))
  BY FS_Subset DEF Standing
<1>3. CASE t \in S /\ f[t] \notin L /\ to \in L
  <2>1. /\ t \notin Standing(S, f, L)
        /\ Standing(S, g, L) = Standing(S, f, L) \cup {t}
    BY <1>1, <1>3 DEF Standing
  <2>2. Count(S, g, L) = Count(S, f, L) + 1
    BY <1>f, <2>1, FS_AddElement DEF Count
  <2> QED
    BY <1>3, <2>2
<1>4. CASE t \in S /\ f[t] \in L /\ to \notin L
  <2>1. /\ t \in Standing(S, f, L)
        /\ Standing(S, g, L) = Standing(S, f, L) \ {t}
    BY <1>1, <1>4 DEF Standing
  <2>2. Count(S, g, L) = Count(S, f, L) - 1
    BY <1>f, <2>1, FS_RemoveElement DEF Count
  <2> QED
    BY <1>4, <2>2
<1> QED
  BY <1>2, <1>3, <1>4

-----------------------------------------------------------------------------
(* Remainders: N is the number of slots of a ring, position k is in slot   *)
(* k % N.                                                                  *)

LEMMA RemainderType ==
  ASSUME NEW N \in Nat \ {0}, NEW k \in Int
  PROVE  k % N \in 0..(N - 1) /\ k % N \in Nat
  OBVIOUS

LEMMA RemainderSmall ==
  ASSUME NEW N \in Nat \ {0}, NEW k \in 0..(N - 1)
  PROVE  k % N = k
  OBVIOUS

(* A number has one remainder.                                             *)
LEMMA RemainderUnique ==
  ASSUME NEW N \in Nat \ {0}, NEW q \in Int, NEW p \in Int,
         NEW r \in 0..(N - 1), NEW s \in 0..(N - 1), N * q + r = N * p + s
  PROVE  r = s /\ q = p
<1>1. ASSUME NEW a \in Int, NEW b \in Int, a > b
      PROVE  N * a >= N * b + N
  BY <1>1
<1>2. N * q \in Int /\ N * p \in Int
  OBVIOUS
<1>3. CASE q = p
  BY <1>2, <1>3
<1>4. CASE q > p
  BY <1>1, <1>2, <1>4
<1>5. CASE p > q
  BY <1>1, <1>2, <1>5
<1> QED
  BY <1>3, <1>4, <1>5

LEMMA Division ==
  ASSUME NEW N \in Nat \ {0}, NEW k \in Nat
  PROVE  /\ k = N * (k \div N) + (k % N)
         /\ k \div N \in Nat
         /\ k % N \in 0..(N - 1)
  OBVIOUS

(* Two positions in the same slot are at least N apart.                    *)
LEMMA RemainderClose ==
  ASSUME NEW N \in Nat \ {0}, NEW j \in Nat, NEW k \in Nat,
         j % N = k % N, j <= k, k < j + N
  PROVE  j = k
<1> DEFINE a == j \div N
           b == k \div N
<1>1. /\ j = N * a + (j % N) /\ a \in Nat /\ j % N \in 0..(N - 1)
      /\ k = N * b + (k % N) /\ b \in Nat
  BY Division
<1>2. N * a \in Nat /\ N * b \in Nat
  BY <1>1
<1> HIDE DEF a, b
<1>3. ASSUME NEW c \in Int, NEW d \in Int, c > d
      PROVE  N * c >= N * d + N
  BY <1>3
<1>4. CASE a = b
  BY <1>1, <1>4
<1>5. CASE a > b
  BY <1>1, <1>2, <1>3, <1>5
<1>6. CASE b > a
  BY <1>1, <1>2, <1>3, <1>6
<1> QED
  BY <1>1, <1>4, <1>5, <1>6

LEMMA RemainderShift ==
  ASSUME NEW N \in Nat \ {0}, NEW k \in Nat
  PROVE  (k + N) % N = k % N
<1> DEFINE q == k \div N
           p == (k + N) \div N
           r == k % N
           s == (k + N) % N
<1>1. k + N \in Nat
  OBVIOUS
<1>2. /\ k = N * q + r /\ q \in Nat /\ r \in 0..(N - 1)
      /\ k + N = N * p + s /\ p \in Nat /\ s \in 0..(N - 1)
  BY <1>1, Division
<1> HIDE DEF q, p, r, s
<1>3. N * (q + 1) = N * q + N /\ N * q \in Nat
  BY <1>2
<1>4. N * (q + 1) + r = N * p + s
  BY <1>2, <1>3
<1>5. r = s
  BY <1>2, <1>4, RemainderUnique
<1> QED
  BY <1>5 DEF r, s

(* The slot after the last is the first.                                   *)
LEMMA RemainderNext ==
  ASSUME NEW N \in Nat \ {0}, NEW k \in Nat
  PROVE  (k + 1) % N = IF (k % N) + 1 = N THEN 0 ELSE (k % N) + 1
<1> DEFINE q == k \div N
           p == (k + 1) \div N
           r == k % N
           s == (k + 1) % N
<1>0. k + 1 \in Nat
  OBVIOUS
<1>1. /\ k = N * q + r /\ q \in Nat /\ r \in 0..(N - 1)
      /\ k + 1 = N * p + s /\ p \in Nat /\ s \in 0..(N - 1)
  BY <1>0, Division
<1> HIDE DEF q, p, r, s
<1>2. N * (q + 1) = N * q + N /\ N * q \in Nat /\ N * p \in Nat
  BY <1>1
<1>3. CASE r + 1 = N
  <2>1. N * (q + 1) + 0 = N * p + s /\ 0 \in 0..(N - 1)
    BY <1>1, <1>2, <1>3
  <2>2. s = 0
    BY <1>1, <2>1, RemainderUnique
  <2> QED
    BY <1>3, <2>2 DEF r, s
<1>4. CASE r + 1 # N
  <2>1. N * q + (r + 1) = N * p + s /\ r + 1 \in 0..(N - 1)
    BY <1>1, <1>2, <1>4
  <2>2. s = r + 1
    BY <1>1, <2>1, RemainderUnique
  <2> QED
    BY <1>4, <2>2 DEF r, s
<1> QED
  BY <1>3, <1>4

(* Equal remainders have equal successors.                                 *)
LEMMA RemainderSucc ==
  ASSUME NEW N \in Nat \ {0}, NEW k \in Nat, NEW j \in Nat, k % N = j % N
  PROVE  (k + 1) % N = (j + 1) % N
<1>1. (k + 1) % N = IF (k % N) + 1 = N THEN 0 ELSE (k % N) + 1
  BY RemainderNext
<1>2. (j + 1) % N = IF (j % N) + 1 = N THEN 0 ELSE (j % N) + 1
  BY RemainderNext
<1> QED
  BY <1>1, <1>2

(* Any N positions in a row cover all slots.                               *)
LEMMA RemainderCovers ==
  ASSUME NEW N \in Nat \ {0}, NEW h \in Nat, NEW s \in 0..(N - 1)
  PROVE  \E j \in Nat : h <= j /\ j < h + N /\ j % N = s
<1> DEFINE q == h \div N
           r == h % N
<1>1. h = N * q + r /\ q \in Nat /\ r \in 0..(N - 1)
  BY Division
<1> HIDE DEF q, r
<1>2. N * (q + 1) = N * q + N /\ N * q \in Nat
  BY <1>1
<1>3. ASSUME NEW p \in Nat, N * p \in Nat
      PROVE  (N * p + s) % N = s
  <2> DEFINE j == N * p + s
             a == j \div N
             b == j % N
  <2>1. j \in Nat
    BY <1>3
  <2>2. j = N * a + b /\ a \in Nat /\ b \in 0..(N - 1)
    BY <2>1, Division
  <2> HIDE DEF a, b
  <2>3. N * p + s = N * a + b
    BY <2>2
  <2>4. b = s
    BY <2>2, <2>3, RemainderUnique
  <2> QED
    BY <2>4 DEF b
<1>4. CASE s >= r
  <2>1. /\ N * q + s \in Nat /\ (N * q + s) % N = s
        /\ h <= N * q + s /\ N * q + s < h + N
    BY <1>1, <1>2, <1>3, <1>4
  <2> QED
    BY <2>1
<1>5. CASE s < r
  <2>1. (N * (q + 1) + s) % N = s
    BY <1>1, <1>2, <1>3
  <2>2. /\ N * (q + 1) + s \in Nat
        /\ h <= N * (q + 1) + s /\ N * (q + 1) + s < h + N
    BY <1>1, <1>2, <1>5
  <2> QED
    BY <2>1, <2>2
<1> QED
  BY <1>1, <1>4, <1>5

-----------------------------------------------------------------------------
(* Sequences                                                               *)

LEMMA TailIs ==
  ASSUME NEW X, NEW s \in Seq(X), s # << >>
  PROVE  Tail(s) = [i \in 1..(Len(s) - 1) |-> s[i + 1]]
<1> DEFINE t == Tail(s)
<1>1. /\ t \in Seq(X) /\ Len(t) = Len(s) - 1
      /\ \A i \in 1..Len(t) : t[i] = s[i + 1]
  BY HeadTailProperties
<1> HIDE DEF t
<1>2. t \in [1..Len(t) -> X]
  BY <1>1, LenProperties
<1>3. t = [i \in 1..(Len(s) - 1) |-> s[i + 1]]
  BY <1>1, <1>2
<1> QED
  BY <1>3 DEF t

Elements(s) == {s[i] : i \in 1..Len(s)}

Distinct(s) == \A i, j \in 1..Len(s) : s[i] = s[j] => i = j

LEMMA ElementsIn ==
  ASSUME NEW X, NEW s \in Seq(X)
  PROVE  Elements(s) \subseteq X
  BY DEF Elements

LEMMA AppendElement ==
  ASSUME NEW X, NEW s \in Seq(X), NEW x \in X
  PROVE  /\ Elements(Append(s, x)) = Elements(s) \cup {x}
         /\ Distinct(s) /\ x \notin Elements(s) => Distinct(Append(s, x))
<1> DEFINE t == Append(s, x)
<1>1. /\ Len(t) = Len(s) + 1 /\ Len(s) \in Nat
      /\ \A i \in 1..Len(t) : t[i] = IF i = Len(s) + 1 THEN x ELSE s[i]
  OBVIOUS
<1> HIDE DEF t
<1>2. Elements(t) = Elements(s) \cup {x}
  <2>1. ASSUME NEW y \in Elements(t) PROVE y \in Elements(s) \cup {x}
    BY <1>1, <2>1 DEF Elements
  <2>2. ASSUME NEW y \in Elements(s) PROVE y \in Elements(t)
    <3>1. PICK i \in 1..Len(s) : y = s[i]
      BY DEF Elements
    <3>2. i \in 1..Len(t) /\ t[i] = y
      BY <1>1, <3>1
    <3> QED
      BY <3>2 DEF Elements
  <2>3. x \in Elements(t)
    <3>1. Len(s) + 1 \in 1..Len(t) /\ t[Len(s) + 1] = x
      BY <1>1
    <3> QED
      BY <3>1 DEF Elements
  <2> QED
    BY <2>1, <2>2, <2>3
<1>3. Distinct(s) /\ x \notin Elements(s) => Distinct(t)
  BY <1>1 DEF Distinct, Elements
<1> QED
  BY <1>2, <1>3 DEF t

LEMMA TailElements ==
  ASSUME NEW X, NEW s \in Seq(X), s # << >>
  PROVE  /\ Tail(s) \in Seq(X) /\ Len(Tail(s)) = Len(s) - 1
         /\ Head(s) \in Elements(s)
         /\ Distinct(s) => /\ Elements(Tail(s)) = Elements(s) \ {Head(s)}
                           /\ Distinct(Tail(s))
<1> DEFINE t == Tail(s)
<1>1. /\ t \in Seq(X) /\ Len(t) = Len(s) - 1 /\ Len(s) \in Nat /\ Len(s) >= 1
      /\ \A i \in 1..Len(t) : t[i] = s[i + 1]
      /\ Head(s) = s[1]
  BY HeadTailProperties
<1> HIDE DEF t
<1>2. Head(s) \in Elements(s)
  BY <1>1 DEF Elements
<1>3. ASSUME Distinct(s) PROVE Elements(t) = Elements(s) \ {Head(s)} /\ Distinct(t)
  <2>1. ASSUME NEW y \in Elements(t) PROVE y \in Elements(s) \ {Head(s)}
    <3>1. PICK i \in 1..Len(t) : y = s[i + 1]
      BY <1>1 DEF Elements
    <3>2. i + 1 \in 1..Len(s) /\ i + 1 # 1 /\ 1 \in 1..Len(s)
      BY <1>1
    <3> QED
      BY <1>1, <1>3, <3>1, <3>2 DEF Elements, Distinct
  <2>2. ASSUME NEW y \in Elements(s), y # Head(s) PROVE y \in Elements(t)
    <3>1. PICK i \in 1..Len(s) : y = s[i]
      BY DEF Elements
    <3>2. i - 1 \in 1..Len(t) /\ t[i - 1] = y
      BY <1>1, <2>2, <3>1
    <3> QED
      BY <3>2 DEF Elements
  <2>3. Distinct(t)
    BY <1>1, <1>3 DEF Distinct
  <2> QED
    BY <2>1, <2>2, <2>3
<1> QED
  BY <1>1, <1>2, <1>3 DEF t

LEMMA FrontElements ==
  ASSUME NEW X, NEW s \in Seq(X), s # << >>
  PROVE  /\ SubSeq(s, 1, Len(s) - 1) \in Seq(X)
         /\ s[Len(s)] \in Elements(s)
         /\ Distinct(s) =>
              /\ Elements(SubSeq(s, 1, Len(s) - 1)) = Elements(s) \ {s[Len(s)]}
              /\ Distinct(SubSeq(s, 1, Len(s) - 1))
<1> DEFINE n == Len(s) - 1
           t == SubSeq(s, 1, n)
<1>1. Len(s) \in Nat /\ Len(s) >= 1 /\ n \in Nat
  OBVIOUS
<1>2. /\ t \in Seq(X) /\ Len(t) = n
      /\ \A i \in 1..n : t[i] = s[i]
  <2>1. 1 \in Int /\ n \in Int /\ \A i \in 1..n : s[i] \in X
    BY <1>1
  <2>2. /\ t \in Seq(X) /\ Len(t) = IF 1 <= n THEN n - 1 + 1 ELSE 0
        /\ \A i \in 1..(n - 1 + 1) : t[i] = s[1 + i - 1]
    BY <2>1, SubSeqProperties
  <2> HIDE DEF t, n
  <2>3. Len(t) = n
    BY <1>1, <2>2
  <2>4. ASSUME NEW i \in 1..n PROVE t[i] = s[i]
    <3>1. i \in 1..(n - 1 + 1) /\ 1 + i - 1 = i
      BY <1>1
    <3> QED
      BY <2>2, <3>1
  <2> QED
    BY <2>2, <2>3, <2>4
<1> HIDE DEF t
<1>3. ASSUME Distinct(s) PROVE Elements(t) = Elements(s) \ {s[Len(s)]} /\ Distinct(t)
  BY <1>1, <1>2, <1>3 DEF Elements, Distinct
<1>4. s[Len(s)] \in Elements(s)
  BY <1>1 DEF Elements
<1> QED
  BY <1>2, <1>3, <1>4 DEF t

(* A queue of distinct elements is no longer than there are elements.      *)
LEMMA DistinctIsShort ==
  ASSUME NEW X, IsFiniteSet(X), NEW s \in Seq(X), Distinct(s)
  PROVE  Len(s) \in Nat /\ Len(s) <= Cardinality(X)
<1>1. s \in Injection(1..Len(s), X)
  BY DEF Injection, IsInjective, Distinct
<1>2. Cardinality(1..Len(s)) <= Cardinality(X)
  BY <1>1, FS_Injection
<1>3. Len(s) \in Nat
  OBVIOUS
<1>4. Cardinality(1..Len(s)) = Len(s)
  <2>1. Cardinality(1..Len(s)) = IF 1 > Len(s) THEN 0 ELSE Len(s) - 1 + 1
    BY <1>3, FS_Interval
  <2> QED
    BY <1>3, <2>1
<1> QED
  BY <1>2, <1>3, <1>4

-----------------------------------------------------------------------------
(* Rings: the l elements of the array a of M slots from slot h onwards.    *)

Arrays(M, X) == [0..(M - 1) -> X]

RingContents(M, a, h, l) == [i \in 1..l |-> a[(h + i - 1) % M]]

LEMMA RingIsSequence ==
  ASSUME NEW M \in Nat \ {0}, NEW X
  PROVE  \A a \in Arrays(M, X), h, l \in Nat :
           /\ RingContents(M, a, h, l) \in Seq(X)
           /\ Len(RingContents(M, a, h, l)) = l
<1> SUFFICES ASSUME NEW a \in Arrays(M, X), NEW h \in Nat, NEW l \in Nat
             PROVE  /\ RingContents(M, a, h, l) \in Seq(X)
                    /\ Len(RingContents(M, a, h, l)) = l
  OBVIOUS
<1>1. ASSUME NEW i \in 1..l PROVE (h + i - 1) % M \in 0..(M - 1)
  <2>1. h + i - 1 \in Int
    OBVIOUS
  <2> QED
    BY <2>1, RemainderType
<1>2. RingContents(M, a, h, l) \in [1..l -> X]
  BY <1>1 DEF RingContents, Arrays
<1> QED
  BY <1>2

(* A slot behind the last element is written.                              *)
LEMMA RingOutside ==
  ASSUME NEW M \in Nat \ {0}, NEW X
  PROVE  \A a, b \in Arrays(M, X), h, l \in Nat :
           l < M /\ Moves((h + l) % M, b[(h + l) % M], a, b) =>
             RingContents(M, b, h, l) = RingContents(M, a, h, l)
<1> SUFFICES
      ASSUME NEW a \in Arrays(M, X), NEW b \in Arrays(M, X),
             NEW h \in Nat, NEW l \in Nat, l < M,
             Moves((h + l) % M, b[(h + l) % M], a, b)
      PROVE  RingContents(M, b, h, l) = RingContents(M, a, h, l)
  OBVIOUS
<1>1. ASSUME NEW i \in 1..l PROVE b[(h + i - 1) % M] = a[(h + i - 1) % M]
  <2>1. (h + i - 1) % M # (h + l) % M
    <3>1. h + i - 1 \in Nat /\ h + l \in Nat /\ h + i - 1 <= h + l
      OBVIOUS
    <3>2. h + l < (h + i - 1) + M /\ h + i - 1 # h + l
      OBVIOUS
    <3> QED
      BY <3>1, <3>2, RemainderClose
  <2>2. (h + i - 1) % M \in 0..(M - 1)
    <3>1. h + i - 1 \in Int
      OBVIOUS
    <3> QED
      BY <3>1, RemainderType
  <2> QED
    BY <2>1, <2>2 DEF Moves, Arrays
<1> QED
  BY <1>1 DEF RingContents

(* An element is put behind the last one.                                  *)
LEMMA RingPut ==
  ASSUME NEW M \in Nat \ {0}, NEW X
  PROVE  \A a, b \in Arrays(M, X), h, l \in Nat :
           l < M /\ Moves((h + l) % M, b[(h + l) % M], a, b) =>
             RingContents(M, b, h, l + 1)
               = Append(RingContents(M, a, h, l), b[(h + l) % M])
<1> SUFFICES
      ASSUME NEW a \in Arrays(M, X), NEW b \in Arrays(M, X),
             NEW h \in Nat, NEW l \in Nat, l < M,
             Moves((h + l) % M, b[(h + l) % M], a, b)
      PROVE  RingContents(M, b, h, l + 1)
               = Append(RingContents(M, a, h, l), b[(h + l) % M])
  OBVIOUS
<1>0. \A g \in Arrays(M, X), k, m \in Nat :
        /\ RingContents(M, g, k, m) \in Seq(X)
        /\ Len(RingContents(M, g, k, m)) = m
  BY RingIsSequence
<1> DEFINE s == (h + l) % M
           x == b[s]
           old == RingContents(M, a, h, l)
           new == RingContents(M, b, h, l + 1)
<1>1. /\ s \in 0..(M - 1) /\ b[s] = x
      /\ \A r \in 0..(M - 1) : r # s => b[r] = a[r]
  <2>1. h + l \in Int
    OBVIOUS
  <2>2. s \in 0..(M - 1)
    BY <2>1, RemainderType
  <2> HIDE DEF s
  <2>3. b[s] = x /\ \A r \in 0..(M - 1) : r # s => b[r] = a[r]
    <3>1. Moves(s, x, a, b)
      BY DEF s
    <3> QED
      BY <2>2, <3>1 DEF Moves, Arrays
  <2> QED
    BY <2>2, <2>3
<1>2. /\ old \in Seq(X) /\ Len(old) = l
      /\ \A i \in 1..l : old[i] = a[(h + i - 1) % M]
  <2>1. old \in Seq(X) /\ Len(old) = l
    BY <1>0
  <2>2. \A i \in 1..l : old[i] = a[(h + i - 1) % M]
    BY DEF RingContents
  <2> QED
    BY <2>1, <2>2
<1>3. /\ new \in Seq(X) /\ Len(new) = l + 1
      /\ \A i \in 1..(l + 1) : new[i] = b[(h + i - 1) % M]
  <2>1. new \in Seq(X) /\ Len(new) = l + 1
    <3>1. l + 1 \in Nat
      OBVIOUS
    <3> QED
      BY <1>0, <3>1
  <2>2. \A i \in 1..(l + 1) : new[i] = b[(h + i - 1) % M]
    BY DEF RingContents
  <2> QED
    BY <2>1, <2>2
<1>4. new[l + 1] = x
  <2>1. h + (l + 1) - 1 = h + l /\ l + 1 \in 1..(l + 1)
    OBVIOUS
  <2> QED
    BY <1>1, <1>3, <2>1
<1>5. ASSUME NEW i \in 1..l PROVE new[i] = old[i]
  <2>1. (h + i - 1) % M # s
    <3>1. h + i - 1 \in Nat /\ h + l \in Nat /\ h + i - 1 <= h + l
      OBVIOUS
    <3>2. h + l < (h + i - 1) + M /\ h + i - 1 # h + l
      OBVIOUS
    <3> QED
      BY <3>1, <3>2, RemainderClose
  <2>2. (h + i - 1) % M \in 0..(M - 1)
    <3>1. h + i - 1 \in Int
      OBVIOUS
    <3> QED
      BY <3>1, RemainderType
  <2>3. b[(h + i - 1) % M] = a[(h + i - 1) % M]
    BY <1>1, <2>1, <2>2
  <2>4. i \in 1..(l + 1)
    OBVIOUS
  <2> QED
    BY <1>2, <1>3, <2>3, <2>4
<1> HIDE DEF s, old, new
<1>6. /\ Append(old, x) \in Seq(X) /\ Len(Append(old, x)) = l + 1
      /\ Append(old, x)[l + 1] = x
      /\ \A i \in 1..l : Append(old, x)[i] = old[i]
  <2>1. x \in X
    BY <1>1 DEF Arrays
  <2> QED
    BY <1>2, <2>1
<1>7. \A i \in 1..(l + 1) : new[i] = Append(old, x)[i]
  BY <1>4, <1>5, <1>6
<1>8. new = Append(old, x)
  BY <1>3, <1>6, <1>7, SeqEqual
<1> QED
  BY <1>8 DEF s, old, new

(* The first element is taken.                                             *)
LEMMA RingTake ==
  ASSUME NEW M \in Nat \ {0}, NEW X
  PROVE  \A a \in Arrays(M, X), h \in 0..(M - 1), l \in Nat \ {0} :
           /\ RingContents(M, a, h, l) # << >>
           /\ Head(RingContents(M, a, h, l)) = a[h]
           /\ Tail(RingContents(M, a, h, l)) = RingContents(M, a, h + 1, l - 1)
<1> SUFFICES
      ASSUME NEW a \in Arrays(M, X), NEW h \in 0..(M - 1), NEW l \in Nat \ {0}
      PROVE  /\ RingContents(M, a, h, l) # << >>
             /\ Head(RingContents(M, a, h, l)) = a[h]
             /\ Tail(RingContents(M, a, h, l)) = RingContents(M, a, h + 1, l - 1)
  OBVIOUS
<1>n. \A g \in Arrays(M, X), k, m \in Nat :
        /\ RingContents(M, g, k, m) \in Seq(X)
        /\ Len(RingContents(M, g, k, m)) = m
  BY RingIsSequence
<1> DEFINE old == RingContents(M, a, h, l)
           new == RingContents(M, a, h + 1, l - 1)
<1>0. h \in Nat /\ l \in Nat
  OBVIOUS
<1>1. /\ old \in Seq(X) /\ Len(old) = l
      /\ \A i \in 1..l : old[i] = a[(h + i - 1) % M]
  <2>1. old \in Seq(X) /\ Len(old) = l
    BY <1>n, <1>0
  <2>2. \A i \in 1..l : old[i] = a[(h + i - 1) % M]
    BY DEF RingContents
  <2> QED
    BY <2>1, <2>2
<1>2. h + 1 \in Nat /\ l - 1 \in Nat
  OBVIOUS
<1>3. /\ new \in Seq(X) /\ Len(new) = l - 1
      /\ \A i \in 1..(l - 1) : new[i] = a[((h + 1) + i - 1) % M]
  <2>1. new \in Seq(X) /\ Len(new) = l - 1
    BY <1>n, <1>2
  <2>2. \A i \in 1..(l - 1) : new[i] = a[((h + 1) + i - 1) % M]
    BY DEF RingContents
  <2> QED
    BY <2>1, <2>2
<1>4. old[1] = a[h]
  <2>1. h + 1 - 1 = h /\ 1 \in 1..l /\ h % M = h
    BY RemainderSmall
  <2> QED
    BY <1>1, <2>1
<1> HIDE DEF old, new
<1>5. old # << >> /\ Head(old) = old[1]
  BY <1>1
<1>6. /\ Tail(old) \in Seq(X) /\ Len(Tail(old)) = l - 1
      /\ \A i \in 1..(l - 1) : Tail(old)[i] = old[i + 1]
  BY <1>1, <1>5, HeadTailProperties
<1>7. ASSUME NEW i \in 1..(l - 1) PROVE Tail(old)[i] = new[i]
  <2>1. i + 1 \in 1..l /\ h + (i + 1) - 1 = (h + 1) + i - 1
    OBVIOUS
  <2> QED
    BY <1>1, <1>3, <1>6, <2>1
<1>8. Tail(old) = new
  BY <1>3, <1>6, <1>7, SeqEqual
<1> QED
  BY <1>4, <1>5, <1>8 DEF old, new

(* The slot after the last is the first.                                   *)
LEMMA RingWrap ==
  ASSUME NEW M \in Nat \ {0}, NEW a, NEW l \in Nat
  PROVE  RingContents(M, a, M, l) = RingContents(M, a, 0, l)
<1>1. ASSUME NEW i \in 1..l PROVE (M + i - 1) % M = (0 + i - 1) % M
  <2>1. i - 1 \in Nat /\ 0 + i - 1 = i - 1 /\ M + i - 1 = (i - 1) + M
    OBVIOUS
  <2> QED
    BY <2>1, RemainderShift
<1> QED
  BY <1>1 DEF RingContents
=============================================================================
