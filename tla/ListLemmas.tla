----------------------------- MODULE ListLemmas -----------------------------
(***************************************************************************)
(* Facts about numbers, sequences and functions that several of the proofs *)
(* rest on.  None of them is about the program.                            *)
(***************************************************************************)
EXTENDS SequencesExt, NumberOrder, SequenceTheorems, FiniteSetTheorems, TLAPS

\* A set of numbers that is not empty has a least one.
LEMMA LeastNumber ==
    ASSUME NEW T \in SUBSET Nat, T # {}
    PROVE  \E n \in T : \A m \in T : n <= m
<1> DEFINE R == OpToRel(<, Nat)
<1>1. IsWellFoundedOn(R, Nat)
  BY NatLessThanWellFounded
<1> HIDE DEF R
<1>2. PICK n \in T : \A m \in T : <<m, n>> \notin R
  BY <1>1, WFMin
<1>3. \A m \in T : ~(m < n)
  BY <1>2 DEF R, OpToRel
<1> QED
  BY <1>3

\* A sequence that is not empty is its head, and behind it its tail.
LEMMA HeadInFront ==
    ASSUME NEW S, NEW b \in Seq(S), b # << >>
    PROVE  Head(b) \in S /\ Tail(b) \in Seq(S) /\ b = <<Head(b)>> \o Tail(b)
<1>1. Len(b) \in Nat \ {0}
  BY EmptySeq
<1>2. Head(b) \in S /\ Tail(b) \in Seq(S) /\ Len(Tail(b)) = Len(b) - 1
      /\ \A i \in 1 .. Len(Tail(b)) : Tail(b)[i] = b[i + 1]
  BY HeadTailProperties
<1> DEFINE c == <<Head(b)>> \o Tail(b)
<1>3. <<Head(b)>> \in Seq(S) /\ Len(<<Head(b)>>) = 1 /\ <<Head(b)>>[1] = b[1]
  BY <1>2
<1>4. c \in Seq(S) /\ Len(c) = Len(b)
      /\ \A i \in 1 .. Len(b) : c[i] = IF i <= 1 THEN b[1] ELSE Tail(b)[i - 1]
  BY <1>1, <1>2, <1>3, ConcatProperties
<1> HIDE DEF c
<1>5. \A i \in 1 .. Len(b) : c[i] = b[i]
  BY <1>1, <1>2, <1>4
<1>6. c = b
  BY <1>4, <1>5, SeqEqual
<1> QED
  BY <1>2, <1>6 DEF c

\* What is behind the element that is removed moves up by one.
LEMMA RemoveAtProperties ==
    ASSUME NEW S, NEW s \in Seq(S), NEW i \in DOMAIN s
    PROVE  /\ RemoveAt(s, i) \in Seq(S) /\ Len(RemoveAt(s, i)) = Len(s) - 1
           /\ \A j \in DOMAIN RemoveAt(s, i) :
                 \E k \in DOMAIN s : k # i /\ k = (IF j < i THEN j ELSE j + 1) /\ RemoveAt(s, i)[j] = s[k]
           /\ \A k \in DOMAIN s : k # i => \E j \in DOMAIN RemoveAt(s, i) : RemoveAt(s, i)[j] = s[k]
<1> DEFINE n == Len(s)
           a == SubSeq(s, 1, i - 1)
           b == SubSeq(s, i + 1, n)
           r == a \o b
<1>1. n \in Nat /\ DOMAIN s = 1 .. n /\ i \in 1 .. n /\ \A j \in 1 .. n : s[j] \in S
  BY LenProperties
<1>2. a \in Seq(S) /\ Len(a) = i - 1 /\ \A j \in 1 .. i - 1 : a[j] = s[j]
  <2>1. \A j \in 1 .. i - 1 : s[j] \in S
    BY <1>1
  <2>2. /\ a \in Seq(S) /\ Len(a) = IF 1 <= i - 1 THEN (i - 1) - 1 + 1 ELSE 0
        /\ \A j \in 1 .. (i - 1) - 1 + 1 : a[j] = s[1 + j - 1]
    BY <1>1, <2>1, SubSeqProperties
  <2> HIDE DEF a
  <2>3. Len(a) = i - 1
    BY <1>1, <2>2
  <2>4. \A j \in 1 .. i - 1 : j \in 1 .. (i - 1) - 1 + 1 /\ 1 + j - 1 = j
    BY <1>1
  <2> QED
    BY <2>2, <2>3, <2>4
<1>3. b \in Seq(S) /\ Len(b) = n - i /\ \A j \in 1 .. n - i : b[j] = s[i + j]
  <2>1. \A j \in i + 1 .. n : s[j] \in S
    BY <1>1
  <2>2. /\ b \in Seq(S) /\ Len(b) = IF i + 1 <= n THEN n - (i + 1) + 1 ELSE 0
        /\ \A j \in 1 .. n - (i + 1) + 1 : b[j] = s[(i + 1) + j - 1]
    BY <1>1, <2>1, SubSeqProperties
  <2> HIDE DEF b
  <2>3. Len(b) = n - i
    BY <1>1, <2>2
  <2>4. \A j \in 1 .. n - i : j \in 1 .. n - (i + 1) + 1 /\ (i + 1) + j - 1 = i + j
    BY <1>1
  <2> QED
    BY <2>2, <2>3, <2>4
<1> HIDE DEF a, b
<1>4. /\ r \in Seq(S) /\ Len(r) = n - 1
      /\ \A j \in 1 .. n - 1 : r[j] = IF j <= i - 1 THEN a[j] ELSE b[j - (i - 1)]
  <2>1. Len(a) + Len(b) = n - 1 /\ Len(a) = i - 1
    BY <1>1, <1>2, <1>3
  <2>2. /\ r \in Seq(S) /\ Len(r) = Len(a) + Len(b)
        /\ \A j \in 1 .. Len(a) + Len(b) : r[j] = IF j <= Len(a) THEN a[j] ELSE b[j - Len(a)]
    BY <1>2, <1>3, ConcatProperties
  <2> QED
    BY <2>1, <2>2
<1> HIDE DEF r
<1>5. DOMAIN r = 1 .. n - 1
  BY <1>4, LenProperties
<1>6. \A j \in 1 .. n - 1 : r[j] = IF j < i THEN s[j] ELSE s[j + 1]
  <2> TAKE j \in 1 .. n - 1
  <2>1. CASE j < i
    BY <1>1, <1>2, <1>4, <2>1
  <2>2. CASE ~(j < i)
    <3>1. j - (i - 1) \in 1 .. n - i /\ i + (j - (i - 1)) = j + 1
      BY <1>1, <2>2
    <3>2. r[j] = b[j - (i - 1)]
      <4>1. ~(j <= i - 1)
        BY <1>1, <2>2
      <4> QED
        BY <1>4, <4>1
    <3>3. b[j - (i - 1)] = s[i + (j - (i - 1))]
      BY <1>3, <3>1
    <3> QED
      BY <2>2, <3>1, <3>2, <3>3
  <2> QED
    BY <2>1, <2>2
<1>7. \A k \in 1 .. n : k # i => \E j \in 1 .. n - 1 : r[j] = s[k]
  <2> SUFFICES ASSUME NEW k \in 1 .. n, k # i PROVE \E j \in 1 .. n - 1 : r[j] = s[k]
    OBVIOUS
  <2>1. CASE k < i
    BY <1>1, <1>6, <2>1
  <2>2. CASE i < k
    <3>1. k - 1 \in 1 .. n - 1 /\ ~(k - 1 < i) /\ (k - 1) + 1 = k
      BY <1>1, <2>2
    <3> QED
      BY <1>6, <3>1
  <2> QED
    BY <1>1, <2>1, <2>2
<1>8. \A j \in 1 .. n - 1 : LET k == IF j < i THEN j ELSE j + 1 IN k \in 1 .. n /\ k # i /\ r[j] = s[k]
  BY <1>1, <1>6
<1>9. RemoveAt(s, i) = r
  BY DEF RemoveAt, r, a, b
<1> QED
  BY <1>1, <1>4, <1>5, <1>7, <1>8, <1>9

\* How a record at the end of a sequence, or the first one taken off, changes what
\* is found in it.
LEMMA AppendIndex ==
    ASSUME NEW S, NEW s \in Seq(S), NEW x \in S
    PROVE  /\ Append(s, x) \in Seq(S)
           /\ \E n \in Nat :
                 /\ n \in DOMAIN Append(s, x) /\ n \notin DOMAIN s /\ Append(s, x)[n] = x
                 /\ \A i \in DOMAIN Append(s, x) : i \in DOMAIN s \/ i = n
                 /\ \A i \in DOMAIN s : /\ i \in Nat /\ i < n /\ ~(n < i)
                                        /\ i \in DOMAIN Append(s, x) /\ Append(s, x)[i] = s[i]
<1> DEFINE n == Len(s) + 1
<1>1. Len(s) \in Nat /\ DOMAIN s = 1 .. Len(s)
  BY LenProperties
<1>2. /\ Append(s, x) \in Seq(S) /\ Len(Append(s, x)) = n
      /\ \A i \in 1 .. Len(s) : Append(s, x)[i] = s[i]
      /\ Append(s, x)[n] = x
  BY AppendProperties
<1>3. DOMAIN Append(s, x) = 1 .. n
  BY <1>2, LenProperties
<1>4. n \in DOMAIN Append(s, x) /\ n \notin DOMAIN s /\ n \in Nat
  BY <1>1, <1>3
<1>5. \A i \in DOMAIN Append(s, x) : i \in DOMAIN s \/ i = n
  BY <1>1, <1>3
<1>6. \A i \in DOMAIN s : i \in Nat /\ i < n /\ ~(n < i) /\ i \in DOMAIN Append(s, x) /\ Append(s, x)[i] = s[i]
  BY <1>1, <1>2, <1>3
<1> QED
  BY <1>2, <1>4, <1>5, <1>6

LEMMA TailIndex ==
    ASSUME NEW S, NEW s \in Seq(S), s # << >>
    PROVE  /\ Tail(s) \in Seq(S)
           /\ DOMAIN s \subseteq Nat /\ DOMAIN Tail(s) \subseteq Nat
           /\ 1 \in DOMAIN s /\ s[1] = Head(s)
           /\ \A i \in DOMAIN Tail(s) : i + 1 \in DOMAIN s /\ i + 1 # 1 /\ Tail(s)[i] = s[i + 1]
           /\ \A i \in DOMAIN s : i = 1 \/ (i - 1 \in DOMAIN Tail(s) /\ Tail(s)[i - 1] = s[i] /\ 1 < i)
<1>1. Len(s) \in Nat \ {0} /\ DOMAIN s = 1 .. Len(s)
  BY EmptySeq, LenProperties
<1>2. /\ Tail(s) \in Seq(S) /\ Len(Tail(s)) = Len(s) - 1
      /\ \A i \in 1 .. Len(Tail(s)) : Tail(s)[i] = s[i + 1]
  BY HeadTailProperties
<1>3. DOMAIN Tail(s) = 1 .. Len(s) - 1
  BY <1>2, LenProperties
<1> QED
  BY <1>1, <1>2, <1>3

\* A function with another value at one place.
LEMMA ExceptKeepsType ==
    ASSUME NEW S, NEW T, NEW g \in [S -> T], NEW x \in S, NEW v \in T
    PROVE  [g EXCEPT ![x] = v] \in [S -> T]
  OBVIOUS

\* What a loop over the numbers up to N computes exists when each of its rounds
\* yields something,
IsLoop(f, S, N, d, G) ==
    f \in [0 .. N -> S] /\ f[0] = d /\ \A i \in 1 .. N : f[i] = G[<<i, f[i - 1]>>]

LEMMA LoopExists ==
    ASSUME NEW S, NEW N \in Nat, NEW d \in S, NEW G \in [(1 .. N) \X S -> S]
    PROVE  \E f : IsLoop(f, S, N, d, G)
<1> DEFINE Loop(k) == \E f \in [0 .. k -> S] : f[0] = d /\ \A i \in 1 .. k : f[i] = G[<<i, f[i - 1]>>]
           T == {k \in 0 .. N : ~Loop(k)}
<1>1. SUFFICES T = {}
  BY DEF T, IsLoop
<1>2. SUFFICES ASSUME T # {} PROVE FALSE
  BY <1>1
<1>3. PICK k \in T : \A m \in T : k <= m
  <2>1. T \in SUBSET Nat
    OBVIOUS
  <2> QED
    BY <1>2, <2>1, LeastNumber
<1>4. k \in 0 .. N /\ ~Loop(k)
  BY <1>3
<1>5. CASE k = 0
  <2> DEFINE f == [i \in 0 .. 0 |-> d]
  <2>1. f \in [0 .. 0 -> S] /\ f[0] = d /\ \A i \in 1 .. 0 : FALSE
    OBVIOUS
  <2>2. Loop(0)
    BY <2>1
  <2> QED
    BY <1>4, <1>5, <2>2
<1>6. CASE k # 0
  <2>1. k - 1 \in 0 .. N /\ ~(k <= k - 1)
    BY <1>4, <1>6
  <2>2. Loop(k - 1)
    BY <1>3, <2>1
  <2>3. PICK f \in [0 .. k - 1 -> S] : f[0] = d /\ \A i \in 1 .. k - 1 : f[i] = G[<<i, f[i - 1]>>]
    BY <2>2
  <2> DEFINE g == [i \in 0 .. k |-> IF i = k THEN G[<<k, f[k - 1]>>] ELSE f[i]]
  <2>4. f[k - 1] \in S /\ k \in 1 .. N
    BY <1>4, <1>6
  <2>5. G[<<k, f[k - 1]>>] \in S
    BY <2>4
  <2>6. \A i \in 0 .. k : i # k => i \in 0 .. k - 1
    BY <1>4
  <2>7. g \in [0 .. k -> S]
    BY <2>5, <2>6
  <2>8. 0 \in 0 .. k /\ 0 # k /\ \A i \in 1 .. k : i \in 0 .. k /\ i - 1 \in 0 .. k /\ i - 1 # k
    BY <1>4, <1>6
  <2>9. \A i \in 1 .. k : g[i] = G[<<i, g[i - 1]>>]
    <3> TAKE i \in 1 .. k
    <3>1. g[i - 1] = f[i - 1]
      BY <2>8
    <3>2. CASE i = k
      BY <2>8, <3>1, <3>2
    <3>3. CASE i # k
      <4>1. i \in 1 .. k - 1
        BY <1>4, <3>3
      <4> QED
        BY <2>3, <2>8, <3>1, <3>3, <4>1
    <3> QED
      BY <3>2, <3>3
  <2>10. g[0] = d
    BY <2>3, <2>8
  <2>11. Loop(k)
    BY <2>7, <2>9, <2>10
  <2> QED
    BY <1>4, <2>11
<1> QED
  BY <1>5, <1>6 DEF IsLoop

\* and what each round keeps, all of them keep.
LEMMA LoopKeeps ==
    ASSUME NEW S, NEW N \in Nat, NEW f, f[0] \in S,
           \A i \in 1 .. N : f[i - 1] \in S => f[i] \in S
    PROVE  \A i \in 0 .. N : f[i] \in S
<1> DEFINE T == {i \in 0 .. N : f[i] \notin S}
<1>1. SUFFICES ASSUME T # {} PROVE FALSE
  BY DEF T
<1>2. T \in SUBSET Nat
  OBVIOUS
<1>3. PICK k \in T : \A m \in T : k <= m
  BY <1>1, <1>2, LeastNumber
<1>4. k \in 1 .. N /\ k - 1 \in 0 .. N /\ ~(k <= k - 1)
  BY <1>3
<1>5. k - 1 \notin T
  BY <1>3, <1>4
<1> QED
  BY <1>3, <1>4, <1>5

\* In ascending order every number of a finite set has one place, that behind as many
\* as are below it.
LEMMA BelowIsSmaller ==
    ASSUME NEW S \in SUBSET Nat, IsFiniteSet(S), NEW j \in S, NEW k \in S, j < k
    PROVE  /\ Cardinality(Below(S, j)) \in Nat /\ Cardinality(Below(S, k)) \in Nat
           /\ Cardinality(Below(S, j)) < Cardinality(Below(S, k))
<1>1. IsFiniteSet(Below(S, j)) /\ IsFiniteSet(Below(S, k))
  BY FS_Subset DEF Below
<1>2. Cardinality(Below(S, j)) \in Nat /\ Cardinality(Below(S, k)) \in Nat
  BY <1>1, FS_CardinalityType
<1>3. Below(S, j) \cup {j} \subseteq Below(S, k) /\ j \notin Below(S, j)
  <2>1. \A i \in S : i < j => i < k
    OBVIOUS
  <2>2. ~(j < j)
    OBVIOUS
  <2>3. Below(S, j) \subseteq Below(S, k)
    BY <2>1 DEF Below
  <2> QED
    BY <2>2, <2>3 DEF Below
<1>4. Cardinality(Below(S, j) \cup {j}) = Cardinality(Below(S, j)) + 1
  BY <1>1, <1>3, FS_AddElement
<1>5. Cardinality(Below(S, j) \cup {j}) <= Cardinality(Below(S, k))
  BY <1>1, <1>3, FS_Subset
<1> QED
  BY <1>2, <1>4, <1>5

LEMMA AscendingProperties ==
    ASSUME NEW S \in SUBSET Nat, IsFiniteSet(S)
    PROVE  /\ Cardinality(S) \in Nat
           /\ Ascending(S) \in Seq(S) /\ Len(Ascending(S)) = Cardinality(S)
           /\ DOMAIN Ascending(S) = 1 .. Cardinality(S)
           /\ \A i \in DOMAIN Ascending(S) : Cardinality(Below(S, Ascending(S)[i])) = i - 1
           /\ \A k \in S : /\ Cardinality(Below(S, k)) + 1 \in DOMAIN Ascending(S)
                           /\ Ascending(S)[Cardinality(Below(S, k)) + 1] = k
<1> DEFINE n == Cardinality(S)
           R == [k \in S |-> Cardinality(Below(S, k)) + 1]
<1>1. n \in Nat
  BY FS_CardinalityType
<1>2. \A k \in S : Cardinality(Below(S, k)) \in Nat /\ Cardinality(Below(S, k)) < n
  <2> TAKE k \in S
  <2>1. Below(S, k) \subseteq S \ {k}
    BY DEF Below
  <2>2. IsFiniteSet(S \ {k}) /\ Cardinality(S \ {k}) = n - 1
    BY FS_RemoveElement
  <2>3. IsFiniteSet(Below(S, k)) /\ Cardinality(Below(S, k)) <= n - 1
    BY <2>1, <2>2, FS_Subset
  <2>4. Cardinality(Below(S, k)) \in Nat
    BY <2>3, FS_CardinalityType
  <2> QED
    BY <1>1, <2>3, <2>4
<1>3. R \in [S -> 1 .. n]
  BY <1>1, <1>2
<1>4. \A j, k \in S : j # k => R[j] # R[k]
  <2> SUFFICES ASSUME NEW j \in S, NEW k \in S, j < k PROVE R[j] # R[k]
    OBVIOUS
  <2> QED
    BY BelowIsSmaller
<1>5. R \in Injection(S, 1 .. n)
  BY <1>3, <1>4 DEF Injection, IsInjective
<1>6. IsFiniteSet(1 .. n) /\ Cardinality(1 .. n) = n
  BY <1>1, FS_Interval
<1>7. R \in Surjection(S, 1 .. n)
  BY <1>5, <1>6, FS_Injection
<1>8. \A i \in 1 .. n : \E k \in S : R[k] = i
  BY <1>7 DEF Surjection
<1>9. \A i \in 1 .. n : \E k \in S : Cardinality(Below(S, k)) = i - 1
  BY <1>1, <1>2, <1>8
<1>10. DOMAIN Ascending(S) = 1 .. n
  BY DEF Ascending
<1>11. \A i \in 1 .. n : Ascending(S)[i] \in S /\ Cardinality(Below(S, Ascending(S)[i])) = i - 1
  BY <1>9 DEF Ascending
<1>12. Ascending(S) \in [1 .. n -> S]
  BY <1>11 DEF Ascending
<1>13. Ascending(S) \in Seq(S) /\ Len(Ascending(S)) = n
  BY <1>1, <1>12
<1>14. \A k \in S : LET i == Cardinality(Below(S, k)) + 1 IN i \in 1 .. n /\ Ascending(S)[i] = k
  <2> TAKE k \in S
  <2> DEFINE i == Cardinality(Below(S, k)) + 1
  <2>1. i \in 1 .. n
    BY <1>1, <1>2
  <2>2. Ascending(S)[i] \in S /\ Cardinality(Below(S, Ascending(S)[i])) = Cardinality(Below(S, k))
    BY <1>2, <1>11, <2>1
  <2>3. Ascending(S)[i] = k
    BY <1>4, <2>2
  <2> QED
    BY <2>1, <2>3
<1> QED
  BY <1>1, <1>10, <1>11, <1>13, <1>14

\* What is in a sequence that is put together of two, and in one without its first.
LEMMA RangeOfConcat ==
    ASSUME NEW S, NEW s \in Seq(S), NEW t \in Seq(S)
    PROVE  /\ s \o t \in Seq(S)
           /\ Range(s \o t) = Range(s) \cup Range(t)
           /\ \A i \in DOMAIN s : i \in DOMAIN (s \o t) /\ (s \o t)[i] = s[i]
           /\ \A j \in DOMAIN (s \o t) :
                 j \notin DOMAIN s => (s \o t)[j] \in Range(t) /\ \A i \in DOMAIN s : i < j
           /\ \A x \in Range(t) : \E j \in DOMAIN (s \o t) : (s \o t)[j] = x /\ j \notin DOMAIN s
<1> DEFINE m == Len(s)
           n == Len(t)
           r == s \o t
<1>1. m \in Nat /\ n \in Nat /\ DOMAIN s = 1 .. m /\ DOMAIN t = 1 .. n
  BY LenProperties
<1>2. /\ r \in Seq(S) /\ Len(r) = m + n
      /\ \A i \in 1 .. m + n : r[i] = IF i <= m THEN s[i] ELSE t[i - m]
  BY ConcatProperties
<1>3. DOMAIN r = 1 .. m + n
  BY <1>2, LenProperties
<1> HIDE DEF r, m, n
<1>4. \A i \in 1 .. m : i \in 1 .. m + n /\ r[i] = s[i]
  BY <1>1, <1>2
<1>5. \A j \in 1 .. m + n : j \notin 1 .. m => /\ j - m \in 1 .. n /\ r[j] = t[j - m]
                                               /\ \A i \in 1 .. m : i < j
  BY <1>1, <1>2
<1>6. \A k \in 1 .. n : k + m \in 1 .. m + n /\ k + m \notin 1 .. m /\ r[k + m] = t[k]
  <2> TAKE k \in 1 .. n
  <2>1. k + m \in 1 .. m + n /\ ~(k + m <= m) /\ (k + m) - m = k
    BY <1>1
  <2> QED
    BY <1>1, <1>2, <2>1
<1>7. Range(r) = Range(s) \cup Range(t)
  <2>1. \A x \in Range(r) : x \in Range(s) \/ x \in Range(t)
    BY <1>1, <1>3, <1>4, <1>5 DEF Range
  <2>2. \A x \in Range(s) : x \in Range(r)
    BY <1>1, <1>3, <1>4 DEF Range
  <2>3. \A x \in Range(t) : x \in Range(r)
    BY <1>1, <1>3, <1>6 DEF Range
  <2> QED
    BY <2>1, <2>2, <2>3
<1>8. \A j \in 1 .. m + n : j \notin 1 .. m => r[j] \in Range(t) /\ \A i \in 1 .. m : i < j
  BY <1>1, <1>5 DEF Range
<1>9. \A x \in Range(t) : \E j \in 1 .. m + n : r[j] = x /\ j \notin 1 .. m
  BY <1>1, <1>6 DEF Range
<1> QED
  BY <1>1, <1>2, <1>3, <1>4, <1>7, <1>8, <1>9 DEF r

LEMMA RangeOfTail ==
    ASSUME NEW S, NEW s \in Seq(S), s # << >>
    PROVE  /\ Head(s) \in S /\ Tail(s) \in Seq(S)
           /\ Range(s) = {Head(s)} \cup Range(Tail(s))
<1> DEFINE h == Head(s)
           t == Tail(s)
<1>1. h \in S /\ t \in Seq(S)
  BY HeadInFront
<1>2. /\ 1 \in DOMAIN s /\ s[1] = h
      /\ \A i \in DOMAIN t : i + 1 \in DOMAIN s /\ t[i] = s[i + 1]
      /\ \A i \in DOMAIN s : i = 1 \/ (i - 1 \in DOMAIN t /\ t[i - 1] = s[i])
  BY TailIndex
<1> HIDE DEF h, t
<1>3. h \in Range(s)
  BY <1>2 DEF Range
<1>4. \A x \in Range(t) : x \in Range(s)
  BY <1>2 DEF Range
<1>5. \A x \in Range(s) : x = h \/ x \in Range(t)
  BY <1>2 DEF Range
<1> QED
  BY <1>1, <1>3, <1>4, <1>5 DEF h, t

LEMMA RangeInSet ==
    ASSUME NEW S, NEW s \in Seq(S)
    PROVE  Range(s) \subseteq S
<1>1. Len(s) \in Nat /\ DOMAIN s = 1 .. Len(s)
  BY LenProperties
<1>2. \A i \in DOMAIN s : s[i] \in S
  BY <1>1, ElementOfSeq
<1>3. \A x \in Range(s) : x \in S
  BY <1>2 DEF Range
<1>4. QED
  BY <1>3

LEMMA SingleRange ==
    ASSUME NEW S, NEW x \in S
    PROVE  <<x>> \in Seq(S) /\ Range(<<x>>) = {x} /\ << >> \in Seq(S) /\ Range(<< >>) = {}
BY DEF Range

\* A finite set in any order.
LEMMA SetToSeqProperties ==
    ASSUME NEW S, IsFiniteSet(S)
    PROVE  SetToSeq(S) \in Seq(S) /\ Range(SetToSeq(S)) = S
<1> DEFINE n == Cardinality(S)
           q == SetToSeq(S)
<1>1. n \in Nat /\ ExistsBijection(1 .. n, S)
  BY FS_CardinalityType
<1>2. PICK f \in [1 .. n -> S] : IsInjective(f)
  BY <1>1 DEF ExistsBijection, Bijection, Injection, IsInjective
<1>3. q \in [1 .. n -> S] /\ IsInjective(q)
  BY <1>2 DEF SetToSeq
<1> HIDE DEF q
<1>4. q \in Injection(1 .. n, S)
  BY <1>3 DEF Injection
<1>5. IsFiniteSet(1 .. n) /\ Cardinality(1 .. n) = n
  BY <1>1, FS_Interval
<1>6. q \in Surjection(1 .. n, S)
  BY <1>4, <1>5, FS_Injection
<1>7. Range(q) = S
  BY <1>3, <1>6 DEF Surjection, Range
<1>8. q \in Seq(S)
  BY <1>1, <1>3
<1> QED
  BY <1>7, <1>8 DEF q

\* The numbers of a finite set in their order.
LEMMA AscendingRange ==
    ASSUME NEW S \in SUBSET Nat, IsFiniteSet(S)
    PROVE  Ascending(S) \in Seq(S) /\ Range(Ascending(S)) = S
<1>1. Ascending(S) \in Seq(S)
  BY AscendingProperties
<1>2. Range(Ascending(S)) \subseteq S
  BY <1>1, RangeInSet
<1>3. \A k \in S : \E i \in DOMAIN Ascending(S) : Ascending(S)[i] = k
  BY AscendingProperties
<1>4. \A k \in S : k \in Range(Ascending(S))
  BY <1>3 DEF Range
<1> QED
  BY <1>1, <1>2, <1>4

\* A sequence is what is in front of its last element, and that element.
LEMMA FrontLast ==
    ASSUME NEW S, NEW s \in Seq(S), s # << >>
    PROVE  /\ Front(s) \in Seq(S) /\ Last(s) \in S /\ Len(Front(s)) = Len(s) - 1
           /\ Len(s) \in Nat \ {0} /\ Len(s) \in DOMAIN s /\ s[Len(s)] = Last(s)
           /\ \A i \in DOMAIN Front(s) : i \in DOMAIN s /\ i # Len(s) /\ Front(s)[i] = s[i]
           /\ \A i \in DOMAIN s : i = Len(s) \/ i \in DOMAIN Front(s)
<1> DEFINE n == Len(s)
           a == Front(s)
<1>1. n \in Nat \ {0} /\ DOMAIN s = 1 .. n /\ \A i \in 1 .. n : s[i] \in S
  BY EmptySeq, LenProperties, ElementOfSeq
<1>2. a = [i \in 1 .. n - 1 |-> s[i]]
  BY <1>1 DEF Front
<1>3. a \in Seq(S) /\ Len(a) = n - 1 /\ DOMAIN a = 1 .. n - 1 /\ \A i \in 1 .. n - 1 : a[i] = s[i]
  <2>1. a \in [1 .. n - 1 -> S] /\ n - 1 \in Nat
    BY <1>1, <1>2
  <2> QED
    BY <1>2, <2>1
<1>4. Last(s) \in S /\ s[n] = Last(s)
  BY <1>1 DEF Last
<1> QED
  BY <1>1, <1>3, <1>4

LEMMA LastIsAppended ==
    ASSUME NEW S, NEW s \in Seq(S), s # << >>
    PROVE  s = Append(Front(s), Last(s))
<1> DEFINE n == Len(s)
           a == Front(s)
           l == Last(s)
           t == Append(a, l)
<1>1. /\ a \in Seq(S) /\ l \in S /\ Len(a) = n - 1 /\ n \in Nat \ {0} /\ s[n] = l
      /\ \A i \in DOMAIN a : a[i] = s[i]
  BY FrontLast
<1> HIDE DEF a, l
<1>2. /\ t \in Seq(S) /\ Len(t) = Len(a) + 1
      /\ \A i \in 1 .. Len(a) : t[i] = a[i]
      /\ t[Len(a) + 1] = l
  BY <1>1, AppendProperties
<1>3. DOMAIN a = 1 .. Len(a)
  BY <1>1, LenProperties
<1> HIDE DEF t, n
<1>4. Len(a) + 1 = n /\ \A i \in 1 .. n : i = n \/ i \in 1 .. Len(a)
  BY <1>1
<1>5. \A i \in 1 .. n : s[i] = t[i]
  BY <1>1, <1>2, <1>3, <1>4
<1>6. s = t
  BY <1>2, <1>4, <1>5, SeqEqual DEF n
<1> QED
  BY <1>6 DEF t, a, l

\* The end of two sequences, one behind the other, is that of the second.
LEMMA EndOfConcat ==
    ASSUME NEW S, NEW a \in Seq(S), NEW b \in Seq(S), b # << >>
    PROVE  /\ a \o b \in Seq(S) /\ a \o b # << >>
           /\ Last(a \o b) = Last(b) /\ Front(a \o b) = a \o Front(b)
<1> DEFINE c == a \o b
           m == Len(a)
           n == Len(b)
           front == Front(b)
<1>1. m \in Nat /\ n \in Nat \ {0}
  BY EmptySeq, LenProperties
<1>2. /\ c \in Seq(S) /\ Len(c) = m + n
      /\ \A i \in 1 .. m + n : c[i] = IF i <= m THEN a[i] ELSE b[i - m]
  BY ConcatProperties
<1>3. c # << >>
  BY <1>1, <1>2, EmptySeq
<1> HIDE DEF c
<1>4. Last(c) = Last(b)
  <2>1. m + n \in 1 .. m + n /\ ~(m + n <= m) /\ (m + n) - m = n
    BY <1>1
  <2>2. c[m + n] = b[n]
    BY <1>2, <2>1
  <2> QED
    BY <1>2, <2>2 DEF Last
<1>5. /\ Front(c) \in Seq(S) /\ Len(Front(c)) = m + n - 1
      /\ \A i \in DOMAIN Front(c) : Front(c)[i] = c[i]
  <2>1. c \in Seq(S) /\ c # << >>
    BY <1>2, <1>3
  <2>2. /\ Front(c) \in Seq(S) /\ Len(Front(c)) = Len(c) - 1
        /\ \A i \in DOMAIN Front(c) : Front(c)[i] = c[i]
    BY <2>1, FrontLast
  <2> QED
    BY <1>2, <2>2
<1>6. /\ front \in Seq(S) /\ Len(front) = n - 1
      /\ \A i \in DOMAIN front : front[i] = b[i]
  BY FrontLast
<1> HIDE DEF front
<1> DEFINE d == a \o front
<1>7. /\ d \in Seq(S) /\ Len(d) = m + Len(front)
      /\ \A i \in 1 .. m + Len(front) : d[i] = IF i <= m THEN a[i] ELSE front[i - m]
  BY <1>6, ConcatProperties
<1> HIDE DEF d
<1>8. \A i \in 1 .. m + n - 1 : Front(c)[i] = d[i]
  <2> TAKE i \in 1 .. m + n - 1
  <2>1. i \in DOMAIN Front(c) /\ i \in 1 .. m + n /\ i \in 1 .. m + Len(front)
    BY <1>1, <1>5, <1>6, LenProperties
  <2>2. ~(i <= m) => i - m \in DOMAIN front
    BY <1>1, <1>6, LenProperties
  <2> QED
    BY <1>2, <1>5, <1>6, <1>7, <2>1, <2>2
<1>9. Front(c) = d
  <2>1. Len(Front(c)) = Len(d)
    BY <1>1, <1>5, <1>6, <1>7
  <2> QED
    BY <1>1, <1>5, <1>7, <1>8, <2>1, SeqEqual
<1> QED
  BY <1>2, <1>3, <1>4, <1>9 DEF c, d, front

\* FlattenSeq appends one sequence after the other.
IsFlattening(f, ss, S) ==
    /\ f \in [0 .. Len(ss) -> Seq(S)] /\ f[0] = << >>
    /\ \A i \in 1 .. Len(ss) : f[i] = f[i - 1] \o ss[i]
    /\ FlattenSeq(ss) = f[Len(ss)]

LEMMA FlatteningExists ==
    ASSUME NEW S, NEW ss \in Seq(Seq(S))
    PROVE  \E f : IsFlattening(f, ss, S)
<1> DEFINE n == Len(ss)
           G == [p \in (1 .. n) \X Seq(S) |-> p[2] \o ss[p[1]]]
           E(a) == a = [i \in 1 .. n |-> IF i = 1 THEN ss[i] ELSE a[i - 1] \o ss[i]]
           flatten == CHOOSE a : E(a)
<1>1. n \in Nat /\ \A i \in 1 .. n : ss[i] \in Seq(S)
  BY LenProperties, ElementOfSeq
<1>2. << >> \in Seq(S)
  BY EmptySeq
<1>3. CASE n = 0
  <2> DEFINE f == [i \in 0 .. 0 |-> << >>]
  <2>1. ss = << >>
    BY <1>3, EmptySeq
  <2>2. FlattenSeq(ss) = << >>
    BY <1>3, <2>1 DEF FlattenSeq
  <2>3. f \in [0 .. 0 -> Seq(S)] /\ f[0] = << >> /\ \A i \in 1 .. 0 : FALSE
    BY <1>2
  <2> QED
    BY <1>3, <2>2, <2>3 DEF IsFlattening
<1>4. CASE n # 0
  <2>1. \A i \in 1 .. n, s \in Seq(S) : s \o ss[i] \in Seq(S) /\ << >> \o ss[i] = ss[i]
    BY <1>1, ConcatProperties, ConcatEmptySeq
  <2>2. G \in [(1 .. n) \X Seq(S) -> Seq(S)] /\ \A i \in 1 .. n, s \in Seq(S) : G[<<i, s>>] = s \o ss[i]
    BY <2>1
  <2> HIDE DEF G
  <2>3. PICK f : IsLoop(f, Seq(S), n, << >>, G)
    BY <1>1, <1>2, <2>2, LoopExists
  <2>4. f \in [0 .. n -> Seq(S)] /\ f[0] = << >> /\ \A i \in 1 .. n : f[i] = G[<<i, f[i - 1]>>]
    BY <2>3 DEF IsLoop
  <2>5. \A i \in 1 .. n : i \in 0 .. n /\ i - 1 \in 0 .. n /\ (i # 1 => i - 1 \in 1 .. n)
    BY <1>1
  <2>6. \A i \in 1 .. n : f[i] = f[i - 1] \o ss[i]
    BY <2>2, <2>4, <2>5
  <2> DEFINE g == [i \in 1 .. n |-> f[i]]
  <2>7. E(g)
    <3>1. \A i \in 1 .. n : g[i] = IF i = 1 THEN ss[i] ELSE g[i - 1] \o ss[i]
      <4> TAKE i \in 1 .. n
      <4>1. CASE i = 1
        <5>1. 1 \in 1 .. n /\ 1 - 1 = 0
          BY <4>1
        <5>2. f[1] = f[0] \o ss[1]
          BY <2>6, <5>1
        <5>3. f[1] = ss[1]
          BY <1>2, <2>1, <2>4, <5>1, <5>2
        <5> QED
          BY <4>1, <5>3
      <4>2. CASE i # 1
        BY <2>5, <2>6, <4>2
      <4> QED
        BY <4>1, <4>2
    <3> QED
      BY <3>1
  <2>8. E(flatten)
    <3> HIDE DEF E
    <3> QED
      BY <2>7
  <2>9. FlattenSeq(ss) = flatten[n]
    BY <1>4 DEF FlattenSeq, E, flatten
  <2> HIDE DEF flatten
  <2>10. \A i \in 1 .. n : flatten[i] = IF i = 1 THEN ss[i] ELSE flatten[i - 1] \o ss[i]
    BY <2>8
  <2> DEFINE h == [i \in 0 .. n |-> IF i = 0 THEN << >> ELSE flatten[i]]
  <2>11. h[0] = << >> /\ h[n] = flatten[n] /\ \A i \in 1 .. n : h[i] = flatten[i]
    BY <1>1, <1>4, <2>5
  <2>12. \A i \in 1 .. n : h[i] = h[i - 1] \o ss[i]
    <3> TAKE i \in 1 .. n
    <3>1. CASE i = 1
      <4>1. h[i - 1] = << >>
        BY <2>11, <3>1
      <4> HIDE DEF h
      <4> QED
        BY <2>1, <2>10, <2>11, <3>1, <4>1
    <3>2. CASE i # 1
      <4>1. h[i - 1] = flatten[i - 1]
        BY <2>5, <2>11, <3>2
      <4> HIDE DEF h
      <4> QED
        BY <2>10, <2>11, <3>2, <4>1
    <3> QED
      BY <3>1, <3>2
  <2>13. h = [i \in 0 .. n |-> h[i]]
    OBVIOUS
  <2> HIDE DEF h
  <2>14. \A i \in 1 .. n : h[i - 1] \in Seq(S) => h[i] \in Seq(S)
    BY <2>1, <2>12
  <2>15. \A i \in 0 .. n : h[i] \in Seq(S)
    BY <1>1, <1>2, <2>11, <2>14, LoopKeeps
  <2>16. h \in [0 .. n -> Seq(S)]
    BY <2>13, <2>15
  <2> QED
    BY <2>9, <2>11, <2>12, <2>16 DEF IsFlattening
<1> QED
  BY <1>3, <1>4

\* What holds of 0, and of a number when it holds of the one before, holds of all.
LEMMA CountingUp ==
    ASSUME NEW N \in Nat, NEW Good, 0 \in Good, \A i \in 1 .. N : i - 1 \in Good => i \in Good
    PROVE  \A i \in 0 .. N : i \in Good
<1> DEFINE f == [i \in 0 .. N |-> i]
<1>1. f[0] = 0 /\ \A i \in 1 .. N : f[i] = i /\ f[i - 1] = i - 1
  OBVIOUS
<1>2. \A i \in 0 .. N : f[i] = i
  OBVIOUS
<1> HIDE DEF f
<1>3. f[0] \in Good /\ \A i \in 1 .. N : f[i - 1] \in Good => f[i] \in Good
  BY <1>1
<1>4. \A i \in 0 .. N : f[i] \in Good
  BY <1>3, LoopKeeps
<1> QED
  BY <1>2, <1>4

\* It has the elements of all of them,
LEMMA FlatteningRange ==
    ASSUME NEW S, NEW ss \in Seq(Seq(S)), NEW f, IsFlattening(f, ss, S)
    PROVE  \A i \in 0 .. Len(ss) : \A x : x \in Range(f[i]) <=> \E j \in 1 .. i : x \in Range(ss[j])
<1> DEFINE n == Len(ss)
<1>1. n \in Nat /\ \A i \in 1 .. n : ss[i] \in Seq(S)
  BY LenProperties, ElementOfSeq
<1>2. /\ \A i \in 0 .. n : f[i] \in Seq(S)
      /\ f[0] = << >> /\ \A i \in 1 .. n : f[i] = f[i - 1] \o ss[i]
  BY DEF IsFlattening
<1> DEFINE Good == {i \in 0 .. n : \A x : x \in Range(f[i]) <=> \E j \in 1 .. i : x \in Range(ss[j])}
<1>3. 0 \in Good
  <2>1. Range(f[0]) = {}
    BY <1>2, SingleRange
  <2> QED
    BY <1>1, <2>1
<1>4. \A i \in 1 .. n : i - 1 \in Good => i \in Good
  <2> SUFFICES ASSUME NEW i \in 1 .. n, i - 1 \in Good PROVE i \in Good
    OBVIOUS
  <2>1. Range(f[i]) = Range(f[i - 1]) \cup Range(ss[i])
    <3> DEFINE s == f[i - 1]
               t == ss[i]
    <3>1. i - 1 \in 0 .. n
      BY <1>1
    <3>2. s \in Seq(S) /\ t \in Seq(S) /\ f[i] = s \o t
      BY <1>1, <1>2, <3>1
    <3> HIDE DEF s, t
    <3>3. Range(s \o t) = Range(s) \cup Range(t)
      BY <3>2, RangeOfConcat
    <3> QED
      BY <3>2, <3>3 DEF s, t
  <2>2. \A j : j \in 1 .. i <=> j \in 1 .. i - 1 \/ j = i
    BY <1>1
  <2>3. i \in 0 .. n
    BY <1>1
  <2> QED
    BY <2>1, <2>2, <2>3
<1> HIDE DEF Good
<1>5. \A i \in 0 .. n : i \in Good
  BY <1>1, <1>3, <1>4, CountingUp
<1> QED
  BY <1>5 DEF Good

LEMMA FlattenSeqRange ==
    ASSUME NEW S, NEW ss \in Seq(Seq(S))
    PROVE  /\ FlattenSeq(ss) \in Seq(S)
           /\ \A x : x \in Range(FlattenSeq(ss)) <=> \E i \in DOMAIN ss : x \in Range(ss[i])
<1>1. PICK f : IsFlattening(f, ss, S)
  BY FlatteningExists
<1>2. Len(ss) \in Nat /\ DOMAIN ss = 1 .. Len(ss)
  BY LenProperties
<1>3. \A x : x \in Range(f[Len(ss)]) <=> \E j \in 1 .. Len(ss) : x \in Range(ss[j])
  <2> DEFINE n == Len(ss)
  <2>1. \A i \in 0 .. n : \A x : x \in Range(f[i]) <=> \E j \in 1 .. i : x \in Range(ss[j])
    BY <1>1, FlatteningRange
  <2>2. n \in 0 .. n
    BY <1>2
  <2> HIDE DEF n
  <2>3. \A x : x \in Range(f[n]) <=> \E j \in 1 .. n : x \in Range(ss[j])
    BY <2>1, <2>2, Zenon
  <2> QED
    BY <2>3 DEF n
<1>4. FlattenSeq(ss) = f[Len(ss)] /\ f[Len(ss)] \in Seq(S)
  BY <1>1, <1>2 DEF IsFlattening
<1> QED
  BY <1>2, <1>3, <1>4

LEMMA ConcatInjective ==
    ASSUME NEW S, NEW s \in Seq(S), NEW t \in Seq(S), IsInjective(s), IsInjective(t),
           \A x : ~(x \in Range(s) /\ x \in Range(t))
    PROVE  IsInjective(s \o t)
<1> DEFINE c == s \o t
           m == Len(s)
           n == Len(t)
<1>1. /\ m \in Nat /\ n \in Nat /\ DOMAIN s = 1 .. m /\ DOMAIN t = 1 .. n
  BY LenProperties
<1>2. /\ DOMAIN c = 1 .. m + n
      /\ \A i \in 1 .. m + n : c[i] = IF i <= m THEN s[i] ELSE t[i - m]
  BY ConcatProperties, LenProperties
<1> HIDE DEF c, m, n
<1>3. \A i \in 1 .. m + n :
         IF i <= m THEN i \in DOMAIN s /\ c[i] = s[i] ELSE i - m \in DOMAIN t /\ c[i] = t[i - m]
  BY <1>1, <1>2
<1>4. \A i \in DOMAIN s : s[i] \in Range(s)
  BY DEF Range
<1>5. \A i \in DOMAIN t : t[i] \in Range(t)
  BY DEF Range
<1>6. ASSUME NEW i \in 1 .. m + n, NEW j \in 1 .. m + n, c[i] = c[j] PROVE i = j
  <2>1. i <= m <=> j <= m
    BY <1>3, <1>4, <1>5, <1>6
  <2>2. CASE i <= m
    BY <1>3, <1>6, <2>1, <2>2 DEF IsInjective
  <2>3. CASE ~(i <= m)
    <3>1. i - m = j - m
      BY <1>3, <1>6, <2>1, <2>3 DEF IsInjective
    <3> QED
      BY <1>1, <3>1
  <2> QED
    BY <2>2, <2>3
<1>7. IsInjective(c)
  BY <1>2, <1>6 DEF IsInjective
<1> QED
  BY <1>7 DEF c

\* once each, if they have nothing in common.
LEMMA FlattenSeqInjective ==
    ASSUME NEW S, NEW ss \in Seq(Seq(S)), \A i \in DOMAIN ss : IsInjective(ss[i]),
           \A i, j \in DOMAIN ss : i # j => \A x : ~(x \in Range(ss[i]) /\ x \in Range(ss[j]))
    PROVE  IsInjective(FlattenSeq(ss))
<1>1. PICK f : IsFlattening(f, ss, S)
  BY FlatteningExists
<1> DEFINE n == Len(ss)
<1>2. n \in Nat /\ DOMAIN ss = 1 .. n /\ \A i \in 1 .. n : ss[i] \in Seq(S)
  BY LenProperties, ElementOfSeq
<1>3. /\ \A i \in 0 .. n : f[i] \in Seq(S)
      /\ f[0] = << >> /\ FlattenSeq(ss) = f[n] /\ \A i \in 1 .. n : f[i] = f[i - 1] \o ss[i]
  BY <1>1 DEF IsFlattening
<1>4. \A i \in 0 .. n : \A x : x \in Range(f[i]) <=> \E j \in 1 .. i : x \in Range(ss[j])
  BY <1>1, FlatteningRange
<1> DEFINE Good == {i \in 0 .. n : IsInjective(f[i])}
<1>5. 0 \in Good
  BY <1>2, <1>3 DEF IsInjective
<1>6. \A i \in 1 .. n : i - 1 \in Good => i \in Good
  <2> SUFFICES ASSUME NEW i \in 1 .. n, i - 1 \in Good PROVE i \in Good
    OBVIOUS
  <2> DEFINE s == f[i - 1]
             t == ss[i]
  <2>1. i - 1 \in 0 .. n /\ i \in 0 .. n /\ \A j \in 1 .. i - 1 : j \in DOMAIN ss /\ j # i
    BY <1>2
  <2>2. s \in Seq(S) /\ t \in Seq(S) /\ f[i] = s \o t
    BY <1>2, <1>3, <2>1
  <2>3. IsInjective(s) /\ IsInjective(t)
    BY <1>2
  <2>4. \A x : ~(x \in Range(s) /\ x \in Range(t))
    BY <1>2, <1>4, <2>1
  <2> HIDE DEF s, t
  <2>5. IsInjective(s \o t)
    BY <2>2, <2>3, <2>4, ConcatInjective
  <2> QED
    BY <2>1, <2>2, <2>5
<1> HIDE DEF Good
<1>7. \A i \in 0 .. n : i \in Good
  BY <1>2, <1>5, <1>6, CountingUp
<1>8. n \in 0 .. n
  BY <1>2
<1> QED
  BY <1>3, <1>7, <1>8 DEF Good

\* What is computed for the elements of a set in an order, each from those before it,
\* exists.
IsOrderOf(order, D, N) ==
    /\ order \in [1 .. N -> D] /\ IsInjective(order) /\ \A d \in D : \E i \in 1 .. N : order[i] = d

NeedsThoseBefore(F, order, D, S, N) ==
    /\ F \in [D \X [D -> S] -> S]
    /\ \A i \in 1 .. N, g, h \in [D -> S] :
          (\A j \in 1 .. N : j < i => g[order[j]] = h[order[j]])
          => F[<<order[i], g>>] = F[<<order[i], h>>]

IsComputed(a, F, D, S) == a \in [D -> S] /\ \A d \in D : a[d] = F[<<d, a>>]

LEMMA RecursionExists ==
    ASSUME NEW D, NEW S, S # {}, NEW N \in Nat, NEW order, NEW F,
           IsOrderOf(order, D, N), NeedsThoseBefore(F, order, D, S, N)
    PROVE  \E a : IsComputed(a, F, D, S)
<1> DEFINE V == [D -> S]
           G == [q \in (1 .. N) \X V |-> [q[2] EXCEPT ![order[q[1]]] = F[<<order[q[1]], q[2]>>]]]
<1>1. PICK s : s \in S
  OBVIOUS
<1>2. [d \in D |-> s] \in V
  BY <1>1
<1>3. \A i \in 1 .. N : order[i] \in D
  BY DEF IsOrderOf
<1>4. \A i \in 1 .. N, g \in V : F[<<order[i], g>>] \in S
  <2> TAKE i \in 1 .. N, g \in V
  <2>1. <<order[i], g>> \in D \X V
    BY <1>3
  <2> QED
    BY <2>1 DEF NeedsThoseBefore
<1>5. \A i \in 1 .. N, g \in V : [g EXCEPT ![order[i]] = F[<<order[i], g>>]] \in V
  BY <1>3, <1>4
<1>6. /\ G \in [(1 .. N) \X V -> V]
      /\ \A i \in 1 .. N, g \in V : G[<<i, g>>] = [g EXCEPT ![order[i]] = F[<<order[i], g>>]]
  BY <1>5
<1> HIDE DEF G
<1>7. PICK f : IsLoop(f, V, N, [d \in D |-> s], G)
  BY <1>2, <1>6, LoopExists
<1>8. /\ \A i \in 0 .. N : f[i] \in V
      /\ \A i \in 1 .. N : f[i] = [f[i - 1] EXCEPT ![order[i]] = F[<<order[i], f[i - 1]>>]]
  <2>1. f \in [0 .. N -> V] /\ \A i \in 1 .. N : f[i] = G[<<i, f[i - 1]>>]
    BY <1>7 DEF IsLoop
  <2>2. \A i \in 1 .. N : i - 1 \in 0 .. N
    OBVIOUS
  <2> QED
    BY <1>6, <2>1, <2>2
<1> DEFINE Good == {i \in 0 .. N : \A j \in 1 .. N : j <= i => f[i][order[j]] = F[<<order[j], f[i]>>]}
<1>9. 0 \in Good
  OBVIOUS
<1>10. \A i \in 1 .. N : i - 1 \in Good => i \in Good
  <2> SUFFICES ASSUME NEW i \in 1 .. N, i - 1 \in Good, NEW j \in 1 .. N, j <= i
               PROVE  f[i][order[j]] = F[<<order[j], f[i]>>]
    OBVIOUS
  <2> DEFINE g == f[i - 1]
             h == f[i]
  <2>1. i - 1 \in 0 .. N /\ i \in 0 .. N
    OBVIOUS
  <2>2. g \in V /\ h \in V
    BY <1>8, <2>1
  <2>3. /\ h[order[i]] = F[<<order[i], g>>]
        /\ \A k \in 1 .. N : k # i => h[order[k]] = g[order[k]]
    <3>1. h = [g EXCEPT ![order[i]] = F[<<order[i], g>>]]
      BY <1>8
    <3>2. \A k \in 1 .. N : k # i => order[k] # order[i]
      BY <1>3 DEF IsOrderOf, IsInjective
    <3> HIDE DEF g, h
    <3> QED
      BY <1>3, <2>2, <3>1, <3>2
  <2>4. F[<<order[j], g>>] = F[<<order[j], h>>]
    <3>1. \A k \in 1 .. N : k < j => g[order[k]] = h[order[k]]
      BY <2>3
    <3> HIDE DEF g, h
    <3> QED
      BY <2>2, <3>1 DEF NeedsThoseBefore
  <2>5. CASE j = i
    BY <2>3, <2>4, <2>5
  <2>6. CASE j # i
    <3>1. j <= i - 1
      BY <2>6
    <3>2. g[order[j]] = F[<<order[j], g>>]
      BY <3>1
    <3> HIDE DEF g, h
    <3>3. h[order[j]] = F[<<order[j], h>>]
      BY <2>3, <2>4, <2>6, <3>2
    <3> QED
      BY <3>3 DEF h
  <2> QED
    BY <2>5, <2>6
<1> HIDE DEF Good
<1>11. \A i \in 0 .. N : i \in Good
  BY <1>9, <1>10, CountingUp
<1>12. N \in Good /\ f[N] \in V
  BY <1>8, <1>11
<1>13. \A d \in D : f[N][d] = F[<<d, f[N]>>]
  <2> TAKE d \in D
  <2>1. PICK j \in 1 .. N : order[j] = d
    BY DEF IsOrderOf
  <2> QED
    BY <1>12, <2>1 DEF Good
<1> QED
  BY <1>12, <1>13 DEF IsComputed
=============================================================================
