----------------------------- MODULE DataLemmas -----------------------------
(***************************************************************************)
(* Facts about numbers and sequences that the proofs of several components *)
(* rest on.  Induction is stated for a set instead of a predicate.         *)
(***************************************************************************)
EXTENDS Integers, SequencesExt, TLAPS, FiniteSetTheorems, WellFoundedInduction

\* A set of natural numbers has a least element.
LEMMA LeastNumber ==
  ASSUME NEW T \in SUBSET Nat, T # {}
  PROVE  \E n \in T : \A m \in T : n <= m
<1> DEFINE R == OpToRel(<, Nat)
<1>1. \A m, n \in Nat : <<m, n>> \in R <=> m < n
  BY DEF OpToRel
<1>2. IsWellFoundedOn(R, Nat)
  BY NatLessThanWellFounded
<1> HIDE DEF R
<1>3. PICK n \in T : \A m \in T : ~(<<m, n>> \in R)
  BY <1>2, WFMin, Zenon
<1>4. n \in Nat /\ \A m \in T : m \in Nat /\ ~(m < n)
  BY <1>1, <1>3
<1> QED BY <1>4

\* Induction up to n.
LEMMA Induction ==
  ASSUME NEW n \in Nat, NEW S, 0 \in S, \A k \in 0..(n - 1) : k \in S => k + 1 \in S
  PROVE  0..n \subseteq S
<1> SUFFICES ASSUME (0..n) \ S # {} PROVE FALSE
  OBVIOUS
<1>1. PICK m \in (0..n) \ S : \A k \in (0..n) \ S : m <= k
  <2>1. (0..n) \ S \in SUBSET Nat
    OBVIOUS
  <2> QED BY <2>1, LeastNumber
<1>2. m # 0 /\ m - 1 \in 0..(n - 1)
  BY <1>1
<1>3. m - 1 \in S
  BY <1>1, <1>2
<1> QED BY <1>2, <1>3

Distinct(s) == \A i, j \in 1..Len(s) : s[i] = s[j] => i = j

\* What RemoveFirst, the model of Python's list.remove, does to a list without
\* repetitions.
LEMMA RemoveFirstProperties ==
  ASSUME NEW S, NEW s \in Seq(S), NEW e, Distinct(s)
  PROVE  /\ RemoveFirst(s, e) \in Seq(S)
         /\ Distinct(RemoveFirst(s, e))
         /\ ToSet(RemoveFirst(s, e)) = ToSet(s) \ {e}
         /\ e \notin ToSet(s) => RemoveFirst(s, e) = s
<1>1. CASE \A i \in 1..Len(s) : s[i] # e
  <2>1. RemoveFirst(s, e) = s
    BY <1>1 DEF RemoveFirst
  <2>2. e \notin ToSet(s)
    BY <1>1 DEF ToSet
  <2> QED BY <2>1, <2>2
<1>2. CASE \E i \in 1..Len(s) : s[i] = e
  <2>1. PICK i \in 1..Len(s) : s[i] = e
    BY <1>2
  <2>2. \A j \in 1..Len(s) : s[j] = e => j = i
    BY <2>1 DEF Distinct
  <2>3. {j \in 1..Len(s) : s[j] = e} = {i}
    BY <2>1, <2>2
  <2>4. Min({i}) = i
    BY <2>1 DEF Min
  <2>5. RemoveFirst(s, e) = RemoveAt(s, i)
    BY <1>2, <2>3, <2>4 DEF RemoveFirst, SelectInSeq
  <2> DEFINE r == RemoveAt(s, i)
  <2>6. /\ r \in Seq(S)
        /\ Len(r) = Len(s) - 1
        /\ \A j \in 1..Len(r) : r[j] = IF j < i THEN s[j] ELSE s[j + 1]
    <3> DEFINE p == SubSeq(s, 1, i - 1)
               q == SubSeq(s, i + 1, Len(s))
    <3>1. p \in Seq(S) /\ Len(p) = i - 1 /\ \A j \in 1..(i - 1) : p[j] = s[j]
      BY <2>1
    <3>2. q \in Seq(S) /\ Len(q) = Len(s) - i
                     /\ \A j \in 1..(Len(s) - i) : q[j] = s[j + i]
      BY <2>1
    <3>3. r = p \o q
      BY DEF RemoveAt
    <3> HIDE DEF p, q, r
    <3>4. r \in Seq(S) /\ Len(r) = Len(s) - 1
      BY <3>1, <3>2, <3>3
    <3>5. \A j \in 1..(i - 1) : r[j] = s[j]
      BY <3>1, <3>2, <3>3
    <3>6. ASSUME NEW j \in 1..(Len(s) - 1), j >= i PROVE r[j] = s[j + 1]
      <4>1. j - i + 1 \in 1..(Len(s) - i) /\ r[j] = q[j - i + 1]
        BY <3>1, <3>2, <3>3, <3>6
      <4>2. q[j - i + 1] = s[(j - i + 1) + i]
        BY <4>1, <3>2
      <4> QED BY <4>1, <4>2
    <3> QED BY <3>4, <3>5, <3>6
  <2>7. Distinct(r)
    BY <2>6, <2>1 DEF Distinct
  <2>8. \A x : x \in ToSet(r) => x \in ToSet(s) \ {e}
    BY <2>6, <2>1, <2>2 DEF ToSet
  <2>9. ASSUME NEW x \in ToSet(s) \ {e} PROVE x \in ToSet(r)
    <3>1. PICK j \in 1..Len(s) : s[j] = x
      BY DEF ToSet
    <3>2. j # i
      BY <3>1, <2>1
    <3>3. CASE j < i
      BY <3>1, <3>3, <2>1, <2>6 DEF ToSet
    <3>4. CASE j > i
      <4> HIDE DEF r
      <4>1. j - 1 \in 1..Len(r) /\ ~(j - 1 < i) /\ (j - 1) + 1 = j
        BY <3>1, <3>4, <2>1, <2>6
      <4>2. r[j - 1] = s[j]
        BY <4>1, <2>6
      <4> QED BY <4>1, <4>2, <3>1, <2>6 DEF ToSet
    <3> QED BY <3>1, <3>2, <3>3, <3>4, <2>1
  <2>10. e \in ToSet(s)
    BY <2>1 DEF ToSet
  <2> QED BY <2>5, <2>6, <2>7, <2>8, <2>9, <2>10
<1> QED BY <1>1, <1>2

\* The elements of a sequence with one more.
LEMMA AppendToSet ==
  ASSUME NEW S, NEW s \in Seq(S), NEW x \in S
  PROVE  Append(s, x) \in Seq(S) /\ ToSet(Append(s, x)) = ToSet(s) \cup {x}
<1> DEFINE r == Append(s, x)
<1>1. /\ r \in Seq(S) /\ Len(r) = Len(s) + 1 /\ Len(s) \in Nat /\ r[Len(s) + 1] = x
      /\ \A i \in 1..Len(s) : r[i] = s[i]
  OBVIOUS
<1> HIDE DEF r
<1>2. ToSet(r) \subseteq ToSet(s) \cup {x}
  BY <1>1 DEF ToSet
<1>3. ToSet(s) \subseteq ToSet(r) /\ x \in ToSet(r)
  BY <1>1 DEF ToSet
<1> QED BY <1>1, <1>2, <1>3 DEF r


\* The empty function is the empty sequence.
LEMMA EmptyFunction ==
  ASSUME NEW D, NEW R, NEW f \in [D -> R]
  PROVE  f = <<>> <=> D = {}
<1>1. ASSUME D = {} PROVE f = <<>>
  <2>1. <<>> \in [{} -> R]
    OBVIOUS
  <2> QED BY <1>1, <2>1
<1>2. ASSUME f = <<>> PROVE D = {}
  <2>1. DOMAIN f = D /\ DOMAIN <<>> = {}
    OBVIOUS
  <2> QED BY <1>2, <2>1
<1> QED BY <1>1, <1>2


\* The first n elements of a sequence, and of one that is longer.
LEMMA PrefixGrows ==
  ASSUME NEW S, NEW q \in Seq(S), NEW n \in Nat, n < Len(q)
  PROVE  SubSeq(q, 1, n + 1) = Append(SubSeq(q, 1, n), q[n + 1])
  OBVIOUS

\* The prefixes of a sequence are those of its extension.
LEMMA PrefixOfAppend ==
  ASSUME NEW S, NEW q \in Seq(S), NEW t \in S, NEW n \in 0..Len(q)
  PROVE  SubSeq(Append(q, t), 1, n) = SubSeq(q, 1, n)
  OBVIOUS

\* What Append added is last.
LEMMA FrontLastOfAppend ==
  ASSUME NEW S, NEW q \in Seq(S), NEW t \in S
  PROVE  /\ Append(q, t) \in Seq(S) /\ Append(q, t) # <<>>
         /\ Front(Append(q, t)) = q /\ Last(Append(q, t)) = t
  BY DEF Front, Last

\* A bounded set of natural numbers has a greatest element.
LEMMA MaxBounded ==
  ASSUME NEW T \in SUBSET Nat, T # {}, NEW n \in Nat, \A i \in T : i <= n
  PROVE  Max(T) \in T /\ \A i \in T : i <= Max(T)
<1> DEFINE U == {m \in Nat : \A i \in T : i <= m}
<1>1. PICK m \in U : \A j \in U : m <= j
  <2>1. U \in SUBSET Nat /\ n \in U
    OBVIOUS
  <2> HIDE DEF U
  <2> QED BY <2>1, LeastNumber
<1>2. m \in T
  <2> SUFFICES ASSUME m \notin T PROVE FALSE
    OBVIOUS
  <2>1. \A i \in T : i <= m - 1
    BY <1>1
  <2>2. m - 1 \in Nat
    <3>1. PICK i \in T : TRUE
      OBVIOUS
    <3> QED BY <1>1, <2>1, <3>1
  <2>3. m - 1 \in U
    BY <2>1, <2>2
  <2> QED BY <1>1, <2>2, <2>3
<1>3. \E x \in T : \A y \in T : x >= y
  BY <1>1, <1>2
<1>4. Max(T) \in T /\ \A y \in T : Max(T) >= y
  BY <1>3 DEF Max
<1> QED BY <1>4

\* The queue of a lock: the head leaves, somebody new joins at the end.
LEMMA DistinctTail ==
  ASSUME NEW S, NEW q \in Seq(S), q # <<>>, Distinct(q)
  PROVE  /\ Tail(q) \in Seq(S) /\ Distinct(Tail(q)) /\ Head(q) \in ToSet(q)
         /\ ToSet(Tail(q)) = ToSet(q) \ {Head(q)}
<1> DEFINE r == Tail(q)
<1>1. /\ r \in Seq(S) /\ Len(q) \in Nat /\ Len(q) > 0 /\ Len(r) = Len(q) - 1 /\ Head(q) = q[1]
      /\ \A k \in 1..Len(r) : r[k] = q[k + 1]
  OBVIOUS
<1> HIDE DEF r
<1>2. ToSet(q) = {q[k] : k \in 1..Len(q)} /\ ToSet(r) = {r[k] : k \in 1..Len(r)}
  BY <1>1 DEF ToSet
<1>3. Distinct(r)
  BY <1>1 DEF Distinct
<1>4. \A x \in ToSet(r) : x \in ToSet(q) /\ x # Head(q)
  BY <1>1, <1>2 DEF Distinct
<1>5. \A x \in ToSet(q) : x # Head(q) => x \in ToSet(r)
  <2> SUFFICES ASSUME NEW x \in ToSet(q), x # Head(q) PROVE x \in ToSet(r)
    OBVIOUS
  <2>1. PICK k \in 1..Len(q) : x = q[k]
    BY <1>2
  <2>2. k - 1 \in 1..Len(r) /\ r[k - 1] = q[(k - 1) + 1] /\ (k - 1) + 1 = k
    BY <1>1, <2>1
  <2> QED BY <1>2, <2>1, <2>2
<1>6. Head(q) \in ToSet(q)
  BY <1>1, <1>2
<1>7. ToSet(r) = ToSet(q) \ {Head(q)}
  BY <1>4, <1>5
<1> QED BY <1>1, <1>3, <1>6, <1>7 DEF r

\* A new element appended makes no repetition.
LEMMA DistinctAppend ==
  ASSUME NEW S, NEW q \in Seq(S), NEW e \in S, Distinct(q), e \notin ToSet(q)
  PROVE  /\ Append(q, e) \in Seq(S) /\ Distinct(Append(q, e)) /\ Append(q, e) # <<>>
         /\ ToSet(Append(q, e)) = ToSet(q) \cup {e}
         /\ q # <<>> => Head(Append(q, e)) = Head(q)
<1>1. ToSet(Append(q, e)) = ToSet(q) \cup {e}
  BY AppendToSet
<1>2. \A k \in 1..Len(q) : q[k] # e
  BY DEF ToSet
<1>3. Distinct(Append(q, e))
  BY <1>2 DEF Distinct
<1> QED BY <1>1, <1>3

\* Without repetitions there are as many elements as places.
LEMMA DistinctCardinality ==
  ASSUME NEW S, NEW q \in Seq(S), Distinct(q)
  PROVE  IsFiniteSet(ToSet(q)) /\ Cardinality(ToSet(q)) = Len(q)
<1>1. Len(q) \in Nat /\ q \in [1..Len(q) -> ToSet(q)]
  BY DEF ToSet
<1>2. q \in Surjection(1..Len(q), ToSet(q))
  BY <1>1 DEF Surjection, ToSet
<1>3. q \in Injection(1..Len(q), ToSet(q))
  BY <1>1 DEF Injection, IsInjective, Distinct
<1>4. IsFiniteSet(1..Len(q)) /\ Cardinality(1..Len(q)) = Len(q)
  BY <1>1, FS_Interval
<1> QED BY <1>2, <1>3, <1>4, FS_Surjection
=============================================================================
