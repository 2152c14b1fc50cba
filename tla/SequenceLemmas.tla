--------------------------- MODULE SequenceLemmas ---------------------------
(* What RemoveAt, RemoveFirst and SelectInSeq of the community modules return, *)
(* and sums over finite sets.                                                  *)
EXTENDS Integers, SequencesExt, SequenceTheorems, FiniteSetTheorems, WellFoundedInduction, TLAPS

\* RemoveAt drops one element and keeps the others in their order.
LEMMA RemoveAtProperties ==
    ASSUME NEW S, NEW s \in Seq(S), NEW i \in 1 .. Len(s)
    PROVE  /\ RemoveAt(s, i) \in Seq(S)
           /\ Len(RemoveAt(s, i)) = Len(s) - 1
           /\ \A k \in 1 .. i - 1 : RemoveAt(s, i)[k] = s[k]
           /\ \A k \in i .. Len(s) - 1 : RemoveAt(s, i)[k] = s[k + 1]
<1> DEFINE a == SubSeq(s, 1, i - 1)
           b == SubSeq(s, i + 1, Len(s))
<1>1. /\ Len(s) \in Nat
      /\ \A k \in 1 .. Len(s) : s[k] \in S
  BY LenProperties, ElementOfSeq
<1>2. a \in Seq(S) /\ Len(a) = i - 1 /\ \A k \in 1 .. i - 1 : a[k] = s[k]
  <2>1. \A k \in 1 .. i - 1 : s[k] \in S
    BY <1>1
  <2>. QED  BY <1>1, <2>1, SubSeqProperties, Z3
<1>3. b \in Seq(S) /\ Len(b) = Len(s) - i /\ \A k \in 1 .. Len(s) - i : b[k] = s[k + i]
  <2>1. \A k \in i + 1 .. Len(s) : s[k] \in S
    BY <1>1
  <2>. QED  BY <1>1, <2>1, SubSeqProperties, Z3
<1>4. /\ a \o b \in Seq(S)
      /\ Len(a \o b) = Len(a) + Len(b)
      /\ \A k \in 1 .. Len(a) + Len(b) :
            (a \o b)[k] = IF k <= Len(a) THEN a[k] ELSE b[k - Len(a)]
  BY <1>2, <1>3, ConcatProperties
<1>. HIDE DEF a, b
<1>5. RemoveAt(s, i) = a \o b
  BY DEF RemoveAt, a, b
<1>6. Len(a \o b) = Len(s) - 1
  BY <1>1, <1>2, <1>3, <1>4
<1>7. ASSUME NEW k \in 1 .. i - 1
      PROVE  (a \o b)[k] = s[k]
  BY <1>1, <1>2, <1>3, <1>4
<1>8. ASSUME NEW k \in i .. Len(s) - 1
      PROVE  (a \o b)[k] = s[k + 1]
  <2>1. k - (i - 1) \in 1 .. Len(s) - i /\ k - (i - 1) + i = k + 1
    BY <1>1
  <2>2. k \in 1 .. Len(a) + Len(b) /\ ~(k <= Len(a))
    BY <1>1, <1>2, <1>3
  <2>3. (a \o b)[k] = b[k - (i - 1)]
    BY <1>2, <1>4, <2>2
  <2>4. b[k - (i - 1)] = s[(k - (i - 1)) + i]
    BY <1>3, <2>1
  <2>. QED  BY <2>1, <2>3, <2>4
<1>. QED  BY <1>4, <1>5, <1>6, <1>7, <1>8

\* A nonempty set of naturals has a least element.
LEMMA LeastMember ==
    ASSUME NEW I, I \subseteq Nat, I # {}
    PROVE  \E x \in I : \A y \in I : x <= y
<1>1. PICK x \in I : \A y \in I : <<y, x>> \notin OpToRel(<, Nat)
  BY NatLessThanWellFounded, WFMin
<1>2. \A y \in I : ~(y < x)
  BY <1>1 DEF OpToRel
<1>3. \A y \in I : x <= y
  BY <1>2
<1>. QED  BY <1>3

\* Which is what Min finds.
LEMMA MinIsMember ==
    ASSUME NEW I, I \subseteq Nat, I # {}
    PROVE  Min(I) \in I
BY LeastMember DEF Min

\* SelectInSeq finds an element if there is one.
LEMMA SelectInSeqFinds ==
    ASSUME NEW s, Len(s) \in Nat, NEW e, \E i \in 1 .. Len(s) : s[i] = e
    PROVE  /\ SelectInSeq(s, LAMBDA v : v = e) \in 1 .. Len(s)
           /\ s[SelectInSeq(s, LAMBDA v : v = e)] = e
<1> DEFINE I == {i \in 1 .. Len(s) : s[i] = e}
<1>1. I \subseteq Nat /\ I # {}
  OBVIOUS
<1>2. Min(I) \in I
  BY <1>1, MinIsMember
<1>3. SelectInSeq(s, LAMBDA v : v = e) = Min(I)
  BY DEF SelectInSeq
<1>. QED  BY <1>2, <1>3

\* RemoveFirst removes one occurrence of the element, or nothing if there is none.
LEMMA RemoveFirstProperties ==
    ASSUME NEW S, NEW s \in Seq(S), NEW e
    PROVE  /\ RemoveFirst(s, e) \in Seq(S)
           /\ (\A i \in 1 .. Len(s) : s[i] # e) => RemoveFirst(s, e) = s
           /\ (\E i \in 1 .. Len(s) : s[i] = e) =>
                 \E i \in 1 .. Len(s) : s[i] = e /\ RemoveFirst(s, e) = RemoveAt(s, i)
<1> DEFINE n == SelectInSeq(s, LAMBDA v : v = e)
<1>1. CASE \E i \in 1 .. Len(s) : s[i] = e
  <2>1. n \in 1 .. Len(s) /\ s[n] = e
    BY <1>1, SelectInSeqFinds, LenProperties
  <2>2. RemoveFirst(s, e) = RemoveAt(s, n)
    BY <1>1 DEF RemoveFirst
  <2>. HIDE DEF n
  <2>. QED  BY <1>1, <2>1, <2>2, RemoveAtProperties
<1>2. CASE ~ \E i \in 1 .. Len(s) : s[i] = e
  BY <1>2 DEF RemoveFirst
<1>. QED  BY <1>1, <1>2
-----------------------------------------------------------------------------
Holds(s, e) == \E i \in 1 .. Len(s) : s[i] = e
Distinct(s) == \A i, k \in 1 .. Len(s) : s[i] = s[k] => i = k

\* A new element at the end keeps the elements distinct.
LEMMA AppendDistinct ==
    ASSUME NEW S, NEW s \in Seq(S), NEW e \in S
    PROVE  /\ Distinct(s) /\ ~Holds(s, e) => Distinct(Append(s, e))
           /\ \A x : Holds(Append(s, e), x) <=> Holds(s, x) \/ x = e
<1> DEFINE r == Append(s, e)
           n == Len(s)
<1>1. /\ n \in Nat /\ Len(r) = n + 1 /\ r[n + 1] = e
      /\ \A i \in 1 .. n : r[i] = s[i]
  BY AppendProperties, LenProperties
<1>. HIDE DEF r, n
<1>2. ASSUME Distinct(s), ~Holds(s, e)
      PROVE  Distinct(r)
  <2>1. ASSUME NEW i \in 1 .. n + 1, NEW k \in 1 .. n + 1, r[i] = r[k]
        PROVE  i = k
    <3>1. CASE i \in 1 .. n /\ k \in 1 .. n
      BY <1>1, <1>2, <2>1, <3>1 DEF Distinct, n
    <3>2. CASE i = n + 1 /\ k \in 1 .. n
      BY <1>1, <1>2, <2>1, <3>2 DEF Holds, n
    <3>3. CASE i \in 1 .. n /\ k = n + 1
      BY <1>1, <1>2, <2>1, <3>3 DEF Holds, n
    <3>. QED  BY <1>1, <3>1, <3>2, <3>3
  <2>. QED  BY <1>1, <2>1 DEF Distinct
<1>3. ASSUME NEW x
      PROVE  Holds(r, x) <=> Holds(s, x) \/ x = e
  <2>1. Holds(r, x) => Holds(s, x) \/ x = e
    BY <1>1 DEF Holds, n
  <2>2. Holds(s, x) => Holds(r, x)
    <3>1. \A i \in 1 .. n : i \in 1 .. n + 1
      BY <1>1
    <3>. QED  BY <1>1, <3>1 DEF Holds, n
  <2>3. x = e => Holds(r, x)
    BY <1>1 DEF Holds
  <2>. QED  BY <2>1, <2>2, <2>3
<1>. QED  BY <1>2, <1>3 DEF r

\* Removing one of distinct elements leaves exactly the others.
LEMMA RemoveAtDistinct ==
    ASSUME NEW S, NEW s \in Seq(S), NEW i \in 1 .. Len(s), Distinct(s)
    PROVE  /\ Distinct(RemoveAt(s, i))
           /\ \A x : Holds(RemoveAt(s, i), x) <=> Holds(s, x) /\ x # s[i]
<1> DEFINE r == RemoveAt(s, i)
           n == Len(s)
           from(k) == IF k < i THEN k ELSE k + 1
<1>1. /\ n \in Nat /\ i \in 1 .. n /\ Len(r) = n - 1
      /\ \A k \in 1 .. i - 1 : r[k] = s[k]
      /\ \A k \in i .. n - 1 : r[k] = s[k + 1]
  BY RemoveAtProperties, LenProperties
<1>. HIDE DEF r, n
<1>2. \A k \in 1 .. n - 1 : from(k) \in 1 .. n /\ from(k) # i /\ r[k] = s[from(k)]
  BY <1>1
<1>3. \A k, m \in 1 .. n - 1 : from(k) = from(m) => k = m
  BY <1>1
<1>4. ASSUME NEW m \in 1 .. n, m # i
      PROVE  \E k \in 1 .. n - 1 : from(k) = m
  <2>1. CASE m < i
    BY <1>1, <2>1
  <2>2. CASE m > i
    <3>1. m - 1 \in 1 .. n - 1 /\ from(m - 1) = m
      BY <1>1, <2>2
    <3>. QED  BY <3>1
  <2>. QED  BY <1>1, <1>4, <2>1, <2>2
<1>. HIDE DEF from
<1>5. \A k, m \in 1 .. n : s[k] = s[m] => k = m
  BY DEF Distinct, n
<1>6. Distinct(r)
  BY <1>1, <1>2, <1>3, <1>5 DEF Distinct
<1>7. ASSUME NEW x
      PROVE  Holds(r, x) <=> Holds(s, x) /\ x # s[i]
  <2>1. Holds(r, x) <=> \E k \in 1 .. n - 1 : r[k] = x
    BY <1>1 DEF Holds
  <2>2. Holds(s, x) <=> \E m \in 1 .. n : s[m] = x
    BY DEF Holds, n
  <2>3. Holds(r, x) => Holds(s, x) /\ x # s[i]
    <3>1. ASSUME NEW k \in 1 .. n - 1, r[k] = x
          PROVE  s[from(k)] = x /\ from(k) \in 1 .. n /\ x # s[i]
      BY <1>1, <1>2, <1>5, <3>1
    <3>. QED  BY <2>1, <2>2, <3>1
  <2>4. Holds(s, x) /\ x # s[i] => Holds(r, x)
    BY <1>2, <1>4, <2>1, <2>2
  <2>. QED  BY <2>3, <2>4
<1>. QED  BY <1>6, <1>7 DEF r

\* RemoveFirst on distinct elements removes the element altogether.
LEMMA RemoveFirstDistinct ==
    ASSUME NEW S, NEW s \in Seq(S), NEW e, Distinct(s)
    PROVE  /\ Distinct(RemoveFirst(s, e))
           /\ \A x : Holds(RemoveFirst(s, e), x) <=> Holds(s, x) /\ x # e
<1>1. CASE Holds(s, e)
  <2>1. PICK i \in 1 .. Len(s) : s[i] = e /\ RemoveFirst(s, e) = RemoveAt(s, i)
    BY <1>1, RemoveFirstProperties DEF Holds
  <2>. QED  BY <2>1, RemoveAtDistinct
<1>2. CASE ~Holds(s, e)
  BY <1>2, RemoveFirstProperties DEF Holds
<1>. QED  BY <1>1, <1>2

\* Two sequences of distinct elements with none in common, one after the other.
LEMMA ConcatDistinct ==
    ASSUME NEW S, NEW s \in Seq(S), NEW t \in Seq(S)
    PROVE  /\ Distinct(s) /\ Distinct(t) /\ (\A x \in S : ~(Holds(s, x) /\ Holds(t, x))) => Distinct(s \o t)
           /\ \A x : Holds(s \o t, x) <=> Holds(s, x) \/ Holds(t, x)
<1> DEFINE r == s \o t
           n == Len(s)
           m == Len(t)
<1>1. /\ n \in Nat /\ m \in Nat /\ Len(r) = n + m
      /\ \A i \in 1 .. n + m : r[i] = IF i <= n THEN s[i] ELSE t[i - n]
  BY ConcatProperties, LenProperties
<1>2. (\A i \in 1 .. n : s[i] \in S) /\ (\A i \in 1 .. m : t[i] \in S)
  BY ElementOfSeq
<1>. HIDE DEF r
<1>3. ASSUME Distinct(s), Distinct(t), \A x \in S : ~(Holds(s, x) /\ Holds(t, x))
      PROVE  Distinct(r)
  <2>1. ASSUME NEW i \in 1 .. n + m, NEW k \in 1 .. n + m, r[i] = r[k]
        PROVE  i = k
    <3>. USE <1>1, <2>1
    <3>1. CASE i <= n /\ k <= n
      <4>1. i \in 1 .. n /\ k \in 1 .. n /\ s[i] = s[k]
        BY <3>1
      <4>. QED  BY <1>3, <4>1 DEF Distinct
    <3>2. CASE i > n /\ k > n
      <4>1. i - n \in 1 .. m /\ k - n \in 1 .. m /\ t[i - n] = t[k - n]
        BY <3>2
      <4>2. i - n = k - n
        BY <1>3, <4>1 DEF Distinct
      <4>. QED  BY <4>2
    <3>3. CASE i <= n /\ k > n
      <4>1. i \in 1 .. n /\ k - n \in 1 .. m /\ s[i] = t[k - n]
        BY <3>3
      <4>. QED  BY <1>2, <1>3, <4>1 DEF Holds
    <3>4. CASE i > n /\ k <= n
      <4>1. k \in 1 .. n /\ i - n \in 1 .. m /\ s[k] = t[i - n]
        BY <3>4
      <4>. QED  BY <1>2, <1>3, <4>1 DEF Holds
    <3>. QED  BY <3>1, <3>2, <3>3, <3>4
  <2>. QED  BY <1>1, <2>1 DEF Distinct
<1>4. ASSUME NEW x
      PROVE  Holds(r, x) <=> Holds(s, x) \/ Holds(t, x)
  <2>1. ASSUME NEW i \in 1 .. n + m, r[i] = x
        PROVE  Holds(s, x) \/ Holds(t, x)
    <3>1. CASE i <= n
      BY <1>1, <2>1, <3>1 DEF Holds
    <3>2. CASE i > n
      <4>1. i - n \in 1 .. m /\ t[i - n] = x
        BY <1>1, <2>1, <3>2
      <4>. QED  BY <4>1 DEF Holds
    <3>. QED  BY <1>1, <3>1, <3>2
  <2>2. ASSUME NEW i \in 1 .. n, s[i] = x
        PROVE  Holds(r, x)
    <3>1. i \in 1 .. n + m /\ r[i] = x
      BY <1>1, <2>2
    <3>. QED  BY <1>1, <3>1 DEF Holds
  <2>3. ASSUME NEW i \in 1 .. m, t[i] = x
        PROVE  Holds(r, x)
    <3>1. i + n \in 1 .. n + m /\ r[i + n] = x
      BY <1>1, <2>3
    <3>. QED  BY <1>1, <3>1 DEF Holds
  <2>. QED  BY <1>1, <2>1, <2>2, <2>3 DEF Holds
<1>. QED  BY <1>3, <1>4 DEF r

\* The elements as a set.
LEMMA ToSetHolds ==
    ASSUME NEW S, NEW s \in Seq(S)
    PROVE  /\ ToSet(s) \subseteq S
           /\ \A x : x \in ToSet(s) <=> Holds(s, x)
           /\ \A x : Holds(s, x) => x \in S
<1>1. DOMAIN s = 1 .. Len(s) /\ \A i \in 1 .. Len(s) : s[i] \in S
  BY LenProperties, ElementOfSeq
<1>. QED  BY <1>1 DEF ToSet, Holds
-----------------------------------------------------------------------------
(* Sums over finite sets. *)

\* f gives the sum of w over each subset of S, as MapThenFoldSet computes it.
Picked(s) == CHOOSE x \in s : TRUE
IsSum(f, S, w) == f = [s \in SUBSET S |-> IF s = {} THEN 0 ELSE w[Picked(s)] + f[s \ {Picked(s)}]]

\* CHOOSE finds an element of a set that has one.
LEMMA PickedIsIn ==
    ASSUME NEW s, s # {}
    PROVE  Picked(s) \in s
BY DEF Picked

\* A subset of a finite set has one element less without any of its own.
LEMMA Smaller ==
    ASSUME NEW S, IsFiniteSet(S), NEW s \in SUBSET S, NEW x \in s
    PROVE  /\ IsFiniteSet(s) /\ Cardinality(s) \in Nat \ {0} /\ Cardinality(s \ {x}) = Cardinality(s) - 1
           /\ s \ {x} \in SUBSET S
<1>1. IsFiniteSet(s)
  BY FS_Subset
<1>2. Cardinality(s) \in Nat /\ Cardinality(s) # 0
  BY <1>1, FS_CardinalityType, FS_EmptySet
<1>3. Cardinality(s \ {x}) = Cardinality(s) - 1
  BY <1>1, FS_RemoveElement
<1>. QED  BY <1>1, <1>2, <1>3

\* There are such sums over the subsets of a finite set.
LEMMA SumExists ==
    ASSUME NEW S, IsFiniteSet(S), NEW w
    PROVE  \E f : IsSum(f, S, w)
<1>. DEFINE N == Cardinality(S)
            Part(n) == {s \in SUBSET S : Cardinality(s) <= n}
            Sums(f, D) == f = [s \in D |-> IF s = {} THEN 0 ELSE w[Picked(s)] + f[s \ {Picked(s)}]]
            Good(n) == \E f : Sums(f, Part(n))
            Bad == {n \in 0 .. N : ~Good(n)}
<1>0. N \in Nat /\ \A s \in SUBSET S : IsFiniteSet(s) /\ Cardinality(s) \in Nat /\ Cardinality(s) <= N
  BY FS_CardinalityType, FS_Subset
<1>1. Good(0)
  <2>1. Part(0) = {{}}
    <3>1. ASSUME NEW s \in SUBSET S, Cardinality(s) <= 0 PROVE s = {}
      BY <1>0, <3>1, FS_EmptySet
    <3>2. Cardinality({}) <= 0
      BY FS_EmptySet
    <3>. QED  BY <3>1, <3>2
  <2>. DEFINE e == [s \in {{}} |-> 0]
  <2>2. Sums(e, {{}})
    OBVIOUS
  <2>. QED  BY <2>1, <2>2
<1>2. ASSUME NEW m \in 1 .. N, Good(m - 1)
      PROVE  Good(m)
  <2>1. PICK f : Sums(f, Part(m - 1))
    BY <1>2
  <2>. DEFINE g == [s \in Part(m) |-> IF s = {} THEN 0 ELSE w[Picked(s)] + f[s \ {Picked(s)}]]
  <2>2. ASSUME NEW s \in Part(m), s # {}
        PROVE  s \ {Picked(s)} \in Part(m - 1)
    <3>1. /\ Cardinality(s) \in Nat /\ Cardinality(s) <= m /\ Cardinality(s \ {Picked(s)}) = Cardinality(s) - 1
          /\ s \ {Picked(s)} \in SUBSET S
      BY <2>2, PickedIsIn, Smaller
    <3>2. Cardinality(s \ {Picked(s)}) <= m - 1
      BY <1>0, <3>1
    <3>. QED  BY <3>1, <3>2
  <2>3. ASSUME NEW s \in Part(m - 1) PROVE s \in Part(m)
    <3>1. s \in SUBSET S /\ Cardinality(s) <= m - 1 /\ Cardinality(s) \in Nat
      BY <1>0
    <3>2. Cardinality(s) <= m
      BY <1>0, <3>1
    <3>. QED  BY <3>1, <3>2
  <2>4. ASSUME NEW s \in Part(m - 1)
        PROVE  g[s] = f[s]
    <3>. HIDE DEF Part
    <3>. QED  BY <2>1, <2>3, <2>4
  <2>5. Sums(g, Part(m))
    <3>. HIDE DEF Part
    <3>. QED  BY <2>2, <2>4
  <2>. HIDE DEF Sums, g, Part
  <2>. QED  BY <2>5
<1>3. Bad = {}
  <2>. HIDE DEF Good
  <2>1. SUFFICES ASSUME Bad # {} PROVE FALSE
    OBVIOUS
  <2>2. PICK m \in Bad : \A k \in Bad : m <= k
    <3>1. Bad \subseteq Nat
      BY <1>0
    <3>. HIDE DEF Bad
    <3>. QED  BY <2>1, <3>1, LeastMember
  <2>3. m \in 1 .. N /\ m - 1 \in 0 .. N /\ ~(m <= m - 1)
    BY <1>0, <1>1, <2>2
  <2>4. Good(m - 1)
    BY <2>2, <2>3
  <2>. QED  BY <1>2, <2>2, <2>3, <2>4
<1>4. Part(N) = SUBSET S
  BY <1>0
<1>5. Good(N)
  <2>. HIDE DEF Good
  <2>. QED  BY <1>0, <1>3
<1>. QED  BY <1>4, <1>5 DEF IsSum

\* Whatever element is taken out, the rest adds up to what is left.
LEMMA SumWithout ==
    ASSUME NEW S, IsFiniteSet(S), NEW w \in [S -> Nat], NEW f, IsSum(f, S, w)
    PROVE  \A s \in SUBSET S : f[s] \in Nat /\ \A x \in s : f[s] = w[x] + f[s \ {x}]
<1>. DEFINE N == Cardinality(S)
            Fair(s) == f[s] \in Nat /\ \A x \in s : f[s] = w[x] + f[s \ {x}]
            Bad == {n \in 0 .. N : \E s \in SUBSET S : Cardinality(s) = n /\ ~Fair(s)}
<1>0. N \in Nat /\ \A s \in SUBSET S : IsFiniteSet(s) /\ Cardinality(s) \in 0 .. N
  BY FS_CardinalityType, FS_Subset
<1>1. \A s \in SUBSET S : f[s] = IF s = {} THEN 0 ELSE w[Picked(s)] + f[s \ {Picked(s)}]
  BY DEF IsSum
<1>2. ASSUME NEW s \in SUBSET S, \A t \in SUBSET S : Cardinality(t) < Cardinality(s) => Fair(t)
      PROVE  Fair(s)
  <2>1. CASE s = {}
    <3>1. f[s] = 0
      BY <1>1, <2>1
    <3>. QED  BY <2>1, <3>1
  <2>2. CASE s # {}
    <3>. DEFINE y == Picked(s)
    <3>1. y \in s /\ y \in S /\ w[y] \in Nat
      BY <2>2, PickedIsIn
    <3>. HIDE DEF y
    <3>2. f[s] = w[y] + f[s \ {y}]
      BY <1>1, <2>2 DEF y
    <3>3. \A x \in s : s \ {x} \in SUBSET S /\ Cardinality(s \ {x}) < Cardinality(s)
      <4>1. ASSUME NEW x \in s PROVE s \ {x} \in SUBSET S /\ Cardinality(s \ {x}) < Cardinality(s)
        <5>1. s \ {x} \in SUBSET S /\ Cardinality(s) \in Nat /\ Cardinality(s \ {x}) = Cardinality(s) - 1
          BY Smaller
        <5>. QED  BY <5>1
      <4>. QED  BY <4>1
    <3>4. \A x \in s : Fair(s \ {x})
      <4>. HIDE DEF Fair
      <4>. QED  BY <1>2, <3>3
    <3>5. f[s] \in Nat
      BY <3>1, <3>2, <3>4
    <3>6. ASSUME NEW x \in s, x # y PROVE f[s] = w[x] + f[s \ {x}]
      <4>. DEFINE r == (s \ {x}) \ {y}
      <4>1. r = (s \ {y}) \ {x}
        OBVIOUS
      <4>2. f[s \ {y}] = w[x] + f[r] /\ f[s \ {x}] = w[y] + f[r]
        BY <3>1, <3>4, <3>6, <4>1
      <4>3. f[r] \in Nat /\ w[x] \in Nat
        <5>1. r \in SUBSET S /\ Cardinality(r) < Cardinality(s)
          <6>1. y \in s \ {x} /\ s \ {x} \in SUBSET S
            BY <3>1, <3>6
          <6>2. Cardinality(r) = Cardinality(s \ {x}) - 1 /\ Cardinality(s \ {x}) \in Nat
            BY <6>1, Smaller
          <6>3. Cardinality(s \ {x}) = Cardinality(s) - 1 /\ Cardinality(s) \in Nat
            BY Smaller
          <6>. HIDE DEF r
          <6>4. Cardinality(r) < Cardinality(s)
            BY <6>2, <6>3
          <6>. QED  BY <6>4 DEF r
        <5>. HIDE DEF r
        <5>2. Fair(r)
          <6>. HIDE DEF Fair
          <6>. QED  BY <1>2, <5>1
        <5>. QED  BY <5>2
      <4>. HIDE DEF r
      <4>. QED  BY <3>1, <3>2, <4>2, <4>3
    <3>. QED  BY <3>2, <3>5, <3>6
  <2>. QED  BY <2>1, <2>2
<1>. HIDE DEF Fair
<1>3. Bad = {}
  <2>1. SUFFICES ASSUME Bad # {} PROVE FALSE
    OBVIOUS
  <2>2. PICK m \in Bad : \A k \in Bad : m <= k
    <3>1. Bad \subseteq Nat
      BY <1>0
    <3>. HIDE DEF Bad
    <3>. QED  BY <2>1, <3>1, LeastMember
  <2>3. PICK s \in SUBSET S : Cardinality(s) = m /\ ~Fair(s)
    BY <2>2
  <2>4. ASSUME NEW t \in SUBSET S, Cardinality(t) < Cardinality(s) PROVE Fair(t)
    <3>1. Cardinality(t) \in 0 .. N /\ Cardinality(t) < m /\ m \in 0 .. N
      BY <1>0, <2>2, <2>3, <2>4
    <3>2. ~(m <= Cardinality(t))
      BY <1>0, <3>1
    <3>. QED  BY <2>2, <3>1, <3>2
  <2>. QED  BY <1>2, <2>3, <2>4
<1>. QED  BY <1>0, <1>3 DEF Fair

\* f gives the sums of w over the subsets of the finite set S.
Totals(f, S, w) == IsFiniteSet(S) /\ w \in [S -> Nat] /\ IsSum(f, S, w)

\* What SumWithout says of them.
LEMMA TotalsAdd ==
    ASSUME NEW S, NEW w, NEW f, Totals(f, S, w)
    PROVE  /\ f[{}] = 0
           /\ \A s \in SUBSET S : f[s] \in Nat /\ \A x \in s : f[s] = w[x] + f[s \ {x}] /\ w[x] \in Nat
<1>1. f[{}] = 0
  <2>1. \A s \in SUBSET S : f[s] = IF s = {} THEN 0 ELSE w[Picked(s)] + f[s \ {Picked(s)}]
    BY DEF IsSum, Totals
  <2>2. {} \in SUBSET S
    OBVIOUS
  <2>. QED  BY <2>1, <2>2
<1>2. \A s \in SUBSET S : f[s] \in Nat /\ \A x \in s : f[s] = w[x] + f[s \ {x}]
  BY SumWithout DEF Totals
<1>. QED  BY <1>1, <1>2 DEF Totals

\* One element taken out of the whole.
LEMMA TotalWithout ==
    ASSUME NEW S, NEW w, NEW f, Totals(f, S, w), NEW a \in S
    PROVE  f[S] = w[a] + f[S \ {a}] /\ f[S \ {a}] \in Nat /\ w[a] \in Nat
<1>1. S \in SUBSET S /\ S \ {a} \in SUBSET S
  OBVIOUS
<1>2. \A s \in SUBSET S : f[s] \in Nat /\ \A x \in s : f[s] = w[x] + f[s \ {x}] /\ w[x] \in Nat
  BY TotalsAdd
<1>. QED  BY <1>1, <1>2

\* h gives the elements of A other names, those of B.
Renames(h, A, B) ==
    /\ h \in [A -> B]
    /\ \A x, y \in A : h[x] = h[y] => x = y
    /\ \A z \in B : \E x \in A : h[x] = z

\* A sum stays what it is when its elements take other names.
LEMMA SumMoves ==
    ASSUME NEW S, NEW v, NEW f, Totals(f, S, v), NEW T, NEW w, NEW g, Totals(g, T, w),
           NEW A \in SUBSET S, NEW B \in SUBSET T, NEW h, Renames(h, A, B),
           \A x \in A : w[h[x]] = v[x]
    PROVE  g[B] = f[A]
<1>. DEFINE N == Cardinality(A)
            Named(a) == {h[x] : x \in a}
            Bad == {n \in 0 .. N : \E a \in SUBSET A : Cardinality(a) = n /\ g[Named(a)] # f[a]}
<1>0. IsFiniteSet(A)
  BY FS_Subset DEF Totals
<1>1. N \in Nat /\ \A a \in SUBSET A : IsFiniteSet(a) /\ Cardinality(a) \in 0 .. N
  BY <1>0, FS_CardinalityType, FS_Subset
<1>2. f[{}] = 0 /\ g[{}] = 0
  BY TotalsAdd
<1>3. \A a \in SUBSET S : f[a] \in Nat /\ \A x \in a : f[a] = v[x] + f[a \ {x}]
  BY TotalsAdd
<1>4. \A b \in SUBSET T : g[b] \in Nat /\ \A z \in b : g[b] = w[z] + g[b \ {z}]
  BY TotalsAdd
<1>5. Bad = {}
  <2>1. SUFFICES ASSUME Bad # {} PROVE FALSE
    OBVIOUS
  <2>2. PICK m \in Bad : \A k \in Bad : m <= k
    <3>1. Bad \subseteq Nat
      BY <1>1
    <3>. HIDE DEF Bad
    <3>. QED  BY <2>1, <3>1, LeastMember
  <2>3. PICK a \in SUBSET A : Cardinality(a) = m /\ g[Named(a)] # f[a]
    BY <2>2
  <2>4. a # {}
    <3>1. Named({}) = {}
      OBVIOUS
    <3>. HIDE DEF Named
    <3>. QED  BY <1>2, <2>3, <3>1
  <2>5. PICK x \in a : TRUE
    BY <2>4
  <2>6. Named(a) \in SUBSET T /\ h[x] \in Named(a) /\ Named(a) \ {h[x]} = Named(a \ {x})
    BY DEF Renames
  <2>7. f[a] = v[x] + f[a \ {x}] /\ g[Named(a)] = w[h[x]] + g[Named(a \ {x})] /\ w[h[x]] = v[x]
    <3>1. a \in SUBSET S /\ x \in A /\ x \in a
      OBVIOUS
    <3>. HIDE DEF Named
    <3>2. f[a] = v[x] + f[a \ {x}]
      BY <1>3, <3>1
    <3>3. g[Named(a)] = w[h[x]] + g[Named(a) \ {h[x]}]
      BY <1>4, <2>6
    <3>4. w[h[x]] = v[x]
      BY <3>1
    <3>. QED  BY <2>6, <3>2, <3>3, <3>4
  <2>8. a \ {x} \in SUBSET A /\ Cardinality(a \ {x}) = m - 1 /\ m \in 1 .. N
    <3>1. Cardinality(a) \in Nat \ {0} /\ Cardinality(a \ {x}) = Cardinality(a) - 1 /\ a \ {x} \in SUBSET A
      BY <1>0, Smaller
    <3>. HIDE DEF Named
    <3>. QED  BY <1>1, <2>2, <2>3, <3>1
  <2>9. g[Named(a \ {x})] # f[a \ {x}]
    <3>. HIDE DEF Named
    <3>. QED  BY <2>3, <2>7
  <2>10. m - 1 \in Bad /\ ~(m <= m - 1)
    <3>. HIDE DEF Named
    <3>. QED  BY <1>1, <2>8, <2>9
  <2>. HIDE DEF Bad
  <2>. QED  BY <2>2, <2>10
<1>6. Named(A) = B
  BY DEF Renames
<1>7. N \in 0 .. N /\ A \in SUBSET A
  BY <1>1
<1>. HIDE DEF Named
<1>. QED  BY <1>3, <1>5, <1>6, <1>7
=============================================================================
