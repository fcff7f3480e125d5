--------------------------- MODULE Recency_proofs ---------------------------
(***************************************************************************)
(* What the orders of keys in plugin/store.go and plugin/intercept.go      *)
(* preserve, for sequences of any length.                                  *)
(***************************************************************************)
EXTENDS Recency, FiniteSetTheorems, FunctionTheorems, SequenceTheorems, TLAPS

(* No key occurs twice. *)
Distinct(order) == \A i, j \in 1..Len(order) : order[i] = order[j] => i = j

(* A key removed from an order of distinct keys is gone from it, and no    *)
(* other is (ForScope's hit, store.go:300; delete of a stream key).        *)
LEMMA WithoutIs ==
    ASSUME NEW S, NEW order \in Seq(S), Distinct(order), NEW k
    PROVE  /\ Without(order, k) \in Seq(S)
           /\ Distinct(Without(order, k))
           /\ InOrder(Without(order, k)) = InOrder(order) \ {k}
           /\ Len(Without(order, k)) = IF k \in InOrder(order) THEN Len(order) - 1 ELSE Len(order)
<1>1. CASE k \in InOrder(order)
  <2> DEFINE n  == Len(order)
             at == CHOOSE i \in 1..n : order[i] = k
             w  == Without(order, k)
  <2>1. n \in Nat /\ at \in 1..n /\ order[at] = k
    BY <1>1 DEF InOrder
  <2>2. w = SubSeq(order, 1, at - 1) \o SubSeq(order, at + 1, n)
    BY <1>1 DEF Without
  <2> HIDE DEF at, n, w
  <2>3. n = Len(order)
    BY DEF n
  <2>4. /\ SubSeq(order, 1, at - 1) \in Seq(S)
        /\ Len(SubSeq(order, 1, at - 1)) = at - 1
    BY <2>1, <2>3
  <2>5. \A i \in 1..(at - 1) : SubSeq(order, 1, at - 1)[i] = order[i]
    BY <2>1, <2>3
  <2>6. /\ SubSeq(order, at + 1, n) \in Seq(S)
        /\ Len(SubSeq(order, at + 1, n)) = n - at
    BY <2>1, <2>3
  <2>7. \A i \in 1..(n - at) : SubSeq(order, at + 1, n)[i] = order[i + at]
    BY <2>1, <2>3
  <2>8. w \in Seq(S) /\ Len(w) = n - 1
    BY <2>1, <2>2, <2>4, <2>6
  <2>9. \A i \in 1..(n - 1) : w[i] = IF i < at THEN order[i] ELSE order[i + 1]
    <3> SUFFICES ASSUME NEW i \in 1..(n - 1) PROVE w[i] = IF i < at THEN order[i] ELSE order[i + 1]
      OBVIOUS
    <3>1. CASE i < at
      BY <2>1, <2>2, <2>4, <2>5, <2>6, <3>1
    <3>2. CASE i >= at
      <4>1. i - (at - 1) \in 1..(n - at) /\ i - (at - 1) + at = i + 1
        BY <2>1, <3>2
      <4>2. w[i] = SubSeq(order, at + 1, n)[i - (at - 1)]
        <5> DEFINE old == SubSeq(order, 1, at - 1)
                   new == SubSeq(order, at + 1, n)
        <5>1. /\ w = old \o new /\ old \in Seq(S) /\ new \in Seq(S)
              /\ Len(old) = at - 1 /\ Len(new) = n - at
          BY <2>2, <2>4, <2>6
        <5> HIDE DEF old, new
        <5>2. w[i] = new[i - Len(old)]
          BY <2>1, <3>2, <5>1
        <5> QED BY <5>1, <5>2 DEF new
      <4> QED BY <2>1, <2>7, <3>2, <4>1, <4>2
    <3> QED BY <2>1, <3>1, <3>2
  <2>10. Distinct(w)
    <3> SUFFICES ASSUME NEW i \in 1..(n - 1), NEW j \in 1..(n - 1), w[i] = w[j] PROVE i = j
      BY <2>8 DEF Distinct
    <3> DEFINE up(x) == IF x < at THEN x ELSE x + 1
    <3>1. up(i) \in 1..n /\ up(j) \in 1..n /\ order[up(i)] = order[up(j)]
      BY <2>1, <2>9
    <3>2. up(i) = up(j)
      BY <2>3, <3>1 DEF Distinct
    <3> QED BY <2>1, <3>2
  <2>11. InOrder(w) \subseteq InOrder(order) \ {k}
    <3> SUFFICES ASSUME NEW i \in 1..(n - 1) PROVE w[i] \in InOrder(order) \ {k}
      BY <2>8 DEF InOrder
    <3> DEFINE m == IF i < at THEN i ELSE i + 1
    <3>1. m \in 1..n /\ m # at /\ w[i] = order[m]
      BY <2>1, <2>9
    <3> HIDE DEF m
    <3>2. order[m] # k
      BY <2>1, <2>3, <3>1 DEF Distinct
    <3> QED BY <2>3, <3>1, <3>2 DEF InOrder
  <2>12. InOrder(order) \ {k} \subseteq InOrder(w)
    <3> SUFFICES ASSUME NEW m \in 1..n, order[m] # k PROVE order[m] \in InOrder(w)
      BY <2>3 DEF InOrder
    <3> DEFINE i == IF m < at THEN m ELSE m - 1
    <3>1. i \in 1..(n - 1) /\ w[i] = order[m]
      <4>1. m # at
        BY <2>1
      <4> QED BY <2>1, <2>9, <4>1
    <3> HIDE DEF i
    <3> QED BY <2>8, <3>1 DEF InOrder
  <2>13. w \in Seq(S) /\ Distinct(w) /\ InOrder(w) = InOrder(order) \ {k} /\ Len(w) = Len(order) - 1
    BY <2>3, <2>8, <2>10, <2>11, <2>12
  <2> QED BY <1>1, <2>13 DEF w
<1>2. CASE k \notin InOrder(order)
  BY <1>2 DEF Without
<1> QED BY <1>1, <1>2

(* A new key at the recent end leaves an order of distinct keys.           *)
LEMMA AppendIs ==
    ASSUME NEW S, NEW order \in Seq(S), Distinct(order), NEW k \in S, k \notin InOrder(order)
    PROVE  /\ Append(order, k) \in Seq(S)
           /\ Distinct(Append(order, k))
           /\ InOrder(Append(order, k)) = InOrder(order) \cup {k}
           /\ Len(Append(order, k)) = Len(order) + 1
<1> DEFINE a == Append(order, k)
           n == Len(order)
<1>1. n \in Nat /\ a \in Seq(S) /\ Len(a) = n + 1 /\ a[n + 1] = k
  OBVIOUS
<1>2. \A i \in 1..n : a[i] = order[i]
  OBVIOUS
<1> HIDE DEF a
<1>3. Distinct(a)
  BY <1>1, <1>2 DEF Distinct, InOrder
<1>4. InOrder(a) \subseteq InOrder(order) \cup {k}
  BY <1>1, <1>2 DEF InOrder
<1>5. InOrder(order) \cup {k} \subseteq InOrder(a)
  <2>1. ASSUME NEW i \in 1..n PROVE order[i] \in InOrder(a)
    BY <1>1, <1>2 DEF InOrder
  <2>2. k \in InOrder(a)
    BY <1>1 DEF InOrder
  <2> QED BY <2>1, <2>2 DEF InOrder
<1>6. a \in Seq(S) /\ Distinct(a) /\ InOrder(a) = InOrder(order) \cup {k} /\ Len(a) = Len(order) + 1
  BY <1>1, <1>3, <1>4, <1>5
<1> QED BY <1>6 DEF a

(* Dropping the n oldest keys drops those and no other.                    *)
LEMMA SuffixIs ==
    ASSUME NEW S, NEW order \in Seq(S), Distinct(order), NEW n \in 0..Len(order)
    PROVE  /\ SubSeq(order, n + 1, Len(order)) \in Seq(S)
           /\ Distinct(SubSeq(order, n + 1, Len(order)))
           /\ InOrder(SubSeq(order, n + 1, Len(order))) = InOrder(order) \ {order[i] : i \in 1..n}
           /\ Len(SubSeq(order, n + 1, Len(order))) = Len(order) - n
<1> DEFINE s == SubSeq(order, n + 1, Len(order))
           m == Len(order)
<1>1. m \in Nat /\ s \in Seq(S) /\ Len(s) = m - n
  OBVIOUS
<1>2. \A i \in 1..(m - n) : s[i] = order[i + n]
  OBVIOUS
<1>3. m = Len(order)
  OBVIOUS
<1> HIDE DEF s, m
<1>4. Distinct(s)
  <2> SUFFICES ASSUME NEW i \in 1..(m - n), NEW j \in 1..(m - n), s[i] = s[j] PROVE i = j
    BY <1>1 DEF Distinct
  <2>1. i + n \in 1..m /\ j + n \in 1..m /\ order[i + n] = order[j + n]
    BY <1>1, <1>2
  <2>2. i + n = j + n
    BY <1>3, <2>1 DEF Distinct
  <2> QED BY <2>2
<1>5. InOrder(s) \subseteq InOrder(order) \ {order[i] : i \in 1..n}
  <2> SUFFICES ASSUME NEW i \in 1..(m - n) PROVE s[i] \in InOrder(order) \ {order[j] : j \in 1..n}
    BY <1>1 DEF InOrder
  <2>1. i + n \in 1..m /\ s[i] = order[i + n]
    BY <1>1, <1>2
  <2>2. ASSUME NEW j \in 1..n PROVE order[j] # order[i + n]
    <3>1. j \in 1..m /\ j # i + n
      BY <1>1, <1>3
    <3> QED BY <1>3, <2>1, <3>1 DEF Distinct
  <2> QED BY <1>3, <2>1, <2>2 DEF InOrder
<1>6. InOrder(order) \ {order[i] : i \in 1..n} \subseteq InOrder(s)
  <2> SUFFICES ASSUME NEW j \in 1..m, order[j] \notin {order[i] : i \in 1..n} PROVE order[j] \in InOrder(s)
    BY <1>3 DEF InOrder
  <2>1. j \notin 1..n
    OBVIOUS
  <2>2. j - n \in 1..(m - n) /\ (j - n) + n = j
    BY <1>1, <1>3, <2>1
  <2>3. s[j - n] = order[j]
    BY <1>2, <2>2
  <2> QED BY <1>1, <2>2, <2>3 DEF InOrder
<1>7. s \in Seq(S) /\ Distinct(s) /\ InOrder(s) = InOrder(order) \ {order[i] : i \in 1..n} /\ Len(s) = Len(order) - n
  BY <1>1, <1>3, <1>4, <1>5, <1>6
<1> QED BY <1>7 DEF s

LEMMA EmptyIs == Distinct(<< >>) /\ InOrder(<< >>) = {} /\ Len(<< >>) = 0
BY DEF Distinct, InOrder

(* In an order of distinct keys each key is counted once or not at all.    *)
LEMMA CountIs ==
    ASSUME NEW S, NEW order \in Seq(S), Distinct(order), NEW k
    PROVE  Cardinality({i \in 1..Len(order) : order[i] = k}) = IF k \in InOrder(order) THEN 1 ELSE 0
<1>1. CASE k \in InOrder(order)
  <2>1. PICK i \in 1..Len(order) : order[i] = k
    BY <1>1 DEF InOrder
  <2>2. {j \in 1..Len(order) : order[j] = k} = {i}
    BY <2>1 DEF Distinct
  <2> QED BY <1>1, <2>2, FS_Singleton
<1>2. CASE k \notin InOrder(order)
  <2>1. {j \in 1..Len(order) : order[j] = k} = {}
    BY <1>2 DEF InOrder
  <2> QED BY <1>2, <2>1, FS_EmptySet
<1> QED BY <1>1, <1>2

(* An order of distinct keys is as long as its keys are many.              *)
LEMMA LengthIs ==
    ASSUME NEW S, NEW order \in Seq(S), Distinct(order)
    PROVE  IsFiniteSet(InOrder(order)) /\ Cardinality(InOrder(order)) = Len(order)
<1> DEFINE n == Len(order)
           f == [i \in 1..n |-> order[i]]
<1>1. n \in Nat
  OBVIOUS
<1>2. IsFiniteSet(1..n) /\ Cardinality(1..n) = n
  <2>1. 1 \in Int /\ n \in Int
    BY <1>1
  <2> HIDE DEF n
  <2>2. IsFiniteSet(1..n) /\ Cardinality(1..n) = IF 1 > n THEN 0 ELSE n - 1 + 1
    BY <2>1, FS_Interval
  <2> QED BY <1>1, <2>2
<1>3. f \in Bijection(1..n, InOrder(order))
  <2>1. f \in [1..n -> InOrder(order)]
    BY DEF InOrder
  <2>2. \A i, j \in 1..n : f[i] = f[j] => i = j
    BY DEF Distinct
  <2>3. \A x \in InOrder(order) : \E i \in 1..n : f[i] = x
    BY DEF InOrder
  <2> HIDE DEF f, n
  <2> QED BY <2>1, <2>2, <2>3, Fun_IsBij
<1>4. ExistsBijection(1..n, InOrder(order))
  BY <1>3 DEF ExistsBijection
<1> QED BY <1>2, <1>4, FS_Bijection
=============================================================================
