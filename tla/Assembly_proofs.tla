--------------------------- MODULE Assembly_proofs ---------------------------
(***************************************************************************)
(* Proofs about the conversation that HandleRequestBeforeAuth stores, cuts *)
(* and injects into, for any prompts, turns, window and limits.            *)
(*                                                                         *)
(* First the operators of Transcript: what it means to take the elements   *)
(* at some positions, to flatten, to strip a block and to put one in, to   *)
(* window and to extract.  Then the invariant of the conversation, and     *)
(* what follows from it for what is stored and for what the model gets.    *)
(***************************************************************************)
EXTENDS Assembly, SequenceTheorems, FiniteSetTheorems, WellFoundedInduction, TLAPS

-----------------------------------------------------------------------------
(* Induction over the numbers, for a set and not for a formula.              *)
LEMMA LeastOf ==
    ASSUME NEW T, T \subseteq Nat, T # {}
    PROVE  \E m \in T : \A n \in T : m <= n
<1> DEFINE R == OpToRel(<, Nat)
<1>1. IsWellFoundedOn(R, Nat)
  BY Zenon, NatLessThanWellFounded
<1>2. \A x, y \in Nat : <<x, y>> \in R <=> x < y
  BY DEF OpToRel
<1> HIDE DEF R
<1>3. PICK m \in T : \A n \in T : ~(<<n, m>> \in R)
  BY <1>1, WFMin
<1>4. ASSUME NEW n \in T PROVE m <= n
  <2>1. m \in Nat /\ n \in Nat
    BY <1>3
  <2>2. ~(n < m)
    BY <1>2, <1>3, <2>1
  <2> QED BY <2>1, <2>2
<1> QED BY <1>3, <1>4

LEMMA SetInduction ==
    ASSUME NEW S, 0 \in S, \A n \in Nat : n \in S => n + 1 \in S
    PROVE  Nat \subseteq S
<1> SUFFICES ASSUME Nat \ S # {} PROVE FALSE
  OBVIOUS
<1>1. PICK m \in Nat \ S : \A n \in Nat \ S : m <= n
  BY LeastOf
<1>2. m - 1 \in Nat /\ m - 1 \in S
  BY <1>1
<1> QED BY <1>1, <1>2

-----------------------------------------------------------------------------
(* The positions that are not behind i. *)
NotBehind(I, i) == {j \in I : j <= i}

Counted(n, I) ==
    /\ \A i \in Nat : Rank(I, i) = Cardinality(NotBehind(I, i))
    /\ IsFiniteSet(I) /\ Cardinality(I) \in 0..n
    /\ \A i \in Nat : IsFiniteSet(NotBehind(I, i)) /\ Cardinality(NotBehind(I, i)) \in Nat
    /\ NotBehind(I, 0) = {} /\ NotBehind(I, n) = I
    /\ \A i \in 0..(n - 1) :
          NotBehind(I, i + 1) = IF i + 1 \in I THEN NotBehind(I, i) \cup {i + 1} ELSE NotBehind(I, i)
    /\ \A i \in 0..n, j \in 0..n : i <= j => NotBehind(I, i) \subseteq NotBehind(I, j)

LEMMA NotBehindIs ==
    ASSUME NEW n \in Nat, NEW I \in SUBSET (1..n)
    PROVE  Counted(n, I)
<1>1. \A x \in I : x \in Nat /\ 1 <= x /\ x <= n
  OBVIOUS
<1>2. IsFiniteSet(1..n) /\ Cardinality(1..n) = n
  BY FS_Interval
<1>3. IsFiniteSet(I) /\ Cardinality(I) \in 0..n
  <2>1. IsFiniteSet(I) /\ Cardinality(I) \in Nat /\ Cardinality(I) <= n
    BY <1>2, FS_Subset, FS_CardinalityType
  <2> QED BY <2>1
<1>4. ASSUME NEW i \in Nat PROVE IsFiniteSet(NotBehind(I, i)) /\ Cardinality(NotBehind(I, i)) \in Nat
  <2>1. NotBehind(I, i) \in SUBSET I
    BY DEF NotBehind
  <2> QED BY <1>3, <2>1, FS_Subset, FS_CardinalityType
<1>5. ASSUME NEW i \in 0..(n - 1)
      PROVE  NotBehind(I, i + 1) = IF i + 1 \in I THEN NotBehind(I, i) \cup {i + 1} ELSE NotBehind(I, i)
  <2>1. \A x \in I : x <= i + 1 <=> x <= i \/ x = i + 1
    BY <1>1
  <2>2. \A x : x \in NotBehind(I, i + 1) <=> x \in I /\ x <= i + 1
    BY DEF NotBehind
  <2>3. \A x : x \in NotBehind(I, i) <=> x \in I /\ x <= i
    BY DEF NotBehind
  <2>4. i + 1 <= i + 1
    OBVIOUS
  <2>5. CASE i + 1 \in I
    <3>1. NotBehind(I, i + 1) = NotBehind(I, i) \cup {i + 1}
      BY <2>1, <2>2, <2>3, <2>4, <2>5
    <3> QED BY <2>5, <3>1
  <2>6. CASE i + 1 \notin I
    <3>1. NotBehind(I, i + 1) = NotBehind(I, i)
      BY <2>1, <2>2, <2>3, <2>6
    <3> QED BY <2>6, <3>1
  <2> QED BY <2>5, <2>6
<1>6. ASSUME NEW i \in 0..n, NEW j \in 0..n, i <= j PROVE NotBehind(I, i) \subseteq NotBehind(I, j)
  <2>1. \A x \in I : x <= i => x <= j
    BY <1>1, <1>6
  <2> QED BY <2>1 DEF NotBehind
<1>7. NotBehind(I, 0) = {} /\ NotBehind(I, n) = I
  <2>1. \A x \in I : ~(x <= 0) /\ x <= n
    BY <1>1
  <2>2. NotBehind(I, 0) = {}
    BY <2>1 DEF NotBehind
  <2>3. NotBehind(I, n) = I
    BY <2>1 DEF NotBehind
  <2> QED BY <2>2, <2>3
<1>8. \A i \in Nat : Rank(I, i) = Cardinality(NotBehind(I, i))
  BY DEF Rank, NotBehind
<1> QED BY <1>3, <1>4, <1>5, <1>6, <1>7, <1>8 DEF Counted

(* The ranks rise by one with each of the positions. *)
Ranked(n, I) ==
    /\ Rank(I, 0) = 0 /\ Rank(I, n) = Cardinality(I) /\ Cardinality(I) \in 0..n
    /\ \A i \in Nat : Rank(I, i) \in Nat
    /\ \A i \in 0..(n - 1) : Rank(I, i + 1) = IF i + 1 \in I THEN Rank(I, i) + 1 ELSE Rank(I, i)
    /\ \A i \in 0..n, j \in 0..n : i <= j => Rank(I, i) <= Rank(I, j)
    /\ \A i \in 0..n, j \in 0..n : i < j /\ j \in I => Rank(I, i) < Rank(I, j)

LEMMA RankIs ==
    ASSUME NEW n \in Nat, NEW I \in SUBSET (1..n)
    PROVE  Ranked(n, I)
<1>1. Counted(n, I)
  BY NotBehindIs
<1>2. ASSUME NEW i \in 0..(n - 1)
      PROVE  Rank(I, i + 1) = IF i + 1 \in I THEN Rank(I, i) + 1 ELSE Rank(I, i)
  <2>1. i + 1 \notin NotBehind(I, i) /\ IsFiniteSet(NotBehind(I, i))
    BY <1>1 DEF NotBehind, Counted
  <2>2. Cardinality(NotBehind(I, i) \cup {i + 1}) = Cardinality(NotBehind(I, i)) + 1
    BY <2>1, FS_AddElement
  <2>3. NotBehind(I, i + 1) = IF i + 1 \in I THEN NotBehind(I, i) \cup {i + 1} ELSE NotBehind(I, i)
    BY <1>1 DEF Counted
  <2>4. Rank(I, i) = Cardinality(NotBehind(I, i)) /\ Rank(I, i + 1) = Cardinality(NotBehind(I, i + 1))
    BY <1>1 DEF Counted
  <2> QED BY <2>2, <2>3, <2>4
<1>3. ASSUME NEW i \in 0..n, NEW j \in 0..n, i <= j
      PROVE  Rank(I, i) <= Rank(I, j) /\ (j \in I /\ i < j => Rank(I, i) < Rank(I, j))
  <2>1. NotBehind(I, i) \in SUBSET NotBehind(I, j) /\ IsFiniteSet(NotBehind(I, j))
    BY <1>1, <1>3 DEF Counted
  <2>2. /\ Cardinality(NotBehind(I, i)) <= Cardinality(NotBehind(I, j))
        /\ Cardinality(NotBehind(I, j)) = Cardinality(NotBehind(I, i)) => NotBehind(I, j) = NotBehind(I, i)
    BY <2>1, FS_Subset
  <2>3. j \in I /\ i < j => j \in NotBehind(I, j) /\ j \notin NotBehind(I, i)
    BY DEF NotBehind
  <2>4. /\ Rank(I, i) = Cardinality(NotBehind(I, i)) /\ Rank(I, j) = Cardinality(NotBehind(I, j))
        /\ Rank(I, i) \in Nat /\ Rank(I, j) \in Nat
    BY <1>1 DEF Counted
  <2> QED BY <2>2, <2>3, <2>4
<1>4. Rank(I, 0) = 0 /\ Rank(I, n) = Cardinality(I)
  BY <1>1, FS_EmptySet DEF Counted
<1>5. Cardinality(I) \in 0..n /\ \A i \in Nat : Rank(I, i) \in Nat
  BY <1>1 DEF Counted
<1> QED BY <1>2, <1>3, <1>4, <1>5 DEF Ranked

(* Every number up to that of the positions is a rank. *)
LEMMA NthExists ==
    ASSUME NEW n \in Nat, NEW I \in SUBSET (1..n), NEW k \in 1..Cardinality(I)
    PROVE  \E i \in I : Rank(I, i) = k
<1> DEFINE S == {m \in Nat : m <= n => \A x \in 1..Rank(I, m) : \E i \in I : Rank(I, i) = x}
<1>1. Ranked(n, I)
  BY RankIs
<1>2. 0 \in S
  BY <1>1 DEF Ranked
<1>3. ASSUME NEW m \in Nat, m \in S PROVE m + 1 \in S
  <2> SUFFICES ASSUME m + 1 <= n, NEW x \in 1..Rank(I, m + 1) PROVE \E i \in I : Rank(I, i) = x
    OBVIOUS
  <2>1. m \in 0..(n - 1)
    OBVIOUS
  <2>2. /\ Rank(I, m) \in Nat
        /\ Rank(I, m + 1) = IF m + 1 \in I THEN Rank(I, m) + 1 ELSE Rank(I, m)
    BY <1>1, <2>1 DEF Ranked
  <2>3. CASE x <= Rank(I, m)
    BY <1>3, <2>2, <2>3
  <2>4. CASE ~(x <= Rank(I, m))
    BY <2>2, <2>4
  <2> QED BY <2>3, <2>4
<1>4. n \in S
  <2> HIDE DEF S
  <2> QED BY <1>2, <1>3, SetInduction
<1> QED BY <1>1, <1>4 DEF Ranked

(* The positions in their order: one for each number, none left out. *)
InTurn(n, I) ==
    /\ Cardinality(I) \in 0..n
    /\ \A k \in 1..Cardinality(I) : Nth(I, k) \in I /\ Rank(I, Nth(I, k)) = k
    /\ \A k, l \in 1..Cardinality(I) : k < l => Nth(I, k) < Nth(I, l)
    /\ \A i \in I : Rank(I, i) \in 1..Cardinality(I) /\ Nth(I, Rank(I, i)) = i

LEMMA NthIs ==
    ASSUME NEW n \in Nat, NEW I \in SUBSET (1..n)
    PROVE  InTurn(n, I)
<1>1. Ranked(n, I)
  BY RankIs
<1>2. ASSUME NEW k \in 1..Cardinality(I) PROVE Nth(I, k) \in I /\ Rank(I, Nth(I, k)) = k
  BY NthExists DEF Nth
<1>3. ASSUME NEW i \in I, NEW j \in I
      PROVE  /\ i < j => Rank(I, i) < Rank(I, j)
             /\ Rank(I, i) \in 1..Cardinality(I) /\ i \in 1..n /\ j \in 1..n
  <2>1. i \in 0..n /\ j \in 0..n /\ 0 \in 0..n /\ n \in 0..n /\ 0 < i /\ i <= n
    OBVIOUS
  <2>2. Rank(I, 0) < Rank(I, i) /\ Rank(I, i) <= Rank(I, n) /\ Rank(I, i) \in Nat
    BY <1>1, <2>1 DEF Ranked
  <2>3. i < j => Rank(I, i) < Rank(I, j)
    BY <1>1, <2>1 DEF Ranked
  <2>4. Rank(I, 0) = 0 /\ Rank(I, n) = Cardinality(I) /\ Cardinality(I) \in Nat
    BY <1>1 DEF Ranked
  <2> QED BY <2>2, <2>3, <2>4
<1>4. ASSUME NEW k \in 1..Cardinality(I), NEW l \in 1..Cardinality(I), k < l PROVE Nth(I, k) < Nth(I, l)
  <2>1. /\ Nth(I, k) \in I /\ Rank(I, Nth(I, k)) = k
        /\ Nth(I, l) \in I /\ Rank(I, Nth(I, l)) = l
    BY <1>2
  <2>2. /\ Nth(I, l) < Nth(I, k) => l < k
        /\ Nth(I, k) \in 1..n /\ Nth(I, l) \in 1..n
    BY <1>3, <2>1
  <2>3. Nth(I, l) # Nth(I, k) /\ ~(l < k)
    BY <1>4, <2>1
  <2> QED BY <2>2, <2>3
<1>5. ASSUME NEW i \in I PROVE Rank(I, i) \in 1..Cardinality(I) /\ Nth(I, Rank(I, i)) = i
  <2> DEFINE j == Nth(I, Rank(I, i))
  <2>1. Rank(I, i) \in 1..Cardinality(I)
    BY <1>3
  <2>2. j \in I /\ Rank(I, j) = Rank(I, i)
    BY <1>2, <2>1
  <2> HIDE DEF j
  <2>3. /\ i < j => Rank(I, i) < Rank(I, j)
        /\ j < i => Rank(I, j) < Rank(I, i)
        /\ i \in 1..n /\ j \in 1..n /\ Rank(I, i) \in 1..Cardinality(I)
    BY <1>3, <2>2
  <2>4. i = j
    BY <2>2, <2>3
  <2> QED BY <2>1, <2>4 DEF j
<1>6. Cardinality(I) \in 0..n
  BY <1>1 DEF Ranked
<1> QED BY <1>2, <1>4, <1>5, <1>6 DEF InTurn

(* A function on the first numbers is a sequence. *)
LEMMA FunctionIsSeq ==
    ASSUME NEW S, NEW n \in Nat, NEW f \in [1..n -> S]
    PROVE  f \in Seq(S) /\ Len(f) = n
OBVIOUS

-----------------------------------------------------------------------------
(* An enumeration that rises is the one by rank. *)
LEMMA Enumerated ==
    ASSUME NEW n \in Nat, NEW I \in SUBSET (1..n), NEW m \in Nat, NEW p \in [1..m -> I],
           \A k, l \in 1..m : k < l => p[k] < p[l],
           \A i \in I : \E k \in 1..m : p[k] = i
    PROVE  m = Cardinality(I) /\ \A k \in 1..m : p[k] = Nth(I, k)
<1> DEFINE c    == Cardinality(I)
           r(k) == Rank(I, p[k])
           odd  == {k \in 1..m : r(k) # k}
<1>1. InTurn(n, I) /\ Ranked(n, I)
  BY NthIs, RankIs
<1>2. c \in Nat
  BY <1>1 DEF InTurn
<1>3. ASSUME NEW k \in 1..m PROVE r(k) \in 1..c /\ Nth(I, r(k)) = p[k]
  BY <1>1 DEF InTurn
<1>4. ASSUME NEW k \in 1..m, NEW l \in 1..m, k < l PROVE r(k) < r(l)
  <2>1. p[k] \in I /\ p[l] \in I /\ p[k] < p[l]
    BY <1>4
  <2>2. p[k] \in 0..n /\ p[l] \in 0..n
    <3>1. \A i \in I : i \in 0..n
      OBVIOUS
    <3> QED BY <2>1, <3>1
  <2> QED BY <1>1, <2>1, <2>2 DEF Ranked
<1>5. ASSUME NEW x \in 1..c PROVE \E k \in 1..m : r(k) = x
  <2>1. Nth(I, x) \in I /\ Rank(I, Nth(I, x)) = x
    BY <1>1 DEF InTurn
  <2>2. PICK k \in 1..m : p[k] = Nth(I, x)
    BY <2>1
  <2> QED BY <2>1, <2>2
<1> HIDE DEF r, c
<1>6. odd = {}
  <2> SUFFICES ASSUME odd # {} PROVE FALSE
    OBVIOUS
  <2>1. odd \subseteq Nat
    OBVIOUS
  <2>2. PICK k \in odd : \A l \in odd : k <= l
    <3> HIDE DEF odd
    <3> QED BY <2>1, LeastOf
  <2>3. k \in 1..m /\ r(k) # k /\ r(k) \in 1..c
    BY <1>3
  <2>4. \A l \in 1..m : l < k => r(l) = l
    BY <2>2, <2>3
  <2>5. r(k) > k
    <3>1. CASE k = 1
      BY <1>2, <2>3, <3>1
    <3>2. CASE k # 1
      <4>1. k - 1 \in 1..m /\ k - 1 < k
        BY <2>3, <3>2
      <4>2. r(k - 1) = k - 1 /\ r(k - 1) < r(k)
        BY <1>4, <2>3, <2>4, <4>1
      <4> QED BY <1>2, <2>3, <4>1, <4>2
    <3> QED BY <3>1, <3>2
  <2>6. PICK l \in 1..m : r(l) = k
    BY <1>2, <1>5, <2>3, <2>5
  <2>7. ~(l < k) /\ l # k
    BY <2>3, <2>4, <2>6
  <2>8. r(k) < r(l)
    BY <1>4, <2>3, <2>7
  <2> QED BY <1>2, <2>3, <2>5, <2>6, <2>8
<1>7. \A k \in 1..m : r(k) = k
  BY <1>6
<1>8. m = c
  <2>1. m > 0 => m \in 1..m /\ r(m) = m /\ r(m) \in 1..c
    BY <1>3, <1>7
  <2>2. c > 0 => \E k \in 1..m : r(k) = c
    BY <1>2, <1>5
  <2> QED BY <1>2, <1>7, <2>1, <2>2
<1>9. \A k \in 1..m : p[k] = Nth(I, k)
  BY <1>3, <1>7
<1> QED BY <1>8, <1>9 DEF c

(* What stands in a subsequence, and where. *)
Picked(s, I) ==
    /\ Cardinality(I) \in 0..Len(s) /\ Len(Subsequence(s, I)) = Cardinality(I)
    /\ DOMAIN Subsequence(s, I) = 1..Cardinality(I)
    /\ \A k \in 1..Cardinality(I) : Nth(I, k) \in I /\ Subsequence(s, I)[k] = s[Nth(I, k)]
    /\ \A k, l \in 1..Cardinality(I) : k < l => Nth(I, k) < Nth(I, l)
    /\ \A i \in I : /\ Rank(I, i) \in 1..Cardinality(I) /\ Nth(I, Rank(I, i)) = i
                    /\ Subsequence(s, I)[Rank(I, i)] = s[i]

LEMMA SubsequenceIs ==
    ASSUME NEW R, NEW s \in Seq(R), NEW I \in SUBSET (1..Len(s))
    PROVE  Picked(s, I) /\ Subsequence(s, I) \in Seq(R)
<1> DEFINE c == Cardinality(I)
<1>1. Len(s) \in Nat /\ \A i \in 1..Len(s) : s[i] \in R
  BY LenProperties, ElementOfSeq
<1>2. InTurn(Len(s), I)
  BY <1>1, NthIs
<1>3. c \in 0..Len(s) /\ c \in Nat
  BY <1>1, <1>2 DEF InTurn
<1>4. Subsequence(s, I) = [k \in 1..c |-> s[Nth(I, k)]]
  BY DEF Subsequence
<1>5. \A k \in 1..c : Nth(I, k) \in I /\ s[Nth(I, k)] \in R
  BY <1>1, <1>2 DEF InTurn
<1> HIDE DEF c
<1>6. Subsequence(s, I) \in [1..c -> R]
  BY <1>4, <1>5
<1>7. Subsequence(s, I) \in Seq(R) /\ Len(Subsequence(s, I)) = c
  BY <1>3, <1>6, FunctionIsSeq
<1>8. \A k \in 1..c : Subsequence(s, I)[k] = s[Nth(I, k)]
  BY <1>4
<1>9. DOMAIN Subsequence(s, I) = 1..c
  BY <1>4
<1>10. \A i \in I : Rank(I, i) \in 1..c /\ Subsequence(s, I)[Rank(I, i)] = s[i]
  BY <1>2, <1>8 DEF c, InTurn
<1> QED BY <1>2, <1>3, <1>5, <1>7, <1>8, <1>9, <1>10 DEF c, Picked, InTurn

(* A subsequence by an enumeration of the positions. *)
Enumerates(R, s, I, m, p) ==
    /\ s \in Seq(R) /\ I \in SUBSET (1..Len(s)) /\ m \in Nat /\ p \in [1..m -> I]
    /\ \A k, l \in 1..m : k < l => p[k] < p[l]
    /\ \A i \in I : \E k \in 1..m : p[k] = i

LEMMA SubsequenceBy ==
    ASSUME NEW R, NEW s, NEW I, NEW m, NEW p, Enumerates(R, s, I, m, p)
    PROVE  Len(Subsequence(s, I)) = m /\ \A k \in 1..m : Subsequence(s, I)[k] = s[p[k]]
<1>1. Len(s) \in Nat
  BY LenProperties DEF Enumerates
<1>2. m = Cardinality(I) /\ \A k \in 1..m : p[k] = Nth(I, k)
  BY <1>1, Enumerated DEF Enumerates
<1>3. Picked(s, I)
  BY SubsequenceIs DEF Enumerates
<1> QED BY <1>2, <1>3 DEF Picked

LEMMA SubsequenceAll ==
    ASSUME NEW R, NEW s \in Seq(R)
    PROVE  Subsequence(s, 1..Len(s)) = s
<1> SUFFICES ASSUME NEW I \in SUBSET (1..Len(s)), I = 1..Len(s)
             PROVE  Subsequence(s, I) = s
  OBVIOUS
<1> DEFINE p == [k \in 1..Len(s) |-> k]
<1>1. Len(s) \in Nat
  BY LenProperties
<1>2. /\ p \in [1..Len(s) -> I]
      /\ \A k, l \in 1..Len(s) : k < l => p[k] < p[l]
      /\ \A i \in I : \E k \in 1..Len(s) : p[k] = i
      /\ \A k \in 1..Len(s) : p[k] = k
  OBVIOUS
<1> HIDE DEF p
<1>3. Len(Subsequence(s, I)) = Len(s) /\ \A k \in 1..Len(s) : Subsequence(s, I)[k] = s[p[k]]
  <2>1. Enumerates(R, s, I, Len(s), p)
    BY <1>1, <1>2 DEF Enumerates
  <2> QED BY <2>1, SubsequenceBy
<1>4. Subsequence(s, I) \in Seq(R)
  BY SubsequenceIs
<1> QED BY <1>2, <1>3, <1>4, SeqEqual

-----------------------------------------------------------------------------
(* The sums of the first sequences of f. *)
Sums(S, f, m, g) ==
    /\ g \in [0..m -> Seq(S)]
    /\ g[0] = << >>
    /\ \A i \in 1..m : g[i] = g[i - 1] \o f[i]

LEMMA SumsExist ==
    ASSUME NEW S, NEW f \in Seq(Seq(S))
    PROVE  \E g : Sums(S, f, Len(f), g)
<1> DEFINE M == {m \in Nat : m <= Len(f) => \E g : Sums(S, f, m, g)}
<1>1. Len(f) \in Nat /\ \A i \in 1..Len(f) : f[i] \in Seq(S)
  BY LenProperties, ElementOfSeq
<1>2. 0 \in M
  <2> DEFINE g == [i \in 0..0 |-> << >>]
  <2>1. g \in [0..0 -> Seq(S)] /\ g[0] = << >>
    BY EmptySeq
  <2>2. Sums(S, f, 0, g)
    BY <2>1 DEF Sums
  <2> QED BY <2>2
<1>3. ASSUME NEW m \in Nat, m \in M PROVE m + 1 \in M
  <2> SUFFICES ASSUME m + 1 <= Len(f) PROVE \E g : Sums(S, f, m + 1, g)
    OBVIOUS
  <2>1. PICK g : Sums(S, f, m, g)
    BY <1>1, <1>3
  <2>2. m \in 0..m /\ m + 1 \in 1..Len(f)
    BY <1>1
  <2> DEFINE last == g[m] \o f[m + 1]
  <2>3. last \in Seq(S)
    BY <1>1, <2>1, <2>2, ConcatProperties DEF Sums
  <2> HIDE DEF last
  <2> DEFINE h == [i \in 0..(m + 1) |-> IF i = m + 1 THEN last ELSE g[i]]
  <2>4. h \in [0..(m + 1) -> Seq(S)]
    <3>1. ASSUME NEW i \in 0..(m + 1), i # m + 1 PROVE g[i] \in Seq(S)
      <4>1. i \in 0..m
        BY <3>1
      <4> QED BY <2>1, <4>1 DEF Sums
    <3> QED BY <2>3, <3>1
  <2>5. h[0] = << >>
    BY <2>1 DEF Sums
  <2>6. ASSUME NEW i \in 1..(m + 1) PROVE h[i] = h[i - 1] \o f[i]
    <3>1. i - 1 \in 0..m /\ i - 1 # m + 1 /\ h[i - 1] = g[i - 1]
      OBVIOUS
    <3>2. CASE i = m + 1
      <4>1. g[i - 1] = g[m] /\ f[i] = f[m + 1]
        <5>1. i - 1 = m
          BY <3>2
        <5> QED BY <3>2, <5>1
      <4>2. h[i] = last
        BY <3>2
      <4> HIDE DEF h
      <4> QED BY <3>1, <4>1, <4>2 DEF last
    <3>3. CASE i # m + 1
      <4>1. i \in 1..m /\ h[i] = g[i]
        BY <3>3
      <4> QED BY <2>1, <3>1, <4>1 DEF Sums
    <3> QED BY <3>2, <3>3
  <2> HIDE DEF h
  <2> QED BY <2>4, <2>5, <2>6 DEF Sums
<1> HIDE DEF M
<1>4. Len(f) \in M
  BY <1>1, <1>2, <1>3, SetInduction
<1> QED BY <1>1, <1>4 DEF M

LEMMA FlattenIs ==
    ASSUME NEW S, NEW f \in Seq(Seq(S))
    PROVE  \E g : Sums(S, f, Len(f), g) /\ FlattenSeq(f) = g[Len(f)]
<1>1. Len(f) \in Nat /\ f = [i \in 1..Len(f) |-> f[i]] /\ \A i \in 1..Len(f) : f[i] \in Seq(S)
  BY LenProperties, ElementOfSeq
<1>2. PICK g : Sums(S, f, Len(f), g)
  BY SumsExist
<1>3. CASE Len(f) = 0
  <2>1. FlattenSeq(f) = f
    BY <1>3 DEF FlattenSeq
  <2>2. f = << >>
    BY <1>3
  <2> QED BY <1>2, <1>3, <2>1, <2>2 DEF Sums
<1>4. CASE Len(f) # 0
  <2> DEFINE Eq(h) == h = [i \in 1..Len(f) |-> IF i = 1 THEN f[i] ELSE h[i - 1] \o f[i]]
             F     == CHOOSE h : Eq(h)
             h0    == [i \in 1..Len(f) |-> g[i]]
  <2>1. Eq(h0)
    <3>1. ASSUME NEW i \in 1..Len(f) PROVE h0[i] = IF i = 1 THEN f[i] ELSE h0[i - 1] \o f[i]
      <4>1. g[i] = g[i - 1] \o f[i]
        BY <1>2 DEF Sums
      <4>2. CASE i = 1
        <5>1. << >> \o f[i] = f[i]
          BY <1>1, ConcatEmptySeq
        <5>2. g[i - 1] = << >>
          BY <1>2, <4>2 DEF Sums
        <5> QED BY <4>1, <4>2, <5>1, <5>2
      <4>3. CASE i # 1
        <5>1. i - 1 \in 1..Len(f)
          BY <4>3
        <5>2. h0[i - 1] = g[i - 1]
          BY <5>1
        <5> QED BY <4>1, <4>3, <5>2
      <4> QED BY <4>2, <4>3
    <3>2. h0 = [i \in 1..Len(f) |-> h0[i]]
      OBVIOUS
    <3> HIDE DEF h0
    <3> QED BY <3>1, <3>2
  <2>2. Eq(F)
    <3> HIDE DEF h0, Eq
    <3> QED BY <2>1
  <2>3. FlattenSeq(f) = F[Len(f)]
    BY <1>4, Zenon DEF FlattenSeq
  <2>4. \A i \in 1..Len(f) : F[i] = IF i = 1 THEN f[i] ELSE F[i - 1] \o f[i]
    <3> HIDE DEF F
    <3> QED BY <2>2
  <2> HIDE DEF F, Eq
  <2> DEFINE M == {m \in Nat : m \in 1..Len(f) => F[m] = g[m]}
  <2>5. 0 \in M
    OBVIOUS
  <2>6. ASSUME NEW m \in Nat, m \in M PROVE m + 1 \in M
    <3> SUFFICES ASSUME m + 1 \in 1..Len(f) PROVE F[m + 1] = g[m + 1]
      OBVIOUS
    <3> SUFFICES ASSUME NEW i \in 1..Len(f), i = m + 1 PROVE F[i] = g[i]
      OBVIOUS
    <3>1. g[i] = g[i - 1] \o f[i] /\ i - 1 = m
      <4>1. g[i] = g[i - 1] \o f[i]
        BY <1>2 DEF Sums
      <4>2. i - 1 = m
        OBVIOUS
      <4> QED BY <4>1, <4>2
    <3>2. CASE i = 1
      <4>1. << >> \o f[i] = f[i]
        BY <1>1, ConcatEmptySeq
      <4>2. F[i] = f[i] /\ g[i - 1] = << >>
        BY <1>2, <2>4, <3>2 DEF Sums
      <4> QED BY <3>1, <4>1, <4>2
    <3>3. CASE i # 1
      <4>1. m \in 1..Len(f)
        BY <1>1, <3>3
      <4>2. F[m] = g[m]
        BY <2>6, <4>1
      <4>3. F[i] = F[i - 1] \o f[i]
        BY <2>4, <3>3
      <4> QED BY <3>1, <4>2, <4>3
    <3> QED BY <3>2, <3>3
  <2> HIDE DEF M
  <2>7. Len(f) \in M
    BY <1>1, <2>5, <2>6, SetInduction
  <2>8. F[Len(f)] = g[Len(f)]
    BY <1>1, <1>4, <2>7 DEF M
  <2> QED BY <1>2, <2>3, <2>8
<1> QED BY <1>3, <1>4

LEMMA SumsUnique ==
    ASSUME NEW S, NEW f, NEW h, NEW m \in Nat, NEW n \in Nat, NEW g, NEW k, m <= n,
           Sums(S, f, m, g), Sums(S, h, n, k), \A i \in 1..m : f[i] = h[i]
    PROVE  g[m] = k[m]
<1> DEFINE M == {i \in Nat : i <= m => g[i] = k[i]}
<1>1. 0 \in M
  BY DEF Sums
<1>2. ASSUME NEW j \in Nat, j \in M PROVE j + 1 \in M
  <2> SUFFICES ASSUME NEW i \in 1..m, i = j + 1 PROVE g[i] = k[i]
    OBVIOUS
  <2>1. g[i] = g[i - 1] \o f[i]
    BY DEF Sums
  <2>2. k[i] = k[i - 1] \o h[i]
    <3>1. i \in 1..n
      OBVIOUS
    <3> QED BY <3>1 DEF Sums
  <2>3. g[i - 1] = k[i - 1]
    <3>1. i - 1 = j /\ j <= m
      OBVIOUS
    <3> QED BY <1>2, <3>1
  <2> QED BY <2>1, <2>2, <2>3
<1> HIDE DEF M
<1>3. m \in M
  BY <1>1, <1>2, SetInduction
<1> QED BY <1>3 DEF M

LEMMA FlattenEmpty == FlattenSeq(<< >>) = << >>
BY DEF FlattenSeq

LEMMA FlattenType ==
    ASSUME NEW S, NEW f \in Seq(Seq(S))
    PROVE  FlattenSeq(f) \in Seq(S)
<1>1. PICK g : Sums(S, f, Len(f), g) /\ FlattenSeq(f) = g[Len(f)]
  BY FlattenIs
<1>2. Len(f) \in 0..Len(f)
  BY LenProperties
<1> QED BY <1>1, <1>2 DEF Sums

LEMMA FlattenAppend ==
    ASSUME NEW S, NEW f \in Seq(Seq(S)), NEW x \in Seq(S)
    PROVE  FlattenSeq(Append(f, x)) = FlattenSeq(f) \o x
<1> DEFINE n == Len(f)
           h == Append(f, x)
<1>1. /\ h \in Seq(Seq(S)) /\ Len(h) = n + 1 /\ h[n + 1] = x
      /\ \A i \in 1..n : f[i] = h[i]
  BY AppendProperties
<1>2. n \in Nat
  BY LenProperties
<1> HIDE DEF h, n
<1>3. PICK g : Sums(S, f, n, g) /\ FlattenSeq(f) = g[n]
  BY FlattenIs DEF n
<1>4. PICK k : Sums(S, h, n + 1, k) /\ FlattenSeq(h) = k[n + 1]
  BY <1>1, FlattenIs
<1>5. g[n] = k[n]
  <2>1. n + 1 \in Nat /\ n <= n + 1
    BY <1>2
  <2> QED BY <1>1, <1>2, <1>3, <1>4, <2>1, SumsUnique
<1>6. k[n + 1] = k[n] \o h[n + 1]
  <2>1. n + 1 \in 1..(n + 1) /\ (n + 1) - 1 = n
    BY <1>2
  <2>2. k[n + 1] = k[(n + 1) - 1] \o h[n + 1]
    BY <1>4, <2>1 DEF Sums
  <2> QED BY <2>1, <2>2
<1> QED BY <1>1, <1>3, <1>4, <1>5, <1>6 DEF h

(* What a concatenation is, as a predicate. *)
Concats(S, a, b, c) ==
    /\ c \in Seq(S) /\ Len(c) = Len(a) + Len(b)
    /\ \A i \in 1..(Len(a) + Len(b)) : c[i] = IF i <= Len(a) THEN a[i] ELSE b[i - Len(a)]

LEMMA ConcatIs ==
    ASSUME NEW S, NEW a \in Seq(S), NEW b \in Seq(S)
    PROVE  Concats(S, a, b, a \o b)
BY ConcatProperties DEF Concats

(* Concatenation is associative: a predicate, so that it is found by name. *)
Associates(a, b, c) == (a \o b) \o c = a \o (b \o c)

LEMMA Associative ==
    ASSUME NEW S, NEW a \in Seq(S), NEW b \in Seq(S), NEW c \in Seq(S)
    PROVE  Associates(a, b, c)
<1> DEFINE ab == a \o b
           bc == b \o c
           l  == ab \o c
           r  == a \o bc
<1>1. Len(a) \in Nat /\ Len(b) \in Nat /\ Len(c) \in Nat
  BY LenProperties
<1>2. Concats(S, a, b, ab) /\ Concats(S, b, c, bc)
  BY ConcatIs
<1> HIDE DEF ab, bc
<1>3. Concats(S, ab, c, l)
  <2>1. ab \in Seq(S)
    BY <1>2 DEF Concats
  <2> QED BY <2>1, ConcatIs
<1>4. Concats(S, a, bc, r)
  <2>1. bc \in Seq(S)
    BY <1>2 DEF Concats
  <2> QED BY <2>1, ConcatIs
<1> HIDE DEF l, r
<1>5. /\ Len(ab) = Len(a) + Len(b) /\ Len(bc) = Len(b) + Len(c) /\ Len(l) = Len(a) + Len(b) + Len(c) /\ Len(r) = Len(l)
       /\ l \in Seq(S) /\ r \in Seq(S)
  BY <1>1, <1>2, <1>3, <1>4 DEF Concats
<1>6. ASSUME NEW i \in 1..Len(l) PROVE l[i] = r[i]
  <2>1. /\ l[i] = IF i <= Len(ab) THEN ab[i] ELSE c[i - Len(ab)]
        /\ r[i] = IF i <= Len(a) THEN a[i] ELSE bc[i - Len(a)]
    BY <1>1, <1>3, <1>4, <1>5 DEF Concats
  <2>2. \A j \in 1..(Len(a) + Len(b)) : ab[j] = IF j <= Len(a) THEN a[j] ELSE b[j - Len(a)]
    BY <1>2 DEF Concats
  <2>3. \A j \in 1..(Len(b) + Len(c)) : bc[j] = IF j <= Len(b) THEN b[j] ELSE c[j - Len(b)]
    BY <1>2 DEF Concats
  <2>4. CASE i <= Len(a)
    BY <1>1, <1>5, <2>1, <2>2, <2>4
  <2>5. CASE Len(a) < i /\ i <= Len(a) + Len(b)
    <3>1. i - Len(a) \in 1..(Len(b) + Len(c)) /\ i - Len(a) <= Len(b) /\ i \in 1..(Len(a) + Len(b)) /\ ~(i <= Len(a))
      BY <1>1, <1>5, <2>5
    <3> QED BY <1>5, <2>1, <2>2, <2>3, <2>5, <3>1
  <2>6. CASE Len(a) + Len(b) < i
    <3>1. i - Len(a) \in 1..(Len(b) + Len(c)) /\ ~(i - Len(a) <= Len(b)) /\ ~(i <= Len(a)) /\ ~(i <= Len(a) + Len(b))
          /\ (i - Len(a)) - Len(b) = i - (Len(a) + Len(b))
      BY <1>1, <1>5, <2>6
    <3> QED BY <1>5, <2>1, <2>3, <3>1
  <2> QED BY <1>1, <1>5, <2>4, <2>5, <2>6
<1>7. l = r
  BY <1>5, <1>6, SeqEqual
<1> QED BY <1>7 DEF Associates, l, r, ab, bc

LEMMA AppendConcat ==
    ASSUME NEW S, NEW u \in Seq(S), NEW v \in Seq(S), NEW x \in S
    PROVE  u \o Append(v, x) = Append(u \o v, x)
<1>1. u \o Append(v, x) = u \o (v \o <<x>>) /\ <<x>> \in Seq(S) /\ u \o v \in Seq(S)
  BY AppendIsConcat, ConcatProperties
<1>2. Associates(u, v, <<x>>)
  BY <1>1, Associative
<1>3. Append(u \o v, x) = (u \o v) \o <<x>>
  BY <1>1, AppendIsConcat
<1> QED BY <1>1, <1>2, <1>3 DEF Associates

LEMMA FlattenStep ==
    ASSUME NEW S, NEW u \in Seq(Seq(S)), NEW z \in Seq(Seq(S)), NEW x \in Seq(S),
           FlattenSeq(u \o z) = FlattenSeq(u) \o FlattenSeq(z)
    PROVE  FlattenSeq(u \o Append(z, x)) = FlattenSeq(u) \o FlattenSeq(Append(z, x))
<1>1. u \o Append(z, x) = Append(u \o z, x)
  BY AppendConcat
<1>2. FlattenSeq(Append(z, x)) = FlattenSeq(z) \o x
  BY FlattenAppend
<1>3. PICK y \in Seq(Seq(S)) : y = u \o z
  <2>1. u \o z \in Seq(Seq(S))
    BY ConcatProperties
  <2> QED BY <2>1
<1>4. FlattenSeq(Append(y, x)) = FlattenSeq(y) \o x
  BY FlattenAppend
<1>5. PICK a \in Seq(S), b \in Seq(S) : a = FlattenSeq(u) /\ b = FlattenSeq(z)
  BY FlattenType
<1>6. (a \o b) \o x = a \o (b \o x)
  <2>1. Associates(a, b, x)
    BY Associative
  <2> QED BY <2>1 DEF Associates
<1>7. FlattenSeq(y) = a \o b /\ u \o Append(z, x) = Append(y, x)
  BY <1>1, <1>3, <1>5
<1>8. FlattenSeq(Append(y, x)) = a \o (b \o x)
  BY <1>4, <1>6, <1>7
<1> QED BY <1>2, <1>5, <1>7, <1>8

LEMMA FlattenConcat ==
    ASSUME NEW S, NEW u \in Seq(Seq(S)), NEW v \in Seq(Seq(S))
    PROVE  FlattenSeq(u \o v) = FlattenSeq(u) \o FlattenSeq(v)
<1> DEFINE w(m) == SubSeq(v, 1, m)
           M    == {m \in Nat : m <= Len(v) => FlattenSeq(u \o w(m)) = FlattenSeq(u) \o FlattenSeq(w(m))}
<1>1. Len(v) \in Nat /\ FlattenSeq(u) \in Seq(S)
  BY LenProperties, FlattenType
<1>2. 0 \in M
  <2>1. w(0) = << >>
    BY SubSeqEmpty
  <2>2. u \o << >> = u /\ FlattenSeq(u) \o << >> = FlattenSeq(u)
    BY <1>1, ConcatEmptySeq
  <2>3. FlattenSeq(u \o w(0)) = FlattenSeq(u) \o FlattenSeq(w(0))
    BY <2>1, <2>2, FlattenEmpty
  <2> QED BY <2>3
<1>3. ASSUME NEW m \in Nat, m \in M PROVE m + 1 \in M
  <2> SUFFICES ASSUME m + 1 <= Len(v)
               PROVE  FlattenSeq(u \o w(m + 1)) = FlattenSeq(u) \o FlattenSeq(w(m + 1))
    OBVIOUS
  <2> DEFINE x == v[m + 1]
  <2>1. x \in Seq(S)
    BY <1>1, ElementOfSeq
  <2>2. w(m) \in Seq(Seq(S))
    <3>1. \A i \in 1..m : v[i] \in Seq(S)
      BY <1>1, ElementOfSeq
    <3> QED BY <3>1, SubSeqProperties
  <2>3. w(m + 1) = Append(w(m), x)
    <3>1. m + 1 \in 1..Len(v) /\ 1 \in 1..Len(v) /\ m + 1 \in 1..Len(v) /\ (m + 1) - 1 = m
      BY <1>1
    <3>2. SubSeq(v, 1, m + 1) = SubSeq(v, 1, (m + 1) - 1) \o <<v[m + 1]>>
      BY <3>1, SubSeqRecursiveSecond
    <3> QED BY <2>1, <2>2, <3>1, <3>2, AppendIsConcat
  <2>4. FlattenSeq(u \o w(m)) = FlattenSeq(u) \o FlattenSeq(w(m))
    BY <1>1, <1>3
  <2> HIDE DEF w, x
  <2>6. FlattenSeq(u \o Append(w(m), x)) = FlattenSeq(u) \o FlattenSeq(Append(w(m), x))
    BY <2>1, <2>2, <2>4, FlattenStep
  <2> QED BY <2>3, <2>6
<1> HIDE DEF M
<1>4. Len(v) \in M
  BY <1>1, <1>2, <1>3, SetInduction
<1>5. w(Len(v)) = v
  BY SubSeqFull
<1> HIDE DEF w
<1>6. FlattenSeq(u \o w(Len(v))) = FlattenSeq(u) \o FlattenSeq(w(Len(v)))
  BY <1>1, <1>4 DEF M
<1> QED BY <1>5, <1>6

LEMMA FlattenUnit ==
    ASSUME NEW S, NEW x \in Seq(S)
    PROVE  FlattenSeq(<<x>>) = x
<1>1. << >> \in Seq(Seq(S)) /\ Append(<< >>, x) = <<x>>
  OBVIOUS
<1>2. FlattenSeq(Append(<< >>, x)) = << >> \o x
  BY <1>1, FlattenAppend, FlattenEmpty
<1>3. << >> \o x = x
  BY ConcatEmptySeq
<1> QED BY <1>1, <1>2, <1>3

(* What is before an element and what is behind it do not depend on it. *)
Around(S, f, k, a, b) ==
    /\ a \in Seq(S) /\ b \in Seq(S)
    /\ FlattenSeq(f) = a \o (f[k] \o b)
    /\ \A x \in Seq(S) : FlattenSeq([f EXCEPT ![k] = x]) = a \o (x \o b)

LEMMA FlattenAround ==
    ASSUME NEW S, NEW f \in Seq(Seq(S)), NEW k \in 1..Len(f)
    PROVE  \E a, b : Around(S, f, k, a, b)
<1> DEFINE u == SubSeq(f, 1, k - 1)
           v == SubSeq(f, k + 1, Len(f))
           a == FlattenSeq(u)
           b == FlattenSeq(v)
<1>1. Len(f) \in Nat /\ k \in Nat /\ \A i \in 1..Len(f) : f[i] \in Seq(S)
  BY LenProperties, ElementOfSeq
<1>2. u \in Seq(Seq(S)) /\ Len(u) = k - 1 /\ \A i \in 1..(k - 1) : u[i] = f[i]
  <2>1. \A i \in 1..(k - 1) : f[i] \in Seq(S)
    BY <1>1
  <2>2. 1 \in Int /\ k - 1 \in Int /\ (1 <= k - 1 \/ k - 1 = 0)
    BY <1>1
  <2>3. /\ SubSeq(f, 1, k - 1) \in Seq(Seq(S))
        /\ Len(SubSeq(f, 1, k - 1)) = IF 1 <= k - 1 THEN (k - 1) - 1 + 1 ELSE 0
        /\ \A i \in 1..((k - 1) - 1 + 1) : SubSeq(f, 1, k - 1)[i] = f[1 + i - 1]
    BY <2>1, <2>2, SubSeqProperties
  <2>4. (k - 1) - 1 + 1 = k - 1 /\ \A i \in 1..(k - 1) : 1 + i - 1 = i
    BY <1>1
  <2> QED BY <2>2, <2>3, <2>4
<1>3. v \in Seq(Seq(S)) /\ Len(v) = Len(f) - k /\ \A i \in 1..(Len(f) - k) : v[i] = f[k + i]
  <2>1. \A i \in (k + 1)..Len(f) : f[i] \in Seq(S)
    BY <1>1
  <2>2. k + 1 \in Int /\ Len(f) \in Int /\ (k + 1 <= Len(f) \/ Len(f) - k = 0)
    BY <1>1
  <2>3. /\ SubSeq(f, k + 1, Len(f)) \in Seq(Seq(S))
        /\ Len(SubSeq(f, k + 1, Len(f))) = IF k + 1 <= Len(f) THEN Len(f) - (k + 1) + 1 ELSE 0
        /\ \A i \in 1..(Len(f) - (k + 1) + 1) : SubSeq(f, k + 1, Len(f))[i] = f[k + 1 + i - 1]
    BY <2>1, <2>2, SubSeqProperties
  <2>4. Len(f) - (k + 1) + 1 = Len(f) - k /\ \A i \in 1..(Len(f) - k) : k + 1 + i - 1 = k + i
    BY <1>1
  <2> QED BY <2>2, <2>3, <2>4
<1>4. a \in Seq(S) /\ b \in Seq(S)
  <2> HIDE DEF u, v
  <2> QED BY <1>2, <1>3, FlattenType
<1> HIDE DEF u, v
<1>5. ASSUME NEW h \in Seq(Seq(S)), NEW x \in Seq(S), Len(h) = Len(f), h[k] = x,
             \A i \in 1..Len(f) : i # k => h[i] = f[i]
      PROVE  FlattenSeq(h) = a \o (x \o b)
  <2>1. <<x>> \in Seq(Seq(S)) /\ Len(<<x>>) = 1 /\ <<x>>[1] = x
    OBVIOUS
  <2>2. /\ <<x>> \o v \in Seq(Seq(S)) /\ Len(<<x>> \o v) = 1 + Len(v)
        /\ \A i \in 1..(1 + Len(v)) : (<<x>> \o v)[i] = IF i <= 1 THEN <<x>>[i] ELSE v[i - 1]
    BY <1>3, <2>1, ConcatProperties
  <2> DEFINE t == <<x>> \o v
  <2> HIDE DEF t
  <2>3. /\ u \o t \in Seq(Seq(S)) /\ Len(u \o t) = Len(u) + Len(t)
        /\ \A i \in 1..(Len(u) + Len(t)) : (u \o t)[i] = IF i <= Len(u) THEN u[i] ELSE t[i - Len(u)]
    BY <1>2, <2>2, ConcatProperties DEF t
  <2>4. Len(t) = 1 + (Len(f) - k) /\ Len(u) = k - 1 /\ Len(u) + Len(t) = Len(f)
    BY <1>1, <1>2, <1>3, <2>2 DEF t
  <2>5. ASSUME NEW i \in 1..Len(f) PROVE h[i] = (u \o t)[i]
    <3>1. CASE i < k
      <4>1. i \in 1..(k - 1) /\ i <= Len(u) /\ i # k
        BY <1>1, <2>4, <3>1
      <4> QED BY <1>2, <1>5, <2>3, <2>4, <4>1
    <3>2. CASE i = k
      <4>1. ~(i <= Len(u)) /\ i - Len(u) = 1
        BY <1>1, <2>4, <3>2
      <4>2. t[1] = x
        BY <1>1, <1>3, <2>1, <2>2 DEF t
      <4> QED BY <1>5, <2>3, <2>4, <3>2, <4>1, <4>2
    <3>3. CASE i > k
      <4> DEFINE j == i - k
      <4>1. /\ ~(i <= Len(u)) /\ i - Len(u) = j + 1 /\ j \in 1..(Len(f) - k) /\ k + j = i /\ i # k
            /\ j + 1 \in 1..(1 + Len(v)) /\ ~(j + 1 <= 1) /\ (j + 1) - 1 = j
        BY <1>1, <1>3, <2>4, <3>3
      <4> HIDE DEF j
      <4>2. t[j + 1] = v[j]
        BY <2>2, <4>1 DEF t
      <4>3. v[j] = f[i]
        BY <1>3, <4>1
      <4>4. (u \o t)[i] = t[j + 1]
        BY <2>3, <2>4, <4>1
      <4> QED BY <1>5, <4>1, <4>2, <4>3, <4>4
    <3>4. i \in Nat
      BY <1>1
    <3>5. i < k \/ i = k \/ i > k
      BY <1>1, <3>4
    <3> QED BY <3>1, <3>2, <3>3, <3>5
  <2>6. h = u \o t
    <3> DEFINE ut == u \o t
    <3>1. ut \in Seq(Seq(S)) /\ Len(ut) = Len(h) /\ \A i \in 1..Len(h) : h[i] = ut[i]
      BY <1>5, <2>3, <2>4, <2>5
    <3> HIDE DEF ut
    <3>2. h = ut
      BY <1>5, <3>1, SeqEqual
    <3> QED BY <3>2 DEF ut
  <2>7. FlattenSeq(u \o t) = FlattenSeq(u) \o FlattenSeq(t)
    BY <1>2, <2>2, FlattenConcat DEF t
  <2>8. FlattenSeq(t) = x \o FlattenSeq(v)
    <3>1. FlattenSeq(<<x>> \o v) = FlattenSeq(<<x>>) \o FlattenSeq(v)
      BY <1>3, <2>1, FlattenConcat
    <3>2. FlattenSeq(<<x>>) = x
      BY <1>5, FlattenUnit
    <3> QED BY <3>1, <3>2 DEF t
  <2> QED BY <2>6, <2>7, <2>8
<1>6. ASSUME NEW x \in Seq(S) PROVE FlattenSeq([f EXCEPT ![k] = x]) = a \o (x \o b)
  <2> DEFINE h == [f EXCEPT ![k] = x]
  <2>1. /\ h \in Seq(Seq(S)) /\ Len(h) = Len(f)
        /\ \A j \in 1..Len(f) : h[j] = IF j = k THEN x ELSE f[j]
    BY ExceptSeq
  <2> HIDE DEF h
  <2>2. FlattenSeq(h) = a \o (x \o b)
    BY <1>5, <2>1
  <2> QED BY <2>2 DEF h
<1>7. FlattenSeq(f) = a \o (f[k] \o b)
  BY <1>1, <1>5
<1> HIDE DEF a, b
<1> QED BY <1>4, <1>6, <1>7 DEF Around

-----------------------------------------------------------------------------
(* What is left out of a concatenation without changing it is empty. *)
LEMMA FlattenDrop ==
    ASSUME NEW S, NEW f \in Seq(Seq(S)), NEW I \in SUBSET (1..Len(f)),
           \A i \in 1..Len(f) : i \notin I => f[i] = << >>
    PROVE  FlattenSeq(Subsequence(f, I)) = FlattenSeq(f)
<1> DEFINE n == Len(f)
           t == Subsequence(f, I)
           c == Cardinality(I)
<1>1. n \in Nat /\ Ranked(n, I) /\ Picked(f, I) /\ t \in Seq(Seq(S)) /\ Len(t) = c
  <2>1. n \in Nat
    BY LenProperties
  <2>2. Picked(f, I) /\ t \in Seq(Seq(S))
    BY SubsequenceIs
  <2> QED BY <2>1, <2>2, RankIs DEF Picked
<1>2. PICK g : Sums(S, f, n, g) /\ FlattenSeq(f) = g[n]
  BY FlattenIs
<1>3. PICK k : Sums(S, t, c, k) /\ FlattenSeq(t) = k[c]
  <2> HIDE DEF t
  <2> QED BY <1>1, FlattenIs
<1>4. \A i \in I : t[Rank(I, i)] = f[i] /\ Rank(I, i) \in 1..c
  BY <1>1 DEF Picked
<1> HIDE DEF n, t, c
<1> DEFINE M == {m \in Nat : m <= n => g[m] = k[Rank(I, m)]}
<1>5. 0 \in M
  BY <1>1, <1>2, <1>3 DEF Sums, Ranked
<1>6. ASSUME NEW m \in Nat, m \in M PROVE m + 1 \in M
  <2> SUFFICES ASSUME NEW i \in 1..n, i = m + 1 PROVE g[i] = k[Rank(I, i)]
    OBVIOUS
  <2>1. i - 1 = m /\ m \in 0..(n - 1) /\ m <= n
    BY <1>1
  <2>2. g[m] = k[Rank(I, m)]
    BY <1>6, <2>1
  <2>3. g[i] = g[m] \o f[i] /\ g[m] \in Seq(S)
    <3>1. m \in 0..n
      BY <1>1, <2>1
    <3>2. g[m] \in Seq(S)
      BY <1>2, <3>1 DEF Sums
    <3>3. g[i] = g[i - 1] \o f[i]
      BY <1>2 DEF Sums
    <3> QED BY <2>1, <3>2, <3>3
  <2>4. Rank(I, i) = IF i \in I THEN Rank(I, m) + 1 ELSE Rank(I, m)
    BY <1>1, <2>1 DEF Ranked
  <2>5. Rank(I, m) \in Nat
    BY <1>1 DEF Ranked
  <2>6. CASE i \in I
    <3> DEFINE r == Rank(I, i)
    <3>1. r \in 1..c /\ r - 1 = Rank(I, m) /\ t[r] = f[i]
      <4>1. r \in 1..c /\ t[r] = f[i]
        BY <1>4, <2>6
      <4>2. r - 1 = Rank(I, m)
        BY <2>4, <2>5, <2>6
      <4> QED BY <4>1, <4>2
    <3> HIDE DEF r
    <3>2. k[r] = k[r - 1] \o t[r]
      BY <1>3, <3>1 DEF Sums
    <3> QED BY <2>2, <2>3, <3>1, <3>2 DEF r
  <2>7. CASE i \notin I
    <3>1. f[i] = << >> /\ Rank(I, i) = Rank(I, m)
      BY <2>4, <2>7 DEF n
    <3>2. g[m] \o << >> = g[m]
      BY <2>3, ConcatEmptySeq
    <3> QED BY <2>2, <2>3, <3>1, <3>2
  <2> QED BY <2>6, <2>7
<1> HIDE DEF M
<1>7. n \in M
  BY <1>1, <1>5, <1>6, SetInduction
<1>8. g[n] = k[Rank(I, n)] /\ Rank(I, n) = c
  BY <1>1, <1>7 DEF M, Ranked, c
<1> QED BY <1>2, <1>3, <1>8 DEF n, t, c

(* A sequence is the concatenation of its elements. *)
LEMMA FlattenUnits ==
    ASSUME NEW S, NEW s \in Seq(S), NEW f \in Seq(Seq(S)), Len(f) = Len(s),
           \A i \in 1..Len(s) : f[i] = <<s[i]>>
    PROVE  FlattenSeq(f) = s
<1> DEFINE n == Len(s)
           w(m) == SubSeq(s, 1, m)
<1>1. n \in Nat /\ \A i \in 1..n : s[i] \in S
  BY LenProperties, ElementOfSeq
<1>2. PICK g : Sums(S, f, n, g) /\ FlattenSeq(f) = g[n]
  BY FlattenIs
<1> DEFINE M == {m \in Nat : m <= n => g[m] = w(m)}
<1>3. 0 \in M
  <2>1. w(0) = << >>
    BY SubSeqEmpty
  <2>2. g[0] = << >>
    BY <1>2 DEF Sums
  <2> HIDE DEF w
  <2> QED BY <2>1, <2>2
<1>4. ASSUME NEW m \in Nat, m \in M PROVE m + 1 \in M
  <2> SUFFICES ASSUME NEW i \in 1..n, i = m + 1 PROVE g[i] = w(i)
    OBVIOUS
  <2>1. i - 1 = m /\ m <= n
    BY <1>1
  <2>2. g[m] = w(m)
    BY <1>4, <2>1
  <2>3. g[i] = g[m] \o <<s[i]>>
    BY <1>2, <2>1 DEF Sums
  <2>4. w(i) = w(m) \o <<s[i]>>
    <3>1. 1 \in 1..Len(s) /\ i \in 1..Len(s) /\ 1 <= i
      BY <1>1
    <3>2. SubSeq(s, 1, i) = SubSeq(s, 1, i - 1) \o <<s[i]>>
      BY <3>1, SubSeqRecursiveSecond
    <3> QED BY <2>1, <3>2
  <2> HIDE DEF w
  <2> QED BY <2>2, <2>3, <2>4
<1> HIDE DEF M
<1>5. n \in M
  BY <1>1, <1>3, <1>4, SetInduction
<1>6. g[n] = w(n)
  BY <1>1, <1>5 DEF M
<1>7. w(n) = s
  BY SubSeqFull
<1> QED BY <1>2, <1>6, <1>7

-----------------------------------------------------------------------------
(* What a function makes of the elements of a sequence, joined. *)
Over(h, s) == FlattenSeq([i \in 1..Len(s) |-> h[s[i]]])

LEMMA OverMap ==
    ASSUME NEW R, NEW S, NEW h \in [R -> Seq(S)], NEW s \in Seq(R)
    PROVE  LET f == [i \in 1..Len(s) |-> h[s[i]]]
           IN  f \in Seq(Seq(S)) /\ Len(f) = Len(s) /\ \A i \in 1..Len(s) : f[i] = h[s[i]]
<1> DEFINE f == [i \in 1..Len(s) |-> h[s[i]]]
<1>1. Len(s) \in Nat /\ \A i \in 1..Len(s) : s[i] \in R
  BY LenProperties, ElementOfSeq
<1>2. f \in [1..Len(s) -> Seq(S)]
  BY <1>1
<1>3. f \in Seq(Seq(S)) /\ Len(f) = Len(s)
  <2> HIDE DEF f
  <2> QED BY <1>1, <1>2, FunctionIsSeq
<1> QED BY <1>3

LEMMA OverType ==
    ASSUME NEW R, NEW S, NEW h \in [R -> Seq(S)], NEW s \in Seq(R)
    PROVE  Over(h, s) \in Seq(S)
<1> DEFINE f == [i \in 1..Len(s) |-> h[s[i]]]
<1>1. f \in Seq(Seq(S))
  BY OverMap
<1> HIDE DEF f
<1>2. FlattenSeq(f) \in Seq(S)
  BY <1>1, FlattenType
<1> QED BY <1>2 DEF Over, f

(* f is the sequence of what h makes of the elements of s. *)
Maps(R, S, h, s, f) ==
    /\ h \in [R -> Seq(S)] /\ s \in Seq(R) /\ f \in Seq(Seq(S))
    /\ Len(f) = Len(s) /\ \A i \in 1..Len(s) : f[i] = h[s[i]]

LEMMA OverIs ==
    ASSUME NEW R, NEW S, NEW h, NEW s, NEW f, Maps(R, S, h, s, f)
    PROVE  FlattenSeq(f) = Over(h, s)
<1> USE DEF Maps
<1> DEFINE k == [i \in 1..Len(s) |-> h[s[i]]]
<1>1. k \in Seq(Seq(S)) /\ Len(k) = Len(s) /\ \A i \in 1..Len(s) : k[i] = h[s[i]]
  BY OverMap
<1> HIDE DEF k
<1>2. f = k
  BY <1>1, SeqEqual
<1> QED BY <1>2 DEF Over, k

LEMMA OverUnit ==
    ASSUME NEW R, NEW S, NEW h \in [R -> Seq(S)], NEW x \in R
    PROVE  Over(h, <<x>>) = h[x]
<1>1. <<x>> \in Seq(R) /\ Len(<<x>>) = 1 /\ <<x>>[1] = x
  OBVIOUS
<1>2. <<h[x]>> \in Seq(Seq(S)) /\ Len(<<h[x]>>) = 1 /\ <<h[x]>>[1] = h[x]
  OBVIOUS
<1>3. PICK u \in Seq(R), v \in Seq(Seq(S)) : u = <<x>> /\ v = <<h[x]>>
  BY <1>1, <1>2
<1>4. FlattenSeq(v) = Over(h, u)
  <2>1. Len(v) = Len(u) /\ \A i \in 1..Len(u) : v[i] = h[u[i]]
    BY <1>1, <1>2, <1>3
  <2>2. Maps(R, S, h, u, v)
    BY <2>1 DEF Maps
  <2> QED BY <2>2, OverIs
<1>5. FlattenSeq(<<h[x]>>) = h[x]
  <2> DEFINE y == h[x]
  <2>1. y \in Seq(S)
    OBVIOUS
  <2> HIDE DEF y
  <2>2. FlattenSeq(<<y>>) = y
    BY <2>1, FlattenUnit
  <2> QED BY <2>2 DEF y
<1> QED BY <1>3, <1>4, <1>5

LEMMA OverEmpty ==
    ASSUME NEW h
    PROVE  Over(h, << >>) = << >>
<1>1. [i \in 1..Len(<< >>) |-> h[<< >>[i]]] = << >>
  OBVIOUS
<1> QED BY <1>1, FlattenEmpty DEF Over

Joins(R, S, h, s, t) == h \in [R -> Seq(S)] /\ s \in Seq(R) /\ t \in Seq(R)

LEMMA OverConcat ==
    ASSUME NEW R, NEW S, NEW h, NEW s, NEW t, Joins(R, S, h, s, t)
    PROVE  Over(h, s \o t) = Over(h, s) \o Over(h, t)
<1> USE DEF Joins
<1>1. PICK f \in Seq(Seq(S)) : /\ f = [i \in 1..Len(s) |-> h[s[i]]] /\ Len(f) = Len(s)
                               /\ \A i \in 1..Len(s) : f[i] = h[s[i]]
  <2> DEFINE k == [i \in 1..Len(s) |-> h[s[i]]]
  <2>1. k \in Seq(Seq(S)) /\ Len(k) = Len(s) /\ \A i \in 1..Len(s) : k[i] = h[s[i]]
    BY OverMap
  <2> HIDE DEF k
  <2> QED BY <2>1 DEF k
<1>2. PICK g \in Seq(Seq(S)) : /\ g = [i \in 1..Len(t) |-> h[t[i]]] /\ Len(g) = Len(t)
                               /\ \A i \in 1..Len(t) : g[i] = h[t[i]]
  <2> DEFINE k == [i \in 1..Len(t) |-> h[t[i]]]
  <2>1. k \in Seq(Seq(S)) /\ Len(k) = Len(t) /\ \A i \in 1..Len(t) : k[i] = h[t[i]]
    BY OverMap
  <2> HIDE DEF k
  <2> QED BY <2>1 DEF k
<1>3. PICK y \in Seq(R) : y = s \o t /\ Len(y) = Len(s) + Len(t)
                          /\ \A i \in 1..(Len(s) + Len(t)) : y[i] = IF i <= Len(s) THEN s[i] ELSE t[i - Len(s)]
  <2>1. s \o t \in Seq(R)
    BY ConcatProperties
  <2> QED BY <2>1, ConcatProperties
<1>4. PICK k \in Seq(Seq(S)) : k = f \o g /\ Len(k) = Len(f) + Len(g)
                          /\ \A i \in 1..(Len(f) + Len(g)) : k[i] = IF i <= Len(f) THEN f[i] ELSE g[i - Len(f)]
  <2>1. f \o g \in Seq(Seq(S))
    BY ConcatProperties
  <2> QED BY <2>1, ConcatProperties
<1>5. Len(s) \in Nat /\ Len(t) \in Nat
  BY LenProperties
<1>6. ASSUME NEW i \in 1..Len(y) PROVE k[i] = h[y[i]]
  <2>1. CASE i <= Len(s)
    <3>1. k[i] = f[i] /\ f[i] = h[s[i]] /\ y[i] = s[i]
      BY <1>1, <1>2, <1>3, <1>4, <1>5, <2>1
    <3> QED BY <3>1
  <2>2. CASE ~(i <= Len(s))
    <3> DEFINE j == i - Len(s)
    <3>1. j \in 1..Len(t) /\ i \in 1..(Len(s) + Len(t))
      BY <1>3, <1>5, <2>2
    <3>2. k[i] = g[j] /\ y[i] = t[j]
      BY <1>1, <1>2, <1>3, <1>4, <2>2, <3>1
    <3> HIDE DEF j
    <3>3. g[j] = h[t[j]]
      BY <1>2, <3>1
    <3> QED BY <3>2, <3>3
  <2> QED BY <2>1, <2>2
<1>7. FlattenSeq(k) = Over(h, y)
  <2>1. Len(k) = Len(y)
    BY <1>1, <1>2, <1>3, <1>4
  <2>2. Maps(R, S, h, y, k)
    BY <1>6, <2>1 DEF Maps
  <2> QED BY <2>2, OverIs
<1>8. FlattenSeq(k) = FlattenSeq(f) \o FlattenSeq(g)
  BY <1>4, FlattenConcat
<1>9. FlattenSeq(f) = Over(h, s) /\ FlattenSeq(g) = Over(h, t)
  BY <1>1, <1>2 DEF Over
<1> QED BY <1>3, <1>7, <1>8, <1>9

(* It does not miss what it makes nothing of. *)
LEMMA OverSubsequence ==
    ASSUME NEW R, NEW S, NEW h \in [R -> Seq(S)], NEW s \in Seq(R), NEW I \in SUBSET (1..Len(s)),
           \A i \in 1..Len(s) : i \notin I => h[s[i]] = << >>
    PROVE  Over(h, Subsequence(s, I)) = Over(h, s)
<1>1. PICK f \in Seq(Seq(S)) : /\ f = [i \in 1..Len(s) |-> h[s[i]]] /\ Len(f) = Len(s)
                               /\ \A i \in 1..Len(s) : f[i] = h[s[i]]
  <2> DEFINE k == [i \in 1..Len(s) |-> h[s[i]]]
  <2>1. k \in Seq(Seq(S)) /\ Len(k) = Len(s) /\ \A i \in 1..Len(s) : k[i] = h[s[i]]
    BY OverMap
  <2> HIDE DEF k
  <2> QED BY <2>1 DEF k
<1>2. I \in SUBSET (1..Len(f))
  BY <1>1
<1>3. FlattenSeq(Subsequence(f, I)) = FlattenSeq(f)
  BY <1>1, <1>2, FlattenDrop
<1>4. PICK u \in Seq(Seq(S)) : u = Subsequence(f, I) /\ Picked(f, I)
  BY <1>2, SubsequenceIs
<1>5. PICK v \in Seq(R) : v = Subsequence(s, I) /\ Picked(s, I)
  BY SubsequenceIs
<1>6. Len(u) = Len(v) /\ \A i \in 1..Len(v) : u[i] = h[v[i]]
  <2>1. Len(u) = Cardinality(I) /\ Len(v) = Cardinality(I)
    BY <1>4, <1>5 DEF Picked
  <2>2. ASSUME NEW i \in 1..Cardinality(I) PROVE u[i] = h[v[i]]
    <3>1. Nth(I, i) \in 1..Len(s) /\ u[i] = f[Nth(I, i)] /\ v[i] = s[Nth(I, i)]
      BY <1>4, <1>5 DEF Picked
    <3> QED BY <1>1, <3>1
  <2> QED BY <2>1, <2>2
<1>7. FlattenSeq(u) = Over(h, v)
  <2>1. Maps(R, S, h, v, u)
    BY <1>6 DEF Maps
  <2> QED BY <2>1, OverIs
<1> QED BY <1>1, <1>3, <1>4, <1>5, <1>7 DEF Over

(* A subsequence is the concatenation of the elements that are in it. *)
LEMMA SubsequenceOver ==
    ASSUME NEW R, NEW h \in [R -> Seq(R)], NEW s \in Seq(R), NEW I \in SUBSET (1..Len(s)),
           \A i \in 1..Len(s) : h[s[i]] = IF i \in I THEN <<s[i]>> ELSE << >>
    PROVE  Subsequence(s, I) = Over(h, s)
<1>1. PICK v \in Seq(R) : v = Subsequence(s, I) /\ Picked(s, I)
  BY SubsequenceIs
<1>2. Over(h, v) = Over(h, s)
  BY <1>1, OverSubsequence
<1> DEFINE f == [i \in 1..Len(v) |-> h[v[i]]]
<1>3. f \in Seq(Seq(R)) /\ Len(f) = Len(v) /\ \A i \in 1..Len(v) : f[i] = h[v[i]]
  BY OverMap
<1>4. \A i \in 1..Len(v) : h[v[i]] = <<v[i]>>
  <2> SUFFICES ASSUME NEW i \in 1..Cardinality(I) PROVE h[v[i]] = <<v[i]>>
    BY <1>1 DEF Picked
  <2>1. Nth(I, i) \in I /\ Nth(I, i) \in 1..Len(s) /\ v[i] = s[Nth(I, i)]
    BY <1>1 DEF Picked
  <2>2. h[s[Nth(I, i)]] = <<s[Nth(I, i)]>>
    BY <2>1
  <2> QED BY <2>1, <2>2
<1> HIDE DEF f
<1>5. FlattenSeq(f) = v
  BY <1>3, <1>4, FlattenUnits
<1> QED BY <1>1, <1>2, <1>5 DEF f, Over

(* What is before an element and what is behind it do not depend on it. *)
OverAt(R, S, h, s, k, a, b) ==
    /\ a \in Seq(S) /\ b \in Seq(S)
    /\ Over(h, s) = a \o (h[s[k]] \o b)
    /\ \A x \in R : Over(h, [s EXCEPT ![k] = x]) = a \o (h[x] \o b)

LEMMA OverAround ==
    ASSUME NEW R, NEW S, NEW h \in [R -> Seq(S)], NEW s \in Seq(R), NEW k \in 1..Len(s)
    PROVE  \E a, b : OverAt(R, S, h, s, k, a, b)
<1>1. PICK f \in Seq(Seq(S)) : /\ f = [i \in 1..Len(s) |-> h[s[i]]] /\ Len(f) = Len(s)
                               /\ \A i \in 1..Len(s) : f[i] = h[s[i]]
  <2> DEFINE g == [i \in 1..Len(s) |-> h[s[i]]]
  <2>1. g \in Seq(Seq(S)) /\ Len(g) = Len(s) /\ \A i \in 1..Len(s) : g[i] = h[s[i]]
    BY OverMap
  <2> HIDE DEF g
  <2> QED BY <2>1 DEF g
<1>2. PICK a, b : Around(S, f, k, a, b)
  <2>1. k \in 1..Len(f)
    BY <1>1
  <2> QED BY <2>1, FlattenAround
<1>3. Over(h, s) = a \o (h[s[k]] \o b)
  BY <1>1, <1>2 DEF Over, Around
<1>4. ASSUME NEW x \in R PROVE Over(h, [s EXCEPT ![k] = x]) = a \o (h[x] \o b)
  <2> DEFINE t == [s EXCEPT ![k] = x]
             y == h[x]
             g == [f EXCEPT ![k] = y]
  <2>1. t \in Seq(R) /\ Len(t) = Len(s) /\ \A j \in 1..Len(s) : t[j] = IF j = k THEN x ELSE s[j]
    BY ExceptSeq
  <2>2. y \in Seq(S) /\ k \in 1..Len(f)
    BY <1>1
  <2>3. g \in Seq(Seq(S)) /\ Len(g) = Len(f) /\ \A j \in 1..Len(f) : g[j] = IF j = k THEN y ELSE f[j]
    <3> HIDE DEF y
    <3> QED BY <2>2, ExceptSeq
  <2>4. FlattenSeq(g) = a \o (y \o b)
    BY <1>2, <2>2 DEF Around
  <2> HIDE DEF t, g
  <2>5. FlattenSeq(g) = Over(h, t)
    <3>1. Len(g) = Len(t) /\ \A j \in 1..Len(t) : g[j] = h[t[j]]
      BY <1>1, <2>1, <2>3
    <3>2. Maps(R, S, h, t, g)
      BY <2>1, <2>3, <3>1 DEF Maps
    <3> QED BY <3>2, OverIs
  <2> QED BY <2>4, <2>5 DEF t
<1> QED BY <1>2, <1>3, <1>4 DEF Around, OverAt

-----------------------------------------------------------------------------
(* Texts. *)
LEMMA UpToIs ==
    ASSUME NEW R, NEW s \in Seq(R), NEW n \in Nat
    PROVE  /\ UpTo(s, n) \in Seq(R) /\ Len(UpTo(s, n)) = IF Len(s) > n THEN n ELSE Len(s)
           /\ \A i \in 1..Len(UpTo(s, n)) : UpTo(s, n)[i] = s[i]
           /\ Len(s) <= n => UpTo(s, n) = s
<1> DEFINE m == IF Len(s) > n THEN n ELSE Len(s)
<1>1. Len(s) \in Nat
  BY LenProperties
<1>2. m \in Nat /\ m <= Len(s) /\ m <= n
  BY <1>1
<1>3. UpTo(s, n) = SubSeq(s, 1, m)
  BY DEF UpTo
<1>4. Len(s) <= n => m = Len(s)
  BY <1>1
<1> HIDE DEF m
<1>5. 1 \in Int /\ m \in Int /\ \A i \in 1..m : s[i] \in R
  BY <1>1, <1>2, ElementOfSeq
<1>6. /\ SubSeq(s, 1, m) \in Seq(R) /\ Len(SubSeq(s, 1, m)) = IF 1 <= m THEN m - 1 + 1 ELSE 0
      /\ \A i \in 1..(m - 1 + 1) : SubSeq(s, 1, m)[i] = s[1 + i - 1]
  BY <1>5, SubSeqProperties
<1>7. Len(SubSeq(s, 1, m)) = m /\ \A i \in 1..m : SubSeq(s, 1, m)[i] = s[i]
  <2>1. m - 1 + 1 = m /\ \A i \in 1..m : 1 + i - 1 = i
    BY <1>2
  <2>2. (IF 1 <= m THEN m - 1 + 1 ELSE 0) = m
    BY <1>2
  <2> QED BY <1>6, <2>1, <2>2
<1>8. SubSeq(s, 1, Len(s)) = s
  BY SubSeqFull
<1> QED BY <1>3, <1>4, <1>6, <1>7, <1>8 DEF m

LEMMA UnitIsSeq ==
    ASSUME NEW S, NEW e \in S
    PROVE  <<e>> \in Seq(S) /\ << >> \in Seq(S)
OBVIOUS

(* What is written of the arguments of a call. *)
LEMMA ClippedIn ==
    ASSUME NEW S, NEW args \in Seq(S), Ellipsis \in S
    PROVE  Clipped(args) \in Seq(S)
<1>1. UpTo(args, MaxArgs) \in Seq(S)
  BY TextSizesAssumption, UpToIs
<1> DEFINE e == <<Ellipsis>>
<1>2. e \in Seq(S)
  BY UnitIsSeq
<1> HIDE DEF e
<1>3. UpTo(args, MaxArgs) \o e \in Seq(S)
  BY <1>1, <1>2, ConcatProperties
<1> QED BY <1>3 DEF Clipped, e

(* What is written of a part has no other words than the part, but for the   *)
(* marks of the plugin.                                                      *)
LEMMA RenderedIn ==
    ASSUME NEW S, NEW p \in Parts, Marks \subseteq S, p.kind # "reasoning" => p.words \in Seq(S)
    PROVE  Rendered(p) \in Seq(S)
<1>1. p.kind \in {"text", "call", "result", "response", "reasoning", "image"}
  BY DEF Parts, Kinds
<1>2. ToolCall \in S /\ ToolResult \in S /\ Ellipsis \in S
  BY DEF Marks
<1>3. CASE p.kind \in {"reasoning", "image"}
  <2>1. Rendered(p) = << >>
    BY <1>3 DEF Rendered
  <2> QED BY <2>1
<1>4. CASE p.kind \in {"text", "result"}
  <2>1. Rendered(p) = p.words
    BY <1>4 DEF Rendered
  <2> QED BY <1>4, <2>1
<1>5. CASE p.kind \in {"call", "response"}
  <2> DEFINE v == Clipped(p.words)
             c == <<ToolCall>>
             r == <<ToolResult>>
  <2>1. v \in Seq(S)
    BY <1>2, <1>5, ClippedIn
  <2>2. c \in Seq(S) /\ r \in Seq(S)
    BY <1>2, UnitIsSeq
  <2>3. Rendered(p) = c \o v \/ Rendered(p) = r \o v
    BY <1>5 DEF Rendered
  <2> HIDE DEF v, c, r
  <2>4. c \o v \in Seq(S)
    BY <2>1, <2>2, ConcatProperties
  <2>5. r \o v \in Seq(S)
    BY <2>1, <2>2, ConcatProperties
  <2> QED BY <2>3, <2>4, <2>5
<1> QED BY <1>1, <1>3, <1>4, <1>5

Renders == [p \in Parts |-> Rendered(p)]

LEMMA RendersIs ==
    Renders \in [Parts -> Seq(Words)] /\ \A p \in Parts : Renders[p] = Rendered(p)
<1>1. ASSUME NEW p \in Parts PROVE Rendered(p) \in Seq(Words)
  <2>1. p.words \in Seq(Words)
    BY DEF Parts
  <2>2. Marks \subseteq Words
    BY DEF Words
  <2> QED BY <2>1, <2>2, RenderedIn
<1> QED BY <1>1 DEF Renders

LEMMA TextIs ==
    ASSUME NEW parts \in Seq(Parts)
    PROVE  ContentText(parts) = Over(Renders, parts) /\ ContentText(parts) \in Seq(Words)
<1>1. DOMAIN parts = 1..Len(parts) /\ \A i \in 1..Len(parts) : parts[i] \in Parts
  BY LenProperties, ElementOfSeq
<1>2. [i \in DOMAIN parts |-> Rendered(parts[i])] = [i \in 1..Len(parts) |-> Renders[parts[i]]]
  BY <1>1, RendersIs
<1>3. ContentText(parts) = Over(Renders, parts)
  BY <1>2 DEF ContentText, Over
<1>4. Over(Renders, parts) \in Seq(Words)
  BY RendersIs, OverType
<1> QED BY <1>3, <1>4

-----------------------------------------------------------------------------
(* The block and what is taken out of a text. *)
Untagged == Words \ Tags

LEMMA TagsDiffer ==
    /\ Open \in Words /\ Close \in Words /\ Bullet \in Untagged
    /\ Open # Close /\ Open \in Tags /\ Close \in Tags
BY DEF Open, Close, Bullet, Literal, Tags, Untagged, Words

IsBlock(b) ==
    /\ b \in Seq(Words) /\ Len(b) >= 2
    /\ b[1] = Open /\ b[Len(b)] = Close
    /\ \A i \in 2..(Len(b) - 1) : b[i] \notin Tags

NoOpen(w) == w \in Seq(Words) /\ \A i \in 1..Len(w) : w[i] # Open

LEMMA BlockIs ==
    ASSUME NEW ls \in Seq(Seq(Untagged)), ls # << >>
    PROVE  IsBlock(MemoryBlock(ls))
<1> DEFINE f == [i \in DOMAIN ls |-> <<Bullet>> \o ls[i]]
           m == FlattenSeq(f)
<1>1. m \in Seq(Untagged)
  <2>1. DOMAIN ls = 1..Len(ls) /\ Len(ls) \in Nat /\ \A i \in 1..Len(ls) : ls[i] \in Seq(Untagged)
    BY LenProperties, ElementOfSeq
  <2>2. \A i \in 1..Len(ls) : <<Bullet>> \o ls[i] \in Seq(Untagged)
    <3>1. <<Bullet>> \in Seq(Untagged)
      BY TagsDiffer
    <3> QED BY <2>1, <3>1, ConcatProperties
  <2>3. f \in [1..Len(ls) -> Seq(Untagged)]
    BY <2>1, <2>2
  <2>4. f \in Seq(Seq(Untagged))
    <3> HIDE DEF f
    <3> QED BY <2>1, <2>3, FunctionIsSeq
  <2> HIDE DEF f
  <2> QED BY <2>4, FlattenType
<1>2. MemoryBlock(ls) = (<<Open>> \o m) \o <<Close>>
  BY DEF MemoryBlock
<1> HIDE DEF m
<1>3. m \in Seq(Words) /\ Len(m) \in Nat /\ \A i \in 1..Len(m) : m[i] \notin Tags
  BY <1>1 DEF Untagged
<1>4. PICK a \in Seq(Words) : /\ a = <<Open>> \o m /\ Len(a) = Len(m) + 1
                               /\ a[1] = Open /\ \A i \in 2..Len(a) : a[i] \notin Tags
  <2> DEFINE a == <<Open>> \o m
  <2>1. <<Open>> \in Seq(Words) /\ Len(<<Open>>) = 1 /\ <<Open>>[1] = Open
    BY TagsDiffer
  <2>2. /\ a \in Seq(Words) /\ Len(a) = 1 + Len(m)
        /\ \A i \in 1..(1 + Len(m)) : a[i] = IF i <= 1 THEN <<Open>>[i] ELSE m[i - 1]
    BY <1>3, <2>1, ConcatProperties
  <2> HIDE DEF a
  <2>3. ASSUME NEW i \in 2..Len(a) PROVE a[i] \notin Tags
    <3>1. i \in 1..(1 + Len(m)) /\ ~(i <= 1) /\ i - 1 \in 1..Len(m)
      BY <1>3, <2>2
    <3> QED BY <1>3, <2>2, <3>1
  <2>4. 1 \in 1..(1 + Len(m)) /\ Len(a) = Len(m) + 1
    BY <1>3, <2>2
  <2>5. a[1] = Open
    BY <2>1, <2>2, <2>4
  <2> QED BY <2>2, <2>3, <2>4, <2>5 DEF a
<1> DEFINE b == a \o <<Close>>
<1>5. /\ b \in Seq(Words) /\ Len(b) = Len(a) + 1
      /\ b[Len(a) + 1] = Close /\ \A i \in 1..Len(a) : b[i] = a[i]
  <2>1. b = Append(a, Close)
    BY TagsDiffer, AppendIsConcat
  <2>2. Append(a, Close) \in Seq(Words) /\ Len(Append(a, Close)) = Len(a) + 1
        /\ \A i \in 1..Len(a) : Append(a, Close)[i] = a[i]
        /\ Append(a, Close)[Len(a) + 1] = Close
    BY TagsDiffer, AppendProperties
  <2> QED BY <2>1, <2>2
<1>6. MemoryBlock(ls) = b
  BY <1>2, <1>4
<1> HIDE DEF b
<1>7. IsBlock(b)
  <2>1. Len(b) >= 2 /\ 1 \in 1..Len(a) /\ Len(b) = Len(a) + 1
    BY <1>3, <1>4, <1>5
  <2>2. ASSUME NEW i \in 2..(Len(b) - 1) PROVE b[i] \notin Tags
    <3>1. i \in 2..Len(a) /\ i \in 1..Len(a)
      BY <1>3, <1>4, <1>5
    <3> QED BY <1>4, <1>5, <3>1
  <2> QED BY <1>4, <1>5, <2>1, <2>2 DEF IsBlock
<1> QED BY <1>6, <1>7

LEMMA StripPlain ==
    ASSUME NEW w, NoOpen(w)
    PROVE  StripMemoryBlock(w) = w
<1>1. w \in Seq(Words) /\ DOMAIN w = 1..Len(w) /\ Len(w) \in Nat
  BY LenProperties DEF NoOpen
<1>2. \A i \in 1..Len(w) : ~InBlock(w, i)
  <2> SUFFICES ASSUME NEW i \in 1..Len(w), NEW j \in 1..i, w[j] = Open PROVE FALSE
    BY DEF InBlock, Opens
  <2>1. j \in 1..Len(w)
    BY <1>1
  <2> QED BY <2>1 DEF NoOpen
<1>3. {i \in DOMAIN w : ~InBlock(w, i)} = 1..Len(w)
  BY <1>1, <1>2
<1>4. Subsequence(w, 1..Len(w)) = w
  BY <1>1, SubsequenceAll
<1> QED BY <1>3, <1>4 DEF StripMemoryBlock

Joined(w, u, b, v) ==
    /\ u \in Seq(Words) /\ b \in Seq(Words) /\ v \in Seq(Words) /\ w \in Seq(Words)
    /\ Len(w) = Len(u) + Len(b) + Len(v)
    /\ \A i \in 1..Len(u) : w[i] = u[i]
    /\ \A i \in 1..Len(b) : w[Len(u) + i] = b[i]
    /\ \A i \in 1..Len(v) : w[Len(u) + Len(b) + i] = v[i]

LEMMA JoinedIs ==
    ASSUME NEW u \in Seq(Words), NEW b \in Seq(Words), NEW v \in Seq(Words)
    PROVE  Joined(u \o (b \o v), u, b, v)
<1> DEFINE t == b \o v
           w == u \o t
<1>1. /\ t \in Seq(Words) /\ Len(t) = Len(b) + Len(v)
      /\ \A i \in 1..(Len(b) + Len(v)) : t[i] = IF i <= Len(b) THEN b[i] ELSE v[i - Len(b)]
  BY ConcatProperties
<1> HIDE DEF t
<1>2. /\ w \in Seq(Words) /\ Len(w) = Len(u) + Len(t)
      /\ \A i \in 1..(Len(u) + Len(t)) : w[i] = IF i <= Len(u) THEN u[i] ELSE t[i - Len(u)]
  <2>1. t \in Seq(Words)
    BY <1>1
  <2> QED BY <2>1, ConcatProperties
<1> HIDE DEF w
<1>3. Len(u) \in Nat /\ Len(b) \in Nat /\ Len(v) \in Nat
  BY LenProperties
<1>4. ASSUME NEW i \in 1..Len(u) PROVE w[i] = u[i]
  <2>1. i \in 1..(Len(u) + Len(t)) /\ i <= Len(u)
    BY <1>1, <1>3
  <2> QED BY <1>2, <2>1
<1>5. ASSUME NEW i \in 1..Len(b) PROVE w[Len(u) + i] = b[i]
  <2> DEFINE k == Len(u) + i
  <2>1. k \in 1..(Len(u) + Len(t)) /\ ~(k <= Len(u)) /\ k - Len(u) = i /\ i \in 1..(Len(b) + Len(v))
    BY <1>1, <1>3
  <2> HIDE DEF k
  <2>2. w[k] = t[k - Len(u)]
    BY <1>2, <2>1
  <2>3. i <= Len(b) /\ t[i] = b[i]
    BY <1>1, <1>3, <2>1
  <2>4. w[k] = b[i]
    BY <2>1, <2>2, <2>3
  <2> QED BY <2>4 DEF k
<1>6. ASSUME NEW i \in 1..Len(v) PROVE w[Len(u) + Len(b) + i] = v[i]
  <2> DEFINE k == Len(u) + Len(b) + i
             j == Len(b) + i
  <2>1. /\ k \in 1..(Len(u) + Len(t)) /\ ~(k <= Len(u)) /\ k - Len(u) = j
        /\ j \in 1..(Len(b) + Len(v)) /\ ~(j <= Len(b)) /\ j - Len(b) = i
    BY <1>1, <1>3
  <2> HIDE DEF k, j
  <2>2. w[k] = t[k - Len(u)]
    BY <1>2, <2>1
  <2>3. t[j] = v[j - Len(b)]
    BY <1>1, <2>1
  <2>4. w[k] = v[i]
    BY <2>1, <2>2, <2>3
  <2> QED BY <2>4 DEF k
<1>7. Len(w) = Len(u) + Len(b) + Len(v)
  BY <1>1, <1>2, <1>3
<1> QED BY <1>2, <1>4, <1>5, <1>6, <1>7 DEF Joined, w, t

(* A block with no other near it is what is in a block. *)
LEMMA InTheBlock ==
    ASSUME NEW w, NEW u, NEW b, NEW v, Joined(w, u, b, v), NoOpen(u), NoOpen(v), IsBlock(b),
           NEW i \in 1..Len(w)
    PROVE  InBlock(w, i) <=> i \in (Len(u) + 1)..(Len(u) + Len(b))
<1> DEFINE l == Len(u)
           m == Len(u) + Len(b)
           n == Len(w)
<1>1. /\ Len(u) \in Nat /\ Len(b) \in Nat /\ Len(v) \in Nat /\ n \in Nat
      /\ n = m + Len(v) /\ Len(b) >= 2
  BY LenProperties DEF Joined, IsBlock
<1>2. \A j \in 1..l : w[j] # Open
  BY DEF Joined, NoOpen
<1>3. w[l + 1] = Open /\ w[m] = Close
  <2>1. 1 \in 1..Len(b) /\ Len(b) \in 1..Len(b)
    BY <1>1
  <2> QED BY <2>1 DEF Joined, IsBlock
<1>4. ASSUME NEW j \in (l + 2)..(m - 1) PROVE w[j] \notin Tags
  <2>1. j - l \in 2..(Len(b) - 1) /\ j - l \in 1..Len(b) /\ Len(u) + (j - l) = j
    BY <1>1
  <2> QED BY <2>1 DEF Joined, IsBlock
<1>5. ASSUME NEW j \in (m + 1)..n PROVE w[j] # Open
  <2>1. j - m \in 1..Len(v) /\ Len(u) + Len(b) + (j - m) = j
    BY <1>1
  <2> QED BY <2>1 DEF Joined, NoOpen
<1> HIDE DEF l, m, n
<1>6. l \in Nat /\ m \in Nat /\ l + 2 <= m /\ m <= n /\ n \in Nat /\ i \in 1..n
  BY <1>1 DEF l, m, n
<1>7. CASE i \in (l + 1)..m
  <2>1. l + 1 \in 1..i /\ m \in i..n
    BY <1>6, <1>7
  <2>2. \A k \in (l + 1)..(i - 1) : w[k] # Close
    <3> SUFFICES ASSUME NEW k \in (l + 1)..(i - 1) PROVE w[k] # Close
      OBVIOUS
    <3>1. k = l + 1 \/ k \in (l + 2)..(m - 1)
      BY <1>6, <1>7
    <3> QED BY <1>3, <1>4, <3>1, TagsDiffer
  <2>3. InBlock(w, i)
    <3>1. \E j \in 1..i : Opens(w[j]) /\ \A k \in j..(i - 1) : w[k] # Close
      BY <1>3, <2>1, <2>2 DEF Opens
    <3>2. \E j \in i..Len(w) : w[j] = Close
      BY <1>3, <2>1 DEF n
    <3> QED BY <3>1, <3>2 DEF InBlock
  <2> QED BY <1>7, <2>3 DEF l, m
<1>8. CASE i \notin (l + 1)..m
  <2>1. ASSUME NEW j \in 1..i, w[j] = Open, \A k \in j..(i - 1) : w[k] # Close PROVE FALSE
    <3>1. j \in 1..l \/ j = l + 1 \/ j \in (l + 2)..(m - 1) \/ j = m \/ j \in (m + 1)..n
      BY <1>6
    <3>2. j = l + 1
      BY <1>2, <1>3, <1>4, <1>5, <2>1, <3>1, TagsDiffer
    <3>3. m \in j..(i - 1)
      BY <1>6, <1>8, <3>2
    <3> QED BY <1>3, <2>1, <3>3
  <2>2. ~InBlock(w, i)
    BY <2>1 DEF InBlock, Opens
  <2> QED BY <1>8, <2>2 DEF l, m
<1> QED BY <1>7, <1>8

LEMMA StripAround ==
    ASSUME NEW u, NEW b, NEW v, NoOpen(u), NoOpen(v), IsBlock(b)
    PROVE  StripMemoryBlock(u \o (b \o v)) = u \o v
<1> DEFINE w == u \o (b \o v)
           lu == Len(u)
           lb == Len(b)
           lv == Len(v)
           I == {i \in DOMAIN w : ~InBlock(w, i)}
           p == [k \in 1..(lu + lv) |-> IF k <= lu THEN k ELSE k + lb]
           t == u \o v
<1>1. u \in Seq(Words) /\ b \in Seq(Words) /\ v \in Seq(Words)
  BY DEF NoOpen, IsBlock
<1>2. Joined(w, u, b, v)
  BY <1>1, JoinedIs
<1>3. /\ t \in Seq(Words) /\ Len(t) = lu + lv
      /\ \A k \in 1..(lu + lv) : t[k] = IF k <= lu THEN u[k] ELSE v[k - lu]
  BY <1>1, ConcatProperties
<1>4. lu \in Nat /\ lb \in Nat /\ lv \in Nat
  BY <1>1, LenProperties
<1> HIDE DEF w, t
<1>5. w \in Seq(Words) /\ Len(w) = lu + lb + lv /\ DOMAIN w = 1..Len(w)
  BY <1>2, LenProperties DEF Joined
<1>6. I \in SUBSET (1..Len(w)) /\ \A i \in 1..Len(w) : i \in I <=> i \notin (lu + 1)..(lu + lb)
  <2>1. \A i \in 1..Len(w) : i \in I <=> ~InBlock(w, i)
    BY <1>5
  <2>2. \A i \in 1..Len(w) : InBlock(w, i) <=> i \in (lu + 1)..(lu + lb)
    BY <1>2, InTheBlock
  <2> QED BY <1>5, <2>1, <2>2
<1> HIDE DEF I, lu, lb, lv
<1>7. p \in [1..(lu + lv) -> I]
  <2> SUFFICES ASSUME NEW k \in 1..(lu + lv) PROVE (IF k <= lu THEN k ELSE k + lb) \in I
    OBVIOUS
  <2>1. CASE k <= lu
    <3>1. k \in 1..Len(w) /\ k \notin (lu + 1)..(lu + lb)
      BY <1>4, <1>5, <2>1
    <3> QED BY <1>6, <2>1, <3>1
  <2>2. CASE ~(k <= lu)
    <3>1. k + lb \in 1..Len(w) /\ k + lb \notin (lu + 1)..(lu + lb)
      BY <1>4, <1>5, <2>2
    <3> QED BY <1>6, <2>2, <3>1
  <2> QED BY <2>1, <2>2
<1>8. \A k, l \in 1..(lu + lv) : k < l => p[k] < p[l]
  BY <1>4
<1>9. \A i \in I : \E k \in 1..(lu + lv) : p[k] = i
  <2> SUFFICES ASSUME NEW i \in I PROVE \E k \in 1..(lu + lv) : p[k] = i
    OBVIOUS
  <2>1. i \in 1..Len(w) /\ i \notin (lu + 1)..(lu + lb)
    BY <1>6
  <2>2. CASE i <= lu
    <3>1. i \in 1..(lu + lv) /\ p[i] = i
      BY <1>4, <1>5, <2>1, <2>2
    <3> QED BY <3>1
  <2>3. CASE ~(i <= lu)
    <3>1. i - lb \in 1..(lu + lv) /\ ~(i - lb <= lu) /\ (i - lb) + lb = i
      BY <1>4, <1>5, <2>1, <2>3
    <3>2. p[i - lb] = i
      BY <3>1
    <3> QED BY <3>1, <3>2
  <2> QED BY <2>2, <2>3
<1>10. \A k \in 1..(lu + lv) : p[k] = IF k <= lu THEN k ELSE k + lb
  OBVIOUS
<1> HIDE DEF p
<1>11. Len(Subsequence(w, I)) = lu + lv /\ \A k \in 1..(lu + lv) : Subsequence(w, I)[k] = w[p[k]]
  <2>1. lu + lv \in Nat
    BY <1>4
  <2>2. Enumerates(Words, w, I, lu + lv, p)
    BY <1>5, <1>6, <1>7, <1>8, <1>9, <2>1 DEF Enumerates
  <2> QED BY <2>2, SubsequenceBy
<1>12. ASSUME NEW k \in 1..(lu + lv) PROVE Subsequence(w, I)[k] = t[k]
  <2>1. CASE k <= lu
    <3>1. k \in 1..lu
      BY <1>4, <2>1
    <3>2. w[k] = u[k]
      BY <1>2, <3>1 DEF Joined, lu
    <3> QED BY <1>3, <1>10, <1>11, <2>1, <3>2
  <2>2. CASE ~(k <= lu)
    <3>1. k - lu \in 1..lv /\ lu + lb + (k - lu) = k + lb
      BY <1>4, <2>2
    <3>2. w[lu + lb + (k - lu)] = v[k - lu]
      BY <1>2, <3>1 DEF Joined, lu, lb, lv
    <3> QED BY <1>3, <1>10, <1>11, <2>2, <3>1, <3>2
  <2> QED BY <2>1, <2>2
<1>13. Subsequence(w, I) \in Seq(Words)
  BY <1>5, <1>6, SubsequenceIs
<1>14. Subsequence(w, I) = t
  <2> DEFINE s == Subsequence(w, I)
  <2>1. s \in Seq(Words) /\ Len(s) = Len(t) /\ \A k \in 1..Len(s) : s[k] = t[k]
    BY <1>3, <1>11, <1>12, <1>13
  <2> HIDE DEF s
  <2>2. s = t
    BY <1>3, <2>1, SeqEqual
  <2> QED BY <2>2 DEF s
<1> QED BY <1>14 DEF StripMemoryBlock, I, w, t

(* A text with one block has one opening tag. *)
LEMMA OneOpening ==
    ASSUME NEW w \in Seq(Words), NEW k \in Nat, \A i \in 1..Len(w) : w[i] = Open => i = k
    PROVE  Len(Block(w)) <= 1
<1> DEFINE I == {i \in DOMAIN w : w[i] = Open}
<1>1. I \in SUBSET (1..Len(w)) /\ I \in SUBSET {k}
  <2>1. DOMAIN w = 1..Len(w)
    BY LenProperties
  <2> QED BY <2>1
<1> HIDE DEF I
<1>2. Len(Subsequence(w, I)) = Cardinality(I)
  BY <1>1, SubsequenceIs DEF Picked
<1>3. Cardinality(I) <= 1
  <2>1. IsFiniteSet({k}) /\ Cardinality({k}) = 1
    BY FS_Singleton
  <2>2. Cardinality(I) <= Cardinality({k})
    BY <1>1, <2>1, FS_Subset
  <2> QED BY <2>1, <2>2
<1> QED BY <1>2, <1>3 DEF Block, Kept, I

-----------------------------------------------------------------------------
(* What is put into a prompt. *)
PlainParts(parts) == parts \in Seq(Parts) /\ \A i \in 1..Len(parts) : PlainPart(parts[i])

LEMMA TextPartIs ==
    ASSUME NEW w \in Seq(Words)
    PROVE  /\ TextPart(w) \in Parts /\ TextPart(w).kind = "text" /\ TextPart(w).words = w
           /\ Renders[TextPart(w)] = w
<1>1. TextPart(w) \in Parts /\ TextPart(w).kind = "text" /\ TextPart(w).words = w
  BY DEF TextPart, Part, Parts, Kinds
<1>2. Rendered(TextPart(w)) = w
  BY <1>1 DEF Rendered
<1> QED BY <1>1, <1>2, RendersIs

LEMMA PlainPartIs ==
    ASSUME NEW p \in Parts, PlainPart(p)
    PROVE  /\ p.kind = "image" \/ p.kind = "text"
           /\ p.kind = "image" => Renders[p] = << >>
           /\ p.kind = "text" => p = TextPart(p.words) /\ NoOpen(p.words) /\ Renders[p] = p.words
           /\ NoOpen(Renders[p])
<1>1. p.words \in Seq(Words) /\ DOMAIN p.words = 1..Len(p.words)
  BY LenProperties DEF Parts
<1>2. CASE p.kind = "image"
  <2>1. Renders[p] = << >>
    BY <1>2, RendersIs DEF Rendered
  <2>2. NoOpen(<< >>)
    BY DEF NoOpen
  <2> QED BY <1>2, <2>1, <2>2
<1>3. CASE p.kind # "image"
  <2>1. p = TextPart(p.words) /\ \A k \in DOMAIN p.words : p.words[k] # Open
    BY <1>3 DEF PlainPart
  <2>2. NoOpen(p.words)
    BY <1>1, <2>1 DEF NoOpen
  <2>3. p.kind = "text" /\ Renders[p] = p.words
    BY <1>1, <2>1, TextPartIs
  <2> QED BY <2>1, <2>2, <2>3
<1> QED BY <1>2, <1>3

LEMMA StrippedPlain ==
    ASSUME NEW parts, PlainParts(parts)
    PROVE  Stripped(parts) = parts
<1>1. parts \in Seq(Parts) /\ DOMAIN parts = 1..Len(parts) /\ Len(parts) \in Nat
  BY LenProperties DEF PlainParts
<1>2. ASSUME NEW i \in 1..Len(parts)
      PROVE  (IF parts[i].kind # "text" THEN parts[i] ELSE TextPart(StripMemoryBlock(parts[i].words))) = parts[i]
  <2>1. parts[i] \in Parts /\ PlainPart(parts[i])
    BY <1>1, ElementOfSeq DEF PlainParts
  <2>2. CASE parts[i].kind = "text"
    <3>1. parts[i] = TextPart(parts[i].words) /\ NoOpen(parts[i].words)
      BY <2>1, <2>2, PlainPartIs
    <3>2. StripMemoryBlock(parts[i].words) = parts[i].words
      BY <3>1, StripPlain
    <3> QED BY <2>2, <3>1, <3>2
  <2> QED BY <2>2
<1>3. Stripped(parts) = [i \in 1..Len(parts) |-> parts[i]]
  BY <1>1, <1>2 DEF Stripped
<1> QED BY <1>1, <1>3

Blank == TextPart(<< >>)

Filled(parts) == PlainParts(parts) /\ \A i \in 1..Len(parts) : parts[i] # Blank

LEMMA OthersPlain ==
    ASSUME NEW parts, PlainParts(parts)
    PROVE  LET I == {i \in 1..Len(parts) : parts[i] # Blank}
           IN  Others(parts) = Subsequence(parts, I) /\ Filled(Others(parts))
<1> DEFINE I == {i \in 1..Len(parts) : parts[i] # Blank}
           o == Subsequence(parts, I)
<1>1. parts \in Seq(Parts) /\ DOMAIN parts = 1..Len(parts)
  BY LenProperties DEF PlainParts
<1>2. Others(parts) = o
  BY <1>1, StrippedPlain DEF Others, Kept, Blank
<1>3. I \in SUBSET (1..Len(parts))
  OBVIOUS
<1>4. Picked(parts, I) /\ o \in Seq(Parts)
  <2> HIDE DEF I
  <2> QED BY <1>1, <1>3, SubsequenceIs
<1>5. \A i \in 1..Len(o) : Nth(I, i) \in I /\ o[i] = parts[Nth(I, i)]
  BY <1>4 DEF Picked
<1>6. ASSUME NEW i \in 1..Len(o) PROVE PlainPart(o[i]) /\ o[i] # Blank
  BY <1>5 DEF PlainParts
<1>7. Filled(o)
  <2> HIDE DEF o, I
  <2> QED BY <1>4, <1>6 DEF Filled, PlainParts
<1> QED BY <1>2, <1>7

LEMMA OthersFilled ==
    ASSUME NEW o, Filled(o)
    PROVE  Others(o) = o
<1>1. PlainParts(o) /\ o \in Seq(Parts)
  BY DEF Filled, PlainParts
<1>2. {i \in 1..Len(o) : o[i] # Blank} = 1..Len(o)
  BY DEF Filled
<1>3. Others(o) = Subsequence(o, {i \in 1..Len(o) : o[i] # Blank})
  BY <1>1, OthersPlain
<1> QED BY <1>1, <1>2, <1>3, SubsequenceAll

LEMMA StripBlock ==
    ASSUME NEW b, IsBlock(b)
    PROVE  StripMemoryBlock(b) = << >>
<1>1. b \in Seq(Words) /\ << >> \in Seq(Words) /\ NoOpen(<< >>)
  BY DEF IsBlock, NoOpen
<1>2. << >> \o (b \o << >>) = b /\ << >> \o << >> = << >>
  BY <1>1, ConcatEmptySeq
<1>3. StripMemoryBlock(<< >> \o (b \o << >>)) = << >> \o << >>
  BY <1>1, StripAround
<1> QED BY <1>2, <1>3

(* A block that was put in last goes. *)
LEMMA OthersAgain ==
    ASSUME NEW o, Filled(o), NEW b, IsBlock(b)
    PROVE  Others(Append(o, TextPart(b))) = o
<1> DEFINE h == [p \in Parts |-> IF p # Blank THEN <<p>> ELSE << >>]
           s == Append(o, TextPart(b))
           t == Append(o, Blank)
<1>1. o \in Seq(Parts) /\ PlainParts(o) /\ b \in Seq(Words) /\ << >> \in Seq(Words) /\ Len(o) \in Nat
  BY LenProperties DEF Filled, PlainParts, IsBlock
<1>2. TextPart(b) \in Parts /\ Blank \in Parts /\ TextPart(b).kind = "text" /\ TextPart(b).words = b
  BY <1>1, TextPartIs DEF Blank
<1>3. h \in [Parts -> Seq(Parts)] /\ \A p \in Parts : h[p] = IF p # Blank THEN <<p>> ELSE << >>
  OBVIOUS
<1>4. s \in Seq(Parts) /\ Len(s) = Len(o) + 1 /\ s[Len(o) + 1] = TextPart(b) /\ \A i \in 1..Len(o) : s[i] = o[i]
  BY <1>1, <1>2, AppendProperties
<1>5. t \in Seq(Parts) /\ Len(t) = Len(o) + 1 /\ t[Len(o) + 1] = Blank /\ \A i \in 1..Len(o) : t[i] = o[i]
  BY <1>1, <1>2, AppendProperties
<1> HIDE DEF h, s, t
<1>6. Stripped(s) = t
  <2>1. DOMAIN s = 1..Len(s) /\ DOMAIN o = 1..Len(o) /\ DOMAIN t = 1..Len(t)
    BY <1>1, <1>4, <1>5, LenProperties
  <2>2. Stripped(o) = o
    BY <1>1, StrippedPlain
  <2>3. ASSUME NEW i \in 1..Len(s)
        PROVE  (IF s[i].kind # "text" THEN s[i] ELSE TextPart(StripMemoryBlock(s[i].words))) = t[i]
    <3>1. CASE i \in 1..Len(o)
      <4>1. Stripped(o)[i] = IF o[i].kind # "text" THEN o[i] ELSE TextPart(StripMemoryBlock(o[i].words))
        BY <2>1, <3>1 DEF Stripped
      <4> QED BY <1>4, <1>5, <2>2, <3>1, <4>1
    <3>2. CASE i = Len(o) + 1
      BY <1>2, <1>4, <1>5, <3>2, StripBlock DEF Blank
    <3> QED BY <1>1, <1>4, <3>1, <3>2
  <2>4. Stripped(s) = [i \in 1..Len(s) |-> t[i]]
    BY <2>1, <2>3 DEF Stripped
  <2> QED BY <1>4, <1>5, <2>1, <2>4
<1>7. Others(s) = Subsequence(t, {i \in 1..Len(t) : t[i] # Blank})
  BY <1>5, <1>6, LenProperties DEF Others, Kept, Blank
<1>8. Subsequence(t, {i \in 1..Len(t) : t[i] # Blank}) = Over(h, t)
  <2> DEFINE I == {i \in 1..Len(t) : t[i] # Blank}
  <2>1. I \in SUBSET (1..Len(t))
    OBVIOUS
  <2>2. \A i \in 1..Len(t) : h[t[i]] = IF i \in I THEN <<t[i]>> ELSE << >>
    BY <1>3, <1>5, ElementOfSeq
  <2> HIDE DEF I
  <2>3. Subsequence(t, I) = Over(h, t)
    BY <1>3, <1>5, <2>1, <2>2, SubsequenceOver
  <2> QED BY <2>3 DEF I
<1>9. Subsequence(o, {i \in 1..Len(o) : o[i] # Blank}) = Over(h, o)
  <2> DEFINE I == {i \in 1..Len(o) : o[i] # Blank}
  <2>1. I \in SUBSET (1..Len(o))
    OBVIOUS
  <2>2. \A i \in 1..Len(o) : h[o[i]] = IF i \in I THEN <<o[i]>> ELSE << >>
    BY <1>1, <1>3, ElementOfSeq
  <2> HIDE DEF I
  <2>3. Subsequence(o, I) = Over(h, o)
    BY <1>1, <1>3, <2>1, <2>2, SubsequenceOver
  <2> QED BY <2>3 DEF I
<1>10. Over(h, o) = o
  BY <1>1, <1>9, OthersPlain, OthersFilled
<1>11. Over(h, t) = Over(h, o) \o Over(h, <<Blank>>)
  <2>1. t = o \o <<Blank>> /\ <<Blank>> \in Seq(Parts)
    <3>1. Append(o, Blank) = o \o <<Blank>>
      BY <1>1, <1>2, AppendIsConcat
    <3> QED BY <1>2, <3>1 DEF t
  <2> DEFINE e == <<Blank>>
  <2> HIDE DEF e
  <2>2. e \in Seq(Parts) /\ t = o \o e
    BY <2>1 DEF e
  <2>3. Over(h, o \o e) = Over(h, o) \o Over(h, e)
    <3>1. Joins(Parts, Parts, h, o, e)
      BY <1>1, <1>3, <2>2 DEF Joins
    <3> QED BY <3>1, OverConcat
  <2> QED BY <2>2, <2>3 DEF e
<1>12. Over(h, <<Blank>>) = << >>
  BY <1>2, <1>3, OverUnit
<1>13. o \o << >> = o
  BY <1>1, ConcatEmptySeq
<1> QED BY <1>7, <1>8, <1>10, <1>11, <1>12, <1>13 DEF s

LEMMA BlankIs == Blank \in Parts /\ << >> \in Seq(Words) /\ Renders[Blank] = << >>
<1>1. << >> \in Seq(Words)
  OBVIOUS
<1> QED BY <1>1, TextPartIs DEF Blank

LEMMA ContentIs ==
    ASSUME NEW shape, NEW parts
    PROVE  Content(shape, parts).shape = shape /\ Content(shape, parts).parts = parts
BY DEF Content

LEMMA UnitOver ==
    ASSUME NEW S, NEW h \in [Parts -> Seq(S)], NEW w \in Seq(Words)
    PROVE  <<TextPart(w)>> \in Seq(Parts) /\ Over(h, <<TextPart(w)>>) = h[TextPart(w)]
<1>1. PICK p \in Parts : p = TextPart(w)
  BY TextPartIs
<1>2. Over(h, <<p>>) = h[p] /\ <<p>> \in Seq(Parts)
  BY OverUnit
<1> QED BY <1>1, <1>2

LEMMA PlainContent ==
    ASSUME NEW c \in Contents, Plain(c)
    PROVE  PlainParts(c.parts) /\ c.shape \in {"string", "parts"} /\ Len(c.parts) \in Nat
<1>1. c.parts \in Seq(Parts) /\ c.shape \in {"string", "parts"}
  BY DEF Contents
<1>2. DOMAIN c.parts = 1..Len(c.parts) /\ Len(c.parts) \in Nat
  BY <1>1, LenProperties
<1> QED BY <1>1, <1>2 DEF Plain, PlainParts

(* A string is one text. *)
StringOf(c, w) ==
    /\ NoOpen(w) /\ ContentText(c.parts) = w
    /\ (c.parts = << >> /\ w = << >>) \/ c.parts = <<TextPart(w)>>

LEMMA StringIs ==
    ASSUME NEW c \in Contents, Plain(c), c.shape = "string"
    PROVE  \E w : StringOf(c, w)
<1>1. PlainParts(c.parts) /\ c.parts \in Seq(Parts) /\ Len(c.parts) \in Nat
  BY PlainContent DEF PlainParts
<1>2. Len(c.parts) <= 1 /\ \A i \in 1..Len(c.parts) : c.parts[i].kind = "text"
  BY <1>1, LenProperties DEF Plain
<1> DEFINE n == Len(c.parts)
<1>3. CASE Len(c.parts) = 0
  <2>1. c.parts = << >>
    BY <1>1, <1>3, EmptySeq
  <2>2. ContentText(<< >>) = << >>
    <3>1. << >> \in Seq(Parts)
      OBVIOUS
    <3>2. ContentText(<< >>) = Over(Renders, << >>)
      BY <3>1, TextIs
    <3> QED BY <3>2, OverEmpty
  <2>3. NoOpen(<< >>)
    BY DEF NoOpen
  <2>4. StringOf(c, << >>)
    BY <2>1, <2>2, <2>3 DEF StringOf
  <2> QED BY <2>4
<1>4. CASE Len(c.parts) = 1
  <2> DEFINE p == c.parts[1]
  <2>1. p \in Parts /\ PlainPart(p) /\ p.kind = "text"
    BY <1>1, <1>2, <1>4, ElementOfSeq DEF PlainParts
  <2>2. c.parts = <<p>>
    BY <1>1, <1>4
  <2> HIDE DEF p
  <2>3. p = TextPart(p.words) /\ NoOpen(p.words) /\ Renders[p] = p.words
    BY <2>1, PlainPartIs
  <2>4. ContentText(c.parts) = p.words
    <3>1. ContentText(c.parts) = Over(Renders, c.parts)
      BY <1>1, TextIs
    <3>2. Over(Renders, <<p>>) = Renders[p]
      BY <2>1, RendersIs, OverUnit
    <3> QED BY <2>2, <2>3, <3>1, <3>2
  <2>5. StringOf(c, p.words)
    BY <2>2, <2>3, <2>4 DEF StringOf
  <2> QED BY <2>5
<1>5. Len(c.parts) = 0 \/ Len(c.parts) = 1
  <2>1. n \in Nat /\ n <= 1
    BY <1>1, <1>2
  <2> HIDE DEF n
  <2>2. n = 0 \/ n = 1
    BY <2>1
  <2> QED BY <2>2 DEF n
<1> QED BY <1>3, <1>4, <1>5

LEMMA InjectedParts ==
    ASSUME NEW c \in Contents, Plain(c), c.shape = "parts", NEW blk \in Seq(Words)
    PROVE  /\ Injected(c, blk) = Content("parts", Append(Others(c.parts), TextPart(blk)))
           /\ Filled(Others(c.parts))
<1>1. PlainParts(c.parts)
  BY PlainContent
<1> QED BY <1>1, OthersPlain DEF Injected

LEMMA InjectedString ==
    ASSUME NEW c \in Contents, c.shape = "string", NEW w, StringOf(c, w), NEW blk \in Seq(Words)
    PROVE  Injected(c, blk) = Content("string", <<TextPart(w \o blk)>>)
<1>1. StripMemoryBlock(ContentText(c.parts)) = w
  BY StripPlain DEF StringOf
<1> QED BY <1>1 DEF Injected, MergeMemoryInto

(* Functions of parts that make of a text what they make of its pieces. *)
Additive(S, h) ==
    /\ h \in [Parts -> Seq(S)]
    /\ h[Blank] = << >>
    /\ \A w, v \in Seq(Words) : h[TextPart(w \o v)] = h[TextPart(w)] \o h[TextPart(v)]

LEMMA InjectedOver ==
    ASSUME NEW S, NEW h, Additive(S, h), NEW c \in Contents, Plain(c), NEW blk \in Seq(Words)
    PROVE  Over(h, Injected(c, blk).parts) = Over(h, c.parts) \o h[TextPart(blk)]
<1>1. h \in [Parts -> Seq(S)] /\ TextPart(blk) \in Parts /\ Blank \in Parts
  BY TextPartIs, BlankIs DEF Additive
<1>2. PlainParts(c.parts) /\ c.parts \in Seq(Parts) /\ c.shape \in {"string", "parts"}
  BY PlainContent DEF PlainParts
<1>3. CASE c.shape = "parts"
  <2> DEFINE I == {i \in 1..Len(c.parts) : c.parts[i] # Blank}
  <2>1. PICK o \in Seq(Parts) : o = Others(c.parts) /\ o = Subsequence(c.parts, I)
    BY <1>2, OthersPlain DEF Filled, PlainParts
  <2>2. Over(h, o) = Over(h, c.parts)
    <3>1. I \in SUBSET (1..Len(c.parts))
      OBVIOUS
    <3>2. \A i \in 1..Len(c.parts) : i \notin I => h[c.parts[i]] = << >>
      BY DEF Additive
    <3> HIDE DEF I
    <3>3. Over(h, Subsequence(c.parts, I)) = Over(h, c.parts)
      BY <1>1, <1>2, <3>1, <3>2, OverSubsequence
    <3> QED BY <2>1, <3>3
  <2>3. Injected(c, blk).parts = o \o <<TextPart(blk)>>
    <3>1. Injected(c, blk) = Content("parts", Append(o, TextPart(blk)))
      BY <1>3, <2>1, InjectedParts
    <3>2. Injected(c, blk).parts = Append(o, TextPart(blk))
      BY <3>1, ContentIs
    <3> QED BY <1>1, <3>2, AppendIsConcat
  <2>4. PICK e \in Seq(Parts) : e = <<TextPart(blk)>>
    BY <1>1, UnitIsSeq
  <2>5. Over(h, o \o e) = Over(h, o) \o Over(h, e)
    <3>1. Joins(Parts, S, h, o, e)
      BY <1>1 DEF Joins
    <3> QED BY <3>1, OverConcat
  <2>6. Over(h, e) = h[TextPart(blk)]
    BY <1>1, <2>4, UnitOver
  <2> QED BY <2>2, <2>3, <2>4, <2>5, <2>6
<1>4. CASE c.shape = "string"
  <2>1. PICK w : StringOf(c, w)
    BY <1>4, StringIs
  <2>2. w \in Seq(Words) /\ w \o blk \in Seq(Words)
    BY <2>1, ConcatProperties DEF StringOf, NoOpen
  <2>3. Injected(c, blk).parts = <<TextPart(w \o blk)>>
    <3>1. Injected(c, blk) = Content("string", <<TextPart(w \o blk)>>)
      BY <1>4, <2>1, InjectedString
    <3> QED BY <3>1, ContentIs
  <2>4. Over(h, <<TextPart(w \o blk)>>) = h[TextPart(w \o blk)]
    BY <1>1, <2>2, UnitOver
  <2>5. h[TextPart(w \o blk)] = h[TextPart(w)] \o h[TextPart(blk)]
    BY <2>2 DEF Additive
  <2>6. Over(h, c.parts) = h[TextPart(w)]
    <3>1. CASE c.parts = << >> /\ w = << >>
      BY <3>1, OverEmpty DEF Additive, Blank
    <3>2. CASE c.parts = <<TextPart(w)>>
      BY <1>1, <2>2, <3>2, UnitOver
    <3> QED BY <2>1, <3>1, <3>2 DEF StringOf
  <2> QED BY <2>3, <2>4, <2>5, <2>6
<1> QED BY <1>2, <1>3, <1>4

LEMMA InjectedType ==
    ASSUME NEW c \in Contents, Plain(c), NEW blk \in Seq(Words)
    PROVE  /\ Injected(c, blk) \in Contents /\ Injected(c, blk).shape = c.shape
           /\ \A i \in 1..Len(Injected(c, blk).parts) : Injected(c, blk).parts[i].kind \in {"image", "text"}
<1>1. TextPart(blk) \in Parts /\ TextPart(blk).kind = "text" /\ c.shape \in {"string", "parts"}
  BY TextPartIs, PlainContent
<1>2. CASE c.shape = "parts"
  <2> DEFINE o == Others(c.parts)
             s == Append(o, TextPart(blk))
  <2>1. Filled(o) /\ Injected(c, blk) = Content("parts", s)
    BY <1>2, InjectedParts
  <2> HIDE DEF o
  <2>2. o \in Seq(Parts) /\ Len(o) \in Nat /\ \A i \in 1..Len(o) : o[i].kind \in {"image", "text"}
    <3>1. o \in Seq(Parts) /\ Len(o) \in Nat
      BY <2>1, LenProperties DEF Filled, PlainParts
    <3>2. \A i \in 1..Len(o) : o[i] \in Parts /\ PlainPart(o[i])
      BY <2>1, <3>1, ElementOfSeq DEF Filled, PlainParts
    <3> QED BY <3>1, <3>2, PlainPartIs
  <2>3. /\ s \in Seq(Parts) /\ Len(s) = Len(o) + 1 /\ s[Len(o) + 1] = TextPart(blk)
        /\ \A i \in 1..Len(o) : s[i] = o[i]
    BY <1>1, <2>2, AppendProperties
  <2> HIDE DEF s
  <2>4. \A i \in 1..Len(s) : s[i].kind \in {"image", "text"}
    <3> SUFFICES ASSUME NEW i \in 1..Len(s) PROVE s[i].kind \in {"image", "text"}
      OBVIOUS
    <3>1. i \in 1..Len(o) \/ i = Len(o) + 1
      BY <2>2, <2>3
    <3> QED BY <1>1, <2>2, <2>3, <3>1
  <2>5. Injected(c, blk).parts = s /\ Injected(c, blk).shape = "parts" /\ Injected(c, blk) \in Contents
    BY <2>1, <2>3 DEF Content, Contents
  <2> QED BY <1>2, <2>4, <2>5
<1>3. CASE c.shape = "string"
  <2>1. PICK w : StringOf(c, w)
    BY <1>3, StringIs
  <2>2. w \in Seq(Words) /\ w \o blk \in Seq(Words)
    BY <2>1, ConcatProperties DEF StringOf, NoOpen
  <2>3. PICK p \in Parts : p = TextPart(w \o blk) /\ p.kind = "text"
    BY <2>2, TextPartIs
  <2>4. Injected(c, blk) = Content("string", <<p>>)
    BY <1>3, <2>1, <2>3, InjectedString
  <2>5. Injected(c, blk).parts = <<p>> /\ Injected(c, blk).shape = "string" /\ Injected(c, blk) \in Contents
    BY <2>4 DEF Content, Contents
  <2>6. Len(<<p>>) = 1 /\ <<p>>[1] = p
    OBVIOUS
  <2> QED BY <1>3, <2>3, <2>5, <2>6
<1> QED BY <1>1, <1>2, <1>3

(* A second block takes the place of the first. *)
LEMMA InjectedTwice ==
    ASSUME NEW c \in Contents, Plain(c), NEW b, IsBlock(b), NEW blk \in Seq(Words)
    PROVE  Injected(Injected(c, b), blk) = Injected(c, blk)
<1>1. b \in Seq(Words) /\ c.shape \in {"string", "parts"}
  BY PlainContent DEF IsBlock
<1>2. CASE c.shape = "parts"
  <2> DEFINE o == Others(c.parts)
  <2>1. Filled(o) /\ Injected(c, b) = Content("parts", Append(o, TextPart(b)))
        /\ Injected(c, blk) = Content("parts", Append(o, TextPart(blk)))
    BY <1>1, <1>2, InjectedParts
  <2> HIDE DEF o
  <2>2. Others(Append(o, TextPart(b))) = o
    BY <2>1, OthersAgain
  <2>3. Injected(Content("parts", Append(o, TextPart(b))), blk) = Content("parts", Append(o, TextPart(blk)))
    BY <2>2 DEF Injected, Content
  <2> QED BY <2>1, <2>3
<1>3. CASE c.shape = "string"
  <2>1. PICK w : StringOf(c, w)
    BY <1>3, StringIs
  <2>2. w \in Seq(Words) /\ w \o b \in Seq(Words) /\ NoOpen(w)
    BY <1>1, <2>1, ConcatProperties DEF StringOf, NoOpen
  <2>3. Injected(c, b) = Content("string", <<TextPart(w \o b)>>)
        /\ Injected(c, blk) = Content("string", <<TextPart(w \o blk)>>)
    BY <1>1, <1>3, <2>1, InjectedString
  <2>4. ContentText(<<TextPart(w \o b)>>) = w \o b
    <3>1. PICK p \in Parts : p = TextPart(w \o b) /\ Renders[p] = w \o b
      BY <2>2, TextPartIs
    <3>2. PICK s \in Seq(Parts) : s = <<p>>
      BY UnitIsSeq
    <3>3. ContentText(s) = Over(Renders, s)
      BY TextIs
    <3>4. Over(Renders, <<p>>) = Renders[p]
      BY RendersIs, OverUnit
    <3> QED BY <3>1, <3>2, <3>3, <3>4
  <2>5. StripMemoryBlock(w \o b) = w
    <3>1. << >> \in Seq(Words) /\ NoOpen(<< >>) /\ b \o << >> = b /\ w \o << >> = w
      BY <1>1, <2>2, ConcatEmptySeq DEF NoOpen
    <3>2. StripMemoryBlock(w \o (b \o << >>)) = w \o << >>
      BY <2>2, <3>1, StripAround
    <3> QED BY <3>1, <3>2
  <2>6. Injected(Content("string", <<TextPart(w \o b)>>), blk) = Content("string", <<TextPart(w \o blk)>>)
    BY <2>4, <2>5 DEF Injected, Content, MergeMemoryInto
  <2> QED BY <2>3, <2>6
<1> QED BY <1>1, <1>2, <1>3

-----------------------------------------------------------------------------
(* The window. *)
SystemApart(f, msgs) ==
    msgs \in Seq(Messages) /\ \A i \in 1..Len(msgs) : IsSystem(msgs[i]) => f = "openai"

Rear(f, d) ==
    IF f = "gemini" \/ WindowSize <= 0 \/ Len(d) <= WindowSize THEN d
    ELSE SubSeq(d, WindowStart(f, d, WindowSize), Len(d))

(* It begins at the last message before the last n that is no orphan, or at the first. *)
Begins(f, d, n, s) ==
    /\ s \in 1..(Len(d) - n + 1)
    /\ s = 1 \/ ~OrphanHead(f, d[s])
    /\ \A i \in (s + 1)..(Len(d) - n + 1) : OrphanHead(f, d[i])

LEMMA WindowStartIs ==
    ASSUME NEW f, NEW d, Len(d) \in Nat, NEW n \in Nat, Len(d) > n
    PROVE  Begins(f, d, n, WindowStart(f, d, n))
<1> DEFINE N == Len(d) - n + 1
           T == {k \in Nat : k <= N - 1 /\ (N - k = 1 \/ ~OrphanHead(f, d[N - k]))}
<1>1. N \in Nat /\ N >= 1
  OBVIOUS
<1> HIDE DEF N
<1>2. T \subseteq Nat /\ N - 1 \in T
  BY <1>1
<1>3. PICK m \in T : \A k \in T : m <= k
  BY <1>2, LeastOf
<1> DEFINE s == N - m
<1>4. s \in 1..N /\ (s = 1 \/ ~OrphanHead(f, d[s]))
  BY <1>1, <1>3
<1>5. ASSUME NEW i \in (s + 1)..N PROVE OrphanHead(f, d[i])
  <2>1. N - i \in Nat /\ N - i < m /\ N - (N - i) = i /\ N - i <= N - 1 /\ m \in Nat
    BY <1>1, <1>3
  <2>2. N - i \notin T
    BY <1>3, <2>1
  <2> QED BY <2>1, <2>2
<1> HIDE DEF s
<1>6. \E r \in 1..(Len(d) - n + 1) :
        /\ r = 1 \/ ~OrphanHead(f, d[r])
        /\ \A i \in (r + 1)..(Len(d) - n + 1) : OrphanHead(f, d[i])
  BY <1>4, <1>5 DEF N
<1> QED BY <1>6 DEF WindowStart, Begins

LEMMA FreeIs ==
    ASSUME NEW f, NEW msgs, SystemApart(f, msgs)
    PROVE  /\ {i \in DOMAIN msgs : ~Pinned(f, msgs[i])} = {i \in 1..Len(msgs) : ~IsSystem(msgs[i])}
           /\ Spoken(msgs) = Subsequence(msgs, {i \in 1..Len(msgs) : ~IsSystem(msgs[i])})
           /\ Spoken(msgs) \in Seq(Messages)
<1>1. msgs \in Seq(Messages) /\ DOMAIN msgs = 1..Len(msgs)
  BY LenProperties DEF SystemApart
<1>2. \A i \in 1..Len(msgs) : Pinned(f, msgs[i]) <=> IsSystem(msgs[i])
  BY DEF Pinned, IsSystem, SystemApart
<1>3. Spoken(msgs) = Subsequence(msgs, {i \in 1..Len(msgs) : ~IsSystem(msgs[i])})
  BY <1>1 DEF Spoken, Kept
<1>4. {i \in DOMAIN msgs : ~Pinned(f, msgs[i])} = {i \in 1..Len(msgs) : ~IsSystem(msgs[i])}
  BY <1>1, <1>2
<1>5. Spoken(msgs) \in Seq(Messages)
  <2> DEFINE I == {i \in 1..Len(msgs) : ~IsSystem(msgs[i])}
  <2>1. I \in SUBSET (1..Len(msgs))
    OBVIOUS
  <2> HIDE DEF I
  <2>2. Subsequence(msgs, I) \in Seq(Messages)
    BY <1>1, <2>1, SubsequenceIs
  <2> QED BY <1>3, <2>2 DEF I
<1> QED BY <1>3, <1>4, <1>5

(* What is left of the free positions F behind the s-th of them. *)
Behind(L, F, s) == {i \in 1..L : i \in F => Rank(F, i) >= s}

LEMMA BehindIs ==
    ASSUME NEW msgs \in Seq(Messages), NEW F, F = {i \in 1..Len(msgs) : ~IsSystem(msgs[i])},
           NEW s \in 1..Cardinality(F), NEW K, K = Behind(Len(msgs), F, s)
    PROVE  Spoken(Subsequence(msgs, K)) = SubSeq(Subsequence(msgs, F), s, Cardinality(F))
<1> DEFINE c == Cardinality(F)
           t == Subsequence(msgs, K)
           rest == Subsequence(msgs, F)
           m == c - s + 1
           q(k) == Nth(F, s - 1 + k)
           p == [k \in 1..m |-> Rank(K, q(k))]
           J == {k \in 1..Len(t) : ~IsSystem(t[k])}
<1>1. Len(msgs) \in Nat /\ F \in SUBSET (1..Len(msgs)) /\ K \in SUBSET (1..Len(msgs))
  BY LenProperties DEF Behind
<1>2. /\ Picked(msgs, K) /\ t \in Seq(Messages) /\ Picked(msgs, F) /\ rest \in Seq(Messages)
      /\ InTurn(Len(msgs), F) /\ InTurn(Len(msgs), K) /\ Ranked(Len(msgs), K)
  BY <1>1, SubsequenceIs, NthIs, RankIs
<1>3. c \in Nat /\ m \in Nat /\ s \in 1..c /\ c \in 0..Len(msgs) /\ Len(rest) = c /\ Len(t) = Cardinality(K)
  BY <1>1, <1>2 DEF Picked
<1> HIDE DEF c, m
<1>4. ASSUME NEW k \in 1..m
      PROVE  /\ s - 1 + k \in 1..c /\ q(k) \in F /\ q(k) \in K /\ q(k) \in 1..Len(msgs)
             /\ rest[s - 1 + k] = msgs[q(k)] /\ Rank(K, q(k)) \in 1..Len(t) /\ t[Rank(K, q(k))] = msgs[q(k)]
  <2>1. s - 1 + k \in 1..c /\ s - 1 + k >= s
    BY <1>3 DEF m
  <2>2. q(k) \in F /\ Rank(F, q(k)) = s - 1 + k /\ rest[s - 1 + k] = msgs[q(k)]
    BY <1>2, <2>1 DEF InTurn, Picked, c
  <2>3. q(k) \in K /\ q(k) \in 1..Len(msgs)
    BY <1>1, <2>1, <2>2 DEF Behind
  <2> HIDE DEF q
  <2>4. Rank(K, q(k)) \in 1..Cardinality(K) /\ t[Rank(K, q(k))] = msgs[q(k)]
    BY <1>2, <2>3 DEF Picked
  <2> QED BY <1>3, <2>1, <2>2, <2>3, <2>4
<1> HIDE DEF t, rest
<1>5. p \in [1..m -> J]
  <2>1. \A k \in 1..m : Rank(K, q(k)) \in J
    BY <1>4
  <2> QED BY <2>1
<1>6. ASSUME NEW k \in 1..m, NEW l \in 1..m, k < l PROVE p[k] < p[l]
  <2>1. s - 1 + k < s - 1 + l /\ s - 1 + k \in 1..c /\ s - 1 + l \in 1..c
    <3>1. s - 1 + k \in 1..c /\ s - 1 + l \in 1..c
      BY <1>4
    <3>2. s \in Nat /\ k \in Nat /\ l \in Nat /\ k < l
      BY <1>3, <1>6
    <3>3. s - 1 + k < s - 1 + l
      BY <3>2
    <3> QED BY <3>1, <3>3
  <2>2. q(k) < q(l)
    <3> DEFINE a == s - 1 + k
               b == s - 1 + l
    <3>1. a \in 1..Cardinality(F) /\ b \in 1..Cardinality(F) /\ a < b
      BY <2>1 DEF c
    <3> HIDE DEF a, b
    <3>2. Nth(F, a) < Nth(F, b)
      BY <1>2, <3>1 DEF InTurn
    <3> QED BY <3>2 DEF a, b
  <2>3. q(k) \in 0..Len(msgs) /\ q(l) \in 0..Len(msgs) /\ q(l) \in K
    BY <1>1, <1>4
  <2> HIDE DEF q
  <2>4. Rank(K, q(k)) < Rank(K, q(l))
    BY <1>2, <2>2, <2>3 DEF Ranked
  <2> QED BY <2>4
<1>7. ASSUME NEW j \in J PROVE \E k \in 1..m : p[k] = j
  <2> DEFINE i == Nth(K, j)
  <2>1. j \in 1..Cardinality(K) /\ ~IsSystem(t[j])
    BY <1>3
  <2>2. i \in K /\ Rank(K, i) = j /\ t[j] = msgs[i] /\ i \in 1..Len(msgs)
    BY <1>1, <1>2, <2>1 DEF InTurn, Picked, t
  <2> HIDE DEF i
  <2>3. i \in F
    BY <2>1, <2>2
  <2>4. Rank(F, i) >= s /\ Rank(F, i) \in 1..c /\ Nth(F, Rank(F, i)) = i
    BY <1>2, <2>2, <2>3 DEF Behind, InTurn, c
  <2> DEFINE k == Rank(F, i) - s + 1
  <2>5. k \in 1..m /\ s - 1 + k = Rank(F, i)
    BY <1>3, <2>4 DEF m
  <2> HIDE DEF k
  <2>6. q(k) = i
    BY <2>4, <2>5
  <2>7. p[k] = j
    BY <2>2, <2>5, <2>6
  <2> QED BY <2>5, <2>7
<1>8. \A k \in 1..m : p[k] = Rank(K, q(k))
  OBVIOUS
<1>9. J \in SUBSET (1..Len(t))
  OBVIOUS
<1>10. Spoken(t) = Subsequence(t, J)
  BY <1>2, LenProperties DEF Spoken, Kept
<1> HIDE DEF p, J, q
<1>11. Len(Subsequence(t, J)) = m /\ \A k \in 1..m : Subsequence(t, J)[k] = t[p[k]]
  <2>1. t \in Seq(Messages) /\ J \in SUBSET (1..Len(t)) /\ m \in Nat
    BY <1>2, <1>3, <1>9
  <2>2. \A k, l \in 1..m : k < l => p[k] < p[l]
    BY <1>6
  <2>3. \A j \in J : \E k \in 1..m : p[k] = j
    BY <1>7
  <2>4. Enumerates(Messages, t, J, m, p)
    BY <1>5, <2>1, <2>2, <2>3 DEF Enumerates
  <2> QED BY <2>4, SubsequenceBy
<1>12. Subsequence(t, J) \in Seq(Messages)
  BY <1>2, <1>9, SubsequenceIs
<1>13. /\ SubSeq(rest, s, c) \in Seq(Messages) /\ Len(SubSeq(rest, s, c)) = m
       /\ \A k \in 1..m : SubSeq(rest, s, c)[k] = rest[s - 1 + k]
  <2>1. \A i \in s..c : rest[i] \in Messages
    BY <1>2, <1>3, ElementOfSeq
  <2>2. s \in Int /\ c \in Int /\ s <= c
    BY <1>3
  <2>3. /\ SubSeq(rest, s, c) \in Seq(Messages)
        /\ Len(SubSeq(rest, s, c)) = IF s <= c THEN c - s + 1 ELSE 0
        /\ \A k \in 1..(c - s + 1) : SubSeq(rest, s, c)[k] = rest[s + k - 1]
    BY <2>1, <2>2, SubSeqProperties
  <2>4. \A k \in 1..m : s + k - 1 = s - 1 + k
    BY <1>3
  <2> QED BY <2>2, <2>3, <2>4 DEF m
<1>14. \A k \in 1..m : Subsequence(t, J)[k] = SubSeq(rest, s, c)[k]
  BY <1>4, <1>8, <1>11, <1>13
<1> DEFINE x == Subsequence(t, J)
           y == SubSeq(rest, s, c)
<1>15. x \in Seq(Messages) /\ y \in Seq(Messages) /\ Len(x) = Len(y) /\ \A k \in 1..Len(x) : x[k] = y[k]
  BY <1>11, <1>12, <1>13, <1>14
<1> HIDE DEF x, y
<1>16. x = y
  BY <1>15, SeqEqual
<1> QED BY <1>10, <1>16 DEF x, y, t, rest, c

(* A dialogue that the window leaves whole. *)
Fits(f, d) == f = "gemini" \/ WindowSize <= 0 \/ Len(d) <= WindowSize \/ WindowStart(f, d, WindowSize) = 1

(* The tail begins with the s-th message. *)
From(f, d, s) ==
    /\ s \in Nat \ {0}
    /\ Rear(f, d) \in Seq(Messages) /\ Len(Rear(f, d)) = Len(d) - s + 1
    /\ \A i \in 1..Len(Rear(f, d)) : Rear(f, d)[i] = d[s - 1 + i]
    /\ \A i \in Nat : s - 1 + i \in s..Len(d) => i \in 1..Len(Rear(f, d))
    /\ s = 1 => Rear(f, d) = d
    /\ s # 1 => /\ f # "gemini" /\ WindowSize > 0 /\ Len(d) > WindowSize
                /\ Begins(f, d, WindowSize, s) /\ s = WindowStart(f, d, WindowSize)
    /\ Fits(f, d) => s = 1

LEMMA RearIs ==
    ASSUME NEW f, NEW d \in Seq(Messages)
    PROVE  \E s : From(f, d, s)
<1>1. Len(d) \in Nat /\ WindowSize \in Nat
  BY LenProperties, SizesAssumption
<1>2. CASE Fits(f, d)
  <2>1. Rear(f, d) = d
    <3>1. SubSeq(d, 1, Len(d)) = d
      BY SubSeqFull
    <3> QED BY <1>2, <3>1 DEF Fits, Rear
  <2>2. \A i \in 1..Len(d) : d[i] = d[1 - 1 + i] 
    BY <1>1
  <2>3. Len(d) = Len(d) - 1 + 1 /\ \A i \in Nat : 1 - 1 + i \in 1..Len(d) => i \in 1..Len(d)
    BY <1>1
  <2>4. From(f, d, 1)
    BY <2>1, <2>2, <2>3 DEF From
  <2> QED BY <2>4
<1>3. CASE ~Fits(f, d)
  <2> DEFINE s == WindowStart(f, d, WindowSize)
             t == Rear(f, d)
  <2>1. f # "gemini" /\ WindowSize > 0 /\ Len(d) > WindowSize /\ s # 1
    BY <1>1, <1>3 DEF Fits
  <2>11. t = SubSeq(d, s, Len(d))
    <3>1. ~(WindowSize <= 0) /\ ~(Len(d) <= WindowSize)
      BY <1>1, <2>1
    <3> QED BY <2>1, <3>1 DEF Rear
  <2>2. Begins(f, d, WindowSize, s)
    BY <1>1, <2>1, WindowStartIs
  <2>3. s \in 1..Len(d) /\ s \in Nat \ {0}
    BY <1>1, <2>1, <2>2 DEF Begins
  <2> HIDE DEF s, t
  <2>4. \A i \in s..Len(d) : d[i] \in Messages
    BY <1>1, <2>3, ElementOfSeq
  <2>5. s \in Int /\ Len(d) \in Int /\ s <= Len(d)
    BY <1>1, <2>3
  <2>6. /\ t \in Seq(Messages)
        /\ Len(t) = IF s <= Len(d) THEN Len(d) - s + 1 ELSE 0
        /\ \A i \in 1..(Len(d) - s + 1) : t[i] = d[s + i - 1]
    BY <2>11, <2>4, <2>5, SubSeqProperties
  <2>7. Len(t) = Len(d) - s + 1
    BY <2>5, <2>6
  <2>8. \A i \in 1..Len(t) : s + i - 1 = s - 1 + i
    BY <2>3
  <2>9. \A i \in 1..Len(t) : t[i] = d[s - 1 + i]
    BY <2>6, <2>7, <2>8
  <2>10. \A i \in Nat : s - 1 + i \in s..Len(d) => i \in 1..Len(t)
    BY <1>1, <2>3, <2>7
  <2> QED BY <1>3, <2>1, <2>2, <2>3, <2>6, <2>7, <2>9, <2>10 DEF s, t, From
<1> QED BY <1>2, <1>3

LEMMA RearFits ==
    ASSUME NEW f, NEW d \in Seq(Messages)
    PROVE  Fits(f, Rear(f, d))
<1>1. PICK s : From(f, d, s)
  BY RearIs
<1>2. Len(d) \in Nat /\ WindowSize \in Nat
  BY LenProperties, SizesAssumption
<1>3. CASE s = 1
  <2>1. Rear(f, d) = d
    BY <1>1, <1>3 DEF From
  <2>2. SUFFICES ASSUME ~Fits(f, d) PROVE FALSE
    BY <2>1
  <2>3. f # "gemini" /\ WindowSize > 0 /\ Len(d) > WindowSize /\ WindowStart(f, d, WindowSize) # 1
    BY <1>2, <2>2 DEF Fits
  <2>4. Begins(f, d, WindowSize, WindowStart(f, d, WindowSize))
    BY <1>2, <2>3, WindowStartIs
  <2>5. d = SubSeq(d, WindowStart(f, d, WindowSize), Len(d))
    BY <1>2, <2>1, <2>3 DEF Rear
  <2> DEFINE w == WindowStart(f, d, WindowSize)
  <2>6. w \in 1..Len(d) /\ w # 1
    BY <1>2, <2>3, <2>4 DEF Begins
  <2> HIDE DEF w
  <2>7. d = SubSeq(d, w, Len(d))
    BY <2>5 DEF w
  <2>8. \A i \in w..Len(d) : d[i] \in Messages
    BY <1>2, <2>6, ElementOfSeq
  <2>9. w \in Int /\ Len(d) \in Int /\ w <= Len(d)
    BY <1>2, <2>6
  <2>10. Len(SubSeq(d, w, Len(d))) = IF w <= Len(d) THEN Len(d) - w + 1 ELSE 0
    BY <2>8, <2>9, SubSeqProperties
  <2>11. Len(d) = Len(d) - w + 1
    BY <2>7, <2>9, <2>10
  <2> QED BY <1>2, <2>6, <2>11
<1>4. CASE s # 1
  <2> DEFINE t == Rear(f, d)
  <2>1. /\ Len(t) = Len(d) - s + 1 /\ \A i \in 1..Len(t) : t[i] = d[s - 1 + i]
        /\ Len(d) > WindowSize /\ Begins(f, d, WindowSize, s) /\ WindowSize > 0
    BY <1>1, <1>4 DEF From
  <2> HIDE DEF t
  <2>2. CASE Len(t) <= WindowSize
    BY <2>2 DEF Fits, t
  <2>3. CASE ~(Len(t) <= WindowSize)
    <3> DEFINE w == WindowStart(f, t, WindowSize)
    <3>1. Len(t) \in Nat /\ Len(t) > WindowSize
      BY <1>1, <1>2, <2>3, LenProperties DEF t, From
    <3>2. Begins(f, t, WindowSize, w)
      BY <1>2, <3>1, WindowStartIs
    <3> HIDE DEF w
    <3>3. w \in 1..(Len(t) - WindowSize + 1) /\ (w = 1 \/ ~OrphanHead(f, t[w]))
      BY <3>2 DEF Begins
    <3>4. w # 1 => w \in 1..Len(t) /\ s - 1 + w \in (s + 1)..(Len(d) - WindowSize + 1)
      <4> SUFFICES ASSUME w # 1 PROVE w \in 1..Len(t) /\ s - 1 + w \in (s + 1)..(Len(d) - WindowSize + 1)
        OBVIOUS
      <4>1. s \in Nat /\ w \in Int /\ w >= 2 /\ w <= Len(t) - WindowSize + 1
        BY <1>1, <1>2, <3>1, <3>3 DEF From
      <4>2. Len(t) = Len(d) - s + 1 /\ WindowSize > 0
        BY <2>1
      <4> QED BY <1>2, <3>1, <4>1, <4>2
    <3>5. w # 1 => OrphanHead(f, d[s - 1 + w]) /\ t[w] = d[s - 1 + w]
      BY <2>1, <3>4 DEF Begins
    <3>6. w = 1
      BY <3>3, <3>5
    <3> QED BY <3>6 DEF Fits, w, t
  <2> QED BY <2>2, <2>3
<1> QED BY <1>3, <1>4

Placed(b, msgs) == [b EXCEPT !.messages = msgs]

LEMMA PlacedIs ==
    ASSUME NEW b \in Bodies, NEW msgs \in Seq(Messages)
    PROVE  /\ Placed(b, msgs) \in Bodies /\ Placed(b, msgs).messages = msgs /\ Placed(b, msgs).slot = b.slot
           /\ Placed(b, b.messages) = b /\ b.messages \in Seq(Messages) /\ b.slot \in Contents
BY DEF Placed, Bodies

(* A window keeps the messages at the positions K, with every system message. *)
Cut(f, b, w, K) ==
    /\ K \in SUBSET (1..Len(b.messages))
    /\ w = Placed(b, Subsequence(b.messages, K))
    /\ \A i \in 1..Len(b.messages) : i \notin K => ~IsSystem(b.messages[i])
    /\ Spoken(w.messages) = Rear(f, Spoken(b.messages))
    /\ Fits(f, Spoken(b.messages)) => w = b

LEMMA WindowIs ==
    ASSUME NEW f, NEW b \in Bodies, SystemApart(f, b.messages)
    PROVE  \E K : Cut(f, b, WindowMessages(f, b, WindowSize), K)
<1> DEFINE msgs == b.messages
           L == Len(msgs)
           F == {i \in DOMAIN msgs : ~Pinned(f, msgs[i])}
           rest == Subsequence(msgs, F)
           st == WindowStart(f, rest, WindowSize)
           kept == {i \in DOMAIN msgs : i \in F => Rank(F, i) >= st}
           W == WindowMessages(f, b, WindowSize)
<1>1. msgs \in Seq(Messages) /\ L \in Nat /\ DOMAIN msgs = 1..L /\ WindowSize \in Nat
  <2>1. msgs \in Seq(Messages)
    BY DEF Bodies
  <2> HIDE DEF msgs
  <2> QED BY <2>1, LenProperties, SizesAssumption
<1>2. /\ F = {i \in 1..L : ~IsSystem(msgs[i])} /\ Spoken(msgs) = rest
      /\ rest \in Seq(Messages)
  <2> DEFINE G == {i \in 1..L : ~IsSystem(msgs[i])}
  <2>1. F = G /\ Spoken(msgs) = Subsequence(msgs, G) /\ Spoken(msgs) \in Seq(Messages)
    <3> HIDE DEF msgs
    <3>1. SystemApart(f, msgs)
      BY DEF msgs
    <3> QED BY <3>1, FreeIs
  <2> HIDE DEF F, G
  <2>2. Spoken(msgs) = rest
    BY <2>1
  <2> QED BY <2>1, <2>2 DEF G
<1>3. Placed(b, Subsequence(msgs, 1..L)) = b
  BY <1>1, PlacedIs, SubsequenceAll
<1>4. W = IF f = "gemini" \/ WindowSize <= 0 \/ Len(rest) <= WindowSize
          THEN b ELSE Placed(b, Subsequence(msgs, kept))
  BY DEF WindowMessages, Placed
<1>5. F \in SUBSET (1..L) /\ Len(rest) = Cardinality(F)
  <2>1. F \in SUBSET (1..L)
    BY <1>2
  <2> HIDE DEF F
  <2>2. Picked(msgs, F)
    BY <1>1, <2>1, SubsequenceIs
  <2> QED BY <2>1, <2>2 DEF Picked
<1> HIDE DEF W, rest, kept, st
<1>6. CASE f = "gemini" \/ WindowSize <= 0 \/ Len(rest) <= WindowSize
  <2>1. W = b /\ Rear(f, rest) = rest
    BY <1>4, <1>6 DEF Rear
  <2> DEFINE K == 1..L
  <2>2. K \in SUBSET (1..L) /\ \A i \in 1..L : i \notin K => ~IsSystem(msgs[i])
    OBVIOUS
  <2>3. W = Placed(b, Subsequence(msgs, K)) /\ Spoken(W.messages) = Rear(f, Spoken(msgs))
    BY <1>2, <1>3, <2>1
  <2> HIDE DEF K
  <2>4. Cut(f, b, W, K)
    BY <2>1, <2>2, <2>3 DEF Cut
  <2> QED BY <2>4 DEF W
<1>7. CASE ~(f = "gemini" \/ WindowSize <= 0 \/ Len(rest) <= WindowSize)
  <2>1. Len(rest) \in Nat /\ Len(rest) > WindowSize /\ WindowSize > 0 /\ f # "gemini"
    BY <1>1, <1>2, <1>7, LenProperties
  <2>2. Begins(f, rest, WindowSize, st)
    BY <1>1, <2>1, WindowStartIs DEF st
  <2>3. st \in 1..Len(rest) /\ st \in Nat \ {0}
    BY <1>1, <2>1, <2>2 DEF Begins
  <2>4. kept = Behind(L, F, st)
    BY <1>1 DEF kept, Behind
  <2>5. Spoken(Subsequence(msgs, kept)) = SubSeq(rest, st, Len(rest))
    <3>1. st \in 1..Cardinality(F)
      BY <1>5, <2>3
    <3> HIDE DEF F
    <3>2. Spoken(Subsequence(msgs, kept)) = SubSeq(Subsequence(msgs, F), st, Cardinality(F))
      BY <1>1, <1>2, <2>4, <3>1, BehindIs
    <3> QED BY <1>5, <3>2 DEF rest
  <2>6. kept \in SUBSET (1..L)
    BY <1>1 DEF kept
  <2>7. Subsequence(msgs, kept) \in Seq(Messages)
    BY <1>1, <2>6, SubsequenceIs
  <2>8. W = Placed(b, Subsequence(msgs, kept)) /\ W.messages = Subsequence(msgs, kept)
    BY <1>4, <1>7, <2>7, PlacedIs
  <2>9. Rear(f, rest) = SubSeq(rest, st, Len(rest))
    BY <1>7 DEF Rear, st
  <2>10. \A i \in 1..L : i \notin kept => ~IsSystem(msgs[i])
    BY <1>1, <1>2 DEF kept
  <2>11. Fits(f, rest) => W = b
    <3> SUFFICES ASSUME Fits(f, rest) PROVE W = b
      OBVIOUS
    <3>1. st = 1
      BY <1>7 DEF Fits, st
    <3>2. \A i \in F : Rank(F, i) >= 1
      <4> HIDE DEF F
      <4>1. Picked(msgs, F)
        BY <1>1, <1>5, SubsequenceIs
      <4> QED BY <1>5, <4>1 DEF Picked
    <3>3. kept = 1..L
      BY <1>1, <3>1, <3>2 DEF kept
    <3> QED BY <1>3, <2>8, <3>3
  <2>12. Cut(f, b, W, kept)
    BY <1>2, <2>5, <2>6, <2>8, <2>9, <2>10, <2>11 DEF Cut
  <2> QED BY <2>12 DEF W
<1> QED BY <1>6, <1>7

-----------------------------------------------------------------------------
(* The system prompt. *)
Prompt == [m \in Messages |-> IF IsSystem(m) THEN m.content.parts ELSE << >>]

LEMMA MessageIs ==
    ASSUME NEW m \in Messages
    PROVE  /\ m.content \in Contents /\ m.content.parts \in Seq(Parts) /\ m.role \in Roles
           /\ m.content.shape \in {"string", "parts"}
BY DEF Messages, Contents

LEMMA PromptIs ==
    /\ Prompt \in [Messages -> Seq(Parts)]
    /\ \A m \in Messages : Prompt[m] = IF IsSystem(m) THEN m.content.parts ELSE << >>
<1>1. \A m \in Messages : (IF IsSystem(m) THEN m.content.parts ELSE << >>) \in Seq(Parts)
  <2> SUFFICES ASSUME NEW m \in Messages
               PROVE  (IF IsSystem(m) THEN m.content.parts ELSE << >>) \in Seq(Parts)
    OBVIOUS
  <2>1. m.content.parts \in Seq(Parts) /\ << >> \in Seq(Parts)
    BY MessageIs
  <2> QED BY <2>1
<1> QED BY <1>1 DEF Prompt

LEMMA SystemPartsIs ==
    ASSUME NEW b \in Bodies
    PROVE  /\ SystemParts(b) = b.slot.parts \o Over(Prompt, b.messages)
           /\ Over(Prompt, b.messages) \in Seq(Parts) /\ b.slot.parts \in Seq(Parts)
           /\ SystemParts(b) \in Seq(Parts)
<1>1. b.messages \in Seq(Messages) /\ b.slot \in Contents /\ b.slot.parts \in Seq(Parts)
  BY DEF Bodies, Contents
<1>2. Over(Prompt, b.messages) \in Seq(Parts)
  BY <1>1, PromptIs, OverType
<1>3. SystemParts(b) = b.slot.parts \o Over(Prompt, b.messages)
  <2> DEFINE msgs == b.messages
             f == [i \in DOMAIN msgs |-> IF IsSystem(msgs[i]) THEN msgs[i].content.parts ELSE << >>]
             g == [i \in DOMAIN msgs |-> Prompt[msgs[i]]]
  <2>1. DOMAIN msgs = 1..Len(msgs) /\ \A i \in 1..Len(msgs) : msgs[i] \in Messages
    BY <1>1, LenProperties, ElementOfSeq
  <2>2. \A i \in DOMAIN msgs : Prompt[msgs[i]] = IF IsSystem(msgs[i]) THEN msgs[i].content.parts ELSE << >>
    BY <2>1, PromptIs
  <2>3. f = g
    <3> HIDE DEF msgs
    <3> QED BY <2>2
  <2> HIDE DEF f, g
  <2>4. Over(Prompt, msgs) = FlattenSeq(g)
    BY DEF Over, g
  <2>5. SystemParts(b) = b.slot.parts \o FlattenSeq(f)
    BY DEF SystemParts, f
  <2> QED BY <2>3, <2>4, <2>5
<1>4. b.slot.parts \o Over(Prompt, b.messages) \in Seq(Parts)
  BY <1>1, <1>2, ConcatProperties
<1> QED BY <1>1, <1>2, <1>3, <1>4

(* A body as a client writes it. *)
Good(f, b) == b \in Bodies /\ Plain(b.slot) /\ PlainMessages(f, b.messages)

LEMMA GoodApart ==
    ASSUME NEW f, NEW b, Good(f, b)
    PROVE  SystemApart(f, b.messages)
<1>1. b.messages \in Seq(Messages)
  BY DEF Good, Bodies
<1>2. DOMAIN b.messages = 1..Len(b.messages)
  BY <1>1, LenProperties
<1> QED BY <1>1, <1>2 DEF Good, PlainMessages, SystemApart

(* What the window leaves. *)
Window(f, b, w) ==
    /\ Good(f, w) /\ w.slot = b.slot
    /\ Spoken(w.messages) = Rear(f, Spoken(b.messages)) /\ Fits(f, Spoken(w.messages))
    /\ SystemParts(w) = SystemParts(b)
    /\ Spoken(b.messages) \in Seq(Messages)
    /\ Fits(f, Spoken(b.messages)) => w = b

LEMMA WindowGood ==
    ASSUME NEW f, NEW b, Good(f, b)
    PROVE  Window(f, b, WindowMessages(f, b, WindowSize))
<1> DEFINE w == WindowMessages(f, b, WindowSize)
           msgs == b.messages
<1>1. b \in Bodies /\ SystemApart(f, msgs) /\ msgs \in Seq(Messages)
  BY GoodApart DEF Good, Bodies
<1>2. PICK K : Cut(f, b, w, K)
  BY <1>1, WindowIs
<1> HIDE DEF w
<1>3. /\ K \in SUBSET (1..Len(msgs)) /\ w = Placed(b, Subsequence(msgs, K))
      /\ \A i \in 1..Len(msgs) : i \notin K => ~IsSystem(msgs[i])
  BY <1>2 DEF Cut
<1>4. Spoken(msgs) \in Seq(Messages)
  BY <1>1, FreeIs
<1>5. Spoken(w.messages) = Rear(f, Spoken(msgs)) /\ Fits(f, Spoken(w.messages))
  BY <1>2, <1>4, RearFits DEF Cut
<1> DEFINE t == Subsequence(msgs, K)
<1>6. t \in Seq(Messages) /\ Picked(msgs, K)
  <2> HIDE DEF msgs
  <2> QED BY <1>1, <1>3, SubsequenceIs
<1>7. w \in Bodies /\ w.messages = t /\ w.slot = b.slot
  <2> HIDE DEF t
  <2> QED BY <1>1, <1>3, <1>6, PlacedIs DEF t
<1>8. PlainMessages(f, t)
  <2> SUFFICES ASSUME NEW i \in DOMAIN t, IsSystem(t[i]) PROVE f = "openai" /\ Plain(t[i].content)
    BY DEF PlainMessages
  <2>1. \E k \in DOMAIN msgs : t[i] = msgs[k]
    <3>1. i \in 1..Cardinality(K)
      BY <1>6 DEF Picked
    <3>2. Nth(K, i) \in K /\ t[i] = msgs[Nth(K, i)]
      BY <1>6, <3>1 DEF Picked
    <3>3. DOMAIN msgs = 1..Len(msgs)
      BY <1>1, LenProperties
    <3>4. Nth(K, i) \in DOMAIN msgs
      BY <1>3, <3>2, <3>3
    <3> QED BY <3>2, <3>4
  <2> HIDE DEF t
  <2> QED BY <2>1 DEF Good, PlainMessages
<1>9. Good(f, w)
  BY <1>7, <1>8 DEF Good
<1>10. SystemParts(w) = SystemParts(b)
  <2>1. \A i \in 1..Len(msgs) : i \notin K => Prompt[msgs[i]] = << >>
    <3> HIDE DEF msgs
    <3>1. \A i \in 1..Len(msgs) : msgs[i] \in Messages
      BY <1>1, ElementOfSeq
    <3> QED BY <1>3, <3>1, PromptIs
  <2>2. Over(Prompt, Subsequence(msgs, K)) = Over(Prompt, msgs)
    <3> HIDE DEF msgs
    <3>1. K \in SUBSET (1..Len(msgs)) /\ msgs \in Seq(Messages) /\ Prompt \in [Messages -> Seq(Parts)]
      BY <1>1, <1>3, PromptIs
    <3> QED BY <2>1, <3>1, OverSubsequence
  <2> QED BY <1>1, <1>7, <2>2, SystemPartsIs
<1>11. Fits(f, Spoken(msgs)) => w = b
  BY <1>2 DEF Cut
<1> QED BY <1>4, <1>5, <1>7, <1>9, <1>10, <1>11 DEF Window, w

-----------------------------------------------------------------------------
(* The dialogue. *)
Utter == [m \in Messages |-> IF IsSystem(m) THEN << >> ELSE <<m>>]

LEMMA UtterIs ==
    /\ Utter \in [Messages -> Seq(Messages)]
    /\ \A m \in Messages : Utter[m] = IF IsSystem(m) THEN << >> ELSE <<m>>
<1>1. \A m \in Messages : (IF IsSystem(m) THEN << >> ELSE <<m>>) \in Seq(Messages)
  BY UnitIsSeq
<1> QED BY <1>1 DEF Utter

LEMMA SpokenIs ==
    ASSUME NEW msgs \in Seq(Messages)
    PROVE  /\ Spoken(msgs) = Over(Utter, msgs) /\ Spoken(msgs) \in Seq(Messages)
           /\ Spoken(msgs) = Subsequence(msgs, {i \in 1..Len(msgs) : ~IsSystem(msgs[i])})
<1> DEFINE I == {i \in 1..Len(msgs) : ~IsSystem(msgs[i])}
<1>1. I \in SUBSET (1..Len(msgs)) /\ DOMAIN msgs = 1..Len(msgs) /\ \A i \in 1..Len(msgs) : msgs[i] \in Messages
  BY LenProperties, ElementOfSeq
<1>2. Spoken(msgs) = Subsequence(msgs, I)
  BY <1>1 DEF Spoken, Kept
<1>3. \A i \in 1..Len(msgs) : Utter[msgs[i]] = IF i \in I THEN <<msgs[i]>> ELSE << >>
  BY <1>1, UtterIs
<1> HIDE DEF I
<1>4. Subsequence(msgs, I) = Over(Utter, msgs)
  BY <1>1, <1>3, UtterIs, SubsequenceOver
<1>5. Subsequence(msgs, I) \in Seq(Messages)
  BY <1>1, SubsequenceIs
<1> QED BY <1>2, <1>4, <1>5 DEF I

LEMMA SpokenConcat ==
    ASSUME NEW s \in Seq(Messages), NEW t \in Seq(Messages)
    PROVE  Spoken(s \o t) = Spoken(s) \o Spoken(t) /\ s \o t \in Seq(Messages)
<1>1. s \o t \in Seq(Messages)
  BY ConcatProperties
<1>2. Joins(Messages, Messages, Utter, s, t)
  BY UtterIs DEF Joins
<1>3. Over(Utter, s \o t) = Over(Utter, s) \o Over(Utter, t)
  BY <1>2, OverConcat
<1> QED BY <1>1, <1>3, SpokenIs

-----------------------------------------------------------------------------
(* Into which message the block goes. *)
FirstSystem(msgs, k) ==
    /\ k \in 1..Len(msgs) /\ msgs[k].role = "system"
    /\ \A i \in 1..(k - 1) : msgs[i].role # "system"

NoSystem(msgs) == \A i \in 1..Len(msgs) : msgs[i].role # "system"

LEMMA FirstExists ==
    ASSUME NEW msgs \in Seq(Messages)
    PROVE  NoSystem(msgs) \/ \E k : FirstSystem(msgs, k)
<1> DEFINE T == {i \in 1..Len(msgs) : msgs[i].role = "system"}
<1>1. CASE T = {}
  BY <1>1 DEF NoSystem
<1>2. CASE T # {}
  <2>1. T \subseteq Nat
    BY LenProperties
  <2>2. PICK k \in T : \A i \in T : k <= i
    BY <1>2, <2>1, LeastOf
  <2>3. \A i \in 1..(k - 1) : msgs[i].role # "system"
    <3> SUFFICES ASSUME NEW i \in 1..(k - 1), msgs[i].role = "system" PROVE FALSE
      OBVIOUS
    <3>1. Len(msgs) \in Nat /\ k \in 1..Len(msgs)
      BY LenProperties
    <3>2. i \in 1..Len(msgs) /\ i < k
      BY <3>1
    <3>3. i \in T
      BY <3>2
    <3> QED BY <2>2, <3>1, <3>2, <3>3
  <2>4. FirstSystem(msgs, k)
    BY <2>3 DEF FirstSystem
  <2> QED BY <2>4
<1> QED BY <1>1, <1>2

Filling(msgs, k, c) == [msgs EXCEPT ![k] = [msgs[k] EXCEPT !.content = c]]

LEMMA InjectFirst ==
    ASSUME NEW msgs \in Seq(Messages), NEW k, FirstSystem(msgs, k), NEW blk
    PROVE  InjectOpenAISystem(msgs, blk) = Filling(msgs, k, Injected(msgs[k].content, blk))
<1> DEFINE I == {i \in 1..Len(msgs) : msgs[i].role = "system"}
           first == SelectInSeq(msgs, LAMBDA m : m.role = "system")
<1>1. Len(msgs) \in Nat
  BY LenProperties
<1>2. k \in I /\ k # 0 /\ k \in Nat
  BY <1>1 DEF FirstSystem
<1>3. \A i \in I : k <= i
  <2> SUFFICES ASSUME NEW i \in I, ~(k <= i) PROVE FALSE
    OBVIOUS
  <2>1. i \in 1..(k - 1)
    BY <1>1, <1>2
  <2> QED BY <2>1 DEF FirstSystem
<1>4. Min(I) = k
  <2>1. \A j \in I : (\A i \in I : j <= i) => j = k
    BY <1>1, <1>2, <1>3
  <2> HIDE DEF I
  <2> QED BY <1>2, <1>3, <2>1 DEF Min
<1>5. first = k
  BY <1>2, <1>4 DEF SelectInSeq
<1>6. InjectOpenAISystem(msgs, blk) = IF first = 0 THEN <<Message("system", "string", <<TextPart(blk)>>)>> \o msgs
                                      ELSE [msgs EXCEPT ![first].content = Injected(@, blk)]
  BY DEF InjectOpenAISystem
<1> HIDE DEF first
<1>7. InjectOpenAISystem(msgs, blk) = [msgs EXCEPT ![k].content = Injected(@, blk)]
  BY <1>2, <1>5, <1>6
<1> QED BY <1>7 DEF Filling

Prefix(blk) == Message("system", "string", <<TextPart(blk)>>)

LEMMA InjectNew ==
    ASSUME NEW msgs \in Seq(Messages), NoSystem(msgs), NEW blk
    PROVE  InjectOpenAISystem(msgs, blk) = <<Prefix(blk)>> \o msgs
<1> DEFINE first == SelectInSeq(msgs, LAMBDA m : m.role = "system")
<1>1. first = 0
  BY DEF SelectInSeq, NoSystem
<1>2. InjectOpenAISystem(msgs, blk) = IF first = 0 THEN <<Prefix(blk)>> \o msgs
                                      ELSE [msgs EXCEPT ![first].content = Injected(@, blk)]
  BY DEF InjectOpenAISystem, Prefix
<1> QED BY <1>1, <1>2

Refilled(m, c) == [m EXCEPT !.content = c]

LEMMA RefilledIs ==
    ASSUME NEW m \in Messages, NEW c \in Contents
    PROVE  Refilled(m, c) \in Messages /\ Refilled(m, c).role = m.role /\ Refilled(m, c).content = c
BY DEF Refilled, Messages

Fills(msgs, k, c, t) ==
    /\ t \in Seq(Messages) /\ Len(t) = Len(msgs)
    /\ \A i \in 1..Len(msgs) : t[i] = IF i = k THEN Refilled(msgs[k], c) ELSE msgs[i]
    /\ t[k].role = msgs[k].role /\ t[k].content = c

LEMMA FillingIs ==
    ASSUME NEW msgs \in Seq(Messages), NEW k \in 1..Len(msgs), NEW c \in Contents
    PROVE  Fills(msgs, k, c, Filling(msgs, k, c))
<1> DEFINE m == msgs[k]
           x == Refilled(m, c)
           t == [msgs EXCEPT ![k] = x]
<1>1. m \in Messages
  BY ElementOfSeq
<1>2. x \in Messages /\ x.role = m.role /\ x.content = c
  <2> HIDE DEF m
  <2> QED BY <1>1, RefilledIs
<1>3. Filling(msgs, k, c) = t
  BY DEF Filling, Refilled
<1> HIDE DEF x, m
<1>4. t \in Seq(Messages) /\ Len(t) = Len(msgs) /\ \A i \in 1..Len(msgs) : t[i] = IF i = k THEN x ELSE msgs[i]
  BY <1>2, ExceptSeq
<1> HIDE DEF t
<1>5. t[k].role = msgs[k].role /\ t[k].content = c
  BY <1>2, <1>4 DEF m
<1>6. Fills(msgs, k, c, t)
  BY <1>4, <1>5 DEF Fills, x, m
<1> QED BY <1>3, <1>6

LEMMA FillingTwice ==
    ASSUME NEW msgs \in Seq(Messages), NEW k \in 1..Len(msgs), NEW c \in Contents, NEW d \in Contents
    PROVE  Filling(Filling(msgs, k, c), k, d) = Filling(msgs, k, d)
<1>1. PICK t : t = Filling(msgs, k, c) /\ Fills(msgs, k, c, t)
  BY FillingIs
<1>2. t \in Seq(Messages) /\ k \in 1..Len(t)
  BY <1>1 DEF Fills
<1>3. PICK u : u = Filling(t, k, d) /\ Fills(t, k, d, u)
  BY <1>2, FillingIs
<1>4. PICK v : v = Filling(msgs, k, d) /\ Fills(msgs, k, d, v)
  BY FillingIs
<1>5. Refilled(t[k], d) = Refilled(msgs[k], d)
  <2>1. t[k] = Refilled(msgs[k], c) /\ msgs[k] \in Messages
    BY <1>1, ElementOfSeq DEF Fills
  <2> DEFINE m == msgs[k]
  <2>2. m \in Messages /\ t[k] = Refilled(m, c)
    BY <2>1
  <2> HIDE DEF m
  <2>3. Refilled(Refilled(m, c), d) = Refilled(m, d)
    BY <2>2 DEF Refilled, Messages
  <2> QED BY <2>2, <2>3 DEF m
<1>6. u \in Seq(Messages) /\ v \in Seq(Messages) /\ Len(u) = Len(v) /\ \A i \in 1..Len(u) : u[i] = v[i]
  BY <1>1, <1>3, <1>4, <1>5 DEF Fills
<1>7. u = v
  BY <1>6, SeqEqual
<1> QED BY <1>1, <1>3, <1>4, <1>7

(* A system message is not spoken. *)
LEMMA SpokenFilling ==
    ASSUME NEW msgs \in Seq(Messages), NEW k \in 1..Len(msgs), NEW c \in Contents, IsSystem(msgs[k])
    PROVE  Spoken(Filling(msgs, k, c)) = Spoken(msgs)
<1>1. PICK a, b : OverAt(Messages, Messages, Utter, msgs, k, a, b)
  BY UtterIs, OverAround
<1>2. msgs[k] \in Messages /\ Refilled(msgs[k], c) \in Messages /\ IsSystem(Refilled(msgs[k], c))
  BY ElementOfSeq, RefilledIs DEF IsSystem
<1>3. Filling(msgs, k, c) = [msgs EXCEPT ![k] = Refilled(msgs[k], c)]
  BY DEF Filling, Refilled
<1>4. Over(Utter, Filling(msgs, k, c)) = a \o (<< >> \o b) /\ Over(Utter, msgs) = a \o (<< >> \o b)
  BY <1>1, <1>2, <1>3, UtterIs DEF OverAt
<1>5. Filling(msgs, k, c) \in Seq(Messages)
  BY FillingIs DEF Fills
<1> QED BY <1>4, <1>5, SpokenIs

LEMMA PrefixIs ==
    ASSUME NEW blk \in Seq(Words)
    PROVE  /\ Prefix(blk) \in Messages /\ Prefix(blk).role = "system" /\ IsSystem(Prefix(blk))
           /\ Prefix(blk).content = Content("string", <<TextPart(blk)>>)
           /\ Content("string", <<TextPart(blk)>>) \in Contents
<1>1. TextPart(blk) \in Parts
  BY TextPartIs
<1>2. <<TextPart(blk)>> \in Seq(Parts)
  BY <1>1, UnitIsSeq
<1>3. Content("string", <<TextPart(blk)>>) \in Contents
  BY <1>2 DEF Content, Contents
<1> DEFINE c == Content("string", <<TextPart(blk)>>)
<1>4. Prefix(blk) = [role |-> "system", content |-> c]
  BY DEF Prefix, Message
<1> HIDE DEF c
<1>5. c \in Contents
  BY <1>3 DEF c
<1> QED BY <1>4, <1>5 DEF Messages, Roles, IsSystem, c

LEMMA SpokenPrefix ==
    ASSUME NEW msgs \in Seq(Messages), NEW blk \in Seq(Words)
    PROVE  /\ <<Prefix(blk)>> \o msgs \in Seq(Messages)
           /\ Spoken(<<Prefix(blk)>> \o msgs) = Spoken(msgs)
<1>1. Prefix(blk) \in Messages /\ IsSystem(Prefix(blk))
  BY PrefixIs
<1>2. <<Prefix(blk)>> \in Seq(Messages)
  BY <1>1, UnitIsSeq
<1>3. Over(Utter, <<Prefix(blk)>>) = << >>
  BY <1>1, UtterIs, OverUnit
<1>4. /\ Spoken(<<Prefix(blk)>> \o msgs) = Spoken(<<Prefix(blk)>>) \o Spoken(msgs)
      /\ <<Prefix(blk)>> \o msgs \in Seq(Messages)
  BY <1>2, SpokenConcat
<1>5. Spoken(<<Prefix(blk)>>) = << >> /\ Spoken(msgs) \in Seq(Messages)
  BY <1>2, <1>3, SpokenIs
<1> QED BY <1>4, <1>5, ConcatEmptySeq

-----------------------------------------------------------------------------
(* Where InjectMemoryBlock puts the block. *)
Blocks == {blk \in Seq(Words) : blk = << >> \/ IsBlock(blk)}

Slotted(b, c) == [b EXCEPT !.slot = c]

PutSlot(f, b, blk, p) == f # "openai" /\ p = Slotted(b, Injected(b.slot, blk))

PutFront(f, b, blk, p) ==
    f = "openai" /\ NoSystem(b.messages) /\ p = Placed(b, <<Prefix(blk)>> \o b.messages)

PutInto(f, b, blk, p, k) ==
    /\ f = "openai" /\ FirstSystem(b.messages, k)
    /\ p = Placed(b, Filling(b.messages, k, Injected(b.messages[k].content, blk)))

Put(f, b, blk, p) ==
    \/ blk = << >> /\ p = b
    \/ IsBlock(blk) /\ (PutSlot(f, b, blk, p) \/ PutFront(f, b, blk, p) \/ \E k : PutInto(f, b, blk, p, k))

LEMMA InjectIs ==
    ASSUME NEW f, NEW b \in Bodies, NEW blk, IsBlock(blk)
    PROVE  InjectMemoryBlock(f, b, blk) =
              IF f = "openai" THEN Placed(b, InjectOpenAISystem(b.messages, blk))
              ELSE Slotted(b, Injected(b.slot, blk))
<1>1. blk # << >>
  BY DEF IsBlock
<1> QED BY <1>1 DEF InjectMemoryBlock, Placed, Slotted

LEMMA PutIs ==
    ASSUME NEW f, NEW b \in Bodies, NEW blk \in Blocks
    PROVE  Put(f, b, blk, InjectMemoryBlock(f, b, blk))
<1> DEFINE p == InjectMemoryBlock(f, b, blk)
           msgs == b.messages
<1>1. CASE blk = << >>
  BY <1>1 DEF InjectMemoryBlock, Put
<1>2. CASE IsBlock(blk)
  <2>1. msgs \in Seq(Messages)
    BY DEF Bodies
  <2>2. CASE f # "openai"
    BY <1>2, <2>2, InjectIs DEF Put, PutSlot
  <2>3. CASE f = "openai"
    <3>1. p = Placed(b, InjectOpenAISystem(msgs, blk))
      BY <1>2, <2>3, InjectIs
    <3> HIDE DEF p
    <3>2. CASE NoSystem(msgs)
      <4>1. InjectOpenAISystem(msgs, blk) = <<Prefix(blk)>> \o msgs
        <5> HIDE DEF msgs
        <5> QED BY <2>1, <3>2, InjectNew
      <4>2. PutFront(f, b, blk, p)
        BY <2>3, <3>1, <3>2, <4>1 DEF PutFront
      <4> QED BY <1>2, <4>2 DEF Put, p
    <3>3. CASE \E k : FirstSystem(msgs, k)
      <4>1. PICK k : FirstSystem(msgs, k)
        BY <3>3
      <4>2. InjectOpenAISystem(msgs, blk) = Filling(msgs, k, Injected(msgs[k].content, blk))
        <5> HIDE DEF msgs
        <5> QED BY <2>1, <4>1, InjectFirst
      <4>3. PutInto(f, b, blk, p, k)
        BY <2>3, <3>1, <4>1, <4>2 DEF PutInto
      <4> QED BY <1>2, <4>3 DEF Put, p
    <3>4. NoSystem(msgs) \/ \E k : FirstSystem(msgs, k)
      <4> HIDE DEF msgs
      <4> QED BY <2>1, FirstExists
    <3> QED BY <3>2, <3>3, <3>4
  <2> QED BY <2>2, <2>3
<1> QED BY <1>1, <1>2 DEF Blocks

LEMMA SlottedIs ==
    ASSUME NEW b \in Bodies, NEW c \in Contents, NEW d
    PROVE  /\ Slotted(b, c) \in Bodies /\ Slotted(b, c).slot = c /\ Slotted(b, c).messages = b.messages
           /\ Slotted(Slotted(b, c), d) = Slotted(b, d)
BY DEF Slotted, Bodies

LEMMA PlacedTwice ==
    ASSUME NEW b \in Bodies, NEW s, NEW t
    PROVE  Placed(Placed(b, s), t) = Placed(b, t) /\ Placed(b, s).messages = s /\ Placed(b, s).slot = b.slot
BY DEF Placed, Bodies

(* Prompts are of texts and images; so they stay. *)
Tame(msgs) ==
    \A i \in 1..Len(msgs) : IsSystem(msgs[i]) =>
        \A q \in 1..Len(msgs[i].content.parts) : msgs[i].content.parts[q].kind \in {"image", "text"}

PutShape(f, b, p) ==
    /\ p \in Bodies /\ SystemApart(f, p.messages)
    /\ Spoken(p.messages) = Spoken(b.messages)
    /\ Tame(p.messages)
    /\ \A blk \in Seq(Words) : IsBlock(blk) => InjectMemoryBlock(f, p, blk) = InjectMemoryBlock(f, b, blk)

LEMMA GoodTame ==
    ASSUME NEW f, NEW b, Good(f, b)
    PROVE  Tame(b.messages)
<1>1. b.messages \in Seq(Messages) /\ DOMAIN b.messages = 1..Len(b.messages)
  <2>1. b.messages \in Seq(Messages)
    BY DEF Good, Bodies
  <2> QED BY <2>1, LenProperties
<1> SUFFICES ASSUME NEW i \in 1..Len(b.messages), IsSystem(b.messages[i]),
                    NEW q \in 1..Len(b.messages[i].content.parts)
             PROVE  b.messages[i].content.parts[q].kind \in {"image", "text"}
  BY DEF Tame
<1> DEFINE c == b.messages[i].content
<1>2. Plain(c)
  BY <1>1 DEF Good, PlainMessages
<1>3. c \in Contents
  <2>1. b.messages[i] \in Messages
    BY <1>1, ElementOfSeq
  <2> QED BY <2>1, MessageIs
<1> HIDE DEF c
<1>4. PlainParts(c.parts)
  BY <1>2, <1>3, PlainContent
<1>5. \A r \in 1..Len(c.parts) : c.parts[r] \in Parts /\ PlainPart(c.parts[r])
  BY <1>4, ElementOfSeq DEF PlainParts
<1>6. \A r \in 1..Len(c.parts) : c.parts[r].kind \in {"image", "text"}
  BY <1>5, PlainPartIs
<1> QED BY <1>6 DEF c

LEMMA ShapeSame ==
    ASSUME NEW f, NEW b, Good(f, b)
    PROVE  PutShape(f, b, b)
BY GoodApart, GoodTame DEF Good, PutShape

LEMMA ShapeSlot ==
    ASSUME NEW f, NEW b, Good(f, b), NEW blk, IsBlock(blk), NEW p, PutSlot(f, b, blk, p)
    PROVE  PutShape(f, b, p)
<1> DEFINE c == b.slot
           d == Injected(c, blk)
<1>1. b \in Bodies /\ c \in Contents /\ Plain(c) /\ f # "openai" /\ blk \in Seq(Words)
  BY DEF Good, Bodies, PutSlot, IsBlock
<1>2. d \in Contents
  <2> HIDE DEF c
  <2> QED BY <1>1, InjectedType
<1>3. p = Slotted(b, d)
  BY DEF PutSlot
<1>4. \A x \in Seq(Words) : Injected(d, x) = Injected(c, x)
  <2> HIDE DEF c
  <2> QED BY <1>1, InjectedTwice
<1> HIDE DEF c, d
<1>5. p \in Bodies /\ p.slot = d /\ p.messages = b.messages
  BY <1>1, <1>2, <1>3, SlottedIs
<1>6. ASSUME NEW x \in Seq(Words), IsBlock(x)
      PROVE  InjectMemoryBlock(f, p, x) = InjectMemoryBlock(f, b, x)
  <2>1. InjectMemoryBlock(f, p, x) = Slotted(p, Injected(d, x))
    BY <1>1, <1>5, <1>6, InjectIs
  <2>2. InjectMemoryBlock(f, b, x) = Slotted(b, Injected(c, x))
    BY <1>1, <1>6, InjectIs DEF c
  <2> DEFINE e == Injected(c, x)
  <2>3. Slotted(p, e) = Slotted(b, e)
    <3> HIDE DEF e
    <3> QED BY <1>1, <1>2, <1>3, SlottedIs
  <2> QED BY <1>4, <2>1, <2>2, <2>3
<1>7. SystemApart(f, p.messages) /\ Tame(p.messages)
  BY <1>5, GoodApart, GoodTame
<1> QED BY <1>5, <1>6, <1>7 DEF PutShape

LEMMA InjectedFront ==
    ASSUME NEW b, IsBlock(b), NEW blk \in Seq(Words)
    PROVE  Injected(Prefix(b).content, blk) = Prefix(blk).content
<1> DEFINE c == Content("string", << >>)
<1>1. c \in Contents /\ c.shape = "string" /\ c.parts = << >>
  <2>1. << >> \in Seq(Parts)
    OBVIOUS
  <2> QED BY <2>1 DEF Content, Contents
<1>2. Plain(c)
  BY <1>1 DEF Plain
<1>3. StringOf(c, << >>)
  <2>1. NoOpen(<< >>)
    BY DEF NoOpen
  <2>2. ContentText(<< >>) = << >>
    <3>1. [i \in DOMAIN << >> |-> Rendered(<< >>[i])] = << >>
      OBVIOUS
    <3> QED BY <3>1, FlattenEmpty DEF ContentText
  <2> QED BY <1>1, <2>1, <2>2 DEF StringOf
<1>4. b \in Seq(Words)
  BY DEF IsBlock
<1> HIDE DEF c
<1>5. ASSUME NEW x \in Seq(Words) PROVE Injected(c, x) = Content("string", <<TextPart(x)>>)
  <2>1. Injected(c, x) = Content("string", <<TextPart(<< >> \o x)>>)
    <3>1. \A w : StringOf(c, w) => Injected(c, x) = Content("string", <<TextPart(w \o x)>>)
      BY <1>1, InjectedString
    <3> QED BY <1>3, <3>1
  <2>2. << >> \o x = x
    BY ConcatEmptySeq
  <2> QED BY <2>1, <2>2
<1>6. Injected(Injected(c, b), blk) = Injected(c, blk)
  BY <1>1, <1>2, InjectedTwice
<1> QED BY <1>4, <1>5, <1>6, PrefixIs

LEMMA FrontIs ==
    ASSUME NEW msgs \in Seq(Messages), NEW m \in Messages
    PROVE  LET t == <<m>> \o msgs
           IN  /\ t \in Seq(Messages) /\ Len(t) = Len(msgs) + 1 /\ t[1] = m /\ Len(msgs) \in Nat
               /\ \A i \in 2..Len(t) : i - 1 \in 1..Len(msgs) /\ t[i] = msgs[i - 1]
<1> DEFINE t == <<m>> \o msgs
<1>1. <<m>> \in Seq(Messages) /\ Len(<<m>>) = 1 /\ <<m>>[1] = m /\ Len(msgs) \in Nat
  BY LenProperties
<1>2. PICK u \in Seq(Messages) : u = <<m>>
  BY <1>1
<1>3. /\ u \o msgs \in Seq(Messages) /\ Len(u \o msgs) = Len(u) + Len(msgs)
      /\ \A i \in 1..(Len(u) + Len(msgs)) : (u \o msgs)[i] = IF i <= Len(u) THEN u[i] ELSE msgs[i - Len(u)]
  BY ConcatProperties
<1>4. t \in Seq(Messages) /\ Len(t) = 1 + Len(msgs)
      /\ \A i \in 1..(1 + Len(msgs)) : t[i] = IF i <= 1 THEN u[i] ELSE msgs[i - 1]
  BY <1>1, <1>2, <1>3
<1> HIDE DEF t
<1>5. Len(t) = Len(msgs) + 1 /\ 1 \in 1..(1 + Len(msgs)) /\ \A i \in 2..Len(t) : i - 1 \in 1..Len(msgs) /\ ~(i <= 1) /\ i \in 1..(1 + Len(msgs))
  BY <1>1, <1>4
<1>6. t[1] = m
  BY <1>1, <1>2, <1>4, <1>5
<1>7. \A i \in 2..Len(t) : t[i] = msgs[i - 1]
  BY <1>4, <1>5
<1> QED BY <1>1, <1>4, <1>5, <1>6, <1>7 DEF t

LEMMA FrontFilled ==
    ASSUME NEW msgs \in Seq(Messages), NEW blk, IsBlock(blk), NEW x \in Seq(Words)
    PROVE  InjectOpenAISystem(<<Prefix(blk)>> \o msgs, x) = <<Prefix(x)>> \o msgs
<1> DEFINE m == Prefix(blk)
           n == Prefix(x)
           c == n.content
           t == <<m>> \o msgs
           u == <<n>> \o msgs
           v == Filling(t, 1, c)
<1>1. /\ m \in Messages /\ m.role = "system"
      /\ n \in Messages /\ n.role = "system" /\ c \in Contents
  BY PrefixIs DEF IsBlock
<1>2. Injected(m.content, x) = c
  BY InjectedFront
<1>3. n = Refilled(m, c)
  <2>1. m = [role |-> "system", content |-> m.content] /\ n = [role |-> "system", content |-> n.content]
    BY DEF Prefix, Message
  <2> HIDE DEF m, n
  <2> QED BY <2>1 DEF Refilled
<1> HIDE DEF m, n
<1>4. /\ t \in Seq(Messages) /\ Len(t) = Len(msgs) + 1 /\ t[1] = m /\ Len(msgs) \in Nat
      /\ \A i \in 2..Len(t) : i - 1 \in 1..Len(msgs) /\ t[i] = msgs[i - 1]
  BY <1>1, FrontIs
<1>5. /\ u \in Seq(Messages) /\ Len(u) = Len(msgs) + 1 /\ u[1] = n
      /\ \A i \in 2..Len(u) : i - 1 \in 1..Len(msgs) /\ u[i] = msgs[i - 1]
  BY <1>1, FrontIs
<1> HIDE DEF t, u
<1>6. FirstSystem(t, 1)
  BY <1>1, <1>4 DEF FirstSystem
<1>7. InjectOpenAISystem(t, x) = Filling(t, 1, Injected(t[1].content, x))
  BY <1>4, <1>6, InjectFirst
<1>8. InjectOpenAISystem(t, x) = v
  BY <1>2, <1>4, <1>7
<1>9. 1 \in 1..Len(t)
  BY <1>4
<1> HIDE DEF c
<1>10. Fills(t, 1, c, v)
  BY <1>1, <1>4, <1>9, FillingIs DEF c
<1> HIDE DEF v
<1>11. v \in Seq(Messages) /\ Len(v) = Len(u)
  BY <1>4, <1>5, <1>10 DEF Fills
<1>12. ASSUME NEW i \in 1..Len(v) PROVE v[i] = u[i]
  <2>1. CASE i = 1
    BY <1>3, <1>4, <1>5, <1>9, <1>10, <2>1 DEF Fills
  <2>2. CASE i # 1
    <3>1. i \in 1..Len(t) /\ i \in 2..Len(t) /\ i \in 2..Len(u)
      BY <1>4, <1>5, <1>11, <2>2
    <3> QED BY <1>4, <1>5, <1>10, <2>2, <3>1 DEF Fills
  <2> QED BY <2>1, <2>2
<1>13. v = u
  BY <1>5, <1>11, <1>12, SeqEqual
<1> QED BY <1>8, <1>13 DEF t, u, m, n

LEMMA ShapeFront ==
    ASSUME NEW f, NEW b, Good(f, b), NEW blk, IsBlock(blk), NEW p, PutFront(f, b, blk, p)
    PROVE  PutShape(f, b, p)
<1> DEFINE msgs == b.messages
           t == <<Prefix(blk)>> \o msgs
<1>1. /\ b \in Bodies /\ msgs \in Seq(Messages) /\ f = "openai" /\ blk \in Seq(Words)
      /\ NoSystem(msgs) /\ p = Placed(b, t)
  <2>1. b \in Bodies /\ f = "openai" /\ NoSystem(msgs) /\ p = Placed(b, t) /\ blk \in Seq(Words)
    BY DEF Good, PutFront, IsBlock
  <2>2. msgs \in Seq(Messages)
    BY <2>1 DEF Bodies
  <2> QED BY <2>1, <2>2
<1>2. Prefix(blk) \in Messages /\ Prefix(blk).content.parts = <<TextPart(blk)>>
  <2>1. Prefix(blk) \in Messages /\ Prefix(blk).content = Content("string", <<TextPart(blk)>>)
    BY <1>1, PrefixIs
  <2> QED BY <2>1, ContentIs
<1> HIDE DEF msgs
<1>3. /\ t \in Seq(Messages) /\ Len(t) = Len(msgs) + 1 /\ t[1] = Prefix(blk) /\ Len(msgs) \in Nat
      /\ \A i \in 2..Len(t) : i - 1 \in 1..Len(msgs) /\ t[i] = msgs[i - 1]
  BY <1>1, <1>2, FrontIs
<1>4. Spoken(t) = Spoken(msgs)
  BY <1>1, SpokenPrefix
<1> HIDE DEF t
<1>5. p \in Bodies /\ p.messages = t
  BY <1>1, <1>3, PlacedIs
<1>6. Tame(t)
  <2> SUFFICES ASSUME NEW i \in 1..Len(t), IsSystem(t[i]), NEW q \in 1..Len(t[i].content.parts)
               PROVE  t[i].content.parts[q].kind \in {"image", "text"}
    BY DEF Tame
  <2>1. CASE i = 1
    <3>1. t[i].content.parts = <<TextPart(blk)>>
      BY <1>2, <1>3, <2>1
    <3>2. TextPart(blk).kind = "text"
      BY <1>1, TextPartIs
    <3>3. q = 1 /\ t[i].content.parts[q] = TextPart(blk)
      BY <3>1
    <3> QED BY <3>2, <3>3
  <2>2. CASE i # 1
    <3>1. i \in 2..Len(t)
      BY <1>3, <2>2
    <3>2. i - 1 \in 1..Len(msgs) /\ t[i] = msgs[i - 1]
      BY <1>3, <3>1
    <3>3. Tame(msgs)
      BY GoodTame DEF msgs
    <3> QED BY <3>2, <3>3 DEF Tame
  <2> QED BY <2>1, <2>2
<1>7. ASSUME NEW x \in Seq(Words), IsBlock(x)
      PROVE  InjectMemoryBlock(f, p, x) = InjectMemoryBlock(f, b, x)
  <2>1. InjectMemoryBlock(f, p, x) = Placed(p, InjectOpenAISystem(t, x))
    BY <1>1, <1>5, <1>7, InjectIs
  <2>2. InjectMemoryBlock(f, b, x) = Placed(b, InjectOpenAISystem(msgs, x))
    BY <1>1, <1>7, InjectIs DEF msgs
  <2>3. InjectOpenAISystem(t, x) = <<Prefix(x)>> \o msgs
    BY <1>1, FrontFilled DEF t
  <2>4. InjectOpenAISystem(msgs, x) = <<Prefix(x)>> \o msgs
    BY <1>1, InjectNew
  <2>5. \A y : Placed(p, y) = Placed(b, y)
    BY <1>1, PlacedTwice
  <2> QED BY <2>1, <2>2, <2>3, <2>4, <2>5
<1>8. SystemApart(f, t)
  BY <1>1, <1>3 DEF SystemApart
<1> QED BY <1>4, <1>5, <1>6, <1>7, <1>8 DEF PutShape, msgs

LEMMA ShapeInto ==
    ASSUME NEW f, NEW b, Good(f, b), NEW blk, IsBlock(blk), NEW p, NEW k, PutInto(f, b, blk, p, k)
    PROVE  PutShape(f, b, p)
<1> DEFINE msgs == b.messages
           c == msgs[k].content
           d == Injected(c, blk)
           t == Filling(msgs, k, d)
<1>1. b \in Bodies /\ f = "openai" /\ FirstSystem(msgs, k) /\ p = Placed(b, t) /\ blk \in Seq(Words)
  BY DEF Good, PutInto, IsBlock
<1>2. msgs \in Seq(Messages)
  BY <1>1 DEF Bodies
<1>3. k \in 1..Len(msgs) /\ msgs[k].role = "system" /\ IsSystem(msgs[k]) /\ msgs[k] \in Messages
  <2> HIDE DEF msgs
  <2> QED BY <1>1, <1>2, ElementOfSeq DEF FirstSystem, IsSystem
<1>4. c \in Contents /\ Plain(c)
  <2>1. DOMAIN msgs = 1..Len(msgs)
    BY <1>2, LenProperties
  <2>2. Plain(c)
    BY <1>3, <2>1 DEF Good, PlainMessages
  <2> HIDE DEF msgs
  <2> QED BY <1>3, <2>2, MessageIs
<1> HIDE DEF c
<1>5. /\ d \in Contents /\ \A q \in 1..Len(d.parts) : d.parts[q].kind \in {"image", "text"}
      /\ \A x \in Seq(Words) : Injected(d, x) = Injected(c, x) /\ Injected(c, x) \in Contents
  BY <1>1, <1>4, InjectedType, InjectedTwice
<1> HIDE DEF msgs, d
<1>6. Fills(msgs, k, d, t)
  BY <1>2, <1>3, <1>5, FillingIs
<1>7. Spoken(t) = Spoken(msgs)
  BY <1>2, <1>3, <1>5, SpokenFilling
<1>8. \A x \in Contents : Filling(t, k, x) = Filling(msgs, k, x)
  BY <1>2, <1>3, <1>5, FillingTwice
<1> HIDE DEF t
<1>9. p \in Bodies /\ p.messages = t /\ t \in Seq(Messages) /\ Len(t) = Len(msgs)
  <2>1. t \in Seq(Messages) /\ Len(t) = Len(msgs)
    BY <1>6 DEF Fills
  <2> QED BY <1>1, <2>1, PlacedIs
<1>10. Tame(t)
  <2> SUFFICES ASSUME NEW i \in 1..Len(t), IsSystem(t[i]), NEW q \in 1..Len(t[i].content.parts)
               PROVE  t[i].content.parts[q].kind \in {"image", "text"}
    BY DEF Tame
  <2>1. CASE i = k
    <3>1. t[i].content = d
      BY <1>6, <2>1 DEF Fills
    <3> QED BY <1>5, <3>1
  <2>2. CASE i # k
    <3>1. i \in 1..Len(msgs) /\ t[i] = msgs[i]
      BY <1>6, <1>9, <2>2 DEF Fills
    <3>2. Tame(msgs)
      BY GoodTame DEF msgs
    <3> QED BY <3>1, <3>2 DEF Tame
  <2> QED BY <2>1, <2>2
<1>11. FirstSystem(t, k) /\ t[k].content = d
  <2>1. \A i \in 1..(k - 1) : i \in 1..Len(msgs) /\ i # k
    <3>1. Len(msgs) \in Nat
      BY <1>2, LenProperties
    <3> QED BY <1>3, <3>1
  <2> QED BY <1>1, <1>3, <1>6, <1>9, <2>1 DEF FirstSystem, Fills
<1>12. ASSUME NEW x \in Seq(Words), IsBlock(x)
       PROVE  InjectMemoryBlock(f, p, x) = InjectMemoryBlock(f, b, x)
  <2>1. InjectMemoryBlock(f, p, x) = Placed(p, InjectOpenAISystem(t, x))
    BY <1>1, <1>9, <1>12, InjectIs
  <2>2. InjectMemoryBlock(f, b, x) = Placed(b, InjectOpenAISystem(msgs, x))
    BY <1>1, <1>12, InjectIs DEF msgs
  <2>3. InjectOpenAISystem(t, x) = Filling(t, k, Injected(d, x))
    BY <1>9, <1>11, InjectFirst
  <2>4. InjectOpenAISystem(msgs, x) = Filling(msgs, k, Injected(c, x))
    BY <1>1, <1>2, InjectFirst DEF c
  <2>5. Filling(t, k, Injected(d, x)) = Filling(msgs, k, Injected(c, x))
    BY <1>5, <1>8
  <2>6. \A y : Placed(p, y) = Placed(b, y)
    BY <1>1, PlacedTwice
  <2> QED BY <2>1, <2>2, <2>3, <2>4, <2>5, <2>6
<1>13. SystemApart(f, t)
  BY <1>1, <1>9 DEF SystemApart
<1> QED BY <1>7, <1>9, <1>10, <1>12, <1>13 DEF PutShape, msgs

LEMMA PutHasShape ==
    ASSUME NEW f, NEW b, Good(f, b), NEW blk \in Blocks
    PROVE  PutShape(f, b, InjectMemoryBlock(f, b, blk))
<1> DEFINE p == InjectMemoryBlock(f, b, blk)
<1>1. Put(f, b, blk, p)
  BY PutIs DEF Good
<1> HIDE DEF p
<1>2. CASE p = b
  BY <1>2, ShapeSame DEF p
<1>3. CASE IsBlock(blk) /\ PutSlot(f, b, blk, p)
  BY <1>3, ShapeSlot DEF p
<1>4. CASE IsBlock(blk) /\ PutFront(f, b, blk, p)
  BY <1>4, ShapeFront DEF p
<1>5. CASE IsBlock(blk) /\ \E k : PutInto(f, b, blk, p, k)
  BY <1>5, ShapeInto DEF p
<1> QED BY <1>1, <1>2, <1>3, <1>4, <1>5 DEF Put

(* A body that the handler rewrote is left whole by the window, and a block  *)
(* that is put in takes the place of the one that is there.                  *)
LEMMA PutAgain ==
    ASSUME NEW f, NEW b, Good(f, b), Fits(f, Spoken(b.messages)), NEW blk \in Blocks,
           NEW p, p = InjectMemoryBlock(f, b, blk)
    PROVE  /\ WindowMessages(f, p, WindowSize) = p
           /\ \A x \in Blocks : InjectMemoryBlock(f, p, x) = IF x = << >> THEN p ELSE InjectMemoryBlock(f, b, x)
<1>1. PutShape(f, b, p)
  BY PutHasShape
<1>2. p \in Bodies /\ SystemApart(f, p.messages) /\ Fits(f, Spoken(p.messages))
  BY <1>1 DEF PutShape
<1>3. PICK K : Cut(f, p, WindowMessages(f, p, WindowSize), K)
  BY <1>2, WindowIs
<1>4. WindowMessages(f, p, WindowSize) = p
  BY <1>2, <1>3 DEF Cut
<1>5. ASSUME NEW x \in Blocks
      PROVE  InjectMemoryBlock(f, p, x) = IF x = << >> THEN p ELSE InjectMemoryBlock(f, b, x)
  <2>1. CASE x = << >>
    BY <2>1 DEF InjectMemoryBlock
  <2>2. CASE x # << >>
    BY <1>1, <2>2 DEF PutShape, Blocks
  <2> QED BY <2>1, <2>2
<1> QED BY <1>4, <1>5

-----------------------------------------------------------------------------
(* What is extracted. *)
LEMMA ContentTextIn ==
    ASSUME NEW S, NEW parts \in Seq(Parts), \A i \in 1..Len(parts) : Rendered(parts[i]) \in Seq(S)
    PROVE  ContentText(parts) \in Seq(S)
<1> DEFINE f == [i \in DOMAIN parts |-> Rendered(parts[i])]
<1>1. DOMAIN parts = 1..Len(parts) /\ Len(parts) \in Nat
  BY LenProperties
<1>2. f \in [1..Len(parts) -> Seq(S)]
  BY <1>1
<1>3. ContentText(parts) = FlattenSeq(f)
  BY DEF ContentText
<1> HIDE DEF f
<1>4. f \in Seq(Seq(S))
  BY <1>1, <1>2, FunctionIsSeq
<1> QED BY <1>3, <1>4, FlattenType

LEMMA MessageTextIn ==
    ASSUME NEW S, NEW f, NEW m \in Messages,
           \A i \in 1..Len(m.content.parts) : Rendered(m.content.parts[i]) \in Seq(S)
    PROVE  MessageText(f, m) \in Seq(S)
<1> DEFINE parts == m.content.parts
           I == {i \in DOMAIN parts : ~IsCall(parts[i])}
           said == Subsequence(parts, I)
<1>1. parts \in Seq(Parts)
  BY MessageIs
<1>2. I \in SUBSET (1..Len(parts))
  <2>1. DOMAIN parts = 1..Len(parts)
    BY <1>1, LenProperties
  <2> QED BY <2>1
<1> HIDE DEF parts, I
<1>3. said \in Seq(Parts) /\ Picked(parts, I)
  BY <1>1, <1>2, SubsequenceIs
<1>4. \A i \in 1..Len(said) : Rendered(said[i]) \in Seq(S)
  <2> SUFFICES ASSUME NEW i \in 1..Len(said) PROVE Rendered(said[i]) \in Seq(S)
    OBVIOUS
  <2>1. Nth(I, i) \in I /\ said[i] = parts[Nth(I, i)]
    BY <1>3 DEF Picked
  <2> QED BY <1>2, <2>1 DEF parts
<1>5. ContentText(said) \in Seq(S) /\ ContentText(parts) \in Seq(S)
  <2>1. ContentText(parts) \in Seq(S)
    <3>1. \A i \in 1..Len(parts) : Rendered(parts[i]) \in Seq(S)
      BY DEF parts
    <3> QED BY <1>1, <3>1, ContentTextIn
  <2> HIDE DEF said
  <2>2. ContentText(said) \in Seq(S)
    BY <1>3, <1>4, ContentTextIn
  <2> QED BY <2>1, <2>2
<1>6. Kept(m.content.parts, LAMBDA p : ~IsCall(p)) = said
  BY DEF Kept, I, parts
<1> QED BY <1>5, <1>6 DEF MessageText, parts

LEMMA MessageTextType ==
    ASSUME NEW f, NEW m \in Messages
    PROVE  MessageText(f, m) \in Seq(Words)
<1>1. m.content.parts \in Seq(Parts)
  BY MessageIs
<1>2. \A i \in 1..Len(m.content.parts) : Rendered(m.content.parts[i]) \in Seq(Words)
  <2>1. \A i \in 1..Len(m.content.parts) : m.content.parts[i] \in Parts
    BY <1>1, ElementOfSeq
  <2> QED BY <2>1, RendersIs
<1> QED BY <1>2, MessageTextIn

Told(f, m) == [role |-> m.role, text |-> MessageText(f, m)]

(* The messages, behind the prompt of the slot if there is one. *)
Listed(f, b, n, e) ==
    /\ n \in {0, 1} /\ Len(b.messages) \in Nat
    /\ Len(e) = n + Len(b.messages) /\ DOMAIN e = 1..Len(e)
    /\ n = 0 <=> ContentText(b.slot.parts) = << >>
    /\ n = 1 => e[1] = [role |-> "system", text |-> ContentText(b.slot.parts)]
    /\ \A i \in 1..Len(b.messages) : n + i \in 1..Len(e) /\ e[n + i] = Told(f, b.messages[i])
    /\ \A j \in 1..Len(e) : (j = 1 /\ n = 1) \/ (j - n \in 1..Len(b.messages) /\ e[j] = Told(f, b.messages[j - n]))

LEMMA ListedIs ==
    ASSUME NEW f, NEW b \in Bodies
    PROVE  \E n : Listed(f, b, n, ExtractMessages(f, b))
<1> DEFINE system == ContentText(b.slot.parts)
           head   == IF system = << >> THEN << >> ELSE <<[role |-> "system", text |-> system]>>
           msgs   == b.messages
           said   == [k \in DOMAIN msgs |-> Told(f, msgs[k])]
           S      == {said[k] : k \in DOMAIN msgs} \cup {[role |-> "system", text |-> system]}
           e      == ExtractMessages(f, b)
           n      == IF system = << >> THEN 0 ELSE 1
           L      == Len(msgs)
<1>1. msgs \in Seq(Messages) /\ DOMAIN msgs = 1..Len(msgs) /\ Len(msgs) \in Nat
  BY DEF Bodies
<1>2. e = head \o said
  BY DEF ExtractMessages, Told
<1>3. \A i \in 1..L : said[i] = Told(f, msgs[i])
  BY <1>1
<1> HIDE DEF msgs, system, e
<1>4. head \in Seq(S) /\ said \in Seq(S) /\ Len(said) = L
  <2>1. head \in Seq(S)
    BY UnitIsSeq
  <2>2. said \in [1..Len(msgs) -> S]
    <3>1. \A k \in DOMAIN msgs : said[k] \in S
      OBVIOUS
    <3> HIDE DEF S
    <3> QED BY <1>1, <3>1
  <2> HIDE DEF S, said, head
  <2> QED BY <1>1, <2>1, <2>2, FunctionIsSeq
<1>5. Len(head) = n /\ n \in {0, 1} /\ (n = 1 => head[1] = [role |-> "system", text |-> system]) /\ (n = 0 <=> system = << >>)
  OBVIOUS
<1> HIDE DEF head, said, S, n, L
<1>6. e \in Seq(S) /\ Len(e) = n + L /\ \A j \in 1..(n + L) : e[j] = IF j <= n THEN head[j] ELSE said[j - n]
  BY <1>2, <1>4, <1>5, ConcatProperties
<1>7. L \in Nat
  BY <1>1 DEF L
<1>8. DOMAIN e = 1..Len(e)
  BY <1>6, LenProperties
<1>9. n = 1 => e[1] = [role |-> "system", text |-> system]
  <2> SUFFICES ASSUME n = 1 PROVE e[1] = [role |-> "system", text |-> system]
    OBVIOUS
  <2>1. 1 \in 1..(n + L) /\ 1 <= n
    BY <1>7
  <2> QED BY <1>5, <1>6, <2>1
<1>10. ASSUME NEW i \in 1..L PROVE n + i \in 1..Len(e) /\ e[n + i] = Told(f, msgs[i])
  <2>1. n + i \in 1..(n + L) /\ ~(n + i <= n) /\ (n + i) - n = i
    BY <1>5, <1>7
  <2> QED BY <1>3, <1>6, <2>1
<1>11. ASSUME NEW j \in 1..Len(e), ~(j = 1 /\ n = 1)
       PROVE  j - n \in 1..L /\ e[j] = Told(f, msgs[j - n])
  <2>1. j - n \in 1..L /\ j \in 1..(n + L) /\ ~(j <= n)
    BY <1>5, <1>6, <1>7, <1>11
  <2> QED BY <1>3, <1>6, <2>1
<1>12. Listed(f, b, n, e)
  <2>1. n \in {0, 1} /\ L \in Nat /\ Len(e) = n + L /\ DOMAIN e = 1..Len(e)
    BY <1>5, <1>6, <1>7, <1>8
  <2>2. \A i \in 1..L : n + i \in 1..Len(e) /\ e[n + i] = Told(f, msgs[i])
    BY <1>10
  <2>3. \A j \in 1..Len(e) : (j = 1 /\ n = 1) \/ (j - n \in 1..L /\ e[j] = Told(f, msgs[j - n]))
    <3> SUFFICES ASSUME NEW j \in 1..Len(e), ~(j = 1 /\ n = 1)
                 PROVE  j - n \in 1..L /\ e[j] = Told(f, msgs[j - n])
      OBVIOUS
    <3> QED BY <1>11
  <2>4. (n = 0 <=> system = << >>) /\ (n = 1 => e[1] = [role |-> "system", text |-> system])
    BY <1>5, <1>9
  <2> QED BY <2>1, <2>2, <2>3, <2>4, Zenon DEF Listed, L, msgs, system
<1> QED BY <1>12 DEF e

(* What is said outside the system prompt. *)
Sayings(f, d) == {MessageText(f, d[i]) : i \in DOMAIN d}

LEMMA SpokenElement ==
    ASSUME NEW msgs \in Seq(Messages), NEW i \in 1..Len(msgs), ~IsSystem(msgs[i])
    PROVE  \E j \in DOMAIN Spoken(msgs) : Spoken(msgs)[j] = msgs[i]
<1> DEFINE I == {k \in 1..Len(msgs) : ~IsSystem(msgs[k])}
<1>1. I \in SUBSET (1..Len(msgs)) /\ i \in I /\ Spoken(msgs) = Subsequence(msgs, I)
  BY SpokenIs
<1> HIDE DEF I
<1>2. Picked(msgs, I)
  BY <1>1, SubsequenceIs
<1>3. Rank(I, i) \in DOMAIN Subsequence(msgs, I) /\ Subsequence(msgs, I)[Rank(I, i)] = msgs[i]
  BY <1>1, <1>2 DEF Picked
<1> QED BY <1>1, <1>3

(* What is stored of texts. *)
Heads(T) == {Ingested(t) : t \in T}

LEMMA HeadsIn ==
    ASSUME NEW S, NEW T, T \subseteq Seq(S)
    PROVE  Heads(T) \subseteq Seq(S)
<1>1. MaxIngest \in Nat
  BY SizesAssumption
<1>2. ASSUME NEW t \in T PROVE Ingested(t) \in Seq(S)
  <2>1. t \in Seq(S)
    OBVIOUS
  <2> QED BY <1>1, <2>1, UpToIs DEF Ingested
<1> QED BY <1>2 DEF Heads

(* Only what is said outside the prompt is stored, the query too. *)
LEMMA StoredIsSaid ==
    ASSUME NEW b \in Bodies
    PROVE  Texts(Extracted(b)) \cup ({Query(b)} \ {<< >>}) \subseteq Sayings(fmt, Spoken(b.messages))
<1> DEFINE e == ExtractMessages(fmt, b)
           msgs == b.messages
<1>1. PICK n : Listed(fmt, b, n, e)
  BY ListedIs
<1>2. Extracted(b) = e
  BY DEF Extracted
<1> HIDE DEF e
<1>3. msgs \in Seq(Messages)
  BY DEF Bodies
<1>4. ASSUME NEW j \in 1..Len(e), e[j].role \notin {"system", "developer"}
      PROVE  e[j].text \in Sayings(fmt, Spoken(msgs))
  <2>1. ~(j = 1 /\ n = 1)
    BY <1>1, <1>4 DEF Listed
  <2>2. j - n \in 1..Len(msgs) /\ e[j] = Told(fmt, msgs[j - n])
    BY <1>1, <2>1 DEF Listed
  <2> DEFINE i == j - n
  <2>3. i \in 1..Len(msgs) /\ e[j] = Told(fmt, msgs[i])
    BY <2>2
  <2> HIDE DEF i, msgs
  <2>4. ~IsSystem(msgs[i]) /\ e[j].text = MessageText(fmt, msgs[i])
    BY <1>4, <2>3 DEF Told, IsSystem
  <2>5. \E k \in DOMAIN Spoken(msgs) : Spoken(msgs)[k] = msgs[i]
    BY <1>3, <2>3, <2>4, SpokenElement
  <2> QED BY <2>4, <2>5 DEF Sayings
<1>5. DOMAIN e = 1..Len(e)
  BY <1>1 DEF Listed
<1>6. Texts(e) \subseteq Sayings(fmt, Spoken(msgs))
  BY <1>4, <1>5 DEF Texts, Ingestible
<1>7. Query(b) # << >> => Query(b) \in Sayings(fmt, Spoken(msgs))
  <2> DEFINE I == {i \in 1..Len(e) : e[i].role = "user" /\ e[i].text # << >>}
             k == SelectLastInSeq(e, LAMBDA m : m.role = "user" /\ m.text # << >>)
  <2>1. Query(b) = IF k = 0 THEN << >> ELSE e[k].text
    BY <1>2 DEF Query, LatestUserText
  <2>2. CASE I = {}
    <3>1. k = 0
      BY <2>2 DEF SelectLastInSeq
    <3> QED BY <2>1, <3>1
  <2>3. CASE I # {}
    <3>1. k = Max(I)
      BY <2>3 DEF SelectLastInSeq
    <3>2. I \subseteq Nat /\ \A i \in I : i <= Len(e)
      <4>1. Len(e) \in Nat
        BY <1>1 DEF Listed
      <4> QED BY <4>1
    <3>3. \E m \in I : \A i \in I : i <= m
      <4> DEFINE T == {Len(e) - i : i \in I}
      <4>1. Len(e) \in Nat
        BY <1>1 DEF Listed
      <4>2. T \subseteq Nat /\ T # {}
        BY <2>3, <3>2, <4>1
      <4>3. PICK t \in T : \A u \in T : t <= u
        BY <4>2, LeastOf
      <4>4. PICK m \in I : t = Len(e) - m
        OBVIOUS
      <4>5. \A i \in I : Len(e) - m <= Len(e) - i
        BY <4>3, <4>4
      <4>6. \A i \in I : i <= m
        BY <3>2, <4>1, <4>5
      <4> QED BY <4>6
    <3>4. Max(I) \in I
      <4> HIDE DEF I
      <4> QED BY <3>3 DEF Max
    <3>5. k \in 1..Len(e) /\ e[k].role = "user"
      BY <3>1, <3>4
    <3> QED BY <1>4, <2>1, <3>5
  <2> QED BY <2>2, <2>3
<1> QED BY <1>2, <1>6, <1>7

-----------------------------------------------------------------------------
(* Results and the calls they answer. *)
Chained(x, s, t) ==
    /\ s \in Seq(Messages) /\ t \in Seq(Messages) /\ x \in Seq(Messages)
    /\ Len(s) \in Nat /\ Len(t) \in Nat /\ Len(x) = Len(s) + Len(t)
    /\ DOMAIN s = 1..Len(s) /\ DOMAIN t = 1..Len(t) /\ DOMAIN x = 1..Len(x)
    /\ \A i \in 1..Len(s) : x[i] = s[i]
    /\ \A i \in 1..Len(t) : x[Len(s) + i] = t[i]

LEMMA ChainedIs ==
    ASSUME NEW s \in Seq(Messages), NEW t \in Seq(Messages)
    PROVE  Chained(s \o t, s, t)
<1> DEFINE x == s \o t
<1>1. Len(s) \in Nat /\ Len(t) \in Nat /\ DOMAIN s = 1..Len(s) /\ DOMAIN t = 1..Len(t)
  BY LenProperties
<1>2. /\ x \in Seq(Messages) /\ Len(x) = Len(s) + Len(t)
      /\ \A i \in 1..(Len(s) + Len(t)) : x[i] = IF i <= Len(s) THEN s[i] ELSE t[i - Len(s)]
  BY ConcatProperties
<1> HIDE DEF x
<1>3. DOMAIN x = 1..Len(x)
  BY <1>2, LenProperties
<1>4. ASSUME NEW i \in 1..Len(s) PROVE x[i] = s[i]
  <2>1. i \in 1..(Len(s) + Len(t)) /\ i <= Len(s)
    BY <1>1
  <2> QED BY <1>2, <2>1
<1>5. ASSUME NEW i \in 1..Len(t) PROVE x[Len(s) + i] = t[i]
  <2>1. Len(s) + i \in 1..(Len(s) + Len(t)) /\ ~(Len(s) + i <= Len(s)) /\ (Len(s) + i) - Len(s) = i
    BY <1>1
  <2> QED BY <1>2, <2>1
<1>6. Chained(x, s, t)
  BY <1>1, <1>2, <1>3, <1>4, <1>5 DEF Chained
<1> QED BY <1>6 DEF x

(* The i-th message answers in its p-th part. *)
Answers(msgs, i, p) ==
    i \in DOMAIN msgs /\ p \in DOMAIN msgs[i].content.parts /\ IsResult(msgs[i].content.parts[p])

(* Its call is in the j-th, with nothing but heads that no window has since. *)
Called(msgs, i, p, j) == j \in 1..(i - 1) /\ Calls(msgs[j], msgs[i].content.parts[p].id)

CalledAtOnce(f, msgs, i, p, j) == Called(msgs, i, p, j) /\ \A k \in (j + 1)..i : OrphanHead(f, msgs[k])

LEMMA AnsweredIs ==
    ASSUME NEW f, NEW msgs
    PROVE  /\ Answered(msgs) <=> \A i, p : Answers(msgs, i, p) => \E j : Called(msgs, i, p, j)
           /\ AnsweredAtOnce(f, msgs) <=> \A i, p : Answers(msgs, i, p) => \E j : CalledAtOnce(f, msgs, i, p, j)
BY DEF Answered, AnsweredAtOnce, Answers, Called, CalledAtOnce

LEMMA AnsweredConcat ==
    ASSUME NEW f, NEW x, NEW s, NEW t, Chained(x, s, t)
    PROVE  /\ Answered(s) /\ Answered(t) => Answered(x)
           /\ AnsweredAtOnce(f, s) /\ AnsweredAtOnce(f, t) => AnsweredAtOnce(f, x)
<1> SUFFICES ASSUME NEW i, NEW p, Answers(x, i, p)
             PROVE  \/ /\ Answers(s, i, p)
                       /\ \A j : Called(s, i, p, j) => Called(x, i, p, j)
                       /\ \A j : CalledAtOnce(f, s, i, p, j) => CalledAtOnce(f, x, i, p, j)
                    \/ \E m : /\ Answers(t, m, p)
                              /\ \A j : Called(t, m, p, j) => Called(x, i, p, Len(s) + j)
                              /\ \A j : CalledAtOnce(f, t, m, p, j) => CalledAtOnce(f, x, i, p, Len(s) + j)
  BY AnsweredIs
<1>1. i \in 1..Len(x) /\ p \in DOMAIN x[i].content.parts /\ IsResult(x[i].content.parts[p])
  BY DEF Answers, Chained
<1>2. CASE i <= Len(s)
  <2>1. i \in 1..Len(s) /\ x[i] = s[i]
    BY <1>1, <1>2 DEF Chained
  <2>2. Answers(s, i, p)
    BY <1>1, <2>1 DEF Answers, Chained
  <2>3. \A k \in 1..i : k \in 1..Len(s) /\ x[k] = s[k]
    BY <1>2, <2>1 DEF Chained
  <2>4. ASSUME NEW j, Called(s, i, p, j) PROVE Called(x, i, p, j) /\ j \in Nat /\ j \in 1..i
    <3>1. j \in 1..i /\ j \in Nat
      BY <2>1, <2>4 DEF Called, Chained
    <3> QED BY <2>1, <2>3, <2>4, <3>1 DEF Called
  <2>5. ASSUME NEW j, CalledAtOnce(f, s, i, p, j) PROVE CalledAtOnce(f, x, i, p, j)
    <3>1. Called(x, i, p, j) /\ j \in Nat
      BY <2>4, <2>5 DEF CalledAtOnce
    <3>2. \A k \in (j + 1)..i : k \in 1..i /\ OrphanHead(f, s[k])
      BY <2>1, <2>5, <3>1 DEF CalledAtOnce, Chained
    <3> QED BY <2>3, <3>1, <3>2 DEF CalledAtOnce
  <2> QED BY <2>2, <2>4, <2>5
<1>3. CASE ~(i <= Len(s))
  <2> DEFINE m == i - Len(s)
  <2>1. m \in 1..Len(t) /\ i = Len(s) + m
    BY <1>1, <1>3 DEF Chained
  <2> HIDE DEF m
  <2>2. x[i] = t[m]
    BY <2>1 DEF Chained
  <2>3. Answers(t, m, p)
    BY <1>1, <2>1, <2>2 DEF Answers, Chained
  <2>4. ASSUME NEW j, Called(t, m, p, j) PROVE Called(x, i, p, Len(s) + j) /\ j \in 1..(m - 1)
    <3>1. j \in 1..(m - 1) /\ j \in 1..Len(t) /\ Len(s) + j \in 1..(i - 1)
      BY <2>1, <2>4 DEF Called, Chained
    <3>2. x[Len(s) + j] = t[j]
      BY <3>1 DEF Chained
    <3> QED BY <2>2, <2>4, <3>1, <3>2 DEF Called
  <2>5. ASSUME NEW j, CalledAtOnce(f, t, m, p, j) PROVE CalledAtOnce(f, x, i, p, Len(s) + j)
    <3>1. Called(x, i, p, Len(s) + j) /\ j \in 1..(m - 1)
      BY <2>4, <2>5 DEF CalledAtOnce
    <3>2. ASSUME NEW k \in (Len(s) + j + 1)..i PROVE OrphanHead(f, x[k])
      <4>1. k - Len(s) \in (j + 1)..m /\ k - Len(s) \in 1..Len(t) /\ Len(s) + (k - Len(s)) = k
        BY <2>1, <3>1 DEF Chained
      <4>2. x[k] = t[k - Len(s)]
        BY <4>1 DEF Chained
      <4>3. OrphanHead(f, t[k - Len(s)])
        BY <2>5, <4>1 DEF CalledAtOnce
      <4> QED BY <4>2, <4>3
    <3> QED BY <3>1, <3>2 DEF CalledAtOnce
  <2> QED BY <2>3, <2>4, <2>5
<1> QED BY <1>2, <1>3

(* What is left of a dialogue by a window begins with no answer. *)
LEMMA RearAnswered ==
    ASSUME NEW f \in Formats \ {"gemini"}, NEW d \in Seq(Messages), AnsweredAtOnce(f, d)
    PROVE  Answered(Rear(f, d))
<1> DEFINE t == Rear(f, d)
<1>1. PICK s : From(f, d, s)
  BY RearIs
<1>2. t \in Seq(Messages) /\ Len(d) \in Nat /\ DOMAIN d = 1..Len(d) /\ WindowSize \in Nat
  BY <1>1, LenProperties, SizesAssumption DEF From
<1>3. DOMAIN t = 1..Len(t)
  BY <1>2, LenProperties
<1>4. s \in Nat \ {0} /\ Len(t) = Len(d) - s + 1 /\ \A i \in 1..Len(t) : t[i] = d[s - 1 + i]
  BY <1>1 DEF From
<1>5. s = 1 \/ ~OrphanHead(f, d[s])
  BY <1>1 DEF From, Begins
<1> HIDE DEF t
<1> SUFFICES ASSUME NEW i, NEW p, Answers(t, i, p)
             PROVE  \E j : Called(t, i, p, j)
  BY AnsweredIs DEF t
<1>6. i \in 1..Len(t) /\ t[i] = d[s - 1 + i]
  BY <1>3, <1>4 DEF Answers
<1> DEFINE m == s - 1 + i
<1>7. m \in 1..Len(d) /\ m >= s /\ i = m - s + 1
  BY <1>2, <1>4, <1>6
<1>8. t[i] = d[m]
  BY <1>6
<1> HIDE DEF m
<1>9. Answers(d, m, p)
  BY <1>2, <1>7, <1>8 DEF Answers
<1>10. PICK j : CalledAtOnce(f, d, m, p, j)
  BY <1>9, AnsweredIs
<1>11. j \in 1..(m - 1) /\ Calls(d[j], d[m].content.parts[p].id) /\ \A k \in (j + 1)..m : OrphanHead(f, d[k])
  BY <1>10 DEF CalledAtOnce, Called
<1>12. j >= s
  <2> SUFFICES ASSUME ~(j >= s) PROVE FALSE
    OBVIOUS
  <2>1. s \in (j + 1)..m /\ s # 1
    BY <1>4, <1>7, <1>11
  <2> QED BY <1>5, <1>11, <2>1
<1> DEFINE l == j - s + 1
<1>13. l \in 1..(i - 1) /\ l \in 1..Len(t) /\ s - 1 + l = j
  BY <1>4, <1>6, <1>7, <1>11, <1>12
<1> HIDE DEF l
<1>14. t[l] = d[j]
  BY <1>4, <1>13
<1>15. Called(t, i, p, l)
  BY <1>8, <1>11, <1>13, <1>14 DEF Called
<1> QED BY <1>15

(* Messages that no result is in may be put between. *)
LEMMA SpokenAnswered ==
    ASSUME NEW msgs \in Seq(Messages), Answered(Spoken(msgs)), Tame(msgs)
    PROVE  Answered(msgs)
<1> DEFINE I == {i \in 1..Len(msgs) : ~IsSystem(msgs[i])}
           d == Subsequence(msgs, I)
<1>1. I \in SUBSET (1..Len(msgs)) /\ Spoken(msgs) = d /\ DOMAIN msgs = 1..Len(msgs) /\ Len(msgs) \in Nat
  BY SpokenIs, LenProperties
<1>2. \A i \in 1..Len(msgs) : i \in I <=> ~IsSystem(msgs[i])
  OBVIOUS
<1> HIDE DEF I
<1>3. Picked(msgs, I) /\ d \in Seq(Messages)
  BY <1>1, SubsequenceIs
<1>4. DOMAIN d = 1..Cardinality(I) /\ Cardinality(I) \in Nat
  BY <1>1, <1>3 DEF Picked
<1>5. Answered(d)
  BY <1>1
<1> HIDE DEF d
<1> SUFFICES ASSUME NEW i, NEW p, Answers(msgs, i, p)
             PROVE  \E j : Called(msgs, i, p, j)
  BY AnsweredIs
<1>6. i \in 1..Len(msgs) /\ p \in DOMAIN msgs[i].content.parts /\ msgs[i].content.parts[p].kind \in {"result", "response"}
  BY <1>1 DEF Answers, IsResult
<1>7. i \in I
  <2>1. msgs[i] \in Messages
    BY <1>6, ElementOfSeq
  <2>2. msgs[i].content.parts \in Seq(Parts)
    BY <2>1, MessageIs
  <2>3. p \in 1..Len(msgs[i].content.parts)
    BY <1>6, <2>2, LenProperties
  <2>4. ~IsSystem(msgs[i])
    BY <1>6, <2>3 DEF Tame
  <2> QED BY <1>2, <1>6, <2>4
<1> DEFINE k == Rank(I, i)
<1>8. k \in 1..Cardinality(I) /\ Nth(I, k) = i /\ d[k] = msgs[i]
  BY <1>3, <1>7 DEF Picked, d
<1> HIDE DEF k
<1>9. Answers(d, k, p)
  BY <1>4, <1>8 DEF Answers
<1>10. PICK j : Called(d, k, p, j)
  BY <1>5, <1>9, AnsweredIs
<1>11. j \in 1..(k - 1) /\ Calls(d[j], d[k].content.parts[p].id)
  BY <1>10 DEF Called
<1>12. j \in 1..Cardinality(I) /\ j < k
  BY <1>4, <1>8, <1>11
<1>13. Nth(I, j) < i /\ Nth(I, j) \in I /\ d[j] = msgs[Nth(I, j)]
  BY <1>3, <1>8, <1>12 DEF Picked, d
<1> DEFINE q == Nth(I, j)
<1>14. q \in 1..Len(msgs) /\ q < i /\ d[j] = msgs[q]
  BY <1>1, <1>13
<1> HIDE DEF q
<1>15. q \in 1..(i - 1)
  BY <1>1, <1>6, <1>14
<1>16. Called(msgs, i, p, q)
  BY <1>8, <1>11, <1>14, <1>15 DEF Called
<1> QED BY <1>16

-----------------------------------------------------------------------------
(* Lines. *)
Lines == Seq(Seq(Untagged))

(* The words of a text at positions of untagged ones. *)
LEMMA NeutralIs ==
    ASSUME NEW t \in Seq(Words)
    PROVE  Neutral(t) \in Seq(Untagged)
<1> DEFINE I == {i \in DOMAIN t : t[i] \notin Tags}
           s == Subsequence(t, I)
<1>1. DOMAIN t = 1..Len(t) /\ \A i \in 1..Len(t) : t[i] \in Words
  BY LenProperties, ElementOfSeq
<1>2. I \in SUBSET (1..Len(t)) /\ \A i \in I : t[i] \in Untagged
  BY <1>1 DEF Untagged
<1>3. Neutral(t) = s
  BY DEF Neutral, Kept
<1> HIDE DEF I
<1>4. Picked(t, I) /\ s \in Seq(Words)
  BY <1>2, SubsequenceIs
<1>5. Cardinality(I) \in Nat
  <2>1. Len(t) \in Nat
    BY LenProperties
  <2> QED BY <1>4, <2>1 DEF Picked
<1>6. s \in [1..Cardinality(I) -> Untagged]
  <2>1. \A k \in 1..Cardinality(I) : s[k] \in Untagged
    BY <1>2, <1>4 DEF Picked
  <2>2. s = [k \in 1..Cardinality(I) |-> t[Nth(I, k)]]
    BY DEF Subsequence
  <2> HIDE DEF s
  <2>3. \A k \in 1..Cardinality(I) : s[k] = t[Nth(I, k)]
    BY <2>2
  <2> QED BY <2>1, <2>2, <2>3
<1> HIDE DEF s
<1>7. s \in Seq(Untagged)
  BY <1>5, <1>6, FunctionIsSeq
<1> QED BY <1>3, <1>7

LEMMA LineIs ==
    ASSUME NEW t \in Seq(Words)
    PROVE  Line(t, MaxLine) \in Seq(Untagged) /\ FirstLine(t) \in Seq(Untagged)
<1>1. Neutral(t) \in Seq(Untagged) /\ MaxLine \in Nat
  BY NeutralIs, SizesAssumption
<1>2. UpTo(Neutral(t), MaxLine) \in Seq(Untagged)
  BY <1>1, UpToIs
<1> QED BY <1>2 DEF Line, FirstLine

(* The places of I have, in turn, the elements of t. *)
Selects(s, I, t) ==
    /\ I \in SUBSET (1..Len(s)) /\ t = Subsequence(s, I) /\ Picked(s, I) /\ Len(s) \in Nat /\ Len(t) \in Nat
    /\ Len(t) <= Len(s) /\ DOMAIN t = 1..Len(t) /\ DOMAIN s = 1..Len(s) /\ Cardinality(I) = Len(t)

LEMMA SelectsIs ==
    ASSUME NEW R, NEW s \in Seq(R), NEW I \in SUBSET (1..Len(s))
    PROVE  Selects(s, I, Subsequence(s, I)) /\ Subsequence(s, I) \in Seq(R)
<1>1. Picked(s, I) /\ Subsequence(s, I) \in Seq(R)
  BY SubsequenceIs
<1>2. Len(s) \in Nat /\ DOMAIN s = 1..Len(s) /\ Len(Subsequence(s, I)) \in Nat
  BY <1>1, LenProperties
<1> QED BY <1>1, <1>2 DEF Picked, Selects

(* The first of each. *)
Firsts(ls) == {i \in 1..Len(ls) : \A j \in 1..(i - 1) : ls[j] # ls[i]}

LEMMA DedupeIs ==
    ASSUME NEW R, NEW ls \in Seq(R)
    PROVE  /\ Selects(ls, Firsts(ls), DedupeLines(ls)) /\ DedupeLines(ls) \in Seq(R)
           /\ IsInjective(DedupeLines(ls))
           /\ \A i \in 1..Len(ls) : \E j \in Firsts(ls) : j <= i /\ ls[j] = ls[i]
<1> DEFINE I == Firsts(ls)
           d == DedupeLines(ls)
<1>1. DOMAIN ls = 1..Len(ls) /\ Len(ls) \in Nat
  BY LenProperties
<1>2. d = Subsequence(ls, I)
  BY <1>1 DEF DedupeLines, Firsts
<1>3. I \in SUBSET (1..Len(ls))
  BY DEF Firsts
<1>4. Selects(ls, I, d) /\ d \in Seq(R)
  BY <1>2, <1>3, SelectsIs
<1> HIDE DEF d
<1>5. ASSUME NEW a \in I, NEW b \in I, a < b PROVE ls[a] # ls[b]
  <2>1. a \in 1..(b - 1)
    BY <1>1, <1>3, <1>5
  <2> QED BY <2>1 DEF Firsts
<1>6. ASSUME NEW k \in DOMAIN d, NEW l \in DOMAIN d, k < l PROVE d[k] # d[l]
  <2>1. k \in 1..Cardinality(I) /\ l \in 1..Cardinality(I)
    BY <1>4 DEF Selects
  <2>2. /\ Nth(I, k) \in I /\ Nth(I, l) \in I /\ Nth(I, k) < Nth(I, l)
        /\ d[k] = ls[Nth(I, k)] /\ d[l] = ls[Nth(I, l)]
    BY <1>4, <1>6, <2>1 DEF Selects, Picked
  <2> QED BY <1>5, <2>2
<1>7. IsInjective(d)
  <2>1. \A k, l \in DOMAIN d : k < l \/ l < k \/ k = l
    BY <1>4 DEF Selects
  <2> QED BY <1>6, <2>1 DEF IsInjective
<1>8. ASSUME NEW i \in 1..Len(ls) PROVE \E j \in I : j <= i /\ ls[j] = ls[i]
  <2> DEFINE T == {j \in 1..Len(ls) : ls[j] = ls[i]}
  <2>1. T \subseteq Nat /\ i \in T
    BY <1>1
  <2>2. PICK m \in T : \A j \in T : m <= j
    BY <2>1, LeastOf
  <2>3. m <= i /\ m \in 1..Len(ls) /\ ls[m] = ls[i]
    BY <2>1, <2>2
  <2>4. ASSUME NEW j \in 1..(m - 1) PROVE ls[j] # ls[m]
    <3>1. j \in 1..Len(ls) /\ ~(m <= j)
      BY <1>1, <2>3
    <3> QED BY <2>2, <2>3, <3>1
  <2>5. m \in I
    BY <2>3, <2>4 DEF Firsts
  <2> QED BY <2>3, <2>5
<1> QED BY <1>4, <1>7, <1>8 DEF d

LEMMA BlockOfLines ==
    ASSUME NEW ls \in Lines
    PROVE  /\ MemoryBlock(ls) \in Blocks
           /\ ls = << >> <=> MemoryBlock(ls) = << >>
           /\ ls # << >> => IsBlock(MemoryBlock(ls))
<1>1. CASE ls = << >>
  <2>1. MemoryBlock(ls) = << >> /\ << >> \in Seq(Words)
    BY <1>1 DEF MemoryBlock
  <2> QED BY <1>1, <2>1 DEF Blocks
<1>2. CASE ls # << >>
  <2>1. IsBlock(MemoryBlock(ls))
    BY <1>2, BlockIs DEF Lines
  <2>2. MemoryBlock(ls) # << >> /\ MemoryBlock(ls) \in Seq(Words)
    BY <2>1 DEF IsBlock
  <2> QED BY <1>2, <2>1, <2>2 DEF Blocks
<1> QED BY <1>1, <1>2

(* What a request looks for among the lines it has: those that are staged    *)
(* and, of the items recalled, those that are no echo and not visible.       *)
Unseen(st, texts)   == {i \in 1..Len(st) : ~Visible(st[i], texts)}
NoEcho(items, q)    == {i \in 1..Len(items) : ~Echoes(items[i], q)}
New(items, texts)   == {i \in 1..Len(items) : Neutral(items[i]) # << >> /\ ~Visible(Neutral(items[i]), texts)}
Found(items, q, texts) == DedupeAgainstWindow(DropQueryEchoes(items, q), texts)
Shortened(items)    == [i \in DOMAIN items |-> Line(items[i], MaxLine)]

LEMMA StagedIs ==
    ASSUME NEW st \in Lines, NEW texts
    PROVE  /\ Selects(st, Unseen(st, texts), FilterStagedAgainstWindow(st, texts))
           /\ FilterStagedAgainstWindow(st, texts) \in Lines
<1> DEFINE I == Unseen(st, texts)
<1>1. DOMAIN st = 1..Len(st)
  BY LenProperties DEF Lines
<1>2. FilterStagedAgainstWindow(st, texts) = Subsequence(st, I)
  BY <1>1 DEF FilterStagedAgainstWindow, Kept, Unseen
<1>3. I \in SUBSET (1..Len(st))
  BY DEF Unseen
<1> HIDE DEF I
<1>4. Selects(st, I, Subsequence(st, I)) /\ Subsequence(st, I) \in Lines
  BY <1>3, SelectsIs DEF Lines
<1> QED BY <1>2, <1>4 DEF I

LEMMA FoundIs ==
    ASSUME NEW items \in Seq(Seq(Words)), NEW q, NEW texts
    PROVE  LET said == DropQueryEchoes(items, q)
           IN  /\ Selects(items, NoEcho(items, q), said) /\ said \in Seq(Seq(Words))
               /\ Selects(said, New(said, texts), Found(items, q, texts))
               /\ Found(items, q, texts) \in Seq(Seq(Words))
<1> DEFINE I == NoEcho(items, q)
           said == DropQueryEchoes(items, q)
           J == New(said, texts)
<1>1. DOMAIN items = 1..Len(items)
  BY LenProperties
<1>2. said = Subsequence(items, I)
  BY <1>1 DEF DropQueryEchoes, Kept, NoEcho
<1>3. I \in SUBSET (1..Len(items))
  BY DEF NoEcho
<1> HIDE DEF I
<1>4. Selects(items, I, said) /\ said \in Seq(Seq(Words))
  <2> HIDE DEF said
  <2> QED BY <1>2, <1>3, SelectsIs
<1> HIDE DEF said
<1>5. DOMAIN said = 1..Len(said)
  BY <1>4, LenProperties
<1>6. Found(items, q, texts) = Subsequence(said, J)
  BY <1>5 DEF Found, DedupeAgainstWindow, Kept, New, said
<1>7. J \in SUBSET (1..Len(said))
  BY DEF New
<1> HIDE DEF J
<1>8. Selects(said, J, Found(items, q, texts)) /\ Found(items, q, texts) \in Seq(Seq(Words))
  BY <1>4, <1>6, <1>7, SelectsIs
<1> QED BY <1>4, <1>8 DEF I, J, said

LEMMA ShortenedIs ==
    ASSUME NEW items \in Seq(Seq(Words))
    PROVE  /\ Shortened(items) \in Lines /\ Len(Shortened(items)) = Len(items) /\ Len(items) \in Nat
           /\ \A i \in 1..Len(items) : Shortened(items)[i] = FirstLine(items[i])
<1>1. DOMAIN items = 1..Len(items) /\ Len(items) \in Nat /\ \A i \in 1..Len(items) : items[i] \in Seq(Words)
  BY LenProperties, ElementOfSeq
<1>2. \A i \in 1..Len(items) : Line(items[i], MaxLine) \in Seq(Untagged) /\ Line(items[i], MaxLine) = FirstLine(items[i])
  BY <1>1, LineIs DEF FirstLine
<1> DEFINE s == Shortened(items)
<1>3. s \in [1..Len(items) -> Seq(Untagged)] /\ \A i \in 1..Len(items) : s[i] = FirstLine(items[i])
  BY <1>1, <1>2 DEF Shortened
<1> HIDE DEF s
<1>4. s \in Lines /\ Len(s) = Len(items)
  BY <1>1, <1>3, FunctionIsSeq DEF Lines
<1> QED BY <1>1, <1>3, <1>4 DEF s

LEMMA FormatIs ==
    ASSUME NEW items \in Seq(Seq(Words))
    PROVE  /\ FormatMemories(items, RecallLimit, MaxLine) = UpTo(DedupeLines(Shortened(items)), RecallLimit)
           /\ DedupeLines(Shortened(items)) \in Lines
           /\ FormatMemories(items, RecallLimit, MaxLine) \in Lines
           /\ Len(FormatMemories(items, RecallLimit, MaxLine)) <= RecallLimit
<1> DEFINE s == Shortened(items)
<1>1. s \in Lines
  BY ShortenedIs
<1> HIDE DEF s
<1>2. DedupeLines(s) \in Lines
  BY <1>1, DedupeIs DEF Lines
<1> DEFINE d == DedupeLines(s)
<1>3. d \in Lines
  BY <1>2
<1> HIDE DEF d
<1>4. RecallLimit \in Nat /\ Len(d) \in Nat
  BY <1>3, SizesAssumption, LenProperties DEF Lines
<1>5. UpTo(d, RecallLimit) \in Lines /\ Len(UpTo(d, RecallLimit)) = IF Len(d) > RecallLimit THEN RecallLimit ELSE Len(d)
  BY <1>3, <1>4, UpToIs DEF Lines
<1>6. Len(UpTo(d, RecallLimit)) <= RecallLimit
  BY <1>4, <1>5
<1>7. FormatMemories(items, RecallLimit, MaxLine) = UpTo(d, RecallLimit)
  BY DEF FormatMemories, Shortened, s, d
<1> QED BY <1>2, <1>5, <1>6, <1>7 DEF s, d

(* What ToInject makes of staged lines st and of items recalled for a query  *)
(* q, beside what a window shows.                                            *)
Candidates(st, items, q, texts) ==
    FilterStagedAgainstWindow(st, texts) \o FormatMemories(Found(items, q, texts), RecallLimit, MaxLine)

Chosen(st, items, q, texts) == DedupeLines(Candidates(st, items, q, texts))

LEMMA ChosenIs ==
    ASSUME NEW st \in Lines, NEW items \in Seq(Seq(Words)), NEW q, NEW texts
    PROVE  /\ Candidates(st, items, q, texts) \in Lines
           /\ Chosen(st, items, q, texts) \in Lines
           /\ IsInjective(Chosen(st, items, q, texts))
           /\ Len(Chosen(st, items, q, texts)) <= RecallLimit + Len(st)
<1> DEFINE u == FilterStagedAgainstWindow(st, texts)
           v == FormatMemories(Found(items, q, texts), RecallLimit, MaxLine)
           c == u \o v
<1>1. u \in Lines /\ Len(u) <= Len(st) /\ Len(u) \in Nat /\ Len(st) \in Nat
  BY StagedIs DEF Selects
<1>2. v \in Lines /\ Len(v) <= RecallLimit
  BY FoundIs, FormatIs
<1>3. Candidates(st, items, q, texts) = c
  BY DEF Candidates
<1> HIDE DEF u, v
<1>4. c \in Lines /\ Len(c) = Len(u) + Len(v) /\ Len(v) \in Nat
  BY <1>1, <1>2, ConcatProperties, LenProperties DEF Lines
<1> HIDE DEF c
<1>5. DedupeLines(c) \in Lines /\ IsInjective(DedupeLines(c)) /\ Len(DedupeLines(c)) <= Len(c) /\ Len(DedupeLines(c)) \in Nat
  BY <1>4, DedupeIs DEF Lines, Selects
<1>6. Len(DedupeLines(c)) <= RecallLimit + Len(st)
  BY <1>1, <1>2, <1>4, <1>5, SizesAssumption
<1> QED BY <1>3, <1>4, <1>5, <1>6 DEF Chosen

-----------------------------------------------------------------------------
(* Clients of Responses that call a tool only when the last one has put out. *)
OneCallAtATime ==
    LET f == "openai-response"
    IN  /\ \A t \in Turns[f] : AnsweredAtOnce(f, Spoken(t))
        /\ \A b \in Prompts[f] : AnsweredAtOnce(f, Dialogue(b))

(* The formats in which results stand right behind their calls. *)
AtOnce(f) == f \in {"openai", "claude"} \/ (f = "openai-response" /\ OneCallAtATime)

LEMMA AtOnceIs ==
    ASSUME NEW f, AtOnce(f)
    PROVE  /\ \A t \in Turns[f] : AnsweredAtOnce(f, Spoken(t))
           /\ \A b \in Prompts[f] : AnsweredAtOnce(f, Dialogue(b))
<1>1. CASE f \in {"openai", "claude"}
  BY <1>1, AtOnceAssumption
<1>2. CASE f = "openai-response" /\ OneCallAtATime
  BY <1>2 DEF OneCallAtATime
<1> QED BY <1>1, <1>2 DEF AtOnce

(* The conversation. *)
ClientOf(f, b) ==
    /\ Good(f, b)
    /\ Answered(Dialogue(b))
    /\ AtOnce(f) => AnsweredAtOnce(f, Dialogue(b))
    /\ \A i \in 1..Len(b.messages) : b.messages[i] \in Sent(f)

(* b is what the handler makes of the client's body c. *)
Rewrites(f, c, b) == \E blk \in Blocks : b = InjectMemoryBlock(f, WindowMessages(f, c, WindowSize), blk)

ConvInv ==
    /\ fmt \in Formats /\ ClientOf(fmt, client)
    /\ memory \subseteq Heads(Sayings(fmt, Dialogue(client)))
    /\ staged \in Lines
    /\ body = client \/ Rewrites(fmt, client, body)
    /\ recalled \in Seq(Seq(Words)) /\ taken \in Lines /\ lines \in Lines
    /\ out # None => /\ lines = Chosen(taken, recalled, Query(body), ShownBy(Windowed(body)))
                     /\ out = InjectMemoryBlock(fmt, Windowed(body), MemoryBlock(lines))

Longer(b, turn) == [b EXCEPT !.messages = @ \o turn]

LEMMA FirstClient ==
    ASSUME NEW f \in Formats, NEW b \in Prompts[f]
    PROVE  ClientOf(f, b)
<1>1. b \in Bodies /\ b.messages \in Seq(Messages)
  BY BodiesAssumption DEF Bodies
<1>2. Good(f, b)
  BY <1>1, PromptsAssumption DEF Good
<1>3. Answered(Dialogue(b)) /\ (AtOnce(f) => AnsweredAtOnce(f, Dialogue(b)))
  BY TurnsAssumption, AtOnceIs
<1>4. \A i \in 1..Len(b.messages) : b.messages[i] \in Sent(f)
  <2>1. DOMAIN b.messages = 1..Len(b.messages)
    BY <1>1, LenProperties
  <2>2. Range(b.messages) \subseteq Sent(f)
    BY DEF Sent
  <2> QED BY <2>1, <2>2 DEF Range
<1> QED BY <1>2, <1>3, <1>4 DEF ClientOf

LEMMA LongerClient ==
    ASSUME NEW f \in Formats, NEW b, ClientOf(f, b), NEW turn \in Turns[f]
    PROVE  ClientOf(f, Longer(b, turn))
<1> DEFINE s == b.messages
           x == s \o turn
           c == Longer(b, turn)
<1>1. b \in Bodies /\ s \in Seq(Messages) /\ Plain(b.slot) /\ PlainMessages(f, s) /\ turn \in Seq(Messages)
  <2>1. b \in Bodies /\ Plain(b.slot) /\ PlainMessages(f, s)
    BY DEF ClientOf, Good
  <2>2. s \in Seq(Messages)
    BY <2>1 DEF Bodies
  <2>3. turn \in Seq(Messages)
    BY BodiesAssumption
  <2> QED BY <2>1, <2>2, <2>3
<1>2. c = Placed(b, x)
  BY DEF Longer, Placed
<1>3. Answered(Spoken(s)) /\ (AtOnce(f) => AnsweredAtOnce(f, Spoken(s)))
  BY DEF ClientOf, Dialogue
<1>4. \A i \in 1..Len(s) : s[i] \in Sent(f)
  BY DEF ClientOf
<1> HIDE DEF s, c
<1>5. Chained(x, s, turn)
  BY <1>1, ChainedIs
<1>6. Spoken(x) = Spoken(s) \o Spoken(turn) /\ x \in Seq(Messages)
  BY <1>1, SpokenConcat
<1> HIDE DEF x
<1>7. c \in Bodies /\ c.messages = x /\ c.slot = b.slot
  BY <1>1, <1>2, <1>6, PlacedIs
<1>8. ASSUME NEW P, \A i \in 1..Len(s) : s[i] \in P, \A i \in 1..Len(turn) : turn[i] \in P,
             NEW i \in 1..Len(x)
      PROVE  x[i] \in P
  <2>1. CASE i <= Len(s)
    <3>1. i \in 1..Len(s)
      BY <1>5, <2>1 DEF Chained
    <3> QED BY <1>5, <1>8, <3>1 DEF Chained
  <2>2. CASE ~(i <= Len(s))
    <3>1. i - Len(s) \in 1..Len(turn) /\ i = Len(s) + (i - Len(s))
      BY <1>5, <2>2 DEF Chained
    <3>2. x[i] = turn[i - Len(s)]
      BY <1>5, <3>1 DEF Chained
    <3> QED BY <1>8, <3>1, <3>2
  <2> QED BY <2>1, <2>2
<1>9. PlainMessages(f, x)
  <2> DEFINE P == {m \in Messages : IsSystem(m) => f = "openai" /\ Plain(m.content)}
  <2>1. \A i \in 1..Len(s) : s[i] \in P
    <3>1. \A i \in 1..Len(s) : s[i] \in Messages /\ i \in DOMAIN s
      BY <1>1, ElementOfSeq, LenProperties
    <3> QED BY <1>1, <3>1 DEF PlainMessages
  <2>2. \A i \in 1..Len(turn) : turn[i] \in P
    <3>1. \A i \in 1..Len(turn) : turn[i] \in Messages /\ i \in DOMAIN turn
      BY <1>1, ElementOfSeq, LenProperties
    <3>2. PlainMessages(f, turn)
      BY PromptsAssumption
    <3> QED BY <3>1, <3>2 DEF PlainMessages
  <2> HIDE DEF P
  <2>3. \A i \in 1..Len(x) : x[i] \in P
    BY <1>8, <2>1, <2>2
  <2>4. DOMAIN x = 1..Len(x)
    BY <1>5 DEF Chained
  <2> QED BY <2>3, <2>4 DEF P, PlainMessages
<1>10. \A i \in 1..Len(x) : x[i] \in Sent(f)
  <2>1. \A i \in 1..Len(turn) : turn[i] \in Sent(f)
    <3>1. DOMAIN turn = 1..Len(turn)
      BY <1>5 DEF Chained
    <3>2. Range(turn) \subseteq Sent(f)
      BY DEF Sent
    <3> QED BY <3>1, <3>2 DEF Range
  <2> QED BY <1>4, <1>8, <2>1
<1>11. Answered(Spoken(x)) /\ (AtOnce(f) => AnsweredAtOnce(f, Spoken(x)))
  <2> DEFINE u == Spoken(s)
             v == Spoken(turn)
  <2>1. u \in Seq(Messages) /\ v \in Seq(Messages)
    BY <1>1, SpokenIs
  <2>2. Answered(v) /\ (AtOnce(f) => AnsweredAtOnce(f, v))
    BY TurnsAssumption, AtOnceIs
  <2>3. Answered(u) /\ (AtOnce(f) => AnsweredAtOnce(f, u)) /\ Spoken(x) = u \o v
    BY <1>3, <1>6
  <2> HIDE DEF u, v
  <2>4. Chained(u \o v, u, v)
    BY <2>1, ChainedIs
  <2>5. Answered(u \o v) /\ (AtOnce(f) => AnsweredAtOnce(f, u \o v))
    BY <2>2, <2>3, <2>4, AnsweredConcat
  <2> QED BY <2>3, <2>5
<1>12. Good(f, c)
  BY <1>1, <1>7, <1>9 DEF Good
<1>13. ClientOf(f, c)
  BY <1>7, <1>10, <1>11, <1>12 DEF ClientOf, Dialogue
<1> QED BY <1>13 DEF c

(* What was said is still said when the client goes on. *)
LEMMA StillSaid ==
    ASSUME NEW f \in Formats, NEW b, ClientOf(f, b), NEW turn \in Turns[f]
    PROVE  Sayings(f, Dialogue(b)) \subseteq Sayings(f, Dialogue(Longer(b, turn)))
<1> DEFINE s == b.messages
<1>1. s \in Seq(Messages) /\ turn \in Seq(Messages)
  <2>1. b \in Bodies
    BY DEF ClientOf, Good
  <2>2. s \in Seq(Messages)
    BY <2>1 DEF Bodies
  <2>3. turn \in Seq(Messages)
    BY BodiesAssumption
  <2> QED BY <2>2, <2>3
<1>2. Longer(b, turn).messages = s \o turn
  <2>1. b \in Bodies
    BY DEF ClientOf, Good
  <2> QED BY <2>1 DEF Bodies, Longer
<1> DEFINE u == Spoken(s)
           v == Spoken(turn)
<1>3. Dialogue(b) = u /\ Dialogue(Longer(b, turn)) = Spoken(s \o turn)
  BY <1>2 DEF Dialogue
<1> HIDE DEF s
<1>4. Spoken(s \o turn) = u \o v
  BY <1>1, SpokenConcat
<1>5. u \in Seq(Messages) /\ v \in Seq(Messages)
  BY <1>1, SpokenIs
<1> HIDE DEF u, v
<1>6. Chained(u \o v, u, v)
  BY <1>5, ChainedIs
<1> DEFINE x == u \o v
<1>7. Chained(x, u, v)
  BY <1>6
<1> HIDE DEF x
<1>8. ASSUME NEW i \in DOMAIN u PROVE i \in DOMAIN x /\ x[i] = u[i]
  BY <1>7 DEF Chained
<1>9. Sayings(f, u) \subseteq Sayings(f, x)
  <2> SUFFICES ASSUME NEW i \in DOMAIN u PROVE MessageText(f, u[i]) \in Sayings(f, x)
    BY DEF Sayings
  <2>1. i \in DOMAIN x /\ x[i] = u[i]
    BY <1>8
  <2> QED BY <2>1 DEF Sayings
<1> QED BY <1>3, <1>4, <1>9 DEF x

WindowOf(f, b) == WindowMessages(f, b, WindowSize)

(* Whichever body of a conversation the host presents, what the handler      *)
(* makes of it is what it would make of the client's, or the body as it is.  *)
Presented(f, c, b) ==
    /\ b \in Bodies
    /\ Sayings(f, Dialogue(b)) \subseteq Sayings(f, Dialogue(c))
    /\ Rewrites(f, c, WindowOf(f, b))
    /\ \A x \in Blocks : /\ Rewrites(f, c, InjectMemoryBlock(f, WindowOf(f, b), x))
                         /\ x # << >> => InjectMemoryBlock(f, WindowOf(f, b), x) = InjectMemoryBlock(f, WindowOf(f, c), x)

LEMMA RearSaid ==
    ASSUME NEW f, NEW d \in Seq(Messages)
    PROVE  Sayings(f, Rear(f, d)) \subseteq Sayings(f, d)
<1> DEFINE t == Rear(f, d)
<1>1. PICK s : From(f, d, s)
  BY RearIs
<1>2. t \in Seq(Messages) /\ Len(d) \in Nat /\ DOMAIN d = 1..Len(d) /\ Len(t) = Len(d) - s + 1 /\ s \in Nat \ {0}
      /\ \A i \in 1..Len(t) : t[i] = d[s - 1 + i]
  BY <1>1, LenProperties DEF From
<1> HIDE DEF t
<1>3. ASSUME NEW i \in DOMAIN t PROVE MessageText(f, t[i]) \in Sayings(f, d)
  <2>1. i \in 1..Len(t) /\ t[i] = d[s - 1 + i]
    BY <1>2, LenProperties
  <2>2. s - 1 + i \in 1..Len(d)
    BY <1>2, <2>1
  <2> QED BY <1>2, <2>1, <2>2 DEF Sayings
<1> QED BY <1>3 DEF t, Sayings

LEMMA BlankBlock == << >> \in Blocks
<1>1. << >> \in Seq(Words)
  OBVIOUS
<1> QED BY <1>1 DEF Blocks

LEMMA PresentedIs ==
    ASSUME NEW f, NEW c, ClientOf(f, c), NEW b, b = c \/ Rewrites(f, c, b)
    PROVE  Presented(f, c, b)
<1> DEFINE w == WindowOf(f, c)
<1>1. Good(f, c) /\ c \in Bodies
  BY DEF ClientOf, Good
<1>2. Window(f, c, w)
  BY <1>1, WindowGood DEF WindowOf
<1> HIDE DEF w
<1>3. /\ Good(f, w) /\ Fits(f, Spoken(w.messages)) /\ Spoken(c.messages) \in Seq(Messages)
      /\ Spoken(w.messages) = Rear(f, Spoken(c.messages))
  BY <1>2 DEF Window
<1>4. \A x \in Blocks : Rewrites(f, c, InjectMemoryBlock(f, w, x))
  BY DEF Rewrites, w, WindowOf
<1>5. InjectMemoryBlock(f, w, << >>) = w
  BY DEF InjectMemoryBlock
<1>6. Rewrites(f, c, w)
  BY <1>4, <1>5, BlankBlock
<1>7. CASE b = c
  <2>1. WindowOf(f, b) = w
    BY <1>7 DEF w
  <2> QED BY <1>1, <1>4, <1>6, <1>7, <2>1 DEF Presented, w
<1>8. CASE Rewrites(f, c, b)
  <2>1. PICK blk \in Blocks : b = InjectMemoryBlock(f, w, blk)
    BY <1>8 DEF Rewrites, w, WindowOf
  <2>2. PutShape(f, w, b)
    BY <1>3, <2>1, PutHasShape
  <2>3. /\ WindowMessages(f, b, WindowSize) = b
        /\ \A x \in Blocks : InjectMemoryBlock(f, b, x) = IF x = << >> THEN b ELSE InjectMemoryBlock(f, w, x)
    BY <1>3, <2>1, PutAgain
  <2>4. b \in Bodies /\ Spoken(b.messages) = Rear(f, Spoken(c.messages))
    BY <1>3, <2>2 DEF PutShape
  <2>5. Sayings(f, Dialogue(b)) \subseteq Sayings(f, Dialogue(c))
    BY <1>3, <2>4, RearSaid DEF Dialogue
  <2>6. WindowOf(f, b) = b
    BY <2>3 DEF WindowOf
  <2>7. ASSUME NEW x \in Blocks
        PROVE  /\ Rewrites(f, c, InjectMemoryBlock(f, b, x))
               /\ x # << >> => InjectMemoryBlock(f, b, x) = InjectMemoryBlock(f, w, x)
    BY <1>4, <1>8, <2>3
  <2> QED BY <1>8, <2>4, <2>5, <2>6, <2>7 DEF Presented, w
<1> QED BY <1>7, <1>8

(* The body that is returned. *)
Returned(f, c, o, ls) ==
    /\ Rewrites(f, c, o)
    /\ ls # << >> => o = InjectMemoryBlock(f, WindowOf(f, c), MemoryBlock(ls))

LEMMA OutIs ==
    ASSUME ConvInv, out # None
    PROVE  Returned(fmt, client, out, lines)
<1>1. Presented(fmt, client, body)
  BY PresentedIs DEF ConvInv
<1>2. out = InjectMemoryBlock(fmt, WindowOf(fmt, body), MemoryBlock(lines))
  BY DEF ConvInv, Windowed, WindowOf
<1>3. MemoryBlock(lines) \in Blocks /\ (lines # << >> => MemoryBlock(lines) # << >>)
  BY BlockOfLines DEF ConvInv
<1> QED BY <1>1, <1>2, <1>3 DEF Presented, Returned

LEMMA StoredHeard ==
    ASSUME ConvInv
    PROVE  Stored(body) \subseteq Heads(Sayings(fmt, Dialogue(client)))
<1>1. Presented(fmt, client, body)
  BY PresentedIs DEF ConvInv
<1>2. Texts(Extracted(body)) \cup ({Query(body)} \ {<< >>}) \subseteq Sayings(fmt, Dialogue(body))
  BY <1>1, StoredIsSaid DEF Presented, Dialogue
<1>3. memory \subseteq Heads(Sayings(fmt, Dialogue(client)))
  BY DEF ConvInv
<1>4. Sayings(fmt, Dialogue(body)) \subseteq Sayings(fmt, Dialogue(client))
  BY <1>1 DEF Presented
<1>5. Stored(body) = memory \cup Heads(Texts(Extracted(body)) \cup ({Query(body)} \ {<< >>}))
  BY DEF Stored, Heads
<1> QED BY <1>2, <1>3, <1>4, <1>5 DEF Heads

LEMMA SaidType ==
    ASSUME ConvInv
    PROVE  Heads(Sayings(fmt, Dialogue(client))) \subseteq Seq(Words)
<1>1. client.messages \in Seq(Messages)
  BY DEF ConvInv, ClientOf, Good, Bodies
<1> DEFINE d == Dialogue(client)
<1>2. d \in Seq(Messages)
  BY <1>1, SpokenIs DEF Dialogue
<1> HIDE DEF d
<1>3. \A i \in DOMAIN d : d[i] \in Messages
  BY <1>2, LenProperties, ElementOfSeq
<1>4. \A i \in DOMAIN d : MessageText(fmt, d[i]) \in Seq(Words)
  BY <1>3, MessageTextType
<1>5. Sayings(fmt, Dialogue(client)) \subseteq Seq(Words)
  BY <1>4 DEF Sayings, d
<1> QED BY <1>5, HeadsIn

LEMMA ConvInvHolds == Spec => []ConvInv
<1>1. Init => ConvInv
  <2> SUFFICES ASSUME Init PROVE ConvInv
    OBVIOUS
  <2>1. << >> \in Lines /\ << >> \in Seq(Seq(Words))
    BY DEF Lines
  <2>2. ClientOf(fmt, client)
    BY FirstClient DEF Init
  <2> QED BY <2>1, <2>2 DEF Init, ConvInv
<1>2. ConvInv /\ [Next]_vars => ConvInv'
  <2> SUFFICES ASSUME ConvInv, [Next]_vars PROVE ConvInv'
    OBVIOUS
  <2> USE DEF ConvInv
  <2>1. CASE HandleRequestBeforeAuth
    <3>1. fmt' = fmt /\ client' = client /\ body' = body /\ taken' = staged /\ staged' = << >> /\ memory' = Stored(body)
      BY <2>1 DEF HandleRequestBeforeAuth
    <3>2. PICK items \in (IF Query(body) = << >> THEN {<< >>} ELSE BoundedSeq(Stored(body), MaxRecall)) :
             recalled' = items /\ lines' = ToInject(body, items)
      BY <2>1 DEF HandleRequestBeforeAuth
    <3>3. out' = InjectMemoryBlock(fmt, Windowed(body), MemoryBlock(lines'))
      BY <2>1 DEF HandleRequestBeforeAuth
    <3>4. Stored(body) \subseteq Seq(Words)
      BY StoredHeard, SaidType
    <3>5. items \in Seq(Seq(Words))
      <4>1. CASE Query(body) = << >>
        <5>1. items = << >> /\ << >> \in Seq(Seq(Words))
          BY <3>2, <4>1
        <5> QED BY <5>1
      <4>2. CASE Query(body) # << >>
        <5>1. PICK m \in 0..MaxRecall : items \in [1..m -> Stored(body)]
          BY <3>2, <4>2 DEF BoundedSeq, SeqOf
        <5>2. m \in Nat /\ items \in [1..m -> Seq(Words)]
          BY <3>4, <5>1, SizesAssumption
        <5> QED BY <5>2, FunctionIsSeq
      <4> QED BY <4>1, <4>2
    <3>6. lines' = Chosen(staged, items, Query(body), ShownBy(Windowed(body)))
      BY <3>2 DEF ToInject, Chosen, Candidates, Found, ShownBy
    <3>7. lines' \in Lines
      BY <3>5, <3>6, ChosenIs
    <3>8. << >> \in Lines
      BY DEF Lines
    <3>9. memory' \subseteq Heads(Sayings(fmt, Dialogue(client)))
      BY <3>1, StoredHeard
    <3>10. Query(body)' = Query(body) /\ ShownBy(Windowed(body))' = ShownBy(Windowed(body)) /\ Windowed(body)' = Windowed(body)
      BY <3>1 DEF Query, Extracted, Windowed, ShownBy
    <3>11. lines' = Chosen(taken', recalled', Query(body)', ShownBy(Windowed(body))')
      BY <3>1, <3>2, <3>6, <3>10
    <3>12. out' = InjectMemoryBlock(fmt', Windowed(body)', MemoryBlock(lines'))
      BY <3>1, <3>3, <3>10
    <3> HIDE DEF ConvInv
    <3> QED BY <3>1, <3>2, <3>5, <3>7, <3>8, <3>9, <3>11, <3>12 DEF ConvInv
  <2>2. CASE GateStages
    <3>1. PICK t \in memory : staged' = Append(staged, FirstLine(t))
      BY <2>2 DEF GateStages
    <3>2. FirstLine(t) \in Seq(Untagged)
      BY SaidType, LineIs
    <3>3. staged' \in Lines
      BY <3>1, <3>2, AppendProperties DEF Lines
    <3>4. UNCHANGED <<fmt, client, body, out, memory, recalled, taken, lines>>
      BY <2>2 DEF GateStages
    <3>5. Query(body)' = Query(body) /\ ShownBy(Windowed(body))' = ShownBy(Windowed(body)) /\ Windowed(body)' = Windowed(body)
      BY <3>4 DEF Query, Extracted, Windowed, ShownBy
    <3> QED BY <3>3, <3>4, <3>5
  <2>3. CASE NextTurn
    <3>1. PICK turn \in Turns[fmt] : client' = Longer(client, turn)
      BY <2>3 DEF NextTurn, Longer
    <3>2. /\ fmt' = fmt /\ memory' = memory /\ staged' = staged /\ body' = client' /\ out' = None
          /\ recalled' = << >> /\ taken' = << >> /\ lines' = << >>
      BY <2>3 DEF NextTurn, NoRequest
    <3>3. ClientOf(fmt, client')
      BY <3>1, LongerClient
    <3>4. memory' \subseteq Heads(Sayings(fmt, Dialogue(client')))
      BY <3>1, <3>2, StillSaid DEF Heads
    <3>5. << >> \in Lines /\ << >> \in Seq(Seq(Words))
      BY DEF Lines
    <3> QED BY <3>2, <3>3, <3>4, <3>5
  <2>4. CASE Retry
    <3>1. /\ out # None /\ body' \in {client, out}
          /\ fmt' = fmt /\ memory' = memory /\ staged' = staged /\ client' = client /\ out' = None
          /\ recalled' = << >> /\ taken' = << >> /\ lines' = << >>
      BY <2>4 DEF Retry, NoRequest
    <3>2. Rewrites(fmt, client, out)
      <4> HIDE DEF ConvInv
      <4> QED BY <3>1, OutIs DEF Returned
    <3>3. << >> \in Lines /\ << >> \in Seq(Seq(Words))
      BY DEF Lines
    <3>4. body' = client' \/ Rewrites(fmt', client', body')
      BY <3>1, <3>2
    <3> QED BY <3>1, <3>3, <3>4
  <2>5. CASE UNCHANGED vars
    <3>1. UNCHANGED <<fmt, client, body, out, memory, staged, recalled, taken, lines>>
      BY <2>5 DEF vars
    <3>2. Query(body)' = Query(body) /\ ShownBy(Windowed(body))' = ShownBy(Windowed(body)) /\ Windowed(body)' = Windowed(body)
      BY <3>1 DEF Query, Extracted, Windowed, ShownBy
    <3> QED BY <3>1, <3>2
  <2> QED BY <2>1, <2>2, <2>3, <2>4, <2>5 DEF Next
<1> QED BY <1>1, <1>2, PTL DEF Spec

-----------------------------------------------------------------------------
(* The body that was returned: the window of the client's, with a block. *)
Made(f, c, w, blk, o) ==
    /\ Good(f, w) /\ w = WindowOf(f, c) /\ Window(f, c, w)
    /\ blk \in Blocks /\ o = InjectMemoryBlock(f, w, blk)
    /\ PutShape(f, w, o)
    /\ Spoken(o.messages) = Rear(f, Spoken(c.messages)) /\ Spoken(c.messages) \in Seq(Messages)

LEMMA MadeIs ==
    ASSUME NEW f, NEW c, ClientOf(f, c), NEW o, Rewrites(f, c, o)
    PROVE  \E w, blk : Made(f, c, w, blk, o)
<1> DEFINE w == WindowOf(f, c)
<1>1. Window(f, c, w)
  BY WindowGood DEF ClientOf, WindowOf
<1>2. PICK blk \in Blocks : o = InjectMemoryBlock(f, w, blk)
  BY DEF Rewrites, WindowOf
<1> HIDE DEF w
<1>3. Good(f, w)
  BY <1>1 DEF Window
<1>4. PutShape(f, w, o)
  BY <1>2, <1>3, PutHasShape
<1>5. Made(f, c, w, blk, o)
  BY <1>1, <1>2, <1>3, <1>4 DEF Made, Window, PutShape, w
<1> QED BY <1>5

(* No result is left without its call, as long as the results follow their   *)
(* calls at once or nothing is cut.                                          *)
LEMMA CallsAreKept ==
    ASSUME ConvInv, fmt = "gemini" \/ AtOnce(fmt), out # None
    PROVE  Answered(out.messages)
<1>1. ClientOf(fmt, client) /\ Rewrites(fmt, client, out)
  BY OutIs DEF ConvInv, Returned
<1>2. PICK w, blk : Made(fmt, client, w, blk, out)
  BY <1>1, MadeIs
<1>3. Answered(Rear(fmt, Dialogue(client)))
  <2>1. CASE fmt = "gemini"
    BY <1>1, <2>1 DEF Rear, ClientOf
  <2>2. CASE AtOnce(fmt)
    <3>1. fmt \in Formats \ {"gemini"}
      BY <2>2 DEF AtOnce, Formats
    <3>2. AnsweredAtOnce(fmt, Dialogue(client)) /\ Dialogue(client) \in Seq(Messages)
      BY <1>1, <1>2, <2>2 DEF ClientOf, Made, Dialogue
    <3> QED BY <3>1, <3>2, RearAnswered
  <2> QED BY <2>1, <2>2
<1>4. out.messages \in Seq(Messages) /\ Tame(out.messages)
  BY <1>2 DEF Made, PutShape, Bodies
<1>5. Answered(Spoken(out.messages))
  BY <1>2, <1>3 DEF Made, Dialogue
<1> QED BY <1>4, <1>5, SpokenAnswered

(* The window lets no tool result reach a provider that rejects it without   *)
(* the call it answers, for any window size and for any dialogue in which    *)
(* the results follow their calls at once (formats.go:964-973, 1003-1008).   *)
THEOREM NoResultIsOrphaned == Spec => []NoOrphanResult
<1>1. ConvInv => NoOrphanResult
  BY CallsAreKept DEF NoOrphanResult, AtOnce
<1> QED BY <1>1, ConvInvHolds, PTL

(* Nor does it let an output of the Responses format go without its call,    *)
(* if a client calls one tool at a time: the parallel calls with which it    *)
(* does are the only way (formats.go:1044-1051).                             *)
THEOREM OutputsKeepTheirCalls ==
    ASSUME OneCallAtATime
    PROVE  Spec => []NoOrphanOutput
<1>1. ConvInv => NoOrphanOutput
  BY CallsAreKept DEF NoOrphanOutput, AtOnce
<1> QED BY <1>1, ConvInvHolds, PTL

(* What is rendered lacks a word that only reasoning has. *)
LEMMA RenderedWithout ==
    ASSUME NEW p \in Parts, NEW w, p.kind # "reasoning" => w \notin Range(p.words), w \notin Marks
    PROVE  Rendered(p) \in Seq(Words \ {w})
<1> DEFINE S == Words \ {w}
           v == p.words
<1>1. v \in Seq(Words) /\ DOMAIN v = 1..Len(v) /\ Len(v) \in Nat
  <2>1. p.words \in Seq(Words)
    BY DEF Parts
  <2> QED BY <2>1, LenProperties
<1>2. Marks \subseteq S
  BY DEF Words
<1>3. ASSUME p.kind # "reasoning" PROVE v \in Seq(S)
  <2>1. \A i \in 1..Len(v) : v[i] \in S
    BY <1>1, <1>3, ElementOfSeq DEF Range
  <2> HIDE DEF v, S
  <2>2. v \in [1..Len(v) -> S]
    BY <1>1, <2>1
  <2> QED BY <1>1, <2>2, FunctionIsSeq
<1> HIDE DEF S
<1>4. Rendered(p) \in Seq(S)
  BY <1>2, <1>3, RenderedIn DEF v
<1> QED BY <1>4 DEF S

(* A text is in no other that lacks one of its words. *)
LEMMA NotWithin ==
    ASSUME NEW t \in Seq(Words), NEW w \in Range(t), NEW s \in Seq(Words \ {w})
    PROVE  ~Within(t, s)
<1> SUFFICES ASSUME NEW i \in 0..(Len(s) - Len(t)), SubSeq(s, i + 1, i + Len(t)) = t
             PROVE  FALSE
  BY DEF Within
<1>1. Len(s) \in Nat /\ Len(t) \in Nat /\ DOMAIN t = 1..Len(t)
  BY LenProperties
<1>2. PICK k \in 1..Len(t) : t[k] = w
  BY <1>1 DEF Range
<1>3. i + 1 \in Int /\ i + Len(t) \in Int /\ \A j \in (i + 1)..(i + Len(t)) : j \in 1..Len(s)
  BY <1>1
<1>4. \A j \in (i + 1)..(i + Len(t)) : s[j] \in Words \ {w}
  BY <1>3, ElementOfSeq
<1>5. \A j \in 1..((i + Len(t)) - (i + 1) + 1) : SubSeq(s, i + 1, i + Len(t))[j] = s[(i + 1) + j - 1]
  <2> DEFINE a == i + 1
             b == i + Len(t)
             S == Words \ {w}
  <2>1. a \in Int /\ b \in Int /\ \A j \in a..b : s[j] \in S
    BY <1>3, <1>4
  <2> HIDE DEF a, b, S
  <2>2. \A j \in 1..(b - a + 1) : SubSeq(s, a, b)[j] = s[a + j - 1]
    BY <2>1, SubSeqProperties
  <2> QED BY <2>2 DEF a, b
<1>6. k \in 1..((i + Len(t)) - (i + 1) + 1) /\ (i + 1) + k - 1 \in (i + 1)..(i + Len(t))
  BY <1>1
<1>7. t[k] = s[(i + 1) + k - 1]
  BY <1>5, <1>6
<1> QED BY <1>2, <1>4, <1>6, <1>7

(* What is spoken is a message. *)
LEMMA SpokenAmong ==
    ASSUME NEW msgs \in Seq(Messages), NEW i \in DOMAIN Spoken(msgs)
    PROVE  \E j \in 1..Len(msgs) : Spoken(msgs)[i] = msgs[j]
<1> DEFINE I == {k \in 1..Len(msgs) : ~IsSystem(msgs[k])}
<1>1. I \in SUBSET (1..Len(msgs)) /\ Spoken(msgs) = Subsequence(msgs, I)
  BY SpokenIs
<1> HIDE DEF I
<1>2. Picked(msgs, I)
  BY <1>1, SubsequenceIs
<1>3. i \in 1..Cardinality(I)
  BY <1>1, <1>2 DEF Picked
<1>4. Nth(I, i) \in 1..Len(msgs) /\ Spoken(msgs)[i] = msgs[Nth(I, i)]
  BY <1>1, <1>2, <1>3 DEF Picked
<1> QED BY <1>4

(* Only the conversation is remembered, whatever the host presents however   *)
(* often, and whatever the engine recalls: no prompt, no block of the plugin,*)
(* and nothing of hidden reasoning that is not said elsewhere.               *)
THEOREM OnlyTheConversationIsStored == Spec => []OnlyConversationStored
<1>1. ConvInv => OnlyConversationStored
  <2> SUFFICES ASSUME ConvInv PROVE OnlyConversationStored
    OBVIOUS
  <2>1. memory \subseteq Heads(Sayings(fmt, Dialogue(client))) /\ ClientOf(fmt, client) /\ fmt \in Formats
    BY DEF ConvInv
  <2> DEFINE msgs == client.messages
  <2>2. msgs \in Seq(Messages) /\ DOMAIN msgs = 1..Len(msgs)
    <3>1. msgs \in Seq(Messages)
      BY <2>1 DEF ClientOf, Good, Bodies
    <3> QED BY <3>1, LenProperties
  <2>3. \A i \in 1..Len(msgs) : msgs[i] \in Sent(fmt) /\ msgs[i] \in Messages
    BY <2>1, <2>2, ElementOfSeq DEF ClientOf
  <2>4. \A i \in 1..Len(msgs) : /\ msgs[i].content.parts \in Seq(Parts)
                                 /\ DOMAIN msgs[i].content.parts = 1..Len(msgs[i].content.parts)
    BY <2>3, MessageIs, LenProperties
  <2> HIDE DEF msgs
  <2>5. ASSUME NEW i \in 1..Len(msgs), NEW p \in DOMAIN msgs[i].content.parts
        PROVE  msgs[i].content.parts[p] \in SentParts(fmt) /\ msgs[i].content.parts[p] \in Parts
    <3>1. msgs[i].content.parts[p] \in Range(msgs[i].content.parts)
      BY DEF Range
    <3>2. msgs[i].content.parts[p] \in SentParts(fmt)
      BY <2>3, <3>1 DEF SentParts
    <3>3. p \in 1..Len(msgs[i].content.parts)
      BY <2>4
    <3> QED BY <2>4, <3>2, <3>3, ElementOfSeq
  <2>6. ASSUME NEW i \in 1..Len(msgs), NEW p \in DOMAIN msgs[i].content.parts,
               msgs[i].content.parts[p].kind = "reasoning"
        PROVE  ~Visible(msgs[i].content.parts[p].words, memory)
    <3> DEFINE r == msgs[i].content.parts[p]
    <3>1. r \in SentParts(fmt) /\ r \in Parts /\ r.kind = "reasoning"
      BY <2>5, <2>6
    <3> HIDE DEF r
    <3>2. PICK w \in Range(r.words) : w \notin Marks /\ \A q \in SentParts(fmt) : q.kind # "reasoning" => w \notin Range(q.words)
      BY <2>1, <3>1, ReasoningAssumption
    <3>3. ASSUME NEW j \in 1..Len(msgs) PROVE MessageText(fmt, msgs[j]) \in Seq(Words \ {w})
      <4> DEFINE m == msgs[j]
      <4>1. m \in Messages
        BY <2>3
      <4>2. \A q \in 1..Len(m.content.parts) : m.content.parts[q] \in SentParts(fmt) /\ m.content.parts[q] \in Parts
        BY <2>4, <2>5
      <4> HIDE DEF m
      <4>3. \A q \in 1..Len(m.content.parts) : Rendered(m.content.parts[q]) \in Seq(Words \ {w})
        BY <3>2, <4>2, RenderedWithout
      <4>4. MessageText(fmt, m) \in Seq(Words \ {w})
        BY <4>1, <4>3, MessageTextIn
      <4> QED BY <4>4 DEF m
    <3>4. ASSUME NEW t \in memory PROVE t \in Seq(Words \ {w})
      <4>1. PICK k \in DOMAIN Dialogue(client) : t = Ingested(MessageText(fmt, Dialogue(client)[k]))
        BY <2>1 DEF Heads, Sayings
      <4>2. PICK j \in 1..Len(msgs) : Dialogue(client)[k] = msgs[j]
        BY <2>2, <4>1, SpokenAmong DEF Dialogue, msgs
      <4>3. MessageText(fmt, Dialogue(client)[k]) \in Seq(Words \ {w})
        BY <3>3, <4>2
      <4> QED BY <4>1, <4>3, SizesAssumption, UpToIs DEF Ingested
    <3>5. r.words \in Seq(Words)
      BY <3>1 DEF Parts
    <3>6. ~Visible(r.words, memory)
      BY <3>2, <3>4, <3>5, NotWithin DEF Visible
    <3> QED BY <3>6 DEF r
  <2> QED BY <2>1, <2>2, <2>6 DEF OnlyConversationStored, Heads, Sayings, msgs
<1> QED BY <1>1, ConvInvHolds, PTL

-----------------------------------------------------------------------------
(* What the block adds to the system prompt, and where. *)
Adds(c, d, blk) == \A S, h : Additive(S, h) => Over(h, d) = Over(h, c) \o h[TextPart(blk)]

Exchanged(x, y, u, c, d, v, blk) ==
    /\ u \in Seq(Parts) /\ c \in Seq(Parts) /\ d \in Seq(Parts) /\ v \in Seq(Parts)
    /\ x = u \o (c \o v) /\ y = u \o (d \o v) /\ Adds(c, d, blk)

LEMMA InjectedAdds ==
    ASSUME NEW c \in Contents, Plain(c), NEW blk \in Seq(Words)
    PROVE  /\ Adds(c.parts, Injected(c, blk).parts, blk)
           /\ c.parts \in Seq(Parts) /\ Injected(c, blk).parts \in Seq(Parts)
<1>1. Adds(c.parts, Injected(c, blk).parts, blk)
  BY InjectedOver DEF Adds
<1>2. Injected(c, blk) \in Contents
  BY InjectedType
<1> QED BY <1>1, <1>2 DEF Contents

LEMMA ExchangedSlot ==
    ASSUME NEW f, NEW w, Good(f, w), NEW blk, IsBlock(blk), NEW o, PutSlot(f, w, blk, o)
    PROVE  \E u, c, d, v : Exchanged(SystemParts(w), SystemParts(o), u, c, d, v, blk)
<1> DEFINE s == w.slot
           d == Injected(s, blk)
           P == Over(Prompt, w.messages)
<1>1. w \in Bodies /\ s \in Contents /\ Plain(s) /\ blk \in Seq(Words)
  BY DEF Good, Bodies, IsBlock
<1>2. o = Slotted(w, d)
  BY DEF PutSlot
<1>3. P \in Seq(Parts) /\ SystemParts(w) = s.parts \o P
  BY <1>1, SystemPartsIs
<1> HIDE DEF s
<1>4. Adds(s.parts, d.parts, blk) /\ s.parts \in Seq(Parts) /\ d.parts \in Seq(Parts) /\ d \in Contents
  BY <1>1, InjectedAdds, InjectedType
<1> HIDE DEF d
<1>5. o \in Bodies /\ o.slot = d /\ o.messages = w.messages
  BY <1>1, <1>2, <1>4, SlottedIs
<1>6. SystemParts(o) = d.parts \o P
  BY <1>5, SystemPartsIs
<1> HIDE DEF P
<1> DEFINE e == << >>
<1>7. e \in Seq(Parts) /\ s.parts \o P = e \o (s.parts \o P) /\ d.parts \o P = e \o (d.parts \o P)
  <2>1. s.parts \o P \in Seq(Parts) /\ d.parts \o P \in Seq(Parts)
    BY <1>3, <1>4, ConcatProperties
  <2> QED BY <2>1, ConcatEmptySeq
<1> HIDE DEF e
<1>8. Exchanged(SystemParts(w), SystemParts(o), e, s.parts, d.parts, P, blk)
  BY <1>3, <1>4, <1>6, <1>7 DEF Exchanged
<1> QED BY <1>8

LEMMA ExchangedFront ==
    ASSUME NEW f, NEW w, Good(f, w), NEW blk, IsBlock(blk), NEW o, PutFront(f, w, blk, o)
    PROVE  \E u, c, d, v : Exchanged(SystemParts(w), SystemParts(o), u, c, d, v, blk)
<1> DEFINE msgs == w.messages
           m == Prefix(blk)
           t == <<m>> \o msgs
           s == w.slot.parts
           P == Over(Prompt, msgs)
           T == <<TextPart(blk)>>
<1>1. w \in Bodies /\ blk \in Seq(Words) /\ o = Placed(w, t)
  BY DEF Good, IsBlock, PutFront
<1>2. msgs \in Seq(Messages)
  BY <1>1 DEF Bodies
<1>3. P \in Seq(Parts) /\ s \in Seq(Parts) /\ SystemParts(w) = s \o P
  BY <1>1, SystemPartsIs
<1>4. m \in Messages /\ IsSystem(m) /\ m.content.parts = T
  <2>1. m \in Messages /\ IsSystem(m) /\ m.content = Content("string", T)
    BY <1>1, PrefixIs
  <2> HIDE DEF m, T
  <2> QED BY <2>1, ContentIs
<1> HIDE DEF msgs, m
<1>5. <<m>> \in Seq(Messages) /\ t \in Seq(Messages)
  BY <1>2, <1>4, UnitIsSeq, FrontIs
<1>6. Over(Prompt, <<m>>) = T
  <2>1. Over(Prompt, <<m>>) = Prompt[m]
    BY <1>4, PromptIs, OverUnit
  <2> QED BY <1>4, <2>1, PromptIs
<1>7. Over(Prompt, t) = T \o P
  <2> DEFINE u == <<m>>
  <2>1. u \in Seq(Messages)
    BY <1>5
  <2> HIDE DEF u
  <2>2. Joins(Messages, Parts, Prompt, u, msgs)
    BY <1>2, <2>1, PromptIs DEF Joins
  <2>3. Over(Prompt, u \o msgs) = Over(Prompt, u) \o Over(Prompt, msgs)
    BY <2>2, OverConcat
  <2> QED BY <1>6, <2>3 DEF u
<1> HIDE DEF t, P, s
<1>8. o \in Bodies /\ o.slot = w.slot /\ o.messages = t
  BY <1>1, <1>5, PlacedIs
<1>9. SystemParts(o) = s \o (T \o P)
  BY <1>7, <1>8, SystemPartsIs DEF s
<1> DEFINE e == << >>
<1>10. T \in Seq(Parts) /\ e \in Seq(Parts) /\ e \o P = P
  BY <1>1, <1>3, UnitOver, TextPartIs, UnitIsSeq, ConcatEmptySeq
<1>11. Adds(e, T, blk)
  <2> SUFFICES ASSUME NEW S, NEW h, Additive(S, h) PROVE Over(h, T) = Over(h, e) \o h[TextPart(blk)]
    BY DEF Adds
  <2>1. h \in [Parts -> Seq(S)]
    BY DEF Additive
  <2>2. Over(h, T) = h[TextPart(blk)] /\ TextPart(blk) \in Parts
    BY <1>1, <2>1, UnitOver, TextPartIs
  <2>3. Over(h, e) = << >>
    BY OverEmpty
  <2>4. h[TextPart(blk)] \in Seq(S)
    BY <2>1, <2>2
  <2> QED BY <2>2, <2>3, <2>4, ConcatEmptySeq
<1> HIDE DEF T, e
<1>12. Exchanged(SystemParts(w), SystemParts(o), s, e, T, P, blk)
  BY <1>3, <1>9, <1>10, <1>11 DEF Exchanged
<1> QED BY <1>12

LEMMA ExchangedInto ==
    ASSUME NEW f, NEW w, Good(f, w), NEW blk, IsBlock(blk), NEW o, NEW k, PutInto(f, w, blk, o, k)
    PROVE  \E u, c, d, v : Exchanged(SystemParts(w), SystemParts(o), u, c, d, v, blk)
<1> DEFINE msgs == w.messages
           c == msgs[k].content
           d == Injected(c, blk)
           t == Filling(msgs, k, d)
           s == w.slot.parts
<1>1. w \in Bodies /\ blk \in Seq(Words) /\ FirstSystem(msgs, k) /\ o = Placed(w, t)
  BY DEF Good, IsBlock, PutInto
<1>2. msgs \in Seq(Messages) /\ s \in Seq(Parts) /\ SystemParts(w) = s \o Over(Prompt, msgs)
  <2>1. msgs \in Seq(Messages)
    BY <1>1 DEF Bodies
  <2> QED BY <1>1, <2>1, SystemPartsIs
<1>3. k \in 1..Len(msgs) /\ IsSystem(msgs[k]) /\ msgs[k] \in Messages
  <2> HIDE DEF msgs
  <2> QED BY <1>1, <1>2, ElementOfSeq DEF FirstSystem, IsSystem
<1>4. c \in Contents /\ Plain(c)
  <2>1. DOMAIN msgs = 1..Len(msgs)
    BY <1>2, LenProperties
  <2>2. Plain(c)
    BY <1>3, <2>1 DEF Good, PlainMessages
  <2> HIDE DEF msgs
  <2> QED BY <1>3, <2>2, MessageIs
<1> HIDE DEF c
<1>5. Adds(c.parts, d.parts, blk) /\ c.parts \in Seq(Parts) /\ d.parts \in Seq(Parts) /\ d \in Contents
  BY <1>1, <1>4, InjectedAdds, InjectedType
<1> HIDE DEF msgs, d
<1>6. t \in Seq(Messages)
  BY <1>2, <1>3, <1>5, FillingIs DEF Fills
<1>7. PICK a, b : OverAt(Messages, Parts, Prompt, msgs, k, a, b)
  BY <1>2, <1>3, PromptIs, OverAround
<1> DEFINE x == Refilled(msgs[k], d)
<1>8. x \in Messages /\ IsSystem(x) /\ x.content = d /\ t = [msgs EXCEPT ![k] = x]
  <2>1. x \in Messages /\ x.role = msgs[k].role /\ x.content = d
    BY <1>3, <1>5, RefilledIs
  <2>2. IsSystem(x)
    BY <1>3, <2>1 DEF IsSystem
  <2>3. t = [msgs EXCEPT ![k] = x]
    BY DEF Filling, Refilled
  <2> QED BY <2>1, <2>2, <2>3
<1> HIDE DEF x, t
<1>9. Over(Prompt, t) = a \o (d.parts \o b) /\ Over(Prompt, msgs) = a \o (c.parts \o b)
  <2>1. Prompt[x] = d.parts
    BY <1>8, PromptIs
  <2>2. Prompt[msgs[k]] = c.parts
    BY <1>3, PromptIs DEF c
  <2>3. \A y \in Messages : Over(Prompt, [msgs EXCEPT ![k] = y]) = a \o (Prompt[y] \o b)
    BY <1>7 DEF OverAt
  <2>4. Over(Prompt, t) = a \o (Prompt[x] \o b)
    BY <1>8, <2>3
  <2>5. Over(Prompt, msgs) = a \o (Prompt[msgs[k]] \o b)
    BY <1>7 DEF OverAt
  <2> QED BY <2>1, <2>2, <2>4, <2>5
<1>10. o \in Bodies /\ o.slot = w.slot /\ o.messages = t
  BY <1>1, <1>6, PlacedIs
<1> HIDE DEF s
<1>11. SystemParts(o) = s \o (a \o (d.parts \o b))
  BY <1>9, <1>10, SystemPartsIs DEF s
<1>12. a \in Seq(Parts) /\ b \in Seq(Parts)
  BY <1>7 DEF OverAt
<1>13. /\ s \o a \in Seq(Parts)
       /\ s \o (a \o (d.parts \o b)) = (s \o a) \o (d.parts \o b)
       /\ s \o (a \o (c.parts \o b)) = (s \o a) \o (c.parts \o b)
  <2> DEFINE y == d.parts \o b
             z == c.parts \o b
  <2>1. y \in Seq(Parts) /\ z \in Seq(Parts) /\ s \o a \in Seq(Parts)
    BY <1>2, <1>5, <1>12, ConcatProperties
  <2> HIDE DEF y, z
  <2>2. s \in Seq(Parts) /\ a \in Seq(Parts)
    BY <1>2, <1>12
  <2>3. Associates(s, a, y) /\ Associates(s, a, z)
    BY <2>1, <2>2, Associative
  <2> QED BY <2>1, <2>3 DEF Associates, y, z
<1>14. Exchanged(SystemParts(w), SystemParts(o), s \o a, c.parts, d.parts, b, blk)
  BY <1>2, <1>5, <1>9, <1>11, <1>12, <1>13 DEF Exchanged
<1> QED BY <1>14

-----------------------------------------------------------------------------
(* The text of the system prompt with the block in it. *)
Between(S, x, y, t, a, b) == a \in Seq(S) /\ b \in Seq(S) /\ x = a \o b /\ y = a \o (t \o b)

LEMMA BetweenIs ==
    ASSUME NEW S, NEW h, Additive(S, h), NEW blk \in Seq(Words),
           NEW x, NEW y, NEW u, NEW c, NEW d, NEW v, Exchanged(x, y, u, c, d, v, blk)
    PROVE  \E a, b : Between(S, Over(h, x), Over(h, y), h[TextPart(blk)], a, b)
<1> DEFINE U == Over(h, u)
           C == Over(h, c)
           D == Over(h, d)
           V == Over(h, v)
           T == h[TextPart(blk)]
<1>1. h \in [Parts -> Seq(S)] /\ TextPart(blk) \in Parts
  BY TextPartIs DEF Additive
<1>2. T \in Seq(S)
  BY <1>1
<1>3. u \in Seq(Parts) /\ c \in Seq(Parts) /\ d \in Seq(Parts) /\ v \in Seq(Parts)
  BY DEF Exchanged
<1>4. U \in Seq(S) /\ C \in Seq(S) /\ D \in Seq(S) /\ V \in Seq(S)
  BY <1>1, <1>3, OverType
<1>5. D = C \o T
  BY DEF Exchanged, Adds
<1>6. \A p, q : p \in Seq(Parts) /\ q \in Seq(Parts) =>
          Over(h, p \o q) = Over(h, p) \o Over(h, q) /\ p \o q \in Seq(Parts)
  <2> SUFFICES ASSUME NEW p \in Seq(Parts), NEW q \in Seq(Parts)
               PROVE  Over(h, p \o q) = Over(h, p) \o Over(h, q) /\ p \o q \in Seq(Parts)
    OBVIOUS
  <2>1. Joins(Parts, S, h, p, q)
    BY <1>1 DEF Joins
  <2> QED BY <2>1, OverConcat, ConcatProperties
<1>7. ASSUME NEW e, e \in Seq(Parts)
      PROVE  Over(h, u \o (e \o v)) = U \o (Over(h, e) \o V)
  <2> DEFINE z == e \o v
  <2>1. z \in Seq(Parts) /\ Over(h, z) = Over(h, e) \o V
    BY <1>3, <1>6, <1>7
  <2> HIDE DEF z
  <2>2. Over(h, u \o z) = U \o Over(h, z)
    BY <1>3, <1>6, <2>1
  <2> QED BY <2>1, <2>2 DEF z
<1>8. Over(h, x) = U \o (C \o V) /\ Over(h, y) = U \o (D \o V)
  <2>1. x = u \o (c \o v) /\ y = u \o (d \o v)
    BY DEF Exchanged
  <2> QED BY <1>3, <1>7, <2>1
<1> HIDE DEF U, C, D, V, T
<1>9. PICK U1 \in Seq(S), C1 \in Seq(S), T1 \in Seq(S), V1 \in Seq(S) : U1 = U /\ C1 = C /\ T1 = T /\ V1 = V
  BY <1>2, <1>4
<1>10. U1 \o C1 \in Seq(S) /\ T1 \o V1 \in Seq(S)
  BY ConcatProperties
<1>11. U1 \o (C1 \o V1) = (U1 \o C1) \o V1 /\ (C1 \o T1) \o V1 = C1 \o (T1 \o V1)
  <2>1. Associates(U1, C1, V1) /\ Associates(C1, T1, V1)
    BY Associative
  <2> QED BY <2>1 DEF Associates
<1>12. PICK z \in Seq(S) : z = T1 \o V1
  BY <1>10
<1>13. (U1 \o C1) \o z = U1 \o (C1 \o z)
  <2>1. Associates(U1, C1, z)
    BY Associative
  <2> QED BY <2>1 DEF Associates
<1>14. Between(S, Over(h, x), Over(h, y), T, U1 \o C1, V1)
  <2>1. Over(h, x) = (U1 \o C1) \o V1
    BY <1>8, <1>9, <1>11
  <2>2. Over(h, y) = (U1 \o C1) \o (T \o V1)
    BY <1>5, <1>8, <1>9, <1>11, <1>12, <1>13
  <2> QED BY <1>10, <2>1, <2>2 DEF Between
<1> QED BY <1>14 DEF T

LEMMA MadeBetween ==
    ASSUME NEW f, NEW c, NEW w, NEW blk, NEW o, Made(f, c, w, blk, o), blk # << >>, NEW S, NEW h, Additive(S, h)
    PROVE  \E a, b : Between(S, Over(h, SystemParts(c)), Over(h, SystemParts(o)), h[TextPart(blk)], a, b)
<1>1. Good(f, w) /\ w \in Bodies /\ IsBlock(blk) /\ blk \in Blocks /\ blk \in Seq(Words) /\ SystemParts(w) = SystemParts(c)
  BY DEF Made, Good, Window, Blocks
<1>2. Put(f, w, blk, o)
  BY <1>1, PutIs DEF Made
<1>3. \E u, d, e, v : Exchanged(SystemParts(w), SystemParts(o), u, d, e, v, blk)
  <2>1. CASE PutSlot(f, w, blk, o)
    BY <1>1, <2>1, ExchangedSlot
  <2>2. CASE PutFront(f, w, blk, o)
    BY <1>1, <2>2, ExchangedFront
  <2>3. CASE \E k : PutInto(f, w, blk, o, k)
    BY <1>1, <2>3, ExchangedInto
  <2> QED BY <1>2, <2>1, <2>2, <2>3 DEF Put
<1>4. PICK u, d, e, v : Exchanged(SystemParts(w), SystemParts(o), u, d, e, v, blk)
  BY <1>3
<1>5. \E a, b : Between(S, Over(h, SystemParts(w)), Over(h, SystemParts(o)), h[TextPart(blk)], a, b)
  BY <1>1, <1>4, BetweenIs
<1> QED BY <1>1, <1>5

LEMMA RendersAdditive == Additive(Words, Renders)
<1>1. ASSUME NEW w \in Seq(Words), NEW v \in Seq(Words)
      PROVE  Renders[TextPart(w \o v)] = Renders[TextPart(w)] \o Renders[TextPart(v)]
  <2>1. w \o v \in Seq(Words)
    BY ConcatProperties
  <2> QED BY <2>1, TextPartIs
<1> QED BY <1>1, RendersIs, BlankIs DEF Additive

Images == [p \in Parts |-> IF p.kind = "image" THEN <<p>> ELSE << >>]

LEMMA ImagesIs ==
    /\ Additive(Parts, Images)
    /\ \A w \in Seq(Words) : Images[TextPart(w)] = << >>
    /\ \A s \in Seq(Parts) : Kept(s, LAMBDA p : p.kind = "image") = Over(Images, s)
<1>1. Images \in [Parts -> Seq(Parts)] /\ \A p \in Parts : Images[p] = IF p.kind = "image" THEN <<p>> ELSE << >>
  <2>1. \A p \in Parts : (IF p.kind = "image" THEN <<p>> ELSE << >>) \in Seq(Parts)
    BY UnitIsSeq
  <2> QED BY <2>1 DEF Images
<1>2. \A w \in Seq(Words) : Images[TextPart(w)] = << >>
  BY <1>1, TextPartIs
<1>3. Additive(Parts, Images)
  <2>1. ASSUME NEW w \in Seq(Words), NEW v \in Seq(Words)
        PROVE  Images[TextPart(w \o v)] = Images[TextPart(w)] \o Images[TextPart(v)]
    <3>1. w \o v \in Seq(Words)
      BY ConcatProperties
    <3> DEFINE x == w \o v
    <3>2. x \in Seq(Words)
      BY <3>1
    <3> HIDE DEF x
    <3>3. Images[TextPart(x)] = << >> /\ Images[TextPart(w)] = << >> /\ Images[TextPart(v)] = << >>
      BY <1>2, <3>2
    <3>4. << >> \o << >> = << >>
      OBVIOUS
    <3> QED BY <3>3, <3>4 DEF x
  <2>2. Images[Blank] = << >>
    <3>1. << >> \in Seq(Words)
      OBVIOUS
    <3> QED BY <1>2, <3>1 DEF Blank
  <2> QED BY <1>1, <2>1, <2>2 DEF Additive
<1>4. ASSUME NEW s \in Seq(Parts) PROVE Kept(s, LAMBDA p : p.kind = "image") = Over(Images, s)
  <2> DEFINE I == {i \in DOMAIN s : s[i].kind = "image"}
  <2>1. DOMAIN s = 1..Len(s) /\ \A i \in 1..Len(s) : s[i] \in Parts
    BY LenProperties, ElementOfSeq
  <2>2. I \in SUBSET (1..Len(s)) /\ \A i \in 1..Len(s) : Images[s[i]] = IF i \in I THEN <<s[i]>> ELSE << >>
    BY <1>1, <2>1
  <2>3. Kept(s, LAMBDA p : p.kind = "image") = Subsequence(s, I)
    BY DEF Kept
  <2> HIDE DEF I
  <2>4. Subsequence(s, I) = Over(Images, s)
    BY <1>1, <2>2, SubsequenceOver
  <2> QED BY <2>3, <2>4
<1> QED BY <1>2, <1>3, <1>4

-----------------------------------------------------------------------------
(* No header is in a prompt that a client writes. *)
LEMMA OverIn ==
    ASSUME NEW R, NEW S, NEW T, NEW h \in [R -> Seq(S)], NEW s \in Seq(R), \A i \in 1..Len(s) : h[s[i]] \in Seq(T)
    PROVE  Over(h, s) \in Seq(T)
<1> DEFINE g == [i \in 1..Len(s) |-> h[s[i]]]
<1>1. Len(s) \in Nat
  BY LenProperties
<1>2. g \in [1..Len(s) -> Seq(T)]
  OBVIOUS
<1>3. Over(h, s) = FlattenSeq(g)
  BY DEF Over
<1> HIDE DEF g
<1>4. g \in Seq(Seq(T))
  BY <1>1, <1>2, FunctionIsSeq
<1> QED BY <1>3, <1>4, FlattenType

LEMMA NoOpenIs ==
    ASSUME NEW w
    PROVE  NoOpen(w) <=> w \in Seq(Words \ {Open})
<1>1. ASSUME NoOpen(w) PROVE w \in Seq(Words \ {Open})
  <2>1. w \in Seq(Words) /\ Len(w) \in Nat /\ \A i \in 1..Len(w) : w[i] \in Words /\ w[i] # Open
    BY <1>1, LenProperties, ElementOfSeq DEF NoOpen
  <2>2. w \in [1..Len(w) -> Words \ {Open}]
    BY <2>1
  <2> QED BY <2>1, <2>2, FunctionIsSeq
<1>2. ASSUME w \in Seq(Words \ {Open}) PROVE NoOpen(w)
  <2>1. Len(w) \in Nat /\ \A i \in 1..Len(w) : w[i] \in Words \ {Open}
    BY <1>2, LenProperties, ElementOfSeq
  <2>2. w \in [1..Len(w) -> Words]
    BY <1>2, <2>1
  <2>3. w \in Seq(Words)
    BY <2>1, <2>2, FunctionIsSeq
  <2> QED BY <2>1, <2>3 DEF NoOpen
<1> QED BY <1>1, <1>2

LEMMA PromptHasNoHeader ==
    ASSUME NEW f, NEW b, Good(f, b)
    PROVE  NoOpen(SystemText(b)) /\ SystemText(b) = Over(Renders, SystemParts(b)) /\ SystemParts(b) \in Seq(Parts)
<1> DEFINE P == {p \in Parts : PlainPart(p)}
           msgs == b.messages
           s == SystemParts(b)
<1>1. b \in Bodies /\ Plain(b.slot) /\ PlainMessages(f, msgs)
  BY DEF Good
<1>2. msgs \in Seq(Messages) /\ b.slot \in Contents
  BY <1>1 DEF Bodies
<1>3. s = b.slot.parts \o Over(Prompt, msgs) /\ s \in Seq(Parts)
  BY <1>1, SystemPartsIs
<1>4. ASSUME NEW c \in Contents, Plain(c) PROVE c.parts \in Seq(P)
  <2>1. PlainParts(c.parts)
    BY <1>4, PlainContent
  <2> DEFINE q == c.parts
  <2>2. q \in Seq(Parts) /\ Len(q) \in Nat /\ \A i \in 1..Len(q) : q[i] \in P
    BY <2>1, LenProperties, ElementOfSeq DEF PlainParts
  <2> HIDE DEF q, P
  <2>3. q \in [1..Len(q) -> P]
    BY <2>2
  <2> QED BY <2>2, <2>3, FunctionIsSeq DEF q
<1> HIDE DEF P
<1>5. Over(Prompt, msgs) \in Seq(P)
  <2>1. DOMAIN msgs = 1..Len(msgs) /\ \A i \in 1..Len(msgs) : msgs[i] \in Messages
    BY <1>2, LenProperties, ElementOfSeq
  <2>2. ASSUME NEW i \in 1..Len(msgs) PROVE Prompt[msgs[i]] \in Seq(P)
    <3>1. CASE IsSystem(msgs[i])
      <4>1. Plain(msgs[i].content) /\ msgs[i].content \in Contents /\ Prompt[msgs[i]] = msgs[i].content.parts
        BY <1>1, <2>1, <3>1, MessageIs, PromptIs DEF PlainMessages
      <4> QED BY <1>4, <4>1
    <3>2. CASE ~IsSystem(msgs[i])
      <4>1. Prompt[msgs[i]] = << >>
        BY <2>1, <3>2, PromptIs
      <4> QED BY <4>1
    <3> QED BY <3>1, <3>2
  <2> HIDE DEF msgs
  <2> QED BY <1>2, <2>2, PromptIs, OverIn
<1>6. b.slot.parts \in Seq(P)
  BY <1>1, <1>2, <1>4
<1>7. s \in Seq(P)
  <2> DEFINE x == b.slot.parts
             y == Over(Prompt, msgs)
  <2>1. x \in Seq(P) /\ y \in Seq(P)
    BY <1>5, <1>6
  <2> HIDE DEF x, y
  <2>2. x \o y \in Seq(P)
    BY <2>1, ConcatProperties
  <2> QED BY <1>3, <2>2 DEF x, y
<1> HIDE DEF s, msgs
<1>8. \A i \in 1..Len(s) : s[i] \in P
  BY <1>7, ElementOfSeq
<1>9. \A i \in 1..Len(s) : NoOpen(Renders[s[i]])
  <2> SUFFICES ASSUME NEW i \in 1..Len(s) PROVE NoOpen(Renders[s[i]])
    OBVIOUS
  <2>1. s[i] \in Parts /\ PlainPart(s[i])
    BY <1>8 DEF P
  <2> QED BY <2>1, PlainPartIs
<1>10. Over(Renders, s) \in Seq(Words \ {Open})
  <2>1. \A i \in 1..Len(s) : Renders[s[i]] \in Seq(Words \ {Open})
    BY <1>9, NoOpenIs
  <2> QED BY <1>3, <2>1, RendersIs, OverIn DEF s
<1>11. SystemText(b) = Over(Renders, s)
  BY <1>3, TextIs DEF SystemText, s
<1> QED BY <1>3, <1>10, <1>11, NoOpenIs DEF s

-----------------------------------------------------------------------------
(* The text of the prompt that is returned, beside the client's. *)
Enclosed(x, y, blk, a, b) ==
    /\ NoOpen(a) /\ NoOpen(b) /\ x = a \o b
    /\ y = IF blk = << >> THEN x ELSE a \o (blk \o b)

LEMMA SplitNoOpen ==
    ASSUME NEW a \in Seq(Words), NEW b \in Seq(Words), NoOpen(a \o b)
    PROVE  NoOpen(a) /\ NoOpen(b)
<1> DEFINE z == a \o b
<1>1. /\ Len(a) \in Nat /\ Len(b) \in Nat /\ Len(z) = Len(a) + Len(b)
      /\ \A i \in 1..(Len(a) + Len(b)) : z[i] = IF i <= Len(a) THEN a[i] ELSE b[i - Len(a)]
  BY ConcatProperties, LenProperties
<1>2. \A i \in 1..(Len(a) + Len(b)) : z[i] # Open
  BY <1>1 DEF NoOpen
<1> HIDE DEF z
<1>3. ASSUME NEW i \in 1..Len(a) PROVE a[i] # Open
  <2>1. i \in 1..(Len(a) + Len(b)) /\ i <= Len(a)
    BY <1>1
  <2> QED BY <1>1, <1>2, <2>1
<1>4. ASSUME NEW i \in 1..Len(b) PROVE b[i] # Open
  <2> DEFINE k == Len(a) + i
  <2>1. k \in 1..(Len(a) + Len(b)) /\ ~(k <= Len(a)) /\ k - Len(a) = i
    BY <1>1
  <2> HIDE DEF k
  <2> QED BY <1>1, <1>2, <2>1
<1> QED BY <1>3, <1>4 DEF NoOpen

LEMMA EnclosedIs ==
    ASSUME NEW f, NEW c, Good(f, c), NEW w, NEW blk, NEW o, Made(f, c, w, blk, o)
    PROVE  \E a, b : Enclosed(SystemText(c), SystemText(o), blk, a, b)
<1>1. NoOpen(SystemText(c)) /\ SystemText(c) = Over(Renders, SystemParts(c))
  BY PromptHasNoHeader
<1>2. SystemParts(w) = SystemParts(c) /\ o \in Bodies /\ blk \in Seq(Words)
  BY DEF Made, Window, PutShape, Blocks
<1>3. SystemText(o) = Over(Renders, SystemParts(o))
  <2>1. SystemParts(o) \in Seq(Parts)
    BY <1>2, SystemPartsIs
  <2> QED BY <2>1, TextIs DEF SystemText
<1>4. CASE blk = << >>
  <2>1. o = w
    BY <1>4 DEF Made, InjectMemoryBlock
  <2> DEFINE x == SystemText(c)
  <2>2. SystemText(o) = x
    BY <1>2, <2>1 DEF SystemText
  <2>3. x \in Seq(Words) /\ NoOpen(x)
    BY <1>1 DEF NoOpen
  <2> HIDE DEF x
  <2>4. x = x \o << >> /\ NoOpen(<< >>)
    BY <2>3 DEF NoOpen
  <2>5. Enclosed(x, SystemText(o), blk, x, << >>)
    BY <1>4, <2>2, <2>3, <2>4 DEF Enclosed
  <2> QED BY <2>5 DEF x
<1>5. CASE blk # << >>
  <2>1. \E a, b : Between(Words, Over(Renders, SystemParts(c)), Over(Renders, SystemParts(o)), Renders[TextPart(blk)], a, b)
    BY <1>5, MadeBetween, RendersAdditive
  <2>2. Renders[TextPart(blk)] = blk
    BY <1>2, TextPartIs
  <2>3. PICK a, b : Between(Words, SystemText(c), SystemText(o), blk, a, b)
    BY <1>1, <1>3, <2>1, <2>2
  <2>4. a \in Seq(Words) /\ b \in Seq(Words) /\ SystemText(c) = a \o b /\ SystemText(o) = a \o (blk \o b)
    BY <2>3 DEF Between
  <2>5. NoOpen(a) /\ NoOpen(b)
    BY <1>1, <2>4, SplitNoOpen
  <2>6. Enclosed(SystemText(c), SystemText(o), blk, a, b)
    BY <1>5, <2>4, <2>5 DEF Enclosed
  <2> QED BY <2>6
<1> QED BY <1>4, <1>5

LEMMA WithinMiddle ==
    ASSUME NEW w, NEW u, NEW b, NEW v, Joined(w, u, b, v)
    PROVE  Within(b, w)
<1>1. /\ Len(u) \in Nat /\ Len(b) \in Nat /\ Len(v) \in Nat /\ b \in Seq(Words) /\ w \in Seq(Words)
      /\ Len(w) = Len(u) + Len(b) + Len(v)
  BY LenProperties DEF Joined
<1> DEFINE i == Len(u)
           s == SubSeq(w, i + 1, i + Len(b))
<1>2. i \in 0..(Len(w) - Len(b))
  BY <1>1
<1>3. i + 1 \in Int /\ i + Len(b) \in Int /\ \A j \in (i + 1)..(i + Len(b)) : j \in 1..Len(w)
  BY <1>1
<1>4. \A j \in (i + 1)..(i + Len(b)) : w[j] \in Words
  BY <1>1, <1>3, ElementOfSeq
<1>5. /\ s \in Seq(Words)
      /\ Len(s) = IF i + 1 <= i + Len(b) THEN (i + Len(b)) - (i + 1) + 1 ELSE 0
      /\ \A j \in 1..((i + Len(b)) - (i + 1) + 1) : s[j] = w[(i + 1) + j - 1]
  BY <1>3, <1>4, SubSeqProperties
<1> HIDE DEF s
<1>6. Len(s) = Len(b)
  BY <1>1, <1>5
<1>7. ASSUME NEW j \in 1..Len(b) PROVE s[j] = b[j]
  <2>1. j \in 1..((i + Len(b)) - (i + 1) + 1) /\ (i + 1) + j - 1 = Len(u) + j
    BY <1>1
  <2>2. s[j] = w[Len(u) + j]
    BY <1>5, <2>1
  <2> QED BY <2>2 DEF Joined
<1>8. s = b
  BY <1>1, <1>5, <1>6, <1>7, SeqEqual
<1> QED BY <1>2, <1>8 DEF Within, s

LEMMA OpenedOnce ==
    ASSUME NEW w, NEW u, NEW b, NEW v, Joined(w, u, b, v), NoOpen(u), NoOpen(v), IsBlock(b)
    PROVE  Len(Block(w)) <= 1
<1>1. /\ Len(u) \in Nat /\ Len(b) \in Nat /\ Len(v) \in Nat /\ b \in Seq(Words) /\ w \in Seq(Words)
      /\ Len(w) = Len(u) + Len(b) + Len(v)
  BY LenProperties DEF Joined
<1>2. ASSUME NEW i \in 1..Len(w), w[i] = Open PROVE i = Len(u) + 1
  <2>1. CASE i \in 1..Len(u)
    BY <1>2, <2>1 DEF Joined, NoOpen
  <2>2. CASE i - Len(u) \in 1..Len(b)
    <3> DEFINE j == i - Len(u)
    <3>1. j \in 1..Len(b) /\ i = Len(u) + j
      BY <1>1, <2>2
    <3> HIDE DEF j
    <3>2. b[j] = Open
      BY <1>2, <3>1 DEF Joined
    <3>3. j = 1 \/ j \in 2..(Len(b) - 1) \/ j = Len(b)
      BY <1>1, <3>1
    <3>4. j = 1
      BY <3>2, <3>3, TagsDiffer DEF IsBlock
    <3> QED BY <3>1, <3>4
  <2>3. CASE i - (Len(u) + Len(b)) \in 1..Len(v)
    <3> DEFINE j == i - (Len(u) + Len(b))
    <3>1. j \in 1..Len(v) /\ i = Len(u) + Len(b) + j
      BY <1>1, <2>3
    <3> HIDE DEF j
    <3> QED BY <1>2, <3>1 DEF Joined, NoOpen
  <2> QED BY <1>1, <2>1, <2>2, <2>3
<1>3. Len(u) + 1 \in Nat
  BY <1>1
<1> QED BY <1>1, <1>2, <1>3, OneOpening

LEMMA NeverOpened ==
    ASSUME NEW w, NoOpen(w)
    PROVE  Len(Block(w)) <= 1
<1>1. w \in Seq(Words) /\ \A i \in 1..Len(w) : w[i] = Open => i = 0
  BY DEF NoOpen
<1> QED BY <1>1, OneOpening

(* The body that was returned is made with the block of its lines. *)
LEMMA MadeWith ==
    ASSUME ConvInv, out # None
    PROVE  \E w, blk : Made(fmt, client, w, blk, out) /\ (lines # << >> => blk = MemoryBlock(lines))
<1>1. ClientOf(fmt, client) /\ Returned(fmt, client, out, lines)
  BY OutIs DEF ConvInv
<1>2. Good(fmt, client)
  BY <1>1 DEF ClientOf
<1>3. CASE lines = << >>
  <2>1. \E w, blk : Made(fmt, client, w, blk, out)
    BY <1>1, MadeIs DEF Returned
  <2> QED BY <1>3, <2>1
<1>4. CASE lines # << >>
  <2> DEFINE w == WindowOf(fmt, client)
             blk == MemoryBlock(lines)
  <2>1. out = InjectMemoryBlock(fmt, w, blk) /\ blk \in Blocks
    BY <1>1, <1>4, BlockOfLines DEF Returned, ConvInv
  <2>2. Window(fmt, client, w)
    BY <1>2, WindowGood DEF WindowOf
  <2>3. w = WindowOf(fmt, client) /\ blk = MemoryBlock(lines)
    OBVIOUS
  <2> HIDE DEF w, blk
  <2>4. Good(fmt, w)
    BY <2>2 DEF Window
  <2>5. PutShape(fmt, w, out)
    BY <2>1, <2>4, PutHasShape
  <2>6. Made(fmt, client, w, blk, out)
    BY <2>1, <2>2, <2>3, <2>4, <2>5 DEF Made, Window, PutShape
  <2> QED BY <2>3, <2>6
<1> QED BY <1>3, <1>4

(* The model gets one block, that of the lines of this request, whatever the *)
(* body that the host presented had in it.                                   *)
THEOREM TheModelGetsOneBlock == Spec => []OneBlock
<1>1. ConvInv => OneBlock
  <2> SUFFICES ASSUME ConvInv, out # None
               PROVE  /\ Len(Block(SystemText(out))) <= 1
                      /\ lines # << >> => Within(MemoryBlock(lines), SystemText(out))
    BY DEF OneBlock
  <2>1. PICK w, blk : Made(fmt, client, w, blk, out) /\ (lines # << >> => blk = MemoryBlock(lines))
    BY MadeWith
  <2>2. Good(fmt, client) /\ lines \in Lines /\ blk \in Blocks
    BY <2>1 DEF ConvInv, ClientOf, Made
  <2>3. PICK a, b : Enclosed(SystemText(client), SystemText(out), blk, a, b)
    BY <2>1, <2>2, EnclosedIs
  <2>4. CASE blk = << >>
    <3>1. lines = << >>
      BY <2>1, <2>2, <2>4, BlockOfLines
    <3>2. NoOpen(SystemText(out))
      <4>1. SystemText(out) = SystemText(client)
        BY <2>3, <2>4 DEF Enclosed
      <4> QED BY <2>2, <4>1, PromptHasNoHeader
    <3> QED BY <3>1, <3>2, NeverOpened
  <2>5. CASE blk # << >>
    <3>1. IsBlock(blk) /\ SystemText(out) = a \o (blk \o b) /\ NoOpen(a) /\ NoOpen(b)
      BY <2>2, <2>3, <2>5 DEF Enclosed, Blocks
    <3>2. a \in Seq(Words) /\ b \in Seq(Words) /\ blk \in Seq(Words)
      BY <3>1 DEF NoOpen, IsBlock
    <3>3. Joined(SystemText(out), a, blk, b)
      BY <3>1, <3>2, JoinedIs
    <3>4. Len(Block(SystemText(out))) <= 1
      BY <3>1, <3>3, OpenedOnce
    <3>5. Within(blk, SystemText(out))
      BY <3>3, WithinMiddle
    <3> QED BY <2>1, <3>4, <3>5
  <2> QED BY <2>4, <2>5
<1> QED BY <1>1, ConvInvHolds, PTL

-----------------------------------------------------------------------------
(* What is left of the client's dialogue. *)
EndOf(t, d) == IsSuffix(t, d) /\ Len(t) >= IF WindowSize < Len(d) THEN WindowSize ELSE Len(d)

LEMMA SuffixIs ==
    ASSUME NEW d \in Seq(Messages), NEW t \in Seq(Messages), NEW s \in Nat \ {0}, Len(t) = Len(d) - s + 1,
           \A i \in 1..Len(t) : t[i] = d[s - 1 + i]
    PROVE  IsSuffix(t, d)
<1> DEFINE n == Len(t)
           m == Len(d)
           x == Reverse(t)
           y == Reverse(d)
<1>1. n \in Nat /\ m \in Nat /\ n = m - s + 1 /\ n <= m
  BY LenProperties
<1>2. x = [i \in 1..n |-> t[(n - i) + 1]] /\ y = [i \in 1..m |-> d[(m - i) + 1]]
  BY DEF Reverse
<1> HIDE DEF x, y
<1>3. x \in [1..n -> Messages] /\ y \in [1..m -> Messages]
  <2>1. ASSUME NEW i \in 1..n PROVE t[(n - i) + 1] \in Messages
    <3>1. (n - i) + 1 \in 1..n
      BY <1>1
    <3> QED BY <3>1, ElementOfSeq
  <2>2. ASSUME NEW i \in 1..m PROVE d[(m - i) + 1] \in Messages
    <3>1. (m - i) + 1 \in 1..m
      BY <1>1
    <3> QED BY <3>1, ElementOfSeq
  <2> QED BY <1>2, <2>1, <2>2
<1>4. x \in Seq(Messages) /\ y \in Seq(Messages) /\ Len(x) = n /\ Len(y) = m
  BY <1>1, <1>3, FunctionIsSeq
<1>5. ASSUME NEW i \in 1..n PROVE x[i] = y[i]
  <2> DEFINE k == (n - i) + 1
  <2>1. k \in 1..n /\ s - 1 + k = (m - i) + 1 /\ i \in 1..m
    <3>1. n \in Nat /\ m \in Nat /\ n = m - s + 1 /\ n <= m /\ i \in 1..n /\ s \in Nat
      BY <1>1
    <3> HIDE DEF n, m
    <3> QED BY <3>1
  <2>2. x[i] = t[k] /\ y[i] = d[(m - i) + 1]
    BY <1>2, <2>1
  <2> HIDE DEF k
  <2>3. t[k] = d[s - 1 + k]
    BY <2>1
  <2> QED BY <2>1, <2>2, <2>3
<1>6. SubSeq(x, 1, n) = SubSeq(y, 1, n)
  <2>1. \A j \in 1..n : x[j] \in Messages /\ y[j] \in Messages
    BY <1>1, <1>4, ElementOfSeq
  <2> DEFINE u == SubSeq(x, 1, n)
             v == SubSeq(y, 1, n)
  <2>2. 1 \in Int /\ n \in Int
    BY <1>1
  <2>3. /\ u \in Seq(Messages) /\ Len(u) = IF 1 <= n THEN n - 1 + 1 ELSE 0
        /\ \A j \in 1..(n - 1 + 1) : u[j] = x[1 + j - 1]
    BY <2>1, <2>2, SubSeqProperties
  <2>4. /\ v \in Seq(Messages) /\ Len(v) = IF 1 <= n THEN n - 1 + 1 ELSE 0
        /\ \A j \in 1..(n - 1 + 1) : v[j] = y[1 + j - 1]
    BY <2>1, <2>2, SubSeqProperties
  <2> HIDE DEF u, v
  <2>5. Len(u) = n /\ Len(v) = n
    BY <1>1, <2>3, <2>4
  <2>6. ASSUME NEW j \in 1..n PROVE u[j] = v[j]
    <3>1. j \in 1..(n - 1 + 1) /\ 1 + j - 1 = j
      BY <1>1
    <3> QED BY <1>5, <2>3, <2>4, <3>1
  <2>7. u = v
    BY <2>3, <2>4, <2>5, <2>6, SeqEqual
  <2> QED BY <2>7 DEF u, v
<1> QED BY <1>1, <1>4, <1>6 DEF IsSuffix, IsPrefix, x, y

LEMMA RearEnds ==
    ASSUME NEW f, NEW d \in Seq(Messages)
    PROVE  EndOf(Rear(f, d), d)
<1>1. PICK s : From(f, d, s)
  BY RearIs
<1> DEFINE t == Rear(f, d)
<1>2. /\ t \in Seq(Messages) /\ s \in Nat \ {0} /\ Len(t) = Len(d) - s + 1
      /\ \A i \in 1..Len(t) : t[i] = d[s - 1 + i]
  BY <1>1 DEF From
<1>3. Len(d) \in Nat /\ WindowSize \in Nat
  BY LenProperties, SizesAssumption
<1>4. s = 1 \/ s \in 1..(Len(d) - WindowSize + 1)
  BY <1>1 DEF From, Begins
<1> HIDE DEF t
<1>5. IsSuffix(t, d)
  BY <1>2, SuffixIs
<1>6. Len(t) >= IF WindowSize < Len(d) THEN WindowSize ELSE Len(d)
  BY <1>2, <1>3, <1>4
<1> QED BY <1>5, <1>6 DEF EndOf, t

LEMMA SameImages ==
    ASSUME NEW f, NEW c, Good(f, c), NEW w, NEW blk, NEW o, Made(f, c, w, blk, o)
    PROVE  Over(Images, SystemParts(o)) = Over(Images, SystemParts(c))
<1>1. SystemParts(w) = SystemParts(c) /\ blk \in Seq(Words)
  BY DEF Made, Window, Blocks
<1>2. CASE blk = << >>
  <2>1. o = w
    BY <1>2 DEF Made, InjectMemoryBlock
  <2> QED BY <1>1, <2>1
<1>3. CASE blk # << >>
  <2>1. \E a, b : Between(Parts, Over(Images, SystemParts(c)), Over(Images, SystemParts(o)), Images[TextPart(blk)], a, b)
    BY <1>3, MadeBetween, ImagesIs
  <2>2. Images[TextPart(blk)] = << >>
    BY <1>1, ImagesIs
  <2>3. PICK a, b : Between(Parts, Over(Images, SystemParts(c)), Over(Images, SystemParts(o)), << >>, a, b)
    BY <2>1, <2>2
  <2>4. b \in Seq(Parts) /\ Over(Images, SystemParts(c)) = a \o b /\ Over(Images, SystemParts(o)) = a \o (<< >> \o b)
    BY <2>3 DEF Between
  <2>5. << >> \o b = b
    BY <2>4
  <2> QED BY <2>4, <2>5
<1> QED BY <1>2, <1>3

(* Apart from the block, the prompt that the model gets is the client's, with*)
(* its images, and the dialogue is an end of the client's that is no shorter *)
(* than the window.                                                          *)
THEOREM TheClientIsKept == Spec => []ClientKept
<1>1. ConvInv => ClientKept
  <2> SUFFICES ASSUME ConvInv, out # None PROVE ClientKept
    BY DEF ClientKept
  <2>1. PICK w, blk : Made(fmt, client, w, blk, out)
    BY MadeWith
  <2>2. Good(fmt, client) /\ blk \in Blocks
    BY <2>1 DEF ConvInv, ClientOf, Made
  <2>3. PICK a, b : Enclosed(SystemText(client), SystemText(out), blk, a, b)
    BY <2>1, <2>2, EnclosedIs
  <2>4. StripMemoryBlock(SystemText(out)) = SystemText(client)
    <3>1. CASE blk = << >>
      <4>1. SystemText(out) = SystemText(client)
        BY <2>3, <3>1 DEF Enclosed
      <4> QED BY <2>2, <4>1, PromptHasNoHeader, StripPlain
    <3>2. CASE blk # << >>
      <4>1. IsBlock(blk) /\ SystemText(out) = a \o (blk \o b) /\ NoOpen(a) /\ NoOpen(b) /\ SystemText(client) = a \o b
        BY <2>2, <2>3, <3>2 DEF Enclosed, Blocks
      <4> QED BY <4>1, StripAround
    <3> QED BY <3>1, <3>2
  <2>5. Kept(SystemParts(out), LAMBDA p : p.kind = "image") = Kept(SystemParts(client), LAMBDA p : p.kind = "image")
    <3>1. SystemParts(out) \in Seq(Parts) /\ SystemParts(client) \in Seq(Parts)
      <4>1. out \in Bodies /\ client \in Bodies
        BY <2>1, <2>2 DEF Made, PutShape, Good
      <4> QED BY <4>1, SystemPartsIs
    <3>2. Over(Images, SystemParts(out)) = Over(Images, SystemParts(client))
      BY <2>1, <2>2, SameImages
    <3> QED BY <3>1, <3>2, ImagesIs
  <2>6. EndOf(Dialogue(out), Dialogue(client))
    <3>1. Dialogue(out) = Rear(fmt, Dialogue(client)) /\ Dialogue(client) \in Seq(Messages)
      BY <2>1 DEF Made, Dialogue
    <3> QED BY <3>1, RearEnds
  <2> QED BY <2>4, <2>5, <2>6 DEF ClientKept, EndOf
<1> QED BY <1>1, ConvInvHolds, PTL

-----------------------------------------------------------------------------
(* The texts of a body, and what they are without the block. *)
SlotText(b) == ContentText(b.slot.parts)

Hears(f, b, y) ==
    y # << >> /\ (y = SlotText(b) \/ \E i \in 1..Len(b.messages) : y = MessageText(f, b.messages[i]))

Bare(m, y) == IF IsSystem(m) THEN StripMemoryBlock(y) ELSE y

Shorn(f, b, y) ==
    y # << >> /\ ( \/ SlotText(b) # << >> /\ y = StripMemoryBlock(SlotText(b))
                   \/ \E i \in 1..Len(b.messages) : y = Bare(b.messages[i], MessageText(f, b.messages[i])) )

LEMMA HeardIs ==
    ASSUME NEW f, NEW b \in Bodies
    PROVE  LET H == Range(ExtractMessages(f, b))
           IN  \A x : x \in H <=> \/ SlotText(b) # << >> /\ x = [role |-> "system", text |-> SlotText(b)]
                                  \/ \E i \in 1..Len(b.messages) : x = Told(f, b.messages[i])
<1> DEFINE e == ExtractMessages(f, b)
<1>1. PICK n : Listed(f, b, n, e)
  BY ListedIs
<1> HIDE DEF e
<1>2. n \in {0, 1} /\ (n = 0 <=> SlotText(b) = << >>) /\ DOMAIN e = 1..Len(e) /\ Len(e) \in Nat /\ Len(e) = n + Len(b.messages)
      /\ Len(b.messages) \in Nat
  <2>1. n \in Nat
    BY <1>1 DEF Listed
  <2> QED BY <1>1, <2>1 DEF Listed, SlotText
<1>3. ASSUME NEW x \in Range(e)
      PROVE  \/ SlotText(b) # << >> /\ x = [role |-> "system", text |-> SlotText(b)]
             \/ \E i \in 1..Len(b.messages) : x = Told(f, b.messages[i])
  <2>1. PICK j \in 1..Len(e) : x = e[j]
    BY <1>2 DEF Range
  <2>2. CASE j = 1 /\ n = 1
    BY <1>1, <1>2, <2>1, <2>2 DEF Listed, SlotText
  <2>3. CASE ~(j = 1 /\ n = 1)
    <3>1. j - n \in 1..Len(b.messages) /\ e[j] = Told(f, b.messages[j - n])
      BY <1>1, <2>1, <2>3 DEF Listed
    <3> QED BY <2>1, <3>1
  <2> QED BY <2>2, <2>3
<1>4. ASSUME SlotText(b) # << >>
      PROVE  [role |-> "system", text |-> SlotText(b)] \in Range(e)
  <2>1. n = 1 /\ 1 \in DOMAIN e
    BY <1>2, <1>4
  <2>2. e[1] = [role |-> "system", text |-> SlotText(b)]
    BY <1>1, <2>1 DEF Listed, SlotText
  <2> QED BY <2>1, <2>2 DEF Range
<1>5. ASSUME NEW i \in 1..Len(b.messages) PROVE Told(f, b.messages[i]) \in Range(e)
  <2>1. n + i \in DOMAIN e /\ e[n + i] = Told(f, b.messages[i])
    BY <1>1, <1>2 DEF Listed
  <2> QED BY <2>1 DEF Range
<1> QED BY <1>3, <1>4, <1>5 DEF e

LEMMA HearsIs ==
    ASSUME NEW f, NEW b \in Bodies
    PROVE  \A y : y \in MessageTexts(ExtractMessages(f, b)) <=> Hears(f, b, y)
<1> DEFINE e == ExtractMessages(f, b)
<1>1. MessageTexts(e) = {x.text : x \in Range(e)} \ {<< >>}
  BY DEF MessageTexts, Range
<1>2. \A x : x \in Range(e) <=> \/ SlotText(b) # << >> /\ x = [role |-> "system", text |-> SlotText(b)]
                                \/ \E i \in 1..Len(b.messages) : x = Told(f, b.messages[i])
  BY HeardIs
<1> HIDE DEF e
<1>3. ASSUME NEW y, y \in MessageTexts(e) PROVE Hears(f, b, y)
  <2>1. y # << >> /\ \E x \in Range(e) : y = x.text
    BY <1>1, <1>3
  <2>2. PICK x \in Range(e) : y = x.text
    BY <2>1
  <2>3. \/ x = [role |-> "system", text |-> SlotText(b)] \/ \E i \in 1..Len(b.messages) : x = Told(f, b.messages[i])
    BY <1>2
  <2> QED BY <2>1, <2>2, <2>3 DEF Hears, Told
<1>4. ASSUME NEW y, Hears(f, b, y) PROVE y \in MessageTexts(e)
  <2>1. CASE y = SlotText(b)
    <3> DEFINE x == [role |-> "system", text |-> SlotText(b)]
    <3>1. x \in Range(e) /\ x.text = y /\ y # << >>
      BY <1>2, <1>4, <2>1 DEF Hears
    <3> HIDE DEF x
    <3> QED BY <1>1, <3>1
  <2>2. CASE \E i \in 1..Len(b.messages) : y = MessageText(f, b.messages[i])
    <3>1. PICK i \in 1..Len(b.messages) : y = MessageText(f, b.messages[i])
      BY <2>2
    <3> DEFINE x == Told(f, b.messages[i])
    <3>2. x \in Range(e) /\ x.text = y /\ y # << >>
      <4>1. x \in Range(e)
        BY <1>2
      <4> QED BY <1>4, <3>1, <4>1 DEF Hears, Told
    <3> HIDE DEF x
    <3> QED BY <1>1, <3>2
  <2> QED BY <1>4, <2>1, <2>2 DEF Hears
<1> QED BY <1>3, <1>4 DEF e

LEMMA ShornIs ==
    ASSUME NEW f, NEW b \in Bodies, NEW y,
           y \in {IF IsSystem(m) THEN StripMemoryBlock(m.text) ELSE m.text : m \in Range(ExtractMessages(f, b))} \ {<< >>}
    PROVE  Shorn(f, b, y)
<1> DEFINE H == Range(ExtractMessages(f, b))
<1>1. \A x : x \in H <=> \/ SlotText(b) # << >> /\ x = [role |-> "system", text |-> SlotText(b)]
                         \/ \E i \in 1..Len(b.messages) : x = Told(f, b.messages[i])
  BY HeardIs
<1>2. PICK x \in H : y = IF IsSystem(x) THEN StripMemoryBlock(x.text) ELSE x.text
  OBVIOUS
<1>3. y # << >>
  OBVIOUS
<1> HIDE DEF H
<1>4. CASE SlotText(b) # << >> /\ x = [role |-> "system", text |-> SlotText(b)]
  <2>1. IsSystem(x) /\ x.text = SlotText(b)
    BY <1>4 DEF IsSystem
  <2> QED BY <1>2, <1>3, <1>4, <2>1 DEF Shorn
<1>5. CASE \E i \in 1..Len(b.messages) : x = Told(f, b.messages[i])
  <2>1. PICK i \in 1..Len(b.messages) : x = Told(f, b.messages[i])
    BY <1>5
  <2>2. (IsSystem(x) <=> IsSystem(b.messages[i])) /\ x.text = MessageText(f, b.messages[i])
    BY <2>1 DEF IsSystem, Told
  <2>3. y = Bare(b.messages[i], MessageText(f, b.messages[i]))
    BY <1>2, <2>2 DEF Bare
  <2> QED BY <1>3, <2>3 DEF Shorn
<1> QED BY <1>1, <1>4, <1>5

-----------------------------------------------------------------------------
(* The texts of a prompt. *)
LEMMA NoCallText ==
    ASSUME NEW f, NEW m \in Messages, \A i \in 1..Len(m.content.parts) : m.content.parts[i].kind \in {"image", "text"}
    PROVE  MessageText(f, m) = ContentText(m.content.parts)
<1> DEFINE parts == m.content.parts
           I == {i \in DOMAIN parts : ~IsCall(parts[i])}
<1>1. parts \in Seq(Parts)
  BY MessageIs
<1>2. DOMAIN parts = 1..Len(parts)
  BY <1>1, LenProperties
<1>3. I = 1..Len(parts)
  BY <1>2 DEF IsCall
<1>4. Kept(parts, LAMBDA p : ~IsCall(p)) = Subsequence(parts, I)
  BY DEF Kept
<1> HIDE DEF parts, I
<1>5. Subsequence(parts, I) = parts
  BY <1>1, <1>3, SubsequenceAll
<1>6. Kept(m.content.parts, LAMBDA p : ~IsCall(p)) = parts
  BY <1>4, <1>5 DEF parts
<1> QED BY <1>6 DEF MessageText, parts

LEMMA PlainText ==
    ASSUME NEW c \in Contents, Plain(c)
    PROVE  /\ NoOpen(ContentText(c.parts))
           /\ \A i \in 1..Len(c.parts) : c.parts[i].kind \in {"image", "text"}
<1>1. PlainParts(c.parts)
  BY PlainContent
<1> DEFINE q == c.parts
<1>2. q \in Seq(Parts) /\ \A i \in 1..Len(q) : q[i] \in Parts /\ PlainPart(q[i])
  BY <1>1, ElementOfSeq DEF PlainParts
<1> HIDE DEF q
<1>3. ASSUME NEW i \in 1..Len(q) PROVE q[i].kind \in {"image", "text"} /\ NoOpen(Rendered(q[i]))
  <2>1. q[i] \in Parts /\ PlainPart(q[i])
    BY <1>2
  <2>2. Renders[q[i]] = Rendered(q[i])
    BY <2>1, RendersIs
  <2> QED BY <2>1, <2>2, PlainPartIs
<1>4. \A i \in 1..Len(q) : Rendered(q[i]) \in Seq(Words \ {Open})
  BY <1>3, NoOpenIs
<1>5. ContentText(q) \in Seq(Words \ {Open})
  BY <1>2, <1>4, ContentTextIn
<1> QED BY <1>3, <1>5, NoOpenIs DEF q

LEMMA InjectedText ==
    ASSUME NEW c \in Contents, Plain(c), NEW blk \in Seq(Words)
    PROVE  /\ Injected(c, blk) \in Contents
           /\ ContentText(Injected(c, blk).parts) = ContentText(c.parts) \o blk
           /\ \A i \in 1..Len(Injected(c, blk).parts) : Injected(c, blk).parts[i].kind \in {"image", "text"}
<1> DEFINE d == Injected(c, blk)
<1>1. d \in Contents /\ \A i \in 1..Len(d.parts) : d.parts[i].kind \in {"image", "text"}
  BY InjectedType
<1>2. Over(Renders, d.parts) = Over(Renders, c.parts) \o Renders[TextPart(blk)]
  BY RendersAdditive, InjectedOver
<1> HIDE DEF d
<1>3. d.parts \in Seq(Parts) /\ c.parts \in Seq(Parts)
  BY <1>1 DEF Contents
<1>4. ContentText(d.parts) = Over(Renders, d.parts) /\ ContentText(c.parts) = Over(Renders, c.parts)
  BY <1>3, TextIs
<1>5. Renders[TextPart(blk)] = blk
  BY TextPartIs
<1> QED BY <1>1, <1>2, <1>4, <1>5 DEF d

LEMMA StripEnd ==
    ASSUME NEW u, NoOpen(u), NEW blk, IsBlock(blk)
    PROVE  StripMemoryBlock(u \o blk) = u /\ u \o blk \in Seq(Words) /\ u \o blk # << >>
<1>1. u \in Seq(Words) /\ blk \in Seq(Words) /\ Len(blk) >= 2
  BY DEF NoOpen, IsBlock
<1>2. NoOpen(<< >>) /\ blk \o << >> = blk /\ u \o << >> = u
  BY <1>1 DEF NoOpen
<1>3. StripMemoryBlock(u \o (blk \o << >>)) = u \o << >>
  BY <1>2, StripAround
<1>4. u \o blk \in Seq(Words) /\ Len(u \o blk) = Len(u) + Len(blk)
  BY <1>1, ConcatProperties
<1>5. Len(u \o blk) # 0
  BY <1>1, <1>4, LenProperties
<1>6. Len(<< >>) = 0
  OBVIOUS
<1> QED BY <1>2, <1>3, <1>4, <1>5, <1>6

-----------------------------------------------------------------------------
(* What the block does to the texts of a body. *)
Outline(f, w, o, blk) ==
    /\ \A y : Shorn(f, o, y) => Hears(f, w, y)
    /\ \A y : Hears(f, w, y) => Hears(f, o, y) \/ Hears(f, o, y \o blk)
    /\ blk # << >> => \E u : NoOpen(u) /\ Hears(f, o, u \o blk)

LEMMA GoodTexts ==
    ASSUME NEW f, NEW w, Good(f, w)
    PROVE  /\ w \in Bodies /\ NoOpen(SlotText(w)) /\ StripMemoryBlock(SlotText(w)) = SlotText(w)
           /\ \A i \in 1..Len(w.messages) :
                  /\ IsSystem(w.messages[i]) => f = "openai" /\ NoOpen(MessageText(f, w.messages[i]))
                  /\ Bare(w.messages[i], MessageText(f, w.messages[i])) = MessageText(f, w.messages[i])
<1>1. w \in Bodies /\ w.slot \in Contents /\ Plain(w.slot) /\ w.messages \in Seq(Messages)
  BY DEF Good, Bodies
<1>2. NoOpen(SlotText(w))
  BY <1>1, PlainText DEF SlotText
<1>3. StripMemoryBlock(SlotText(w)) = SlotText(w)
  BY <1>2, StripPlain
<1>4. ASSUME NEW i \in 1..Len(w.messages), IsSystem(w.messages[i])
      PROVE  f = "openai" /\ NoOpen(MessageText(f, w.messages[i]))
  <2> DEFINE m == w.messages[i]
  <2>1. m \in Messages /\ i \in DOMAIN w.messages
    BY <1>1, ElementOfSeq, LenProperties
  <2>2. f = "openai" /\ Plain(m.content)
    BY <1>4, <2>1 DEF Good, PlainMessages
  <2> HIDE DEF m
  <2>3. m.content \in Contents
    BY <2>1, MessageIs
  <2>4. NoOpen(ContentText(m.content.parts)) /\ MessageText(f, m) = ContentText(m.content.parts)
    BY <2>1, <2>2, <2>3, PlainText, NoCallText
  <2> QED BY <2>2, <2>4 DEF m
<1>5. ASSUME NEW i \in 1..Len(w.messages)
      PROVE  Bare(w.messages[i], MessageText(f, w.messages[i])) = MessageText(f, w.messages[i])
  BY <1>4, StripPlain DEF Bare
<1> QED BY <1>1, <1>2, <1>3, <1>4, <1>5

LEMMA OutlineSame ==
    ASSUME NEW f, NEW w, Good(f, w)
    PROVE  Outline(f, w, w, << >>)
<1>1. ASSUME NEW y, Shorn(f, w, y) PROVE Hears(f, w, y)
  BY <1>1, GoodTexts DEF Shorn, Hears
<1> QED BY <1>1 DEF Outline

LEMMA OutlineSlot ==
    ASSUME NEW f, NEW w, Good(f, w), NEW blk, IsBlock(blk), NEW o, PutSlot(f, w, blk, o)
    PROVE  Outline(f, w, o, blk)
<1> DEFINE u == SlotText(w)
<1>1. w.slot \in Contents /\ Plain(w.slot) /\ blk \in Seq(Words) /\ w \in Bodies
  BY DEF Good, Bodies, IsBlock
<1>2. o = Slotted(w, Injected(w.slot, blk))
  BY DEF PutSlot
<1>3. Injected(w.slot, blk) \in Contents /\ ContentText(Injected(w.slot, blk).parts) = u \o blk
  BY <1>1, InjectedText DEF SlotText
<1>4. o.slot = Injected(w.slot, blk) /\ o.messages = w.messages
  BY <1>1, <1>2, <1>3, SlottedIs
<1>5. SlotText(o) = u \o blk
  BY <1>3, <1>4 DEF SlotText
<1>6. NoOpen(u)
  BY GoodTexts
<1> HIDE DEF u
<1>7. StripMemoryBlock(u \o blk) = u /\ u \o blk # << >>
  BY <1>6, StripEnd
<1>8. ASSUME NEW y, Shorn(f, o, y) PROVE Hears(f, w, y)
  <2>1. CASE y = StripMemoryBlock(SlotText(o))
    BY <1>5, <1>7, <1>8, <2>1 DEF Shorn, Hears, u
  <2>2. CASE \E i \in 1..Len(o.messages) : y = Bare(o.messages[i], MessageText(f, o.messages[i]))
    BY <1>4, <1>8, <2>2, GoodTexts DEF Shorn, Hears
  <2> QED BY <1>8, <2>1, <2>2 DEF Shorn
<1>9. ASSUME NEW y, Hears(f, w, y) PROVE Hears(f, o, y) \/ Hears(f, o, y \o blk)
  <2>1. CASE y = u
    BY <1>5, <1>7, <2>1 DEF Hears
  <2>2. CASE \E i \in 1..Len(w.messages) : y = MessageText(f, w.messages[i])
    BY <1>4, <1>9, <2>2 DEF Hears
  <2> QED BY <1>9, <2>1, <2>2 DEF Hears, u
<1>10. Hears(f, o, u \o blk)
  BY <1>5, <1>7 DEF Hears
<1> QED BY <1>6, <1>8, <1>9, <1>10 DEF Outline

LEMMA OutlineFront ==
    ASSUME NEW f, NEW w, Good(f, w), NEW blk, IsBlock(blk), NEW o, PutFront(f, w, blk, o)
    PROVE  Outline(f, w, o, blk)
<1> DEFINE msgs == w.messages
           m == Prefix(blk)
           t == <<m>> \o msgs
<1>1. w \in Bodies /\ msgs \in Seq(Messages) /\ blk \in Seq(Words) /\ blk # << >>
  BY DEF Good, Bodies, IsBlock
<1>2. o = Placed(w, t)
  BY DEF PutFront
<1>3. m \in Messages /\ IsSystem(m) /\ m.content = Content("string", <<TextPart(blk)>>)
  <2>1. TextPart(blk) \in Parts
    BY <1>1, TextPartIs
  <2>2. <<TextPart(blk)>> \in Seq(Parts)
    BY <2>1, UnitIsSeq
  <2>3. Content("string", <<TextPart(blk)>>) \in Contents
    BY <2>2 DEF Content, Contents
  <2> QED BY <2>3 DEF Prefix, Message, Messages, Roles, IsSystem, Content
<1>4. MessageText(f, m) = blk
  <2>1. m.content.parts = <<TextPart(blk)>>
    BY <1>3, ContentIs
  <2>2. \A i \in 1..Len(m.content.parts) : m.content.parts[i].kind \in {"image", "text"}
    BY <1>1, <2>1, TextPartIs
  <2>3. <<TextPart(blk)>> \in Seq(Parts) /\ Over(Renders, <<TextPart(blk)>>) = blk
    BY <1>1, UnitOver, RendersIs, TextPartIs
  <2>4. ContentText(<<TextPart(blk)>>) = blk
    BY <2>3, TextIs
  <2> HIDE DEF m
  <2>5. MessageText(f, m) = ContentText(m.content.parts)
    BY <1>3, <2>2, NoCallText
  <2> QED BY <2>1, <2>4, <2>5
<1> HIDE DEF m
<1>5. /\ t \in Seq(Messages) /\ Len(t) = Len(msgs) + 1 /\ t[1] = m /\ Len(msgs) \in Nat
      /\ \A i \in 2..Len(t) : i - 1 \in 1..Len(msgs) /\ t[i] = msgs[i - 1]
  <2> HIDE DEF msgs
  <2> QED BY <1>1, <1>3, FrontIs
<1> HIDE DEF t
<1>6. o.messages = t /\ o.slot = w.slot
  BY <1>1, <1>2, <1>5, PlacedIs
<1>7. SlotText(o) = SlotText(w) /\ NoOpen(<< >>) /\ << >> \o blk = blk
  <2>1. SlotText(o) = SlotText(w)
    BY <1>6 DEF SlotText
  <2> QED BY <1>1, <2>1 DEF NoOpen
<1>8. Bare(m, blk) = << >>
  <2>1. StripMemoryBlock(blk) = << >>
    BY <1>7, StripEnd
  <2> QED BY <1>3, <2>1 DEF Bare
<1>9. ASSUME NEW y, Shorn(f, o, y) PROVE Hears(f, w, y)
  <2>1. CASE SlotText(o) # << >> /\ y = StripMemoryBlock(SlotText(o))
    BY <1>7, <1>9, <2>1, GoodTexts DEF Shorn, Hears
  <2>2. CASE \E i \in 1..Len(o.messages) : y = Bare(o.messages[i], MessageText(f, o.messages[i]))
    <3>1. PICK i \in 1..Len(t) : y = Bare(t[i], MessageText(f, t[i]))
      BY <1>6, <2>2
    <3>2. i # 1
      BY <1>4, <1>5, <1>8, <1>9, <3>1 DEF Shorn
    <3>3. i - 1 \in 1..Len(msgs) /\ t[i] = msgs[i - 1]
      <4>1. i \in 2..Len(t)
        BY <1>5, <3>2
      <4> QED BY <1>5, <4>1
    <3>4. y = MessageText(f, msgs[i - 1])
      BY <3>1, <3>3, GoodTexts
    <3> QED BY <1>9, <3>3, <3>4 DEF Shorn, Hears
  <2> QED BY <1>9, <2>1, <2>2 DEF Shorn
<1>10. ASSUME NEW y, Hears(f, w, y) PROVE Hears(f, o, y)
  <2>1. CASE y = SlotText(w)
    BY <1>7, <1>10, <2>1 DEF Hears
  <2>2. CASE \E i \in 1..Len(msgs) : y = MessageText(f, msgs[i])
    <3>1. PICK i \in 1..Len(msgs) : y = MessageText(f, msgs[i])
      BY <2>2
    <3>2. i + 1 \in 2..Len(t) /\ (i + 1) - 1 = i
      BY <1>5
    <3>3. i + 1 \in 1..Len(t) /\ t[i + 1] = msgs[i]
      BY <1>5, <3>2
    <3>4. y = MessageText(f, t[i + 1])
      BY <3>1, <3>3
    <3> QED BY <1>6, <1>10, <3>3, <3>4 DEF Hears
  <2> QED BY <1>10, <2>1, <2>2 DEF Hears
<1>11. Hears(f, o, blk)
  <2>1. 1 \in 1..Len(t)
    BY <1>5
  <2> QED BY <1>1, <1>4, <1>5, <1>6, <2>1 DEF Hears
<1> QED BY <1>7, <1>9, <1>10, <1>11 DEF Outline

LEMMA OutlineInto ==
    ASSUME NEW f, NEW w, Good(f, w), NEW blk, IsBlock(blk), NEW o, NEW k, PutInto(f, w, blk, o, k)
    PROVE  Outline(f, w, o, blk)
<1> DEFINE msgs == w.messages
           c == msgs[k].content
           d == Injected(c, blk)
           t == Filling(msgs, k, d)
           u == MessageText(f, msgs[k])
<1>1. w \in Bodies /\ msgs \in Seq(Messages) /\ blk \in Seq(Words) /\ f = "openai"
      /\ FirstSystem(msgs, k) /\ o = Placed(w, t)
  BY DEF Good, Bodies, IsBlock, PutInto
<1>2. k \in 1..Len(msgs) /\ IsSystem(msgs[k]) /\ msgs[k] \in Messages
  <2> HIDE DEF msgs
  <2> QED BY <1>1, ElementOfSeq DEF FirstSystem, IsSystem
<1>3. c \in Contents /\ Plain(c)
  <2>1. DOMAIN msgs = 1..Len(msgs)
    BY <1>1, LenProperties
  <2>2. Plain(c)
    BY <1>2, <2>1 DEF Good, PlainMessages
  <2> HIDE DEF msgs
  <2> QED BY <1>2, <2>2, MessageIs
<1>4. u = ContentText(c.parts) /\ NoOpen(u)
  <2> DEFINE m == msgs[k]
  <2>1. m \in Messages /\ m.content = c
    BY <1>2
  <2> HIDE DEF m, c
  <2>2. NoOpen(ContentText(c.parts)) /\ \A i \in 1..Len(c.parts) : c.parts[i].kind \in {"image", "text"}
    BY <1>3, PlainText
  <2>3. MessageText(f, m) = ContentText(c.parts)
    BY <2>1, <2>2, NoCallText
  <2> QED BY <2>2, <2>3 DEF m
<1> HIDE DEF c
<1>5. /\ d \in Contents /\ ContentText(d.parts) = u \o blk
      /\ \A i \in 1..Len(d.parts) : d.parts[i].kind \in {"image", "text"}
  BY <1>1, <1>3, <1>4, InjectedText
<1> HIDE DEF msgs, d
<1>6. Fills(msgs, k, d, t)
  BY <1>1, <1>2, <1>5, FillingIs
<1> HIDE DEF t
<1>7. /\ t \in Seq(Messages) /\ Len(t) = Len(msgs) /\ t[k].content = d /\ t[k].role = msgs[k].role
      /\ \A i \in 1..Len(msgs) : i # k => t[i] = msgs[i]
  BY <1>6 DEF Fills
<1>8. o.messages = t /\ o.slot = w.slot
  BY <1>1, <1>7, PlacedIs
<1>9. MessageText(f, t[k]) = u \o blk /\ IsSystem(t[k])
  <2>1. t[k] \in Messages /\ IsSystem(t[k])
    BY <1>2, <1>7, ElementOfSeq DEF IsSystem
  <2> DEFINE n == t[k]
  <2>2. n \in Messages /\ n.content = d
    BY <1>7, <2>1
  <2> HIDE DEF n, u
  <2>3. MessageText(f, n) = ContentText(d.parts)
    BY <1>5, <2>2, NoCallText
  <2> QED BY <1>5, <2>1, <2>3 DEF n
<1>10. SlotText(o) = SlotText(w)
  BY <1>8 DEF SlotText
<1>11. StripMemoryBlock(u \o blk) = u /\ u \o blk # << >>
  <2> HIDE DEF u
  <2> QED BY <1>4, StripEnd
<1>12. ASSUME NEW y, Shorn(f, o, y) PROVE Hears(f, w, y)
  <2>1. CASE SlotText(o) # << >> /\ y = StripMemoryBlock(SlotText(o))
    BY <1>10, <1>12, <2>1, GoodTexts DEF Shorn, Hears
  <2>2. CASE \E i \in 1..Len(o.messages) : y = Bare(o.messages[i], MessageText(f, o.messages[i]))
    <3>1. PICK i \in 1..Len(msgs) : y = Bare(t[i], MessageText(f, t[i]))
      BY <1>7, <1>8, <2>2
    <3>2. y = MessageText(f, msgs[i])
      <4>1. CASE i = k
        BY <1>9, <1>11, <3>1, <4>1 DEF Bare
      <4>2. CASE i # k
        BY <1>7, <3>1, <4>2, GoodTexts DEF msgs
      <4> QED BY <4>1, <4>2
    <3> QED BY <1>12, <3>2 DEF Shorn, Hears, msgs
  <2> QED BY <1>12, <2>1, <2>2 DEF Shorn
<1>13. Hears(f, o, u \o blk)
  BY <1>2, <1>7, <1>8, <1>9, <1>11 DEF Hears
<1>14. ASSUME NEW y, Hears(f, w, y) PROVE Hears(f, o, y) \/ Hears(f, o, y \o blk)
  <2>1. CASE y = SlotText(w)
    BY <1>10, <1>14, <2>1 DEF Hears
  <2>2. CASE \E i \in 1..Len(msgs) : y = MessageText(f, msgs[i])
    <3>1. PICK i \in 1..Len(msgs) : y = MessageText(f, msgs[i])
      BY <2>2
    <3>2. CASE i = k
      BY <1>13, <3>1, <3>2
    <3>3. CASE i # k
      BY <1>7, <1>8, <1>14, <3>1, <3>3 DEF Hears
    <3> QED BY <3>2, <3>3
  <2> QED BY <1>14, <2>1, <2>2 DEF Hears, msgs
<1> QED BY <1>4, <1>12, <1>13, <1>14 DEF Outline

LEMMA OutlineIs ==
    ASSUME NEW f, NEW c, NEW w, NEW blk, NEW o, Made(f, c, w, blk, o)
    PROVE  Outline(f, w, o, blk)
<1>1. Good(f, w) /\ w \in Bodies /\ blk \in Blocks /\ o = InjectMemoryBlock(f, w, blk)
  BY DEF Made, Good
<1>2. Put(f, w, blk, o)
  BY <1>1, PutIs
<1>3. CASE blk = << >>
  <2>1. o = w
    BY <1>1, <1>3 DEF InjectMemoryBlock
  <2> QED BY <1>1, <1>3, <2>1, OutlineSame
<1>4. CASE IsBlock(blk)
  <2>1. blk # << >>
    BY <1>4 DEF IsBlock
  <2>2. CASE PutSlot(f, w, blk, o)
    BY <1>1, <1>4, <2>2, OutlineSlot
  <2>3. CASE PutFront(f, w, blk, o)
    BY <1>1, <1>4, <2>3, OutlineFront
  <2>4. CASE \E k : PutInto(f, w, blk, o, k)
    BY <1>1, <1>4, <2>4, OutlineInto
  <2> QED BY <1>2, <2>1, <2>2, <2>3, <2>4 DEF Put
<1> QED BY <1>1, <1>3, <1>4 DEF Blocks

-----------------------------------------------------------------------------
(* A text in another. *)
LEMMA WithinLonger ==
    ASSUME NEW t \in Seq(Words), NEW u \in Seq(Words), NEW v \in Seq(Words), Within(t, u)
    PROVE  Within(t, u \o v)
<1> DEFINE w == u \o v
<1>1. /\ w \in Seq(Words) /\ Len(w) = Len(u) + Len(v) /\ Len(u) \in Nat /\ Len(v) \in Nat /\ Len(t) \in Nat
      /\ \A i \in 1..(Len(u) + Len(v)) : w[i] = IF i <= Len(u) THEN u[i] ELSE v[i - Len(u)]
  BY ConcatProperties, LenProperties
<1> HIDE DEF w
<1>2. PICK i \in 0..(Len(u) - Len(t)) : SubSeq(u, i + 1, i + Len(t)) = t
  BY DEF Within
<1>3. i \in 0..(Len(w) - Len(t)) /\ i + 1 \in Int /\ i + Len(t) \in Int
  BY <1>1
<1>4. \A j \in (i + 1)..(i + Len(t)) : j \in 1..Len(u) /\ j \in 1..(Len(u) + Len(v)) /\ j <= Len(u)
  BY <1>1
<1>5. \A j \in (i + 1)..(i + Len(t)) : u[j] \in Words /\ w[j] \in Words /\ w[j] = u[j]
  <2> SUFFICES ASSUME NEW j \in (i + 1)..(i + Len(t)) PROVE u[j] \in Words /\ w[j] = u[j]
    OBVIOUS
  <2>1. j \in 1..Len(u) /\ j \in 1..(Len(u) + Len(v)) /\ j <= Len(u)
    BY <1>4
  <2>2. u[j] \in Words
    BY <2>1, ElementOfSeq
  <2>3. w[j] = u[j]
    BY <1>1, <2>1
  <2> QED BY <2>2, <2>3
<1> DEFINE a == SubSeq(u, i + 1, i + Len(t))
           b == SubSeq(w, i + 1, i + Len(t))
           n == (i + Len(t)) - (i + 1) + 1
<1>6. a \in Seq(Words) /\ \A j \in 1..n : a[j] = u[(i + 1) + j - 1]
  BY <1>3, <1>5, SubSeqProperties
<1>7. b \in Seq(Words) /\ Len(b) = (IF i + 1 <= i + Len(t) THEN n ELSE 0) /\ \A j \in 1..n : b[j] = w[(i + 1) + j - 1]
  BY <1>3, <1>5, SubSeqProperties
<1>8. a = t
  BY <1>2
<1> HIDE DEF a, b
<1>9. n = Len(t) /\ Len(b) = Len(t)
  BY <1>1, <1>7
<1> HIDE DEF n
<1>10. ASSUME NEW j \in 1..Len(t) PROVE b[j] = t[j]
  <2>1. j \in 1..n /\ (i + 1) + j - 1 \in (i + 1)..(i + Len(t))
    BY <1>1, <1>9
  <2> QED BY <1>5, <1>6, <1>7, <1>8, <2>1
<1>11. b = t
  BY <1>7, <1>9, <1>10, SeqEqual
<1> QED BY <1>3, <1>11 DEF Within, b, w

LEMMA HearsType ==
    ASSUME NEW f, NEW b \in Bodies, NEW y, Hears(f, b, y)
    PROVE  y \in Seq(Words)
<1>1. b.messages \in Seq(Messages) /\ b.slot.parts \in Seq(Parts)
  BY DEF Bodies, Contents
<1>2. CASE y = SlotText(b)
  BY <1>1, <1>2, TextIs DEF SlotText
<1>3. CASE \E i \in 1..Len(b.messages) : y = MessageText(f, b.messages[i])
  BY <1>1, <1>3, ElementOfSeq, MessageTextType
<1> QED BY <1>2, <1>3 DEF Hears

(* What the window shows, the body that is returned shows, too. *)
LEMMA StillVisible ==
    ASSUME NEW f, NEW c, NEW w, NEW blk, NEW o, Made(f, c, w, blk, o), NEW t \in Seq(Words),
           Visible(t, MessageTexts(ExtractMessages(f, w)))
    PROVE  Visible(t, MessageTexts(ExtractMessages(f, o)))
<1>1. Outline(f, w, o, blk) /\ w \in Bodies /\ o \in Bodies /\ blk \in Seq(Words)
  BY OutlineIs DEF Made, Good, PutShape, Blocks
<1>2. PICK y : Hears(f, w, y) /\ Within(t, y)
  BY <1>1, HearsIs DEF Visible
<1>3. y \in Seq(Words)
  BY <1>1, <1>2, HearsType
<1>4. CASE Hears(f, o, y)
  BY <1>1, <1>2, <1>4, HearsIs DEF Visible
<1>5. CASE Hears(f, o, y \o blk)
  <2>1. Within(t, y \o blk)
    BY <1>1, <1>2, <1>3, WithinLonger
  <2> QED BY <1>1, <1>5, <2>1, HearsIs DEF Visible
<1> QED BY <1>1, <1>2, <1>4, <1>5 DEF Outline

-----------------------------------------------------------------------------
(* Where the lines come from, and where what is recalled goes to. *)
Traced(s, t, i, p) ==
    p \in 1..Len(t) /\ t[p] = s[i] /\ \A l \in 1..(p - 1) : \E j \in 1..(i - 1) : t[l] = s[j]

LEMMA SelectsTraced ==
    ASSUME NEW s, NEW I, NEW t, Selects(s, I, t), NEW i \in I
    PROVE  \E p : Traced(s, t, i, p)
<1> DEFINE p == Rank(I, i)
<1>1. Picked(s, I) /\ t = Subsequence(s, I) /\ Cardinality(I) = Len(t) /\ Len(t) \in Nat /\ I \in SUBSET (1..Len(s)) /\ Len(s) \in Nat
  BY DEF Selects
<1>2. p \in 1..Len(t) /\ Nth(I, p) = i /\ t[p] = s[i]
  BY <1>1 DEF Picked
<1> HIDE DEF p
<1>3. ASSUME NEW l \in 1..(p - 1) PROVE \E j \in 1..(i - 1) : t[l] = s[j]
  <2>1. l \in 1..Len(t) /\ l < p
    BY <1>1, <1>2
  <2>2. Nth(I, l) \in I /\ Nth(I, l) < i /\ t[l] = s[Nth(I, l)]
    BY <1>1, <1>2, <2>1 DEF Picked
  <2>3. Nth(I, l) \in 1..Len(s) /\ i \in 1..Len(s)
    BY <1>1, <2>2
  <2>4. Nth(I, l) \in 1..(i - 1)
    BY <1>1, <2>2, <2>3
  <2> QED BY <2>2, <2>4
<1> QED BY <1>2, <1>3 DEF Traced

LEMMA SelectsFrom ==
    ASSUME NEW s, NEW I, NEW t, Selects(s, I, t), NEW k \in 1..Len(t)
    PROVE  \E i \in I : t[k] = s[i]
BY DEF Selects, Picked

(* A line is a staged one that is not visible, or it is made of a memory     *)
(* that is not.                                                              *)
FromStaged(st, texts, x) == (\E i \in 1..Len(st) : x = st[i]) /\ ~Visible(x, texts)
FromRecall(items, texts, x) ==
    \E j \in 1..Len(items) : x = FirstLine(items[j]) /\ ~Visible(Neutral(items[j]), texts)

LEMMA FormatFrom ==
    ASSUME NEW items \in Seq(Seq(Words)), NEW q, NEW texts,
           NEW k \in 1..Len(FormatMemories(Found(items, q, texts), RecallLimit, MaxLine))
    PROVE  FromRecall(items, texts, FormatMemories(Found(items, q, texts), RecallLimit, MaxLine)[k])
<1> DEFINE said == DropQueryEchoes(items, q)
           found == Found(items, q, texts)
           s == Shortened(found)
           d == DedupeLines(s)
           v == FormatMemories(found, RecallLimit, MaxLine)
<1>1. /\ Selects(items, NoEcho(items, q), said) /\ said \in Seq(Seq(Words))
      /\ Selects(said, New(said, texts), found) /\ found \in Seq(Seq(Words))
  BY FoundIs
<1> HIDE DEF said, found
<1>2. s \in Lines /\ Len(s) = Len(found) /\ Len(found) \in Nat /\ \A i \in 1..Len(found) : s[i] = FirstLine(found[i])
  BY <1>1, ShortenedIs
<1>3. v = UpTo(d, RecallLimit) /\ d \in Lines
  BY <1>1, FormatIs
<1> HIDE DEF s, v
<1>4. Selects(s, Firsts(s), d)
  BY <1>2, DedupeIs DEF Lines
<1> HIDE DEF d
<1>5. k \in 1..Len(d) /\ v[k] = d[k]
  <2>1. RecallLimit \in Nat /\ Len(d) \in Nat /\ d \in Seq(Seq(Untagged))
    BY <1>3, SizesAssumption, LenProperties DEF Lines
  <2>2. k \in 1..Len(v)
    BY DEF v, found
  <2>3. Len(v) = (IF Len(d) > RecallLimit THEN RecallLimit ELSE Len(d)) /\ \A i \in 1..Len(v) : v[i] = d[i]
    BY <1>3, <2>1, UpToIs
  <2> QED BY <2>1, <2>2, <2>3
<1>6. PICK a \in Firsts(s) : d[k] = s[a]
  BY <1>4, <1>5, SelectsFrom
<1>7. a \in 1..Len(found)
  BY <1>2, <1>6 DEF Firsts
<1>8. PICK b \in New(said, texts) : found[a] = said[b]
  BY <1>1, <1>7, SelectsFrom
<1>9. b \in 1..Len(said) /\ ~Visible(Neutral(said[b]), texts)
  BY <1>8 DEF New
<1>10. PICK j \in NoEcho(items, q) : said[b] = items[j]
  BY <1>1, <1>9, SelectsFrom
<1>11. j \in 1..Len(items)
  BY <1>10 DEF NoEcho
<1>12. v[k] = FirstLine(items[j]) /\ ~Visible(Neutral(items[j]), texts)
  BY <1>2, <1>5, <1>6, <1>7, <1>8, <1>9, <1>10
<1> QED BY <1>11, <1>12 DEF FromRecall, v, found

LEMMA ChosenFrom ==
    ASSUME NEW st \in Lines, NEW items \in Seq(Seq(Words)), NEW q, NEW texts,
           NEW k \in 1..Len(Chosen(st, items, q, texts))
    PROVE  LET x == Chosen(st, items, q, texts)[k]
           IN  FromStaged(st, texts, x) \/ FromRecall(items, texts, x)
<1> DEFINE u == FilterStagedAgainstWindow(st, texts)
           v == FormatMemories(Found(items, q, texts), RecallLimit, MaxLine)
           c == Candidates(st, items, q, texts)
           l == Chosen(st, items, q, texts)
<1>1. u \in Lines /\ Selects(st, Unseen(st, texts), u)
  BY StagedIs
<1>2. v \in Lines
  BY FoundIs, FormatIs
<1>3. c = u \o v
  BY DEF Candidates
<1>4. c \in Lines /\ l = DedupeLines(c)
  BY ChosenIs DEF Chosen
<1>5. \A i \in 1..Len(v) : FromRecall(items, texts, v[i])
  BY FormatFrom
<1> HIDE DEF u, v, c
<1>6. /\ Len(u) \in Nat /\ Len(v) \in Nat /\ Len(c) = Len(u) + Len(v)
      /\ \A i \in 1..(Len(u) + Len(v)) : c[i] = IF i <= Len(u) THEN u[i] ELSE v[i - Len(u)]
  BY <1>1, <1>2, <1>3, ConcatProperties, LenProperties DEF Lines
<1>7. Selects(c, Firsts(c), l)
  BY <1>4, DedupeIs DEF Lines
<1> HIDE DEF l
<1>8. PICK i \in Firsts(c) : l[k] = c[i]
  <2>1. k \in 1..Len(l)
    BY DEF l
  <2> QED BY <1>7, <2>1, SelectsFrom
<1>9. i \in 1..(Len(u) + Len(v))
  BY <1>6, <1>8 DEF Firsts
<1>10. CASE i <= Len(u)
  <2>1. i \in 1..Len(u) /\ c[i] = u[i]
    BY <1>6, <1>9, <1>10
  <2>2. PICK a \in Unseen(st, texts) : u[i] = st[a]
    BY <1>1, <2>1, SelectsFrom
  <2>3. a \in 1..Len(st) /\ ~Visible(st[a], texts)
    BY <2>2 DEF Unseen
  <2>4. FromStaged(st, texts, l[k])
    BY <1>8, <2>1, <2>2, <2>3 DEF FromStaged
  <2> QED BY <2>4 DEF l
<1>11. CASE ~(i <= Len(u))
  <2>1. i - Len(u) \in 1..Len(v) /\ c[i] = v[i - Len(u)]
    BY <1>6, <1>9, <1>11
  <2>2. FromRecall(items, texts, l[k])
    BY <1>5, <1>8, <2>1
  <2> QED BY <2>2 DEF l
<1> QED BY <1>10, <1>11

(* The body that is cut is made of the same window as the one returned. *)
LEMMA WindowedMade ==
    ASSUME ConvInv
    PROVE  \E w, blk : Made(fmt, client, w, blk, Windowed(body))
<1>1. ClientOf(fmt, client) /\ Rewrites(fmt, client, WindowOf(fmt, body))
  BY PresentedIs DEF ConvInv, Presented
<1>2. WindowOf(fmt, body) = Windowed(body)
  BY DEF WindowOf, Windowed
<1> QED BY <1>1, <1>2, MadeIs

(* No line is injected twice, and none that the rest of the body shows,      *)
(* unless it was cut to the length of a line; and there are no more of them  *)
(* than the limit beside those that were staged.                             *)
THEOREM NothingIsInjectedTwice == Spec => []InjectedOnce
<1>1. ConvInv => InjectedOnce
  <2> SUFFICES ASSUME ConvInv, out # None PROVE InjectedOnce
    BY DEF InjectedOnce
  <2> DEFINE texts == ShownBy(Windowed(body))
             l == Chosen(taken, recalled, Query(body), texts)
  <2>1. lines = l /\ taken \in Lines /\ recalled \in Seq(Seq(Words)) /\ lines \in Lines
    BY DEF ConvInv
  <2>2. IsInjective(lines) /\ Len(lines) <= RecallLimit + Len(taken)
    BY <2>1, ChosenIs
  <2>3. DOMAIN lines = 1..Len(lines) /\ DOMAIN recalled = 1..Len(recalled)
    BY <2>1, LenProperties DEF Lines
  <2>4. ASSUME NEW k \in 1..Len(lines), Visible(lines[k], WithoutBlock(out))
        PROVE  \E j \in 1..Len(recalled) : CutTo(lines[k], recalled[j])
    <3>1. PICK w, blk : Made(fmt, client, w, blk, out)
      BY MadeWith
    <3>2. PICK v, blk0 : Made(fmt, client, v, blk0, Windowed(body))
      BY WindowedMade
    <3>3. v = w /\ out \in Bodies /\ Windowed(body) \in Bodies /\ w \in Bodies
      BY <3>1, <3>2 DEF Made, PutShape, Good
    <3>4. lines[k] \in Seq(Words)
      <4>1. lines[k] \in Seq(Untagged)
        BY <2>1, ElementOfSeq DEF Lines
      <4> QED BY <4>1 DEF Untagged
    <3>5. PICK y \in WithoutBlock(out) : Within(lines[k], y)
      BY <2>4 DEF Visible
    <3>6. Shorn(fmt, out, y)
      BY <3>3, <3>5, ShornIs DEF WithoutBlock, Extracted
    <3>7. Hears(fmt, w, y)
      BY <3>1, <3>6, OutlineIs DEF Outline
    <3>8. Visible(lines[k], MessageTexts(ExtractMessages(fmt, w)))
      BY <3>3, <3>5, <3>7, HearsIs DEF Visible
    <3>9. Visible(lines[k], texts)
      <4>1. Visible(lines[k], MessageTexts(ExtractMessages(fmt, Windowed(body))))
        BY <3>2, <3>3, <3>4, <3>8, StillVisible
      <4> QED BY <4>1 DEF ShownBy, Extracted
    <3>10. FromStaged(taken, texts, lines[k]) \/ FromRecall(recalled, texts, lines[k])
      <4> HIDE DEF texts
      <4> QED BY <2>1, ChosenFrom
    <3>11. PICK j \in 1..Len(recalled) : lines[k] = FirstLine(recalled[j]) /\ ~Visible(Neutral(recalled[j]), texts)
      BY <3>9, <3>10 DEF FromStaged, FromRecall
    <3>12. ~(Len(Neutral(recalled[j])) <= MaxLine)
      <4>1. Neutral(recalled[j]) \in Seq(Untagged) /\ MaxLine \in Nat
        BY <2>1, ElementOfSeq, NeutralIs, SizesAssumption
      <4>2. Len(Neutral(recalled[j])) <= MaxLine => FirstLine(recalled[j]) = Neutral(recalled[j])
        BY <4>1, UpToIs DEF FirstLine, Line
      <4> QED BY <3>9, <3>11, <4>2
    <3>13. Len(Neutral(recalled[j])) > MaxLine
      <4>1. Len(Neutral(recalled[j])) \in Nat /\ MaxLine \in Nat
        BY <2>1, ElementOfSeq, NeutralIs, SizesAssumption, LenProperties
      <4> QED BY <3>12, <4>1
    <3> QED BY <3>11, <3>13 DEF CutTo
  <2> QED BY <2>2, <2>3, <2>4 DEF InjectedOnce
<1> QED BY <1>1, ConvInvHolds, PTL

-----------------------------------------------------------------------------
(* Where a text is in another. *)
StandsAt(t, w, i) == i \in 0..(Len(w) - Len(t)) /\ \A j \in 1..Len(t) : w[i + j] = t[j]

LEMMA WithinAt ==
    ASSUME NEW t \in Seq(Words), NEW w \in Seq(Words)
    PROVE  Within(t, w) <=> \E i : StandsAt(t, w, i)
<1>1. Len(t) \in Nat /\ Len(w) \in Nat
  BY LenProperties
<1>2. ASSUME NEW i \in 0..(Len(w) - Len(t))
      PROVE  SubSeq(w, i + 1, i + Len(t)) = t <=> \A j \in 1..Len(t) : w[i + j] = t[j]
  <2> DEFINE n == (i + Len(t)) - (i + 1) + 1
             s == SubSeq(w, i + 1, i + Len(t))
  <2>1. i + 1 \in Int /\ i + Len(t) \in Int /\ \A j \in (i + 1)..(i + Len(t)) : j \in 1..Len(w)
    BY <1>1
  <2>2. \A j \in (i + 1)..(i + Len(t)) : w[j] \in Words
    BY <2>1, ElementOfSeq
  <2>3. /\ s \in Seq(Words) /\ Len(s) = IF i + 1 <= i + Len(t) THEN n ELSE 0
        /\ \A j \in 1..n : s[j] = w[(i + 1) + j - 1]
    BY <2>1, <2>2, SubSeqProperties
  <2>4. n = Len(t)
    BY <1>1
  <2> HIDE DEF n, s
  <2>5. Len(s) = Len(t)
    BY <1>1, <2>3, <2>4
  <2>6. \A j \in 1..Len(t) : s[j] = w[i + j]
    <3> SUFFICES ASSUME NEW j \in 1..Len(t) PROVE s[j] = w[i + j]
      OBVIOUS
    <3>1. j \in 1..n /\ (i + 1) + j - 1 = i + j
      BY <1>1, <2>4
    <3> QED BY <2>3, <3>1
  <2>7. ASSUME \A j \in 1..Len(t) : w[i + j] = t[j] PROVE s = t
    <3>1. \A j \in 1..Len(t) : s[j] = t[j]
      BY <2>6, <2>7
    <3> QED BY <2>3, <2>5, <3>1, SeqEqual
  <2>8. ASSUME s = t PROVE \A j \in 1..Len(t) : w[i + j] = t[j]
    BY <2>6, <2>8
  <2> QED BY <2>7, <2>8 DEF s
<1>3. ASSUME Within(t, w) PROVE \E i : StandsAt(t, w, i)
  <2>1. PICK i \in 0..(Len(w) - Len(t)) : SubSeq(w, i + 1, i + Len(t)) = t
    BY <1>3 DEF Within
  <2>2. StandsAt(t, w, i)
    BY <1>2, <2>1 DEF StandsAt
  <2> QED BY <2>2
<1>4. ASSUME NEW i, StandsAt(t, w, i) PROVE Within(t, w)
  <2>1. i \in 0..(Len(w) - Len(t)) /\ \A j \in 1..Len(t) : w[i + j] = t[j]
    BY <1>4 DEF StandsAt
  <2> QED BY <1>2, <2>1 DEF Within
<1> QED BY <1>3, <1>4

LEMMA WithinBehind ==
    ASSUME NEW t \in Seq(Words), NEW u \in Seq(Words), NEW v \in Seq(Words), Within(t, v)
    PROVE  Within(t, u \o v)
<1> DEFINE w == u \o v
<1>1. PICK i : StandsAt(t, v, i)
  BY WithinAt
<1>2. /\ w \in Seq(Words) /\ Len(w) = Len(u) + Len(v) /\ Len(u) \in Nat /\ Len(v) \in Nat /\ Len(t) \in Nat
      /\ \A j \in 1..(Len(u) + Len(v)) : w[j] = IF j <= Len(u) THEN u[j] ELSE v[j - Len(u)]
  BY ConcatProperties, LenProperties
<1> HIDE DEF w
<1>3. i \in 0..(Len(v) - Len(t))
  BY <1>1 DEF StandsAt
<1> DEFINE k == Len(u) + i
<1>4. k \in 0..(Len(w) - Len(t))
  BY <1>2, <1>3
<1>5. ASSUME NEW j \in 1..Len(t) PROVE w[k + j] = t[j]
  <2> DEFINE l == k + j
  <2>1. l \in 1..(Len(u) + Len(v)) /\ ~(l <= Len(u)) /\ l - Len(u) = i + j
    BY <1>2, <1>3
  <2> HIDE DEF l, k
  <2>2. w[l] = v[i + j]
    BY <1>2, <2>1
  <2>3. v[i + j] = t[j]
    BY <1>1 DEF StandsAt
  <2> QED BY <2>2, <2>3 DEF l
<1>6. StandsAt(t, w, k)
  BY <1>4, <1>5 DEF StandsAt
<1>7. Within(t, w)
  <2> HIDE DEF k
  <2> QED BY <1>2, <1>6, WithinAt
<1> QED BY <1>7 DEF w

LEMMA WithinItself ==
    ASSUME NEW t \in Seq(Words)
    PROVE  Within(t, t)
<1>1. Len(t) \in Nat
  BY LenProperties
<1>2. StandsAt(t, t, 0)
  <2>1. 0 \in 0..(Len(t) - Len(t)) /\ \A j \in 1..Len(t) : 0 + j = j
    BY <1>1
  <2> QED BY <2>1 DEF StandsAt
<1> QED BY <1>2, WithinAt

(* The head of a text that is visible is visible. *)
LEMMA HeadWithin ==
    ASSUME NEW t \in Seq(Words), NEW n \in Nat, NEW w \in Seq(Words), Within(t, w)
    PROVE  Within(UpTo(t, n), w)
<1> DEFINE s == UpTo(t, n)
<1>1. PICK i : StandsAt(t, w, i)
  BY WithinAt
<1>2. /\ s \in Seq(Words) /\ Len(s) = (IF Len(t) > n THEN n ELSE Len(t))
      /\ \A j \in 1..Len(s) : s[j] = t[j]
  BY UpToIs
<1> HIDE DEF s
<1>3. Len(t) \in Nat /\ Len(w) \in Nat /\ Len(s) \in Nat /\ Len(s) <= Len(t)
  BY <1>2, LenProperties
<1>4. i \in 0..(Len(w) - Len(s))
  BY <1>1, <1>3 DEF StandsAt
<1>5. \A j \in 1..Len(s) : j \in 1..Len(t)
  BY <1>3
<1>6. StandsAt(s, w, i)
  BY <1>1, <1>2, <1>4, <1>5 DEF StandsAt
<1>7. Within(s, w)
  BY <1>2, <1>6, WithinAt
<1> QED BY <1>7 DEF s

(* The block shows its lines. *)
LEMMA LineInBlock ==
    ASSUME NEW ls \in Lines, NEW k \in 1..Len(ls)
    PROVE  Within(ls[k], MemoryBlock(ls)) /\ ls[k] \in Seq(Words) /\ MemoryBlock(ls) \in Seq(Words)
<1> DEFINE f == [i \in DOMAIN ls |-> <<Bullet>> \o ls[i]]
           m == FlattenSeq(f)
           x == ls[k]
<1>1. DOMAIN ls = 1..Len(ls) /\ Len(ls) \in Nat /\ \A i \in 1..Len(ls) : ls[i] \in Seq(Words)
  <2>1. DOMAIN ls = 1..Len(ls) /\ Len(ls) \in Nat /\ \A i \in 1..Len(ls) : ls[i] \in Seq(Untagged)
    BY LenProperties, ElementOfSeq DEF Lines
  <2>2. \A i \in 1..Len(ls) : ls[i] \in Seq(Words)
    BY <2>1 DEF Untagged
  <2> QED BY <2>1, <2>2
<1>2. <<Bullet>> \in Seq(Words) /\ <<Open>> \in Seq(Words) /\ <<Close>> \in Seq(Words)
  BY TagsDiffer DEF Untagged
<1>3. \A i \in 1..Len(ls) : <<Bullet>> \o ls[i] \in Seq(Words)
  BY <1>1, <1>2, ConcatProperties
<1>4. f \in Seq(Seq(Words)) /\ Len(f) = Len(ls) /\ f[k] = <<Bullet>> \o x
  <2>1. f \in [1..Len(ls) -> Seq(Words)]
    BY <1>1, <1>3
  <2>2. f[k] = <<Bullet>> \o x
    BY <1>1
  <2> HIDE DEF f
  <2> QED BY <1>1, <2>1, <2>2, FunctionIsSeq
<1>5. MemoryBlock(ls) = (<<Open>> \o m) \o <<Close>>
  <2>1. ls # << >>
    BY <1>1
  <2> QED BY <2>1 DEF MemoryBlock
<1>6. x \in Seq(Words)
  BY <1>1
<1> HIDE DEF f, x
<1>7. PICK a, b : Around(Words, f, k, a, b)
  BY <1>4, FlattenAround
<1>8. a \in Seq(Words) /\ b \in Seq(Words) /\ m = a \o (f[k] \o b)
  BY <1>7 DEF Around
<1>9. Within(x, f[k]) /\ f[k] \in Seq(Words)
  <2>1. Within(x, x)
    BY <1>6, WithinItself
  <2>2. Within(x, <<Bullet>> \o x)
    BY <1>2, <1>6, <2>1, WithinBehind
  <2>3. <<Bullet>> \o x \in Seq(Words)
    BY <1>3 DEF x
  <2> QED BY <1>4, <2>2, <2>3
<1> HIDE DEF m
<1>10. PICK y \in Seq(Words) : y = f[k] \o b
  BY <1>8, <1>9, ConcatProperties
<1>11. Within(x, y)
  BY <1>6, <1>8, <1>9, <1>10, WithinLonger
<1>12. Within(x, m) /\ m \in Seq(Words)
  <2>1. Within(x, a \o y) /\ a \o y \in Seq(Words)
    BY <1>6, <1>8, <1>11, WithinBehind, ConcatProperties
  <2> QED BY <1>8, <1>10, <2>1
<1>13. PICK z \in Seq(Words) : z = <<Open>> \o m
  BY <1>2, <1>12, ConcatProperties
<1>14. Within(x, z)
  BY <1>2, <1>6, <1>12, <1>13, WithinBehind
<1>15. Within(x, z \o <<Close>>) /\ z \o <<Close>> \in Seq(Words)
  BY <1>2, <1>6, <1>14, WithinLonger, ConcatProperties
<1> QED BY <1>5, <1>6, <1>13, <1>15 DEF x

(* Every line that is returned is shown. *)
LEMMA LineShown ==
    ASSUME ConvInv, out # None, NEW k \in 1..Len(lines)
    PROVE  Visible(lines[k], ShownBy(out))
<1>1. PICK w, blk : Made(fmt, client, w, blk, out) /\ (lines # << >> => blk = MemoryBlock(lines))
  BY MadeWith
<1>2. lines \in Lines
  BY DEF ConvInv
<1>3. lines # << >>
  BY <1>2 DEF Lines
<1>4. IsBlock(blk) /\ blk = MemoryBlock(lines) /\ out \in Bodies
  BY <1>1, <1>2, <1>3, BlockOfLines DEF Made, PutShape
<1>5. blk # << >>
  BY <1>4 DEF IsBlock
<1>6. PICK u : NoOpen(u) /\ Hears(fmt, out, u \o blk)
  BY <1>1, <1>5, OutlineIs DEF Outline
<1>7. u \in Seq(Words) /\ Within(lines[k], blk) /\ lines[k] \in Seq(Words) /\ blk \in Seq(Words)
  BY <1>2, <1>4, <1>6, LineInBlock DEF NoOpen
<1>8. Within(lines[k], u \o blk)
  BY <1>7, WithinBehind
<1>9. u \o blk \in MessageTexts(ExtractMessages(fmt, out))
  BY <1>4, <1>6, HearsIs
<1> QED BY <1>8, <1>9 DEF Visible, ShownBy, Extracted

(* All that there is to choose from is chosen. *)
AllFrom(st, items, q, texts) ==
    LET u == FilterStagedAgainstWindow(st, texts)
        v == FormatMemories(Found(items, q, texts), RecallLimit, MaxLine)
        l == Chosen(st, items, q, texts)
    IN  /\ \A i \in 1..Len(u) : \E k \in 1..Len(l) : l[k] = u[i]
        /\ \A i \in 1..Len(v) : \E k \in 1..Len(l) : l[k] = v[i]

LEMMA AllChosen ==
    ASSUME NEW st \in Lines, NEW items \in Seq(Seq(Words)), NEW q, NEW texts
    PROVE  AllFrom(st, items, q, texts)
<1> DEFINE u == FilterStagedAgainstWindow(st, texts)
           v == FormatMemories(Found(items, q, texts), RecallLimit, MaxLine)
           c == Candidates(st, items, q, texts)
           l == Chosen(st, items, q, texts)
<1>1. u \in Lines
  BY StagedIs
<1>2. v \in Lines
  BY FoundIs, FormatIs
<1>3. c = u \o v
  BY DEF Candidates
<1>4. c \in Lines /\ l = DedupeLines(c)
  BY ChosenIs DEF Chosen
<1> HIDE DEF u, v, c
<1>5. /\ Len(u) \in Nat /\ Len(v) \in Nat /\ Len(c) = Len(u) + Len(v)
      /\ \A i \in 1..(Len(u) + Len(v)) : c[i] = IF i <= Len(u) THEN u[i] ELSE v[i - Len(u)]
  BY <1>1, <1>2, <1>3, ConcatProperties, LenProperties DEF Lines
<1>6. Selects(c, Firsts(c), l) /\ \A i \in 1..Len(c) : \E j \in Firsts(c) : j <= i /\ c[j] = c[i]
  BY <1>4, DedupeIs DEF Lines
<1> HIDE DEF l
<1>7. ASSUME NEW i \in 1..Len(c) PROVE \E k \in 1..Len(l) : l[k] = c[i]
  <2>1. PICK j \in Firsts(c) : c[j] = c[i]
    BY <1>6
  <2>2. PICK p : Traced(c, l, j, p)
    BY <1>6, <2>1, SelectsTraced
  <2> QED BY <2>1, <2>2 DEF Traced
<1>8. ASSUME NEW i \in 1..Len(u) PROVE \E k \in 1..Len(l) : l[k] = u[i]
  <2>1. i \in 1..(Len(u) + Len(v)) /\ i <= Len(u)
    BY <1>5
  <2>2. i \in 1..Len(c) /\ c[i] = u[i]
    BY <1>5, <2>1
  <2> QED BY <1>7, <2>2
<1>9. ASSUME NEW i \in 1..Len(v) PROVE \E k \in 1..Len(l) : l[k] = v[i]
  <2> DEFINE j == Len(u) + i
  <2>1. j \in 1..(Len(u) + Len(v)) /\ ~(j <= Len(u)) /\ j - Len(u) = i
    BY <1>5
  <2> HIDE DEF j
  <2>2. j \in 1..Len(c) /\ c[j] = v[i]
    BY <1>5, <2>1
  <2>3. PICK k \in 1..Len(l) : l[k] = c[j]
    BY <1>7, <2>2
  <2> QED BY <2>2, <2>3
<1> QED BY <1>8, <1>9 DEF AllFrom, u, v, l

(* The better ones: lines of what was recalled before the k-th. *)
Better(items, k) == {FirstLine(items[j]) : j \in 1..(k - 1)}

(* What is new is a line, or a full number of better ones is. *)
LEMMA NewIsFormatted ==
    ASSUME NEW items \in Seq(Seq(Words)), NEW q, NEW texts, NEW k \in 1..Len(items),
           ~Echoes(items[k], q), Neutral(items[k]) # << >>, ~Visible(Neutral(items[k]), texts)
    PROVE  LET v == FormatMemories(Found(items, q, texts), RecallLimit, MaxLine)
           IN  \/ \E r \in 1..Len(v) : v[r] = FirstLine(items[k])
               \/ /\ Len(v) = RecallLimit /\ IsInjective(v)
                  /\ \A r \in 1..Len(v) : v[r] \in Better(items, k)
<1> DEFINE said == DropQueryEchoes(items, q)
           found == Found(items, q, texts)
           s == Shortened(found)
           d == DedupeLines(s)
           v == FormatMemories(found, RecallLimit, MaxLine)
<1>1. /\ Selects(items, NoEcho(items, q), said) /\ said \in Seq(Seq(Words))
      /\ Selects(said, New(said, texts), found) /\ found \in Seq(Seq(Words))
  BY FoundIs
<1> HIDE DEF said, found
<1>2. s \in Lines /\ Len(s) = Len(found) /\ Len(found) \in Nat /\ \A i \in 1..Len(found) : s[i] = FirstLine(found[i])
  BY <1>1, ShortenedIs
<1>3. v = UpTo(d, RecallLimit) /\ d \in Lines
  BY <1>1, FormatIs
<1> HIDE DEF s, v
<1>4. /\ Selects(s, Firsts(s), d) /\ IsInjective(d)
      /\ \A i \in 1..Len(s) : \E j \in Firsts(s) : j <= i /\ s[j] = s[i]
  BY <1>2, DedupeIs DEF Lines
<1> HIDE DEF d
<1>5. k \in NoEcho(items, q)
  BY DEF NoEcho
<1>6. PICK a : Traced(items, said, k, a)
  BY <1>1, <1>5, SelectsTraced
<1>7. a \in New(said, texts)
  BY <1>6 DEF Traced, New
<1>8. PICK b : Traced(said, found, a, b)
  BY <1>1, <1>7, SelectsTraced
<1>9. b \in 1..Len(s) /\ s[b] = FirstLine(items[k])
  BY <1>2, <1>6, <1>8 DEF Traced
<1>10. PICK c \in Firsts(s) : c <= b /\ s[c] = s[b]
  BY <1>4, <1>9
<1>11. PICK p : Traced(s, d, c, p)
  BY <1>4, <1>10, SelectsTraced
<1>12. p \in 1..Len(d) /\ d[p] = FirstLine(items[k])
  BY <1>9, <1>10, <1>11 DEF Traced
<1>13. ASSUME NEW r \in 1..(p - 1) PROVE d[r] \in Better(items, k)
  <2>1. PICK c1 \in 1..(c - 1) : d[r] = s[c1]
    BY <1>11 DEF Traced
  <2>2. c1 \in 1..(b - 1) /\ c1 \in 1..Len(found)
    <3>1. c \in 1..Len(s) /\ b \in 1..Len(s) /\ Len(s) \in Nat
      BY <1>2, <1>9, <1>10 DEF Firsts
    <3> QED BY <1>2, <1>10, <3>1
  <2>3. PICK a1 \in 1..(a - 1) : found[c1] = said[a1]
    BY <1>8, <2>2 DEF Traced
  <2>4. PICK k1 \in 1..(k - 1) : said[a1] = items[k1]
    BY <1>6, <2>3 DEF Traced
  <2>5. d[r] = FirstLine(items[k1])
    BY <1>2, <2>1, <2>2, <2>3, <2>4
  <2> QED BY <2>5 DEF Better
<1>14. RecallLimit \in Nat /\ Len(d) \in Nat /\ d \in Seq(Seq(Untagged)) /\ DOMAIN d = 1..Len(d)
  BY <1>3, SizesAssumption, LenProperties DEF Lines
<1>15. /\ Len(v) = (IF Len(d) > RecallLimit THEN RecallLimit ELSE Len(d)) /\ \A i \in 1..Len(v) : v[i] = d[i]
       /\ DOMAIN v = 1..Len(v)
  <2>1. v \in Seq(Seq(Untagged)) /\ Len(v) = (IF Len(d) > RecallLimit THEN RecallLimit ELSE Len(d))
        /\ \A i \in 1..Len(v) : v[i] = d[i]
    BY <1>3, <1>14, UpToIs
  <2> QED BY <2>1, LenProperties
<1>16. CASE p <= Len(v)
  <2>1. p \in 1..Len(v) /\ v[p] = FirstLine(items[k])
    BY <1>12, <1>14, <1>15, <1>16
  <2> QED BY <2>1 DEF v, found
<1>17. CASE ~(p <= Len(v))
  <2>1. Len(v) = RecallLimit /\ Len(v) <= Len(d) /\ \A r \in 1..Len(v) : r \in 1..(p - 1) /\ r \in 1..Len(d)
    BY <1>12, <1>14, <1>15, <1>17
  <2>2. \A r \in 1..Len(v) : v[r] \in Better(items, k)
    BY <1>13, <1>15, <2>1
  <2>3. IsInjective(v)
    <3>1. \A r, t \in 1..Len(v) : v[r] = v[t] => r = t
      BY <1>4, <1>14, <1>15, <2>1 DEF IsInjective
    <3> QED BY <1>15, <3>1 DEF IsInjective
  <2> QED BY <2>1, <2>2, <2>3 DEF v, found
<1> QED BY <1>16, <1>17

LEMMA FullNumber ==
    ASSUME NEW v, NEW S, Len(v) \in Nat, DOMAIN v = 1..Len(v), IsInjective(v), IsFiniteSet(S), \A r \in 1..Len(v) : v[r] \in S
    PROVE  Cardinality(S) >= Len(v)
<1> DEFINE n == Len(v)
           g == [r \in 1..n |-> v[r]]
<1>1. g \in [1..n -> S] /\ \A r, t \in 1..n : g[r] = g[t] => r = t
  BY DEF IsInjective
<1>2. g \in Injection(1..n, S)
  <2> HIDE DEF g
  <2> QED BY <1>1 DEF Injection, IsInjective
<1>3. Cardinality(1..n) = n
  <2>1. 1 \in Int /\ n \in Int /\ n >= 0
    OBVIOUS
  <2>2. Cardinality(1..n) = IF 1 > n THEN 0 ELSE n - 1 + 1
    BY <2>1, FS_Interval
  <2> QED BY <2>1, <2>2
<1> HIDE DEF n, g
<1>4. Cardinality(1..n) <= Cardinality(S) /\ Cardinality(S) \in Nat
  BY <1>2, FS_Injection, FS_CardinalityType
<1> QED BY <1>3, <1>4 DEF n

LEMMA RangeFinite ==
    ASSUME NEW v, Len(v) \in Nat, DOMAIN v = 1..Len(v)
    PROVE  IsFiniteSet(Range(v))
<1> DEFINE n == Len(v)
           g == [r \in 1..n |-> v[r]]
           R == Range(v)
<1>1. g \in [1..n -> R] /\ \A x \in R : \E r \in 1..n : g[r] = x
  BY DEF Range
<1>2. g \in Surjection(1..n, R)
  <2> HIDE DEF g, R
  <2> QED BY <1>1 DEF Surjection
<1>3. IsFiniteSet(1..n)
  BY FS_Interval
<1> HIDE DEF n, g, R
<1>4. IsFiniteSet(R)
  BY <1>2, <1>3, FS_Surjection
<1> QED BY <1>4 DEF R

(* What is recalled or was staged reaches the model of a client's body, by   *)
(* the block or by the window, unless it echoes the query or a full number   *)
(* of better ones displaced it.                                              *)
THEOREM WhatIsRecalledIsShown == Spec => []RecallShown
<1>1. ConvInv => RecallShown
  <2> SUFFICES ASSUME ConvInv, out # None, body = client PROVE RecallReaches
    BY DEF RecallShown
  <2> DEFINE texts == ShownBy(Windowed(body))
             q == Query(body)
             u == FilterStagedAgainstWindow(taken, texts)
             v == FormatMemories(Found(recalled, q, texts), RecallLimit, MaxLine)
             shown == ShownBy(out)
  <2>1. lines = Chosen(taken, recalled, q, texts) /\ taken \in Lines /\ recalled \in Seq(Seq(Words)) /\ lines \in Lines
    BY DEF ConvInv
  <2>2. /\ \A i \in 1..Len(u) : \E k \in 1..Len(lines) : lines[k] = u[i]
        /\ \A i \in 1..Len(v) : \E k \in 1..Len(lines) : lines[k] = v[i]
    <3> HIDE DEF texts, q
    <3>1. AllFrom(taken, recalled, q, texts)
      BY <2>1, AllChosen
    <3> QED BY <2>1, <3>1 DEF AllFrom
  <2>3. \A k \in 1..Len(lines) : Visible(lines[k], shown)
    BY LineShown
  <2>4. ASSUME NEW t \in Seq(Words), Visible(t, texts) PROVE Visible(t, shown)
    <3>1. PICK w, blk : Made(fmt, client, w, blk, out)
      BY MadeWith
    <3>2. Windowed(body) = w
      BY <3>1 DEF Made, Windowed, WindowOf
    <3>3. Visible(t, MessageTexts(ExtractMessages(fmt, w)))
      BY <2>4, <3>2 DEF ShownBy, Extracted
    <3>4. Visible(t, MessageTexts(ExtractMessages(fmt, out)))
      BY <3>1, <3>3, StillVisible
    <3> QED BY <3>4 DEF ShownBy, Extracted
  <2>5. DOMAIN taken = 1..Len(taken) /\ DOMAIN recalled = 1..Len(recalled) /\ DOMAIN lines = 1..Len(lines) /\ Len(lines) \in Nat
    BY <2>1, LenProperties DEF Lines
  <2>6. \A t : t \in Seq(Untagged) => t \in Seq(Words)
    BY DEF Untagged
  <2>7. Selects(taken, Unseen(taken, texts), u)
    <3> HIDE DEF texts
    <3> QED BY <2>1, StagedIs
  <2> HIDE DEF texts, q, u, v, shown
  <2>8. ASSUME NEW k \in 1..Len(taken) PROVE Visible(taken[k], shown)
    <3>1. CASE Visible(taken[k], texts)
      <4>1. taken[k] \in Seq(Words)
        BY <2>1, <2>6, ElementOfSeq DEF Lines
      <4> QED BY <2>4, <3>1, <4>1
    <3>2. CASE ~Visible(taken[k], texts)
      <4>1. k \in Unseen(taken, texts)
        BY <3>2 DEF Unseen
      <4>2. PICK p : Traced(taken, u, k, p)
        BY <2>7, <4>1, SelectsTraced
      <4>3. PICK j \in 1..Len(lines) : lines[j] = taken[k]
        BY <2>2, <4>2 DEF Traced
      <4> QED BY <2>3, <4>3
    <3> QED BY <3>1, <3>2
  <2>9. ASSUME NEW k \in 1..Len(recalled), ~Echoes(recalled[k], q), Neutral(recalled[k]) # << >>, ~Visible(FirstLine(recalled[k]), shown)
        PROVE  Cardinality(Better(recalled, k) \cap Range(lines)) >= RecallLimit
    <3>1. recalled[k] \in Seq(Words) /\ Neutral(recalled[k]) \in Seq(Untagged) /\ FirstLine(recalled[k]) \in Seq(Words)
      BY <2>1, <2>6, ElementOfSeq, NeutralIs, LineIs
    <3>2. ~Visible(Neutral(recalled[k]), texts)
      <4> SUFFICES ASSUME Visible(Neutral(recalled[k]), texts) PROVE Visible(FirstLine(recalled[k]), texts)
        BY <2>4, <2>9, <3>1
      <4>1. PICK y \in texts : Within(Neutral(recalled[k]), y)
        BY DEF Visible
      <4>2. y \in Seq(Words)
        <5>1. PICK w, blk : Made(fmt, client, w, blk, Windowed(body))
          BY WindowedMade
        <5>2. Windowed(body) \in Bodies
          BY <5>1 DEF Made, PutShape
        <5>3. Hears(fmt, Windowed(body), y)
          BY <4>1, <5>2, HearsIs DEF texts, ShownBy, Extracted
        <5> QED BY <5>2, <5>3, HearsType
      <4>3. FirstLine(recalled[k]) = UpTo(Neutral(recalled[k]), MaxLine) /\ MaxLine \in Nat
        BY SizesAssumption DEF FirstLine, Line
      <4>4. Neutral(recalled[k]) \in Seq(Words)
        BY <2>6, <3>1
      <4>5. Within(FirstLine(recalled[k]), y)
        BY <4>1, <4>2, <4>3, <4>4, HeadWithin
      <4> QED BY <4>1, <4>5 DEF Visible
    <3>3. \/ \E r \in 1..Len(v) : v[r] = FirstLine(recalled[k])
          \/ /\ Len(v) = RecallLimit /\ IsInjective(v)
             /\ \A r \in 1..Len(v) : v[r] \in Better(recalled, k)
      BY <2>1, <2>9, <3>2, NewIsFormatted DEF v
    <3>4. ~ \E r \in 1..Len(v) : v[r] = FirstLine(recalled[k])
      BY <2>2, <2>3, <2>9
    <3> DEFINE S == Better(recalled, k) \cap Range(lines)
    <3>5. \A r \in 1..Len(v) : v[r] \in S
      <4> SUFFICES ASSUME NEW r \in 1..Len(v) PROVE v[r] \in Range(lines)
        BY <3>3, <3>4
      <4>1. PICK j \in 1..Len(lines) : lines[j] = v[r]
        BY <2>2
      <4> QED BY <2>5, <4>1 DEF Range
    <3>6. IsFiniteSet(S)
      <4>1. IsFiniteSet(Range(lines))
        BY <2>5, RangeFinite
      <4> QED BY <4>1, FS_Subset
    <3>7. Len(v) \in Nat /\ DOMAIN v = 1..Len(v)
      <4>1. v \in Lines
        BY <2>1, FoundIs, FormatIs DEF v
      <4> QED BY <4>1, LenProperties DEF Lines
    <3> HIDE DEF S
    <3>8. Cardinality(S) >= Len(v)
      BY <3>3, <3>4, <3>5, <3>6, <3>7, FullNumber
    <3> QED BY <3>3, <3>4, <3>8 DEF S
  <2> QED BY <2>5, <2>8, <2>9 DEF RecallReaches, Better, q, shown
<1> QED BY <1>1, ConvInvHolds, PTL

-----------------------------------------------------------------------------
(* The i-th message of the client, as the handler extracts it. *)
Entry(i) == [role |-> client.messages[i].role, text |-> MessageText(fmt, client.messages[i])]

(* What may be stored of the client's history is stored. *)
Remembered == \A i \in DOMAIN client.messages : Ingestible(Entry(i)) => Ingested(Entry(i).text) \in memory

(* It is once a request of the present history has been handled; only then  *)
(* has the host another body than the client's to send again.               *)
HistoryInv ==
    /\ fmt \in Formats
    /\ client \in Bodies
    /\ out # None \/ body # client => Remembered

(* A conversation that a turn is appended to is a body. *)
LEMMA LongerBody ==
    ASSUME NEW M, NEW C, NEW b \in [slot : C, messages : Seq(M)], NEW turn \in Seq(M)
    PROVE  [b EXCEPT !.messages = @ \o turn] \in [slot : C, messages : Seq(M)]
<1>1. b.messages \o turn \in Seq(M)
  BY ConcatProperties
<1> QED BY <1>1

(* The messages are among what is extracted, behind the system prompt. *)
LEMMA ExtractedIs ==
    ASSUME client \in Bodies, NEW i \in DOMAIN client.messages
    PROVE  \E j \in DOMAIN Extracted(client) : Extracted(client)[j] = Entry(i)
<1> DEFINE system == ContentText(client.slot.parts)
           head   == IF system = << >> THEN << >> ELSE <<[role |-> "system", text |-> system]>>
           msgs   == client.messages
           said   == [k \in DOMAIN msgs |-> [role |-> msgs[k].role, text |-> MessageText(fmt, msgs[k])]]
           S      == {said[k] : k \in DOMAIN msgs} \cup {[role |-> "system", text |-> system]}
<1>1. msgs \in Seq(Messages) /\ DOMAIN msgs = 1..Len(msgs) /\ Len(msgs) \in Nat
  BY DEF Bodies
<1>2. Extracted(client) = head \o said
  BY DEF Extracted, ExtractMessages
<1>3. said[i] = Entry(i)
  BY DEF Entry
<1> HIDE DEF msgs, system
<1>4. head \in Seq(S) /\ said \in Seq(S) /\ Len(said) = Len(msgs)
  <2>1. head \in Seq(S)
    BY UnitIsSeq
  <2>2. said \in [1..Len(msgs) -> S]
    <3>1. \A k \in DOMAIN msgs : said[k] \in S
      OBVIOUS
    <3> HIDE DEF S
    <3> QED BY <1>1, <3>1
  <2> HIDE DEF S, said, head
  <2> QED BY <1>1, <2>1, <2>2, FunctionIsSeq
<1>5. i \in 1..Len(said)
  BY <1>1, <1>4 DEF msgs
<1> HIDE DEF head, said, S
<1>6. /\ Len(head) \in Nat /\ Len(head \o said) = Len(head) + Len(said)
      /\ DOMAIN (head \o said) = 1..(Len(head) + Len(said))
      /\ (head \o said)[Len(head) + i] = said[i]
  BY <1>4, <1>5
<1>7. Len(head) + i \in DOMAIN (head \o said)
  BY <1>4, <1>5, <1>6
<1> QED BY <1>2, <1>3, <1>6, <1>7

LEMMA HandlerRemembers ==
    ASSUME HistoryInv, HandleRequestBeforeAuth
    PROVE  Remembered'
<1>1. memory \subseteq memory' /\ fmt' = fmt /\ client' = client
  BY DEF HandleRequestBeforeAuth, Stored
<1>2. \A i \in DOMAIN client.messages : Entry(i)' = Entry(i)
  BY <1>1 DEF Entry
<1>3. CASE Remembered
  BY <1>1, <1>2, <1>3 DEF Remembered
<1>4. CASE ~Remembered
  <2>1. body = client
    BY <1>4 DEF HistoryInv
  <2>2. \A t \in Texts(Extracted(client)) : Ingested(t) \in memory'
    BY <2>1 DEF HandleRequestBeforeAuth, Stored
  <2>3. ASSUME NEW i \in DOMAIN client.messages, Ingestible(Entry(i)) PROVE Ingested(Entry(i).text) \in memory'
    <3>1. PICK j \in DOMAIN Extracted(client) : Extracted(client)[j] = Entry(i)
      BY ExtractedIs DEF HistoryInv
    <3>2. Entry(i).text \in Texts(Extracted(client))
      BY <2>3, <3>1 DEF Texts
    <3> QED BY <2>2, <3>2
  <2> QED BY <1>1, <1>2, <2>3 DEF Remembered, Ingestible
<1> QED BY <1>3, <1>4

LEMMA HistoryInvHolds == Spec => []HistoryInv
<1>1. Init => HistoryInv
  BY BodiesAssumption DEF Init, HistoryInv
<1>2. HistoryInv /\ [Next]_vars => HistoryInv'
  <2> SUFFICES ASSUME HistoryInv, [Next]_vars PROVE HistoryInv'
    OBVIOUS
  <2>1. CASE HandleRequestBeforeAuth
    <3>1. fmt' = fmt /\ client' = client
      BY <2>1 DEF HandleRequestBeforeAuth
    <3> QED BY <2>1, <3>1, HandlerRemembers DEF HistoryInv
  <2>2. ASSUME UNCHANGED <<fmt, client, memory>>, Remembered PROVE Remembered'
    BY <2>2 DEF Remembered, Entry, Ingestible
  <2>3. CASE GateStages
    BY <2>2, <2>3 DEF GateStages, HistoryInv
  <2>4. CASE Retry
    BY <2>2, <2>4 DEF Retry, NoRequest, HistoryInv
  <2>5. CASE NextTurn
    <3>1. PICK turn \in Turns[fmt] : client' = [client EXCEPT !.messages = @ \o turn]
      BY <2>5 DEF NextTurn
    <3>2. turn \in Seq(Messages)
      BY <3>1, BodiesAssumption DEF HistoryInv
    <3>3. client' \in Bodies
      BY <3>1, <3>2, LongerBody DEF HistoryInv, Bodies
    <3> QED BY <2>5, <3>3 DEF NextTurn, NoRequest, HistoryInv
  <2>6. CASE UNCHANGED vars
    BY <2>2, <2>6 DEF vars, HistoryInv
  <2> QED BY <2>1, <2>3, <2>4, <2>5, <2>6 DEF Next
<1> QED BY <1>1, <1>2, PTL DEF Spec

(* What the window cuts from a request is in memory, or the head of it that *)
(* is stored of a large text, whichever body of the conversation the host   *)
(* presents and however short the window is: the handler stores the history *)
(* before it cuts it (intercept.go:56-58, 84-85, 802-805).                   *)
THEOREM CutsAreStored == Spec => []CutIsStored
<1>1. HistoryInv => CutIsStored
  BY DEF HistoryInv, Remembered, Entry, CutIsStored
<1> QED BY <1>1, HistoryInvHolds, PTL
=============================================================================
