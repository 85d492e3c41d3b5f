----------------------------- MODULE DataLemmas -----------------------------
(***************************************************************************)
(* What several proofs need of sets, sums and sequences.  Tally(I, w) is   *)
(* the sum of the weights w[i] of the members i of a finite set I, as the  *)
(* cardinality of a set with w[i] marks for each i; the lemmas say how it  *)
(* changes when weights and members do.  Loops(g, from, f, s, n) says that *)
(* g holds what a loop over s computes, step by step, and Counts the same  *)
(* of a loop over 1..n.                                                    *)
(***************************************************************************)
EXTENDS Integers, FiniteSets, Sequences, SequencesExt, FiniteSetTheorems, FunctionTheorems, SequenceTheorems,
        WellFoundedInduction, TLAPS

TallyMarks(I, w) == UNION {{i} \X (1..w[i]) : i \in I}
Tally(I, w) == Cardinality(TallyMarks(I, w))

LEMMA UpTo ==
    ASSUME NEW n \in Nat
    PROVE  IsFiniteSet(1..n) /\ Cardinality(1..n) = n
<1>1. 1 \in Int /\ n \in Int
  OBVIOUS
<1>2. /\ IsFiniteSet(1..n)
      /\ Cardinality(1..n) = IF 1 > n THEN 0 ELSE n - 1 + 1
  BY <1>1, FS_Interval
<1> QED BY <1>2

LEMMA One == ASSUME NEW x PROVE IsFiniteSet({x}) /\ Cardinality({x}) = 1
BY FS_Singleton

LEMMA MarksAre ==
    ASSUME NEW I, NEW w \in [I -> Nat], NEW x
    PROVE  x \in TallyMarks(I, w) <=> \E i \in I : \E k \in 1..w[i] : x = <<i, k>>
BY DEF TallyMarks

LEMMA TallyType ==
    ASSUME NEW I, IsFiniteSet(I), NEW w \in [I -> Nat]
    PROVE  IsFiniteSet(TallyMarks(I, w)) /\ Tally(I, w) \in Nat
<1> DEFINE row == [i \in I |-> {i} \X (1..w[i])]
           Rows == {row[i] : i \in I}
<1>1. IsFiniteSet(Rows)
  <2>1. row \in Surjection(I, Rows)
    BY Fun_IsSurj
  <2> QED BY <2>1, FS_Surjection
<1>2. \A R \in Rows : IsFiniteSet(R)
  <2> SUFFICES ASSUME NEW i \in I PROVE IsFiniteSet({i} \X (1..w[i]))
    OBVIOUS
  <2>1. IsFiniteSet({i}) /\ IsFiniteSet(1..w[i])
    BY One, UpTo
  <2> QED BY <2>1, FS_Product
<1>3. IsFiniteSet(UNION Rows)
  BY <1>1, <1>2, FS_UNION
<1>4. TallyMarks(I, w) = UNION Rows
  BY DEF TallyMarks
<1> QED BY <1>3, <1>4, FS_CardinalityType DEF Tally

\* Disjoint sets are tallied apart.
LEMMA TallyUnion ==
    ASSUME NEW I, NEW J, IsFiniteSet(I), IsFiniteSet(J), I \cap J = {},
           NEW w \in [I \union J -> Nat]
    PROVE  Tally(I \union J, w) = Tally(I, w) + Tally(J, w)
<1>1. TallyMarks(I \union J, w) = TallyMarks(I, w) \union TallyMarks(J, w)
  BY DEF TallyMarks
<1>2. TallyMarks(I, w) \cap TallyMarks(J, w) = {}
  BY DEF TallyMarks
<1>3. IsFiniteSet(TallyMarks(I, w)) /\ IsFiniteSet(TallyMarks(J, w))
  <2> DEFINE u == [i \in I |-> w[i]]
             v == [j \in J |-> w[j]]
  <2>1. TallyMarks(I, u) = TallyMarks(I, w) /\ TallyMarks(J, v) = TallyMarks(J, w)
    BY DEF TallyMarks
  <2>2. u \in [I -> Nat] /\ v \in [J -> Nat]
    OBVIOUS
  <2> HIDE DEF u, v
  <2> QED BY <2>1, <2>2, TallyType
<1>4. /\ Cardinality(TallyMarks(I, w)) \in Nat /\ Cardinality(TallyMarks(J, w)) \in Nat
      /\ Cardinality(TallyMarks(I, w) \cap TallyMarks(J, w)) = 0
  BY <1>2, <1>3, FS_CardinalityType, FS_EmptySet
<1>5. Cardinality(TallyMarks(I, w) \union TallyMarks(J, w)) =
          Cardinality(TallyMarks(I, w)) + Cardinality(TallyMarks(J, w)) - Cardinality(TallyMarks(I, w) \cap TallyMarks(J, w))
  BY <1>3, FS_Union
<1>6. Cardinality(TallyMarks(I, w) \union TallyMarks(J, w)) = Cardinality(TallyMarks(I, w)) + Cardinality(TallyMarks(J, w))
  BY <1>4, <1>5
<1>7. Cardinality(TallyMarks(I \union J, w)) = Cardinality(TallyMarks(I, w)) + Cardinality(TallyMarks(J, w))
  BY <1>1, <1>6
<1> QED BY <1>7 DEF Tally

\* J is I renumbered by n, with the same weights.
Renumbered(I, w, J, v, n) ==
    /\ IsFiniteSet(I) /\ I \subseteq Int /\ J \subseteq Int /\ n \in Int
    /\ w \in [I -> Nat] /\ v \in [J -> Nat]
    /\ \A i \in I : i - n \in J /\ v[i - n] = w[i]
    /\ \A j \in J : n + j \in I

LEMMA TallyShift ==
    ASSUME NEW I, NEW w, NEW J, NEW v, NEW n, Renumbered(I, w, J, v, n)
    PROVE  Tally(J, v) = Tally(I, w)
<1>1. /\ IsFiniteSet(I) /\ I \subseteq Int /\ J \subseteq Int /\ n \in Int
      /\ w \in [I -> Nat] /\ v \in [J -> Nat]
  BY DEF Renumbered
<1> DEFINE f == [x \in TallyMarks(I, w) |-> <<x[1] - n, x[2]>>]
<1>2. /\ \A i \in I : i - n \in J /\ v[i - n] = w[i] /\ (i - n) + n = i
      /\ \A j \in J : n + j \in I /\ (n + j) - n = j
  BY <1>1 DEF Renumbered
<1>3. \A x \in TallyMarks(I, w) : \E i \in I : \E c \in 1..w[i] : x = <<i, c>> /\ f[x] = <<i - n, c>>
  <2> SUFFICES ASSUME NEW x \in TallyMarks(I, w)
               PROVE  \E i \in I : \E c \in 1..w[i] : x = <<i, c>> /\ f[x] = <<i - n, c>>
    OBVIOUS
  <2>1. \E i \in I : \E c \in 1..w[i] : x = <<i, c>>
    BY DEF TallyMarks
  <2>2. f[x] = <<x[1] - n, x[2]>>
    OBVIOUS
  <2> QED BY <2>1, <2>2
<1>4. f \in [TallyMarks(I, w) -> TallyMarks(J, v)]
  <2> SUFFICES ASSUME NEW i \in I, NEW c \in 1..w[i] PROVE <<i - n, c>> \in TallyMarks(J, v)
    BY <1>3
  <2>1. i - n \in J /\ c \in 1..v[i - n]
    BY <1>2
  <2> QED BY <2>1 DEF TallyMarks
<1>5. \A x, y \in TallyMarks(I, w) : f[x] = f[y] => x = y
  <2> SUFFICES ASSUME NEW x \in TallyMarks(I, w), NEW y \in TallyMarks(I, w), f[x] = f[y] PROVE x = y
    OBVIOUS
  <2>1. PICK i \in I : \E c \in 1..w[i] : x = <<i, c>> /\ f[x] = <<i - n, c>>
    BY <1>3
  <2>2. PICK j \in I : \E c \in 1..w[j] : y = <<j, c>> /\ f[y] = <<j - n, c>>
    BY <1>3
  <2>3. i - n = j - n /\ x[2] = y[2] /\ x = <<i, x[2]>> /\ y = <<j, y[2]>>
    BY <2>1, <2>2
  <2>4. i = j
    BY <1>2, <2>3
  <2> QED BY <2>3, <2>4
<1>6. \A y \in TallyMarks(J, v) : \E x \in TallyMarks(I, w) : f[x] = y
  <2> TAKE y \in TallyMarks(J, v)
  <2>1. PICK j \in J : \E c \in 1..v[j] : y = <<j, c>>
    BY DEF TallyMarks
  <2>2. PICK c \in 1..v[j] : y = <<j, c>>
    BY <2>1
  <2>3. n + j \in I /\ (n + j) - n = j /\ w[n + j] = v[j]
    BY <1>2
  <2>4. <<n + j, c>> \in TallyMarks(I, w)
    BY <2>3 DEF TallyMarks
  <2> WITNESS <<n + j, c>> \in TallyMarks(I, w)
  <2>5. f[<<n + j, c>>] = <<(n + j) - n, c>>
    BY <2>4
  <2> QED BY <2>2, <2>3, <2>5
<1> HIDE DEF f
<1>7. f \in Bijection(TallyMarks(I, w), TallyMarks(J, v))
  BY <1>4, <1>5, <1>6, Fun_IsBij
<1>8. ExistsBijection(TallyMarks(I, w), TallyMarks(J, v))
  BY <1>7 DEF ExistsBijection
<1>9. IsFiniteSet(TallyMarks(I, w))
  BY <1>1, TallyType
<1> QED BY <1>8, <1>9, FS_Bijection DEF Tally

LEMMA TallySame ==
    ASSUME NEW I, NEW w, NEW v, \A i \in I : v[i] = w[i]
    PROVE  Tally(I, v) = Tally(I, w)
BY DEF Tally, TallyMarks

LEMMA TallyOne == ASSUME NEW i, NEW w \in [{i} -> Nat] PROVE Tally({i}, w) = w[i]
<1>1. TallyMarks({i}, w) = {i} \X (1..w[i])
  BY DEF TallyMarks
<1>2. w[i] \in Nat /\ IsFiniteSet(1..w[i]) /\ Cardinality(1..w[i]) = w[i] /\ Cardinality({i}) = 1
  BY One, UpTo
<1>3. IsFiniteSet({i})
  BY One
<1>4. Cardinality({i} \X (1..w[i])) = Cardinality({i}) * Cardinality(1..w[i])
  BY <1>2, <1>3, FS_Product
<1>5. Cardinality({i} \X (1..w[i])) = 1 * w[i]
  BY <1>2, <1>4
<1>6. Tally({i}, w) = 1 * w[i]
  BY <1>1, <1>5 DEF Tally
<1> QED BY <1>2, <1>6

\* One weight changes and the others stay.
LEMMA TallyChange ==
    ASSUME NEW I, IsFiniteSet(I), NEW w \in [I -> Nat], NEW v \in [I -> Nat], NEW i \in I,
           \A j \in I \ {i} : v[j] = w[j]
    PROVE  Tally(I, v) = Tally(I, w) - w[i] + v[i]
<1> DEFINE R == I \ {i}
<1>1. IsFiniteSet(R) /\ IsFiniteSet({i}) /\ R \cap {i} = {} /\ R \union {i} = I
  <2>1. IsFiniteSet(R)
    BY FS_RemoveElement
  <2>2. IsFiniteSet({i})
    BY One
  <2> QED BY <2>1, <2>2
<1>2. Tally(I, w) = Tally(R, w) + Tally({i}, w) /\ Tally(I, v) = Tally(R, v) + Tally({i}, v)
  BY <1>1, TallyUnion
<1>3. Tally(R, v) = Tally(R, w)
  BY DEF Tally, TallyMarks
<1>4. ASSUME NEW u \in [I -> Nat] PROVE Tally({i}, u) = u[i]
  <2> DEFINE one == [k \in {i} |-> u[k]]
  <2>1. one \in [{i} -> Nat] /\ one[i] = u[i] /\ \A k \in {i} : u[k] = one[k]
    OBVIOUS
  <2> HIDE DEF one
  <2> QED BY <2>1, TallyOne, TallySame
<1>5. Tally(R, w) \in Nat
  <2> DEFINE u == [j \in R |-> w[j]]
  <2>1. u \in [R -> Nat] /\ TallyMarks(R, u) = TallyMarks(R, w)
    BY DEF TallyMarks
  <2> QED BY <1>1, <2>1, TallyType DEF Tally
<1> QED BY <1>2, <1>3, <1>4, <1>5

LEMMA TallyNone ==
    ASSUME NEW I, NEW w \in [I -> Nat], \A i \in I : w[i] = 0
    PROVE  Tally(I, w) = 0
<1>1. TallyMarks(I, w) = {}
  BY DEF TallyMarks
<1> QED BY <1>1, FS_EmptySet DEF Tally

\* Smaller weights, a smaller tally.
LEMMA TallyMonotone ==
    ASSUME NEW I, IsFiniteSet(I), NEW w \in [I -> Nat], NEW v \in [I -> Nat],
           \A i \in I : v[i] <= w[i]
    PROVE  Tally(I, v) <= Tally(I, w)
<1>1. TallyMarks(I, v) \subseteq TallyMarks(I, w)
  BY DEF TallyMarks
<1> QED BY <1>1, TallyType, FS_Subset DEF Tally

\* Two members weigh no more than everybody.
LEMMA TallyTwo ==
    ASSUME NEW I, IsFiniteSet(I), NEW w \in [I -> Nat], NEW i \in I, NEW j \in I, i # j
    PROVE  w[i] + w[j] <= Tally(I, w)
<1> DEFINE u == [w EXCEPT ![i] = 0]
           v == [u EXCEPT ![j] = 0]
<1>1. u \in [I -> Nat] /\ v \in [I -> Nat] /\ u[i] = 0 /\ u[j] = w[j] /\ v[j] = 0
      /\ (\A k \in I \ {i} : u[k] = w[k]) /\ (\A k \in I \ {j} : v[k] = u[k])
  OBVIOUS
<1> HIDE DEF u, v
<1>2. Tally(I, u) = Tally(I, w) - w[i] + u[i] /\ Tally(I, v) = Tally(I, u) - u[j] + v[j]
  BY <1>1, TallyChange
<1>3. Tally(I, u) \in Nat /\ Tally(I, v) \in Nat /\ Tally(I, w) \in Nat
  BY <1>1, TallyType
<1> QED BY <1>1, <1>2, <1>3

----------------------------------------------------------------------------
(* Sets that change by a member.                                           *)

Bit(x) == IF x THEN 1 ELSE 0

\* A set that changes by one member at most.
LEMMA OneMember ==
    ASSUME NEW S, IsFiniteSet(S), NEW X \in SUBSET S, NEW Y \in SUBSET S, NEW s \in S, X \ {s} = Y \ {s}
    PROVE  /\ Cardinality(X) \in Nat /\ Cardinality(Y) \in Nat
           /\ Cardinality(Y) = Cardinality(X) - Bit(s \in X) + Bit(s \in Y)
<1> DEFINE Z == X \ {s}
<1>1. IsFiniteSet(X) /\ IsFiniteSet(Y) /\ IsFiniteSet(Z)
  BY FS_Subset
<1>2. Cardinality(X) \in Nat /\ Cardinality(Y) \in Nat /\ Cardinality(Z) \in Nat
  BY <1>1, FS_CardinalityType
<1>3. ASSUME NEW W \in {X, Y} PROVE Cardinality(W) = Cardinality(Z) + Bit(s \in W)
  <2>1. Z = W \ {s} /\ IsFiniteSet(W)
    BY <1>1, <1>3
  <2>2. CASE s \in W
    <3>1. Cardinality(Z) = Cardinality(W) - 1
      BY <2>1, <2>2, FS_RemoveElement
    <3> QED BY <1>2, <1>3, <2>2, <3>1 DEF Bit
  <2>3. CASE s \notin W
    <3>1. Z = W
      BY <2>1, <2>3
    <3>2. Cardinality(W) = Cardinality(Z) /\ Bit(s \in W) = 0
      BY <2>3, <3>1 DEF Bit
    <3> QED BY <1>2, <3>2
  <2> QED BY <2>2, <2>3
<1>4. Cardinality(X) = Cardinality(Z) + Bit(s \in X) /\ Cardinality(Y) = Cardinality(Z) + Bit(s \in Y)
  BY <1>3
<1>5. Bit(s \in X) \in Nat /\ Bit(s \in Y) \in Nat
  BY DEF Bit
<1> QED BY <1>2, <1>4, <1>5

----------------------------------------------------------------------------
(* Sequences and sets of numbers.                                         *)

LEMMA Least ==
    ASSUME NEW T \in SUBSET Nat, T # {}
    PROVE  \E x \in T : \A y \in T : x <= y
<1> DEFINE R == OpToRel(<, Nat)
<1>1. IsWellFoundedOn(R, Nat)
  BY NatLessThanWellFounded
<1>2. \A y, x \in T : <<y, x>> \in R <=> y < x
  BY DEF OpToRel
<1> HIDE DEF R
<1>3. \E x \in T : \A y \in T : ~(<<y, x>> \in R)
  BY <1>1, WFMin
<1>4. PICK x \in T : \A y \in T : ~(y < x)
  BY <1>2, <1>3
<1>5. \A y \in T : x \in Nat /\ y \in Nat /\ ~(y < x)
  BY <1>4
<1>6. \A y \in T : x <= y
  BY <1>5
<1> QED BY <1>6

LEMMA RemoveAtSeq ==
    ASSUME NEW S, NEW s \in Seq(S), NEW i \in 1..Len(s)
    PROVE  /\ RemoveAt(s, i) \in Seq(S) /\ Len(RemoveAt(s, i)) = Len(s) - 1
           /\ \A j \in 1..Len(RemoveAt(s, i)) : RemoveAt(s, i)[j] = IF j < i THEN s[j] ELSE s[j + 1]
<1> DEFINE k == Len(s)
           front == SubSeq(s, 1, i - 1)
           back == SubSeq(s, i + 1, k)
<1>1. k \in Nat /\ i \in 1..k /\ \A j \in 1..k : s[j] \in S
  BY LenProperties, ElementOfSeq
<1>2. front \in Seq(S) /\ Len(front) = i - 1 /\ \A j \in 1..(i - 1) : front[j] = s[j]
  <2>1. \A j \in 1..(i - 1) : s[j] \in S
    BY <1>1
  <2>2. /\ front \in Seq(S) /\ Len(front) = IF 1 <= i - 1 THEN (i - 1) - 1 + 1 ELSE 0
        /\ \A j \in 1..((i - 1) - 1 + 1) : front[j] = s[1 + j - 1]
    BY <1>1, <2>1, SubSeqProperties
  <2> QED BY <1>1, <2>2
<1>3. back \in Seq(S) /\ Len(back) = k - i /\ \A j \in 1..(k - i) : back[j] = s[i + j]
  <2>1. \A j \in (i + 1)..k : s[j] \in S
    BY <1>1
  <2>2. /\ back \in Seq(S) /\ Len(back) = IF i + 1 <= k THEN k - (i + 1) + 1 ELSE 0
        /\ \A j \in 1..(k - (i + 1) + 1) : back[j] = s[i + 1 + j - 1]
    BY <1>1, <2>1, SubSeqProperties
  <2> QED BY <1>1, <2>2
<1> HIDE DEF front, back
<1> DEFINE joined == front \o back
<1>4. /\ joined \in Seq(S) /\ Len(joined) = Len(front) + Len(back)
      /\ \A j \in 1..(Len(front) + Len(back)) :
             joined[j] = IF j <= Len(front) THEN front[j] ELSE back[j - Len(front)]
  BY <1>2, <1>3, ConcatProperties
<1> HIDE DEF joined
<1>5. \A j \in 1..(k - 1) : joined[j] = IF j < i THEN s[j] ELSE s[j + 1]
  <2> TAKE j \in 1..(k - 1)
  <2>1. j \in 1..(Len(front) + Len(back))
    BY <1>1, <1>2, <1>3
  <2>2. CASE j < i
    <3>1. j \in 1..(i - 1) /\ j <= Len(front)
      BY <1>1, <1>2, <2>2
    <3>2. joined[j] = front[j] /\ front[j] = s[j]
      BY <1>2, <1>4, <2>1, <3>1
    <3> QED BY <2>2, <3>2
  <2>3. CASE j >= i
    <3>1. joined[j] = back[j - (i - 1)]
      <4>1. Len(front) = i - 1 /\ ~(j <= Len(front))
        BY <1>1, <1>2, <2>3
      <4>2. joined[j] = back[j - Len(front)]
        BY <1>4, <2>1, <4>1
      <4> QED BY <4>1, <4>2
    <3>2. j - (i - 1) \in 1..(k - i) /\ i + (j - (i - 1)) = j + 1
      BY <1>1, <2>3
    <3>3. back[j - (i - 1)] = s[i + (j - (i - 1))]
      BY <1>3, <3>2
    <3>4. joined[j] = s[j + 1] /\ ~(j < i)
      BY <1>1, <2>3, <3>1, <3>2, <3>3
    <3> QED BY <3>4
  <2>4. j < i \/ j >= i
    BY <1>1
  <2> QED BY <2>2, <2>3, <2>4
<1>6. RemoveAt(s, i) = joined
  BY DEF RemoveAt, front, back, joined
<1>7. Len(joined) = k - 1
  BY <1>1, <1>2, <1>3, <1>4
<1> HIDE DEF k
<1> QED BY <1>1, <1>4, <1>5, <1>6, <1>7 DEF k

LEMMA EvenBefore == ASSUME NEW n \in Nat, n % 2 # 0 PROVE n # 0 /\ (n - 1) % 2 = 0
BY SMTT(40)

LEMMA GreatestIs ==
    ASSUME NEW n \in Nat, NEW S \in SUBSET (0..n), S # {}
    PROVE  Max(S) \in S /\ \A x \in S : Max(S) >= x
<1> DEFINE R == {n - x : x \in S}
<1>1. R \in SUBSET Nat /\ R # {}
  <2>1. \A x \in S : x \in 0..n /\ n - x \in Nat
    OBVIOUS
  <2> QED BY <2>1
<1> HIDE DEF R
<1>2. PICK y \in R : \A z \in R : y <= z
  BY <1>1, Least
<1>3. PICK x \in S : y = n - x
  BY DEF R
<1>4. \A z \in S : x >= z
  <2> TAKE z \in S
  <2>1. n - z \in R
    BY DEF R
  <2>2. n - x <= n - z
    BY <1>2, <1>3, <2>1
  <2>3. x \in 0..n /\ z \in 0..n
    OBVIOUS
  <2> QED BY <2>2, <2>3
<1> QED BY <1>4 DEF Max

LEMMA LeastIs ==
    ASSUME NEW S \in SUBSET Int, NEW x \in S, \A y \in S : x <= y
    PROVE  Min(S) = x
<1>1. Min(S) \in S /\ \A y \in S : Min(S) <= y
  BY DEF Min
<1>2. PICK m \in S : m = Min(S) /\ m <= x
  BY <1>1
<1>3. m \in Int /\ x \in Int /\ x <= m
  OBVIOUS
<1> QED BY <1>2, <1>3

LEMMA GreatestIf ==
    ASSUME NEW S \in SUBSET Int, NEW x \in S, \A y \in S : y <= x
    PROVE  Max(S) = x
<1>1. Max(S) \in S /\ \A y \in S : Max(S) >= y
  BY DEF Max
<1>2. PICK m \in S : m = Max(S) /\ m >= x
  BY <1>1
<1>3. m \in Int /\ x \in Int /\ m <= x
  OBVIOUS
<1> QED BY <1>2, <1>3

LEMMA Up ==
    ASSUME NEW n \in Nat, NEW T, 0 \in T, \A k \in 1..n : k - 1 \in T => k \in T
    PROVE  \A k \in 0..n : k \in T
<1> DEFINE Out == {k \in 0..n : k \notin T}
<1> SUFFICES ASSUME Out # {} PROVE FALSE
  OBVIOUS
<1>1. Out \in SUBSET Nat
  OBVIOUS
<1> HIDE DEF Out
<1>2. PICK x \in Out : \A y \in Out : x <= y
  BY <1>1, Least
<1>3. x \in 0..n /\ x \notin T
  BY <1>2 DEF Out
<1>4. x # 0 /\ x \in 1..n
  BY <1>3
<1>5. x - 1 \in 0..n /\ x - 1 \notin Out
  BY <1>1, <1>2, <1>4
<1>6. x - 1 \in T
  BY <1>5 DEF Out
<1> QED BY <1>3, <1>4, <1>6

LEMMA Appended ==
    ASSUME NEW S, NEW s \in Seq(S), NEW x \in S
    PROVE  /\ Append(s, x) \in Seq(S) /\ Len(s) \in Nat /\ Len(Append(s, x)) = Len(s) + 1
           /\ \A i \in 1..Len(s) : Append(s, x)[i] = s[i]
           /\ Append(s, x)[Len(s) + 1] = x
           /\ \A i \in 1..(Len(s) + 1) : i \in 1..Len(s) \/ i = Len(s) + 1
BY AppendProperties, LenProperties

LEMMA PrefixesAre ==
    ASSUME NEW S, NEW s \in Seq(S)
    PROVE  /\ SubSeq(s, 1, 0) = <<>> /\ SubSeq(s, 1, Len(s)) = s
           /\ \A k \in 0..Len(s) : SubSeq(s, 1, k) \in Seq(S) /\ Len(SubSeq(s, 1, k)) = k
           /\ \A k \in 0..Len(s) : \A i \in 1..k : SubSeq(s, 1, k)[i] = s[i]
           /\ \A k \in 1..Len(s) : s[k] \in S /\ SubSeq(s, 1, k) = Append(SubSeq(s, 1, k - 1), s[k])
<1>1. Len(s) \in Nat /\ \A k \in 1..Len(s) : s[k] \in S
  BY LenProperties, ElementOfSeq
<1>2. SubSeq(s, 1, 0) = <<>> /\ SubSeq(s, 1, Len(s)) = s
  BY SubSeqEmpty, SubSeqFull
<1>3. \A k \in 0..Len(s) : SubSeq(s, 1, k) \in Seq(S) /\ Len(SubSeq(s, 1, k)) = k
                           /\ \A i \in 1..k : SubSeq(s, 1, k)[i] = s[i]
  <2> TAKE k \in 0..Len(s)
  <2>1. \A i \in 1..k : s[i] \in S
    BY <1>1
  <2>2. /\ SubSeq(s, 1, k) \in Seq(S) /\ Len(SubSeq(s, 1, k)) = IF 1 <= k THEN k - 1 + 1 ELSE 0
        /\ \A i \in 1..(k - 1 + 1) : SubSeq(s, 1, k)[i] = s[1 + i - 1]
    BY <1>1, <2>1, SubSeqProperties
  <2>3. k - 1 + 1 = k /\ \A i \in 1..k : 1 + i - 1 = i
    BY <1>1
  <2> QED BY <1>1, <2>2, <2>3
<1>4. \A k \in 1..Len(s) : SubSeq(s, 1, k) = Append(SubSeq(s, 1, k - 1), s[k])
  <2> TAKE k \in 1..Len(s)
  <2>1. 1 \in 1..Len(s) /\ k \in 1..Len(s) /\ k - 1 \in 0..Len(s)
    BY <1>1
  <2>2. SubSeq(s, 1, k) = SubSeq(s, 1, k - 1) \o <<s[k]>>
    BY <2>1, SubSeqRecursiveSecond
  <2>3. Append(SubSeq(s, 1, k - 1), s[k]) = SubSeq(s, 1, k - 1) \o <<s[k]>>
    BY <1>1, <1>3, <2>1, AppendIsConcat
  <2> QED BY <2>2, <2>3
<1> QED BY <1>1, <1>2, <1>3, <1>4

LEMMA ConcatAppend ==
    ASSUME NEW S, NEW s \in Seq(S), NEW t \in Seq(S), NEW x \in S
    PROVE  s \o Append(t, x) = Append(s \o t, x) /\ s \o t \in Seq(S) /\ s \o <<>> = s /\ <<>> \o t = t
<1>1. <<x>> \in Seq(S) /\ s \o t \in Seq(S)
  BY ConcatProperties
<1>2. Append(t, x) = t \o <<x>> /\ Append(s \o t, x) = (s \o t) \o <<x>>
  BY <1>1, AppendIsConcat
<1>3. (s \o t) \o <<x>> = s \o (t \o <<x>>)
  BY <1>1, ConcatAssociative
<1>4. s \o <<>> = s /\ <<>> \o t = t
  BY ConcatEmptySeq
<1> QED BY <1>1, <1>2, <1>3, <1>4

SameBehind(a, b, x) == Append(a \o b, x) = a \o Append(b, x)

LEMMA AppendBehind ==
    \A S : \A a, b \in Seq(S) : \A x \in S : SameBehind(a, b, x)
<1> SUFFICES ASSUME NEW S, NEW a \in Seq(S), NEW b \in Seq(S), NEW x \in S
             PROVE  SameBehind(a, b, x)
  OBVIOUS
<1>1. <<x>> \in Seq(S) /\ a \o b \in Seq(S)
  BY ConcatProperties
<1>2. Append(b, x) = b \o <<x>> /\ Append(a \o b, x) = (a \o b) \o <<x>>
  BY <1>1, AppendIsConcat
<1>3. (a \o b) \o <<x>> = a \o (b \o <<x>>)
  BY <1>1, ConcatAssociative
<1> QED BY <1>2, <1>3 DEF SameBehind

LEMMA PartIs ==
    ASSUME NEW S, NEW s \in Seq(S), NEW b \in 0..Len(s)
    PROVE  LET r == SubSeq(s, b + 1, Len(s)) IN
           /\ r \in Seq(S) /\ Len(r) = Len(s) - b /\ \A i \in 1..(Len(s) - b) : r[i] = s[b + i]
<1>1. Len(s) \in Nat /\ b + 1 \in Int /\ \A i \in (b + 1)..Len(s) : s[i] \in S
  BY LenProperties, ElementOfSeq
<1> DEFINE r == SubSeq(s, b + 1, Len(s))
<1>2. /\ r \in Seq(S)
      /\ Len(r) = IF b + 1 <= Len(s) THEN Len(s) - (b + 1) + 1 ELSE 0
      /\ \A i \in 1..(Len(s) - (b + 1) + 1) : r[i] = s[b + 1 + i - 1]
  BY <1>1, SubSeqProperties
<1> HIDE DEF r
<1>3. Len(r) = Len(s) - b
  BY <1>1, <1>2
<1>4. \A i \in 1..(Len(s) - b) : r[i] = s[b + i]
  <2> TAKE i \in 1..(Len(s) - b)
  <2>1. i \in 1..(Len(s) - (b + 1) + 1) /\ b + 1 + i - 1 = b + i
    BY <1>1
  <2> QED BY <1>2, <2>1
<1> QED BY <1>2, <1>3, <1>4 DEF r

LEMMA MapIsSeq ==
    ASSUME NEW S, NEW n \in Nat, NEW f \in [1..n -> S]
    PROVE  f \in Seq(S) /\ Len(f) = n
<1>1. f \in Seq(S)
  BY SeqDef
<1>2. PICK k \in Nat : k = Len(f)
  BY <1>1, LenProperties
<1>3. DOMAIN f = 1..k /\ DOMAIN f = 1..n
  BY <1>1, <1>2, LenProperties
<1>4. 1..k = 1..n
  BY <1>3
<1>5. k = n
  <2>1. (k \in 1..k => k \in 1..n) /\ (n \in 1..n => n \in 1..k)
    BY <1>4
  <2> QED BY <2>1
<1> QED BY <1>1, <1>2, <1>5

----------------------------------------------------------------------------
(* Loops over a sequence: what is computed from a prefix and the next      *)
(* member is a function of the whole sequence.                             *)

\* g is the loop's value after each prefix of s.
Loops(g, from, f, s, n) == g[0] = from /\ \A k \in 1..n : g[k] = f[<<g[k - 1], s[k]>>]

LEMMA LoopsExist ==
    ASSUME NEW S, NEW A, NEW from \in A, NEW f \in [A \X S -> A], NEW s \in Seq(S)
    PROVE  \E g \in [0..Len(s) -> A] : Loops(g, from, f, s, Len(s))
<1> DEFINE n == Len(s)
           T == {k \in 0..n : \E g \in [0..k -> A] : Loops(g, from, f, s, k)}
<1>1. n \in Nat /\ \A k \in 1..n : s[k] \in S
  BY LenProperties, ElementOfSeq
<1>2. 0 \in T
  <2> DEFINE g == [k \in 0..0 |-> from]
  <2>1. g \in [0..0 -> A] /\ Loops(g, from, f, s, 0)
    BY DEF Loops
  <2> QED BY <1>1, <2>1
<1>3. \A k \in 1..n : k - 1 \in T => k \in T
  <2> TAKE k \in 1..n
  <2> HAVE k - 1 \in T
  <2>1. PICK g \in [0..(k - 1) -> A] : Loops(g, from, f, s, k - 1)
    OBVIOUS
  <2> DEFINE x == f[<<g[k - 1], s[k]>>]
             h == [i \in 0..k |-> IF i = k THEN x ELSE g[i]]
  <2>2. g[k - 1] \in A /\ x \in A
    BY <1>1, <2>1
  <2> HIDE DEF x
  <2>3. h \in [0..k -> A]
    <3>1. \A i \in 0..k : i # k => i \in 0..(k - 1)
      BY <1>1
    <3> QED BY <2>1, <2>2, <3>1
  <2>4. Loops(h, from, f, s, k)
    <3>1. h[0] = from
      BY <1>1, <2>1 DEF Loops
    <3>2. \A i \in 1..k : h[i] = f[<<h[i - 1], s[i]>>]
      <4> TAKE i \in 1..k
      <4>1. h[i - 1] = g[i - 1] /\ (i # k => h[i] = g[i] /\ i \in 1..(k - 1))
        BY <1>1
      <4>2. CASE i = k
        <5>1. h[i] = x /\ h[i - 1] = g[k - 1]
          BY <4>1, <4>2
        <5> HIDE DEF h
        <5> QED BY <4>2, <5>1 DEF x
      <4>3. CASE i # k
        <5> HIDE DEF h
        <5> QED BY <2>1, <4>1, <4>3 DEF Loops
      <4> QED BY <4>2, <4>3
    <3> QED BY <3>1, <3>2 DEF Loops
  <2> HIDE DEF h
  <2> QED BY <1>1, <2>3, <2>4
<1> HIDE DEF T
<1>4. \A k \in 0..n : k \in T
  BY <1>1, <1>2, <1>3, Up
<1>5. n \in 0..n
  BY <1>1
<1> QED BY <1>4, <1>5 DEF T

\* A function that does the steps while it is within A does them always.
LoopsIn(x, from, f, s, A) == x[0] = from /\ \A k \in 1..Len(s) : x[k - 1] \in A => x[k] = f[<<x[k - 1], s[k]>>]
StaysIn(x, s, A) == \A k \in 0..Len(s) : x[k] \in A

LEMMA LoopsFrom ==
    ASSUME NEW S, NEW A, NEW from \in A, NEW f \in [A \X S -> A], NEW s \in Seq(S), NEW x, LoopsIn(x, from, f, s, A)
    PROVE  Loops(x, from, f, s, Len(s)) /\ StaysIn(x, s, A)
<1> DEFINE T == {k \in 0..Len(s) : x[k] \in A}
<1>1. Len(s) \in Nat /\ \A k \in 1..Len(s) : s[k] \in S
  BY LenProperties, ElementOfSeq
<1>2. x[0] \in A /\ 0 \in T
  BY <1>1 DEF LoopsIn
<1>3. \A k \in 1..Len(s) : k - 1 \in T => k \in T
  <2> TAKE k \in 1..Len(s)
  <2> HAVE k - 1 \in T
  <2>1. k \in 0..Len(s) /\ s[k] \in S /\ x[k - 1] \in A
    BY <1>1
  <2>2. x[k] = f[<<x[k - 1], s[k]>>]
    BY <2>1 DEF LoopsIn
  <2> QED BY <2>1, <2>2
<1> HIDE DEF T
<1>4. \A k \in 0..Len(s) : k \in T
  BY <1>1, <1>2, <1>3, Up
<1>5. \A k \in 1..Len(s) : k - 1 \in 0..Len(s)
  BY <1>1
<1> QED BY <1>4, <1>5 DEF T, Loops, LoopsIn, StaysIn

StepsOn(h, g, f, s, m) == h[Len(s) + 1] = f[<<g[Len(s)], m>>]

LEMMA LoopsStep ==
    ASSUME NEW S, NEW A, NEW from \in A, NEW f \in [A \X S -> A], NEW s \in Seq(S), NEW m \in S,
           NEW g, NEW h, Loops(g, from, f, s, Len(s)), Loops(h, from, f, Append(s, m), Len(s) + 1)
    PROVE  StepsOn(h, g, f, s, m)
<1> DEFINE n == Len(s)
           T == {k \in 0..n : g[k] = h[k]}
<1>1. /\ n \in Nat /\ Append(s, m)[n + 1] = m
      /\ \A k \in 1..n : Append(s, m)[k] = s[k]
  BY LenProperties, AppendProperties
<1>2. 0 \in T
  BY <1>1 DEF Loops
<1>3. \A k \in 1..n : k - 1 \in T => k \in T
  <2> TAKE k \in 1..n
  <2> HAVE k - 1 \in T
  <2>1. k \in 1..(n + 1) /\ g[k - 1] = h[k - 1]
    BY <1>1
  <2>2. g[k] = f[<<g[k - 1], s[k]>>] /\ h[k] = f[<<h[k - 1], Append(s, m)[k]>>]
    BY <2>1 DEF Loops
  <2> QED BY <1>1, <2>1, <2>2
<1> HIDE DEF T
<1>4. \A k \in 0..n : k \in T
  BY <1>1, <1>2, <1>3, Up
<1>5. h[n + 1] = f[<<h[n + 1 - 1], Append(s, m)[n + 1]>>]
  BY <1>1 DEF Loops
<1>6. n + 1 - 1 = n /\ n \in 0..n
  BY <1>1
<1> QED BY <1>1, <1>4, <1>5, <1>6 DEF T, StepsOn

\* A loop over 1..n, in the same way.
Counts(g, from, f, n) == g[0] = from /\ \A k \in 1..n : g[k] = f[<<g[k - 1], k>>]
CountsIn(x, from, f, n, A) == x[0] = from /\ \A k \in 1..n : x[k - 1] \in A => x[k] = f[<<x[k - 1], k>>]

LEMMA CountsExist ==
    ASSUME NEW n \in Nat, NEW A, NEW from \in A, NEW f \in [A \X (1..n) -> A]
    PROVE  \E g \in [0..n -> A] : Counts(g, from, f, n)
<1> DEFINE s == [k \in 1..n |-> k]
<1>1. s \in Seq(1..n) /\ Len(s) = n /\ \A k \in 1..n : s[k] = k
  <2>1. s \in [1..n -> 1..n]
    OBVIOUS
  <2> QED BY <2>1, MapIsSeq
<1> HIDE DEF s
<1>2. PICK g \in [0..n -> A] : Loops(g, from, f, s, n)
  BY <1>1, LoopsExist
<1> QED BY <1>1, <1>2 DEF Loops, Counts

LEMMA CountsFrom ==
    ASSUME NEW n \in Nat, NEW A, NEW from \in A, NEW f \in [A \X (1..n) -> A], NEW x, CountsIn(x, from, f, n, A)
    PROVE  Counts(x, from, f, n) /\ \A k \in 0..n : x[k] \in A
<1> DEFINE s == [k \in 1..n |-> k]
<1>1. s \in Seq(1..n) /\ Len(s) = n /\ \A k \in 1..n : s[k] = k
  <2>1. s \in [1..n -> 1..n]
    OBVIOUS
  <2> QED BY <2>1, MapIsSeq
<1> HIDE DEF s
<1>2. LoopsIn(x, from, f, s, A)
  BY <1>1 DEF CountsIn, LoopsIn
<1>3. Loops(x, from, f, s, n) /\ StaysIn(x, s, A)
  BY <1>1, <1>2, LoopsFrom
<1> QED BY <1>1, <1>3 DEF Loops, Counts, StaysIn
=============================================================================
