----------------------------- MODULE ListLemmas -----------------------------
(***************************************************************************)
(* What the operations on std::vector that the models use do to the set of *)
(* its elements: pop_back, erase and push_back; and what the lists of a    *)
(* projection are, which come from walking a std::set and from std::find.  *)
(***************************************************************************)
EXTENDS Projections, SequenceTheorems, FiniteSetTheorems, FunctionTheorems,
        WellFoundedInduction, TLAPS

\* A set of natural numbers that is not empty has a least element.  (This is
\* induction, in a form that has no operator as a parameter.)
LEMMA LeastNumber ==
    ASSUME NEW S \in SUBSET Nat, S # {}
    PROVE  \E x \in S : \A y \in S : x <= y
<1> DEFINE R == {ss \in Nat \X Nat : ss[1] < ss[2]}
<1>1. IsWellFoundedOn(R, Nat)
  BY NatLessThanWellFounded DEF OpToRel
<1>2. \A x, y \in Nat : <<y, x>> \in R <=> y < x
  OBVIOUS
<1> HIDE DEF R
<1>3. PICK x \in S : \A y \in S : ~ (<<y, x>> \in R)
  BY <1>1, WFMin
<1>4. \A y \in S : ~ (y < x)
  BY <1>2, <1>3
<1>5. \A y \in S : x <= y
  <2>1. S \subseteq Nat
    OBVIOUS
  <2> QED
    BY <1>4, <2>1
<1> QED
  BY <1>5

\* What holds of the first of the numbers up to N, and of the next after each it
\* holds of, holds of them all.
LEMMA NumbersUpTo ==
    ASSUME NEW N \in Nat, NEW T, 0 \in T, \A k \in 1 .. N : k - 1 \in T => k \in T
    PROVE  \A k \in 0 .. N : k \in T
<1> DEFINE W == {k \in 0 .. N : k \notin T}
<1>1. SUFFICES ASSUME W # {} PROVE FALSE
  OBVIOUS
<1>2. PICK k \in W : \A m \in W : k <= m
  <2>1. W \in SUBSET Nat
    OBVIOUS
  <2> HIDE DEF W
  <2> QED
    BY <1>1, <2>1, LeastNumber
<1>3. k \in 1 .. N /\ k - 1 \in 0 .. N /\ k - 1 \notin W
  BY <1>2
<1> QED
  BY <1>3

\* The values that a recursive function takes, from base on, by its equation.
LEMMA Stepwise ==
    ASSUME NEW D, NEW base \in D, NEW N \in Nat, NEW next \in [1 .. N -> [D -> D]]
    PROVE  \E f \in [0 .. N -> D] :
              f[0] = base /\ \A k \in 1 .. N : f[k] = next[k][f[k - 1]]
<1> DEFINE Values(n) ==
        {f \in [0 .. n -> D] :
            f[0] = base /\ \A k \in 1 .. n : f[k] = next[k][f[k - 1]]}
           T == {n \in Nat : Values(n) # {}}
<1>1. 0 \in T
  <2> DEFINE f == [k \in 0 .. 0 |-> base]
  <2>1. f \in Values(0)
    OBVIOUS
  <2> QED
    BY <2>1
<1>2. ASSUME NEW n \in 1 .. N, n - 1 \in T PROVE n \in T
  <2>1. PICK f \in [0 .. n - 1 -> D] :
            f[0] = base /\ \A k \in 1 .. n - 1 : f[k] = next[k][f[k - 1]]
    BY <1>2
  <2>2. f[n - 1] \in D /\ next[n][f[n - 1]] \in D
    BY <2>1
  <2> DEFINE g == [k \in 0 .. n |-> IF k = n THEN next[n][f[n - 1]] ELSE f[k]]
  <2>3. g \in [0 .. n -> D] /\ g[0] = base
    BY <2>1, <2>2
  <2>4. ASSUME NEW k \in 1 .. n PROVE g[k] = next[k][g[k - 1]]
    <3>1. k - 1 \in 0 .. n /\ k - 1 # n /\ k \in 0 .. n
      OBVIOUS
    <3>2. g[k - 1] = f[k - 1]
      BY <3>1
    <3>3. CASE k = n
      BY <3>1, <3>2, <3>3
    <3>4. CASE k # n
      <4>1. k \in 1 .. n - 1
        BY <3>4
      <4> QED
        BY <2>1, <3>1, <3>2, <3>4, <4>1
    <3> QED
      BY <3>3, <3>4
  <2> HIDE DEF g
  <2> QED
    BY <2>3, <2>4
<1> HIDE DEF T
<1>3. N \in T
  <2>1. \A k \in 0 .. N : k \in T
    BY <1>1, <1>2, NumbersUpTo
  <2> QED
    BY <2>1
<1> QED
  BY <1>3 DEF T

-----------------------------------------------------------------------------
\* The equation of the recursive function that SumFunctionOnSet is.
First(s) == CHOOSE x \in s : TRUE
AddFirst(S, v, g) ==
    [s \in SUBSET S |-> IF s = {} THEN 0 ELSE v[First(s)] + g[s \ {First(s)}]]

\* Without its first element a set has one element less.
LEMMA FirstTaken ==
    ASSUME NEW S, IsFiniteSet(S)
    PROVE  \A s \in SUBSET S : s # {} =>
              /\ First(s) \in S /\ s \ {First(s)} \in SUBSET S
              /\ Cardinality(s) \in Nat \ {0}
              /\ Cardinality(s \ {First(s)}) = Cardinality(s) - 1
              /\ ~ (Cardinality(s) <= 0)
<1> SUFFICES ASSUME NEW s \in SUBSET S, s # {}
             PROVE  /\ First(s) \in S /\ s \ {First(s)} \in SUBSET S
                    /\ Cardinality(s) \in Nat \ {0}
                    /\ Cardinality(s \ {First(s)}) = Cardinality(s) - 1
                    /\ ~ (Cardinality(s) <= 0)
  OBVIOUS
<1>1. First(s) \in s
  BY DEF First
<1>2. IsFiniteSet(s) /\ Cardinality(s) \in Nat
  BY FS_Subset, FS_CardinalityType
<1>3. Cardinality(s) # 0
  BY <1>1, <1>2, FS_EmptySet
<1>4. Cardinality(s \ {First(s)}) = Cardinality(s) - 1
  BY <1>1, <1>2, FS_RemoveElement
<1> QED
  BY <1>1, <1>2, <1>3, <1>4

\* There is such a function: adding the first element settles the sums of one
\* more size of sets each time.
LEMMA SumsExist ==
    ASSUME NEW S, IsFiniteSet(S), NEW v, \A x \in S : v[x] \in Int
    PROVE  \E g : g = AddFirst(S, v, g)
<1> DEFINE N == Cardinality(S)
           D == [SUBSET S -> Int]
           none == [s \in SUBSET S |-> 0]
           next == [k \in 1 .. N + 1 |-> [g \in D |-> AddFirst(S, v, g)]]
<1>1. N \in Nat
  BY FS_CardinalityType
<1>2. ASSUME NEW g \in D PROVE AddFirst(S, v, g) \in D
  <2>1. ASSUME NEW s \in SUBSET S, s # {} PROVE v[First(s)] + g[s \ {First(s)}] \in Int
    <3>1. First(s) \in S /\ s \ {First(s)} \in SUBSET S
      BY <2>1, FirstTaken
    <3>2. v[First(s)] \in Int /\ g[s \ {First(s)}] \in Int
      BY <3>1
    <3> QED
      BY <3>2
  <2> QED
    BY <2>1 DEF AddFirst
<1>3. none \in D /\ next \in [1 .. N + 1 -> [D -> D]]
  <2>1. none \in D
    OBVIOUS
  <2> HIDE DEF D, none
  <2>2. next \in [1 .. N + 1 -> [D -> D]]
    BY <1>2
  <2> QED
    BY <2>1, <2>2
<1>4. \A k \in 1 .. N + 1, g \in D : next[k][g] = AddFirst(S, v, g)
  OBVIOUS
<1>5. N + 1 \in Nat /\ N \in 0 .. N + 1
  BY <1>1
<1> HIDE DEF D, next, N, none
<1>s. \A n \in Nat : n = N + 1 =>
         \E f \in [0 .. n -> D] : f[0] = none /\ \A k \in 1 .. n : f[k] = next[k][f[k - 1]]
  BY <1>3, Stepwise
<1>6. PICK f \in [0 .. N + 1 -> D] :
          f[0] = none /\ \A k \in 1 .. N + 1 : f[k] = next[k][f[k - 1]]
  BY <1>5, <1>s
<1>7. \A k \in 0 .. N + 1 : f[k] \in D
  BY <1>6
<1>8. ASSUME NEW k \in 1 .. N + 1 PROVE f[k] = AddFirst(S, v, f[k - 1])
  <2>1. k - 1 \in 0 .. N + 1
    BY <1>1
  <2> QED
    BY <2>1, <1>4, <1>6, <1>7
<1> DEFINE T == {k \in Nat : \A s \in SUBSET S :
                                Cardinality(s) <= k => f[k + 1][s] = f[k][s]}
<1>9. 0 \in T
  <2>1. f[1] = AddFirst(S, v, f[0])
    <3>1. 1 \in 1 .. N + 1 /\ 1 - 1 = 0
      BY <1>1
    <3> QED
      BY <3>1, <1>8
  <2>2. ASSUME NEW s \in SUBSET S, Cardinality(s) <= 0 PROVE f[1][s] = f[0][s]
    <3>1. s = {}
      BY <2>2, FirstTaken
    <3> QED
      BY <3>1, <2>1, <1>6 DEF AddFirst, none
  <2> QED
    BY <2>2
<1>10. ASSUME NEW k \in 1 .. N, k - 1 \in T PROVE k \in T
  <2>1. k \in 1 .. N + 1 /\ k + 1 \in 1 .. N + 1 /\ (k - 1) + 1 = k /\ (k + 1) - 1 = k
    BY <1>1
  <2>2. f[k] = AddFirst(S, v, f[k - 1]) /\ f[k + 1] = AddFirst(S, v, f[k])
    BY <2>1, <1>8
  <2>3. ASSUME NEW s \in SUBSET S, Cardinality(s) <= k PROVE f[k + 1][s] = f[k][s]
    <3>1. CASE s = {}
      BY <3>1, <2>2 DEF AddFirst
    <3>2. CASE s # {}
      <4> DEFINE r == s \ {First(s)}
      <4>1. r \in SUBSET S /\ Cardinality(s) \in Nat /\ Cardinality(r) = Cardinality(s) - 1
        BY <3>2, FirstTaken
      <4>2. Cardinality(r) <= k - 1
        BY <4>1, <2>3, <1>1
      <4>3. f[k][r] = f[k - 1][r]
        BY <4>1, <4>2, <1>10, <2>1
      <4> QED
        BY <4>3, <3>2, <2>2 DEF AddFirst
    <3> QED
      BY <3>1, <3>2
  <2> QED
    BY <2>3
<1> HIDE DEF T
<1>11. \A k \in 0 .. N : k \in T
  BY <1>1, <1>9, <1>10, NumbersUpTo
<1>12. \A s \in SUBSET S : f[N + 1][s] = f[N][s]
  <2>1. N \in T
    BY <1>1, <1>11
  <2>2. ASSUME NEW s \in SUBSET S PROVE Cardinality(s) <= N
    BY FS_Subset DEF N
  <2> QED
    BY <2>1, <2>2 DEF T
<1>13. f[N + 1] = f[N]
  <2>1. f[N + 1] \in D /\ f[N] \in D
    BY <1>1, <1>5, <1>7
  <2>2. f[N + 1] \in [SUBSET S -> Int] /\ f[N] \in [SUBSET S -> Int]
    BY <2>1 DEF D
  <2> QED
    BY <2>2, <1>12
<1>14. f[N] = AddFirst(S, v, f[N])
  <2>1. N + 1 \in 1 .. N + 1 /\ (N + 1) - 1 = N
    BY <1>1
  <2> QED
    BY <2>1, <1>8, <1>13
<1> QED
  BY <1>14

\* The sum of whole numbers is whole.
LEMMA SumWhole ==
    ASSUME NEW S, IsFiniteSet(S), NEW v, \A x \in S : v[x] \in Int
    PROVE  SumFunctionOnSet(v, S) \in Int
<1> DEFINE g == CHOOSE h : h = AddFirst(S, v, h)
           N == Cardinality(S)
<1>1. SumFunctionOnSet(v, S) = g[S]
  BY DEF SumFunctionOnSet, FoldFunctionOnSet, MapThenFoldSet, AddFirst, First
<1>2. g = AddFirst(S, v, g)
  BY SumsExist
<1>3. N \in Nat
  BY FS_CardinalityType
<1> HIDE DEF g, N
<1> DEFINE T == {k \in Nat : \A s \in SUBSET S : Cardinality(s) <= k => g[s] \in Int}
<1>4. 0 \in T
  <2>1. ASSUME NEW s \in SUBSET S, Cardinality(s) <= 0 PROVE g[s] \in Int
    <3>1. s = {}
      BY <2>1, FirstTaken
    <3> QED
      BY <3>1, <1>2 DEF AddFirst
  <2> QED
    BY <2>1
<1>5. ASSUME NEW k \in 1 .. N, k - 1 \in T PROVE k \in T
  <2>1. k \in Nat
    BY <1>3
  <2>2. ASSUME NEW s \in SUBSET S, Cardinality(s) <= k PROVE g[s] \in Int
    <3>1. CASE s = {}
      BY <3>1, <1>2 DEF AddFirst
    <3>2. CASE s # {}
      <4> DEFINE r == s \ {First(s)}
      <4>1. /\ First(s) \in S /\ r \in SUBSET S
            /\ Cardinality(s) \in Nat /\ Cardinality(r) = Cardinality(s) - 1
        BY <3>2, FirstTaken
      <4>2. g[r] \in Int
        <5>1. Cardinality(r) <= k - 1
          BY <4>1, <2>1, <2>2
        <5> HIDE DEF r
        <5> QED
          BY <5>1, <4>1, <1>5
      <4>3. g[s] = v[First(s)] + g[r]
        BY <3>2, <1>2 DEF AddFirst
      <4> QED
        BY <4>1, <4>2, <4>3
    <3> QED
      BY <3>1, <3>2
  <2> QED
    BY <2>1, <2>2
<1> HIDE DEF T
<1>6. \A k \in 0 .. N : k \in T
  BY <1>3, <1>4, <1>5, NumbersUpTo
<1>7. N \in T
  BY <1>3, <1>6
<1>8. Cardinality(S) <= N /\ S \in SUBSET S
  BY <1>3 DEF N
<1> QED
  BY <1>1, <1>7, <1>8 DEF T

-----------------------------------------------------------------------------
\* Dropping the last element of a list removes nothing else from its elements.
LEMMA DropLast ==
    ASSUME NEW S, NEW s \in Seq(S), s # << >>
    PROVE  /\ s[Len(s)] \in S
           /\ SubSeq(s, 1, Len(s) - 1) \in Seq(S)
           /\ ToSet(s) = ToSet(SubSeq(s, 1, Len(s) - 1)) \union {s[Len(s)]}
<1> DEFINE f == SubSeq(s, 1, Len(s) - 1)
<1>1. Len(s) \in Nat \ {0} /\ DOMAIN s = 1 .. Len(s) /\ \A i \in 1 .. Len(s) : s[i] \in S
  BY EmptySeq, LenProperties, ElementOfSeq
<1>2. f \in Seq(S) /\ Len(f) = Len(s) - 1 /\ \A i \in 1 .. Len(s) - 1 : f[i] = s[i]
  BY <1>1, SubSeqProperties, Z3
<1>3. DOMAIN f = 1 .. Len(s) - 1
  BY <1>2, LenProperties
<1>4. ToSet(s) = ToSet(f) \union {s[Len(s)]}
  <2> DEFINE n == Len(s)
  <2>n. n \in Nat
    BY <1>1
  <2>1. \A i \in 1 .. n : i = n \/ i \in 1 .. n - 1
    <3> HIDE DEF n
    <3> QED
      BY <2>n
  <2>2. \A i \in 1 .. Len(s) - 1 : i \in 1 .. Len(s)
    BY <1>1
  <2>3. ToSet(f) = {s[i] : i \in 1 .. Len(s) - 1}
    BY <1>2, <1>3, Zenon DEF ToSet
  <2>4. ToSet(s) = {s[i] : i \in 1 .. Len(s)} /\ Len(s) \in 1 .. Len(s)
    BY <1>1 DEF ToSet
  <2> HIDE DEF f
  <2> QED
    BY <2>1, <2>2, <2>3, <2>4
<1> QED
  BY <1>1, <1>2, <1>4

\* Erasing position t from a list removes at most the element at t.
LEMMA DropAt ==
    ASSUME NEW S, NEW s \in Seq(S), NEW t \in DOMAIN s
    PROVE  /\ s[t] \in S
           /\ RemoveAt(s, t) \in Seq(S)
           /\ ToSet(s) = ToSet(RemoveAt(s, t)) \union {s[t]}
<1> DEFINE a == SubSeq(s, 1, t - 1)
           b == SubSeq(s, t + 1, Len(s))
<1>1. Len(s) \in Nat /\ DOMAIN s = 1 .. Len(s) /\ \A i \in 1 .. Len(s) : s[i] \in S
  BY LenProperties, ElementOfSeq
<1>2. t \in 1 .. Len(s)
  BY <1>1
<1>3. a \in Seq(S) /\ Len(a) = t - 1 /\ \A i \in 1 .. t - 1 : a[i] = s[i]
  BY <1>1, <1>2, SubSeqProperties, Z3
<1>4. b \in Seq(S) /\ Len(b) = Len(s) - t /\ \A i \in 1 .. Len(s) - t : b[i] = s[t + i]
  BY <1>1, <1>2, SubSeqProperties, Z3
<1>5. DOMAIN a = 1 .. t - 1 /\ DOMAIN b = 1 .. Len(s) - t
  BY <1>3, <1>4, LenProperties
<1>6. a \o b \in Seq(S) /\ Range(a \o b) = Range(a) \union Range(b)
  <2> HIDE DEF a, b
  <2>1. a \in Seq(S) /\ b \in Seq(S)
    BY <1>3, <1>4
  <2> QED
    BY <2>1, ConcatProperties, RangeConcatenation
<1>7. ToSet(a \o b) = ToSet(a) \union ToSet(b)
  BY <1>6 DEF ToSet, Range
<1>8. ToSet(s) = ToSet(a) \union ToSet(b) \union {s[t]}
  <2>1. ASSUME NEW i \in 1 .. Len(s)
        PROVE  s[i] \in ToSet(a) \union ToSet(b) \union {s[t]}
    <3>1. CASE i < t
      <4>1. i \in 1 .. t - 1
        BY <3>1, <1>1, <1>2
      <4> QED
        BY <4>1, <1>3, <1>5 DEF ToSet
    <3>2. CASE i > t
      <4>1. i - t \in 1 .. Len(s) - t /\ t + (i - t) = i
        BY <3>2, <1>1, <1>2
      <4> QED
        BY <4>1, <1>4, <1>5 DEF ToSet
    <3> QED
      BY <3>1, <3>2, <1>2
  <2>2. ToSet(a) \subseteq ToSet(s) /\ ToSet(b) \subseteq ToSet(s) /\ s[t] \in ToSet(s)
    <3>1. \A i \in 1 .. t - 1 : i \in 1 .. Len(s)
      BY <1>1, <1>2
    <3>2. \A i \in 1 .. Len(s) - t : t + i \in 1 .. Len(s)
      BY <1>1, <1>2
    <3> HIDE DEF a, b
    <3>3. \A i \in DOMAIN a : a[i] \in ToSet(s)
      BY <3>1, <1>1, <1>3, <1>5 DEF ToSet
    <3>4. \A i \in DOMAIN b : b[i] \in ToSet(s)
      BY <3>2, <1>1, <1>4, <1>5 DEF ToSet
    <3> QED
      BY <3>3, <3>4 DEF ToSet
  <2> QED
    BY <2>1, <2>2, <1>1 DEF ToSet
<1> QED
  BY <1>1, <1>2, <1>6, <1>7, <1>8 DEF RemoveAt

\* Appending an element adds it to the elements of a list.
LEMMA Grown ==
    ASSUME NEW S, NEW s \in Seq(S), NEW e \in S
    PROVE  Append(s, e) \in Seq(S) /\ ToSet(Append(s, e)) = ToSet(s) \union {e}
<1>1. /\ Append(s, e) \in Seq(S) /\ Len(Append(s, e)) = Len(s) + 1
      /\ \A i \in 1 .. Len(s) : Append(s, e)[i] = s[i]
      /\ Append(s, e)[Len(s) + 1] = e
  BY AppendProperties
<1>2. /\ Len(s) \in Nat /\ DOMAIN s = 1 .. Len(s)
      /\ DOMAIN Append(s, e) = 1 .. Len(s) + 1
  BY <1>1, LenProperties
<1> QED
  BY <1>1, <1>2 DEF ToSet

\* Inserting a list at the end of another: where each element comes from.
IsJoin(c, s, u) ==
    /\ \A k \in DOMAIN s : k \in DOMAIN c /\ c[k] = s[k]
    /\ \A k \in DOMAIN u : Len(s) + k \in DOMAIN c /\ c[Len(s) + k] = u[k]
    /\ \A k \in DOMAIN c : k \in DOMAIN s \/ \E m \in DOMAIN u : k = Len(s) + m

LEMMA Concatenated ==
    ASSUME NEW S, NEW s \in Seq(S), NEW u \in Seq(S)
    PROVE  /\ s \o u \in Seq(S)
           /\ ToSet(s \o u) = ToSet(s) \union ToSet(u)
           /\ IsJoin(s \o u, s, u)
<1> DEFINE c == s \o u
           a == Len(s)
           b == Len(u)
<1>1. a \in Nat /\ DOMAIN s = 1 .. a /\ b \in Nat /\ DOMAIN u = 1 .. b
  BY LenProperties
<1>2. /\ c \in Seq(S) /\ Len(c) = a + b
      /\ \A i \in 1 .. a + b : c[i] = IF i <= a THEN s[i] ELSE u[i - a]
  BY ConcatProperties
<1>3. ToSet(c) = ToSet(s) \union ToSet(u)
  <2>1. Range(c) = Range(s) \union Range(u)
    BY RangeConcatenation
  <2> QED
    BY <2>1 DEF ToSet, Range
<1>4. DOMAIN c = 1 .. a + b
  BY <1>2, LenProperties
<1> HIDE DEF c, a, b
<1>5. ASSUME NEW k \in 1 .. a PROVE k \in 1 .. a + b /\ c[k] = s[k]
  <2>1. k \in 1 .. a + b /\ k <= a
    BY <1>1
  <2> QED
    BY <2>1, <1>2
<1>6. ASSUME NEW k \in 1 .. b PROVE a + k \in 1 .. a + b /\ c[a + k] = u[k]
  <2>1. a + k \in 1 .. a + b /\ ~ (a + k <= a) /\ (a + k) - a = k
    BY <1>1
  <2> QED
    BY <2>1, <1>2
<1>7. ASSUME NEW k \in 1 .. a + b
      PROVE  k \in 1 .. a \/ \E m \in 1 .. b : k = a + m
  <2>1. CASE k > a
    <3>1. k - a \in 1 .. b /\ k = a + (k - a)
      BY <2>1, <1>1
    <3> QED
      BY <3>1
  <2> QED
    BY <2>1, <1>1
<1> QED
  BY <1>1, <1>2, <1>3, <1>4, <1>5, <1>6, <1>7 DEF a, b, c, IsJoin

-----------------------------------------------------------------------------
\* Walking a set of numbers in ascending order meets each of them once.
LEMMA Ascending ==
    ASSUME NEW V \in SUBSET Nat, IsFiniteSet(V)
    PROVE  /\ AscendingList(V) \in Seq(V)
           /\ Len(AscendingList(V)) = Cardinality(V)
           /\ ToSet(AscendingList(V)) = V
           /\ \A m, n \in DOMAIN AscendingList(V) :
                 m < n => AscendingList(V)[m] < AscendingList(V)[n]
<1> DEFINE n == Cardinality(V)
           below(v) == {u \in V : u < v}
           rank == [v \in V |-> Cardinality(below(v)) + 1]
<1>0. \A v \in V : v \in Nat
  OBVIOUS
<1>1. n \in Nat /\ IsFiniteSet(1 .. n) /\ Cardinality(1 .. n) = n
  BY FS_CardinalityType, FS_Interval
<1>2. \A v \in V : IsFiniteSet(below(v)) /\ Cardinality(below(v)) \in Nat
  BY FS_Subset, FS_CardinalityType
<1>3. ASSUME NEW v \in V, NEW w \in V, v < w
      PROVE  Cardinality(below(v)) < Cardinality(below(w))
  <2>1. below(v) \in SUBSET below(w) /\ v \in below(w) /\ v \notin below(v)
    <3>1. \A u \in V : u < v => u < w
      BY <1>0, <1>3
    <3>2. v < w /\ ~ (v < v)
      BY <1>0, <1>3
    <3> QED
      BY <3>1, <3>2
  <2>2. /\ Cardinality(below(v)) <= Cardinality(below(w))
        /\ Cardinality(below(v)) # Cardinality(below(w))
    BY <1>2, <2>1, FS_Subset
  <2> QED
    BY <1>2, <2>2
<1>4. ASSUME NEW v \in V PROVE Cardinality(below(v)) < n
  <2>1. below(v) \in SUBSET V /\ v \notin below(v)
    OBVIOUS
  <2>2. Cardinality(below(v)) <= n /\ Cardinality(below(v)) # n
    BY <2>1, FS_Subset
  <2> QED
    BY <1>1, <1>2, <2>2
<1>5. rank \in [V -> 1 .. n]
  <2>1. \A v \in V : Cardinality(below(v)) + 1 \in 1 .. n
    BY <1>1, <1>2, <1>4
  <2> QED
    BY <2>1
<1>6. \A v, w \in V : rank[v] = rank[w] => v = w
  <2>1. ASSUME NEW v \in V, NEW w \in V, v # w PROVE rank[v] # rank[w]
    <3>1. v < w \/ w < v
      BY <2>1
    <3> QED
      BY <3>1, <1>2, <1>3
  <2> QED
    BY <2>1
<1>n. \A v \in V : Cardinality(below(v)) = rank[v] - 1 /\ rank[v] \in Nat
  BY <1>2
<1> HIDE DEF rank
<1>7. rank \in Injection(V, 1 .. n)
  BY <1>5, <1>6, Fun_IsInj
<1>8. rank \in Surjection(V, 1 .. n)
  BY <1>1, <1>7, FS_Injection
<1>9. \A k \in 1 .. n : \E v \in V : rank[v] = k
  BY <1>8, Fun_SurjectionProperties
<1> DEFINE L == AscendingList(V)
<1>10. ASSUME NEW k \in 1 .. n PROVE L[k] \in V /\ rank[L[k]] = k
  <2>1. \A v \in V : rank[v] = k <=> Cardinality(below(v)) = k - 1
    BY <1>1, <1>n
  <2>2. L[k] = CHOOSE v \in V : Cardinality(below(v)) = k - 1
    BY DEF AscendingList
  <2>3. \E v \in V : Cardinality(below(v)) = k - 1
    BY <1>9, <2>1
  <2>4. L[k] \in V /\ Cardinality(below(L[k])) = k - 1
    BY <2>2, <2>3, Zenon
  <2> QED
    BY <2>1, <2>4
<1>11. DOMAIN L = 1 .. n
  BY DEF AscendingList
<1>12. L \in [1 .. n -> V]
  BY <1>10, <1>11 DEF AscendingList
<1> HIDE DEF L
<1>13. L \in Seq(V) /\ Len(L) = n
  BY <1>1, <1>12, IsASeq, LenProperties
<1>14. ToSet(L) = V
  <2>1. ASSUME NEW v \in V PROVE \E k \in 1 .. n : L[k] = v
    <3>1. rank[v] \in 1 .. n /\ rank[L[rank[v]]] = rank[v] /\ L[rank[v]] \in V
      BY <1>5, <1>10
    <3> QED
      BY <3>1, <1>6
  <2> QED
    BY <2>1, <1>10, <1>11 DEF ToSet
<1>15. ASSUME NEW j \in 1 .. n, NEW k \in 1 .. n, j < k PROVE L[j] < L[k]
  <2>1. L[j] \in V /\ L[k] \in V
    BY <1>10
  <2>2. ASSUME L[k] < L[j] PROVE FALSE
    <3>1. Cardinality(below(L[k])) < Cardinality(below(L[j]))
      BY <2>1, <2>2, <1>3
    <3>2. /\ Cardinality(below(L[k])) = k - 1
          /\ Cardinality(below(L[j])) = j - 1
      BY <1>10, <1>n
    <3> HIDE DEF below
    <3> QED
      BY <3>1, <3>2, <1>1, <1>15
  <2>3. L[j] # L[k] /\ L[j] \in Nat /\ L[k] \in Nat
    <3>1. rank[L[j]] = j /\ rank[L[k]] = k /\ j # k
      BY <1>1, <1>10, <1>15
    <3> QED
      BY <3>1, <2>1, <1>0
  <2> QED
    BY <2>2, <2>3
<1> QED
  BY <1>11, <1>13, <1>14, <1>15 DEF L

\* std::find of what is in a list gives where it is.
LEMMA Found ==
    ASSUME NEW S, NEW s \in Seq(S), NEW v \in ToSet(s)
    PROVE  Position(s, v) \in DOMAIN s /\ s[Position(s, v)] = v
<1> DEFINE I == {i \in 1 .. Len(s) : s[i] = v}
<1>1. Len(s) \in Nat /\ DOMAIN s = 1 .. Len(s)
  BY LenProperties
<1>2. I # {} /\ I \in SUBSET Nat
  BY <1>1 DEF ToSet
<1>3. Position(s, v) = Min(I)
  BY <1>2 DEF Position, SelectInSeq
<1>4. \E x \in I : \A y \in I : x <= y
  BY <1>2, LeastNumber
<1>5. Min(I) \in I
  BY <1>4 DEF Min
<1> QED
  BY <1>1, <1>3, <1>5

\* A projection that is made of numbers is a list of numbers and two of pairs.
LEMMA MadeTyped ==
    ASSUME NEW V \in SUBSET Nat, IsFiniteSet(V), NEW E \in Seq(Nat \X Nat)
    PROVE  NewProjection(V, E) \in
               [vertices : Seq(Nat), edges : Seq(Nat \X Nat), cedges : Seq(Nat \X Nat)]
<1> DEFINE L == AscendingList(V)
<1>1. L \in Seq(V)
  BY Ascending
<1>2. Len(L) \in Nat /\ DOMAIN L = 1 .. Len(L) /\ \A k \in 1 .. Len(L) : L[k] \in Nat
  BY <1>1, LenProperties, ElementOfSeq
<1>3. L \in Seq(Nat)
  <2>1. L = [k \in 1 .. Len(L) |-> L[k]]
    BY <1>1, LenProperties
  <2>2. L \in [1 .. Len(L) -> Nat]
    BY <1>2, <2>1
  <2> QED
    BY <1>2, <2>2, IsASeq
<1> HIDE DEF L
<1>4. \A v : Position(L, v) \in Nat
  <2>1. ASSUME NEW v \in ToSet(L) PROVE Position(L, v) \in Nat
    BY <1>2, <1>3, Found
  <2>2. \A v : v \notin ToSet(L) => Position(L, v) = Len(L) + 1
    BY DEF Position
  <2> QED
    BY <1>2, <2>1, <2>2
<1>5. PositionsOf(L, E) \in Seq(Nat \X Nat)
  <2>1. Len(E) \in Nat /\ DOMAIN E = 1 .. Len(E)
    BY LenProperties
  <2> DEFINE C == PositionsOf(L, E)
             n == Len(E)
  <2>2. C \in [1 .. n -> Nat \X Nat] /\ n \in Nat
    BY <1>4, <2>1 DEF PositionsOf
  <2> HIDE DEF C, n
  <2>3. C \in Seq(Nat \X Nat)
    BY <2>2, SeqDef
  <2> QED
    BY <2>3 DEF C
<1>6. NewProjection(V, E) = [vertices |-> L, edges |-> E, cedges |-> PositionsOf(L, E)]
  BY DEF NewProjection, L
<1> QED
  BY <1>3, <1>5, <1>6

\* The cedges of a list of edges, looked up in a list that has all their ends,
\* stand for the edges.
LEMMA LookedUp ==
    ASSUME NEW S, NEW list \in Seq(S), NEW E,
           \A k \in DOMAIN E : /\ E[k] = <<E[k][1], E[k][2]>>
                               /\ E[k][1] \in ToSet(list) /\ E[k][2] \in ToSet(list)
    PROVE  Resolves([vertices |-> list, edges |-> E, cedges |-> PositionsOf(list, E)])
<1>1. DOMAIN PositionsOf(list, E) = DOMAIN E
  BY DEF PositionsOf
<1>2. ASSUME NEW k \in DOMAIN E
      PROVE  LET c == PositionsOf(list, E)[k]
             IN  /\ c[1] \in DOMAIN list /\ c[2] \in DOMAIN list
                 /\ E[k] = <<list[c[1]], list[c[2]]>>
  <2>1. PositionsOf(list, E)[k] = <<Position(list, E[k][1]), Position(list, E[k][2])>>
    BY DEF PositionsOf
  <2>2. /\ Position(list, E[k][1]) \in DOMAIN list /\ list[Position(list, E[k][1])] = E[k][1]
        /\ Position(list, E[k][2]) \in DOMAIN list /\ list[Position(list, E[k][2])] = E[k][2]
    BY Found
  <2> QED
    BY <2>1, <2>2
<1> QED
  BY <1>1, <1>2 DEF Resolves

-----------------------------------------------------------------------------
\* Erasing position s moves what is behind it forward by one.
Shifted(k, s) == IF k < s THEN k ELSE k + 1

LEMMA Erased ==
    ASSUME NEW S, NEW P \in Seq(S), NEW s \in DOMAIN P
    PROVE  /\ RemoveAt(P, s) \in Seq(S)
           /\ Len(P) \in Nat \ {0} /\ DOMAIN P = 1 .. Len(P)
           /\ Len(RemoveAt(P, s)) = Len(P) - 1
           /\ DOMAIN RemoveAt(P, s) = 1 .. Len(P) - 1
           /\ \A k \in DOMAIN RemoveAt(P, s) :
                 /\ Shifted(k, s) \in DOMAIN P /\ Shifted(k, s) # s
                 /\ RemoveAt(P, s)[k] = P[Shifted(k, s)]
           /\ \A m \in DOMAIN P : m # s =>
                 \E k \in DOMAIN RemoveAt(P, s) : Shifted(k, s) = m
<1> DEFINE a == SubSeq(P, 1, s - 1)
           b == SubSeq(P, s + 1, Len(P))
           n == Len(P)
<1>1. n \in Nat \ {0} /\ DOMAIN P = 1 .. n /\ s \in 1 .. n /\ \A i \in 1 .. n : P[i] \in S
  BY LenProperties, ElementOfSeq
<1>2. a \in Seq(S) /\ Len(a) = s - 1 /\ \A i \in 1 .. s - 1 : a[i] = P[i]
  BY <1>1, SubSeqProperties, Z3
<1>3. b \in Seq(S) /\ Len(b) = n - s /\ \A i \in 1 .. n - s : b[i] = P[s + i]
  BY <1>1, SubSeqProperties, Z3
<1> DEFINE c == a \o b
<1>4. /\ c \in Seq(S) /\ Len(c) = Len(a) + Len(b)
      /\ \A i \in 1 .. Len(a) + Len(b) : c[i] = IF i <= Len(a) THEN a[i] ELSE b[i - Len(a)]
  BY <1>2, <1>3, ConcatProperties
<1>5. RemoveAt(P, s) = c
  BY DEF RemoveAt
<1> HIDE DEF a, b, c, n
<1>6. Len(c) = n - 1 /\ DOMAIN c = 1 .. n - 1
  BY <1>1, <1>2, <1>3, <1>4, LenProperties
<1>7. ASSUME NEW k \in 1 .. n - 1
      PROVE  Shifted(k, s) \in 1 .. n /\ Shifted(k, s) # s /\ c[k] = P[Shifted(k, s)]
  <2>1. CASE k < s
    <3>1. k \in 1 .. s - 1 /\ k <= Len(a) /\ k \in 1 .. Len(a) + Len(b)
      BY <1>1, <1>2, <1>3, <1>7, <2>1
    <3> QED
      BY <3>1, <2>1, <1>1, <1>2, <1>4 DEF Shifted
  <2>2. CASE k >= s
    <3>1. /\ k - (s - 1) \in 1 .. n - s /\ ~ (k <= Len(a)) /\ k \in 1 .. Len(a) + Len(b)
          /\ s + (k - (s - 1)) = k + 1
      BY <1>1, <1>2, <1>3, <1>7, <2>2
    <3>2. c[k] = b[k - (s - 1)]
      BY <3>1, <1>2, <1>4
    <3>3. c[k] = P[k + 1]
      BY <3>1, <3>2, <1>3
    <3> QED
      BY <3>3, <2>2, <1>1, <1>7 DEF Shifted
  <2> QED
    BY <2>1, <2>2, <1>1, <1>7
<1>8. ASSUME NEW m \in 1 .. n, m # s PROVE \E k \in 1 .. n - 1 : Shifted(k, s) = m
  <2>1. CASE m < s
    BY <2>1, <1>1, <1>8 DEF Shifted
  <2>2. CASE m > s
    <3>1. m - 1 \in 1 .. n - 1 /\ Shifted(m - 1, s) = m
      BY <2>2, <1>1, <1>8 DEF Shifted
    <3> QED
      BY <3>1
  <2> QED
    BY <2>1, <2>2, <1>1, <1>8
<1> QED
  BY <1>1, <1>4, <1>5, <1>6, <1>7, <1>8 DEF n

\* Two positions that are different were different before.
LEMMA ErasedApart ==
    ASSUME NEW k \in Nat, NEW m \in Nat, NEW s \in Nat, k # m
    PROVE  Shifted(k, s) # Shifted(m, s)
BY DEF Shifted
=============================================================================
