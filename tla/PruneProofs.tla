----------------------------- MODULE PruneProofs -----------------------------
(***************************************************************************)
(* Proofs that pruning only ever glues whole projections together, and, as *)
(* long as no two boxes cross, glues exactly what has to be glued.  Prune  *)
(* is a stage of Interpreter and has no initial state of its own, so the   *)
(* results are about its steps: each keeps the invariant IInv.             *)
(***************************************************************************)
EXTENDS Prune, ListLemmas

\* A projection as the separation leaves it: its lists belong together.
Sound(p) ==
    /\ Resolves(p)
    /\ IsInjective(p.vertices)
    /\ ToSet(p.vertices) = VertsOf(ToSet(p.edges))

Shows(p) == ToSet(p.vertices)

\* merge appends one sound projection to another that shares no vertex with
\* it, and what results is sound, in the box of the first.
LEMMA Merged ==
    ASSUME NEW t \in View, NEW s \in View, Sound(t), Sound(s),
           Shows(t) \intersect Shows(s) = {}
    PROVE  /\ Merge(t, s) \in View
           /\ Merge(t, s).box = t.box
           /\ Sound(Merge(t, s))
           /\ Shows(Merge(t, s)) = Shows(t) \union Shows(s)
           /\ ToSet(Merge(t, s).edges) = ToSet(t.edges) \union ToSet(s.edges)
<1> DEFINE n == Len(t.vertices)
           moved == [k \in DOMAIN s.cedges |-> <<s.cedges[k][1] + n, s.cedges[k][2] + n>>]
           V == t.vertices \o s.vertices
           E == t.edges \o s.edges
           C == t.cedges \o moved
           M == Merge(t, s)
<1>1. /\ t.vertices \in Seq(Nat) /\ s.vertices \in Seq(Nat)
      /\ t.edges \in Seq(Nat \X Nat) /\ s.edges \in Seq(Nat \X Nat)
      /\ t.cedges \in Seq(Nat \X Nat) /\ s.cedges \in Seq(Nat \X Nat)
      /\ t.box \in Box
      /\ t = [vertices |-> t.vertices, edges |-> t.edges, cedges |-> t.cedges, box |-> t.box]
  BY DEF View
<1>2. /\ n \in Nat /\ DOMAIN t.vertices = 1 .. n
      /\ Len(s.cedges) \in Nat /\ DOMAIN s.cedges = 1 .. Len(s.cedges)
      /\ \A k \in DOMAIN s.cedges : s.cedges[k] \in Nat \X Nat
  BY <1>1, LenProperties, ElementOfSeq
<1>3. moved \in Seq(Nat \X Nat) /\ DOMAIN moved = DOMAIN s.cedges
  <2> DEFINE m == Len(s.cedges)
  <2>1. moved \in [1 .. m -> Nat \X Nat] /\ m \in Nat
    BY <1>2
  <2>2. DOMAIN moved = DOMAIN s.cedges
    OBVIOUS
  <2> HIDE DEF moved, m
  <2> QED
    BY <2>1, <2>2, SeqDef
<1>4. M = [vertices |-> V, edges |-> E, cedges |-> C, box |-> t.box]
  <2>1. M = [t EXCEPT !.vertices = V, !.edges = E, !.cedges = C]
    BY DEF Merge, AppendMoved
  <2> HIDE DEF V, E, C, M, moved, n
  <2> QED
    BY <1>1, <2>1
<1>m. \A k \in DOMAIN s.cedges :
         /\ moved[k][1] = n + s.cedges[k][1]
         /\ moved[k][2] = n + s.cedges[k][2]
  BY <1>2
<1> HIDE DEF moved, n
<1>5. V \in Seq(Nat) /\ ToSet(V) = Shows(t) \union Shows(s) /\ IsJoin(V, t.vertices, s.vertices)
  BY <1>1, Concatenated DEF Shows
<1>6. /\ E \in Seq(Nat \X Nat) /\ ToSet(E) = ToSet(t.edges) \union ToSet(s.edges)
      /\ IsJoin(E, t.edges, s.edges)
  BY <1>1, Concatenated
<1>7. C \in Seq(Nat \X Nat) /\ IsJoin(C, t.cedges, moved)
  BY <1>1, <1>3, Concatenated
<1>8. Len(t.edges) = Len(t.cedges)
  <2>1. DOMAIN t.edges = DOMAIN t.cedges
    BY DEF Sound, Resolves
  <2>2. /\ Len(t.edges) \in Nat /\ DOMAIN t.edges = 1 .. Len(t.edges)
        /\ Len(t.cedges) \in Nat /\ DOMAIN t.cedges = 1 .. Len(t.cedges)
    BY <1>1, LenProperties
  <2> DEFINE a == Len(t.edges)
             b == Len(t.cedges)
  <2> HIDE DEF a, b
  <2>3. a \in Nat /\ b \in Nat /\ 1 .. a = 1 .. b
    BY <2>1, <2>2 DEF a, b
  <2>4. a = b
    BY <2>3
  <2> QED
    BY <2>4 DEF a, b
<1> HIDE DEF V, E, C, M
<1>9. M \in View
  BY <1>1, <1>4, <1>5, <1>6, <1>7 DEF View
<1>10. Resolves(M)
  <2>1. DOMAIN C = DOMAIN E
    <3>1. DOMAIN t.cedges = DOMAIN t.edges /\ DOMAIN s.cedges = DOMAIN s.edges
      BY DEF Sound, Resolves
    <3>2. \A k \in DOMAIN C : k \in DOMAIN E
      BY <3>1, <1>3, <1>6, <1>7, <1>8 DEF IsJoin
    <3>3. \A k \in DOMAIN E : k \in DOMAIN C
      BY <3>1, <1>3, <1>6, <1>7, <1>8 DEF IsJoin
    <3> QED
      BY <3>2, <3>3
  <2>2. ASSUME NEW k \in DOMAIN t.cedges
        PROVE  /\ C[k][1] \in DOMAIN V /\ C[k][2] \in DOMAIN V
               /\ E[k] = <<V[C[k][1]], V[C[k][2]]>>
    <3>1. /\ t.cedges[k][1] \in DOMAIN t.vertices /\ t.cedges[k][2] \in DOMAIN t.vertices
          /\ t.edges[k] = <<t.vertices[t.cedges[k][1]], t.vertices[t.cedges[k][2]]>>
          /\ k \in DOMAIN t.edges
      BY <2>2 DEF Sound, Resolves
    <3>2. C[k] = t.cedges[k] /\ E[k] = t.edges[k]
      BY <3>1, <1>6, <1>7 DEF IsJoin
    <3>3. \A x \in DOMAIN t.vertices : x \in DOMAIN V /\ V[x] = t.vertices[x]
      BY <1>5 DEF IsJoin
    <3> QED
      BY <3>1, <3>2, <3>3
  <2>3. ASSUME NEW m \in DOMAIN moved, NEW k, k = Len(t.cedges) + m
        PROVE  /\ C[k][1] \in DOMAIN V /\ C[k][2] \in DOMAIN V
               /\ E[k] = <<V[C[k][1]], V[C[k][2]]>>
    <3>1. /\ s.cedges[m][1] \in DOMAIN s.vertices /\ s.cedges[m][2] \in DOMAIN s.vertices
          /\ s.edges[m] = <<s.vertices[s.cedges[m][1]], s.vertices[s.cedges[m][2]]>>
          /\ m \in DOMAIN s.edges /\ m \in DOMAIN s.cedges
      BY <2>3, <1>3 DEF Sound, Resolves
    <3>2. C[k] = moved[m] /\ E[k] = s.edges[m]
      BY <2>3, <3>1, <1>6, <1>7, <1>8 DEF IsJoin
    <3>3. C[k][1] = n + s.cedges[m][1] /\ C[k][2] = n + s.cedges[m][2]
      BY <3>1, <3>2, <1>m
    <3> QED
      BY <3>1, <3>2, <3>3, <1>5 DEF IsJoin, n
  <2>4. \A k \in DOMAIN C : /\ C[k][1] \in DOMAIN V /\ C[k][2] \in DOMAIN V
                            /\ E[k] = <<V[C[k][1]], V[C[k][2]]>>
    <3> TAKE k \in DOMAIN C
    <3>1. k \in DOMAIN t.cedges \/ \E m \in DOMAIN moved : k = Len(t.cedges) + m
      BY <1>7 DEF IsJoin
    <3> QED
      BY <3>1, <2>2, <2>3
  <2> QED
    BY <2>1, <2>4, <1>4 DEF Resolves
<1>11. IsInjective(V)
  <2>1. ASSUME NEW a \in DOMAIN V, NEW b \in DOMAIN V, V[a] = V[b] PROVE a = b
    <3>1. CASE a \in DOMAIN t.vertices /\ b \in DOMAIN t.vertices
      <4>1. t.vertices[a] = t.vertices[b]
        BY <3>1, <2>1, <1>5 DEF IsJoin
      <4> QED
        BY <4>1, <3>1 DEF Sound, IsInjective
    <3>2. ASSUME NEW k \in DOMAIN s.vertices, NEW m \in DOMAIN s.vertices,
                 a = n + k, b = n + m
          PROVE  a = b
      <4>1. s.vertices[k] = s.vertices[m]
        BY <3>2, <2>1, <1>5 DEF IsJoin, n
      <4> QED
        BY <4>1, <3>2 DEF Sound, IsInjective
    <3>3. ASSUME NEW x \in DOMAIN t.vertices, NEW m \in DOMAIN s.vertices
          PROVE  V[x] # V[n + m]
      <4>1. V[x] \in Shows(t) /\ V[n + m] \in Shows(s)
        BY <3>3, <1>5 DEF Shows, ToSet, IsJoin, n
      <4> QED
        BY <4>1
    <3> QED
      BY <2>1, <3>1, <3>2, <3>3, <1>5 DEF IsJoin, n
  <2> QED
    BY <2>1 DEF IsInjective
<1>12. ToSet(V) = VertsOf(ToSet(E))
  <2>1. Shows(t) = VertsOf(ToSet(t.edges)) /\ Shows(s) = VertsOf(ToSet(s.edges))
    BY DEF Sound, Shows
  <2>2. VertsOf(ToSet(E)) = VertsOf(ToSet(t.edges)) \union VertsOf(ToSet(s.edges))
    BY <1>6 DEF VertsOf
  <2> QED
    BY <2>1, <2>2, <1>5
<1>13. /\ M.box = t.box /\ Sound(M) /\ Shows(M) = Shows(t) \union Shows(s)
       /\ ToSet(M.edges) = ToSet(t.edges) \union ToSet(s.edges)
  BY <1>4, <1>5, <1>6, <1>10, <1>11, <1>12 DEF Sound, Shows
<1> QED
  BY <1>9, <1>13 DEF M

-----------------------------------------------------------------------------
\* Every projection is sound, and no vertex is in two of them.
Views ==
    /\ \A k \in DOMAIN projections : Sound(projections[k])
    /\ \A k, m \in DOMAIN projections :
          k # m => Shows(projections[k]) \intersect Shows(projections[m]) = {}

\* No line is lost and none is invented.
Lines(list) == UNION {ToSet(list[k].edges) : k \in DOMAIN list}
LinesKept == Lines(projections) = Lines(given)

\* Each projection still has in it the one it was boxed as, and each projection
\* of the list at the call is in one of those that are left.
Boxed ==
    /\ \A g \in DOMAIN given : given[g].box = g /\ Shows(given[g]) # {}
    /\ \A k \in DOMAIN projections :
          Shows(given[projections[k].box]) \subseteq Shows(projections[k])
    /\ \A g \in DOMAIN given : \E k \in DOMAIN projections :
          Shows(given[g]) \subseteq Shows(projections[k])

\* The list only gets shorter.
Short ==
    /\ given \in Seq(View)
    /\ Len(projections) <= Len(given)
    /\ pc = "inner" => i <= Len(given)

\* <<b, c>> of the projections k and m: the centre of m is inside the box of k.
Has(k, m) == <<projections[k].box, projections[m].box>> \in covers

\* The two loops: the centre of none of the projections in front of i is inside
\* another one, nor is that of projection i inside one in front of j, until one
\* has been merged in this round.
Rounds ==
    /\ \A m, k \in DOMAIN projections : m < i /\ k # m => ~ Has(k, m)
    /\ pc = "inner" =>
          /\ i \in DOMAIN projections
          /\ center = projections[i].box
          /\ removed_any = FALSE =>
                \A k \in DOMAIN projections : k < j /\ k # i => ~ Has(k, i)
    /\ pc = "done" => i > Len(projections)
    /\ pc # "undefined"

IInv ==
    /\ TypeOK
    /\ Short
    /\ Views
    /\ LinesKept
    /\ Boxed
    /\ Nested => TiedByBoxes /\ Rounds

-----------------------------------------------------------------------------
\* The list after a merge, position by position.
LEMMA Shortened ==
    ASSUME projections \in Seq(View), Views,
           NEW t \in DOMAIN projections, NEW s \in DOMAIN projections, t # s
    PROVE  /\ MergedInto(t, s) \in Seq(View)
           /\ Len(projections) \in Nat \ {0} /\ DOMAIN projections = 1 .. Len(projections)
           /\ Len(MergedInto(t, s)) = Len(projections) - 1
           /\ DOMAIN MergedInto(t, s) = 1 .. Len(projections) - 1
           /\ \A k \in DOMAIN MergedInto(t, s) :
                 /\ Shifted(k, s) \in DOMAIN projections /\ Shifted(k, s) # s
                 /\ MergedInto(t, s)[k] =
                       IF Shifted(k, s) = t THEN Merge(projections[t], projections[s])
                                          ELSE projections[Shifted(k, s)]
           /\ \A m \in DOMAIN projections : m # s =>
                 \E k \in DOMAIN MergedInto(t, s) : Shifted(k, s) = m
<1> DEFINE M == Merge(projections[t], projections[s])
           L == [projections EXCEPT ![t] = M]
<1>1. /\ Len(projections) \in Nat /\ DOMAIN projections = 1 .. Len(projections)
      /\ \A k \in DOMAIN projections : projections[k] \in View
  BY LenProperties, ElementOfSeq
<1>2. M \in View
  BY <1>1, Merged DEF Views
<1> HIDE DEF M
<1>3. /\ L \in [1 .. Len(projections) -> View] /\ DOMAIN L = DOMAIN projections
      /\ L[t] = M /\ \A k \in DOMAIN projections : k # t => L[k] = projections[k]
  BY <1>1, <1>2
<1> DEFINE n == Len(projections)
<1> HIDE DEF L
<1>4. L \in Seq(View) /\ Len(L) = n
  <2>1. n \in Nat /\ L \in [1 .. n -> View]
    BY <1>1, <1>3
  <2> HIDE DEF n
  <2> QED
    BY <2>1, SeqDef, LenProperties
<1>5. MergedInto(t, s) = RemoveAt(L, s)
  BY DEF MergedInto, L, M
<1>6. s \in DOMAIN L
  BY <1>3
<1>7. /\ RemoveAt(L, s) \in Seq(View)
      /\ Len(L) \in Nat \ {0}
      /\ Len(RemoveAt(L, s)) = n - 1
      /\ DOMAIN RemoveAt(L, s) = 1 .. n - 1
      /\ \A k \in DOMAIN RemoveAt(L, s) :
            /\ Shifted(k, s) \in DOMAIN L /\ Shifted(k, s) # s
            /\ RemoveAt(L, s)[k] = L[Shifted(k, s)]
      /\ \A m \in DOMAIN L : m # s =>
            \E k \in DOMAIN RemoveAt(L, s) : Shifted(k, s) = m
  BY <1>4, <1>6, Erased
<1> HIDE DEF n
<1> QED
  BY <1>1, <1>3, <1>4, <1>5, <1>7 DEF M, n

\* merge and erase together: whichever two projections they work on, sound
\* projections without a common vertex are left, with all the lines, and each
\* keeps its box.
LEMMA Glued ==
    ASSUME projections \in Seq(View), given \in Seq(View), Views, LinesKept, Boxed,
           NEW t \in DOMAIN projections, NEW s \in DOMAIN projections, t # s,
           projections' = MergedInto(t, s), given' = given
    PROVE  /\ projections' \in Seq(View)
           /\ Len(projections) \in Nat /\ DOMAIN projections = 1 .. Len(projections)
           /\ Len(projections') = Len(projections) - 1
           /\ DOMAIN projections' = 1 .. Len(projections) - 1
           /\ \A k \in DOMAIN projections' :
                 /\ Shifted(k, s) \in DOMAIN projections /\ Shifted(k, s) # s
                 /\ projections'[k].box = projections[Shifted(k, s)].box
                 /\ Shows(projections'[k]) = Shows(projections[Shifted(k, s)])
                       \union (IF Shifted(k, s) = t THEN Shows(projections[s]) ELSE {})
           /\ \A m \in DOMAIN projections : m # s =>
                 \E k \in DOMAIN projections' : Shifted(k, s) = m
           /\ Views' /\ LinesKept' /\ Boxed'
<1> DEFINE P == projections
           Q == projections'
           M == Merge(P[t], P[s])
<1>1. \A k \in DOMAIN P : P[k] \in View /\ Sound(P[k])
  BY LenProperties, ElementOfSeq DEF Views
<1>2. /\ Q \in Seq(View)
      /\ Len(P) \in Nat /\ DOMAIN P = 1 .. Len(P)
      /\ Len(Q) = Len(P) - 1
      /\ DOMAIN Q = 1 .. Len(P) - 1
      /\ \A k \in DOMAIN Q :
            /\ Shifted(k, s) \in DOMAIN P /\ Shifted(k, s) # s
            /\ Q[k] = IF Shifted(k, s) = t THEN M ELSE P[Shifted(k, s)]
      /\ \A m \in DOMAIN P : m # s => \E k \in DOMAIN Q : Shifted(k, s) = m
  <2> DEFINE R == MergedInto(t, s)
  <2>1. /\ R \in Seq(View)
        /\ Len(P) \in Nat /\ DOMAIN P = 1 .. Len(P)
        /\ Len(R) = Len(P) - 1
        /\ DOMAIN R = 1 .. Len(P) - 1
        /\ \A k \in DOMAIN R :
              /\ Shifted(k, s) \in DOMAIN P /\ Shifted(k, s) # s
              /\ R[k] = IF Shifted(k, s) = t THEN M ELSE P[Shifted(k, s)]
        /\ \A m \in DOMAIN P : m # s => \E k \in DOMAIN R : Shifted(k, s) = m
    BY Shortened
  <2>2. Q = R
    OBVIOUS
  <2> HIDE DEF P, Q, R, M
  <2> QED
    BY <2>1, <2>2
<1>3. /\ M.box = P[t].box /\ Sound(M)
      /\ Shows(M) = Shows(P[t]) \union Shows(P[s])
      /\ ToSet(M.edges) = ToSet(P[t].edges) \union ToSet(P[s].edges)
  <2>1. Shows(P[t]) \intersect Shows(P[s]) = {}
    BY DEF Views
  <2> QED
    BY <1>1, <2>1, Merged
<1> HIDE DEF M, P, Q
<1>p. P = projections /\ Q = projections' /\ t \in DOMAIN P /\ s \in DOMAIN P
  BY DEF P, Q
<1>4. \A k \in DOMAIN Q :
         /\ Q[k].box = P[Shifted(k, s)].box
         /\ Sound(Q[k])
         /\ Shows(Q[k]) = Shows(P[Shifted(k, s)])
                             \union (IF Shifted(k, s) = t THEN Shows(P[s]) ELSE {})
         /\ ToSet(Q[k].edges) = ToSet(P[Shifted(k, s)].edges)
                             \union (IF Shifted(k, s) = t THEN ToSet(P[s].edges) ELSE {})
  BY <1>1, <1>2, <1>3
<1>5. Views'
  <2>1. ASSUME NEW k \in DOMAIN Q, NEW m \in DOMAIN Q, k # m
        PROVE  Shows(Q[k]) \intersect Shows(Q[m]) = {}
    <3>1. Shifted(k, s) # Shifted(m, s)
      BY <1>2, <1>p, <2>1, ErasedApart
    <3>2. \A x, y \in DOMAIN P : x # y => Shows(P[x]) \intersect Shows(P[y]) = {}
      BY <1>p DEF Views
    <3>3. /\ Shifted(k, s) \in DOMAIN P /\ Shifted(k, s) # s
          /\ Shifted(m, s) \in DOMAIN P /\ Shifted(m, s) # s
      BY <1>2
    <3>4. /\ Shows(P[Shifted(k, s)]) \intersect Shows(P[Shifted(m, s)]) = {}
          /\ Shows(P[Shifted(k, s)]) \intersect Shows(P[s]) = {}
          /\ Shows(P[Shifted(m, s)]) \intersect Shows(P[s]) = {}
      BY <3>1, <3>2, <3>3, <1>p
    <3> QED
      BY <3>1, <3>4, <1>4
  <2>2. Views' = /\ \A k \in DOMAIN Q : Sound(Q[k])
                 /\ \A k, m \in DOMAIN Q : k # m => Shows(Q[k]) \intersect Shows(Q[m]) = {}
    BY <1>p DEF Views, Sound, Shows
  <2> QED
    BY <2>1, <2>2, <1>4
<1>6. LinesKept'
  <2>1. Lines(Q) \subseteq Lines(P)
    BY <1>2, <1>4, <1>p DEF Lines
  <2>2. Lines(P) \subseteq Lines(Q)
    <3>1. ASSUME NEW m \in DOMAIN P
          PROVE  \E k \in DOMAIN Q : ToSet(P[m].edges) \subseteq ToSet(Q[k].edges)
      <4>1. CASE m = s
        <5>1. PICK k \in DOMAIN Q : Shifted(k, s) = t
          BY <1>2, <1>p
        <5> QED
          BY <4>1, <5>1, <1>4
      <4>2. CASE m # s
        <5>1. PICK k \in DOMAIN Q : Shifted(k, s) = m
          BY <4>2, <1>2
        <5> QED
          BY <5>1, <1>4
      <4> QED
        BY <4>1, <4>2
    <3> QED
      BY <3>1 DEF Lines
  <2>3. Lines(P) = Lines(given)
    BY <1>p DEF LinesKept
  <2>4. LinesKept' = (Lines(Q) = Lines(given))
    BY <1>p DEF LinesKept, Lines
  <2> QED
    BY <2>1, <2>2, <2>3, <2>4
<1>7. Boxed'
  <2>1. /\ \A g \in DOMAIN given : given[g].box = g /\ Shows(given[g]) # {}
        /\ \A k \in DOMAIN P : Shows(given[P[k].box]) \subseteq Shows(P[k])
        /\ \A g \in DOMAIN given : \E k \in DOMAIN P : Shows(given[g]) \subseteq Shows(P[k])
    BY <1>p DEF Boxed
  <2>2. \A k \in DOMAIN Q : Shows(given[Q[k].box]) \subseteq Shows(Q[k])
    BY <1>2, <1>4, <2>1
  <2>3. ASSUME NEW g \in DOMAIN given
        PROVE  \E k \in DOMAIN Q : Shows(given[g]) \subseteq Shows(Q[k])
    <3>1. PICK m \in DOMAIN P : Shows(given[g]) \subseteq Shows(P[m])
      BY <2>1
    <3>2. CASE m = s
      <4>1. PICK k \in DOMAIN Q : Shifted(k, s) = t
        BY <1>2, <1>p
      <4> QED
        BY <3>1, <3>2, <4>1, <1>4
    <3>3. CASE m # s
      <4>1. PICK k \in DOMAIN Q : Shifted(k, s) = m
        BY <3>3, <1>2
      <4> QED
        BY <3>1, <4>1, <1>4
    <3> QED
      BY <3>2, <3>3
  <2>4. Boxed' =
          /\ \A g \in DOMAIN given : given[g].box = g /\ Shows(given[g]) # {}
          /\ \A k \in DOMAIN Q : Shows(given[Q[k].box]) \subseteq Shows(Q[k])
          /\ \A g \in DOMAIN given : \E k \in DOMAIN Q : Shows(given[g]) \subseteq Shows(Q[k])
    BY <1>p DEF Boxed, Shows
  <2> QED
    BY <2>1, <2>2, <2>3, <2>4
<1> QED
  BY <1>2, <1>4, <1>5, <1>6, <1>7, <1>p

\* A merge for the sake of a box keeps projections tied by boxes.
LEMMA GluedForAReason ==
    ASSUME projections \in Seq(View), given \in Seq(View), Views, LinesKept, Boxed,
           NEW t \in DOMAIN projections, NEW s \in DOMAIN projections, t # s,
           projections' = MergedInto(t, s), given' = given, covers' = covers,
           TiedByBoxes, Has(t, s) \/ Has(s, t)
    PROVE  TiedByBoxes'
<1> DEFINE P == projections
           Q == projections'
           In(V) == {given[g].box : g \in {m \in DOMAIN given : Shows(given[m]) \subseteq V}}
           Tied(B) == \A S \in SUBSET B : S # {} /\ S # B =>
                         \E b \in S, c \in B \ S : <<b, c>> \in covers \/ <<c, b>> \in covers
<1>1. /\ \A k \in DOMAIN Q :
            /\ Shifted(k, s) \in DOMAIN P /\ Shifted(k, s) # s
            /\ Shows(Q[k]) = Shows(P[Shifted(k, s)])
                  \union (IF Shifted(k, s) = t THEN Shows(P[s]) ELSE {})
  BY Glued
<1>2. \A k \in DOMAIN P : P[k] \in View
  BY LenProperties, ElementOfSeq
<1>3. /\ \A g \in DOMAIN given : given[g].box = g /\ Shows(given[g]) # {}
      /\ \A k \in DOMAIN P : Shows(given[P[k].box]) \subseteq Shows(P[k])
      /\ \A g \in DOMAIN given : \E k \in DOMAIN P : Shows(given[g]) \subseteq Shows(P[k])
  BY DEF Boxed
<1>4. \A k \in DOMAIN P : P[k].box \in DOMAIN given
  <2>1. DOMAIN given = Box
    BY LenProperties DEF Box
  <2> QED
    BY <1>2, <2>1 DEF View
<1>5. \A k, m \in DOMAIN P : k # m => Shows(P[k]) \intersect Shows(P[m]) = {}
  BY DEF Views
<1>6. \A k \in DOMAIN P : Tied(In(Shows(P[k])))
  BY DEF TiedByBoxes, Members, Shows
<1>7. SUFFICES ASSUME NEW k \in DOMAIN Q PROVE Tied(In(Shows(Q[k])))
  <2>1. TiedByBoxes' = \A k \in DOMAIN Q : Tied({given[g].box : g \in {m \in DOMAIN given :
                          ToSet(given[m].vertices) \subseteq ToSet(Q[k].vertices)}})
    BY DEF TiedByBoxes, Members
  <2> QED
    BY <1>7, <2>1 DEF Shows
<1> DEFINE A == In(Shows(P[t]))
           B == In(Shows(P[s]))
<1>8. P[t].box \in A /\ P[s].box \in B
  BY <1>3, <1>4
<1>9. In(Shows(P[t]) \union Shows(P[s])) = A \union B
  <2>1. ASSUME NEW g \in DOMAIN given, Shows(given[g]) \subseteq Shows(P[t]) \union Shows(P[s])
        PROVE  Shows(given[g]) \subseteq Shows(P[t]) \/ Shows(given[g]) \subseteq Shows(P[s])
    <3>1. PICK m \in DOMAIN P : Shows(given[g]) \subseteq Shows(P[m])
      BY <1>3
    <3>2. m = t \/ m = s
      BY <2>1, <3>1, <1>3, <1>5
    <3> QED
      BY <3>1, <3>2
  <2> QED
    BY <2>1
<1>10. Tied(A) /\ Tied(B)
  BY <1>6
<1>11. \/ <<P[t].box, P[s].box>> \in covers
       \/ <<P[s].box, P[t].box>> \in covers
  BY DEF Has
<1>12. Tied(A \union B)
  <2> HIDE DEF A, B, P
  <2>1. SUFFICES ASSUME NEW S \in SUBSET (A \union B), S # {}, S # A \union B
                 PROVE  \E b \in S, c \in (A \union B) \ S :
                           <<b, c>> \in covers \/ <<c, b>> \in covers
    OBVIOUS
  <2>2. CASE S \intersect A # {} /\ S \intersect A # A
    <3>1. \E b \in S \intersect A, c \in A \ (S \intersect A) :
             <<b, c>> \in covers \/ <<c, b>> \in covers
      BY <2>2, <1>10
    <3> QED
      BY <3>1
  <2>3. CASE S \intersect B # {} /\ S \intersect B # B
    <3>1. \E b \in S \intersect B, c \in B \ (S \intersect B) :
             <<b, c>> \in covers \/ <<c, b>> \in covers
      BY <2>3, <1>10
    <3> QED
      BY <3>1
  <2>4. CASE S \intersect A = {} /\ S \intersect B = B
    <3>1. P[t].box \in (A \union B) \ S /\ P[s].box \in S
      BY <2>4, <1>8
    <3> QED
      BY <3>1, <1>11
  <2>5. CASE S \intersect A = A /\ S \intersect B = {}
    <3>1. P[s].box \in (A \union B) \ S /\ P[t].box \in S
      BY <2>5, <1>8
    <3> QED
      BY <3>1, <1>11
  <2> QED
    BY <2>1, <2>2, <2>3, <2>4, <2>5
<1> HIDE DEF In, Tied, P, Q
<1>13. CASE Shifted(k, s) = t
  BY <1>13, <1>1, <1>9, <1>12 DEF P, Q
<1>14. CASE Shifted(k, s) # t
  <2>1. Shows(Q[k]) = Shows(P[Shifted(k, s)])
    BY <1>14, <1>1
  <2> QED
    BY <2>1, <1>1, <1>6
<1> QED
  BY <1>13, <1>14

-----------------------------------------------------------------------------
\* Where the counters and the boxes are.
LEMMA Facts ==
    ASSUME IInv
    PROVE  /\ given \in Seq(View) /\ projections \in Seq(View)
           /\ Len(given) \in Nat /\ Len(projections) \in Nat
           /\ Len(projections) <= Len(given)
           /\ DOMAIN projections = 1 .. Len(projections)
           /\ i \in Nat \ {0} /\ j \in Nat \ {0} /\ i <= Len(given) + 1 /\ j <= Len(given) + 1
           /\ \A k \in DOMAIN projections : projections[k].box \in Box
           /\ \A k, m \in DOMAIN projections :
                 k # m => projections[k].box # projections[m].box
<1>1. /\ given \in Seq(View) /\ projections \in Seq(View)
      /\ Len(given) \in Nat /\ Len(projections) \in Nat
      /\ Len(projections) <= Len(given)
      /\ DOMAIN projections = 1 .. Len(projections) /\ DOMAIN given = 1 .. Len(given)
      /\ i \in 1 .. Len(given) + 1 /\ j \in 1 .. Len(given) + 1
  BY LenProperties DEF IInv, TypeOK, Short
<1>2. \A k \in DOMAIN projections : projections[k].box \in Box
  <2>1. \A k \in DOMAIN projections : projections[k] \in View
    BY <1>1, ElementOfSeq
  <2> QED
    BY <2>1 DEF View
<1>3. ASSUME NEW k \in DOMAIN projections, NEW m \in DOMAIN projections, k # m,
             projections[k].box = projections[m].box
      PROVE  FALSE
  <2> DEFINE g == projections[k].box
  <2>1. g \in DOMAIN given
    BY <1>1, <1>2 DEF Box
  <2>2. Shows(given[g]) # {}
    BY <2>1 DEF IInv, Boxed
  <2>3. Shows(given[g]) \subseteq Shows(projections[k])
    BY DEF IInv, Boxed
  <2>4. Shows(given[g]) \subseteq Shows(projections[m])
    BY <1>3 DEF IInv, Boxed
  <2>5. Shows(projections[k]) \intersect Shows(projections[m]) = {}
    BY <1>3 DEF IInv, Views
  <2> QED
    BY <2>2, <2>3, <2>4, <2>5
<1> QED
  BY <1>1, <1>2, <1>3

\* What is said of the projections and the boxes alone stays while neither is
\* touched.
LEMMA Frame ==
    ASSUME IInv, UNCHANGED <<geometry, projections>>
    PROVE  /\ Views' /\ LinesKept' /\ Boxed'
           /\ Nested' = Nested
           /\ TiedByBoxes' = TiedByBoxes
           /\ Geometry(Box, covers, area)'
           /\ projections' \in Seq(View)'
           /\ given' = given /\ covers' = covers /\ projections' = projections
           /\ Box' = Box
<1>1. given' = given /\ covers' = covers /\ area' = area /\ projections' = projections
  BY DEF geometry
<1>2. Box' = Box
  BY <1>1 DEF Box
<1>3. View' = View
  BY <1>2 DEF View
<1>4. Views' /\ LinesKept' /\ Boxed'
  BY <1>1 DEF IInv, Views, Lines, LinesKept, Boxed
<1>5. Nested' = Nested
  BY <1>1, <1>2 DEF Nested
<1>6. TiedByBoxes' = TiedByBoxes
  BY <1>1 DEF TiedByBoxes, Members
<1>7. Geometry(Box, covers, area)' /\ projections' \in Seq(View)'
  <2>1. Geometry(Box, covers, area) /\ projections \in Seq(View)
    BY DEF IInv, TypeOK
  <2> QED
    BY <2>1, <1>1, <1>2, <1>3 DEF Geometry
<1> QED
  BY <1>1, <1>2, <1>4, <1>5, <1>6, <1>7

LEMMA EnterRoundKeeps == IInv /\ EnterRound => IInv'
<1> SUFFICES ASSUME IInv, EnterRound PROVE IInv'
  OBVIOUS
<1>1. /\ pc = "outer" /\ i <= Len(projections) /\ center' = projections[i].box
      /\ removed_any' = FALSE /\ j' = 1 /\ pc' = "inner" /\ i' = i
      /\ UNCHANGED <<geometry, projections>>
  BY DEF EnterRound, Center
<1>2. i \in DOMAIN projections
  BY <1>1, Facts
<1>3. TypeOK'
  <2>1. 1 \in 1 .. Len(given) + 1 /\ center' \in Box /\ i \in 1 .. Len(given) + 1
    BY <1>1, <1>2, Facts
  <2> QED
    BY <1>1, <2>1, Frame DEF TypeOK
<1>4. Short'
  <2>1. i <= Len(given)
    BY <1>1, Facts
  <2>2. View' = View
    BY <1>1, Frame DEF View
  <2> QED
    BY <1>1, <2>1, <2>2, Frame DEF Short, IInv
<1>5. Nested => TiedByBoxes' /\ Rounds'
  <2> SUFFICES ASSUME Nested PROVE TiedByBoxes' /\ Rounds'
    OBVIOUS
  <2>1. \A k \in DOMAIN projections : ~ (k < 1)
    BY Facts
  <2>2. TiedByBoxes /\ Rounds
    BY DEF IInv
  <2> QED
    BY <1>1, <1>2, <2>1, <2>2, Frame DEF Rounds, Has
<1> QED
  BY <1>1, <1>3, <1>4, <1>5, Frame DEF IInv

LEMMA PassByKeeps == IInv /\ PassBy => IInv'
<1> SUFFICES ASSUME IInv, PassBy PROVE IInv'
  OBVIOUS
<1>1. /\ pc = "inner" /\ j <= Len(projections) /\ (i = j \/ ~ Inside)
      /\ j' = j + 1 /\ UNCHANGED <<geometry, projections>>
      /\ UNCHANGED <<i, center, removed_any, pc>>
  BY DEF PassBy, InLoop
<1>2. TypeOK'
  <2>1. j + 1 \in 1 .. Len(given) + 1 /\ i \in 1 .. Len(given) + 1
    BY <1>1, Facts
  <2> QED
    BY <1>1, <2>1, Frame DEF TypeOK, IInv
<1>3. Short'
  <2>1. View' = View
    BY <1>1, Frame DEF View
  <2> QED
    BY <1>1, <2>1, Frame DEF Short, IInv
<1>4. Nested => TiedByBoxes' /\ Rounds'
  <2> SUFFICES ASSUME Nested PROVE TiedByBoxes' /\ Rounds'
    OBVIOUS
  <2>1. TiedByBoxes /\ Rounds
    BY DEF IInv
  <2>2. \A k \in DOMAIN projections : k < j + 1 => k < j \/ k = j
    BY Facts
  <2>3. j # i => ~ Has(j, i)
    BY <1>1, <2>1 DEF Inside, Has, Rounds
  <2> QED
    BY <1>1, <2>1, <2>2, <2>3, Frame DEF Rounds, Has
<1> QED
  BY <1>1, <1>2, <1>3, <1>4, Frame DEF IInv

LEMMA LeaveRoundKeeps == IInv /\ LeaveRound => IInv'
<1> SUFFICES ASSUME IInv, LeaveRound PROVE IInv'
  OBVIOUS
<1>1. /\ pc = "inner" /\ j > Len(projections) /\ i' = (IF removed_any THEN i ELSE i + 1)
      /\ pc' = "outer" /\ UNCHANGED <<geometry, projections>>
      /\ UNCHANGED <<j, center, removed_any>>
  BY DEF LeaveRound, Advance
<1>2. TypeOK'
  <2>1. j \in 1 .. Len(given) + 1 /\ i' \in 1 .. Len(given) + 1
    <3>1. i <= Len(given)
      BY <1>1 DEF IInv, Short
    <3> QED
      BY <1>1, <3>1, Facts
  <2> QED
    BY <1>1, <2>1, Frame DEF TypeOK, IInv
<1>3. Short'
  <2>1. View' = View
    BY <1>1, Frame DEF View
  <2> QED
    BY <1>1, <2>1, Frame DEF Short, IInv
<1>4. Nested => TiedByBoxes' /\ Rounds'
  <2> SUFFICES ASSUME Nested PROVE TiedByBoxes' /\ Rounds'
    OBVIOUS
  <2>1. TiedByBoxes /\ Rounds /\ removed_any \in BOOLEAN
    BY DEF IInv, TypeOK
  <2>2. ASSUME NEW m \in DOMAIN projections, NEW k \in DOMAIN projections, m < i', k # m
        PROVE  ~ Has(k, m)
    <3>1. CASE m < i
      BY <3>1, <2>1, <2>2 DEF Rounds
    <3>2. CASE m = i /\ removed_any = FALSE
      <4>1. k < j
        BY <1>1, Facts
      <4> QED
        BY <4>1, <3>2, <1>1, <2>1, <2>2 DEF Rounds
    <3>3. m \in Nat /\ i \in Nat
      BY Facts
    <3>4. m < i \/ (m = i /\ removed_any = FALSE)
      BY <3>3, <1>1, <2>1, <2>2
    <3> QED
      BY <3>1, <3>2, <3>4
  <2> QED
    BY <1>1, <2>1, <2>2, Frame DEF Rounds, Has
<1> QED
  BY <1>1, <1>2, <1>3, <1>4, Frame DEF IInv

LEMMA FinishKeeps == IInv /\ Finish => IInv'
<1> SUFFICES ASSUME IInv, Finish PROVE IInv'
  OBVIOUS
<1>1. /\ pc = "outer" /\ i > Len(projections) /\ pc' = "done"
      /\ UNCHANGED <<geometry, projections>> /\ UNCHANGED <<i, j, center, removed_any>>
  BY DEF Finish
<1>2. TypeOK'
  BY <1>1, Frame DEF TypeOK, IInv
<1>3. Short'
  <2>1. View' = View
    BY <1>1, Frame DEF View
  <2> QED
    BY <1>1, <2>1, Frame DEF Short, IInv
<1>4. Nested => TiedByBoxes' /\ Rounds'
  BY <1>1, Frame DEF Rounds, Has, IInv
<1> QED
  BY <1>1, <1>2, <1>3, <1>4, Frame DEF IInv

LEMMA ReadPastEndKeeps == IInv /\ ReadPastEnd => IInv' /\ ~ Nested
<1> SUFFICES ASSUME IInv, ReadPastEnd PROVE IInv' /\ ~ Nested
  OBVIOUS
<1>1. /\ pc = "inner" /\ i > Len(projections) /\ pc' = "undefined"
      /\ UNCHANGED <<geometry, projections>> /\ UNCHANGED <<i, j, center, removed_any>>
  BY DEF ReadPastEnd, InLoop
<1>2. TypeOK'
  BY <1>1, Frame DEF TypeOK, IInv
<1>3. Short'
  <2>1. View' = View
    BY <1>1, Frame DEF View
  <2> QED
    BY <1>1, <2>1, Frame DEF Short, IInv
<1>4. ~ Nested
  <2>1. SUFFICES ASSUME Nested PROVE FALSE
    OBVIOUS
  <2>2. i \in DOMAIN projections
    BY <1>1, <2>1 DEF IInv, Rounds
  <2> QED
    BY <1>1, <2>2, Facts
<1> QED
  BY <1>1, <1>2, <1>3, <1>4, Frame DEF IInv

LEMMA GiveUpKeeps == IInv /\ GiveUp => IInv'
<1> SUFFICES ASSUME IInv, GiveUp PROVE IInv'
  OBVIOUS
<1>1. /\ pc = "inner" /\ j <= Len(projections) /\ i # j /\ Inside /\ i <= Len(projections)
      /\ projections' = MergedInto(j, i) /\ removed_any' = TRUE /\ pc' = "outer"
      /\ given' = given /\ covers' = covers /\ area' = area /\ i' = i /\ j' = j
  BY DEF GiveUp, InLoop, geometry
<1>2. /\ i \in DOMAIN projections /\ j \in DOMAIN projections
      /\ projections \in Seq(View) /\ given \in Seq(View)
      /\ Views /\ LinesKept /\ Boxed
  BY <1>1, Facts DEF IInv
<1>3. /\ projections' \in Seq(View)
      /\ Len(projections') = Len(projections) - 1
      /\ DOMAIN projections' = 1 .. Len(projections) - 1
      /\ \A k \in DOMAIN projections' :
            /\ Shifted(k, i) \in DOMAIN projections /\ Shifted(k, i) # i
            /\ projections'[k].box = projections[Shifted(k, i)].box
      /\ Views' /\ LinesKept' /\ Boxed'
  BY <1>1, <1>2, Glued
<1>4. Box' = Box /\ View' = View
  BY <1>1 DEF Box, View
<1>5. TypeOK'
  <2>1. Geometry(Box, covers, area)'
    BY <1>1, <1>4 DEF IInv, TypeOK, Geometry
  <2> QED
    BY <2>1, <1>1, <1>3, <1>4 DEF IInv, TypeOK
<1>6. Short'
  BY <1>1, <1>3, <1>4, Facts DEF IInv, Short
<1>7. Nested' = Nested
  BY <1>1, <1>4 DEF Nested
<1>8. Nested => TiedByBoxes' /\ Rounds'
  <2> SUFFICES ASSUME Nested PROVE TiedByBoxes' /\ Rounds'
    OBVIOUS
  <2>1. TiedByBoxes /\ Rounds
    BY DEF IInv
  <2>2. Has(j, i)
    BY <1>1, <2>1 DEF Rounds, Inside, Has
  <2>3. TiedByBoxes'
    BY <1>1, <1>2, <2>1, <2>2, GluedForAReason
  <2>4. ASSUME NEW m \in DOMAIN projections', NEW k \in DOMAIN projections', m < i, k # m
        PROVE  ~ Has(k, m)'
    <3>1. k \in Nat /\ m \in Nat /\ i \in Nat
      BY <1>3, Facts
    <3>2. Shifted(m, i) = m
      BY <2>4 DEF Shifted
    <3>3. Shifted(k, i) # m
      BY <3>1, <3>2, <2>4, ErasedApart
    <3>4. ~ Has(Shifted(k, i), m)
      BY <3>2, <3>3, <1>3, <2>1, <2>4 DEF Rounds
    <3> QED
      BY <3>2, <3>4, <1>1, <1>3 DEF Has
  <2> QED
    BY <2>3, <2>4, <1>1 DEF Rounds
<1> QED
  BY <1>3, <1>5, <1>6, <1>7, <1>8 DEF IInv

\* As long as no two boxes cross, a projection that is taken over is behind the
\* one that takes it, so that i still is the projection whose centre was copied.
LEMMA TakeOverKeeps == IInv /\ TakeOver => IInv'
<1> SUFFICES ASSUME IInv, TakeOver PROVE IInv'
  OBVIOUS
<1>1. /\ pc = "inner" /\ j <= Len(projections) /\ i # j /\ Inside /\ i <= Len(projections)
      /\ ~ Larger
      /\ projections' = MergedInto(i, j) /\ removed_any' = TRUE /\ pc' = pc
      /\ given' = given /\ covers' = covers /\ area' = area
      /\ i' = i /\ j' = j /\ center' = center
  BY DEF TakeOver, InLoop, geometry
<1>2. /\ i \in DOMAIN projections /\ j \in DOMAIN projections
      /\ projections \in Seq(View) /\ given \in Seq(View)
      /\ Views /\ LinesKept /\ Boxed
  BY <1>1, Facts DEF IInv
<1>3. /\ projections' \in Seq(View)
      /\ Len(projections') = Len(projections) - 1
      /\ DOMAIN projections' = 1 .. Len(projections) - 1
      /\ \A k \in DOMAIN projections' :
            /\ Shifted(k, j) \in DOMAIN projections /\ Shifted(k, j) # j
            /\ projections'[k].box = projections[Shifted(k, j)].box
      /\ Views' /\ LinesKept' /\ Boxed'
  BY <1>1, <1>2, Glued
<1>4. Box' = Box /\ View' = View
  BY <1>1 DEF Box, View
<1>5. TypeOK'
  <2>1. Geometry(Box, covers, area)'
    BY <1>1, <1>4 DEF IInv, TypeOK, Geometry
  <2> QED
    BY <2>1, <1>1, <1>3, <1>4 DEF IInv, TypeOK
<1>6. Short'
  BY <1>1, <1>3, <1>4, Facts DEF IInv, Short
<1>7. Nested' = Nested
  BY <1>1, <1>4 DEF Nested
<1>8. Nested => TiedByBoxes' /\ Rounds'
  <2> SUFFICES ASSUME Nested PROVE TiedByBoxes' /\ Rounds'
    OBVIOUS
  <2>1. TiedByBoxes /\ Rounds
    BY DEF IInv
  <2>2. Has(j, i) /\ center = projections[i].box
    BY <1>1, <2>1 DEF Rounds, Inside, Has
  <2>3. TiedByBoxes'
    BY <1>1, <1>2, <2>1, <2>2, GluedForAReason
  <2>4. i < j
    <3>1. Has(i, j)
      <4>1. SUFFICES ASSUME ~ Has(i, j) PROVE FALSE
        OBVIOUS
      <4>2. /\ projections[i].box \in Box /\ projections[j].box \in Box
            /\ projections[i].box # projections[j].box
        BY <1>1, <1>2, Facts
      <4>3. area[projections[j].box] > area[projections[i].box]
        BY <4>1, <4>2, <2>2 DEF Nested, Has
      <4> QED
        BY <4>3, <1>1 DEF Larger
    <3>2. ~ (j < i)
      BY <3>1, <2>1, <1>1, <1>2 DEF Rounds
    <3> QED
      BY <3>2, <1>1, Facts
  <2>5. ASSUME NEW m \in DOMAIN projections', NEW k \in DOMAIN projections', m < i, k # m
        PROVE  ~ Has(k, m)'
    <3>1. k \in Nat /\ m \in Nat /\ j \in Nat /\ i \in Nat
      BY <1>3, Facts
    <3>2. Shifted(m, j) = m
      BY <3>1, <2>4, <2>5 DEF Shifted
    <3>3. Shifted(k, j) # m
      BY <3>1, <3>2, <2>5, ErasedApart
    <3>4. ~ Has(Shifted(k, j), m)
      BY <3>2, <3>3, <1>3, <2>1, <2>5 DEF Rounds
    <3> QED
      BY <3>2, <3>4, <1>1, <1>3 DEF Has
  <2>6. i \in DOMAIN projections' /\ center = projections'[i].box
    <3>1. i \in DOMAIN projections'
      BY <2>4, <1>1, <1>3, Facts
    <3>2. Shifted(i, j) = i
      BY <2>4 DEF Shifted
    <3> QED
      BY <3>1, <3>2, <1>3, <2>2
  <2> QED
    BY <2>3, <2>5, <2>6, <1>1 DEF Rounds
<1> QED
  BY <1>3, <1>5, <1>6, <1>7, <1>8 DEF IInv

-----------------------------------------------------------------------------
LEMMA StutterKeeps == IInv /\ UNCHANGED vars => IInv'
<1> SUFFICES ASSUME IInv, UNCHANGED vars PROVE IInv'
  OBVIOUS
<1>1. UNCHANGED <<geometry, projections>> /\ UNCHANGED <<i, j, center, removed_any, pc>>
  BY DEF vars
<1>2. TypeOK'
  BY <1>1, Frame DEF TypeOK, IInv
<1>3. Short'
  <2>1. View' = View
    BY <1>1, Frame DEF View
  <2> QED
    BY <1>1, <2>1, Frame DEF Short, IInv
<1>4. Nested => TiedByBoxes' /\ Rounds'
  BY <1>1, Frame DEF Rounds, Has, IInv
<1> QED
  BY <1>1, <1>2, <1>3, <1>4, Frame DEF IInv

\* Every step of the two loops keeps the invariant.
THEOREM StepsKeep == IInv /\ [Next]_vars => IInv'
BY EnterRoundKeeps, PassByKeeps, GiveUpKeeps, TakeOverKeeps, ReadPastEndKeeps, LeaveRoundKeeps,
   FinishKeeps, StutterKeeps DEF Next

\* When the loops have ended and no two boxes cross, nothing is left to merge.
LEMMA NothingLeft == IInv /\ Nested /\ pc = "done" => NothingToMerge
<1> SUFFICES ASSUME IInv, Nested, pc = "done",
                    NEW k \in DOMAIN projections, NEW m \in DOMAIN projections, k # m
             PROVE  ~ Has(k, m)
  BY DEF NothingToMerge, Has
<1>1. Rounds
  BY DEF IInv
<1>2. m < i
  BY <1>1, Facts DEF Rounds
<1> QED
  BY <1>1, <1>2 DEF Rounds
=============================================================================
