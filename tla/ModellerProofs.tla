--------------------------- MODULE ModellerProofs ---------------------------
(***************************************************************************)
(* What modeller::generate_model keeps, for every sheet, proved: the types *)
(* of its variables, that align_contours sorts each point into one plane   *)
(* near where it was, that the polygons of addFaces are walks which leave  *)
(* out no point without a reason and make rings faces, that the points     *)
(* show in their views where their vertices are, and that boxes are found. *)
(***************************************************************************)
EXTENDS Modeller, ListLemmas

-----------------------------------------------------------------------------
(* The invariant *)

\* What build_model pushes: pairs of vertices of two views that lie on one line,
\* and edges from a point to a later one.
PairsOn(list) ==
    {c \in [proj1 : DOMAIN list, pt1 : Nat, proj2 : DOMAIN list, pt2 : Nat] :
        /\ c.proj1 < c.proj2
        /\ c.pt1 \in Vertices(list, c.proj1) /\ c.pt2 \in Vertices(list, c.proj2)
        /\ OnOneLine(list, c)}
Forward(n) == {e \in (1 .. n) \X (1 .. n) : e[1] < e[2]}

Built ==
    /\ \E sheet \in Sheets : views = AssignCoordinateSystems(sheet)
    /\ points_parents \in Seq(PairsOn(views))
    /\ edges \in Seq(Forward(Len(points_parents)))

\* Points that are where build_model put them, or have been moved onto a plane.
Located ==
    /\ points \in [DOMAIN points_parents -> [Axis -> Int]]
    /\ \A n \in DOMAIN points : \A a \in 1 .. 3 :
          LET built == CoordsPoint(views, points_parents[n])[Axes[a]]
          IN  /\ Aligning!Distance(points[n][Axes[a]], built) < CONTOUR_DIFF
              /\ stage = "align" /\ axis <= a => points[n][Axes[a]] = built

\* The loop of align_contours.
Sorted ==
    /\ given \in Seq(Int) /\ coord \in Seq(Int) /\ Len(coord) = Len(given)
    /\ i \in 1 .. Len(coord) + 1
    /\ available \in Seq(Int)
    /\ res \in Seq(Seq(1 .. Len(coord))) /\ Len(res) = Len(available)
    /\ \A p \in i .. Len(coord) : coord[p] = given[p]
    /\ \A j \in DOMAIN res : \A n \in DOMAIN res[j] :
          LET p == res[j][n]
          IN  /\ p < i
              /\ coord[p] = available[j]
              /\ Aligning!Near(given[p], available[j])
              /\ \A h \in 1 .. j - 1 : ~ Aligning!Near(given[p], available[h])
    /\ \A p \in 1 .. i - 1 : \E j \in DOMAIN res : Aligning!In(p, j)
    /\ \A j, k \in DOMAIN res : \A n \in DOMAIN res[j], m \in DOMAIN res[k] :
          res[j][n] = res[k][m] => j = k /\ n = m
    /\ \A j, k \in DOMAIN available :
          j # k => Aligning!Distance(available[j], available[k]) >= CONTOUR_DIFF

\* The planes of one axis.
SortedOut(list) ==
    /\ list \in Seq(Seq(1 .. Len(points_parents)))
    /\ \A j \in DOMAIN list : IsInjective(list[j])

Staged ==
    /\ stage \in {"build", "align", "faces", "loaded"}
    /\ axis \in 1 .. 3
    /\ stage = "build" => axis = 1
    /\ planes \in Seq({list \in Seq(Seq(1 .. Len(points_parents))) : SortedOut(list)})
    /\ Len(planes) = IF stage \in {"build", "align"} THEN axis - 1 ELSE 3
    /\ stage = "align" => given = Coordinates(points, axis)
    /\ stage \in {"build", "align"} => plane = 1 /\ current = << >> /\ used = {} /\ polygons = << >>

\* The loop of addFaces, in the planes of this axis.
OfPlane(k) == IF k \in DOMAIN PlanesOfAxis THEN Range(PlanesOfAxis[k]) ELSE {}

IsWalk(k, walk) ==
    /\ walk \in Seq(OfPlane(k))
    /\ IsInjective(walk)
    /\ \A m \in 1 .. Len(walk) - 1 : Walking!Joined(walk[m], walk[m + 1])

\* No walk will come to p in plane k again.
Done(k, p) == k < plane \/ (k = plane /\ p \in used /\ p \notin Range(current))

OnTheWay ==
    /\ plane \in 1 .. Len(PlanesOfAxis) + 1
    /\ IsWalk(plane, current)
    /\ current # << >> => Len(current) >= 2
    /\ Range(current) \subseteq used /\ used \subseteq OfPlane(plane)
    /\ polygons \in Seq([plane : DOMAIN PlanesOfAxis, points : Seq(Nat)])
    /\ \A n \in DOMAIN polygons :
          polygons[n].plane <= plane /\ IsWalk(polygons[n].plane, polygons[n].points)

InPolygon(k, p) ==
    \E n \in DOMAIN polygons : polygons[n].plane = k /\ p \in Range(polygons[n].points)

DeadEnd(k, p) ==
    \/ Cardinality(Walking!Neighbours(k, p)) <= 1
    \/ \E q \in Walking!Neighbours(k, p) : Walking!Neighbours(k, q) = {p}

LeftOut ==
    \A k \in DOMAIN PlanesOfAxis : \A p \in OfPlane(k) :
        Done(k, p) => InPolygon(k, p) \/ DeadEnd(k, p)

\* Plane k is made of rings.
OfRings(k) == \A p \in OfPlane(k) : Cardinality(Walking!Neighbours(k, p)) = 2

IsRing(walk) == Len(walk) >= 3 /\ Walking!Joined(Last(walk), walk[1])

\* Its polygons are rings, no two with a point in common, and have all the points
\* no walk will come to.
AllRound(k) ==
    /\ \A n \in DOMAIN polygons : polygons[n].plane = k =>
          /\ IsRing(polygons[n].points)
          /\ \A p \in Range(polygons[n].points) : Done(k, p)
          /\ \A m \in DOMAIN polygons : polygons[m].plane = k /\ m # n =>
                Range(polygons[m].points) \intersect Range(polygons[n].points) = {}
    /\ \A p \in OfPlane(k) : Done(k, p) => InPolygon(k, p)

Ringed == \A k \in DOMAIN PlanesOfAxis : OfRings(k) => AllRound(k)

IInv ==
    /\ Built /\ Located /\ Sorted /\ Staged
    /\ stage = "faces" => OnTheWay /\ LeftOut /\ Ringed

-----------------------------------------------------------------------------
(* build_model *)

\* The lists of a loop, turn by turn.
UpToTurn(u, first, turn) ==
    \A m \in Nat : u[m] = IF m < first THEN << >> ELSE u[m - 1] \o turn[m]

LEMMA LoopTurns ==
    ASSUME NEW first \in Nat \ {0}, NEW last \in Nat, NEW turn
    PROVE  \E u : UpToTurn(u, first, turn) /\ Loop(first, last, turn) = u[last]
<1> DEFINE Next_(g, m) == IF m < first THEN << >> ELSE g[m - 1] \o turn[m]
           UpTo(g, n) == DOMAIN g = 0 .. n /\ \A m \in 0 .. n : g[m] = Next_(g, m)
<1>1. ASSUME NEW n \in Nat, NEW k \in Nat, NEW g, NEW h, UpTo(g, n), UpTo(h, k)
      PROVE  \A m \in Nat : m <= n /\ m <= k => g[m] = h[m]
  <2> DEFINE D == {m \in Nat : m <= n /\ m <= k /\ g[m] # h[m]}
  <2>1. SUFFICES ASSUME D # {} PROVE FALSE
    OBVIOUS
  <2>2. PICK x \in D : \A y \in D : x <= y
    BY <2>1, LeastNumber
  <2>3. x \in Nat /\ x <= n /\ x <= k /\ g[x] # h[x] /\ x \in 0 .. n /\ x \in 0 .. k
    OBVIOUS
  <2>4. x >= first /\ g[x] = g[x - 1] \o turn[x] /\ h[x] = h[x - 1] \o turn[x]
    <3>1. g[x] = Next_(g, x) /\ h[x] = Next_(h, x)
      <4> HIDE DEF Next_, D
      <4> QED
        BY <1>1, <2>3
    <3>2. ~ (x < first)
      <4> HIDE DEF D
      <4> QED
        BY <3>1, <2>3, Zenon
    <3>3. g[x] = g[x - 1] \o turn[x] /\ h[x] = h[x - 1] \o turn[x]
      <4> HIDE DEF D
      <4> QED
        BY <3>1, <3>2, Zenon
    <3> QED
      BY <3>2, <3>3, <2>3
  <2>5. x - 1 \in Nat /\ x - 1 <= n /\ x - 1 <= k /\ x - 1 \notin D
    BY <2>2, <2>3, <2>4
  <2> QED
    BY <2>3, <2>4, <2>5
<1>2. ASSUME NEW n \in Nat PROVE \E g : UpTo(g, n)
  <2> DEFINE D == {m \in Nat : ~ \E g : UpTo(g, m)}
  <2>1. SUFFICES ASSUME D # {} PROVE FALSE
    OBVIOUS
  <2>2. PICK x \in D : \A y \in D : x <= y
    BY <2>1, LeastNumber
  <2>3. x \in Nat /\ ~ \E g : UpTo(g, x)
    OBVIOUS
  <2>4. CASE x = 0
    <3> DEFINE f == [m \in 0 .. 0 |-> << >>]
    <3>1. UpTo(f, 0)
      OBVIOUS
    <3> QED
      BY <3>1, <2>3, <2>4
  <2>5. CASE x # 0
    <3>1. x - 1 \in Nat /\ x - 1 \notin D
      BY <2>2, <2>3, <2>5
    <3>2. PICK g : UpTo(g, x - 1)
      BY <3>1
    <3> DEFINE f == [m \in 0 .. x |-> IF m < x THEN g[m] ELSE Next_(g, x)]
    <3>3. ASSUME NEW m \in 0 .. x PROVE f[m] = Next_(f, m)
      <4>1. CASE m = x
        <5>1. f[m] = Next_(g, x)
          BY <4>1, <2>3
        <5>2. x - 1 \in 0 .. x /\ x - 1 < x
          BY <3>1
        <5>3. f[x - 1] = g[x - 1]
          BY <5>2
        <5> HIDE DEF f
        <5> QED
          BY <5>1, <5>3, <4>1
      <4>2. CASE m # x
        <5>1. m \in 0 .. x - 1 /\ m < x
          BY <4>2, <2>3
        <5>2. f[m] = g[m] /\ g[m] = Next_(g, m)
          BY <5>1, <3>2
        <5>3. m >= first => m - 1 \in 0 .. x /\ m - 1 < x
          BY <5>1, <2>3
        <5>4. m >= first => f[m - 1] = g[m - 1]
          BY <5>3
        <5> HIDE DEF f
        <5> QED
          BY <5>1, <5>2, <5>4, <2>3
      <4> QED
        BY <4>1, <4>2
    <3>4. UpTo(f, x)
      BY <3>3
    <3> QED
      BY <3>4, <2>3
  <2> QED
    BY <2>4, <2>5
<1> DEFINE part(m) == CHOOSE g : UpTo(g, m)
           whole == [m \in Nat |-> part(m)[m]]
<1>3. \A m \in Nat : UpTo(part(m), m)
  BY <1>2
<1>4. ASSUME NEW m \in Nat PROVE whole[m] = Next_(whole, m)
  <2>1. whole[m] = part(m)[m] /\ part(m)[m] = Next_(part(m), m)
    <3>1. m \in 0 .. m
      OBVIOUS
    <3> HIDE DEF part, Next_
    <3> QED
      BY <3>1, <1>3
  <2>2. CASE m < first
    BY <2>1, <2>2
  <2>3. CASE ~ (m < first)
    <3>1. m - 1 \in Nat /\ m - 1 <= m
      BY <2>3
    <3>2. part(m)[m - 1] = part(m - 1)[m - 1]
      <4> HIDE DEF part, UpTo, whole
      <4> QED
        BY <3>1, <1>1, <1>3
    <3>3. whole[m - 1] = part(m - 1)[m - 1]
      BY <3>1
    <3> HIDE DEF part, whole
    <3> QED
      BY <2>1, <2>3, <3>2, <3>3
  <2> QED
    BY <2>2, <2>3
<1>5. whole = [m \in Nat |-> Next_(whole, m)]
  <2> DEFINE w == whole
  <2>1. w = [m \in Nat |-> w[m]]
    OBVIOUS
  <2>2. \A m \in Nat : w[m] = Next_(w, m)
    BY <1>4
  <2> HIDE DEF w
  <2>3. w = [m \in Nat |-> Next_(w, m)]
    BY <2>1, <2>2
  <2> QED
    BY <2>3 DEF w
<1> DEFINE upTo == CHOOSE f : f = [m \in Nat |-> Next_(f, m)]
<1>6. upTo = [m \in Nat |-> Next_(upTo, m)]
  <2> HIDE DEF whole
  <2> QED
    BY <1>5
<1>7. Loop(first, last, turn) = upTo[last]
  BY DEF Loop
<1>8. \A m \in Nat : upTo[m] = Next_(upTo, m)
  <2> HIDE DEF upTo
  <2> QED
    BY <1>6
<1> HIDE DEF upTo, whole
<1> QED
  BY <1>7, <1>8 DEF UpToTurn

\* A list that a loop puts together holds what its turns add.
LEMMA LoopIn ==
    ASSUME NEW S, NEW first \in Nat \ {0}, NEW last \in Nat, NEW turn,
           \A m \in first .. last : turn[m] \in Seq(S)
    PROVE  Loop(first, last, turn) \in Seq(S)
<1> DEFINE Next_(g, m) == IF m < first THEN << >> ELSE g[m - 1] \o turn[m]
<1>7. PICK upTo : UpToTurn(upTo, first, turn) /\ Loop(first, last, turn) = upTo[last]
  BY LoopTurns
<1>8. \A m \in Nat : upTo[m] = Next_(upTo, m)
  BY <1>7 DEF UpToTurn
<1> DEFINE D == {m \in Nat : m <= last /\ upTo[m] \notin Seq(S)}
<1>9. D = {}
  <2>1. SUFFICES ASSUME D # {} PROVE FALSE
    OBVIOUS
  <2>2. PICK x \in D : \A y \in D : x <= y
    BY <2>1, LeastNumber
  <2>3. x \in Nat /\ x <= last /\ upTo[x] \notin Seq(S)
    OBVIOUS
  <2> HIDE DEF D
  <2>4. upTo[x] = Next_(upTo, x) /\ << >> \in Seq(S)
    BY <1>8, <2>3, EmptySeq
  <2>5. ~ (x < first)
    BY <2>3, <2>4, Zenon
  <2>6. upTo[x] = upTo[x - 1] \o turn[x]
    BY <2>4, <2>5, Zenon
  <2>7. x - 1 \in Nat /\ x - 1 <= last /\ ~ (x <= x - 1) /\ x \in first .. last
    BY <2>3, <2>5
  <2>8. x - 1 \notin D
    BY <2>2, <2>7
  <2>9. upTo[x - 1] \in Seq(S) /\ turn[x] \in Seq(S)
    BY <2>7, <2>8 DEF D
  <2> QED
    BY <2>3, <2>6, <2>9, Concatenated
<1> QED
  BY <1>7, <1>9

\* It holds all of that, and nothing twice unless two turns add it or one does.
LEMMA LoopAll ==
    ASSUME NEW S, NEW first \in Nat \ {0}, NEW last \in Nat, NEW turn,
           \A m \in first .. last : turn[m] \in Seq(S) /\ IsInjective(turn[m]),
           \A m, n \in first .. last : m # n => Range(turn[m]) \intersect Range(turn[n]) = {}
    PROVE  /\ Loop(first, last, turn) \in Seq(S)
           /\ IsInjective(Loop(first, last, turn))
           /\ \A x : x \in Range(Loop(first, last, turn)) <=>
                        \E m \in first .. last : x \in Range(turn[m])
<1>1. PICK u : UpToTurn(u, first, turn) /\ Loop(first, last, turn) = u[last]
  BY LoopTurns
<1> DEFINE Holds(m) ==
        /\ u[m] \in Seq(S) /\ IsInjective(u[m])
        /\ \A x : x \in Range(u[m]) <=> \E n \in first .. m : x \in Range(turn[n])
           T == {m \in Nat : Holds(m)}
<1>2. ASSUME NEW m \in Nat, m < first PROVE Holds(m)
  <2>1. u[m] = << >>
    BY <1>1, <1>2 DEF UpToTurn
  <2>2. << >> \in Seq(S) /\ DOMAIN << >> = {} /\ first .. m = {}
    BY <1>2, EmptySeq
  <2> QED
    BY <2>1, <2>2 DEF IsInjective, Range
<1>3. ASSUME NEW m \in 1 .. last, m - 1 \in T PROVE m \in T
  <2>1. CASE m < first
    <3> HIDE DEF Holds
    <3> QED
      BY <1>2, <2>1
  <2>2. CASE ~ (m < first)
    <3>1. m \in first .. last /\ m \in Nat /\ m - 1 \in Nat
      BY <2>2
    <3>2. u[m] = u[m - 1] \o turn[m]
      BY <1>1, <2>2, <3>1 DEF UpToTurn
    <3>3. /\ u[m - 1] \in Seq(S) /\ IsInjective(u[m - 1])
          /\ \A x : x \in Range(u[m - 1]) <=> \E n \in first .. (m - 1) : x \in Range(turn[n])
      BY <1>3
    <3> DEFINE a == u[m - 1]
               b == turn[m]
               c == u[m]
    <3>4. b \in Seq(S) /\ IsInjective(b)
      BY <3>1
    <3>5. Range(a) \intersect Range(b) = {}
      <4>1. ASSUME NEW x \in Range(a), x \in Range(b) PROVE FALSE
        <5>1. PICK n \in first .. (m - 1) : x \in Range(turn[n])
          BY <3>3, <4>1
        <5>2. n \in first .. last /\ n # m
          BY <3>1
        <5> QED
          BY <3>1, <4>1, <5>1, <5>2
      <4> QED
        BY <4>1
    <3>6. \A x : x \in Range(a) <=> \E n \in first .. (m - 1) : x \in Range(turn[n])
      BY <3>3
    <3>7. a \in Seq(S) /\ IsInjective(a) /\ c = a \o b
      BY <3>2, <3>3
    <3> HIDE DEF a, b, c
    <3>8. c \in Seq(S) /\ ToSet(c) = ToSet(a) \union ToSet(b) /\ IsJoin(c, a, b)
      BY <3>4, <3>7, Concatenated
    <3>9. \A s : ToSet(s) = Range(s)
      BY DEF ToSet, Range
    <3>10. IsInjective(c)
      <4>1. Len(a) \in Nat /\ DOMAIN a = 1 .. Len(a) /\ Len(b) \in Nat /\ DOMAIN b = 1 .. Len(b)
        BY <3>4, <3>7, LenProperties
      <4>2. ASSUME NEW p \in DOMAIN c
            PROVE  \/ p \in DOMAIN a /\ c[p] = a[p] /\ c[p] \in Range(a)
                   \/ p - Len(a) \in DOMAIN b /\ p \in Int /\ c[p] = b[p - Len(a)] /\ c[p] \in Range(b)
        BY <3>8, <4>1, <4>2 DEF IsJoin, Range
      <4>3. ASSUME NEW p \in DOMAIN c, NEW q \in DOMAIN c, c[p] = c[q] PROVE p = q
        <5>1. CASE p \in DOMAIN a /\ q \in DOMAIN a /\ c[p] = a[p] /\ c[q] = a[q]
          BY <3>7, <4>3, <5>1 DEF IsInjective
        <5>2. CASE /\ p - Len(a) \in DOMAIN b /\ q - Len(a) \in DOMAIN b /\ p \in Int /\ q \in Int
                   /\ c[p] = b[p - Len(a)] /\ c[q] = b[q - Len(a)]
          <6>1. p - Len(a) = q - Len(a)
            BY <3>4, <4>3, <5>2 DEF IsInjective
          <6> QED
            BY <4>1, <5>2, <6>1
        <5>3. ~ (c[p] \in Range(a) /\ c[q] \in Range(b)) /\ ~ (c[p] \in Range(b) /\ c[q] \in Range(a))
          BY <3>5, <4>3
        <5> QED
          BY <4>2, <5>1, <5>2, <5>3
      <4> QED
        BY <4>3 DEF IsInjective
    <3>11. \A x : x \in Range(c) <=> \E n \in first .. m : x \in Range(turn[n])
      <4>1. \A n \in first .. m : n = m \/ n \in first .. (m - 1)
        BY <3>1
      <4>2. m \in first .. m /\ \A n \in first .. (m - 1) : n \in first .. m
        BY <3>1
      <4>3. \A x : x \in Range(c) <=> x \in Range(a) \/ x \in Range(b)
        BY <3>8, <3>9
      <4> QED
        BY <3>6, <4>1, <4>2, <4>3 DEF b
    <3> QED
      BY <3>1, <3>8, <3>10, <3>11 DEF c
  <2> QED
    BY <2>1, <2>2
<1>4. 0 \in T
  BY <1>2
<1> HIDE DEF T
<1>5. last \in T
  <2>1. \A k \in 0 .. last : k \in T
    BY <1>3, <1>4, NumbersUpTo
  <2> QED
    BY <2>1
<1> QED
  BY <1>1, <1>5 DEF T

\* The views the interpreter hands over: those of the sheet, with their systems.
LEMMA HandedOver ==
    ASSUME NEW sheet \in Sheets
    PROVE  LET list == AssignCoordinateSystems(sheet)
           IN  /\ Len(list) = Len(sheet) /\ Len(list) \in Nat /\ Len(list) >= 2
               /\ DOMAIN list = 1 .. Len(list) /\ DOMAIN sheet = 1 .. Len(list)
               /\ \A k \in DOMAIN list :
                     /\ list[k].center = sheet[k].center /\ list[k].center \in Spot
                     /\ list[k].vertices = sheet[k].vertices
                     /\ list[k].vertices \in Seq(Spot) /\ list[k].vertices # << >>
                     /\ list[k].cedges = sheet[k].cedges
                     /\ list[k].s = IF k = 1 THEN MainSystem(sheet) ELSE OtherSystem(sheet, k)
<1> DEFINE list == AssignCoordinateSystems(sheet)
           R == [center : Spot, vertices : Seq(Spot), cedges : SUBSET (Nat \X Nat)]
<1>1. /\ sheet \in Seq(R) /\ Len(sheet) >= 2
      /\ \A k \in DOMAIN sheet : sheet[k].vertices # << >>
  BY ModellerAssumption DEF Sheet
<1>2. Len(sheet) \in Nat /\ DOMAIN sheet = 1 .. Len(sheet) /\ \A k \in 1 .. Len(sheet) : sheet[k] \in R
  BY <1>1, LenProperties, ElementOfSeq
<1>3. DOMAIN list = 1 .. Len(sheet)
  BY <1>2 DEF AssignCoordinateSystems
<1>4. ASSUME NEW k \in 1 .. Len(sheet)
      PROVE  /\ list[k].center = sheet[k].center
             /\ list[k].vertices = sheet[k].vertices
             /\ list[k].cedges = sheet[k].cedges
             /\ list[k].s = IF k = 1 THEN MainSystem(sheet) ELSE OtherSystem(sheet, k)
  BY <1>2 DEF AssignCoordinateSystems
<1>5. Len(list) = Len(sheet)
  <2>1. list \in [1 .. Len(sheet) -> Range(list)]
    BY <1>3 DEF Range, AssignCoordinateSystems
  <2> HIDE DEF list
  <2> QED
    BY <2>1, <1>2, IsASeq, LenProperties
<1> QED
  BY <1>1, <1>2, <1>3, <1>4, <1>5

\* build_model makes one point of every two vertices of two views that lie on one
\* line, and only of those.
LEMMA ParentsAre ==
    ASSUME NEW sheet \in Sheets
    PROVE  LET list == AssignCoordinateSystems(sheet)
           IN  /\ Parents(list) \in Seq(PairsOn(list))
               /\ IsInjective(Parents(list))
               /\ Range(Parents(list)) = PairsOn(list)
<1> DEFINE list == AssignCoordinateSystems(sheet)
           S == PairsOn(list)
           N == Len(list)
           size(k) == Len(list[k].vertices)
           turn == [i0 \in DOMAIN list |-> Loop(i0 + 1, N, ParentsOfView(list, i0))]
           Made(x, i0, k0, j0, l0) == x = Parent(i0, k0, j0, l0) /\ OnOneLine(list, x)
           Lists(s) == s \in Seq(S) /\ IsInjective(s)
<1>1. N \in Nat /\ DOMAIN list = 1 .. N
  BY HandedOver
<1>2. \A k \in 1 .. N : size(k) \in Nat
  <2>1. \A k \in 1 .. N : list[k].vertices \in Seq(Spot)
    BY HandedOver
  <2> HIDE DEF list, N
  <2> QED
    BY <2>1, LenProperties
<1> HIDE DEF list, N
<1>n. \A i0 \in 1 .. N : i0 + 1 \in Nat \ {0} /\ \A k0 \in i0 + 1 .. N : k0 \in 1 .. N /\ k0 \in Nat
  BY <1>1
<1>p. \A x, i0, k0, j0, l0 : Made(x, i0, k0, j0, l0) =>
          x.proj1 = i0 /\ x.proj2 = k0 /\ x.pt1 = j0 /\ x.pt2 = l0
  BY DEF Parent
<1>s. \A x : x \in S <=> \E i0 \in 1 .. N : \E k0 \in i0 + 1 .. N :
                             \E j0 \in 1 .. size(i0), l0 \in 1 .. size(k0) : Made(x, i0, k0, j0, l0)
  <2>1. ASSUME NEW i0 \in 1 .. N, NEW k0 \in i0 + 1 .. N, NEW j0 \in 1 .. size(i0),
               NEW l0 \in 1 .. size(k0), NEW x, Made(x, i0, k0, j0, l0)
        PROVE  x \in S
    <3>1. i0 < k0 /\ k0 \in 1 .. N /\ j0 \in Nat /\ l0 \in Nat
      BY <1>1, <1>2, <1>n
    <3>2. x = Parent(i0, k0, j0, l0) /\ OnOneLine(list, x)
      BY <2>1
    <3>3. /\ x.proj1 = i0 /\ x.proj2 = k0 /\ x.pt1 = j0 /\ x.pt2 = l0
          /\ x \in [proj1 : DOMAIN list, pt1 : Nat, proj2 : DOMAIN list, pt2 : Nat]
      BY <1>1, <3>1, <3>2 DEF Parent
    <3> QED
      BY <3>1, <3>2, <3>3 DEF PairsOn, Vertices
  <2>2. ASSUME NEW x \in S
        PROVE  \E i0 \in 1 .. N : \E k0 \in i0 + 1 .. N :
                   \E j0 \in 1 .. size(i0), l0 \in 1 .. size(k0) : Made(x, i0, k0, j0, l0)
    <3>1. /\ x \in [proj1 : DOMAIN list, pt1 : Nat, proj2 : DOMAIN list, pt2 : Nat]
          /\ x.proj1 \in 1 .. N /\ x.proj2 \in 1 .. N /\ x.proj1 < x.proj2 /\ OnOneLine(list, x)
          /\ x.pt1 \in 1 .. size(x.proj1) /\ x.pt2 \in 1 .. size(x.proj2)
      BY <1>1 DEF PairsOn, Vertices
    <3>2. x.proj2 \in x.proj1 + 1 .. N
      BY <1>1, <3>1
    <3>3. x = Parent(x.proj1, x.proj2, x.pt1, x.pt2)
      BY <3>1 DEF Parent
    <3> QED
      BY <3>1, <3>2, <3>3
  <2> HIDE DEF Made, S
  <2> QED
    BY <2>1, <2>2
<1>3. ASSUME NEW i0 \in 1 .. N, NEW k0 \in i0 + 1 .. N,
             NEW j0 \in 1 .. size(i0), NEW l0 \in 1 .. size(k0)
      PROVE  LET s == ParentsOfVertex(list, i0, k0, j0)[l0]
             IN  Lists(s) /\ \A x : x \in Range(s) <=> Made(x, i0, k0, j0, l0)
  <2> DEFINE c == Parent(i0, k0, j0, l0)
  <2>1. ParentsOfVertex(list, i0, k0, j0)[l0] = IF OnOneLine(list, c) THEN <<c>> ELSE << >>
    BY <1>n DEF ParentsOfVertex, Vertices
  <2>2. << >> \in Seq(S) /\ DOMAIN << >> = {}
    BY EmptySeq
  <2>3. ASSUME OnOneLine(list, c) PROVE c \in S
    <3>1. Made(c, i0, k0, j0, l0)
      BY <2>3
    <3> HIDE DEF S, c, Made
    <3> QED
      BY <1>s, <3>1
  <2>4. \A x : Made(x, i0, k0, j0, l0) <=> x = c /\ OnOneLine(list, c)
    OBVIOUS
  <2> HIDE DEF c, S, Made
  <2>5. CASE OnOneLine(list, c)
    <3>1. <<c>> \in Seq(S) /\ DOMAIN <<c>> = {1} /\ <<c>>[1] = c
      BY <2>3, <2>5
    <3>2. IsInjective(<<c>>) /\ \A x : x \in Range(<<c>>) <=> x = c
      BY <3>1 DEF IsInjective, Range
    <3> QED
      BY <2>1, <2>4, <2>5, <3>1, <3>2
  <2>6. CASE ~ OnOneLine(list, c)
    <3>1. IsInjective(<< >>) /\ \A x : x \notin Range(<< >>)
      BY <2>2 DEF IsInjective, Range
    <3> QED
      BY <2>1, <2>2, <2>4, <2>6, <3>1
  <2> QED
    BY <2>5, <2>6
<1> HIDE DEF S, Made
<1>4. ASSUME NEW i0 \in 1 .. N, NEW k0 \in i0 + 1 .. N, NEW j0 \in 1 .. size(i0)
      PROVE  LET s == ParentsOfTwo(list, i0, k0)[j0]
             IN  Lists(s) /\ \A x : x \in Range(s) <=> \E l0 \in 1 .. size(k0) : Made(x, i0, k0, j0, l0)
  <2> DEFINE v == ParentsOfVertex(list, i0, k0, j0)
  <2>1. size(k0) \in Nat /\ ParentsOfTwo(list, i0, k0)[j0] = Loop(1, size(k0), v)
    BY <1>2, <1>n DEF ParentsOfTwo, Vertices
  <2>2. \A l0 \in 1 .. size(k0) :
            Lists(v[l0]) /\ \A x : x \in Range(v[l0]) <=> Made(x, i0, k0, j0, l0)
    BY <1>3
  <2>3. \A a, b \in 1 .. size(k0) : a # b => Range(v[a]) \intersect Range(v[b]) = {}
    <3> HIDE DEF v, Lists
    <3> SUFFICES ASSUME NEW a \in 1 .. size(k0), NEW b \in 1 .. size(k0), NEW x \in Range(v[a]), x \in Range(v[b]) PROVE a = b
      BY Zenon
    <3>1. Made(x, i0, k0, j0, a) /\ Made(x, i0, k0, j0, b)
      BY <2>2
    <3> HIDE DEF size
    <3> QED
      BY <1>p, <3>1
  <2>4. /\ Lists(Loop(1, size(k0), v))
        /\ \A x : x \in Range(Loop(1, size(k0), v)) <=> \E l0 \in 1 .. size(k0) : x \in Range(v[l0])
    <3> DEFINE last == size(k0)
    <3>1. \A n \in 1 .. last : v[n] \in Seq(S) /\ IsInjective(v[n])
      BY <2>2
    <3>2. \A a, b \in 1 .. last : a # b => Range(v[a]) \intersect Range(v[b]) = {}
      BY <2>3
    <3>3. 1 \in Nat \ {0} /\ last \in Nat
      BY <2>1
    <3> HIDE DEF v, last
    <3>4. /\ Lists(Loop(1, last, v))
          /\ \A x : x \in Range(Loop(1, last, v)) <=> \E l0 \in 1 .. last : x \in Range(v[l0])
      BY <3>1, <3>2, <3>3, LoopAll
    <3> QED
      BY <3>4 DEF last
  <2> HIDE DEF v
  <2> QED
    BY <2>1, <2>2, <2>4
<1>5. ASSUME NEW i0 \in 1 .. N, NEW k0 \in i0 + 1 .. N
      PROVE  LET s == ParentsOfView(list, i0)[k0]
             IN  /\ Lists(s)
                 /\ \A x : x \in Range(s) <=>
                       \E j0 \in 1 .. size(i0) : \E l0 \in 1 .. size(k0) : Made(x, i0, k0, j0, l0)
  <2> DEFINE v == ParentsOfTwo(list, i0, k0)
  <2>1. size(i0) \in Nat /\ ParentsOfView(list, i0)[k0] = Loop(1, size(i0), v)
    BY <1>1, <1>2, <1>n DEF ParentsOfView
  <2>2. \A j0 \in 1 .. size(i0) :
            Lists(v[j0]) /\ \A x : x \in Range(v[j0]) <=> \E l0 \in 1 .. size(k0) : Made(x, i0, k0, j0, l0)
    BY <1>4
  <2>3. \A a, b \in 1 .. size(i0) : a # b => Range(v[a]) \intersect Range(v[b]) = {}
    <3> HIDE DEF v, Lists
    <3> SUFFICES ASSUME NEW a \in 1 .. size(i0), NEW b \in 1 .. size(i0), NEW x \in Range(v[a]), x \in Range(v[b]) PROVE a = b
      BY Zenon
    <3>1. (\E l0 \in 1 .. size(k0) : Made(x, i0, k0, a, l0)) /\ (\E l0 \in 1 .. size(k0) : Made(x, i0, k0, b, l0))
      BY <2>2
    <3> HIDE DEF size
    <3> QED
      BY <1>p, <3>1
  <2>4. /\ Lists(Loop(1, size(i0), v))
        /\ \A x : x \in Range(Loop(1, size(i0), v)) <=> \E j0 \in 1 .. size(i0) : x \in Range(v[j0])
    <3> DEFINE last == size(i0)
    <3>1. \A n \in 1 .. last : v[n] \in Seq(S) /\ IsInjective(v[n])
      BY <2>2
    <3>2. \A a, b \in 1 .. last : a # b => Range(v[a]) \intersect Range(v[b]) = {}
      BY <2>3
    <3>3. 1 \in Nat \ {0} /\ last \in Nat
      BY <2>1
    <3> HIDE DEF v, last
    <3>4. /\ Lists(Loop(1, last, v))
          /\ \A x : x \in Range(Loop(1, last, v)) <=> \E l0 \in 1 .. last : x \in Range(v[l0])
      BY <3>1, <3>2, <3>3, LoopAll
    <3> QED
      BY <3>4 DEF last
  <2> HIDE DEF v
  <2> QED
    BY <2>1, <2>2, <2>4
<1>6. ASSUME NEW i0 \in 1 .. N
      PROVE  /\ Lists(turn[i0])
             /\ \A x : x \in Range(turn[i0]) <=> \E k0 \in i0 + 1 .. N :
                   \E j0 \in 1 .. size(i0) : \E l0 \in 1 .. size(k0) : Made(x, i0, k0, j0, l0)
  <2> DEFINE v == ParentsOfView(list, i0)
  <2>1. i0 + 1 \in Nat \ {0} /\ turn[i0] = Loop(i0 + 1, N, v)
    BY <1>1, <1>n
  <2>2. \A k0 \in i0 + 1 .. N :
            Lists(v[k0]) /\ \A x : x \in Range(v[k0]) <=>
                \E j0 \in 1 .. size(i0) : \E l0 \in 1 .. size(k0) : Made(x, i0, k0, j0, l0)
    BY <1>5
  <2>3. \A a, b \in i0 + 1 .. N : a # b => Range(v[a]) \intersect Range(v[b]) = {}
    <3> HIDE DEF v, Lists
    <3> SUFFICES ASSUME NEW a \in i0 + 1 .. N, NEW b \in i0 + 1 .. N, NEW x \in Range(v[a]), x \in Range(v[b]) PROVE a = b
      BY Zenon
    <3>1. (\E j0 \in 1 .. size(i0) : \E l0 \in 1 .. size(a) : Made(x, i0, a, j0, l0))
           /\ (\E j0 \in 1 .. size(i0) : \E l0 \in 1 .. size(b) : Made(x, i0, b, j0, l0))
      BY <2>2
    <3> HIDE DEF size
    <3> QED
      BY <1>p, <3>1
  <2>4. /\ Lists(Loop(i0 + 1, N, v))
        /\ \A x : x \in Range(Loop(i0 + 1, N, v)) <=> \E k0 \in i0 + 1 .. N : x \in Range(v[k0])
    <3>1. \A n \in i0 + 1 .. N : v[n] \in Seq(S) /\ IsInjective(v[n])
      BY <2>2
    <3> HIDE DEF v
    <3> QED
      BY <1>1, <2>1, <3>1, <2>3, LoopAll
  <2> HIDE DEF v, turn
  <2> QED
    BY <2>1, <2>2, <2>4
<1>7. /\ Lists(Loop(1, N, turn))
      /\ \A x : x \in Range(Loop(1, N, turn)) <=> \E i0 \in 1 .. N : x \in Range(turn[i0])
  <2> HIDE DEF turn
  <2>1. \A a, b \in 1 .. N : a # b => Range(turn[a]) \intersect Range(turn[b]) = {}
    <3> HIDE DEF Lists
    <3> SUFFICES ASSUME NEW a \in 1 .. N, NEW b \in 1 .. N,
                        NEW x \in Range(turn[a]), x \in Range(turn[b])
                 PROVE  a = b
      BY Zenon
    <3>1. /\ \E k0 \in a + 1 .. N : \E j0 \in 1 .. size(a) : \E l0 \in 1 .. size(k0) : Made(x, a, k0, j0, l0)
          /\ \E k0 \in b + 1 .. N : \E j0 \in 1 .. size(b) : \E l0 \in 1 .. size(k0) : Made(x, b, k0, j0, l0)
      BY <1>6
    <3> HIDE DEF size
    <3> QED
      BY <1>p, <3>1
  <2>2. \A n \in 1 .. N : turn[n] \in Seq(S) /\ IsInjective(turn[n])
    BY <1>6
  <2>3. 1 \in Nat \ {0}
    OBVIOUS
  <2> QED
    BY <1>1, <2>1, <2>2, <2>3, LoopAll
<1>8. Parents(list) = Loop(1, N, turn)
  BY DEF Parents, N
<1> HIDE DEF turn
<1>9. \A x : x \in Range(Parents(list)) <=> x \in S
  BY <1>s, <1>6, <1>7, <1>8
<1> QED
  BY <1>7, <1>8, <1>9 DEF S, list

\* Every edge goes from a point to a later one: none joins a point to itself.
LEMMA EdgesIn ==
    ASSUME NEW list, NEW S, NEW parents \in Seq(S)
    PROVE  EdgesBetween(list, parents) \in Seq(Forward(Len(parents)))
<1> DEFINE N == Len(parents)
           F == Forward(N)
           turn == [m \in DOMAIN parents |-> Loop(m + 1, Len(parents), EdgesOfPoint(list, parents, m))]
<1>1. N \in Nat /\ DOMAIN parents = 1 .. N
  BY LenProperties
<1>2. ASSUME NEW m \in 1 .. N, NEW n \in m + 1 .. N
      PROVE  EdgesOfPoint(list, parents, m)[n] \in Seq(F)
  <2>1. n \in DOMAIN parents /\ <<m, n>> \in F
    BY <1>1 DEF Forward
  <2>2. << >> \in Seq(F) /\ << <<m, n>> >> \in Seq(F)
    BY <2>1, EmptySeq
  <2> HIDE DEF F
  <2> QED
    BY <2>1, <2>2 DEF EdgesOfPoint
<1>3. ASSUME NEW m \in 1 .. N PROVE turn[m] \in Seq(F)
  <2>1. m + 1 \in Nat \ {0} /\ m \in DOMAIN parents
    BY <1>1
  <2>2. Loop(m + 1, N, EdgesOfPoint(list, parents, m)) \in Seq(F)
    <3> HIDE DEF F
    <3> QED
      BY <1>1, <1>2, <2>1, LoopIn
  <2> QED
    BY <2>1, <2>2
<1>4. Loop(1, N, turn) \in Seq(F)
  <2> HIDE DEF F, turn
  <2> QED
    BY <1>1, <1>3, LoopIn
<1> QED
  BY <1>4 DEF EdgesBetween

\* It makes an edge of every two points it connects.
LEMMA EdgesAre ==
    ASSUME NEW list, NEW S, NEW parents \in Seq(S)
    PROVE  \A m, n : <<m, n>> \in Range(EdgesBetween(list, parents)) <=>
               /\ m \in 1 .. Len(parents) /\ n \in 1 .. Len(parents) /\ m < n
               /\ Connects(list, parents[m], parents[n])
<1> DEFINE N == Len(parents)
           F == Forward(N)
           turn == [m \in DOMAIN parents |-> Loop(m + 1, Len(parents), EdgesOfPoint(list, parents, m))]
           Made(x, m, n) == x = <<m, n>> /\ Connects(list, parents[m], parents[n])
           Lists(s) == s \in Seq(F) /\ IsInjective(s)
<1>1. N \in Nat /\ DOMAIN parents = 1 .. N
  BY LenProperties
<1>2. ASSUME NEW m \in 1 .. N, NEW n \in m + 1 .. N
      PROVE  LET s == EdgesOfPoint(list, parents, m)[n]
             IN  Lists(s) /\ \A x : x \in Range(s) <=> Made(x, m, n)
  <2> DEFINE c == <<m, n>>
             Yes == Connects(list, parents[m], parents[n])
  <2>1. EdgesOfPoint(list, parents, m)[n] = IF Yes THEN <<c>> ELSE << >>
    BY <1>1 DEF EdgesOfPoint
  <2>2. << >> \in Seq(F) /\ DOMAIN << >> = {}
    BY EmptySeq
  <2>3. c \in F
    BY <1>1 DEF Forward
  <2>4. \A x : Made(x, m, n) <=> x = c /\ Yes
    OBVIOUS
  <2> HIDE DEF c, F, Made, Yes
  <2>5. CASE Yes
    <3>1. <<c>> \in Seq(F) /\ DOMAIN <<c>> = {1} /\ <<c>>[1] = c
      BY <2>3, <2>5
    <3>2. IsInjective(<<c>>) /\ \A x : x \in Range(<<c>>) <=> x = c
      BY <3>1 DEF IsInjective, Range
    <3> QED
      BY <2>1, <2>4, <2>5, <3>1, <3>2
  <2>6. CASE ~ Yes
    <3>1. IsInjective(<< >>) /\ \A x : x \notin Range(<< >>)
      BY <2>2 DEF IsInjective, Range
    <3> QED
      BY <2>1, <2>2, <2>4, <2>6, <3>1
  <2> QED
    BY <2>5, <2>6
<1>p. \A x, m, n : Made(x, m, n) => x[1] = m /\ x[2] = n
  OBVIOUS
<1> HIDE DEF F, Made
<1>3. ASSUME NEW m \in 1 .. N
      PROVE  Lists(turn[m]) /\ \A x : x \in Range(turn[m]) <=> \E n \in m + 1 .. N : Made(x, m, n)
  <2> DEFINE v == EdgesOfPoint(list, parents, m)
  <2>1. m + 1 \in Nat \ {0} /\ turn[m] = Loop(m + 1, N, v)
    BY <1>1
  <2>2. \A n \in m + 1 .. N : Lists(v[n]) /\ \A x : x \in Range(v[n]) <=> Made(x, m, n)
    BY <1>2
  <2>3. \A a, b \in m + 1 .. N : a # b => Range(v[a]) \intersect Range(v[b]) = {}
    <3> HIDE DEF v, Lists
    <3> SUFFICES ASSUME NEW a \in m + 1 .. N, NEW b \in m + 1 .. N, NEW x \in Range(v[a]), x \in Range(v[b]) PROVE a = b
      BY Zenon
    <3>1. Made(x, m, a) /\ Made(x, m, b)
      BY <2>2
    <3> QED
      BY <1>p, <3>1
  <2>4. /\ Lists(Loop(m + 1, N, v))
        /\ \A x : x \in Range(Loop(m + 1, N, v)) <=> \E n \in m + 1 .. N : x \in Range(v[n])
    <3>1. \A n \in m + 1 .. N : v[n] \in Seq(F) /\ IsInjective(v[n])
      BY <2>2
    <3> HIDE DEF v, N
    <3> QED
      BY <1>1, <2>1, <3>1, <2>3, LoopAll
  <2> HIDE DEF v, turn
  <2> QED
    BY <2>1, <2>2, <2>4
<1>4. \A x : x \in Range(Loop(1, N, turn)) <=> \E m \in 1 .. N : x \in Range(turn[m])
  <2> HIDE DEF turn
  <2>1. \A a, b \in 1 .. N : a # b => Range(turn[a]) \intersect Range(turn[b]) = {}
    <3> HIDE DEF Lists
    <3> SUFFICES ASSUME NEW a \in 1 .. N, NEW b \in 1 .. N,
                        NEW x \in Range(turn[a]), x \in Range(turn[b])
                 PROVE  a = b
      BY Zenon
    <3>1. (\E n \in a + 1 .. N : Made(x, a, n)) /\ (\E n \in b + 1 .. N : Made(x, b, n))
      BY <1>3
    <3> QED
      BY <1>p, <3>1
  <2>2. \A n \in 1 .. N : turn[n] \in Seq(F) /\ IsInjective(turn[n])
    BY <1>3
  <2> HIDE DEF N
  <2>3. 1 \in Nat \ {0}
    OBVIOUS
  <2> QED
    BY <1>1, <2>1, <2>2, <2>3, LoopAll
<1>5. EdgesBetween(list, parents) = Loop(1, N, turn)
  BY DEF EdgesBetween
<1> HIDE DEF turn
<1>6. ASSUME NEW m, NEW n
      PROVE  <<m, n>> \in Range(EdgesBetween(list, parents)) <=>
               /\ m \in 1 .. N /\ n \in m + 1 .. N
               /\ Connects(list, parents[m], parents[n])
  <2>1. <<m, n>> \in Range(EdgesBetween(list, parents)) <=>
            \E a \in 1 .. N : \E b \in a + 1 .. N : Made(<<m, n>>, a, b)
    BY <1>3, <1>4, <1>5
  <2>2. \A a, b : Made(<<m, n>>, a, b) <=> m = a /\ n = b /\ Connects(list, parents[a], parents[b])
    BY DEF Made
  <2> QED
    BY <2>1, <2>2
<1>7. \A m, n : m \in 1 .. N /\ n \in m + 1 .. N <=> m \in 1 .. N /\ n \in 1 .. N /\ m < n
  BY <1>1
<1> HIDE DEF N
<1> QED
  BY <1>6, <1>7 DEF N

-----------------------------------------------------------------------------
(* Where a point is *)

Line == [alpha : Int, p : Int]
Located3 == [x : Int, y : Int, z : Int]
System == [has : SUBSET Axis, zero : Spot, line : [x : Line, y : Line, z : Line]]

LEMMA Measured ==
    ASSUME NEW line \in Line, NEW pt \in Spot
    PROVE  /\ DistanceTo(line, pt) \in Nat
           /\ Cos(line.alpha) \in Int /\ Sin(line.alpha) \in Int
<1>1. Cos(line.alpha) \in Int
  BY DEF Cos
<1>2. Sin(line.alpha) \in Int
  BY DEF Sin
<1>3. pt.x \in Int /\ pt.y \in Int /\ line.p \in Int
  BY DEF Spot, Line
<1> DEFINE a == Cos(line.alpha) * pt.x
           b == Sin(line.alpha) * pt.y
<1>4. a \in Int /\ b \in Int
  BY <1>1, <1>2, <1>3
<1> HIDE DEF a, b
<1>5. Abs(a + b - line.p) \in Nat
  BY <1>3, <1>4 DEF Abs
<1> QED
  BY <1>1, <1>2, <1>5 DEF DistanceTo, a, b

\* The lines between the centres of a sheet.
LEMMA Directed ==
    ASSUME NEW sheet \in Sheets, NEW k \in DOMAIN sheet, NEW m \in DOMAIN sheet
    PROVE  Direction(sheet, k, m) \in Line
<1>1. sheet[k].center \in Spot /\ sheet[m].center \in Spot
  BY HandedOver
<1>2. \A c1, c2 \in Spot : CalculateDirection(c1, c2) \in Line
  BY DEF Spot, Line, CalculateDirection, ZeroLine
<1>3. ZeroLine \in Line
  BY DEF ZeroLine, Line
<1> QED
  BY <1>1, <1>2, <1>3 DEF Direction

\* A view has a vertex that is nearest to the zero of the first view.
LEMMA Nearest ==
    ASSUME NEW sheet \in Sheets, NEW k \in DOMAIN sheet
    PROVE  NearestVertex(sheet, k) \in DOMAIN sheet[k].vertices
<1> DEFINE V == sheet[k].vertices
           far(l) == Along(MainZero(sheet), Direction(sheet, 1, k), V[l])
<1>1. /\ V \in Seq(Spot) /\ V # << >> /\ 1 \in DOMAIN sheet
      /\ sheet[1].vertices \in Seq(Spot) /\ sheet[1].vertices # << >>
  BY HandedOver
<1>2. /\ Len(V) \in Nat \ {0} /\ DOMAIN V = 1 .. Len(V) /\ \A l \in DOMAIN V : V[l] \in Spot
  BY <1>1, LenProperties, EmptySeq, ElementOfSeq
<1>3. MainZero(sheet) \in Spot
  BY <1>1, EmptySeq, LenProperties, ElementOfSeq DEF MainZero
<1>4. Direction(sheet, 1, k) \in Line
  BY <1>1, Directed
<1>5. ASSUME NEW l \in DOMAIN V PROVE far(l) \in Nat
  <2> DEFINE D == Direction(sheet, 1, k)
             Z == MainZero(sheet)
             a == Sin(D.alpha)
             b == Cos(D.alpha)
  <2>1. a \in Int /\ b \in Int
    BY DEF Cos, Sin
  <2>2. Z.x \in Int /\ Z.y \in Int /\ V[l].x \in Int /\ V[l].y \in Int
    BY <1>2, <1>3 DEF Spot
  <2> DEFINE e == -a * V[l].x
             f == b * V[l].y - (-a * Z.x + b * Z.y)
  <2>3. e \in Int /\ f \in Int
    <3> HIDE DEF a, b, Z
    <3> QED
      BY <2>1, <2>2
  <2> HIDE DEF e, f
  <2>4. Abs(e + f) \in Nat
    BY <2>3 DEF Abs
  <2>5. far(l) = Abs(e + f)
    BY Zenon DEF Along, e, f
  <2> QED
    BY <2>4, <2>5
<1> DEFINE lengths == {far(l) : l \in DOMAIN V}
<1>6. PICK d \in lengths : \A e \in lengths : d <= e
  <2>1. lengths \in SUBSET Nat /\ lengths # {}
    <3> HIDE DEF far
    <3>1. lengths \subseteq Nat
      BY <1>5
    <3>2. far(1) \in lengths
      BY <1>2
    <3> QED
      BY <3>1, <3>2
  <2> HIDE DEF lengths
  <2> QED
    BY <2>1, LeastNumber
<1> DEFINE those == {l \in DOMAIN V : far(l) = d}
<1>7. PICK l0 \in those : \A m \in those : l0 <= m
  <2>1. those \in SUBSET Nat /\ those # {}
    <3> HIDE DEF far
    <3> QED
      BY <1>2
  <2> HIDE DEF those
  <2> QED
    BY <2>1, LeastNumber
<1>8. l0 \in DOMAIN V /\ far(l0) = d
  OBVIOUS
<1>9. \A m \in DOMAIN V : far(l0) < far(m) \/ (far(l0) = far(m) /\ l0 <= m)
  <2> HIDE DEF far
  <2>1. ASSUME NEW m \in DOMAIN V PROVE d < far(m) \/ (d = far(m) /\ l0 <= m)
    <3>1. far(m) \in lengths /\ far(m) \in Nat /\ d <= far(m) /\ d \in Nat
      BY <1>5, <1>6, <1>8
    <3>2. far(m) = d => l0 <= m
      BY <1>7
    <3> QED
      BY <3>1, <3>2
  <2> QED
    BY <2>1, <1>8
<1>10. NearestVertex(sheet, k) = CHOOSE l \in DOMAIN V : \A m \in DOMAIN V : far(l) < far(m) \/ (far(l) = far(m) /\ l <= m)
  BY DEF NearestVertex
<1> HIDE DEF far
<1> QED
  BY <1>8, <1>9, <1>10

LEMMA Measures ==
    ASSUME NEW sheet \in Sheets, NEW k \in DOMAIN sheet
    PROVE  AssignCoordinateSystems(sheet)[k].s \in System
<1>1. 1 \in DOMAIN sheet /\ 2 \in DOMAIN sheet
  BY HandedOver
<1>2. ASSUME NEW m \in DOMAIN sheet, NEW n \in DOMAIN sheet[m].vertices
      PROVE  sheet[m].vertices[n] \in Spot
  <2>1. sheet[m].vertices \in Seq(Spot)
    BY HandedOver
  <2> QED
    BY <2>1, LenProperties, ElementOfSeq
<1>3. MainZero(sheet) \in Spot
  <2>1. sheet[1].vertices \in Seq(Spot) /\ sheet[1].vertices # << >>
    BY <1>1, HandedOver
  <2>2. 1 \in DOMAIN sheet[1].vertices
    BY <2>1, LenProperties, EmptySeq
  <2> QED
    BY <1>1, <1>2, <2>2 DEF MainZero
<1>4. sheet[k].vertices[NearestVertex(sheet, k)] \in Spot
  BY <1>2, Nearest
<1>5. YLine(sheet) \in Line /\ XLine(sheet) \in Line /\ ZeroLine \in Line
  <2>1. Direction(sheet, 1, 2) \in Line
    BY <1>1, Directed
  <2> QED
    BY <2>1 DEF YLine, XLine, Line, ZeroLine, FAR
<1>6. MainSystem(sheet) \in System
  BY <1>3, <1>5 DEF MainSystem, System, Axis
<1>7. OtherSystem(sheet, k) \in System
  BY <1>4, <1>5 DEF OtherSystem, System, Axis
<1> QED
  BY <1>6, <1>7, HandedOver

\* A point has three whole coordinates.
LEMMA PointIn ==
    ASSUME NEW sheet \in Sheets, NEW c \in PairsOn(AssignCoordinateSystems(sheet))
    PROVE  CoordsPoint(AssignCoordinateSystems(sheet), c) \in [Axis -> Int]
<1> DEFINE list == AssignCoordinateSystems(sheet)
           s1 == list[c.proj1].s
           s2 == list[c.proj2].s
           u1 == list[c.proj1].vertices[c.pt1]
           u2 == list[c.proj2].vertices[c.pt2]
<1>1. /\ c.proj1 \in DOMAIN sheet /\ c.proj2 \in DOMAIN sheet
      /\ c.pt1 \in 1 .. Len(list[c.proj1].vertices) /\ c.pt2 \in 1 .. Len(list[c.proj2].vertices)
  BY HandedOver DEF PairsOn, Vertices
<1>2. s1 \in System /\ s2 \in System
  BY <1>1, Measures
<1>3. u1 \in Spot /\ u2 \in Spot
  <2>1. list[c.proj1].vertices \in Seq(Spot) /\ list[c.proj2].vertices \in Seq(Spot)
    BY <1>1, HandedOver
  <2> QED
    BY <1>1, <2>1, ElementOfSeq
<1>4. ASSUME NEW s \in System, NEW pt \in Spot PROVE LocationOf(s, pt) \in Located3
  <2>1. ASSUME NEW line \in Line PROVE DistanceTo(line, pt) - DistanceTo(line, s.zero) \in Int
    <3>1. s.zero \in Spot
      BY DEF System
    <3>2. DistanceTo(line, pt) \in Nat /\ DistanceTo(line, s.zero) \in Nat
      BY <3>1, Measured
    <3> QED
      BY <3>2
  <2>2. s.line["x"] \in Line /\ s.line["y"] \in Line /\ s.line["z"] \in Line
    BY DEF System
  <2> QED
    BY <2>1, <2>2 DEF LocationOf, Located3
<1>5. ASSUME NEW v1 \in Located3, NEW v2 \in Located3
      PROVE  MergePoints(v1, s1, v2, s2) \in [Axis -> Int]
  <2>1. /\ v1["x"] \in Int /\ v1["y"] \in Int /\ v1["z"] \in Int
        /\ v2["x"] \in Int /\ v2["y"] \in Int /\ v2["z"] \in Int
    BY DEF Located3
  <2> HIDE DEF s1
  <2>2. MergePoints(v1, s1, v2, s2) \in Located3
    BY <2>1 DEF MergePoints, Located3
  <2>3. Located3 \subseteq [Axis -> Int]
    BY DEF Located3, Axis
  <2> QED
    BY <2>2, <2>3
<1>6. CoordsPoint(list, c) = MergePoints(LocationOf(s1, u1), s1, LocationOf(s2, u2), s2)
  BY DEF CoordsPoint
<1> HIDE DEF s1, s2, u1, u2
<1>7. CoordsPoint(list, c) \in [Axis -> Int]
  BY <1>2, <1>3, <1>4, <1>5, <1>6
<1> QED
  BY <1>7 DEF list

\* The views of a sheet lie all beside each other or all below each other.
LEMMA InARow ==
    ASSUME NEW sheet \in Sheets, NEW k \in DOMAIN sheet, k # 1
    PROVE  /\ Direction(sheet, 1, k).alpha = Direction(sheet, 1, 2).alpha
           /\ Direction(sheet, 1, 2) = IF sheet[1].center.x = sheet[2].center.x
                                       THEN [alpha |-> 0, p |-> sheet[1].center.x]
                                       ELSE [alpha |-> 90, p |-> sheet[1].center.y]
<1> DEFINE c1 == sheet[1].center
           c2 == sheet[2].center
           ck == sheet[k].center
<1>1. 1 \in DOMAIN sheet /\ 2 \in DOMAIN sheet /\ k > 1 /\ DOMAIN sheet \subseteq Nat
  BY HandedOver
<1>2. c1 \in Spot /\ c2 \in Spot /\ ck \in Spot
  BY <1>1, HandedOver
<1>3. c1 # c2 /\ c1 # ck /\ (k # 2 => c2 # ck)
  BY <1>1, SheetAssumption
<1>4. /\ c1.x = c2.x \/ c1.y = c2.y
      /\ c1.x = ck.x \/ c1.y = ck.y
      /\ c2.x = ck.x \/ c2.y = ck.y
  BY <1>1, ModellerAssumption DEF Aligned
<1>5. c1.x = c2.x <=> c1.x = ck.x
  <2>1. \A a, b \in Spot : a.x = b.x /\ a.y = b.y => a = b
    BY DEF Spot
  <2> HIDE DEF c1, c2, ck
  <2>2. CASE k = 2
    BY <2>2 DEF c2, ck
  <2>3. CASE k # 2
    BY <2>1, <2>3, <1>2, <1>3, <1>4
  <2> QED
    BY <2>2, <2>3
<1>6. /\ Direction(sheet, 1, k) = CalculateDirection(c1, ck)
      /\ Direction(sheet, 1, 2) = CalculateDirection(c1, c2)
  BY <1>1 DEF Direction
<1> HIDE DEF c1, c2, ck
<1>7. /\ CalculateDirection(c1, ck) = IF c1.x = ck.x THEN [alpha |-> 0, p |-> c1.x]
                                                     ELSE [alpha |-> 90, p |-> c1.y]
      /\ CalculateDirection(c1, c2) = IF c1.x = c2.x THEN [alpha |-> 0, p |-> c1.x]
                                                     ELSE [alpha |-> 90, p |-> c1.y]
  BY <1>3 DEF CalculateDirection
<1> QED
  BY <1>5, <1>6, <1>7 DEF c1, c2

\* How far from the lines of reference a vertex is, and two vertices are apart.
LEMMA FromTheLines ==
    ASSUME NEW sheet \in Sheets, NEW k \in DOMAIN sheet, NEW n \in DOMAIN sheet[k].vertices
    PROVE  LET v == sheet[k].vertices[n]
               c == sheet[1].center
           IN  IF Direction(sheet, 1, 2).alpha = 90
               THEN /\ DistanceTo(XLine(sheet), v) = v.x + FAR
                    /\ DistanceTo(YLine(sheet), v) = v.y - c.y + FAR
               ELSE /\ DistanceTo(XLine(sheet), v) = FAR - v.y
                    /\ DistanceTo(YLine(sheet), v) = v.x - c.x + FAR
<1> DEFINE v == sheet[k].vertices[n]
           c == sheet[1].center
<1>1. v \in Spot /\ c \in Spot /\ 2 \in DOMAIN sheet
  <2>1. sheet[k].vertices \in Seq(Spot) /\ 1 \in DOMAIN sheet
    BY HandedOver
  <2> QED
    BY <2>1, HandedOver, LenProperties, ElementOfSeq
<1>2. v.x >= -FAR /\ v.y <= FAR /\ v.x - c.x >= -FAR /\ v.y - c.y >= -FAR
  BY SheetAssumption
<1>3. v.x \in Int /\ v.y \in Int /\ c.x \in Int /\ c.y \in Int
  BY <1>1 DEF Spot
<1>4. Direction(sheet, 1, 2) = [alpha |-> 0, p |-> c.x] \/ Direction(sheet, 1, 2) = [alpha |-> 90, p |-> c.y]
  BY <1>1, InARow
<1> HIDE DEF v, c
<1>5. CASE Direction(sheet, 1, 2) = [alpha |-> 90, p |-> c.y]
  <2>1. YLine(sheet) = [alpha |-> 90, p |-> c.y - FAR] /\ XLine(sheet) = [alpha |-> 0, p |-> -FAR]
    BY <1>5 DEF YLine, XLine
  <2>2. Cos(90) = 0 /\ Sin(90) = 1 /\ Cos(0) = 1 /\ Sin(0) = 0
    BY DEF Cos, Sin
  <2>3. DistanceTo(YLine(sheet), v) = v.y - c.y + FAR /\ DistanceTo(XLine(sheet), v) = v.x + FAR
    BY <1>2, <1>3, <2>1, <2>2 DEF DistanceTo, Abs, FAR
  <2> QED
    BY <1>5, <2>3 DEF v, c
<1>6. CASE Direction(sheet, 1, 2) = [alpha |-> 0, p |-> c.x]
  <2>1. YLine(sheet) = [alpha |-> 0, p |-> c.x - FAR] /\ XLine(sheet) = [alpha |-> -90, p |-> -FAR]
    BY <1>6 DEF YLine, XLine
  <2>2. Cos(-90) = 0 /\ Sin(-90) = -1 /\ Cos(0) = 1 /\ Sin(0) = 0
    BY DEF Cos, Sin
  <2>3. DistanceTo(YLine(sheet), v) = v.x - c.x + FAR /\ DistanceTo(XLine(sheet), v) = FAR - v.y
    BY <1>2, <1>3, <2>1, <2>2 DEF DistanceTo, Abs, FAR
  <2> QED
    BY <1>6, <2>3 DEF v, c
<1> QED
  BY <1>4, <1>5, <1>6

\* What a pair of vertices, the first in the first view, says of its point.
LEMMA ShownAt ==
    ASSUME NEW sheet \in Sheets, NEW c \in PairsOn(AssignCoordinateSystems(sheet)), c.proj1 = 1
    PROVE  LET built == CoordsPoint(AssignCoordinateSystems(sheet), c)
               v1 == sheet[1].vertices[c.pt1]
               v2 == sheet[c.proj2].vertices[c.pt2]
               z1 == MainZero(sheet)
               z2 == sheet[c.proj2].vertices[NearestVertex(sheet, c.proj2)]
           IN  /\ v1 \in Spot /\ v2 \in Spot /\ z1 \in Spot /\ z2 \in Spot
               /\ IF Direction(sheet, 1, 2).alpha = 90
                  THEN /\ built["x"] = v1.x - z1.x /\ built["y"] = v1.y - z1.y
                       /\ built["z"] = v2.x - z2.x /\ Abs(v2.y - v1.y) < MAX_DIFF
                  ELSE /\ built["x"] = z1.y - v1.y /\ built["y"] = v1.x - z1.x
                       /\ built["z"] = z2.y - v2.y /\ Abs(v2.x - v1.x) < MAX_DIFF
<1> DEFINE list == AssignCoordinateSystems(sheet)
           k == c.proj2
           built == CoordsPoint(list, c)
           v1 == sheet[1].vertices[c.pt1]
           v2 == sheet[k].vertices[c.pt2]
           z1 == MainZero(sheet)
           z2 == sheet[k].vertices[NearestVertex(sheet, k)]
           c1 == sheet[1].center
<1>1. /\ 1 \in DOMAIN sheet /\ 2 \in DOMAIN sheet /\ k \in DOMAIN sheet /\ k # 1
      /\ list[1].vertices = sheet[1].vertices /\ list[k].vertices = sheet[k].vertices
      /\ list[1].s = MainSystem(sheet) /\ list[k].s = OtherSystem(sheet, k)
  BY HandedOver DEF PairsOn
<1>2. /\ c.pt1 \in DOMAIN sheet[1].vertices /\ c.pt2 \in DOMAIN sheet[k].vertices
      /\ 1 \in DOMAIN sheet[1].vertices /\ NearestVertex(sheet, k) \in DOMAIN sheet[k].vertices
  <2>1. c.pt1 \in 1 .. Len(sheet[1].vertices) /\ c.pt2 \in 1 .. Len(sheet[k].vertices)
    BY <1>1 DEF PairsOn, Vertices
  <2>2. /\ sheet[1].vertices \in Seq(Spot) /\ sheet[k].vertices \in Seq(Spot)
        /\ sheet[1].vertices # << >>
    BY <1>1, HandedOver
  <2> QED
    BY <1>1, <2>1, <2>2, Nearest, LenProperties, EmptySeq
<1>3. v1 \in Spot /\ v2 \in Spot /\ z1 \in Spot /\ z2 \in Spot /\ c1 \in Spot
  <2>1. sheet[1].vertices \in Seq(Spot) /\ sheet[k].vertices \in Seq(Spot)
    BY <1>1, HandedOver
  <2> QED
    BY <1>1, <1>2, <2>1, HandedOver, LenProperties, ElementOfSeq DEF MainZero
<1>4. /\ built["x"] = DistanceTo(XLine(sheet), v1) - DistanceTo(XLine(sheet), z1)
      /\ built["y"] = DistanceTo(YLine(sheet), v1) - DistanceTo(YLine(sheet), z1)
      /\ built["z"] = DistanceTo(XLine(sheet), v2) - DistanceTo(XLine(sheet), z2)
  <2> DEFINE s1 == MainSystem(sheet)
             s2 == OtherSystem(sheet, k)
  <2>1. built = MergePoints(LocationOf(s1, v1), s1, LocationOf(s2, v2), s2)
    BY <1>1 DEF CoordsPoint
  <2>2. /\ s1.has = {"x", "y"} /\ s1.line["x"] = XLine(sheet) /\ s1.line["y"] = YLine(sheet)
        /\ s1.zero = z1
    BY DEF MainSystem
  <2>3. s2.has = {"y", "z"} /\ s2.line["z"] = XLine(sheet) /\ s2.zero = z2
    BY DEF OtherSystem
  <2> HIDE DEF s1, s2, z1, z2, v1, v2, built
  <2>4. /\ LocationOf(s1, v1)["x"] = DistanceTo(XLine(sheet), v1) - DistanceTo(XLine(sheet), z1)
        /\ LocationOf(s1, v1)["y"] = DistanceTo(YLine(sheet), v1) - DistanceTo(YLine(sheet), z1)
        /\ LocationOf(s2, v2)["z"] = DistanceTo(XLine(sheet), v2) - DistanceTo(XLine(sheet), z2)
    BY <2>2, <2>3 DEF LocationOf
  <2>5. /\ built["x"] = LocationOf(s1, v1)["x"] /\ built["y"] = LocationOf(s1, v1)["y"]
        /\ built["z"] = LocationOf(s2, v2)["z"]
    BY <2>1, <2>2 DEF MergePoints
  <2> QED
    BY <2>4, <2>5
<1>5. Across(v1, Direction(sheet, 1, k), v2) < MAX_DIFF
  <2>1. OnOneLine(list, c)
    BY DEF PairsOn
  <2>2. Direction(list, 1, k) = Direction(sheet, 1, k)
    <3>1. list[1].center = sheet[1].center /\ list[k].center = sheet[k].center
      BY <1>1, HandedOver
    <3> HIDE DEF list
    <3> QED
      BY <3>1 DEF Direction
  <2> QED
    BY <1>1, <2>1, <2>2 DEF OnOneLine
<1>6. /\ v1.x \in Int /\ v1.y \in Int /\ v2.x \in Int /\ v2.y \in Int
      /\ z1.x \in Int /\ z1.y \in Int /\ z2.x \in Int /\ z2.y \in Int
      /\ c1.x \in Int /\ c1.y \in Int
  BY <1>3 DEF Spot
<1>7. /\ Direction(sheet, 1, k).alpha = Direction(sheet, 1, 2).alpha
      /\ Direction(sheet, 1, 2).alpha \in {0, 90}
  BY <1>1, InARow
<1>8. CASE Direction(sheet, 1, 2).alpha = 90
  <2>1. /\ DistanceTo(XLine(sheet), v1) = v1.x + FAR /\ DistanceTo(XLine(sheet), z1) = z1.x + FAR
        /\ DistanceTo(XLine(sheet), v2) = v2.x + FAR /\ DistanceTo(XLine(sheet), z2) = z2.x + FAR
        /\ DistanceTo(YLine(sheet), v1) = v1.y - c1.y + FAR
        /\ DistanceTo(YLine(sheet), z1) = z1.y - c1.y + FAR
    BY <1>1, <1>2, <1>8, FromTheLines DEF MainZero
  <2>2. Cos(90) = 0 /\ Sin(90) = 1
    BY DEF Cos, Sin
  <2>3. Across(v1, Direction(sheet, 1, k), v2) = Abs(v2.y - v1.y)
    <3> HIDE DEF v1, v2, k
    <3> QED
      BY <1>6, <1>7, <1>8, <2>2 DEF Across, DistanceTo
  <2> HIDE DEF v1, v2, z1, z2, c1, built
  <2>4. /\ built["x"] = v1.x - z1.x /\ built["y"] = v1.y - z1.y
        /\ built["z"] = v2.x - z2.x
    <3>1. built["x"] = v1.x - z1.x
      BY <1>4, <1>6, <2>1 DEF FAR
    <3>2. built["y"] = v1.y - z1.y
      BY <1>4, <1>6, <2>1 DEF FAR
    <3>3. built["z"] = v2.x - z2.x
      BY <1>4, <1>6, <2>1 DEF FAR
    <3> QED
      BY <3>1, <3>2, <3>3
  <2> QED
    BY <1>3, <1>5, <1>8, <2>3, <2>4 DEF v1, v2, z1, z2, c1, built
<1>9. CASE Direction(sheet, 1, 2).alpha = 0
  <2>1. /\ DistanceTo(XLine(sheet), v1) = FAR - v1.y /\ DistanceTo(XLine(sheet), z1) = FAR - z1.y
        /\ DistanceTo(XLine(sheet), v2) = FAR - v2.y /\ DistanceTo(XLine(sheet), z2) = FAR - z2.y
        /\ DistanceTo(YLine(sheet), v1) = v1.x - c1.x + FAR
        /\ DistanceTo(YLine(sheet), z1) = z1.x - c1.x + FAR
    BY <1>1, <1>2, <1>9, FromTheLines DEF MainZero
  <2>2. Cos(0) = 1 /\ Sin(0) = 0
    BY DEF Cos, Sin
  <2>3. Across(v1, Direction(sheet, 1, k), v2) = Abs(v2.x - v1.x)
    <3> HIDE DEF v1, v2, k
    <3> QED
      BY <1>6, <1>7, <1>9, <2>2 DEF Across, DistanceTo
  <2> HIDE DEF v1, v2, z1, z2, c1, built
  <2>4. /\ built["x"] = z1.y - v1.y /\ built["y"] = v1.x - z1.x
        /\ built["z"] = z2.y - v2.y
    <3>1. built["x"] = z1.y - v1.y
      BY <1>4, <1>6, <2>1 DEF FAR
    <3>2. built["y"] = v1.x - z1.x
      BY <1>4, <1>6, <2>1 DEF FAR
    <3>3. built["z"] = z2.y - v2.y
      BY <1>4, <1>6, <2>1 DEF FAR
    <3> QED
      BY <3>1, <3>2, <3>3
  <2> QED
    BY <1>3, <1>5, <1>9, <2>3, <2>4 DEF v1, v2, z1, z2, c1, built
<1> QED
  BY <1>7, <1>8, <1>9

-----------------------------------------------------------------------------
(* align_contours *)

LEMMA Measuring ==
    /\ \A a, b \in Int : Aligning!Distance(a, b) \in Nat /\ Aligning!Distance(a, b) = Aligning!Distance(b, a)
    /\ \A a \in Int : Aligning!Distance(a, a) = 0
BY DEF Aligning!Distance

\* Before the first point is looked at.
LEMMA SortedAtFirst ==
    ASSUME given \in Seq(Int), coord = given, i = 1, available = << >>, res = << >>
    PROVE  Sorted
<1>1. Len(coord) \in Nat /\ DOMAIN coord = 1 .. Len(coord)
  BY LenProperties
<1>2. << >> \in Seq(Int) /\ << >> \in Seq(Seq(1 .. Len(coord))) /\ Len(<< >>) = 0
  BY EmptySeq
<1>3. DOMAIN << >> = {} /\ 1 .. 1 - 1 = {}
  OBVIOUS
<1> QED
  BY <1>1, <1>2, <1>3 DEF Sorted

LEMMA SortedAtBegin ==
    ASSUME given' \in Seq(Int), coord' = given', i' = 1, available' = << >>, res' = << >>
    PROVE  Sorted'
<1>1. Len(coord') \in Nat /\ DOMAIN coord' = 1 .. Len(coord')
  BY LenProperties
<1>2. << >> \in Seq(Int) /\ << >> \in Seq(Seq(1 .. Len(coord'))) /\ Len(<< >>) = 0
  BY EmptySeq
<1>3. DOMAIN << >> = {} /\ 1 .. 1 - 1 = {}
  OBVIOUS
<1> QED
  BY <1>1, <1>2, <1>3 DEF Sorted

\* The point is put, as number at, into plane to, which is the first near it.
PutInto(to, at) ==
    /\ to \in DOMAIN res' /\ at \in DOMAIN res'[to] /\ res'[to][at] = i
    /\ \A k \in DOMAIN res' : \A n \in DOMAIN res'[k] :
          \/ k = to /\ n = at
          \/ k \in DOMAIN res /\ n \in DOMAIN res[k] /\ res'[k][n] = res[k][n]
    /\ \A k \in DOMAIN res : k \in DOMAIN res' /\ \A n \in DOMAIN res[k] :
          n \in DOMAIN res'[k] /\ res'[k][n] = res[k][n]
    /\ \A k \in DOMAIN available : k \in DOMAIN available' /\ available'[k] = available[k]
    /\ coord'[i] = available'[to]
    /\ \A p \in DOMAIN coord : p # i => coord'[p] = coord[p]
    /\ Aligning!Near(given[i], available'[to])
    /\ \A h \in 1 .. to - 1 : ~ Aligning!Near(given[i], available'[h])

LEMMA Put ==
    ASSUME Sorted, i \in 1 .. Len(coord), i' = i + 1, given' = given,
           coord' \in Seq(Int), Len(coord') = Len(coord), available' \in Seq(Int),
           res' \in Seq(Seq(1 .. Len(coord))), Len(res') = Len(available'),
           NEW to, NEW at, PutInto(to, at),
           \A j, k \in DOMAIN available' :
               j # k => Aligning!Distance(available'[j], available'[k]) >= CONTOUR_DIFF
    PROVE  Sorted'
<1> DEFINE N == Len(coord)
<1>1. /\ N \in Nat /\ i \in Nat /\ i \in 1 .. N /\ DOMAIN coord = 1 .. N
      /\ DOMAIN res = 1 .. Len(res) /\ DOMAIN available = 1 .. Len(res) /\ Len(res) \in Nat
      /\ DOMAIN res' = 1 .. Len(res') /\ DOMAIN available' = 1 .. Len(res') /\ Len(res') \in Nat
  BY LenProperties DEF Sorted
<1>2. \A k \in DOMAIN res : \A n \in DOMAIN res[k] : res[k][n] \in 1 .. N /\ res[k][n] < i
  <2>1. ASSUME NEW k \in DOMAIN res, NEW n \in DOMAIN res[k] PROVE res[k][n] \in 1 .. N
    <3>1. res[k] \in Seq(1 .. N)
      BY <1>1, ElementOfSeq DEF Sorted
    <3> QED
      BY <3>1, LenProperties, ElementOfSeq
  <2> QED
    BY <2>1 DEF Sorted
<1>3. ASSUME NEW p \in i + 1 .. N PROVE coord'[p] = given[p]
  <2>1. p \in i .. N /\ p \in DOMAIN coord /\ p # i
    BY <1>1
  <2>2. coord[p] = given[p] /\ coord'[p] = coord[p]
    BY <2>1 DEF Sorted, PutInto
  <2> QED
    BY <2>2
<1>4. ASSUME NEW j \in DOMAIN res', NEW n \in DOMAIN res'[j]
      PROVE  /\ res'[j][n] < i + 1
             /\ coord'[res'[j][n]] = available'[j]
             /\ Aligning!Near(given[res'[j][n]], available'[j])
             /\ \A h \in 1 .. j - 1 : ~ Aligning!Near(given[res'[j][n]], available'[h])
  <2>1. CASE j = to /\ n = at
    BY <2>1, <1>1 DEF PutInto
  <2>2. CASE j \in DOMAIN res /\ n \in DOMAIN res[j] /\ res'[j][n] = res[j][n]
    <3> DEFINE p == res[j][n]
    <3>1. p \in 1 .. N /\ p < i /\ p # i /\ p < i + 1
      <4>1. p \in 1 .. N /\ p < i
        BY <1>2, <2>2
      <4> HIDE DEF p
      <4> QED
        BY <1>1, <4>1
    <3>2. /\ coord[p] = available[j] /\ Aligning!Near(given[p], available[j])
          /\ \A h \in 1 .. j - 1 : ~ Aligning!Near(given[p], available[h])
      BY <2>2 DEF Sorted
    <3>3. coord'[p] = coord[p] /\ available'[j] = available[j]
      BY <1>1, <2>2, <3>1 DEF PutInto
    <3>4. \A h \in 1 .. j - 1 : available'[h] = available[h]
      <4>1. \A h \in 1 .. j - 1 : h \in DOMAIN available
        BY <1>1, <2>2
      <4> QED
        BY <4>1 DEF PutInto
    <3> HIDE DEF p
    <3> QED
      BY <2>2, <3>1, <3>2, <3>3, <3>4 DEF p
  <2> QED
    BY <2>1, <2>2 DEF PutInto
<1>5. ASSUME NEW p \in 1 .. (i + 1) - 1 PROVE \E j \in DOMAIN res' : \E n \in DOMAIN res'[j] : res'[j][n] = p
  <2>1. CASE p = i
    BY <2>1 DEF PutInto
  <2>2. CASE p # i
    <3>1. p \in 1 .. i - 1
      BY <1>1, <2>2
    <3>2. PICK j \in DOMAIN res : \E n \in DOMAIN res[j] : res[j][n] = p
      BY <3>1 DEF Sorted, Aligning!In
    <3> QED
      BY <3>2 DEF PutInto
  <2> QED
    BY <2>1, <2>2
<1>6. ASSUME NEW j \in DOMAIN res', NEW k \in DOMAIN res',
             NEW n \in DOMAIN res'[j], NEW m \in DOMAIN res'[k], res'[j][n] = res'[k][m]
      PROVE  j = k /\ n = m
  <2> DEFINE Old(a, b) == a \in DOMAIN res /\ b \in DOMAIN res[a] /\ res'[a][b] = res[a][b]
  <2>1. (j = to /\ n = at) \/ Old(j, n)
    BY DEF PutInto
  <2>2. (k = to /\ m = at) \/ Old(k, m)
    BY DEF PutInto
  <2>3. \A a, b : Old(a, b) => res'[a][b] < i /\ res'[a][b] \in Nat
    BY <1>1, <1>2
  <2>4. res'[to][at] = i /\ ~ (i < i)
    BY <1>1 DEF PutInto
  <2>5. CASE Old(j, n) /\ Old(k, m)
    <3>1. res[j][n] = res[k][m]
      BY <2>5, <1>6
    <3> QED
      BY <2>5, <3>1 DEF Sorted
  <2> HIDE DEF Old
  <2> QED
    BY <2>1, <2>2, <2>3, <2>4, <2>5, <1>6
<1>7. i' \in 1 .. Len(coord') + 1 /\ Len(given') = N
  BY <1>1 DEF Sorted
<1>8. \A p \in 1 .. (i + 1) - 1 : \E j \in DOMAIN res' : (Aligning!In(p, j))'
  BY <1>5 DEF Aligning!In
<1>9. given' \in Seq(Int)
  BY DEF Sorted
<1> QED
  BY <1>3, <1>4, <1>6, <1>7, <1>8, <1>9 DEF Sorted, Aligning!Near, Aligning!Distance

LEMMA AlignKeeps ==
    ASSUME Sorted, Aligning!Align
    PROVE  Sorted'
<1> DEFINE near == Aligning!NearPlanes
           to == Aligning!FirstOf(near)
           grown == Append(res[to], i)
<1>1. /\ Len(coord) \in Nat /\ DOMAIN coord = 1 .. Len(coord) /\ i \in 1 .. Len(coord)
      /\ DOMAIN res = 1 .. Len(res) /\ DOMAIN available = 1 .. Len(res) /\ Len(res) \in Nat
  BY LenProperties DEF Sorted, Aligning!Align
<1>2. PICK j \in near : \A k \in near : j <= k
  <2>1. near \in SUBSET Nat /\ near # {}
    BY <1>1 DEF Aligning!Align, Aligning!NearPlanes
  <2> HIDE DEF near
  <2> QED
    BY <2>1, LeastNumber
<1>3. to \in near /\ \A k \in near : to <= k
  <2> HIDE DEF near
  <2> QED
    BY <1>2 DEF Aligning!FirstOf, Aligning!Min
<1>4. to \in DOMAIN res /\ to \in DOMAIN available /\ Aligning!Near(coord[i], available[to])
  BY <1>1, <1>3 DEF Aligning!NearPlanes
<1>5. /\ coord' = [coord EXCEPT ![i] = available[to]]
      /\ res' = [res EXCEPT ![to] = grown]
      /\ i' = i + 1 /\ given' = given /\ available' = available
  BY DEF Aligning!Align
<1> HIDE DEF to, near
<1>6. available[to] \in Int
  BY <1>1, <1>4, ElementOfSeq DEF Sorted
<1>7. coord' \in Seq(Int) /\ Len(coord') = Len(coord)
  BY <1>1, <1>5, <1>6, ExceptSeq DEF Sorted
<1>8. /\ grown \in Seq(1 .. Len(coord)) /\ Len(grown) = Len(res[to]) + 1 /\ Len(res[to]) \in Nat
      /\ DOMAIN res[to] = 1 .. Len(res[to]) /\ DOMAIN grown = 1 .. Len(res[to]) + 1
      /\ \A n \in 1 .. Len(res[to]) : grown[n] = res[to][n]
      /\ grown[Len(res[to]) + 1] = i
  <2>1. res[to] \in Seq(1 .. Len(coord))
    BY <1>1, <1>4, ElementOfSeq DEF Sorted
  <2> QED
    BY <1>1, <2>1, AppendProperties, LenProperties
<1>9. res' \in Seq(Seq(1 .. Len(coord))) /\ Len(res') = Len(res)
  BY <1>1, <1>4, <1>5, <1>8, ExceptSeq DEF Sorted
<1>10. \A h \in 1 .. to - 1 : ~ Aligning!Near(coord[i], available[h])
  <2>1. ASSUME NEW h \in 1 .. to - 1 PROVE h \in DOMAIN available /\ h \notin near
    BY <1>1, <1>3, <1>4
  <2> QED
    BY <2>1 DEF near, Aligning!NearPlanes
<1>11. PutInto(to, Len(res[to]) + 1)
  <2> DEFINE at == Len(res[to]) + 1
  <2>1. res'[to] = grown /\ \A k \in DOMAIN res : k # to => res'[k] = res[k]
    BY <1>4, <1>5
  <2>2. DOMAIN res' = DOMAIN res
    BY <1>5
  <2>3. at \in DOMAIN res'[to] /\ res'[to][at] = i
    BY <1>8, <2>1
  <2>4. ASSUME NEW k \in DOMAIN res', NEW n \in DOMAIN res'[k]
        PROVE  \/ k = to /\ n = at
               \/ k \in DOMAIN res /\ n \in DOMAIN res[k] /\ res'[k][n] = res[k][n]
    <3>1. CASE k = to
      <4>1. n \in 1 .. Len(res[to]) + 1
        BY <3>1, <1>8, <2>1
      <4>2. n = at \/ n \in 1 .. Len(res[to])
        BY <4>1, <1>8
      <4> QED
        BY <3>1, <4>2, <1>4, <1>8, <2>1
    <3>2. CASE k # to
      BY <3>2, <2>1, <2>2
    <3> QED
      BY <3>1, <3>2
  <2>5. ASSUME NEW k \in DOMAIN res, NEW n \in DOMAIN res[k]
        PROVE  n \in DOMAIN res'[k] /\ res'[k][n] = res[k][n]
    <3>1. CASE k = to
      <4>1. n \in 1 .. Len(res[to]) /\ n \in 1 .. Len(res[to]) + 1
        BY <3>1, <1>8
      <4> QED
        BY <3>1, <4>1, <1>8, <2>1
    <3>2. CASE k # to
      BY <3>2, <2>1
    <3> QED
      BY <3>1, <3>2
  <2>6. coord'[i] = available'[to] /\ \A p \in DOMAIN coord : p # i => coord'[p] = coord[p]
    BY <1>1, <1>5
  <2>7. given[i] = coord[i]
    BY <1>1 DEF Sorted
  <2> HIDE DEF grown
  <2> QED
    BY <1>4, <1>5, <1>10, <2>2, <2>3, <2>4, <2>5, <2>6, <2>7 DEF PutInto
<1>12. \A h, k \in DOMAIN available' :
          h # k => Aligning!Distance(available'[h], available'[k]) >= CONTOUR_DIFF
  BY <1>5 DEF Sorted
<1>13. available' \in Seq(Int) /\ Len(res') = Len(available')
  BY <1>5, <1>9 DEF Sorted
<1> QED
  BY <1>1, <1>5, <1>7, <1>9, <1>11, <1>12, <1>13, Put

LEMMA NewPlaneKeeps ==
    ASSUME Sorted, Aligning!NewPlane
    PROVE  Sorted'
<1> DEFINE L == Len(res)
           to == L + 1
<1>1. /\ Len(coord) \in Nat /\ DOMAIN coord = 1 .. Len(coord) /\ i \in 1 .. Len(coord)
      /\ DOMAIN res = 1 .. L /\ DOMAIN available = 1 .. L /\ L \in Nat /\ Len(available) = L
  BY LenProperties DEF Sorted, Aligning!NewPlane
<1>2. /\ available' = Append(available, coord[i])
      /\ res' = Append(res, <<i>>)
      /\ i' = i + 1 /\ given' = given /\ coord' = coord
  BY DEF Aligning!NewPlane, Aligning!FirstMembers
<1>3. coord[i] \in Int /\ given[i] = coord[i]
  <2>1. coord[i] \in Int
    BY <1>1, ElementOfSeq DEF Sorted
  <2> QED
    BY <1>1, <2>1 DEF Sorted
<1>4. <<i>> \in Seq(1 .. Len(coord)) /\ DOMAIN <<i>> = {1} /\ <<i>>[1] = i
  BY <1>1
<1> DEFINE one == <<i>>
<1> HIDE DEF L, one
<1>5. /\ res' \in Seq(Seq(1 .. Len(coord))) /\ Len(res') = L + 1 /\ DOMAIN res' = 1 .. L + 1
      /\ \A k \in 1 .. L : res'[k] = res[k]
      /\ res'[L + 1] = one
  <2>1. res \in Seq(Seq(1 .. Len(coord))) /\ one \in Seq(1 .. Len(coord)) /\ res' = Append(res, one)
    BY <1>2, <1>4 DEF Sorted, one
  <2> QED
    BY <1>1, <2>1, AppendProperties, LenProperties DEF L
<1>6. /\ available' \in Seq(Int) /\ Len(available') = L + 1 /\ DOMAIN available' = 1 .. L + 1
      /\ \A k \in 1 .. L : available'[k] = available[k]
      /\ available'[L + 1] = coord[i]
  BY <1>1, <1>2, <1>3, AppendProperties, LenProperties DEF Sorted
<1>7. \A k \in 1 .. L : ~ Aligning!Near(coord[i], available[k])
  BY <1>1 DEF Aligning!NewPlane, Aligning!NearPlanes
<1>8. PutInto(to, 1)
  <2>1. to \in DOMAIN res' /\ 1 \in DOMAIN res'[to] /\ res'[to][1] = i
    BY <1>1, <1>4, <1>5 DEF one
  <2>2. ASSUME NEW k \in DOMAIN res', NEW n \in DOMAIN res'[k]
        PROVE  \/ k = to /\ n = 1
               \/ k \in DOMAIN res /\ n \in DOMAIN res[k] /\ res'[k][n] = res[k][n]
    <3>1. k = L + 1 \/ k \in 1 .. L
      BY <1>1, <1>5
    <3> QED
      BY <3>1, <1>1, <1>4, <1>5 DEF one
  <2>3. ASSUME NEW k \in DOMAIN res
        PROVE  k \in DOMAIN res' /\ res'[k] = res[k]
    <3>1. k \in 1 .. L /\ k \in 1 .. L + 1
      BY <1>1
    <3> QED
      BY <3>1, <1>5
  <2>4. ASSUME NEW k \in DOMAIN available
        PROVE  k \in DOMAIN available' /\ available'[k] = available[k]
    <3>1. k \in 1 .. L /\ k \in 1 .. L + 1
      BY <1>1
    <3> QED
      BY <3>1, <1>6
  <2>5. \A h \in 1 .. to - 1 : ~ Aligning!Near(given[i], available'[h])
    <3>1. \A h \in 1 .. to - 1 : h \in 1 .. L
      BY <1>1
    <3> QED
      BY <3>1, <1>3, <1>6, <1>7
  <2>6. Aligning!Near(given[i], available'[to]) /\ coord'[i] = available'[to]
    <3>1. Aligning!Distance(coord[i], coord[i]) = 0
      BY <1>3, Measuring
    <3>2. 0 < CONTOUR_DIFF
      BY ModellerAssumption
    <3> QED
      BY <3>1, <3>2, <1>2, <1>3, <1>6 DEF Aligning!Near
  <2> QED
    BY <1>2, <2>1, <2>2, <2>3, <2>4, <2>5, <2>6 DEF PutInto
<1>9. ASSUME NEW h \in DOMAIN available', NEW k \in DOMAIN available', h # k
      PROVE  Aligning!Distance(available'[h], available'[k]) >= CONTOUR_DIFF
  <2>1. /\ h = L + 1 \/ (h \in 1 .. L /\ available'[h] = available[h])
        /\ k = L + 1 \/ (k \in 1 .. L /\ available'[k] = available[k])
    <3>1. (h = L + 1 \/ h \in 1 .. L) /\ (k = L + 1 \/ k \in 1 .. L)
      BY <1>1, <1>6
    <3> QED
      BY <3>1, <1>6
  <2>2. ASSUME NEW m \in 1 .. L
        PROVE  /\ Aligning!Distance(coord[i], available[m]) >= CONTOUR_DIFF
               /\ Aligning!Distance(available[m], coord[i]) >= CONTOUR_DIFF
    <3>1. available[m] \in Int /\ CONTOUR_DIFF \in Nat
      BY <1>1, ElementOfSeq, ModellerAssumption DEF Sorted
    <3>2. Aligning!Distance(coord[i], available[m]) \in Nat /\ ~ Aligning!Near(coord[i], available[m])
      BY <1>3, <1>7, <3>1, Measuring
    <3>3. Aligning!Distance(available[m], coord[i]) = Aligning!Distance(coord[i], available[m])
      BY <1>3, <3>1, Measuring
    <3> QED
      BY <3>1, <3>2, <3>3 DEF Aligning!Near
  <2> QED
    BY <1>1, <1>6, <1>9, <2>1, <2>2 DEF Sorted
<1>10. coord' \in Seq(Int) /\ Len(coord') = Len(coord)
  BY <1>2 DEF Sorted
<1> QED
  BY <1>1, <1>2, <1>5, <1>6, <1>8, <1>9, <1>10, Put

\* What the loop promises follows.
LEMMA SortedTypes ==
    ASSUME Sorted
    PROVE  Aligning!TypeOK
BY DEF Sorted, Aligning!TypeOK

LEMMA SortedOnce ==
    ASSUME Sorted
    PROVE  Aligning!EachOnce
<1>1. \A j, k \in DOMAIN res : \A n \in DOMAIN res[j], m \in DOMAIN res[k] :
          res[j][n] = res[k][m] => j = k /\ n = m
  BY DEF Sorted
<1>2. \A p \in 1 .. i - 1 : \E j \in DOMAIN res : Aligning!In(p, j)
  BY DEF Sorted
<1>3. \A j \in DOMAIN res : \A n \in DOMAIN res[j] : coord[res[j][n]] = available[j]
  BY DEF Sorted
<1> QED
  BY <1>1, <1>2, <1>3 DEF Aligning!EachOnce

LEMMA SortedApart ==
    ASSUME Sorted
    PROVE  /\ Aligning!PlanesApart
           /\ \A p \in DOMAIN coord : coord[p] \in Int /\ given[p] \in Int
<1>1. /\ Len(coord) \in Nat /\ DOMAIN coord = 1 .. Len(coord) /\ DOMAIN given = 1 .. Len(coord)
      /\ DOMAIN available = DOMAIN res /\ i \in Nat /\ CONTOUR_DIFF \in Nat \ {0}
  BY LenProperties, ModellerAssumption DEF Sorted
<1>2. ASSUME NEW p \in DOMAIN coord
      PROVE  /\ Aligning!Distance(coord[p], given[p]) < CONTOUR_DIFF
             /\ coord[p] \in Int /\ given[p] \in Int
  <2>1. coord[p] \in Int /\ given[p] \in Int
    BY <1>1, ElementOfSeq DEF Sorted
  <2>2. CASE p \in i .. Len(coord)
    <3>1. coord[p] = given[p]
      BY <2>2 DEF Sorted
    <3> QED
      BY <1>1, <2>1, <3>1, Measuring
  <2>3. CASE p \in 1 .. i - 1
    <3>1. PICK j \in DOMAIN res : \E n \in DOMAIN res[j] : res[j][n] = p
      BY <2>3 DEF Sorted, Aligning!In
    <3>2. coord[p] = available[j] /\ Aligning!Near(given[p], available[j])
      <4>1. PICK n \in DOMAIN res[j] : res[j][n] = p
        BY <3>1
      <4>2. coord[res[j][n]] = available[j] /\ Aligning!Near(given[res[j][n]], available[j])
        BY DEF Sorted
      <4> QED
        BY <4>1, <4>2
    <3>3. Aligning!Distance(given[p], coord[p]) < CONTOUR_DIFF
      BY <3>2 DEF Aligning!Near
    <3> QED
      BY <2>1, <3>3, Measuring
  <2> QED
    BY <1>1, <2>1, <2>2, <2>3
<1> QED
  BY <1>2 DEF Sorted, Aligning!PlanesApart

LEMMA SortedLevel ==
    ASSUME Sorted
    PROVE  Aligning!LevelStaysLevel
<1>1. /\ DOMAIN res = 1 .. Len(res) /\ Len(res) \in Nat
  BY LenProperties DEF Sorted
<1>2. ASSUME NEW p \in 1 .. i - 1, NEW q \in 1 .. i - 1, given[p] = given[q],
             NEW j \in DOMAIN res, NEW k \in DOMAIN res, Aligning!In(p, j), Aligning!In(q, k)
      PROVE  j = k
  <2>1. /\ Aligning!Near(given[p], available[j])
        /\ \A h \in 1 .. j - 1 : ~ Aligning!Near(given[p], available[h])
    BY <1>2 DEF Sorted, Aligning!In
  <2>2. /\ Aligning!Near(given[q], available[k])
        /\ \A h \in 1 .. k - 1 : ~ Aligning!Near(given[q], available[h])
    BY <1>2 DEF Sorted, Aligning!In
  <2>3. j \notin 1 .. k - 1 /\ k \notin 1 .. j - 1
    BY <1>2, <2>1, <2>2
  <2> QED
    BY <1>1, <2>3
<1> QED
  BY <1>2 DEF Aligning!LevelStaysLevel

-----------------------------------------------------------------------------
(* addFaces *)

\* The planes and the edges that addFaces gets.
Ground ==
    /\ PlanesOfAxis \in Seq(Seq(Nat))
    /\ \A k \in DOMAIN PlanesOfAxis : IsInjective(PlanesOfAxis[k])
    /\ edges \in Seq(Forward(Len(points_parents)))

\* Joined is symmetric, and no point is joined to itself.
LEMMA NoLoops ==
    ASSUME Ground
    PROVE  /\ \A p, q : Walking!Joined(p, q) => Walking!Joined(q, p)
           /\ \A p : ~ Walking!Joined(p, p)
<1>1. ASSUME NEW p, NEW q, Walking!Joined(p, q) PROVE Walking!Joined(q, p) /\ p # q
  <2>1. PICK e \in Range(edges) : {p, q} = {e[1], e[2]}
    BY <1>1 DEF Walking!Joined
  <2>2. e[1] # e[2]
    <3>1. e \in Forward(Len(points_parents)) /\ Len(points_parents) = Len(points_parents)
      <4>1. PICK n \in DOMAIN edges : e = edges[n]
        BY DEF Range
      <4>2. n \in 1 .. Len(edges)
        BY LenProperties DEF Ground
      <4> QED
        BY <4>1, <4>2, ElementOfSeq DEF Ground
    <3> QED
      BY <3>1 DEF Forward
  <2>3. {q, p} = {p, q}
    OBVIOUS
  <2> QED
    BY <1>1, <2>1, <2>2, <2>3 DEF Walking!Joined
<1> QED
  BY <1>1

\* A plane lists its points once.
LEMMA PlaneOnce ==
    ASSUME Ground, NEW k \in DOMAIN PlanesOfAxis
    PROVE  /\ DOMAIN PlanesOfAxis[k] = 1 .. Len(PlanesOfAxis[k]) /\ Len(PlanesOfAxis[k]) \in Nat
           /\ OfPlane(k) \subseteq Nat /\ IsFiniteSet(OfPlane(k))
           /\ Cardinality(OfPlane(k)) = Len(PlanesOfAxis[k])
           /\ \A n \in DOMAIN PlanesOfAxis[k] : PlanesOfAxis[k][n] \in OfPlane(k)
           /\ \A p \in OfPlane(k) : \E n \in DOMAIN PlanesOfAxis[k] : PlanesOfAxis[k][n] = p
<1> DEFINE s == PlanesOfAxis[k]
           n == Len(s)
<1>1. s \in Seq(Nat) /\ IsInjective(s)
  <2>1. k \in 1 .. Len(PlanesOfAxis)
    BY LenProperties DEF Ground
  <2> QED
    BY <2>1, ElementOfSeq DEF Ground
<1>2. OfPlane(k) = Range(s)
  BY DEF OfPlane
<1> HIDE DEF s
<1>3. n \in Nat /\ DOMAIN s = 1 .. n /\ s \in [1 .. n -> Nat]
  BY <1>1, LenProperties
<1>4. Range(s) = {s[m] : m \in 1 .. n}
  BY <1>3 DEF Range
<1>5. s \in Bijection(1 .. n, Range(s))
  <2>1. s \in [1 .. n -> Range(s)]
    BY <1>3 DEF Range
  <2>2. \A a, b \in 1 .. n : s[a] = s[b] => a = b
    BY <1>1, <1>3 DEF IsInjective
  <2>3. \A t \in Range(s) : \E a \in 1 .. n : s[a] = t
    BY <1>4
  <2> QED
    BY <2>1, <2>2, <2>3, Fun_IsBij
<1>6. IsFiniteSet(1 .. n) /\ Cardinality(1 .. n) = n
  BY <1>3, FS_Interval
<1>7. IsFiniteSet(Range(s)) /\ Cardinality(Range(s)) = n
  BY <1>5, <1>6, FS_Bijection DEF ExistsBijection
<1> QED
  BY <1>2, <1>3, <1>4, <1>7 DEF s

\* While a plane has points no walk has been to, there is one to begin at.
LEMMA SomeLeft ==
    ASSUME Ground, OnTheWay, Walking!Walking
    PROVE  /\ plane \in DOMAIN PlanesOfAxis
           /\ \E n \in Walking!Unused : \A m \in Walking!Unused : n <= m
<1>1. plane \in DOMAIN PlanesOfAxis
  <2>1. DOMAIN PlanesOfAxis = 1 .. Len(PlanesOfAxis) /\ Len(PlanesOfAxis) \in Nat
    BY LenProperties DEF Ground
  <2> QED
    BY <2>1 DEF OnTheWay, Walking!Walking
<1> DEFINE s == PlanesOfAxis[plane]
           U == Walking!Unused
<1>2. /\ DOMAIN s = 1 .. Len(s) /\ OfPlane(plane) \subseteq Nat
      /\ IsFiniteSet(OfPlane(plane)) /\ Cardinality(OfPlane(plane)) = Len(s)
      /\ \A p \in OfPlane(plane) : \E n \in DOMAIN s : s[n] = p
  BY <1>1, PlaneOnce
<1>3. U = {n \in DOMAIN s : s[n] \notin used}
  BY DEF Walking!Unused
<1>4. used \in SUBSET OfPlane(plane)
  BY DEF OnTheWay
<1>5. Cardinality(used) # Len(s)
  BY DEF Walking!Walking, Walking!Cardinality, Cardinality
<1> HIDE DEF s, U
<1>6. used # OfPlane(plane)
  BY <1>2, <1>5
<1>7. U \in SUBSET Nat /\ U # {}
  <2>1. PICK p \in OfPlane(plane) : p \notin used
    BY <1>4, <1>6
  <2>2. PICK n \in DOMAIN s : s[n] = p
    BY <1>2
  <2> QED
    BY <1>2, <1>3, <2>1, <2>2
<1> QED
  BY <1>1, <1>7, LeastNumber DEF U

\* When it has none left, all of its points are used.
LEMMA AllUsed ==
    ASSUME Ground, OnTheWay, plane \in DOMAIN PlanesOfAxis, ~ Walking!Walking
    PROVE  used = OfPlane(plane)
<1> DEFINE s == PlanesOfAxis[plane]
<1>1. IsFiniteSet(OfPlane(plane)) /\ Cardinality(OfPlane(plane)) = Len(s)
  BY PlaneOnce
<1>2. Cardinality(used) = Len(s)
  <2>1. plane <= Len(PlanesOfAxis)
    BY LenProperties DEF Ground
  <2> QED
    BY <2>1 DEF Walking!Walking, Walking!Cardinality, Cardinality
<1>3. used \in SUBSET OfPlane(plane)
  BY DEF OnTheWay
<1> QED
  BY <1>1, <1>2, <1>3, FS_Subset

\* How a turn begins: with the walk there is, or at a point no walk has been to.
LEMMA TurnBegins ==
    ASSUME Ground, OnTheWay, Walking!Walking
    PROVE  LET walk == Walking!Begun
           IN  /\ IsWalk(plane, walk) /\ Len(walk) >= 1
               /\ \/ walk = current /\ Len(walk) >= 2
                  \/ current = << >> /\ Len(walk) = 1 /\ walk[1] \notin used
<1>1. CASE current # << >>
  <2>1. Walking!Begun = current
    BY <1>1 DEF Walking!Begun
  <2>2. Len(current) \in Nat
    BY LenProperties DEF OnTheWay, IsWalk
  <2> QED
    BY <1>1, <2>1, <2>2 DEF OnTheWay
<1>2. CASE current = << >>
  <2> DEFINE n == Walking!Min(Walking!Unused)
             p == PlanesOfAxis[plane][n]
  <2>1. n \in Walking!Unused
    BY SomeLeft DEF Walking!Min
  <2>2. plane \in DOMAIN PlanesOfAxis
    BY SomeLeft
  <2>3. p \in OfPlane(plane) /\ p \notin used
    BY <2>1, <2>2, PlaneOnce DEF Walking!Unused
  <2>4. Walking!Begun = <<p>>
    BY <1>2 DEF Walking!Begun
  <2> HIDE DEF p
  <2>5. <<p>> \in Seq(OfPlane(plane)) /\ Len(<<p>>) = 1 /\ <<p>>[1] = p /\ DOMAIN <<p>> = {1}
    BY <2>3
  <2>6. IsWalk(plane, <<p>>)
    BY <2>5 DEF IsWalk, IsInjective
  <2> QED
    BY <1>2, <2>3, <2>4, <2>5, <2>6
<1> QED
  BY <1>1, <1>2

\* How it goes on: to a new point, or back to the first one, or not at all.
LEMMA TurnGoesOn ==
    ASSUME Ground, OnTheWay, Walking!Walking
    PROVE  LET walk == Walking!Begun
           IN  IF Walking!Stuck
               THEN /\ Walking!Walked = walk
                    /\ \A q \in OfPlane(plane) : Walking!Joined(Last(walk), q) =>
                          q \in Range(walk) /\ (q = walk[1] => Len(walk) < 4)
               ELSE \E p \in OfPlane(plane) :
                       /\ Walking!Walked = Append(walk, p)
                       /\ Walking!Joined(Last(walk), p)
                       /\ p \in Range(walk) => p = walk[1] /\ Len(walk) >= 4
<1> DEFINE walk == Walking!Begun
           N == Walking!NextPoints(walk)
           s == PlanesOfAxis[plane]
<1>1. /\ plane \in DOMAIN PlanesOfAxis /\ DOMAIN s = 1 .. Len(s)
      /\ \A p \in OfPlane(plane) : \E n \in DOMAIN s : s[n] = p
      /\ \A n \in DOMAIN s : s[n] \in OfPlane(plane)
  BY SomeLeft, PlaneOnce
<1>2. \A n : n \in N <=> /\ n \in DOMAIN s
                         /\ Walking!Joined(Last(walk), s[n])
                         /\ s[n] \in Range(walk) => s[n] = walk[1] /\ Len(walk) >= 4
  BY DEF Walking!NextPoints, Walking!Last, Last, Walking!Range, Range
<1>3. Walking!Stuck <=> N = {}
  BY DEF Walking!Stuck
<1>4. Walking!Walked = IF Walking!Stuck THEN walk ELSE Append(walk, s[Walking!Min(N)])
  BY DEF Walking!Walked
<1>n. Len(walk) \in Nat
  BY TurnBegins, LenProperties DEF IsWalk
<1> HIDE DEF walk, N, s
<1>5. CASE Walking!Stuck
  <2>1. ASSUME NEW q \in OfPlane(plane), Walking!Joined(Last(walk), q)
        PROVE  q \in Range(walk) /\ (q = walk[1] => Len(walk) < 4)
    <3>1. PICK n \in DOMAIN s : s[n] = q
      BY <1>1
    <3>2. n \notin N
      BY <1>3, <1>5
    <3> QED
      BY <1>2, <1>n, <2>1, <3>1, <3>2
  <2> QED
    BY <1>4, <1>5, <2>1 DEF walk
<1>6. CASE ~ Walking!Stuck
  <2>1. N \in SUBSET Nat /\ N # {}
    BY <1>1, <1>2, <1>3, <1>6
  <2>2. \E n \in N : \A m \in N : n <= m
    BY <2>1, LeastNumber
  <2>3. Walking!Min(N) \in N
    BY <2>2 DEF Walking!Min
  <2> QED
    BY <1>1, <1>2, <1>4, <1>6, <2>3 DEF walk
<1> QED
  BY <1>5, <1>6

\* A walk that takes one more point is a walk.
LEMMA WalkGrows ==
    ASSUME NEW k, NEW w, IsWalk(k, w), Len(w) >= 1, NEW p \in OfPlane(k), p \notin Range(w),
           Walking!Joined(Last(w), p)
    PROVE  /\ IsWalk(k, Append(w, p))
           /\ Len(Append(w, p)) = Len(w) + 1
           /\ Range(Append(w, p)) = Range(w) \union {p}
           /\ Last(Append(w, p)) = p /\ Append(w, p)[1] = w[1]
<1> DEFINE v == Append(w, p)
           n == Len(w)
<1>1. n \in Nat /\ DOMAIN w = 1 .. n /\ w \in Seq(OfPlane(k)) /\ n >= 1
  BY LenProperties DEF IsWalk
<1>2. /\ v \in Seq(OfPlane(k)) /\ Len(v) = n + 1
      /\ \A m \in 1 .. n : v[m] = w[m]
      /\ v[n + 1] = p
  BY <1>1, AppendProperties
<1>3. DOMAIN v = 1 .. n + 1
  BY <1>2, LenProperties
<1> HIDE DEF v, n
<1>4. ASSUME NEW m \in 1 .. n + 1 PROVE m = n + 1 \/ m \in 1 .. n
  BY <1>1
<1>5. IsInjective(v)
  <2>1. ASSUME NEW a \in DOMAIN v, NEW b \in DOMAIN v, v[a] = v[b] PROVE a = b
    <3>1. \A m \in 1 .. n : v[m] \in Range(w) /\ v[m] # p
      BY <1>1, <1>2 DEF Range
    <3>2. CASE a \in 1 .. n /\ b \in 1 .. n
      BY <1>1, <1>2, <2>1, <3>2 DEF IsWalk, IsInjective
    <3> QED
      BY <1>2, <1>3, <1>4, <2>1, <3>1, <3>2
  <2> QED
    BY <2>1 DEF IsInjective
<1>6. Range(v) = Range(w) \union {p}
  <2>1. \A m \in 1 .. n : m \in 1 .. n + 1
    BY <1>1
  <2>2. n + 1 \in 1 .. n + 1
    BY <1>1
  <2> QED
    BY <1>1, <1>2, <1>3, <1>4, <2>1, <2>2 DEF Range
<1>7. ASSUME NEW m \in 1 .. (n + 1) - 1 PROVE Walking!Joined(v[m], v[m + 1])
  <2>1. CASE m = n
    <3>1. v[m] = Last(w) /\ v[m + 1] = p
      BY <1>1, <1>2, <2>1 DEF Last, n
    <3> QED
      BY <3>1
  <2>2. CASE m # n
    <3>1. m \in 1 .. n - 1 /\ m \in 1 .. n /\ m + 1 \in 1 .. n
      BY <1>1, <2>2
    <3> QED
      BY <3>1, <1>2 DEF IsWalk, n
  <2> QED
    BY <2>1, <2>2
<1>8. Last(v) = p /\ v[1] = w[1]
  <2>1. 1 \in 1 .. n
    BY <1>1
  <2> QED
    BY <1>2, <2>1 DEF Last
<1> QED
  BY <1>2, <1>5, <1>6, <1>7, <1>8 DEF IsWalk, v, n

\* The walk of a turn, or that walk with a new point.
GoesOn(walk) ==
    \/ walk = Walking!Begun
    \/ \E p \in OfPlane(plane) :
          /\ walk = Append(Walking!Begun, p)
          /\ p \notin Range(Walking!Begun) /\ Walking!Joined(Last(Walking!Begun), p)

LEMMA ThatWalk ==
    ASSUME Ground, OnTheWay, Walking!Walking, NEW walk, GoesOn(walk)
    PROVE  /\ IsWalk(plane, walk) /\ Len(walk) \in Nat /\ Len(walk) >= 1
           /\ Range(walk) \subseteq OfPlane(plane)
           /\ Range(current) \subseteq Range(walk)
           /\ walk = Walking!Begun \/ Len(walk) >= 2
<1>1. IsWalk(plane, Walking!Begun) /\ Len(Walking!Begun) \in Nat /\ Len(Walking!Begun) >= 1
  BY TurnBegins, LenProperties DEF IsWalk
<1>2. IsWalk(plane, walk) /\ Len(walk) \in Nat /\ Len(walk) >= 1
  <2>1. ASSUME NEW p \in OfPlane(plane), walk = Append(Walking!Begun, p),
               p \notin Range(Walking!Begun), Walking!Joined(Last(Walking!Begun), p)
        PROVE  IsWalk(plane, walk) /\ Len(walk) = Len(Walking!Begun) + 1
    BY <1>1, <2>1, WalkGrows
  <2> QED
    BY <1>1, <2>1 DEF GoesOn
<1>3. Range(walk) \subseteq OfPlane(plane)
  BY <1>2, LenProperties, ElementOfSeq DEF IsWalk, Range
<1>4. Range(Walking!Begun) \subseteq Range(walk) /\ (walk = Walking!Begun \/ Len(walk) >= 2)
  <2>1. ASSUME NEW p \in OfPlane(plane), walk = Append(Walking!Begun, p),
               p \notin Range(Walking!Begun), Walking!Joined(Last(Walking!Begun), p)
        PROVE  Range(walk) = Range(Walking!Begun) \union {p} /\ Len(walk) = Len(Walking!Begun) + 1
    BY <1>1, <2>1, WalkGrows
  <2> QED
    BY <1>1, <2>1 DEF GoesOn
<1>5. Range(current) \subseteq Range(Walking!Begun)
  <2>1. current = << >> => Range(current) = {}
    BY DEF Range
  <2> QED
    BY <2>1, TurnBegins
<1> QED
  BY <1>2, <1>3, <1>4, <1>5

\* What a turn does that takes one more point.
LEMMA Extended ==
    ASSUME Ground, OnTheWay, Walking!Extend
    PROVE  /\ Walking!Walking /\ GoesOn(current') /\ Len(current') >= 2
           /\ used' = used \union Range(current')
           /\ plane' = plane /\ polygons' = polygons
<1>1. /\ Walking!Walking /\ ~ Walking!Stuck /\ ~ Walking!BackAtStart
      /\ current' = Walking!Walked /\ used' = used \union Walking!Range(current')
      /\ plane' = plane /\ polygons' = polygons
  BY DEF Walking!Extend, Walking!Marked
<1> DEFINE w == Walking!Begun
<1>2. PICK p \in OfPlane(plane) :
          /\ Walking!Walked = Append(w, p)
          /\ Walking!Joined(Last(w), p)
          /\ p \in Range(w) => p = w[1] /\ Len(w) >= 4
  BY <1>1, TurnGoesOn
<1>3. IsWalk(plane, w) /\ Len(w) >= 1 /\ Len(w) \in Nat /\ w \in Seq(OfPlane(plane))
  BY <1>1, TurnBegins, LenProperties DEF IsWalk
<1>4. /\ Len(Append(w, p)) = Len(w) + 1 /\ Append(w, p)[Len(w) + 1] = p /\ Append(w, p)[1] = w[1]
  BY <1>3, AppendProperties
<1>5. p \notin Range(w)
  <2>1. ASSUME p \in Range(w) PROVE FALSE
    <3>1. p = w[1] /\ Len(w) >= 4
      BY <1>2, <2>1
    <3> QED
      BY <1>1, <1>2, <1>3, <1>4, <3>1 DEF Walking!BackAtStart, Walking!Last
  <2> QED
    BY <2>1
<1>6. GoesOn(current') /\ Len(current') >= 2
  BY <1>1, <1>2, <1>3, <1>4, <1>5 DEF GoesOn
<1>7. Walking!Range(current') = Range(current')
  BY DEF Walking!Range, Range
<1> QED
  BY <1>1, <1>6, <1>7

\* What a turn does that ends the walk: the face is a walk that is closed, or
\* from whose last point no edge leads on.
LEMMA Ended ==
    ASSUME Ground, OnTheWay, Walking!EndWalk
    PROVE  LET face == Walking!Face
           IN  /\ Walking!Walking /\ GoesOn(face)
               /\ plane' = plane /\ current' = << >> /\ used' = used \union Range(face)
               /\ polygons' = IF Len(face) > 2
                              THEN Append(polygons, [plane |-> plane, points |-> face])
                              ELSE polygons
               /\ \/ Len(face) >= 4 /\ Walking!Joined(Last(face), face[1])
                  \/ /\ face = Walking!Begun
                     /\ \A q \in OfPlane(plane) : Walking!Joined(Last(face), q) =>
                           q \in Range(face) /\ (q = face[1] => Len(face) < 4)
<1> DEFINE w == Walking!Begun
           v == Walking!Walked
           face == Walking!Face
<1>1. /\ Walking!Walking
      /\ Walking!Stuck \/ Walking!BackAtStart \/ Walking!Square
      /\ plane' = plane /\ current' = << >> /\ used' = used \union Walking!Range(v)
      /\ polygons' = IF Len(face) > 2
                     THEN Append(polygons, [plane |-> plane, points |-> face])
                     ELSE polygons
  BY DEF Walking!EndWalk, Walking!Marked, Walking!Enough
<1>2. /\ IsWalk(plane, w) /\ Len(w) >= 1 /\ Len(w) \in Nat /\ w \in Seq(OfPlane(plane))
      /\ DOMAIN w = 1 .. Len(w)
  BY <1>1, TurnBegins, LenProperties DEF IsWalk
<1>3. /\ Walking!BackAtStart <=> Len(v) > 2 /\ Last(v) = v[1]
      /\ Walking!Square <=> Len(v) = 4 /\ Walking!Joined(Last(v), v[1])
      /\ face = IF Walking!BackAtStart THEN SubSeq(v, 1, Len(v) - 1) ELSE v
      /\ Walking!Range(v) = Range(v)
  BY DEF Walking!BackAtStart, Walking!Square, Walking!Face, Walking!Front, Walking!Last, Last,
         Walking!Range, Range
<1>4. \A x : IsWalk(plane, x) /\ Len(x) > 2 /\ Len(x) \in Nat /\ DOMAIN x = 1 .. Len(x) => Last(x) # x[1]
  BY DEF IsWalk, IsInjective, Last
<1>5. CASE Walking!Stuck
  <2>1. /\ v = w
        /\ \A q \in OfPlane(plane) : Walking!Joined(Last(w), q) =>
              q \in Range(w) /\ (q = w[1] => Len(w) < 4)
    BY <1>1, <1>5, TurnGoesOn
  <2>2. face = w
    BY <1>2, <1>3, <1>4, <2>1
  <2>3. GoesOn(face)
    BY <2>2 DEF GoesOn
  <2> QED
    BY <1>1, <1>3, <2>1, <2>2, <2>3
<1>6. CASE ~ Walking!Stuck
  <2>1. PICK p \in OfPlane(plane) :
            /\ v = Append(w, p)
            /\ Walking!Joined(Last(w), p)
            /\ p \in Range(w) => p = w[1] /\ Len(w) >= 4
    BY <1>1, <1>6, TurnGoesOn
  <2>2. /\ v \in Seq(OfPlane(plane)) /\ Len(v) = Len(w) + 1
        /\ v[Len(w) + 1] = p /\ \A m \in 1 .. Len(w) : v[m] = w[m]
    BY <1>2, <2>1, AppendProperties
  <2>3. Last(v) = p /\ v[1] = w[1] /\ DOMAIN v = 1 .. Len(v)
    BY <1>2, <2>2, LenProperties DEF Last
  <2>4. Range(v) = Range(w) \union {p}
    <3>1. ToSet(v) = ToSet(w) \union {p}
      BY <1>2, <2>1, Grown
    <3> QED
      BY <3>1 DEF ToSet, Range
  <2>5. CASE p \in Range(w)
    <3>1. p = w[1] /\ Len(w) >= 4
      BY <2>1, <2>5
    <3>2. Walking!BackAtStart
      BY <1>2, <1>3, <2>2, <2>3, <3>1
    <3>3. face = SubSeq(v, 1, Len(w))
      BY <1>2, <1>3, <2>2, <3>2
    <3>4. face = w
      <4>1. \A m \in 1 .. Len(w) : v[m] \in OfPlane(plane)
        BY <1>2, <2>2, ElementOfSeq
      <4>2. /\ face \in Seq(OfPlane(plane)) /\ Len(face) = Len(w)
            /\ \A m \in 1 .. Len(w) : face[m] = v[m]
        <5> HIDE DEF face, w, v
        <5> QED
          BY <1>2, <3>3, <4>1, SubSeqProperties, Z3
      <4> HIDE DEF face, w, v
      <4> QED
        BY <1>2, <2>2, <4>2, SeqEqual
    <3>5. used' = used \union Range(face)
      BY <1>1, <1>3, <2>4, <2>5, <3>4
    <3>6. GoesOn(face)
      BY <3>4 DEF GoesOn
    <3>7. Len(face) >= 4 /\ Walking!Joined(Last(face), face[1])
      BY <2>1, <3>1, <3>4
    <3> QED
      BY <1>1, <3>5, <3>6, <3>7
  <2>6. CASE p \notin Range(w)
    <3>1. IsWalk(plane, v)
      BY <1>2, <2>1, <2>6, WalkGrows
    <3>2. ~ Walking!BackAtStart
      BY <1>2, <1>3, <1>4, <2>2, <2>3, <3>1
    <3>3. face = v /\ Len(face) >= 4 /\ Walking!Joined(Last(face), face[1])
      <4>1. face = v
        BY <1>3, <3>2
      <4>2. Len(v) = 4 /\ Walking!Joined(Last(v), v[1])
        BY <1>1, <1>3, <1>6, <3>2
      <4> HIDE DEF face, v
      <4> QED
        BY <4>1, <4>2
    <3>4. GoesOn(face)
      BY <2>1, <2>6, <3>3 DEF GoesOn
    <3> QED
      BY <1>1, <1>3, <3>3, <3>4
  <2> QED
    BY <2>5, <2>6
<1> QED
  BY <1>5, <1>6

\* While addFaces runs, its planes and edges stay.
LEMMA SamePlanes ==
    ASSUME UNCHANGED <<planes, axis, edges>>
    PROVE  /\ PlanesOfAxis' = PlanesOfAxis
           /\ \A k : OfPlane(k)' = OfPlane(k)
           /\ \A p, q : Walking!Joined(p, q)' <=> Walking!Joined(p, q)
           /\ \A k, w : IsWalk(k, w)' <=> IsWalk(k, w)
           /\ \A k, p : Walking!Neighbours(k, p)' = Walking!Neighbours(k, p)
<1>1. PlanesOfAxis' = PlanesOfAxis
  BY DEF PlanesOfAxis
<1>2. \A k : OfPlane(k)' = OfPlane(k)
  BY <1>1 DEF OfPlane
<1>3. \A p, q : Walking!Joined(p, q)' <=> Walking!Joined(p, q)
  BY DEF Walking!Joined
<1>4. \A k, w : IsWalk(k, w)' <=> IsWalk(k, w)
  BY <1>2, <1>3 DEF IsWalk
<1>5. \A k, p : Walking!Neighbours(k, p)' = Walking!Neighbours(k, p)
  BY <1>1, <1>3 DEF Walking!Neighbours
<1> QED
  BY <1>1, <1>2, <1>3, <1>4, <1>5

\* A polygon is added to those there are.
LEMMA Added ==
    ASSUME Ground, OnTheWay, plane \in DOMAIN PlanesOfAxis, NEW walk, IsWalk(plane, walk),
           polygons' = Append(polygons, [plane |-> plane, points |-> walk])
    PROVE  LET n == Len(polygons)
           IN  /\ n \in Nat /\ DOMAIN polygons = 1 .. n /\ DOMAIN polygons' = 1 .. n + 1
               /\ \A m \in 1 .. n : m \in 1 .. n + 1 /\ polygons'[m] = polygons[m]
               /\ n + 1 \in 1 .. n + 1 /\ polygons'[n + 1].plane = plane
               /\ polygons'[n + 1].points = walk
               /\ \A m \in 1 .. n + 1 : m = n + 1 \/ m \in 1 .. n
               /\ polygons' \in Seq([plane : DOMAIN PlanesOfAxis, points : Seq(Nat)])
<1> DEFINE R == [plane : DOMAIN PlanesOfAxis, points : Seq(Nat)]
           r == [plane |-> plane, points |-> walk]
           n == Len(polygons)
<1>1. walk \in Seq(Nat)
  <2>1. OfPlane(plane) \subseteq Nat /\ walk \in Seq(OfPlane(plane))
    BY PlaneOnce DEF IsWalk
  <2> QED
    BY <2>1, SeqMonotonic
<1>2. r \in R /\ r.plane = plane /\ r.points = walk
  BY <1>1
<1>3. polygons \in Seq(R)
  BY DEF OnTheWay
<1> HIDE DEF r, R
<1>4. n \in Nat /\ DOMAIN polygons = 1 .. n
  BY <1>3, LenProperties
<1>5. /\ polygons' \in Seq(R) /\ Len(polygons') = n + 1
      /\ \A m \in 1 .. n : polygons'[m] = polygons[m]
      /\ polygons'[n + 1] = r
  <2>1. polygons' = Append(polygons, r)
    BY DEF r
  <2> QED
    BY <1>2, <1>3, <2>1, AppendProperties
<1>6. DOMAIN polygons' = 1 .. n + 1
  BY <1>5, LenProperties
<1>7. n + 1 \in 1 .. n + 1 /\ \A m \in 1 .. n + 1 : m = n + 1 \/ m \in 1 .. n
  BY <1>4
<1>8. \A m \in 1 .. n : m \in 1 .. n + 1
  BY <1>4
<1> QED
  BY <1>2, <1>4, <1>5, <1>6, <1>7, <1>8 DEF R

\* The three ways a turn of addFaces changes its variables.
LEMMA Turn ==
    ASSUME Ground, OnTheWay, Walking!Next
    PROVE  /\ plane \in DOMAIN PlanesOfAxis
           /\ \/ Walking!Extend \/ Walking!EndWalk
              \/ /\ Walking!LeavePlane
                 /\ plane' = plane + 1 /\ current' = << >> /\ used' = {}
                 /\ used = OfPlane(plane)
                 /\ polygons' = IF current = << >> THEN polygons
                                ELSE Append(polygons, [plane |-> plane, points |-> current])
<1>1. DOMAIN PlanesOfAxis = 1 .. Len(PlanesOfAxis) /\ Len(PlanesOfAxis) \in Nat
  BY LenProperties DEF Ground
<1>2. CASE Walking!Extend \/ Walking!EndWalk
  BY <1>2, SomeLeft DEF Walking!Extend, Walking!EndWalk
<1>3. CASE Walking!LeavePlane
  <2>1. /\ plane <= Len(PlanesOfAxis) /\ ~ Walking!Walking
        /\ plane' = plane + 1 /\ current' = << >> /\ used' = {}
        /\ polygons' = IF current = << >> THEN polygons
                       ELSE Append(polygons, [plane |-> plane, points |-> current])
    BY <1>3 DEF Walking!LeavePlane, Walking!Empty
  <2>2. plane \in DOMAIN PlanesOfAxis
    BY <1>1, <2>1 DEF OnTheWay
  <2>3. used = OfPlane(plane)
    BY <2>1, <2>2, AllUsed
  <2> QED
    BY <1>3, <2>1, <2>2, <2>3
<1> QED
  BY <1>2, <1>3 DEF Walking!Next

LEMMA OnTheWayKept ==
    ASSUME Ground, OnTheWay, Walking!Next, UNCHANGED <<planes, axis, edges>>
    PROVE  OnTheWay'
<1> DEFINE L == Len(PlanesOfAxis)
           R == [plane : DOMAIN PlanesOfAxis, points : Seq(Nat)]
           Fine(list, last) ==
               /\ list \in Seq(R)
               /\ \A n \in DOMAIN list : list[n].plane <= last /\ IsWalk(list[n].plane, list[n].points)
<1>1. DOMAIN PlanesOfAxis = 1 .. L /\ L \in Nat /\ plane \in 1 .. L /\ plane \in Nat
  <2>1. DOMAIN PlanesOfAxis = 1 .. L /\ L \in Nat
    BY LenProperties DEF Ground
  <2> QED
    BY <2>1, Turn
<1>2. SUFFICES /\ plane' \in 1 .. L + 1
               /\ IsWalk(plane', current')
               /\ current' # << >> => Len(current') >= 2
               /\ Range(current') \subseteq used' /\ used' \subseteq OfPlane(plane')
               /\ Fine(polygons', plane')
  BY SamePlanes DEF OnTheWay
<1>3. Fine(polygons, plane)
  BY DEF OnTheWay
<1>4. ASSUME NEW walk, IsWalk(plane, walk),
             polygons' = Append(polygons, [plane |-> plane, points |-> walk])
      PROVE  Fine(polygons', plane)
  <2>1. \A n \in DOMAIN polygons' : polygons'[n].plane <= plane /\ IsWalk(polygons'[n].plane, polygons'[n].points)
    <3>1. ASSUME NEW n \in DOMAIN polygons'
          PROVE  \/ n \in DOMAIN polygons /\ polygons'[n] = polygons[n]
                 \/ polygons'[n].plane = plane /\ polygons'[n].points = walk
      BY <1>1, <1>4, Added
    <3>2. plane <= plane
      BY <1>1
    <3> QED
      BY <1>3, <1>4, <3>1, <3>2
  <2> QED
    BY <1>1, <1>4, <2>1, Added
<1>5. \A k : IsWalk(k, << >>)
  <2>1. \A S : << >> \in Seq(S)
    BY EmptySeq
  <2>2. DOMAIN << >> = {} /\ Len(<< >>) = 0 /\ 1 .. 0 - 1 = {}
    OBVIOUS
  <2> QED
    BY <2>1, <2>2 DEF IsWalk, IsInjective
<1>6. Range(<< >>) = {}
  BY DEF Range
<1>7. plane \in 1 .. L + 1 /\ plane + 1 \in 1 .. L + 1
  BY <1>1
<1>8. used \subseteq OfPlane(plane)
  BY DEF OnTheWay
<1>9. CASE Walking!Extend
  <2>1. /\ Walking!Walking /\ GoesOn(current') /\ Len(current') >= 2
        /\ used' = used \union Range(current') /\ plane' = plane /\ polygons' = polygons
    BY <1>9, Extended
  <2>2. IsWalk(plane, current') /\ Range(current') \subseteq OfPlane(plane)
    BY <2>1, ThatWalk
  <2> HIDE DEF Fine
  <2> QED
    BY <1>3, <1>7, <1>8, <2>1, <2>2
<1>10. CASE Walking!EndWalk
  <2> DEFINE face == Walking!Face
  <2>1. /\ Walking!Walking /\ GoesOn(face)
        /\ plane' = plane /\ current' = << >> /\ used' = used \union Range(face)
        /\ polygons' = IF Len(face) > 2
                       THEN Append(polygons, [plane |-> plane, points |-> face])
                       ELSE polygons
    BY <1>10, Ended
  <2>2. IsWalk(plane, face) /\ Range(face) \subseteq OfPlane(plane)
    BY <2>1, ThatWalk
  <2>3. Fine(polygons', plane)
    <3> HIDE DEF Fine
    <3> QED
      BY <1>3, <1>4, <2>1, <2>2
  <2> HIDE DEF Fine
  <2> QED
    BY <1>5, <1>6, <1>7, <1>8, <2>1, <2>2, <2>3
<1>11. CASE /\ plane' = plane + 1 /\ current' = << >> /\ used' = {}
            /\ polygons' = IF current = << >> THEN polygons
                           ELSE Append(polygons, [plane |-> plane, points |-> current])
  <2>1. IsWalk(plane, current)
    BY DEF OnTheWay
  <2>2. Fine(polygons', plane)
    <3> HIDE DEF Fine
    <3> QED
      BY <1>3, <1>4, <1>11, <2>1
  <2>3. Fine(polygons', plane + 1)
    <3>1. ASSUME NEW n \in DOMAIN polygons' PROVE polygons'[n].plane \in 1 .. L
      <4>1. polygons' \in Seq(R)
        BY <2>2
      <4>2. polygons'[n] \in R
        BY <4>1, LenProperties, ElementOfSeq
      <4> QED
        BY <1>1, <4>2
    <3>2. \A m \in 1 .. L : m <= plane => m <= plane + 1
      BY <1>1
    <3> QED
      BY <2>2, <3>1, <3>2
  <2> HIDE DEF Fine
  <2> QED
    BY <1>5, <1>6, <1>7, <1>11, <2>3
<1> QED
  BY <1>9, <1>10, <1>11, Turn

LEMMA NeighboursIn ==
    ASSUME NEW k \in DOMAIN PlanesOfAxis, NEW p
    PROVE  Walking!Neighbours(k, p) = {q \in OfPlane(k) : Walking!Joined(p, q)}
BY DEF Walking!Neighbours, OfPlane, Walking!Range, Range

\* No polygon is taken back.
LEMMA StaysInPolygon ==
    ASSUME Ground, OnTheWay, Walking!Next
    PROVE  \A k, p : InPolygon(k, p) => InPolygon(k, p)'
<1>1. ASSUME NEW walk, IsWalk(plane, walk),
             polygons' = Append(polygons, [plane |-> plane, points |-> walk])
      PROVE  \A n \in DOMAIN polygons : n \in DOMAIN polygons' /\ polygons'[n] = polygons[n]
  BY <1>1, Turn, Added
<1>2. \A n \in DOMAIN polygons : n \in DOMAIN polygons' /\ polygons'[n] = polygons[n]
  <2>1. CASE Walking!Extend
    BY <2>1, Extended
  <2>2. CASE Walking!EndWalk
    BY <2>2, <1>1, Ended, ThatWalk
  <2>3. CASE polygons' = IF current = << >> THEN polygons
                         ELSE Append(polygons, [plane |-> plane, points |-> current])
    BY <2>3, <1>1 DEF OnTheWay
  <2> QED
    BY <2>1, <2>2, <2>3, Turn
<1> QED
  BY <1>2 DEF InPolygon

\* A walk of one or two points from which no edge leads on is a dead end.
LEMMA TooShort ==
    ASSUME Ground, NEW k \in DOMAIN PlanesOfAxis, NEW w, IsWalk(k, w), Len(w) \in {1, 2},
           \A q \in OfPlane(k) : Walking!Joined(Last(w), q) => q \in Range(w),
           NEW p \in Range(w)
    PROVE  DeadEnd(k, p)
<1> DEFINE N(x) == Walking!Neighbours(k, x)
<1>1. \A x : N(x) = {q \in OfPlane(k) : Walking!Joined(x, q)}
  BY NeighboursIn
<1>2. DOMAIN w = 1 .. Len(w) /\ \A m \in 1 .. Len(w) : w[m] \in OfPlane(k)
  BY LenProperties, ElementOfSeq DEF IsWalk
<1> HIDE DEF N
<1>3. CASE Len(w) = 1
  <2>1. p = w[1] /\ Last(w) = w[1] /\ Range(w) = {w[1]}
    BY <1>2, <1>3 DEF Range, Last
  <2>2. N(p) = {}
    BY <1>1, <2>1, NoLoops
  <2>3. Cardinality(N(p)) <= 1
    BY <2>2, FS_EmptySet
  <2> QED
    BY <2>3 DEF DeadEnd, N
<1>4. CASE Len(w) = 2
  <2>1. /\ Last(w) = w[2] /\ Range(w) = {w[1], w[2]}
        /\ w[1] \in OfPlane(k) /\ w[2] \in OfPlane(k)
    BY <1>2, <1>4 DEF Range, Last
  <2>2. Walking!Joined(w[1], w[2])
    BY <1>4 DEF IsWalk
  <2>3. N(w[2]) = {w[1]}
    BY <1>1, <2>1, <2>2, NoLoops
  <2>4. CASE p = w[2]
    <3>1. Cardinality(N(p)) <= 1
      BY <2>3, <2>4, FS_Singleton
    <3> QED
      BY <3>1 DEF DeadEnd, N
  <2>5. CASE p = w[1]
    <3>1. w[2] \in N(p)
      BY <1>1, <2>1, <2>2, <2>5
    <3> QED
      BY <2>3, <2>5, <3>1 DEF DeadEnd, N
  <2> QED
    BY <2>1, <2>4, <2>5
<1> QED
  BY <1>3, <1>4

LEMMA LeftOutKept ==
    ASSUME Ground, OnTheWay, LeftOut, Walking!Next, UNCHANGED <<planes, axis, edges>>
    PROVE  LeftOut'
<1>1. plane \in DOMAIN PlanesOfAxis /\ plane \in Nat /\ DOMAIN PlanesOfAxis \subseteq Nat
  <2>1. DOMAIN PlanesOfAxis = 1 .. Len(PlanesOfAxis) /\ Len(PlanesOfAxis) \in Nat
    BY LenProperties DEF Ground
  <2> QED
    BY <2>1, Turn
<1>2. \A k, p : DeadEnd(k, p)' <=> DeadEnd(k, p)
  BY SamePlanes DEF DeadEnd
<1>3. SUFFICES ASSUME NEW k \in DOMAIN PlanesOfAxis, NEW p \in OfPlane(k), Done(k, p)'
               PROVE  InPolygon(k, p)' \/ DeadEnd(k, p)
  BY <1>2, SamePlanes DEF LeftOut
<1>4. ASSUME Done(k, p) PROVE InPolygon(k, p)' \/ DeadEnd(k, p)
  BY <1>4, StaysInPolygon DEF LeftOut
<1>5. ASSUME NEW walk, IsWalk(plane, walk), k = plane, p \in Range(walk),
             polygons' = Append(polygons, [plane |-> plane, points |-> walk])
      PROVE  InPolygon(k, p)'
  <2>1. /\ Len(polygons) + 1 \in DOMAIN polygons'
        /\ polygons'[Len(polygons) + 1].plane = plane /\ polygons'[Len(polygons) + 1].points = walk
    BY <1>1, <1>5, Added
  <2> QED
    BY <1>5, <2>1 DEF InPolygon
<1>6. CASE Walking!Extend
  <2>1. /\ used' = used \union Range(current') /\ plane' = plane
        /\ Range(current) \subseteq Range(current')
    BY <1>6, Extended, ThatWalk
  <2>2. Done(k, p)
    BY <1>3, <2>1 DEF Done
  <2> QED
    BY <1>4, <2>2
<1>7. CASE Walking!EndWalk
  <2> DEFINE face == Walking!Face
  <2>1. /\ Walking!Walking /\ GoesOn(face)
        /\ plane' = plane /\ current' = << >> /\ used' = used \union Range(face)
        /\ polygons' = IF Len(face) > 2
                       THEN Append(polygons, [plane |-> plane, points |-> face])
                       ELSE polygons
        /\ \/ Len(face) >= 4
           \/ \A q \in OfPlane(plane) : Walking!Joined(Last(face), q) => q \in Range(face)
    BY <1>7, Ended
  <2>2. /\ IsWalk(plane, face) /\ Len(face) \in Nat /\ Len(face) >= 1
        /\ Range(current) \subseteq Range(face)
    BY <2>1, ThatWalk
  <2> HIDE DEF face
  <2>3. CASE k = plane /\ p \in Range(face) /\ Len(face) > 2
    BY <1>5, <2>1, <2>2, <2>3
  <2>4. CASE k = plane /\ p \in Range(face) /\ ~ (Len(face) > 2)
    <3> DEFINE n == Len(face)
    <3>n. n \in Nat /\ n >= 1 /\ ~ (n > 2)
      BY <2>2, <2>4
    <3> HIDE DEF n
    <3>1. n \in {1, 2} /\ ~ (n >= 4)
      BY <3>n
    <3> USE DEF n
    <3> QED
      BY <1>1, <2>1, <2>2, <2>4, <3>1, TooShort
  <2>5. CASE ~ (k = plane /\ p \in Range(face))
    <3>1. Done(k, p)
      BY <1>3, <2>1, <2>2, <2>5 DEF Done
    <3> QED
      BY <1>4, <3>1
  <2> QED
    BY <2>3, <2>4, <2>5
<1>8. CASE /\ plane' = plane + 1 /\ used' = {} /\ used = OfPlane(plane)
           /\ polygons' = IF current = << >> THEN polygons
                          ELSE Append(polygons, [plane |-> plane, points |-> current])
  <2>1. k < plane \/ k = plane
    <3>1. k < plane + 1 /\ k \in Nat
      BY <1>1, <1>3, <1>8 DEF Done
    <3> QED
      BY <1>1, <3>1
  <2>2. CASE k = plane /\ p \in Range(current)
    <3>1. current # << >>
      BY <2>2 DEF Range
    <3>2. IsWalk(plane, current)
      BY DEF OnTheWay
    <3> QED
      BY <1>5, <1>8, <2>2, <3>1, <3>2
  <2>3. CASE ~ (k = plane /\ p \in Range(current))
    <3>1. Done(k, p)
      BY <1>8, <2>1, <2>3 DEF Done
    <3> QED
      BY <1>4, <3>1
  <2> QED
    BY <2>2, <2>3
<1> QED
  BY <1>6, <1>7, <1>8, Turn

\* In a plane of rings a point has a neighbour that is not a given one.
LEMMA SomeOther ==
    ASSUME Ground, NEW k \in DOMAIN PlanesOfAxis, OfRings(k), NEW p \in OfPlane(k), NEW a
    PROVE  \E b \in OfPlane(k) : b # a /\ Walking!Joined(p, b)
<1> DEFINE N == Walking!Neighbours(k, p)
<1>1. N = {q \in OfPlane(k) : Walking!Joined(p, q)} /\ Cardinality(N) = 2
  BY NeighboursIn DEF OfRings
<1> HIDE DEF N
<1>2. SUFFICES ASSUME \A b \in N : b = a PROVE FALSE
  BY <1>1
<1>3. N \in SUBSET {a}
  BY <1>2
<1>4. Cardinality({a}) = 1 /\ IsFiniteSet({a})
  BY FS_Singleton
<1>5. Cardinality(N) <= 1
  BY <1>3, <1>4, FS_Subset
<1> QED
  BY <1>1, <1>5

\* And two of its neighbours are all it has.
LEMMA NoThird ==
    ASSUME Ground, NEW k \in DOMAIN PlanesOfAxis, OfRings(k), NEW p \in OfPlane(k),
           NEW a \in OfPlane(k), NEW b \in OfPlane(k), NEW q \in OfPlane(k), a # b,
           Walking!Joined(p, a), Walking!Joined(p, b), Walking!Joined(p, q)
    PROVE  q \in {a, b}
<1> DEFINE N == Walking!Neighbours(k, p)
<1>1. N = {x \in OfPlane(k) : Walking!Joined(p, x)} /\ Cardinality(N) = 2
  BY NeighboursIn DEF OfRings
<1>2. IsFiniteSet(N)
  <2>1. IsFiniteSet(OfPlane(k)) /\ N \in SUBSET OfPlane(k)
    BY <1>1, PlaneOnce
  <2> QED
    BY <2>1, FS_Subset
<1> HIDE DEF N
<1>3. {a, b} \in SUBSET N
  BY <1>1
<1>4. Cardinality({a, b}) = 2
  <2>1. IsFiniteSet({a}) /\ Cardinality({a}) = 1
    BY FS_Singleton
  <2>2. Cardinality({a} \union {b}) = Cardinality({a}) + 1
    BY <2>1, FS_AddElement
  <2>3. {a, b} = {a} \union {b}
    OBVIOUS
  <2> QED
    BY <2>1, <2>2, <2>3
<1>5. N = {a, b}
  BY <1>1, <1>2, <1>3, <1>4, FS_Subset
<1> QED
  BY <1>1, <1>5

\* The neighbours of a point inside a walk are the points before and after it.
LEMMA InsideWalk ==
    ASSUME Ground, NEW k \in DOMAIN PlanesOfAxis, OfRings(k), NEW w, IsWalk(k, w),
           NEW m \in 2 .. Len(w) - 1, NEW q \in OfPlane(k), Walking!Joined(w[m], q)
    PROVE  q \in {w[m - 1], w[m + 1]}
<1>1. /\ Len(w) \in Nat /\ DOMAIN w = 1 .. Len(w) /\ \A n \in 1 .. Len(w) : w[n] \in OfPlane(k)
  BY LenProperties, ElementOfSeq DEF IsWalk
<1>2. /\ m \in 1 .. Len(w) /\ m - 1 \in 1 .. Len(w) - 1 /\ m + 1 \in 1 .. Len(w)
      /\ m \in 1 .. Len(w) - 1 /\ (m - 1) + 1 = m /\ m - 1 \in 1 .. Len(w) /\ m - 1 # m + 1
  BY <1>1
<1>3. Walking!Joined(w[m - 1], w[m]) /\ Walking!Joined(w[m], w[m + 1])
  BY <1>2 DEF IsWalk
<1>4. Walking!Joined(w[m], w[m - 1])
  BY <1>3, NoLoops
<1>5. w[m - 1] # w[m + 1]
  BY <1>1, <1>2 DEF IsWalk, IsInjective
<1> QED
  BY <1>1, <1>2, <1>3, <1>4, <1>5, NoThird

\* An edge does not lead out of a ring.
LEMMA RingClosed ==
    ASSUME Ground, NEW k \in DOMAIN PlanesOfAxis, OfRings(k), NEW w, IsWalk(k, w), IsRing(w),
           NEW p \in Range(w), NEW q \in OfPlane(k), Walking!Joined(p, q)
    PROVE  q \in Range(w)
<1> DEFINE n == Len(w)
<1>1. /\ n \in Nat /\ n >= 3 /\ DOMAIN w = 1 .. n /\ \A m \in 1 .. n : w[m] \in OfPlane(k)
      /\ Range(w) = {w[m] : m \in 1 .. n}
  <2>1. w \in Seq(OfPlane(k)) /\ Len(w) >= 3
    BY DEF IsWalk, IsRing
  <2> QED
    BY <2>1, LenProperties, ElementOfSeq DEF Range
<1>2. PICK m \in 1 .. n : p = w[m]
  BY <1>1
<1>3. Walking!Joined(w[n], w[1]) /\ Walking!Joined(w[1], w[n])
  BY NoLoops DEF IsRing, Last
<1>4. \A a \in 1 .. n - 1 : Walking!Joined(w[a], w[a + 1]) /\ Walking!Joined(w[a + 1], w[a])
  BY NoLoops DEF IsWalk
<1>5. \A a, b \in 1 .. n : w[a] = w[b] => a = b
  BY <1>1 DEF IsWalk, IsInjective
<1> HIDE DEF n
<1>6. CASE m = 1
  <2>1. 1 \in 1 .. n - 1 /\ 1 + 1 = 2 /\ 2 \in 1 .. n /\ n \in 1 .. n /\ 2 # n
    BY <1>1
  <2>2. w[2] # w[n] /\ Walking!Joined(p, w[2]) /\ Walking!Joined(p, w[n])
    BY <1>2, <1>3, <1>4, <1>5, <1>6, <2>1
  <2>3. q \in {w[2], w[n]}
    BY <1>1, <1>2, <2>1, <2>2, NoThird
  <2> QED
    BY <1>1, <2>1, <2>3
<1>7. CASE m = n
  <2>1. n - 1 \in 1 .. n - 1 /\ (n - 1) + 1 = n /\ n - 1 \in 1 .. n /\ 1 \in 1 .. n /\ n - 1 # 1
    BY <1>1
  <2>2. w[n - 1] # w[1] /\ Walking!Joined(p, w[n - 1]) /\ Walking!Joined(p, w[1])
    BY <1>2, <1>3, <1>4, <1>5, <1>7, <2>1
  <2>3. q \in {w[n - 1], w[1]}
    BY <1>1, <1>2, <2>1, <2>2, NoThird
  <2> QED
    BY <1>1, <2>1, <2>3
<1>8. CASE m # 1 /\ m # n
  <2>1. m \in 2 .. n - 1 /\ m - 1 \in 1 .. n /\ m + 1 \in 1 .. n
    BY <1>1, <1>8
  <2>2. q \in {w[m - 1], w[m + 1]}
    BY <1>2, <2>1, InsideWalk DEF n
  <2> QED
    BY <1>1, <2>1, <2>2
<1> QED
  BY <1>6, <1>7, <1>8

\* An edge that leads from the end of a walk back into it, and not to the point
\* before, leads to its start.
LEMMA LeadsBack ==
    ASSUME Ground, NEW k \in DOMAIN PlanesOfAxis, OfRings(k), NEW w, IsWalk(k, w), Len(w) >= 2,
           \A q \in OfPlane(k) : Walking!Joined(Last(w), q) => q \in Range(w)
    PROVE  IsRing(w)
<1> DEFINE n == Len(w)
<1>1. /\ n \in Nat /\ n >= 2 /\ DOMAIN w = 1 .. n /\ \A m \in 1 .. n : w[m] \in OfPlane(k)
      /\ Range(w) = {w[m] : m \in 1 .. n} /\ Last(w) = w[n]
  BY LenProperties, ElementOfSeq DEF IsWalk, Range, Last
<1>2. \A a, b \in 1 .. n : w[a] = w[b] => a = b
  BY <1>1 DEF IsWalk, IsInjective
<1>3. n \in 1 .. n
  BY <1>1
<1> HIDE DEF n
<1>4. PICK q \in OfPlane(k) : q # w[n - 1] /\ Walking!Joined(w[n], q)
  BY <1>1, <1>3, SomeOther
<1>5. PICK m \in 1 .. n : q = w[m]
  BY <1>1, <1>4
<1>6. m # n /\ m # n - 1
  BY <1>4, <1>5, NoLoops
<1>7. m = 1
  <2>1. SUFFICES ASSUME m # 1 PROVE FALSE
    OBVIOUS
  <2>2. m \in 2 .. n - 1 /\ m - 1 \in 1 .. n /\ m + 1 \in 1 .. n /\ n # m - 1 /\ n # m + 1
    BY <1>1, <1>6, <2>1
  <2>3. Walking!Joined(w[m], w[n])
    BY <1>4, <1>5, NoLoops
  <2>4. w[n] \in {w[m - 1], w[m + 1]}
    BY <1>1, <1>3, <2>2, <2>3, InsideWalk DEF n
  <2> QED
    BY <1>2, <1>3, <2>2, <2>4
<1>8. n >= 3
  BY <1>1, <1>6, <1>7
<1> QED
  BY <1>1, <1>4, <1>5, <1>7, <1>8 DEF IsRing, n

\* In a plane of rings, a walk does not come to a point of a polygon.
LEMMA Fresh ==
    ASSUME Ground, OnTheWay, Walking!Walking, OfRings(plane), AllRound(plane),
           NEW walk, GoesOn(walk),
           NEW n \in DOMAIN polygons, polygons[n].plane = plane
    PROVE  Range(walk) \intersect Range(polygons[n].points) = {}
<1> DEFINE w == Walking!Begun
           ring == polygons[n].points
<1>1. plane \in DOMAIN PlanesOfAxis /\ plane \in Nat
  <2>1. plane \in DOMAIN PlanesOfAxis /\ DOMAIN PlanesOfAxis \subseteq Nat
    BY SomeLeft, LenProperties DEF Ground
  <2> QED
    BY <2>1
<1>2. IsWalk(plane, ring) /\ IsRing(ring) /\ \A p \in Range(ring) : Done(plane, p)
  BY DEF OnTheWay, AllRound
<1>3. \A p \in Range(ring) : p \in used /\ p \notin Range(current)
  BY <1>1, <1>2 DEF Done
<1>4. /\ IsWalk(plane, w) /\ Len(w) >= 1 /\ Len(w) \in Nat /\ DOMAIN w = 1 .. Len(w)
      /\ \/ w = current
         \/ Len(w) = 1 /\ w[1] \notin used
  BY TurnBegins, LenProperties DEF IsWalk
<1>5. Range(w) \intersect Range(ring) = {}
  <2>1. CASE w = current
    BY <1>3, <2>1
  <2>2. CASE Len(w) = 1 /\ w[1] \notin used
    <3>1. Range(w) = {w[1]}
      BY <1>4, <2>2 DEF Range
    <3> QED
      BY <1>3, <2>2, <3>1
  <2> QED
    BY <1>4, <2>1, <2>2
<1>6. Last(w) \in Range(w) /\ Last(w) \in OfPlane(plane)
  <2>1. Len(w) \in DOMAIN w /\ w \in Seq(OfPlane(plane))
    BY <1>4 DEF IsWalk
  <2> QED
    BY <1>4, <2>1, ElementOfSeq DEF Last, Range
<1> HIDE DEF w, ring
<1>7. ASSUME NEW p \in OfPlane(plane), walk = Append(w, p), Walking!Joined(Last(w), p)
      PROVE  Range(walk) \intersect Range(ring) = {}
  <2>1. p \notin Range(ring)
    <3>1. SUFFICES ASSUME p \in Range(ring) PROVE FALSE
      OBVIOUS
    <3>2. Walking!Joined(p, Last(w))
      BY <1>7, NoLoops
    <3>3. Last(w) \in Range(ring)
      BY <1>1, <1>2, <1>6, <3>1, <3>2, RingClosed
    <3> QED
      BY <1>5, <1>6, <3>3
  <2>2. Range(walk) = Range(w) \union {p}
    <3>1. w \in Seq(OfPlane(plane))
      BY <1>4 DEF IsWalk
    <3>2. ToSet(walk) = ToSet(w) \union {p}
      BY <1>7, <3>1, Grown
    <3> QED
      BY <3>2 DEF ToSet, Range
  <2> QED
    BY <1>5, <2>1, <2>2
<1> QED
  BY <1>5, <1>7 DEF GoesOn, w, ring

\* A ring that is added, and has no point of another polygon of its plane.
LEMMA RingAdded ==
    ASSUME Ground, OnTheWay, plane \in DOMAIN PlanesOfAxis, AllRound(plane),
           UNCHANGED <<planes, axis, edges>>,
           NEW walk, IsWalk(plane, walk), IsRing(walk), Range(current) \subseteq Range(walk),
           \A n \in DOMAIN polygons : polygons[n].plane = plane =>
               Range(walk) \intersect Range(polygons[n].points) = {},
           polygons' = Append(polygons, [plane |-> plane, points |-> walk]),
           NEW k, k = plane,
           \A p \in OfPlane(k) : Done(k, p)' <=> p \in used \/ p \in Range(walk)
    PROVE  AllRound(k)'
<1> DEFINE n == Len(polygons)
<1>1. /\ DOMAIN polygons = 1 .. n /\ DOMAIN polygons' = 1 .. n + 1
      /\ \A m \in 1 .. n : m \in 1 .. n + 1 /\ polygons'[m] = polygons[m]
      /\ n + 1 \in 1 .. n + 1 /\ polygons'[n + 1].plane = plane
      /\ polygons'[n + 1].points = walk
      /\ \A m \in 1 .. n + 1 : m = n + 1 \/ m \in 1 .. n
  BY Added
<1> HIDE DEF n
<1>2. \A w : IsRing(w)' <=> IsRing(w)
  BY SamePlanes DEF IsRing
<1>3. Range(walk) \subseteq OfPlane(plane)
  BY LenProperties, ElementOfSeq DEF IsWalk, Range
<1>4. ASSUME NEW p, p \in Range(walk) PROVE Done(k, p)'
  BY <1>3, <1>4
<1>5. ASSUME NEW m \in 1 .. n, polygons[m].plane = plane
      PROVE  /\ IsRing(polygons[m].points)
             /\ \A p \in Range(polygons[m].points) : Done(k, p)'
             /\ Range(walk) \intersect Range(polygons[m].points) = {}
             /\ \A h \in 1 .. n : polygons[h].plane = plane /\ h # m =>
                   Range(polygons[h].points) \intersect Range(polygons[m].points) = {}
  <2>1. ASSUME NEW p \in Range(polygons[m].points) PROVE Done(k, p)'
    <3>1. Done(plane, p) /\ ~ (plane < plane)
      <4>1. plane \in Nat
        BY LenProperties DEF Ground
      <4> QED
        BY <1>1, <1>5, <4>1 DEF AllRound
    <3>2. p \in used /\ used \subseteq OfPlane(plane)
      BY <3>1 DEF Done, OnTheWay
    <3> QED
      BY <3>2
  <2> QED
    BY <1>1, <1>5, <2>1 DEF AllRound
<1>6. ASSUME NEW p \in OfPlane(k), Done(k, p)' PROVE InPolygon(k, p)'
  <2>1. CASE p \in Range(walk)
    BY <1>1, <2>1 DEF InPolygon
  <2>2. CASE p \notin Range(walk)
    <3>1. Done(k, p)
      BY <1>6, <2>2 DEF Done
    <3>2. InPolygon(k, p)
      BY <1>6, <3>1 DEF AllRound
    <3> QED
      BY <1>1, <3>2 DEF InPolygon
  <2> QED
    BY <2>1, <2>2
<1>7. ASSUME NEW m \in DOMAIN polygons', polygons'[m].plane = k
      PROVE  /\ IsRing(polygons'[m].points)
             /\ \A p \in Range(polygons'[m].points) : Done(k, p)'
             /\ \A h \in DOMAIN polygons' : polygons'[h].plane = k /\ h # m =>
                   Range(polygons'[h].points) \intersect Range(polygons'[m].points) = {}
  <2>1. CASE m = n + 1
    <3>1. ASSUME NEW h \in DOMAIN polygons', polygons'[h].plane = k, h # m
          PROVE  Range(polygons'[h].points) \intersect Range(polygons'[m].points) = {}
      <4>1. h \in 1 .. n /\ polygons'[h] = polygons[h] /\ polygons[h].plane = plane
        BY <1>1, <2>1, <3>1
      <4>2. Range(walk) \intersect Range(polygons[h].points) = {}
        BY <1>5, <4>1
      <4> QED
        BY <1>1, <2>1, <4>1, <4>2
    <3> QED
      BY <1>1, <1>4, <2>1, <3>1
  <2>2. CASE m \in 1 .. n
    <3>1. polygons'[m] = polygons[m] /\ polygons[m].plane = plane
      BY <1>1, <1>7, <2>2
    <3>2. ASSUME NEW h \in DOMAIN polygons', polygons'[h].plane = k, h # m
          PROVE  Range(polygons'[h].points) \intersect Range(polygons'[m].points) = {}
      <4>1. CASE h = n + 1
        BY <1>1, <1>5, <2>2, <3>1, <4>1
      <4>2. CASE h \in 1 .. n
        <5>1. polygons'[h] = polygons[h] /\ polygons[h].plane = plane
          BY <1>1, <3>2, <4>2
        <5> QED
          BY <1>5, <2>2, <3>1, <3>2, <4>2, <5>1
      <4> QED
        BY <1>1, <4>1, <4>2
    <3> QED
      BY <1>5, <2>2, <3>1, <3>2
  <2> QED
    BY <1>1, <2>1, <2>2
<1> QED
  BY <1>2, <1>6, <1>7, SamePlanes DEF AllRound

\* In the other planes nothing happens.
LEMMA OtherPlanesStay ==
    ASSUME Ground, OnTheWay, Walking!Next, UNCHANGED <<planes, axis, edges>>,
           NEW k \in DOMAIN PlanesOfAxis, k # plane, AllRound(k)
    PROVE  AllRound(k)'
<1>1. plane \in DOMAIN PlanesOfAxis /\ plane \in Nat /\ k \in Nat
  <2>1. DOMAIN PlanesOfAxis = 1 .. Len(PlanesOfAxis) /\ Len(PlanesOfAxis) \in Nat
    BY LenProperties DEF Ground
  <2>2. plane \in DOMAIN PlanesOfAxis
    BY Turn
  <2> QED
    BY <2>1, <2>2
<1>2. \A p : Done(k, p)' <=> Done(k, p)
  <2>1. CASE plane' = plane
    BY <2>1 DEF Done
  <2>2. CASE plane' = plane + 1 /\ used' = {}
    <3>1. k < plane + 1 <=> k < plane
      BY <1>1
    <3> QED
      BY <2>2, <3>1 DEF Done
  <2> QED
    BY <2>1, <2>2, Turn, Extended, Ended
<1>3. ASSUME NEW walk, IsWalk(plane, walk),
             polygons' = Append(polygons, [plane |-> plane, points |-> walk])
      PROVE  /\ \A n \in DOMAIN polygons : n \in DOMAIN polygons' /\ polygons'[n] = polygons[n]
             /\ \A n \in DOMAIN polygons' : polygons'[n].plane = k =>
                   n \in DOMAIN polygons /\ polygons'[n] = polygons[n]
  BY <1>1, <1>3, Added
<1>4. /\ \A n \in DOMAIN polygons : n \in DOMAIN polygons' /\ polygons'[n] = polygons[n]
      /\ \A n \in DOMAIN polygons' : polygons'[n].plane = k =>
            n \in DOMAIN polygons /\ polygons'[n] = polygons[n]
  <2>1. CASE Walking!Extend
    BY <2>1, Extended
  <2>2. CASE Walking!EndWalk
    BY <2>2, <1>3, Ended, ThatWalk
  <2>3. CASE polygons' = IF current = << >> THEN polygons
                         ELSE Append(polygons, [plane |-> plane, points |-> current])
    BY <2>3, <1>3 DEF OnTheWay
  <2> QED
    BY <2>1, <2>2, <2>3, Turn
<1>5. \A w : IsRing(w)' <=> IsRing(w)
  BY SamePlanes DEF IsRing
<1>6. \A p : InPolygon(k, p) => InPolygon(k, p)'
  BY StaysInPolygon
<1>7. \A p \in OfPlane(k) : Done(k, p)' => InPolygon(k, p)'
  BY <1>2, <1>6 DEF AllRound
<1>8. ASSUME NEW n \in DOMAIN polygons', polygons'[n].plane = k
      PROVE  /\ IsRing(polygons'[n].points)
             /\ \A p \in Range(polygons'[n].points) : Done(k, p)'
             /\ \A m \in DOMAIN polygons' : polygons'[m].plane = k /\ m # n =>
                   Range(polygons'[m].points) \intersect Range(polygons'[n].points) = {}
  <2>1. n \in DOMAIN polygons /\ polygons'[n] = polygons[n]
    BY <1>4, <1>8
  <2> QED
    BY <1>2, <1>4, <1>8, <2>1 DEF AllRound
<1> QED
  BY <1>5, <1>7, <1>8, SamePlanes DEF AllRound

LEMMA RingedKept ==
    ASSUME Ground, OnTheWay, Ringed, Walking!Next, UNCHANGED <<planes, axis, edges>>
    PROVE  Ringed'
<1>1. plane \in DOMAIN PlanesOfAxis /\ plane \in Nat /\ ~ (plane < plane) /\ plane < plane + 1
  <2>1. DOMAIN PlanesOfAxis = 1 .. Len(PlanesOfAxis) /\ Len(PlanesOfAxis) \in Nat
    BY LenProperties DEF Ground
  <2>2. plane \in DOMAIN PlanesOfAxis
    BY Turn
  <2> QED
    BY <2>1, <2>2
<1>2. \A k \in DOMAIN PlanesOfAxis : OfRings(k)' <=> OfRings(k)
  BY SamePlanes DEF OfRings
<1>3. SUFFICES ASSUME NEW k \in DOMAIN PlanesOfAxis, OfRings(k)
               PROVE  AllRound(k)'
  BY <1>2, SamePlanes DEF Ringed
<1>4. AllRound(k)
  BY <1>3 DEF Ringed
<1>5. CASE k # plane
  BY <1>4, <1>5, OtherPlanesStay
<1>6. CASE k = plane
  <2>1. OfRings(plane) /\ AllRound(plane)
    BY <1>3, <1>4, <1>6
  <2>2. /\ used \subseteq OfPlane(plane) /\ Range(current) \subseteq used
        /\ IsWalk(plane, current) /\ (current # << >> => Len(current) >= 2)
    BY DEF OnTheWay
  <2>3. CASE Walking!Extend
    <3>1. /\ Walking!Walking /\ GoesOn(current') /\ used' = used \union Range(current')
          /\ plane' = plane /\ polygons' = polygons /\ Range(current) \subseteq Range(current')
      BY <2>3, Extended, ThatWalk
    <3>2. ASSUME NEW n \in DOMAIN polygons, polygons[n].plane = plane,
                 NEW p \in Range(polygons[n].points)
          PROVE  Done(k, p)'
      <4>1. Range(current') \intersect Range(polygons[n].points) = {}
        BY <2>1, <3>1, <3>2, Fresh
      <4>2. p \in used
        BY <1>1, <2>1, <3>2 DEF AllRound, Done
      <4> QED
        BY <1>6, <3>1, <4>1, <4>2 DEF Done
    <3>3. ASSUME NEW p \in OfPlane(k), Done(k, p)' PROVE InPolygon(k, p)'
      <4>1. Done(k, p)
        BY <1>1, <1>6, <3>1, <3>3 DEF Done
      <4>2. InPolygon(k, p)
        BY <1>4, <4>1 DEF AllRound
      <4> QED
        BY <4>2, StaysInPolygon
    <3>4. \A w : IsRing(w)' <=> IsRing(w)
      BY SamePlanes DEF IsRing
    <3>5. OfPlane(k)' = OfPlane(k)
      BY SamePlanes
    <3>6. \A n \in DOMAIN polygons : polygons[n].plane = k =>
              /\ IsRing(polygons[n].points)
              /\ \A m \in DOMAIN polygons : polygons[m].plane = k /\ m # n =>
                    Range(polygons[m].points) \intersect Range(polygons[n].points) = {}
      BY <1>4 DEF AllRound
    <3> QED
      BY <1>6, <3>1, <3>2, <3>3, <3>4, <3>5, <3>6 DEF AllRound
  <2>4. CASE Walking!EndWalk
    <3> DEFINE face == Walking!Face
    <3>1. /\ Walking!Walking /\ GoesOn(face)
          /\ plane' = plane /\ current' = << >> /\ used' = used \union Range(face)
          /\ polygons' = IF Len(face) > 2
                         THEN Append(polygons, [plane |-> plane, points |-> face])
                         ELSE polygons
          /\ \/ Len(face) >= 4 /\ Walking!Joined(Last(face), face[1])
             \/ \A q \in OfPlane(plane) : Walking!Joined(Last(face), q) => q \in Range(face)
      BY <2>4, Ended
    <3>2. /\ IsWalk(plane, face) /\ Len(face) \in Nat /\ Len(face) >= 1
          /\ Range(current) \subseteq Range(face)
      BY <3>1, ThatWalk
    <3>3. \A n \in DOMAIN polygons : polygons[n].plane = plane =>
              Range(face) \intersect Range(polygons[n].points) = {}
      BY <2>1, <3>1, Fresh
    <3> HIDE DEF face
    <3>4. IsRing(face)
      <4>1. CASE Len(face) >= 4 /\ Walking!Joined(Last(face), face[1])
        BY <3>2, <4>1 DEF IsRing
      <4>2. CASE \A q \in OfPlane(plane) : Walking!Joined(Last(face), q) => q \in Range(face)
        <5>1. Len(face) # 1
          <6>1. SUFFICES ASSUME Len(face) = 1 PROVE FALSE
            OBVIOUS
          <6>2. DOMAIN face = {1} /\ Last(face) = face[1] /\ face[1] \in OfPlane(plane)
            <7>1. face \in Seq(OfPlane(plane))
              BY <3>2 DEF IsWalk
            <7>2. DOMAIN face = 1 .. 1 /\ face[1] \in OfPlane(plane)
              BY <6>1, <7>1, LenProperties, ElementOfSeq
            <7> QED
              BY <6>1, <7>2 DEF Last
          <6>3. PICK b \in OfPlane(plane) : b # face[1] /\ Walking!Joined(face[1], b)
            BY <1>1, <2>1, <6>2, SomeOther
          <6>4. Range(face) = {face[1]}
            BY <6>2 DEF Range
          <6> QED
            BY <4>2, <6>2, <6>3, <6>4
        <5>2. Len(face) >= 2
          <6> DEFINE n == Len(face)
          <6>1. n \in Nat /\ n >= 1 /\ n # 1
            BY <3>2, <5>1
          <6> HIDE DEF n
          <6>2. n >= 2
            BY <6>1
          <6> QED
            BY <6>2 DEF n
        <5> QED
          BY <1>1, <2>1, <3>2, <4>2, <5>2, LeadsBack
      <4> QED
        BY <3>1, <4>1, <4>2
    <3>5. polygons' = Append(polygons, [plane |-> plane, points |-> face])
      <4>1. Len(face) > 2
        BY <3>2, <3>4 DEF IsRing
      <4> QED
        BY <3>1, <4>1
    <3>6. \A p \in OfPlane(k) : Done(k, p)' <=> p \in used \/ p \in Range(face)
      <4>1. Range(<< >>) = {}
        BY DEF Range
      <4> QED
        BY <1>1, <1>6, <3>1, <4>1 DEF Done
    <3> QED
      BY <1>1, <1>6, <2>1, <3>2, <3>3, <3>4, <3>5, <3>6, RingAdded
  <2>5. CASE /\ plane' = plane + 1 /\ used = OfPlane(plane)
             /\ polygons' = IF current = << >> THEN polygons
                            ELSE Append(polygons, [plane |-> plane, points |-> current])
    <3>1. \A p : Done(k, p)'
      BY <1>1, <1>6, <2>5 DEF Done
    <3>2. \A p \in OfPlane(plane) : p \in Range(current) \/ Done(plane, p)
      BY <2>5 DEF Done
    <3>3. CASE current = << >>
      <4>1. Range(current) = {}
        BY <3>3 DEF Range
      <4>2. \A p \in OfPlane(k) : InPolygon(k, p)
        BY <1>6, <2>1, <3>2, <4>1 DEF AllRound
      <4>3. polygons' = polygons
        BY <2>5, <3>3
      <4>4. \A w : IsRing(w)' <=> IsRing(w)
        BY SamePlanes DEF IsRing
      <4>5. \A p \in OfPlane(k) : InPolygon(k, p)'
        BY <4>2, StaysInPolygon
      <4>6. \A n \in DOMAIN polygons : polygons[n].plane = k =>
                /\ IsRing(polygons[n].points)
                /\ \A m \in DOMAIN polygons : polygons[m].plane = k /\ m # n =>
                      Range(polygons[m].points) \intersect Range(polygons[n].points) = {}
        BY <1>4 DEF AllRound
      <4>7. OfPlane(k)' = OfPlane(k)
        BY SamePlanes
      <4> QED
        BY <3>1, <4>3, <4>4, <4>5, <4>6, <4>7 DEF AllRound
    <3>4. CASE current # << >>
      <4>1. ASSUME NEW n \in DOMAIN polygons, polygons[n].plane = plane
            PROVE  Range(current) \intersect Range(polygons[n].points) = {}
        BY <1>1, <2>1, <4>1 DEF AllRound, Done
      <4>2. Last(current) \in Range(current) /\ Last(current) \in OfPlane(plane) /\ Len(current) >= 2
        <5>1. DOMAIN current = 1 .. Len(current) /\ Len(current) \in Nat /\ Len(current) >= 2
          BY <2>2, <3>4, LenProperties DEF IsWalk
        <5>2. Last(current) \in Range(current)
          BY <5>1 DEF Last, Range
        <5> QED
          BY <2>2, <5>1, <5>2
      <4>3. ASSUME NEW q \in OfPlane(plane), Walking!Joined(Last(current), q)
            PROVE  q \in Range(current)
        <5>1. SUFFICES ASSUME q \notin Range(current) PROVE FALSE
          OBVIOUS
        <5>2. InPolygon(plane, q)
          BY <2>1, <3>2, <5>1 DEF AllRound
        <5>3. PICK n \in DOMAIN polygons :
                  polygons[n].plane = plane /\ q \in Range(polygons[n].points)
          BY <5>2 DEF InPolygon
        <5>4. IsWalk(plane, polygons[n].points) /\ IsRing(polygons[n].points)
          BY <2>1, <5>3 DEF OnTheWay, AllRound
        <5>5. Walking!Joined(q, Last(current))
          BY <4>3, NoLoops
        <5>6. Last(current) \in Range(polygons[n].points)
          BY <1>1, <2>1, <4>2, <5>3, <5>4, <5>5, RingClosed
        <5> QED
          BY <4>1, <4>2, <5>3, <5>6
      <4>4. IsRing(current)
        BY <1>1, <2>1, <2>2, <4>2, <4>3, LeadsBack
      <4>5. polygons' = Append(polygons, [plane |-> plane, points |-> current])
        BY <2>5, <3>4
      <4>6. \A p \in OfPlane(k) : Done(k, p)' <=> p \in used \/ p \in Range(current)
        BY <1>6, <2>5, <3>1
      <4> QED
        BY <1>1, <1>6, <2>1, <2>2, <4>1, <4>4, <4>5, <4>6, RingAdded
    <3> QED
      BY <3>3, <3>4
  <2> QED
    BY <2>3, <2>4, <2>5, Turn
<1> QED
  BY <1>5, <1>6

\* What addFaces promises follows.
LEMMA WalkedTypes ==
    ASSUME Ground, OnTheWay
    PROVE  Walking!TypeOK
<1>1. DOMAIN PlanesOfAxis = 1 .. Len(PlanesOfAxis) /\ Len(PlanesOfAxis) \in Nat
  BY LenProperties DEF Ground
<1>2. current \in Seq(Nat)
  <2>1. current \in Seq(OfPlane(plane)) /\ OfPlane(plane) \subseteq Nat
    <3>1. plane \notin DOMAIN PlanesOfAxis => OfPlane(plane) = {}
      BY DEF OfPlane
    <3> QED
      BY <3>1, PlaneOnce DEF OnTheWay, IsWalk
  <2> QED
    BY <2>1, SeqMonotonic
<1>3. used \subseteq (IF plane \in DOMAIN PlanesOfAxis THEN Walking!Range(PlanesOfAxis[plane]) ELSE {})
  BY DEF OnTheWay, OfPlane, Walking!Range, Range
<1>4. ASSUME NEW n \in DOMAIN polygons
      PROVE  polygons[n].plane \in DOMAIN PlanesOfAxis /\ polygons[n].points \in Seq(Nat)
  <2>1. polygons[n] \in [plane : DOMAIN PlanesOfAxis, points : Seq(Nat)]
    BY LenProperties, ElementOfSeq DEF OnTheWay
  <2> QED
    BY <2>1
<1> QED
  BY <1>1, <1>2, <1>3, <1>4 DEF OnTheWay, Walking!TypeOK

LEMMA WalkedAlong ==
    ASSUME Ground, OnTheWay
    PROVE  Walking!PolygonsAreWalks
<1>1. ASSUME NEW n \in DOMAIN polygons
      PROVE  LET walk == polygons[n].points
             IN  /\ Walking!Range(walk) \subseteq Walking!Range(PlanesOfAxis[polygons[n].plane])
                 /\ Walking!IsInjective(walk)
                 /\ \A m \in 1 .. (Len(walk) - 1) : Walking!Joined(walk[m], walk[m + 1])
  <2> DEFINE k == polygons[n].plane
             walk == polygons[n].points
  <2>1. IsWalk(k, walk)
    BY DEF OnTheWay
  <2>2. k \in DOMAIN PlanesOfAxis
    <3>1. polygons[n] \in [plane : DOMAIN PlanesOfAxis, points : Seq(Nat)]
      BY LenProperties, ElementOfSeq DEF OnTheWay
    <3> QED
      BY <3>1
  <2> HIDE DEF k, walk
  <2>3. Range(walk) \subseteq OfPlane(k)
    BY <2>1, LenProperties, ElementOfSeq DEF IsWalk, Range
  <2>4. Range(walk) \subseteq Range(PlanesOfAxis[k])
    BY <2>2, <2>3 DEF OfPlane
  <2>5. /\ Walking!Range(walk) \subseteq Walking!Range(PlanesOfAxis[k])
        /\ Walking!IsInjective(walk)
        /\ \A m \in 1 .. (Len(walk) - 1) : Walking!Joined(walk[m], walk[m + 1])
    BY <2>1, <2>4 DEF Walking!Range, Range, IsWalk, IsInjective, Walking!IsInjective
  <2> QED
    BY <2>5 DEF k, walk
<1> QED
  BY <1>1 DEF Walking!PolygonsAreWalks

\* The planes that are done with: no walk comes to their points again.
LEMMA PlanesDone ==
    ASSUME Ground, OnTheWay, NEW k \in 1 .. (plane - 1), k \in DOMAIN PlanesOfAxis
    PROVE  /\ \A p : Done(k, p)
           /\ OfPlane(k) = Walking!Range(PlanesOfAxis[k])
           /\ \A n \in DOMAIN polygons :
                 Walking!Range(polygons[n].points) = Range(polygons[n].points)
           /\ \A S : Walking!Cardinality(S) = Cardinality(S)
<1>1. k < plane
  <2>1. Len(PlanesOfAxis) \in Nat
    BY LenProperties DEF Ground
  <2> QED
    BY <2>1 DEF OnTheWay
<1> QED
  BY <1>1 DEF Done, OfPlane, Walking!Range, Range, Walking!Cardinality, Cardinality

LEMMA WalkedOut ==
    ASSUME Ground, OnTheWay, LeftOut
    PROVE  Walking!LeftOutForAReason
<1>1. ASSUME NEW k \in 1 .. (plane - 1), k \in DOMAIN PlanesOfAxis, NEW p \in OfPlane(k)
      PROVE  InPolygon(k, p) \/ DeadEnd(k, p)
  BY <1>1, PlanesDone DEF LeftOut
<1>2. ASSUME NEW k \in 1 .. (plane - 1), k \in DOMAIN PlanesOfAxis,
             NEW p \in Walking!Range(PlanesOfAxis[k])
      PROVE  \/ \E n \in DOMAIN polygons :
                   polygons[n].plane = k /\ p \in Walking!Range(polygons[n].points)
             \/ Walking!Cardinality(Walking!Neighbours(k, p)) <= 1
             \/ \E q \in Walking!Neighbours(k, p) : Walking!Neighbours(k, q) = {p}
  <2>1. InPolygon(k, p) \/ DeadEnd(k, p)
    BY <1>1, <1>2, PlanesDone
  <2> QED
    BY <1>2, <2>1, PlanesDone DEF InPolygon, DeadEnd
<1> QED
  BY <1>2 DEF Walking!LeftOutForAReason

LEMMA WalkedRound ==
    ASSUME Ground, OnTheWay, Ringed
    PROVE  Walking!RingsBecomeFaces
<1>1. ASSUME NEW k \in 1 .. (plane - 1), k \in DOMAIN PlanesOfAxis, OfRings(k)
      PROVE  /\ \A p \in OfPlane(k) :
                   \E n \in DOMAIN polygons :
                      {m \in DOMAIN polygons :
                          polygons[m].plane = k /\ p \in Range(polygons[m].points)} = {n}
             /\ \A n \in DOMAIN polygons : polygons[n].plane = k => IsRing(polygons[n].points)
  <2>1. AllRound(k)
    BY <1>1 DEF Ringed
  <2>2. ASSUME NEW p \in OfPlane(k)
        PROVE  \E n \in DOMAIN polygons :
                  {m \in DOMAIN polygons :
                      polygons[m].plane = k /\ p \in Range(polygons[m].points)} = {n}
    <3>1. PICK n \in DOMAIN polygons : polygons[n].plane = k /\ p \in Range(polygons[n].points)
      BY <1>1, <2>1, PlanesDone DEF AllRound, InPolygon
    <3>2. \A m \in DOMAIN polygons :
              polygons[m].plane = k /\ p \in Range(polygons[m].points) => m = n
      BY <2>1, <3>1 DEF AllRound
    <3> QED
      BY <3>1, <3>2
  <2> QED
    BY <2>1, <2>2 DEF AllRound
<1>2. ASSUME NEW k \in 1 .. (plane - 1),
             \A p \in Walking!Range(PlanesOfAxis[k]) :
                 Walking!Cardinality(Walking!Neighbours(k, p)) = 2
      PROVE  /\ \A p \in Walking!Range(PlanesOfAxis[k]) :
                   Walking!Cardinality({n \in DOMAIN polygons :
                       polygons[n].plane = k /\ p \in Walking!Range(polygons[n].points)}) = 1
             /\ \A n \in DOMAIN polygons : polygons[n].plane = k =>
                   LET walk == polygons[n].points
                   IN  Len(walk) >= 3 /\ Walking!Joined(Walking!Last(walk), walk[1])
  <2>1. k \in DOMAIN PlanesOfAxis
    <3>1. DOMAIN PlanesOfAxis = 1 .. Len(PlanesOfAxis) /\ Len(PlanesOfAxis) \in Nat
      BY LenProperties DEF Ground
    <3> QED
      BY <3>1 DEF OnTheWay
  <2>2. OfRings(k)
    BY <1>2, <2>1, PlanesDone DEF OfRings
  <2>3. ASSUME NEW p \in Walking!Range(PlanesOfAxis[k])
        PROVE  Walking!Cardinality({n \in DOMAIN polygons :
                   polygons[n].plane = k /\ p \in Walking!Range(polygons[n].points)}) = 1
    <3> DEFINE S == {n \in DOMAIN polygons :
                        polygons[n].plane = k /\ p \in Range(polygons[n].points)}
    <3>1. PICK n \in DOMAIN polygons : S = {n}
      BY <1>1, <2>1, <2>2, <2>3, PlanesDone
    <3>2. Cardinality(S) = 1
      BY <3>1, FS_Singleton
    <3>3. S = {m \in DOMAIN polygons :
                  polygons[m].plane = k /\ p \in Walking!Range(polygons[m].points)}
      BY <2>1, PlanesDone
    <3> HIDE DEF S
    <3> QED
      BY <2>1, <3>2, <3>3, PlanesDone
  <2>4. \A n \in DOMAIN polygons : polygons[n].plane = k =>
            LET walk == polygons[n].points
            IN  Len(walk) >= 3 /\ Walking!Joined(Walking!Last(walk), walk[1])
    BY <1>1, <2>1, <2>2 DEF IsRing, Walking!Last, Last
  <2> QED
    BY <2>3, <2>4
<1> QED
  BY <1>2 DEF Walking!RingsBecomeFaces

-----------------------------------------------------------------------------
(* The drawing *)

\* A point that has not been moved by CONTOUR_DIFF shows where ShownAt says.
LEMMA Fits ==
    ASSUME Built, Located
    PROVE  FitsTheDrawing
<1>1. PICK sheet \in Sheets : views = AssignCoordinateSystems(sheet)
  BY DEF Built
<1> SUFFICES ASSUME NEW n \in DOMAIN points, points_parents[n].proj1 = 1
             PROVE  LET c == points_parents[n]
                        k == c.proj2
                        v1 == views[1].vertices[c.pt1]
                        v2 == views[k].vertices[c.pt2]
                        side == Side(k, v2) - Side(k, views[k].s.zero)
                    IN  /\ Abs(points[n].x - (Side(k, v1) - Side(k, MainZero(views)))) < CONTOUR_DIFF
                        /\ Abs(points[n].z - side) < CONTOUR_DIFF
                        /\ Abs(points[n].y - (Level(k, v1) - Level(k, MainZero(views)))) < CONTOUR_DIFF
                        /\ Abs(points[n].y - (Level(k, v2) - Level(k, MainZero(views))))
                              < CONTOUR_DIFF + MAX_DIFF
  BY DEF FitsTheDrawing
<1> DEFINE c == points_parents[n]
           k == c.proj2
           v1 == sheet[1].vertices[c.pt1]
           v2 == sheet[k].vertices[c.pt2]
           z1 == MainZero(sheet)
           z2 == sheet[k].vertices[NearestVertex(sheet, k)]
           built == CoordsPoint(views, c)
           pt == points[n]
<1>2. n \in DOMAIN points_parents /\ pt \in [Axis -> Int]
  BY DEF Located
<1>3. c \in PairsOn(views)
  BY <1>2, LenProperties, ElementOfSeq DEF Built
<1>4. /\ 1 \in DOMAIN sheet /\ k \in DOMAIN sheet /\ k # 1
      /\ \A m \in DOMAIN sheet : views[m].center = sheet[m].center /\ views[m].vertices = sheet[m].vertices
      /\ views[k].s = OtherSystem(sheet, k)
  BY <1>1, <1>3, HandedOver DEF PairsOn
<1>5. /\ views[1].vertices[c.pt1] = v1 /\ views[k].vertices[c.pt2] = v2
      /\ MainZero(views) = z1 /\ views[k].s.zero = z2
  BY <1>4 DEF MainZero, OtherSystem
<1>6. /\ Direction(views, 1, k).alpha = Direction(sheet, 1, 2).alpha
  <2>1. Direction(views, 1, k) = Direction(sheet, 1, k)
    BY <1>4 DEF Direction
  <2> QED
    BY <1>4, <2>1, InARow
<1>7. /\ v1 \in Spot /\ v2 \in Spot /\ z1 \in Spot /\ z2 \in Spot
      /\ IF Direction(sheet, 1, 2).alpha = 90
         THEN /\ built["x"] = v1.x - z1.x /\ built["y"] = v1.y - z1.y
              /\ built["z"] = v2.x - z2.x /\ Abs(v2.y - v1.y) < MAX_DIFF
         ELSE /\ built["x"] = z1.y - v1.y /\ built["y"] = v1.x - z1.x
              /\ built["z"] = z2.y - v2.y /\ Abs(v2.x - v1.x) < MAX_DIFF
  <2>1. c.proj1 = 1
    OBVIOUS
  <2> HIDE DEF c
  <2> QED
    BY <1>1, <1>3, <2>1, ShownAt
<1>8. built \in [Axis -> Int]
  BY <1>1, <1>3, PointIn
<1>9. /\ Aligning!Distance(pt["x"], built["x"]) < CONTOUR_DIFF
      /\ Aligning!Distance(pt["y"], built["y"]) < CONTOUR_DIFF
      /\ Aligning!Distance(pt["z"], built["z"]) < CONTOUR_DIFF
  <2>1. Axes[1] = "x" /\ Axes[2] = "y" /\ Axes[3] = "z" /\ {1, 2, 3} = 1 .. 3
    BY DEF Axes
  <2>2. \A a \in 1 .. 3 : Aligning!Distance(pt[Axes[a]], built[Axes[a]]) < CONTOUR_DIFF
    BY DEF Located
  <2>3. 1 \in 1 .. 3 /\ 2 \in 1 .. 3 /\ 3 \in 1 .. 3
    OBVIOUS
  <2> HIDE DEF pt, built
  <2> QED
    BY <2>1, <2>2, <2>3
<1>10. ASSUME NEW d \in Int, NEW e \in Int, Aligning!Distance(d, e) < CONTOUR_DIFF
       PROVE  Abs(d - e) < CONTOUR_DIFF
  BY <1>10, ModellerAssumption DEF Aligning!Distance, Abs
<1>11. ASSUME NEW d \in Int, NEW e \in Int, NEW f \in Int,
              Abs(d - e) < CONTOUR_DIFF, Abs(f - e) < MAX_DIFF
       PROVE  Abs(d - f) < CONTOUR_DIFF + MAX_DIFF
  <2>1. CONTOUR_DIFF \in Int /\ MAX_DIFF \in Int
    BY ModellerAssumption, MaxDiffAssumption
  <2> QED
    BY <1>11, <2>1 DEF Abs
<1>12. /\ pt["x"] \in Int /\ pt["y"] \in Int /\ pt["z"] \in Int
       /\ built["x"] \in Int /\ built["y"] \in Int /\ built["z"] \in Int
       /\ pt.x = pt["x"] /\ pt.y = pt["y"] /\ pt.z = pt["z"]
  BY <1>2, <1>8 DEF Axis
<1>13. /\ v1.x \in Int /\ v1.y \in Int /\ v2.x \in Int /\ v2.y \in Int
       /\ z1.x \in Int /\ z1.y \in Int /\ z2.x \in Int /\ z2.y \in Int
  BY <1>7 DEF Spot
<1> HIDE DEF c, k, v1, v2, z1, z2, built, pt
<1>14. /\ Abs(pt["x"] - built["x"]) < CONTOUR_DIFF
       /\ Abs(pt["y"] - built["y"]) < CONTOUR_DIFF
       /\ Abs(pt["z"] - built["z"]) < CONTOUR_DIFF
  BY <1>9, <1>10, <1>12
<1>15. /\ built["x"] = Side(k, v1) - Side(k, z1)
       /\ built["y"] = Level(k, v1) - Level(k, z1)
       /\ built["z"] = Side(k, v2) - Side(k, z2)
       /\ Level(k, v2) - Level(k, z1) \in Int
       /\ Abs((Level(k, v2) - Level(k, z1)) - built["y"]) < MAX_DIFF
  <2>1. CASE Direction(sheet, 1, 2).alpha = 90
    <3>1. \A v : Side(k, v) = v.x /\ Level(k, v) = v.y
      BY <1>6, <2>1 DEF Side, Level
    <3>2. /\ built["x"] = v1.x - z1.x /\ built["y"] = v1.y - z1.y
          /\ built["z"] = v2.x - z2.x /\ Abs(v2.y - v1.y) < MAX_DIFF
      BY <1>7, <2>1
    <3>3. (v2.y - z1.y) - (v1.y - z1.y) = v2.y - v1.y /\ v2.y - z1.y \in Int
      BY <1>13
    <3> QED
      BY <3>1, <3>2, <3>3
  <2>2. CASE Direction(sheet, 1, 2).alpha # 90
    <3>1. \A v : Side(k, v) = -v.y /\ Level(k, v) = v.x
      BY <1>6, <2>2 DEF Side, Level
    <3>2. /\ built["x"] = z1.y - v1.y /\ built["y"] = v1.x - z1.x
          /\ built["z"] = z2.y - v2.y /\ Abs(v2.x - v1.x) < MAX_DIFF
      BY <1>7, <2>2
    <3>3. (v2.x - z1.x) - (v1.x - z1.x) = v2.x - v1.x /\ v2.x - z1.x \in Int
      BY <1>13
    <3>4. (-v1.y) - (-z1.y) = z1.y - v1.y /\ (-v2.y) - (-z2.y) = z2.y - v2.y
      BY <1>13
    <3> QED
      BY <3>1, <3>2, <3>3, <3>4
  <2> QED
    BY <2>1, <2>2
<1>16. Abs(pt["y"] - (Level(k, v2) - Level(k, z1))) < CONTOUR_DIFF + MAX_DIFF
  BY <1>11, <1>12, <1>14, <1>15
<1> QED
  BY <1>5, <1>12, <1>14, <1>15, <1>16 DEF c, k, pt

-----------------------------------------------------------------------------
(* generate_model *)

\* The coordinates of the points along an axis, for all of them.
LEMMA CoordinatesIn ==
    ASSUME NEW S, NEW parents \in Seq(S), NEW list \in [DOMAIN parents -> [Axis -> Int]], NEW a \in 1 .. 3
    PROVE  /\ Coordinates(list, a) \in Seq(Int)
           /\ Len(Coordinates(list, a)) = Len(parents)
           /\ \A n \in DOMAIN parents : Coordinates(list, a)[n] = list[n][Axes[a]]
<1>1. DOMAIN parents = 1 .. Len(parents) /\ Len(parents) \in Nat
  BY LenProperties
<1>2. Axes[a] \in Axis
  BY DEF Axes, Axis
<1> DEFINE s == Coordinates(list, a)
<1>3. s \in [1 .. Len(parents) -> Int] /\ \A n \in DOMAIN parents : s[n] = list[n][Axes[a]]
  BY <1>1, <1>2 DEF Coordinates
<1> HIDE DEF s
<1>4. s \in Seq(Int) /\ Len(s) = Len(parents)
  BY <1>1, <1>3, IsASeq, LenProperties
<1> QED
  BY <1>3, <1>4 DEF s

LEMMA SortedStays ==
    ASSUME Sorted, UNCHANGED contours_vars
    PROVE  Sorted'
BY DEF Sorted, contours_vars, Aligning!In, Aligning!Near, Aligning!Distance

\* What addFaces is given, once all points are sorted.
LEMMA GroundStands ==
    ASSUME Built, Staged, stage = "faces"
    PROVE  Ground
<1>1. PlanesOfAxis \in Seq(Seq(Nat)) /\ \A k \in DOMAIN PlanesOfAxis : IsInjective(PlanesOfAxis[k])
  <2> DEFINE S == {list \in Seq(Seq(1 .. Len(points_parents))) : SortedOut(list)}
  <2>1. planes \in Seq(S) /\ axis \in 1 .. Len(planes) /\ DOMAIN planes = 1 .. Len(planes)
    BY LenProperties DEF Staged
  <2>2. PlanesOfAxis = planes[axis] /\ SortedOut(planes[axis])
    <3>1. planes[axis] \in S
      <4> HIDE DEF S
      <4> QED
        BY <2>1, ElementOfSeq
    <3> QED
      BY <2>1, <3>1 DEF PlanesOfAxis
  <2>3. Seq(Seq(1 .. Len(points_parents))) \subseteq Seq(Seq(Nat))
    <3>1. Len(points_parents) \in Nat
      BY LenProperties DEF Built
    <3>2. 1 .. Len(points_parents) \subseteq Nat
      BY <3>1
    <3>3. Seq(1 .. Len(points_parents)) \subseteq Seq(Nat)
      BY <3>2, SeqMonotonic
    <3> QED
      BY <3>3, SeqMonotonic
  <2> QED
    BY <2>2, <2>3 DEF SortedOut
<1> QED
  BY <1>1 DEF Ground, Built

\* When addFaces begins with the planes of an axis.
LEMMA WalksBegin ==
    ASSUME Staged', stage' = "faces",
           plane' = 1, current' = << >>, used' = {}, polygons' = << >>
    PROVE  (OnTheWay /\ LeftOut /\ Ringed)'
<1>1. DOMAIN PlanesOfAxis' = 1 .. Len(PlanesOfAxis') /\ Len(PlanesOfAxis') \in Nat
  <2> DEFINE S == {list \in Seq(Seq(1 .. Len(points_parents'))) : SortedOut(list)'}
  <2>1. planes' \in Seq(S) /\ axis' \in 1 .. Len(planes') /\ DOMAIN planes' = 1 .. Len(planes')
    BY LenProperties DEF Staged
  <2>2. PlanesOfAxis' = planes'[axis'] /\ planes'[axis'] \in Seq(Seq(1 .. Len(points_parents')))
    <3>1. planes'[axis'] \in S
      <4> HIDE DEF S
      <4> QED
        BY <2>1, ElementOfSeq
    <3> QED
      BY <2>1, <3>1 DEF PlanesOfAxis
  <2> QED
    BY <2>2, LenProperties
<1>2. \A k \in DOMAIN PlanesOfAxis' : \A p : ~ Done(k, p)'
  BY <1>1 DEF Done
<1>3. IsWalk(plane, current)'
  <2>1. \A S : << >> \in Seq(S)
    BY EmptySeq
  <2>2. DOMAIN << >> = {} /\ Len(<< >>) = 0 /\ 1 .. 0 - 1 = {}
    OBVIOUS
  <2> QED
    BY <2>1, <2>2 DEF IsWalk, IsInjective
<1>4. OnTheWay'
  <2>1. Range(<< >>) = {} /\ DOMAIN << >> = {} /\ \A S : << >> \in Seq(S)
    BY EmptySeq DEF Range
  <2>2. 1 \in 1 .. Len(PlanesOfAxis') + 1
    BY <1>1
  <2> QED
    BY <1>3, <2>1, <2>2 DEF OnTheWay
<1>5. LeftOut'
  BY <1>2 DEF LeftOut
<1>6. Ringed'
  <2>1. DOMAIN << >> = {}
    OBVIOUS
  <2> QED
    BY <1>2, <2>1 DEF Ringed, AllRound
<1> QED
  BY <1>4, <1>5, <1>6

LEMMA InitInv ==
    ASSUME Init
    PROVE  IInv
<1>1. << >> \in Seq(Int) /\ \A S : << >> \in Seq(S)
  BY EmptySeq
<1>2. DOMAIN << >> = {} /\ Len(<< >>) = 0
  OBVIOUS
<1>3. Built
  BY <1>1 DEF Init, Built
<1>4. Located
  <2>1. points = << >> /\ points_parents = << >>
    BY DEF Init
  <2>2. << >> \in [DOMAIN << >> -> [Axis -> Int]]
    OBVIOUS
  <2> QED
    BY <1>2, <2>1, <2>2 DEF Located
<1>5. Sorted
  BY <1>1, SortedAtFirst DEF Init
<1>6. Staged
  BY <1>1, <1>2 DEF Init, Staged
<1> QED
  BY <1>3, <1>4, <1>5, <1>6 DEF Init, IInv

\* build_model: the points are where their vertices show them.
LEMMA BuildKeeps ==
    ASSUME IInv, Build
    PROVE  IInv'
<1>1. PICK sheet \in Sheets : views = AssignCoordinateSystems(sheet)
  BY DEF IInv, Built
<1>2. /\ stage = "build" /\ stage' = "align"
      /\ points_parents' = Parents(views)
      /\ points' = [n \in DOMAIN points_parents' |-> CoordsPoint(views, points_parents'[n])]
      /\ edges' = EdgesBetween(views, points_parents')
      /\ given' = Coordinates(points', 1) /\ coord' = given' /\ i' = 1
      /\ available' = << >> /\ res' = << >>
      /\ UNCHANGED <<views, axis, planes, plane, current, used, polygons>>
  BY DEF Build, Points, Aligning!Begin, faces_vars
<1>3. points_parents' \in Seq(PairsOn(views))
  BY <1>1, <1>2, ParentsAre
<1>4. edges' \in Seq(Forward(Len(points_parents')))
  BY <1>2, <1>3, EdgesIn
<1>5. Built'
  <2>1. PairsOn(views') = PairsOn(views)
    BY <1>2
  <2> QED
    BY <1>1, <1>2, <1>3, <1>4, <2>1 DEF Built
<1>6. \A n \in DOMAIN points_parents' : CoordsPoint(views, points_parents'[n]) \in [Axis -> Int]
  BY <1>1, <1>3, PointIn, LenProperties, ElementOfSeq
<1>7. points' \in [DOMAIN points_parents' -> [Axis -> Int]]
  BY <1>2, <1>6
<1>8. Located'
  <2>1. ASSUME NEW n \in DOMAIN points', NEW a \in 1 .. 3
        PROVE  LET built == CoordsPoint(views', points_parents'[n])[Axes[a]]
               IN  /\ Aligning!Distance(points'[n][Axes[a]], built) < CONTOUR_DIFF
                   /\ points'[n][Axes[a]] = built
    <3>1. points'[n] = CoordsPoint(views', points_parents'[n]) /\ points'[n] \in [Axis -> Int]
      BY <1>2, <1>7
    <3>2. Axes[a] \in Axis
      BY DEF Axes, Axis
    <3>3. points'[n][Axes[a]] \in Int
      BY <3>1, <3>2
    <3>4. Aligning!Distance(points'[n][Axes[a]], points'[n][Axes[a]]) = 0
      BY <3>3, Measuring
    <3>5. 0 < CONTOUR_DIFF
      BY ModellerAssumption
    <3> QED
      BY <3>1, <3>4, <3>5
  <2> QED
    BY <1>7, <2>1 DEF Located, Aligning!Distance
<1>9. given' \in Seq(Int)
  BY <1>2, <1>3, <1>7, CoordinatesIn
<1>10. Sorted'
  BY <1>2, <1>9, SortedAtBegin
<1>11. Staged'
  <2>1. axis = 1 /\ plane = 1 /\ current = << >> /\ used = {} /\ polygons = << >>
    BY <1>2 DEF IInv, Staged
  <2>2. planes = << >>
    BY <1>2, <2>1, EmptySeq DEF IInv, Staged
  <2>3. \A S : << >> \in Seq(S)
    BY EmptySeq
  <2> QED
    BY <1>2, <2>1, <2>2, <2>3 DEF Staged
<1> QED
  BY <1>2, <1>5, <1>8, <1>10, <1>11 DEF IInv

\* A point is sorted: only the loop of align_contours is further.
LEMMA AlignStepKeeps ==
    ASSUME IInv, AlignStep
    PROVE  IInv'
<1>1. /\ stage = "align"
      /\ UNCHANGED <<views, points_parents, edges, points, axis, planes, faces,
                     plane, current, used, polygons, stage, given>>
      /\ Aligning!Align \/ Aligning!NewPlane
  BY DEF AlignStep, model, faces_vars, Aligning!Next, Aligning!Align, Aligning!NewPlane
<1>2. Sorted'
  BY <1>1, AlignKeeps, NewPlaneKeeps DEF IInv
<1>3. Built'
  BY <1>1 DEF IInv, Built
<1>4. Located'
  BY <1>1 DEF IInv, Located, Aligning!Distance
<1>5. Staged'
  <2>1. Coordinates(points', axis') = Coordinates(points, axis)
    BY <1>1
  <2> QED
    BY <1>1, <2>1 DEF IInv, Staged, SortedOut
<1> QED
  BY <1>1, <1>2, <1>3, <1>4, <1>5 DEF IInv

\* An axis is sorted: the points have moved onto their planes, each of them by
\* less than CONTOUR_DIFF along this axis, and not along the others.
LEMMA LeaveAxisKeeps ==
    ASSUME IInv, LeaveAxis
    PROVE  IInv'
<1>1. /\ stage = "align" /\ points' = Moved /\ planes' = Append(planes, res)
      /\ UNCHANGED <<views, points_parents, edges, plane, current, used, polygons>>
      /\ IF axis < 3
         THEN /\ axis' = axis + 1 /\ stage' = stage
              /\ given' = Coordinates(points', axis + 1) /\ coord' = given' /\ i' = 1
              /\ available' = << >> /\ res' = << >>
         ELSE axis' = 1 /\ stage' = "faces" /\ UNCHANGED contours_vars
  BY DEF LeaveAxis, model, faces_vars, Aligning!Begin
<1>2. Built /\ Located /\ Sorted /\ Staged
  BY DEF IInv
<1>3. /\ axis \in 1 .. 3 /\ given = Coordinates(points, axis) /\ Len(planes) = axis - 1
      /\ plane = 1 /\ current = << >> /\ used = {} /\ polygons = << >>
  BY <1>1, <1>2 DEF Staged
<1>4. /\ points_parents \in Seq(PairsOn(views)) /\ points \in [DOMAIN points_parents -> [Axis -> Int]]
  BY <1>2 DEF Built, Located
<1>5. /\ Len(given) = Len(points_parents) /\ Len(coord) = Len(points_parents)
      /\ \A n \in DOMAIN points_parents : given[n] = points[n][Axes[axis]]
  <2>1. /\ Len(Coordinates(points, axis)) = Len(points_parents)
        /\ \A n \in DOMAIN points_parents : Coordinates(points, axis)[n] = points[n][Axes[axis]]
    BY <1>3, <1>4, CoordinatesIn
  <2>2. Len(coord) = Len(given)
    BY <1>2 DEF Sorted
  <2> QED
    BY <1>3, <2>1, <2>2
<1>6. /\ DOMAIN coord = DOMAIN points_parents
      /\ \A n \in DOMAIN coord : /\ coord[n] \in Int
                                 /\ Aligning!Distance(coord[n], given[n]) < CONTOUR_DIFF
  <2>1. DOMAIN coord = DOMAIN points_parents
    BY <1>2, <1>4, <1>5, LenProperties DEF Sorted
  <2> QED
    BY <1>2, <2>1, SortedApart DEF Aligning!PlanesApart
<1>7. \A a \in 1 .. 3 : Axes[a] \in Axis /\ (a # axis => Axes[a] # Axes[axis])
  BY <1>3 DEF Axes, Axis
<1>8. /\ points' \in [DOMAIN points_parents -> [Axis -> Int]]
      /\ \A n \in DOMAIN points_parents : \A a \in 1 .. 3 :
            points'[n][Axes[a]] = IF a = axis THEN coord[n] ELSE points[n][Axes[a]]
  <2>1. points' = [n \in DOMAIN points_parents |-> [points[n] EXCEPT ![Axes[axis]] = coord[n]]]
    BY <1>1, <1>4 DEF Moved
  <2>2. ASSUME NEW n \in DOMAIN points_parents
        PROVE  /\ points'[n] \in [Axis -> Int]
               /\ \A a \in 1 .. 3 :
                     points'[n][Axes[a]] = IF a = axis THEN coord[n] ELSE points[n][Axes[a]]
    <3>1. points'[n] = [points[n] EXCEPT ![Axes[axis]] = coord[n]]
      BY <2>1
    <3>2. points[n] \in [Axis -> Int] /\ coord[n] \in Int
      BY <1>4, <1>6
    <3> QED
      BY <1>3, <1>7, <3>1, <3>2
  <2> QED
    BY <2>1, <2>2
<1>9. Located'
  <2>1. ASSUME NEW n \in DOMAIN points', NEW a \in 1 .. 3
        PROVE  LET built == CoordsPoint(views', points_parents'[n])[Axes[a]]
               IN  /\ Aligning!Distance(points'[n][Axes[a]], built) < CONTOUR_DIFF
                   /\ stage' = "align" /\ axis' <= a => points'[n][Axes[a]] = built
    <3> DEFINE built == CoordsPoint(views, points_parents[n])[Axes[a]]
    <3>1. n \in DOMAIN points_parents /\ n \in DOMAIN points
      BY <1>4, <1>8
    <3>2. /\ Aligning!Distance(points[n][Axes[a]], built) < CONTOUR_DIFF
          /\ axis <= a => points[n][Axes[a]] = built
      BY <1>1, <1>2, <3>1 DEF Located
    <3>3. CoordsPoint(views', points_parents'[n])[Axes[a]] = built
      BY <1>1
    <3> HIDE DEF built
    <3>4. CASE a = axis
      <4>1. points'[n][Axes[a]] = coord[n] /\ given[n] = built
        BY <1>3, <1>5, <1>8, <3>1, <3>2, <3>4
      <4>2. ~ (stage' = "align" /\ axis' <= a)
        BY <1>1, <1>3, <3>4
      <4> QED
        BY <1>6, <3>1, <3>3, <4>1, <4>2
    <3>5. CASE a # axis
      <4>1. points'[n][Axes[a]] = points[n][Axes[a]]
        BY <1>8, <3>1, <3>5
      <4>2. stage' = "align" /\ axis' <= a => axis <= a
        BY <1>1, <1>3
      <4> QED
        BY <3>2, <3>3, <4>1, <4>2
    <3> QED
      BY <3>4, <3>5
  <2>2. points' \in [DOMAIN points_parents' -> [Axis -> Int]]
    BY <1>1, <1>8
  <2> QED
    BY <2>1, <2>2 DEF Located, Aligning!Distance
<1>10. Built'
  BY <1>1, <1>2 DEF Built
<1>11. SortedOut(res)
  <2>1. res \in Seq(Seq(1 .. Len(points_parents)))
    BY <1>2, <1>5 DEF Sorted
  <2> QED
    BY <1>2, <2>1 DEF Sorted, SortedOut, IsInjective
<1>12. /\ planes' \in Seq({list \in Seq(Seq(1 .. Len(points_parents))) : SortedOut(list)})
       /\ Len(planes') = axis
  <2> DEFINE S == {list \in Seq(Seq(1 .. Len(points_parents))) : SortedOut(list)}
  <2>1. planes \in Seq(S) /\ res \in S
    BY <1>2, <1>11 DEF Staged, SortedOut
  <2> HIDE DEF S
  <2>2. planes' \in Seq(S) /\ Len(planes') = Len(planes) + 1
    BY <1>1, <2>1, AppendProperties
  <2> QED
    BY <1>3, <2>2 DEF S
<1>13. /\ Len(points_parents') = Len(points_parents)
       /\ \A list : SortedOut(list)' <=> SortedOut(list)
  BY <1>1 DEF SortedOut
<1>14. CASE axis < 3
  <2>1. axis' = axis + 1 /\ stage' = "align" /\ given' = Coordinates(points', axis')
    BY <1>1, <1>14
  <2>2. axis' \in 1 .. 3 /\ Len(planes') = axis' - 1
    BY <1>3, <1>12, <1>14, <2>1
  <2>3. Staged'
    BY <1>1, <1>3, <1>12, <1>13, <2>1, <2>2 DEF Staged
  <2>4. given' \in Seq(Int)
    BY <1>4, <1>8, <2>1, <2>2, CoordinatesIn
  <2>5. Sorted'
    BY <1>1, <1>14, <2>4, SortedAtBegin
  <2> QED
    BY <1>9, <1>10, <2>1, <2>3, <2>5 DEF IInv
<1>15. CASE ~ (axis < 3)
  <2>1. axis' = 1 /\ stage' = "faces" /\ axis = 3 /\ Len(planes') = 3
    BY <1>1, <1>3, <1>12, <1>15
  <2>2. Staged'
    BY <1>1, <1>3, <1>12, <1>13, <2>1 DEF Staged
  <2>3. Sorted'
    BY <1>1, <1>2, <1>15, SortedStays
  <2>4. (OnTheWay /\ LeftOut /\ Ringed)'
    BY <1>1, <1>3, <2>1, <2>2, WalksBegin
  <2> QED
    BY <1>9, <1>10, <2>2, <2>3, <2>4 DEF IInv
<1> QED
  BY <1>14, <1>15

\* A turn of addFaces.
LEMMA FacesStepKeeps ==
    ASSUME IInv, FacesStep
    PROVE  IInv'
<1>1. /\ stage = "faces" /\ Walking!Next
      /\ UNCHANGED <<views, points_parents, edges, points, axis, planes, faces, stage>>
      /\ UNCHANGED contours_vars
  BY DEF FacesStep, model
<1>2. Built /\ Located /\ Sorted /\ Staged /\ OnTheWay /\ LeftOut /\ Ringed
  BY <1>1 DEF IInv
<1>3. Ground
  BY <1>1, <1>2, GroundStands
<1>4. OnTheWay' /\ LeftOut' /\ Ringed'
  BY <1>1, <1>2, <1>3, OnTheWayKept, LeftOutKept, RingedKept
<1>5. Sorted'
  BY <1>1, <1>2, SortedStays
<1>6. Built'
  BY <1>1, <1>2 DEF Built
<1>7. Located'
  BY <1>1, <1>2 DEF Located, Aligning!Distance
<1>8. Staged'
  BY <1>1, <1>2 DEF Staged, SortedOut
<1> QED
  BY <1>4, <1>5, <1>6, <1>7, <1>8 DEF IInv

\* The planes of an axis are walked through: those of the next one follow.
LEMMA LeaveFacesKeeps ==
    ASSUME IInv, LeaveFaces
    PROVE  IInv'
<1>1. /\ stage = "faces"
      /\ UNCHANGED <<views, points_parents, edges, points, planes>>
      /\ UNCHANGED contours_vars
      /\ IF axis < 3
         THEN /\ axis' = axis + 1 /\ stage' = stage
              /\ plane' = 1 /\ current' = << >> /\ used' = {} /\ polygons' = << >>
         ELSE stage' = "loaded" /\ axis' = axis
  BY DEF LeaveFaces, model, Walking!Begin
<1>2. Built /\ Located /\ Sorted /\ Staged
  BY DEF IInv
<1>3. axis \in 1 .. 3 /\ Len(planes) = 3
  BY <1>1, <1>2 DEF Staged
<1>4. Sorted'
  BY <1>1, <1>2, SortedStays
<1>5. Built'
  BY <1>1, <1>2 DEF Built
<1>6. stage' \in {"faces", "loaded"}
  BY <1>1
<1>7. Located'
  BY <1>1, <1>2, <1>6 DEF Located, Aligning!Distance
<1>8. axis' \in 1 .. 3
  BY <1>1, <1>3
<1>9. Staged'
  BY <1>1, <1>2, <1>3, <1>6, <1>8 DEF Staged, SortedOut
<1>10. CASE stage' = "faces"
  <2>1. plane' = 1 /\ current' = << >> /\ used' = {} /\ polygons' = << >>
    BY <1>1, <1>10
  <2>2. (OnTheWay /\ LeftOut /\ Ringed)'
    BY <1>9, <1>10, <2>1, WalksBegin
  <2> QED
    BY <1>4, <1>5, <1>7, <1>9, <2>2 DEF IInv
<1>11. CASE stage' = "loaded"
  BY <1>4, <1>5, <1>7, <1>9, <1>11 DEF IInv
<1> QED
  BY <1>6, <1>10, <1>11

LEMMA StutterKeeps ==
    ASSUME IInv, UNCHANGED vars
    PROVE  IInv'
<1>1. /\ UNCHANGED <<views, points_parents, edges, points, axis, planes, faces, stage>>
      /\ UNCHANGED <<plane, current, used, polygons>>
      /\ UNCHANGED contours_vars
  BY DEF vars, model, faces_vars
<1>2. Built /\ Located /\ Sorted /\ Staged
  BY DEF IInv
<1>3. Sorted'
  BY <1>1, <1>2, SortedStays
<1>4. Built' /\ Located' /\ Staged'
  <2>1. Built'
    BY <1>1, <1>2 DEF Built
  <2>2. Located'
    BY <1>1, <1>2 DEF Located, Aligning!Distance
  <2>3. Staged'
    <3>1. Coordinates(points', axis') = Coordinates(points, axis) /\ given' = given
      BY <1>1 DEF contours_vars
    <3> QED
      BY <1>1, <1>2, <3>1 DEF Staged, SortedOut
  <2> QED
    BY <2>1, <2>2, <2>3
<1>5. stage = "faces" => OnTheWay' /\ LeftOut' /\ Ringed'
  <2>1. SUFFICES ASSUME stage = "faces" PROVE OnTheWay' /\ LeftOut' /\ Ringed'
    OBVIOUS
  <2>2. OnTheWay /\ LeftOut /\ Ringed
    BY <2>1 DEF IInv
  <2>3. /\ PlanesOfAxis' = PlanesOfAxis /\ \A k : OfPlane(k)' = OfPlane(k)
        /\ \A k, w : IsWalk(k, w)' <=> IsWalk(k, w)
        /\ \A k, p : Walking!Neighbours(k, p)' = Walking!Neighbours(k, p)
        /\ \A p, q : Walking!Joined(p, q)' <=> Walking!Joined(p, q)
    BY <1>1, SamePlanes
  <2>4. OnTheWay'
    BY <1>1, <2>2, <2>3 DEF OnTheWay
  <2>5. \A k, p : Done(k, p)' <=> Done(k, p)
    BY <1>1 DEF Done
  <2>6. \A k, p : InPolygon(k, p)' <=> InPolygon(k, p)
    BY <1>1 DEF InPolygon
  <2>7. \A k, p : DeadEnd(k, p)' <=> DeadEnd(k, p)
    BY <2>3 DEF DeadEnd
  <2>8. LeftOut'
    BY <2>2, <2>3, <2>5, <2>6, <2>7 DEF LeftOut
  <2>9. \A w : IsRing(w)' <=> IsRing(w)
    BY <2>3 DEF IsRing
  <2>10. \A k : AllRound(k) => AllRound(k)'
    BY <1>1, <2>3, <2>5, <2>6, <2>9 DEF AllRound
  <2>11. Ringed'
    BY <2>2, <2>3, <2>10 DEF Ringed, OfRings
  <2> QED
    BY <2>4, <2>8, <2>11
<1> QED
  BY <1>1, <1>3, <1>4, <1>5 DEF IInv

LEMMA NextInv ==
    ASSUME IInv, [Next]_vars
    PROVE  IInv'
<1>1. CASE Build
  BY <1>1, BuildKeeps
<1>2. CASE AlignStep
  BY <1>2, AlignStepKeeps
<1>3. CASE LeaveAxis
  BY <1>3, LeaveAxisKeeps
<1>4. CASE FacesStep
  BY <1>4, FacesStepKeeps
<1>5. CASE LeaveFaces
  BY <1>5, LeaveFacesKeeps
<1>6. CASE UNCHANGED vars
  BY <1>6, StutterKeeps
<1> QED
  BY <1>1, <1>2, <1>3, <1>4, <1>5, <1>6 DEF Next

-----------------------------------------------------------------------------
(* A box: its points and edges *)

\* Four numbers that are two.
LEMMA TwoOfFour ==
    ASSUME NEW f, Cardinality({f[n] : n \in 1 .. 4}) = 2
    PROVE  \E c, d : /\ c # d /\ \A n \in 1 .. 4 : f[n] \in {c, d}
                     /\ \E m, n \in 1 .. 4 : c = f[m] /\ d = f[n]
<1> DEFINE S == {f[n] : n \in 1 .. 4}
<1>1. S = (({f[1]} \union {f[2]}) \union {f[3]}) \union {f[4]}
  <2>1. 1 .. 4 = {1, 2, 3, 4}
    OBVIOUS
  <2> QED
    BY <2>1
<1>2. IsFiniteSet(S)
  <2> DEFINE A == {f[1]}
             B == A \union {f[2]}
             C == B \union {f[3]}
  <2>1. IsFiniteSet(A)
    BY FS_Singleton
  <2> HIDE DEF A
  <2>2. IsFiniteSet(B)
    BY <2>1, FS_AddElement
  <2> HIDE DEF B
  <2>3. IsFiniteSet(C)
    BY <2>2, FS_AddElement
  <2> HIDE DEF C, S
  <2>4. IsFiniteSet(C \union {f[4]})
    BY <2>3, FS_AddElement
  <2> QED
    BY <1>1, <2>4 DEF A, B, C
<1>3. \A x \in S : \E n \in 1 .. 4 : x = f[n]
  OBVIOUS
<1>4. \A n \in 1 .. 4 : f[n] \in S
  OBVIOUS
<1>5. Cardinality(S) = 2
  OBVIOUS
<1> HIDE DEF S
<1>6. PICK c \in S : TRUE
  BY <1>4
<1>7. IsFiniteSet(S \ {c}) /\ Cardinality(S \ {c}) = 1
  BY <1>2, <1>5, <1>6, FS_RemoveElement
<1>8. PICK d : S \ {c} = {d}
  BY <1>7, FS_Singleton
<1>9. c # d /\ d \in S /\ \A x \in S : x \in {c, d}
  BY <1>8
<1> QED
  BY <1>3, <1>4, <1>6, <1>9

\* How far apart two vertices are across the line of their views.
LEMMA AcrossIs ==
    ASSUME NEW sheet \in Sheets, views = AssignCoordinateSystems(sheet),
           NEW p \in Spot, NEW q \in Spot
    PROVE  /\ Direction(views, 1, 2) = Direction(sheet, 1, 2)
           /\ Direction(views, 1, 2).alpha \in {0, 90}
           /\ Across(p, Direction(views, 1, 2), q) = Abs(Level(2, q) - Level(2, p))
<1>1. /\ 1 \in DOMAIN sheet /\ 2 \in DOMAIN sheet
      /\ views[1].center = sheet[1].center /\ views[2].center = sheet[2].center
  BY HandedOver
<1>2. Direction(views, 1, 2) = Direction(sheet, 1, 2)
  BY <1>1 DEF Direction
<1>3. Direction(sheet, 1, 2).alpha \in {0, 90}
  BY <1>1, InARow
<1>4. p.x \in Int /\ p.y \in Int /\ q.x \in Int /\ q.y \in Int
  BY DEF Spot
<1> DEFINE line == Direction(views, 1, 2)
<1>5. CASE line.alpha = 90
  <2>1. Cos(90) = 0 /\ Sin(90) = 1 /\ Level(2, p) = p.y /\ Level(2, q) = q.y
    BY <1>5 DEF Cos, Sin, Level
  <2> HIDE DEF line
  <2>2. Across(p, line, q) = Abs(q.y - p.y)
    BY <1>4, <1>5, <2>1 DEF Across, DistanceTo
  <2> QED
    BY <1>2, <1>3, <2>1, <2>2 DEF line
<1>6. CASE line.alpha = 0
  <2>1. Cos(0) = 1 /\ Sin(0) = 0 /\ Level(2, p) = p.x /\ Level(2, q) = q.x
    BY <1>6 DEF Cos, Sin, Level
  <2> HIDE DEF line
  <2>2. Across(p, line, q) = Abs(q.x - p.x)
    BY <1>4, <1>6, <2>1 DEF Across, DistanceTo
  <2> QED
    BY <1>2, <1>3, <2>1, <2>2 DEF line
<1> QED
  BY <1>2, <1>3, <1>5, <1>6

\* Numbers that are one of two, CONTOUR_DIFF apart.
Split(f, D) ==
    \E c, d \in Int : Aligning!Distance(c, d) >= CONTOUR_DIFF /\ \A n \in D : f[n] \in {c, d}

\* What a rectangle is, in numbers: the corners' levels and sides.
LEMMA RectangleIs ==
    ASSUME NEW sheet \in Sheets, views = AssignCoordinateSystems(sheet),
           NEW k \in {1, 2}, Rectangle(k)
    PROVE  /\ Vertices(views, k) = 1 .. 4
           /\ \A n \in 1 .. 4 : /\ views[k].vertices[n] \in Spot
                                /\ Level(2, views[k].vertices[n]) \in Int
                                /\ Side(2, views[k].vertices[n]) \in Int
           /\ Split([n \in 1 .. 4 |-> Level(2, views[k].vertices[n])], 1 .. 4)
           /\ Split([n \in 1 .. 4 |-> Side(2, views[k].vertices[n])], 1 .. 4)
           /\ \A m, n \in 1 .. 4 : m # n =>
                 LET level == Level(2, views[k].vertices[m]) = Level(2, views[k].vertices[n])
                     side == Side(2, views[k].vertices[m]) = Side(2, views[k].vertices[n])
                 IN  ~ (level /\ side) /\ (level \/ side <=> Lined(k, m, n))
<1> DEFINE v == views[k].vertices
           xs == [n \in 1 .. 4 |-> v[n].x]
           ys == [n \in 1 .. 4 |-> v[n].y]
<1>1. v \in Seq(Spot) /\ Len(v) = 4
  <2>1. k \in DOMAIN AssignCoordinateSystems(sheet)
    BY HandedOver
  <2>2. views[k].vertices \in Seq(Spot)
    BY <2>1, HandedOver
  <2> QED
    BY <2>2 DEF Rectangle
<1>2. \A n \in 1 .. 4 : v[n] \in Spot /\ v[n].x \in Int /\ v[n].y \in Int
  <2>1. \A n \in 1 .. 4 : v[n] \in Spot
    <3> HIDE DEF v
    <3> QED
      BY <1>1, ElementOfSeq
  <2> QED
    BY <2>1 DEF Spot
<1>3. \A m, n \in 1 .. 4 : m # n =>
          /\ v[m] # v[n]
          /\ v[m].x = v[n].x \/ Abs(v[m].x - v[n].x) >= CONTOUR_DIFF
          /\ v[m].y = v[n].y \/ Abs(v[m].y - v[n].y) >= CONTOUR_DIFF
          /\ v[m].x = v[n].x \/ v[m].y = v[n].y <=> Lined(k, m, n)
  BY DEF Rectangle
<1>4. Cardinality({v[n].x : n \in 1 .. 4}) = 2 /\ Cardinality({v[n].y : n \in 1 .. 4}) = 2
  BY DEF Rectangle
<1>a. Direction(views, 1, 2).alpha \in {0, 90}
  <2>1. v[1] \in Spot
    BY <1>2
  <2> QED
    BY <2>1, AcrossIs
<1> HIDE DEF v
<1>5. \A m, n \in 1 .. 4 : m # n => ~ (v[m].x = v[n].x /\ v[m].y = v[n].y)
  <2>1. \A p, q \in Spot : p.x = q.x /\ p.y = q.y => p = q
    BY DEF Spot
  <2> QED
    BY <1>2, <1>3, <2>1
<1>6. Split(xs, 1 .. 4)
  <2>1. {xs[n] : n \in 1 .. 4} = {v[n].x : n \in 1 .. 4}
    OBVIOUS
  <2>2. PICK c, d : /\ c # d /\ \A n \in 1 .. 4 : xs[n] \in {c, d}
                    /\ \E m, n \in 1 .. 4 : c = xs[m] /\ d = xs[n]
    <3> HIDE DEF xs
    <3> QED
      BY <1>4, <2>1, TwoOfFour
  <2>3. c \in Int /\ d \in Int /\ Abs(c - d) >= CONTOUR_DIFF
    BY <1>2, <1>3, <2>2
  <2>4. Aligning!Distance(c, d) >= CONTOUR_DIFF
    BY <2>3, ModellerAssumption DEF Abs, Aligning!Distance
  <2> QED
    BY <2>2, <2>3, <2>4 DEF Split
<1>7. Split(ys, 1 .. 4)
  <2>1. {ys[n] : n \in 1 .. 4} = {v[n].y : n \in 1 .. 4}
    OBVIOUS
  <2>2. PICK c, d : /\ c # d /\ \A n \in 1 .. 4 : ys[n] \in {c, d}
                    /\ \E m, n \in 1 .. 4 : c = ys[m] /\ d = ys[n]
    <3> HIDE DEF ys
    <3> QED
      BY <1>4, <2>1, TwoOfFour
  <2>3. c \in Int /\ d \in Int /\ Abs(c - d) >= CONTOUR_DIFF
    BY <1>2, <1>3, <2>2
  <2>4. Aligning!Distance(c, d) >= CONTOUR_DIFF
    BY <2>3, ModellerAssumption DEF Abs, Aligning!Distance
  <2> QED
    BY <2>2, <2>3, <2>4 DEF Split
<1>8. Vertices(views, k) = 1 .. 4
  BY <1>1 DEF Vertices, v
<1> DEFINE level == [n \in 1 .. 4 |-> Level(2, v[n])]
           side == [n \in 1 .. 4 |-> Side(2, v[n])]
<1>9. CASE Direction(views, 1, 2).alpha = 90
  <2>1. \A n \in 1 .. 4 : Level(2, v[n]) = v[n].y /\ Side(2, v[n]) = v[n].x
    BY <1>9 DEF Level, Side
  <2>2. level = ys /\ side = xs
    BY <2>1
  <2>3. Split(level, 1 .. 4) /\ Split(side, 1 .. 4)
    <3> HIDE DEF level, side, xs, ys
    <3> QED
      BY <1>6, <1>7, <2>2
  <2>6. \A m, n \in 1 .. 4 : m # n =>
            /\ ~ (Level(2, v[m]) = Level(2, v[n]) /\ Side(2, v[m]) = Side(2, v[n]))
            /\ Level(2, v[m]) = Level(2, v[n]) \/ Side(2, v[m]) = Side(2, v[n]) <=> Lined(k, m, n)
    BY <1>3, <1>5, <2>1
  <2>7. \A n \in 1 .. 4 : v[n] \in Spot /\ Level(2, v[n]) \in Int /\ Side(2, v[n]) \in Int
    BY <1>2, <2>1
  <2> QED
    BY <1>8, <2>3, <2>6, <2>7 DEF v
<1>10. CASE Direction(views, 1, 2).alpha = 0
  <2>1. \A n \in 1 .. 4 : Level(2, v[n]) = v[n].x /\ Side(2, v[n]) = -v[n].y
    BY <1>10 DEF Level, Side
  <2>2. level = xs
    BY <2>1
  <2>3. Split(side, 1 .. 4)
    <3>1. PICK c \in Int, d \in Int :
              Aligning!Distance(c, d) >= CONTOUR_DIFF /\ \A n \in 1 .. 4 : ys[n] \in {c, d}
      BY <1>7 DEF Split
    <3>2. Aligning!Distance(-c, -d) >= CONTOUR_DIFF
      BY <3>1, ModellerAssumption DEF Aligning!Distance
    <3>3. \A n \in 1 .. 4 : side[n] \in {-c, -d}
      BY <2>1, <3>1
    <3>4. -c \in Int /\ -d \in Int
      OBVIOUS
    <3> HIDE DEF side
    <3> QED
      BY <3>2, <3>3, <3>4 DEF Split
  <2>4. Split(level, 1 .. 4)
    <3> HIDE DEF level, side, xs, ys
    <3> QED
      BY <1>6, <2>2
  <2>5. \A m, n \in 1 .. 4 : -v[m].y = -v[n].y <=> v[m].y = v[n].y
    BY <1>2
  <2>6. \A m, n \in 1 .. 4 : m # n =>
            /\ ~ (Level(2, v[m]) = Level(2, v[n]) /\ Side(2, v[m]) = Side(2, v[n]))
            /\ Level(2, v[m]) = Level(2, v[n]) \/ Side(2, v[m]) = Side(2, v[n]) <=> Lined(k, m, n)
    BY <1>3, <1>5, <2>1, <2>5
  <2>7. \A n \in 1 .. 4 : v[n] \in Spot /\ Level(2, v[n]) \in Int /\ Side(2, v[n]) \in Int
    BY <1>2, <2>1
  <2> QED
    BY <1>8, <2>3, <2>4, <2>6, <2>7 DEF v
<1> QED
  BY <1>a, <1>9, <1>10

\* They stay so when all move by the same.
LEMMA SplitShifted ==
    ASSUME NEW D, NEW f \in [D -> Int], Split(f, D), NEW k \in Int
    PROVE  Split([n \in D |-> f[n] - k], D)
<1>1. PICK c \in Int, d \in Int :
          Aligning!Distance(c, d) >= CONTOUR_DIFF /\ \A n \in D : f[n] \in {c, d}
  BY DEF Split
<1>2. Aligning!Distance(c - k, d - k) >= CONTOUR_DIFF
  BY <1>1, ModellerAssumption DEF Aligning!Distance
<1>3. c - k \in Int /\ d - k \in Int
  OBVIOUS
<1> DEFINE g == [n \in D |-> f[n] - k]
<1>4. \A n \in D : g[n] \in {c - k, d - k}
  BY <1>1
<1> HIDE DEF g
<1>5. Split(g, D)
  BY <1>2, <1>3, <1>4 DEF Split
<1> QED
  BY <1>5 DEF g

\* Two numbers of such a list are one, or CONTOUR_DIFF apart.
LEMMA SplitApart ==
    ASSUME NEW D, NEW f \in [D -> Int], Split(f, D)
    PROVE  \A m, n \in D : f[m] = f[n] \/ Aligning!Distance(f[m], f[n]) >= CONTOUR_DIFF
<1>1. PICK c \in Int, d \in Int :
          Aligning!Distance(c, d) >= CONTOUR_DIFF /\ \A n \in D : f[n] \in {c, d}
  BY DEF Split
<1>2. Aligning!Distance(d, c) >= CONTOUR_DIFF
  BY <1>1, Measuring
<1> QED
  BY <1>1, <1>2

\* The numbers of a box: how high its corners are, and how far to the side in the
\* first view and in the second.  Its points are the pairs that are level.
BoxNumbers(lev, s1, s2) ==
    /\ lev \in [1 .. 4 -> Int] /\ s1 \in [1 .. 4 -> Int] /\ s2 \in [1 .. 4 -> Int]
    /\ Split(lev, 1 .. 4) /\ Split(s1, 1 .. 4) /\ Split(s2, 1 .. 4)
    /\ \A m, n \in 1 .. 4 : m # n =>
          /\ ~ (lev[m] = lev[n] /\ s1[m] = s1[n])
          /\ ~ (lev[m] = lev[n] /\ s2[m] = s2[n])
          /\ lev[m] # lev[n] => (s1[m] = s1[n] <=> s2[m] = s2[n])
          /\ Joined(views, 1, m, n) <=> lev[m] = lev[n] \/ s1[m] = s1[n]
    /\ \A c : c \in PairsOn(views) <=>
          \E j, l \in 1 .. 4 : lev[j] = lev[l] /\ c = Parent(1, 2, j, l)
    /\ \A j, l \in 1 .. 4 : lev[j] = lev[l] =>
          LET at == CoordsPoint(views, Parent(1, 2, j, l))
          IN  at["x"] = s1[j] /\ at["y"] = lev[j] /\ at["z"] = s2[l]

\* Both views of a box give such numbers, whichever way they lie on the sheet.
LEMMA BoxHasNumbers ==
    ASSUME NEW sheet \in Sheets, views = AssignCoordinateSystems(sheet), Box
    PROVE  \E lev, s1, s2 : BoxNumbers(lev, s1, s2)
<1> DEFINE V(k, n) == views[k].vertices[n]
           z1 == MainZero(sheet)
           z2 == sheet[2].vertices[NearestVertex(sheet, 2)]
           h1 == [n \in 1 .. 4 |-> Level(2, V(1, n))]
           f1 == [n \in 1 .. 4 |-> Side(2, V(1, n))]
           f2 == [n \in 1 .. 4 |-> Side(2, V(2, n))]
           lev == [n \in 1 .. 4 |-> h1[n] - Level(2, z1)]
           s1 == [n \in 1 .. 4 |-> f1[n] - Side(2, z1)]
           s2 == [n \in 1 .. 4 |-> f2[n] - Side(2, z2)]
           alpha == Direction(sheet, 1, 2).alpha
<1>1. /\ Len(views) = 2 /\ Rectangle(1) /\ Rectangle(2)
      /\ \A n \in 1 .. 4 : Level(2, V(1, n)) = Level(2, V(2, n))
      /\ \A m, n \in 1 .. 4 : m # n => (Lined(1, m, n) <=> Lined(2, m, n))
  BY DEF Box
<1>2. \A k \in {1, 2} :
          /\ Vertices(views, k) = 1 .. 4
          /\ \A n \in 1 .. 4 :
                V(k, n) \in Spot /\ Level(2, V(k, n)) \in Int /\ Side(2, V(k, n)) \in Int
          /\ \A m, n \in 1 .. 4 : m # n =>
                LET level == Level(2, V(k, m)) = Level(2, V(k, n))
                    side == Side(2, V(k, m)) = Side(2, V(k, n))
                IN  ~ (level /\ side) /\ (level \/ side <=> Lined(k, m, n))
  <2>1. \A k \in {1, 2} : Rectangle(k)
    BY <1>1
  <2> QED
    BY <2>1, RectangleIs
<1>3. Split(h1, 1 .. 4) /\ Split(f1, 1 .. 4) /\ Split(f2, 1 .. 4)
  BY <1>1, RectangleIs
<1>4. /\ 1 \in DOMAIN sheet /\ 2 \in DOMAIN sheet /\ DOMAIN views = 1 .. 2
      /\ views[1].vertices = sheet[1].vertices /\ views[2].vertices = sheet[2].vertices
  BY <1>1, HandedOver
<1>5. Direction(views, 1, 2) = Direction(sheet, 1, 2) /\ alpha \in {0, 90}
  <2>1. V(1, 1) \in Spot
    BY <1>2
  <2> QED
    BY <2>1, AcrossIs
<1>6. z1 \in Spot /\ z2 \in Spot
  <2>1. sheet[1].vertices \in Seq(Spot) /\ sheet[2].vertices \in Seq(Spot) /\ sheet[1].vertices # << >>
    BY <1>4, HandedOver
  <2>2. 1 \in DOMAIN sheet[1].vertices /\ NearestVertex(sheet, 2) \in DOMAIN sheet[2].vertices
    BY <1>4, <2>1, Nearest, LenProperties, EmptySeq
  <2> QED
    BY <2>1, <2>2, LenProperties, ElementOfSeq DEF MainZero
<1> HIDE DEF V, z1, z2
<1>7. Level(2, z1) \in Int /\ Side(2, z1) \in Int /\ Side(2, z2) \in Int
  BY <1>6 DEF Level, Side, Spot
<1>8. h1 \in [1 .. 4 -> Int] /\ f1 \in [1 .. 4 -> Int] /\ f2 \in [1 .. 4 -> Int]
  BY <1>2
<1>9. /\ \A n \in 1 .. 4 : lev[n] = Level(2, V(1, n)) - Level(2, z1)
      /\ \A n \in 1 .. 4 : s1[n] = Side(2, V(1, n)) - Side(2, z1)
      /\ \A n \in 1 .. 4 : s2[n] = Side(2, V(2, n)) - Side(2, z2)
  OBVIOUS
<1>10. /\ lev \in [1 .. 4 -> Int] /\ s1 \in [1 .. 4 -> Int] /\ s2 \in [1 .. 4 -> Int]
       /\ Split(lev, 1 .. 4) /\ Split(s1, 1 .. 4) /\ Split(s2, 1 .. 4)
  <2>1. lev \in [1 .. 4 -> Int] /\ s1 \in [1 .. 4 -> Int] /\ s2 \in [1 .. 4 -> Int]
    BY <1>7, <1>8
  <2> DEFINE a == Level(2, z1)
             b == Side(2, z1)
             c == Side(2, z2)
  <2> HIDE DEF h1, f1, f2, a, b, c
  <2>2. Split(lev, 1 .. 4)
    BY <1>3, <1>7, <1>8, SplitShifted
  <2>3. Split(s1, 1 .. 4)
    BY <1>3, <1>7, <1>8, SplitShifted
  <2>4. Split(s2, 1 .. 4)
    BY <1>3, <1>7, <1>8, SplitShifted
  <2> QED
    BY <2>1, <2>2, <2>3, <2>4
<1> HIDE DEF lev, s1, s2, h1, f1, f2
<1>11. \A m, n \in 1 .. 4 :
           /\ lev[m] = lev[n] <=> Level(2, V(1, m)) = Level(2, V(1, n))
           /\ s1[m] = s1[n] <=> Side(2, V(1, m)) = Side(2, V(1, n))
           /\ s2[m] = s2[n] <=> Side(2, V(2, m)) = Side(2, V(2, n))
  BY <1>2, <1>7, <1>9
<1>12. ASSUME NEW m \in 1 .. 4, NEW n \in 1 .. 4, m # n
       PROVE  /\ ~ (lev[m] = lev[n] /\ s1[m] = s1[n])
              /\ ~ (lev[m] = lev[n] /\ s2[m] = s2[n])
              /\ lev[m] # lev[n] => (s1[m] = s1[n] <=> s2[m] = s2[n])
              /\ Joined(views, 1, m, n) <=> lev[m] = lev[n] \/ s1[m] = s1[n]
  <2>1. /\ ~ (lev[m] = lev[n] /\ s1[m] = s1[n])
        /\ lev[m] = lev[n] \/ s1[m] = s1[n] <=> Lined(1, m, n)
    BY <1>2, <1>11, <1>12
  <2>2. /\ ~ (lev[m] = lev[n] /\ s2[m] = s2[n])
        /\ lev[m] = lev[n] \/ s2[m] = s2[n] <=> Lined(2, m, n)
    BY <1>1, <1>2, <1>11, <1>12
  <2>3. Lined(1, m, n) <=> Lined(2, m, n)
    BY <1>1, <1>12
  <2>4. Joined(views, 1, m, n) <=> Lined(1, m, n)
    BY DEF Joined, Lined
  <2> QED
    BY <2>1, <2>2, <2>3, <2>4
<1>13. ASSUME NEW j \in 1 .. 4, NEW l \in 1 .. 4
       PROVE  OnOneLine(views, Parent(1, 2, j, l)) <=> lev[j] = lev[l]
  <2>1. OnOneLine(views, Parent(1, 2, j, l)) <=>
            Abs(Level(2, V(2, l)) - Level(2, V(1, j))) < MAX_DIFF
    <3>1. Across(V(1, j), Direction(views, 1, 2), V(2, l)) = Abs(Level(2, V(2, l)) - Level(2, V(1, j)))
      BY <1>2, AcrossIs
    <3> QED
      BY <3>1 DEF OnOneLine, Parent, V
  <2>2. Level(2, V(2, l)) = Level(2, V(1, l))
    BY <1>1 DEF V
  <2>3. Level(2, V(2, l)) - Level(2, V(1, j)) = lev[l] - lev[j]
    BY <1>2, <1>7, <1>9, <2>2
  <2>4. lev[j] = lev[l] \/ Aligning!Distance(lev[j], lev[l]) >= CONTOUR_DIFF
    BY <1>10, SplitApart
  <2>5. lev[j] \in Int /\ lev[l] \in Int
    BY <1>10
  <2>6. MAX_DIFF \in Nat /\ 0 < MAX_DIFF /\ MAX_DIFF <= CONTOUR_DIFF /\ CONTOUR_DIFF \in Nat
    BY DiffsAssumption, ModellerAssumption
  <2>7. CASE lev[j] = lev[l]
    <3>1. Abs(lev[l] - lev[j]) = 0
      BY <2>5, <2>7 DEF Abs
    <3> QED
      BY <2>1, <2>3, <2>6, <2>7, <3>1
  <2>8. CASE lev[j] # lev[l]
    <3>1. Abs(lev[l] - lev[j]) = Aligning!Distance(lev[j], lev[l]) /\ Abs(lev[l] - lev[j]) \in Int
      BY <2>5 DEF Abs, Aligning!Distance
    <3> QED
      BY <2>1, <2>3, <2>4, <2>6, <2>8, <3>1
  <2> QED
    BY <2>7, <2>8
<1>14. \A c : c \in PairsOn(views) <=>
           \E j, l \in 1 .. 4 : lev[j] = lev[l] /\ c = Parent(1, 2, j, l)
  <2>1. ASSUME NEW c \in PairsOn(views)
        PROVE  \E j, l \in 1 .. 4 : lev[j] = lev[l] /\ c = Parent(1, 2, j, l)
    <3>1. /\ c \in [proj1 : DOMAIN views, pt1 : Nat, proj2 : DOMAIN views, pt2 : Nat]
          /\ c.proj1 < c.proj2 /\ c.pt1 \in Vertices(views, c.proj1)
          /\ c.pt2 \in Vertices(views, c.proj2) /\ OnOneLine(views, c)
      BY DEF PairsOn
    <3>2. c.proj1 = 1 /\ c.proj2 = 2
      BY <1>4, <3>1
    <3>3. c.pt1 \in 1 .. 4 /\ c.pt2 \in 1 .. 4
      BY <1>2, <3>1, <3>2
    <3>4. c = Parent(1, 2, c.pt1, c.pt2)
      BY <3>1, <3>2 DEF Parent
    <3> QED
      BY <1>13, <3>1, <3>3, <3>4
  <2>2. ASSUME NEW j \in 1 .. 4, NEW l \in 1 .. 4, lev[j] = lev[l]
        PROVE  Parent(1, 2, j, l) \in PairsOn(views)
    <3> DEFINE c == Parent(1, 2, j, l)
    <3>1. OnOneLine(views, c)
      BY <1>13, <2>2
    <3>2. /\ c.proj1 = 1 /\ c.proj2 = 2 /\ c.pt1 = j /\ c.pt2 = l
          /\ c \in [proj1 : DOMAIN views, pt1 : Nat, proj2 : DOMAIN views, pt2 : Nat]
      BY <1>4 DEF Parent
    <3>3. j \in Vertices(views, 1) /\ l \in Vertices(views, 2)
      BY <1>2
    <3> HIDE DEF c
    <3>4. c \in PairsOn(views)
      BY <3>1, <3>2, <3>3 DEF PairsOn
    <3> QED
      BY <3>4 DEF c
  <2> QED
    BY <2>1, <2>2
<1>15. ASSUME NEW j \in 1 .. 4, NEW l \in 1 .. 4, lev[j] = lev[l]
       PROVE  LET at == CoordsPoint(views, Parent(1, 2, j, l))
              IN  at["x"] = s1[j] /\ at["y"] = lev[j] /\ at["z"] = s2[l]
  <2> DEFINE c == Parent(1, 2, j, l)
             at == CoordsPoint(views, c)
  <2>1. c \in PairsOn(views) /\ c.proj1 = 1 /\ c.proj2 = 2 /\ c.pt1 = j /\ c.pt2 = l
    BY <1>14, <1>15 DEF Parent
  <2> HIDE DEF c
  <2>2. V(1, j) = sheet[1].vertices[j] /\ V(2, l) = sheet[2].vertices[l]
    BY <1>4 DEF V
  <2>3. /\ V(1, j) \in Spot /\ V(2, l) \in Spot
        /\ IF alpha = 90
           THEN /\ at["x"] = V(1, j).x - z1.x /\ at["y"] = V(1, j).y - z1.y
                /\ at["z"] = V(2, l).x - z2.x
           ELSE /\ at["x"] = z1.y - V(1, j).y /\ at["y"] = V(1, j).x - z1.x
                /\ at["z"] = z2.y - V(2, l).y
    BY <1>2, <2>1, <2>2, ShownAt DEF z1, z2
  <2> HIDE DEF at
  <2>4. CASE alpha = 90
    <3>1. /\ Level(2, V(1, j)) = V(1, j).y /\ Side(2, V(1, j)) = V(1, j).x
          /\ Side(2, V(2, l)) = V(2, l).x
          /\ Level(2, z1) = z1.y /\ Side(2, z1) = z1.x /\ Side(2, z2) = z2.x
      BY <1>5, <2>4 DEF Level, Side
    <3> QED
      BY <1>9, <2>3, <2>4, <3>1 DEF at, c
  <2>5. CASE alpha = 0
    <3>1. /\ Level(2, V(1, j)) = V(1, j).x /\ Side(2, V(1, j)) = -V(1, j).y
          /\ Side(2, V(2, l)) = -V(2, l).y
          /\ Level(2, z1) = z1.x /\ Side(2, z1) = -z1.y /\ Side(2, z2) = -z2.y
      BY <1>5, <2>5 DEF Level, Side
    <3>2. /\ V(1, j).y \in Int /\ V(2, l).y \in Int /\ z1.y \in Int /\ z2.y \in Int
      BY <1>6, <2>3 DEF Spot
    <3>3. s1[j] = z1.y - V(1, j).y /\ s2[l] = z2.y - V(2, l).y /\ lev[j] = V(1, j).x - z1.x
      BY <1>9, <3>1, <3>2
    <3> QED
      BY <2>3, <2>5, <3>3 DEF at, c
  <2> QED
    BY <1>5, <2>4, <2>5
<1> QED
  BY <1>10, <1>12, <1>14, <1>15 DEF BoxNumbers

LEMMA TwoAreTwo ==
    ASSUME NEW c, NEW d, c # d
    PROVE  IsFiniteSet({c, d}) /\ Cardinality({c, d}) = 2
<1>1. IsFiniteSet({c}) /\ Cardinality({c}) = 1
  BY FS_Singleton
<1>2. {c, d} = {c} \union {d} /\ d \notin {c}
  OBVIOUS
<1> QED
  BY <1>1, <1>2, FS_AddElement

\* As long as two numbers tell the members of a set apart, each one of two, the set
\* has no more than two times two; and no more than two when the first is one.
LEMMA NoMoreThanTwo ==
    ASSUME NEW A, NEW f, NEW a, NEW b, a # b, \A n \in A : f[n] \in {a, b},
           \A m, n \in A : f[m] = f[n] => m = n
    PROVE  IsFiniteSet(A) /\ Cardinality(A) <= 2
<1> DEFINE g == [n \in A |-> f[n]]
<1>1. g \in Injection(A, {a, b})
  <2>1. g \in [A -> {a, b}] /\ \A m, n \in A : g[m] = g[n] => m = n
    OBVIOUS
  <2> HIDE DEF g
  <2> QED
    BY <2>1, Fun_IsInj
<1>2. IsFiniteSet({a, b}) /\ Cardinality({a, b}) = 2
  BY TwoAreTwo
<1> HIDE DEF g
<1> QED
  BY <1>1, <1>2, FS_Injection

\* The pairs of corners that are level.
LevelPairs(lev) == {e \in (1 .. 4) \X (1 .. 4) : lev[e[1]] = lev[e[2]]}

\* Of four corners two and two are level; so eight pairs are.
LEMMA EightPairs ==
    ASSUME NEW lev, NEW side,
           Split(lev, 1 .. 4), Split(side, 1 .. 4),
           \A m, n \in 1 .. 4 : lev[m] = lev[n] /\ side[m] = side[n] => m = n
    PROVE  IsFiniteSet(LevelPairs(lev)) /\ Cardinality(LevelPairs(lev)) = 8
<1>0. ASSUME NEW f, Split(f, 1 .. 4)
      PROVE  \E c, d : c # d /\ \A n \in 1 .. 4 : f[n] \in {c, d}
  <2>1. PICK c \in Int, d \in Int :
            Aligning!Distance(c, d) >= CONTOUR_DIFF /\ \A n \in 1 .. 4 : f[n] \in {c, d}
    BY <1>0 DEF Split
  <2>2. CONTOUR_DIFF \in Nat \ {0}
    BY ModellerAssumption
  <2>3. \A n \in Int : Aligning!Distance(n, n) = 0
    BY Measuring
  <2>4. \A n \in Int : ~ (Aligning!Distance(n, n) >= CONTOUR_DIFF)
    BY <2>2, <2>3
  <2> QED
    BY <2>1, <2>4
<1>c. PICK c, d : c # d /\ \A n \in 1 .. 4 : lev[n] \in {c, d}
  BY <1>0
<1>a. PICK a, b : a # b /\ \A n \in 1 .. 4 : side[n] \in {a, b}
  BY <1>0
<1> DEFINE A == {n \in 1 .. 4 : lev[n] = c}
           B == {n \in 1 .. 4 : lev[n] = d}
           pairs == LevelPairs(lev)
<1>1. IsFiniteSet(A) /\ Cardinality(A) <= 2
  <2>1. (\A n \in A : side[n] \in {a, b}) /\ \A m, n \in A : side[m] = side[n] => m = n
    BY <1>a
  <2> HIDE DEF A
  <2> QED
    BY <1>a, <2>1, NoMoreThanTwo
<1>2. IsFiniteSet(B) /\ Cardinality(B) <= 2
  <2>1. (\A n \in B : side[n] \in {a, b}) /\ \A m, n \in B : side[m] = side[n] => m = n
    BY <1>a
  <2> HIDE DEF B
  <2> QED
    BY <1>a, <2>1, NoMoreThanTwo
<1>3. A \union B = 1 .. 4 /\ A \intersect B = {}
  BY <1>c
<1>4. pairs = (A \X A) \union (B \X B) /\ (A \X A) \intersect (B \X B) = {}
  BY <1>c DEF LevelPairs
<1> HIDE DEF A, B, pairs
<1>5. Cardinality(A) \in Nat /\ Cardinality(B) \in Nat
  BY <1>1, <1>2, FS_CardinalityType
<1>6. Cardinality(A) + Cardinality(B) = 4
  <2>1. Cardinality(1 .. 4) = 4
    <3>1. 1 \in Int /\ 4 \in Int
      OBVIOUS
    <3>2. Cardinality(1 .. 4) = IF 1 > 4 THEN 0 ELSE 4 - 1 + 1
      BY <3>1, FS_Interval, Zenon
    <3> QED
      BY <3>2
  <2>2. Cardinality(A \union B) = Cardinality(A) + Cardinality(B) - Cardinality(A \intersect B)
    BY <1>1, <1>2, FS_Union
  <2>3. Cardinality(A \intersect B) = 0
    BY <1>3, FS_EmptySet
  <2>4. Cardinality(A \union B) = 4
    BY <1>3, <2>1, Zenon
  <2> QED
    BY <1>5, <2>2, <2>3, <2>4
<1>7. Cardinality(A) = 2 /\ Cardinality(B) = 2
  BY <1>1, <1>2, <1>5, <1>6
<1>8. /\ IsFiniteSet(A \X A) /\ Cardinality(A \X A) = 4
      /\ IsFiniteSet(B \X B) /\ Cardinality(B \X B) = 4
  <2>1. /\ IsFiniteSet(A \X A) /\ Cardinality(A \X A) = Cardinality(A) * Cardinality(A)
        /\ IsFiniteSet(B \X B) /\ Cardinality(B \X B) = Cardinality(B) * Cardinality(B)
    BY <1>1, <1>2, FS_Product
  <2>2. Cardinality(A) * Cardinality(A) = 4 /\ Cardinality(B) * Cardinality(B) = 4
    BY <1>7
  <2> QED
    BY <2>1, <2>2
<1>9. IsFiniteSet(pairs) /\ Cardinality(pairs) = 8
  <2>1. Cardinality((A \X A) \intersect (B \X B)) = 0
    BY <1>4, FS_EmptySet
  <2>2. /\ IsFiniteSet(pairs)
        /\ Cardinality(pairs) = Cardinality(A \X A) + Cardinality(B \X B)
                                 - Cardinality((A \X A) \intersect (B \X B))
    BY <1>4, <1>8, FS_Union
  <2> QED
    BY <1>8, <2>1, <2>2
<1> QED
  BY <1>9 DEF pairs

\* The points are the eight corners of a box: no two are one, each coordinate is
\* one of two.  Joined are those that are level, and those above each other.
Corners(list, lines) ==
    /\ list \in [1 .. 8 -> [Axis -> Int]]
    /\ \A m, n \in 1 .. 8 : list[m] = list[n] => m = n
    /\ \A a \in Axis : Split([n \in 1 .. 8 |-> list[n][a]], 1 .. 8)
    /\ \A m, n \in 1 .. 8 : m # n =>
          (<<m, n>> \in Range(lines) \/ <<n, m>> \in Range(lines) <=>
              \/ list[m]["y"] = list[n]["y"]
              \/ list[m]["x"] = list[n]["x"] /\ list[m]["z"] = list[n]["z"])

\* From a box build_model makes its eight corners: the four of one view, twice.
LEMMA CornersBuilt ==
    ASSUME NEW sheet \in Sheets, views = AssignCoordinateSystems(sheet), Box
    PROVE  LET parents == Parents(views)
           IN  /\ Len(parents) = 8
               /\ Corners(Points(views, parents), EdgesBetween(views, parents))
<1> DEFINE parents == Parents(views)
           N == Len(parents)
           list == Points(views, parents)
<1>1. PICK lev, s1, s2 : BoxNumbers(lev, s1, s2)
  BY BoxHasNumbers
<1>2. /\ lev \in [1 .. 4 -> Int] /\ s1 \in [1 .. 4 -> Int] /\ s2 \in [1 .. 4 -> Int]
      /\ Split(lev, 1 .. 4) /\ Split(s1, 1 .. 4) /\ Split(s2, 1 .. 4)
  BY <1>1 DEF BoxNumbers
<1>3. \A m, n \in 1 .. 4 : m # n =>
          /\ ~ (lev[m] = lev[n] /\ s1[m] = s1[n])
          /\ ~ (lev[m] = lev[n] /\ s2[m] = s2[n])
          /\ lev[m] # lev[n] => (s1[m] = s1[n] <=> s2[m] = s2[n])
          /\ Joined(views, 1, m, n) <=> lev[m] = lev[n] \/ s1[m] = s1[n]
  BY <1>1 DEF BoxNumbers
<1>4. \A c : c \in PairsOn(views) <=>
          \E j, l \in 1 .. 4 : lev[j] = lev[l] /\ c = Parent(1, 2, j, l)
  BY <1>1 DEF BoxNumbers
<1>5. \A j, l \in 1 .. 4 : lev[j] = lev[l] =>
          LET at == CoordsPoint(views, Parent(1, 2, j, l))
          IN  at["x"] = s1[j] /\ at["y"] = lev[j] /\ at["z"] = s2[l]
  BY <1>1 DEF BoxNumbers
<1>6. parents \in Seq(PairsOn(views)) /\ IsInjective(parents) /\ Range(parents) = PairsOn(views)
  BY ParentsAre
<1> HIDE DEF parents
<1>7. N \in Nat /\ DOMAIN parents = 1 .. N /\ \A n \in 1 .. N : parents[n] \in PairsOn(views)
  BY <1>6, LenProperties, ElementOfSeq
<1>8. \A n \in 1 .. N : /\ parents[n].pt1 \in 1 .. 4 /\ parents[n].pt2 \in 1 .. 4
                        /\ lev[parents[n].pt1] = lev[parents[n].pt2]
                        /\ parents[n] = Parent(1, 2, parents[n].pt1, parents[n].pt2)
  BY <1>4, <1>7 DEF Parent
<1>9. N = 8
  <2> DEFINE pairs == LevelPairs(lev)
             f == [n \in 1 .. N |-> <<parents[n].pt1, parents[n].pt2>>]
  <2>1. IsFiniteSet(pairs) /\ Cardinality(pairs) = 8
    <3>1. \A m, n \in 1 .. 4 : lev[m] = lev[n] /\ s1[m] = s1[n] => m = n
      BY <1>3
    <3> QED
      BY <1>2, <3>1, EightPairs
  <2>2. f \in [1 .. N -> pairs]
    BY <1>8 DEF LevelPairs
  <2>3. ASSUME NEW m \in 1 .. N, NEW n \in 1 .. N, f[m] = f[n] PROVE m = n
    <3>1. parents[m].pt1 = parents[n].pt1 /\ parents[m].pt2 = parents[n].pt2
      BY <2>3
    <3>2. parents[m] = parents[n]
      BY <1>8, <3>1
    <3> QED
      BY <1>6, <1>7, <3>2 DEF IsInjective
  <2>4. ASSUME NEW e \in pairs PROVE \E n \in 1 .. N : f[n] = e
    <3>1. e[1] \in 1 .. 4 /\ e[2] \in 1 .. 4 /\ lev[e[1]] = lev[e[2]] /\ e = <<e[1], e[2]>>
      BY DEF LevelPairs
    <3>2. Parent(1, 2, e[1], e[2]) \in Range(parents)
      BY <1>4, <1>6, <3>1
    <3>3. PICK n \in 1 .. N : parents[n] = Parent(1, 2, e[1], e[2])
      BY <1>7, <3>2 DEF Range
    <3>4. parents[n].pt1 = e[1] /\ parents[n].pt2 = e[2]
      BY <3>3 DEF Parent
    <3> QED
      BY <3>1, <3>4
  <2> HIDE DEF f, pairs
  <2>5. f \in Bijection(1 .. N, pairs)
    BY <2>2, <2>3, <2>4, Fun_IsBij
  <2>6. IsFiniteSet(1 .. N) /\ Cardinality(1 .. N) = N
    BY <1>7, FS_Interval
  <2>7. Cardinality(pairs) = Cardinality(1 .. N)
    BY <2>5, <2>6, FS_Bijection DEF ExistsBijection
  <2> QED
    BY <2>1, <2>6, <2>7
<1> DEFINE j(n) == parents[n].pt1
           l(n) == parents[n].pt2
<1>10. \A n \in 1 .. 8 : /\ j(n) \in 1 .. 4 /\ l(n) \in 1 .. 4 /\ lev[j(n)] = lev[l(n)]
                         /\ list[n]["x"] = s1[j(n)] /\ list[n]["y"] = lev[j(n)]
                         /\ list[n]["z"] = s2[l(n)]
  <2>1. ASSUME NEW n \in 1 .. 8
        PROVE  /\ j(n) \in 1 .. 4 /\ l(n) \in 1 .. 4 /\ lev[j(n)] = lev[l(n)]
               /\ list[n] = CoordsPoint(views, Parent(1, 2, j(n), l(n)))
    BY <1>7, <1>8, <1>9 DEF Points
  <2>2. ASSUME NEW n \in 1 .. 8
        PROVE  list[n]["x"] = s1[j(n)] /\ list[n]["y"] = lev[j(n)] /\ list[n]["z"] = s2[l(n)]
    <3> DEFINE p == j(n)
               q == l(n)
    <3>1. /\ p \in 1 .. 4 /\ q \in 1 .. 4 /\ lev[p] = lev[q]
          /\ list[n] = CoordsPoint(views, Parent(1, 2, p, q))
      BY <2>1
    <3> HIDE DEF list, p, q
    <3>2. list[n]["x"] = s1[p] /\ list[n]["y"] = lev[p] /\ list[n]["z"] = s2[q]
      BY <1>5, <3>1
    <3> QED
      BY <3>2 DEF p, q
  <2> HIDE DEF list, j, l
  <2> QED
    BY <2>1, <2>2
<1>11. list \in [1 .. 8 -> [Axis -> Int]]
  <2>1. \A n \in 1 .. N : CoordsPoint(views, parents[n]) \in [Axis -> Int]
    BY <1>7, PointIn
  <2> QED
    BY <1>7, <1>9, <2>1 DEF Points
<1>12. \A m, n \in 1 .. 8 : j(m) = j(n) /\ l(m) = l(n) => m = n
  <2>1. ASSUME NEW m \in 1 .. 8, NEW n \in 1 .. 8, j(m) = j(n), l(m) = l(n) PROVE m = n
    <3>1. parents[m] = parents[n]
      BY <1>8, <1>9, <2>1
    <3> QED
      BY <1>6, <1>7, <1>9, <3>1 DEF IsInjective
  <2> QED
    BY <2>1
<1>13. \A m, n \in 1 .. 8 : m # n =>
           (<<m, n>> \in Range(EdgesBetween(views, parents))
             \/ <<n, m>> \in Range(EdgesBetween(views, parents)) <=>
                 /\ j(m) = j(n) \/ Joined(views, 1, j(m), j(n))
                 /\ l(m) = l(n) \/ Joined(views, 1, l(m), l(n)))
  <2>1. \A m, n \in 1 .. 8 : Connects(views, parents[m], parents[n]) <=>
            /\ j(m) = j(n) \/ Joined(views, 1, j(m), j(n))
            /\ l(m) = l(n) \/ Joined(views, 1, l(m), l(n))
    <3>1. \A n \in 1 .. 8 : parents[n].proj1 = 1 /\ parents[n].proj2 = 2
      BY <1>8, <1>9 DEF Parent
    <3> QED
      BY <3>1 DEF Connects, SameFirst, Chained, ConnectedOnFirst, ConnectedOnSecond
  <2>2. \A m, n : <<m, n>> \in Range(EdgesBetween(views, parents)) <=>
            /\ m \in 1 .. 8 /\ n \in 1 .. 8 /\ m < n
            /\ Connects(views, parents[m], parents[n])
    BY <1>6, <1>9, EdgesAre
  <2>3. \A p, q : Joined(views, 1, p, q) <=> Joined(views, 1, q, p)
    BY DEF Joined
  <2>4. \A m, n \in 1 .. 8 : m # n => m < n \/ n < m
    OBVIOUS
  <2> HIDE DEF j, l
  <2> QED
    BY <2>1, <2>2, <2>3, <2>4
<1> HIDE DEF list, j, l
<1>14. \A m, n \in 1 .. 8 : m # n =>
           (<<m, n>> \in Range(EdgesBetween(views, parents))
             \/ <<n, m>> \in Range(EdgesBetween(views, parents)) <=>
                 \/ list[m]["y"] = list[n]["y"]
                 \/ list[m]["x"] = list[n]["x"] /\ list[m]["z"] = list[n]["z"])
  <2>1. ASSUME NEW m \in 1 .. 8, NEW n \in 1 .. 8
        PROVE  /\ j(m) = j(n) \/ Joined(views, 1, j(m), j(n)) <=>
                      lev[j(m)] = lev[j(n)] \/ s1[j(m)] = s1[j(n)]
               /\ l(m) = l(n) \/ Joined(views, 1, l(m), l(n)) <=>
                      lev[j(m)] = lev[j(n)] \/ s2[l(m)] = s2[l(n)]
    <3>1. /\ j(m) \in 1 .. 4 /\ l(m) \in 1 .. 4 /\ lev[j(m)] = lev[l(m)]
          /\ j(n) \in 1 .. 4 /\ l(n) \in 1 .. 4 /\ lev[j(n)] = lev[l(n)]
      BY <1>10
    <3> QED
      BY <1>3, <3>1
  <2>2. ASSUME NEW m \in 1 .. 8, NEW n \in 1 .. 8, m # n
        PROVE  <<m, n>> \in Range(EdgesBetween(views, parents))
                 \/ <<n, m>> \in Range(EdgesBetween(views, parents)) <=>
                     \/ list[m]["y"] = list[n]["y"]
                     \/ list[m]["x"] = list[n]["x"] /\ list[m]["z"] = list[n]["z"]
    <3>1. /\ list[m]["x"] = s1[j(m)] /\ list[m]["y"] = lev[j(m)] /\ list[m]["z"] = s2[l(m)]
          /\ list[n]["x"] = s1[j(n)] /\ list[n]["y"] = lev[j(n)] /\ list[n]["z"] = s2[l(n)]
      BY <1>10
    <3>2. <<m, n>> \in Range(EdgesBetween(views, parents))
            \/ <<n, m>> \in Range(EdgesBetween(views, parents)) <=>
                /\ j(m) = j(n) \/ Joined(views, 1, j(m), j(n))
                /\ l(m) = l(n) \/ Joined(views, 1, l(m), l(n))
      BY <1>13, <2>2, Zenon
    <3>3. /\ j(m) = j(n) \/ Joined(views, 1, j(m), j(n)) <=>
                 lev[j(m)] = lev[j(n)] \/ s1[j(m)] = s1[j(n)]
          /\ l(m) = l(n) \/ Joined(views, 1, l(m), l(n)) <=>
                 lev[j(m)] = lev[j(n)] \/ s2[l(m)] = s2[l(n)]
      BY <2>1
    <3> QED
      BY <3>1, <3>2, <3>3
  <2> QED
    BY <2>2
<1>15. \A m, n \in 1 .. 8 : list[m] = list[n] => m = n
  <2>1. ASSUME NEW m \in 1 .. 8, NEW n \in 1 .. 8, list[m] = list[n] PROVE m = n
    <3>1. /\ j(m) \in 1 .. 4 /\ l(m) \in 1 .. 4 /\ lev[j(m)] = lev[l(m)]
          /\ j(n) \in 1 .. 4 /\ l(n) \in 1 .. 4 /\ lev[j(n)] = lev[l(n)]
      BY <1>10
    <3>2. s1[j(m)] = s1[j(n)] /\ lev[j(m)] = lev[j(n)] /\ s2[l(m)] = s2[l(n)]
      BY <1>10, <2>1
    <3>3. j(m) = j(n) /\ l(m) = l(n)
      <4>1. \A p, q \in 1 .. 4 : lev[p] = lev[q] /\ s1[p] = s1[q] => p = q
        BY <1>3
      <4>2. \A p, q \in 1 .. 4 : lev[p] = lev[q] /\ s2[p] = s2[q] => p = q
        BY <1>3
      <4>3. lev[l(m)] = lev[l(n)]
        BY <3>1, <3>2
      <4> QED
        BY <3>1, <3>2, <4>1, <4>2, <4>3, Zenon
    <3> QED
      BY <1>12, <3>3
  <2> QED
    BY <2>1
<1>16. ASSUME NEW a \in Axis PROVE Split([n \in 1 .. 8 |-> list[n][a]], 1 .. 8)
  <2> DEFINE g == [n \in 1 .. 8 |-> list[n][a]]
  <2>1. \A n \in 1 .. 8 : g[n] = list[n][a]
    OBVIOUS
  <2> HIDE DEF g
  <2>2. PICK f \in {lev, s1, s2} : \A n \in 1 .. 8 : \E k \in 1 .. 4 : g[n] = f[k]
    <3>1. CASE a = "x"
      BY <1>10, <2>1, <3>1
    <3>2. CASE a = "y"
      BY <1>10, <2>1, <3>2
    <3>3. CASE a = "z"
      BY <1>10, <2>1, <3>3
    <3> QED
      BY <3>1, <3>2, <3>3 DEF Axis
  <2>3. PICK c \in Int, d \in Int :
            Aligning!Distance(c, d) >= CONTOUR_DIFF /\ \A k \in 1 .. 4 : f[k] \in {c, d}
    BY <1>2, <2>2 DEF Split
  <2>4. Split(g, 1 .. 8)
    BY <2>2, <2>3 DEF Split
  <2> QED
    BY <2>4 DEF g
<1> QED
  BY <1>9, <1>11, <1>14, <1>15, <1>16 DEF Corners, list, parents

-----------------------------------------------------------------------------
(* A box: its sides *)

\* Eight different corners with these coordinates.
Within(list, X, Y, Z) ==
    /\ \A n \in 1 .. 8 : list[n]["x"] \in X /\ list[n]["y"] \in Y /\ list[n]["z"] \in Z
    /\ \A m, n \in 1 .. 8 : (\A a \in {"x", "y", "z"} : list[m][a] = list[n][a]) => m = n

\* Eight different corners, each coordinate one of two: every combination is taken.
LEMMA EveryCorner ==
    ASSUME NEW list, NEW X, NEW Y, NEW Z,
           IsFiniteSet(X), Cardinality(X) = 2, IsFiniteSet(Y), Cardinality(Y) = 2,
           IsFiniteSet(Z), Cardinality(Z) = 2, Within(list, X, Y, Z)
    PROVE  \A x \in X : \A y \in Y : \A z \in Z : \E n \in 1 .. 8 :
               list[n]["x"] = x /\ list[n]["y"] = y /\ list[n]["z"] = z
<1> DEFINE T == (X \X Y) \X Z
           f == [n \in 1 .. 8 |-> << <<list[n]["x"], list[n]["y"]>>, list[n]["z"]>>]
<1>1. IsFiniteSet(T) /\ Cardinality(T) = 8
  <2>1. IsFiniteSet(X \X Y) /\ Cardinality(X \X Y) = Cardinality(X) * Cardinality(Y)
    BY FS_Product
  <2>2. Cardinality(X \X Y) = 4
    BY <2>1
  <2>3. IsFiniteSet(T) /\ Cardinality(T) = Cardinality(X \X Y) * Cardinality(Z)
    <3> DEFINE XY == X \X Y
    <3>1. IsFiniteSet(XY)
      BY <2>1
    <3> HIDE DEF XY
    <3>2. IsFiniteSet(XY \X Z) /\ Cardinality(XY \X Z) = Cardinality(XY) * Cardinality(Z)
      BY <3>1, FS_Product
    <3> QED
      BY <3>2 DEF XY
  <2> QED
    BY <2>2, <2>3
<1>2. f \in [1 .. 8 -> T]
  BY DEF Within
<1>3. ASSUME NEW m \in 1 .. 8, NEW n \in 1 .. 8, f[m] = f[n] PROVE m = n
  <2>1. /\ list[m]["x"] = list[n]["x"] /\ list[m]["y"] = list[n]["y"]
        /\ list[m]["z"] = list[n]["z"]
    BY <1>3
  <2>2. \A a \in {"x", "y", "z"} : list[m][a] = list[n][a]
    BY <2>1
  <2> QED
    BY <2>2 DEF Within
<1>4. IsFiniteSet(1 .. 8) /\ Cardinality(1 .. 8) = 8
  <2>1. 1 \in Int /\ 8 \in Int
    OBVIOUS
  <2>2. IsFiniteSet(1 .. 8) /\ Cardinality(1 .. 8) = IF 1 > 8 THEN 0 ELSE 8 - 1 + 1
    BY <2>1, FS_Interval, Zenon
  <2> QED
    BY <2>2
<1>5. f \in Surjection(1 .. 8, T)
  <2> HIDE DEF f, T
  <2>1. f \in Injection(1 .. 8, T)
    BY <1>2, <1>3, Fun_IsInj
  <2>2. Cardinality(1 .. 8) = Cardinality(T) <=> f \in Surjection(1 .. 8, T)
    BY <1>1, <2>1, FS_Injection
  <2> QED
    BY <1>1, <1>4, <2>2
<1>6. \A t \in T : \E n \in 1 .. 8 : f[n] = t
  <2> HIDE DEF f, T
  <2> QED
    BY <1>5 DEF Surjection
<1>7. ASSUME NEW x \in X, NEW y \in Y, NEW z \in Z
      PROVE  \E n \in 1 .. 8 : list[n]["x"] = x /\ list[n]["y"] = y /\ list[n]["z"] = z
  <2>1. << <<x, y>>, z>> \in T
    OBVIOUS
  <2>2. PICK n \in 1 .. 8 : f[n] = << <<x, y>>, z>>
    BY <1>6, <2>1
  <2> QED
    BY <2>2
<1> QED
  BY <1>7

\* A coordinate takes two values, and the three of them any values together.
LEMMA CornersAre ==
    ASSUME Corners(points, edges)
    PROVE  /\ \A a \in Axis : \E c, d \in Int :
                 /\ c # d /\ \A n \in 1 .. 8 : points[n][a] \in {c, d}
                 /\ \E n \in 1 .. 8 : points[n][a] = c
                 /\ \E n \in 1 .. 8 : points[n][a] = d
           /\ \A m, n, k \in 1 .. 8 : \E h \in 1 .. 8 :
                 /\ points[h]["x"] = points[m]["x"] /\ points[h]["y"] = points[n]["y"]
                 /\ points[h]["z"] = points[k]["z"]
<1>1. \A a \in Axis : \E c, d \in Int : c # d /\ \A n \in 1 .. 8 : points[n][a] \in {c, d}
  <2> SUFFICES ASSUME NEW a \in Axis
               PROVE  \E c, d \in Int : c # d /\ \A n \in 1 .. 8 : points[n][a] \in {c, d}
    OBVIOUS
  <2> DEFINE g == [n \in 1 .. 8 |-> points[n][a]]
  <2>1. Split(g, 1 .. 8)
    BY DEF Corners
  <2>2. \A n \in 1 .. 8 : g[n] = points[n][a]
    OBVIOUS
  <2> HIDE DEF g
  <2>3. PICK c \in Int, d \in Int :
            Aligning!Distance(c, d) >= CONTOUR_DIFF /\ \A n \in 1 .. 8 : g[n] \in {c, d}
    BY <2>1 DEF Split
  <2>4. CONTOUR_DIFF \in Nat \ {0} /\ \A n \in Int : Aligning!Distance(n, n) = 0
    BY ModellerAssumption, Measuring
  <2>5. c # d
    BY <2>3, <2>4
  <2> QED
    BY <2>2, <2>3, <2>5
<1>2. "x" \in Axis /\ "y" \in Axis /\ "z" \in Axis
  BY DEF Axis
<1>3. PICK xc \in Int, xd \in Int : xc # xd /\ \A n \in 1 .. 8 : points[n]["x"] \in {xc, xd}
  BY <1>1, <1>2
<1>4. PICK yc \in Int, yd \in Int : yc # yd /\ \A n \in 1 .. 8 : points[n]["y"] \in {yc, yd}
  BY <1>1, <1>2
<1>5. PICK zc \in Int, zd \in Int : zc # zd /\ \A n \in 1 .. 8 : points[n]["z"] \in {zc, zd}
  BY <1>1, <1>2
<1> DEFINE X == {xc, xd}
           Y == {yc, yd}
           Z == {zc, zd}
<1>6. \A x \in X : \A y \in Y : \A z \in Z : \E n \in 1 .. 8 :
          points[n]["x"] = x /\ points[n]["y"] = y /\ points[n]["z"] = z
  <2>1. /\ IsFiniteSet(X) /\ Cardinality(X) = 2 /\ IsFiniteSet(Y) /\ Cardinality(Y) = 2
        /\ IsFiniteSet(Z) /\ Cardinality(Z) = 2
    BY <1>3, <1>4, <1>5, TwoAreTwo
  <2>2. \A n \in 1 .. 8 : points[n]["x"] \in X /\ points[n]["y"] \in Y /\ points[n]["z"] \in Z
    BY <1>3, <1>4, <1>5
  <2>3. \A m, n \in 1 .. 8 : (\A a \in {"x", "y", "z"} : points[m][a] = points[n][a]) => m = n
    <3>1. ASSUME NEW m \in 1 .. 8, NEW n \in 1 .. 8,
                 \A a \in {"x", "y", "z"} : points[m][a] = points[n][a]
          PROVE  m = n
      <4>1. points[m] \in [Axis -> Int] /\ points[n] \in [Axis -> Int]
        BY DEF Corners
      <4>2. \A a \in Axis : points[m][a] = points[n][a]
        BY <3>1 DEF Axis
      <4>3. points[m] = points[n]
        BY <4>1, <4>2
      <4> QED
        BY <4>3 DEF Corners
    <3> QED
      BY <3>1
  <2>4. Within(points, X, Y, Z)
    BY <2>2, <2>3 DEF Within
  <2> HIDE DEF X, Y, Z
  <2> QED
    BY <2>1, <2>4, EveryCorner
<1>7. \A m, n, k \in 1 .. 8 : \E h \in 1 .. 8 :
          /\ points[h]["x"] = points[m]["x"] /\ points[h]["y"] = points[n]["y"]
          /\ points[h]["z"] = points[k]["z"]
  <2>1. \A n \in 1 .. 8 : points[n]["x"] \in X /\ points[n]["y"] \in Y /\ points[n]["z"] \in Z
    BY <1>3, <1>4, <1>5
  <2> HIDE DEF X, Y, Z
  <2>2. ASSUME NEW m \in 1 .. 8, NEW n \in 1 .. 8, NEW k \in 1 .. 8
        PROVE  \E h \in 1 .. 8 :
                   /\ points[h]["x"] = points[m]["x"] /\ points[h]["y"] = points[n]["y"]
                   /\ points[h]["z"] = points[k]["z"]
    <3> DEFINE x == points[m]["x"]
               y == points[n]["y"]
               z == points[k]["z"]
    <3>1. x \in X /\ y \in Y /\ z \in Z
      BY <2>1
    <3> HIDE DEF x, y, z
    <3>2. \E h \in 1 .. 8 : points[h]["x"] = x /\ points[h]["y"] = y /\ points[h]["z"] = z
      BY <1>6, <3>1
    <3> QED
      BY <3>2 DEF x, y, z
  <2> QED
    BY <2>2
<1>8. /\ xc \in X /\ xd \in X /\ yc \in Y /\ yd \in Y /\ zc \in Z /\ zd \in Z
  OBVIOUS
<1> HIDE DEF X, Y, Z
<1>9. /\ (\E n \in 1 .. 8 : points[n]["x"] = xc) /\ \E n \in 1 .. 8 : points[n]["x"] = xd
      /\ (\E n \in 1 .. 8 : points[n]["y"] = yc) /\ \E n \in 1 .. 8 : points[n]["y"] = yd
      /\ (\E n \in 1 .. 8 : points[n]["z"] = zc) /\ \E n \in 1 .. 8 : points[n]["z"] = zd
  BY <1>6, <1>8
<1>10. \A a \in Axis : a = "x" \/ a = "y" \/ a = "z"
  BY DEF Axis
<1>11. ASSUME NEW a \in Axis
       PROVE  \E c, d \in Int : /\ c # d /\ \A n \in 1 .. 8 : points[n][a] \in {c, d}
                                /\ \E n \in 1 .. 8 : points[n][a] = c
                                /\ \E n \in 1 .. 8 : points[n][a] = d
  <2>1. CASE a = "x"
    BY <1>3, <1>9, <2>1
  <2>2. CASE a = "y"
    BY <1>4, <1>9, <2>2
  <2>3. CASE a = "z"
    BY <1>5, <1>9, <2>3
  <2> QED
    BY <1>10, <2>1, <2>2, <2>3
<1> QED
  BY <1>7, <1>11

\* A walk in this set that goes to no point twice goes on until it has four, and
\* then is at a neighbour of its first one.
RoundTrip(S) ==
    /\ IsFiniteSet(S) /\ Cardinality(S) = 4
    /\ \A p \in S : \E q \in S : q # p /\ Walking!Joined(p, q)
    /\ \A p, q \in S : p # q => \E r \in S : r # p /\ r # q /\ Walking!Joined(q, r)
    /\ \A p, q, r \in S :
          p # q /\ q # r /\ p # r /\ Walking!Joined(p, q) /\ Walking!Joined(q, r) =>
              \E s \in S : s # p /\ s # q /\ s # r /\ Walking!Joined(r, s)
    /\ \A p, q, r, s \in S :
          /\ p # q /\ p # r /\ p # s /\ q # r /\ q # s /\ r # s
          /\ Walking!Joined(p, q) /\ Walking!Joined(q, r) /\ Walking!Joined(r, s)
          => Walking!Joined(s, p)

IsFour(S, p, q, r, s) ==
    p # q /\ p # r /\ p # s /\ q # r /\ q # s /\ r # s /\ S = {p, q, r, s}

LEMMA FourAreFour ==
    ASSUME NEW S, NEW p, NEW q, NEW r, NEW s, IsFour(S, p, q, r, s)
    PROVE  IsFiniteSet(S) /\ Cardinality(S) = 4
<1> DEFINE A == {p, q}
           B == {r, s}
<1>1. IsFiniteSet(A) /\ Cardinality(A) = 2 /\ IsFiniteSet(B) /\ Cardinality(B) = 2
  <2>1. p # q /\ r # s
    BY DEF IsFour
  <2> QED
    BY <2>1, TwoAreTwo
<1>2. S = A \union B /\ A \intersect B = {}
  BY DEF IsFour
<1> HIDE DEF A, B
<1>3. IsFiniteSet(A \union B)
      /\ Cardinality(A \union B) = Cardinality(A) + Cardinality(B) - Cardinality(A \intersect B)
  BY <1>1, FS_Union
<1>4. Cardinality(A \intersect B) = 0
  BY <1>2, FS_EmptySet
<1>5. Cardinality(A \union B) = 4
  BY <1>1, <1>3, <1>4
<1> QED
  BY <1>2, <1>3, <1>5, Zenon

\* Four points of a grid, either all joined or those in one row or column.
Grid(S, u, w) ==
    /\ \E u1, u2, w1, w2 :
          /\ u1 # u2 /\ w1 # w2 /\ \A n \in S : u[n] \in {u1, u2} /\ w[n] \in {w1, w2}
          /\ \E n \in S : u[n] = u1 /\ w[n] = w1
          /\ \E n \in S : u[n] = u1 /\ w[n] = w2
          /\ \E n \in S : u[n] = u2 /\ w[n] = w1
          /\ \E n \in S : u[n] = u2 /\ w[n] = w2
    /\ \A m, n \in S : u[m] = u[n] /\ w[m] = w[n] => m = n
    /\ \/ \A m, n \in S : m # n => Walking!Joined(m, n)
       \/ \A m, n \in S : m # n => (Walking!Joined(m, n) <=> u[m] = u[n] \/ w[m] = w[n])

\* Two by two points, all joined or just those in line: a walk goes round them.
LEMMA FourRound ==
    ASSUME NEW S, NEW u, NEW w, Grid(S, u, w)
    PROVE  RoundTrip(S)
<1>a. PICK u1, u2, w1, w2 :
          /\ u1 # u2 /\ w1 # w2 /\ \A n \in S : u[n] \in {u1, u2} /\ w[n] \in {w1, w2}
          /\ \E n \in S : u[n] = u1 /\ w[n] = w1
          /\ \E n \in S : u[n] = u1 /\ w[n] = w2
          /\ \E n \in S : u[n] = u2 /\ w[n] = w1
          /\ \E n \in S : u[n] = u2 /\ w[n] = w2
  BY Zenon DEF Grid
<1>b. \A m, n \in S : u[m] = u[n] /\ w[m] = w[n] => m = n
  BY DEF Grid
<1>c. \/ \A m, n \in S : m # n => Walking!Joined(m, n)
      \/ \A m, n \in S : m # n => (Walking!Joined(m, n) <=> u[m] = u[n] \/ w[m] = w[n])
  BY Zenon DEF Grid
<1>1. PICK p1 \in S : u[p1] = u1 /\ w[p1] = w1
  BY <1>a
<1>2. PICK p2 \in S : u[p2] = u1 /\ w[p2] = w2
  BY <1>a
<1>3. PICK p3 \in S : u[p3] = u2 /\ w[p3] = w1
  BY <1>a
<1>4. PICK p4 \in S : u[p4] = u2 /\ w[p4] = w2
  BY <1>a
<1>5. p1 # p2 /\ p1 # p3 /\ p1 # p4 /\ p2 # p3 /\ p2 # p4 /\ p3 # p4
  BY <1>a, <1>1, <1>2, <1>3, <1>4
<1>6. \A n \in S : n = p1 \/ n = p2 \/ n = p3 \/ n = p4
  BY <1>a, <1>b, <1>1, <1>2, <1>3, <1>4
<1>7. IsFiniteSet(S) /\ Cardinality(S) = 4
  <2>1. S = {p1, p2, p3, p4}
    BY <1>6
  <2>2. IsFour(S, p1, p2, p3, p4)
    BY <1>5, <2>1, Zenon DEF IsFour
  <2> QED
    BY <2>2, FourAreFour, Zenon
<1>8. CASE \A m, n \in S : m # n => Walking!Joined(m, n)
  <2>1. \A p \in S : \E q \in S : q # p /\ Walking!Joined(p, q)
    BY <1>5, <1>6, <1>8
  <2>2. \A p, q \in S : p # q => \E r \in S : r # p /\ r # q /\ Walking!Joined(q, r)
    BY <1>5, <1>6, <1>8
  <2>3. \A p, q, r \in S :
            p # q /\ q # r /\ p # r => \E s \in S : s # p /\ s # q /\ s # r /\ Walking!Joined(r, s)
    BY <1>5, <1>6, <1>8
  <2>4. \A p, q, r, s \in S :
            /\ p # q /\ p # r /\ p # s /\ q # r /\ q # s /\ r # s
            /\ Walking!Joined(p, q) /\ Walking!Joined(q, r) /\ Walking!Joined(r, s)
            => Walking!Joined(s, p)
    BY <1>8
  <2>5. \A p, q, r \in S :
            p # q /\ q # r /\ p # r /\ Walking!Joined(p, q) /\ Walking!Joined(q, r) =>
                \E s \in S : s # p /\ s # q /\ s # r /\ Walking!Joined(r, s)
    BY <2>3
  <2> QED
    BY <1>7, <2>1, <2>2, <2>4, <2>5 DEF RoundTrip
<1>9. CASE \A m, n \in S : m # n => (Walking!Joined(m, n) <=> u[m] = u[n] \/ w[m] = w[n])
  <2>1. /\ Walking!Joined(p1, p2) /\ Walking!Joined(p2, p1) /\ Walking!Joined(p1, p3)
        /\ Walking!Joined(p3, p1) /\ Walking!Joined(p2, p4) /\ Walking!Joined(p4, p2)
        /\ Walking!Joined(p3, p4) /\ Walking!Joined(p4, p3)
        /\ ~ Walking!Joined(p1, p4) /\ ~ Walking!Joined(p4, p1)
        /\ ~ Walking!Joined(p2, p3) /\ ~ Walking!Joined(p3, p2)
    BY <1>a, <1>1, <1>2, <1>3, <1>4, <1>5, <1>9
  <2>2. \A p \in S : \E q \in S : q # p /\ Walking!Joined(p, q)
    BY <1>5, <1>6, <2>1
  <2>3. \A p, q \in S : p # q => \E r \in S : r # p /\ r # q /\ Walking!Joined(q, r)
    BY <1>5, <1>6, <2>1
  <2>4. \A p, q, r \in S :
            p # q /\ q # r /\ p # r /\ Walking!Joined(p, q) /\ Walking!Joined(q, r) =>
                \E s \in S : s # p /\ s # q /\ s # r /\ Walking!Joined(r, s)
    BY <1>5, <1>6, <2>1
  <2>5. \A p, q, r, s \in S :
            /\ p # q /\ p # r /\ p # s /\ q # r /\ q # s /\ r # s
            /\ Walking!Joined(p, q) /\ Walking!Joined(q, r) /\ Walking!Joined(r, s)
            => Walking!Joined(s, p)
    BY <1>5, <1>6, <2>1
  <2> QED
    BY <1>7, <2>2, <2>3, <2>4, <2>5 DEF RoundTrip
<1> QED
  BY <1>c, <1>8, <1>9

\* What is joined, by the edges as addFaces looks them up.
LEMMA JoinedCorners ==
    ASSUME Corners(points, edges), Built
    PROVE  \A m, n \in 1 .. 8 : m # n =>
               (Walking!Joined(m, n) <=>
                   \/ points[m]["y"] = points[n]["y"]
                   \/ points[m]["x"] = points[n]["x"] /\ points[m]["z"] = points[n]["z"])
<1>1. ASSUME NEW e \in Range(edges) PROVE e = <<e[1], e[2]>>
  <2>1. PICK n \in DOMAIN edges : e = edges[n]
    BY DEF Range
  <2>2. e \in Forward(Len(points_parents))
    <3>1. edges \in Seq(Forward(Len(points_parents))) /\ n \in 1 .. Len(edges)
      BY LenProperties DEF Built
    <3> QED
      BY <2>1, <3>1, ElementOfSeq
  <2> QED
    BY <2>2 DEF Forward
<1>2. \A m, n : Walking!Joined(m, n) <=> <<m, n>> \in Range(edges) \/ <<n, m>> \in Range(edges)
  <2>1. ASSUME NEW m, NEW n, Walking!Joined(m, n)
        PROVE  <<m, n>> \in Range(edges) \/ <<n, m>> \in Range(edges)
    <3>1. PICK e \in Range(edges) : {m, n} = {e[1], e[2]}
      BY <2>1 DEF Walking!Joined
    <3>2. (m = e[1] /\ n = e[2]) \/ (m = e[2] /\ n = e[1])
      BY <3>1
    <3> QED
      BY <1>1, <3>2
  <2>2. ASSUME NEW m, NEW n, <<m, n>> \in Range(edges) \/ <<n, m>> \in Range(edges)
        PROVE  Walking!Joined(m, n)
    <3>1. PICK e \in Range(edges) : e = <<m, n>> \/ e = <<n, m>>
      BY <2>2
    <3>2. {m, n} = {e[1], e[2]}
      BY <3>1
    <3> QED
      BY <3>2 DEF Walking!Joined
  <2> QED
    BY <2>1, <2>2
<1> QED
  BY <1>2 DEF Corners

\* The points with one coordinate of a box in common: one of its sides.
SideOf(a, m) == {n \in 1 .. 8 : points[n][a] = points[m][a]}

\* A side is four points, around which a walk finds its way.
LEMMA SideRound ==
    ASSUME Corners(points, edges), Built, NEW a \in Axis, NEW m \in 1 .. 8
    PROVE  RoundTrip(SideOf(a, m))
<1> DEFINE S == SideOf(a, m)
           D == 1 .. 8
<1>1. \A n : n \in S <=> n \in D /\ points[n][a] = points[m][a]
  BY DEF SideOf
<1>d. points \in [D -> [Axis -> Int]] /\ \A n, k \in D : points[n] = points[k] => n = k
  BY DEF Corners
<1>m. m \in D
  OBVIOUS
<1>2. \A n, k \in S : n \in D /\ k \in D /\ points[n][a] = points[k][a]
  BY <1>1
<1>4. \A n, k \in S : n # k =>
          (Walking!Joined(n, k) <=>
              \/ points[n]["y"] = points[k]["y"]
              \/ points[n]["x"] = points[k]["x"] /\ points[n]["z"] = points[k]["z"])
  BY <1>1, JoinedCorners
<1>5. \A n, k, g \in D : \E h \in D :
          /\ points[h]["x"] = points[n]["x"] /\ points[h]["y"] = points[k]["y"]
          /\ points[h]["z"] = points[g]["z"]
  BY CornersAre
<1>e. \A g \in Axis : \E u1, u2 \in Int :
          /\ u1 # u2 /\ \A n \in D : points[n][g] \in {u1, u2}
          /\ \E n \in D : points[n][g] = u1
          /\ \E n \in D : points[n][g] = u2
  BY CornersAre
<1> HIDE DEF S, D
<1> DEFINE Other(b, c) ==
        /\ \A h \in Axis : h = a \/ h = b \/ h = c
        /\ \A n, k \in D : \E h \in D :
              points[h][a] = points[m][a] /\ points[h][b] = points[n][b] /\ points[h][c] = points[k][c]
        /\ \/ \A n, k \in S : n # k => Walking!Joined(n, k)
           \/ \A n, k \in S : n # k =>
                 (Walking!Joined(n, k) <=> points[n][b] = points[k][b] \/ points[n][c] = points[k][c])
<1>3. ASSUME NEW b \in Axis, NEW c \in Axis, Other(b, c) PROVE RoundTrip(S)
  <2> DEFINE u == [n \in D |-> points[n][b]]
             w == [n \in D |-> points[n][c]]
  <2>1. \A n \in D : u[n] = points[n][b] /\ w[n] = points[n][c]
    OBVIOUS
  <2> HIDE DEF u, w
  <2>3. PICK u1 \in Int, u2 \in Int :
            /\ u1 # u2 /\ \A n \in D : u[n] \in {u1, u2}
            /\ \E n \in D : u[n] = u1
            /\ \E n \in D : u[n] = u2
    BY <1>e, <2>1
  <2>4. PICK w1 \in Int, w2 \in Int :
            /\ w1 # w2 /\ \A n \in D : w[n] \in {w1, w2}
            /\ \E n \in D : w[n] = w1
            /\ \E n \in D : w[n] = w2
    BY <1>e, <2>1
  <2>5. \A n, k \in D : \E h \in S : u[h] = u[n] /\ w[h] = w[k]
    BY <1>1, <1>3, <2>1
  <2>6. /\ \E n \in S : u[n] = u1 /\ w[n] = w1
        /\ \E n \in S : u[n] = u1 /\ w[n] = w2
        /\ \E n \in S : u[n] = u2 /\ w[n] = w1
        /\ \E n \in S : u[n] = u2 /\ w[n] = w2
    BY <2>3, <2>4, <2>5
  <2>7. \A n \in S : u[n] \in {u1, u2} /\ w[n] \in {w1, w2}
    BY <1>1, <2>3, <2>4
  <2>8. ASSUME NEW n \in S, NEW k \in S, u[n] = u[k], w[n] = w[k] PROVE n = k
    <3>1. n \in D /\ k \in D /\ points[n][a] = points[k][a]
      BY <1>2
    <3>2. points[n][b] = points[k][b] /\ points[n][c] = points[k][c]
      BY <2>1, <2>8, <3>1
    <3>5. \A h \in Axis : points[n][h] = points[k][h]
      <4>1. ASSUME NEW h \in Axis PROVE points[n][h] = points[k][h]
        <5>1. h = a \/ h = b \/ h = c
          BY <1>3
        <5> QED
          BY <3>1, <3>2, <5>1
      <4> QED
        BY <4>1
    <3>3. points[n] \in [Axis -> Int] /\ points[k] \in [Axis -> Int]
      BY <1>d, <3>1
    <3>4. points[n] = points[k]
      BY <3>3, <3>5
    <3> QED
      BY <1>d, <3>1, <3>4
  <2>9. \/ \A n, k \in S : n # k => Walking!Joined(n, k)
        \/ \A n, k \in S : n # k => (Walking!Joined(n, k) <=> u[n] = u[k] \/ w[n] = w[k])
    <3>1. \A n \in S : u[n] = points[n][b] /\ w[n] = points[n][c]
      BY <1>1, <2>1
    <3>2. CASE \A n, k \in S : n # k => Walking!Joined(n, k)
      BY <3>2
    <3>3. CASE \A n, k \in S : n # k =>
                  (Walking!Joined(n, k) <=>
                      points[n][b] = points[k][b] \/ points[n][c] = points[k][c])
      <4>1. \A n, k \in S : n # k => (Walking!Joined(n, k) <=> u[n] = u[k] \/ w[n] = w[k])
        BY <3>1, <3>3
      <4> QED
        BY <4>1
    <3> QED
      BY <1>3, <3>2, <3>3
  <2>10. Grid(S, u, w)
    BY <2>3, <2>4, <2>6, <2>7, <2>8, <2>9 DEF Grid
  <2> QED
    BY <2>10, FourRound
<1>6. "x" \in Axis /\ "y" \in Axis /\ "z" \in Axis /\ \A h \in Axis : h = "x" \/ h = "y" \/ h = "z"
  BY DEF Axis
<1>7. CASE a = "x"
  <2>1. \A n, k \in S : n # k =>
            (Walking!Joined(n, k) <=> points[n]["y"] = points[k]["y"] \/ points[n]["z"] = points[k]["z"])
    BY <1>2, <1>4, <1>7
  <2>2. \A n, k \in D : \E h \in D :
            points[h][a] = points[m][a] /\ points[h]["y"] = points[n]["y"] /\ points[h]["z"] = points[k]["z"]
    <3>1. ASSUME NEW n \in D, NEW k \in D
          PROVE  \E h \in D : points[h][a] = points[m][a] /\ points[h]["y"] = points[n]["y"]
                               /\ points[h]["z"] = points[k]["z"]
      <4>1. PICK h \in D : /\ points[h]["x"] = points[m]["x"]
                           /\ points[h]["y"] = points[n]["y"]
                           /\ points[h]["z"] = points[k]["z"]
        BY <1>5, <1>m
      <4> QED
        BY <1>7, <4>1
    <3> QED
      BY <3>1
  <2>3. \A h \in Axis : h = a \/ h = "y" \/ h = "z"
    BY <1>6, <1>7
  <2>4. Other("y", "z")
    BY <2>1, <2>2, <2>3
  <2> HIDE DEF Other
  <2>5. RoundTrip(S)
    BY <1>3, <1>6, <2>4
  <2> QED
    BY <2>5 DEF S
<1>8. CASE a = "y"
  <2>1. \A n, k \in S : n # k => Walking!Joined(n, k)
    BY <1>2, <1>4, <1>8
  <2>2. \A n, k \in D : \E h \in D :
            points[h][a] = points[m][a] /\ points[h]["x"] = points[n]["x"] /\ points[h]["z"] = points[k]["z"]
    <3>1. ASSUME NEW n \in D, NEW k \in D
          PROVE  \E h \in D : points[h][a] = points[m][a] /\ points[h]["x"] = points[n]["x"]
                               /\ points[h]["z"] = points[k]["z"]
      <4>1. PICK h \in D : /\ points[h]["x"] = points[n]["x"]
                           /\ points[h]["y"] = points[m]["y"]
                           /\ points[h]["z"] = points[k]["z"]
        BY <1>5, <1>m
      <4> QED
        BY <1>8, <4>1
    <3> QED
      BY <3>1
  <2>3. \A h \in Axis : h = a \/ h = "x" \/ h = "z"
    BY <1>6, <1>8
  <2>4. Other("x", "z")
    BY <2>1, <2>2, <2>3
  <2> HIDE DEF Other
  <2>5. RoundTrip(S)
    BY <1>3, <1>6, <2>4
  <2> QED
    BY <2>5 DEF S
<1>9. CASE a = "z"
  <2>1. \A n, k \in S : n # k =>
            (Walking!Joined(n, k) <=> points[n]["x"] = points[k]["x"] \/ points[n]["y"] = points[k]["y"])
    BY <1>2, <1>4, <1>9
  <2>2. \A n, k \in D : \E h \in D :
            points[h][a] = points[m][a] /\ points[h]["x"] = points[n]["x"] /\ points[h]["y"] = points[k]["y"]
    <3>1. ASSUME NEW n \in D, NEW k \in D
          PROVE  \E h \in D : points[h][a] = points[m][a] /\ points[h]["x"] = points[n]["x"]
                               /\ points[h]["y"] = points[k]["y"]
      <4>1. PICK h \in D : /\ points[h]["x"] = points[n]["x"]
                           /\ points[h]["y"] = points[k]["y"]
                           /\ points[h]["z"] = points[m]["z"]
        BY <1>5, <1>m
      <4> QED
        BY <1>9, <4>1
    <3> QED
      BY <3>1
  <2>3. \A h \in Axis : h = a \/ h = "x" \/ h = "y"
    BY <1>6, <1>9
  <2>4. Other("x", "y")
    BY <2>1, <2>2, <2>3
  <2> HIDE DEF Other
  <2>5. RoundTrip(S)
    BY <1>3, <1>6, <2>4
  <2> QED
    BY <2>5 DEF S
<1> QED
  BY <1>6, <1>7, <1>8, <1>9 DEF S

-----------------------------------------------------------------------------
(* A box: its planes *)

\* In every plane is the point that made it.
Founded == \A j \in DOMAIN res : \E n \in DOMAIN res[j] : given[res[j][n]] = available[j]

\* A plane is opened by the point that is put into it first.
LEMMA FoundedKept ==
    ASSUME Sorted, Founded, Aligning!Next
    PROVE  Founded'
<1> DEFINE L == Len(res)
<1>1. /\ Len(coord) \in Nat /\ DOMAIN coord = 1 .. Len(coord) /\ L \in Nat
      /\ DOMAIN res = 1 .. L /\ DOMAIN available = 1 .. L /\ Len(available) = L
  BY LenProperties DEF Sorted
<1>2. ASSUME NEW j \in DOMAIN res
      PROVE  res[j] \in Seq(1 .. Len(coord)) /\ DOMAIN res[j] = 1 .. Len(res[j]) /\ Len(res[j]) \in Nat
  BY <1>1, ElementOfSeq, LenProperties DEF Sorted
<1>3. CASE Aligning!Align
  <2> DEFINE to == Aligning!FirstOf(Aligning!NearPlanes)
  <2>1. /\ i <= Len(coord)
        /\ res' = [res EXCEPT ![to] = Append(res[to], i)]
        /\ given' = given /\ available' = available
    BY <1>3 DEF Aligning!Align
  <2> HIDE DEF to
  <2>2. i \in 1 .. Len(coord)
    BY <1>1, <2>1 DEF Sorted
  <2>3. ASSUME NEW j \in DOMAIN res, NEW n \in DOMAIN res[j]
        PROVE  n \in DOMAIN res'[j] /\ res'[j][n] = res[j][n]
    <3>1. CASE j = to
      <4> DEFINE s == res[j]
                 t == Append(s, i)
      <4>1. s \in Seq(1 .. Len(coord)) /\ Len(s) \in Nat /\ n \in 1 .. Len(s)
        BY <1>2
      <4>2. res'[j] = t
        BY <2>1, <3>1
      <4> HIDE DEF s
      <4>3. t \in Seq(1 .. Len(coord)) /\ Len(t) = Len(s) + 1 /\ t[n] = s[n]
        BY <2>2, <4>1, AppendProperties
      <4> HIDE DEF t
      <4>4. n \in DOMAIN t
        BY <4>1, <4>3, LenProperties
      <4> QED
        BY <4>2, <4>3, <4>4 DEF s
    <3>2. CASE j # to
      BY <2>1, <3>2
    <3> QED
      BY <3>1, <3>2
  <2>4. DOMAIN res' = DOMAIN res
    BY <2>1
  <2> QED
    BY <2>1, <2>3, <2>4 DEF Founded
<1>4. CASE Aligning!NewPlane
  <2> DEFINE one == <<i>>
  <2>1. /\ i <= Len(coord) /\ available' = Append(available, coord[i])
        /\ res' = Append(res, one) /\ given' = given
    BY <1>4 DEF Aligning!NewPlane, Aligning!FirstMembers
  <2>2. i \in 1 .. Len(coord) /\ i \in i .. Len(coord)
    BY <1>1, <2>1 DEF Sorted
  <2>3. one \in Seq(1 .. Len(coord)) /\ 1 \in DOMAIN one /\ one[1] = i
    BY <2>2
  <2>4. coord[i] \in Int /\ coord[i] = given[i]
    <3>1. coord[i] \in Int
      BY <2>2, ElementOfSeq DEF Sorted
    <3> QED
      BY <2>2, <3>1 DEF Sorted
  <2> HIDE DEF one
  <2>5. /\ DOMAIN res' = 1 .. L + 1 /\ \A k \in 1 .. L : res'[k] = res[k]
        /\ res'[L + 1] = one
    <3>1. res \in Seq(Seq(1 .. Len(coord)))
      BY DEF Sorted
    <3>2. /\ res' \in Seq(Seq(1 .. Len(coord))) /\ Len(res') = L + 1
          /\ \A k \in 1 .. L : res'[k] = res[k]
          /\ res'[L + 1] = one
      BY <2>1, <2>3, <3>1, AppendProperties
    <3> QED
      BY <3>2, LenProperties
  <2>6. /\ \A k \in 1 .. L : available'[k] = available[k]
        /\ available'[L + 1] = coord[i]
    BY <1>1, <2>1, <2>4, AppendProperties DEF Sorted
  <2> HIDE DEF L
  <2>7. ASSUME NEW j \in DOMAIN res' PROVE \E n \in DOMAIN res'[j] : given'[res'[j][n]] = available'[j]
    <3>1. j = L + 1 \/ j \in 1 .. L
      BY <1>1, <2>5
    <3>2. CASE j = L + 1
      BY <2>1, <2>3, <2>4, <2>5, <2>6, <3>2
    <3>3. CASE j \in 1 .. L
      <4>1. PICK n \in DOMAIN res[j] : given[res[j][n]] = available[j]
        BY <1>1, <3>3 DEF Founded
      <4>2. res'[j] = res[j] /\ available'[j] = available[j]
        BY <2>5, <2>6, <3>3
      <4> QED
        BY <2>1, <4>1, <4>2
    <3> QED
      BY <3>1, <3>2, <3>3
  <2> QED
    BY <2>7 DEF Founded
<1> QED
  BY <1>3, <1>4 DEF Aligning!Next

\* The points numbered 1 to 8, in planes: all of them are, and it is the
\* coordinate that tells the planes apart.
Flat(list, number) ==
    /\ \A j \in DOMAIN list : \E p : p \in Range(list[j])
    /\ \A p \in 1 .. 8 : \E j \in DOMAIN list : p \in Range(list[j])
    /\ \A j, k \in DOMAIN list : \A p \in Range(list[j]) : \A q \in Range(list[k]) :
          p \in 1 .. 8 /\ q \in 1 .. 8 /\ (number[p] = number[q] <=> j = k)

\* Numbers that are one of two, CONTOUR_DIFF apart, stay as they are.
LEMMA StayPut ==
    ASSUME Sorted, Founded, i > Len(coord), Len(coord) = 8, Split(given, 1 .. 8)
    PROVE  coord = given /\ Flat(res, given)
<1>1. PICK c \in Int, d \in Int :
          Aligning!Distance(c, d) >= CONTOUR_DIFF /\ \A n \in 1 .. 8 : given[n] \in {c, d}
  BY DEF Split
<1>2. /\ DOMAIN coord = 1 .. 8 /\ DOMAIN given = 1 .. 8 /\ given \in Seq(Int) /\ coord \in Seq(Int)
      /\ DOMAIN res = DOMAIN available /\ Len(given) = 8
      /\ \A j \in DOMAIN res : \A n \in DOMAIN res[j] : res[j][n] \in 1 .. 8
  <2>1. DOMAIN res = DOMAIN available
    BY LenProperties DEF Sorted
  <2>2. ASSUME NEW j \in DOMAIN res, NEW n \in DOMAIN res[j] PROVE res[j][n] \in 1 .. 8
    <3>0. res \in Seq(Seq(1 .. Len(coord))) /\ Len(coord) = 8
      BY DEF Sorted
    <3>1. res \in Seq(Seq(1 .. 8)) /\ j \in 1 .. Len(res)
      BY <3>0, LenProperties
    <3>2. res[j] \in Seq(1 .. 8)
      BY <3>1, ElementOfSeq
    <3>3. n \in 1 .. Len(res[j])
      BY <3>2, LenProperties
    <3> QED
      BY <3>2, <3>3, ElementOfSeq
  <2>3. given \in Seq(Int) /\ coord \in Seq(Int) /\ Len(given) = 8
    BY DEF Sorted
  <2>4. DOMAIN coord = 1 .. 8 /\ DOMAIN given = 1 .. 8
    BY <2>3, LenProperties
  <2> QED
    BY <2>1, <2>2, <2>3, <2>4
<1>3. CONTOUR_DIFF \in Nat \ {0}
  BY ModellerAssumption
<1>4. \A m, n \in 1 .. 8 : Aligning!Distance(given[m], given[n]) < CONTOUR_DIFF => given[m] = given[n]
  <2>1. /\ Aligning!Distance(c, d) \in Nat
        /\ Aligning!Distance(c, d) >= CONTOUR_DIFF /\ Aligning!Distance(d, c) >= CONTOUR_DIFF
        /\ Aligning!Distance(d, c) \in Nat
    BY <1>1, Measuring
  <2>2. ASSUME NEW m \in 1 .. 8, NEW n \in 1 .. 8, given[m] # given[n]
        PROVE  ~ (Aligning!Distance(given[m], given[n]) < CONTOUR_DIFF)
    <3>1. (given[m] = c /\ given[n] = d) \/ (given[m] = d /\ given[n] = c)
      BY <1>1, <2>2
    <3>2. ~ (Aligning!Distance(c, d) < CONTOUR_DIFF) /\ ~ (Aligning!Distance(d, c) < CONTOUR_DIFF)
      BY <1>3, <2>1
    <3> QED
      BY <3>1, <3>2
  <2> QED
    BY <2>2
<1>5. ASSUME NEW j \in DOMAIN res, NEW n \in DOMAIN res[j]
      PROVE  LET p == res[j][n] IN coord[p] = available[j] /\ given[p] = available[j]
  <2> DEFINE p == res[j][n]
  <2>1. coord[p] = available[j] /\ Aligning!Near(given[p], available[j])
    BY DEF Sorted
  <2>2. PICK m \in DOMAIN res[j] : given[res[j][m]] = available[j]
    BY DEF Founded
  <2>3. p \in 1 .. 8 /\ res[j][m] \in 1 .. 8
    BY <1>2
  <2>4. Aligning!Distance(given[p], given[res[j][m]]) < CONTOUR_DIFF
    BY <2>1, <2>2 DEF Aligning!Near
  <2> HIDE DEF p
  <2>5. given[p] = given[res[j][m]]
    BY <1>4, <2>3, <2>4
  <2> QED
    BY <2>1, <2>2, <2>5 DEF p
<1>6. \A p \in 1 .. 8 : \E j \in DOMAIN res : \E n \in DOMAIN res[j] : res[j][n] = p
  <2>1. \A p \in 1 .. 8 : p \in 1 .. i - 1
    BY DEF Sorted
  <2>2. \A p \in 1 .. i - 1 : \E j \in DOMAIN res : Aligning!In(p, j)
    BY DEF Sorted
  <2> QED
    BY <2>1, <2>2 DEF Aligning!In
<1>7. coord = given
  <2>1. \A p \in 1 .. 8 : coord[p] = given[p]
    BY <1>5, <1>6
  <2> QED
    BY <1>2, <2>1, SeqEqual
<1>8. \A j \in DOMAIN res : \A p \in Range(res[j]) : p \in 1 .. 8 /\ given[p] = available[j]
  BY <1>2, <1>5 DEF Range
<1>9. \A j, k \in DOMAIN res : available[j] = available[k] => j = k
  <2>1. ASSUME NEW j \in DOMAIN res, NEW k \in DOMAIN res, available[j] = available[k], j # k
        PROVE  FALSE
    <3>1. Aligning!Distance(available[j], available[k]) >= CONTOUR_DIFF
      BY <1>2, <2>1 DEF Sorted
    <3>2. available[j] \in Int
      BY <1>2, LenProperties, ElementOfSeq DEF Sorted
    <3>3. Aligning!Distance(available[j], available[k]) = 0
      BY <2>1, <3>2, Measuring
    <3> QED
      BY <1>3, <3>1, <3>3
  <2> QED
    BY <2>1
<1>10. \A j \in DOMAIN res : \E p : p \in Range(res[j])
  BY DEF Founded, Range
<1>11. \A p \in 1 .. 8 : \E j \in DOMAIN res : p \in Range(res[j])
  BY <1>6 DEF Range
<1> QED
  BY <1>7, <1>8, <1>9, <1>10, <1>11 DEF Flat

-----------------------------------------------------------------------------
(* A box: its faces *)

\* A walk has as many points as its length says.
LEMMA WalkSize ==
    ASSUME NEW k, NEW w, IsWalk(k, w)
    PROVE  /\ Len(w) \in Nat /\ DOMAIN w = 1 .. Len(w) /\ w \in Seq(OfPlane(k))
           /\ \A m \in 1 .. Len(w) : w[m] \in OfPlane(k)
           /\ \A m, n \in 1 .. Len(w) : w[m] = w[n] => m = n
           /\ Range(w) \subseteq OfPlane(k)
           /\ IsFiniteSet(Range(w)) /\ Cardinality(Range(w)) = Len(w)
<1> DEFINE n == Len(w)
<1>1. n \in Nat /\ DOMAIN w = 1 .. n /\ w \in Seq(OfPlane(k))
  BY LenProperties DEF IsWalk
<1>2. \A m \in 1 .. n : w[m] \in OfPlane(k)
  BY <1>1, ElementOfSeq
<1>3. \A a, b \in 1 .. n : w[a] = w[b] => a = b
  BY <1>1 DEF IsWalk, IsInjective
<1>4. w \in [1 .. n -> Range(w)] /\ \A t \in Range(w) : \E a \in 1 .. n : w[a] = t
  BY <1>1, LenProperties DEF Range
<1>5. w \in Bijection(1 .. n, Range(w))
  BY <1>3, <1>4, Fun_IsBij
<1>6. IsFiniteSet(1 .. n) /\ Cardinality(1 .. n) = n
  BY <1>1, FS_Interval
<1>7. IsFiniteSet(Range(w)) /\ Cardinality(Range(w)) = n
  BY <1>5, <1>6, FS_Bijection DEF ExistsBijection
<1>8. Range(w) \subseteq OfPlane(k)
  BY <1>1, <1>2 DEF Range
<1> QED
  BY <1>1, <1>2, <1>3, <1>7, <1>8

\* In a plane of four, a walk has four points at most, and then all of them.
LEMMA FourAtMost ==
    ASSUME NEW k, RoundTrip(OfPlane(k)), NEW w, IsWalk(k, w)
    PROVE  Len(w) <= 4 /\ (Len(w) = 4 <=> Range(w) = OfPlane(k))
<1> DEFINE R == Range(w)
           P == OfPlane(k)
<1>1. IsFiniteSet(P) /\ Cardinality(P) = 4
  BY DEF RoundTrip
<1>2. R \in SUBSET P /\ IsFiniteSet(R) /\ Cardinality(R) = Len(w)
  BY WalkSize
<1> HIDE DEF R, P
<1>3. Cardinality(R) <= Cardinality(P) /\ (Cardinality(P) = Cardinality(R) => P = R)
  BY <1>1, <1>2, FS_Subset
<1>4. Len(w) <= 4 /\ (Len(w) = 4 <=> R = P)
  BY <1>1, <1>2, <1>3
<1> QED
  BY <1>4 DEF R, P

\* A shorter one may go on.
LEMMA WayOn ==
    ASSUME NEW k, RoundTrip(OfPlane(k)), NEW w, IsWalk(k, w), Len(w) \in 1 .. 3
    PROVE  \E q \in OfPlane(k) : q \notin Range(w) /\ Walking!Joined(Last(w), q)
<1> DEFINE P == OfPlane(k)
<1>1. /\ DOMAIN w = 1 .. Len(w) /\ Last(w) = w[Len(w)]
      /\ \A m \in 1 .. Len(w) : w[m] \in P
      /\ \A m, n \in 1 .. Len(w) : w[m] = w[n] => m = n
  BY WalkSize DEF Last
<1>2. \A m \in 1 .. Len(w) - 1 : Walking!Joined(w[m], w[m + 1])
  BY DEF IsWalk
<1>3. /\ \A p \in P : \E q \in P : q # p /\ Walking!Joined(p, q)
      /\ \A p, q \in P : p # q => \E r \in P : r # p /\ r # q /\ Walking!Joined(q, r)
      /\ \A p, q, r \in P :
            p # q /\ q # r /\ p # r /\ Walking!Joined(p, q) /\ Walking!Joined(q, r) =>
                \E s \in P : s # p /\ s # q /\ s # r /\ Walking!Joined(r, s)
  BY DEF RoundTrip
<1> HIDE DEF P
<1>4. CASE Len(w) = 1
  <2>1. w[1] \in P /\ Last(w) = w[1] /\ \A q : q \in Range(w) <=> q = w[1]
    BY <1>1, <1>4 DEF Range
  <2>2. PICK q \in P : q # w[1] /\ Walking!Joined(w[1], q)
    BY <1>3, <2>1
  <2> QED
    BY <2>1, <2>2 DEF P
<1>5. CASE Len(w) = 2
  <2>1. /\ w[1] \in P /\ w[2] \in P /\ w[1] # w[2] /\ Last(w) = w[2]
        /\ \A q : q \in Range(w) <=> q = w[1] \/ q = w[2]
    BY <1>1, <1>5 DEF Range
  <2>2. PICK q \in P : q # w[1] /\ q # w[2] /\ Walking!Joined(w[2], q)
    BY <1>3, <2>1
  <2> QED
    BY <2>1, <2>2 DEF P
<1>6. CASE Len(w) = 3
  <2>1. /\ w[1] \in P /\ w[2] \in P /\ w[3] \in P
        /\ w[1] # w[2] /\ w[2] # w[3] /\ w[1] # w[3] /\ Last(w) = w[3]
        /\ \A q : q \in Range(w) <=> q = w[1] \/ q = w[2] \/ q = w[3]
    BY <1>1, <1>6 DEF Range
  <2>2. Walking!Joined(w[1], w[2]) /\ Walking!Joined(w[2], w[3])
    BY <1>2, <1>6
  <2>3. PICK q \in P : q # w[1] /\ q # w[2] /\ q # w[3] /\ Walking!Joined(w[3], q)
    <3> DEFINE p == w[1]
               q == w[2]
               r == w[3]
    <3>1. /\ p \in P /\ q \in P /\ r \in P /\ p # q /\ q # r /\ p # r
          /\ Walking!Joined(p, q) /\ Walking!Joined(q, r)
      BY <2>1, <2>2
    <3> HIDE DEF p, q, r
    <3>2. \E s \in P : s # p /\ s # q /\ s # r /\ Walking!Joined(r, s)
      BY <1>3, <3>1
    <3> QED
      BY <3>2 DEF p, q, r
  <2> QED
    BY <2>1, <2>3 DEF P
<1> QED
  BY <1>4, <1>5, <1>6

\* One of all four may close.
LEMMA WayBack ==
    ASSUME NEW k, RoundTrip(OfPlane(k)), NEW w, IsWalk(k, w), Len(w) = 4
    PROVE  Walking!Joined(w[4], w[1])
<1>1. /\ \A m \in 1 .. 4 : w[m] \in OfPlane(k)
      /\ \A m, n \in 1 .. 4 : w[m] = w[n] => m = n
  BY WalkSize
<1>2. \A m \in 1 .. 3 : Walking!Joined(w[m], w[m + 1])
  BY DEF IsWalk
<1>3. Walking!Joined(w[1], w[2]) /\ Walking!Joined(w[2], w[3]) /\ Walking!Joined(w[3], w[4])
  <2>1. 1 \in 1 .. 3 /\ 2 \in 1 .. 3 /\ 3 \in 1 .. 3 /\ 1 + 1 = 2 /\ 2 + 1 = 3 /\ 3 + 1 = 4
    OBVIOUS
  <2> QED
    BY <1>2, <2>1
<1>4. /\ w[1] \in OfPlane(k) /\ w[2] \in OfPlane(k) /\ w[3] \in OfPlane(k) /\ w[4] \in OfPlane(k)
      /\ w[1] # w[2] /\ w[1] # w[3] /\ w[1] # w[4] /\ w[2] # w[3] /\ w[2] # w[4] /\ w[3] # w[4]
  BY <1>1
<1> QED
  BY <1>3, <1>4 DEF RoundTrip

\* These polygons go round these planes, one round each.
Rounds(list, sides) ==
    \A n \in DOMAIN list :
        LET w == list[n].points
        IN  /\ list[n].plane = n /\ n \in DOMAIN sides
            /\ w \in Seq(Nat) /\ Len(w) = 4 /\ Range(w) = Range(sides[n])
            /\ \A m \in 1 .. 3 : Walking!Joined(w[m], w[m + 1])
            /\ Walking!Joined(w[4], w[1])

\* The walks so far have gone round one plane after the other.
OnTheRound ==
    /\ Rounds(polygons, PlanesOfAxis)
    /\ \/ /\ current = << >> /\ used = {}
          /\ Len(polygons) = plane - 1
       \/ /\ plane \in DOMAIN PlanesOfAxis /\ Len(current) \in 2 .. 3 /\ used = Range(current)
          /\ Len(polygons) = plane - 1
       \/ /\ plane \in DOMAIN PlanesOfAxis /\ current = << >> /\ used = OfPlane(plane)
          /\ Len(polygons) = plane

\* A turn of addFaces in planes that can be gone round.
LEMMA OnTheRoundKept ==
    ASSUME Ground, OnTheWay, OnTheRound, Walking!Next, UNCHANGED <<planes, axis, edges>>,
           \A k \in DOMAIN PlanesOfAxis : RoundTrip(OfPlane(k))
    PROVE  OnTheRound'
<1> DEFINE P == OfPlane(plane)
<1>1. /\ PlanesOfAxis' = PlanesOfAxis /\ \A k : OfPlane(k)' = OfPlane(k)
      /\ \A p, q : Walking!Joined(p, q)' <=> Walking!Joined(p, q)
  BY SamePlanes
<1>2. plane \in DOMAIN PlanesOfAxis /\ RoundTrip(P)
  BY Turn
<1>3. IsFiniteSet(P) /\ Cardinality(P) = 4 /\ P # {}
  <2>1. IsFiniteSet(P) /\ Cardinality(P) = 4
    BY <1>2 DEF RoundTrip
  <2> HIDE DEF P
  <2> QED
    BY <2>1, FS_EmptySet
<1>4. plane \in Nat /\ Len(polygons) \in Nat /\ DOMAIN polygons = 1 .. Len(polygons)
  <2>1. DOMAIN PlanesOfAxis = 1 .. Len(PlanesOfAxis) /\ Len(PlanesOfAxis) \in Nat
    BY LenProperties DEF Ground
  <2> QED
    BY <1>2, <2>1, LenProperties DEF OnTheWay
<1>5. polygons' = polygons => Rounds(polygons, PlanesOfAxis)'
  BY <1>1 DEF OnTheRound, Rounds
<1>6. ASSUME Walking!Walking
      PROVE  /\ \/ current = << >> /\ used = {}
                \/ Len(current) \in 2 .. 3 /\ used = Range(current)
             /\ Len(polygons) = plane - 1
             /\ Len(Walking!Begun) \in 1 .. 3 /\ IsWalk(plane, Walking!Begun)
  <2>1. used # P
    <3>1. Cardinality(used) # Len(PlanesOfAxis[plane])
      BY <1>6 DEF Walking!Walking, Walking!Cardinality, Cardinality
    <3>2. Cardinality(P) = Len(PlanesOfAxis[plane])
      BY <1>2, PlaneOnce
    <3> HIDE DEF P
    <3> QED
      BY <3>1, <3>2
  <2>2. /\ \/ current = << >> /\ used = {}
           \/ Len(current) \in 2 .. 3 /\ used = Range(current)
        /\ Len(polygons) = plane - 1
    BY <2>1 DEF OnTheRound
  <2>3. /\ IsWalk(plane, Walking!Begun) /\ Len(Walking!Begun) >= 1
        /\ \/ Walking!Begun = current /\ Len(Walking!Begun) >= 2
           \/ current = << >> /\ Len(Walking!Begun) = 1
    BY <1>6, TurnBegins
  <2>4. Len(<< >>) = 0
    OBVIOUS
  <2>5. Len(Walking!Begun) \in 1 .. 3
    BY <2>2, <2>3, <2>4
  <2> QED
    BY <2>2, <2>3, <2>5
<1>7. CASE Walking!Extend
  <2>1. /\ Walking!Walking /\ GoesOn(current') /\ Len(current') >= 2
        /\ used' = used \union Range(current') /\ plane' = plane /\ polygons' = polygons
    BY <1>7, Extended
  <2>2. /\ IsWalk(plane, current') /\ Len(current') \in Nat /\ Range(current) \subseteq Range(current')
    BY <2>1, ThatWalk
  <2>3. Len(current') # 4
    <3>1. ASSUME Len(current') = 4 PROVE FALSE
      <4>1. Walking!Joined(current'[4], current'[1])
        BY <1>2, <2>2, <3>1, WayBack
      <4>2. ~ Walking!Square /\ current' = Walking!Walked
        BY <1>7 DEF Walking!Extend
      <4> QED
        BY <3>1, <4>1, <4>2 DEF Walking!Square, Walking!Last, Last
    <3> QED
      BY <3>1
  <2>4. Len(current') \in 2 .. 3
    <3>1. Len(current') <= 4
      BY <1>2, <2>2, FourAtMost
    <3>2. Len(current') \in Nat /\ Len(current') >= 2
      BY <2>1, <2>2
    <3>3. \A n \in Nat : n >= 2 /\ n <= 4 /\ n # 4 => n \in 2 .. 3
      OBVIOUS
    <3> QED
      BY <2>3, <3>1, <3>2, <3>3, Zenon
  <2>5. used' = Range(current')
    <3>1. Range(<< >>) = {}
      BY DEF Range
    <3> QED
      BY <1>6, <2>1, <2>2, <3>1
  <2>6. Len(polygons') = plane' - 1
    BY <1>6, <2>1
  <2> QED
    BY <1>1, <1>2, <1>5, <2>1, <2>4, <2>5, <2>6 DEF OnTheRound
<1>8. CASE Walking!EndWalk
  <2> DEFINE face == Walking!Face
             n == Len(polygons)
  <2>1. /\ Walking!Walking /\ GoesOn(face)
        /\ plane' = plane /\ current' = << >> /\ used' = used \union Range(face)
        /\ polygons' = IF Len(face) > 2
                       THEN Append(polygons, [plane |-> plane, points |-> face])
                       ELSE polygons
        /\ \/ Len(face) >= 4 /\ Walking!Joined(Last(face), face[1])
           \/ /\ face = Walking!Begun
              /\ \A q \in OfPlane(plane) : Walking!Joined(Last(face), q) =>
                    q \in Range(face) /\ (q = face[1] => Len(face) < 4)
    BY <1>8, Ended
  <2>2. Len(face) >= 4 /\ Walking!Joined(Last(face), face[1])
    <3>1. \E q \in P : q \notin Range(Walking!Begun) /\ Walking!Joined(Last(Walking!Begun), q)
      BY <1>2, <1>6, <2>1, WayOn
    <3> QED
      BY <2>1, <3>1
  <2>3. IsWalk(plane, face) /\ Len(face) \in Nat
    BY <2>1, ThatWalk
  <2>4. Len(face) = 4 /\ Range(face) = P
    <3>1. Len(face) <= 4 /\ (Len(face) = 4 <=> Range(face) = P)
      BY <1>2, <2>3, FourAtMost
    <3>2. Len(face) <= 4
      BY <3>1
    <3>3. Len(face) >= 4 /\ Len(face) \in Nat
      BY <2>2, <2>3
    <3>4. \A m \in Nat : m >= 4 /\ m <= 4 => m = 4
      OBVIOUS
    <3>5. Len(face) = 4
      BY <3>2, <3>3, <3>4, Zenon
    <3> QED
      BY <3>1, <3>5, Zenon
  <2>5. polygons' = Append(polygons, [plane |-> plane, points |-> face])
    BY <2>1, <2>4
  <2>6. used' = P
    BY <2>1, <2>4 DEF OnTheWay
  <2>7. n = plane - 1 /\ n \in Nat /\ n + 1 = plane
    BY <1>4, <1>6, <2>1
  <2>8. /\ DOMAIN polygons = 1 .. n /\ DOMAIN polygons' = 1 .. n + 1
        /\ \A m \in 1 .. n : polygons'[m] = polygons[m]
        /\ polygons'[n + 1].plane = plane /\ polygons'[n + 1].points = face
        /\ \A m \in 1 .. n + 1 : m = n + 1 \/ m \in 1 .. n
        /\ polygons' \in Seq([plane : DOMAIN PlanesOfAxis, points : Seq(Nat)])
    BY <1>2, <2>3, <2>5, Added
  <2>9. face \in Seq(Nat)
    <3>1. OfPlane(plane) \subseteq Nat /\ face \in Seq(OfPlane(plane))
      BY <1>2, <2>3, PlaneOnce DEF IsWalk
    <3> QED
      BY <3>1, SeqMonotonic
  <2>10. /\ \A m \in 1 .. 3 : Walking!Joined(face[m], face[m + 1])
         /\ Walking!Joined(face[4], face[1])
    BY <2>2, <2>3, <2>4 DEF IsWalk, Last
  <2>11. Range(face) = Range(PlanesOfAxis[plane])
    BY <1>2, <2>4 DEF OfPlane
  <2> HIDE DEF face, n, P
  <2>12. Rounds(polygons', PlanesOfAxis)
    <3>1. ASSUME NEW m \in DOMAIN polygons'
          PROVE  LET w == polygons'[m].points
                 IN  /\ polygons'[m].plane = m /\ m \in DOMAIN PlanesOfAxis
                     /\ w \in Seq(Nat) /\ Len(w) = 4 /\ Range(w) = Range(PlanesOfAxis[m])
                     /\ \A h \in 1 .. 3 : Walking!Joined(w[h], w[h + 1])
                     /\ Walking!Joined(w[4], w[1])
      <4>1. CASE m = n + 1
        BY <1>2, <2>4, <2>7, <2>8, <2>9, <2>10, <2>11, <4>1
      <4>2. CASE m \in 1 .. n
        <5>1. m \in DOMAIN polygons /\ polygons'[m] = polygons[m]
          BY <2>8, <4>2
        <5> QED
          BY <5>1 DEF OnTheRound, Rounds
      <4> QED
        BY <2>8, <4>1, <4>2
    <3> QED
      BY <3>1 DEF Rounds
  <2>13. Rounds(polygons, PlanesOfAxis)'
    BY <1>1, <2>12 DEF Rounds
  <2>14. Len(polygons') = plane'
    <3>1. DOMAIN polygons' = 1 .. Len(polygons') /\ Len(polygons') \in Nat
      BY <2>8, LenProperties
    <3>2. 1 .. n + 1 = 1 .. Len(polygons') /\ n + 1 \in Nat
      BY <2>7, <2>8, <3>1
    <3>3. n + 1 = Len(polygons')
      BY <3>1, <3>2
    <3> QED
      BY <2>1, <2>7, <3>3
  <2> QED
    BY <1>1, <1>2, <2>1, <2>6, <2>13, <2>14 DEF OnTheRound, P
<1>9. CASE Walking!LeavePlane
  <2>1. /\ plane' = plane + 1 /\ current' = << >> /\ used' = {} /\ used = P
        /\ polygons' = IF current = << >> THEN polygons
                       ELSE Append(polygons, [plane |-> plane, points |-> current])
    BY <1>9, Turn DEF Walking!LeavePlane, Walking!Extend, Walking!EndWalk
  <2>2. current = << >> /\ Len(polygons) = plane
    <3>1. ~ (Len(current) \in 2 .. 3 /\ used = Range(current))
      <4>1. IsWalk(plane, current)
        BY DEF OnTheWay
      <4>2. Len(current) = 4 <=> Range(current) = P
        BY <1>2, <4>1, FourAtMost
      <4>3. used = Range(current) => Len(current) = 4
        BY <2>1, <4>2, Zenon
      <4> QED
        BY <4>3
    <3> QED
      BY <1>3, <2>1, <3>1 DEF OnTheRound
  <2>3. polygons' = polygons /\ Len(polygons') = plane' - 1
    BY <1>4, <2>1, <2>2
  <2> QED
    BY <1>1, <1>5, <2>1, <2>3 DEF OnTheRound
<1> QED
  BY <1>7, <1>8, <1>9 DEF Walking!Next

-----------------------------------------------------------------------------
(* A box: the invariant *)

\* What is known of a box, whose corners and sides are found.
Boxed ==
    /\ stage # "build" => Len(points_parents) = 8 /\ Corners(points, edges)
    /\ \A a \in DOMAIN planes : Flat(planes[a], Coordinates(points, a))
    /\ \A a \in DOMAIN faces : Len(faces[a]) = Len(planes[a]) /\ Rounds(faces[a], planes[a])
    /\ stage = "faces" => OnTheRound

\* addFaces is called once for each axis.
FacesDone ==
    /\ faces \in Seq(Seq([plane : Nat, points : Seq(Nat)]))
    /\ Len(faces) = IF stage = "loaded" THEN 3 ELSE IF stage = "faces" THEN axis - 1 ELSE 0

\* The invariant for boxes, beside IInv.
BoxInv == Founded /\ FacesDone /\ (Box => Boxed)

\* What a step that leaves their variables alone leaves alone.
LEMMA StaysBox ==
    ASSUME views' = views
    PROVE  Box' <=> Box
BY DEF Box, Rectangle, Lined, Level

LEMMA StaysFounded ==
    ASSUME Founded, UNCHANGED <<res, given, available>>
    PROVE  Founded'
BY DEF Founded

\* The lists of a step that leaves them alone.
LEMMA StaysRound ==
    ASSUME edges' = edges
    PROVE  \A list, sides : Rounds(list, sides)' <=> Rounds(list, sides)
<1>1. \A p, q : Walking!Joined(p, q)' <=> Walking!Joined(p, q)
  BY DEF Walking!Joined
<1> QED
  BY <1>1 DEF Rounds

LEMMA StaysCorners ==
    ASSUME points' = points, edges' = edges
    PROVE  Corners(points, edges)' <=> Corners(points, edges)
BY DEF Corners

\* Before anything is built there is nothing to show.
LEMMA BoxAtFirst ==
    ASSUME Init
    PROVE  BoxInv
<1>1. DOMAIN << >> = {} /\ Len(<< >>) = 0 /\ \A S : << >> \in Seq(S)
  BY EmptySeq
<1> QED
  BY <1>1 DEF Init, BoxInv, Boxed, FacesDone, Founded

\* build_model: the corners of a box.
LEMMA BuildBoxed ==
    ASSUME IInv, BoxInv, Build
    PROVE  BoxInv'
<1>1. /\ stage = "build" /\ stage' = "align"
      /\ points_parents' = Parents(views)
      /\ points' = Points(views, Parents(views))
      /\ edges' = EdgesBetween(views, Parents(views))
      /\ res' = << >>
      /\ UNCHANGED <<views, axis, planes, faces>>
  BY DEF Build, Aligning!Begin
<1>2. PICK sheet \in Sheets : views = AssignCoordinateSystems(sheet)
  BY DEF IInv, Built
<1>3. DOMAIN << >> = {}
  OBVIOUS
<1>4. planes = << >> /\ faces = << >>
  BY <1>1, EmptySeq DEF IInv, Staged, BoxInv, FacesDone
<1>5. Founded'
  BY <1>1, <1>3 DEF Founded
<1>6. FacesDone'
  BY <1>1 DEF BoxInv, FacesDone
<1>7. Box' => Box
  BY <1>1, StaysBox
<1>8. Box => Len(points_parents') = 8 /\ Corners(points, edges)'
  BY <1>1, <1>2, CornersBuilt
<1> QED
  BY <1>1, <1>3, <1>4, <1>5, <1>6, <1>7, <1>8 DEF BoxInv, Boxed

\* A point is sorted.
LEMMA AlignStepBoxed ==
    ASSUME IInv, BoxInv, AlignStep
    PROVE  BoxInv'
<1>1. /\ stage = "align" /\ Aligning!Next
      /\ UNCHANGED <<views, points_parents, edges, points, axis, planes, faces, stage>>
  BY DEF AlignStep, model
<1>2. Founded'
  BY <1>1, FoundedKept DEF IInv, BoxInv
<1>3. FacesDone'
  BY <1>1 DEF BoxInv, FacesDone
<1>4. Box' => Boxed
  BY <1>1, StaysBox DEF BoxInv
<1>5. ASSUME Boxed PROVE Boxed'
  <2>1. Corners(points, edges)' <=> Corners(points, edges)
    BY <1>1, StaysCorners
  <2>2. ASSUME NEW a \in DOMAIN planes PROVE Flat(planes[a], Coordinates(points, a))'
    <3>1. Flat(planes[a], Coordinates(points, a))
      BY <1>5 DEF Boxed
    <3>2. planes'[a] = planes[a] /\ Coordinates(points', a) = Coordinates(points, a)
      BY <1>1
    <3> QED
      BY <3>1, <3>2
  <2>3. \A list, sides : Rounds(list, sides)' <=> Rounds(list, sides)
    BY <1>1, StaysRound
  <2>4. ASSUME NEW a \in DOMAIN faces
        PROVE  Len(faces'[a]) = Len(planes'[a]) /\ Rounds(faces[a], planes[a])'
    BY <1>1, <1>5, <2>3 DEF Boxed
  <2> QED
    BY <1>1, <1>5, <2>1, <2>2, <2>4 DEF Boxed
<1> QED
  BY <1>2, <1>3, <1>4, <1>5 DEF BoxInv

\* An axis is sorted: the corners of a box are where they were.
LEMMA LeaveAxisBoxed ==
    ASSUME IInv, BoxInv, LeaveAxis
    PROVE  BoxInv'
<1>1. /\ stage = "align" /\ i > Len(points) /\ points' = Moved /\ planes' = Append(planes, res)
      /\ UNCHANGED <<views, points_parents, edges, faces, plane, current, used, polygons>>
      /\ IF axis < 3
         THEN axis' = axis + 1 /\ stage' = stage /\ res' = << >>
         ELSE axis' = 1 /\ stage' = "faces" /\ UNCHANGED <<res, given, available>>
  BY DEF LeaveAxis, model, faces_vars, contours_vars, Aligning!Begin
<1>2. /\ axis \in 1 .. 3 /\ given = Coordinates(points, axis) /\ Len(planes) = axis - 1
      /\ plane = 1 /\ current = << >> /\ used = {} /\ polygons = << >>
      /\ Sorted
  BY <1>1 DEF IInv, Staged
<1>3. DOMAIN << >> = {} /\ Len(<< >>) = 0
  OBVIOUS
<1>4. Founded'
  <2>1. CASE axis < 3
    BY <1>1, <1>3, <2>1 DEF Founded
  <2>2. CASE ~ (axis < 3)
    BY <1>1, <2>2, StaysFounded DEF BoxInv
  <2> QED
    BY <2>1, <2>2
<1>5. FacesDone' /\ Len(faces) = 0
  <2>1. Len(faces) = 0
    BY <1>1 DEF BoxInv, FacesDone
  <2>2. stage' # "loaded" /\ (stage' = "faces" => axis' = 1)
    BY <1>1
  <2> QED
    BY <1>1, <2>1, <2>2 DEF BoxInv, FacesDone
<1>6. faces = << >>
  BY <1>5, EmptySeq DEF BoxInv, FacesDone
<1>7. Box' => Boxed
  BY <1>1, StaysBox DEF BoxInv
<1>8. ASSUME Boxed PROVE Boxed'
  <2>1. Len(points_parents) = 8 /\ Corners(points, edges)
    BY <1>1, <1>8 DEF Boxed
  <2>2. /\ points \in [1 .. 8 -> [Axis -> Int]] /\ DOMAIN points = 1 .. 8
        /\ Axes[axis] \in Axis
    <3>1. Axes[axis] \in Axis
      BY <1>2 DEF Axes, Axis
    <3>2. points \in [1 .. 8 -> [Axis -> Int]]
      BY <2>1 DEF Corners
    <3> QED
      BY <3>1, <3>2
  <2>3. Split(given, 1 .. 8)
    <3>1. given = [n \in 1 .. 8 |-> points[n][Axes[axis]]]
      BY <1>2, <2>2 DEF Coordinates
    <3> QED
      BY <2>1, <2>2, <3>1 DEF Corners
  <2>4. Len(coord) = 8 /\ i > Len(coord) /\ DOMAIN coord = 1 .. 8
    <3>1. Len(given) = Len(points_parents)
      BY <1>2, CoordinatesIn DEF IInv, Built, Located
    <3>2. Len(points) = 8
      BY <2>2, LenProperties
    <3> QED
      BY <1>1, <1>2, <2>1, <3>1, <3>2, LenProperties DEF Sorted
  <2>5. coord = given /\ Flat(res, given)
    BY <1>2, <2>3, <2>4, StayPut DEF BoxInv
  <2>6. points' = points
    <3>1. \A n \in 1 .. 8 : [points[n] EXCEPT ![Axes[axis]] = coord[n]] = points[n]
      <4>1. ASSUME NEW n \in 1 .. 8 PROVE [points[n] EXCEPT ![Axes[axis]] = coord[n]] = points[n]
        <5>1. coord[n] = points[n][Axes[axis]] /\ points[n] \in [Axis -> Int]
          BY <1>2, <2>2, <2>5 DEF Coordinates
        <5> QED
          BY <2>2, <5>1
      <4> QED
        BY <4>1
    <3>2. Moved = [n \in 1 .. 8 |-> [points[n] EXCEPT ![Axes[axis]] = coord[n]]]
      BY <2>2 DEF Moved
    <3>3. Moved = [n \in 1 .. 8 |-> points[n]]
      BY <3>1, <3>2
    <3> QED
      BY <1>1, <2>2, <3>3
  <2>7. Corners(points, edges)'
    BY <1>1, <2>1, <2>6, StaysCorners
  <2>8. \A a \in DOMAIN planes' : Flat(planes'[a], Coordinates(points', a))
    <3> DEFINE S == {list \in Seq(Seq(1 .. Len(points_parents))) : SortedOut(list)}
    <3>1. planes \in Seq(S) /\ DOMAIN planes = 1 .. axis - 1
      BY <1>2, LenProperties DEF IInv, Staged
    <3>2. res \in Seq(Seq(1 .. 8))
      BY <1>2, <2>4 DEF Sorted
    <3>3. \A T : planes \in Seq(T) /\ res \in T =>
             /\ planes' \in Seq(T) /\ Len(planes') = Len(planes) + 1
             /\ \A a \in 1 .. Len(planes) : planes'[a] = planes[a]
             /\ planes'[Len(planes) + 1] = res
      BY <1>1, AppendProperties
    <3>4. planes \in Seq(S \union {res}) /\ res \in S \union {res}
      <4> HIDE DEF S
      <4>1. S \subseteq S \union {res}
        OBVIOUS
      <4> QED
        BY <3>1, <4>1, SeqMonotonic
    <3> HIDE DEF S
    <3>5. /\ planes' \in Seq(S \union {res}) /\ Len(planes') = Len(planes) + 1
          /\ \A a \in 1 .. Len(planes) : planes'[a] = planes[a]
          /\ planes'[Len(planes) + 1] = res
      BY <3>3, <3>4
    <3>6. DOMAIN planes' = 1 .. axis /\ planes'[axis] = res
      BY <1>2, <3>5, LenProperties
    <3>7. \A a \in 1 .. axis - 1 : planes'[a] = planes[a] /\ Flat(planes[a], Coordinates(points, a))
      BY <1>2, <1>8, <3>1, <3>5 DEF Boxed
    <3>8. Flat(res, Coordinates(points, axis))
      BY <1>2, <2>5
    <3>9. ASSUME NEW a \in DOMAIN planes' PROVE Flat(planes'[a], Coordinates(points', a))
      <4>1. a = axis \/ a \in 1 .. axis - 1
        BY <1>2, <3>6
      <4>2. Coordinates(points', a) = Coordinates(points, a)
        BY <2>6
      <4> QED
        BY <3>6, <3>7, <3>8, <4>1, <4>2
    <3> QED
      BY <3>9
  <2>9. OnTheRound'
    <3>1. Len(polygons') = plane' - 1
      BY <1>1, <1>2, <1>3
    <3>2. Rounds(polygons, PlanesOfAxis)'
      BY <1>1, <1>2, <1>3 DEF Rounds
    <3> QED
      BY <1>1, <1>2, <3>1, <3>2 DEF OnTheRound
  <2>10. \A a \in DOMAIN planes' : Flat(planes[a], Coordinates(points, a))'
    BY <2>8 DEF Flat, Coordinates
  <2> QED
    BY <1>1, <1>3, <1>6, <2>1, <2>7, <2>10, <2>9 DEF Boxed
<1> QED
  BY <1>4, <1>5, <1>7, <1>8 DEF BoxInv

\* The planes of an axis of a box are its sides, and a walk goes round each.
LEMMA PlanesAreSides ==
    ASSUME Boxed, IInv, stage \in {"faces", "loaded"}, NEW a \in 1 .. 3, NEW k \in DOMAIN planes[a]
    PROVE  \E m \in 1 .. 8 : Range(planes[a][k]) = SideOf(Axes[a], m)
<1>1. a \in DOMAIN planes
  <2>1. Len(planes) = 3 /\ DOMAIN planes = 1 .. 3
    BY LenProperties DEF IInv, Staged
  <2> QED
    BY <2>1
<1>2. Flat(planes[a], Coordinates(points, a)) /\ Corners(points, edges)
  BY <1>1 DEF Boxed
<1>3. DOMAIN points = 1 .. 8
  BY <1>2 DEF Corners
<1>4. \A n \in 1 .. 8 : Coordinates(points, a)[n] = points[n][Axes[a]]
  BY <1>3 DEF Coordinates
<1> DEFINE number == Coordinates(points, a)
           list == planes[a]
<1>5. /\ \A j \in DOMAIN list : \E p : p \in Range(list[j])
      /\ \A p \in 1 .. 8 : \E j \in DOMAIN list : p \in Range(list[j])
      /\ \A j, h \in DOMAIN list : \A p \in Range(list[j]) : \A q \in Range(list[h]) :
            p \in 1 .. 8 /\ q \in 1 .. 8 /\ (number[p] = number[q] <=> j = h)
  BY <1>2 DEF Flat
<1> HIDE DEF number, list
<1>6. PICK m : m \in Range(list[k])
  BY <1>5 DEF list
<1>7. m \in 1 .. 8 /\ k \in DOMAIN list
  BY <1>5, <1>6 DEF list
<1>8. \A n \in Range(list[k]) : n \in 1 .. 8 /\ number[n] = number[m]
  <2>1. ASSUME NEW n \in Range(list[k]) PROVE n \in 1 .. 8 /\ number[n] = number[m]
    <3>1. \A j, h \in DOMAIN list : \A p \in Range(list[j]) : \A q \in Range(list[h]) :
              p \in 1 .. 8 /\ (number[p] = number[q] <=> j = h)
      BY <1>5
    <3>2. n \in 1 .. 8 /\ (number[n] = number[m] <=> k = k)
      BY <1>6, <1>7, <3>1
    <3> QED
      BY <3>2
  <2> QED
    BY <2>1
<1>9. ASSUME NEW n \in 1 .. 8, number[n] = number[m] PROVE n \in Range(list[k])
  <2>1. PICK j \in DOMAIN list : n \in Range(list[j])
    BY <1>5
  <2>2. j = k
    BY <1>5, <1>6, <1>7, <1>9, <2>1
  <2> QED
    BY <2>1, <2>2
<1>10. \A n \in 1 .. 8 : number[n] = points[n][Axes[a]]
  BY <1>4 DEF number
<1>11. Range(list[k]) = SideOf(Axes[a], m)
  BY <1>7, <1>8, <1>9, <1>10 DEF SideOf
<1>12. Range(planes[a][k]) = SideOf(Axes[a], m)
  BY <1>11 DEF list
<1> QED
  BY <1>7, <1>12

\* A turn of addFaces: the walk stays on its side of the box.
LEMMA FacesStepBoxed ==
    ASSUME IInv, BoxInv, FacesStep
    PROVE  BoxInv'
<1>1. /\ stage = "faces" /\ Walking!Next
      /\ UNCHANGED <<views, points_parents, edges, points, axis, planes, faces, stage>>
      /\ UNCHANGED <<res, given, available>>
  BY DEF FacesStep, model, contours_vars
<1>2. Built /\ Staged /\ OnTheWay /\ Ground
  BY <1>1, GroundStands DEF IInv
<1>3. Founded'
  BY <1>1, StaysFounded DEF BoxInv
<1>4. FacesDone'
  BY <1>1 DEF BoxInv, FacesDone
<1>5. Box' => Boxed
  BY <1>1, StaysBox DEF BoxInv
<1>6. ASSUME Boxed PROVE Boxed'
  <2>1. Corners(points, edges) /\ OnTheRound
    BY <1>1, <1>6 DEF Boxed
  <2>2. axis \in 1 .. 3 /\ PlanesOfAxis = planes[axis] /\ Axes[axis] \in Axis
    <3>1. axis \in 1 .. 3 /\ Len(planes) = 3
      BY <1>1, <1>2 DEF Staged
    <3>2. DOMAIN planes = 1 .. 3
      BY <1>2, <3>1, LenProperties DEF Staged
    <3>3. Axes[axis] \in Axis
      BY <3>1 DEF Axes, Axis
    <3> QED
      BY <3>1, <3>2, <3>3 DEF PlanesOfAxis
  <2>3. ASSUME NEW k \in DOMAIN PlanesOfAxis PROVE RoundTrip(OfPlane(k))
    <3>1. PICK m \in 1 .. 8 : Range(planes[axis][k]) = SideOf(Axes[axis], m)
      BY <1>1, <1>6, <2>2, PlanesAreSides
    <3>2. OfPlane(k) = SideOf(Axes[axis], m)
      BY <2>2, <3>1 DEF OfPlane
    <3>3. RoundTrip(SideOf(Axes[axis], m))
      BY <1>2, <2>1, <2>2, SideRound
    <3> QED
      BY <3>2, <3>3
  <2>4. OnTheRound'
    BY <1>1, <1>2, <2>1, <2>3, OnTheRoundKept
  <2>5. Corners(points, edges)'
    BY <1>1, <2>1, StaysCorners
  <2>6. ASSUME NEW a \in DOMAIN planes PROVE Flat(planes[a], Coordinates(points, a))'
    <3>1. Flat(planes[a], Coordinates(points, a))
      BY <1>6 DEF Boxed
    <3>2. planes'[a] = planes[a] /\ Coordinates(points', a) = Coordinates(points, a)
      BY <1>1
    <3> QED
      BY <3>1, <3>2
  <2>7. \A list, sides : Rounds(list, sides)' <=> Rounds(list, sides)
    BY <1>1, StaysRound
  <2>8. ASSUME NEW a \in DOMAIN faces
        PROVE  Len(faces'[a]) = Len(planes'[a]) /\ Rounds(faces[a], planes[a])'
    BY <1>1, <1>6, <2>7 DEF Boxed
  <2> QED
    BY <1>1, <1>6, <2>4, <2>5, <2>6, <2>8 DEF Boxed
<1> QED
  BY <1>3, <1>4, <1>5, <1>6 DEF BoxInv

\* An axis is done: there is a polygon for each of its two sides.
LEMMA LeaveFacesBoxed ==
    ASSUME IInv, BoxInv, LeaveFaces
    PROVE  BoxInv'
<1>1. /\ stage = "faces" /\ plane > Len(planes[axis])
      /\ faces' = Append(faces, polygons)
      /\ UNCHANGED <<views, points_parents, edges, points, planes>>
      /\ UNCHANGED <<res, given, available>>
      /\ IF axis < 3
         THEN /\ axis' = axis + 1 /\ stage' = stage
              /\ plane' = 1 /\ current' = << >> /\ used' = {} /\ polygons' = << >>
         ELSE stage' = "loaded" /\ axis' = axis
  BY DEF LeaveFaces, model, contours_vars, Walking!Begin
<1>2. Built /\ Staged /\ OnTheWay /\ Ground
  BY <1>1, GroundStands DEF IInv
<1>3. axis \in 1 .. 3 /\ DOMAIN planes = 1 .. 3 /\ PlanesOfAxis = planes[axis]
  <2>1. axis \in 1 .. 3 /\ Len(planes) = 3
    BY <1>1, <1>2 DEF Staged
  <2>2. DOMAIN planes = 1 .. 3
    BY <1>2, <2>1, LenProperties DEF Staged
  <2> QED
    BY <2>1, <2>2 DEF PlanesOfAxis
<1>4. Founded'
  BY <1>1, StaysFounded DEF BoxInv
<1> DEFINE L == [plane : Nat, points : Seq(Nat)]
<1>5. faces \in Seq(Seq(L)) /\ polygons \in Seq(L) /\ Len(faces) = axis - 1
  <2>1. DOMAIN PlanesOfAxis \subseteq Nat
    BY <1>2, LenProperties DEF Ground
  <2>2. [plane : DOMAIN PlanesOfAxis, points : Seq(Nat)] \subseteq L
    BY <2>1
  <2>3. polygons \in Seq([plane : DOMAIN PlanesOfAxis, points : Seq(Nat)])
    BY <1>2 DEF OnTheWay
  <2>4. polygons \in Seq(L)
    <3> HIDE DEF L
    <3> QED
      BY <2>2, <2>3, SeqMonotonic
  <2> QED
    BY <1>1, <2>4 DEF BoxInv, FacesDone
<1> HIDE DEF L
<1>6. /\ faces' \in Seq(Seq(L)) /\ Len(faces') = axis
      /\ \A a \in 1 .. axis - 1 : faces'[a] = faces[a]
      /\ faces'[axis] = polygons
  <2>1. /\ faces' \in Seq(Seq(L)) /\ Len(faces') = Len(faces) + 1
        /\ \A a \in 1 .. Len(faces) : faces'[a] = faces[a]
        /\ faces'[Len(faces) + 1] = polygons
    BY <1>1, <1>5, AppendProperties
  <2>2. Len(faces) + 1 = axis
    BY <1>3, <1>5
  <2> QED
    BY <1>5, <2>1, <2>2
<1>7. DOMAIN faces = 1 .. axis - 1 /\ DOMAIN faces' = 1 .. axis
  BY <1>5, <1>6, LenProperties
<1>8. FacesDone'
  BY <1>1, <1>3, <1>6 DEF FacesDone, L
<1>9. Box' => Boxed
  BY <1>1, StaysBox DEF BoxInv
<1>10. ASSUME Boxed PROVE Boxed'
  <2>1. Corners(points, edges) /\ OnTheRound
    BY <1>1, <1>10 DEF Boxed
  <2>2. Corners(points, edges)'
    BY <1>1, <2>1, StaysCorners
  <2>3. ASSUME NEW a \in DOMAIN planes PROVE Flat(planes[a], Coordinates(points, a))'
    <3>1. Flat(planes[a], Coordinates(points, a))
      BY <1>10 DEF Boxed
    <3>2. planes'[a] = planes[a] /\ Coordinates(points', a) = Coordinates(points, a)
      BY <1>1
    <3> QED
      BY <3>1, <3>2
  <2>4. \A list, sides : Rounds(list, sides)' <=> Rounds(list, sides)
    BY <1>1, StaysRound
  <2>5. Len(polygons) = Len(planes[axis]) /\ Rounds(polygons, planes[axis])
    <3>1. plane \notin DOMAIN PlanesOfAxis /\ plane = Len(PlanesOfAxis) + 1
          /\ Len(PlanesOfAxis) \in Nat
      BY <1>1, <1>2, <1>3, LenProperties DEF Ground, OnTheWay
    <3>2. Rounds(polygons, PlanesOfAxis) /\ Len(polygons) = plane - 1
      BY <2>1, <3>1 DEF OnTheRound
    <3> QED
      BY <1>3, <3>1, <3>2
  <2>6. ASSUME NEW a \in DOMAIN faces'
        PROVE  Len(faces'[a]) = Len(planes'[a]) /\ Rounds(faces'[a], planes'[a])
    <3>1. a = axis \/ a \in 1 .. axis - 1
      BY <1>3, <1>7
    <3>2. CASE a = axis
      BY <1>1, <1>6, <2>5, <3>2
    <3>3. CASE a \in 1 .. axis - 1
      BY <1>1, <1>6, <1>7, <1>10, <3>3 DEF Boxed
    <3> QED
      BY <3>1, <3>2, <3>3
  <2>7. ASSUME NEW a \in DOMAIN faces'
        PROVE  Len(faces'[a]) = Len(planes'[a]) /\ Rounds(faces[a], planes[a])'
    <3>1. \A p, q : Walking!Joined(p, q)' <=> Walking!Joined(p, q)
      BY <1>1 DEF Walking!Joined
    <3> QED
      BY <2>6, <3>1 DEF Rounds
  <2>8. stage' = "faces" => OnTheRound'
    <3>1. SUFFICES ASSUME stage' = "faces" PROVE OnTheRound'
      OBVIOUS
    <3>2. plane' = 1 /\ current' = << >> /\ used' = {} /\ polygons' = << >>
      BY <1>1, <3>1
    <3>3. DOMAIN << >> = {} /\ Len(<< >>) = 0
      OBVIOUS
    <3>4. Rounds(polygons, PlanesOfAxis)'
      BY <3>2, <3>3 DEF Rounds
    <3>5. Len(polygons') = plane' - 1
      BY <3>2, <3>3
    <3> QED
      BY <3>2, <3>4, <3>5 DEF OnTheRound
  <2> QED
    BY <1>1, <1>10, <2>2, <2>3, <2>7, <2>8 DEF Boxed
<1> QED
  BY <1>4, <1>8, <1>9, <1>10 DEF BoxInv

LEMMA StutterBoxed ==
    ASSUME BoxInv, UNCHANGED vars
    PROVE  BoxInv'
<1>1. /\ UNCHANGED <<views, points_parents, edges, points, axis, planes, faces, stage>>
      /\ UNCHANGED <<res, given, available, plane, current, used, polygons>>
  BY DEF vars, model, contours_vars, faces_vars
<1>2. Founded' /\ FacesDone' /\ (Box' => Boxed)
  BY <1>1, StaysFounded, StaysBox DEF BoxInv, FacesDone
<1>3. ASSUME Boxed PROVE Boxed'
  <2>1. Corners(points, edges)' <=> Corners(points, edges)
    BY <1>1, StaysCorners
  <2>2. ASSUME NEW a \in DOMAIN planes PROVE Flat(planes[a], Coordinates(points, a))'
    <3>1. Flat(planes[a], Coordinates(points, a))
      BY <1>3 DEF Boxed
    <3>2. planes'[a] = planes[a] /\ Coordinates(points', a) = Coordinates(points, a)
      BY <1>1
    <3> QED
      BY <3>1, <3>2
  <2>3. \A list, sides : Rounds(list, sides)' <=> Rounds(list, sides)
    BY <1>1, StaysRound
  <2>4. ASSUME NEW a \in DOMAIN faces
        PROVE  Len(faces'[a]) = Len(planes'[a]) /\ Rounds(faces[a], planes[a])'
    BY <1>1, <1>3, <2>3 DEF Boxed
  <2>5. OnTheRound' <=> OnTheRound
    <3>1. PlanesOfAxis' = PlanesOfAxis /\ \A k : OfPlane(k)' = OfPlane(k)
      BY <1>1, SamePlanes
    <3>2. Rounds(polygons, PlanesOfAxis)' <=> Rounds(polygons, PlanesOfAxis)
      BY <1>1, <2>3, <3>1
    <3> QED
      BY <1>1, <3>1, <3>2 DEF OnTheRound
  <2> QED
    BY <1>1, <1>3, <2>1, <2>2, <2>4, <2>5 DEF Boxed
<1> QED
  BY <1>2, <1>3 DEF BoxInv

LEMMA AlwaysBoxed == Spec => [](IInv /\ BoxInv)
<1>1. Init => IInv /\ BoxInv
  BY InitInv, BoxAtFirst
<1>2. IInv /\ BoxInv /\ [Next]_vars => IInv' /\ BoxInv'
  <2>1. SUFFICES ASSUME IInv, BoxInv, [Next]_vars PROVE IInv' /\ BoxInv'
    OBVIOUS
  <2>2. IInv'
    BY <2>1, NextInv
  <2>3. BoxInv'
    BY <2>1, BuildBoxed, AlignStepBoxed, LeaveAxisBoxed, FacesStepBoxed, LeaveFacesBoxed,
       StutterBoxed DEF Next
  <2> QED
    BY <2>2, <2>3
<1> QED
  BY <1>1, <1>2, PTL DEF Spec

\* No edge goes from a point to itself.
LEMMA NotToItself ==
    ASSUME Built, NEW p
    PROVE  ~ Walking!Joined(p, p)
<1>1. SUFFICES ASSUME Walking!Joined(p, p) PROVE FALSE
  OBVIOUS
<1>2. PICK e \in Range(edges) : {p, p} = {e[1], e[2]}
  BY <1>1 DEF Walking!Joined
<1>3. e \in Forward(Len(points_parents))
  BY LenProperties, ElementOfSeq DEF Built, Range
<1>4. e[1] \in Nat /\ e[2] \in Nat /\ e[1] < e[2]
  BY <1>3, LenProperties DEF Built, Forward
<1> QED
  BY <1>2, <1>4

\* A set of two sides, and two planes, one for each.
LEMMA SidesAreTwo ==
    ASSUME IInv, Boxed, stage = "loaded", NEW a \in 1 .. 3
    PROVE  /\ Len(planes[a]) = 2 /\ DOMAIN planes[a] = {1, 2}
           /\ Cardinality({SideOf(Axes[a], n) : n \in 1 .. 8}) = 2
           /\ \A n \in 1 .. 8 : Cardinality(SideOf(Axes[a], n)) = 4
           /\ {Range(planes[a][k]) : k \in {1, 2}} = {SideOf(Axes[a], n) : n \in 1 .. 8}
<1> DEFINE A == Axes[a]
           list == planes[a]
           number == Coordinates(points, a)
           L == Len(list)
           sides == {SideOf(A, n) : n \in 1 .. 8}
<1>1. Corners(points, edges) /\ Built /\ A \in Axis /\ DOMAIN points = 1 .. 8
  <2>1. Axes[a] \in Axis
    BY DEF Axes, Axis
  <2>2. Corners(points, edges)
    BY DEF Boxed
  <2> QED
    BY <2>1, <2>2 DEF Corners, IInv
<1>2. a \in DOMAIN planes /\ L \in Nat /\ DOMAIN list = 1 .. L
  <2> DEFINE S == {s \in Seq(Seq(1 .. Len(points_parents))) : SortedOut(s)}
  <2>1. planes \in Seq(S) /\ Len(planes) = 3
    BY DEF IInv, Staged
  <2>2. a \in DOMAIN planes /\ a \in 1 .. Len(planes)
    BY <2>1, LenProperties
  <2>3. planes[a] \in S
    <3> HIDE DEF S
    <3> QED
      BY <2>1, <2>2, ElementOfSeq
  <2>4. planes[a] \in Seq(Seq(1 .. Len(points_parents)))
    BY <2>3
  <2> QED
    BY <2>2, <2>4, LenProperties
<1>3. /\ \A j \in DOMAIN list : \E p : p \in Range(list[j])
      /\ \A p \in 1 .. 8 : \E j \in DOMAIN list : p \in Range(list[j])
      /\ \A j, h \in DOMAIN list : \A p \in Range(list[j]) : \A q \in Range(list[h]) :
            p \in 1 .. 8 /\ q \in 1 .. 8 /\ (number[p] = number[q] <=> j = h)
  BY <1>2 DEF Boxed, Flat
<1>4. \A n \in 1 .. 8 : number[n] = points[n][A]
  BY <1>1 DEF Coordinates
<1>5. \A k \in 1 .. L : \E m \in 1 .. 8 : Range(list[k]) = SideOf(A, m)
  BY <1>2, PlanesAreSides
<1>6. ASSUME NEW n \in 1 .. 8 PROVE IsFiniteSet(SideOf(A, n)) /\ Cardinality(SideOf(A, n)) = 4
  <2>1. RoundTrip(SideOf(A, n))
    BY <1>1, SideRound
  <2> QED
    BY <2>1 DEF RoundTrip
<1> HIDE DEF number, list, L
<1>7. PICK c \in Int, d \in Int :
        /\ c # d /\ \A n \in 1 .. 8 : points[n][A] \in {c, d}
        /\ \E n \in 1 .. 8 : points[n][A] = c
        /\ \E n \in 1 .. 8 : points[n][A] = d
  BY <1>1, CornersAre
<1> HIDE DEF A
<1>8. PICK m \in 1 .. 8, n \in 1 .. 8 : points[m][A] = c /\ points[n][A] = d
  BY <1>7
<1>9. ASSUME NEW h \in 1 .. 8, NEW k \in 1 .. 8, points[h][A] = points[k][A]
      PROVE  SideOf(A, h) = SideOf(A, k)
  BY <1>9 DEF SideOf
<1>10. SideOf(A, m) # SideOf(A, n)
  <2>1. m \in SideOf(A, m) /\ m \notin SideOf(A, n)
    BY <1>7, <1>8 DEF SideOf
  <2> QED
    BY <2>1
<1>11. sides = {SideOf(A, m), SideOf(A, n)}
  <2>1. \A h \in 1 .. 8 : SideOf(A, h) = SideOf(A, m) \/ SideOf(A, h) = SideOf(A, n)
    BY <1>7, <1>8, <1>9
  <2> QED
    BY <2>1
<1>12. Cardinality(sides) = 2
  BY <1>10, <1>11, TwoAreTwo
<1>13. L = 2
  <2>1. PICK j \in DOMAIN list, k \in DOMAIN list : m \in Range(list[j]) /\ n \in Range(list[k])
    BY <1>3
  <2>2. number[m] = c /\ number[n] = d
    BY <1>4, <1>8
  <2>3. j # k
    BY <1>3, <1>7, <2>1, <2>2
  <2>4. ASSUME NEW h \in DOMAIN list PROVE h = j \/ h = k
    <3>1. PICK p : p \in Range(list[h])
      BY <1>3
    <3>2. p \in 1 .. 8
      BY <1>3, <3>1
    <3>3. number[p] = c \/ number[p] = d
      BY <1>4, <1>7, <3>2
    <3> QED
      BY <1>3, <2>1, <2>2, <3>1, <3>3
  <2>5. 1 .. L = {j, k}
    BY <1>2, <2>1, <2>4 DEF L, list
  <2>6. Cardinality({j, k}) = 2
    BY <2>3, TwoAreTwo
  <2>7. L \in Nat /\ Cardinality(1 .. L) = L
    <3>1. L \in Nat
      BY <1>2 DEF L, list
    <3> QED
      BY <3>1, FS_Interval
  <2> QED
    BY <2>5, <2>6, <2>7
<1>14. DOMAIN list = {1, 2}
  <2>1. DOMAIN list = 1 .. L
    BY <1>2 DEF L, list
  <2> QED
    BY <1>13, <2>1
<1>15. {Range(list[k]) : k \in {1, 2}} = sides
  <2>1. \A k \in {1, 2} : k \in 1 .. L /\ k \in DOMAIN list
    BY <1>2, <1>13 DEF L, list
  <2>2. \A k \in {1, 2} : Range(list[k]) \in sides
    BY <1>5, <2>1
  <2>3. ASSUME NEW h \in 1 .. 8 PROVE \E k \in {1, 2} : Range(list[k]) = SideOf(A, h)
    <3>1. PICK k \in DOMAIN list : h \in Range(list[k])
      BY <1>3
    <3>2. k \in 1 .. L /\ k \in {1, 2}
      BY <1>2, <1>13 DEF L, list
    <3>3. PICK p \in 1 .. 8 : Range(list[k]) = SideOf(A, p)
      BY <1>5, <3>2
    <3>4. points[h][A] = points[p][A]
      BY <3>1, <3>3 DEF SideOf
    <3> QED
      BY <1>9, <3>2, <3>3, <3>4
  <2> QED
    BY <2>2, <2>3
<1> QED
  BY <1>6, <1>12, <1>13, <1>14, <1>15 DEF A, L, list

\* From one point of a side to one it is joined to is one direction in space.
LEMMA OneDirection ==
    ASSUME Built, Corners(points, edges), NEW A \in {"x", "z"},
           NEW h \in 1 .. 8, NEW p \in SideOf(A, h), NEW q \in SideOf(A, h), Walking!Joined(p, q)
    PROVE  Cardinality({a \in Axis : points[p][a] # points[q][a]}) = 1
<1> DEFINE D == 1 .. 8
           S == {a \in Axis : points[p][a] # points[q][a]}
<1>1. p \in D /\ q \in D /\ points[p][A] = points[q][A] /\ p # q
  BY NotToItself DEF SideOf
<1>2. \/ points[p]["y"] = points[q]["y"]
      \/ points[p]["x"] = points[q]["x"] /\ points[p]["z"] = points[q]["z"]
  BY <1>1, JoinedCorners
<1>3. points[p] \in [Axis -> Int] /\ points[q] \in [Axis -> Int] /\ points[p] # points[q]
  BY <1>1 DEF Corners
<1> HIDE DEF D
<1>4. \E a \in Axis : points[p][a] # points[q][a]
  BY <1>3
<1>5. PICK b \in Axis : points[p][b] # points[q][b]
  BY <1>4
<1>6. \A a \in Axis : points[p][a] # points[q][a] => a = b
  BY <1>1, <1>2, <1>5 DEF Axis
<1>7. S = {b}
  BY <1>5, <1>6
<1> QED
  BY <1>7, FS_Singleton

-----------------------------------------------------------------------------
(* The theorems *)

LEMMA AlwaysIInv == Spec => []IInv
<1>1. Init => IInv
  BY InitInv
<1>2. IInv /\ [Next]_vars => IInv'
  BY NextInv
<1> QED
  BY <1>1, <1>2, PTL DEF Spec

\* Every variable of generate_model has its type, whatever the sheet is.
THEOREM Types == Spec => []TypeOK
<1>1. ASSUME IInv PROVE TypeOK
  <2>1. Built /\ Located /\ Sorted /\ Staged
    BY <1>1 DEF IInv
  <2>2. Aligning!TypeOK
    BY <2>1, SortedTypes
  <2>3. stage = "faces" => Walking!TypeOK
    BY <1>1, <2>1, GroundStands, WalkedTypes DEF IInv
  <2>4. DOMAIN points_parents = 1 .. Len(points_parents)
    BY <2>1, LenProperties DEF Built
  <2>5. DOMAIN points = DOMAIN points_parents /\ \A n \in DOMAIN points : points[n] \in [Axis -> Int]
    BY <2>1 DEF Located
  <2>6. Range(edges) \subseteq (DOMAIN points) \X (DOMAIN points)
    <3>1. edges \in Seq(Forward(Len(points_parents)))
      BY <2>1 DEF Built
    <3>2. Forward(Len(points_parents)) \subseteq (DOMAIN points) \X (DOMAIN points)
      BY <2>4, <2>5 DEF Forward
    <3>3. Range(edges) \subseteq Forward(Len(points_parents))
      BY <3>1, LenProperties, ElementOfSeq DEF Range
    <3> QED
      BY <3>2, <3>3
  <2> QED
    BY <2>1, <2>2, <2>3, <2>5, <2>6 DEF Staged, TypeOK
<1> QED
  BY <1>1, AlwaysIInv, PTL

\* align_contours puts every point into one plane, once, and onto it.
THEOREM SortsOnce == Spec => []EachOnce
<1>1. ASSUME IInv PROVE EachOnce
  BY <1>1, SortedOnce DEF IInv, EachOnce
<1> QED
  BY <1>1, AlwaysIInv, PTL

\* align_contours moves no point by CONTOUR_DIFF, and makes no two planes that are
\* nearer to each other than that.
THEOREM SortsApart == Spec => []PlanesApart
<1>1. ASSUME IInv PROVE PlanesApart
  BY <1>1, SortedApart DEF IInv, PlanesApart
<1> QED
  BY <1>1, AlwaysIInv, PTL

\* align_contours parts no points that were level.
THEOREM SortsLevel == Spec => []LevelStaysLevel
<1>1. ASSUME IInv PROVE LevelStaysLevel
  BY <1>1, SortedLevel DEF IInv, LevelStaysLevel
<1> QED
  BY <1>1, AlwaysIInv, PTL

\* The polygons of addFaces are walks along edges in one plane, to no point twice.
THEOREM FacesAreWalks == Spec => []PolygonsAreWalks
<1>1. ASSUME IInv PROVE PolygonsAreWalks
  BY <1>1, GroundStands, WalkedAlong DEF IInv, PolygonsAreWalks
<1> QED
  BY <1>1, AlwaysIInv, PTL

\* addFaces leaves out no point of a plane that is not at, or next to, a dead end.
THEOREM NothingLost == Spec => []LeftOutForAReason
<1>1. ASSUME IInv PROVE LeftOutForAReason
  BY <1>1, GroundStands, WalkedOut DEF IInv, LeftOutForAReason
<1> QED
  BY <1>1, AlwaysIInv, PTL

\* addFaces finds every ring of a plane of rings, all of it and once: a face of a
\* part is one polygon.
THEOREM RingsAreFound == Spec => []RingsBecomeFaces
<1>1. ASSUME IInv PROVE RingsBecomeFaces
  BY <1>1, GroundStands, WalkedRound DEF IInv, RingsBecomeFaces
<1> QED
  BY <1>1, AlwaysIInv, PTL

\* From the views to the planes, no point leaves the place its two vertices show,
\* up to CONTOUR_DIFF, and MAX_DIFF along the line that the views share.
THEOREM ModelFits == Spec => []FitsTheDrawing
<1>1. ASSUME IInv PROVE FitsTheDrawing
  BY <1>1, Fits DEF IInv
<1> QED
  BY <1>1, AlwaysIInv, PTL

\* Both views of a box drawn the same way round give its eight corners and its six
\* sides, whatever its measures are and wherever on the sheet its views are.
THEOREM BoxIsFound == Spec => []BoxesFound
<1>1. ASSUME IInv, BoxInv PROVE BoxesFound
  <2>1. SUFFICES ASSUME stage = "loaded", Box
                 PROVE  /\ Len(points) = 8 /\ IsInjective(points)
                        /\ \A a \in 1 .. 3 : TwoSides(a)
                        /\ \A a \in {1, 3} : \A n \in DOMAIN faces[a] : GoesRound(faces[a][n].points)
    BY DEF BoxesFound
  <2>2. Boxed /\ FacesDone /\ Built
    BY <1>1, <2>1 DEF BoxInv, IInv
  <2>3. Corners(points, edges)
    BY <2>1, <2>2 DEF Boxed
  <2>4. DOMAIN points = 1 .. 8 /\ Len(points) = 8 /\ IsInjective(points)
    <3>1. points \in [1 .. 8 -> [Axis -> Int]] /\ \A m, n \in 1 .. 8 : points[m] = points[n] => m = n
      BY <2>3 DEF Corners
    <3>2. DOMAIN points = 1 .. 8 /\ Len(points) = 8
      BY <3>1, LenProperties
    <3> QED
      BY <3>1, <3>2 DEF IsInjective
  <2>5. ASSUME NEW a \in 1 .. 3
        PROVE  /\ Len(planes[a]) = 2 /\ Len(faces[a]) = 2 /\ DOMAIN faces[a] = {1, 2}
               /\ \A n \in {1, 2} :
                     LET w == faces[a][n].points
                     IN  /\ DOMAIN w = 1 .. 4 /\ Len(w) = 4
                         /\ Range(w) = Range(planes[a][n])
                         /\ \A m \in 1 .. 4 : Walking!Joined(w[m], w[(m % 4) + 1])
    <3>1. Len(planes[a]) = 2
      BY <1>1, <2>1, <2>2, SidesAreTwo
    <3>2. faces \in Seq(Seq([plane : Nat, points : Seq(Nat)])) /\ Len(faces) = 3
      BY <2>1, <2>2 DEF FacesDone
    <3>3. a \in DOMAIN faces /\ faces[a] \in Seq([plane : Nat, points : Seq(Nat)])
      BY <3>2, LenProperties, ElementOfSeq
    <3>4. Len(faces[a]) = 2 /\ Rounds(faces[a], planes[a])
      BY <2>2, <3>1, <3>3 DEF Boxed
    <3>5. DOMAIN faces[a] = {1, 2}
      BY <3>3, <3>4, LenProperties
    <3>6. ASSUME NEW n \in {1, 2}
          PROVE  LET w == faces[a][n].points
                 IN  /\ DOMAIN w = 1 .. 4 /\ Len(w) = 4
                     /\ Range(w) = Range(planes[a][n])
                     /\ \A m \in 1 .. 4 : Walking!Joined(w[m], w[(m % 4) + 1])
      <4> DEFINE w == faces[a][n].points
      <4>1. /\ w \in Seq(Nat) /\ Len(w) = 4 /\ Range(w) = Range(planes[a][n])
            /\ \A m \in 1 .. 3 : Walking!Joined(w[m], w[m + 1])
            /\ Walking!Joined(w[4], w[1])
        BY <3>4, <3>5 DEF Rounds
      <4> HIDE DEF w
      <4>2. DOMAIN w = 1 .. 4
        BY <4>1, LenProperties
      <4>3. ASSUME NEW m \in 1 .. 4 PROVE Walking!Joined(w[m], w[(m % 4) + 1])
        <5>1. CASE m = 4
          <6>1. (m % 4) + 1 = 1
            BY <5>1
          <6> QED
            BY <4>1, <5>1, <6>1
        <5>2. CASE m # 4
          <6>1. m \in 1 .. 3 /\ (m % 4) + 1 = m + 1
            BY <5>2
          <6> QED
            BY <4>1, <6>1
        <5> QED
          BY <5>1, <5>2
      <4> QED
        BY <4>1, <4>2, <4>3 DEF w
    <3> QED
      BY <3>1, <3>4, <3>5, <3>6
  <2>6. ASSUME NEW a \in 1 .. 3 PROVE TwoSides(a)
    <3> DEFINE At(c) == {n \in DOMAIN points : points[n][Axes[a]] = c}
               sides == {At(points[n][Axes[a]]) : n \in DOMAIN points}
    <3>1. \A n \in 1 .. 8 : At(points[n][Axes[a]]) = SideOf(Axes[a], n)
      BY <2>4 DEF SideOf
    <3>2. sides = {SideOf(Axes[a], n) : n \in 1 .. 8}
      <4> HIDE DEF At
      <4> QED
        BY <2>4, <3>1
    <3>3. /\ Cardinality({SideOf(Axes[a], n) : n \in 1 .. 8}) = 2
          /\ \A n \in 1 .. 8 : Cardinality(SideOf(Axes[a], n)) = 4
          /\ {Range(planes[a][k]) : k \in {1, 2}} = {SideOf(Axes[a], n) : n \in 1 .. 8}
      BY <1>1, <2>1, <2>2, SidesAreTwo
    <3>4. {Range(faces[a][n].points) : n \in {1, 2}} = {Range(planes[a][k]) : k \in {1, 2}}
      <4>1. \A n \in {1, 2} : Range(faces[a][n].points) = Range(planes[a][n])
        BY <2>5
      <4> QED
        BY <4>1
    <3>5. Cardinality(sides) = 2 /\ \A S \in sides : Cardinality(S) = 4
      <4> HIDE DEF sides
      <4> QED
        BY <3>2, <3>3
    <3>6. {Range(faces[a][n].points) : n \in {1, 2}} = sides
      <4> HIDE DEF sides
      <4> QED
        BY <3>2, <3>3, <3>4, Zenon
    <3> QED
      BY <2>5, <3>5, <3>6 DEF TwoSides
  <2>7. ASSUME NEW a \in {1, 3}, NEW n \in DOMAIN faces[a] PROVE GoesRound(faces[a][n].points)
    <3> DEFINE w == faces[a][n].points
    <3>1. a \in 1 .. 3 /\ Axes[a] \in {"x", "z"}
      BY DEF Axes
    <3>2. n \in {1, 2}
      BY <2>5, <3>1
    <3>3. /\ DOMAIN w = 1 .. 4 /\ Len(w) = 4
          /\ Range(w) = Range(planes[a][n])
          /\ \A m \in 1 .. 4 : Walking!Joined(w[m], w[(m % 4) + 1])
      BY <2>5, <3>1, <3>2
    <3>4. PICK h \in 1 .. 8 : Range(planes[a][n]) = SideOf(Axes[a], h)
      <4>1. n \in DOMAIN planes[a]
        BY <1>1, <2>1, <2>2, <3>1, <3>2, SidesAreTwo
      <4> QED
        BY <1>1, <2>1, <2>2, <3>1, <4>1, PlanesAreSides
    <3> HIDE DEF w
    <3>5. ASSUME NEW m \in DOMAIN w
          PROVE  Cardinality({b \in Axis : points[w[m]][b] # points[w[(m % Len(w)) + 1]][b]}) = 1
      <4> DEFINE p == w[m]
                 q == w[(m % Len(w)) + 1]
      <4>1. m \in 1 .. 4 /\ (m % Len(w)) + 1 \in 1 .. 4
        BY <3>3
      <4>2. p \in SideOf(Axes[a], h) /\ q \in SideOf(Axes[a], h)
        BY <3>3, <3>4, <4>1 DEF Range
      <4>3. Walking!Joined(p, q)
        BY <3>3, <4>1
      <4> HIDE DEF p, q
      <4>4. Cardinality({b \in Axis : points[p][b] # points[q][b]}) = 1
        BY <2>2, <2>3, <3>1, <4>2, <4>3, OneDirection
      <4> QED
        BY <4>4 DEF p, q
    <3> QED
      BY <3>5 DEF GoesRound, w
  <2> QED
    BY <2>4, <2>6, <2>7
<1> QED
  BY <1>1, AlwaysBoxed, PTL
=============================================================================
