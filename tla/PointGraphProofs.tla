-------------------------- MODULE PointGraphProofs --------------------------
(***************************************************************************)
(* Proofs about PointGraph, for every image size, radius, seed and list of *)
(* contours.                                                               *)
(*                                                                         *)
(* SeedsApart is not inductive: it says nothing of the map that decides    *)
(* whether a vertex becomes a point.  Claimed supplies it: as long as no   *)
(* point has the label START_SEED, every pixel of the square around a      *)
(* point carries some label, so a vertex that becomes a point is outside.  *)
(***************************************************************************)
EXTENDS PointGraph, ListLemmas

\* The pixels around every point are claimed, by it or by a later vertex.
Claimed ==
    Len(points) <= START_SEED =>
        \A a \in DOMAIN points : \A p \in Square(points[a]) : minimal[p] # START_SEED

\* No point is in the square that an earlier one claimed.
OutsideSquares ==
    \A a, b \in DOMAIN points :
        a < b /\ b <= START_SEED + 1 => points[b] \notin Square(points[a])

\* Labels in the map and the running label name points.
LabelsName ==
    /\ \A p \in Pixel : minimal[p] = START_SEED \/ minimal[p] < Len(points)
    /\ pc = "vertex" => index < Len(points)

\* The running label is the last one of the history.
WalkEnds == pc = "vertex" => Len(walk) > 0 /\ walk[Len(walk)] = index

\* Edges join two points, and no two edges join the same.
Same(d, e) == {d[1], d[2]} = {e[1], e[2]}
EdgesSimple ==
    \A k \in DOMAIN edges :
        /\ edges[k][1] < Len(points) /\ edges[k][2] < Len(points)
        /\ edges[k][1] # edges[k][2]
        /\ \A m \in DOMAIN edges : k # m => ~ Same(edges[k], edges[m])

\* The inductive invariant.
IInv ==
    /\ TypeOK /\ LabelsName /\ Claimed /\ OutsideSquares
    /\ EdgesSimple /\ WalkEnds /\ ContourIsPath

-----------------------------------------------------------------------------
\* The square around a pixel of the image lies in the image.
LEMMA SquareInImage ==
    ASSUME NEW v \in Pixel
    PROVE  Square(v) \in SUBSET Pixel /\ v \in Square(v)
<1>1. v[1] \in 0 .. Cols - 1 /\ v[2] \in 0 .. Rows - 1 /\ v = <<v[1], v[2]>>
  BY DEF Pixel
<1>2. /\ From(v[1]) .. To(v[1], Cols) \subseteq 0 .. Cols - 1
      /\ v[1] \in From(v[1]) .. To(v[1], Cols)
  BY <1>1, SizeAssumption, SeedAssumption DEF From, To
<1>3. /\ From(v[2]) .. To(v[2], Rows) \subseteq 0 .. Rows - 1
      /\ v[2] \in From(v[2]) .. To(v[2], Rows)
  BY <1>1, SizeAssumption, SeedAssumption DEF From, To
<1> QED
  BY <1>1, <1>2, <1>3 DEF Square, Pixel

\* Labelling a vertex and claiming its square: what both EnterContour and
\* NextVertex do to the map and to the points.
LEMMA Claim ==
    ASSUME TypeOK, LabelsName, Claimed, OutsideSquares,
           NEW v \in Pixel,
           points' = PointsWith(v), minimal' = Seeded(v, Label(v))
    PROVE  /\ Label(v) \in Nat
           /\ minimal' \in [Pixel -> Nat]
           /\ points' \in Seq(Pixel)
           /\ Len(points) <= Len(points')
           /\ Label(v) < Len(points')
           /\ \A p \in Pixel : minimal'[p] = START_SEED \/ minimal'[p] < Len(points')
           /\ Claimed'
           /\ OutsideSquares'
<1> DEFINE n == Len(points)
<1>0. /\ n \in Nat /\ DOMAIN points = 1 .. n /\ START_SEED \in Nat
      /\ \A a \in 1 .. n : points[a] \in Pixel
  BY LenProperties, ElementOfSeq, SeedAssumption DEF TypeOK
<1>1. Square(v) \in SUBSET Pixel /\ v \in Square(v)
  BY SquareInImage
<1>2. minimal[v] \in Nat /\ Label(v) \in Nat
  BY <1>0 DEF TypeOK, Label
<1>3. minimal' = [p \in Pixel |-> IF p \in Square(v) THEN Label(v) ELSE minimal[p]]
  BY <1>1 DEF Seeded, TypeOK
<1>4. minimal' \in [Pixel -> Nat]
  BY <1>2, <1>3 DEF TypeOK
<1>5. CASE minimal[v] = START_SEED
  <2>1. Label(v) = n /\ points' = Append(points, v)
    BY <1>5 DEF Label, PointsWith
  <2>2. /\ points' \in Seq(Pixel) /\ Len(points') = n + 1
        /\ \A a \in 1 .. n : points'[a] = points[a]
        /\ points'[n + 1] = v
    BY <2>1, AppendProperties DEF TypeOK
  <2>3. DOMAIN points' = 1 .. n + 1
    BY <2>2, LenProperties
  <2>4. \A p \in Pixel : minimal'[p] = START_SEED \/ minimal'[p] < Len(points')
    <3>1. \A p \in Pixel : minimal[p] \in Nat /\ (minimal[p] = START_SEED \/ minimal[p] < n)
      BY DEF LabelsName, TypeOK
    <3> HIDE DEF n
    <3> QED
      BY <3>1, <1>0, <1>3, <2>1, <2>2
  <2>5. Claimed'
    <3>1. SUFFICES ASSUME n + 1 <= START_SEED,
                          NEW a \in 1 .. n + 1, NEW p \in Square(points'[a])
                   PROVE  minimal'[p] # START_SEED
      BY <2>2, <2>3 DEF Claimed, Square, From, To
    <3>2. p \in Pixel
      <4>1. points'[a] \in Pixel
        BY <2>2, <2>3, ElementOfSeq
      <4> QED
        BY <4>1, SquareInImage
    <3>3. CASE p \in Square(v)
      BY <3>1, <3>2, <3>3, <1>0, <1>3, <2>1
    <3>4. CASE p \notin Square(v)
      <4>1. a \in 1 .. n /\ points'[a] = points[a]
        BY <3>4, <2>2, <1>0
      <4>2. minimal[p] # START_SEED
        BY <4>1, <3>1, <1>0 DEF Claimed
      <4> QED
        BY <4>2, <3>2, <3>4, <1>3
    <3> QED
      BY <3>3, <3>4
  <2>6. OutsideSquares'
    <3>1. SUFFICES ASSUME NEW a \in 1 .. n + 1, NEW b \in 1 .. n + 1,
                          a < b, b <= START_SEED + 1
                   PROVE  points'[b] \notin Square(points'[a])
      BY <2>3 DEF OutsideSquares, Square, From, To
    <3>2. a \in 1 .. n /\ points'[a] = points[a]
      BY <3>1, <2>2, <1>0
    <3>3. CASE b = n + 1
      <4>1. n <= START_SEED
        BY <3>1, <3>3, <1>0
      <4> QED
        BY <4>1, <3>2, <3>3, <2>2, <1>5, <1>0 DEF Claimed
    <3>4. CASE b # n + 1
      <4>1. b \in 1 .. n /\ points'[b] = points[b]
        BY <3>4, <2>2, <1>0
      <4> QED
        BY <4>1, <3>1, <3>2, <1>0 DEF OutsideSquares
    <3> QED
      BY <3>3, <3>4
  <2> QED
    BY <1>0, <1>2, <1>4, <2>1, <2>2, <2>4, <2>5, <2>6
<1>6. CASE minimal[v] # START_SEED
  <2>1. Label(v) = minimal[v] /\ points' = points
    BY <1>6 DEF Label, PointsWith
  <2>2. Label(v) < n /\ Label(v) # START_SEED
    BY <2>1, <1>6 DEF LabelsName
  <2>3. \A p \in Pixel : minimal'[p] = START_SEED \/ minimal'[p] < n
    BY <1>3, <2>2 DEF LabelsName
  <2>4. Claimed'
    <3>1. SUFFICES ASSUME n <= START_SEED,
                          NEW a \in 1 .. n, NEW p \in Square(points[a])
                   PROVE  minimal'[p] # START_SEED
      BY <2>1, <1>0 DEF Claimed, Square, From, To
    <3>2. p \in Pixel
      BY <1>0, SquareInImage
    <3>3. minimal[p] # START_SEED
      BY <3>1, <1>0 DEF Claimed
    <3> QED
      BY <3>2, <3>3, <1>3, <2>2
  <2>5. OutsideSquares'
    BY <2>1 DEF OutsideSquares, Square, From, To
  <2> QED
    BY <1>0, <1>2, <1>4, <2>1, <2>2, <2>3, <2>4, <2>5 DEF TypeOK
<1> QED
  BY <1>5, <1>6

\* An edge that exists still exists when edges are appended.
LEMMA EdgesStay ==
    ASSUME TypeOK,
           edges' = edges \/ \E e \in Nat \X Nat : edges' = Append(edges, e)
    PROVE  \A a, b : EdgeExists(a, b) => EdgeExists(a, b)'
<1>1. ASSUME NEW a, NEW b, EdgeExists(a, b)
      PROVE  EdgeExists(a, b)'
  <2>1. CASE edges' = edges
    BY <2>1, <1>1 DEF EdgeExists
  <2>2. CASE \E e \in Nat \X Nat : edges' = Append(edges, e)
    <3>1. PICK e \in Nat \X Nat : edges' = Append(edges, e)
      BY <2>2
    <3>2. PICK k \in DOMAIN edges : edges[k] = <<a, b>> \/ edges[k] = <<b, a>>
      BY <1>1 DEF EdgeExists
    <3>3. k \in DOMAIN edges' /\ edges'[k] = edges[k]
      <4>1. edges \in Seq(Nat \X Nat)
        BY DEF TypeOK
      <4>2. /\ edges' \in Seq(Nat \X Nat) /\ Len(edges') = Len(edges) + 1
            /\ \A n \in 1 .. Len(edges) : edges'[n] = edges[n]
        BY <3>1, <4>1, AppendProperties
      <4>3. /\ Len(edges) \in Nat /\ DOMAIN edges = 1 .. Len(edges)
            /\ DOMAIN edges' = 1 .. Len(edges')
        BY <4>1, <4>2, LenProperties
      <4> QED
        BY <4>2, <4>3
    <3> QED
      BY <3>2, <3>3 DEF EdgeExists
  <2> QED
    BY <2>1, <2>2
<1> QED
  BY <1>1

\* The edges stay simple when the one from the last label to the next is added
\* only if there is none yet, and when points are added.
LEMMA SimpleStep ==
    ASSUME TypeOK, EdgesSimple,
           Len(points') \in Nat, Len(points) <= Len(points'),
           NEW a \in Nat, NEW b \in Nat, a < Len(points'), b < Len(points'),
           edges' = edges \/ (a # b /\ ~ EdgeExists(a, b) /\ edges' = Append(edges, <<a, b>>))
    PROVE  EdgesSimple'
<1> DEFINE n == Len(edges)
<1>1. /\ n \in Nat /\ DOMAIN edges = 1 .. n /\ Len(points) \in Nat
      /\ \A k \in 1 .. n : edges[k][1] \in Nat /\ edges[k][2] \in Nat
                             /\ edges[k] = <<edges[k][1], edges[k][2]>>
  <2>1. edges \in Seq(Nat \X Nat) /\ Len(points) \in Nat
    BY LenProperties DEF TypeOK
  <2>2. n \in Nat /\ DOMAIN edges = 1 .. n
    BY <2>1, LenProperties
  <2>3. \A k \in 1 .. n : edges[k] \in Nat \X Nat
    BY <2>1, ElementOfSeq
  <2> QED
    BY <2>1, <2>2, <2>3
<1>2. \A k \in 1 .. n : edges[k][1] < Len(points') /\ edges[k][2] < Len(points')
  BY <1>1 DEF EdgesSimple
<1>3. CASE edges' = edges
  BY <1>1, <1>2, <1>3 DEF EdgesSimple
<1>4. CASE a # b /\ ~ EdgeExists(a, b) /\ edges' = Append(edges, <<a, b>>)
  <2>0. <<a, b>> \in Nat \X Nat /\ edges \in Seq(Nat \X Nat)
    BY DEF TypeOK
  <2>1. /\ DOMAIN edges' = 1 .. n + 1 /\ edges'[n + 1] = <<a, b>>
        /\ \A k \in 1 .. n : edges'[k] = edges[k]
    <3>1. /\ edges' \in Seq(Nat \X Nat) /\ Len(edges') = n + 1
          /\ edges'[n + 1] = <<a, b>> /\ \A k \in 1 .. n : edges'[k] = edges[k]
      BY <2>0, <1>4, AppendProperties
    <3> QED
      BY <3>1, LenProperties
  <2>2. \A k \in 1 .. n : ~ Same(edges[k], <<a, b>>) /\ ~ Same(<<a, b>>, edges[k])
    <3>1. \A k \in 1 .. n : edges[k] # <<a, b>> /\ edges[k] # <<b, a>>
      BY <1>1, <1>4 DEF EdgeExists
    <3> QED
      BY <3>1, <1>1 DEF Same
  <2>3. \A k \in 1 .. n + 1 : k = n + 1 \/ k \in 1 .. n
    BY <1>1
  <2> HIDE DEF n
  <2>4. ASSUME NEW k \in 1 .. n + 1, NEW m \in 1 .. n + 1, k # m
        PROVE  ~ Same(edges'[k], edges'[m])
    <3>1. CASE k \in 1 .. n /\ m \in 1 .. n
      BY <3>1, <2>1, <2>4, <1>1 DEF EdgesSimple
    <3>2. CASE k = n + 1 /\ m \in 1 .. n
      BY <3>2, <2>1, <2>2
    <3>3. CASE m = n + 1 /\ k \in 1 .. n
      BY <3>3, <2>1, <2>2
    <3> QED
      BY <3>1, <3>2, <3>3, <2>3, <2>4
  <2>5. ASSUME NEW k \in 1 .. n + 1
        PROVE  /\ edges'[k][1] < Len(points') /\ edges'[k][2] < Len(points')
               /\ edges'[k][1] # edges'[k][2]
    <3>1. CASE k = n + 1
      BY <3>1, <1>4, <2>1
    <3>2. CASE k \in 1 .. n
      <4>1. edges'[k] = edges[k] /\ edges[k][1] # edges[k][2]
        BY <3>2, <1>1, <2>1 DEF EdgesSimple
      <4> QED
        BY <4>1, <3>2, <1>2
    <3> QED
      BY <3>1, <3>2, <2>3
  <2> QED
    BY <2>1, <2>4, <2>5 DEF EdgesSimple
<1> QED
  BY <1>3, <1>4

-----------------------------------------------------------------------------
\* The initial states satisfy the invariant.
LEMMA InitInv == Init => IInv
<1> SUFFICES ASSUME Init PROVE IInv
  OBVIOUS
<1>1. /\ << >> \in Seq(Pixel) /\ << >> \in Seq(Nat \X Nat) /\ << >> \in Seq(Nat)
      /\ Len(<< >>) = 0 /\ DOMAIN << >> = {} /\ 1 .. 0 - 1 = {}
  OBVIOUS
<1>2. TypeOK
  BY <1>1, InputsAssumption, SeedAssumption DEF Init, TypeOK
<1>3. LabelsName /\ Claimed /\ OutsideSquares /\ EdgesSimple
  BY <1>1 DEF Init, LabelsName, Claimed, OutsideSquares, EdgesSimple
<1>4. WalkEnds /\ ContourIsPath
  BY <1>1 DEF Init, WalkEnds, ContourIsPath
<1> QED
  BY <1>2, <1>3, <1>4 DEF IInv

\* Entering a contour preserves the invariant.
LEMMA EnterInv == IInv /\ EnterContour => IInv'
<1> SUFFICES ASSUME IInv, EnterContour PROVE IInv'
  OBVIOUS
<1> DEFINE v == contours[i][1]
<1>1. i \in DOMAIN contours
  BY LenProperties DEF IInv, TypeOK, EnterContour
<1>2. contours[i] \in Seq(Pixel) \ {<< >>}
  BY <1>1, LenProperties, ElementOfSeq DEF IInv, TypeOK
<1>3. v \in Pixel
  BY <1>2, EmptySeq, LenProperties, ElementOfSeq
<1>4. /\ index' = Label(v) /\ points' = PointsWith(v) /\ minimal' = Seeded(v, Label(v))
      /\ walk' = <<Label(v)>> /\ j' = 2 /\ pc' = "vertex"
      /\ UNCHANGED <<contours, edges, i>>
  BY DEF EnterContour
<1>5. /\ Label(v) \in Nat /\ minimal' \in [Pixel -> Nat] /\ points' \in Seq(Pixel)
      /\ Len(points) <= Len(points') /\ Label(v) < Len(points')
      /\ \A p \in Pixel : minimal'[p] = START_SEED \/ minimal'[p] < Len(points')
      /\ Claimed' /\ OutsideSquares'
  BY <1>3, <1>4, Claim DEF IInv
<1>6. walk' \in Seq(Nat) /\ Len(walk') = 1 /\ walk'[1] = index'
  BY <1>4, <1>5
<1>7. TypeOK'
  BY <1>1, <1>4, <1>5, <1>6 DEF IInv, TypeOK
<1>8. LabelsName'
  BY <1>4, <1>5 DEF LabelsName
<1>9. WalkEnds' /\ ContourIsPath'
  BY <1>6 DEF WalkEnds, ContourIsPath
<1>10. EdgesSimple'
  BY <1>4, <1>5, SimpleStep, LenProperties DEF IInv
<1> QED
  BY <1>5, <1>7, <1>8, <1>9, <1>10 DEF IInv

\* The next vertex preserves the invariant.
LEMMA VertexInv == IInv /\ NextVertex => IInv'
<1> SUFFICES ASSUME IInv, NextVertex PROVE IInv'
  OBVIOUS
<1> DEFINE v == contours[i][j]
           index2 == Label(v)
<1>1. i \in DOMAIN contours /\ pc = "vertex" /\ j \in Nat \ {0} /\ j <= Len(contours[i])
  BY DEF IInv, TypeOK, NextVertex
<1>2. contours[i] \in Seq(Pixel)
  BY <1>1, LenProperties, ElementOfSeq DEF IInv, TypeOK
<1>3. v \in Pixel
  <2>1. j \in 1 .. Len(contours[i])
    BY <1>1, <1>2, LenProperties
  <2> QED
    BY <2>1, <1>2, ElementOfSeq
<1>4. /\ index' = index2 /\ points' = PointsWith(v) /\ minimal' = Seeded(v, index2)
      /\ walk' = Append(walk, index2) /\ j' = j + 1
      /\ UNCHANGED <<contours, i, pc>>
      /\ edges' = IF index = index2 \/ EdgeExists(index, index2)
                  THEN edges ELSE Append(edges, <<index, index2>>)
  BY DEF NextVertex
<1>5. /\ index2 \in Nat /\ minimal' \in [Pixel -> Nat] /\ points' \in Seq(Pixel)
      /\ Len(points) <= Len(points') /\ index2 < Len(points')
      /\ \A p \in Pixel : minimal'[p] = START_SEED \/ minimal'[p] < Len(points')
      /\ Claimed' /\ OutsideSquares'
  BY <1>3, <1>4, Claim DEF IInv
<1> HIDE DEF index2
<1>6. index \in Nat /\ walk \in Seq(Nat) /\ edges \in Seq(Nat \X Nat)
  BY DEF IInv, TypeOK
<1>7. edges' = edges \/ edges' = Append(edges, <<index, index2>>)
  BY <1>4
<1>8. edges' \in Seq(Nat \X Nat)
  <2>1. <<index, index2>> \in Nat \X Nat
    BY <1>5, <1>6
  <2>2. Append(edges, <<index, index2>>) \in Seq(Nat \X Nat)
    BY <2>1, <1>6, Grown
  <2> QED
    BY <2>2, <1>6, <1>7, Zenon
<1>9. /\ walk' \in Seq(Nat) /\ Len(walk') = Len(walk) + 1 /\ Len(walk) \in Nat
      /\ \A k \in 1 .. Len(walk) : walk'[k] = walk[k]
      /\ walk'[Len(walk) + 1] = index2
  BY <1>4, <1>5, <1>6, AppendProperties, LenProperties
<1>10. TypeOK'
  <2>1. j' \in Nat \ {0}
    BY <1>1, <1>4
  <2>2. index' \in Nat /\ UNCHANGED <<contours, i, pc>>
    BY <1>4, <1>5
  <2> QED
    BY <2>1, <2>2, <1>5, <1>8, <1>9 DEF IInv, TypeOK
<1>11. LabelsName'
  BY <1>4, <1>5 DEF LabelsName
<1>12. WalkEnds'
  BY <1>4, <1>9 DEF WalkEnds
<1>13. ASSUME NEW a, NEW b, a = index, b = index2, a # b
       PROVE  EdgeExists(a, b)'
  <2>1. CASE EdgeExists(a, b)
    BY <2>1, <1>4, <1>13 DEF EdgeExists
  <2>2. CASE ~ EdgeExists(a, b)
    <3>1. edges' = Append(edges, <<a, b>>) /\ <<a, b>> \in Nat \X Nat
      BY <2>2, <1>4, <1>5, <1>6, <1>13
    <3>2. Len(edges) + 1 \in DOMAIN edges' /\ edges'[Len(edges) + 1] = <<a, b>>
      BY <3>1, <1>6, AppendProperties, LenProperties
    <3> QED
      BY <3>2 DEF EdgeExists
  <2> QED
    BY <2>1, <2>2
<1>14. ContourIsPath'
  <2>1. Len(walk) > 0 /\ walk[Len(walk)] = index
    BY <1>1 DEF IInv, WalkEnds
  <2>2. edges' = edges \/ \E e \in Nat \X Nat : edges' = Append(edges, e)
    BY <1>5, <1>6, <1>7
  <2>3. ASSUME NEW k \in 1 .. Len(walk), NEW a, NEW b,
               a = walk'[k], b = walk'[k + 1], a # b
        PROVE  EdgeExists(a, b)'
    <3>1. CASE k = Len(walk)
      BY <3>1, <2>1, <2>3, <1>9, <1>13
    <3>2. CASE k # Len(walk)
      <4>1. k \in 1 .. Len(walk) - 1 /\ a = walk[k] /\ b = walk[k + 1]
        BY <3>2, <2>3, <1>9
      <4>2. EdgeExists(a, b)
        BY <4>1, <2>3 DEF IInv, ContourIsPath
      <4> QED
        BY <4>2, <2>2, EdgesStay DEF IInv
    <3> QED
      BY <3>1, <3>2
  <2>4. Len(walk') - 1 = Len(walk)
    BY <1>9
  <2> QED
    BY <2>3, <2>4 DEF ContourIsPath, EdgeExists
<1>15. EdgesSimple'
  <2>1. Len(points') \in Nat /\ Len(points) \in Nat /\ index < Len(points)
    BY <1>1, <1>5, LenProperties DEF IInv, TypeOK, LabelsName
  <2>2. index < Len(points')
    BY <2>1, <1>5, <1>6
  <2>3. edges' = edges \/ (index # index2 /\ ~ EdgeExists(index, index2)
                             /\ edges' = Append(edges, <<index, index2>>))
    BY <1>4, Zenon
  <2> QED
    BY <2>1, <2>2, <2>3, <1>5, <1>6, SimpleStep DEF IInv
<1> QED
  BY <1>5, <1>10, <1>11, <1>12, <1>14, <1>15 DEF IInv

\* Leaving, skipping and finishing preserve the invariant.
LEMMA OtherInv ==
    IInv /\ (SkipContour \/ LeaveContour \/ Finish \/ UNCHANGED vars) => IInv'
<1> SUFFICES ASSUME IInv, SkipContour \/ LeaveContour \/ Finish \/ UNCHANGED vars
             PROVE  IInv'
  OBVIOUS
<1>1. UNCHANGED <<contours, minimal, points, edges, j, index, walk>>
  BY DEF SkipContour, LeaveContour, Finish, vars
<1>2. i' \in Nat \ {0} /\ pc' \in {"contour", "vertex", "done"}
  <2>1. i \in Nat \ {0} /\ pc \in {"contour", "vertex", "done"}
    BY DEF IInv, TypeOK
  <2>2. /\ i' = i \/ i' = i + 1
        /\ pc' = pc \/ pc' \in {"contour", "done"}
    BY DEF SkipContour, LeaveContour, Finish, vars
  <2> QED
    BY <2>1, <2>2
<1>3. pc' = "vertex" => pc = "vertex" /\ i' = i
  BY DEF SkipContour, LeaveContour, Finish, vars
<1>4. TypeOK'
  BY <1>1, <1>2, <1>3 DEF IInv, TypeOK
<1>5. LabelsName' /\ WalkEnds'
  BY <1>1, <1>3 DEF IInv, LabelsName, WalkEnds
<1>6. Claimed' /\ OutsideSquares' /\ EdgesSimple'
  BY <1>1 DEF IInv, Claimed, OutsideSquares, Square, From, To, EdgesSimple
<1>7. ContourIsPath'
  BY <1>1 DEF IInv, ContourIsPath, EdgeExists
<1> QED
  BY <1>4, <1>5, <1>6, <1>7 DEF IInv

\* Every step preserves the invariant.
LEMMA NextInv == IInv /\ [Next]_vars => IInv'
BY EnterInv, VertexInv, OtherInv DEF Next

\* A square, cut at the borders of the image, still has every pixel of the image
\* that is near its vertex.
LEMMA NearInSquare ==
    ASSUME NEW p \in Pixel, NEW q \in Pixel, Near(p, q)
    PROVE  q \in Square(p)
<1>1. /\ p[1] \in 0 .. Cols - 1 /\ p[2] \in 0 .. Rows - 1
      /\ q[1] \in 0 .. Cols - 1 /\ q[2] \in 0 .. Rows - 1 /\ q = <<q[1], q[2]>>
  BY DEF Pixel
<1>2. q[1] \in From(p[1]) .. To(p[1], Cols)
  BY <1>1, SizeAssumption, SeedAssumption DEF Near, From, To
<1>3. q[2] \in From(p[2]) .. To(p[2], Rows)
  BY <1>1, SizeAssumption, SeedAssumption DEF Near, From, To
<1> QED
  BY <1>1, <1>2, <1>3 DEF Square

\* So points outside of each other's squares are not near.
LEMMA Outside == IInv => SeedsApart
<1> SUFFICES ASSUME IInv,
                    NEW a \in DOMAIN points, NEW b \in DOMAIN points,
                    a < b, b <= START_SEED + 1, Near(points[a], points[b])
             PROVE  FALSE
  BY DEF SeedsApart
<1>1. points[a] \in Pixel /\ points[b] \in Pixel
  BY ElementOfSeq, LenProperties DEF IInv, TypeOK
<1>2. points[b] \in Square(points[a])
  BY <1>1, NearInSquare
<1> QED
  BY <1>2 DEF IInv, OutsideSquares

\* The variables always keep their types; in particular, the map is never
\* written outside the image, at any border.
THEOREM TypeCorrect == Spec => []TypeOK
<1>1. IInv => TypeOK
  BY DEF IInv
<1> QED
  BY <1>1, InitInv, NextInv, PTL DEF Spec

\* No two points are within SEED_RADIUS of each other (up to the point that has
\* START_SEED as its label): vertices of different contours that are close are
\* always taken for one.
THEOREM PointsApart == Spec => []SeedsApart
<1>1. IInv => SeedsApart
  BY Outside
<1> QED
  BY <1>1, InitInv, NextInv, PTL DEF Spec

\* What the interpreter is handed is a simple graph: every label on the map,
\* carried along or in an edge names a point, no edge is a loop, and none is
\* drawn twice, in either direction.
THEOREM GraphIsSound == Spec => []GraphSound
<1>1. IInv => GraphSound
  <2> SUFFICES ASSUME IInv PROVE GraphSound
    OBVIOUS
  <2>1. Len(points) \in Nat /\ DOMAIN edges = 1 .. Len(edges)
    BY LenProperties DEF IInv, TypeOK
  <2>2. \A k \in DOMAIN edges : edges[k] \in Nat \X Nat
    BY ElementOfSeq, <2>1 DEF IInv, TypeOK
  <2>3. \A l \in Nat : l < Len(points) => l \in Labels
    BY <2>1 DEF Labels
  <2>4. \A p \in DOMAIN minimal : minimal[p] = START_SEED \/ minimal[p] \in Labels
    BY <2>3 DEF IInv, TypeOK, LabelsName
  <2>5. pc = "vertex" => index \in Labels
    BY <2>3 DEF IInv, TypeOK, LabelsName
  <2>6. \A k \in DOMAIN edges : edges[k] \in Labels \X Labels /\ edges[k][1] # edges[k][2]
    BY <2>2, <2>3 DEF IInv, EdgesSimple
  <2> QED
    BY <2>4, <2>5, <2>6 DEF IInv, EdgesSimple, GraphSound, Same
<1> QED
  BY <1>1, InitInv, NextInv, PTL DEF Spec

\* The labels of a contour always form a path of the graph.
THEOREM ContoursArePaths == Spec => []ContourIsPath
<1>1. IInv => ContourIsPath
  BY DEF IInv
<1> QED
  BY <1>1, InitInv, NextInv, PTL DEF Spec
=============================================================================
