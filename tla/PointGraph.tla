----------------------------- MODULE PointGraph -----------------------------
(***************************************************************************)
(* vectorizer::vectorize (vectorizer.cpp), from the approximated contours  *)
(* to the graph of the drawing.  A map `minimal' of the image holds, for   *)
(* each pixel, the label of the point that claimed it.  Every vertex of    *)
(* every contour takes the label of its pixel, or becomes a new point, and *)
(* then claims the square around it; two consecutive vertices with         *)
(* different labels give an edge.  Labels count from 0, as in the code.    *)
(***************************************************************************)
EXTENDS Integers, Sequences, SequencesExt

CONSTANTS Cols, Rows,   \* size of the image
          SEED_RADIUS,  \* half the side of the square a vertex claims
          START_SEED,   \* the value of a pixel that nothing claimed
          Inputs        \* the lists of contours approxPolyDP may produce

Pixel == (0 .. Cols - 1) \X (0 .. Rows - 1)

ASSUME SizeAssumption == Cols \in Nat \ {0} /\ Rows \in Nat \ {0}
ASSUME SeedAssumption == SEED_RADIUS \in Nat /\ START_SEED \in Nat
ASSUME InputsAssumption == Inputs \subseteq Seq(Seq(Pixel) \ {<< >>})

VARIABLES contours,  \* the list `vertices' of contours
          minimal,   \* the label of each pixel
          points,    \* the points found: the one with label l is points[l + 1]
          edges,     \* pairs of labels
          i, j,      \* the contour, and the next vertex of it
          index,     \* the label of the vertex before
          walk,      \* history: the labels the current contour went through
          pc         \* "contour", "vertex" or "done"

vars == <<contours, minimal, points, edges, i, j, index, walk, pc>>

Init ==
    /\ contours \in Inputs
    /\ minimal = [p \in Pixel |-> START_SEED]
    /\ points = << >>
    /\ edges = << >>
    /\ i = 1 /\ j = 1
    /\ index = 0
    /\ walk = << >>
    /\ pc = "contour"

\* The label of a vertex, and the points once it has it.
Label(v) == IF minimal[v] = START_SEED THEN Len(points) ELSE minimal[v]
PointsWith(v) == IF minimal[v] = START_SEED THEN Append(points, v) ELSE points

\* Slips: the near border of the square is the vertex itself, or the far border
\* is not cut at the border of the image.
FromVertex(c) == c
ToUncut(c, size) == c + SEED_RADIUS

\* The square around a vertex, cut at the borders of the image.
From(c) == IF c - SEED_RADIUS < 0 THEN 0 ELSE c - SEED_RADIUS

To(c, size) == IF c + SEED_RADIUS >= size THEN size - 1 ELSE c + SEED_RADIUS

Square(v) == (From(v[1]) .. To(v[1], Cols)) \X (From(v[2]) .. To(v[2], Rows))

\* seed_neighborhood
Seeded(v, label) ==
    [p \in (DOMAIN minimal) \union Square(v) |->
        IF p \in Square(v) THEN label ELSE minimal[p]]

\* Slip: edges are compared in one direction only.
EdgeExistsDirected(a, b) == \E k \in DOMAIN edges : edges[k] = <<a, b>>

\* edge_already_exists, in either direction.
EdgeExists(a, b) ==
    \E k \in DOMAIN edges : edges[k] = <<a, b>> \/ edges[k] = <<b, a>>

\* Contours of two vertices are left out.
SkipContour ==
    /\ pc = "contour"
    /\ i <= Len(contours)
    /\ Len(contours[i]) = 2
    /\ i' = i + 1
    /\ UNCHANGED <<contours, minimal, points, edges, j, index, walk, pc>>

\* The first vertex of a contour.
EnterContour ==
    /\ pc = "contour"
    /\ i <= Len(contours)
    /\ Len(contours[i]) # 2
    /\ LET v == contours[i][1] IN
          /\ index' = Label(v)
          /\ points' = PointsWith(v)
          /\ minimal' = Seeded(v, Label(v))
          /\ walk' = <<Label(v)>>
    /\ j' = 2
    /\ pc' = "vertex"
    /\ UNCHANGED <<contours, edges, i>>

\* Slip: the label before is not replaced when the edge exists already.
NextVertexKeepingIndex ==
    /\ pc = "vertex"
    /\ j <= Len(contours[i])
    /\ LET v == contours[i][j]
           index2 == Label(v) IN
          /\ points' = PointsWith(v)
          /\ minimal' = Seeded(v, index2)
          /\ IF index = index2 \/ EdgeExists(index, index2)
             THEN UNCHANGED <<edges, index>>
             ELSE edges' = Append(edges, <<index, index2>>) /\ index' = index2
          /\ walk' = Append(walk, index2)
    /\ j' = j + 1
    /\ UNCHANGED <<contours, i, pc>>

\* The next vertex: it is labelled and claims its square before it is compared
\* with the vertex before.
NextVertex ==
    /\ pc = "vertex"
    /\ j <= Len(contours[i])
    /\ LET v == contours[i][j]
           index2 == Label(v) IN
          /\ points' = PointsWith(v)
          /\ minimal' = Seeded(v, index2)
          /\ edges' = IF index = index2 \/ EdgeExists(index, index2)
                      THEN edges
                      ELSE Append(edges, <<index, index2>>)
          /\ index' = index2
          /\ walk' = Append(walk, index2)
    /\ j' = j + 1
    /\ UNCHANGED <<contours, i, pc>>

LeaveContour ==
    /\ pc = "vertex"
    /\ j > Len(contours[i])
    /\ i' = i + 1
    /\ pc' = "contour"
    /\ UNCHANGED <<contours, minimal, points, edges, j, index, walk>>

Finish ==
    /\ pc = "contour"
    /\ i > Len(contours)
    /\ pc' = "done"
    /\ UNCHANGED <<contours, minimal, points, edges, i, j, index, walk>>

Next == SkipContour \/ EnterContour \/ NextVertex \/ LeaveContour \/ Finish

Spec == Init /\ [][Next]_vars

-----------------------------------------------------------------------------
Labels == 0 .. Len(points) - 1

TypeOK ==
    /\ contours \in Seq(Seq(Pixel) \ {<< >>})
    /\ minimal \in [Pixel -> Nat]
    /\ points \in Seq(Pixel)
    /\ edges \in Seq(Nat \X Nat)
    /\ i \in Nat \ {0} /\ j \in Nat \ {0}
    /\ index \in Nat
    /\ walk \in Seq(Nat)
    /\ pc \in {"contour", "vertex", "done"}
    /\ pc = "vertex" => i \in DOMAIN contours

\* What the interpreter relies on: every label that is in the map, in an edge
\* or carried along a contour names a point, and no edge is a loop or is drawn
\* twice, in either direction.
GraphSound ==
    /\ \A p \in DOMAIN minimal : minimal[p] = START_SEED \/ minimal[p] \in Labels
    /\ pc = "vertex" => index \in Labels
    /\ \A k \in DOMAIN edges :
          /\ edges[k] \in Labels \X Labels
          /\ edges[k][1] # edges[k][2]
          /\ \A m \in DOMAIN edges :
                k # m => {edges[k][1], edges[k][2]} # {edges[m][1], edges[m][2]}

\* Two points are within SEED_RADIUS of each other, in both coordinates.
Near(p, q) ==
    /\ p[1] - q[1] \in -SEED_RADIUS .. SEED_RADIUS
    /\ p[2] - q[2] \in -SEED_RADIUS .. SEED_RADIUS

\* No two points are near, so they are different pixels and can be told apart by
\* coordinates.  This holds up to the point labelled START_SEED: its label makes
\* the pixels it claims look unclaimed.
SeedsApart ==
    \A a, b \in DOMAIN points :
        a < b /\ b <= START_SEED + 1 => ~ Near(points[a], points[b])

\* The labels a contour goes through form a path of the graph, however its
\* vertices fell together with those of other contours: skipping a repeated
\* label or an edge that exists never breaks a contour in two.
ContourIsPath ==
    \A k \in 1 .. Len(walk) - 1 :
        walk[k] # walk[k + 1] => EdgeExists(walk[k], walk[k + 1])
=============================================================================
