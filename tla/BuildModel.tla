----------------------------- MODULE BuildModel -----------------------------
(***************************************************************************)
(* build_model of the modeller: a point of the model for every two         *)
(* vertices of different projections that lie on one line across the       *)
(* sheet, and an edge for every two points whose vertices are joined in    *)
(* the drawing.  The function reads nothing that it writes but the parents *)
(* of the points, so it is one operator for each of its two parts.         *)
(***************************************************************************)
EXTENDS Directions, FiniteSets, SequencesExt

CONSTANT MAX_DIFF  \* how far off a line a vertex may be

ASSUME MaxDiffAssumption == MAX_DIFF \in Nat

\* for m from the first to the last: what the turns add, in their order.
Loop(first, last, turn) ==
    LET upTo[m \in Nat] ==
            IF m < first THEN << >> ELSE upTo[m - 1] \o turn[m]
    IN  upTo[last]

OnOneLine(views, c) ==
    Across(views[c.proj1].vertices[c.pt1], Direction(views, c.proj1, c.proj2),
           views[c.proj2].vertices[c.pt2]) < MAX_DIFF

\* coords_point: where the point with these parents is.
CoordsPoint(views, c) ==
    LET s1 == views[c.proj1].s
        s2 == views[c.proj2].s
    IN  MergePoints(LocationOf(s1, views[c.proj1].vertices[c.pt1]), s1,
                    LocationOf(s2, views[c.proj2].vertices[c.pt2]), s2)

Vertices(views, k) == 1 .. Len(views[k].vertices)

Parent(i, k, j, l) == [proj1 |-> i, pt1 |-> j, proj2 |-> k, pt2 |-> l]

\* points_parents, for i, k and j: one turn for each l.
ParentsOfVertex(views, i, k, j) ==
    [l \in Vertices(views, k) |->
        IF OnOneLine(views, Parent(i, k, j, l)) THEN <<Parent(i, k, j, l)>> ELSE << >>]

\* For i and k: one turn for each j.
ParentsOfTwo(views, i, k) ==
    [j \in Vertices(views, i) |->
        Loop(1, Len(views[k].vertices), ParentsOfVertex(views, i, k, j))]

\* For i: one turn for each k.
ParentsOfView(views, i) ==
    [k \in DOMAIN views |-> Loop(1, Len(views[i].vertices), ParentsOfTwo(views, i, k))]

\* points_parents
Parents(views) ==
    Loop(1, Len(views), [i \in DOMAIN views |->
        Loop(i + 1, Len(views), ParentsOfView(views, i))])

\* Slip: the first pair is passed by.
PointsFromSecond(views, parents) ==
    [n \in 1 .. Len(parents) - 1 |-> CoordsPoint(views, parents[n + 1])]

\* mod.points
Points(views, parents) == [n \in DOMAIN parents |-> CoordsPoint(views, parents[n])]

\* Slip: an edge is looked up in one direction only.
JoinedOneWay(views, v, a, b) == <<a, b>> \in views[v].cedges

\* The two std::find, in either direction.
Joined(views, v, a, b) == <<a, b>> \in views[v].cedges \/ <<b, a>> \in views[v].cedges

SameFirst(p, q) == q.proj1 = p.proj1
Chained(p, q) == q.proj1 # p.proj1 /\ q.proj1 = p.proj2

\* second_edges is filled and never used: both look-ups, also that of vertices
\* of the second projection, are made in the edges of the first one.
ConnectedOnFirst(views, p, q) ==
    \/ p.pt1 = q.pt1
    \/ Joined(views, p.proj1, p.pt1, IF SameFirst(p, q) THEN q.pt1 ELSE q.pt2)
ConnectedOnSecond(views, p, q) ==
    \/ p.pt2 = q.pt2
    \/ Joined(views, p.proj1, p.pt2, IF SameFirst(p, q) THEN q.pt2 ELSE q.pt1)

\* Points of which the second has its first vertex elsewhere are passed by.
Connects(views, p, q) ==
    /\ SameFirst(p, q) \/ Chained(p, q)
    /\ ConnectedOnFirst(views, p, q)
    /\ ConnectedOnSecond(views, p, q)

\* mod.edges, for one point: every later point is looked at once.
EdgesOfPoint(views, parents, m) ==
    [n \in DOMAIN parents |->
        IF Connects(views, parents[m], parents[n]) THEN << <<m, n>> >> ELSE << >>]

\* mod.edges
EdgesBetween(views, parents) ==
    Loop(1, Len(parents), [m \in DOMAIN parents |->
        Loop(m + 1, Len(parents), EdgesOfPoint(views, parents, m))])
=============================================================================
