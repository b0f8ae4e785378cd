-------------------------------- MODULE Faces --------------------------------
(***************************************************************************)
(* addFaces of the modeller: in each plane of points, walk along the edges *)
(* of the model and make polygons of the walks.                            *)
(*                                                                         *)
(* The edges are unordered pairs, which is how addFaces looks them up; one *)
(* turn of its while loop is one step, one disjunct for each way to leave  *)
(* it.                                                                     *)
(***************************************************************************)
EXTENDS Integers, Sequences, FiniteSets, SequencesExt

VARIABLES planes,    \* per_plane_points
          edges,     \* model.edges
          i,         \* the plane the loop is at
          current,   \* the walk
          used,      \* the points of this plane a walk has been to
          polygons   \* what was added to data: the plane, the points

vars == <<planes, edges, i, current, used, polygons>>

\* The loop over the planes is about to begin.
Begin ==
    /\ i' = 1
    /\ current' = <<>>
    /\ used' = {}
    /\ polygons' = <<>>

Joined(p, q) == {p, q} \in edges

\* The points of the plane no walk has been to, as positions in the plane.
Unused == {n \in DOMAIN planes[i] : planes[i][n] \notin used}

\* A walk begins at the first of them.
Begun == IF current # <<>> THEN current ELSE <<planes[i][Min(Unused)]>>

\* The points the walk may go on to, as positions in the plane: new ones, and
\* its first point once it has four.
NextPoints(walk) ==
    {n \in DOMAIN planes[i] :
        LET p == planes[i][n]
        IN  /\ Joined(Last(walk), p)
            /\ p \in Range(walk) => p = walk[1] /\ Len(walk) >= 4}

Walking == i <= Len(planes) /\ Cardinality(used) # Len(planes[i])

Stuck == NextPoints(Begun) = {}

\* What the walk is after this turn: it goes on to the first such point.
Walked == IF Stuck THEN Begun ELSE Append(Begun, planes[i][Min(NextPoints(Begun))])

BackAtStart == Len(Walked) > 2 /\ Last(Walked) = Walked[1]
Square == Len(Walked) = 4 /\ Joined(Last(Walked), Walked[1])

\* Slip: the points of a walk that is given up are not marked.
Unmarked(walk) == used

Marked(walk) == used \union Range(walk)

\* The walk takes one more point, and goes on.
Extend ==
    /\ Walking
    /\ ~ Stuck /\ ~ BackAtStart /\ ~ Square
    /\ current' = Walked
    /\ used' = Marked(Walked)
    /\ UNCHANGED <<planes, edges, i, polygons>>

\* Slip: the point that closes the walk is not taken off again.
FaceWithEnd == Walked

Face == IF BackAtStart THEN Front(Walked) ELSE Walked

\* Slip: a walk of three points is too short for a face.
LongEnough(points) == Len(points) > 3

Enough(points) == Len(points) > 2

\* "Found a face! Yay!": the walk is back at its start, has gone round a
\* square, or cannot go on; a walk of one or two points is dropped.
EndWalk ==
    /\ Walking
    /\ Stuck \/ BackAtStart \/ Square
    /\ polygons' = IF Enough(Face) THEN Append(polygons, [plane |-> i, points |-> Face])
                                   ELSE polygons
    /\ current' = <<>>
    /\ used' = Marked(Walked)
    /\ UNCHANGED <<planes, edges, i>>

\* Slip: a walk that is not finished when all points are used is forgotten.
Forgotten(walk) == TRUE

Empty(walk) == walk = <<>>

\* All points of the plane are used.  A walk that was not finished is logged as
\* "Unable to create face", and added.
LeavePlane ==
    /\ i <= Len(planes) /\ ~ Walking
    /\ polygons' = IF Empty(current) THEN polygons
                   ELSE Append(polygons, [plane |-> i, points |-> current])
    /\ i' = i + 1
    /\ current' = <<>>
    /\ used' = {}
    /\ UNCHANGED <<planes, edges>>

Next == Extend \/ EndWalk \/ LeavePlane

-----------------------------------------------------------------------------
TypeOK ==
    /\ i \in 1..(Len(planes) + 1)
    /\ current \in Seq(Nat)
    /\ used \subseteq (IF i \in DOMAIN planes THEN Range(planes[i]) ELSE {})
    /\ \A n \in DOMAIN polygons :
          /\ polygons[n].plane \in DOMAIN planes
          /\ polygons[n].points \in Seq(Nat)

\* The points of plane k that p is joined to.
Neighbours(k, p) == {q \in Range(planes[k]) : Joined(p, q)}

\* Every polygon is a walk along edges of the model within one plane, and goes
\* to no point twice.
PolygonsAreWalks ==
    \A n \in DOMAIN polygons :
        LET points == polygons[n].points
        IN  /\ Range(points) \subseteq Range(planes[polygons[n].plane])
            /\ IsInjective(points)
            /\ \A m \in 1..(Len(points) - 1) : Joined(points[m], points[m + 1])

\* A point that is in no polygon of its plane has no neighbour in the plane, is
\* a dead end, or is next to a dead end.
LeftOutForAReason ==
    \A k \in 1..(i - 1) : k \in DOMAIN planes =>
        \A p \in Range(planes[k]) :
            \/ \E n \in DOMAIN polygons :
                  polygons[n].plane = k /\ p \in Range(polygons[n].points)
            \/ Cardinality(Neighbours(k, p)) <= 1
            \/ \E q \in Neighbours(k, p) : Neighbours(k, q) = {p}

\* When the edges of a plane form rings that do not touch, as the outlines of
\* the faces of a part do, each ring becomes exactly one polygon, and all of it.
RingsBecomeFaces ==
    \A k \in 1..(i - 1) :
        (\A p \in Range(planes[k]) : Cardinality(Neighbours(k, p)) = 2) =>
            /\ \A p \in Range(planes[k]) :
                  Cardinality({n \in DOMAIN polygons :
                      polygons[n].plane = k /\ p \in Range(polygons[n].points)}) = 1
            /\ \A n \in DOMAIN polygons : polygons[n].plane = k =>
                  LET points == polygons[n].points
                  IN  Len(points) >= 3 /\ Joined(Last(points), points[1])
=============================================================================
