------------------------------- MODULE Contours -------------------------------
(***************************************************************************)
(* align_contours of the modeller: the points of the model are sorted into *)
(* planes, greedily and in their order.  A point whose coordinate is near  *)
(* the coordinate of a plane is moved onto the plane; the first plane that *)
(* is near gets it.  align_contours_x, _y and _z are this for one axis     *)
(* each.                                                                   *)
(*                                                                         *)
(* Coordinates are doubles, those of the planes ints; but get_location_of  *)
(* cuts every coordinate off to an int before it gets into the model, so   *)
(* nothing is lost when a plane takes over the coordinate of a point.      *)
(***************************************************************************)
EXTENDS Integers, Sequences, FiniteSetsExt

CONSTANT CONTOUR_DIFF  \* how near is near

VARIABLES given,      \* the coordinates of the points as they were
          coord,      \* the coordinates of the points
          i,          \* the point the loop is at
          available,  \* the coordinates of the planes
          res         \* for each plane, the points in it

vars == <<given, coord, i, available, res>>

\* The loop is about to begin, for points with these coordinates.
Begin(coordinates) ==
    /\ given' = coordinates
    /\ coord' = coordinates
    /\ i' = 1
    /\ available' = <<>>
    /\ res' = <<>>

Distance(c, a) == IF c < a THEN a - c ELSE c - a

\* Slip: a point one less than CONTOUR_DIFF away does not count as near.
Nearer(c, a) == Distance(c, a) < CONTOUR_DIFF - 1

Near(c, a) == Distance(c, a) < CONTOUR_DIFF

\* The planes that are near the point the loop is at.
NearPlanes == {j \in DOMAIN available : Near(coord[i], available[j])}

\* Slip: the last plane that is near gets the point.
LastOf(S) == Max(S)

\* break: the first plane that is near gets the point.
FirstOf(S) == Min(S)

\* The point is moved onto the plane, and put into it.
Align ==
    /\ i <= Len(coord)
    /\ NearPlanes # {}
    /\ LET j == FirstOf(NearPlanes)
       IN  coord' = [coord EXCEPT ![i] = available[j]] /\ res' = [res EXCEPT ![j] = Append(@, i)]
    /\ i' = i + 1
    /\ UNCHANGED <<given, available>>

\* Slip: a new plane is left without its first point.
NoMembers == <<>>

FirstMembers == <<i>>

\* No plane is near: the point makes a plane of its own.
NewPlane ==
    /\ i <= Len(coord)
    /\ NearPlanes = {}
    /\ available' = Append(available, coord[i])
    /\ res' = Append(res, FirstMembers)
    /\ i' = i + 1
    /\ UNCHANGED <<given, coord>>

Next == Align \/ NewPlane

-----------------------------------------------------------------------------
TypeOK ==
    /\ coord \in Seq(Int) /\ Len(coord) = Len(given)
    /\ i \in 1..(Len(coord) + 1)
    /\ available \in Seq(Int)
    /\ res \in Seq(Seq(1..Len(coord))) /\ Len(res) = Len(available)

\* Point p is in plane j.
In(p, j) == \E n \in DOMAIN res[j] : res[j][n] = p

\* The points looked at so far are each in one plane, once (the walk of addFaces
\* ends because a plane names no point twice), and lie in it, also those that
\* were put into it long before this point.
EachOnce ==
    /\ \A p \in 1..(i - 1) :
           /\ \E j \in DOMAIN res : In(p, j)
           /\ \A j, k \in DOMAIN res : \A n \in DOMAIN res[j], m \in DOMAIN res[k] :
                 res[j][n] = p /\ res[k][m] = p => j = k /\ n = m
    /\ \A j \in DOMAIN res : \A n \in DOMAIN res[j] : coord[res[j][n]] = available[j]

\* However many points come before it, no point is moved by CONTOUR_DIFF or
\* more, and two planes are at least that far apart: the planes do not wander,
\* and none is split in two.
PlanesApart ==
    /\ \A p \in DOMAIN coord : Distance(coord[p], given[p]) < CONTOUR_DIFF
    /\ \A j, k \in DOMAIN available :
          j # k => Distance(available[j], available[k]) >= CONTOUR_DIFF

\* Points that were level stay together in one plane.
LevelStaysLevel ==
    \A p, q \in 1..(i - 1) : given[p] = given[q] =>
        \A j, k \in DOMAIN res : In(p, j) /\ In(q, k) => j = k
=============================================================================
