----------------------------- MODULE Directions -----------------------------
(***************************************************************************)
(* How the projections lie to each other on the sheet, and where their     *)
(* vertices are in space: calculate_direction and                          *)
(* assign_coordinate_systems of the interpreter,                           *)
(* coordinate_system::get_location_of, and calculate_distance and          *)
(* merge_points of the modeller.                                           *)
(*                                                                         *)
(* The projections of a sheet lie beside each other or below each other,   *)
(* so that every angle is a multiple of a right angle, given in degrees,   *)
(* and all numbers are whole.  A sheet laid out aslant, where angles come  *)
(* from std::atan, is left out.                                            *)
(*                                                                         *)
(* A view is a projection: vertices, cedges (a set of pairs), center, that *)
(* of its bounding box, and s, its coordinate system.  Which outline gives *)
(* which box is OpenCV's (cv::minAreaRect), so a centre may be anywhere.   *)
(***************************************************************************)
EXTENDS Integers, Sequences

Axis == {"x", "y", "z"}
FAR == 10000  \* how far behind the sheet its lines of reference are laid
ZeroLine == [alpha |-> 0, p |-> 0]

Abs(n) == IF n < 0 THEN -n ELSE n
Cos(alpha) == IF alpha = 0 THEN 1 ELSE 0
Sin(alpha) == CASE alpha = 90 -> 1 [] alpha = -90 -> -1 [] OTHER -> 0

\* The centres of any two views are level, or one is right above the other.
Aligned(views) ==
    \A i, k \in DOMAIN views :
        views[i].center.x = views[k].center.x \/ views[i].center.y = views[k].center.y

\* calculate_direction, without the case of std::atan.
CalculateDirection(c1, c2) ==
    IF c1 = c2 THEN ZeroLine
    ELSE IF c1.x = c2.x THEN [alpha |-> 0, p |-> c1.x] ELSE [alpha |-> 90, p |-> c1.y]

\* calculate_projection_directions: one line for two views, under both orders.
Direction(views, i, k) ==
    IF i = k THEN ZeroLine
    ELSE IF i < k THEN CalculateDirection(views[i].center, views[k].center)
    ELSE CalculateDirection(views[k].center, views[i].center)

\* projection_direction::get_distance_to
DistanceTo(line, pt) == Abs(Cos(line.alpha) * pt.x + Sin(line.alpha) * pt.y - line.p)

\* The modeller's calculate_distance: from the line through `center'.
Across(center, parallel, target) ==
    DistanceTo([alpha |-> parallel.alpha,
                p |-> Cos(parallel.alpha) * center.x + Sin(parallel.alpha) * center.y], target)

\* The interpreter's calculate_distance: from the line at right angles to that.
Along(center, parallel, target) ==
    Abs(-Sin(parallel.alpha) * target.x + Cos(parallel.alpha) * target.y
        - (-Sin(parallel.alpha) * center.x + Cos(parallel.alpha) * center.y))

MainZero(views) == views[1].vertices[1]

\* The vertex of view k that is nearest to main_zero, the first of them.
NearestVertex(views, k) ==
    LET distance(l) == Along(MainZero(views), Direction(views, 1, k), views[k].vertices[l])
    IN  CHOOSE l \in DOMAIN views[k].vertices :
            \A m \in DOMAIN views[k].vertices :
                distance(l) < distance(m) \/ (distance(l) = distance(m) /\ l <= m)

\* assign_coordinate_systems: the main view shows x and y, every other one y
\* and z; z is measured as x of the main view.
YLine(views) ==
    [alpha |-> Direction(views, 1, 2).alpha, p |-> Direction(views, 1, 2).p - FAR]
XLine(views) == [alpha |-> YLine(views).alpha - 90, p |-> -FAR]

MainSystem(views) ==
    [has |-> {"x", "y"}, zero |-> MainZero(views),
     line |-> [x |-> XLine(views), y |-> YLine(views), z |-> ZeroLine]]

\* Slip: z is measured along the same line as y.
OtherSystemAlongY(views, k) ==
    [has |-> {"y", "z"}, zero |-> views[k].vertices[NearestVertex(views, k)],
     line |-> [x |-> ZeroLine, y |-> YLine(views), z |-> YLine(views)]]

OtherSystem(views, k) ==
    [has |-> {"y", "z"}, zero |-> views[k].vertices[NearestVertex(views, k)],
     line |-> [x |-> ZeroLine, y |-> YLine(views), z |-> XLine(views)]]

AssignCoordinateSystems(views) ==
    [k \in DOMAIN views |->
        [center |-> views[k].center, vertices |-> views[k].vertices, cedges |-> views[k].cedges,
         s |-> IF k = 1 THEN MainSystem(views) ELSE OtherSystem(views, k)]]

\* coordinate_system::get_location_of
LocationOf(s, pt) ==
    LET at(a) == IF a \in s.has
                 THEN DistanceTo(s.line[a], pt) - DistanceTo(s.line[a], s.zero) ELSE 0
    IN  [x |-> at("x"), y |-> at("y"), z |-> at("z")]

\* merge_points: a coordinate that both views show is the first one's.
MergePoints(v1, s1, v2, s2) ==
    LET at(a) == IF a \in s1.has THEN v1[a] ELSE v2[a]
    IN  [x |-> at("x"), y |-> at("y"), z |-> at("z")]
=============================================================================
