------------------------------ MODULE Modeller ------------------------------
(***************************************************************************)
(* modeller::generate_model: build_model makes points and edges of the     *)
(* projections, and load sorts the points into planes, axis by axis, and   *)
(* walks along the edges for faces, again axis by axis.  The stages are    *)
(* BuildModel, Contours and Faces, each working on what the one before     *)
(* left.                                                                   *)
(***************************************************************************)
EXTENDS BuildModel

CONSTANTS CONTOUR_DIFF,  \* as in Contours
          Sheets         \* lists of projections that get to the modeller

Spot == [x : Int, y : Int]
Sheet == Seq([center : Spot, vertices : Seq(Spot), cedges : SUBSET (Nat \X Nat)])

ASSUME ModellerAssumption ==
    /\ CONTOUR_DIFF \in Nat \ {0}
    /\ \A sheet \in Sheets :
          /\ sheet \in Sheet /\ Len(sheet) >= 2 /\ Aligned(sheet)
          /\ \A k \in DOMAIN sheet :
                /\ sheet[k].vertices # << >>
                /\ sheet[k].cedges \subseteq Vertices(sheet, k) \X Vertices(sheet, k)

\* The tolerances of the code are 30 and 40.
ASSUME DiffsAssumption == MAX_DIFF \in 1 .. CONTOUR_DIFF

\* The interpreter merges a projection that has the centre of another one in its
\* box, so no two have one centre.  No vertex is behind the lines of reference:
\* those lie FAR outside a picture, which is smaller than that.
ASSUME SheetAssumption ==
    \A sheet \in Sheets :
        /\ \A k, m \in DOMAIN sheet : k # m => sheet[k].center # sheet[m].center
        /\ \A k \in DOMAIN sheet : \A n \in DOMAIN sheet[k].vertices :
              LET v == sheet[k].vertices[n]
              IN  /\ v.x >= -FAR /\ v.y <= FAR
                  /\ v.x - sheet[1].center.x >= -FAR /\ v.y - sheet[1].center.y >= -FAR

VARIABLES
    views,           \* in.projections, the centres in place of in.projection_directions
    points_parents,  \* the parents of each point
    points, edges,   \* the model
    axis,            \* which axis load is at
    planes,          \* x_contours, y_contours, z_contours, as far as there are
    faces,           \* for each axis, the polygons its planes gave
    given, coord, i, available, res,  \* as in Contours
    plane, current, used, polygons,   \* as in Faces
    stage            \* "build", "align", "faces" or "loaded"

model == <<views, points_parents, edges>>
contours_vars == <<given, coord, i, available, res>>
faces_vars == <<plane, current, used, polygons>>
vars == <<model, points, axis, planes, faces, contours_vars, faces_vars, stage>>

Axes == <<"x", "y", "z">>
Coordinates(list, a) == [n \in DOMAIN list |-> list[n][Axes[a]]]

\* Slip: the planes of the axis before are walked through.
PlanesBefore == IF axis > 1 THEN planes[axis - 1] ELSE planes[axis]

PlanesOfAxis == IF axis \in DOMAIN planes THEN planes[axis] ELSE << >>

Aligning == INSTANCE Contours
Walking == INSTANCE Faces WITH
               planes <- PlanesOfAxis, i <- plane,
               edges <- {{e[1], e[2]} : e \in Range(edges)}

Init ==
    /\ \E sheet \in Sheets : views = AssignCoordinateSystems(sheet)
    /\ stage = "build"
    /\ points = << >> /\ edges = << >> /\ points_parents = << >>
    /\ axis = 1
    /\ planes = << >> /\ faces = << >>
    /\ given = << >> /\ coord = << >> /\ i = 1 /\ available = << >> /\ res = << >>
    /\ plane = 1 /\ current = << >> /\ used = {} /\ polygons = << >>

Build ==
    /\ stage = "build"
    /\ \E parents \in {Parents(views)} :
          /\ points_parents' = parents
          /\ points' = Points(views, parents)
          /\ edges' = EdgesBetween(views, parents)
    /\ Aligning!Begin(Coordinates(points', 1))
    /\ stage' = "align"
    /\ UNCHANGED <<views, axis, planes, faces, faces_vars>>

AlignStep ==
    /\ stage = "align"
    /\ Aligning!Next
    /\ UNCHANGED <<model, points, axis, planes, faces, faces_vars, stage>>

\* align_contours_x, _y or _z returns: the points have moved.
Moved == [n \in DOMAIN points |-> [points[n] EXCEPT ![Axes[axis]] = coord[n]]]

LeaveAxis ==
    /\ stage = "align"
    /\ i > Len(points)
    /\ points' = Moved
    /\ planes' = Append(planes, res)
    /\ IF axis < 3
       THEN axis' = axis + 1 /\ Aligning!Begin(Coordinates(points', axis + 1)) /\ UNCHANGED stage
       ELSE axis' = 1 /\ stage' = "faces" /\ UNCHANGED contours_vars
    /\ UNCHANGED <<model, faces, faces_vars>>

FacesStep ==
    /\ stage = "faces"
    /\ UNCHANGED <<model, points, axis, planes, faces, contours_vars, stage>>
    /\ Walking!Next

LeaveFaces ==
    /\ stage = "faces"
    /\ plane > Len(planes[axis])
    /\ faces' = Append(faces, polygons)
    /\ IF axis < 3
       THEN axis' = axis + 1 /\ Walking!Begin /\ UNCHANGED stage
       ELSE stage' = "loaded" /\ UNCHANGED <<axis, faces_vars>>
    /\ UNCHANGED <<model, points, planes, contours_vars>>

Next == Build \/ AlignStep \/ LeaveAxis \/ FacesStep \/ LeaveFaces

\* One thread runs the function to its end, so it is never stopped forever.
Spec == Init /\ [][Next]_vars /\ WF_vars(Next)

-----------------------------------------------------------------------------
TypeOK ==
    /\ stage \in {"build", "align", "faces", "loaded"}
    /\ axis \in 1 .. 3
    /\ DOMAIN points = DOMAIN points_parents
    /\ \A n \in DOMAIN points : points[n] \in [Axis -> Int]
    /\ Range(edges) \subseteq (DOMAIN points) \X (DOMAIN points)
    /\ Aligning!TypeOK
    /\ stage = "faces" => Walking!TypeOK

\* In the planes of each axis, and of every sheet: see Contours.
EachOnce == Aligning!EachOnce

\* See Contours.
PlanesApart == Aligning!PlanesApart

\* See Contours.
LevelStaysLevel == Aligning!LevelStaysLevel

\* Of the polygons of each axis: see Faces.
PolygonsAreWalks == stage = "faces" => Walking!PolygonsAreWalks

\* See Faces.
LeftOutForAReason == stage = "faces" => Walking!LeftOutForAReason

\* See Faces.
RingsBecomeFaces == stage = "faces" => Walking!RingsBecomeFaces

\* Where a vertex is along the line its view shares with the first one, and
\* across it: how high and how far to the side the part is there.
Level(k, pt) == IF Direction(views, 1, k).alpha = 90 THEN pt.y ELSE pt.x
Side(k, pt) == IF Direction(views, 1, k).alpha = 90 THEN pt.x ELSE -pt.y

\* A point shows in its two views where its vertices are, up to what the planes
\* move it and what the two vertices are apart: as high as both over the first
\* vertex of the sheet, and as far to the side as each over the zero of its view.
FitsTheDrawing ==
    \A n \in DOMAIN points :
        LET c == points_parents[n]
            k == c.proj2
            v1 == views[1].vertices[c.pt1]
            v2 == views[k].vertices[c.pt2]
            side == Side(k, v2) - Side(k, views[k].s.zero)
        IN  c.proj1 = 1 =>
              /\ Abs(points[n].x - (Side(k, v1) - Side(k, MainZero(views)))) < CONTOUR_DIFF
              /\ Abs(points[n].z - side) < CONTOUR_DIFF
              /\ Abs(points[n].y - (Level(k, v1) - Level(k, MainZero(views)))) < CONTOUR_DIFF
              /\ Abs(points[n].y - (Level(k, v2) - Level(k, MainZero(views))))
                    < CONTOUR_DIFF + MAX_DIFF

\* View k has a line between these two vertices.
Lined(k, m, n) == {<<m, n>>, <<n, m>>} \intersect views[k].cedges # {}

\* A rectangle whose sides are no shorter than CONTOUR_DIFF and are its lines.
Rectangle(k) ==
    LET v == views[k].vertices
        Apart(m, n, a) == Abs(v[m][a] - v[n][a]) >= CONTOUR_DIFF
    IN  /\ Len(v) = 4
        /\ \A a \in {"x", "y"} : Cardinality({v[n][a] : n \in 1 .. 4}) = 2
        /\ \A m, n \in 1 .. 4 : m # n =>
              /\ v[m] # v[n]
              /\ \A a \in {"x", "y"} : v[m][a] = v[n][a] \/ Apart(m, n, a)
              /\ v[m].x = v[n].x \/ v[m].y = v[n].y <=> Lined(k, m, n)

\* Two views of a box that number its corners alike: a number is at the same
\* height in both, and joined to the same numbers.  (build_model looks corners of
\* the second view up in the edges of the first one.)
Box ==
    /\ Len(views) = 2
    /\ \A k \in {1, 2} : Rectangle(k)
    /\ \A n \in 1 .. 4 : Level(2, views[1].vertices[n]) = Level(2, views[2].vertices[n])
    /\ \A m, n \in 1 .. 4 : m # n => (Lined(1, m, n) <=> Lined(2, m, n))

\* The polygons of axis a, as sets of points, are the two sides of the box that
\* face this way.
TwoSides(a) ==
    LET At(c) == {n \in DOMAIN points : points[n][Axes[a]] = c}
        sides == {At(points[n][Axes[a]]) : n \in DOMAIN points}
    IN  /\ Cardinality(sides) = 2 /\ \A S \in sides : Cardinality(S) = 4
        /\ Len(faces[a]) = 2
        /\ {Range(faces[a][n].points) : n \in {1, 2}} = sides

\* A polygon goes round its side: it takes one direction in space at a time.
GoesRound(polygon) ==
    \A m \in DOMAIN polygon :
        LET p == points[polygon[m]]
            q == points[polygon[(m % Len(polygon)) + 1]]
        IN  Cardinality({a \in Axis : p[a] # q[a]}) = 1

\* From two views of a box that number its corners alike come its eight corners
\* and its six sides, each once; those seen from the front and from the side go
\* round it.  (Of the other two build_model makes the diagonals edges too.)
BoxesFound ==
    stage = "loaded" /\ Box =>
        /\ Len(points) = 8 /\ IsInjective(points)
        /\ \A a \in 1 .. 3 : TwoSides(a)
        /\ \A a \in {1, 3} : \A n \in DOMAIN faces[a] : GoesRound(faces[a][n].points)

\* Every sheet is modelled to its end, whatever its lines are.
Terminates == <>(stage = "loaded")

\* merge_points is never given locations that are more than MAX_DIFF apart in a
\* coordinate both views show: "Wrong points were used! Too big y difference
\* between same point" (modeller.cpp:364) is never reported.
NoWrongPoints ==
    \A n \in DOMAIN points :
        LET c == points_parents[n]
            s1 == views[c.proj1].s
            s2 == views[c.proj2].s
            v1 == LocationOf(s1, views[c.proj1].vertices[c.pt1])
            v2 == LocationOf(s2, views[c.proj2].vertices[c.pt2])
        IN  Len(views) = 2 => \A a \in s1.has \intersect s2.has : Abs(v1[a] - v2[a]) <= MAX_DIFF
=============================================================================
