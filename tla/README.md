# DetailIdentifier in TLA+

DetailIdentifier turns a scanned design sketch into a 3D model. It is a C++ program of
four stages that run one after the other; a stage hands the next one data in memory and,
in part, names of files in a workspace directory. These modules specify the stages'
own algorithms and the way the program goes through its files. TLC checks them on small
instances; TLAPS proves nearly all that is claimed of their safety for every value of the
constants.

Paths below are relative to `src/production/subsystems`.

## 1. The system

| part | code | state it keeps | operations | works with |
|---|---|---|---|---|
| startup, options, configuration | `executor/executor.cpp`, `application.cpp`, `configurator.cpp`, `*/configuration.cpp`, `*/options.cpp`, `common/basic_configuration.cpp` | option map, one configuration per stage, the workspace path | parse options, build the configurations, run | builds the stages, calls the processor |
| processor | `executor/processor.cpp` | the four stages | `process` | calls each stage with the result of the one before |
| preprocessor | `preprocessor/preprocessor.cpp` | files of the workspace | smooth, binarize, have text separated by an external program, pick wide lines, thin | `os_proxy::call`, workspace, OpenCV, qgar |
| vectorizer | `vectorizer/vectorizer.cpp` | `minimal` (a map from pixels to labels), `points`, `edges` | `vectorize`, `seed_neighborhood`, `edge_already_exists` | reads the skeleton by name; OpenCV finds the contours |
| interpreter | `interpreter/interpreter.cpp` | the projections: vertices, edges, cedges, bounding box, coordinate system | `separate_projections`, `merge`, `prune`, directions, `assign_coordinate_systems` | points and edges of the vectorizer |
| modeller | `modeller/modeller.cpp` | the model: points and edges; planes; polygons | `build_model`, `align_contours_x/y/z`, `addFaces`, `load` | the projections; VTK; the model's file |
| clusterer, tracer, SVG document and reader | `interpreter/clusterer.cpp`, `centerline_tracer.cpp`, `svg/` | clusters, points and edges of a document | k-means and merging of clusters, tracing, parsing | called by tests only, left over from an earlier interpreter |
| os_proxy, logger | `executor/os_proxy.cpp`, `logger/` | none | run a program; log | |

Everything runs in one thread. What is hard about the program is therefore not threads but

* **loops over vectors that their own body erases from** (`separate_projections`, `prune`):
  which element a counter is at after an erase, whether the loop ends, whether something
  is lost, taken twice or read past the end;
* **indices that go along with data that moves**: `cedges` into `vertices` through sorting
  and `merge`, labels on the vectorizer's map that later squares overwrite, planes that
  name points of the model;
* **files that outlive a run**: failures that are caught or not looked at, and runs that
  stop, after which the next step finds the file of an earlier run; two runs with one
  workspace (its default is one directory for all runs);
* **greedy walks** (`addFaces`, `align_contours`), whose result depends on an order nobody
  chose, and which stop in the middle of what they are building;
* **preconditions asserted after use** (two projections), or never (boxes that cross).

What makes each part correct:

* separation: the projections are the connected components of the drawing; their lists
  match; it returns.
* pruning: what is merged is merged for a reason, nothing is lost, nothing is left to
  merge, no read is out of bounds.
* interpretation: every line survives, nothing is read out of bounds for two views, it returns.
* vectorizer: every index in the graph names a point, points are distinct, each contour
  is a path of the graph.
* program: what is shown is made from the drawing that was given.
* thinning: a line stays in one piece, the result is thin, the rounds
  end.
* modeller: a point lies where the views show it; planes are flat, apart and hold every
  point once; a polygon is a walk along edges; the outline of a face becomes a face; the
  views of a box become that box.
* document and reader: every edge is at both of its points; a plain file is read as it is
  drawn.
* clusterer and tracer: groups near each other make one endpoint, whatever order they are
  found in; the traced lines are the drawing with each group made one point; it returns.
* startup: what a part is configured with follows one precedence; the exit status tells why
  the program ended.

## 2. The modules

| module | of | models |
|---|---|---|
| `Projections` | data | drawings as sets of edges; the projection a set of edges becomes; `merge` |
| `Components` | abstract specification | taking connected components out of a graph, one at a time |
| `Separation` | interpreter | `separate_projections`; implements `Components` |
| `Prune` | interpreter | `prune` |
| `Interpreter` | composition | `generate_interpretation`: instances of `Separation` and `Prune`, then directions and coordinate systems |
| `PointGraph` | vectorizer | the loop over the contours |
| `Workspace` | whole program | the files of the workspace, through all the stages, for several runs |
| `Thinning` | preprocessor | `zhang_suen::thinning` |
| `Directions` | interpreter, modeller | lines between views, coordinate systems, where a vertex is in space |
| `BuildModel` | modeller | `build_model` |
| `Contours` | modeller | `align_contours_x/y/z` |
| `Faces` | modeller | `addFaces` |
| `Modeller` | composition | `generate_model`: `BuildModel`, then for each axis an instance of `Contours`, then for each axis one of `Faces` |
| `SvgDocument` | SVG document | points by location, edges, and which edges are at which point |
| `SvgReader` | SVG reader | `parse` for lines and paths, on top of `SvgDocument` |
| `Tracer` | clusterer and tracer | `clusterize`, `trace_centerlines` |
| `Centerlines` | composition | the reader, and `Tracer` on the document it returns; extends both |
| `Startup` | executor, configurations | `executor::execute`, from the command line to the exit status |
| `ListLemmas` | lemmas | what appending to, removing from and looking up in a list gives; ascending lists; least numbers |
| `SeparationProofs`, `PruneProofs`, `InterpreterProofs`, `PointGraphProofs`, `ProgramProofs`, `ModellerProofs`, `CenterlinesProofs` | proofs | see below; `ProgramProofs` is about `Startup`, `Workspace` and `Thinning`, `CenterlinesProofs` about the reader and the tracer |
| `MC*` | TLC | the inputs of each run |

A definition that starts with the comment `Slip:` is a way the definition after it could
have been coded wrongly; no specification uses it. It is there to see that the properties
notice: with the slip in place of the definition a property fails.

### How the state corresponds to the code

**Separation.** The variables are those of the function: `edges`, `next_projection`,
`c_edges`, `projections`; `pc` tells the outer loop from the inner. `Start` is the body of
the outer loop up to the inner one, `Grow` one turn of the search with its erase, `Close`
the turn that finds nothing and stores the projection, `Finish` leaves the loops. Vertices
are labels; the pixel of a label is abstracted to the label, which is right because two
points of the vectorizer are never the same pixel (`SeedsApart`; up to 256 points, see
below).

**Prune.** `i`, `j`, `center`, `removed_any` are the function's. `covers` and `area` stand
for what `inside` and `size.area()` compute: `covers` is any relation between centres and
boxes (a rotated box may be long and thin, and `inside` takes degrees for radians), except
that a box with an area covers its own centre and one without covers nothing.
`ReadPastEnd` is the read of `projections[i]` after an erase before `i` made the vector
too short; it ends the run in `"undefined"`. Properties about what pruning achieves are
stated for boxes that are `Nested`: of two boxes of which one covers the other's centre and
not the other way round, the covering one is the larger. That is the situation the code is
written for. Without it they do not hold: with three boxes that cover each other in a ring,
prune merges views no box ties together and reads past the end; with four it leaves a box
whose centre another one covers. Returning and `LinesSurvive` need no such condition.
A view's box is the number its projection had in the list at the call. `Prune` has no
specification of its own: it is always run on what `Separation` left, so its proofs
(`PruneProofs`) are about steps, and `InterpreterProofs` says where they begin.

**Interpreter.** Instances of `Separation` and `Prune` run one after the other on shared
variables; `AddBoxes` gives each projection its box. `systems` says which axes and which
line each projection was given; a line is known by the two boxes it was computed from.
`asserts` is whether the build has assertions. `ReadMissing` is the read of
`vertices[0]` and `directions[0][1]` when there is no second projection.

**Directions.** Operators for what `Interpreter` leaves out: the line between two views, the
zero and the lines of reference of each view, and the location of a vertex. The views lie
beside or below each other, so every angle is a multiple of a right angle and sines and
cosines are -1, 0 and 1; angles are in degrees. With floating point the cosine of `CV_PI / 2`
is not quite 0, which moves a location by less than one unit; this is left out. The two
functions called `calculate_distance` are `Along` (interpreter) and `Across` (modeller):
they measure at right angles to each other.

**PointGraph.** `minimal`, `points`, `edges`, `index` are the function's; `walk` records the
labels of a contour. `START_SEED` is 255 in the code and both "nobody was here" and the
label of the 256th point; the model makes it small so that the label is reached.

**Workspace.** Each file, image and model is abstracted to the run whose drawing it was
made from. `failed` and `alone` are history: what failed in a run, and whether another
run was active during it. `Written` is a write that may fail silently. `Stop` is any
way for a run to end early: an exception, the process killed. Killing a run kills the
external program with it. Whether OpenCV throws or goes on when it is given an empty image is
left open.

**Thinning.** A picture is the set of its pixels with ink. A half-round is one step, because
the code computes its whole marker from the picture before it takes anything off. `prev` is
the blank picture until the first comparison, as in the code. `PiecesStay` speaks of a
half-round, not of the whole run: a small piece can be eaten down to a dot of two by two
pixels in several rounds, and the round after that takes the dot off.

**BuildModel.** The function reads nothing it writes except the parents of the points, so
its two parts are two operators: `Parents` (with `Points`) and `EdgesBetween`, lists in the
order of the loops. `ConnectedOnFirst` and `ConnectedOnSecond` both look in the edges of the
point's first projection, because the code does so: `second_edges` is filled and not used.
So the edges are those of both drawings only where the views number their vertices alike,
which is what `Box` demands: each number at one height in both views, and lines between the
same numbers. A number at one height is not enough. Where the second view has two of its
corners the other way round, the lines of the first view that are looked up for it are those
of the wrong corners, and the sides do not come out; of such sheets nothing is claimed, and
the `modeller` run has some of them. Even with like numbers the two sides of a box that no view shows have their
diagonals as edges (corners that are one point in a view are "connected" in it); the polygon
of such a side may go along them, and `GoesRound` is stated of the other four.

**Modeller.** `generate_model` without its pictures. `Build` is all of `build_model`;
`AlignStep` is a step of `Contours`, `LeaveAxis` the return of `align_contours_x`, `_y` or
`_z`, which moves the points; `FacesStep` and `LeaveFaces` are the same for `addFaces`. The
file `load` writes and displays at the end is in `Workspace`. A sheet is a list of projections
with any vertices, edges and centres of boxes; coordinate systems are assigned as the
interpreter does. Three views are included as a build without assertions lets them through.
`ModellerAssumption` says what a sheet is: two views or more, none of them empty, with edges
between their own vertices. `SheetAssumption` says what else the modeller relies on: no two
views have one centre (a box covers its own centre, so the interpreter has merged views with
a common one), and no vertex is behind the lines of reference, which lie `FAR` (the code's
10000) outside a picture that is smaller than that. `DiffsAssumption`: vertices that match are
no further apart than planes; in the code the two tolerances are 30 and 40.

**SvgDocument, SvgReader.** One of the two coordinates is kept, since they are computed alike
and apart. Numbers are counted in halves so that the cut from `double` to `int` shows. A token
is taken with the one after it, whatever that is, as the code does: hence `Symbol` and
`Rest`, and hence letters and numbers getting out of step after a blank beginning. Several
pairs after one letter are added up one after the other even if the letter is absolute.
`ReadsAsDrawn` compares the edges with what a plain path draws by the meaning of its letters
(`Pen`). Each line drawn carries `off`, the number of pairs before it in its node that are not
whole: every cut moves what follows by half a unit at most, so an end is off by no more than
half a unit for each of them, and a file of whole numbers is read exactly.
`"failed"` is an exception, `"undefined"` a read from an empty vector. Nested `svg` and `g`
nodes are given in the order `parse_all` meets them.

**Tracer.** Points lie on a line, as in `SvgDocument`. `KMeans` stands for the library: any
grouping in which no point is nearer to the mean of another group, in any order; this is
what its loop ends in, whatever its random numbers. `RoughlyEqual` is the function of that
name; its lower bound (`MIN_ACCEPTABLE_DISTANCE`) decides nothing there. `Cluster` is one turn
of the loop, `PassBy` and `AddEndpoint` are those of the loop over `close_clusters`. The sum
of ints divided by a `size_t` wraps at `SIZE_VALUES` below zero and is cut to an int.
`OneForEachGroup` is stated where "near" does not depend on the order (`Clear`): of three
clusters in a row, the middle one near both ends, the program makes one or two endpoints as
the library happens to number them. `Clear` also leaves out sums that wrap around and middles
that do not fit an int. `Connections` is the map of the code, and `Trace` goes through it in
the map's order.

**Centerlines.** First the reader, then the tracer on its document.

**Startup.** A source of options is what its parser returns: `given`, the options with their
values, `twice`, those that occur more than once, and `fault`, why it cannot be parsed.
`Stored` is `store` of boost::program_options: an option an earlier source has set is
final, one that only has its default is not. `defaulted` is the flag of each value. `SourcesAssumption` says what a source is and that
every file that is named is one of the disk's (it may be unreadable); `SlashedAssumption` that
a slash behind a path makes it one that ends with a slash.
`exit(1)` for an ambiguous option cannot happen, since guessing is turned off. The five
configurations are arguments of one call, made in an order the language leaves open:
`FailToConfigure` may end in either way when both apply. The configuration of the executor
assigns `input_filename` twice and never `output_filename`; `Configured` says so, and
nothing reads these two. `reading_file` is taken to be thrown in the form that
`setup_options` catches. `RunApplication` is all of `whole_application::run`, seen from outside:
besides 0 and an exception, a run may be aborted by the interpreter's assertion or be undefined,
which is what `Interpreter` says of drawings without two views. So `EndTellsWhy` does not
say that a run is defined; it says that only a run ends in these ways, or a start with an empty
working directory, and what must have been given for the parts to be run at all.

**Contours.** One axis. Coordinates are integers because `get_location_of` returns
`cv::Point3i`. `given` keeps the coordinates before the call.

**Faces.** A turn of the while loop is one step; `Begun` and `Walked` are `current` before
and after a point is looked for. `Extend` and `EndWalk` are its ways to end,
`LeavePlane` is what follows the loop. `polygons` is what is added to `data`; the rest of a
plane's points that `LeavePlane` adds is logged as "unable to create face", and added all the same.

## 3. The runs

| run | checks | bounds, and why they are enough |
|---|---|---|
| `separation` | the projections are the components, for every drawing and every order of its edges; the refinement of `Components`, which contains that it ends | all drawings from six lines (a triangle, a line apart, two lines joining them), each in every order: one, two components; rings and trees; the joining edge first, last or between |
| `interpreter` | lines survive all stages; merged for a reason; done when prune returns; undefined only for fewer than two views or crossing boxes; it returns | drawings of none to three pieces, every relation between their boxes and every order of areas: an erase before, at and after `i`, chains and crossings; builds with and without assertions |
| `interpreter_assert` | *violated*: `assert(projections.size() == 2)` | the drawings of `interpreter` that are not empty; the counterexample is a triangle, which becomes one projection |
| `point_graph` | labels name points, points are apart, contours are paths, in-bounds writes | all contours of one to three vertices among five pixels, one or two of them; near, far and border pixels; more points than `START_SEED` |
| `workspace` | a run that is alone and meets no failure shows its own drawing; contours and skeleton are of one drawing | three runs: one leaves a file, one overwrites it, one reads it |
| `workspace_failure` | *violated*: "Continuing, but expect crashes" | two runs, the first one stopped, and the tool failing in the second |
| `modeller` | points fit the drawing; planes flat, apart, complete, level points together; polygons are walks; who is left out, and why; rings become faces; boxes come out; termination | two small views with vertices level and not level, numbered in any order; two views of any few lines and coordinates (the second has one vertex, so that every vertex of the first is a point): all graphs of five points in two planes, rings of six and a triangle with a ring of four, in every order, which is where a walk comes back to its start after more than four points; up to five coordinates over twice `CONTOUR_DIFF`, enough for a point between two planes; views of boxes of several sizes beside and below each other, with their corners numbered in every order, alike, and boxes with two corners of the second view numbered the other way round; three views, where two points may share a projection in different places |
| `wrong_points` | *violated*: "Wrong points were used!" | the same sheets |
| `thinning` | a half-round cuts no piece; thin at the end; termination | pictures of six by six: all of three by four pixels inside, all of four by four with ink in the middle, and lines that come in from the border. A pixel's fate depends on the eight around it, and every such neighbourhood occurs |
| `centerlines` | edges at both ends; plain files are read as drawn and never refused; no read of an empty vector as long as moves and lines have their numbers and no blanks stand where a command is due; one endpoint for each group; the traced lines are those of the drawing; tracing ends | all paths of up to four tokens of every kind; paths of seven tokens in which letters are taken in pairs, where letters and blanks can get out of step in the middle; plain paths of up to four letters, with whole and half numbers of both signs; files of up to three nodes; drawings of up to three lines with up to six places, near each other and far, one below zero: up to five clusters, found in every order |
| `simple_clusters` | *violated*: five groups are five clusters | the same drawings |
| `startup` | precedence; how and why it ends | command lines and files of up to three options each, with everything that can be wrong with either; the default file and another, of which one exists |

Every module has one `TypeOK` (`StartupTypes` in `Startup`, whose names are chosen so that it can be
extended together with `Workspace`). It is a property of its own where it says something about the
code (`separation`, `point_graph`, `modeller`, `thinning`), in `Workspace` a lemma of the proofs
only, and elsewhere part of the property that speaks of the same variables.

Where a run says `CHECK_DEADLOCK FALSE`, the function returns and its specification stops.

**Fairness.** Liveness is only claimed for functions whose loops might not end (`Interpreter`,
`Modeller`, `Thinning`, `Tracer`, and `Separation` as part of its refinement), under weak
fairness of their whole next-state relation: a thread that is not blocked goes on. No
fairness between alternatives is assumed. In `Centerlines` fairness and liveness are those of
the tracer. `PointGraph`, `Workspace` and `Startup` claim safety only: two nested
loops over lists nobody changes end, runs may be stopped, and a start has no loop.

**Symmetry** is used in `workspace`: the runs are interchangeable and only safety is checked.

### What the violated runs show

* `interpreter_assert`: the interpreter hands whatever number of projections is left to a
  function that asserts there are two. A triangle, a drawing in one connected piece, arrives
  as one projection, and the function reads `directions[0][1]`, which only exists if there are
  two, before it comes to its assertion.
* `workspace_failure`: in a workspace that was used before, a failure of the external
  program does not end in a crash, as the log says, but in the model of another drawing.
* `wrong_points`: the interpreter looks for the zero of the second view along the line
  between the views, the modeller matches vertices across it. The two zeros may lie in
  different rows, every height in the second view is then off by the same amount, and
  points that belong together are reported as wrong ones. The model itself takes heights
  from the first view, so it is not bent (`FitsTheDrawing`).
* `simple_clusters`: a test expects five endpoints for five groups of points of which two are
  104 apart; the code merges what is nearer than 200.

## 4. The proofs

For every value of the constants that the named assumptions allow.

**`SeparationProofs`**: `TypeCorrect`, `SeparationCorrect` (`SplitsDrawing`: `EdgesKept`,
`Apart`, `EachConnected`), `ProjectionsListed` (`Listed`), `Implements` (every step maps to a
step of `Components` or a stutter). None of the properties is inductive alone: that a
finished projection is a component rests on the growing one being connected and
`next_projection` being exactly the vertices of its edges (`Walk`), and on every stored
projection having been made by `Close` (`AllStored`). `Listed` rests on a projection having
finitely many vertices (`FewVertices`): then its ascending list exists, and looking an end up
in it finds the place where it is.

**`PruneProofs`**: `StepsKeep`. Each step of the two erasing loops keeps the projections
sound (their lists belong together), apart and complete. While the boxes are `Nested`, no box
after the first `i` covers a centre before it, and what was merged is tied by boxes; so
nothing is left to merge when `i` is at the end, and no erase can make `i` point past it.

**`InterpreterProofs`**: `NoLineLost` (`LinesSurvive`), `MergesHaveReasons`
(`MergedForAReason`), `PrunesAll` (`Pruned`), `StaysInBounds` (`DefinedForTwoViews`). Put
together from the two stages: as long as the separation runs its invariant holds; what it hands
over has the form pruning starts from (`HandedOver`); the invariant of pruning holds from then
on. Both stages come a second time with their proofs, as instances of `SeparationProofs` and
`PruneProofs`; the first lemmas say that their steps are those of `Interpreter`.

**`PointGraphProofs`**: `TypeCorrect` (no write outside the map, at any border and for any
radius), `PointsApart` (`SeedsApart`), `ContoursArePaths`, `GraphIsSound` (`GraphSound`). The
invariant adds that every label on the map names a point or nobody (`LabelsName`), that the
pixels of a point's square, as cut at the border, have a label (`Claimed`), that a later point
lies outside the squares of the earlier ones (`OutsideSquares`), that the walk ends at the
label being carried (`WalkEnds`), and that edges join two points and none is there twice in
either direction (`EdgesSimple`).

**`ProgramProofs`**, about `Workspace`: `OwnDrawing` (`ShowsOwnDrawing`) and `SameDrawing`
(`OneDrawing`), for any number of runs. The invariant follows one run: what its
next step takes up is made from its own drawing (`Own`), the two reads of the skeleton agree
(`Same`); it holds because nobody else is active while a run is alone (`Alone`). About
`Startup`: `ConfiguredInOrder` (`Precedence`), `EndsForAReason` (`EndTellsWhy`), for all
command lines and files. The invariant says that after each store the map is what the
sources and the defaults make one over the other (`MapHolds`), that nothing is configured before
the run and something is when it begins (`Progress`), and what `GoOn` and `Configure` have
found out (`Decided`); that the second store makes `Wanted` of it needs that what is final
by then is exactly what the command line gave.

About `Thinning`, for pictures of every size: `OnlyInside` (`ThinningTypes`: only ink is taken,
and none at the border), `ThinAtLast` (`Thin`), `PiecesStayWhole` (`PiecesStay`). `Thin` speaks of
the last round; the invariant says how the picture comes from the one before in every round
but the first, so when the two are equal neither half has taken a pixel. That a half-round
cuts nothing is shown from the eight neighbours of a pixel: what remains next to one that
is taken hangs together (`AroundTaken`), and two taken pixels that touch have a neighbour in
common that remains, unless nothing remains next to the first (`Common`). So take a part of
what remains of a piece that is closed under touching, and add the taken pixels next to it:
the sum is closed in the piece before the half-round, which was whole, so it is all of
it, and the part was all that remains (`RestIsWhole`). Nothing remains only of a dot.

**`ModellerProofs`**: `Types`; of `align_contours`, `SortsOnce` (`EachOnce`), `SortsApart`
(`PlanesApart`), `SortsLevel` (`LevelStaysLevel`); of `addFaces`, `FacesAreWalks`
(`PolygonsAreWalks`), `NothingLost` (`LeftOutForAReason`), `RingsAreFound`
(`RingsBecomeFaces`); and of the whole, `ModelFits` (`FitsTheDrawing`); for every sheet of any
number of views. And of boxes of any measures, anywhere on the sheet, `BoxIsFound`
(`BoxesFound`).

* *Building.* `build_model`'s nested loops are recursive functions of loop counters. What a
  loop puts into its list is shown by looking at the first turn at which it would not hold
  (`LeastNumber` in `ListLemmas`, induction in a form without operator parameters): the points are
  the pairs of vertices of two views that match, each once, and the edges the pairs of points
  that are connected (`LoopAll`, `ParentsAre`, `EdgesAre`).
* *Sorting.* While an axis is sorted, each point sorted so far is in one plane, once, at its
  coordinate, less than `CONTOUR_DIFF` from where it was, and was near no earlier plane; the
  planes are `CONTOUR_DIFF` apart (`Sorted`). So two points that were level are in the same
  plane, the first one that is near them.
* *Faces.* While a plane is gone round, the walk is along edges with no point twice
  (`OnTheWay`); a point no walk will come to again is in a polygon, at a dead end or next to
  one (`LeftOut`); and, where the edges form rings, the polygons are rings, apart, and have all
  those points (`Ringed`). What makes a step keep this is that the rings of a plane without
  dead ends are either done, or fresh, or being walked along, and that a walk in a ring goes
  on until what is left of the ring leads back to where it began.
* *The whole.* The stages follow each other (`Staged`, `Built`); an axis is moved by less than
  `CONTOUR_DIFF` once, and only that axis (`Located`).

* *Boxes.* The numbers of a box (`BoxNumbers`) are a height for each corner and how far to the
  side it is in either view. Heights come in two pairs, so there are eight points, all
  different, each coordinate one of two values and every combination taken (`Corners`,
  `EveryCorner`); joined are those that are level and those above each other. Values that
  far apart do not move when they are sorted, and there are two planes of each axis, the sides
  of the box (`Founded`, `StayPut`, `Flat`). A side has four points, and whichever way a walk
  goes on it, it can go on until it has all four and is then next to where it began
  (`RoundTrip`, `WayOn`, `WayBack`), so addFaces makes one polygon of it (`OnTheRound`, `Rounds`).
  `BoxInv` puts this together, stage by stage; it is inductive only beside `IInv`.

**`CenterlinesProofs`**: of the reader, for files of any length, `EdgesAreMirrored` (`Mirrored`),
`NeverUndefined` (`StaysDefined`) and `PlainFilesReadAsDrawn` (`ReadsAsDrawn`); of the tracer,
for every drawing and whatever the library finds, `GroupsBecomeEndpoints` (`OneForEachGroup`)
and `TracesTheDrawing` (`QuotientOfDrawing`).

* *Reading.* `ReadInv`: a document that was built by adding points and segments is sound
  (`Sound`), and in a path every letter is looked for at an odd place, so that where numbers
  follow each letter the two do not get out of step. For plain files `DrawnInv` goes along with the pen:
  what the elements read so far would be built into follows the lines of the nodes
  before and those of this path up to its letter, and the place reached is off the pen
  by half a unit at most for each pair cut so far.
* *Tracing.* `TraceInv`: the clusters passed are used (`Progress`); the endpoints are the
  middles of their groups, one for each, where nearness is clear (`GroupsMerged`); and
  joining the connections one after the other makes a document with these edges (`Joined`).

TLAPS cannot instantiate an induction theorem that has an operator as its parameter; where an
argument goes along a list, it takes the least place at which a claim fails (`ListLemmas`).

Only model-checked: termination and the other liveness properties (`Returns`, `Terminates`,
`TraceReturns`) and the fairness part of the refinement, because TLAPS does not do liveness
under fairness. The violated runs are TLC's: they are counterexamples.

## 5. Not modelled

* Floating-point geometry: slanted sheets, minimal rectangles, rounding, and the pictures
  drawn of them. The relation between boxes is a choice (`covers`), a centre any place.
* The image operations of OpenCV and qgar, contour finding and approximation: external, their
  results are inputs.
* Files that are written for a human and never read back.
* Libraries under `production/libs`, build files, the logger.
* `dump` and the lengths of segments of the SVG document (formatting; square roots).
* An edge from the last vertex of a contour back to its first (the vectorizer adds none, and
  nothing says whether it should), and what an edge between points of three different
  projections should be: the code is modelled as it is, and no property is stated.

## 6. The plan

In order; what is done is marked.

1. `Projections`, `Components`, `Separation` with proofs - done. The shape of everything
   later depends on the projections.
2. `Prune`, `Interpreter` with proofs - done.
3. `PointGraph` with proofs - done.
4. `Workspace` with proofs - done.
5. `Directions`, `BuildModel`, `Contours`, `Faces`, `Modeller` with proofs - done.
6. `Thinning` with proofs - done.
7. `SvgDocument`, `SvgReader`, `Tracer`, `Centerlines` with proofs - done.
8. `Startup` with proofs - done.
