----------------------------- MODULE Interpreter -----------------------------
(***************************************************************************)
(* interpreter::generate_interpretation: separate the projections, box     *)
(* them, prune them, compute the directions between them, and give each    *)
(* one its coordinate system.  The stages are Separation and Prune, run    *)
(* one after the other on each other's results.                            *)
(***************************************************************************)
EXTENDS Projections

CONSTANTS Vertex, Inputs,  \* as in Separation
          Areas            \* as in Prune

ASSUME VertexAssumption == Vertex \subseteq Nat
ASSUME InputsAssumption == Inputs \subseteq Seq(Vertex \X Vertex)
ASSUME AreasAssumption == Areas \subseteq Nat

VARIABLES
    given, edges, next_projection, c_edges, separated, separation_pc,
    boxed, covers, area, potential_projections, i, j, center, removed_any, prune_pc,
    asserts,     \* assert is compiled in (a build without NDEBUG)
    directions,  \* the matrix of lines between the projections' centres
    systems,     \* the coordinate systems assigned so far
    stage        \* what generate_interpretation is doing

separation_vars == <<given, edges, next_projection, c_edges, separated, separation_pc>>
prune_vars == <<boxed, covers, area, potential_projections, i, j, center, removed_any, prune_pc>>
vars == <<separation_vars, prune_vars, asserts, directions, systems, stage>>

Separation == INSTANCE Separation WITH projections <- separated, pc <- separation_pc

Pruning == INSTANCE Prune WITH
               given <- boxed, projections <- potential_projections,
               pc <- prune_pc

Size == Len(potential_projections)
Main == 1  \* select_main_projection

Init ==
    /\ Separation!Init
    /\ boxed = << >>
    /\ area = << >>
    /\ covers = {}
    /\ potential_projections = << >>
    /\ Pruning!InitLoop
    /\ asserts \in BOOLEAN
    /\ directions = << >>
    /\ systems = << >>
    /\ stage = "separate"

Separate ==
    /\ stage = "separate"
    /\ Separation!Next
    /\ UNCHANGED <<prune_vars, asserts, directions, systems, stage>>

\* c.bounding_box = cv::minAreaRect(c.vertices).
WithBox(c, b) ==
    [vertices |-> c.vertices, edges |-> c.edges, cedges |-> c.cedges, box |-> b]

\* Every projection gets its box.
AddBoxes ==
    /\ stage = "separate"
    /\ separation_pc = "done"
    /\ boxed' = [k \in DOMAIN separated |-> WithBox(separated[k], k)]
    /\ potential_projections' = boxed'
    /\ area' \in [DOMAIN separated -> Areas]
    /\ covers' \in SUBSET ((DOMAIN separated) \X (DOMAIN separated))
    /\ Pruning!Geometry(DOMAIN separated, covers', area')
    /\ stage' = "prune"
    /\ UNCHANGED <<separation_vars, i, j, center, removed_any, prune_pc,
                   asserts, directions, systems>>

PruneStep ==
    /\ stage = "prune"
    /\ Pruning!Next
    /\ stage' = IF prune_pc' = "undefined" THEN "undefined" ELSE stage
    /\ UNCHANGED <<separation_vars, asserts, directions, systems>>

\* calculate_projection_directions: the line of two projections is calculated
\* once, from the earlier to the later one, and stored under both orders; the
\* diagonal is the zero line.
CalculateDirections ==
    /\ stage = "prune"
    /\ prune_pc = "done"
    /\ directions' = [k \in 1 .. Size |-> [m \in 1 .. Size |->
                        IF k = m THEN {}
                        ELSE {potential_projections[k].box, potential_projections[m].box}]]
    /\ stage' = "assign"
    /\ UNCHANGED <<separation_vars, prune_vars, asserts, systems>>

XYSystem(line) == [axes |-> {"x", "y"}, y_line |-> line]
YZSystem(line) == [axes |-> {"y", "z"}, y_line |-> line]

Line == directions[1][2]

\* assign_coordinate_systems reads projections[main].vertices[0] and
\* directions[0][1] before it asserts that there are two projections.
ReadMissing ==
    /\ stage = "assign"
    /\ Size < 2
    /\ stage' = "undefined"
    /\ UNCHANGED <<separation_vars, prune_vars, asserts, directions, systems>>

AssertTwo ==
    /\ stage = "assign"
    /\ Size > 2 /\ asserts
    /\ systems' = <<XYSystem(Line)>>
    /\ stage' = "aborted"
    /\ UNCHANGED <<separation_vars, prune_vars, asserts, directions>>

\* The main projection shows x and y, every other one y and z, all with the
\* y_line of the first two projections.
AssignSystems ==
    /\ stage = "assign"
    /\ Size = 2 \/ (Size > 2 /\ ~ asserts)
    /\ systems' = [k \in 1 .. Size |->
                      IF k = Main THEN XYSystem(Line) ELSE YZSystem(Line)]
    /\ stage' = "returned"
    /\ UNCHANGED <<separation_vars, prune_vars, asserts, directions>>

Next ==
    \/ Separate
    \/ AddBoxes
    \/ PruneStep
    \/ CalculateDirections
    \/ ReadMissing
    \/ AssertTwo
    \/ AssignSystems

\* One thread runs the function to its end, so it is never stopped forever.
Spec == Init /\ [][Next]_vars /\ WF_vars(Next)

-----------------------------------------------------------------------------
LinesOf(p) == ToSet(p.edges)
Assigned == stage \in {"assign", "returned", "aborted"}

TypeOK ==
    /\ Separation!TypeOK
    /\ Pruning!TypeOK
    /\ stage \in {"separate", "prune", "assign", "returned", "aborted", "undefined"}

\* The variables keep their types.  Through all the stages, whatever the boxes,
\* every line of the drawing is in one and only one of the projections that get
\* a coordinate system, and no vertex is in two of them.
LinesSurvive ==
    /\ TypeOK
    /\ Assigned =>
           /\ ToSet(given) = UNION {LinesOf(p) : p \in ToSet(potential_projections)}
           /\ \A k, m \in 1 .. Size : k # m =>
                 VertsOf(LinesOf(potential_projections[k]))
                   \intersect VertsOf(LinesOf(potential_projections[m])) = {}
           /\ \A k \in 1 .. Size :
                 /\ Resolves(potential_projections[k])
                 /\ IsInjective(potential_projections[k].vertices)
                 /\ ToSet(potential_projections[k].vertices)
                       = VertsOf(LinesOf(potential_projections[k]))

\* Projections end up in one only for a reason (interpreter.cpp:112): any part
\* of a merged projection is tied to the rest by a box that has the centre of
\* another inside.
MergedForAReason == Pruning!Nested => Pruning!TiedByBoxes

\* When prune returns, no box that is left has the centre of another inside.
Pruned == Pruning!Nested /\ stage \in {"assign", "returned"} => Pruning!NothingToMerge

\* The interpretation leaves defined behaviour only when fewer than two views
\* are left, or when boxes cross.
DefinedForTwoViews ==
    stage = "undefined" => ~ Pruning!Nested \/ (prune_pc = "done" /\ Size < 2)

\* The interpretation returns, is stopped by its assertion, or has left defined
\* behaviour: the loops of separation and pruning end.
Returns == <>(stage \in {"returned", "aborted", "undefined"})

\* assert(projections.size() == 2), interpreter.cpp:254: separation and pruning
\* leave two projections for assign_coordinate_systems.
TwoProjections == stage = "assign" => Size = 2
=============================================================================
