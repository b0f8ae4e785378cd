----------------------------- MODULE Separation -----------------------------
(***************************************************************************)
(* separate_projections (interpreter.cpp): the edges of the vectorized     *)
(* drawing are split into projections.  A projection starts from the last  *)
(* pending edge and grows, one edge at a time, by the first pending edge   *)
(* that touches it; when none does, it is stored and the next one starts.  *)
(***************************************************************************)
EXTENDS Projections

CONSTANTS Vertex,  \* labels of vertices
          Inputs   \* the lists of edges the vectorizer may hand over

ASSUME VertexAssumption == Vertex \subseteq Nat
ASSUME InputsAssumption == Inputs \subseteq Seq(Vertex \X Vertex)

VARIABLES given,            \* the argument, as it was at the call
          edges,            \* the edges not claimed yet (the by-value parameter)
          next_projection,  \* vertices of the projection that is growing
          c_edges,          \* edges of the projection that is growing (c.edges)
          projections,      \* the finished projections
          pc                \* which of the nested loops the program is in

vars == <<given, edges, next_projection, c_edges, projections, pc>>

Edge == Vertex \X Vertex

Init ==
    /\ given \in Inputs
    /\ edges = given
    /\ next_projection = {}
    /\ c_edges = << >>
    /\ projections = << >>
    /\ pc = "outer"

\* while (!edges.empty()): the last edge starts a projection.
Start ==
    /\ pc = "outer"
    /\ edges # << >>
    /\ LET e == edges[Len(edges)] IN
          /\ edges' = SubSeq(edges, 1, Len(edges) - 1)
          /\ next_projection' = Ends(e)
          /\ c_edges' = <<e>>
    /\ pc' = "inner"
    /\ UNCHANGED <<given, projections>>

\* Slips: only one end of the edge is compared, or the vertices are searched
\* with lower_bound, which stops at any vertex that is not smaller.
JoinsByFirstEnd(e) == e[1] \in next_projection
JoinsByLowerBound(e) == \E v \in next_projection : v >= e[1] \/ v >= e[2]

\* The predicate of std::find_if.
Joins(e) == Touches(e, next_projection)

\* t is where std::find_if stops: the first edge that touches the projection.
FirstTouching(t) == Joins(edges[t]) /\ \A u \in 1 .. t - 1 : ~ Joins(edges[u])

\* Slip: the position of the edge is inserted instead of its ends.
GrowByPosition ==
    /\ pc = "inner"
    /\ \E t \in DOMAIN edges :
          /\ FirstTouching(t)
          /\ next_projection' = next_projection \union {t}
          /\ c_edges' = Append(c_edges, edges[t])
          /\ edges' = RemoveAt(edges, t)
    /\ UNCHANGED <<given, projections, pc>>

\* while (!no_change): the edge found moves from the pending ones to c.
Grow ==
    /\ pc = "inner"
    /\ \E t \in DOMAIN edges :
          /\ FirstTouching(t)
          /\ next_projection' = next_projection \union Ends(edges[t])
          /\ c_edges' = Append(c_edges, edges[t])
          /\ edges' = RemoveAt(edges, t)
    /\ UNCHANGED <<given, projections, pc>>

\* The round found no edge: the projection gets its vertices and cedges.
Close ==
    /\ pc = "inner"
    /\ \A t \in DOMAIN edges : ~ Joins(edges[t])
    /\ projections' = Append(projections, NewProjection(next_projection, c_edges))
    /\ next_projection' = {}
    /\ c_edges' = << >>
    /\ pc' = "outer"
    /\ UNCHANGED <<given, edges>>

\* Every edge is claimed: return projections.
Finish ==
    /\ pc = "outer"
    /\ edges = << >>
    /\ pc' = "done"
    /\ UNCHANGED <<given, edges, next_projection, c_edges, projections>>

Next == Start \/ Grow \/ Close \/ Finish

\* One thread runs the function to its end, so it is never stopped forever.
Spec == Init /\ [][Next]_vars /\ WF_vars(Next)

-----------------------------------------------------------------------------
\* Sets of edges: pending, in the growing projection, and in the finished
\* projection number k.
Pending == ToSet(edges)
Growing == ToSet(c_edges)
Finished(k) == ToSet(projections[k].edges)

\* The types of the variables.  (Only of the fields that the separation itself
\* writes edge by edge; the lists derived from them when a projection closes
\* are the subject of Listed.)
TypeOK ==
    /\ given \in Seq(Edge)
    /\ edges \in Seq(Edge)
    /\ next_projection \in SUBSET Vertex
    /\ c_edges \in Seq(Edge)
    /\ DOMAIN projections = 1 .. Len(projections)
    /\ \A k \in DOMAIN projections : projections[k].edges \in Seq(Edge)
    /\ pc \in {"outer", "inner", "done"}

\* At every moment, each edge of the drawing is pending, growing, or in a
\* finished projection, and nothing else is: erasing from `edges' while
\* projections grow loses no line of the drawing and invents none.
EdgesKept ==
    ToSet(given) = Pending \union Growing
                     \union UNION {Finished(k) : k \in DOMAIN projections}

\* Two finished projections have no vertex in common, and no edge that is
\* still to be claimed touches a finished one: a projection is stored only
\* when it is complete.
Apart ==
    /\ \A k, m \in DOMAIN projections :
          k # m => VertsOf(Finished(k)) \cap VertsOf(Finished(m)) = {}
    /\ \A k \in DOMAIN projections : \A e \in Pending \union Growing :
          ~ Touches(e, VertsOf(Finished(k)))

\* A finished projection is a single connected piece: the walk never mixes two
\* views of the part into one projection.
EachConnected ==
    \A k \in DOMAIN projections : Finished(k) # {} /\ Connected(Finished(k))

\* The three together: what is stored is connected components of the drawing.
SplitsDrawing == EdgesKept /\ Apart /\ EachConnected

\* A finished projection lists each of its vertices once, in ascending order of
\* labels (vertices[0], which the coordinate systems use, is its lowest label),
\* and its cedges, found by looking pixels up, name the ends of its edges.
Listed ==
    \A k \in DOMAIN projections :
        LET p == projections[k] IN
            /\ ToSet(p.vertices) = VertsOf(Finished(k))
            /\ \A m, n \in DOMAIN p.vertices : m < n => p.vertices[m] < p.vertices[n]
            /\ Resolves(p)

\* The separation implements Components: an edge of the growing projection
\* still counts as remaining, and closing a projection takes its component.
RemainingBar == Pending \union Growing
FoundBar == {Finished(k) : k \in DOMAIN projections}

Comp == INSTANCE Components WITH
            remaining <- RemainingBar,
            found     <- FoundBar

\* Every run of separate_projections takes connected components out of the
\* drawing, one at a time, until nothing is left.
TakesComponents == Comp!Spec
=============================================================================
