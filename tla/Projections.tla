---------------------------- MODULE Projections ----------------------------
(***************************************************************************)
(* The data that the interpreter's stages hand to each other: an edge is a *)
(* pair of vertices, and a projection (class interpreter::projection) is a *)
(* list of vertices, the list of edges between them, and `cedges', the     *)
(* same edges as positions in the list of vertices.                        *)
(*                                                                         *)
(* A vertex is the label the vectorizer gave it.  The code replaces labels *)
(* by pixels (vertices[t]) on the way; the vectorizer's labels name        *)
(* pairwise different pixels (PointGraph!SeedsApart), so a label stands    *)
(* for its pixel here.  Positions count from 1, as sequences do, and from  *)
(* 0 in the code.                                                          *)
(***************************************************************************)
EXTENDS Integers, Sequences, SequencesExt

\* The two vertices of an edge, and the vertices of a set of edges.
Ends(e) == {e[1], e[2]}
VertsOf(E) == UNION {Ends(e) : e \in E}

\* The predicate of the std::find_if that grows a projection.
Touches(e, V) == e[1] \in V \/ e[2] \in V

\* The set of vertices S is not left by any edge of E.
Closed(S, E) == \A e \in E : Touches(e, S) => Ends(e) \subseteq S

\* Every vertex of E is reached from every other one along E: no set of
\* vertices but the empty one and the whole one is closed.
Connected(E) ==
    \A S \in SUBSET VertsOf(E) : Closed(S, E) => S = {} \/ S = VertsOf(E)

\* std::distance(begin, std::find(begin, end, v)): the first position of v in
\* the list, or the position after the last one.
Position(list, v) ==
    IF v \in ToSet(list) THEN SelectInSeq(list, LAMBDA u : u = v) ELSE Len(list) + 1

\* The list of positions `cedges' that stands for the list of edges.
PositionsOf(list, E) ==
    [k \in DOMAIN E |-> <<Position(list, E[k][1]), Position(list, E[k][2])>>]

\* The elements of a std::set<std::size_t>, in the order an iterator meets them.
AscendingList(V) ==
    [k \in 1 .. Cardinality(V) |->
        CHOOSE v \in V : Cardinality({u \in V : u < v}) = k - 1]

\* Slip: cedges looked up before the vertices are pushed.
NewProjectionEdgesFirst(V, E) ==
    [vertices |-> AscendingList(V), edges |-> E, cedges |-> PositionsOf(<< >>, E)]

\* What separate_projections pushes for a set of vertices (a std::set, which
\* is walked in ascending order) and the list of edges that joined it.
NewProjection(V, E) ==
    LET list == AscendingList(V)
    IN [vertices |-> list, edges |-> E, cedges |-> PositionsOf(list, E)]

\* target with src appended, the positions of src moved by shift.
AppendMoved(target, src, shift) ==
    [target EXCEPT !.vertices = target.vertices \o src.vertices,
                   !.edges    = target.edges \o src.edges,
                   !.cedges   = target.cedges \o
                        [k \in DOMAIN src.cedges |->
                            <<src.cedges[k][1] + shift, src.cedges[k][2] + shift>>]]

\* Slip: the positions are not shifted.
MergeUnshifted(target, src) == AppendMoved(target, src, 0)

\* merge(target, src): src is appended to target, its positions shifted by the
\* number of vertices target had.
Merge(target, src) == AppendMoved(target, src, Len(target.vertices))

\* cedges says of positions what edges says of vertices.
Resolves(p) ==
    /\ DOMAIN p.cedges = DOMAIN p.edges
    /\ \A k \in DOMAIN p.cedges :
          /\ p.cedges[k][1] \in DOMAIN p.vertices
          /\ p.cedges[k][2] \in DOMAIN p.vertices
          /\ p.edges[k] = <<p.vertices[p.cedges[k][1]], p.vertices[p.cedges[k][2]]>>
============================================================================
