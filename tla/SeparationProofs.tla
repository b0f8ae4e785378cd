-------------------------- MODULE SeparationProofs --------------------------
(***************************************************************************)
(* Proofs about Separation, for every set of vertices and every drawing.   *)
(*                                                                         *)
(* The argument: while a projection grows, its edges are connected and     *)
(* next_projection is exactly the set of their vertices (Walk), so when no *)
(* pending edge touches next_projection the edges collected form a         *)
(* connected component of what is left.  The same equation says that the   *)
(* ascending list of next_projection has every end of these edges, so that *)
(* looking them up in it finds them (Listed).                              *)
(***************************************************************************)
EXTENDS Separation, ListLemmas

\* The growing projection: its vertices are those of its edges, it is empty
\* exactly between two rounds of the outer loop, and it is connected.
Walk ==
    /\ next_projection = VertsOf(Growing)
    /\ pc = "inner" <=> Growing # {}
    /\ Connected(Growing)

\* Every projection was stored by Close.
FewOf(S) == {V \in SUBSET S : IsFiniteSet(V)}
Stored == {NewProjection(V, E) : V \in FewOf(Vertex), E \in Seq(Edge)}
AllStored == projections \in Seq(Stored)

\* The std::set of vertices is finite.
FewVertices == IsFiniteSet(next_projection)

\* The inductive invariant.
IInv ==
    /\ TypeOK /\ AllStored /\ FewVertices
    /\ EdgesKept /\ Apart /\ EachConnected /\ Walk /\ Listed

-----------------------------------------------------------------------------
\* A single edge is connected.
LEMMA OneEdge ==
    ASSUME NEW e
    PROVE  Connected({e}) /\ VertsOf({e}) = Ends(e)
BY DEF Connected, VertsOf, Closed, Touches, Ends

\* A connected set of edges stays connected when an edge that touches it joins.
LEMMA OneMoreEdge ==
    ASSUME NEW E, NEW e, Connected(E), Touches(e, VertsOf(E))
    PROVE  /\ Connected(E \union {e})
           /\ VertsOf(E \union {e}) = VertsOf(E) \union Ends(e)
<1>1. VertsOf(E \union {e}) = VertsOf(E) \union Ends(e)
  BY DEF VertsOf
<1>2. ASSUME NEW S \in SUBSET VertsOf(E \union {e}), Closed(S, E \union {e}), S # {}
      PROVE  S = VertsOf(E \union {e})
  <2> DEFINE T == S \intersect VertsOf(E)
  <2>1. \A f \in E : Ends(f) \subseteq VertsOf(E)
    BY DEF VertsOf
  <2>2. Closed(T, E)
    BY <1>2, <2>1 DEF Closed, Touches
  <2>3. T = {} \/ T = VertsOf(E)
    BY <2>2 DEF Connected
  <2>4. Touches(e, S) => Ends(e) \subseteq S
    BY <1>2 DEF Closed
  <2>5. Touches(e, S)
    BY <1>1, <1>2, <2>3 DEF Touches, Ends
  <2>6. T # {}
    BY <2>4, <2>5 DEF Touches, Ends
  <2> QED
    BY <1>1, <2>3, <2>4, <2>5, <2>6
<1> QED
  BY <1>1, <1>2 DEF Connected

\* An edge has finitely many ends.
LEMMA TwoEnds == \A e : IsFiniteSet(Ends(e))
<1>1. \A a, b : IsFiniteSet({a} \union {b})
  BY FS_Singleton, FS_Union
<1>2. \A e : Ends(e) = {e[1]} \union {e[2]}
  BY DEF Ends
<1> QED
  BY <1>1, <1>2

\* The vertices of edges between vertices are vertices.
LEMMA EndsAreVertices ==
    ASSUME NEW E \in Seq(Edge)
    PROVE  VertsOf(ToSet(E)) \in SUBSET Vertex
BY LenProperties, ElementOfSeq DEF VertsOf, ToSet, Ends, Edge

\* Storing a projection leaves the earlier ones where they are.
LEMMA StoreOne ==
    ASSUME NEW V \in FewOf(Vertex), NEW E \in Seq(Edge), NEW P \in Seq(Stored)
    PROVE  LET Q == Append(P, NewProjection(V, E)) IN
             /\ Q \in Seq(Stored)
             /\ Len(P) \in Nat
             /\ DOMAIN P = 1 .. Len(P)
             /\ Len(Q) = Len(P) + 1
             /\ DOMAIN Q = (DOMAIN P) \union {Len(P) + 1}
             /\ Len(P) + 1 \notin DOMAIN P
             /\ \A k \in DOMAIN P : Q[k] = P[k]
             /\ Q[Len(P) + 1].edges = E
             /\ Q[Len(P) + 1] = NewProjection(V, E)
<1> DEFINE p == NewProjection(V, E)
           Q == Append(P, p)
<1>1. p \in Stored /\ p.edges = E
  BY DEF Stored, NewProjection
<1> HIDE DEF p
<1>2. /\ Q \in Seq(Stored) /\ Len(Q) = Len(P) + 1
      /\ \A i \in 1 .. Len(P) : Q[i] = P[i]
      /\ Q[Len(P) + 1] = p
  BY <1>1, AppendProperties
<1>3. /\ Len(P) \in Nat /\ DOMAIN P = 1 .. Len(P)
      /\ DOMAIN Q = 1 .. Len(P) + 1
  BY <1>2, LenProperties
<1>4. 1 .. Len(P) + 1 = (1 .. Len(P)) \union {Len(P) + 1} /\ Len(P) + 1 \notin 1 .. Len(P)
  BY <1>3
<1> QED
  BY <1>1, <1>2, <1>3, <1>4 DEF p

\* One projection is listed as it should be; Listed says it of all of them.
ListedOne(p) ==
    /\ ToSet(p.vertices) = VertsOf(ToSet(p.edges))
    /\ \A m, n \in DOMAIN p.vertices : m < n => p.vertices[m] < p.vertices[n]
    /\ Resolves(p)

\* A projection is, when it is made of edges and exactly their vertices.
LEMMA MadeListed ==
    ASSUME NEW V \in SUBSET Vertex, IsFiniteSet(V),
           NEW E \in Seq(Edge), V = VertsOf(ToSet(E))
    PROVE  ListedOne(NewProjection(V, E))
<1>1. V \in SUBSET Nat
  BY VertexAssumption
<1> DEFINE L == AscendingList(V)
           p == NewProjection(V, E)
<1>2. /\ L \in Seq(V) /\ ToSet(L) = V
      /\ \A m, n \in DOMAIN L : m < n => L[m] < L[n]
  BY <1>1, Ascending
<1>3. p = [vertices |-> L, edges |-> E, cedges |-> PositionsOf(L, E)]
  BY DEF NewProjection
<1> HIDE DEF L
<1>4. ASSUME NEW k \in DOMAIN E
      PROVE  /\ E[k] = <<E[k][1], E[k][2]>>
             /\ E[k][1] \in ToSet(L) /\ E[k][2] \in ToSet(L)
  <2>1. E[k] \in Edge
    BY LenProperties, ElementOfSeq
  <2>2. E[k] \in ToSet(E)
    BY DEF ToSet
  <2>3. Ends(E[k]) \subseteq V
    BY <2>2 DEF VertsOf
  <2> QED
    BY <2>1, <2>3, <1>2 DEF Edge, Ends
<1>5. Resolves(p)
  BY <1>2, <1>3, <1>4, LookedUp
<1>6. p.vertices = L /\ p.edges = E
  BY <1>3
<1> HIDE DEF p
<1>7. ListedOne(p)
  BY <1>2, <1>5, <1>6 DEF ListedOne
<1> QED
  BY <1>7 DEF p

-----------------------------------------------------------------------------
\* The initial states satisfy the invariant.
LEMMA InitInv == Init => IInv
<1> SUFFICES ASSUME Init PROVE IInv
  OBVIOUS
<1>1. given \in Seq(Edge)
  BY InputsAssumption DEF Init, Edge
<1>2. ToSet(<< >>) = {} /\ << >> \in Seq(Edge) /\ << >> \in Seq(Stored)
  BY DEF ToSet
<1>3. DOMAIN << >> = {} /\ Len(<< >>) = 0 /\ 1 .. 0 = {}
  OBVIOUS
<1>4. TypeOK
  BY <1>1, <1>2, <1>3 DEF Init, TypeOK
<1>5. AllStored /\ EdgesKept /\ Apart /\ EachConnected
  BY <1>2, <1>3 DEF Init, AllStored, EdgesKept, Apart, EachConnected, Pending, Growing
<1>6. Walk
  BY <1>2 DEF Init, Walk, Growing, VertsOf, Connected
<1>7. FewVertices /\ Listed
  BY <1>3, FS_EmptySet DEF Init, FewVertices, Listed
<1> QED
  BY <1>4, <1>5, <1>6, <1>7 DEF IInv

\* Starting a projection preserves the invariant.
LEMMA StartInv == IInv /\ Start => IInv'
<1> SUFFICES ASSUME IInv, Start PROVE IInv'
  OBVIOUS
<1> DEFINE e == edges[Len(edges)]
<1>1. e \in Edge /\ edges' \in Seq(Edge) /\ Pending = Pending' \union {e}
  BY DropLast DEF IInv, TypeOK, Start, Pending
<1>2. c_edges' = <<e>> /\ c_edges' \in Seq(Edge) /\ Growing' = {e}
  BY <1>1 DEF Start, Growing, ToSet
<1>3. Growing = {}
  BY DEF IInv, Walk, Start
<1>4. next_projection' = Ends(e) /\ Ends(e) \subseteq Vertex
  BY <1>1 DEF Start, Ends, Edge
<1>5. Pending' \union Growing' = Pending \union Growing
  BY <1>1, <1>2, <1>3
<1>6. UNCHANGED <<given, projections>> /\ pc' = "inner"
  BY DEF Start
<1>7. TypeOK' /\ AllStored'
  BY <1>1, <1>2, <1>4, <1>6 DEF IInv, TypeOK, AllStored
<1>8. EdgesKept' /\ Apart' /\ EachConnected'
  BY <1>5, <1>6 DEF IInv, EdgesKept, Apart, EachConnected, Finished
<1>9. Walk'
  BY <1>2, <1>4, <1>6, OneEdge DEF Walk
<1>10. FewVertices'
  BY <1>4, TwoEnds DEF FewVertices
<1>11. Listed'
  BY <1>6 DEF IInv, Listed, Finished
<1> QED
  BY <1>7, <1>8, <1>9, <1>10, <1>11 DEF IInv

\* Adding an edge to the growing projection preserves the invariant.
LEMMA GrowInv == IInv /\ Grow => IInv'
<1> SUFFICES ASSUME IInv, Grow PROVE IInv'
  OBVIOUS
<1>1. PICK t \in DOMAIN edges :
         /\ FirstTouching(t)
         /\ next_projection' = next_projection \union Ends(edges[t])
         /\ c_edges' = Append(c_edges, edges[t])
         /\ edges' = RemoveAt(edges, t)
  BY DEF Grow
<1> DEFINE e == edges[t]
<1>2. e \in Edge /\ edges' \in Seq(Edge) /\ Pending = Pending' \union {e}
  BY <1>1, DropAt DEF IInv, TypeOK, Pending
<1>3. c_edges' \in Seq(Edge) /\ Growing' = Growing \union {e}
  BY <1>1, <1>2, Grown DEF IInv, TypeOK, Growing
<1>4. Ends(e) \subseteq Vertex
  BY <1>2 DEF Ends, Edge
<1>5. Pending' \union Growing' = Pending \union Growing
  BY <1>2, <1>3
<1>6. UNCHANGED <<given, projections, pc>> /\ pc = "inner"
  BY DEF Grow
<1>7. TypeOK' /\ AllStored'
  BY <1>1, <1>2, <1>3, <1>4, <1>6 DEF IInv, TypeOK, AllStored
<1>8. EdgesKept' /\ Apart' /\ EachConnected'
  BY <1>5, <1>6 DEF IInv, EdgesKept, Apart, EachConnected, Finished
<1>9. Walk'
  <2>1. Connected(Growing) /\ Touches(e, VertsOf(Growing))
    BY <1>1 DEF IInv, Walk, FirstTouching, Joins
  <2> QED
    BY <2>1, <1>1, <1>3, <1>6, OneMoreEdge DEF IInv, Walk
<1>10. FewVertices'
  BY <1>1, TwoEnds, FS_Union DEF IInv, FewVertices
<1>11. Listed'
  BY <1>6 DEF IInv, Listed, Finished
<1> QED
  BY <1>7, <1>8, <1>9, <1>10, <1>11 DEF IInv

\* Closing a projection preserves the invariant: it is complete, because no
\* pending edge touches it.
LEMMA CloseInv == IInv /\ Close => IInv'
<1> SUFFICES ASSUME IInv, Close PROVE IInv'
  OBVIOUS
<1>0. PICK n : n = Len(projections) + 1
  OBVIOUS
<1>1. /\ AllStored' /\ n \notin DOMAIN projections
      /\ DOMAIN projections' = (DOMAIN projections) \union {n}
      /\ DOMAIN projections' = 1 .. Len(projections')
      /\ \A k \in DOMAIN projections : projections'[k] = projections[k]
      /\ projections'[n].edges = c_edges
      /\ projections'[n] = NewProjection(next_projection, c_edges)
  BY <1>0, StoreOne, LenProperties DEF IInv, TypeOK, AllStored, FewVertices, FewOf, Close
<1>2. /\ edges' = edges /\ given' = given /\ c_edges' = << >>
      /\ next_projection' = {} /\ pc' = "outer"
  BY DEF Close
<1>3. Pending' = Pending /\ Growing' = {}
  BY <1>2 DEF Pending, Growing, ToSet
<1>4. Finished(n)' = Growing /\ \A k \in DOMAIN projections : Finished(k)' = Finished(k)
  BY <1>1 DEF Finished, Growing
<1>5. \A e \in Pending : ~ Touches(e, VertsOf(Growing))
  BY DEF Close, Joins, Pending, IInv, Walk, ToSet
<1>6. Growing # {} /\ Connected(Growing)
  BY DEF IInv, Walk, Close
<1>7. TypeOK'
  BY <1>1, <1>2 DEF IInv, TypeOK
<1>8. EdgesKept'
  BY <1>1, <1>2, <1>3, <1>4 DEF IInv, EdgesKept
<1>9. EachConnected'
  BY <1>1, <1>4, <1>6 DEF IInv, EachConnected
<1>10. Apart'
  <2>1. \A k \in DOMAIN projections :
            VertsOf(Finished(k)) \intersect VertsOf(Growing) = {}
    BY DEF IInv, Apart, VertsOf, Touches, Ends
  <2> QED
    BY <2>1, <1>1, <1>3, <1>4, <1>5 DEF IInv, Apart
<1>11. Walk'
  BY <1>2, <1>3 DEF Walk, VertsOf, Connected
<1>12. FewVertices'
  BY <1>2, FS_EmptySet DEF FewVertices
<1>13. Listed'
  <2>1. ListedOne(projections'[n])
    BY <1>1, MadeListed DEF IInv, TypeOK, FewVertices, Walk, Growing
  <2>2. \A k \in DOMAIN projections : ListedOne(projections[k])
    BY DEF IInv, Listed, ListedOne, Finished
  <2>3. \A k \in DOMAIN projections' : ListedOne(projections'[k])
    BY <2>1, <2>2, <1>1
  <2> QED
    BY <2>3 DEF Listed, ListedOne, Finished
<1> QED
  BY <1>1, <1>7, <1>8, <1>9, <1>10, <1>11, <1>12, <1>13 DEF IInv

\* Every step preserves the invariant.
LEMMA NextInv == IInv /\ [Next]_vars => IInv'
<1> SUFFICES ASSUME IInv, [Next]_vars PROVE IInv'
  OBVIOUS
<1>1. CASE Start
  BY <1>1, StartInv
<1>2. CASE Grow
  BY <1>2, GrowInv
<1>3. CASE Close
  BY <1>3, CloseInv
<1>4. CASE Finish \/ UNCHANGED vars
  <2>1. UNCHANGED <<given, edges, next_projection, c_edges, projections>>
    BY <1>4 DEF Finish, vars
  <2>2. pc' \in {"outer", "inner", "done"} /\ (pc' = "inner" <=> pc = "inner")
    BY <1>4 DEF Finish, vars, IInv, TypeOK
  <2> QED
    <3>1. TypeOK' /\ AllStored' /\ FewVertices' /\ Walk'
      BY <2>1, <2>2 DEF IInv, TypeOK, AllStored, FewVertices, Walk, Growing
    <3>2. EdgesKept' /\ Apart' /\ EachConnected'
      BY <2>1 DEF IInv, EdgesKept, Apart, EachConnected, Pending, Growing, Finished
    <3>3. Listed'
      BY <2>1 DEF IInv, Listed, Finished
    <3> QED
      BY <3>1, <3>2, <3>3 DEF IInv
<1> QED
  BY <1>1, <1>2, <1>3, <1>4 DEF Next

\* The separation always keeps its variables within their types.
THEOREM TypeCorrect == Spec => []TypeOK
<1>1. IInv => TypeOK
  BY DEF IInv
<1> QED
  BY <1>1, InitInv, NextInv, PTL DEF Spec

\* At every moment of every separation, no edge of the drawing is lost or
\* invented, finished projections are apart from each other and from what is
\* still pending, and each of them is connected.  Together: what the function
\* stores is connected components of the drawing.
THEOREM SeparationCorrect == Spec => []SplitsDrawing
<1>1. IInv => SplitsDrawing
  BY DEF IInv, SplitsDrawing
<1> QED
  BY <1>1, InitInv, NextInv, PTL DEF Spec

\* Every projection that is stored lists the vertices of its edges, each once and
\* in ascending order, and its cedges stand for its edges.
THEOREM ProjectionsListed == Spec => []Listed
<1>1. IInv => Listed
  BY DEF IInv
<1> QED
  BY <1>1, InitInv, NextInv, PTL DEF Spec

-----------------------------------------------------------------------------
\* The separation starts where Components starts.
LEMMA RefinesInit == Init => Comp!Init
<1> SUFFICES ASSUME Init PROVE Comp!Init
  OBVIOUS
<1>1. RemainingBar \subseteq Edge
  BY InputsAssumption, LenProperties, ElementOfSeq
     DEF Init, RemainingBar, Pending, Growing, ToSet, Edge
<1>2. FoundBar = {}
  BY DEF Init, FoundBar
<1> QED
  BY <1>1, <1>2 DEF Comp!Init, Edge

\* Closing a projection takes a component; every other step is a stutter.
LEMMA RefinesNext == IInv /\ IInv' /\ [Next]_vars => [Comp!Next]_(Comp!vars)
<1> SUFFICES ASSUME IInv, IInv', [Next]_vars PROVE [Comp!Next]_(Comp!vars)
  OBVIOUS
<1>1. CASE Start
  <2>1. RemainingBar' = RemainingBar
    <3>1. Pending = Pending' \union {edges[Len(edges)]}
      BY <1>1, DropLast DEF IInv, TypeOK, Start, Pending
    <3>2. Growing = {} /\ Growing' = {edges[Len(edges)]}
      BY <1>1 DEF IInv, Walk, Start, Growing, ToSet
    <3> QED
      BY <3>1, <3>2 DEF RemainingBar
  <2>2. FoundBar' = FoundBar
    BY <1>1 DEF Start, FoundBar, Finished
  <2> QED
    BY <2>1, <2>2 DEF Comp!vars
<1>2. CASE Grow
  <2>1. PICK t \in DOMAIN edges : /\ c_edges' = Append(c_edges, edges[t])
                                  /\ edges' = RemoveAt(edges, t)
    BY <1>2 DEF Grow
  <2>2. edges[t] \in Edge /\ Pending = Pending' \union {edges[t]}
    BY <2>1, DropAt DEF IInv, TypeOK, Pending
  <2>3. Growing' = Growing \union {edges[t]}
    BY <2>1, <2>2, Grown DEF IInv, TypeOK, Growing
  <2>4. RemainingBar' = RemainingBar
    BY <2>2, <2>3 DEF RemainingBar
  <2>5. FoundBar' = FoundBar
    BY <1>2 DEF Grow, FoundBar, Finished
  <2> QED
    BY <2>4, <2>5 DEF Comp!vars
<1>3. CASE Close
  <2>0. PICK n : n = Len(projections) + 1
    OBVIOUS
  <2>1. /\ n \notin DOMAIN projections
        /\ DOMAIN projections' = (DOMAIN projections) \union {n}
        /\ \A k \in DOMAIN projections : projections'[k] = projections[k]
        /\ projections'[n].edges = c_edges
    BY <1>3, <2>0, StoreOne DEF IInv, TypeOK, AllStored, FewVertices, FewOf, Close
  <2>2. Finished(n)' = Growing /\ \A k \in DOMAIN projections : Finished(k)' = Finished(k)
    BY <2>1 DEF Finished, Growing
  <2>3. FoundBar' = FoundBar \union {Growing}
    BY <2>1, <2>2 DEF FoundBar
  <2>4. \A e \in Pending : ~ Touches(e, VertsOf(Growing))
    BY <1>3 DEF Close, Joins, Pending, IInv, Walk, ToSet
  <2>5. \A e \in Growing : Ends(e) \subseteq VertsOf(Growing) /\ Touches(e, VertsOf(Growing))
    BY DEF VertsOf, Ends, Touches
  <2>6. Pending' = Pending /\ Growing' = {}
    BY <1>3 DEF Close, Pending, Growing, ToSet
  <2>7. RemainingBar' = RemainingBar \ Growing
    BY <2>4, <2>5, <2>6 DEF RemainingBar
  <2>8. Closed(VertsOf(Growing), RemainingBar)
    BY <2>4, <2>5 DEF Closed, RemainingBar
  <2>9. Growing # {} /\ Connected(Growing)
    BY <1>3 DEF IInv, Walk, Close
  <2>10. Comp!Take(Growing)
    <3>1. \A E : Comp!VertsOf(E) = VertsOf(E)
      BY DEF Comp!VertsOf, VertsOf, Comp!Ends, Ends
    <3>2. \A S, E : Comp!Closed(S, E) <=> Closed(S, E)
      BY DEF Comp!Closed, Closed, Comp!Touches, Touches, Comp!Ends, Ends
    <3>3. Comp!Connected(Growing)
      BY <2>9, <3>1, <3>2 DEF Comp!Connected, Connected
    <3>4. Comp!IsComponent(Growing)
      BY <2>8, <2>9, <3>1, <3>2, <3>3 DEF Comp!IsComponent
    <3> QED
      BY <2>3, <2>7, <3>4 DEF Comp!Take, RemainingBar
  <2>11. Growing \in SUBSET RemainingBar
    BY DEF RemainingBar
  <2> QED
    BY <2>10, <2>11 DEF Comp!Next
<1>4. CASE Finish \/ UNCHANGED vars
  BY <1>4 DEF Finish, vars, Comp!vars, RemainingBar, FoundBar, Pending, Growing, Finished
<1> QED
  BY <1>1, <1>2, <1>3, <1>4 DEF Next

\* Every step of separate_projections either takes one whole connected
\* component out of what remains of the drawing or changes nothing there.
THEOREM Implements == Spec => Comp!Init /\ [][Comp!Next]_(Comp!vars)
BY InitInv, NextInv, RefinesInit, RefinesNext, PTL DEF Spec
=============================================================================
