-------------------------- MODULE InterpreterProofs --------------------------
(***************************************************************************)
(* Proofs about Interpreter, for every drawing and whatever the boxes are. *)
(*                                                                         *)
(* The argument is put together from those of the two stages: as long as   *)
(* the separation runs its invariant holds; what it hands over has the     *)
(* form pruning starts from (HandedOver); the invariant of pruning holds   *)
(* from then on, and says enough of the list of projections that the last  *)
(* two stages, which only read it, return what they promise.               *)
(*                                                                         *)
(* Separation and Prune come with their proofs a second time, as Sep and   *)
(* Pr; the first lemmas say that these are the same stages.                *)
(***************************************************************************)
EXTENDS Interpreter, ListLemmas

Sep == INSTANCE SeparationProofs WITH projections <- separated, pc <- separation_pc

Pr == INSTANCE PruneProofs WITH
          given <- boxed, projections <- potential_projections, pc <- prune_pc

-----------------------------------------------------------------------------
\* The operators on edges and lists are those of Projections.
LEMMA SameEnds ==
    /\ \A e : Separation!Ends(e) = Ends(e) /\ Sep!Ends(e) = Ends(e) /\ Pr!Ends(e) = Ends(e)
    /\ \A e, V : /\ Separation!Touches(e, V) <=> Touches(e, V)
                 /\ Sep!Touches(e, V) <=> Touches(e, V)
    /\ \A E : Sep!VertsOf(E) = VertsOf(E) /\ Pr!VertsOf(E) = VertsOf(E)
BY DEF Separation!Ends, Sep!Ends, Pr!Ends, Ends, Separation!Touches, Sep!Touches, Touches,
       Sep!VertsOf, Pr!VertsOf, VertsOf

LEMMA SameToSet ==
    \A s : /\ Separation!ToSet(s) = ToSet(s) /\ Sep!ToSet(s) = ToSet(s)
           /\ Pruning!ToSet(s) = ToSet(s) /\ Pr!ToSet(s) = ToSet(s)
BY DEF Separation!ToSet, Sep!ToSet, Pruning!ToSet, Pr!ToSet, ToSet

LEMMA SameRemoveAt ==
    \A s, t : /\ Separation!RemoveAt(s, t) = RemoveAt(s, t) /\ Sep!RemoveAt(s, t) = RemoveAt(s, t)
              /\ Pruning!RemoveAt(s, t) = RemoveAt(s, t) /\ Pr!RemoveAt(s, t) = RemoveAt(s, t)
BY DEF Separation!RemoveAt, Sep!RemoveAt, Pruning!RemoveAt, Pr!RemoveAt, RemoveAt

LEMMA SameAscendingList ==
    \A V : Separation!AscendingList(V) = AscendingList(V) /\ Sep!AscendingList(V) = AscendingList(V)
BY DEF Separation!AscendingList, Sep!AscendingList, AscendingList,
       Separation!Cardinality, Sep!Cardinality, Cardinality

LEMMA SamePosition ==
    \A s, v : Separation!Position(s, v) = Position(s, v) /\ Sep!Position(s, v) = Position(s, v)
BY SameToSet DEF Separation!Position, Sep!Position, Position,
       Separation!SelectInSeq, Sep!SelectInSeq, SelectInSeq, Separation!Min, Sep!Min, Min

LEMMA SameNewProjection ==
    \A V, E : /\ Separation!NewProjection(V, E) = NewProjection(V, E)
              /\ Sep!NewProjection(V, E) = NewProjection(V, E)
<1>1. \A s, E : /\ Separation!PositionsOf(s, E) = PositionsOf(s, E)
                /\ Sep!PositionsOf(s, E) = PositionsOf(s, E)
  BY SamePosition DEF Separation!PositionsOf, Sep!PositionsOf, PositionsOf
<1> QED
  BY <1>1, SameAscendingList DEF Separation!NewProjection, Sep!NewProjection, NewProjection

LEMMA SameMerge ==
    \A t, s : Pruning!Merge(t, s) = Pr!Merge(t, s)
BY DEF Pruning!Merge, Pr!Merge, Pruning!AppendMoved, Pr!AppendMoved

LEMMA SameResolves ==
    \A p : /\ Sep!Resolves(p) <=> Resolves(p)
           /\ Pr!Resolves(p) <=> Resolves(p)
           /\ Pr!IsInjective(p) <=> IsInjective(p)
BY DEF Sep!Resolves, Pr!Resolves, Resolves, Pr!IsInjective, IsInjective

-----------------------------------------------------------------------------
\* The steps of the separation are those the proofs are about.
LEMMA SameSeparation ==
    /\ Separation!Init => Sep!Init
    /\ Separation!Next => Sep!Next
    /\ Separation!TypeOK <=> Sep!TypeOK
<1>1. Separation!Init => Sep!Init
  BY DEF Separation!Init, Sep!Init
<1>2. Separation!Start => Sep!Start
  BY SameEnds DEF Separation!Start, Sep!Start
<1>3. Separation!Grow => Sep!Grow
  BY SameEnds, SameRemoveAt DEF Separation!Grow, Sep!Grow, Separation!FirstTouching,
     Sep!FirstTouching, Separation!Joins, Sep!Joins
<1>4. Separation!Close => Sep!Close
  BY SameEnds, SameNewProjection DEF Separation!Close, Sep!Close, Separation!Joins, Sep!Joins
<1>5. Separation!Finish => Sep!Finish
  BY DEF Separation!Finish, Sep!Finish
<1>6. Separation!TypeOK <=> Sep!TypeOK
  BY DEF Separation!TypeOK, Sep!TypeOK, Separation!Edge, Sep!Edge
<1> QED
  BY <1>1, <1>2, <1>3, <1>4, <1>5, <1>6 DEF Separation!Next, Sep!Next

\* And so are the steps and the properties of pruning.
LEMMA SamePruning ==
    /\ Pruning!Next => Pr!Next
    /\ Pruning!TypeOK <=> Pr!TypeOK
    /\ Pruning!Nested <=> Pr!Nested
    /\ Pruning!TiedByBoxes <=> Pr!TiedByBoxes
    /\ Pruning!NothingToMerge <=> Pr!NothingToMerge
<1>1. Pruning!EnterRound => Pr!EnterRound
  BY DEF Pruning!EnterRound, Pr!EnterRound, Pruning!Center, Pr!Center, Pruning!geometry, Pr!geometry
<1>2. Pruning!PassBy => Pr!PassBy
  BY DEF Pruning!PassBy, Pr!PassBy, Pruning!InLoop, Pr!InLoop, Pruning!Inside, Pr!Inside,
     Pruning!geometry, Pr!geometry
<1>m. \A t, s : Pruning!MergedInto(t, s) = Pr!MergedInto(t, s)
  BY SameMerge, SameRemoveAt DEF Pruning!MergedInto, Pr!MergedInto
<1>3. Pruning!GiveUp => Pr!GiveUp
  BY <1>m DEF Pruning!GiveUp, Pr!GiveUp, Pruning!InLoop, Pr!InLoop, Pruning!Inside, Pr!Inside,
     Pruning!Larger, Pr!Larger, Pruning!geometry, Pr!geometry
<1>4. Pruning!TakeOver => Pr!TakeOver
  BY <1>m DEF Pruning!TakeOver, Pr!TakeOver, Pruning!InLoop, Pr!InLoop, Pruning!Inside, Pr!Inside,
     Pruning!Larger, Pr!Larger, Pruning!geometry, Pr!geometry
<1>5. Pruning!ReadPastEnd => Pr!ReadPastEnd
  BY DEF Pruning!ReadPastEnd, Pr!ReadPastEnd, Pruning!InLoop, Pr!InLoop, Pruning!Inside,
     Pr!Inside, Pruning!geometry, Pr!geometry
<1>6. Pruning!LeaveRound => Pr!LeaveRound
  BY DEF Pruning!LeaveRound, Pr!LeaveRound, Pruning!Advance, Pr!Advance, Pruning!geometry,
     Pr!geometry
<1>7. Pruning!Finish => Pr!Finish
  BY DEF Pruning!Finish, Pr!Finish, Pruning!geometry, Pr!geometry
<1>8. Pruning!TypeOK <=> Pr!TypeOK
  BY DEF Pruning!TypeOK, Pr!TypeOK, Pruning!Geometry, Pr!Geometry, Pruning!Box, Pr!Box,
     Pruning!View, Pr!View
<1>9. Pruning!Nested <=> Pr!Nested
  BY DEF Pruning!Nested, Pr!Nested, Pruning!Box, Pr!Box
<1>10. \A p : Pruning!Members(p) = Pr!Members(p)
  BY SameToSet DEF Pruning!Members, Pr!Members
<1>11. Pruning!TiedByBoxes <=> Pr!TiedByBoxes
  BY <1>10 DEF Pruning!TiedByBoxes, Pr!TiedByBoxes
<1>12. Pruning!NothingToMerge <=> Pr!NothingToMerge
  BY DEF Pruning!NothingToMerge, Pr!NothingToMerge
<1> QED
  BY <1>1, <1>2, <1>3, <1>4, <1>5, <1>6, <1>7, <1>8, <1>9, <1>11, <1>12
     DEF Pruning!Next, Pr!Next

-----------------------------------------------------------------------------
\* What the separation leaves when it is done.
Separated ==
    /\ separated \in Seq({NewProjection(V, E) : V \in {U \in SUBSET Nat : IsFiniteSet(U)},
                                              E \in Seq(Vertex \X Vertex)})
    /\ \A k \in DOMAIN separated :
          /\ LinesOf(separated[k]) # {}
          /\ ToSet(separated[k].vertices) = VertsOf(LinesOf(separated[k]))
          /\ IsInjective(separated[k].vertices)
          /\ Resolves(separated[k])
    /\ \A k, m \in DOMAIN separated :
          k # m => VertsOf(LinesOf(separated[k])) \intersect VertsOf(LinesOf(separated[m])) = {}
    /\ ToSet(given) = UNION {LinesOf(separated[k]) : k \in DOMAIN separated}

\* Nothing is pending and nothing growing when the separation is done.
NothingPending == separation_pc = "done" => edges = << >>

LEMMA SeparationLeaves ==
    ASSUME Sep!IInv, NothingPending, separation_pc = "done"
    PROVE  Separated
<1>1. /\ Sep!TypeOK /\ Sep!AllStored /\ Sep!EdgesKept /\ Sep!Apart /\ Sep!EachConnected
      /\ Sep!Walk /\ Sep!Listed
  BY DEF Sep!IInv
<1>2. \A k : Sep!Finished(k) = LinesOf(separated[k])
  BY SameToSet DEF Sep!Finished, LinesOf
<1>3. /\ separated \in Seq(Sep!Stored)
      /\ Len(separated) \in Nat /\ DOMAIN separated = 1 .. Len(separated)
  BY <1>1, LenProperties DEF Sep!AllStored
<1>4. \A k \in DOMAIN separated : separated[k] \in Sep!Stored
  BY <1>3, ElementOfSeq
<1>5. Sep!Pending = {} /\ Sep!Growing = {}
  <2>1. Sep!Growing = {}
    BY <1>1 DEF Sep!Walk
  <2>2. ToSet(<< >>) = {}
    BY DEF ToSet
  <2> QED
    BY <2>1, <2>2, SameToSet DEF NothingPending, Sep!Pending
<1>6. separated \in Seq({NewProjection(V, E) : V \in {U \in SUBSET Nat : IsFiniteSet(U)},
                                             E \in Seq(Vertex \X Vertex)})
  <2> DEFINE N == {NewProjection(V, E) : V \in {U \in SUBSET Nat : IsFiniteSet(U)},
                                         E \in Seq(Vertex \X Vertex)}
  <2>1. \A U : Sep!IsFiniteSet(U) <=> IsFiniteSet(U)
    BY DEF Sep!IsFiniteSet, IsFiniteSet
  <2>2. Sep!Stored \subseteq N
    BY <2>1, SameNewProjection, VertexAssumption DEF Sep!Stored, Sep!FewOf, Sep!Edge
  <2> HIDE DEF N
  <2>3. separated \in Seq(N)
    BY <1>3, <2>2, SeqMonotonic
  <2> QED
    BY <2>3 DEF N
<1>7. ASSUME NEW k \in DOMAIN separated
      PROVE  /\ LinesOf(separated[k]) # {}
             /\ ToSet(separated[k].vertices) = VertsOf(LinesOf(separated[k]))
             /\ IsInjective(separated[k].vertices)
             /\ Resolves(separated[k])
  <2>1. LinesOf(separated[k]) # {}
    BY <1>1, <1>2 DEF Sep!EachConnected
  <2>2. /\ Sep!ToSet(separated[k].vertices) = Sep!VertsOf(Sep!Finished(k))
        /\ \A m, n \in DOMAIN separated[k].vertices :
              m < n => separated[k].vertices[m] < separated[k].vertices[n]
        /\ Sep!Resolves(separated[k])
    BY <1>1 DEF Sep!Listed
  <2>3. ToSet(separated[k].vertices) = VertsOf(LinesOf(separated[k]))
    BY <2>2, <1>2, SameToSet, SameEnds
  <2>4. IsInjective(separated[k].vertices)
    <3>1. PICK V \in {U \in SUBSET Nat : IsFiniteSet(U)}, E \in Seq(Vertex \X Vertex) :
             separated[k] = NewProjection(V, E)
      <4> DEFINE N == {NewProjection(V, E) : V \in {U \in SUBSET Nat : IsFiniteSet(U)},
                                             E \in Seq(Vertex \X Vertex)}
      <4>1. separated[k] \in N
        <5> HIDE DEF N
        <5>1. separated \in Seq(N)
          BY <1>6 DEF N
        <5> QED
          BY <5>1, <1>3, ElementOfSeq
      <4> QED
        BY <4>1
    <3>2. separated[k].vertices = AscendingList(V)
      BY <3>1 DEF NewProjection
    <3>3. AscendingList(V) \in Seq(V)
      BY Ascending
    <3>4. \A x \in DOMAIN separated[k].vertices : x \in Nat /\ separated[k].vertices[x] \in Nat
      <4> DEFINE L == AscendingList(V)
      <4> HIDE DEF L
      <4>1. L \in Seq(V) /\ V \subseteq Nat
        BY <3>3 DEF L
      <4>2. Len(L) \in Nat /\ DOMAIN L = 1 .. Len(L) /\ \A x \in 1 .. Len(L) : L[x] \in V
        BY <4>1, LenProperties, ElementOfSeq
      <4>3. \A x \in DOMAIN L : x \in Nat /\ L[x] \in Nat
        <5> DEFINE n == Len(L)
        <5>1. n \in Nat /\ DOMAIN L = 1 .. n /\ \A x \in 1 .. n : L[x] \in V
          BY <4>2
        <5> HIDE DEF n
        <5>2. \A x \in 1 .. n : x \in Nat
          BY <5>1
        <5> QED
          BY <5>1, <5>2, <4>1
      <4> QED
        BY <4>3, <3>2 DEF L
    <3>5. ASSUME NEW x \in DOMAIN separated[k].vertices, NEW y \in DOMAIN separated[k].vertices,
                 separated[k].vertices[x] = separated[k].vertices[y], x # y
          PROVE  FALSE
      <4>1. x < y \/ y < x
        BY <3>4, <3>5
      <4>2. \/ separated[k].vertices[x] < separated[k].vertices[y]
            \/ separated[k].vertices[y] < separated[k].vertices[x]
        BY <4>1, <2>2
      <4> QED
        BY <4>2, <3>4, <3>5
    <3> QED
      BY <3>5 DEF IsInjective
  <2> QED
    BY <2>1, <2>2, <2>3, <2>4, SameResolves
<1>8. \A k, m \in DOMAIN separated :
         k # m => VertsOf(LinesOf(separated[k])) \intersect VertsOf(LinesOf(separated[m])) = {}
  BY <1>1, <1>2, SameEnds DEF Sep!Apart
<1>9. ToSet(given) = UNION {LinesOf(separated[k]) : k \in DOMAIN separated}
  BY <1>1, <1>2, <1>5, SameToSet DEF Sep!EdgesKept
<1> QED
  BY <1>6, <1>7, <1>8, <1>9 DEF Separated

-----------------------------------------------------------------------------
\* A list whose elements are numbers in a set.
LEMMA IsAList ==
    ASSUME NEW S, NEW n \in Nat, NEW f \in [1 .. n -> S]
    PROVE  f \in Seq(S) /\ Len(f) = n
BY SeqDef, LenProperties

\* The projections that the separation hands over, boxed, are what pruning
\* starts from.
LEMMA HandedOver ==
    ASSUME Separated, AddBoxes,
           i = 1, j = 1, removed_any = FALSE, prune_pc = "outer"
    PROVE  Pr!IInv' /\ Pr!Lines(boxed') = ToSet(given)
<1> DEFINE n == Len(separated)
           B == boxed'
           N == {NewProjection(V, E) : V \in {U \in SUBSET Nat : IsFiniteSet(U)},
                                       E \in Seq(Vertex \X Vertex)}
           p(k) == separated[k]
<1>1. n \in Nat /\ DOMAIN separated = 1 .. n /\ \A k \in 1 .. n : p(k) \in N
  <2> HIDE DEF N
  <2>1. separated \in Seq(N)
    BY DEF Separated, N
  <2> QED
    BY <2>1, LenProperties, ElementOfSeq
<1>2. \A k \in 1 .. n :
         p(k) \in [vertices : Seq(Nat), edges : Seq(Nat \X Nat), cedges : Seq(Nat \X Nat)]
  <2> SUFFICES ASSUME NEW k \in 1 .. n
               PROVE  p(k) \in [vertices : Seq(Nat), edges : Seq(Nat \X Nat),
                                cedges : Seq(Nat \X Nat)]
    OBVIOUS
  <2>1. PICK V \in {U \in SUBSET Nat : IsFiniteSet(U)}, E \in Seq(Vertex \X Vertex) :
           p(k) = NewProjection(V, E)
    BY <1>1
  <2>2. E \in Seq(Nat \X Nat)
    <3>1. (Vertex \X Vertex) \subseteq (Nat \X Nat)
      BY VertexAssumption
    <3> QED
      BY <3>1, SeqMonotonic
  <2> QED
    BY <2>1, <2>2, MadeTyped
<1>3. /\ B = [k \in 1 .. n |-> WithBox(p(k), k)]
      /\ potential_projections' = B
      /\ area' \in [1 .. n -> Areas]
      /\ covers' \in SUBSET ((1 .. n) \X (1 .. n))
      /\ Pruning!Geometry(1 .. n, covers', area')
      /\ i' = 1 /\ j' = 1 /\ removed_any' = FALSE /\ prune_pc' = "outer"
  BY <1>1 DEF AddBoxes
<1> HIDE DEF n, B, N
<1>4. DOMAIN B = 1 .. n
  BY <1>3
<1>5. \A k \in 1 .. n : /\ B[k].vertices = p(k).vertices /\ B[k].edges = p(k).edges
                         /\ B[k].cedges = p(k).cedges /\ B[k].box = k
  BY <1>3 DEF WithBox
<1> DEFINE W == [vertices : Seq(Nat), edges : Seq(Nat \X Nat), cedges : Seq(Nat \X Nat),
                 box : 1 .. n]
<1>6. B \in Seq(W) /\ Len(B) = n
  <2>1. \A k \in 1 .. n : WithBox(p(k), k) \in W
    BY <1>2 DEF WithBox
  <2> HIDE DEF W
  <2>2. B \in [1 .. n -> W]
    BY <2>1, <1>3
  <2> QED
    BY <2>2, <1>1, IsAList
<1>b. B = boxed' /\ B = potential_projections'
  BY <1>3 DEF B
<1>7. Pr!Box' = 1 .. n /\ Pr!View' = W
  <2>1. Pr!Box' = 1 .. n
    BY <1>6, <1>b DEF Pr!Box
  <2> QED
    BY <2>1 DEF Pr!View
<1>8. Pr!TypeOK'
  <2>1. Pr!Geometry(Pr!Box, covers, area)'
    BY <1>3, <1>7 DEF Pr!Geometry, Pruning!Geometry
  <2>2. Len(boxed') = n /\ potential_projections' \in Seq(W)
    BY <1>6, <1>b
  <2>3. 1 \in 1 .. n + 1
    BY <1>1
  <2> HIDE DEF W
  <2> QED
    BY <2>1, <2>2, <2>3, <1>3, <1>7 DEF Pr!TypeOK
<1>9. Pr!Short'
  <2>1. Len(boxed') = n /\ Len(potential_projections') = n /\ boxed' \in Seq(W)
    BY <1>6, <1>b
  <2> HIDE DEF W
  <2> QED
    BY <2>1, <1>1, <1>3, <1>7 DEF Pr!Short
<1>s. /\ \A k \in DOMAIN separated :
            /\ LinesOf(p(k)) # {}
            /\ ToSet(p(k).vertices) = VertsOf(LinesOf(p(k)))
            /\ IsInjective(p(k).vertices) /\ Resolves(p(k))
      /\ \A k, m \in DOMAIN separated :
            k # m => VertsOf(LinesOf(p(k))) \intersect VertsOf(LinesOf(p(m))) = {}
  BY DEF Separated
<1>10. \A k \in 1 .. n : /\ LinesOf(p(k)) # {}
                          /\ ToSet(p(k).vertices) = VertsOf(LinesOf(p(k)))
                          /\ IsInjective(p(k).vertices) /\ Resolves(p(k))
  BY <1>1, <1>s
<1>11. \A k, m \in 1 .. n :
          k # m => ToSet(p(k).vertices) \intersect ToSet(p(m).vertices) = {}
  <2>1. \A k, m \in 1 .. n :
           k # m => VertsOf(LinesOf(p(k))) \intersect VertsOf(LinesOf(p(m))) = {}
    BY <1>1, <1>s
  <2> HIDE DEF p
  <2> QED
    BY <2>1, <1>10
<1>12. \A k \in 1 .. n : Pr!Shows(B[k]) = ToSet(p(k).vertices) /\ Pr!Shows(B[k]) # {}
  <2> TAKE k \in 1 .. n
  <2>1. Pr!Shows(B[k]) = ToSet(p(k).vertices)
    BY <1>5, SameToSet DEF Pr!Shows
  <2>2. VertsOf(LinesOf(p(k))) # {}
    BY <1>10 DEF VertsOf, Ends
  <2> QED
    BY <2>1, <2>2, <1>10
<1>13. Pr!Views'
  <2>1. ASSUME NEW k \in 1 .. n PROVE Pr!Sound(B[k])
    <3>1. Pr!Resolves(B[k])
      BY <1>5, <1>10 DEF Pr!Resolves, Resolves
    <3>2. Pr!ToSet(B[k].vertices) = Pr!VertsOf(Pr!ToSet(B[k].edges))
      BY <1>5, <1>10, SameToSet, SameEnds DEF LinesOf
    <3>3. Pr!IsInjective(B[k].vertices)
      BY <1>5, <1>10, SameResolves
    <3> QED
      BY <3>1, <3>2, <3>3 DEF Pr!Sound
  <2>2. \A k, m \in 1 .. n : k # m => Pr!Shows(B[k]) \intersect Pr!Shows(B[m]) = {}
    BY <1>11, <1>12
  <2>3. \A k \in DOMAIN potential_projections' : Pr!Sound(potential_projections'[k])
    BY <2>1, <1>4, <1>b
  <2>4. \A k, m \in DOMAIN potential_projections' : k # m =>
           Pr!Shows(potential_projections'[k]) \intersect Pr!Shows(potential_projections'[m]) = {}
    BY <2>2, <1>4, <1>b
  <2> QED
    BY <2>3, <2>4 DEF Pr!Views, Pr!Sound, Pr!Shows
<1>14. Pr!LinesKept'
  BY <1>b DEF Pr!LinesKept, Pr!Lines
<1>15. Pr!Boxed'
  <2>1. \A k \in 1 .. n : B[k].box = k /\ Pr!Shows(B[k]) # {}
    BY <1>5, <1>12
  <2>2. \A k \in 1 .. n : Pr!Shows(B[B[k].box]) \subseteq Pr!Shows(B[k])
    BY <2>1
  <2>3. Pr!Boxed' = /\ \A g \in DOMAIN B : B[g].box = g /\ Pr!Shows(B[g]) # {}
                    /\ \A k \in DOMAIN B : Pr!Shows(B[B[k].box]) \subseteq Pr!Shows(B[k])
                    /\ \A g \in DOMAIN B : \E k \in DOMAIN B : Pr!Shows(B[g]) \subseteq Pr!Shows(B[k])
    BY <1>b DEF Pr!Boxed, Pr!Shows
  <2> QED
    BY <2>1, <2>2, <2>3, <1>4
<1>16. Pr!TiedByBoxes'
  <2>1. ASSUME NEW k \in 1 .. n
        PROVE  {B[g].box : g \in {m \in 1 .. n : Pr!Shows(B[m]) \subseteq Pr!Shows(B[k])}} = {k}
    <3>1. \A m \in 1 .. n : Pr!Shows(B[m]) \subseteq Pr!Shows(B[k]) <=> m = k
      BY <1>11, <1>12
    <3> QED
      BY <3>1, <1>5
  <2> DEFINE In(k) == {B[g].box : g \in {m \in 1 .. n : Pr!Shows(B[m]) \subseteq Pr!Shows(B[k])}}
  <2>2. Pr!TiedByBoxes' = \A k \in 1 .. n : \A S \in SUBSET In(k) : S # {} /\ S # In(k) =>
                             \E b \in S, c \in In(k) \ S :
                                <<b, c>> \in covers' \/ <<c, b>> \in covers'
    <3> DEFINE Of(q) == {B[g].box : g \in {m \in DOMAIN B :
                              Pr!ToSet(B[m].vertices) \subseteq Pr!ToSet(q.vertices)}}
    <3>1. Pr!TiedByBoxes' = \A k \in DOMAIN potential_projections' :
             \A S \in SUBSET Of(potential_projections'[k]) :
                S # {} /\ S # Of(potential_projections'[k]) =>
                   \E b \in S, c \in Of(potential_projections'[k]) \ S :
                      <<b, c>> \in covers' \/ <<c, b>> \in covers'
      BY <1>b DEF Pr!TiedByBoxes, Pr!Members
    <3>2. \A k \in 1 .. n : Of(B[k]) = In(k)
      BY <1>4 DEF Pr!Shows
    <3> HIDE DEF Of, In
    <3> QED
      BY <3>1, <3>2, <1>4, <1>b
  <2>3. \A k \in 1 .. n : In(k) = {k}
    BY <2>1
  <2> HIDE DEF In
  <2> QED
    BY <2>2, <2>3
<1>17. Pr!Rounds'
  <2>1. \A m \in DOMAIN potential_projections' : ~ (m < 1)
    BY <1>1, <1>4, <1>b
  <2> QED
    BY <2>1, <1>3 DEF Pr!Rounds
<1>18. Pr!Lines(boxed') = ToSet(given)
  <2>1. Pr!Lines(boxed') = UNION {LinesOf(p(k)) : k \in 1 .. n}
    BY <1>4, <1>5, <1>b, SameToSet DEF Pr!Lines, LinesOf
  <2> QED
    BY <2>1, <1>1 DEF Separated
<1> QED
  BY <1>8, <1>9, <1>13, <1>14, <1>15, <1>16, <1>17, <1>18 DEF Pr!IInv

-----------------------------------------------------------------------------
\* The variables of pruning before it starts.
Ready ==
    /\ boxed = << >> /\ potential_projections = << >> /\ covers = {} /\ area = << >>
    /\ i = 1 /\ j = 1 /\ removed_any = FALSE /\ prune_pc = "outer"

\* Pruning works on the projections of the whole drawing.
OnDrawing == Pr!IInv /\ Pr!Lines(boxed) = ToSet(given)

\* The inductive invariant.
IInv ==
    /\ Sep!IInv
    /\ NothingPending
    /\ asserts \in BOOLEAN
    /\ stage \in {"separate", "prune", "assign", "returned", "aborted", "undefined"}
    /\ stage = "separate" => Ready
    /\ stage # "separate" => OnDrawing
    /\ stage = "prune" => prune_pc # "undefined"
    /\ Assigned => prune_pc = "done"
    /\ stage = "undefined" => ~ Pr!Nested \/ (prune_pc = "done" /\ Size < 2)

-----------------------------------------------------------------------------
LEMMA InitInv == Init => IInv
<1> SUFFICES ASSUME Init PROVE IInv
  OBVIOUS
<1>1. Sep!IInv
  BY SameSeparation, Sep!InitInv, InputsAssumption, VertexAssumption DEF Init
<1>2. separation_pc = "outer" /\ stage = "separate" /\ asserts \in BOOLEAN
  BY DEF Init, Separation!Init
<1>3. Ready
  BY DEF Init, Ready, Pruning!InitLoop
<1> QED
  BY <1>1, <1>2, <1>3 DEF IInv, NothingPending, Assigned

\* While the variables of the separation are not touched.
LEMMA SeparationStays ==
    IInv /\ UNCHANGED separation_vars => Sep!IInv' /\ NothingPending' /\ given' = given
<1> SUFFICES ASSUME IInv, UNCHANGED separation_vars
             PROVE  Sep!IInv' /\ NothingPending' /\ given' = given
  OBVIOUS
<1>1. UNCHANGED <<given, edges, next_projection, c_edges, separated, separation_pc>>
  BY DEF separation_vars
<1>2. UNCHANGED Sep!vars
  BY <1>1 DEF Sep!vars
<1>3. Sep!IInv'
  BY <1>2, Sep!NextInv, InputsAssumption, VertexAssumption DEF IInv
<1> QED
  BY <1>1, <1>3 DEF IInv, NothingPending

\* While those of pruning are not.
LEMMA PruningStays ==
    ASSUME IInv, stage # "separate", UNCHANGED separation_vars, UNCHANGED prune_vars
    PROVE  /\ OnDrawing'
           /\ prune_pc' = prune_pc /\ potential_projections' = potential_projections
           /\ Size' = Size /\ Pr!Nested' = Pr!Nested
<1>1. /\ UNCHANGED <<boxed, covers, area, potential_projections>>
      /\ UNCHANGED <<i, j, center, removed_any, prune_pc>>
      /\ given' = given
  BY DEF prune_vars, separation_vars
<1>2. UNCHANGED Pr!vars
  BY <1>1 DEF Pr!vars, Pr!geometry
<1>3. Pr!IInv'
  BY <1>2, Pr!StepsKeep DEF IInv, OnDrawing
<1>4. (Pr!Lines(boxed) = ToSet(given))'
  BY <1>1 DEF IInv, OnDrawing, Pr!Lines
<1> QED
  BY <1>1, <1>3, <1>4 DEF OnDrawing, Size, Pr!Nested, Pr!Box

LEMMA SeparateInv == IInv /\ Separate => IInv'
<1> SUFFICES ASSUME IInv, Separate PROVE IInv'
  OBVIOUS
<1>1. Sep!IInv'
  BY SameSeparation, Sep!NextInv, InputsAssumption, VertexAssumption DEF IInv, Separate
<1>2. NothingPending'
  BY DEF Separate, Separation!Next, Separation!Start, Separation!Grow, Separation!Close,
     Separation!Finish, NothingPending
<1>3. stage = "separate" /\ stage' = "separate" /\ asserts' = asserts /\ Ready'
  BY DEF Separate, prune_vars, Ready, IInv
<1> QED
  BY <1>1, <1>2, <1>3 DEF IInv, Assigned

LEMMA AddBoxesInv == IInv /\ AddBoxes => IInv'
<1> SUFFICES ASSUME IInv, AddBoxes PROVE IInv'
  OBVIOUS
<1>1. /\ stage = "separate" /\ separation_pc = "done" /\ stage' = "prune"
      /\ UNCHANGED separation_vars /\ asserts' = asserts /\ prune_pc' = prune_pc
  BY DEF AddBoxes
<1>2. Ready /\ Sep!IInv /\ NothingPending
  BY <1>1 DEF IInv
<1>3. Separated
  BY <1>1, <1>2, SeparationLeaves
<1>4. Pr!IInv' /\ Pr!Lines(boxed') = ToSet(given)
  BY <1>2, <1>3, HandedOver DEF Ready
<1>5. OnDrawing'
  BY <1>1, <1>4, SeparationStays DEF OnDrawing, Pr!Lines
<1> QED
  BY <1>1, <1>2, <1>5, SeparationStays DEF IInv, Ready, Assigned

LEMMA PruneStepInv == IInv /\ PruneStep => IInv'
<1> SUFFICES ASSUME IInv, PruneStep PROVE IInv'
  OBVIOUS
<1>1. /\ stage = "prune" /\ Pruning!Next /\ UNCHANGED separation_vars /\ asserts' = asserts
      /\ stage' = IF prune_pc' = "undefined" THEN "undefined" ELSE stage
  BY DEF PruneStep
<1>2. Pr!IInv'
  BY <1>1, SamePruning, Pr!StepsKeep DEF IInv, OnDrawing
<1>3. boxed' = boxed
  BY <1>1 DEF Pruning!Next, Pruning!EnterRound, Pruning!PassBy, Pruning!GiveUp, Pruning!TakeOver,
     Pruning!ReadPastEnd, Pruning!LeaveRound, Pruning!Finish, Pruning!geometry
<1>4. OnDrawing'
  BY <1>1, <1>2, <1>3, SeparationStays DEF IInv, OnDrawing, Pr!Lines
<1>5. prune_pc' = "undefined" => ~ Pr!Nested'
  BY <1>2 DEF Pr!IInv, Pr!Rounds
<1> QED
  BY <1>1, <1>4, <1>5, SeparationStays DEF IInv, Assigned

LEMMA CalculateDirectionsInv == IInv /\ CalculateDirections => IInv'
<1> SUFFICES ASSUME IInv, CalculateDirections PROVE IInv'
  OBVIOUS
<1>1. /\ stage = "prune" /\ prune_pc = "done" /\ stage' = "assign" /\ asserts' = asserts
      /\ UNCHANGED separation_vars /\ UNCHANGED prune_vars
  BY DEF CalculateDirections
<1>2. /\ OnDrawing' /\ prune_pc' = prune_pc /\ potential_projections' = potential_projections
      /\ Size' = Size
  BY <1>1, PruningStays
<1> QED
  BY <1>1, <1>2, SeparationStays DEF IInv, Assigned

LEMMA ReadMissingInv == IInv /\ ReadMissing => IInv'
<1> SUFFICES ASSUME IInv, ReadMissing PROVE IInv'
  OBVIOUS
<1>1. /\ stage = "assign" /\ Size < 2 /\ stage' = "undefined" /\ asserts' = asserts
      /\ UNCHANGED separation_vars /\ UNCHANGED prune_vars
  BY DEF ReadMissing
<1>2. OnDrawing' /\ prune_pc' = prune_pc /\ Size' = Size
  BY <1>1, PruningStays
<1> QED
  BY <1>1, <1>2, SeparationStays DEF IInv, Assigned

LEMMA AssertTwoInv == IInv /\ AssertTwo => IInv'
<1> SUFFICES ASSUME IInv, AssertTwo PROVE IInv'
  OBVIOUS
<1>1. /\ stage = "assign" /\ stage' = "aborted" /\ asserts' = asserts
      /\ UNCHANGED separation_vars /\ UNCHANGED prune_vars
  BY DEF AssertTwo
<1>2. /\ OnDrawing' /\ prune_pc' = prune_pc /\ Size' = Size
      /\ potential_projections' = potential_projections
  BY <1>1, PruningStays
<1> QED
  BY <1>1, <1>2, SeparationStays DEF IInv, Assigned

LEMMA AssignSystemsInv == IInv /\ AssignSystems => IInv'
<1> SUFFICES ASSUME IInv, AssignSystems PROVE IInv'
  OBVIOUS
<1>1. /\ stage = "assign" /\ stage' = "returned" /\ asserts' = asserts
      /\ UNCHANGED separation_vars /\ UNCHANGED prune_vars
  BY DEF AssignSystems
<1>2. /\ OnDrawing' /\ prune_pc' = prune_pc /\ Size' = Size
      /\ potential_projections' = potential_projections
  BY <1>1, PruningStays
<1> QED
  BY <1>1, <1>2, SeparationStays DEF IInv, Assigned

LEMMA NextInv == IInv /\ [Next]_vars => IInv'
<1> SUFFICES ASSUME IInv, [Next]_vars PROVE IInv'
  OBVIOUS
<1>1. CASE UNCHANGED vars
  <2>1. /\ UNCHANGED separation_vars /\ UNCHANGED prune_vars
        /\ UNCHANGED <<asserts, directions, systems, stage>>
    BY <1>1 DEF vars
  <2>2. CASE stage = "separate"
    BY <2>1, <2>2, SeparationStays DEF IInv, Ready, prune_vars, Assigned
  <2>3. CASE stage # "separate"
    <3>1. /\ OnDrawing' /\ prune_pc' = prune_pc /\ Size' = Size /\ Pr!Nested' = Pr!Nested
          /\ potential_projections' = potential_projections
      BY <2>1, <2>3, PruningStays
    <3> QED
      BY <2>1, <2>3, <3>1, SeparationStays DEF IInv, Assigned
  <2> QED
    BY <2>2, <2>3
<1> QED
  BY <1>1, SeparateInv, AddBoxesInv, PruneStepInv, CalculateDirectionsInv, ReadMissingInv,
     AssertTwoInv, AssignSystemsInv DEF Next

-----------------------------------------------------------------------------
LEMMA TypesHold == IInv => TypeOK
<1> SUFFICES ASSUME IInv PROVE TypeOK
  OBVIOUS
<1>1. Separation!TypeOK
  BY SameSeparation DEF IInv, Sep!IInv
<1>2. Pr!TypeOK
  <2>1. CASE stage = "separate"
    <3>1. Ready
      BY <2>1 DEF IInv
    <3>2. Len(boxed) = 0 /\ Pr!Box = {}
      BY <3>1, EmptySeq DEF Ready, Pr!Box
    <3>3. Pr!Geometry({}, {}, << >>)
      BY DEF Pr!Geometry
    <3>4. potential_projections \in Seq(Pr!View)
      BY <3>1, EmptySeq DEF Ready
    <3>5. Pr!Geometry(Pr!Box, covers, area)
      BY <3>1, <3>2, <3>3 DEF Ready
    <3>6. i \in 1 .. Len(boxed) + 1 /\ j \in 1 .. Len(boxed) + 1
      BY <3>1, <3>2 DEF Ready
    <3> QED
      BY <3>1, <3>4, <3>5, <3>6 DEF Ready, Pr!TypeOK
  <2>2. CASE stage # "separate"
    BY <2>2 DEF IInv, OnDrawing, Pr!IInv
  <2> QED
    BY <2>1, <2>2
<1> QED
  BY <1>1, <1>2, SamePruning DEF IInv, TypeOK

\* Through all the stages, whatever the boxes, every line of the drawing is in
\* one and only one of the projections that get a coordinate system.
LEMMA LinesHold == IInv => LinesSurvive
<1> SUFFICES ASSUME IInv, Assigned
             PROVE  /\ ToSet(given) = UNION {LinesOf(p) : p \in ToSet(potential_projections)}
                    /\ \A k, m \in 1 .. Size : k # m =>
                          VertsOf(LinesOf(potential_projections[k]))
                            \intersect VertsOf(LinesOf(potential_projections[m])) = {}
                    /\ \A k \in 1 .. Size :
                          /\ Resolves(potential_projections[k])
                          /\ IsInjective(potential_projections[k].vertices)
                          /\ ToSet(potential_projections[k].vertices)
                                = VertsOf(LinesOf(potential_projections[k]))
  BY TypesHold DEF LinesSurvive
<1> DEFINE P == potential_projections
<1>1. stage # "separate" /\ OnDrawing
  BY DEF IInv, Assigned
<1>2. DOMAIN P = 1 .. Size
  BY <1>1, LenProperties DEF OnDrawing, Pr!IInv, Pr!TypeOK, Size
<1>3. /\ \A k \in DOMAIN P : Pr!Sound(P[k])
      /\ \A k, m \in DOMAIN P : k # m => Pr!Shows(P[k]) \intersect Pr!Shows(P[m]) = {}
  BY <1>1 DEF OnDrawing, Pr!IInv, Pr!Views
<1>4. \A k \in DOMAIN P : /\ Resolves(P[k]) /\ IsInjective(P[k].vertices)
                          /\ ToSet(P[k].vertices) = VertsOf(LinesOf(P[k]))
                          /\ Pr!Shows(P[k]) = VertsOf(LinesOf(P[k]))
  BY <1>3, SameResolves, SameToSet, SameEnds DEF Pr!Sound, Pr!Shows, LinesOf
<1>5. ToSet(given) = UNION {LinesOf(p) : p \in ToSet(P)}
  <2>1. Pr!Lines(P) = ToSet(given)
    BY <1>1 DEF OnDrawing, Pr!IInv, Pr!LinesKept
  <2>2. Pr!Lines(P) = UNION {LinesOf(P[k]) : k \in DOMAIN P}
    BY SameToSet DEF Pr!Lines, LinesOf
  <2>3. ToSet(P) = {P[k] : k \in DOMAIN P}
    BY DEF ToSet
  <2> HIDE DEF P
  <2> QED
    BY <2>1, <2>2, <2>3
<1> QED
  BY <1>2, <1>3, <1>4, <1>5

LEMMA ReasonHolds == IInv => MergedForAReason
<1> SUFFICES ASSUME IInv, Pr!Nested PROVE Pr!TiedByBoxes
  BY SamePruning DEF MergedForAReason
<1>1. CASE stage = "separate"
  BY <1>1 DEF IInv, Ready, Pr!TiedByBoxes
<1>2. CASE stage # "separate"
  BY <1>2 DEF IInv, OnDrawing, Pr!IInv
<1> QED
  BY <1>1, <1>2

LEMMA PrunedHolds == IInv => Pruned
<1> SUFFICES ASSUME IInv, Pr!Nested, stage \in {"assign", "returned"}
             PROVE  Pr!NothingToMerge
  BY SamePruning DEF Pruned
<1> QED
  BY Pr!NothingLeft DEF IInv, OnDrawing, Assigned

LEMMA DefinedHolds == IInv => DefinedForTwoViews
BY SamePruning DEF IInv, DefinedForTwoViews

-----------------------------------------------------------------------------
LEMMA InvariantHolds == Spec => []IInv
<1>1. Init => IInv
  BY InitInv
<1>2. IInv /\ [Next]_vars => IInv'
  BY NextInv
<1> QED
  BY <1>1, <1>2, PTL DEF Spec

\* Whatever the drawing and the boxes, and through all the stages, the
\* interpretation loses and invents no line and mixes up no two projections.
THEOREM NoLineLost == Spec => []LinesSurvive
<1>1. IInv => LinesSurvive
  BY LinesHold
<1> QED
  BY <1>1, InvariantHolds, PTL

\* When no two boxes cross, a projection is only merged into another one that a
\* box ties it to, in any order the erasing loops meet them.
THEOREM MergesHaveReasons == Spec => []MergedForAReason
<1>1. IInv => MergedForAReason
  BY ReasonHolds
<1> QED
  BY <1>1, InvariantHolds, PTL

\* When no two boxes cross, pruning ends with nothing left to merge.
THEOREM PrunesAll == Spec => []Pruned
<1>1. IInv => Pruned
  BY PrunedHolds
<1> QED
  BY <1>1, InvariantHolds, PTL

\* Nothing is read out of bounds while no boxes cross and two views are left.
THEOREM StaysInBounds == Spec => []DefinedForTwoViews
<1>1. IInv => DefinedForTwoViews
  BY DefinedHolds
<1> QED
  BY <1>1, InvariantHolds, PTL
=============================================================================
