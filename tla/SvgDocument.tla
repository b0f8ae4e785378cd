---------------------------- MODULE SvgDocument ----------------------------
(***************************************************************************)
(* svg::document: points, found by their location, and edges.  Each point  *)
(* has the list of the edges that leave it; an edge is stored as it was    *)
(* added, at its first point, and reverted at the other one.               *)
(*                                                                         *)
(* An edge in the list of a point is written as the location of its other  *)
(* end.  Of the two coordinates of a location, which are computed alike    *)
(* and independently, one is kept.                                         *)
(***************************************************************************)
EXTENDS Integers, Sequences, FiniteSets, SequencesExt

VARIABLE doc  \* the document that is read, and then traced

Location == Int

EmptyDocument == [points |-> [l \in {} |-> << >>], edges |-> << >>]

\* Slip: a point that is there already is replaced.
AddPointOver(d, l) ==
    [d EXCEPT !.points = [p \in DOMAIN @ \union {l} |-> IF p = l THEN << >> ELSE @[p]]]

\* add_point: insert leaves a point that is there already as it is.
AddPoint(d, l) ==
    [d EXCEPT !.points =
        [p \in DOMAIN @ \union {l} |-> IF p \in DOMAIN @ THEN @[p] ELSE << >>]]

\* add_segment: the points are made if they are not there; both get the edge.
AddSegment(d, l1, l2) ==
    LET with == AddPoint(AddPoint(d, l1), l2)
        from == [with EXCEPT !.edges = Append(@, <<l1, l2>>), !.points[l1] = Append(@, l2)]
    IN  [from EXCEPT !.points[l2] = Append(@, l1)]

-----------------------------------------------------------------------------
Count(list, P(_)) == Cardinality({k \in DOMAIN list : P(list[k])})

\* The edges at the points are the edges of the document: each is there once in
\* each direction, and no other is.
EdgesAtPoints(d) ==
    /\ \A k \in DOMAIN d.edges : ToSet(d.edges[k]) \subseteq DOMAIN d.points
    /\ \A p \in DOMAIN d.points : ToSet(d.points[p]) \subseteq DOMAIN d.points
    /\ \A p, q \in DOMAIN d.points :
          Count(d.points[p], LAMBDA o : o = q) =
              Count(d.edges, LAMBDA e : e = <<p, q>>)
              + Count(d.edges, LAMBDA e : e = <<q, p>>)
=============================================================================
