-------------------------- MODULE CenterlinesProofs --------------------------
(***************************************************************************)
(* Proofs about the reader of files and the tracer of center lines, for    *)
(* any files, distances and results of the grouping.                       *)
(***************************************************************************)
EXTENDS Centerlines, ListLemmas

\* How often v is in a list.
Times(list, v) == Cardinality({k \in DOMAIN list : list[k] = v})

Segment == Location \X Location

\* Documents whose edges are at their points.
Document ==
    [points : UNION {[S -> Seq(Location)] : S \in SUBSET Location},
     edges : Seq(Segment)]
Sound == {d \in Document : IsFiniteSet(DOMAIN d.points) /\ EdgesAtPoints(d)}

\* push_back makes one more of what is pushed.
LEMMA OneMore ==
    ASSUME NEW S, NEW s \in Seq(S), NEW e \in S, NEW v
    PROVE  /\ Times(s, v) \in Nat
           /\ Times(Append(s, e), v) = Times(s, v) + (IF e = v THEN 1 ELSE 0)
<1> DEFINE K == {k \in DOMAIN s : s[k] = v}
           L == {k \in DOMAIN Append(s, e) : Append(s, e)[k] = v}
           m == Len(s)
<1>1. m \in Nat /\ DOMAIN s = 1 .. m /\ DOMAIN Append(s, e) = 1 .. m + 1
  BY AppendProperties, LenProperties
<1>2. /\ \A k \in 1 .. m : Append(s, e)[k] = s[k]
      /\ Append(s, e)[m + 1] = e
  BY AppendProperties
<1>3. IsFiniteSet(K) /\ Cardinality(K) \in Nat
  <2>1. IsFiniteSet(1 .. m) /\ K \in SUBSET (1 .. m)
    BY <1>1, FS_Interval
  <2> QED
    BY <2>1, FS_Subset, FS_CardinalityType
<1>4. CASE e = v
  <2>1. L = K \union {m + 1} /\ m + 1 \notin K
    BY <1>1, <1>2, <1>4
  <2>2. Cardinality(L) = Cardinality(K) + 1
    BY <2>1, <1>3, FS_AddElement
  <2> QED
    BY <2>2, <1>3, <1>4 DEF Times
<1>5. CASE e # v
  <2>1. L = K
    BY <1>1, <1>2, <1>5
  <2>2. Times(Append(s, e), v) = Times(s, v)
    BY <2>1, Zenon DEF Times
  <2>3. Times(s, v) \in Nat
    BY <1>3 DEF Times
  <2> QED
    BY <2>2, <2>3, <1>5
<1> QED
  BY <1>4, <1>5

LEMMA OneMoreEdge ==
    ASSUME NEW s \in Seq(Segment), NEW l1 \in Location, NEW l2 \in Location,
           NEW p, NEW q
    PROVE  /\ Times(s, <<p, q>>) \in Nat
           /\ p = l1 /\ q = l2 =>
                 Times(Append(s, <<l1, l2>>), <<p, q>>) = Times(s, <<p, q>>) + 1
           /\ ~ (p = l1 /\ q = l2) =>
                 Times(Append(s, <<l1, l2>>), <<p, q>>) = Times(s, <<p, q>>)
<1> DEFINE e == <<l1, l2>>
           v == <<p, q>>
<1>1. e \in Segment /\ (e = v <=> p = l1 /\ q = l2)
  BY DEF Segment
<1> HIDE DEF e, v
<1>2. /\ Times(s, v) \in Nat
      /\ Times(Append(s, e), v) = Times(s, v) + (IF e = v THEN 1 ELSE 0)
  BY <1>1, OneMore
<1>3. /\ Times(s, v) \in Nat
      /\ p = l1 /\ q = l2 => Times(Append(s, e), v) = Times(s, v) + 1
      /\ ~ (p = l1 /\ q = l2) => Times(Append(s, e), v) = Times(s, v)
  BY <1>1, <1>2
<1> QED
  BY <1>3 DEF e, v

LEMMA NeverIn == ASSUME NEW list, NEW v, \A k \in DOMAIN list : list[k] # v
                 PROVE  Times(list, v) = 0
<1>1. {k \in DOMAIN list : list[k] = v} = {}
  OBVIOUS
<1> QED
  BY <1>1, FS_EmptySet DEF Times

\* EdgesAtPoints, in terms of Times.
LEMMA AtPoints ==
    ASSUME NEW d
    PROVE  EdgesAtPoints(d) <=>
              /\ \A k \in DOMAIN d.edges : ToSet(d.edges[k]) \subseteq DOMAIN d.points
              /\ \A p \in DOMAIN d.points : ToSet(d.points[p]) \subseteq DOMAIN d.points
              /\ \A p, q \in DOMAIN d.points :
                    Times(d.points[p], q) = Times(d.edges, <<p, q>>) + Times(d.edges, <<q, p>>)
BY DEF EdgesAtPoints, Count, Times

\* The two ends of an edge.
LEMMA EndsOfEdge ==
    ASSUME NEW e \in Segment PROVE ToSet(e) = {e[1], e[2]}
<1>1. e = <<e[1], e[2]>> /\ DOMAIN e = {1, 2}
  BY DEF Segment
<1> QED
  BY <1>1 DEF ToSet

\* add_point keeps a document sound: a new point has no edges, and an old one
\* keeps those it has.
LEMMA PointAdded ==
    ASSUME NEW d \in Sound, NEW l \in Location
    PROVE  /\ AddPoint(d, l) \in Sound
           /\ DOMAIN AddPoint(d, l).points = DOMAIN d.points \union {l}
           /\ AddPoint(d, l).edges = d.edges
<1> DEFINE P == DOMAIN d.points
           points == [p \in P \union {l} |-> IF p \in P THEN d.points[p] ELSE << >>]
           f == [points |-> points, edges |-> d.edges]
<1>1. /\ d = [points |-> d.points, edges |-> d.edges]
      /\ P \subseteq Location /\ d.points \in [P -> Seq(Location)]
      /\ d.edges \in Seq(Segment)
      /\ IsFiniteSet(P) /\ EdgesAtPoints(d)
  BY DEF Sound, Document
<1>2. AddPoint(d, l) = f
  BY <1>1 DEF AddPoint
<1>3. << >> \in Seq(Location)
  BY EmptySeq
<1>4. points \in [P \union {l} -> Seq(Location)]
  BY <1>1, <1>3
<1>5. IsFiniteSet(P \union {l})
  BY <1>1, FS_AddElement
<1>6. \A k \in DOMAIN d.edges : ToSet(d.edges[k]) = {d.edges[k][1], d.edges[k][2]}
                                /\ d.edges[k] = <<d.edges[k][1], d.edges[k][2]>>
  <2>1. \A k \in DOMAIN d.edges : d.edges[k] \in Segment
    BY <1>1, ElementOfSeq, LenProperties
  <2> QED
    BY <2>1, EndsOfEdge DEF Segment
<1>7. \A k \in DOMAIN d.edges : d.edges[k][1] \in P /\ d.edges[k][2] \in P
  BY <1>1, <1>6, AtPoints
<1>8. ASSUME NEW p \in P \union {l}, NEW q \in P \union {l}
      PROVE  Times(points[p], q) = Times(d.edges, <<p, q>>) + Times(d.edges, <<q, p>>)
  <2>1. CASE p \in P /\ q \in P
    BY <2>1, <1>1, AtPoints
  <2>2. CASE p \notin P \/ q \notin P
    <3>1. Times(d.edges, <<p, q>>) = 0 /\ Times(d.edges, <<q, p>>) = 0
      BY <2>2, <1>6, <1>7, NeverIn
    <3>2. Times(points[p], q) = 0
      <4>1. CASE p \in P
        <5>1. \A k \in DOMAIN d.points[p] : d.points[p][k] # q
          BY <2>2, <4>1, <1>1, AtPoints DEF ToSet
        <5> QED
          BY <5>1, <4>1, NeverIn
      <4>2. CASE p \notin P
        BY <4>2, NeverIn
      <4> QED
        BY <4>1, <4>2
    <3> QED
      BY <3>1, <3>2
  <2> QED
    BY <2>1, <2>2
<1>9. \A p \in P \union {l} : ToSet(points[p]) \subseteq P \union {l}
  <2>1. ToSet(<< >>) = {}
    BY DEF ToSet
  <2> QED
    BY <2>1, <1>1, AtPoints
<1>10. f \in Document
  BY <1>1, <1>4 DEF Document
<1> HIDE DEF points
<1>11. EdgesAtPoints(f)
  <2>1. f.edges = d.edges /\ f.points = points /\ DOMAIN points = P \union {l}
    BY <1>4
  <2>2. \A k \in DOMAIN d.edges : ToSet(d.edges[k]) \subseteq P \union {l}
    BY <1>1, AtPoints
  <2> HIDE DEF f
  <2> QED
    BY <2>1, <2>2, <1>8, <1>9, AtPoints
<1> QED
  BY <1>2, <1>4, <1>5, <1>10, <1>11 DEF Sound

\* What a list of points becomes: the edge is pushed at each of its ends.
LEMMA EdgeAtEnds ==
    ASSUME NEW d \in Sound, NEW l1 \in DOMAIN d.points, NEW l2 \in DOMAIN d.points
    PROVE  [points |-> [[d.points EXCEPT ![l1] = Append(@, l2)] EXCEPT ![l2] = Append(@, l1)],
            edges |-> Append(d.edges, <<l1, l2>>)] \in Sound
<1> DEFINE P == DOMAIN d.points
           pts == [[d.points EXCEPT ![l1] = Append(@, l2)] EXCEPT ![l2] = Append(@, l1)]
           edges == Append(d.edges, <<l1, l2>>)
           f == [points |-> pts, edges |-> edges]
           One(b) == IF b THEN 1 ELSE 0
<1>1. /\ P \subseteq Location /\ d.points \in [P -> Seq(Location)]
      /\ d.edges \in Seq(Segment)
      /\ IsFiniteSet(P) /\ EdgesAtPoints(d)
  BY DEF Sound, Document
<1>2. l1 \in Location /\ l2 \in Location /\ <<l1, l2>> \in Segment
  BY <1>1 DEF Segment
<1> DEFINE first == [d.points EXCEPT ![l1] = Append(@, l2)]
<1>3. first \in [P -> Seq(Location)]
  <2>1. Append(d.points[l1], l2) \in Seq(Location)
    BY <1>1, <1>2, AppendProperties
  <2> QED
    BY <2>1, <1>1
<1>4. \A p \in P : first[p] = IF p = l1 THEN Append(d.points[p], l2) ELSE d.points[p]
  BY <1>1
<1> HIDE DEF first, pts, edges
<1>5. pts \in [P -> Seq(Location)]
  <2>1. Append(first[l2], l1) \in Seq(Location)
    BY <1>2, <1>3, AppendProperties
  <2> QED
    BY <2>1, <1>3 DEF first, pts
<1>6. \A p \in P : pts[p] = IF p = l2 THEN Append(first[p], l1) ELSE first[p]
  BY <1>3 DEF first, pts
<1>7. edges \in Seq(Segment)
  BY <1>1, <1>2, AppendProperties DEF edges
<1>8. ASSUME NEW p \in P
      PROVE  /\ ToSet(d.points[p]) \subseteq P /\ ToSet(pts[p]) \subseteq P
             /\ \A q \in P : /\ Times(d.points[p], q) \in Nat
                             /\ Times(pts[p], q) = Times(d.points[p], q)
                                   + One(p = l1 /\ q = l2) + One(p = l2 /\ q = l1)
  <2>1. d.points[p] \in Seq(Location) /\ first[p] \in Seq(Location)
    BY <1>1, <1>3
  <2>2. ToSet(d.points[p]) \subseteq P
    BY <1>1, AtPoints
  <2>3. ToSet(first[p]) \subseteq P
    BY <2>1, <2>2, <1>2, <1>4, Grown
  <2>4. ToSet(pts[p]) \subseteq P
    <3>1. ToSet(Append(first[p], l1)) = ToSet(first[p]) \union {l1}
      BY <2>1, <1>2, Grown
    <3> QED
      BY <3>1, <2>3, <1>6
  <2>5. ASSUME NEW q \in P
        PROVE  /\ Times(d.points[p], q) \in Nat
               /\ Times(first[p], q) = Times(d.points[p], q) + One(p = l1 /\ q = l2)
    BY <2>1, <1>2, <1>4, OneMore
  <2>6. ASSUME NEW q \in P
        PROVE  Times(pts[p], q) = Times(first[p], q) + One(p = l2 /\ q = l1)
    <3>1. Times(Append(first[p], l1), q) = Times(first[p], q) + (IF l1 = q THEN 1 ELSE 0)
      BY <2>1, <1>2, OneMore
    <3>2. Times(first[p], q) \in Nat
      BY <2>1, <1>2, OneMore
    <3>3. CASE p = l2
      BY <3>1, <3>2, <3>3, <1>6
    <3>4. CASE p # l2
      <4>1. pts[p] = first[p]
        BY <3>4, <1>6
      <4> QED
        BY <4>1, <3>2, <3>4
    <3> QED
      BY <3>3, <3>4
  <2> HIDE DEF P
  <2> QED
    BY <2>2, <2>4, <2>5, <2>6
<1>9. ASSUME NEW p \in P, NEW q \in P
      PROVE  /\ Times(d.edges, <<p, q>>) \in Nat
             /\ Times(edges, <<p, q>>) = Times(d.edges, <<p, q>>) + One(p = l1 /\ q = l2)
  <2>1. /\ Times(d.edges, <<p, q>>) \in Nat
        /\ p = l1 /\ q = l2 => Times(edges, <<p, q>>) = Times(d.edges, <<p, q>>) + 1
        /\ ~ (p = l1 /\ q = l2) => Times(edges, <<p, q>>) = Times(d.edges, <<p, q>>)
    BY <1>1, <1>2, OneMoreEdge DEF edges
  <2>2. CASE p = l1 /\ q = l2
    BY <2>1, <2>2
  <2>3. CASE ~ (p = l1 /\ q = l2)
    BY <2>1, <2>3
  <2> QED
    BY <2>2, <2>3
<1>10. \A p, q \in P : Times(pts[p], q) = Times(edges, <<p, q>>) + Times(edges, <<q, p>>)
  <2>1. \A p, q \in P :
           Times(d.points[p], q) = Times(d.edges, <<p, q>>) + Times(d.edges, <<q, p>>)
    BY <1>1, AtPoints
  <2>2. SUFFICES ASSUME NEW p \in P, NEW q \in P
                 PROVE  Times(pts[p], q) = Times(edges, <<p, q>>) + Times(edges, <<q, p>>)
    OBVIOUS
  <2>3. Times(pts[p], q) = Times(d.points[p], q)
                              + One(p = l1 /\ q = l2) + One(p = l2 /\ q = l1)
    BY <1>8
  <2>4. /\ Times(d.edges, <<p, q>>) \in Nat /\ Times(d.edges, <<q, p>>) \in Nat
        /\ Times(edges, <<p, q>>) = Times(d.edges, <<p, q>>) + One(p = l1 /\ q = l2)
        /\ Times(edges, <<q, p>>) = Times(d.edges, <<q, p>>) + One(q = l1 /\ p = l2)
    BY <1>9
  <2>5. Times(d.points[p], q) = Times(d.edges, <<p, q>>) + Times(d.edges, <<q, p>>)
    BY <2>1
  <2>6. One(q = l1 /\ p = l2) = One(p = l2 /\ q = l1)
    OBVIOUS
  <2>7. One(p = l1 /\ q = l2) \in Nat /\ One(p = l2 /\ q = l1) \in Nat
    OBVIOUS
  <2> HIDE DEF One
  <2> QED
    BY <2>3, <2>4, <2>5, <2>6, <2>7
<1>11. \A k \in DOMAIN edges : ToSet(edges[k]) \subseteq P
  <2>1. /\ DOMAIN edges = 1 .. Len(d.edges) + 1 /\ edges[Len(d.edges) + 1] = <<l1, l2>>
        /\ \A k \in 1 .. Len(d.edges) : edges[k] = d.edges[k]
        /\ DOMAIN d.edges = 1 .. Len(d.edges) /\ Len(d.edges) \in Nat
    BY <1>1, <1>2, <1>7, AppendProperties, LenProperties DEF edges
  <2>2. \A k \in DOMAIN d.edges : ToSet(d.edges[k]) \subseteq P
    BY <1>1, AtPoints
  <2>3. ToSet(<<l1, l2>>) \subseteq P
    BY <1>2, EndsOfEdge
  <2>4. \A k \in DOMAIN edges : k \in DOMAIN d.edges \/ k = Len(d.edges) + 1
    BY <2>1
  <2> HIDE DEF P
  <2> QED
    BY <2>1, <2>2, <2>3, <2>4
<1>12. f \in Document
  BY <1>1, <1>5, <1>7 DEF Document
<1>13. f.points = pts /\ f.edges = edges /\ DOMAIN pts = P
  BY <1>5
<1> HIDE DEF f
<1>14. EdgesAtPoints(f)
  BY <1>8, <1>10, <1>11, <1>13, AtPoints
<1>15. f \in Sound
  BY <1>1, <1>12, <1>13, <1>14 DEF Sound
<1> QED
  BY <1>15 DEF f, pts, edges

\* add_segment keeps a document sound, and adds this edge.
LEMMA SegmentAdded ==
    ASSUME NEW d \in Sound, NEW l1 \in Location, NEW l2 \in Location
    PROVE  /\ AddSegment(d, l1, l2) \in Sound
           /\ AddSegment(d, l1, l2).edges = Append(d.edges, <<l1, l2>>)
<1> DEFINE a == AddPoint(AddPoint(d, l1), l2)
           pts == [[a.points EXCEPT ![l1] = Append(@, l2)] EXCEPT ![l2] = Append(@, l1)]
           edges == Append(a.edges, <<l1, l2>>)
<1>1. /\ a \in Sound /\ l1 \in DOMAIN a.points /\ l2 \in DOMAIN a.points
      /\ a.edges = d.edges
  BY PointAdded
<1>2. a = [points |-> a.points, edges |-> a.edges]
  BY <1>1 DEF Sound, Document
<1>3. AddSegment(d, l1, l2) = [points |-> pts, edges |-> edges]
  <2>1. AddSegment(d, l1, l2) =
          [[a EXCEPT !.edges = Append(@, <<l1, l2>>), !.points[l1] = Append(@, l2)]
              EXCEPT !.points[l2] = Append(@, l1)]
    BY DEF AddSegment
  <2> HIDE DEF a
  <2> QED
    BY <2>1, <1>2
<1>4. [points |-> pts, edges |-> edges] \in Sound
  BY <1>1, EdgeAtEnds
<1> QED
  BY <1>1, <1>3, <1>4

LEMMA EmptySound == EmptyDocument \in Sound
<1>1. EmptyDocument.points \in [{} -> Seq(Location)] /\ EmptyDocument.edges = << >>
  BY DEF EmptyDocument
<1>2. EmptyDocument \in Document
  BY <1>1, EmptySeq DEF EmptyDocument, Document
<1>3. DOMAIN EmptyDocument.points = {} /\ DOMAIN EmptyDocument.edges = {}
  BY <1>1, EmptySeq
<1>4. EdgesAtPoints(EmptyDocument)
  BY <1>3, AtPoints
<1> QED
  BY <1>2, <1>3, <1>4, FS_EmptySet DEF Sound

-----------------------------------------------------------------------------
Element == [start : BOOLEAN, at : Location]

\* The elements of a path, put into a document one after the other.
Previous(p, k) == IF k = 1 THEN 0 ELSE p[k - 1].at
Put(p, k, d) == IF p[k].start THEN AddPoint(d, p[k].at)
                ELSE AddSegment(d, Previous(p, k), p[k].at)
PutUpTo(N, d, p, g) ==
    g = [k \in 0 .. N |-> IF k = 0 THEN d ELSE Put(p, k, g[k - 1])]

LEMMA PutSound ==
    ASSUME NEW N \in Nat, NEW p, \A k \in 1 .. N : p[k] \in Element,
           NEW k \in 1 .. N, NEW d \in Sound
    PROVE  Put(p, k, d) \in Sound
<1>1. p[k].at \in Location
  BY DEF Element
<1>2. Previous(p, k) \in Location
  <2>1. k = 1 \/ k - 1 \in 1 .. N
    OBVIOUS
  <2> QED
    BY <2>1 DEF Element, Location, Previous
<1> QED
  BY <1>1, <1>2, PointAdded, SegmentAdded DEF Put

LEMMA PutAll ==
    ASSUME NEW N \in Nat, NEW p, \A k \in 1 .. N : p[k] \in Element, NEW d \in Sound
    PROVE  \E g : PutUpTo(N, d, p, g)
<1> DEFINE next == [k \in 1 .. N |-> [f \in Sound |-> Put(p, k, f)]]
<1>1. next \in [1 .. N -> [Sound -> Sound]]
  BY PutSound
<1>2. PICK f \in [0 .. N -> Sound] :
          f[0] = d /\ \A k \in 1 .. N : f[k] = next[k][f[k - 1]]
  <2> HIDE DEF next
  <2> QED
    BY <1>1, Stepwise
<1>3. \A k \in 1 .. N : f[k] = Put(p, k, f[k - 1])
  <2>1. \A k \in 1 .. N : f[k - 1] \in Sound
    OBVIOUS
  <2> QED
    BY <1>2, <2>1
<1> HIDE DEF next
<1>4. \A k \in 0 .. N : f[k] = IF k = 0 THEN d ELSE Put(p, k, f[k - 1])
  BY <1>2, <1>3
<1> QED
  BY <1>2, <1>4 DEF PutUpTo

LEMMA PutAllSound ==
    ASSUME NEW N \in Nat, NEW p, \A k \in 1 .. N : p[k] \in Element, NEW d \in Sound,
           NEW g, PutUpTo(N, d, p, g)
    PROVE  g[N] \in Sound
<1>1. \A k \in 0 .. N : g[k] = IF k = 0 THEN d ELSE Put(p, k, g[k - 1])
  BY DEF PutUpTo
<1> DEFINE T == {k \in 0 .. N : g[k] \in Sound}
<1>2. 0 \in T
  BY <1>1
<1>3. ASSUME NEW k \in 1 .. N, k - 1 \in T PROVE k \in T
  <2>1. g[k] = Put(p, k, g[k - 1]) /\ k \in 0 .. N /\ g[k - 1] \in Sound
    BY <1>1, <1>3
  <2> QED
    BY <2>1, PutSound
<1>4. \A k \in 0 .. N : k \in T
  <2> HIDE DEF T
  <2> QED
    BY <1>2, <1>3, NumbersUpTo
<1> QED
  BY <1>4

LEMMA BuiltSound ==
    ASSUME NEW d \in Sound, NEW p \in Seq(Element)
    PROVE  Built(d, p) \in Sound
<1> DEFINE g == CHOOSE h : PutUpTo(Len(p), d, p, h)
<1>1. Len(p) \in Nat /\ \A k \in 1 .. Len(p) : p[k] \in Element
  BY LenProperties, ElementOfSeq
<1>2. PutUpTo(Len(p), d, p, g)
  BY <1>1, PutAll, Zenon
<1>3. Built(d, p) = g[Len(p)]
  BY DEF Built, PutUpTo, Put, Previous
<1> QED
  BY <1>1, <1>2, <1>3, PutAllSound

\* The paths of a node, one after the other.
PathList == Seq(Element)
BuiltUpTo(N, d, paths, g) ==
    g = [k \in 0 .. N |-> IF k = 0 THEN d ELSE Built(g[k - 1], paths[k])]

LEMMA BuildAll ==
    ASSUME NEW N \in Nat, NEW paths, \A k \in 1 .. N : paths[k] \in PathList,
           NEW d \in Sound
    PROVE  \E g : BuiltUpTo(N, d, paths, g)
<1>0. \A k \in 1 .. N : \A f \in Sound : Built(f, paths[k]) \in Sound
  BY BuiltSound DEF PathList
<1> DEFINE next == [k \in 1 .. N |-> [f \in Sound |-> Built(f, paths[k])]]
<1>1. next \in [1 .. N -> [Sound -> Sound]]
  BY <1>0
<1>2. PICK f \in [0 .. N -> Sound] :
          f[0] = d /\ \A k \in 1 .. N : f[k] = next[k][f[k - 1]]
  <2> HIDE DEF next
  <2> QED
    BY <1>1, Stepwise
<1>3. \A k \in 1 .. N : f[k] = Built(f[k - 1], paths[k])
  <2>1. \A k \in 1 .. N : f[k - 1] \in Sound
    OBVIOUS
  <2> QED
    BY <1>2, <2>1
<1> HIDE DEF next
<1>4. \A k \in 0 .. N : f[k] = IF k = 0 THEN d ELSE Built(f[k - 1], paths[k])
  BY <1>2, <1>3
<1> QED
  BY <1>2, <1>4 DEF BuiltUpTo

LEMMA BuildAllSound ==
    ASSUME NEW N \in Nat, NEW paths, \A k \in 1 .. N : paths[k] \in PathList,
           NEW d \in Sound, NEW g, BuiltUpTo(N, d, paths, g)
    PROVE  g[N] \in Sound
<1>1. \A k \in 0 .. N : g[k] = IF k = 0 THEN d ELSE Built(g[k - 1], paths[k])
  BY DEF BuiltUpTo
<1> DEFINE T == {k \in 0 .. N : g[k] \in Sound}
<1>2. 0 \in T
  BY <1>1
<1>3. ASSUME NEW k \in 1 .. N, k - 1 \in T PROVE k \in T
  <2>1. g[k] = Built(g[k - 1], paths[k]) /\ k \in 0 .. N /\ g[k - 1] \in Sound
    BY <1>1, <1>3
  <2> QED
    BY <2>1, BuiltSound DEF PathList
<1>4. \A k \in 0 .. N : k \in T
  <2> HIDE DEF T
  <2> QED
    BY <1>2, <1>3, NumbersUpTo
<1> QED
  BY <1>4

LEMMA AllBuiltSound ==
    ASSUME doc \in Sound, elements \in Seq(Seq(Element))
    PROVE  AllBuilt \in Sound
<1> DEFINE g == CHOOSE h : BuiltUpTo(Len(elements), doc, elements, h)
<1>1. Len(elements) \in Nat /\ \A k \in 1 .. Len(elements) : elements[k] \in PathList
  BY LenProperties, ElementOfSeq DEF PathList
<1>2. BuiltUpTo(Len(elements), doc, elements, g)
  BY <1>1, BuildAll, Zenon
<1>3. AllBuilt = g[Len(elements)]
  BY DEF AllBuilt, BuiltUpTo
<1> QED
  BY <1>1, <1>2, <1>3, BuildAllSound

\* The pen moves to whole places.
PenUpTo(N, origin, list, g) ==
    g = [k \in 0 .. N |-> IF k = 0 THEN origin ELSE Halves(list[k] + 2 * g[k - 1])]

LEMMA WholeHalves == \A h \in Int : Halves(h) \in Int
BY DEF Halves

LEMMA PenSteps ==
    ASSUME NEW N \in Nat, NEW origin \in Location,
           NEW next \in [1 .. N -> [Location -> Location]]
    PROVE  \E f \in [0 .. N -> Location] :
              f[0] = origin /\ \A k \in 1 .. N : f[k] = next[k][f[k - 1]]
BY Stepwise

LEMMA PenMoves ==
    ASSUME NEW N \in Nat, NEW list, \A k \in 1 .. N : list[k] \in Location,
           NEW origin \in Location
    PROVE  \E g : PenUpTo(N, origin, list, g)
<1>0. \A k \in 1 .. N : \A at \in Int : Halves(list[k] + 2 * at) \in Int
  <2>1. \A k \in 1 .. N : \A at \in Int : list[k] + 2 * at \in Int
    BY DEF Location
  <2> QED
    BY <2>1, WholeHalves
<1> DEFINE next == [k \in 1 .. N |-> [at \in Location |-> Halves(list[k] + 2 * at)]]
<1>1. next \in [1 .. N -> [Location -> Location]]
  BY <1>0 DEF Location
<1>2. PICK f \in [0 .. N -> Location] :
          f[0] = origin /\ \A k \in 1 .. N : f[k] = next[k][f[k - 1]]
  <2> HIDE DEF next
  <2> QED
    BY <1>1, PenSteps
<1>3. \A k \in 1 .. N : f[k] = Halves(list[k] + 2 * f[k - 1])
  <2>1. \A k \in 1 .. N : f[k - 1] \in Location
    OBVIOUS
  <2> QED
    BY <1>2, <2>1
<1> HIDE DEF next
<1>4. \A k \in 0 .. N : f[k] = IF k = 0 THEN origin ELSE Halves(list[k] + 2 * f[k - 1])
  BY <1>2, <1>3
<1> QED
  BY <1>2, <1>4 DEF PenUpTo

LEMMA PenWhole ==
    ASSUME NEW N \in Nat, NEW list, \A k \in 1 .. N : list[k] \in Int, NEW origin \in Int,
           NEW g, PenUpTo(N, origin, list, g)
    PROVE  \A k \in 0 .. N : g[k] \in Int
<1>1. \A k \in 0 .. N : g[k] = IF k = 0 THEN origin ELSE Halves(list[k] + 2 * g[k - 1])
  BY DEF PenUpTo
<1> DEFINE T == {k \in 0 .. N : g[k] \in Int}
<1>2. 0 \in T
  BY <1>1
<1>3. ASSUME NEW k \in 1 .. N, k - 1 \in T PROVE k \in T
  <2>1. g[k] = Halves(list[k] + 2 * g[k - 1]) /\ k \in 0 .. N /\ g[k - 1] \in Int
    BY <1>1, <1>3
  <2>2. list[k] + 2 * g[k - 1] \in Int
    BY <2>1
  <2> QED
    BY <2>1, <2>2, WholeHalves
<1>4. \A k \in 0 .. N : k \in T
  <2> HIDE DEF T
  <2> QED
    BY <1>2, <1>3, NumbersUpTo
<1> QED
  BY <1>4

-----------------------------------------------------------------------------
\* What the reader keeps true.  Letters are read at odd positions only.
ReadInv ==
    /\ nodes \in Seq(Node)
    /\ TypeOK
    /\ doc \in Sound
    /\ pc \in {"tokens", "build"} => n <= Len(nodes)
    /\ i % 2 = 1
    /\ StaysDefined

\* The tokens of a path, and what follows the one parse_path is at.
LEMMA TokensAre ==
    ASSUME ReadInv, pc \in {"tokens", "build"}
    PROVE  /\ n \in DOMAIN nodes /\ nodes[n] \in Node
           /\ tokens \in Seq(Token)
           /\ Len(tokens) \in Nat /\ i \in Nat \ {0}
<1>1. n \in 1 .. Len(nodes) /\ DOMAIN nodes = 1 .. Len(nodes) /\ nodes \in Seq(Node)
  <2>1. Len(nodes) \in Nat /\ DOMAIN nodes = 1 .. Len(nodes)
    BY LenProperties DEF ReadInv
  <2> QED
    BY <2>1 DEF ReadInv, TypeOK
<1>2. nodes[n] \in Node
  BY <1>1, ElementOfSeq
<1>3. tokens \in Seq(Token)
  BY <1>2 DEF tokens, Node
<1>4. i \in Nat \ {0}
  BY DEF ReadInv, TypeOK
<1> QED
  BY <1>1, <1>2, <1>3, <1>4, LenProperties

LEMMA RestIs ==
    ASSUME ReadInv, AtToken
    PROVE  Rest \in Token /\ Rest.params \in Seq(Int)
<1>1. Blank \in Token
  BY EmptySeq DEF Blank, Token
<1>2. NextToken \in Token
  <2>1. i < Len(tokens) => i + 1 \in 1 .. Len(tokens)
    BY TokensAre DEF AtToken
  <2> QED
    BY <2>1, <1>1, TokensAre, ElementOfSeq DEF NextToken, AtToken
<1> QED
  BY <1>1, <1>2 DEF Rest, Token

\* The path that is being read.
LEMMA PathIs ==
    ASSUME ReadInv, pc \in {"tokens", "build"}
    PROVE  /\ elements \in Seq(PathList) /\ Len(elements) \in Nat \ {0}
           /\ Len(elements) \in DOMAIN elements
           /\ path = elements[Len(elements)] /\ path \in Seq(Element)
<1>1. elements \in Seq(PathList) /\ elements # << >>
  BY DEF ReadInv, TypeOK, PathList, Element
<1>2. Len(elements) \in Nat \ {0} /\ DOMAIN elements = 1 .. Len(elements)
  BY <1>1, EmptySeq, LenProperties
<1>3. path = elements[Len(elements)]
  BY DEF path, Last
<1>4. path \in PathList
  BY <1>1, <1>2, <1>3, ElementOfSeq
<1> QED
  BY <1>1, <1>2, <1>3, <1>4 DEF PathList

LEMMA OriginWhole ==
    ASSUME ReadInv, AtToken PROVE Origin \in Location
<1>1. path \in Seq(Element)
  BY PathIs DEF AtToken
<1>2. ASSUME path # << >> PROVE Last(path).at \in Location
  <2>1. Len(path) \in 1 .. Len(path)
    BY <1>1, <1>2, EmptySeq, LenProperties
  <2>2. Last(path) \in Element
    BY <1>1, <2>1, ElementOfSeq DEF Last
  <2> QED
    BY <2>2 DEF Element
<1> QED
  BY <1>2 DEF Origin, Location

\* The places a command reaches: one for each pair of numbers.
LEMMA ReachedWhole ==
    ASSUME ReadInv, AtToken
    PROVE  Reached \in Seq(Location) /\ Len(Reached) = Len(Params)
<1> DEFINE N == Len(Params)
           g == CHOOSE h : PenUpTo(N, Origin, Params, h)
<1>1. Params \in Seq(Int)
  BY RestIs DEF Params
<1>2. N \in Nat /\ DOMAIN Params = 1 .. N /\ \A k \in 1 .. N : Params[k] \in Int
  BY <1>1, LenProperties, ElementOfSeq
<1>3. Origin \in Location
  BY OriginWhole
<1>4. PenUpTo(N, Origin, Params, g)
  BY <1>2, <1>3, PenMoves, Zenon DEF Location
<1>5. Reached = [k \in DOMAIN Params |-> g[k]]
  BY DEF Reached, PenUpTo
<1> HIDE DEF g, N
<1>6. \A k \in 0 .. N : g[k] \in Int
  BY <1>2, <1>3, <1>4, PenWhole DEF Location
<1>7. Reached \in [1 .. N -> Location]
  BY <1>2, <1>5, <1>6 DEF Location
<1>8. Reached \in Seq(Location)
  BY <1>2, <1>7, SeqDef
<1> QED
  BY <1>2, <1>7, <1>8, LenProperties DEF N

LEMMA LinesAre ==
    ASSUME NEW list \in Seq(Location) PROVE LinesTo(list) \in Seq(Element)
<1>1. Len(list) \in Nat /\ DOMAIN list = 1 .. Len(list)
      /\ \A k \in 1 .. Len(list) : list[k] \in Location
  BY LenProperties, ElementOfSeq
<1>2. LinesTo(list) \in [1 .. Len(list) -> Element]
  BY <1>1 DEF LinesTo, Element
<1> QED
  BY <1>1, <1>2, SeqDef

\* A path grows by a list of lines, or a path is added.
LEMMA PathGrows ==
    ASSUME ReadInv, pc \in {"tokens", "build"}, NEW list \in Seq(Location)
    PROVE  LET grown == [elements EXCEPT ![Len(elements)] = @ \o LinesTo(list)]
           IN  grown \in Seq(Seq(Element)) /\ grown # << >>
<1> DEFINE more == path \o LinesTo(list)
           grown == [elements EXCEPT ![Len(elements)] = more]
           m == Len(elements)
<1>1. more \in PathList
  BY PathIs, LinesAre, ConcatProperties DEF PathList
<1>2. grown \in Seq(PathList) /\ Len(grown) = m
  <2> HIDE DEF more
  <2>1. elements \in Seq(PathList) /\ m \in Nat \ {0} /\ m \in 1 .. m
    BY PathIs
  <2> QED
    BY <2>1, <1>1, ExceptSeq
<1>3. grown # << >>
  BY <1>2, PathIs, EmptySeq
<1>4. [elements EXCEPT ![Len(elements)] = @ \o LinesTo(list)] = grown
  BY PathIs
<1> QED
  BY <1>2, <1>3, <1>4 DEF PathList

LEMMA PathAdded ==
    ASSUME ReadInv, AtToken, Params # << >>
    PROVE  Append(elements, Moved) \in Seq(Seq(Element)) /\ Append(elements, Moved) # << >>
<1>1. Reached \in Seq(Location) /\ Reached # << >>
  <2>1. Params \in Seq(Int)
    BY RestIs DEF Params
  <2> QED
    BY <2>1, ReachedWhole, EmptySeq
<1>2. Tail(Reached) \in Seq(Location) /\ Reached[1] \in Location
  BY <1>1, HeadTailProperties, ElementOfSeq, EmptySeq, LenProperties
<1>3. LinesTo(Tail(Reached)) \in Seq(Element)
  BY <1>2, LinesAre
<1>4. << [start |-> TRUE, at |-> Reached[1]] >> \in Seq(Element)
  BY <1>2 DEF Element
<1>5. Moved \in PathList
  BY <1>3, <1>4, ConcatProperties DEF Moved, PathList
<1>6. elements \in Seq(PathList)
  BY PathIs DEF AtToken
<1> HIDE DEF PathList
<1>7. Append(elements, Moved) \in Seq(PathList) /\ Len(Append(elements, Moved)) # 0
  BY <1>5, <1>6, AppendProperties, LenProperties
<1> QED
  BY <1>7, EmptySeq DEF PathList

LEMMA ReadBegins == Init => ReadInv
<1> SUFFICES ASSUME Init PROVE ReadInv
  OBVIOUS
<1>1. nodes \in Seq(Node) /\ Len(nodes) \in Nat
  BY InputsAssumption, LenProperties DEF Init
<1>2. n = 1 /\ i = 1 /\ elements = << >> /\ doc = EmptyDocument /\ pc = "node"
  BY DEF Init
<1>3. doc \in Sound
  BY <1>2, EmptySound
<1>4. TypeOK
  <2>1. elements \in Seq(Seq(Element))
    BY <1>2, EmptySeq
  <2>2. /\ DOMAIN doc.points \subseteq Location /\ IsFiniteSet(DOMAIN doc.points)
        /\ \A l \in DOMAIN doc.points : doc.points[l] \in Seq(Location)
        /\ doc.edges \in Seq(Segment)
    BY <1>3 DEF Sound, Document
  <2> QED
    BY <1>1, <1>2, <2>1, <2>2 DEF TypeOK, Element, Segment
<1> QED
  BY <1>1, <1>2, <1>3, <1>4 DEF ReadInv, StaysDefined

\* A sound document has the types that TypeOK asks for.
LEMMA SoundTyped ==
    ASSUME NEW d \in Sound
    PROVE  /\ DOMAIN d.points \subseteq Location /\ IsFiniteSet(DOMAIN d.points)
           /\ \A l \in DOMAIN d.points : d.points[l] \in Seq(Location)
           /\ d.edges \in Seq(Location \X Location)
           /\ EdgesAtPoints(d)
BY DEF Sound, Document, Segment

\* The line of a node.
LEMMA LineRead ==
    ASSUME ReadInv, ReadLine PROVE doc' \in Sound /\ n \in 1 .. Len(nodes)
<1>1. n \in 1 .. Len(nodes) /\ nodes \in Seq(Node)
  <2>1. Len(nodes) \in Nat
    BY LenProperties DEF ReadInv
  <2> QED
    BY <2>1 DEF ReadInv, ReadLine, TypeOK
<1>2. nodes[n] \in Node
  BY <1>1, ElementOfSeq
<1> DEFINE ends == nodes[n].ends
<1>3. ends \in Seq(Int) /\ Len(ends) = 2
  BY <1>2 DEF Node, ReadLine
<1>4. ends[1] \in Int /\ ends[2] \in Int
  BY <1>3, ElementOfSeq
<1>5. Halves(ends[1]) \in Location /\ Halves(ends[2]) \in Location
  BY <1>4, WholeHalves DEF Location
<1>6. doc \in Sound
  BY DEF ReadInv
<1>7. doc' = AddSegment(AddPoint(AddPoint(doc, Halves(ends[1])), Halves(ends[2])),
                        Halves(ends[1]), Halves(ends[2]))
  BY DEF ReadLine
<1> HIDE DEF ends
<1> QED
  BY <1>1, <1>5, <1>6, <1>7, PointAdded, SegmentAdded

\* The letters stay in step: a token at an odd position of a path in which
\* numbers follow each move and line is not read without them.
LEMMA NothingUnread ==
    ASSUME ReadInv, ReadNothing PROVE StaysDefined'
<1> SUFFICES ASSUME \A k \in DOMAIN nodes : NumbersFollow(nodes[k].tokens) PROVE FALSE
  BY DEF StaysDefined, ReadNothing
<1>1. /\ AtToken /\ n \in DOMAIN nodes /\ tokens \in Seq(Token)
      /\ Len(tokens) \in Nat /\ i \in Nat \ {0} /\ i <= Len(tokens)
  BY TokensAre DEF ReadNothing, AtToken
<1>2. i \in DOMAIN tokens /\ i % 2 = 1
  BY <1>1, LenProperties DEF ReadInv
<1>3. NumbersFollow(tokens)
  BY <1>1 DEF tokens
<1>4. tokens[i] # Blank
  BY <1>2, <1>3 DEF NumbersFollow
<1>5. Symbol = tokens[i].kind /\ Rest = NextToken
  BY <1>4 DEF Symbol, Rest
<1>6. Symbol \in Moves \union Lines
  BY DEF ReadNothing
<1>7. /\ i < Len(tokens) /\ tokens[i + 1].kind \in {"numbers", "broken"}
      /\ tokens[i + 1] # Blank
  BY <1>2, <1>3, <1>5, <1>6 DEF NumbersFollow
<1>8. Rest = tokens[i + 1]
  BY <1>5, <1>7 DEF NextToken
<1>9. Rest.kind = "numbers" /\ Rest.params = << >>
  BY <1>7, <1>8 DEF ReadNothing, Readable, Params, Moves, Lines
<1>10. Rest \in Token
  BY <1>1, RestIs
<1>11. Rest = Blank
  BY <1>9, <1>10 DEF Token, Blank
<1> QED
  BY <1>7, <1>8, <1>11

\* Every step of the reader preserves the invariant.
LEMMA ReadStays == ReadInv /\ [Next]_vars => ReadInv'
<1> SUFFICES ASSUME ReadInv, [Next]_vars PROVE ReadInv'
  OBVIOUS
<1>0. /\ nodes \in Seq(Node) /\ Len(nodes) \in Nat /\ DOMAIN nodes = 1 .. Len(nodes)
      /\ n \in 1 .. Len(nodes) + 1 /\ i \in Nat /\ i % 2 = 1
      /\ elements \in Seq(Seq(Element))
      /\ pc \in {"tokens", "build"} => elements # << >>
      /\ pc \in {"tokens", "build"} => n <= Len(nodes)
      /\ doc \in Sound /\ StaysDefined
      /\ pc \in {"node", "tokens", "build", "done", "failed", "undefined"}
  BY LenProperties DEF ReadInv, TypeOK, Element
\* The invariant, of the variables by themselves.
<1> DEFINE Keeps ==
        /\ n' \in 1 .. Len(nodes) + 1 /\ i' \in Nat /\ i' % 2 = 1
        /\ elements' \in Seq(Seq(Element))
        /\ pc' \in {"tokens", "build"} => elements' # << >>
        /\ pc' \in {"tokens", "build"} => n' <= Len(nodes)
        /\ doc' \in Sound
        /\ pc' \in {"node", "tokens", "build", "done", "failed", "undefined"}
<1>k. ASSUME nodes' = nodes, Keeps, pc' = "undefined" => StaysDefined'
      PROVE  ReadInv'
  <2>1. TypeOK'
    <3>1. /\ DOMAIN doc'.points \subseteq Location /\ IsFiniteSet(DOMAIN doc'.points)
          /\ \A l \in DOMAIN doc'.points : doc'.points[l] \in Seq(Location)
          /\ doc'.edges \in Seq(Location \X Location)
      BY <1>k, SoundTyped
    <3> QED
      BY <3>1, <1>k DEF TypeOK, Element
  <2>2. StaysDefined'
    BY <1>k DEF StaysDefined
  <2> QED
    BY <2>1, <2>2, <1>k, <1>0 DEF ReadInv
<1>1. CASE ReadLine
  <2>1. /\ n' = n + 1 /\ nodes' = nodes /\ i' = i /\ elements' = elements /\ pc' = pc
        /\ pc = "node"
    BY <1>1 DEF ReadLine
  <2>2. doc' \in Sound /\ n \in 1 .. Len(nodes)
    BY <1>1, LineRead
  <2> QED
    BY <2>1, <2>2, <1>0, <1>k
<1>2. CASE SkipNode
  <2>1. /\ n' = n + 1 /\ nodes' = nodes /\ i' = i /\ elements' = elements /\ pc' = pc
        /\ doc' = doc /\ pc = "node" /\ n <= Len(nodes)
    BY <1>2 DEF SkipNode
  <2> QED
    BY <2>1, <1>0, <1>k
<1>3. CASE RefuseNode
  <2>1. /\ n' = n /\ nodes' = nodes /\ i' = i /\ elements' = elements /\ pc' = "failed"
        /\ doc' = doc
    BY <1>3 DEF RefuseNode
  <2> QED
    BY <2>1, <1>0, <1>k
<1>4. CASE EnterPath
  <2>1. /\ n' = n /\ nodes' = nodes /\ i' = 1 /\ elements' = << << >> >>
        /\ pc' = "tokens" /\ doc' = doc /\ n <= Len(nodes)
    BY <1>4 DEF EnterPath
  <2>2. elements' \in Seq(Seq(Element)) /\ elements' # << >>
    <3>1. << >> \in Seq(Element)
      BY EmptySeq
    <3> HIDE DEF Element
    <3> QED
      BY <2>1, <3>1
  <2> QED
    BY <2>1, <2>2, <1>0, <1>k
<1>5. ASSUME Advance, AtToken, elements' \in Seq(Seq(Element)), elements' # << >>
      PROVE  ReadInv'
  <2>1. /\ n' = n /\ nodes' = nodes /\ i' = i + 2 /\ pc' = "tokens" /\ doc' = doc
        /\ pc = "tokens"
    BY <1>5 DEF Advance, AtToken
  <2>2. i' \in Nat /\ i' % 2 = 1
    BY <2>1, <1>0
  <2> QED
    BY <2>1, <2>2, <1>0, <1>5, <1>k
<1>6. CASE MoveTo
  <2>1. AtToken /\ Params # << >> /\ Advance /\ elements' = Append(elements, Moved)
    BY <1>6 DEF MoveTo
  <2> QED
    BY <2>1, <1>5, PathAdded
<1>7. CASE StraightLine
  <2>1. /\ AtToken /\ Advance /\ pc \in {"tokens", "build"}
        /\ elements' = [elements EXCEPT ![Len(elements)] = @ \o LinesTo(Reached)]
    BY <1>7 DEF StraightLine, AtToken
  <2>2. Reached \in Seq(Location)
    BY <2>1, ReachedWhole
  <2> QED
    BY <2>1, <2>2, <1>5, PathGrows
<1>8. CASE ClosePath
  <2>1. /\ AtToken /\ Advance /\ Closable /\ pc \in {"tokens", "build"}
        /\ elements' = [elements EXCEPT ![Len(elements)] = @ \o LinesTo(<<path[1].at>>)]
    BY <1>8 DEF ClosePath, AtToken
  <2>2. path \in Seq(Element) /\ 1 \in 1 .. Len(path)
    BY <2>1, PathIs, LenProperties DEF Closable
  <2>3. path[1] \in Element
    BY <2>2, ElementOfSeq
  <2>4. <<path[1].at>> \in Seq(Location)
    BY <2>3 DEF Element
  <2> QED
    BY <2>1, <2>4, <1>5, PathGrows
<1>9. CASE ReadNothing
  <2>1. /\ n' = n /\ nodes' = nodes /\ i' = i /\ elements' = elements
        /\ pc' = "undefined" /\ doc' = doc
    BY <1>9 DEF ReadNothing
  <2> QED
    BY <2>1, <1>9, <1>0, <1>k, NothingUnread
<1>10. CASE RefuseToken
  <2>1. /\ n' = n /\ nodes' = nodes /\ i' = i /\ elements' = elements
        /\ pc' = "failed" /\ doc' = doc
    BY <1>10 DEF RefuseToken
  <2> QED
    BY <2>1, <1>0, <1>k
<1>11. CASE EndTokens
  <2>1. /\ n' = n /\ nodes' = nodes /\ i' = i /\ elements' = elements
        /\ pc = "tokens" /\ pc' = "build" /\ doc' = doc
    BY <1>11 DEF EndTokens
  <2> QED
    BY <2>1, <1>0, <1>k
<1>12. CASE AddPaths
  <2>1. /\ n' = n + 1 /\ nodes' = nodes /\ i' = i /\ elements' = elements
        /\ pc = "build" /\ pc' = "node" /\ doc' = AllBuilt
    BY <1>12 DEF AddPaths
  <2>2. doc' \in Sound
    BY <2>1, <1>0, AllBuiltSound
  <2> QED
    BY <2>1, <2>2, <1>0, <1>k
<1>13. CASE Finish
  <2>1. /\ n' = n /\ nodes' = nodes /\ i' = i /\ elements' = elements
        /\ pc' = "done" /\ doc' = doc
    BY <1>13 DEF Finish
  <2> QED
    BY <2>1, <1>0, <1>k
<1>14. CASE UNCHANGED vars
  <2>1. /\ n' = n /\ nodes' = nodes /\ i' = i /\ elements' = elements
        /\ pc' = pc /\ doc' = doc
    BY <1>14 DEF vars
  <2> QED
    BY <2>1 DEF ReadInv, TypeOK, StaysDefined
<1> QED
  BY <1>1, <1>2, <1>3, <1>4, <1>6, <1>7, <1>8, <1>9, <1>10, <1>11, <1>12, <1>13, <1>14
     DEF Next

LEMMA AlwaysRead == SpecBoth => []ReadInv
<1>1. InitBoth => ReadInv
  BY ReadBegins DEF InitBoth
<1>2. ReadInv /\ [NextBoth]_<<vars, tracer_vars>> => ReadInv'
  <2>1. [NextBoth]_<<vars, tracer_vars>> => [Next]_vars
    BY DEF NextBoth, ReadStep, TraceStep
  <2> QED
    BY <2>1, ReadStays
<1> QED
  BY <1>1, <1>2, PTL DEF SpecBoth

\* Whatever a file holds, each edge read of it is at its two ends, and nowhere else.
THEOREM EdgesAreMirrored == SpecBoth => []Mirrored
<1>1. ReadInv => Mirrored
  BY SoundTyped DEF ReadInv, Mirrored
<1> QED
  BY <1>1, AlwaysRead, PTL

\* Numbers that follow their letters are never looked for in vain.
THEOREM NeverUndefined == SpecBoth => []StaysDefined
<1>1. ReadInv => StaysDefined
  BY DEF ReadInv
<1> QED
  BY <1>1, AlwaysRead, PTL

-----------------------------------------------------------------------------
\* The values of a function on a finite set are finitely many.
LEMMA Image ==
    ASSUME NEW S, IsFiniteSet(S), NEW f
    PROVE  IsFiniteSet({f[x] : x \in S}) /\ Cardinality({f[x] : x \in S}) <= Cardinality(S)
<1> DEFINE T == {f[x] : x \in S}
           g == [x \in S |-> f[x]]
<1>1. g \in Surjection(S, T)
  <2>1. g \in [S -> T] /\ \A t \in T : \E x \in S : g[x] = t
    OBVIOUS
  <2> QED
    BY <2>1, Fun_IsSurj
<1> QED
  BY <1>1, FS_Surjection

\* A list of all the elements of a set, each once.
LEMMA Ordered ==
    ASSUME NEW S, IsFiniteSet(S), NEW f \in SetToSeqs(S)
    PROVE  /\ f \in Seq(S)
           /\ Len(f) = Cardinality(S) /\ Len(f) \in Nat /\ DOMAIN f = 1 .. Len(f)
           /\ \A k \in DOMAIN f : f[k] \in S
           /\ ToSet(f) = S
           /\ \A j, k \in DOMAIN f : j # k => f[j] # f[k]
<1> DEFINE size == Cardinality(S)
<1>1. size \in Nat /\ IsFiniteSet(1 .. size) /\ Cardinality(1 .. size) = size
  BY FS_CardinalityType, FS_Interval
<1>2. f \in [1 .. size -> S] /\ \A j, k \in 1 .. size : j # k => f[j] # f[k]
  BY DEF SetToSeqs
<1>3. f \in Injection(1 .. size, S)
  BY <1>2, Fun_IsInj
<1>4. f \in Surjection(1 .. size, S)
  BY <1>1, <1>3, FS_Injection
<1>5. \A s \in S : \E k \in 1 .. size : f[k] = s
  <2> HIDE DEF size
  <2> QED
    BY <1>4 DEF Surjection
<1>6. DOMAIN f = 1 .. size /\ \A k \in 1 .. size : f[k] \in S
  BY <1>2
<1>7. ToSet(f) = S
  BY <1>5, <1>6 DEF ToSet
<1>8. f \in Seq(S) /\ Len(f) = size
  <2> HIDE DEF size
  <2>1. f \in Seq(S)
    BY <1>1, <1>2, SeqDef
  <2>2. Len(f) \in Nat /\ DOMAIN f = 1 .. Len(f)
    BY <2>1, LenProperties
  <2> QED
    BY <1>1, <1>6, <2>1, <2>2
<1> QED
  BY <1>1, <1>2, <1>6, <1>7, <1>8


-----------------------------------------------------------------------------
\* Division and remainder.
LEMMA Divided ==
    ASSUME NEW a \in Int, NEW b \in Nat \ {0}
    PROVE  a \div b \in Int /\ a % b \in 0 .. b - 1 /\ (a \in 0 .. b - 1 => a % b = a)
OBVIOUS

LEMMA CutOffWhole ==
    ASSUME NEW a \in Int, NEW b \in Nat \ {0} PROVE CutOff(a, b) \in Int
<1>1. -a \in Int
  OBVIOUS
<1>2. a \div b \in Int /\ (-a) \div b \in Int
  BY <1>1, Divided
<1>3. -((-a) \div b) \in Int
  BY <1>2
<1> QED
  BY <1>2, <1>3 DEF CutOff

LEMMA ToIntWhole ==
    ASSUME NEW a \in Int
    PROVE  ToInt(a) \in Int /\ (a >= 0 /\ 2 * a < INT_VALUES => ToInt(a) = a)
<1> DEFINE kept == a % INT_VALUES
<1>1. INT_VALUES \in Nat \ {0}
  BY TracerAssumption
<1>2. kept \in Int /\ (a \in 0 .. INT_VALUES - 1 => kept = a)
  BY <1>1, Divided
<1>3. a >= 0 /\ 2 * a < INT_VALUES => a \in 0 .. INT_VALUES - 1
  BY <1>1
<1>4. ToInt(a) = IF 2 * kept < INT_VALUES THEN kept ELSE kept - INT_VALUES
  BY DEF ToInt
<1> HIDE DEF kept
<1> QED
  BY <1>1, <1>2, <1>3, <1>4

\* Groups that assignClusters may return are not empty, and lie in the document.
LEMMA GroupsFound ==
    ASSUME doc \in Sound, NEW k \in Nat \ {0}, NEW groups \in KMeans(k)
    PROVE  /\ IsFiniteSet(groups) /\ groups # {}
           /\ \A G \in groups : G \subseteq Int /\ IsFiniteSet(G) /\ G # {}
<1>1. IsFiniteSet(Locations) /\ Locations \subseteq Int
  BY SoundTyped DEF Locations, Location
<1>2. PICK tops \in kSubset(k, Locations) : groups = {Group(tops, top) : top \in tops}
  BY DEF KMeans
<1>3. tops \in SUBSET Locations /\ Cardinality(tops) = k
  BY <1>2 DEF kSubset
<1>4. IsFiniteSet(tops) /\ tops # {}
  BY <1>1, <1>3, FS_Subset, FS_EmptySet
<1>5. IsFiniteSet(groups) /\ groups # {}
  <2> DEFINE f == [top \in tops |-> Group(tops, top)]
  <2>1. IsFiniteSet({f[x] : x \in tops})
    <3> HIDE DEF f
    <3> QED
      BY <1>4, Image
  <2>2. groups = {f[x] : x \in tops}
    BY <1>2
  <2> QED
    BY <2>1, <2>2, <1>2, <1>4
<1>6. ASSUME NEW top \in tops
      PROVE  Group(tops, top) \in SUBSET Locations /\ top \in Group(tops, top)
  <2>1. top \in Int /\ top \in Locations
    BY <1>1, <1>3
  <2> QED
    BY <2>1 DEF Group
<1>7. \A G \in groups : G \in SUBSET Locations /\ G # {}
  BY <1>2, <1>6
<1>8. \A G \in groups : IsFiniteSet(G)
  BY <1>1, <1>7, FS_Subset
<1> QED
  BY <1>1, <1>5, <1>7, <1>8

LEMMA ReadWhole ==
    ASSUME NEW groups, IsFiniteSet(groups), groups # {},
           \A G \in groups : G \subseteq Int /\ IsFiniteSet(G) /\ G # {},
           NEW order \in SetToSeqs(groups)
    PROVE  Read(order) \in Seq(Int) /\ Read(order) # << >>
<1>1. /\ Len(order) = Cardinality(groups) /\ Len(order) \in Nat
      /\ DOMAIN order = 1 .. Len(order) /\ \A k \in DOMAIN order : order[k] \in groups
  BY Ordered
<1>2. ASSUME NEW G \in groups PROVE CutOff(Sum(G), Cardinality(G)) \in Int
  <2> DEFINE v == [l \in G |-> l]
  <2>1. \A l \in G : v[l] \in Int
    OBVIOUS
  <2>2. SumFunctionOnSet(v, G) \in Int
    <3> HIDE DEF v
    <3> QED
      BY <2>1, SumWhole
  <2>3. Sum(G) \in Int
    BY <2>2 DEF Sum
  <2>4. Cardinality(G) \in Nat \ {0}
    BY FS_CardinalityType, FS_EmptySet
  <2> QED
    BY <2>3, <2>4, CutOffWhole
<1> DEFINE m == Len(order)
<1>3. Read(order) = [k \in 1 .. m |-> CutOff(Sum(order[k]), Cardinality(order[k]))]
  BY <1>1 DEF Read
<1>4. Read(order) \in [1 .. m -> Int]
  BY <1>1, <1>2, <1>3
<1>5. m # 0
  BY <1>1, FS_EmptySet
<1>6. Read(order) \in Seq(Int)
  <2> HIDE DEF m
  <2> QED
    BY <1>1, <1>4, SeqDef DEF m
<1>7. DOMAIN Read(order) = 1 .. m /\ 1 \in 1 .. m
  BY <1>1, <1>3, <1>5
<1> QED
  BY <1>6, <1>7, EmptySeq

-----------------------------------------------------------------------------
\* The groups of the clusters in front of m.
GroupsBefore(m) == {Neighbours(k) : k \in 1 .. m - 1}

TraceTypes ==
    /\ TracerTypes
    /\ trace_pc \in {"cluster", "merge", "trace", "traced"}
    /\ cluster_count \in Nat \ {0}
    /\ traced \in Sound
    /\ trace_pc = "cluster" =>
          clusters = << >> /\ endpoints = << >> /\ merging = 1 /\ used = {}
    /\ trace_pc # "cluster" => clusters # << >>

\* Every cluster the loop has passed is used, and once one is there is an endpoint.
Progress ==
    /\ 1 .. merging - 1 \subseteq used
    /\ used # {} => endpoints # << >>
    /\ trace_pc \in {"trace", "traced"} => merging = Len(clusters) + 1

\* Of the clusters the loop has passed: OneForEachGroup.
GroupsMerged ==
    Clear =>
        /\ used = UNION GroupsBefore(merging)
        /\ Len(endpoints) = Cardinality(GroupsBefore(merging))
        /\ ToSet(endpoints) = {MeanOf(S) : S \in GroupsBefore(merging)}

TraceInv ==
    /\ TraceTypes /\ Progress /\ GroupsMerged
    /\ QuotientOfDrawing
    /\ trace_pc # "cluster" => pc = "done"

LEMMA TraceBegins == InitBoth => TraceInv
<1> SUFFICES ASSUME InitBoth PROVE TraceInv
  OBVIOUS
<1>1. /\ cluster_count = 1 /\ clusters = << >> /\ endpoints = << >> /\ merging = 1
      /\ used = {} /\ traced = EmptyDocument /\ trace_pc = "cluster"
  BY DEF InitBoth, Begin
<1>2. traced \in Sound /\ EdgesAtPoints(traced)
  BY <1>1, EmptySound, SoundTyped
<1>3. clusters \in Seq(Int) /\ Len(clusters) = 0 /\ endpoints \in Seq(Int) /\ Len(endpoints) = 0
      /\ DOMAIN clusters = {} /\ DOMAIN endpoints = {}
  BY <1>1, EmptySeq
<1>4. TracerTypes
  BY <1>1, <1>2, <1>3 DEF TracerTypes
<1>5. TraceTypes /\ Progress /\ QuotientOfDrawing
  BY <1>1, <1>2, <1>4 DEF TraceTypes, Progress, QuotientOfDrawing
<1>6. GroupsBefore(merging) = {}
  BY <1>1 DEF GroupsBefore
<1>7. GroupsMerged
  <2>1. ToSet(endpoints) = {}
    BY <1>3 DEF ToSet
  <2> QED
    BY <1>1, <1>3, <1>6, <2>1, FS_EmptySet DEF GroupsMerged
<1> QED
  BY <1>1, <1>5, <1>7 DEF TraceInv

\* The clusters close to the one the loop is at.
LEMMA CloseIs ==
    ASSUME clusters \in Seq(Int), NEW k \in DOMAIN clusters
    PROVE  /\ Close(k) \subseteq DOMAIN clusters /\ k \in Close(k)
           /\ k \in Neighbours(k) /\ Neighbours(k) \subseteq DOMAIN clusters
           /\ Close(k) = {m \in Neighbours(k) : k <= m}
           /\ \A m \in DOMAIN clusters : m \in Neighbours(k) <=> k \in Neighbours(m)
<1>1. /\ Len(clusters) \in Nat /\ DOMAIN clusters = 1 .. Len(clusters)
      /\ \A m \in DOMAIN clusters : clusters[m] \in Int
  BY LenProperties, ElementOfSeq
<1>2. MIN_DISTANCE_BETWEEN_CLUSTERS \in Nat \ {0}
  BY TracerAssumption
<1>3. \A a, b \in Int : Near(a, a) /\ (Near(a, b) <=> Near(b, a))
  BY <1>2 DEF Near, Abs
<1>4. \A m \in DOMAIN clusters : /\ Near(clusters[m], clusters[m])
                                 /\ Near(clusters[k], clusters[m]) <=> Near(clusters[m], clusters[k])
  BY <1>1, <1>3
<1>5. \A m \in DOMAIN clusters : m \in Neighbours(k) <=> k \in Neighbours(m)
  BY <1>4 DEF Neighbours
<1>6. k \in Neighbours(k) /\ Neighbours(k) \subseteq DOMAIN clusters
  BY <1>4 DEF Neighbours
<1>7. \A m \in Int : m \in k + 1 .. Len(clusters) <=> m \in 1 .. Len(clusters) /\ k < m
  BY <1>1
<1>8. \A m : m \in k + 1 .. Len(clusters) <=> m \in DOMAIN clusters /\ k < m
  <2>1. \A m : m \in k + 1 .. Len(clusters) => m \in Int
    OBVIOUS
  <2>2. \A m : m \in DOMAIN clusters => m \in Int
    BY <1>1
  <2> QED
    BY <1>1, <1>7, <2>1, <2>2
<1>9. Close(k) = {k} \union {m \in DOMAIN clusters : k < m /\ Near(clusters[k], clusters[m])}
  BY <1>8 DEF Close
<1>10. \A m \in DOMAIN clusters : k <= m <=> m = k \/ k < m
  BY <1>1
<1>11. Close(k) = {m \in Neighbours(k) : k <= m}
  BY <1>9, <1>10, <1>6, <1>4 DEF Neighbours
<1> QED
  BY <1>5, <1>6, <1>11

\* The middle of some clusters is whole; it is their mean if no sum wraps around.
LEMMA MiddleWhole ==
    ASSUME clusters \in Seq(Int), NEW S \in SUBSET DOMAIN clusters, S # {}
    PROVE  /\ Middle(S) \in Int
           /\ /\ SumFunctionOnSet(clusters, S) \in 0 .. SIZE_VALUES - 1
              /\ 2 * MeanOf(S) < INT_VALUES
              => Middle(S) = MeanOf(S)
<1> DEFINE sum == SumFunctionOnSet(clusters, S)
           c == Cardinality(S)
           kept == sum % SIZE_VALUES
<1>1. /\ Len(clusters) \in Nat /\ DOMAIN clusters = 1 .. Len(clusters)
      /\ \A m \in DOMAIN clusters : clusters[m] \in Int
  BY LenProperties, ElementOfSeq
<1>2. IsFiniteSet(S)
  <2>1. IsFiniteSet(1 .. Len(clusters)) /\ S \in SUBSET (1 .. Len(clusters))
    BY <1>1, FS_Interval
  <2> QED
    BY <2>1, FS_Subset
<1>3. sum \in Int
  BY <1>1, <1>2, SumWhole
<1>4. c \in Nat \ {0}
  BY <1>2, FS_CardinalityType, FS_EmptySet
<1>5. SIZE_VALUES \in Nat \ {0}
  BY TracerAssumption
<1>6. Middle(S) = ToInt(kept \div c) /\ MeanOf(S) = sum \div c
  BY DEF Middle, MeanOf
<1> HIDE DEF c, sum
<1>7. kept \in Int /\ (sum \in 0 .. SIZE_VALUES - 1 => kept = sum)
  <2>1. \A a \in Int : a % SIZE_VALUES \in 0 .. SIZE_VALUES - 1
                     /\ (a \in 0 .. SIZE_VALUES - 1 => a % SIZE_VALUES = a)
    BY <1>5, Divided
  <2>2. \A a \in 0 .. SIZE_VALUES - 1 : a \in Int
    OBVIOUS
  <2> QED
    BY <1>3, <2>1, <2>2
<1> HIDE DEF kept
<1>8. kept \div c \in Int
  BY <1>4, <1>7, Divided
<1>9. sum >= 0 => sum \div c >= 0
  BY <1>3, <1>4
<1>10. sum \in 0 .. SIZE_VALUES - 1 => kept \div c = sum \div c /\ sum \div c >= 0
  BY <1>3, <1>5, <1>7, <1>9
<1> QED
  BY <1>6, <1>8, <1>10, ToIntWhole DEF sum

\* The cluster the loop is at: its group was met before if it is used, and is
\* new, and close to it, if it is not.
LEMMA GroupPassed ==
    ASSUME clusters \in Seq(Int), Clear, NEW k \in DOMAIN clusters,
           NEW u, u = UNION GroupsBefore(k)
    PROVE  /\ k \in u => Neighbours(k) \in GroupsBefore(k) /\ Close(k) \subseteq u
           /\ k \notin u => Neighbours(k) \notin GroupsBefore(k) /\ Close(k) = Neighbours(k)
<1>1. Len(clusters) \in Nat /\ DOMAIN clusters = 1 .. Len(clusters)
  BY LenProperties
<1>2. \A m \in 1 .. k - 1 : m \in DOMAIN clusters
  BY <1>1
<1>3. \A m \in DOMAIN clusters : k <= m \/ m \in 1 .. k - 1
  BY <1>1
<1>4. ASSUME k \in u
      PROVE  Neighbours(k) \in GroupsBefore(k) /\ Close(k) \subseteq u
  <2>1. PICK j \in 1 .. k - 1 : k \in Neighbours(j)
    BY <1>4 DEF GroupsBefore
  <2>2. Neighbours(k) = Neighbours(j)
    BY <1>2, <2>1 DEF Clear
  <2>3. Neighbours(k) \in GroupsBefore(k)
    BY <2>2 DEF GroupsBefore
  <2> QED
    BY <2>3, CloseIs
<1>5. ASSUME k \notin u
      PROVE  Neighbours(k) \notin GroupsBefore(k) /\ Close(k) = Neighbours(k)
  <2>1. Neighbours(k) \notin GroupsBefore(k)
    BY <1>5, CloseIs
  <2>2. ASSUME NEW m \in Neighbours(k) PROVE k <= m
    <3>1. m \in DOMAIN clusters /\ k \in Neighbours(m)
      BY CloseIs
    <3>2. m \notin 1 .. k - 1
      BY <3>1, <1>5 DEF GroupsBefore
    <3> QED
      BY <1>3, <3>1, <3>2
  <2> QED
    BY <2>1, <2>2, CloseIs
<1> QED
  BY <1>4, <1>5

LEMMA OneGroupMore ==
    ASSUME NEW k \in Nat \ {0}
    PROVE  /\ GroupsBefore(k + 1) = GroupsBefore(k) \union {Neighbours(k)}
           /\ IsFiniteSet(GroupsBefore(k)) /\ Cardinality(GroupsBefore(k)) \in Nat
<1>1. 1 .. (k + 1) - 1 = (1 .. k - 1) \union {k}
  OBVIOUS
<1>2. GroupsBefore(k + 1) = GroupsBefore(k) \union {Neighbours(k)}
  BY <1>1 DEF GroupsBefore
<1>3. IsFiniteSet(GroupsBefore(k))
  <2> DEFINE f == [j \in 1 .. k - 1 |-> Neighbours(j)]
  <2>1. IsFiniteSet(1 .. k - 1)
    BY FS_Interval
  <2>2. IsFiniteSet({f[j] : j \in 1 .. k - 1})
    <3> HIDE DEF f
    <3> QED
      BY <2>1, Image
  <2> QED
    BY <2>2 DEF GroupsBefore
<1> QED
  BY <1>2, <1>3, FS_CardinalityType

\* While the clusters stay the same, so do their groups.
LEMMA SameClusters ==
    ASSUME UNCHANGED clusters
    PROVE  /\ Clear' = Clear /\ \A k : Neighbours(k)' = Neighbours(k)
           /\ \A S : MeanOf(S)' = MeanOf(S)
           /\ \A k : GroupsBefore(k)' = GroupsBefore(k)
<1>1. \A k : Neighbours(k)' = Neighbours(k)
  BY DEF Neighbours
<1>2. \A S : MeanOf(S)' = MeanOf(S)
  BY DEF MeanOf
<1>3. \A k : GroupsBefore(k)' = GroupsBefore(k)
  BY <1>1 DEF GroupsBefore
<1>4. Clear' = Clear
  BY DEF Clear, Neighbours, MeanOf
<1> QED
  BY <1>1, <1>2, <1>3, <1>4

LEMMA ClusterStays ==
    TraceInv /\ doc \in Sound /\ pc = "done" /\ Cluster =>
        TraceTypes' /\ Progress' /\ GroupsMerged'
<1> SUFFICES ASSUME TraceInv, doc \in Sound, pc = "done", Cluster
             PROVE  TraceTypes' /\ Progress' /\ GroupsMerged'
  OBVIOUS
<1>1. /\ trace_pc = "cluster" /\ cluster_count \in Nat \ {0}
      /\ clusters = << >> /\ endpoints = << >> /\ merging = 1 /\ used = {}
      /\ traced \in Sound /\ EdgesAtPoints(traced)
  BY SoundTyped DEF TraceInv, TraceTypes, Cluster
<1>2. /\ cluster_count' = cluster_count + 1
      /\ merging' = merging /\ used' = used /\ endpoints' = endpoints /\ traced' = traced
  BY DEF Cluster, NextCount
<1>3. cluster_count + 1 \in Nat \ {0}
  BY <1>1
<1>4. \/ trace_pc' = "cluster" /\ clusters' = clusters
      \/ trace_pc' = "merge" /\ clusters' \in Seq(Int) /\ clusters' # << >>
  <2>1. PICK groups \in KMeans(cluster_count + 1) :
          IF RoughlyEqual(groups)
          THEN trace_pc' = "merge" /\ \E order \in SetToSeqs(groups) : clusters' = Read(order)
          ELSE UNCHANGED <<trace_pc, clusters>>
    BY DEF Cluster, NextCount
  <2>2. CASE RoughlyEqual(groups)
    <3>1. /\ IsFiniteSet(groups) /\ groups # {}
          /\ \A G \in groups : G \subseteq Int /\ IsFiniteSet(G) /\ G # {}
      BY <1>3, GroupsFound
    <3>2. PICK order \in SetToSeqs(groups) : clusters' = Read(order)
      BY <2>1, <2>2
    <3> QED
      BY <2>1, <2>2, <3>1, <3>2, ReadWhole
  <2>3. CASE ~ RoughlyEqual(groups)
    BY <2>1, <2>3, <1>1
  <2> QED
    BY <2>2, <2>3
<1>5. clusters' \in Seq(Int) /\ Len(clusters') \in Nat
  <2>1. clusters' \in Seq(Int)
    BY <1>1, <1>4, EmptySeq
  <2> QED
    BY <2>1, LenProperties
<1>6. endpoints' \in Seq(Int) /\ Len(endpoints') = 0 /\ DOMAIN endpoints' = {}
  BY <1>1, <1>2, EmptySeq
<1>7. TracerTypes'
  BY <1>1, <1>2, <1>5, <1>6 DEF TracerTypes
<1>8. TraceTypes'
  BY <1>1, <1>2, <1>3, <1>4, <1>7 DEF TraceTypes
<1>9. Progress'
  BY <1>1, <1>2, <1>4 DEF Progress
<1>10. GroupsMerged'
  <2>1. GroupsBefore(merging)' = {}
    BY <1>1, <1>2 DEF GroupsBefore
  <2>2. ToSet(endpoints') = {}
    BY <1>6 DEF ToSet
  <2> QED
    BY <1>1, <1>2, <1>6, <2>1, <2>2, FS_EmptySet DEF GroupsMerged
<1> QED
  BY <1>8, <1>9, <1>10

\* The types in the loop over close_clusters.
LEMMA InLoop ==
    ASSUME TraceInv, trace_pc = "merge", merging <= Len(clusters)
    PROVE  /\ clusters \in Seq(Int) /\ endpoints \in Seq(Int) /\ merging \in DOMAIN clusters
           /\ Len(clusters) \in Nat /\ Len(endpoints) \in Nat /\ merging \in Nat \ {0}
           /\ merging + 1 \in 1 .. Len(clusters) + 1
           /\ Len(endpoints) < merging
           /\ used \subseteq DOMAIN clusters
<1>1. /\ clusters \in Seq(Int) /\ endpoints \in Seq(Int) /\ merging \in 1 .. Len(clusters) + 1
      /\ Len(endpoints) < merging /\ used \subseteq DOMAIN clusters
  BY DEF TraceInv, TraceTypes, TracerTypes
<1>2. Len(clusters) \in Nat /\ Len(endpoints) \in Nat /\ DOMAIN clusters = 1 .. Len(clusters)
  BY <1>1, LenProperties
<1> QED
  BY <1>1, <1>2

LEMMA PassByStays ==
    TraceInv /\ PassBy => TraceTypes' /\ Progress' /\ GroupsMerged'
<1> SUFFICES ASSUME TraceInv, PassBy
             PROVE  TraceTypes' /\ Progress' /\ GroupsMerged'
  OBVIOUS
<1>1. /\ trace_pc = "merge" /\ merging <= Len(clusters) /\ Close(merging) \subseteq used
      /\ merging' = merging + 1 /\ cluster_count' = cluster_count
      /\ clusters' = clusters /\ used' = used /\ endpoints' = endpoints
      /\ traced' = traced /\ trace_pc' = trace_pc
  BY DEF PassBy, Merged
<1>2. /\ clusters \in Seq(Int) /\ endpoints \in Seq(Int) /\ merging \in DOMAIN clusters
      /\ Len(clusters) \in Nat /\ Len(endpoints) \in Nat /\ merging \in Nat \ {0}
      /\ merging + 1 \in 1 .. Len(clusters) + 1
      /\ Len(endpoints) < merging + 1
  BY <1>1, InLoop
<1>3. TraceTypes'
  <2>1. TracerTypes'
    BY <1>1, <1>2 DEF TraceInv, TraceTypes, TracerTypes
  <2> QED
    BY <1>1, <2>1 DEF TraceInv, TraceTypes
<1>4. merging \in used
  BY <1>1, <1>2, CloseIs
<1>5. Progress'
  <2>1. 1 .. (merging + 1) - 1 = (1 .. merging - 1) \union {merging}
    BY <1>2
  <2> QED
    BY <1>1, <1>4, <2>1 DEF TraceInv, Progress
<1>6. GroupsMerged'
  <2>1. ASSUME Clear
        PROVE  /\ used = UNION GroupsBefore(merging + 1)
               /\ GroupsBefore(merging + 1) = GroupsBefore(merging)
    <3>1. used = UNION GroupsBefore(merging)
      BY <2>1 DEF TraceInv, GroupsMerged
    <3>2. Neighbours(merging) \in GroupsBefore(merging)
      BY <2>1, <3>1, <1>2, <1>4, GroupPassed
    <3> QED
      BY <3>1, <3>2, <1>2, OneGroupMore
  <2> QED
    BY <1>1, <2>1, SameClusters DEF TraceInv, GroupsMerged
<1> QED
  BY <1>3, <1>5, <1>6

LEMMA AddEndpointStays ==
    TraceInv /\ AddEndpoint => TraceTypes' /\ Progress' /\ GroupsMerged'
<1> SUFFICES ASSUME TraceInv, AddEndpoint
             PROVE  TraceTypes' /\ Progress' /\ GroupsMerged'
  OBVIOUS
<1> DEFINE e == Middle(Close(merging))
<1>1. /\ trace_pc = "merge" /\ merging <= Len(clusters) /\ ~ (Close(merging) \subseteq used)
      /\ merging' = merging + 1 /\ cluster_count' = cluster_count
      /\ clusters' = clusters /\ used' = used \union Close(merging)
      /\ endpoints' = Append(endpoints, e)
      /\ traced' = traced /\ trace_pc' = trace_pc
  BY DEF AddEndpoint, Merged
<1>2. /\ clusters \in Seq(Int) /\ endpoints \in Seq(Int) /\ merging \in DOMAIN clusters
      /\ Len(clusters) \in Nat /\ Len(endpoints) \in Nat /\ merging \in Nat \ {0}
      /\ merging + 1 \in 1 .. Len(clusters) + 1
      /\ Len(endpoints) < merging /\ used \subseteq DOMAIN clusters
  BY <1>1, InLoop
<1>3. Close(merging) \subseteq DOMAIN clusters /\ merging \in Close(merging)
  BY <1>2, CloseIs
<1>4. e \in Int
  BY <1>2, <1>3, MiddleWhole
<1> HIDE DEF e
<1>5. /\ endpoints' \in Seq(Int) /\ Len(endpoints') = Len(endpoints) + 1
      /\ ToSet(endpoints') = ToSet(endpoints) \union {e}
      /\ endpoints' # << >>
  <2>1. endpoints' \in Seq(Int) /\ Len(endpoints') = Len(endpoints) + 1
    BY <1>1, <1>2, <1>4, AppendProperties
  <2>2. Len(endpoints') # 0
    BY <1>2, <2>1
  <2> QED
    BY <1>1, <1>2, <1>4, <2>1, <2>2, Grown, EmptySeq
<1>6. TraceTypes'
  <2>1. Len(endpoints') < merging + 1 /\ used' \subseteq DOMAIN clusters
    BY <1>1, <1>2, <1>3, <1>5
  <2>2. TracerTypes'
    BY <1>1, <1>2, <1>5, <2>1 DEF TraceInv, TraceTypes, TracerTypes
  <2> QED
    BY <1>1, <2>2 DEF TraceInv, TraceTypes
<1>7. Progress'
  <2>1. 1 .. (merging + 1) - 1 = (1 .. merging - 1) \union {merging}
    BY <1>2
  <2> QED
    BY <1>1, <1>3, <1>5, <2>1 DEF TraceInv, Progress
<1>8. GroupsMerged'
  <2>1. ASSUME Clear
        PROVE  /\ used' = UNION GroupsBefore(merging + 1)
               /\ Len(endpoints') = Cardinality(GroupsBefore(merging + 1))
               /\ ToSet(endpoints') = {MeanOf(S) : S \in GroupsBefore(merging + 1)}
    <3>1. /\ used = UNION GroupsBefore(merging)
          /\ Len(endpoints) = Cardinality(GroupsBefore(merging))
          /\ ToSet(endpoints) = {MeanOf(S) : S \in GroupsBefore(merging)}
      BY <2>1 DEF TraceInv, GroupsMerged
    <3>2. Neighbours(merging) \notin GroupsBefore(merging) /\ Close(merging) = Neighbours(merging)
      BY <1>1, <1>2, <2>1, <3>1, GroupPassed
    <3>3. /\ GroupsBefore(merging + 1) = GroupsBefore(merging) \union {Neighbours(merging)}
          /\ IsFiniteSet(GroupsBefore(merging))
      BY <1>2, OneGroupMore
    <3>4. e = MeanOf(Neighbours(merging))
      BY <1>2, <1>3, <2>1, <3>2, MiddleWhole DEF Clear, e
    <3>5. Cardinality(GroupsBefore(merging + 1)) = Cardinality(GroupsBefore(merging)) + 1
      BY <3>2, <3>3, FS_AddElement
    <3> QED
      BY <1>1, <1>5, <3>1, <3>2, <3>3, <3>4, <3>5
  <2> QED
    BY <1>1, <2>1, SameClusters DEF GroupsMerged
<1> QED
  BY <1>6, <1>7, <1>8

LEMMA SortStays ==
    TraceInv /\ SortEndpoints => TraceTypes' /\ Progress' /\ GroupsMerged'
<1> SUFFICES ASSUME TraceInv, SortEndpoints
             PROVE  TraceTypes' /\ Progress' /\ GroupsMerged'
  OBVIOUS
<1>1. /\ trace_pc = "merge" /\ merging > Len(clusters)
      /\ merging' = merging /\ cluster_count' = cluster_count
      /\ clusters' = clusters /\ used' = used /\ traced' = traced /\ trace_pc' = "trace"
  BY DEF SortEndpoints
<1>2. PICK order \in SetToSeqs(DOMAIN endpoints) :
          endpoints' = [k \in DOMAIN order |-> endpoints[order[k]]]
  BY DEF SortEndpoints
<1>3. /\ endpoints \in Seq(Int) /\ merging \in 1 .. Len(clusters) + 1
      /\ clusters \in Seq(Int) /\ Len(clusters) \in Nat
  <2>1. /\ endpoints \in Seq(Int) /\ merging \in 1 .. Len(clusters) + 1
        /\ clusters \in Seq(Int)
    BY DEF TraceInv, TraceTypes, TracerTypes
  <2> QED
    BY <2>1, LenProperties
<1> DEFINE m == Len(endpoints)
<1>4. m \in Nat /\ DOMAIN endpoints = 1 .. m /\ \A k \in 1 .. m : endpoints[k] \in Int
  BY <1>3, LenProperties, ElementOfSeq
<1>5. IsFiniteSet(DOMAIN endpoints) /\ Cardinality(DOMAIN endpoints) = m
  <2> HIDE DEF m
  <2> QED
    BY <1>4, FS_Interval
<1>6. /\ DOMAIN order = 1 .. m
      /\ \A k \in 1 .. m : order[k] \in 1 .. m
      /\ ToSet(order) = 1 .. m
  <2>1. /\ Len(order) = Cardinality(DOMAIN endpoints) /\ DOMAIN order = 1 .. Len(order)
        /\ \A k \in DOMAIN order : order[k] \in DOMAIN endpoints
        /\ ToSet(order) = DOMAIN endpoints
    BY <1>5, Ordered
  <2> QED
    BY <2>1, <1>4, <1>5
<1> HIDE DEF m
<1>7. endpoints' \in [1 .. m -> Int]
  BY <1>2, <1>4, <1>6
<1>8. endpoints' \in Seq(Int) /\ Len(endpoints') = m /\ DOMAIN endpoints' = 1 .. m
  <2>1. endpoints' \in Seq(Int) /\ DOMAIN endpoints' = 1 .. m
    BY <1>4, <1>7, SeqDef
  <2>2. Len(endpoints') \in Nat /\ DOMAIN endpoints' = 1 .. Len(endpoints')
    BY <2>1, LenProperties
  <2> QED
    BY <2>1, <2>2, <1>4
<1>9. ToSet(endpoints') = ToSet(endpoints)
  <2>1. \A k \in 1 .. m : \E j \in 1 .. m : order[j] = k
    BY <1>6 DEF ToSet
  <2>2. \A k \in 1 .. m : endpoints'[k] = endpoints[order[k]]
    BY <1>2, <1>6
  <2> QED
    BY <2>1, <2>2, <1>4, <1>6, <1>8 DEF ToSet
<1>10. merging = Len(clusters) + 1
  BY <1>1, <1>3
<1>11. TraceTypes'
  <2>1. TracerTypes'
    BY <1>1, <1>8 DEF TraceInv, TraceTypes, TracerTypes, m
  <2> QED
    BY <1>1, <2>1 DEF TraceInv, TraceTypes
<1>12. Progress'
  <2>1. endpoints # << >> => endpoints' # << >>
    BY <1>3, <1>8, EmptySeq DEF m
  <2> QED
    BY <1>1, <1>10, <2>1 DEF TraceInv, Progress
<1>13. GroupsMerged'
  BY <1>1, <1>8, <1>9, SameClusters DEF TraceInv, GroupsMerged, m
<1> QED
  BY <1>11, <1>12, <1>13

-----------------------------------------------------------------------------
\* The segments of a list, added to an empty document one after the other.
JoinedUpTo(N, order, g) ==
    g = [k \in 0 .. N |-> IF k = 0 THEN EmptyDocument
                          ELSE AddSegment(g[k - 1], order[k][1], order[k][2])]

LEMMA SegmentEnds == \A e \in Segment : /\ e[1] \in Location /\ e[2] \in Location
                                        /\ e = <<e[1], e[2]>>
BY DEF Segment

LEMMA JoinAll ==
    ASSUME NEW N \in Nat, NEW order, \A k \in 1 .. N : order[k] \in Segment
    PROVE  \E g : JoinedUpTo(N, order, g)
<1>0. \A k \in 1 .. N : \A f \in Sound : AddSegment(f, order[k][1], order[k][2]) \in Sound
  BY SegmentEnds, SegmentAdded
<1> DEFINE next == [k \in 1 .. N |->
                       [f \in Sound |-> AddSegment(f, order[k][1], order[k][2])]]
<1>1. next \in [1 .. N -> [Sound -> Sound]]
  BY <1>0
<1>2. PICK f \in [0 .. N -> Sound] :
          f[0] = EmptyDocument /\ \A k \in 1 .. N : f[k] = next[k][f[k - 1]]
  <2> HIDE DEF next
  <2> QED
    BY <1>1, EmptySound, Stepwise
<1>3. \A k \in 1 .. N : f[k] = AddSegment(f[k - 1], order[k][1], order[k][2])
  <2>1. \A k \in 1 .. N : f[k - 1] \in Sound
    OBVIOUS
  <2> QED
    BY <1>2, <2>1
<1> HIDE DEF next
<1>4. \A k \in 0 .. N : f[k] = IF k = 0 THEN EmptyDocument
                               ELSE AddSegment(f[k - 1], order[k][1], order[k][2])
  BY <1>2, <1>3
<1> QED
  BY <1>2, <1>4 DEF JoinedUpTo

\* A document with the first k segments of the list as its edges.
Holds(k, order, d) ==
    /\ d \in Sound /\ Len(d.edges) = k
    /\ \A m \in 1 .. k : d.edges[m] = order[m]

LEMMA OneJoined ==
    ASSUME NEW k \in Nat \ {0}, NEW order, order[k] \in Segment, NEW d, Holds(k - 1, order, d)
    PROVE  Holds(k, order, AddSegment(d, order[k][1], order[k][2]))
<1> DEFINE e == AddSegment(d, order[k][1], order[k][2])
<1>1. d \in Sound /\ Len(d.edges) = k - 1 /\ \A m \in 1 .. k - 1 : d.edges[m] = order[m]
  BY DEF Holds
<1>2. e \in Sound /\ e.edges = Append(d.edges, order[k])
  <2>1. /\ order[k][1] \in Location /\ order[k][2] \in Location
        /\ order[k] = <<order[k][1], order[k][2]>>
    BY SegmentEnds
  <2>2. e \in Sound /\ e.edges = Append(d.edges, <<order[k][1], order[k][2]>>)
    BY <1>1, <2>1, SegmentAdded
  <2> HIDE DEF e
  <2> QED
    BY <2>1, <2>2
<1>3. d.edges \in Seq(Segment)
  BY <1>1, SoundTyped DEF Segment
<1>4. /\ Len(e.edges) = k /\ e.edges[k] = order[k]
      /\ \A m \in 1 .. k - 1 : e.edges[m] = d.edges[m]
  <2>1. /\ Len(Append(d.edges, order[k])) = Len(d.edges) + 1
        /\ \A m \in 1 .. Len(d.edges) : Append(d.edges, order[k])[m] = d.edges[m]
        /\ Append(d.edges, order[k])[Len(d.edges) + 1] = order[k]
    BY <1>3, AppendProperties
  <2> HIDE DEF e
  <2> QED
    BY <2>1, <1>1, <1>2
<1>5. \A m \in 1 .. k : m = k \/ m \in 1 .. k - 1
  OBVIOUS
<1> HIDE DEF e
<1>6. Holds(k, order, e)
  BY <1>1, <1>2, <1>4, <1>5 DEF Holds
<1> QED
  BY <1>6 DEF e

LEMMA JoinAllHolds ==
    ASSUME NEW N \in Nat, NEW order, \A k \in 1 .. N : order[k] \in Segment,
           NEW g, JoinedUpTo(N, order, g)
    PROVE  Holds(N, order, g[N])
<1>1. \A k \in 0 .. N : g[k] = IF k = 0 THEN EmptyDocument
                               ELSE AddSegment(g[k - 1], order[k][1], order[k][2])
  BY DEF JoinedUpTo
<1> DEFINE T == {k \in 0 .. N : Holds(k, order, g[k])}
<1>2. 0 \in T
  <2>1. g[0] = EmptyDocument
    BY <1>1
  <2>2. Len(EmptyDocument.edges) = 0
    BY EmptySeq DEF EmptyDocument
  <2> QED
    BY <2>1, <2>2, EmptySound DEF Holds
<1>3. ASSUME NEW k \in 1 .. N, k - 1 \in T PROVE k \in T
  <2>1. /\ g[k] = AddSegment(g[k - 1], order[k][1], order[k][2]) /\ k \in 0 .. N
        /\ Holds(k - 1, order, g[k - 1]) /\ k \in Nat \ {0}
    BY <1>1, <1>3
  <2> QED
    BY <2>1, OneJoined
<1>4. \A k \in 0 .. N : k \in T
  <2> HIDE DEF T
  <2> QED
    BY <1>2, <1>3, NumbersUpTo
<1> QED
  BY <1>4

\* The traced document has the segments of the list as its edges.
LEMMA JoinedIs ==
    ASSUME NEW order \in Seq(Segment)
    PROVE  Joined(order) \in Sound /\ Joined(order).edges = order
<1> DEFINE g == CHOOSE h : JoinedUpTo(Len(order), order, h)
<1>1. /\ Len(order) \in Nat /\ \A k \in 1 .. Len(order) : order[k] \in Segment
      /\ DOMAIN order = 1 .. Len(order)
  BY LenProperties, ElementOfSeq
<1>2. JoinedUpTo(Len(order), order, g)
  BY <1>1, JoinAll, Zenon
<1>3. Joined(order) = g[Len(order)]
  BY DEF Joined, JoinedUpTo
<1>4. Holds(Len(order), order, Joined(order))
  BY <1>1, <1>2, <1>3, JoinAllHolds
<1>5. Joined(order).edges \in Seq(Segment) /\ Len(Joined(order).edges) = Len(order)
  BY <1>4, SoundTyped DEF Holds, Segment
<1>6. Joined(order).edges = order
  BY <1>4, <1>5, SeqEqual DEF Holds
<1> QED
  BY <1>4, <1>6 DEF Holds

-----------------------------------------------------------------------------
\* There is a nearest endpoint if there is any.
LEMMA NearestIs ==
    ASSUME endpoints \in Seq(Int), endpoints # << >>, NEW l \in Int
    PROVE  Nearest(l) \in Int
<1>1. /\ Len(endpoints) \in Nat /\ DOMAIN endpoints = 1 .. Len(endpoints)
      /\ Len(endpoints) # 0
      /\ \A k \in DOMAIN endpoints : endpoints[k] \in Int
  BY LenProperties, ElementOfSeq, EmptySeq
<1> DEFINE dist(k) == Abs(l - endpoints[k])
           dists == {dist(k) : k \in DOMAIN endpoints}
           nearest == {k \in DOMAIN endpoints : \A m \in DOMAIN endpoints : dist(k) <= dist(m)}
<1>2. \A k \in DOMAIN endpoints : dist(k) \in Nat
  BY <1>1 DEF Abs
<1>3. 1 \in DOMAIN endpoints
  BY <1>1
<1>4. Nearest(l) = endpoints[Min(nearest)]
  BY DEF Nearest
<1> HIDE DEF dist
<1>5. nearest # {}
  <2>1. dists \in SUBSET Nat /\ dists # {}
    BY <1>2, <1>3
  <2>2. PICK x \in dists : \A y \in dists : x <= y
    <3> HIDE DEF dists
    <3> QED
      BY <2>1, LeastNumber
  <2> QED
    BY <2>2
<1>6. nearest \in SUBSET Nat
  BY <1>1
<1>7. Min(nearest) \in nearest
  <2> HIDE DEF nearest
  <2>1. \E x \in nearest : \A y \in nearest : x <= y
    BY <1>5, <1>6, LeastNumber
  <2> QED
    BY <2>1 DEF Min
<1>8. Min(nearest) \in DOMAIN endpoints
  BY <1>7
<1> QED
  BY <1>1, <1>4, <1>8

LEMMA PairIs ==
    ASSUME NEW a \in Int, NEW b \in Int
    PROVE  LET c == OrderedPair(a, b)
           IN  /\ c \in Segment /\ c[1] <= c[2]
               /\ {c[1], c[2]} = {a, b} /\ (c[1] = c[2] <=> a = b)
BY DEF OrderedPair, Segment, Location

LEMMA TwoElements == \A a, b : Cardinality({a, b}) = 2 <=> a # b
<1>1. \A a : Cardinality({a}) = 1 /\ IsFiniteSet({a})
  BY FS_Singleton
<1>2. ASSUME NEW a, NEW b, a # b PROVE Cardinality({a, b}) = 2
  <2>1. {a, b} = {a} \union {b} /\ b \notin {a}
    BY <1>2
  <2>2. Cardinality({a} \union {b}) = Cardinality({a}) + 1
    BY <1>1, <2>1, FS_AddElement
  <2> QED
    BY <1>1, <2>1, <2>2
<1>3. ASSUME NEW a PROVE Cardinality({a, a}) # 2
  <2>1. {a, a} = {a}
    OBVIOUS
  <2> QED
    BY <1>1, <2>1
<1> QED
  BY <1>2, <1>3

\* Segments with their ends in order: as many lines as there are segments.
LEMMA LinesCounted ==
    ASSUME NEW C, IsFiniteSet(C), C \subseteq Segment, \A c \in C : c[1] < c[2]
    PROVE  Cardinality({{c[1], c[2]} : c \in C}) = Cardinality(C)
<1> DEFINE L == {{c[1], c[2]} : c \in C}
           f == [c \in C |-> {c[1], c[2]}]
<1>1. f \in [C -> L] /\ \A x \in L : \E c \in C : f[c] = x
  OBVIOUS
<1>2. ASSUME NEW c \in C, NEW d \in C, f[c] = f[d] PROVE c = d
  <2>1. {c[1], c[2]} = {d[1], d[2]}
    BY <1>2
  <2>2. /\ c[1] \in Int /\ c[2] \in Int /\ d[1] \in Int /\ d[2] \in Int
        /\ c = <<c[1], c[2]>> /\ d = <<d[1], d[2]>>
    BY SegmentEnds DEF Location
  <2>3. c[1] < c[2] /\ d[1] < d[2]
    OBVIOUS
  <2>4. (c[1] = d[1] /\ c[2] = d[2]) \/ (c[1] = d[2] /\ c[2] = d[1])
    BY <2>1, <2>2, <2>3
  <2>5. c[1] = d[1] /\ c[2] = d[2]
    BY <2>2, <2>3, <2>4
  <2> QED
    BY <2>2, <2>5
<1> HIDE DEF f, L
<1>3. f \in Bijection(C, L)
  <2>1. f \in Injection(C, L)
    BY <1>1, <1>2, Fun_IsInj
  <2>2. f \in Surjection(C, L)
    BY <1>1, Fun_IsSurj
  <2> QED
    BY <2>1, <2>2 DEF Bijection
<1>4. ExistsBijection(C, L)
  BY <1>3 DEF ExistsBijection
<1>5. Cardinality(L) = Cardinality(C)
  BY <1>4, FS_Bijection
<1> QED
  BY <1>5 DEF L

\* The segments that are traced, and the lines that the drawing shows.
Segments == {c \in Connections : c[1] # c[2]}
Seen == {{Nearest(e[1]), Nearest(e[2])} : e \in ToSet(doc.edges)}

LEMMA ConnectionsAre ==
    ASSUME doc \in Sound, endpoints \in Seq(Int), endpoints # << >>
    PROVE  /\ IsFiniteSet(Segments) /\ Segments \subseteq Segment
           /\ \A c \in Segments : c[1] < c[2] /\ {c[1], c[2]} \in Seen
           /\ \A L \in Seen : Cardinality(L) = 2 => \E c \in Segments : L = {c[1], c[2]}
<1> DEFINE E == ToSet(doc.edges)
           pair(e) == OrderedPair(Nearest(e[1]), Nearest(e[2]))
<1>1. IsFiniteSet(E) /\ E \subseteq Segment
  <2>1. doc.edges \in Seq(Segment)
    BY SoundTyped DEF Segment
  <2>2. /\ Len(doc.edges) \in Nat /\ DOMAIN doc.edges = 1 .. Len(doc.edges)
        /\ \A k \in 1 .. Len(doc.edges) : doc.edges[k] \in Segment
    BY <2>1, LenProperties, ElementOfSeq
  <2>3. E = {doc.edges[k] : k \in 1 .. Len(doc.edges)}
    BY <2>2 DEF ToSet
  <2>4. IsFiniteSet(1 .. Len(doc.edges))
    BY <2>2, FS_Interval
  <2>5. IsFiniteSet({doc.edges[k] : k \in 1 .. Len(doc.edges)})
    BY <2>4, Image
  <2> QED
    BY <2>2, <2>3, <2>5
<1>2. ASSUME NEW e \in E
      PROVE  /\ pair(e) \in Segment /\ pair(e)[1] <= pair(e)[2]
             /\ {pair(e)[1], pair(e)[2]} = {Nearest(e[1]), Nearest(e[2])}
             /\ pair(e)[1] = pair(e)[2] <=> Nearest(e[1]) = Nearest(e[2])
  <2>1. e[1] \in Int /\ e[2] \in Int
    BY <1>1, SegmentEnds DEF Location
  <2>2. Nearest(e[1]) \in Int /\ Nearest(e[2]) \in Int
    BY <2>1, NearestIs
  <2> QED
    BY <2>2, PairIs
<1>3. Connections = {pair(e) : e \in E}
  BY DEF Connections
<1>4. Seen = {{Nearest(e[1]), Nearest(e[2])} : e \in E}
  BY DEF Seen
<1>5. IsFiniteSet(Connections)
  <2> DEFINE f == [e \in E |-> pair(e)]
  <2>1. Connections = {f[e] : e \in E}
    BY <1>3
  <2> HIDE DEF f
  <2> QED
    BY <1>1, <2>1, Image
<1> HIDE DEF E, pair
<1>6. Segments \in SUBSET Connections
  BY DEF Segments
<1>7. IsFiniteSet(Segments) /\ Segments \subseteq Segment
  BY <1>2, <1>3, <1>5, <1>6, FS_Subset
<1>8. ASSUME NEW c \in Segments PROVE c[1] < c[2] /\ {c[1], c[2]} \in Seen
  <2>1. PICK e \in E : c = pair(e)
    BY <1>3, <1>6
  <2>2. c[1] # c[2] /\ c[1] <= c[2] /\ {c[1], c[2]} \in Seen
    BY <2>1, <1>2, <1>4 DEF Segments
  <2>3. c[1] \in Int /\ c[2] \in Int
    BY <1>7, SegmentEnds DEF Location
  <2> QED
    BY <2>2, <2>3
<1>9. ASSUME NEW L \in Seen, Cardinality(L) = 2
      PROVE  \E c \in Segments : L = {c[1], c[2]}
  <2>1. PICK e \in E : L = {Nearest(e[1]), Nearest(e[2])}
    BY <1>4
  <2>2. Nearest(e[1]) # Nearest(e[2])
    BY <1>9, <2>1, TwoElements
  <2>3. pair(e) \in Segments
    BY <1>2, <1>3, <2>2 DEF Segments
  <2> QED
    BY <2>1, <2>3, <1>2
<1> QED
  BY <1>7, <1>8, <1>9

\* The second part of QuotientOfDrawing, for a document that is traced.
Quotient(d) ==
    /\ Len(d.edges) = Cardinality(LinesOf(d))
    /\ \A L \in LinesOf(d) : Cardinality(L) = 2 /\ L \in Seen
    /\ \A L \in Seen : Cardinality(L) = 2 => L \in LinesOf(d)

LEMMA TracedIs ==
    ASSUME doc \in Sound, endpoints \in Seq(Int), endpoints # << >>,
           NEW order \in SetToSeqs(Segments)
    PROVE  Joined(order) \in Sound /\ Quotient(Joined(order))
<1>1. /\ IsFiniteSet(Segments) /\ Segments \subseteq Segment
      /\ \A c \in Segments : c[1] < c[2] /\ {c[1], c[2]} \in Seen
      /\ \A L \in Seen : Cardinality(L) = 2 => \E c \in Segments : L = {c[1], c[2]}
  BY ConnectionsAre
<1>2. /\ order \in Seq(Segments) /\ Len(order) = Cardinality(Segments)
      /\ ToSet(order) = Segments
  BY <1>1, Ordered
<1>3. order \in Seq(Segment)
  <2>1. /\ Len(order) \in Nat /\ DOMAIN order = 1 .. Len(order)
        /\ \A k \in 1 .. Len(order) : order[k] \in Segment
    BY <1>1, <1>2, LenProperties, ElementOfSeq
  <2>2. order \in [1 .. Len(order) -> Segments]
    BY <1>2, LenProperties
  <2>3. order \in [1 .. Len(order) -> Segment]
    BY <1>1, <2>2
  <2> QED
    BY <2>1, <2>3, SeqDef
<1>4. Joined(order) \in Sound /\ Joined(order).edges = order
  BY <1>3, JoinedIs
<1>5. LinesOf(Joined(order)) = {{c[1], c[2]} : c \in Segments}
  <2>1. \A c \in Segments : ToSet(c) = {c[1], c[2]}
    BY <1>1, EndsOfEdge
  <2> QED
    BY <1>2, <1>4, <2>1 DEF LinesOf
<1>6. Cardinality(LinesOf(Joined(order))) = Cardinality(Segments)
  BY <1>1, <1>5, LinesCounted
<1>7. ASSUME NEW L \in LinesOf(Joined(order)) PROVE Cardinality(L) = 2 /\ L \in Seen
  <2>1. PICK c \in Segments : L = {c[1], c[2]}
    BY <1>5
  <2>2. c[1] # c[2]
    BY DEF Segments
  <2> QED
    BY <1>1, <2>1, <2>2, TwoElements
<1>8. \A L \in Seen : Cardinality(L) = 2 => L \in LinesOf(Joined(order))
  BY <1>1, <1>5
<1> QED
  BY <1>2, <1>4, <1>6, <1>7, <1>8 DEF Quotient

LEMMA TraceStays ==
    TraceInv /\ doc \in Sound /\ doc' = doc /\ Trace =>
        TraceTypes' /\ Progress' /\ GroupsMerged' /\ QuotientOfDrawing'
<1> SUFFICES ASSUME TraceInv, doc \in Sound, doc' = doc, Trace
             PROVE  TraceTypes' /\ Progress' /\ GroupsMerged' /\ QuotientOfDrawing'
  OBVIOUS
<1>1. /\ trace_pc = "trace" /\ merging' = merging /\ cluster_count' = cluster_count
      /\ clusters' = clusters /\ used' = used /\ endpoints' = endpoints /\ trace_pc' = "traced"
  BY DEF Trace
<1>2. PICK order \in SetToSeqs(Segments) : traced' = Joined(order)
  BY DEF Trace, Segments
<1>3. endpoints \in Seq(Int) /\ endpoints # << >>
  <2>1. /\ merging = Len(clusters) + 1 /\ clusters # << >> /\ clusters \in Seq(Int)
        /\ endpoints \in Seq(Int)
    BY <1>1 DEF TraceInv, TraceTypes, TracerTypes, Progress
  <2>2. Len(clusters) \in Nat /\ Len(clusters) # 0
    BY <2>1, LenProperties, EmptySeq
  <2>3. 1 \in 1 .. merging - 1
    BY <2>1, <2>2
  <2> QED
    BY <2>1, <2>3 DEF TraceInv, Progress
<1>4. traced' \in Sound /\ Quotient(traced')
  BY <1>2, <1>3, TracedIs
<1>5. EdgesAtPoints(traced')
  BY <1>4, SoundTyped
<1>6. TracerTypes'
  BY <1>1, <1>5 DEF TraceInv, TraceTypes, TracerTypes
<1>7. TraceTypes'
  BY <1>1, <1>4, <1>6 DEF TraceInv, TraceTypes
<1>8. Progress' /\ GroupsMerged'
  BY <1>1, SameClusters DEF TraceInv, Progress, GroupsMerged
<1>9. QuotientOfDrawing'
  <2>1. \A l : Nearest(l)' = Nearest(l)
    BY <1>1 DEF Nearest
  <2>2. Quotient(traced)' = Quotient(traced')
    BY <2>1 DEF Quotient, Seen
  <2>3. Quotient(traced)' /\ TracerTypes' => QuotientOfDrawing'
    BY DEF QuotientOfDrawing, Quotient, Seen
  <2> QED
    BY <1>4, <1>6, <2>2, <2>3
<1> QED
  BY <1>7, <1>8, <1>9

LEMMA TraceInvStays ==
    TraceInv /\ ReadInv /\ [NextBoth]_<<vars, tracer_vars>> => TraceInv'
<1> SUFFICES ASSUME TraceInv, ReadInv, [NextBoth]_<<vars, tracer_vars>> PROVE TraceInv'
  OBVIOUS
<1>1. doc \in Sound
  BY DEF ReadInv
<1>2. ASSUME trace_pc' # "traced", TraceTypes' PROVE QuotientOfDrawing'
  BY <1>2 DEF QuotientOfDrawing, TraceTypes
<1>3. CASE TraceStep
  <2>1. pc = "done" /\ pc' = pc /\ doc' = doc
    BY <1>3 DEF TraceStep, vars
  <2>2. CASE Cluster
    <3>1. trace_pc' # "traced"
      BY <2>2 DEF Cluster
    <3> QED
      BY <2>1, <2>2, <3>1, <1>1, <1>2, ClusterStays DEF TraceInv
  <2>3. CASE PassBy
    <3>1. trace_pc' # "traced"
      BY <2>3 DEF PassBy
    <3> QED
      BY <2>1, <2>3, <3>1, <1>2, PassByStays DEF TraceInv
  <2>4. CASE AddEndpoint
    <3>1. trace_pc' # "traced"
      BY <2>4 DEF AddEndpoint
    <3> QED
      BY <2>1, <2>4, <3>1, <1>2, AddEndpointStays DEF TraceInv
  <2>5. CASE SortEndpoints
    <3>1. trace_pc' # "traced"
      BY <2>5 DEF SortEndpoints
    <3> QED
      BY <2>1, <2>5, <3>1, <1>2, SortStays DEF TraceInv
  <2>6. CASE Trace
    BY <2>1, <2>6, <1>1, TraceStays DEF TraceInv
  <2> QED
    BY <1>3, <2>2, <2>3, <2>4, <2>5, <2>6 DEF TraceStep, TraceNext
<1>4. CASE UNCHANGED tracer_vars /\ (Next \/ UNCHANGED vars)
  <2>1. /\ cluster_count' = cluster_count /\ clusters' = clusters /\ merging' = merging
        /\ used' = used /\ endpoints' = endpoints /\ traced' = traced /\ trace_pc' = trace_pc
    BY <1>4 DEF tracer_vars
  <2>2. TraceTypes' /\ Progress' /\ GroupsMerged'
    BY <2>1, SameClusters DEF TraceInv, TraceTypes, TracerTypes, Progress, GroupsMerged
  <2>3. pc = "done" => UNCHANGED vars
    BY <1>4 DEF Next, ReadLine, SkipNode, RefuseNode, EnterPath, MoveTo, StraightLine,
                ClosePath, ReadNothing, RefuseToken, EndTokens, AddPaths, Finish, AtToken
  <2>4. CASE trace_pc = "cluster"
    BY <2>1, <2>2, <2>4, <1>2 DEF TraceInv
  <2>5. CASE trace_pc # "cluster"
    <3>1. pc = "done" /\ doc' = doc /\ pc' = pc
      BY <2>3, <2>5 DEF TraceInv, vars
    <3>2. \A l : Nearest(l)' = Nearest(l)
      BY <2>1 DEF Nearest
    <3>3. QuotientOfDrawing'
      BY <2>1, <2>2, <3>1, <3>2 DEF TraceInv, TraceTypes, QuotientOfDrawing
    <3> QED
      BY <2>1, <2>2, <3>1, <3>3 DEF TraceInv
  <2> QED
    BY <2>4, <2>5
<1> QED
  BY <1>3, <1>4 DEF NextBoth, ReadStep, vars, tracer_vars

LEMMA AlwaysTraced == SpecBoth => []TraceInv
<1>1. InitBoth => TraceInv
  BY TraceBegins
<1>2. TraceInv /\ ReadInv /\ [NextBoth]_<<vars, tracer_vars>> => TraceInv'
  BY TraceInvStays
<1> QED
  BY <1>1, <1>2, AlwaysRead, PTL DEF SpecBoth

\* Clusters near each other make one endpoint, in whatever order k-means lists them.
THEOREM GroupsBecomeEndpoints == SpecBoth => []OneForEachGroup
<1>1. TraceInv => OneForEachGroup
  <2> SUFFICES ASSUME TraceInv, trace_pc \in {"trace", "traced"}, Clear
               PROVE  LET groups == {Neighbours(k) : k \in DOMAIN clusters}
                      IN  /\ Len(endpoints) = Cardinality(groups)
                          /\ ToSet(endpoints) = {MeanOf(S) : S \in groups}
    BY DEF OneForEachGroup
  <2>1. merging = Len(clusters) + 1 /\ clusters \in Seq(Int)
    BY DEF TraceInv, TraceTypes, TracerTypes, Progress
  <2>2. Len(clusters) \in Nat /\ DOMAIN clusters = 1 .. Len(clusters)
    BY <2>1, LenProperties
  <2>3. merging - 1 = Len(clusters)
    BY <2>1, <2>2
  <2>4. GroupsBefore(merging) = {Neighbours(k) : k \in DOMAIN clusters}
    BY <2>2, <2>3 DEF GroupsBefore
  <2> QED
    BY <2>4 DEF TraceInv, GroupsMerged
<1> QED
  BY <1>1, AlwaysTraced, PTL

\* What is traced is the drawing with the points at an endpoint made one.
THEOREM TracesTheDrawing == SpecBoth => []QuotientOfDrawing
<1>1. TraceInv => QuotientOfDrawing
  BY DEF TraceInv
<1> QED
  BY <1>1, AlwaysTraced, PTL

-----------------------------------------------------------------------------
\* A line as it is drawn, and what the pen of a plain path has done.
Stroke == [ends : Int \X Int, off : Nat]
PenState == [pen : Int, first : Int, off : Nat, lines : Seq(Stroke)]

\* What is lost when a number of halves becomes an int.
LEMMA Rounded ==
    ASSUME NEW h \in Int
    PROVE  2 * Halves(h) - h \in -1 .. 1 /\ (~ IsOdd(h) => 2 * Halves(h) = h)
<1>1. CASE h >= 0
  BY <1>1 DEF Halves, IsOdd
<1>2. CASE ~ (h >= 0)
  <2> DEFINE m == -h
  <2>1. m \in Nat /\ h = -m /\ Halves(h) = -(m \div 2)
    BY <1>2 DEF Halves
  <2>2. m % 2 = 0 \/ m % 2 = 1
    BY <2>1
  <2>3. m = 2 * (m \div 2) + (m % 2) /\ m \div 2 \in Int
    BY <2>1
  <2>4. ~ IsOdd(h) => m % 2 = 0
    BY <2>1 DEF IsOdd
  <2> HIDE DEF m
  <2> QED
    BY <2>1, <2>2, <2>3, <2>4
<1> QED
  BY <1>1, <1>2

\* A step of the pen: the error grows by that of the number, if it is not whole.
LEMMA PenWithin ==
    ASSUME NEW x \in Int, NEW at \in Int, NEW drawn \in Int, NEW off \in Nat,
           Within(at, drawn, off)
    PROVE  /\ Halves(x + 2 * at) \in Int
           /\ Within(Halves(x + 2 * at), x + drawn, off + (IF IsOdd(x) THEN 1 ELSE 0))
<1> DEFINE h == x + 2 * at
           y == Halves(h)
<1>1. h \in Int
  OBVIOUS
<1>2. IsOdd(h) <=> IsOdd(x)
  BY DEF IsOdd
<1>3. 2 * y - h \in -1 .. 1 /\ (~ IsOdd(x) => 2 * y = h) /\ y \in Int
  <2> HIDE DEF h
  <2> QED
    BY <1>1, <1>2, Rounded, WholeHalves
<1>4. 2 * at - drawn \in -off .. off
  BY DEF Within
<1> HIDE DEF y
<1>5. CASE IsOdd(x)
  BY <1>3, <1>4, <1>5 DEF Within, y
<1>6. CASE ~ IsOdd(x)
  BY <1>3, <1>4, <1>6 DEF Within, y
<1> QED
  BY <1>3, <1>5, <1>6 DEF y

LEMMA WithinMore ==
    ASSUME NEW at \in Int, NEW drawn \in Int, NEW off \in Nat, NEW more \in Nat,
           Within(at, drawn, off), off <= more
    PROVE  Within(at, drawn, more)
BY DEF Within

-----------------------------------------------------------------------------
LEMMA FollowMore ==
    ASSUME NEW edges \in Seq(Segment), NEW lines \in Seq(Stroke), Follow(edges, lines),
           NEW a \in Location, NEW b \in Location, NEW s \in Stroke,
           Within(a, s.ends[1], s.off), Within(b, s.ends[2], s.off)
    PROVE  Follow(Append(edges, <<a, b>>), Append(lines, s))
<1> DEFINE e == <<a, b>>
           N == Len(lines)
           E == Append(edges, e)
           L == Append(lines, s)
<1>1. e \in Segment /\ e[1] = a /\ e[2] = b
  BY DEF Segment
<1>2. N \in Nat /\ Len(edges) = N /\ DOMAIN lines = 1 .. N
  BY LenProperties DEF Follow
<1> HIDE DEF e, N
<1>3. Len(E) = N + 1 /\ E[N + 1] = e /\ \A k \in 1 .. N : E[k] = edges[k]
  BY <1>1, <1>2, AppendProperties
<1>4. /\ Len(L) = N + 1 /\ L[N + 1] = s /\ \A k \in 1 .. N : L[k] = lines[k]
      /\ DOMAIN L = 1 .. N + 1
  BY <1>2, AppendProperties, LenProperties DEF N
<1> HIDE DEF E, L
<1>5. ASSUME NEW k \in 1 .. N + 1, NEW j \in 1 .. 2
      PROVE  Within(E[k][j], L[k].ends[j], L[k].off)
  <2>1. CASE k \in 1 .. N
    BY <2>1, <1>2, <1>3, <1>4 DEF Follow
  <2>2. CASE k = N + 1
    <3>1. j = 1 \/ j = 2
      OBVIOUS
    <3> QED
      BY <2>2, <3>1, <1>1, <1>3, <1>4
  <2> QED
    BY <2>1, <2>2, <1>2
<1>6. Follow(E, L)
  BY <1>3, <1>4, <1>5 DEF Follow
<1> QED
  BY <1>6 DEF E, L, e

LEMMA FollowNone == Follow(<< >>, << >>)
<1>1. DOMAIN << >> = {}
  OBVIOUS
<1> QED
  BY <1>1 DEF Follow

\* Lists of lines are put together.
LEMMA Strokes ==
    ASSUME NEW a \in Seq(Stroke), NEW b \in Seq(Stroke), NEW s \in Stroke
    PROVE  /\ a \o b \in Seq(Stroke) /\ Append(b, s) \in Seq(Stroke)
           /\ a \o Append(b, s) = Append(a \o b, s)
           /\ a \o << >> = a /\ a \o <<s>> = Append(a, s)
<1>1. a \o b \in Seq(Stroke) /\ Append(b, s) \in Seq(Stroke)
  BY ConcatProperties, AppendProperties
<1>2. a \o Append(b, s) = Append(a \o b, s)
  OBVIOUS
<1>3. a \o << >> = a /\ a \o <<s>> = Append(a, s)
  OBVIOUS
<1> QED
  BY <1>1, <1>2, <1>3

-----------------------------------------------------------------------------
\* Built and AllBuilt are the last values of the functions they recur by.
LEMMA BuiltIs ==
    ASSUME NEW d \in Sound, NEW p \in Seq(Element)
    PROVE  \E g : PutUpTo(Len(p), d, p, g) /\ Built(d, p) = g[Len(p)]
<1> DEFINE g == CHOOSE h : PutUpTo(Len(p), d, p, h)
<1>1. Len(p) \in Nat /\ \A k \in 1 .. Len(p) : p[k] \in Element
  BY LenProperties, ElementOfSeq
<1>2. PutUpTo(Len(p), d, p, g)
  BY <1>1, PutAll, Zenon
<1>3. Built(d, p) = g[Len(p)]
  BY DEF Built, PutUpTo, Put, Previous
<1> QED
  BY <1>2, <1>3

BuiltOnto(d, paths) ==
    LET g == CHOOSE h : BuiltUpTo(Len(paths), d, paths, h)
    IN  g[Len(paths)]

LEMMA BuiltOntoIs ==
    ASSUME NEW d \in Sound, NEW paths \in Seq(PathList)
    PROVE  \E g : BuiltUpTo(Len(paths), d, paths, g) /\ BuiltOnto(d, paths) = g[Len(paths)]
<1> DEFINE g == CHOOSE h : BuiltUpTo(Len(paths), d, paths, h)
<1>1. Len(paths) \in Nat /\ \A k \in 1 .. Len(paths) : paths[k] \in PathList
  BY LenProperties, ElementOfSeq
<1>2. BuiltUpTo(Len(paths), d, paths, g)
  BY <1>1, BuildAll, Zenon
<1>3. BuiltOnto(d, paths) = g[Len(paths)]
  BY DEF BuiltOnto
<1> QED
  BY <1>2, <1>3

LEMMA AllBuiltIs == AllBuilt = BuiltOnto(doc, elements)
BY DEF AllBuilt, BuiltOnto, BuiltUpTo

\* One element more.
LEMMA BuiltMore ==
    ASSUME NEW d \in Sound, NEW p \in Seq(Element), NEW e \in Element
    PROVE  Built(d, Append(p, e)) =
              IF e.start THEN AddPoint(Built(d, p), e.at)
              ELSE AddSegment(Built(d, p), IF p = << >> THEN 0 ELSE Last(p).at, e.at)
<1> DEFINE N == Len(p)
           q == Append(p, e)
<1>1. /\ N \in Nat /\ q \in Seq(Element) /\ Len(q) = N + 1
      /\ q[N + 1] = e /\ \A k \in 1 .. N : q[k] = p[k]
  BY AppendProperties, LenProperties
<1>2. PICK g : PutUpTo(N, d, p, g) /\ Built(d, p) = g[N]
  BY BuiltIs
<1>3. PICK h : PutUpTo(Len(q), d, q, h) /\ Built(d, q) = h[Len(q)]
  BY <1>1, BuiltIs
<1>4. Previous(q, N + 1) = IF p = << >> THEN 0 ELSE Last(p).at
  <2>1. p = << >> <=> N = 0
    BY EmptySeq
  <2>2. N # 0 => q[N] = p[N] /\ N + 1 # 1 /\ (N + 1) - 1 = N
    BY <1>1
  <2> QED
    BY <2>1, <2>2, <1>1 DEF Previous, Last
<1> HIDE DEF N, q
<1>5. \A k \in 0 .. N : g[k] = IF k = 0 THEN d ELSE Put(p, k, g[k - 1])
  BY <1>2 DEF PutUpTo
<1>6. \A k \in 0 .. N + 1 : h[k] = IF k = 0 THEN d ELSE Put(q, k, h[k - 1])
  BY <1>1, <1>3 DEF PutUpTo
<1> DEFINE T == {k \in Nat : g[k] = h[k]}
<1>7. 0 \in T
  BY <1>1, <1>5, <1>6
<1>8. ASSUME NEW k \in 1 .. N, k - 1 \in T PROVE k \in T
  <2>1. k \in 0 .. N /\ k \in 0 .. N + 1 /\ k # 0 /\ g[k - 1] = h[k - 1]
    BY <1>1, <1>8
  <2>2. Put(p, k, g[k - 1]) = Put(q, k, g[k - 1])
    <3>1. p[k] = q[k]
      BY <1>1
    <3>2. k # 1 => p[k - 1] = q[k - 1]
      <4>1. k # 1 => k - 1 \in 1 .. N
        BY <1>1
      <4> QED
        BY <4>1, <1>1
    <3>3. Previous(p, k) = Previous(q, k)
      BY <3>2 DEF Previous
    <3> QED
      BY <3>1, <3>3 DEF Put
  <2> QED
    BY <2>1, <2>2, <1>5, <1>6
<1>9. h[N] = g[N]
  <2> HIDE DEF T
  <2>1. \A k \in 0 .. N : k \in T
    BY <1>1, <1>7, <1>8, NumbersUpTo
  <2>2. N \in 0 .. N
    BY <1>1
  <2> QED
    BY <2>1, <2>2 DEF T
<1>10. h[N + 1] = Put(q, N + 1, h[N])
  <2>1. N + 1 \in 0 .. N + 1 /\ N + 1 # 0 /\ (N + 1) - 1 = N
    BY <1>1
  <2> QED
    BY <2>1, <1>6
<1>11. Built(d, q) = Put(q, N + 1, Built(d, p))
  BY <1>1, <1>2, <1>3, <1>9, <1>10
<1>12. Built(d, q) =
          IF e.start THEN AddPoint(Built(d, p), e.at)
          ELSE AddSegment(Built(d, p), IF p = << >> THEN 0 ELSE Last(p).at, e.at)
  BY <1>1, <1>4, <1>11 DEF Put
<1> QED
  BY <1>12 DEF q

LEMMA BuiltNone == ASSUME NEW d \in Sound PROVE Built(d, << >>) = d
<1>1. << >> \in Seq(Element) /\ Len(<< >>) = 0
  BY EmptySeq
<1>2. PICK g : PutUpTo(0, d, << >>, g) /\ Built(d, << >>) = g[0]
  BY <1>1, BuiltIs
<1> QED
  BY <1>2 DEF PutUpTo

\* One path more.
LEMMA BuiltOntoMore ==
    ASSUME NEW d \in Sound, NEW paths \in Seq(PathList), NEW p \in PathList
    PROVE  BuiltOnto(d, Append(paths, p)) = Built(BuiltOnto(d, paths), p)
<1> DEFINE N == Len(paths)
           q == Append(paths, p)
<1>1. /\ N \in Nat /\ q \in Seq(PathList) /\ Len(q) = N + 1
      /\ q[N + 1] = p /\ \A k \in 1 .. N : q[k] = paths[k]
  BY AppendProperties, LenProperties
<1>2. PICK g : BuiltUpTo(N, d, paths, g) /\ BuiltOnto(d, paths) = g[N]
  BY BuiltOntoIs
<1>3. PICK h : BuiltUpTo(Len(q), d, q, h) /\ BuiltOnto(d, q) = h[Len(q)]
  BY <1>1, BuiltOntoIs
<1> HIDE DEF N, q
<1>5. \A k \in 0 .. N : g[k] = IF k = 0 THEN d ELSE Built(g[k - 1], paths[k])
  BY <1>2 DEF BuiltUpTo
<1>6. \A k \in 0 .. N + 1 : h[k] = IF k = 0 THEN d ELSE Built(h[k - 1], q[k])
  BY <1>1, <1>3 DEF BuiltUpTo
<1> DEFINE T == {k \in Nat : g[k] = h[k]}
<1>7. 0 \in T
  BY <1>1, <1>5, <1>6
<1>8. ASSUME NEW k \in 1 .. N, k - 1 \in T PROVE k \in T
  <2>1. k \in 0 .. N /\ k \in 0 .. N + 1 /\ k # 0 /\ g[k - 1] = h[k - 1] /\ k \in Nat
    BY <1>1, <1>8
  <2>2. q[k] = paths[k]
    BY <1>1
  <2> QED
    BY <2>1, <2>2, <1>5, <1>6
<1>9. h[N] = g[N]
  <2> HIDE DEF T
  <2>1. \A k \in 0 .. N : k \in T
    BY <1>1, <1>7, <1>8, NumbersUpTo
  <2>2. N \in 0 .. N
    BY <1>1
  <2> QED
    BY <2>1, <2>2 DEF T
<1>10. h[N + 1] = Built(h[N], q[N + 1])
  <2>1. N + 1 \in 0 .. N + 1 /\ N + 1 # 0 /\ (N + 1) - 1 = N
    BY <1>1
  <2> QED
    BY <2>1, <1>6
<1>11. BuiltOnto(d, q) = Built(BuiltOnto(d, paths), p)
  BY <1>1, <1>2, <1>3, <1>9, <1>10
<1> QED
  BY <1>11 DEF q

-----------------------------------------------------------------------------
\* The last path grows by one element.
LEMMA LastGrows ==
    ASSUME NEW d \in Sound, NEW paths \in Seq(PathList), paths # << >>, NEW e \in Element,
           NEW grown \in Seq(PathList), Len(grown) = Len(paths),
           grown[Len(paths)] = Append(paths[Len(paths)], e),
           \A k \in 1 .. Len(paths) - 1 : grown[k] = paths[k]
    PROVE  LET built == BuiltOnto(d, paths)
               p == paths[Len(paths)]
           IN  BuiltOnto(d, grown) =
                  IF e.start THEN AddPoint(built, e.at)
                  ELSE AddSegment(built, IF p = << >> THEN 0 ELSE Last(p).at, e.at)
<1> DEFINE N == Len(paths)
           p == paths[N]
           q == Append(p, e)
<1>1. PICK front \in Seq(PathList), last \in PathList : paths = Append(front, last)
  BY SequenceEmptyOrAppend
<1>2. /\ Len(front) \in Nat /\ N = Len(front) + 1 /\ p = last
      /\ \A k \in 1 .. Len(front) : paths[k] = front[k]
  BY <1>1, AppendProperties, LenProperties
<1>3. p \in Seq(Element) /\ q \in PathList
  BY <1>2, AppendProperties DEF PathList
<1> HIDE DEF N, p, q
<1>4. grown = Append(front, q)
  <2>1. /\ Append(front, q) \in Seq(PathList) /\ Len(Append(front, q)) = N
        /\ Append(front, q)[N] = q
        /\ \A k \in 1 .. Len(front) : Append(front, q)[k] = front[k]
    BY <1>2, <1>3, AppendProperties
  <2>2. ASSUME NEW k \in 1 .. N PROVE grown[k] = Append(front, q)[k]
    <3>1. CASE k = N
      BY <3>1, <2>1 DEF N, p, q
    <3>2. CASE k # N
      <4>1. k \in 1 .. Len(front) /\ k \in 1 .. Len(paths) - 1
        BY <3>2, <1>2 DEF N
      <4> QED
        BY <4>1, <2>1, <1>2
    <3> QED
      BY <3>1, <3>2
  <2>3. Len(grown) = N
    BY DEF N
  <2> QED
    BY <2>1, <2>2, <2>3, SeqEqual
<1>5. BuiltOnto(d, front) \in Sound
  <2>1. PICK g : BuiltUpTo(Len(front), d, front, g) /\ BuiltOnto(d, front) = g[Len(front)]
    BY BuiltOntoIs
  <2>2. \A k \in 1 .. Len(front) : front[k] \in PathList
    BY ElementOfSeq
  <2> QED
    BY <2>1, <2>2, <1>2, BuildAllSound
<1>6. BuiltOnto(d, grown) = Built(BuiltOnto(d, front), q)
  BY <1>3, <1>4, BuiltOntoMore
<1>7. BuiltOnto(d, paths) = Built(BuiltOnto(d, front), p)
  BY <1>1, <1>2, BuiltOntoMore
<1>8. Built(BuiltOnto(d, front), q) =
         IF e.start THEN AddPoint(Built(BuiltOnto(d, front), p), e.at)
         ELSE AddSegment(Built(BuiltOnto(d, front), p), IF p = << >> THEN 0 ELSE Last(p).at, e.at)
  BY <1>3, <1>5, BuiltMore DEF q
<1> QED
  BY <1>6, <1>7, <1>8 DEF N, p

-----------------------------------------------------------------------------
\* A command of a plain path.
LEMMA PlainCommand ==
    ASSUME NEW ts \in Seq(Token), Plain(ts), NEW m \in 1 .. Turns(ts)
    PROVE  /\ 2 * m - 1 \in 1 .. Len(ts) /\ Len(ts) \in Nat
           /\ LetterAt(ts, m) = ts[2 * m - 1].kind
           /\ LetterAt(ts, m) \in Moves \union Lines \union Closes
           /\ m = 1 => LetterAt(ts, m) \in Moves
           /\ LetterAt(ts, m) \in Closes =>
                 /\ m > 1 /\ LetterAt(ts, m - 1) \notin Moves
                 /\ 2 * m <= Len(ts) => ts[2 * m] = Blank
           /\ LetterAt(ts, m) \notin Closes =>
                 /\ 2 * m <= Len(ts) /\ ts[2 * m].kind = "numbers"
                 /\ Len(ts[2 * m].params) = 1 /\ ts[2 * m].params \in Seq(Int)
                 /\ PairAt(ts, m) = ts[2 * m].params[1] /\ PairAt(ts, m) \in Int
<1> DEFINE k == 2 * m - 1
<1>1. Len(ts) \in Nat /\ DOMAIN ts = 1 .. Len(ts)
  BY LenProperties
<1>2. m \in Nat /\ 2 * m <= Len(ts) + 1
  BY <1>1 DEF Turns
<1>3. k \in 1 .. Len(ts) /\ k % 2 = 1 /\ k \in Nat
  BY <1>1, <1>2
<1>4. LetterAt(ts, m) = ts[k].kind
  BY DEF LetterAt
<1>5. /\ ts[k].kind \in Moves \union Lines \union Closes
      /\ k = Len(ts) => ts[k].kind \in Closes
      /\ ts[k].kind \in Closes => ts[k - 2].kind \notin Moves
      /\ ts # << >> => ts[1].kind \in Moves
  <2> HIDE DEF k
  <2>1. k \in DOMAIN ts /\ ~ (k % 2 = 0)
    BY <1>1, <1>3
  <2> QED
    BY <2>1 DEF Plain
<1>6. ts # << >> /\ 1 \in 1 .. Len(ts)
  BY <1>1, <1>3, EmptySeq
<1>7. m = 1 => LetterAt(ts, m) \in Moves
  BY <1>4, <1>5, <1>6
<1>8. Moves \intersect Closes = {}
  BY DEF Moves, Closes
<1>9. LetterAt(ts, m) \in Closes => m > 1 /\ LetterAt(ts, m - 1) \notin Moves
  <2>1. LetterAt(ts, m) \in Closes => m > 1
    BY <1>2, <1>7, <1>8
  <2>2. 2 * (m - 1) - 1 = k - 2
    BY <1>2
  <2> QED
    BY <2>1, <2>2, <1>4, <1>5 DEF LetterAt
<1>10. 2 * m = k + 1 /\ (k < Len(ts) => 2 * m \in DOMAIN ts /\ (2 * m) % 2 = 0)
  BY <1>1, <1>2, <1>3
<1>11. k < Len(ts) =>
          /\ ts[2 * m].kind = "numbers"
          /\ Len(ts[2 * m].params) = (IF ts[k].kind \in Closes THEN 0 ELSE 1)
          /\ ts[2 * m] \in Token
  <2> SUFFICES ASSUME k < Len(ts)
               PROVE  /\ ts[2 * m].kind = "numbers"
                      /\ Len(ts[2 * m].params) = (IF ts[k].kind \in Closes THEN 0 ELSE 1)
                      /\ ts[2 * m] \in Token
    OBVIOUS
  <2>1. 2 * m \in DOMAIN ts /\ (2 * m) % 2 = 0 /\ 2 * m - 1 = k
    BY <1>10
  <2>2. ts[2 * m] \in Token
    BY <2>1, <1>1, ElementOfSeq
  <2>3. \A j \in DOMAIN ts : j % 2 = 0 =>
            /\ ts[j].kind = "numbers"
            /\ Len(ts[j].params) = (IF ts[j - 1].kind \in Closes THEN 0 ELSE 1)
    BY DEF Plain
  <2> QED
    BY <2>1, <2>2, <2>3
<1> HIDE DEF k
<1>12. LetterAt(ts, m) \in Closes /\ 2 * m <= Len(ts) => ts[2 * m] = Blank
  <2> SUFFICES ASSUME LetterAt(ts, m) \in Closes, 2 * m <= Len(ts) PROVE ts[2 * m] = Blank
    OBVIOUS
  <2>1. /\ ts[2 * m].kind = "numbers" /\ Len(ts[2 * m].params) = 0
        /\ ts[2 * m] \in Token
    BY <1>1, <1>3, <1>4, <1>10, <1>11
  <2>2. /\ ts[2 * m].params \in Seq(Int)
        /\ ts[2 * m] = [kind |-> ts[2 * m].kind, params |-> ts[2 * m].params]
    BY <2>1 DEF Token
  <2>3. ts[2 * m].params = << >>
    BY <2>1, <2>2, EmptySeq
  <2> QED
    BY <2>1, <2>2, <2>3 DEF Blank
<1>13. ASSUME LetterAt(ts, m) \notin Closes
       PROVE  /\ 2 * m <= Len(ts) /\ ts[2 * m].kind = "numbers"
              /\ Len(ts[2 * m].params) = 1 /\ ts[2 * m].params \in Seq(Int)
              /\ PairAt(ts, m) = ts[2 * m].params[1] /\ PairAt(ts, m) \in Int
  <2>1. k < Len(ts)
    <3>1. k # Len(ts)
      BY <1>13, <1>4, <1>5
    <3>2. k \in 1 .. Len(ts)
      BY <1>3
    <3>3. \A a \in Nat : \A b \in 1 .. a : b # a => b < a
      OBVIOUS
    <3> QED
      BY <3>1, <3>2, <3>3, <1>1, Zenon
  <2>2. 2 * m <= Len(ts)
    BY <2>1, <1>1, <1>3, <1>10
  <2>3. /\ ts[2 * m].kind = "numbers" /\ Len(ts[2 * m].params) = 1
        /\ ts[2 * m].params \in Seq(Int)
    BY <2>1, <1>4, <1>11, <1>13 DEF Token
  <2>4. ts[2 * m].params[1] \in Int
    BY <2>3, ElementOfSeq
  <2> QED
    BY <2>2, <2>3, <2>4 DEF PairAt
<1> QED
  BY <1>1, <1>3, <1>4, <1>5, <1>7, <1>9, <1>12, <1>13 DEF k

-----------------------------------------------------------------------------
\* The pen of a plain path.
PenDown == [pen |-> 0, first |-> 0, off |-> 0, lines |-> << >>]

LEMMA DrawnTyped ==
    ASSUME NEW ts \in Seq(Token), Plain(ts), NEW m \in 1 .. Turns(ts), NEW before \in PenState
    PROVE  Drawn(ts, m, before) \in PenState
<1> DEFINE letter == LetterAt(ts, m)
           p == IF letter \in Closes THEN before.first
                ELSE PairAt(ts, m) + (IF letter \in {"m", "l"} THEN before.pen ELSE 0)
           off == before.off
                  + (IF letter \notin Closes /\ IsOdd(PairAt(ts, m)) THEN 1 ELSE 0)
           line == [ends |-> <<before.pen, p>>, off |-> off]
<1>1. /\ before.pen \in Int /\ before.first \in Int /\ before.off \in Nat
      /\ before.lines \in Seq(Stroke)
  BY DEF PenState
<1>2. letter \notin Closes => PairAt(ts, m) \in Int
  BY PlainCommand
<1>3. p \in Int /\ off \in Nat
  BY <1>1, <1>2
<1>4. line \in Stroke
  BY <1>1, <1>3 DEF Stroke
<1>5. Append(before.lines, line) \in Seq(Stroke)
  BY <1>1, <1>4, AppendProperties
<1>6. Drawn(ts, m, before) =
        [pen |-> p, first |-> IF letter \in Moves THEN p ELSE before.first, off |-> off,
         lines |-> IF letter \in Moves THEN before.lines ELSE Append(before.lines, line)]
  BY DEF Drawn
<1> HIDE DEF p, off, line, letter
<1> QED
  BY <1>1, <1>3, <1>5, <1>6 DEF PenState

LEMMA PenStates ==
    ASSUME NEW N \in Nat, NEW base \in PenState, NEW next \in [1 .. N -> [PenState -> PenState]]
    PROVE  \E f \in [0 .. N -> PenState] :
              f[0] = base /\ \A k \in 1 .. N : f[k] = next[k][f[k - 1]]
BY Stepwise

LEMMA PenIs ==
    ASSUME NEW ts \in Seq(Token), Plain(ts)
    PROVE  /\ Turns(ts) \in Nat
           /\ \A m \in 0 .. Turns(ts) : Pen(ts)[m] \in PenState
           /\ Pen(ts)[0] = PenDown
           /\ \A m \in 1 .. Turns(ts) : Pen(ts)[m] = Drawn(ts, m, Pen(ts)[m - 1])
<1> DEFINE N == Turns(ts)
           Eq(f) == [m \in 0 .. N |-> IF m = 0 THEN PenDown ELSE Drawn(ts, m, f[m - 1])]
           next == [m \in 1 .. N |-> [s \in PenState |-> Drawn(ts, m, s)]]
<1>1. N \in Nat
  <2>1. Len(ts) \in Nat
    BY LenProperties
  <2> QED
    BY <2>1 DEF Turns
<1>2. PenDown \in PenState
  BY EmptySeq DEF PenDown, PenState
<1>3. next \in [1 .. N -> [PenState -> PenState]]
  BY DrawnTyped
<1>4. \A m \in 1 .. N, s \in PenState : next[m][s] = Drawn(ts, m, s)
  OBVIOUS
<1>5. Pen(ts) = CHOOSE f : f = Eq(f)
  BY DEF Pen, PenDown
<1> HIDE DEF N, next
<1>6. PICK f \in [0 .. N -> PenState] :
          f[0] = PenDown /\ \A k \in 1 .. N : f[k] = next[k][f[k - 1]]
  BY <1>1, <1>2, <1>3, PenStates
<1>7. f = Eq(f)
  <2>1. ASSUME NEW k \in 1 .. N PROVE f[k] = Drawn(ts, k, f[k - 1])
    <3>1. k - 1 \in 0 .. N
      BY <1>1
    <3> QED
      BY <3>1, <1>4, <1>6
  <2>2. \A k \in 0 .. N : k = 0 \/ k \in 1 .. N
    BY <1>1
  <2>3. \A k \in 1 .. N : k # 0
    OBVIOUS
  <2>4. \A k \in 0 .. N : f[k] = IF k = 0 THEN PenDown ELSE Drawn(ts, k, f[k - 1])
    BY <2>1, <2>2, <2>3, <1>6
  <2> QED
    BY <2>4, <1>6
<1>8. Pen(ts) = Eq(Pen(ts))
  BY <1>5, <1>7
<1> DEFINE g == Pen(ts)
<1> HIDE DEF g
<1>9. \A m \in 0 .. N : g[m] = IF m = 0 THEN PenDown ELSE Drawn(ts, m, g[m - 1])
  BY <1>8 DEF g
<1>10. g[0] = PenDown /\ \A m \in 1 .. N : g[m] = Drawn(ts, m, g[m - 1])
  <2>1. 0 \in 0 .. N /\ \A m \in 1 .. N : m \in 0 .. N /\ m # 0
    BY <1>1
  <2> QED
    BY <2>1, <1>9
<1> DEFINE T == {m \in Nat : g[m] \in PenState}
<1>11. 0 \in T
  BY <1>2, <1>10
<1>12. ASSUME NEW m \in 1 .. N, m - 1 \in T PROVE m \in T
  <2>1. Drawn(ts, m, g[m - 1]) \in PenState
    BY <1>12, DrawnTyped DEF N
  <2>2. m \in Nat
    BY <1>1
  <2> QED
    BY <2>1, <2>2, <1>10
<1> HIDE DEF T
<1>13. \A m \in 0 .. N : m \in T
  BY <1>1, <1>11, <1>12, NumbersUpTo
<1> QED
  BY <1>1, <1>10, <1>13 DEF T, N, g

\* What the nodes before one have drawn.
LEMMA DrawnByTyped ==
    ASSUME NEW node \in Node,
           \/ node.tag = "ignored"
           \/ node.tag = "line" /\ Len(node.ends) = 2
           \/ node.tag = "path" /\ Plain(node.tokens)
    PROVE  DrawnBy(node) \in Seq(Stroke)
<1>1. CASE node.tag = "ignored"
  BY <1>1, EmptySeq DEF DrawnBy
<1>2. CASE node.tag = "line" /\ Len(node.ends) = 2
  <2>1. node.ends \in Seq(Int)
    BY DEF Node
  <2>2. node.ends[1] \in Int /\ node.ends[2] \in Int
    BY <2>1, <1>2, ElementOfSeq
  <2>3. [ends |-> <<node.ends[1], node.ends[2]>>,
         off |-> IF IsOdd(node.ends[1]) \/ IsOdd(node.ends[2]) THEN 1 ELSE 0] \in Stroke
    BY <2>2 DEF Stroke
  <2> QED
    BY <2>3, <1>2 DEF DrawnBy
<1>3. CASE node.tag = "path" /\ Plain(node.tokens)
  <2>1. node.tokens \in Seq(Token)
    BY DEF Node
  <2>2. Pen(node.tokens)[Turns(node.tokens)] \in PenState
    <3>1. Turns(node.tokens) \in 0 .. Turns(node.tokens)
      BY <2>1, <1>3, PenIs
    <3> QED
      BY <3>1, <2>1, <1>3, PenIs
  <2> QED
    BY <2>2, <1>3 DEF DrawnBy, PenState
<1> QED
  BY <1>1, <1>2, <1>3

LEMMA SheetSteps ==
    ASSUME NEW D, NEW base \in D, NEW N \in Nat, NEW next \in [1 .. N -> [D -> D]]
    PROVE  \E f \in [0 .. N -> D] :
              f[0] = base /\ \A k \in 1 .. N : f[k] = next[k][f[k - 1]]
BY Stepwise

LEMMA SheetIs ==
    ASSUME nodes \in Seq(Node), PlainFile
    PROVE  /\ Sheet[0] = << >>
           /\ \A k \in 0 .. Len(nodes) : Sheet[k] \in Seq(Stroke)
           /\ \A k \in 1 .. Len(nodes) : Sheet[k] = Sheet[k - 1] \o DrawnBy(nodes[k])
<1> DEFINE N == Len(nodes)
           D == Seq(Stroke)
           By(k) == DrawnBy(nodes[k])
           Eq(f) == [k \in 0 .. N |-> IF k = 0 THEN << >> ELSE f[k - 1] \o By(k)]
           next == [k \in 1 .. N |-> [s \in D |-> s \o By(k)]]
<1>1. N \in Nat /\ DOMAIN nodes = 1 .. N
  BY LenProperties
<1>2. << >> \in D
  BY EmptySeq
<1>3. ASSUME NEW k \in 1 .. N PROVE By(k) \in D
  <2>1. nodes[k] \in Node
    BY ElementOfSeq
  <2> QED
    BY <2>1, <1>1, DrawnByTyped DEF PlainFile
<1>4. \A k \in 1 .. N, s \in D : s \o By(k) \in D
  BY <1>3, ConcatProperties
<1> HIDE DEF D, By
<1>5. next \in [1 .. N -> [D -> D]] /\ \A k \in 1 .. N, s \in D : next[k][s] = s \o By(k)
  BY <1>4
<1>6. Sheet = CHOOSE f : f = Eq(f)
  BY DEF Sheet, By
<1> HIDE DEF N, next
<1>7. PICK f \in [0 .. N -> D] : f[0] = << >> /\ \A k \in 1 .. N : f[k] = next[k][f[k - 1]]
  <2> DEFINE none == << >>
  <2>1. N \in Nat /\ none \in D /\ next \in [1 .. N -> [D -> D]]
    BY <1>1, <1>2, <1>5
  <2> HIDE DEF none
  <2>2. \E f \in [0 .. N -> D] : f[0] = none /\ \A k \in 1 .. N : f[k] = next[k][f[k - 1]]
    BY <2>1, SheetSteps
  <2> QED
    BY <2>2 DEF none
<1>8. f = Eq(f)
  <2>1. ASSUME NEW k \in 1 .. N PROVE f[k] = f[k - 1] \o By(k)
    <3>1. k - 1 \in 0 .. N
      BY <1>1
    <3> QED
      BY <3>1, <1>5, <1>7
  <2>2. \A k \in 0 .. N : k = 0 \/ k \in 1 .. N
    BY <1>1
  <2>3. \A k \in 1 .. N : k # 0
    OBVIOUS
  <2>4. \A k \in 0 .. N : f[k] = IF k = 0 THEN << >> ELSE f[k - 1] \o By(k)
    BY <2>1, <2>2, <2>3, <1>7
  <2> QED
    BY <2>4, <1>7
<1>9. Sheet = Eq(Sheet)
  BY <1>6, <1>8
<1> DEFINE g == Sheet
<1> HIDE DEF g
<1>10. \A k \in 0 .. N : g[k] = IF k = 0 THEN << >> ELSE g[k - 1] \o By(k)
  BY <1>9 DEF g
<1>11. g[0] = << >> /\ \A k \in 1 .. N : g[k] = g[k - 1] \o By(k)
  <2>1. 0 \in 0 .. N /\ \A k \in 1 .. N : k \in 0 .. N /\ k # 0
    BY <1>1
  <2> QED
    BY <2>1, <1>10
<1> DEFINE T == {k \in Nat : g[k] \in D}
<1>12. 0 \in T
  BY <1>2, <1>11
<1>13. ASSUME NEW k \in 1 .. N, k - 1 \in T PROVE k \in T
  <2>1. k \in Nat
    BY <1>1
  <2> QED
    BY <2>1, <1>4, <1>11, <1>13
<1> HIDE DEF T
<1>14. \A k \in 0 .. N : k \in T
  BY <1>1, <1>12, <1>13, NumbersUpTo
<1> QED
  BY <1>11, <1>14 DEF T, N, g, D, By

-----------------------------------------------------------------------------
\* How far a plain path is read: m commands, and with them the lines before this
\* path and of it are drawn, as edges of a document.
DrawnTo(ts, m, paths, edges, sheet) ==
    LET pen == Pen(ts)[m]
        p == paths[Len(paths)]
    IN  /\ m \in 0 .. Turns(ts)
        /\ Follow(edges, sheet \o pen.lines)
        /\ p = << >> <=> m = 0
        /\ Len(p) = 1 => LetterAt(ts, m) \in Moves
        /\ p # << >> =>
              /\ Within(p[1].at, pen.first, pen.off)
              /\ Within(Last(p).at, pen.pen, pen.off)

\* A move or a line brings the pen to where it is drawn.
LEMMA PenArrives ==
    ASSUME NEW ts \in Seq(Token), Plain(ts), NEW m \in 1 .. Turns(ts),
           LetterAt(ts, m) \notin Closes, NEW origin \in Int,
           NEW before \in PenState,
           Within(origin, IF LetterAt(ts, m) \in {"m", "l"} THEN before.pen ELSE 0, before.off)
    PROVE  LET at == Halves(PairAt(ts, m) + 2 * origin)
               pen == Drawn(ts, m, before)
           IN  at \in Int /\ Within(at, pen.pen, pen.off)
<1> DEFINE x == PairAt(ts, m)
           from == IF LetterAt(ts, m) \in {"m", "l"} THEN before.pen ELSE 0
<1>1. x \in Int
  BY PlainCommand
<1>2. before.pen \in Int /\ before.off \in Nat /\ from \in Int
  BY DEF PenState
<1>3. /\ Drawn(ts, m, before).pen = x + from
      /\ Drawn(ts, m, before).off = before.off + (IF IsOdd(x) THEN 1 ELSE 0)
  BY DEF Drawn
<1>4. Within(origin, from, before.off)
  OBVIOUS
<1> HIDE DEF x, from
<1>5. /\ Halves(x + 2 * origin) \in Int
      /\ Within(Halves(x + 2 * origin), x + from, before.off + (IF IsOdd(x) THEN 1 ELSE 0))
  BY <1>1, <1>2, <1>4, PenWithin
<1> QED
  BY <1>3, <1>5 DEF x

\* What a command does to the rest of what is drawn.
LEMMA PenKeeps ==
    ASSUME NEW ts \in Seq(Token), Plain(ts), NEW m \in 1 .. Turns(ts), NEW before \in PenState,
           NEW pen, pen = Drawn(ts, m, before)
    PROVE  /\ pen \in PenState /\ before.off <= pen.off
           /\ LetterAt(ts, m) \in Moves => pen.first = pen.pen /\ pen.lines = before.lines
           /\ LetterAt(ts, m) \notin Moves =>
                 /\ pen.first = before.first
                 /\ pen.lines = Append(before.lines,
                                   [ends |-> <<before.pen, pen.pen>>, off |-> pen.off])
           /\ LetterAt(ts, m) \in Closes => pen.pen = before.first /\ pen.off = before.off
<1>1. pen \in PenState
  BY DrawnTyped
<1>2. before.off \in Nat
  BY DEF PenState
<1>3. before.off <= pen.off
  BY <1>2 DEF Drawn
<1>4. LetterAt(ts, m) \in Moves => pen.first = pen.pen /\ pen.lines = before.lines
  BY DEF Drawn
<1>5. LetterAt(ts, m) \notin Moves =>
         /\ pen.first = before.first
         /\ pen.lines = Append(before.lines, [ends |-> <<before.pen, pen.pen>>, off |-> pen.off])
  BY DEF Drawn
<1>6. LetterAt(ts, m) \in Closes => pen.pen = before.first /\ pen.off = before.off
  BY <1>2 DEF Drawn
<1> QED
  BY <1>1, <1>3, <1>4, <1>5, <1>6

\* After a move there is a path more, of one element.
LEMMA MoveDrawn ==
    ASSUME NEW ts \in Seq(Token), Plain(ts), NEW m \in 1 .. Turns(ts),
           LetterAt(ts, m) \in Moves,
           NEW d \in Sound, NEW paths \in Seq(PathList), NEW sheet \in Seq(Stroke),
           DrawnTo(ts, m - 1, paths, BuiltOnto(d, paths).edges, sheet),
           NEW at \in Location, Within(at, Pen(ts)[m].pen, Pen(ts)[m].off),
           NEW grown, grown = Append(paths, << [start |-> TRUE, at |-> at] >>)
    PROVE  DrawnTo(ts, m, grown, BuiltOnto(d, grown).edges, sheet)
<1> DEFINE e == [start |-> TRUE, at |-> at]
           before == Pen(ts)[m - 1]
           pen == Pen(ts)[m]
<1>1. m \in Nat /\ m # 0 /\ m - 1 \in 0 .. Turns(ts) /\ m \in 0 .. Turns(ts)
  BY PenIs
<1>2. before \in PenState /\ pen = Drawn(ts, m, before)
  BY <1>1, PenIs
<1>3. pen.first = pen.pen /\ pen.lines = before.lines
  <2> HIDE DEF e, before, pen
  <2>1. \A b \in PenState : \A s :
           s = Drawn(ts, m, b) => s.first = s.pen /\ s.lines = b.lines
    BY DEF Drawn
  <2> QED
    BY <1>2, <2>1
<1>4. e \in Element /\ e.start /\ e.at = at
  BY DEF Element
<1>5. <<e>> \in PathList /\ Len(<<e>>) = 1 /\ <<e>>[1] = e /\ <<e>> # << >>
  BY <1>4 DEF PathList
<1>6. BuiltOnto(d, paths) \in Sound
  <2>1. PICK g : BuiltUpTo(Len(paths), d, paths, g) /\ BuiltOnto(d, paths) = g[Len(paths)]
    BY BuiltOntoIs
  <2>2. Len(paths) \in Nat /\ \A k \in 1 .. Len(paths) : paths[k] \in PathList
    BY ElementOfSeq, LenProperties
  <2> QED
    BY <2>1, <2>2, BuildAllSound
<1>7. BuiltOnto(d, grown) = Built(BuiltOnto(d, paths), <<e>>)
  BY <1>5, BuiltOntoMore
<1>8. Built(BuiltOnto(d, paths), <<e>>) = AddPoint(BuiltOnto(d, paths), at)
  <2>1. << >> \in Seq(Element) /\ Append(<< >>, e) = <<e>>
    BY EmptySeq
  <2> HIDE DEF e
  <2> QED
    BY <2>1, <1>4, <1>6, BuiltMore, BuiltNone
<1>9. BuiltOnto(d, grown).edges = BuiltOnto(d, paths).edges
  BY <1>6, <1>7, <1>8, PointAdded
<1>10. Len(grown) = Len(paths) + 1 /\ grown[Len(grown)] = <<e>> /\ Last(<<e>>) = e
  <2> DEFINE q == <<e>>
  <2>1. q \in PathList /\ Len(q) = 1 /\ q[1] = e
    BY <1>5
  <2>2. grown = Append(paths, q)
    OBVIOUS
  <2> HIDE DEF q
  <2>3. Len(grown) = Len(paths) + 1 /\ grown[Len(paths) + 1] = q
    BY <2>1, <2>2, AppendProperties
  <2>4. Last(q) = e
    BY <2>1 DEF Last
  <2> QED
    BY <2>3, <2>4 DEF q
<1> HIDE DEF e, before, pen
<1>11. Follow(BuiltOnto(d, grown).edges, sheet \o pen.lines)
  BY <1>3, <1>9 DEF DrawnTo, before
<1> QED
  BY <1>1, <1>3, <1>4, <1>5, <1>10, <1>11 DEF DrawnTo, pen

\* After a line or a closing the last path has an element more, and the document an
\* edge more.
LEMMA LineDrawn ==
    ASSUME NEW ts \in Seq(Token), Plain(ts), NEW m \in 1 .. Turns(ts),
           LetterAt(ts, m) \notin Moves,
           NEW d \in Sound, NEW paths \in Seq(PathList), paths # << >>,
           NEW sheet \in Seq(Stroke),
           DrawnTo(ts, m - 1, paths, BuiltOnto(d, paths).edges, sheet),
           NEW at \in Location, Within(at, Pen(ts)[m].pen, Pen(ts)[m].off),
           NEW grown,
           grown = [paths EXCEPT ![Len(paths)] =
                       Append(paths[Len(paths)], [start |-> FALSE, at |-> at])]
    PROVE  DrawnTo(ts, m, grown, BuiltOnto(d, grown).edges, sheet)
<1> DEFINE e == [start |-> FALSE, at |-> at]
           before == Pen(ts)[m - 1]
           pen == Pen(ts)[m]
           N == Len(paths)
           p == paths[N]
           q == Append(p, e)
           edges == BuiltOnto(d, paths).edges
           line == [ends |-> <<before.pen, pen.pen>>, off |-> pen.off]
<1>1. m \in Nat /\ m # 0 /\ m - 1 \in 0 .. Turns(ts) /\ m \in 0 .. Turns(ts) /\ m # 1
  BY PenIs, PlainCommand
<1>2. before \in PenState /\ pen = Drawn(ts, m, before)
  BY <1>1, PenIs
<1>3. /\ pen.first = before.first /\ pen.lines = Append(before.lines, line) /\ line \in Stroke
      /\ before.off <= pen.off /\ before.off \in Nat /\ pen.off \in Nat
      /\ before.pen \in Int /\ before.first \in Int /\ before.lines \in Seq(Stroke)
  <2>0. \A b \in PenState : \A s :
           s = Drawn(ts, m, b) =>
              /\ b.off <= s.off /\ s \in PenState /\ s.first = b.first
              /\ s.lines = Append(b.lines, [ends |-> <<b.pen, s.pen>>, off |-> s.off])
    BY PenKeeps
  <2> HIDE DEF e, before, pen, N, p, q, edges
  <2>1. before.off <= pen.off /\ pen \in PenState /\ pen.first = before.first
    BY <1>2, <2>0
  <2>2. /\ before.off \in Nat /\ pen.off \in Nat /\ before.pen \in Int /\ pen.pen \in Int
        /\ before.first \in Int /\ before.lines \in Seq(Stroke)
    BY <1>2, <2>1 DEF PenState
  <2>3. line \in Stroke
    BY <2>2 DEF Stroke
  <2>4. pen.lines = Append(before.lines, line)
    BY <1>2, <2>0
  <2> QED
    BY <2>1, <2>2, <2>3, <2>4
<1>4. e \in Element /\ ~ e.start /\ e.at = at
  BY DEF Element
<1>5. N \in Nat \ {0} /\ N \in 1 .. N /\ p \in Seq(Element)
  <2>1. N \in Nat \ {0} /\ N \in 1 .. N
    BY EmptySeq
  <2>2. p \in PathList
    BY <2>1, ElementOfSeq
  <2> QED
    BY <2>1, <2>2 DEF PathList
<1>6. p # << >> /\ Within(p[1].at, before.first, before.off)
                /\ Within(Last(p).at, before.pen, before.off)
                /\ Follow(edges, sheet \o before.lines)
  <2>1. m - 1 # 0
    BY <1>1
  <2> QED
    BY <2>1 DEF DrawnTo
<1>7. Len(p) \in Nat \ {0} /\ 1 \in 1 .. Len(p) /\ p[1].at \in Int /\ Last(p).at \in Int
  <2>1. Len(p) \in Nat \ {0} /\ 1 \in 1 .. Len(p) /\ Len(p) \in 1 .. Len(p)
    BY <1>5, <1>6, EmptySeq
  <2>2. p[1] \in Element /\ p[Len(p)] \in Element
    BY <2>1, <1>5, ElementOfSeq
  <2> QED
    BY <2>1, <2>2 DEF Last, Element, Location
<1> HIDE DEF e, before, pen, N, p
<1>8. q \in PathList /\ Len(q) = Len(p) + 1 /\ q[1] = p[1] /\ q[Len(p) + 1] = e
  BY <1>4, <1>5, <1>7, AppendProperties DEF PathList
<1>9. grown \in Seq(PathList) /\ Len(grown) = N /\ grown[N] = q
      /\ \A k \in 1 .. N : k # N => grown[k] = paths[k]
  <2>1. grown = [paths EXCEPT ![N] = q]
    BY DEF N, p, e
  <2>2. paths \in Seq(PathList) /\ N \in DOMAIN paths /\ DOMAIN paths = 1 .. N
    BY <1>5, LenProperties DEF N
  <2>3. q \in PathList
    BY <1>8
  <2> HIDE DEF q
  <2>4. grown \in Seq(PathList) /\ Len(grown) = Len(paths)
    <3>1. N \in 1 .. Len(paths)
      BY <1>5 DEF N
    <3>2. /\ [paths EXCEPT ![N] = q] \in Seq(PathList)
          /\ Len([paths EXCEPT ![N] = q]) = Len(paths)
      BY <2>3, <3>1, ExceptSeq
    <3> QED
      BY <2>1, <3>2
  <2>5. grown[N] = q /\ \A k \in 1 .. N : k # N => grown[k] = paths[k]
    BY <2>1, <2>2
  <2> QED
    BY <2>4, <2>5 DEF N
<1> HIDE DEF edges, line
<1>10. BuiltOnto(d, paths) \in Sound
  <2>1. PICK g : BuiltUpTo(Len(paths), d, paths, g) /\ BuiltOnto(d, paths) = g[Len(paths)]
    BY BuiltOntoIs
  <2>2. Len(paths) \in Nat /\ \A k \in 1 .. Len(paths) : paths[k] \in PathList
    BY ElementOfSeq, LenProperties
  <2> QED
    BY <2>1, <2>2, BuildAllSound
<1>11. BuiltOnto(d, grown) = AddSegment(BuiltOnto(d, paths), Last(p).at, at)
  <2>1. \A k \in 1 .. Len(paths) - 1 : grown[k] = paths[k]
    <3>1. \A k \in 1 .. Len(paths) - 1 : k \in 1 .. N /\ k # N
      BY <1>5 DEF N
    <3> QED
      BY <3>1, <1>9
  <2>2. Len(grown) = Len(paths) /\ grown[Len(paths)] = Append(paths[Len(paths)], e)
    BY <1>9 DEF N, p
  <2>3. BuiltOnto(d, grown) =
           IF e.start THEN AddPoint(BuiltOnto(d, paths), e.at)
           ELSE AddSegment(BuiltOnto(d, paths),
                           IF paths[Len(paths)] = << >> THEN 0 ELSE Last(paths[Len(paths)]).at,
                           e.at)
    BY <2>1, <2>2, <1>4, <1>9, LastGrows
  <2> QED
    BY <2>3, <1>4, <1>6 DEF p, N
<1>12. BuiltOnto(d, grown).edges = Append(edges, <<Last(p).at, at>>)
  <2> DEFINE b == BuiltOnto(d, paths)
             from == Last(p).at
  <2>1. from \in Location /\ b \in Sound /\ edges = b.edges
    BY <1>7, <1>10 DEF edges, Location
  <2>2. BuiltOnto(d, grown) = AddSegment(b, from, at)
    BY <1>11
  <2> HIDE DEF b, from
  <2>3. AddSegment(b, from, at).edges = Append(b.edges, <<from, at>>)
    BY <2>1, SegmentAdded
  <2> QED
    BY <2>1, <2>2, <2>3 DEF from
<1>13. edges \in Seq(Segment)
  BY <1>10 DEF edges, Sound, Document
<1>14. /\ Within(p[1].at, pen.first, pen.off) /\ Within(Last(p).at, before.pen, pen.off)
       /\ Within(at, pen.pen, pen.off)
  BY <1>3, <1>6, <1>7, WithinMore DEF pen
<1>15. /\ sheet \o before.lines \in Seq(Stroke)
       /\ sheet \o pen.lines = Append(sheet \o before.lines, line)
  <2> DEFINE b == before.lines
  <2>1. b \in Seq(Stroke) /\ line \in Stroke /\ pen.lines = Append(b, line)
    BY <1>3
  <2> HIDE DEF b
  <2>2. sheet \o b \in Seq(Stroke) /\ sheet \o Append(b, line) = Append(sheet \o b, line)
    BY <2>1, Strokes
  <2> QED
    BY <2>1, <2>2 DEF b
<1>16. line.ends[1] = before.pen /\ line.ends[2] = pen.pen /\ line.off = pen.off
  BY DEF line
<1>17. Last(p).at \in Location /\ Follow(edges, sheet \o before.lines)
  BY <1>6, <1>7 DEF Location
<1>18. Follow(BuiltOnto(d, grown).edges, sheet \o pen.lines)
  <2>1. Follow(Append(edges, <<Last(p).at, at>>), Append(sheet \o before.lines, line))
    BY <1>3, <1>13, <1>14, <1>15, <1>16, <1>17, FollowMore
  <2> QED
    BY <2>1, <1>12, <1>15
<1>19. q # << >> /\ Len(q) # 1 /\ Last(q) = e /\ q[1] = p[1]
  <2>1. q # << >> /\ Len(q) # 1
    <3>1. Len(q) # 1 /\ Len(q) # 0
      BY <1>7, <1>8
    <3> HIDE DEF q
    <3> QED
      BY <3>1, EmptySeq
  <2> HIDE DEF q
  <2> QED
    BY <2>1, <1>8 DEF Last
<1>20. grown[Len(grown)] = q
  BY <1>9
<1> HIDE DEF q
<1> QED
  BY <1>1, <1>4, <1>14, <1>18, <1>19, <1>20 DEF DrawnTo, pen

-----------------------------------------------------------------------------
\* The commands of the path that have been carried out.
Done == (i - 1) \div 2

\* The command of a plain path that is at the token, and what follows it.
LEMMA CommandIs ==
    ASSUME ReadInv, AtToken, Plain(tokens), NEW m, m = Done + 1
    PROVE  /\ m \in 1 .. Turns(tokens) /\ 2 * m - 1 = i /\ m - 1 = Done
           /\ Symbol = LetterAt(tokens, m)
           /\ Symbol \in Moves \union Lines \union Closes
           /\ Symbol \notin Closes =>
                 Rest.kind = "numbers" /\ Len(Params) = 1 /\ Params[1] = PairAt(tokens, m)
<1>1. /\ tokens \in Seq(Token) /\ Len(tokens) \in Nat /\ i \in Nat \ {0} /\ i % 2 = 1
      /\ i <= Len(tokens)
  BY TokensAre DEF AtToken, ReadInv
<1>2. m \in Nat /\ 2 * m - 1 = i /\ m - 1 = Done /\ m >= 1 /\ 2 * m = i + 1
  BY <1>1 DEF Done
<1>3. m \in 1 .. Turns(tokens)
  BY <1>1, <1>2 DEF Turns
<1> DEFINE ts == tokens
<1> HIDE DEF ts
<1>4. /\ LetterAt(ts, m) = ts[2 * m - 1].kind
      /\ LetterAt(ts, m) \in Moves \union Lines \union Closes
      /\ LetterAt(ts, m) \notin Closes =>
            /\ 2 * m <= Len(ts) /\ ts[2 * m].kind = "numbers"
            /\ Len(ts[2 * m].params) = 1 /\ PairAt(ts, m) = ts[2 * m].params[1]
  BY <1>1, <1>3, PlainCommand DEF ts
<1>5. tokens[i].kind # "numbers" /\ LetterAt(tokens, m) = tokens[i].kind
  BY <1>2, <1>4 DEF ts, Moves, Lines, Closes
<1>6. tokens[i] # Blank
  BY <1>5 DEF Blank
<1>7. Symbol = LetterAt(tokens, m)
  BY <1>5, <1>6 DEF Symbol
<1>8. Symbol \notin Closes => Rest = tokens[2 * m]
  <2>1. Symbol \notin Closes => 2 * m <= Len(tokens)
    BY <1>4, <1>7 DEF ts
  <2>2. 2 * m = i + 1
    BY <1>2
  <2>3. Symbol \notin Closes => i < Len(tokens)
    BY <1>1, <2>1, <2>2
  <2> QED
    BY <2>2, <2>3, <1>6 DEF Rest, NextToken
<1> QED
  BY <1>2, <1>3, <1>4, <1>7, <1>8 DEF ts, Params

\* A single pair of numbers is a single place.
LEMMA ReachedOne ==
    ASSUME ReadInv, AtToken, Len(Params) = 1
    PROVE  /\ Halves(Params[1] + 2 * Origin) \in Location
           /\ Reached = << Halves(Params[1] + 2 * Origin) >>
<1> DEFINE g == CHOOSE h : PenUpTo(1, Origin, Params, h)
<1>1. Params \in Seq(Int) /\ DOMAIN Params = 1 .. 1 /\ \A k \in 1 .. 1 : Params[k] \in Int
  <2>1. Params \in Seq(Int)
    BY RestIs DEF Params
  <2> QED
    BY <2>1, LenProperties, ElementOfSeq
<1>2. Origin \in Location
  BY OriginWhole
<1>3. PenUpTo(1, Origin, Params, g)
  <2>1. \A k \in 1 .. 1 : Params[k] \in Location
    BY <1>1 DEF Location
  <2> QED
    BY <2>1, <1>2, PenMoves, Zenon
<1>4. Reached = [k \in DOMAIN Params |-> g[k]]
  BY DEF Reached, PenUpTo
<1> HIDE DEF g
<1>5. g[0] = Origin /\ g[1] = Halves(Params[1] + 2 * Origin)
  BY <1>3 DEF PenUpTo
<1> DEFINE x == Halves(Params[1] + 2 * Origin)
<1>6. x \in Location
  <2>1. Params[1] + 2 * Origin \in Int
    BY <1>1, <1>2 DEF Location
  <2> QED
    BY <2>1, WholeHalves DEF Location
<1> HIDE DEF x
<1>7. Len(Reached) = 1 /\ Reached \in Seq(Location)
  BY ReachedWhole
<1>8. Reached[1] = x
  BY <1>1, <1>4, <1>5 DEF x
<1>9. Reached = <<x>>
  <2>1. <<x>> \in Seq(Location) /\ Len(<<x>>) = 1 /\ <<x>>[1] = x
    BY <1>6
  <2> QED
    BY <2>1, <1>7, <1>8, SeqEqual
<1> QED
  BY <1>6, <1>9 DEF x

LEMMA OneLine ==
    ASSUME NEW x \in Location, NEW p \in Seq(Element)
    PROVE  p \o LinesTo(<<x>>) = Append(p, [start |-> FALSE, at |-> x])
<1> DEFINE e == [start |-> FALSE, at |-> x]
<1>1. LinesTo(<<x>>) = <<e>>
  <2> DEFINE list == <<x>>
  <2>1. DOMAIN list = 1 .. 1 /\ list[1] = x
    OBVIOUS
  <2> HIDE DEF list
  <2>2. LinesTo(list) = [k \in 1 .. 1 |-> [start |-> FALSE, at |-> list[k]]]
    BY <2>1 DEF LinesTo
  <2>3. [k \in 1 .. 1 |-> [start |-> FALSE, at |-> list[k]]] = [k \in 1 .. 1 |-> e]
    <3>1. \A k \in 1 .. 1 : k = 1
      OBVIOUS
    <3>2. \A k \in 1 .. 1 : [start |-> FALSE, at |-> list[k]] = e
      BY <2>1, <3>1
    <3> QED
      BY <3>2, Zenon
  <2> HIDE DEF e
  <2>4. [k \in 1 .. 1 |-> e] = <<e>>
    OBVIOUS
  <2> QED
    BY <2>2, <2>3, <2>4 DEF list
<1>2. e \in Element
  BY DEF Element
<1> HIDE DEF e
<1>3. p \o <<e>> = Append(p, e)
  BY <1>2
<1> QED
  BY <1>1, <1>3 DEF e

LEMMA OneMove ==
    ASSUME NEW x \in Location, Reached = <<x>>
    PROVE  Moved = << [start |-> TRUE, at |-> x] >>
<1> DEFINE e == [start |-> TRUE, at |-> x]
<1>1. Tail(Reached) = << >> /\ Reached[1] = x
  OBVIOUS
<1>2. LinesTo(Tail(Reached)) = << >>
  BY <1>1 DEF LinesTo
<1>3. e \in Element
  BY DEF Element
<1>4. Moved = <<e>> \o << >>
  BY <1>1, <1>2 DEF Moved
<1> HIDE DEF e
<1>5. <<e>> \o << >> = <<e>>
  BY <1>3
<1> QED
  BY <1>4, <1>5 DEF e

\* A command begins near the pen.
LEMMA OriginWithin ==
    ASSUME ReadInv, AtToken, Plain(tokens), NEW m, m = Done + 1, NEW edges, NEW sheet,
           DrawnTo(tokens, m - 1, elements, edges, sheet)
    PROVE  Within(Origin,
                  IF LetterAt(tokens, m) \in {"m", "l"} THEN Pen(tokens)[m - 1].pen ELSE 0,
                  Pen(tokens)[m - 1].off)
<1>1. m \in 1 .. Turns(tokens) /\ Symbol = LetterAt(tokens, m) /\ tokens \in Seq(Token)
  BY CommandIs, TokensAre DEF AtToken
<1> DEFINE pen == Pen(tokens)[m - 1]
<1>2. m \in Nat /\ m - 1 \in 0 .. Turns(tokens)
  BY <1>1, PenIs
<1>3. pen \in PenState
  BY <1>1, <1>2, PenIs
<1>4. m - 1 = 0 => pen = PenDown
  BY <1>1, PenIs
<1>5. /\ path = << >> <=> m - 1 = 0
      /\ path # << >> => Within(Last(path).at, pen.pen, pen.off)
  BY PathIs DEF DrawnTo, AtToken
<1> HIDE DEF pen
<1>6. pen.off \in Nat /\ Within(0, 0, pen.off)
  BY <1>3 DEF PenState, Within
<1>7. CASE LetterAt(tokens, m) \in {"m", "l"} /\ path # << >>
  BY <1>1, <1>5, <1>7 DEF Origin, pen
<1>8. CASE LetterAt(tokens, m) \in {"m", "l"} /\ path = << >>
  BY <1>1, <1>4, <1>5, <1>6, <1>8 DEF Origin, pen, PenDown
<1>9. CASE LetterAt(tokens, m) \notin {"m", "l"}
  BY <1>1, <1>6, <1>9 DEF Origin, pen
<1> QED
  BY <1>7, <1>8, <1>9

-----------------------------------------------------------------------------
\* Each command is drawn as it is carried out.
LEMMA CommandAdvances ==
    ASSUME ReadInv, AtToken, Advance, Plain(tokens), NEW sheet,
           DrawnTo(tokens, Done + 1, elements', BuiltOnto(doc, elements').edges, sheet)
    PROVE  DrawnTo(tokens', Done', elements', AllBuilt'.edges, sheet)
<1>1. i \in Nat
  BY TokensAre DEF AtToken
<1>2. tokens' = tokens /\ doc' = doc /\ i' = i + 2
  BY DEF Advance, tokens
<1>3. Done' = Done + 1
  BY <1>1, <1>2 DEF Done
<1>4. AllBuilt' = BuiltOnto(doc', elements')
  BY DEF AllBuilt, BuiltOnto, BuiltUpTo
<1> QED
  BY <1>2, <1>3, <1>4

LEMMA MoveToDraws ==
    ASSUME ReadInv, MoveTo, Plain(tokens), NEW sheet \in Seq(Stroke),
           DrawnTo(tokens, Done, elements, AllBuilt.edges, sheet)
    PROVE  DrawnTo(tokens', Done', elements', AllBuilt'.edges, sheet)
<1> DEFINE m == Done + 1
           at == Halves(Params[1] + 2 * Origin)
           pen == Pen(tokens)[m]
<1>1. AtToken /\ Advance /\ Symbol \in Moves /\ elements' = Append(elements, Moved)
  BY DEF MoveTo
<1>2. /\ m \in 1 .. Turns(tokens) /\ m - 1 = Done /\ Symbol = LetterAt(tokens, m)
      /\ Len(Params) = 1 /\ Params[1] = PairAt(tokens, m)
      /\ LetterAt(tokens, m) \notin Closes
  <2> HIDE DEF m
  <2>1. m = Done + 1
    BY DEF m
  <2>2. Symbol \notin Closes
    BY <1>1 DEF Moves, Closes
  <2> QED
    BY <2>1, <2>2, <1>1, CommandIs
<1>3. tokens \in Seq(Token) /\ elements \in Seq(PathList) /\ doc \in Sound
  BY <1>1, TokensAre, PathIs DEF AtToken, ReadInv
<1> HIDE DEF m
<1>4. at \in Location /\ Reached = <<at>>
  BY <1>1, <1>2, ReachedOne
<1>5. Moved = << [start |-> TRUE, at |-> at] >>
  <2> HIDE DEF at
  <2> QED
    BY <1>4, OneMove
<1>6. DrawnTo(tokens, m - 1, elements, BuiltOnto(doc, elements).edges, sheet)
  BY <1>2, AllBuiltIs
<1>7. Within(at, pen.pen, pen.off)
  <2> DEFINE before == Pen(tokens)[m - 1]
  <2>1. before \in PenState /\ pen = Drawn(tokens, m, before)
    <3>1. m - 1 \in 0 .. Turns(tokens)
      BY <1>2, <1>3, PenIs
    <3> QED
      BY <3>1, <1>2, <1>3, PenIs
  <2>2. Within(Origin, IF LetterAt(tokens, m) \in {"m", "l"} THEN before.pen ELSE 0, before.off)
    BY <1>1, <1>6, OriginWithin DEF m
  <2>3. Origin \in Int
    BY <1>1, OriginWhole DEF Location
  <2> HIDE DEF before, pen
  <2>4. /\ Halves(PairAt(tokens, m) + 2 * Origin) \in Int
        /\ Within(Halves(PairAt(tokens, m) + 2 * Origin),
                  Drawn(tokens, m, before).pen, Drawn(tokens, m, before).off)
    BY <2>1, <2>2, <2>3, <1>2, <1>3, PenArrives
  <2> QED
    BY <2>1, <2>4, <1>2
<1> HIDE DEF at
<1>8. DrawnTo(tokens, m, elements', BuiltOnto(doc, elements').edges, sheet)
  BY <1>1, <1>2, <1>3, <1>4, <1>5, <1>6, <1>7, MoveDrawn DEF pen
<1> QED
  BY <1>1, <1>8, CommandAdvances DEF m

LEMMA StraightLineDraws ==
    ASSUME ReadInv, StraightLine, Plain(tokens), NEW sheet \in Seq(Stroke),
           DrawnTo(tokens, Done, elements, AllBuilt.edges, sheet)
    PROVE  DrawnTo(tokens', Done', elements', AllBuilt'.edges, sheet)
<1> DEFINE m == Done + 1
           at == Halves(Params[1] + 2 * Origin)
           pen == Pen(tokens)[m]
<1>1. /\ AtToken /\ Advance /\ Symbol \in Lines
      /\ elements' = [elements EXCEPT ![Len(elements)] = @ \o LinesTo(Reached)]
  BY DEF StraightLine
<1>2. /\ m \in 1 .. Turns(tokens) /\ m - 1 = Done /\ Symbol = LetterAt(tokens, m)
      /\ Len(Params) = 1 /\ Params[1] = PairAt(tokens, m)
      /\ LetterAt(tokens, m) \notin Closes /\ LetterAt(tokens, m) \notin Moves
  <2> HIDE DEF m
  <2>1. m = Done + 1
    BY DEF m
  <2>2. Symbol \notin Closes /\ Symbol \notin Moves
    BY <1>1 DEF Moves, Lines, Closes
  <2> QED
    BY <2>1, <2>2, <1>1, CommandIs
<1>3. /\ tokens \in Seq(Token) /\ elements \in Seq(PathList) /\ doc \in Sound
      /\ elements # << >> /\ path \in Seq(Element) /\ path = elements[Len(elements)]
      /\ Len(elements) \in DOMAIN elements
  <2>1. pc \in {"tokens", "build"}
    BY <1>1 DEF AtToken
  <2> QED
    BY <2>1, TokensAre, PathIs, EmptySeq DEF ReadInv
<1> HIDE DEF m
<1>4. at \in Location /\ Reached = <<at>>
  BY <1>1, <1>2, ReachedOne
<1>5. elements' = [elements EXCEPT ![Len(elements)] =
                      Append(elements[Len(elements)], [start |-> FALSE, at |-> at])]
  <2> HIDE DEF at
  <2>1. path \o LinesTo(<<at>>) = Append(path, [start |-> FALSE, at |-> at])
    BY <1>3, <1>4, OneLine
  <2>2. elements' = [elements EXCEPT
                        ![Len(elements)] = elements[Len(elements)] \o LinesTo(Reached)]
    BY <1>1, <1>3
  <2> QED
    BY <2>1, <2>2, <1>3, <1>4
<1>6. DrawnTo(tokens, m - 1, elements, BuiltOnto(doc, elements).edges, sheet)
  BY <1>2, AllBuiltIs
<1>7. Within(at, pen.pen, pen.off)
  <2> DEFINE before == Pen(tokens)[m - 1]
  <2>1. before \in PenState /\ pen = Drawn(tokens, m, before)
    <3>1. m - 1 \in 0 .. Turns(tokens)
      BY <1>2, <1>3, PenIs
    <3> QED
      BY <3>1, <1>2, <1>3, PenIs
  <2>2. Within(Origin, IF LetterAt(tokens, m) \in {"m", "l"} THEN before.pen ELSE 0, before.off)
    BY <1>1, <1>6, OriginWithin DEF m
  <2>3. Origin \in Int
    BY <1>1, OriginWhole DEF Location
  <2> HIDE DEF before, pen
  <2>4. /\ Halves(PairAt(tokens, m) + 2 * Origin) \in Int
        /\ Within(Halves(PairAt(tokens, m) + 2 * Origin),
                  Drawn(tokens, m, before).pen, Drawn(tokens, m, before).off)
    BY <2>1, <2>2, <2>3, <1>2, <1>3, PenArrives
  <2> QED
    BY <2>1, <2>4, <1>2
<1> HIDE DEF at
<1>8. DrawnTo(tokens, m, elements', BuiltOnto(doc, elements').edges, sheet)
  BY <1>2, <1>3, <1>4, <1>5, <1>6, <1>7, LineDrawn DEF pen
<1> QED
  BY <1>1, <1>8, CommandAdvances DEF m

LEMMA ClosePathDraws ==
    ASSUME ReadInv, ClosePath, Plain(tokens), NEW sheet \in Seq(Stroke),
           DrawnTo(tokens, Done, elements, AllBuilt.edges, sheet)
    PROVE  DrawnTo(tokens', Done', elements', AllBuilt'.edges, sheet)
<1> DEFINE m == Done + 1
           at == path[1].at
           pen == Pen(tokens)[m]
<1>1. /\ AtToken /\ Advance /\ Symbol \in Closes /\ Len(path) >= 2
      /\ elements' = [elements EXCEPT ![Len(elements)] = @ \o LinesTo(<<path[1].at>>)]
  BY DEF ClosePath, Closable
<1>2. /\ m \in 1 .. Turns(tokens) /\ m - 1 = Done /\ Symbol = LetterAt(tokens, m)
      /\ LetterAt(tokens, m) \in Closes /\ LetterAt(tokens, m) \notin Moves
  <2> HIDE DEF m
  <2>1. m = Done + 1
    BY DEF m
  <2>2. Symbol \notin Moves
    BY <1>1 DEF Moves, Closes
  <2> QED
    BY <2>1, <2>2, <1>1, CommandIs
<1>3. /\ tokens \in Seq(Token) /\ elements \in Seq(PathList) /\ doc \in Sound
      /\ elements # << >> /\ path \in Seq(Element) /\ path = elements[Len(elements)]
      /\ Len(elements) \in DOMAIN elements
  <2>1. pc \in {"tokens", "build"}
    BY <1>1 DEF AtToken
  <2> QED
    BY <2>1, TokensAre, PathIs, EmptySeq DEF ReadInv
<1> HIDE DEF m
<1>4. at \in Location /\ path # << >>
  <2>1. Len(path) \in Nat /\ 1 \in 1 .. Len(path)
    BY <1>1, <1>3, LenProperties
  <2>2. path[1] \in Element
    BY <2>1, <1>3, ElementOfSeq
  <2> QED
    BY <2>1, <2>2, <1>3, EmptySeq DEF Element
<1>5. elements' = [elements EXCEPT ![Len(elements)] =
                      Append(elements[Len(elements)], [start |-> FALSE, at |-> at])]
  <2>0. elements' = [elements EXCEPT
                        ![Len(elements)] = elements[Len(elements)] \o LinesTo(<<at>>)]
    BY <1>1, <1>3
  <2> HIDE DEF at
  <2>1. path \o LinesTo(<<at>>) = Append(path, [start |-> FALSE, at |-> at])
    BY <1>3, <1>4, OneLine
  <2> QED
    BY <2>0, <2>1, <1>3, <1>4
<1>6. DrawnTo(tokens, m - 1, elements, BuiltOnto(doc, elements).edges, sheet)
  BY <1>2, AllBuiltIs
<1>7. Within(at, pen.pen, pen.off)
  <2> DEFINE before == Pen(tokens)[m - 1]
  <2>1. before \in PenState /\ pen = Drawn(tokens, m, before)
    <3>1. m - 1 \in 0 .. Turns(tokens)
      BY <1>2, <1>3, PenIs
    <3> QED
      BY <3>1, <1>2, <1>3, PenIs
  <2>2. Within(at, before.first, before.off)
    BY <1>3, <1>4, <1>6 DEF DrawnTo
  <2> HIDE DEF before, pen
  <2>3. \A b \in PenState : \A s :
           s = Drawn(tokens, m, b) => s.pen = b.first /\ s.off = b.off
    BY <1>2 DEF Drawn, PenState
  <2> QED
    BY <2>1, <2>2, <2>3
<1> HIDE DEF at
<1>8. DrawnTo(tokens, m, elements', BuiltOnto(doc, elements').edges, sheet)
  BY <1>2, <1>3, <1>4, <1>5, <1>6, <1>7, LineDrawn DEF pen
<1> QED
  BY <1>1, <1>8, CommandAdvances DEF m

\* Nothing in a plain path is refused, or read where there is nothing.
LEMMA NeverRefused ==
    ASSUME ReadInv, AtToken, Plain(tokens), NEW edges, NEW sheet,
           DrawnTo(tokens, Done, elements, edges, sheet)
    PROVE  ~ RefuseToken /\ ~ ReadNothing
<1> DEFINE m == Done + 1
<1>1. /\ m \in 1 .. Turns(tokens) /\ m - 1 = Done /\ Symbol = LetterAt(tokens, m)
      /\ Symbol \in Moves \union Lines \union Closes
      /\ Symbol \notin Closes => Rest.kind = "numbers" /\ Len(Params) = 1
  <2> HIDE DEF m
  <2>1. m = Done + 1
    BY DEF m
  <2> QED
    BY <2>1, CommandIs
<1> HIDE DEF m
<1>2. Symbol \notin Closes => Readable(Moves) /\ Readable(Lines) /\ Params # << >>
  BY <1>1, EmptySeq DEF Readable
<1>3. Symbol \in Closes => Closable
  <2> SUFFICES ASSUME Symbol \in Closes PROVE Len(path) >= 2
    BY DEF Closable
  <2>1. tokens \in Seq(Token) /\ path \in Seq(Element) /\ path = elements[Len(elements)]
    BY TokensAre, PathIs DEF AtToken
  <2>2. m > 1 /\ LetterAt(tokens, m - 1) \notin Moves
    BY <2>1, <1>1, PlainCommand
  <2>3. Done # 0
    BY <2>2, <1>1
  <2>4. path # << >> /\ Len(path) # 1
    BY <2>1, <2>2, <2>3, <1>1 DEF DrawnTo
  <2>5. Len(path) \in Nat /\ Len(path) # 0
    BY <2>1, <2>4, EmptySeq, LenProperties
  <2> QED
    BY <2>4, <2>5
<1>4. ~ ReadNothing
  BY <1>2 DEF ReadNothing, Moves, Lines, Closes
<1>5. ~ RefuseToken
  BY <1>1, <1>2, <1>3 DEF RefuseToken, Moves, Lines, Closes
<1> QED
  BY <1>4, <1>5

-----------------------------------------------------------------------------
\* What is kept as a plain file is read: the document follows the nodes before this
\* one, and what the path that is being read will make of it follows the commands
\* carried out.
PathDrawn ==
    /\ DrawnTo(tokens, Done, elements, AllBuilt.edges, Sheet[n - 1])
    /\ pc = "build" => Done = Turns(tokens)

DrawnInv ==
    PlainFile =>
        /\ pc \in {"node", "tokens", "build", "done"}
        /\ pc = "done" => n = Len(nodes) + 1
        /\ pc \in {"node", "done"} => Follow(doc.edges, Sheet[n - 1])
        /\ pc \in {"tokens", "build"} => Tag = "path" /\ PathDrawn

LEMMA DrawingBegins == InitBoth => DrawnInv
<1> SUFFICES ASSUME InitBoth, PlainFile PROVE Follow(doc.edges, Sheet[n - 1]) /\ pc = "node"
  BY DEF DrawnInv
<1>1. nodes \in Seq(Node) /\ pc = "node" /\ n = 1 /\ doc = EmptyDocument
  BY InputsAssumption DEF InitBoth, Init
<1>2. Sheet[0] = << >>
  BY <1>1, SheetIs
<1>3. doc.edges = << >>
  BY <1>1 DEF EmptyDocument
<1> QED
  BY <1>1, <1>2, <1>3, FollowNone

\* The node parse_all is at.
LEMMA NodeIs ==
    ASSUME ReadInv, PlainFile, n <= Len(nodes)
    PROVE  /\ n \in 1 .. Len(nodes) /\ n - 1 \in 0 .. Len(nodes) /\ nodes[n] \in Node
           /\ Sheet[n - 1] \in Seq(Stroke) /\ DrawnBy(nodes[n]) \in Seq(Stroke)
           /\ Sheet[n] = Sheet[n - 1] \o DrawnBy(nodes[n])
           /\ \/ Tag = "ignored"
              \/ Tag = "line" /\ Len(nodes[n].ends) = 2
              \/ Tag = "path" /\ Plain(tokens)
<1>1. nodes \in Seq(Node) /\ Len(nodes) \in Nat /\ DOMAIN nodes = 1 .. Len(nodes)
      /\ n \in 1 .. Len(nodes) + 1
  BY LenProperties DEF ReadInv, TypeOK
<1>2. n \in 1 .. Len(nodes) /\ n - 1 \in 0 .. Len(nodes)
  BY <1>1
<1>3. nodes[n] \in Node
  BY <1>1, <1>2, ElementOfSeq
<1>4. \/ Tag = "ignored"
      \/ Tag = "line" /\ Len(nodes[n].ends) = 2
      \/ Tag = "path" /\ Plain(tokens)
  BY <1>1, <1>2 DEF PlainFile, Tag, tokens
<1>5. DrawnBy(nodes[n]) \in Seq(Stroke)
  BY <1>3, <1>4, DrawnByTyped DEF Tag, tokens
<1> QED
  BY <1>1, <1>2, <1>3, <1>4, <1>5, SheetIs

\* A line follows its node.
LEMMA LineFollows ==
    ASSUME ReadInv, PlainFile, ReadLine, Follow(doc.edges, Sheet[n - 1])
    PROVE  Follow(doc'.edges, Sheet[n])
<1> DEFINE e1 == nodes[n].ends[1]
           e2 == nodes[n].ends[2]
           off == IF IsOdd(e1) \/ IsOdd(e2) THEN 1 ELSE 0
           s == [ends |-> <<e1, e2>>, off |-> off]
           l1 == Halves(e1)
           l2 == Halves(e2)
           lines == Sheet[n - 1]
<1>1. Tag = "line" /\ Len(nodes[n].ends) = 2 /\ n <= Len(nodes)
  BY DEF ReadLine
<1>2. /\ n \in 1 .. Len(nodes) /\ nodes[n] \in Node /\ lines \in Seq(Stroke)
      /\ Sheet[n] = lines \o DrawnBy(nodes[n])
  BY <1>1, NodeIs
<1>3. e1 \in Int /\ e2 \in Int
  <2>1. nodes[n].ends \in Seq(Int)
    BY <1>2 DEF Node
  <2> QED
    BY <2>1, <1>1, ElementOfSeq
<1>4. DrawnBy(nodes[n]) = <<s>>
  BY <1>1 DEF DrawnBy, Tag
<1>5. doc' = AddSegment(AddPoint(AddPoint(doc, l1), l2), l1, l2)
  BY DEF ReadLine
<1>6. doc \in Sound
  BY DEF ReadInv
<1> HIDE DEF lines, e1, e2
<1>7. l1 \in Int /\ l2 \in Int /\ off \in Nat
  BY <1>3, WholeHalves
<1>8. Within(l1, e1, off) /\ Within(l2, e2, off)
  <2>1. 2 * l1 - e1 \in -1 .. 1 /\ (~ IsOdd(e1) => 2 * l1 = e1)
    BY <1>3, Rounded
  <2>2. 2 * l2 - e2 \in -1 .. 1 /\ (~ IsOdd(e2) => 2 * l2 = e2)
    BY <1>3, Rounded
  <2> HIDE DEF l1, l2
  <2>3. CASE IsOdd(e1) \/ IsOdd(e2)
    BY <2>1, <2>2, <2>3 DEF Within
  <2>4. CASE ~ (IsOdd(e1) \/ IsOdd(e2))
    BY <2>1, <2>2, <2>4, <1>3, <1>7 DEF Within
  <2> QED
    BY <2>3, <2>4
<1>9. s \in Stroke /\ s.ends[1] = e1 /\ s.ends[2] = e2 /\ s.off = off
  <2> HIDE DEF off
  <2> QED
    BY <1>3, <1>7 DEF Stroke
<1> HIDE DEF s, off, l1, l2
<1>10. doc'.edges = Append(doc.edges, <<l1, l2>>) /\ doc.edges \in Seq(Segment)
  <2>1. l1 \in Location /\ l2 \in Location
    BY <1>7 DEF Location
  <2>2. AddPoint(AddPoint(doc, l1), l2) \in Sound
        /\ AddPoint(AddPoint(doc, l1), l2).edges = doc.edges
    BY <2>1, <1>6, PointAdded
  <2>3. doc.edges \in Seq(Segment)
    BY <1>6 DEF Sound, Document
  <2> QED
    BY <2>1, <2>2, <2>3, <1>5, SegmentAdded
<1>11. Follow(Append(doc.edges, <<l1, l2>>), Append(lines, s))
  <2>1. Follow(doc.edges, lines)
    BY DEF lines
  <2> QED
    BY <2>1, <1>2, <1>7, <1>8, <1>9, <1>10, FollowMore DEF Location
<1>12. lines \o <<s>> = Append(lines, s)
  BY <1>2, <1>9
<1> QED
  BY <1>2, <1>4, <1>10, <1>11, <1>12

\* Before its first command, a path adds nothing.
LEMMA PathBegins ==
    ASSUME ReadInv, PlainFile, EnterPath, Follow(doc.edges, Sheet[n - 1])
    PROVE  Tag' = "path" /\ PathDrawn'
<1>1. /\ Tag = "path" /\ n <= Len(nodes) /\ n' = n /\ nodes' = nodes /\ doc' = doc
      /\ i' = 1 /\ elements' = << << >> >> /\ pc' = "tokens"
  BY DEF EnterPath
<1>2. /\ n \in 1 .. Len(nodes) /\ nodes[n] \in Node /\ Sheet[n - 1] \in Seq(Stroke)
      /\ Plain(tokens)
  BY <1>1, NodeIs
<1>3. tokens \in Seq(Token) /\ tokens' = tokens /\ Tag' = Tag /\ Sheet' = Sheet
  BY <1>1, <1>2 DEF Node, tokens, Tag, Sheet
<1>4. Done' = 0
  BY <1>1 DEF Done
<1>5. Pen(tokens)[0] = PenDown /\ 0 \in 0 .. Turns(tokens)
  BY <1>2, <1>3, PenIs
<1>6. AllBuilt' = BuiltOnto(doc, elements')
  BY <1>1 DEF AllBuilt, BuiltOnto, BuiltUpTo
<1>7. BuiltOnto(doc, elements') = doc
  <2> DEFINE none == << >>
  <2>1. none \in PathList /\ none \in Seq(PathList) /\ Append(none, none) = << << >> >>
    BY EmptySeq DEF PathList
  <2>2. doc \in Sound
    BY DEF ReadInv
  <2>3. BuiltOnto(doc, none) = doc
    <3>1. PICK g : BuiltUpTo(Len(none), doc, none, g) /\ BuiltOnto(doc, none) = g[Len(none)]
      BY <2>1, <2>2, BuiltOntoIs
    <3>2. Len(none) = 0
      OBVIOUS
    <3> HIDE DEF none
    <3> QED
      BY <3>1, <3>2 DEF BuiltUpTo
  <2>4. Built(doc, none) = doc
    BY <2>2, BuiltNone
  <2> HIDE DEF none
  <2>5. BuiltOnto(doc, Append(none, none)) = Built(BuiltOnto(doc, none), none)
    BY <2>1, <2>2, BuiltOntoMore
  <2> QED
    BY <2>1, <2>3, <2>4, <2>5, <1>1
<1>8. Sheet[n - 1] \o << >> = Sheet[n - 1]
  BY <1>2
<1>9. DrawnTo(tokens, 0, elements', doc.edges, Sheet[n - 1])
  <2>1. Len(elements') = 1 /\ elements'[1] = << >> /\ Len(<< >>) = 0
    BY <1>1
  <2> QED
    BY <2>1, <1>5, <1>8 DEF DrawnTo, PenDown
<1> QED
  BY <1>1, <1>3, <1>4, <1>6, <1>7, <1>9 DEF PathDrawn

-----------------------------------------------------------------------------
\* Every step keeps to what is drawn.
LEMMA DrawingStays == DrawnInv /\ ReadInv /\ [Next]_vars => DrawnInv'
<1> SUFFICES ASSUME DrawnInv, ReadInv, [Next]_vars, PlainFile'
             PROVE  /\ pc' \in {"node", "tokens", "build", "done"}
                    /\ pc' = "done" => n' = Len(nodes') + 1
                    /\ pc' \in {"node", "done"} => Follow(doc'.edges, Sheet'[n' - 1])
                    /\ pc' \in {"tokens", "build"} => Tag' = "path" /\ PathDrawn'
  BY DEF DrawnInv
<1>0. nodes' = nodes
  BY DEF Next, vars, ReadLine, SkipNode, RefuseNode, EnterPath, MoveTo, StraightLine,
         ClosePath, Advance, ReadNothing, RefuseToken, EndTokens, AddPaths, Finish
<1>1. /\ PlainFile /\ Sheet' = Sheet
      /\ nodes \in Seq(Node) /\ Len(nodes) \in Nat /\ n \in 1 .. Len(nodes) + 1
  BY <1>0, LenProperties DEF PlainFile, Sheet, ReadInv, TypeOK
<1>2. /\ pc \in {"node", "tokens", "build", "done"}
      /\ pc = "done" => n = Len(nodes) + 1
      /\ pc \in {"node", "done"} => Follow(doc.edges, Sheet[n - 1])
      /\ pc \in {"tokens", "build"} => Tag = "path" /\ PathDrawn
  BY <1>1 DEF DrawnInv
\* A path that is being read is plain.
<1>3. ASSUME pc \in {"tokens", "build"}
      PROVE  /\ n \in 1 .. Len(nodes) /\ Plain(tokens) /\ tokens \in Seq(Token)
             /\ Sheet[n - 1] \in Seq(Stroke) /\ Tag = "path"
             /\ DrawnTo(tokens, Done, elements, AllBuilt.edges, Sheet[n - 1])
             /\ pc = "build" => Done = Turns(tokens)
             /\ Sheet[n] = Sheet[n - 1] \o DrawnBy(nodes[n])
  <2>1. n <= Len(nodes) /\ Tag = "path"
    BY <1>2, <1>3 DEF ReadInv
  <2> QED
    BY <2>1, <1>1, <1>2, <1>3, NodeIs, TokensAre DEF PathDrawn
<1>4. CASE ReadLine
  <2>1. pc = "node" /\ pc' = "node" /\ n' = n + 1 /\ n' - 1 = n
    BY <1>4, <1>1 DEF ReadLine
  <2> QED
    BY <2>1, <1>1, <1>2, <1>4, LineFollows
<1>5. CASE SkipNode
  <2>1. /\ pc = "node" /\ pc' = "node" /\ n' - 1 = n /\ doc' = doc /\ n <= Len(nodes)
        /\ Tag = "ignored"
    BY <1>5, <1>1 DEF SkipNode
  <2>2. Sheet[n] = Sheet[n - 1] \o DrawnBy(nodes[n]) /\ Sheet[n - 1] \in Seq(Stroke)
    BY <2>1, <1>1, NodeIs
  <2>3. DrawnBy(nodes[n]) = << >>
    BY <2>1 DEF DrawnBy, Tag
  <2>4. Sheet[n] = Sheet[n - 1]
    BY <2>2, <2>3
  <2> QED
    BY <2>1, <2>4, <1>1, <1>2
<1>6. CASE RefuseNode
  <2>1. pc = "node" /\ n <= Len(nodes)
        /\ (Tag = "unknown" \/ (Tag = "line" /\ Len(nodes[n].ends) # 2))
    BY <1>6 DEF RefuseNode
  <2> QED
    BY <2>1, <1>1, NodeIs
<1>7. CASE EnterPath
  <2>1. pc = "node" /\ pc' = "tokens"
    BY <1>7 DEF EnterPath
  <2> QED
    BY <2>1, <1>1, <1>2, <1>7, PathBegins
<1>8. ASSUME Advance, AtToken,
             DrawnTo(tokens', Done', elements', AllBuilt'.edges, Sheet[n - 1])
      PROVE  pc' = "tokens" /\ Tag' = "path" /\ PathDrawn'
  <2>1. n' = n /\ pc' = "tokens" /\ Tag' = Tag /\ pc \in {"tokens", "build"}
    BY <1>8, <1>0 DEF Advance, AtToken, Tag
  <2> QED
    BY <2>1, <1>1, <1>3, <1>8 DEF PathDrawn
<1>9. CASE MoveTo
  <2>1. AtToken /\ Advance /\ pc \in {"tokens", "build"}
    BY <1>9 DEF MoveTo, AtToken
  <2> QED
    BY <2>1, <1>3, <1>8, <1>9, MoveToDraws
<1>10. CASE StraightLine
  <2>1. AtToken /\ Advance /\ pc \in {"tokens", "build"}
    BY <1>10 DEF StraightLine, AtToken
  <2> QED
    BY <2>1, <1>3, <1>8, <1>10, StraightLineDraws
<1>11. CASE ClosePath
  <2>1. AtToken /\ Advance /\ pc \in {"tokens", "build"}
    BY <1>11 DEF ClosePath, AtToken
  <2> QED
    BY <2>1, <1>3, <1>8, <1>11, ClosePathDraws
<1>12. CASE ReadNothing
  <2>1. AtToken /\ pc \in {"tokens", "build"}
    BY <1>12 DEF ReadNothing, AtToken
  <2> QED
    BY <2>1, <1>3, <1>12, NeverRefused
<1>13. CASE RefuseToken
  <2>1. AtToken /\ pc \in {"tokens", "build"}
    BY <1>13 DEF RefuseToken, AtToken
  <2> QED
    BY <2>1, <1>3, <1>13, NeverRefused
<1>14. CASE EndTokens
  <2>1. /\ pc = "tokens" /\ pc' = "build" /\ i > Len(tokens)
        /\ n' = n /\ i' = i /\ elements' = elements /\ doc' = doc
    BY <1>14 DEF EndTokens
  <2>2. tokens' = tokens /\ Tag' = Tag /\ Done' = Done /\ AllBuilt' = AllBuilt
    BY <2>1, <1>0 DEF tokens, Tag, Done, AllBuilt
  <2>3. Done = Turns(tokens)
    <3>1. i \in Nat /\ i % 2 = 1 /\ Len(tokens) \in Nat
      BY <2>1, TokensAre DEF ReadInv
    <3>2. Done \in 0 .. Turns(tokens)
      BY <2>1, <1>3 DEF DrawnTo
    <3>3. Done >= Turns(tokens)
      BY <3>1, <2>1 DEF Done, Turns
    <3>4. Done \in Int /\ Turns(tokens) \in Int
      BY <3>1 DEF Done, Turns
    <3> QED
      BY <3>2, <3>3, <3>4
  <2>4. DrawnTo(tokens, Done, elements, AllBuilt.edges, Sheet[n - 1]) /\ Tag = "path"
    BY <2>1, <1>3
  <2>5. PathDrawn'
    BY <2>1, <2>2, <2>3, <2>4, <1>1 DEF PathDrawn
  <2> QED
    BY <2>1, <2>2, <2>4, <2>5
<1>15. CASE AddPaths
  <2>1. pc = "build" /\ pc' = "node" /\ n' - 1 = n /\ doc' = AllBuilt
    BY <1>15, <1>1 DEF AddPaths
  <2>2. /\ Follow(AllBuilt.edges, Sheet[n - 1] \o Pen(tokens)[Turns(tokens)].lines)
        /\ Sheet[n] = Sheet[n - 1] \o DrawnBy(nodes[n]) /\ Tag = "path"
    BY <2>1, <1>3 DEF DrawnTo
  <2>3. DrawnBy(nodes[n]) = Pen(tokens)[Turns(tokens)].lines
    BY <2>2 DEF DrawnBy, Tag, tokens
  <2> QED
    BY <2>1, <2>2, <2>3, <1>1
<1>16. CASE Finish
  <2>1. pc = "node" /\ pc' = "done" /\ n > Len(nodes) /\ n' = n /\ doc' = doc
    BY <1>16 DEF Finish
  <2>2. n = Len(nodes) + 1
    BY <2>1, <1>1
  <2> QED
    BY <2>1, <2>2, <1>0, <1>1, <1>2
<1>17. CASE UNCHANGED vars
  <2>1. /\ n' = n /\ i' = i /\ elements' = elements /\ pc' = pc /\ doc' = doc
    BY <1>17 DEF vars
  <2>2. tokens' = tokens /\ Tag' = Tag /\ Done' = Done /\ AllBuilt' = AllBuilt
    BY <2>1, <1>0 DEF tokens, Tag, Done, AllBuilt
  <2>3. pc' \in {"tokens", "build"} => Tag' = "path" /\ PathDrawn'
    BY <2>1, <2>2, <1>1, <1>2 DEF PathDrawn
  <2> QED
    BY <2>1, <2>3, <1>0, <1>1, <1>2
<1> QED
  BY <1>4, <1>5, <1>6, <1>7, <1>8, <1>9, <1>10, <1>11, <1>12, <1>13, <1>14, <1>15,
     <1>16, <1>17 DEF Next

LEMMA AlwaysDrawn == SpecBoth => []DrawnInv
<1>1. DrawnInv /\ ReadInv /\ [NextBoth]_<<vars, tracer_vars>> => DrawnInv'
  <2>1. [NextBoth]_<<vars, tracer_vars>> => [Next]_vars
    BY DEF NextBoth, ReadStep, TraceStep
  <2> QED
    BY <2>1, DrawingStays
<1> QED
  BY <1>1, DrawingBegins, AlwaysRead, PTL DEF SpecBoth

\* A plain file of any length is never refused, and read as it is drawn: parse_path
\* keeps the places of its moves and lines together with the pen, over all subpaths.
THEOREM PlainFilesReadAsDrawn == SpecBoth => []ReadsAsDrawn
<1>1. DrawnInv /\ ReadInv => ReadsAsDrawn
  <2> SUFFICES ASSUME DrawnInv, ReadInv, PlainFile
               PROVE  /\ pc \notin {"failed", "undefined"}
                      /\ pc = "done" => Follow(doc.edges, Sheet[Len(nodes)])
    BY DEF ReadsAsDrawn
  <2>1. Len(nodes) \in Nat
    BY LenProperties DEF ReadInv
  <2>2. (Len(nodes) + 1) - 1 = Len(nodes)
    BY <2>1
  <2> QED
    BY <2>2 DEF DrawnInv
<1> QED
  BY <1>1, AlwaysDrawn, AlwaysRead, PTL
=============================================================================
