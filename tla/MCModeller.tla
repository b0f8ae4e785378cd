----------------------------- MODULE MCModeller -----------------------------
(***************************************************************************)
(* Sheets of two views, beside each other and below each other; of three   *)
(* views; of a box; and sheets whose second view has one vertex in the row *)
(* of the first one, whose points then have the lines of the first view as *)
(* their edges: every graph, and every list of coordinates.                *)
(***************************************************************************)
EXTENDS Modeller

At(x, y) == [x |-> x, y |-> y]
View(x, y, vertices, cedges) ==
    [center |-> At(x, y), vertices |-> vertices, cedges |-> cedges]

\* The same sheet with its views below each other.
Turned(sheet) ==
    [k \in DOMAIN sheet |->
        View(sheet[k].center.y, -sheet[k].center.x,
             [n \in DOMAIN sheet[k].vertices |->
                 At(sheet[k].vertices[n].y, -sheet[k].vertices[n].x)], sheet[k].cedges)]
BothWays(S) == S \union {Turned(sheet) : sheet \in S}

\* Three vertices and two, in any of these places.
Small ==
    {<<View(0, 0, v, {<<1, 2>>, <<3, 2>>}), View(20, 0, w, {<<2, 1>>})>> :
        v \in [1 .. 3 -> {At(0, 0), At(1, 3), At(5, 1)}],
        w \in [1 .. 2 -> {At(21, 1), At(20, 4), At(24, 0)}]}

\* Three views in a row.
Three ==
    {<<View(0, 0, <<At(0, a), At(4, 3)>>, {<<1, 2>>}),
       View(20, 0, <<At(20, b), At(24, 3)>>, {<<1, 2>>}),
       View(40, 0, <<At(40, c), At(44, 3)>>, {<<2, 1>>})>> : a, b, c \in {0, 1, 3}}

\* The corner of a rectangle at x0 with that number, in the order s.
Corner(x0, w, h, s, n) ==
    At(x0 + (IF s[n] \in {1, 4} THEN 0 ELSE w), IF s[n] \in {1, 2} THEN 0 ELSE h)
Outline(x0, w, h, s) ==
    LET v == [n \in 1 .. 4 |-> Corner(x0, w, h, s, n)]
    IN  View(x0, 0, v, {e \in (1 .. 4) \X (1 .. 4) :
                           s[e[2]] = (s[e[1]] % 4) + 1 /\ v[e[1]] # v[e[2]]})
Orders(n) == {s \in [1 .. n -> 1 .. n] : IsInjective(s)}
Boxes ==
    {<<Outline(0, size[1], size[2], s), Outline(20, size[3], size[2], s)>> :
        size \in {3, 5} \X {4, 7} \X {3, 6}, s \in Orders(4)}

\* The views of a box that number its upper corners crosswise.
Crossed ==
    {<<Outline(0, 3, 4, s),
       Outline(20, 3, 4, [n \in 1 .. 4 |-> IF s[n] \in {1, 2} THEN 3 - s[n] ELSE s[n]])>> :
        s \in Orders(4)}

\* The second view has one vertex in the row of all vertices of the first.
OneRow(xs, cedges) ==
    <<View(0, 0, [n \in DOMAIN xs |-> At(xs[n], 0)], cedges),
      View(20, 0, <<At(20, 0), At(20, 9)>>, {<<1, 2>>})>>

Pairs(S) == {e \in S \X S : e[1] < e[2]}
Graphs ==
    {OneRow(<<0, 4, 0, 4, 0>>, E) : E \in SUBSET Pairs(1 .. 5)}
Lists ==
    {OneRow(xs, {}) :
        xs \in UNION {[1 .. n -> 0 .. 6] : n \in 1 .. 4} \union [1 .. 5 -> {0, 2, 4, 5}]}

\* A triangle on three of n points, and a ring on the others; and a ring of six.
Ring(s) == {<<s[n], s[(n % Len(s)) + 1]>> : n \in DOMAIN s}
Rings(S) ==
    LET first == CHOOSE p \in S : \A q \in S : p <= q
    IN  {Ring(<<first>> \o s) : s \in SetToSeqs(S \ {first})}
TwoRings(n) ==
    UNION {{triangle \union ring : triangle \in Rings(A), ring \in Rings((1 .. n) \ A)} :
              A \in {{1, 2, 3}, {1, 3, 5}, {2, 4, 6}}}
RingSheets ==
    {OneRow([n \in 1 .. 6 |-> 0], E) : E \in Rings(1 .. 6)} \union
    {OneRow([n \in 1 .. 7 |-> 0], E) : E \in TwoRings(7)}

MCSheets ==
    BothWays(Small \union Boxes \union Crossed) \union Three \union Graphs \union Lists
        \union RingSheets
=============================================================================
