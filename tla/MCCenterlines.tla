---------------------------- MODULE MCCenterlines ----------------------------
(***************************************************************************)
(* Paths of up to four tokens of every kind in every order; seven tokens   *)
(* of which some letters are taken in pairs; plain paths of up to four     *)
(* letters with whole and half numbers; and files of up to three nodes:    *)
(* lines, paths, and nodes that are left out or not known.                 *)
(* Center lines are traced of up to three lines between a few places, some *)
(* of them near each other, one below zero.                                *)
(***************************************************************************)
EXTENDS Centerlines

Letter(c) == [kind |-> c, params |-> << >>]
Numbers(list) == [kind |-> "numbers", params |-> list]
Path(ts) == [tag |-> "path", ends |-> << >>, tokens |-> ts]
Line(ends) == [tag |-> "line", ends |-> ends, tokens |-> << >>]
Other(tag) == [tag |-> tag, ends |-> << >>, tokens |-> << >>]

AnyToken ==
    {Letter(c) : c \in Letters}
    \union {Numbers(list) : list \in {<< >>, <<-3>>, <<2, 4>>}}
    \union {[kind |-> "broken", params |-> << >>]}

\* What is between two letters is one token.
Split(ts) ==
    \A k \in 1 .. Len(ts) - 1 : ts[k].kind \in Letters \/ ts[k + 1].kind \in Letters

AnyPaths == {ts \in UNION {[1 .. m -> AnyToken] : m \in 0 .. 4} : Split(ts)}

\* What comes after a path that can be closed: letters that are taken in pairs,
\* and blanks behind them.
After == {Letter("M"), Letter("L"), Letter("Z"), Blank, Numbers(<<-3>>)}
LongPaths ==
    {ts \in {<<Letter("M"), Numbers(<<0, 2>>)>> \o t : t \in [1 .. 5 -> After]} : Split(ts)}

\* A move or a line with its pair, or a closing with or without a blank.
Commands ==
    {<<Letter(c), Numbers(<<x>>)>> : c \in Moves \union Lines, x \in {2, -3}}
    \union {<<Letter("z"), Blank>>}

PlainPaths ==
    {ts \in {FlattenSeq(c) : c \in UNION {[1 .. m -> Commands] : m \in 1 .. 4}} : Plain(ts)}

\* Parts of files: points met again by lines and by paths.
Triangle == <<Letter("M"), Numbers(<<0>>), Letter("l"), Numbers(<<2>>),
              Letter("L"), Numbers(<<6>>), Letter("Z")>>
TwoPaths == <<Letter("M"), Numbers(<<2>>), Letter("l"), Numbers(<<4>>), Letter("z"), Blank,
              Letter("m"), Numbers(<<-6>>), Letter("L"), Numbers(<<2>>)>>
Chain == <<Letter("M"), Numbers(<<0, 2, 4>>), Letter("l"), Numbers(<<2, -4>>)>>
Nodes == {Line(<<0, 2>>), Line(<<6, -3>>), Line(<< >>), Other("ignored"), Other("unknown"),
          Path(Triangle), Path(TwoPaths), Path(Chain), Path(<< >>)}

\* Drawings of lines alone; places are in whole units.
Drawing(ends) == [k \in DOMAIN ends |-> Line(<<2 * ends[k][1], 2 * ends[k][2]>>)]
Ends == {e \in {0, 2, 3, 14} \X {0, 2, 3, 14} : e[1] # e[2]}
Few == <<<<0, 1>>, <<2, 10>>, <<10, 20>>, <<3, 14>>, <<20, -3>>>>
Chosen == {c \in [1 .. 3 -> DOMAIN Few] : c[1] < c[2] /\ c[2] < c[3]}

MCTraced ==
    {Drawing(ends) : ends \in UNION {[1 .. m -> Ends] : m \in 1 .. 2}
                      \union {[k \in 1 .. 3 |-> Few[c[k]]] : c \in Chosen}}
MCInputs ==
    {<<Path(ts)>> : ts \in AnyPaths \union LongPaths \union PlainPaths}
    \union UNION {[1 .. m -> Nodes] : m \in 0 .. 3}
    \union MCTraced
=============================================================================
