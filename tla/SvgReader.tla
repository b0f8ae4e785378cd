----------------------------- MODULE SvgReader -----------------------------
(***************************************************************************)
(* svg::reader::parse: the nodes of the file one after the other; those of *)
(* nested svg and g nodes come in the order in which parse_all meets them. *)
(* The `d' of a path is split at its letters; each token is a letter or    *)
(* what is between two letters.                                            *)
(*                                                                         *)
(* Numbers are counted in halves, so that what is lost when a double is    *)
(* stored in the int of a location shows.                                  *)
(***************************************************************************)
EXTENDS SvgDocument

CONSTANTS Inputs  \* the lists of nodes of a file

\* kind is the letter, "other" for a letter that no parser is registered for,
\* "numbers" (pairs of numbers, or only blanks), or "broken" for text that is
\* not a list of pairs.
Moves == {"M", "m"}
Lines == {"L", "l"}
Closes == {"Z", "z"}
Letters == Moves \union Lines \union Closes \union {"other"}
Token == [kind : Letters \union {"numbers", "broken"}, params : Seq(Int)]

\* ends are the attributes of a line, empty if one cannot be read.
Node == [tag : {"line", "path", "ignored", "unknown"}, ends : Seq(Int), tokens : Seq(Token)]

ASSUME InputsAssumption == Inputs \subseteq Seq(Node)

VARIABLES nodes, n,   \* the nodes, and the one parse_all is at
          i,          \* the token parse_path is at
          elements,   \* the paths of this node: lists of [start, at]
          pc          \* "node", "tokens", "build", "done", "failed", "undefined"

vars == <<nodes, n, i, elements, doc, pc>>

Init ==
    /\ nodes \in Inputs
    /\ n = 1 /\ i = 1
    /\ elements = << >>
    /\ doc = EmptyDocument
    /\ pc = "node"

\* What an int keeps of a number of halves: it is cut off towards zero.
Halves(h) == IF h >= 0 THEN h \div 2 ELSE -((-h) \div 2)

Tag == nodes[n].tag
tokens == nodes[n].tokens
path == Last(elements)  \* elements[current_path_number]

\* parse_segment.
ReadLine ==
    /\ pc = "node" /\ n <= Len(nodes) /\ Tag = "line"
    /\ Len(nodes[n].ends) = 2
    /\ LET l1 == Halves(nodes[n].ends[1])
           l2 == Halves(nodes[n].ends[2])
       IN  doc' = AddSegment(AddPoint(AddPoint(doc, l1), l2), l1, l2)
    /\ n' = n + 1
    /\ UNCHANGED <<nodes, i, elements, pc>>

SkipNode ==
    /\ pc = "node" /\ n <= Len(nodes) /\ Tag = "ignored"
    /\ n' = n + 1
    /\ UNCHANGED <<nodes, i, elements, doc, pc>>

\* lexical_cast throws, or the function of an unknown tag is empty: the call
\* ends with an exception and the document is gone.
RefuseNode ==
    /\ pc = "node" /\ n <= Len(nodes)
    /\ Tag = "unknown" \/ (Tag = "line" /\ Len(nodes[n].ends) # 2)
    /\ pc' = "failed"
    /\ UNCHANGED <<nodes, n, i, elements, doc>>

EnterPath ==
    /\ pc = "node" /\ n <= Len(nodes) /\ Tag = "path"
    /\ elements' = << << >> >>
    /\ i' = 1
    /\ pc' = "tokens"
    /\ UNCHANGED <<nodes, n, doc>>

\* trimmed: token i with the next one, whatever that is, appended.  Its first
\* character is that of the next token if token i is blank.
Blank == [kind |-> "numbers", params |-> << >>]
NextToken ==
    IF i < Len(tokens) THEN tokens[i + 1] ELSE Blank
Symbol == IF tokens[i] = Blank THEN NextToken.kind ELSE tokens[i].kind

\* Slip: the next token is not appended.
RestWithoutNext == Blank

Rest == IF tokens[i] = Blank THEN Blank ELSE NextToken

\* fetch_params: nothing if only separators follow, which are also the two
\* letters of the command itself; an exception if they are not pairs.
Readable(letters) == Rest.kind \in {"numbers"} \union letters
Params == Rest.params

\* Slip: relative to where the path begins.
OriginOfPath ==
    IF Symbol \in {"m", "l"} /\ path # << >> THEN path[1].at ELSE 0

\* location_policy::get_starting_point
Origin == IF Symbol \in {"m", "l"} /\ path # << >> THEN Last(path).at ELSE 0

\* The points reached by adding the numbers up, each from the one before,
\* whether the letter is relative or not.
Reached ==
    LET pen[k \in 0 .. Len(Params)] ==
            IF k = 0 THEN Origin ELSE Halves(Params[k] + 2 * pen[k - 1])
    IN  [k \in DOMAIN Params |-> pen[k]]

\* What the parser of the letter returns: move_to (which starts a path),
\* straight_line, close_path.
LinesTo(list) == [k \in DOMAIN list |-> [start |-> FALSE, at |-> list[k]]]
Moved == << [start |-> TRUE, at |-> Reached[1]] >> \o LinesTo(Tail(Reached))

Advance == i' = i + 2 /\ pc' = "tokens" /\ UNCHANGED <<nodes, n, doc>>
AtToken == pc = "tokens" /\ i <= Len(tokens)

MoveTo ==
    /\ AtToken /\ Symbol \in Moves
    /\ Readable(Moves) /\ Params # << >>
    /\ elements' = Append(elements, Moved)
    /\ Advance

StraightLine ==
    /\ AtToken /\ Symbol \in Lines
    /\ Readable(Lines) /\ Params # << >>
    /\ elements' = [elements EXCEPT ![Len(elements)] = @ \o LinesTo(Reached)]
    /\ Advance

Closable == Len(path) >= 2

ClosePath ==
    /\ AtToken /\ Symbol \in Closes
    /\ Closable
    /\ elements' = [elements EXCEPT ![Len(elements)] = @ \o LinesTo(<<path[1].at>>)]
    /\ Advance

\* coordinates[0] of an empty vector, or next_elements[0] of one.
ReadNothing ==
    /\ AtToken
    /\ \/ Symbol \in Moves /\ Readable(Moves)
       \/ Symbol \in Lines /\ Readable(Lines)
    /\ Params = << >>
    /\ pc' = "undefined"
    /\ UNCHANGED <<nodes, n, i, elements, doc>>

\* No parser for the letter, numbers where a letter was expected, text that is
\* no list of pairs, or a path too short to be closed.
RefuseToken ==
    /\ AtToken
    /\ \/ Symbol \in {"other", "numbers", "broken"}
       \/ Symbol \in Moves /\ ~ Readable(Moves)
       \/ Symbol \in Lines /\ ~ Readable(Lines)
       \/ Symbol \in Closes /\ ~ Closable
    /\ pc' = "failed"
    /\ UNCHANGED <<nodes, n, i, elements, doc>>

EndTokens ==
    /\ pc = "tokens" /\ i > Len(tokens)
    /\ pc' = "build"
    /\ UNCHANGED <<nodes, n, i, elements, doc>>

\* A path in the document: a point for its start, a segment for each line, from
\* the element before (from 0 if there is none).
Built(d, p) ==
    LET previous(k) == IF k = 1 THEN 0 ELSE p[k - 1].at
        upto[k \in 0 .. Len(p)] ==
            IF k = 0 THEN d
            ELSE IF p[k].start THEN AddPoint(upto[k - 1], p[k].at)
            ELSE AddSegment(upto[k - 1], previous(k), p[k].at)
    IN  upto[Len(p)]

AllBuilt ==
    LET upto[k \in 0 .. Len(elements)] ==
            IF k = 0 THEN doc ELSE Built(upto[k - 1], elements[k])
    IN  upto[Len(elements)]

AddPaths ==
    /\ pc = "build"
    /\ doc' = AllBuilt
    /\ n' = n + 1
    /\ pc' = "node"
    /\ UNCHANGED <<nodes, i, elements>>

Finish ==
    /\ pc = "node" /\ n > Len(nodes)
    /\ pc' = "done"
    /\ UNCHANGED <<nodes, n, i, elements, doc>>

Next ==
    \/ ReadLine \/ SkipNode \/ RefuseNode \/ EnterPath
    \/ MoveTo \/ StraightLine \/ ClosePath \/ ReadNothing \/ RefuseToken
    \/ EndTokens \/ AddPaths \/ Finish

-----------------------------------------------------------------------------
\* The types of the variables.
TypeOK ==
    /\ n \in 1 .. Len(nodes) + 1
    /\ i \in Nat
    /\ elements \in Seq(Seq([start : BOOLEAN, at : Location]))
    /\ pc \in {"tokens", "build"} => elements # << >>
    /\ DOMAIN doc.points \subseteq Location /\ IsFiniteSet(DOMAIN doc.points)
    /\ \A l \in DOMAIN doc.points : doc.points[l] \in Seq(Location)
    /\ doc.edges \in Seq(Location \X Location)
    /\ pc \in {"node", "tokens", "build", "done", "failed", "undefined"}

\* The variables keep their types.  Points are shared by all lines and paths of
\* a file, and each edge is at its two ends: a point met again never loses the
\* edges it has.
Mirrored == TypeOK /\ EdgesAtPoints(doc)

\* A path written plainly: letters and what belongs to them take turns, a move
\* is first, there is one pair for each move and line and none for a closing,
\* which follows a line or a closing.
Plain(ts) ==
    /\ ts # << >> => ts[1].kind \in Moves
    /\ \A k \in DOMAIN ts :
          IF k % 2 = 0
          THEN ts[k].kind = "numbers"
               /\ Len(ts[k].params) = (IF ts[k - 1].kind \in Closes THEN 0 ELSE 1)
          ELSE /\ ts[k].kind \in Moves \union Lines \union Closes
               /\ k = Len(ts) => ts[k].kind \in Closes
               /\ ts[k].kind \in Closes => ts[k - 2].kind \notin Moves

PlainFile ==
    \A k \in DOMAIN nodes :
        \/ nodes[k].tag = "ignored"
        \/ nodes[k].tag = "line" /\ Len(nodes[k].ends) = 2
        \/ nodes[k].tag = "path" /\ Plain(nodes[k].tokens)

\* What a plain path draws, by the meaning of its letters, after each of them: the
\* pen, where the subpath began, and the lines, in halves; and off, the number of
\* those read that are not whole.
IsOdd(h) == h % 2 = 1
LetterAt(ts, m) == ts[2 * m - 1].kind
PairAt(ts, m) == ts[2 * m].params[1]

Drawn(ts, m, before) ==
    LET letter == LetterAt(ts, m)
        p == IF letter \in Closes THEN before.first
             ELSE PairAt(ts, m) + (IF letter \in {"m", "l"} THEN before.pen ELSE 0)
        off == before.off + (IF letter \notin Closes /\ IsOdd(PairAt(ts, m)) THEN 1 ELSE 0)
    IN  [pen |-> p,
         first |-> IF letter \in Moves THEN p ELSE before.first,
         off |-> off,
         lines |-> IF letter \in Moves THEN before.lines
                   ELSE Append(before.lines, [ends |-> <<before.pen, p>>, off |-> off])]

Turns(ts) == (Len(ts) + 1) \div 2
Pen(ts) ==
    LET after[m \in 0 .. Turns(ts)] ==
            IF m = 0 THEN [pen |-> 0, first |-> 0, off |-> 0, lines |-> << >>]
            ELSE Drawn(ts, m, after[m - 1])
    IN  after

DrawnBy(node) ==
    CASE node.tag = "path" -> Pen(node.tokens)[Turns(node.tokens)].lines
      [] node.tag = "line" -> << [ends |-> <<node.ends[1], node.ends[2]>>,
                                  off |-> IF IsOdd(node.ends[1]) \/ IsOdd(node.ends[2])
                                          THEN 1 ELSE 0] >>
      [] OTHER -> << >>

\* What the nodes before each draw.
Sheet ==
    LET upto[k \in 0 .. Len(nodes)] ==
            IF k = 0 THEN << >> ELSE upto[k - 1] \o DrawnBy(nodes[k])
    IN  upto

\* Edges are where lines were drawn, each end off by no more than half a unit for
\* each number read in its node up to there that is not whole.
Within(at, drawn, off) == 2 * at - drawn \in -off .. off
Follow(edges, lines) ==
    /\ Len(edges) = Len(lines)
    /\ \A k \in DOMAIN lines : \A e \in 1 .. 2 :
          Within(edges[k][e], lines[k].ends[e], lines[k].off)

\* A plain file is never refused, and is read as it is drawn: the same lines in
\* the same order, over all subpaths, and exactly in a file of whole numbers.
ReadsAsDrawn ==
    PlainFile =>
        /\ pc \notin {"failed", "undefined"}
        /\ pc = "done" => Follow(doc.edges, Sheet[Len(nodes)])

\* As long as each move and line is followed by numbers or by text that can be
\* refused, and there are no blanks where a command is due, nothing is read past
\* the end of an empty vector: the letters do not get out of step.  Blanks are
\* due only before a path and after Z Z, which are taken as one command.
NumbersFollow(ts) ==
    \A k \in DOMAIN ts :
        /\ k % 2 = 1 => ts[k] # Blank
        /\ ts[k].kind \in Moves \union Lines =>
              /\ k < Len(ts)
              /\ ts[k + 1].kind \in {"numbers", "broken"}
              /\ ts[k + 1] # Blank

StaysDefined ==
    (\A k \in DOMAIN nodes : NumbersFollow(nodes[k].tokens)) => pc # "undefined"
=============================================================================
