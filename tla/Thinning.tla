------------------------------ MODULE Thinning ------------------------------
(***************************************************************************)
(* zhang_suen::thinning (preprocessor.cpp): layers of the lines' pixels    *)
(* are taken off, in rounds of two half-rounds, until a round takes none.  *)
(* A picture is the set of its pixels with ink (value 1).                  *)
(***************************************************************************)
EXTENDS Integers, FiniteSets

CONSTANTS Rows, Cols,  \* size of the picture
          Inputs       \* the pictures thinning may be called with

Pixel == (0 .. Rows - 1) \X (0 .. Cols - 1)

ASSUME SizeAssumption == Rows \in Nat /\ Cols \in Nat
ASSUME InputsAssumption == Inputs \subseteq SUBSET Pixel

VARIABLES original,  \* the picture at the call
          im,
          prev,      \* im after the round before
          turn       \* "even", "odd", "compare" or "done"

thinning_vars == <<original, im, prev, turn>>

ThinningInit ==
    /\ original \in Inputs
    /\ im = original
    /\ prev = {}
    /\ turn = "even"

\* Slip: pixels at the border are looked at too.
InnerAll == Pixel

\* The loops over i and j leave the border of the picture out.
Inner == (1 .. Rows - 2) \X (1 .. Cols - 2)

\* p2 to p9: the neighbours of a pixel, clockwise from the one above.
P(p, n) ==
    LET Step == << <<0, 0>>, <<-1, 0>>, <<-1, 1>>, <<0, 1>>, <<1, 1>>,
                   <<1, 0>>, <<1, -1>>, <<0, -1>>, <<-1, -1>> >>
    IN  <<p[1] + Step[n][1], p[2] + Step[n][2]>>

Ink(S, p, n) == P(p, n) \in S

\* How often ink follows blank on the way around, and how much ink there is.
A(S, p) ==
    Cardinality({n \in 2 .. 9 : ~ Ink(S, p, n) /\ Ink(S, p, IF n = 9 THEN 2 ELSE n + 1)})
B(S, p) == Cardinality({n \in 2 .. 9 : Ink(S, p, n)})

Between(S, p) == B(S, p) \in 2 .. 6

\* m1 and m2 are 0.
OneBlank(S, p, three) == \E n \in three : ~ Ink(S, p, n)
Sides(S, p, iter) ==
    IF iter = 0 THEN OneBlank(S, p, {2, 4, 6}) /\ OneBlank(S, p, {4, 6, 8})
    ELSE OneBlank(S, p, {2, 4, 8}) /\ OneBlank(S, p, {2, 6, 8})

\* Slip: the number of crossings is not looked at.
MarkerAnyCrossings(S, iter) ==
    {p \in Inner : Between(S, p) /\ Sides(S, p, iter)}

\* The marker of an iteration; pixels without ink may be marked as well.
Marker(S, iter) ==
    {p \in Inner : A(S, p) = 1 /\ Between(S, p) /\ Sides(S, p, iter)}

ThinEven ==
    /\ turn = "even"
    /\ im' = im \ Marker(im, 0)
    /\ turn' = "odd"
    /\ UNCHANGED <<original, prev>>

ThinOdd ==
    /\ turn = "odd"
    /\ im' = im \ Marker(im, 1)
    /\ turn' = "compare"
    /\ UNCHANGED <<original, prev>>

\* Slip: the loop goes on while there is ink.
AgainWhileInk ==
    /\ turn = "compare"
    /\ im # {}
    /\ prev' = im
    /\ turn' = "even"
    /\ UNCHANGED <<original, im>>

\* The difference to the round before is not empty.
Again ==
    /\ turn = "compare"
    /\ im # prev
    /\ prev' = im
    /\ turn' = "even"
    /\ UNCHANGED <<original, im>>

\* Slip: a difference of few pixels is taken for none.
FinishAlmost ==
    /\ turn = "compare"
    /\ Cardinality(prev \ im) <= 2
    /\ turn' = "done"
    /\ UNCHANGED <<original, im, prev>>

Finish ==
    /\ turn = "compare"
    /\ im = prev
    /\ turn' = "done"
    /\ UNCHANGED <<original, im, prev>>

ThinningNext == ThinEven \/ ThinOdd \/ Again \/ Finish

\* One thread runs the function to its end, so it is never stopped forever.
ThinningSpec == ThinningInit /\ [][ThinningNext]_thinning_vars /\ WF_thinning_vars(ThinningNext)

-----------------------------------------------------------------------------
\* Pixels are only ever taken off, and none of the border.
ThinningTypes ==
    /\ original \in SUBSET Pixel
    /\ im \in SUBSET original
    /\ original \ im \subseteq (1 .. Rows - 2) \X (1 .. Cols - 2)
    /\ prev \in SUBSET original
    /\ turn \in {"even", "odd", "compare", "done"}

\* The pixels of S that touch one of T, and those reached from T inside S.
Touching(S, T) ==
    {p \in S : \E d \in {-1, 0, 1} \X {-1, 0, 1} : <<p[1] + d[1], p[2] + d[2]>> \in T}
Reached(S, T) ==
    LET step[n \in 0 .. Cardinality(S)] ==
            IF n = 0 THEN T ELSE
                LET before == step[n - 1] IN Touching(S, before)
    IN  step[Cardinality(S)]

\* The pieces of a picture: what hangs together, corners included.
Pieces(S) == {Reached(S, {p}) : p \in S}

\* A dot of two by two pixels.
Dot(S) == \E p \in S : S = {p, P(p, 4), P(p, 5), P(p, 6)}

\* A half-round may eat into a piece, but never cuts it in two, and takes it
\* off altogether only if it was a dot of two by two pixels.  (A piece can be
\* eaten down to such a dot, so a line that is not one may disappear in the end.)
Whole(S) == \E p \in S : Reached(S, {p}) = S
PiecesStay == [][\A C \in Pieces(im) : Dot(C) \/ Whole(C \intersect im')]_im

\* What is left is thin: no further half-round of either kind takes a pixel.
Thin == turn = "done" => Marker(im, 0) \cap im = {} /\ Marker(im, 1) \cap im = {}

\* The rounds come to an end.
Terminates == <>(turn = "done")
=============================================================================
