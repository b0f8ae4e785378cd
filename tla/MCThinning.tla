----------------------------- MODULE MCThinning -----------------------------
(***************************************************************************)
(* Every picture of three by four pixels, and every one of four by four    *)
(* that has ink in the middle, with a blank border; and every one of three *)
(* by three with lines that come in from the border.                       *)
(***************************************************************************)
EXTENDS Thinning

Square(n) == (1 .. n) \X (1 .. n)

Ring == Square(4) \ ((2 .. 3) \X (2 .. 3))

Borders == {{<<0, 0>>}, {<<0, 1>>, <<0, 2>>}, {<<2, 0>>, <<0, 2>>},
            {<<r, 0>> : r \in 0 .. Rows - 1}}

MCInputs ==
    SUBSET ((1 .. 3) \X (1 .. 4))
    \union {S \union ((2 .. 3) \X (2 .. 3)) : S \in SUBSET Ring}
    \union {S \union T : S \in SUBSET Square(3), T \in Borders}
=============================================================================
