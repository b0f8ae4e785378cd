---------------------------- MODULE MCPointGraph ----------------------------
(***************************************************************************)
(* The graph of one or two contours of one to three vertices among five    *)
(* pixels of a small image: near and far from each other and at the        *)
(* borders.  Four points fit in the image, two more than START_SEED.       *)
(***************************************************************************)
EXTENDS PointGraph

Corners == {<<0, 0>>, <<1, 1>>, <<2, 0>>, <<4, 1>>, <<6, 0>>}

Contours == UNION {[1 .. n -> Corners] : n \in 1 .. 3}

MCInputs == {<<c>> : c \in Contours} \union {<<c, d>> : c \in Contours, d \in Contours}
=============================================================================
