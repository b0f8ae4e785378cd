---------------------------- MODULE MCInterpreter ----------------------------
(***************************************************************************)
(* The interpretation of drawings of none to three pieces, with every      *)
(* relation between the boxes of the pieces.                               *)
(***************************************************************************)
EXTENDS Interpreter

MCInputs == {
    << >>,
    << <<0, 1>>, <<1, 2>>, <<2, 0>> >>,
    << <<0, 1>>, <<2, 3>>, <<3, 4>> >>,
    << <<3, 2>>, <<0, 1>>, <<1, 2>>, <<4, 5>> >>,
    << <<4, 5>>, <<0, 1>>, <<2, 3>> >>,
    << <<0, 2>>, <<1, 3>>, <<4, 5>>, <<3, 6>> >> }

\* Drawings with something in them.
MCDrawings == MCInputs \ {<< >>}
=============================================================================
