---------------------------- MODULE MCSeparation ----------------------------
(***************************************************************************)
(* Separation of every drawing made of some of the Lines, its edges in     *)
(* every order: the last edge starts a projection and the first touching   *)
(* one extends it, so the order decides the whole walk.  An edge is drawn  *)
(* at most once (the vectorizer's edge_already_exists).  The six lines are *)
(* a triangle, a line apart from it, and two lines that join the two.  The *)
(* point labelled 2 is on no line, so labels are not consecutive.          *)
(***************************************************************************)
EXTENDS Separation

Lines == {<<0, 1>>, <<1, 3>>, <<3, 0>>, <<4, 5>>, <<3, 4>>, <<5, 0>>}

\* The lists of n different lines, built from those of n - 1.
Drawings[n \in Nat] ==
    IF n = 0 THEN {<< >>}
    ELSE UNION {{Append(d, e) : e \in Lines \ ToSet(d)} : d \in Drawings[n - 1]}

MCInputs == UNION {Drawings[n] : n \in 0 .. Cardinality(Lines)}
=============================================================================
