-------------------------------- MODULE Prune --------------------------------
(***************************************************************************)
(* prune (interpreter.cpp): of two projections, one of which has the       *)
(* centre of its bounding box inside the bounding box of the other, the    *)
(* smaller is merged into the larger.  Two nested loops walk one vector    *)
(* that the body erases from.                                              *)
(*                                                                         *)
(* A bounding box is the number of its projection in the list at the call; *)
(* what the program computes from its coordinates is chosen once and kept  *)
(* in `covers' and `area'.                                                 *)
(* cv::RotatedRect gives any relation between centres and boxes, since a   *)
(* box may be long and thin, and `inside' reads the angle, which is in     *)
(* degrees, as radians.                                                    *)
(***************************************************************************)
EXTENDS Projections

CONSTANT Areas  \* the areas a bounding box may have

VARIABLES given,        \* the list at the call
          covers,       \* <<b, c>>: inside(b, centre of c)
          area,         \* size.area() of each box
          projections,  \* the list, each projection with its bounding_box
          i, j,         \* the counters of the two loops
          center,       \* the box whose centre the inner loop compares
          removed_any,
          pc            \* "outer", "inner", "done" or "undefined"

geometry == <<given, covers, area>>
vars == <<geometry, projections, i, j, center, removed_any, pc>>

\* What is computed from the boxes B: a box without area has nothing inside it,
\* any other one has its own centre inside.
Geometry(B, C, A) ==
    /\ A \in [B -> Areas]
    /\ C \in SUBSET (B \X B)
    /\ \A b \in B : <<b, b>> \in C <=> A[b] > 0
    /\ \A b, c \in B : <<b, c>> \in C => A[b] > 0

InitLoop ==
    /\ i = 1
    /\ j = 1
    /\ center = 1  \* any: it is assigned before it is read
    /\ removed_any = FALSE
    /\ pc = "outer"

\* Slip: the centre is that of the first projection in every round.
FirstCenter == projections[1].box

Center == projections[i].box

\* while (i < projections.size()): the centre is copied, the inner loop starts.
EnterRound ==
    /\ pc = "outer"
    /\ i <= Len(projections)
    /\ center' = Center
    /\ removed_any' = FALSE
    /\ j' = 1
    /\ pc' = "inner"
    /\ UNCHANGED <<geometry, projections, i>>

InLoop == pc = "inner" /\ j <= Len(projections)
Inside == <<projections[j].box, center>> \in covers

\* Slip: the smaller of two boxes is kept.
Smaller == area[projections[j].box] < area[projections[i].box]
Larger == area[projections[j].box] > area[projections[i].box]

\* if (i == j) continue, or the centre is not inside.
PassBy ==
    /\ InLoop
    /\ i = j \/ ~ Inside
    /\ j' = j + 1
    /\ UNCHANGED <<geometry, projections, i, center, removed_any, pc>>

MergedInto(t, s) ==
    RemoveAt([projections EXCEPT ![t] = Merge(projections[t], projections[s])], s)

\* The larger box takes projection i; i is erased and the inner loop breaks.
GiveUp ==
    /\ InLoop
    /\ i # j /\ Inside
    /\ i <= Len(projections) /\ Larger
    /\ projections' = MergedInto(j, i)
    /\ removed_any' = TRUE
    /\ pc' = "outer"
    /\ UNCHANGED <<geometry, i, j, center>>

\* Projection i takes projection j; j is erased, --j and the loop's ++j cancel
\* out (through the wrap of size_t when j is 0), and i is left as it is.
TakeOver ==
    /\ InLoop
    /\ i # j /\ Inside
    /\ i <= Len(projections) /\ ~ Larger
    /\ projections' = MergedInto(i, j)
    /\ removed_any' = TRUE
    /\ UNCHANGED <<geometry, i, j, center, pc>>

\* projections[i] is read past the end of the vector: the C++ program may do
\* anything from here on.
ReadPastEnd ==
    /\ InLoop
    /\ i # j /\ Inside
    /\ i > Len(projections)
    /\ pc' = "undefined"
    /\ UNCHANGED <<geometry, projections, i, j, center, removed_any>>

\* Slip: i is not advanced.
Stay == i

\* On to the next projection, unless one was merged.
Advance == IF removed_any THEN i ELSE i + 1

\* The inner loop ran through.
LeaveRound ==
    /\ pc = "inner"
    /\ j > Len(projections)
    /\ i' = Advance
    /\ pc' = "outer"
    /\ UNCHANGED <<geometry, projections, j, center, removed_any>>

Finish ==
    /\ pc = "outer"
    /\ i > Len(projections)
    /\ pc' = "done"
    /\ UNCHANGED <<geometry, projections, i, j, center, removed_any>>

Next ==
    \/ EnterRound
    \/ PassBy
    \/ GiveUp
    \/ TakeOver
    \/ ReadPastEnd
    \/ LeaveRound
    \/ Finish

-----------------------------------------------------------------------------
Box == 1 .. Len(given)

\* A box that has the centre of another inside, and not the other way round,
\* is the larger of the two.  Views drawn apart from each other, with their
\* details inside them, are like this; two boxes that cross are not.
Nested ==
    \A b, c \in Box :
        b # c /\ <<b, c>> \in covers /\ <<c, b>> \notin covers => area[b] > area[c]

\* The boxes whose projections have been merged into p.
Members(p) == {given[k].box : k \in {m \in DOMAIN given :
                  ToSet(given[m].vertices) \subseteq ToSet(p.vertices)}}

\* A projection with its bounding_box.
View == [vertices : Seq(Nat), edges : Seq(Nat \X Nat), cedges : Seq(Nat \X Nat), box : Box]

TypeOK ==
    /\ Geometry(Box, covers, area)
    /\ projections \in Seq(View)
    /\ i \in 1 .. Len(given) + 1
    /\ j \in 1 .. Len(given) + 1
    /\ pc = "inner" => center \in Box
    /\ removed_any \in BOOLEAN
    /\ pc \in {"outer", "inner", "done", "undefined"}

\* Any part of a merged projection is tied to the rest of it by a box.
TiedByBoxes ==
    \A k \in DOMAIN projections :
        \A S \in SUBSET Members(projections[k]) :
            S # {} /\ S # Members(projections[k]) =>
                \E b \in S, c \in Members(projections[k]) \ S :
                    <<b, c>> \in covers \/ <<c, b>> \in covers

\* No box that is left has the centre of another inside.
NothingToMerge ==
    \A k, m \in DOMAIN projections :
        k # m => <<projections[k].box, projections[m].box>> \notin covers
=============================================================================
