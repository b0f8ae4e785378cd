----------------------------- MODULE Components -----------------------------
(***************************************************************************)
(* What separate_projections promises: one by one, each connected          *)
(* component of the graph of edges is taken out, until no edge is left.    *)
(* Nothing is said of the order in which components are taken or of the    *)
(* walk that finds one.                                                    *)
(***************************************************************************)
EXTENDS Projections

CONSTANT Vertex  \* what edges connect

VARIABLES remaining,  \* edges that belong to no component yet
          found       \* the components taken out so far, as sets of edges

vars == <<remaining, found>>

Init == remaining \in SUBSET (Vertex \X Vertex) /\ found = {}

\* A component is not empty, is connected, and no edge leads out of it.
IsComponent(K) ==
    /\ K # {}
    /\ Closed(VertsOf(K), remaining)
    /\ Connected(K)

Take(K) ==
    /\ K \subseteq remaining
    /\ IsComponent(K)
    /\ remaining' = remaining \ K
    /\ found' = found \union {K}

Next == \E K \in SUBSET remaining : Take(K)

Spec == Init /\ [][Next]_vars /\ WF_vars(Next)
=============================================================================
