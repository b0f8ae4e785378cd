------------------------------- MODULE Tracer -------------------------------
(***************************************************************************)
(* centerline_tracer::trace_centerlines with clusterer::clusterize: the    *)
(* points of a document are put into groups, the middles of groups that    *)
(* are close are merged into endpoints, and two endpoints are joined where *)
(* an edge of the document goes from the one to the other.                 *)
(*                                                                         *)
(* The points lie on a line, as in SvgDocument, so that distances are      *)
(* whole.  Grouping is done by GClasses::GKMeans, which is external.       *)
(***************************************************************************)
EXTENDS SvgDocument, FiniteSetsExt

CONSTANTS MAX_ACCEPTABLE_DISTANCE, MIN_DISTANCE_BETWEEN_CLUSTERS,
          SIZE_VALUES,  \* as many as a std::size_t has
          INT_VALUES    \* as many as an int has

ASSUME TracerAssumption ==
    /\ MAX_ACCEPTABLE_DISTANCE \in Nat /\ MIN_DISTANCE_BETWEEN_CLUSTERS \in Nat \ {0}
    /\ INT_VALUES \in Nat \ {0} /\ SIZE_VALUES \in Nat \ {0}

\* doc is svg_doc; it is only read.
VARIABLES cluster_count,
          clusters,       \* the centroids
          merging,        \* i: the cluster the loop over close_clusters is at
          used,           \* the clusters that are part of an endpoint
          endpoints,
          traced,         \* res
          trace_pc        \* "cluster", "merge", "trace" or "traced"

tracer_vars == <<cluster_count, clusters, merging, used, endpoints, traced, trace_pc>>

Abs(x) == IF x < 0 THEN -x ELSE x
Locations == DOMAIN doc.points

\* Everything but the document, before the call.
Begin ==
    /\ cluster_count = 1
    /\ clusters = << >> /\ endpoints = << >>
    /\ merging = 1 /\ used = {}
    /\ traced = EmptyDocument
    /\ trace_pc = "cluster"

-----------------------------------------------------------------------------
\* cluster and assignClusters: k groups, in any order.  The centroid of each is
\* its mean, and every point is in a group whose centroid is nearest to it, so
\* that the groups follow each other along the line: tops are their last points.
Sum(G) == SumFunctionOnSet([l \in G |-> l], G)
Apart(l, G) == Abs(l * Cardinality(G) - Sum(G))  \* from the mean, times the size
Group(tops, top) == {l \in Locations : l <= top /\ \A t \in tops : t < top => t < l}
KMeans(k) ==
    {groups \in {{Group(tops, top) : top \in tops} :
                     tops \in {T \in kSubset(k, Locations) : Max(Locations) \in T}} :
        \A G, H \in groups : \A l \in G :
            Apart(l, G) * Cardinality(H) <= Apart(l, H) * Cardinality(G)}

\* roughly_equal_clusters: no group is further than that from its centroid, on
\* the average.
RoughlyEqual(groups) ==
    \A G \in groups :
        SumFunctionOnSet([l \in G |-> Apart(l, G)], G)
            <= MAX_ACCEPTABLE_DISTANCE * Cardinality(G) * Cardinality(G)

\* read_clusters: a double becomes an int.
CutOff(sum, n) == IF sum >= 0 THEN sum \div n ELSE -((-sum) \div n)
Read(order) == [k \in DOMAIN order |-> CutOff(Sum(order[k]), Cardinality(order[k]))]

\* Slip: the number of clusters is not raised.
SameCount == Max({2, cluster_count})

NextCount == cluster_count + 1

\* One turn of the loop.
Cluster ==
    /\ trace_pc = "cluster"
    /\ cluster_count' = NextCount
    /\ \E groups \in KMeans(NextCount) :
          IF RoughlyEqual(groups)
          THEN trace_pc' = "merge" /\ \E order \in SetToSeqs(groups) : clusters' = Read(order)
          ELSE UNCHANGED <<trace_pc, clusters>>
    /\ UNCHANGED <<doc, merging, used, endpoints, traced>>

\* close_clusters[k]: k, and the later ones near it.
Near(a, b) == Abs(a - b) < MIN_DISTANCE_BETWEEN_CLUSTERS
Close(k) == {k} \union {m \in k + 1 .. Len(clusters) : Near(clusters[k], clusters[m])}

\* sum / size() is done in std::size_t, and stored in an int.
ToInt(n) ==
    LET kept == n % INT_VALUES
    IN  IF 2 * kept < INT_VALUES THEN kept ELSE kept - INT_VALUES
Middle(S) == ToInt((SumFunctionOnSet(clusters, S) % SIZE_VALUES) \div Cardinality(S))

\* Slip: only a cluster that is close to no later one is passed by.
MergedAlone == merging \in used /\ Close(merging) = {merging}

\* used[i], and all it is close to: the case of size 1 is the same.
Merged == Close(merging) \subseteq used

PassBy ==
    /\ trace_pc = "merge" /\ merging <= Len(clusters)
    /\ Merged
    /\ merging' = merging + 1
    /\ UNCHANGED <<doc, cluster_count, clusters, used, endpoints, traced, trace_pc>>

AddEndpoint ==
    /\ trace_pc = "merge" /\ merging <= Len(clusters)
    /\ ~ Merged
    /\ endpoints' = Append(endpoints, Middle(Close(merging)))
    /\ used' = used \union Close(merging)
    /\ merging' = merging + 1
    /\ UNCHANGED <<doc, cluster_count, clusters, traced, trace_pc>>

\* std::sort by the distance from 0; it may leave equal ones in any order.
SortEndpoints ==
    /\ trace_pc = "merge" /\ merging > Len(clusters)
    /\ \E order \in SetToSeqs(DOMAIN endpoints) :
          /\ \A a, b \in DOMAIN order :
                a < b => Abs(endpoints[order[a]]) <= Abs(endpoints[order[b]])
          /\ endpoints' = [k \in DOMAIN order |-> endpoints[order[k]]]
    /\ trace_pc' = "trace"
    /\ UNCHANGED <<doc, cluster_count, clusters, merging, used, traced>>

-----------------------------------------------------------------------------
\* std::min_element: the first of the nearest endpoints.
Nearest(l) ==
    LET nearest == {k \in DOMAIN endpoints :
                       \A m \in DOMAIN endpoints : Abs(l - endpoints[k]) <= Abs(l - endpoints[m])}
    IN  endpoints[Min(nearest)]

\* Slip: edges drawn in opposite directions are two connections.
AsDrawn(l1, l2) == <<l1, l2>>

OrderedPair(l1, l2) == IF l1 < l2 THEN <<l1, l2>> ELSE <<l2, l1>>

\* inter_cluster_connections; how many edges each stands for is not used.
Connections ==
    {OrderedPair(Nearest(e[1]), Nearest(e[2])) : e \in ToSet(doc.edges)}

\* The order of the map: by the first end, then by the second.
Before(c, d) == c[1] < d[1] \/ (c[1] = d[1] /\ c[2] < d[2])

Joined(order) ==
    LET upto[k \in 0 .. Len(order)] ==
            IF k = 0 THEN EmptyDocument
            ELSE AddSegment(upto[k - 1], order[k][1], order[k][2])
    IN  upto[Len(order)]

Trace ==
    /\ trace_pc = "trace"
    /\ \E order \in SetToSeqs({c \in Connections : c[1] # c[2]}) :
          /\ \A a, b \in DOMAIN order : a < b => Before(order[a], order[b])
          /\ traced' = Joined(order)
    /\ trace_pc' = "traced"
    /\ UNCHANGED <<doc, cluster_count, clusters, merging, used, endpoints>>

TraceNext == Cluster \/ PassBy \/ AddEndpoint \/ SortEndpoints \/ Trace

-----------------------------------------------------------------------------
\* The types of the variables.
TracerTypes ==
    /\ clusters \in Seq(Int) /\ endpoints \in Seq(Int)
    /\ used \subseteq DOMAIN clusters
    /\ merging \in 1 .. Len(clusters) + 1
    /\ Len(endpoints) < merging
    /\ EdgesAtPoints(traced)

\* The clusters near cluster k, also the earlier ones.
Neighbours(k) == {m \in DOMAIN clusters : Near(clusters[k], clusters[m])}

\* The mean of the clusters in S, without the width of any number.
MeanOf(S) == SumFunctionOnSet(clusters, S) \div Cardinality(S)

\* Which clusters are near each other does not depend on the order they come in,
\* and no sum wraps around.
Clear ==
    \A k \in DOMAIN clusters :
        /\ \A m \in Neighbours(k) : Neighbours(m) = Neighbours(k)
        /\ SumFunctionOnSet(clusters, Neighbours(k)) \in 0 .. SIZE_VALUES - 1
        /\ 2 * MeanOf(Neighbours(k)) < INT_VALUES

\* Clusters that are near each other make one endpoint, their middle, and those
\* that are alone stay where they are, in whatever order they were found.
OneForEachGroup ==
    trace_pc \in {"trace", "traced"} /\ Clear =>
        LET groups == {Neighbours(k) : k \in DOMAIN clusters}
        IN  /\ Len(endpoints) = Cardinality(groups)
            /\ ToSet(endpoints) = {MeanOf(S) : S \in groups}

\* The lines of a document, as sets of their ends.
LinesOf(d) == {ToSet(e) : e \in ToSet(d.edges)}

\* The variables keep their types.  What was traced has no line twice, in either
\* direction, and none from a point to itself; two points that a line of the
\* drawing joins are at one endpoint, or at two that are joined, and any two that
\* are joined have such points.
QuotientOfDrawing ==
    /\ TracerTypes
    /\ trace_pc = "traced" =>
          LET seen == {{Nearest(e[1]), Nearest(e[2])} : e \in ToSet(doc.edges)}
          IN  /\ Len(traced.edges) = Cardinality(LinesOf(traced))
              /\ \A L \in LinesOf(traced) : Cardinality(L) = 2 /\ L \in seen
              /\ \A L \in seen : Cardinality(L) = 2 => L \in LinesOf(traced)
=============================================================================
