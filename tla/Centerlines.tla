----------------------------- MODULE Centerlines -----------------------------
(***************************************************************************)
(* A file is read, and the center lines of what was drawn are traced: the  *)
(* reader first, and the tracer on the document it returns.                *)
(***************************************************************************)
EXTENDS SvgReader, Tracer

CONSTANTS Traced  \* the files whose center lines are traced; they have two points or more

InitBoth == Init /\ Begin

ReadStep == Next /\ UNCHANGED tracer_vars

TraceStep ==
    /\ pc = "done" /\ nodes \in Traced
    /\ UNCHANGED vars
    /\ TraceNext

NextBoth == ReadStep \/ TraceStep

\* One thread runs both functions to their end; of the first one only safety is
\* claimed.
SpecBoth ==
    InitBoth /\ [][NextBoth]_<<vars, tracer_vars>> /\ WF_<<vars, tracer_vars>>(TraceStep)

-----------------------------------------------------------------------------
\* When a document was read it is traced to the end: whatever groups the library
\* finds, the number of clusters is not raised for ever.
TraceReturns == (pc = "done" /\ nodes \in Traced) ~> (trace_pc = "traced")

\* Five simple clusters are identified, each as one endpoint
\* (clusterer_sanity.cpp:51): two of them are little more than half of
\* MIN_DISTANCE_BETWEEN_CLUSTERS apart, so groups of points that are further apart
\* than this half are different clusters.
SimpleClusters ==
    trace_pc \in {"trace", "traced"} =>
        LET first == {l \in DOMAIN doc.points :
                         \A m \in DOMAIN doc.points :
                             m < l => 2 * (l - m) > MIN_DISTANCE_BETWEEN_CLUSTERS}
        IN  Len(endpoints) >= Cardinality(first)
=============================================================================
