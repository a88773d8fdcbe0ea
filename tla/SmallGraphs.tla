----------------------------- MODULE SmallGraphs -----------------------------
(***************************************************************************)
(* Small task graphs, in the form register_mugraph gives them, for the     *)
(* runs of Megakernel.                                                     *)
(***************************************************************************)
EXTENDS Integers, Sequences, FiniteSets

Desc(type, dependent_event, trigger_event, n_tile_count) ==
    [type |-> type, dependent_event |-> dependent_event,
     trigger_event |-> trigger_event, n_tile_count |-> n_tile_count]

\* A task graph as a function from 0 of the given tasks of the operators.
GraphOf(tasks) ==
    [p \in 0 .. Len(tasks) + 1 |->
       CASE p = 0 -> Desc("TERMINATE", -1, -1, 0)
         [] p = 1 -> Desc("BEGIN", -1, 1, 0)
         [] OTHER -> tasks[p - 1]]

\* Two tasks feed a gang task per XCD, which feed a last task.
GangInTheMiddle == GraphOf(<<
    Desc("COMPUTE", -1, 2, 1), Desc("COMPUTE", -1, 2, 1),
    Desc("GANG", 2, 3, 3), Desc("GANG", 2, 3, 3),
    Desc("COMPUTE", 3, 4, 1) >>)

\* Three operators whose events are split: each task of the second waits for
\* one task of the first, and the third for both.
SplitEvents == GraphOf(<<
    Desc("COMPUTE", -1, 2, 1), Desc("COMPUTE", -1, 3, 1),
    Desc("COMPUTE", 2, 4, 1), Desc("COMPUTE", 3, 4, 1),
    Desc("COMPUTE", 4, 5, 1), Desc("COMPUTE", 4, 5, 1) >>)

\* The whole graph is one gang operator: the gang event path.
OneGang == GraphOf(<<
    Desc("GANG", -1, 2, 6), Desc("GANG", -1, 2, 6) >>)

TriggeredBy(graph, e) == {p \in DOMAIN graph : graph[p].trigger_event = e}

\* The n events of a graph.
EventsOf(graph, n) ==
    [e \in 0 .. n - 1 |->
       [type |-> CASE e = 0 -> "TERMINATION"
                   [] e = 1 -> "LAUNCH_DEPENDENT_TASKS"
                   [] e = n - 1 -> "END_OF_TASK_GRAPH"
                   [] OTHER -> "EMPTY",
        num_triggers |-> Cardinality(TriggeredBy(graph, e))]]

AncestorsOf(graph) ==
    LET anc[p \in DOMAIN graph \ {0, 1}] ==
          IF graph[p].dependent_event = -1 THEN {}
          ELSE UNION { {r} \cup anc[r] : r \in TriggeredBy(graph, graph[p].dependent_event) }
    IN  anc
=============================================================================
