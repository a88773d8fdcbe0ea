------------------------------ MODULE TaskGraph ------------------------------
(***************************************************************************)
(* How the host turns the operators of a muGraph into tasks and events     *)
(* (register_mugraph and dfs_create_events_add_tasks, runtime.cc, on one   *)
(* GPU, without all-reduce).                                               *)
(*                                                                         *)
(* An operator is a grid of thread blocks, each of which becomes a task.   *)
(* Each dimension of the grid cuts the tensors of the operator along one   *)
(* of their dimensions, or none.  Two operators in a row are joined through*)
(* a tensor that the first writes and the second reads: along each tensor  *)
(* dimension there are as many events as the gcd of the two partitions,    *)
(* and the blocks on both sides are shared out evenly among the events.    *)
(*                                                                         *)
(* What is built here is what Megakernel assumes of its task graph.        *)
(***************************************************************************)
EXTENDS Integers, Sequences, FiniteSets, FiniteSetsExt, Functions

CONSTANTS
    MAX_TENSOR_DIMS,   \* dimensions of a tensor, numbered from 1 here
    Graphs             \* the muGraphs to register: sequences of operators

GridDim == 1 .. 3                  \* x, y and z
TensorDim == 1 .. MAX_TENSOR_DIMS
NotMapped == 0                     \* -1 in the code

\* A tensor in an operator, with the tensor dimension that each grid dimension
\* cuts; output number i of operator k is the tensor <<k, i>>.
Access == [tensor : (Nat \ {0}) \X (Nat \ {0}), map : [GridDim -> TensorDim \cup {NotMapped}]]

Operator == [grid : [GridDim -> Nat \ {0}], inputs : Seq(Access), outputs : Seq(Access)]

\* No two dimensions of a grid cut the same dimension of a tensor, the operators
\* read what earlier ones have written, and each something of the one before it
\* (as register_mugraph asserts).
ASSUME GraphsAssumption ==
    /\ MAX_TENSOR_DIMS \in Nat \ {0}
    /\ \A graph \in Graphs : graph \in Seq(Operator) /\ graph # << >> /\
         \A k \in DOMAIN graph :
           /\ \A a \in Range(graph[k].inputs) \cup Range(graph[k].outputs) :
                \A g, h \in GridDim : a.map[g] = a.map[h] => g = h \/ a.map[g] = NotMapped
           /\ \A i \in DOMAIN graph[k].outputs : graph[k].outputs[i].tensor = <<k, i>>
           /\ \A a \in Range(graph[k].inputs) :
                /\ a.tensor[1] < k
                /\ a.tensor[2] \in DOMAIN graph[a.tensor[1]].outputs
           /\ k > 1 => \E a \in Range(graph[k].inputs) : a.tensor[1] = k - 1

VARIABLES
    graph,           \* the operators, as given
    next,            \* the operators already turned into tasks
    all_tasks, all_events,
    first_tasks,
    pre_task_map,    \* the task of each block of the previous operator
    built            \* register_mugraph has returned

vars == << graph, next, all_tasks, all_events, first_tasks, pre_task_map, built >>

NoEvent == -1                      \* EVENT_INVALID_ID
TerminateTask == 0
BeginTask == 1
FirstTask == 2
LaunchEvent == 1

\* Task and event ids count from 0.
TaskAt(id) == all_tasks[id + 1]
EventAt(id) == all_events[id + 1]

\* Mutant: ids count from 1.
MutNextTaskId == Len(all_tasks) + 1
NextTaskId == Len(all_tasks)

-----------------------------------------------------------------------------
(* Blocks and events in their order.                                        *)

\* The order of nested loops, the outermost first.
Precedes(u, v) ==
    \E i \in DOMAIN u : u[i] < v[i] /\ \A j \in 1 .. i - 1 : u[j] = v[j]
Rank(S, u) == Cardinality({v \in S : Precedes(v, u)})
InOrder(S) == [n \in 1 .. Cardinality(S) |-> CHOOSE u \in S : Rank(S, u) = n - 1]

\* All the vectors below a bound in each component.
Below(bounds) ==
    {v \in [DOMAIN bounds -> 0 .. Max(Range(bounds)) - 1] :
       \A i \in DOMAIN bounds : v[i] < bounds[i]}
Blocks(op) == Below(op.grid)

Gcd(m, n) == Max({d \in 1 .. m : m % d = 0 /\ n % d = 0})

\* Along each tensor dimension, the number of parts a grid cuts it into.
Partition(op, map) ==
    [d \in TensorDim |-> LET cuts == {g \in GridDim : map[g] = d}
                         IN  IF cuts = {} THEN 1 ELSE op.grid[Max(cuts)]]

\* Mutant: as many events as consumers.
MutEventDims(pre, out_map, op, in_map) == Partition(op, in_map)

\* The number of events along each tensor dimension.
EventDims(pre, out_map, op, in_map) ==
    [d \in TensorDim |-> Gcd(Partition(pre, out_map)[d], Partition(op, in_map)[d])]

\* Mutant: the last block of each range is left out when the range has several.
MutPart(op, map, dims, v) ==
    {b \in Blocks(op) : \A g \in GridDim : map[g] # NotMapped =>
       LET factor == op.grid[g] \div dims[map[g]]
       IN  b[g] >= v[map[g]] * factor /\ b[g] < (v[map[g]] + 1) * factor - (factor \div 2)}

\* The blocks of an operator that belong to event v.
Part(op, map, dims, v) ==
    {b \in Blocks(op) : \A g \in GridDim : map[g] # NotMapped =>
       LET factor == op.grid[g] \div dims[map[g]]
       IN  b[g] >= v[map[g]] * factor /\ b[g] < (v[map[g]] + 1) * factor}

NewTask(k, bid) ==
    [op |-> k, bid |-> bid, dependent_event |-> NoEvent, trigger_event |-> NoEvent]

\* The accesses of operator k that share a tensor with the operator before it;
\* the last one counts.
SharedInputs(k) == {i \in DOMAIN graph[k].inputs : graph[k].inputs[i].tensor[1] = k - 1}
JoinInput(k) == graph[k].inputs[Max(SharedInputs(k))]
JoinOutput(k) == graph[k - 1].outputs[JoinInput(k).tensor[2]]

-----------------------------------------------------------------------------
\* generate_task_graph and the beginning of register_mugraph: TERMINATE and its
\* event, BEGIN and the launch event.
Init ==
    /\ graph \in Graphs
    /\ next = 1
    /\ all_tasks = << NewTask(0, << >>),
                      [NewTask(0, << >>) EXCEPT !.trigger_event = LaunchEvent] >>
    /\ all_events = << [type |-> "TERMINATION", num_triggers |-> 1,
                        first_task_id |-> 0, last_task_id |-> 0],
                       [type |-> "LAUNCH_DEPENDENT_TASKS", num_triggers |-> 1,
                        first_task_id |-> 0, last_task_id |-> 0] >>
    /\ first_tasks = {}
    /\ pre_task_map = << >>
    /\ built = FALSE

\* The first operator: a task for each block, in order.
AddFirst ==
    LET order == InOrder(Blocks(graph[1]))
        base == NextTaskId
    IN  /\ next = 1
        /\ all_tasks' = all_tasks \o [n \in DOMAIN order |-> NewTask(1, order[n])]
        /\ pre_task_map' = [b \in Blocks(graph[1]) |-> base + Rank(Blocks(graph[1]), b)]
        /\ first_tasks' = Range(pre_task_map')
        /\ next' = 2
        /\ UNCHANGED << graph, all_events, built >>

\* Another operator: for each event v in order, its consumers are added as tasks
\* and its producers told to trigger it.  Launch types of an event, ordinary or
\* massive, are not told apart: EndGraph overwrites both.
AddOperator ==
    LET op == graph[next]
        pre == graph[next - 1]
        dims == EventDims(pre, JoinOutput(next).map, op, JoinInput(next).map)
        events == Below(dims)
        event_order == InOrder(events)
        Consumers(v) == Part(op, JoinInput(next).map, dims, v)
        Producing(v) == Part(pre, JoinOutput(next).map, dims, v)
        pushes == UNION { {v \o b : b \in Consumers(v)} : v \in events }
        tasks == InOrder(pushes)
        BidOf(push) == [g \in GridDim |-> push[MAX_TENSOR_DIMS + g]]
        base == NextTaskId
        Triggered(id) == {v \in events : \E b \in Producing(v) : pre_task_map[b] = id}
    IN  /\ next \in 2 .. Len(graph)
        /\ \A v \in events : Producing(v) \subseteq DOMAIN pre_task_map
        /\ all_tasks' =
             [n \in DOMAIN all_tasks |->
                IF Triggered(n - 1) = {} THEN all_tasks[n]
                ELSE [all_tasks[n] EXCEPT !.trigger_event =
                        Len(all_events) + Max({Rank(events, v) : v \in Triggered(n - 1)})]]
             \o [n \in DOMAIN tasks |-> NewTask(next, BidOf(tasks[n]))]
        /\ all_events' = all_events \o
             [n \in DOMAIN event_order |->
                LET v == event_order[n]
                    first == base + Cardinality({u \in pushes : Precedes(u, v \o <<0, 0, 0>>)})
                IN  [type |-> "LAUNCH_TASKS",
                     num_triggers |-> Cardinality(Producing(v)),
                     first_task_id |-> first,
                     last_task_id |-> first + Cardinality(Consumers(v))]]
        /\ pre_task_map' = [b \in {BidOf(t) : t \in pushes} |->
                              base + Max({Rank(pushes, t) : t \in {u \in pushes : BidOf(u) = b}})]
        /\ next' = next + 1
        /\ UNCHANGED << graph, first_tasks, built >>

\* The end: the tasks of the last operator trigger the end event, and the launch
\* event launches all tasks at once, so that the events between only have to be
\* waited for.
EndGraph ==
    LET end == Len(all_events)
        Waits(e) == all_events[e + 1].type = "LAUNCH_TASKS"
        LaunchedBy(id) == {e \in 2 .. end - 1 :
                             /\ Waits(e)
                             /\ id >= all_events[e + 1].first_task_id
                             /\ id < all_events[e + 1].last_task_id}
        Dependent(id) == IF LaunchedBy(id) = {} THEN NoEvent ELSE Max(LaunchedBy(id))
        Triggers(id) == IF id \in Range(pre_task_map) /\ all_tasks[id + 1].trigger_event = NoEvent
                        THEN end ELSE all_tasks[id + 1].trigger_event
    IN  /\ next = Len(graph) + 1
        /\ ~built
        /\ all_tasks' = [n \in DOMAIN all_tasks |->
                           [all_tasks[n] EXCEPT !.dependent_event = Dependent(n - 1),
                                                !.trigger_event = Triggers(n - 1)]]
        /\ all_events' =
             [n \in DOMAIN all_events |->
                IF n = LaunchEvent + 1
                THEN [all_events[n] EXCEPT !.first_task_id = FirstTask,
                                           !.last_task_id = Len(all_tasks)]
                ELSE [all_events[n] EXCEPT !.type = IF Waits(n - 1) THEN "EMPTY" ELSE @]]
             \o << [type |-> "END_OF_TASK_GRAPH",
                    num_triggers |-> Cardinality(DOMAIN pre_task_map),
                    first_task_id |-> 0, last_task_id |-> 0] >>
        /\ built' = TRUE
        /\ UNCHANGED << graph, next, first_tasks, pre_task_map >>

Registered == built /\ UNCHANGED vars

Next == AddFirst \/ AddOperator \/ EndGraph \/ Registered
Spec == Init /\ [][Next]_vars

-----------------------------------------------------------------------------
(* Properties of the graph that was built.                                  *)

Event == 0 .. Len(all_events) - 1
Task == FirstTask .. Len(all_tasks) - 1
EndEvent == Len(all_events) - 1
Producers(e) == {p \in 0 .. Len(all_tasks) - 1 : TaskAt(p).trigger_event = e}

\* Every block of every operator is exactly one task, whatever the two grids
\* it is shared out over.
EveryBlockOnce ==
    built => \A k \in DOMAIN graph : \A b \in Blocks(graph[k]) :
               Cardinality({p \in Task : TaskAt(p).op = k /\ TaskAt(p).bid = b}) = 1

\* The graph is what Megakernel assumes (GraphAssumption): every task triggers
\* one event, an event counts exactly the tasks that trigger it, and a task waits
\* for an EMPTY event whose producers precede it, or, in the first operator, for
\* none.  An event that counted one task too many would never fire.
RuntimeReady ==
    built =>
      /\ \A e \in Event \ {0} : /\ EventAt(e).num_triggers = Cardinality(Producers(e))
                                /\ EventAt(e).num_triggers > 0
      /\ \A p \in Task :
           /\ TaskAt(p).trigger_event \in LaunchEvent + 1 .. EndEvent
           /\ TaskAt(p).dependent_event = NoEvent <=> p \in first_tasks
           /\ p \notin first_tasks =>
                /\ EventAt(TaskAt(p).dependent_event).type = "EMPTY"
                /\ \A r \in Producers(TaskAt(p).dependent_event) : r < p

\* Everything a task comes after.
Ancestors ==
    LET anc[p \in Task] ==
          IF TaskAt(p).dependent_event = NoEvent THEN {}
          ELSE UNION { {r} \cup anc[r] : r \in Producers(TaskAt(p).dependent_event) }
    IN  anc

\* Two blocks touch the same part of a tensor: block b of operator k cuts it
\* along dimension d into grid[g] equal parts and takes part b[g].
Overlap(k, in, b, j, out, c) ==
    \A d \in TensorDim : \A g, h \in GridDim :
      in.map[g] = d /\ out.map[h] = d =>
        /\ b[g] * graph[j].grid[h] < (c[h] + 1) * graph[k].grid[g]
        /\ c[h] * graph[k].grid[g] < (b[g] + 1) * graph[j].grid[h]

\* Operator k is joined to the one before it by a single event.
Barrier(k) ==
    Cardinality(Below(EventDims(graph[k - 1], JoinOutput(k).map, graph[k], JoinInput(k).map))) = 1

\* Operator k reads the tensor of the access in safely: it is cut as the tensor
\* that joins k to the operator before, or there is a barrier after its writer.
SafelyRead(k, in) ==
    LET j == in.tensor[1]
        out == graph[j].outputs[in.tensor[2]]
    IN  \/ j = k - 1 /\ in.map = JoinInput(k).map /\ out.map = JoinOutput(k).map
        \/ \E m \in j + 1 .. k : Barrier(m)

\* The dependencies of a task cover its data: whatever part of a tensor it reads,
\* the tasks that write to that part are among its ancestors.  The events are
\* formed by counting blocks along the dimensions of one tensor; that this agrees
\* with the data is what all the waiting in the runtime is worth.  It is claimed
\* for tensors that are SafelyRead, and the code does not check that they are.
ReadsCovered ==
    built =>
      LET anc == Ancestors
      IN  \A k \in DOMAIN graph : \A in \in Range(graph[k].inputs) : SafelyRead(k, in) =>
            LET j == in.tensor[1]
                out == graph[j].outputs[in.tensor[2]]
            IN  \A p, r \in Task :
                  /\ TaskAt(p).op = k
                  /\ TaskAt(r).op = j
                  /\ Overlap(k, in, TaskAt(p).bid, j, out, TaskAt(r).bid)
                  => r \in anc[p]

\* The whole graph is done when its end event fires: every task is, or precedes,
\* a task that triggers it (AncestorsAssumption of Megakernel).
EndWaitsForAll ==
    built => LET anc == Ancestors
             IN  \A p \in Task : \E f \in Producers(EndEvent) : p = f \/ p \in anc[f]
=============================================================================
