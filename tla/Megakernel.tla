------------------------------ MODULE Megakernel ------------------------------
(***************************************************************************)
(* The device side of the persistent megakernel on one GPU: the worker     *)
(* blocks (execute_worker), the scheduler blocks, one per XCD              *)
(* (execute_scheduler), and the queues and counters they share, in the     *)
(* AMD build with gang tasks (persistent_kernel.cuh).                      *)
(*                                                                         *)
(* A decoding iteration runs the whole task graph once.  A BEGIN task      *)
(* triggers the launch event, which every scheduler reads from the         *)
(* broadcast queue; each scheduler pushes its share of the tasks to the    *)
(* FIFO queues of the workers on its XCD; a worker blocks on the           *)
(* dependent event of the task at the head of its queue, executes it and   *)
(* counts its completion in two levels, per XCD and then globally; the     *)
(* task that completes the last event of the graph signals the scheduler   *)
(* of its XCD, which prepares the next batch and starts over.              *)
(*                                                                         *)
(* A queue is kept as the log of everything pushed into it, with the       *)
(* readers' absolute positions, as in the code; the ring the log is        *)
(* stored in is the subject of EventQueue, and NoOverrun below is what     *)
(* makes the log a faithful view of it.                                    *)
(***************************************************************************)
EXTENDS Integers, Sequences, FiniteSets

CONSTANTS
    NumWorkers,                \* config.num_workers
    NumXcds,                   \* config.num_xcds; scheduler k runs on XCD k
    HwXcd,                     \* the XCD the hardware placed each worker on
    NumTasks, NumEvents,       \* the sizes of the task graph
    AllTasks,                  \* config.all_tasks, by position from 0
    AllEvents,                 \* config.all_events, by position from 0
    Ancestors,                 \* for each task, the tasks it depends on
    TASK_DESCS_BUFFER_LENGTH,  \* tasks a worker loads at once
    PerWorkerQueueLen,         \* config.per_worker_queue_len
    PerSchedQueueLen,          \* config.per_sched_queue_len
    MaxIterations              \* bound on the batches prepare_next_batch finds

Worker == 0 .. NumWorkers - 1
Xcd == 0 .. NumXcds - 1
Sched == Xcd
Broadcast == NumXcds              \* the queue every scheduler reads
Queue == 0 .. NumXcds             \* one queue per scheduler, and Broadcast

Position == 0 .. NumTasks - 1
Event == 0 .. NumEvents - 1
TerminateTask == 0
BeginTask == 1
FirstTask == 2
TerminationEvent == 0
LaunchEvent == 1
EndEvent == NumEvents - 1
NoEvent == -1                     \* EVENT_INVALID_ID

Task == {p \in Position : p >= FirstTask}
IsGang(p) == AllTasks[p].type = "GANG"

\* The tiles of a task: the unit in which gang tasks are executed and counted.
TilesOf(p) == 0 .. AllTasks[p].n_tile_count - 1
Tile == UNION {{p} \X TilesOf(p) : p \in Task}

Producers(e) == {p \in Position : AllTasks[p].trigger_event = e}


(***************************************************************************)
(* The launch configuration, and the task graph as register_mugraph builds *)
(* it: TERMINATE and BEGIN first, then the tasks of the operators; events  *)
(* TERMINATION, launch, one EMPTY event per dependency (its launch type    *)
(* rewritten, because the launch event launches everything) and the end    *)
(* event; num_triggers is the number of tasks that trigger an event, and a *)
(* task depends only on tasks that precede it.                             *)
(***************************************************************************)
ASSUME ConfigAssumption ==
    /\ NumWorkers \in Nat \ {0}
    /\ NumXcds \in Nat \ {0}
    /\ HwXcd \in [Worker -> Xcd]
    /\ TASK_DESCS_BUFFER_LENGTH \in Nat \ {0}
    /\ PerWorkerQueueLen \in Nat \ {0}
    /\ PerSchedQueueLen \in Nat \ {0}
    /\ MaxIterations \in Nat

ASSUME GraphAssumption ==
    /\ NumTasks \in Nat /\ NumTasks > FirstTask
    /\ NumEvents \in Nat /\ EndEvent > LaunchEvent
    /\ AllTasks \in [Position -> [type : {"TERMINATE", "BEGIN", "COMPUTE", "GANG"},
                                  dependent_event : Event \cup {NoEvent},
                                  trigger_event : Event \cup {NoEvent},
                                  n_tile_count : Nat]]
    /\ AllEvents \in [Event -> [type : {"TERMINATION", "LAUNCH_DEPENDENT_TASKS",
                                        "EMPTY", "END_OF_TASK_GRAPH"},
                                num_triggers : Nat]]
    /\ \A e \in Event :
         /\ e = TerminationEvent <=> AllEvents[e].type = "TERMINATION"
         /\ e = LaunchEvent <=> AllEvents[e].type = "LAUNCH_DEPENDENT_TASKS"
         /\ e = EndEvent <=> AllEvents[e].type = "END_OF_TASK_GRAPH"
         /\ AllEvents[e].num_triggers = Cardinality(Producers(e))
    /\ \A p \in Position :
         /\ p = TerminateTask <=> AllTasks[p].type = "TERMINATE"
         /\ p = BeginTask <=> AllTasks[p].type = "BEGIN"
         /\ p \in {TerminateTask, BeginTask} => AllTasks[p].dependent_event = NoEvent
    /\ AllTasks[TerminateTask].trigger_event = NoEvent
    /\ AllTasks[BeginTask].trigger_event = LaunchEvent
    /\ \A p \in Task :
         /\ AllTasks[p].trigger_event > LaunchEvent
         /\ AllTasks[p].n_tile_count > 0
         /\ ~IsGang(p) => AllTasks[p].n_tile_count = 1
         /\ AllTasks[p].dependent_event # NoEvent =>
              /\ AllEvents[AllTasks[p].dependent_event].type = "EMPTY"
              /\ \A r \in Producers(AllTasks[p].dependent_event) : r < p

\* Ancestors[p] is the transitive closure of the dependencies of p, and the
\* graph is connected: every task is, or precedes, a task of the last operator.
ASSUME AncestorsAssumption ==
    /\ Ancestors \in [Task -> SUBSET Task]
    /\ \A p \in Task :
         Ancestors[p] =
           IF AllTasks[p].dependent_event = NoEvent THEN {}
           ELSE UNION { {r} \cup Ancestors[r] :
                        r \in Producers(AllTasks[p].dependent_event) }
    /\ \A p \in Task : \E f \in Producers(EndEvent) : p = f \/ p \in Ancestors[f]

\* The launch event is a gang event if the graph is one gang operator, with a
\* task for each scheduler; otherwise the position of a task decides its XCD.
IsGangEvent == NumTasks - FirstTask = NumXcds /\ IsGang(FirstTask)
Owner(p) == IF IsGangEvent THEN p - FirstTask
            ELSE HwXcd[(p - FirstTask) % NumWorkers]

\* What the code needs of the hardware's placement and does not check: XCD 0,
\* where the launch starts, has workers; so has every XCD with a gang event;
\* and the gang tasks of an operator fall to different XCDs, as they do when
\* the workers go round the XCDs in turn and NumXcds divides NumWorkers.
ASSUME PlacementAssumption ==
    /\ \E w \in Worker : HwXcd[w] = 0
    /\ IsGangEvent => \A x \in Xcd : \E w \in Worker : HwXcd[w] = x
    /\ \A p, r \in Task :
         /\ p # r
         /\ Owner(p) = Owner(r)
         /\ AllTasks[p].trigger_event = AllTasks[r].trigger_event
         => ~IsGang(p)

-----------------------------------------------------------------------------
(***************************************************************************)
(* The state.  Shared: the queues, the counters of the events, the         *)
(* thresholds of the two-level counting, and the map the workers report    *)
(* their XCD in.  The rest are the local variables of the blocks.          *)
(***************************************************************************)
VARIABLES
    worker_queues, sched_queues,
    all_event_counters, xcd_local_event_counters, xcd_event_num_tasks,
    worker_xcd_map, worker_xcd_ready_count,
    wpc, next_task_pos, last_task_pos, done_task_pos, flush_amount,
    spc, my_workers, iteration_num, next_worker_idx, loop_idx,
    queue_idx, cur_event_pos, last_event_pos, to_dispatch,
    executed                   \* history: how often each tile was executed

counters == << all_event_counters, xcd_local_event_counters, xcd_event_num_tasks >>
placement == << worker_xcd_map, worker_xcd_ready_count >>
shared == << worker_queues, sched_queues, counters, placement >>
loadVars == << next_task_pos, last_task_pos >>
workerVars == << wpc, loadVars, done_task_pos, flush_amount, executed >>
eventVars == << queue_idx, cur_event_pos, last_event_pos >>
dispatchVars == << my_workers, iteration_num, next_worker_idx, loop_idx, to_dispatch >>
schedVars == << spc, eventVars, dispatchVars >>
vars == << shared, workerVars, schedVars >>

TaskId(iteration, position) == [iter |-> iteration, pos |-> position]

\* What prepare_kernel and the first lines of the two kernels establish: empty
\* queues but for the end event in the queue of scheduler 0.
Init ==
    /\ worker_queues = [w \in Worker |-> << >>]
    /\ sched_queues = [q \in Queue |-> IF q = 0 THEN <<EndEvent>> ELSE << >>]
    /\ all_event_counters = [e \in Event |-> 0]
    /\ xcd_local_event_counters = [x \in Xcd |-> [e \in Event |-> 0]]
    /\ xcd_event_num_tasks = [x \in Xcd |-> [e \in Event |-> 0]]
    /\ worker_xcd_map = [w \in Worker |-> -1]
    /\ worker_xcd_ready_count = 0
    /\ wpc = [w \in Worker |-> "map"]
    /\ next_task_pos = [w \in Worker |-> 0]
    /\ last_task_pos = [w \in Worker |-> 0]
    /\ done_task_pos = [w \in Worker |-> 0]
    /\ flush_amount = [w \in Worker |-> 0]
    /\ executed = [t \in Tile |-> 0]
    /\ spc = [s \in Sched |-> "boot"]
    /\ my_workers = [s \in Sched |-> {}]
    /\ iteration_num = [s \in Sched |-> 0]
    /\ next_worker_idx = [s \in Sched |-> 0]
    /\ loop_idx = [s \in Sched |-> 0]
    /\ queue_idx = [s \in Sched |-> s]
    /\ cur_event_pos = [s \in Sched |-> [q \in Queue |-> 0]]
    /\ last_event_pos = [s \in Sched |-> [q \in Queue |-> 0]]
    /\ to_dispatch = [s \in Sched |-> {}]

-----------------------------------------------------------------------------
(* The workers' view of their XCD, and the loop over the tiles of a task.   *)

WorkersOn(x) == {w \in Worker : worker_xcd_map[w] = x}
RankIn(S, w) == Cardinality({v \in S : v < w})

\* Mutant: every worker of a gang executes all of its tiles.
MutAllTiles(w, p) == IF p < FirstTask THEN {} ELSE TilesOf(p)

\* The tiles worker w executes of task p: tile t for t = rank, rank + n, ...
\* when n workers are on its XCD, for a gang task; the whole task otherwise.
MyTiles(w, p) ==
    IF p < FirstTask THEN {}
    ELSE IF ~IsGang(p) THEN TilesOf(p)
    ELSE LET peers == WorkersOn(HwXcd[w])
         IN  {t \in TilesOf(p) : t % Cardinality(peers) = RankIn(peers, w)}

Loaded(w) == done_task_pos[w] < next_task_pos[w]
CurrentTask(w) == worker_queues[w][done_task_pos[w] + 1]
AtTask(w, pc) == wpc[w] = pc /\ Loaded(w)

\* After the trigger: the next task of the loaded batch, or the queue again.
FinishTask(w) ==
    /\ done_task_pos' = [done_task_pos EXCEPT ![w] = @ + 1]
    /\ wpc' = [wpc EXCEPT ![w] = IF done_task_pos[w] + 1 = next_task_pos[w]
                                 THEN "poll" ELSE "wait"]

-----------------------------------------------------------------------------
(* execute_worker.                                                          *)

\* Write the hardware XCD to the shared map ...
MapXcd(w) ==
    /\ wpc[w] = "map"
    /\ worker_xcd_map' = [worker_xcd_map EXCEPT ![w] = HwXcd[w]]
    /\ wpc' = [wpc EXCEPT ![w] = "ready"]
    /\ UNCHANGED << worker_queues, sched_queues, counters,
                    worker_xcd_ready_count, loadVars, done_task_pos,
                    flush_amount, executed, schedVars >>

\* ... then count this worker as ready.
ReportReady(w) ==
    /\ wpc[w] = "ready"
    /\ worker_xcd_ready_count' = worker_xcd_ready_count + 1
    /\ wpc' = [wpc EXCEPT ![w] = "poll"]
    /\ UNCHANGED << worker_queues, sched_queues, counters, worker_xcd_map,
                    loadVars, done_task_pos, flush_amount, executed,
                    schedVars >>

\* Poll the queue when the last known position is used up, and load up to
\* TASK_DESCS_BUFFER_LENGTH tasks of what is known to be there.
LoadTasks(w) ==
    LET known == IF next_task_pos[w] = last_task_pos[w]
                 THEN Len(worker_queues[w]) ELSE last_task_pos[w]
        n == known - next_task_pos[w]
    IN  /\ wpc[w] = "poll"
        /\ n > 0
        /\ last_task_pos' = [last_task_pos EXCEPT ![w] = known]
        /\ next_task_pos' = [next_task_pos EXCEPT ![w] =
                               @ + IF n < TASK_DESCS_BUFFER_LENGTH
                                   THEN n ELSE TASK_DESCS_BUFFER_LENGTH]
        /\ wpc' = [wpc EXCEPT ![w] = "wait"]
        /\ UNCHANGED << shared, done_task_pos, flush_amount, executed,
                        schedVars >>

\* Mutant: what the previous iteration counted is enough.
MutPreviousIteration(id) ==
    LET e == AllTasks[id.pos].dependent_event
    IN  e # NoEvent =>
          all_event_counters[e] >= AllEvents[e].num_triggers * (id.iter - 1)

\* Wait for the dependent event of the task: its counter must have reached
\* num_triggers for each iteration up to the task's.
DependencySatisfied(id) ==
    LET e == AllTasks[id.pos].dependent_event
    IN  e # NoEvent =>
          all_event_counters[e] >= AllEvents[e].num_triggers * id.iter

StartTask(w) ==
    /\ AtTask(w, "wait")
    /\ DependencySatisfied(CurrentTask(w))
    /\ wpc' = [wpc EXCEPT ![w] = IF CurrentTask(w).pos = TerminateTask
                                 THEN "exit" ELSE "execute"]
    /\ UNCHANGED << shared, loadVars, done_task_pos, flush_amount, executed,
                    schedVars >>

\* What a task adds to its XCD's counter: the tiles this worker executed of a
\* gang task, otherwise 1.
LocalIncrement(w, p) == IF IsGang(p) THEN Cardinality(MyTiles(w, p)) ELSE 1

\* Mutant: a gang flushes its tiles.
MutFlushTiles(p, threshold) == IF threshold = 0 THEN 1 ELSE threshold

\* What the last completion of an XCD's share adds to the global counter: one
\* gang task, or all the tasks counted on the XCD.  Without a share (threshold
\* 0) the task counts for itself.
FlushAmount(p, threshold) == IF threshold = 0 \/ IsGang(p) THEN 1 ELSE threshold

\* Mutant: the iteration is not counted in.
MutFirstIterationOnly(e, iter) == AllEvents[e].num_triggers

\* The count at which event e fires in an iteration: counters are never reset.
FiresAt(e, iter) == AllEvents[e].num_triggers * iter

\* The task is executed; its completion is counted on this XCD, and the worker
\* that completes the XCD's share of the event goes on to the global counter.
\* Without a share (threshold 0) every task counts globally.
CompleteTask(w) ==
    LET id == CurrentTask(w)
        tiles == MyTiles(w, id.pos)
        e == AllTasks[id.pos].trigger_event
        x == HwXcd[w]
        threshold == xcd_event_num_tasks[x][e]
        increment == LocalIncrement(w, id.pos)
        local == xcd_local_event_counters[x][e] + increment
    IN  /\ AtTask(w, "execute")
        /\ executed' = [t \in Tile |-> IF t[1] = id.pos /\ t[2] \in tiles
                                       THEN executed[t] + 1 ELSE executed[t]]
        /\ xcd_local_event_counters' =
             IF threshold = 0 THEN xcd_local_event_counters
             ELSE [xcd_local_event_counters EXCEPT ![x][e] = local]
        /\ IF threshold = 0 \/ (increment > 0 /\ local = threshold * id.iter)
           THEN /\ flush_amount' = [flush_amount EXCEPT ![w] = FlushAmount(id.pos, threshold)]
                /\ wpc' = [wpc EXCEPT ![w] = "flush"]
                /\ UNCHANGED done_task_pos
           ELSE /\ FinishTask(w)
                /\ UNCHANGED flush_amount
        /\ UNCHANGED << worker_queues, sched_queues, all_event_counters,
                        xcd_event_num_tasks, placement, loadVars, schedVars >>

\* Add the XCD's share to the global counter; an EMPTY event needs no signal.
FlushToGlobal(w) ==
    LET id == CurrentTask(w)
        e == AllTasks[id.pos].trigger_event
        count == all_event_counters[e] + flush_amount[w]
        fired == count = FiresAt(e, id.iter)
    IN  /\ AtTask(w, "flush")
        /\ all_event_counters' = [all_event_counters EXCEPT ![e] = count]
        /\ flush_amount' = [flush_amount EXCEPT ![w] = 0]
        /\ IF fired /\ AllEvents[e].type # "EMPTY"
           THEN /\ wpc' = [wpc EXCEPT ![w] = "signal"]
                /\ UNCHANGED done_task_pos
           ELSE FinishTask(w)
        /\ UNCHANGED << worker_queues, sched_queues, xcd_local_event_counters,
                        xcd_event_num_tasks, placement, loadVars, executed,
                        schedVars >>

\* A launch event goes to the broadcast queue, the end event to the scheduler
\* of this worker's XCD.
SignalEvent(w) ==
    LET e == AllTasks[CurrentTask(w).pos].trigger_event
        q == IF AllEvents[e].type = "LAUNCH_DEPENDENT_TASKS"
             THEN Broadcast ELSE HwXcd[w]
    IN  /\ AtTask(w, "signal")
        /\ sched_queues' = [sched_queues EXCEPT ![q] = Append(@, e)]
        /\ FinishTask(w)
        /\ UNCHANGED << worker_queues, counters, placement, loadVars,
                        flush_amount, executed, schedVars >>

WorkerStep(w) ==
    \/ MapXcd(w) \/ ReportReady(w) \/ LoadTasks(w) \/ StartTask(w)
    \/ CompleteTask(w) \/ FlushToGlobal(w) \/ SignalEvent(w)

-----------------------------------------------------------------------------
(* execute_scheduler.                                                       *)

Unread(s) == cur_event_pos[s][queue_idx[s]] < last_event_pos[s][queue_idx[s]]
CurrentEvent(s) == sched_queues[queue_idx[s]][cur_event_pos[s][queue_idx[s]] + 1]
AtEvent(s, e) == spc[s] = "poll" /\ Unread(s) /\ CurrentEvent(s) = e

NextEvent(s) ==
    cur_event_pos' = [cur_event_pos EXCEPT ![s][queue_idx[s]] = @ + 1]
Goto(s, pc) == spc' = [spc EXCEPT ![s] = pc]
PushTask(w, id) == worker_queues' = [worker_queues EXCEPT ![w] = Append(@, id)]

\* Mutant: every task goes to the same worker.
MutSameWorker(s) == UNCHANGED next_worker_idx

\* my_workers[i], and the round-robin index moving past it.
WorkerAt(s, i, w) == w \in my_workers[s] /\ RankIn(my_workers[s], w) = i
AdvanceWorkerIdx(s) ==
    next_worker_idx' = [next_worker_idx EXCEPT ![s] =
                          (@ + 1) % Cardinality(my_workers[s])]

\* Wait for every worker's XCD, then take the workers of this one.
CollectWorkers(s) ==
    /\ spc[s] = "boot"
    /\ worker_xcd_ready_count >= NumWorkers
    /\ my_workers' = [my_workers EXCEPT ![s] = WorkersOn(s)]
    /\ Goto(s, "poll")
    /\ UNCHANGED << shared, workerVars, eventVars, iteration_num,
                    next_worker_idx, loop_idx, to_dispatch >>

\* Mutant: past the last queue.
MutOtherQueue(s) == queue_idx[s] + 1
OtherQueue(s) == IF queue_idx[s] = s THEN Broadcast ELSE s

\* Read the last ready position of the current queue; if there is nothing new
\* turn to the other queue.
PollQueue(s) ==
    LET q == queue_idx[s]
        ready == Len(sched_queues[q])
    IN  /\ spc[s] = "poll"
        /\ ~Unread(s)
        /\ last_event_pos' = [last_event_pos EXCEPT ![s][q] = ready]
        /\ queue_idx' = [queue_idx EXCEPT ![s] =
                           IF cur_event_pos[s][q] < ready THEN q
                           ELSE OtherQueue(s)]
        /\ UNCHANGED << shared, workerVars, spc, cur_event_pos, dispatchVars >>

\* The termination event: a TERMINATE task to each of my_workers, in order.
TerminateWorkers(s) ==
    /\ AtEvent(s, TerminationEvent)
    /\ IF loop_idx[s] < Cardinality(my_workers[s])
       THEN /\ \E w \in Worker : /\ WorkerAt(s, loop_idx[s], w)
                                 /\ PushTask(w, TaskId(0, TerminateTask))
            /\ loop_idx' = [loop_idx EXCEPT ![s] = @ + 1]
            /\ UNCHANGED spc
       ELSE /\ Goto(s, "exit")
            /\ UNCHANGED << worker_queues, loop_idx >>
    /\ UNCHANGED << sched_queues, counters, placement, workerVars, eventVars,
                    my_workers, iteration_num, next_worker_idx, to_dispatch >>

\* The end event: prepare_next_batch rewrites the buffers the tasks read, ...
EndOfTaskGraph(s) ==
    /\ AtEvent(s, EndEvent)
    /\ Goto(s, "prepare")
    /\ UNCHANGED << shared, workerVars, eventVars, dispatchVars >>

\* ... and if there is a next batch, a worker gets its BEGIN task;
BeginIteration(s) ==
    /\ spc[s] = "prepare"
    /\ iteration_num[s] < MaxIterations
    /\ \E w \in Worker : /\ WorkerAt(s, next_worker_idx[s], w)
                         /\ PushTask(w, TaskId(iteration_num[s] + 1, BeginTask))
    /\ AdvanceWorkerIdx(s)
    /\ NextEvent(s)
    /\ Goto(s, "poll")
    /\ UNCHANGED << sched_queues, counters, placement, workerVars, queue_idx,
                    last_event_pos, my_workers, iteration_num, loop_idx,
                    to_dispatch >>

\* otherwise terminate_schedulers signals the termination event to each of them.
TerminateSchedulers(s) ==
    /\ spc[s] = "prepare" \/ spc[s] = "terminate"
    /\ IF loop_idx[s] < NumXcds
       THEN /\ sched_queues' = [sched_queues EXCEPT ![loop_idx[s]] =
                                  Append(@, TerminationEvent)]
            /\ loop_idx' = [loop_idx EXCEPT ![s] = @ + 1]
            /\ Goto(s, "terminate")
            /\ UNCHANGED cur_event_pos
       ELSE /\ loop_idx' = [loop_idx EXCEPT ![s] = 0]
            /\ NextEvent(s)
            /\ Goto(s, "poll")
            /\ UNCHANGED sched_queues
    /\ UNCHANGED << worker_queues, counters, placement, workerVars, queue_idx,
                    last_event_pos, my_workers, iteration_num, next_worker_idx,
                    to_dispatch >>

\* The tasks scheduler s dispatches: the gang task with its number, or those
\* whose position falls to one of its workers.
Share(s, workers) ==
    {p \in Task : IF IsGangEvent THEN p = FirstTask + s
                  ELSE (p - FirstTask) % NumWorkers \in workers}

\* Mutant: the iteration is counted after the dispatch.
MutIterationBefore(s) == iteration_num[s]
IterationToLaunch(s) == iteration_num[s] + 1

AfterDispatch(s, rest) ==
    /\ to_dispatch' = [to_dispatch EXCEPT ![s] = rest]
    /\ IF rest = {} THEN NextEvent(s) /\ Goto(s, "poll")
       ELSE Goto(s, "dispatch") /\ UNCHANGED cur_event_pos

\* The launch event: in the first iteration, count this XCD's share of every
\* event before any of its tasks is dispatched.
LaunchTasks(s) ==
    LET share == Share(s, my_workers[s])
    IN  /\ AtEvent(s, LaunchEvent)
        /\ iteration_num' = [iteration_num EXCEPT ![s] = IterationToLaunch(s)]
        /\ xcd_event_num_tasks' =
             IF iteration_num[s] # 0 THEN xcd_event_num_tasks
             ELSE [xcd_event_num_tasks EXCEPT ![s] =
                     [e \in Event |-> @[e] + Cardinality({t \in Tile :
                        t[1] \in share /\ AllTasks[t[1]].trigger_event = e})]]
        /\ AfterDispatch(s, share)
        /\ UNCHANGED << worker_queues, sched_queues, all_event_counters,
                        xcd_local_event_counters, placement, workerVars,
                        queue_idx, last_event_pos, my_workers, next_worker_idx,
                        loop_idx >>

\* One push, in order of position.  A task goes to the next worker in turn;
\* a gang task goes to min(tiles, workers) workers, the lowest first.
DispatchTask(s) ==
    \E p \in to_dispatch[s], w \in Worker :
      LET last == \/ ~IsGang(p)
                  \/ loop_idx[s] + 1 = Cardinality(my_workers[s])
                  \/ loop_idx[s] + 1 = AllTasks[p].n_tile_count
      IN  /\ spc[s] = "dispatch"
          /\ \A r \in to_dispatch[s] : p <= r
          /\ WorkerAt(s, IF IsGang(p) THEN loop_idx[s] ELSE next_worker_idx[s], w)
          /\ PushTask(w, TaskId(iteration_num[s], p))
          /\ IF IsGang(p) THEN UNCHANGED next_worker_idx ELSE AdvanceWorkerIdx(s)
          /\ loop_idx' = [loop_idx EXCEPT ![s] = IF last THEN 0 ELSE @ + 1]
          /\ AfterDispatch(s, IF last THEN to_dispatch[s] \ {p} ELSE to_dispatch[s])
          /\ UNCHANGED << sched_queues, counters, placement, workerVars,
                          queue_idx, last_event_pos, my_workers,
                          iteration_num >>

SchedStep(s) ==
    \/ CollectWorkers(s) \/ PollQueue(s) \/ TerminateWorkers(s)
    \/ EndOfTaskGraph(s) \/ BeginIteration(s) \/ TerminateSchedulers(s)
    \/ LaunchTasks(s) \/ DispatchTask(s)

AllExited == /\ \A w \in Worker : wpc[w] = "exit"
             /\ \A s \in Sched : spc[s] = "exit"
Finished == AllExited /\ UNCHANGED vars

Next == \/ \E w \in Worker : WorkerStep(w)
        \/ \E s \in Sched : SchedStep(s)
        \/ Finished

Spec == Init /\ [][Next]_vars

\* Every block is resident for the whole launch (one per CU), so each of them
\* keeps running: weak fairness of each block's step, and of nothing else.
FairSpec == /\ Spec
            /\ \A w \in Worker : WF_vars(WorkerStep(w))
            /\ \A s \in Sched : WF_vars(SchedStep(s))

-----------------------------------------------------------------------------
(* Properties.                                                              *)

TaskIds == [iter : Nat, pos : Position]

\* Types of the shared state and of the blocks' local variables
\* (RuntimeConfig, and the locals of execute_worker and execute_scheduler).
TypeOK ==
    /\ worker_queues \in [Worker -> Seq(TaskIds)]
    /\ sched_queues \in [Queue -> Seq(Event)]
    /\ all_event_counters \in [Event -> Nat]
    /\ xcd_local_event_counters \in [Xcd -> [Event -> Nat]]
    /\ xcd_event_num_tasks \in [Xcd -> [Event -> Nat]]
    /\ worker_xcd_map \in [Worker -> Xcd \cup {-1}]
    /\ worker_xcd_ready_count \in Nat
    /\ wpc \in [Worker -> {"map", "ready", "poll", "wait", "execute", "flush",
                           "signal", "exit"}]
    /\ next_task_pos \in [Worker -> Nat]
    /\ last_task_pos \in [Worker -> Nat]
    /\ done_task_pos \in [Worker -> Nat]
    /\ flush_amount \in [Worker -> Nat]
    /\ executed \in [Tile -> Nat]
    /\ spc \in [Sched -> {"boot", "poll", "prepare", "terminate", "dispatch", "exit"}]
    /\ my_workers \in [Sched -> SUBSET Worker]
    /\ iteration_num \in [Sched -> Nat]
    /\ next_worker_idx \in [Sched -> Nat]
    /\ loop_idx \in [Sched -> Nat]
    /\ queue_idx \in [Sched -> Queue]
    /\ cur_event_pos \in [Sched -> [Queue -> Nat]]
    /\ last_event_pos \in [Sched -> [Queue -> Nat]]
    /\ to_dispatch \in [Sched -> SUBSET Task]

\* Iterations launched so far: BEGIN is the only trigger of the launch event.
Launched == all_event_counters[LaunchEvent]
\* The task ids worker w has been given and has not finished.
Pending(w) == {worker_queues[w][i] : i \in done_task_pos[w] + 1 .. Len(worker_queues[w])}
Executed(p, k) == \A i \in TilesOf(p) : executed[<<p, i>>] = k

\* No task starts before everything it depends on has run: while a worker
\* executes a task in iteration k, all tiles of all producers of its dependent
\* event have been executed in iteration k, on whatever XCD.  The two-level
\* counters of execute_worker stand for exactly this.
DependencySafe ==
    \A w \in Worker : AtTask(w, "execute") =>
      LET id == CurrentTask(w)
          e == AllTasks[id.pos].dependent_event
      IN  e # NoEvent => \A r \in Producers(e) : Executed(r, id.iter)

\* prepare_next_batch rewrites the buffers every task reads.  While a scheduler
\* is inside it, or is shutting the schedulers down, every tile of the graph
\* has been executed in every iteration, no worker has a task left to do, and
\* no other scheduler prepares, dispatches or shuts down.
QuietWhilePreparing ==
    \A s \in Sched : spc[s] \in {"prepare", "terminate"} =>
      /\ \A t \in Tile : executed[t] = iteration_num[s]
      /\ \A w \in Worker : Pending(w) \subseteq {TaskId(0, TerminateTask)}
      /\ \A r \in Sched \ {s} : spc[r] \notin {"prepare", "terminate", "dispatch"}

\* No tile runs twice in an iteration or is left out of one: every tile of
\* every task, gang or not, has been executed as often as iterations were
\* launched, or once less while the iteration is running.
OncePerIteration ==
    \A t \in Tile : executed[t] \in {Launched - 1, Launched}

\* The schedulers count iterations each for itself, and stamp the task ids:
\* what is in the queues and unfinished is always of the current iteration.
NoStaleIteration ==
    \A w \in Worker : \A id \in Pending(w) :
      /\ id.pos \in Task => id.iter = Launched
      /\ id.pos = BeginTask => id.iter \in {Launched, Launched + 1}

\* What an iteration asks of the queues, and nobody checks: with TERMINATE left
\* out, a worker is given the gang tasks that have a tile for it, and its turns
\* of the ordinary tasks of its XCD; and a scheduler without a task to wait for
\* may fall behind the launch events without bound.
QueuesLongEnough ==
    /\ PerWorkerQueueLen > 1 /\ PerSchedQueueLen > 2
    /\ \A s \in Sched : \E p \in Task : Owner(p) = s
    /\ \A w \in Worker :
         LET peers == {v \in Worker : HwXcd[v] = HwXcd[w]}
             share == {p \in Task : Owner(p) = HwXcd[w]}
             gangs == {p \in share : /\ IsGang(p)
                                     /\ RankIn(peers, w) < AllTasks[p].n_tile_count}
             turns == PerWorkerQueueLen - 1 - Cardinality(gangs)
         IN  /\ turns >= 0
             /\ Cardinality(share \ {p \in share : IsGang(p)}) <= turns * Cardinality(peers)

\* The producers check no queue for room, the consumers assert that none has
\* overrun (next + len > last, cur + len > last): it holds when a worker queue
\* is longer than what one worker is given in an iteration and a scheduler
\* queue holds an end and a termination event.
NoOverrun ==
    /\ \A w \in Worker :
         Len(worker_queues[w]) < next_task_pos[w] + PerWorkerQueueLen
    /\ \A s \in Sched : \A q \in {s, Broadcast} :
         spc[s] # "exit" =>
           Len(sched_queues[q]) < cur_event_pos[s][q] + PerSchedQueueLen

\* A worker that leaves has nothing behind the TERMINATE task in its queue, and
\* it leaves only when the last iteration is complete.
NothingAfterTerminate ==
    \A w \in Worker : wpc[w] = "exit" =>
      /\ done_task_pos[w] + 1 = Len(worker_queues[w])
      /\ \A t \in Tile : executed[t] = Launched

\* The abstract decoding loop, seen in the state of the megakernel: a batch is
\* prepared when its BEGIN task is queued, and launched when that has counted.
BeginsQueued ==
    UNION { {w} \X {i \in 1 .. Len(worker_queues[w]) :
                      worker_queues[w][i].pos = BeginTask} : w \in Worker }
RequiredTiles ==
    [t \in Tile |-> {r \in Tile :
       AllTasks[r[1]].trigger_event = AllTasks[t[1]].dependent_event}]
Loop == INSTANCE DecodingLoop WITH
            Requires <- RequiredTiles,
            MaxBatches <- MaxIterations,
            batches <- Cardinality(BeginsQueued),
            iteration <- Launched

\* The runtime implements the decoding loop: every step of a worker or of a
\* scheduler is a step of the loop or leaves it unchanged.
ImplementsLoop == Loop!Spec

\* The launch ends: every worker and every scheduler returns.  A worker blocks
\* on the head of its queue, so this needs the queues to be in an order in
\* which the tasks can be done, and every event to fire.
Termination == <>AllExited
=============================================================================
