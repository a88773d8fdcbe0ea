------------------------------ MODULE MCTwoGraphs ------------------------------
(***************************************************************************)
(* Two graphs that Megakernel treats in its special ways, one after the    *)
(* other's initial states: events split between the tasks of an operator,  *)
(* on XCDs of two, one and no workers; and a single gang operator, which   *)
(* takes the gang event path.                                              *)
(***************************************************************************)
EXTENDS SmallGraphs, GangTiles, FiniteSetsExt

VARIABLES
    graph,                     \* which of the two
    worker_queues, sched_queues,
    all_event_counters, xcd_local_event_counters, xcd_event_num_tasks,
    worker_xcd_map, worker_xcd_ready_count,
    wpc, next_task_pos, last_task_pos, done_task_pos, flush_amount,
    spc, my_workers, iteration_num, next_worker_idx, loop_idx,
    queue_idx, cur_event_pos, last_event_pos, to_dispatch, executed

Split == INSTANCE Megakernel WITH
    NumWorkers <- 3, NumXcds <- 3, HwXcd <- [w \in 0 .. 2 |-> w % 2],
    NumTasks <- 8, NumEvents <- 6, AllTasks <- SplitEvents,
    AllEvents <- EventsOf(SplitEvents, 6), Ancestors <- AncestorsOf(SplitEvents),
    TASK_DESCS_BUFFER_LENGTH <- 2, PerWorkerQueueLen <- 4, PerSchedQueueLen <- 6,
    MaxIterations <- 3

Gang == INSTANCE Megakernel WITH
    NumWorkers <- 5, NumXcds <- 2, HwXcd <- [w \in 0 .. 4 |-> w % 2],
    NumTasks <- 4, NumEvents <- 3, AllTasks <- OneGang,
    AllEvents <- EventsOf(OneGang, 3), Ancestors <- AncestorsOf(OneGang),
    TASK_DESCS_BUFFER_LENGTH <- 2, PerWorkerQueueLen <- 3, PerSchedQueueLen <- 3,
    MaxIterations <- 3

Init == \/ graph = "split" /\ Split!Init
        \/ graph = "gang" /\ Gang!Init

Next == /\ \/ graph = "split" /\ Split!Next
           \/ graph = "gang" /\ Gang!Next
        /\ UNCHANGED graph

Spec == Init /\ [][Next]_<< graph, Split!vars >>

\* In both graphs dependencies are kept, every tile runs once in an iteration,
\* and the shutdown overtakes no task, although a scheduler may lag an iteration
\* behind the others and be shut down with launch events unread
\* (terminate_schedulers), and the gang event has its own dispatch.
Safe ==
    /\ graph = "split" => /\ Split!DependencySafe
                          /\ Split!OncePerIteration
                          /\ Split!NothingAfterTerminate
    /\ graph = "gang" => Gang!OncePerIteration /\ Gang!NothingAfterTerminate

-----------------------------------------------------------------------------
(***************************************************************************)
(* The gang operator's kernels, each in a shape that gives an XCD six      *)
(* tiles: the tiles its output (of the silu kernel, its weight; of the     *)
(* split-K kernel, its sums) consists of, for each of them the tiles of    *)
(* the gang tasks that compute it, and whether no tile is computed outside *)
(* of it.                                                                  *)
(***************************************************************************)
Kernel(output, Computes(_, _)) ==
    LET cells(x) == Computes(x[1] - Gang!FirstTask, x[2])
    IN  [inside |-> \A x \in Gang!Tile : cells(x) \subseteq output,
         tiles |-> {{x \in Gang!Tile : cell \in cells(x)} : cell \in output}]

Upto(n) == 0 .. n - 1

GangKernels ==
    {Kernel(Upto(3) \X Upto(4), LAMBDA b, t : MTiling(3, 2, wgm, b, t)) : wgm \in 0 .. 3}
    \cup {Kernel(Upto(3) \X Upto(4), LAMBDA b, t : NTiling(3, 2, wgn, b, t)) : wgn \in 0 .. 2}
    \cup {Kernel(Upto(2) \X Upto(6), LAMBDA b, t : NTiling(2, 3, wgn, b, t)) : wgn \in 0 .. 3}
    \cup {Kernel(Upto(3) \X Upto(8), LAMBDA b, t : SiluWeights(3, 2, wgm, b, t)) : wgm \in 0 .. 3}
    \cup {Kernel(Upto(m_tiles) \X Upto(12 \div m_tiles),
                 LAMBDA b, t : MSplit(2 \div m_tiles, 6, b, t)) : m_tiles \in 1 .. 2}
    \cup {Kernel(Upto(4) \X Upto(3), LAMBDA b, t : SplitKPart(2, 3, b, t))}
    \cup {Kernel({<< r, h, c >> \in Upto(12) \X Upto(2) \X Upto(2) :
                  (r * heads + h) * chunks + c < items /\ h < heads /\ c < chunks},
                 LAMBDA b, t : AttentionItem(items, heads, chunks,
                                 AttentionStart(b, ItemsPerXcd(items, 2)) + t)) :
             << items, heads, chunks >> \in {<< 12, 2, 2 >>, << 12, 1, 2 >>, << 11, 1, 1 >>}}
    \cup {Kernel(Upto(activated) \X Upto(1) \X Upto(3),
                 LAMBDA b, t : ExpertTile(activated, 3, 1, 3, 2, b, t)) : activated \in 0 .. 4}

\* Every tile of a gang operator's output is computed exactly once in an
\* iteration: the ranks the workers of an XCD count for themselves, the tile
\* numbers they step through, the start of the XCD's share and each kernel's
\* decoding fit together, with windows and shares that do not divide.
EveryOutputTileOnce ==
    graph = "gang" =>
      \A k \in GangKernels :
        /\ k.inside
        /\ \A tiles \in k.tiles :
             MapThenSumSet(LAMBDA x : executed[x], tiles) \in {Gang!Launched - 1, Gang!Launched}
=============================================================================
