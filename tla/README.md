# Fleet: a specification of the megakernel runtime and its kernels

Fleet (an AMD extension of the Mirage persistent kernel) runs a whole decoding
loop of a language model in one kernel launch. Worker blocks execute tasks,
scheduler blocks, one per chiplet (XCD), hand the tasks out, and a batch manager
running on a scheduler prepares each iteration. Nothing in it is protected by a
lock: everything rests on counters, queues and the order in which they are
written. These modules specify that runtime, the host code that builds its task
graph, the launch that brings it up, the all-reduce between several GPUs, what
the gang and split-K kernels of the MI300 share, one of the pipelined kernels its
tasks call, and the compiler that makes other kernels
from threadblock graphs; TLC checks them on small instances, and TLAPS proves most
of what is safety for every size.

File names below are relative to the repository; `persistent_kernel.cuh` is
`include/mirage/persistent_kernel/persistent_kernel.cuh`.

## 1. Inventory

| component | state | operations | who it talks to | what is hard |
|---|---|---|---|---|
| host set-up, launch (`persistent_kernel.cuh`, `init_persistent_kernel`, `launch_persistent_kernel`, `prepare_kernel`) | the `RuntimeConfig`, streams and events | allocate, reset, launch twice, wait | starts all blocks | state of the previous launch; two kernels that must both be resident |
| block roles and boot (`persistent_kernel`, head of `execute_worker`, `execute_scheduler`) | claims, worker numbers, `worker_xcd_map`, ready count | elect, number, report, collect | shared memory | blocks arrive in any order on any XCD |
| workers (`execute_worker`) | positions in a task queue, loaded tasks | poll, load, wait for the dependent event, execute, count in two levels, signal | task queue (from its scheduler), event counters (all workers), scheduler queues | a worker blocks on the head of its queue; gangs share a task |
| schedulers (`execute_scheduler`, `terminate_schedulers`) | positions in two event queues, iteration number, round-robin index | poll, launch, dispatch, begin, end, terminate | event queues (from workers), task queues | each counts iterations on its own; shutdown overtakes laggards |
| event queues | ring, reserve and publish counters | reserve, store, publish, poll, read | many workers, one or all schedulers | several producers, no flow control |
| event counters | global and per-XCD counters, thresholds | add, compare with a product | workers | counters are never reset |
| batch manager (`prepare_next_batch`) | slots, page queue, page tables, steps, tokens | finalise, compact, continue, admit | reads and writes the buffers of all tasks | in-place compaction, page ownership, budgets, boundaries |
| KV-cache kernels (`tasks/mi300/kv_cache_update_mi300.cuh`) | pages | write the new tokens' keys and values | batch manager's tables | addressing by page table |
| task-graph registration (`src/kernel/runtime.cc`) | task and event lists | add an operator, end the graph | its result is the runtime's program | dependencies from counting blocks |
| code generation for tasks, JSON (`task_register.cc`, `runtime.cc`) | variant lists | emit text | compiler | none of the protocol |
| multi-GPU (all-reduce tasks, NVSHMEM events) | terms, buffers, remote counters | produce, put row by row, signal, wait, reduce | other GPUs | puts and signals in any order, equality waits, GPUs ahead of others, buffers used again |
| gang and split-K kernels (`tasks/mi300/gang_*.cuh`, `linear_ck_mi300.cuh`) | a tile number each; workspace and done counters of split sums | decode, compute, add, count, finish | workers of an XCD, the blocks of a tile, the next layer | workers that divide tiles with no word between them; partial sums from several warps of several blocks |
| other task kernels (`tasks/*`) | shared memory, mbarriers | load, multiply, store, release | memory, the copy engine, the tensor cores | asynchronous copies and stores; parity waits; memory visibility between L2s |
| profiler, event timing | buffers | record | none | none |
| Python layer and DSL (`python/mirage/mpk`) | operator list | build, compile, run | host set-up | none |
| CUDA transpiler (`src/transpiler`) | graphs, schedules, memory plans | lower, fuse, schedule, plan shared memory, emit | its kernels are run by the user | the barriers it elides, addresses it reuses, copies it issues ahead |
| muGraphs, search, verification, the other transpilers (`src/search`, `src/triton_transpiler`, ...) | graphs | enumerate, prove equal, generate code | offline | algorithmic, shares no state with the runtime |

What makes each one correct:

* launch and boot: every role and number is given out once, every worker ends up
  with exactly one scheduler, the launch ends and can be repeated;
* workers, schedulers, counters: no task starts before what it depends on has
  run, on whatever XCD; every tile runs once per iteration; the batch is prepared
  only when nothing runs; queues are not overrun; the shutdown loses nothing;
  everything ends;
* event queues: every event is read once by each reader, in order;
* batch manager: pages are never lost or shared, the cache holds what the next
  step reads, no token or request is lost, everything is served;
* task graph: every block is one task, dependencies cover the data, and the
  counts are such that every event can fire;
* transpiled kernels: tensors alive together are apart in shared memory, and
  every thread reads what the producer of the tensor wrote in this iteration;
* gang and split-K kernels: every tile of the output is computed once, whatever its
  shape and the workers; a split sum has all terms of its layer and no other's;
* pipelined kernels: a tile is read only when it has landed and overwritten only
  when it has been read, and the two sides never wait for each other;
* all-reduce: a reduce sums only when all terms of its round have come, and what it
  finds is of its round (this does not hold, see 6) or of a near one; no signal is
  missed by a wait for equality; the GPUs do not wait for each other in a circle.

`PROJECT.json` lists the hazards, each at its line with the properties aimed at it.

## 2. Modules

| module | models | used by |
|---|---|---|
| `TaskGraph` | `register_mugraph`, `dfs_create_events_add_tasks` | `MCTaskGraph`, `TaskGraphProofs` |
| `KernelLaunch` | launch, election, boot, return | `MCKernelLaunch`, `XcdProofs` |
| `Megakernel` | `execute_worker`, `execute_scheduler`, `terminate_schedulers` | `MCMegakernel`, `MCTwoGraphs`, `MegakernelProofs` |
| `DecodingLoop` | what the runtime promises: an abstract loop of batches | `Megakernel` (refinement), and so `MegakernelProofs` |
| `EventQueue` | the ring of a scheduler queue | `EventQueueProofs` |
| `EventLog` | what the queue promises: a log | `EventQueue` (refinement) |
| `BatchManager` | `prepare_next_batch` (offline mode) and the cache | `BatchManagerProofs` |
| `MemoryPlanner` | the three allocators of `plan_stensor_memory.cc` and the choice between them | `ThreadblockKernel`, `MemoryPlannerProofs` |
| `TbSchedule` | lowering (`transpile.cc`), fusion (`resolve_tb_fusion.cc`), schedule (`sched_tb_graph.cc`), lifetimes of tensors (`plan_stensor_memory.cc`) | `ThreadblockKernel` |
| `ThreadblockKernel` | the kernel `transpile_kn_custom_op` emits, and its threads | `MCThreadblockKernel`, `MemoryPlannerProofs` |
| `LinearHopper` | `linear_kernel_hopper` and the mbarriers of `barrier.cuh` | `LinearHopperProofs` |
| `GangTiles` | the decoding of tile numbers by the gang kernels of the MI300 | `MCTwoGraphs`, `XcdProofs` |
| `SplitK` | `splitk_linear_res_atomic_kernel`, `gang_splitk_linear_res_kernel` | `XcdProofs` |
| `MultiGpu` | the all-reduce tasks of `register_mugraph`, their code, and the NVSHMEM events | `MCMultiGpu`, `MultiGpuProofs` |
| `SmallGraphs` | no code: the task graphs of the runs of `Megakernel` | `MCMegakernel`, `MCTwoGraphs` |

How they compose. `TaskGraph` ends in the graph that `Megakernel` takes as
`GraphAssumption` and `AncestorsAssumption`; its properties `RuntimeReady` and
`EndWaitsForAll` are these assumptions, stated of what the host builds.
`KernelLaunch` ends where `Megakernel` begins to be interesting: `WorkersFound`
is the state in which its schedulers have collected their workers. `Megakernel`
pushes an event in one step; `EventQueue` does it in three, and `ImplementsLog`
says that the one step is a sound view of the three as long as the queue has room,
which is `NoOverrun` of `Megakernel`. `Megakernel` implements `DecodingLoop`;
`BatchManager` is what happens inside that loop's `PrepareBatch`, where
`QuietWhilePreparing` says that it runs alone: this is why `BatchManager` is a
sequential state machine. `ThreadblockKernel` EXTENDS `TbSchedule` (pure
operators on a graph) and `MemoryPlanner` (a state machine): a behaviour first
plans the memory of one graph, one event of the planner at a time, then launches
the program on the addresses of that plan. `MCTwoGraphs` puts
`GangTiles` under `Megakernel`: the workers of the gang graph step through the tile
numbers, and `EveryOutputTileOnce` looks at what the kernels make of them.
`LinearHopper` and `SplitK` are tasks from the
inside: what `CompleteTask` of `Megakernel` does in one step. `MultiGpu` takes
`Megakernel` from the outside, one per GPU: it keeps the order in which a worker
takes its tasks and the dependencies that `DependencySafe` promises, and adds the
one event type `Megakernel` leaves out.

### Megakernel

State: the worker queues and scheduler queues as logs with the readers' absolute
positions (as in the code; the ring is taken modulo the length only when a slot is
addressed), the global and per-XCD counters and thresholds, `worker_xcd_map`, and
the locals of the blocks. `executed` is a history variable: how often each tile
ran. A gang task has `n_tile_count` tiles, another task one.

Worker actions: `MapXcd`, `ReportReady`, `LoadTasks`, `StartTask` (the wait),
`CompleteTask` (execute and count on the XCD), `FlushToGlobal`, `SignalEvent`.
Scheduler actions: `CollectWorkers`, `PollQueue`, `TerminateWorkers`,
`EndOfTaskGraph`, `BeginIteration`, `TerminateSchedulers`, `LaunchTasks` (the
thresholds of the first iteration), `DispatchTask`. Each is one access to shared
memory that others race with, together with the local work around it. Execution
and the local count are one step because only the count is visible to others.

Abstractions: a push to a worker queue is one step (one producer, the scheduler
of the XCD); reads see the last write (the fences are not modelled);
`prepare_next_batch` is the interval between `EndOfTaskGraph` and
`BeginIteration` or `TerminateSchedulers`. The event types `LAUNCH_TASKS` and
`LAUNCH_MASSIVE_TASKS` do not occur: `register_mugraph` rewrites them.

### EventQueue

`Reserve` (fetch-and-add), `StoreEvent`, `Publish` (the compare-and-swap once its
turn has come) for each producer; `Poll` and `Read` for each reader. `Room` keeps
a producer within `MaxAhead` of the slowest reader; it is not in the code, it is
what `NoOverrun` shows of its users.

### BatchManager

`FinalizeSlot` and `SkipEmptySlot` (step 1 of `prepare_next_batch`),
`ContinueRequest` and `SkipDoneSlot` (step 3, the compaction), `AdmitRequest`,
`FinishBatch`, and `RunBatch`, what the kernels of one iteration do: write the
cache through the page table and an output token for each input token. A token is
identified by the request and position it stands for, so a value read at a wrong
place is seen.

### KernelLaunch

`Launch` (the reset by `prepare_kernel`, then both kernels or the combined one),
`ClaimScheduler`, `TakeWorkerId`, `MapXcd`, `ReportReady`, `CollectWorkers`,
`SchedulerReturns`, `WorkerReturns`. `init_persistent_kernel` always chooses the
split launch; the combined one is modelled because it is in the code.
`elect_xcd_leader` is left out: its result is not used.

### TaskGraph

`AddFirst`, `AddOperator`, `EndGraph`: one step per operator. The nested loops
are sets of vectors taken in lexicographic order. Tensor dimensions count from 1
here and `NotMapped` is -1 in the code.

### MemoryPlanner, TbSchedule, ThreadblockKernel

`TbSchedule` says what the transpiler computes of a graph: the plain operators a
composite one is lowered to, the chains that are fused, the level of each
operator and with it the order of the chains and the barriers between them, and
the declaration (size, allocation and free time) of each tensor in shared memory.
All these are recursive functions and folds, so that `ThreadblockKernel` can be
proved about.

`MemoryPlanner` processes the events in the order of time; events the comparator
holds for equal come in any order, as the sort does not specify theirs.
`Plan` and `Launch` of `ThreadblockKernel` are its steps. `Program` is the
sequence of instructions of a thread: `read`, `write`, `accumulate`, `sync`,
`prefetch` and `copy` (cp.async), `fence` (commit), `wait` (all groups but the
newest) and `swap` (of the two buffers). A thread executes one per step, at its
own speed; an asynchronous copy lands (`Land`) at any time after its issue. Memory
is kept by address and by slice, one slice per thread, and holds << tensor,
version >>: that is enough to tell a fresh value from a stale, a foreign or an
early one. A kernel of the runtime library (a matmul, an element-wise operator) is
a read of all slices of its inputs followed by a write of the thread's own slice
of its output.

### GangTiles and SplitK

`GangTiles` has no state: a decoding is the set of tiles (row and column of tiles;
request, head and chunk; expert, row and column) that a kernel computes for a tile
number, empty where the kernel returns early. The residual forms of the linear
kernels decode as the plain ones do. What an XCD's share begins with is in the
decoding (`bid_x`), or in the number (`AttentionStart`), as in the code. An expert
goes to the XCD a worker reads from the hardware; each XCD runs one of the gang's
tasks, and which one makes no difference.

`SplitK` has the warps of the blocks: `AddTerms` is the matmul and the additions of
a warp, `CountBlock` thread 0's increment of the done counter, `PassBarrier` the
`__syncthreads`, `WriteOutput` and `ZeroWorkspace` what each warp of the last block
does with its rows, `NextLayer` the next split layer of the model on the same
workspace. A warp adds columns and later reads rows, which is why a cell has both
coordinates. Values are sets of << layer, split >>, so a term that is missing, or
left from another layer, is seen.

### LinearHopper

Tiles are numbered through, and a barrier's `phase` counts the completed phases;
the code sees its low bit only (`Passes`). `LoadResidual` and `LoadTile` are the
producer thread; `Land` the copy engine, which counts the bytes at the barrier;
`WaitTile`, `Release`, `WaitResidual`, `WriteOutput`, `SyncAndStore` a consumer
thread; `Multiply` the tensor cores, which read shared memory until the product is
done; `Store` the leader's bulk store, `Stored` its end; `Drain` the last waits.

### MultiGpu

Every GPU runs its own megakernel on a graph of the same shape, and an all-reduce
is three kinds of tasks: `Produce`, a block of the operator before it, writes this
GPU's term of a tile; `Copy`, one for each tile and other GPU, puts the term into
that GPU's buffer row by row (`nvshmemx_putmem_signal_block`), each row adding one
to a counter there; `StartReduce` and `FinishReduce` wait until the counter equals
what the iteration needs and sum the terms. `Land` and `Signal` are the network: a
row arrives at any time after it was put, and its signal after the row.
`BeginIteration` is the end of the graph on one GPU. `Heads` are the tasks at the
heads of the workers' queues, so a wait keeps the rest of its queue waiting, as in
`execute_worker`.

All-reduces are numbered through as rounds, and what is stored is the number of the
round it was computed in, which tells a fresh term from one of another all-reduce
or iteration. `signals` keeps what was added to a counter; the code compares its
size only (`Counter`). Abstractions: the operators between two all-reduces are one
task per tile that waits for all tiles of the all-reduce before; the schedulers go
round the workers of one XCD; put and signal of a row do not fail.

## 3. Runs

| run | instance | what it shows |
|---|---|---|
| `gang` | 4 workers on 2 XCDs, 5 tasks (2 gangs of 3 tiles), 2 iterations | all safety properties, refinement of `DecodingLoop`, termination |
| `two_graphs` | 3 workers on XCDs of 2, 1 and 0 workers, 6 tasks, split events, 3 iterations; and 5 workers, a graph of one gang operator, 3 iterations | dependencies that are not barriers, and a scheduler without tasks that lags behind; the gang event path; 6 tiles for 3 and for 2 workers, decoded by each kind of kernel in every window, each tile of the output once |
| `queue` | 3 producers, 2 readers, ring of 3, 5 events | no loss, no overwrite, refinement of `EventLog`, delivery |
| `batching` | 4 requests, 3 slots, 3 tokens a batch, 2 of a request, 6 pages of 2 | all properties of the batch manager; a slot may go without a token and is served all the same |
| `launch` | 3 workers, 2 schedulers, 2 launches; split with every placement of the workers, combined with the placements that use every XCD | boot, election and return, repeated |
| `task_graph` | 15784 graphs of 2 or 3 operators | what is built is what the runtime needs |
| `threadblock` | the kernels of `gated_mlp.py` and `group_query_attention.py` (both) and the first of `group_query_attention_customized.py`, 2 threads, loops of 3 iterations | the planner's books, lifetimes, and that every read is fresh |
| `loop_end` | the graphs of the test `tb_input_output` and of `rms_norm.py`, 2 threads | a race at the end of the loop body (see 6) |
| `pipeline` | rings of 2 slots, 3 atoms of 3 tiles, 2 consumer threads | loads intact, parity unambiguous, termination |
| `all_reduce` | 2 GPUs of 3 workers, 2 all-reduces of one tile and 2 rows on one buffer, 3 iterations | a reduce starts when all rows of its round have come, and reads terms of its own or a near round; no signal is missed, all GPUs end |
| `own_term` | 2 GPUs, 2 tiles of one row, one buffer, 1 iteration | a reduce does not wait for its own GPU's term (see 6) |
| `split_k` | 1 tile, 2 splits, 2 warps, 2 layers | a split sum is read while a term is missing (see 6) |

Why the bounds suffice. Two iterations are needed for everything that depends on
counters not being reset, and a third (in `two_graphs`) separates "the
previous iteration" from "the first". Two XCDs give the two-level count both of
its levels; a gang of three tiles on two workers makes one worker run two tiles
and the other one. `TASK_DESCS_BUFFER_LENGTH` is 2, so a queue is loaded in
several pieces. The ring of `queue` has 3 slots for 5 events and wraps around.
`batching` has more requests than slots, prompts of every length up to the
maximum, pages of two tokens so that both page boundaries occur, and exactly as
many pages as the slots can need, so pages change hands. The combined launch in
`launch` has more blocks than roles of either kind. The grids of `task_graph` have sizes 2, 3
and 4: equal, dividing and coprime. Queue lengths are chosen as small as the
properties allow (`PerWorkerQueueLen` 3 in `gang` is exactly what one worker can be given).
In `threadblock` a loop of three iterations is the shortest in which a buffer of
the pair is filled again while the loop goes on and the last iteration, which
copies nothing, comes after it; two threads are enough for one to be ahead of the
other, and what a thread reads of the others' slices is symmetric. The kernels
have pipelined inputs, inputs read before the loop, accumulators in
registers and in memory, fused chains, matmuls and reductions. In `pipeline` each
slot of the rings of 2 is used four or five times by nine tiles, so both parities
come up again, and the rounds of the ring do not end with the atoms. The shapes of `two_graphs` have
six tiles for an XCD in 1, 2 or 3 rows, with every window height up to that, so windows
that divide the rows, do not, and are switched off; 11 items of attention and 0 to 4
experts on two XCDs leave one of them less than its share. `all_reduce` has
the smallest even number of all-reduces; with three iterations each counter is used
three times, and a GPU can be ahead of the other by a round and a half. Two rows may
arrive in either order, and three workers hold the tasks of a round in queues of
their own.

Bounds that are not in the code: `MaxIterations` (the number of batches
`prepare_next_batch` finds), `MaxBatches`, `MaxEvents`, `MaxLaunches`, and
`DeclaredOrder`, the graphs for which simultaneous events of the planner are taken
in one order only (all of `threadblock` but the last, small one; what the planner
promises is proved for every order).

Deadlock is checked in every run; where the system stops for good a stuttering
step (`Finished`, `Registered`, `Returned`) stands for it.

Every property has a mutant, an operator `Mut...` next to the definition it
replaces, under which TLC finds the property violated.

## 4. Fairness

* `Megakernel`, `KernelLaunch`: weak fairness of the step of each block. One block
  runs on each compute unit and all are resident for the whole launch, so each
  keeps executing; the code relies on this, as its spin loops would not end
  otherwise. No fairness is assumed between different actions of a block: a block
  is sequential.
* `EventQueue`: weak fairness of each producer once it has reserved a position,
  and of each reader; producers need not push.
* `BatchManager`: weak fairness of the next step; it is a sequential program.
* `LinearHopper`: weak fairness of the producer, of each consumer thread, and of
  the copies, products and stores that have been issued. The warps of a resident
  block are scheduled again and again, and a wait is a loop.
* `MultiGpu`: weak fairness of the next step of the whole system. A behaviour has
  finitely many steps, so nothing stronger is needed: it says that something goes on
  while something can, on resident blocks and a network that delivers what is put.
* `ThreadblockKernel` has no liveness property: its threads wait only at barriers
  all of them reach, which the check for deadlock covers.

## 5. Proofs

| module | theorem | statement |
|---|---|---|
| `TaskGraphProofs` | `GraphInvariant` | the inductive invariant of the registration |
| | `BlocksOnce` | `EveryBlockOnce`: every block of every operator is one task |
| | `GraphReady` | `RuntimeReady`: the counts and the order of the events are what `Megakernel` assumes |
| | `ReadsInOrder` | `ReadsCovered`: a task comes after the writers of what it reads |
| | `EndIsLast` | `EndWaitsForAll`: the end event waits for every task |
| `XcdProofs` | `LaunchTypeCorrect` | types of the launch, and the bounds of its two counters |
| | `RolesGivenOnce` | `RolesAndNumbers`, if `EveryXcdServed` |
| | `BootFindsWorkers` | `WorkersFound`, if `EveryXcdServed` |
| | `WindowedOnce` | the windowed traversal reaches every tile once |
| | `MTilingOnce` | so does `gang_linear_kernel` on all XCDs together |
| | `NTilingOnce`, `MSplitOnce` | so do the kernels that sweep or split the output in the other ways |
| | `SiluWeightsOnce` | every tile of the interleaved gate and up weight is read once |
| | `SplitKPartOnce` | every part of every sum is computed once |
| | `AttentionItemOnce` | every request, head and chunk is attended to once, also when the items do not divide among the XCDs |
| | `ExpertTileOnce` | every tile of every activated expert is computed once, however few are activated |
| | `SplitKOneFinisher` | `OneFinisher`: a tile has one block that finishes it, and its counter is reset |
| | `SplitKCountingWarp` | `CountingWarpComplete`: the counting warp's terms are all there |
| `EventQueueProofs` | `TypeCorrect`, `EventsRead`, `SlotsKept` | types; each reader reads exactly the reserved events in order; no slot is overwritten early |
| | `QueueImplementsLog` | the ring implements the log |
| `MegakernelProofs` | `TypeCorrect` | types of all shared and local state |
| | `OnlyPublishedRead` | no block reads a queue position that is not published |
| | `DependenciesRespected` | `DependencySafe`: no task starts before all tiles of its dependent event have run in the iteration |
| | `TilesRunOnce` | `OncePerIteration` |
| | `IterationsAgree` | `NoStaleIteration`: what is queued is stamped with the iteration of the launch event's counter |
| | `PreparesAlone` | `QuietWhilePreparing` |
| | `TerminateIsLast` | `NothingAfterTerminate` |
| | `LoopImplemented` | `ImplementsLoop`: the runtime implements `DecodingLoop` |
| | `LoopBarrier`, `LoopRequirements` | of the abstract loop: a batch is prepared behind a complete iteration only; no tile runs ahead of what it requires |
| | `BatchesApart` | so it is in the runtime |
| | `QueuesSuffice` | `NoOverrun`, if `QueuesLongEnough` |
| `BatchManagerProofs` | `BatchInvariant` | the inductive invariant of the batch manager |
| | `BatchTypeCorrect` | `TypeOK`: all indices and lengths stay in range |
| | `PagesNeverLost` | `PagesAccountedFor`: every page is in one place |
| | `CacheStaysIntact` | `CacheIntact` |
| | `BatchReady` | `InputsKnown` |
| | `NoneDropped` | `NoRequestDropped`, if `MaxSeqLength > 1` |
| | `TokensStay` | `TokensKept` |
| `MemoryPlannerProofs` | `PlannerInvariant`, `PlannerPartition` | free ranges and live tensors make up all memory below the peak, without overlap |
| | `PlannerLifetimes` | tensors that live together are apart in the chosen plan, and all fit |
| | `KernelPlans` | a kernel implements the planner (its threads stutter) |
| | `KernelLifetimes`, `KernelPartition` | so the plan is good in every kernel while it runs |
| `LinearHopperProofs` | `HopperInvariant` | the inductive invariant of the pipeline |
| | `HopperParity` | one bit of the phase is enough for every wait |
| | `HopperLoads` | what is read has landed and is not copied over |
| | `HopperStores` | `StoresIntact`, if `NUM_ITER_N <= Kstages` |
| `MultiGpuProofs` | `MultiGpuInvariant` | the inductive invariant of the all-reduces |
| | `WaitsForEquality` | `NoSignalMissed` |
| | `RowsHaveCome` | `RowsGathered`, for every choice of buffers |

They hold for every number of workers, XCDs, producers, readers, every graph,
placement and queue length that the named assumptions allow; for every sequence of
operators, grid and mapping that can be registered, and every order in which the blocks
of a launch arrive; with no bound on the
number of iterations but the parameter; for every number of requests, slots and
pages, every page size, token budget and prompt; for every list of declarations and
`ALIGNMENT`; for every `Kstages`, `NUM_ITER_N`, `NUM_ITER_K` and set of consumer
threads; for every shape and window of a gang kernel, and every number of tiles,
splits, warps and layers of a split sum; and for every number of GPUs, all-reduces, tiles, rows, workers and
iterations.

* `DecodingLoop`: the barrier is inductive together with the types and the fact
  that every tile has run in the iteration or in the one before.
* `EventQueue`: the inductive invariant says of every position between the
  slowest reader and the reserve counter who holds it, that positions in flight are
  distinct and that a stored slot still holds its event. Since two positions less
  than `QueueLen` apart never fall into one slot, a new store cannot overwrite an
  unread one. This is where `MaxAhead < QueueLen` is needed.
* `Megakernel`, reads: `Inv == TypeOK /\ WorkerPositions /\ SchedPositions`. The
  types alone are not inductive: a worker reads the task at its position, and only
  because the position is published (`WorkerPositions`) is what it reads a task with
  a trigger; the same holds for events (`SchedPositions`).
* `Megakernel`, safety: none of the properties is inductive, and they need each
  other, because the code has no barrier to look at: that an iteration is over is
  only ever seen in counters. `IInv` has ten parts. `BootOK`: nothing is queued
  before all workers have reported, so a scheduler strides over all workers of its
  XCD. `TileOK`: in each iteration a tile is in exactly one place, with its
  scheduler, in one position of one queue, or executed. `CountOK`: a counter of an
  XCD is the past iterations' shares plus the tiles of the XCD that have run in this
  one, and a global counter the past iterations' triggers plus the tasks of the XCDs
  that have flushed; with `FlushOK`, that the worker which completes a share is the
  only one to flush it, this makes comparing a counter with a product sound although
  no counter is ever reset. `OrderOK`: whatever has run has the events of all its
  ancestors behind it, so the end event stands for the whole graph. `TokenOK`: the
  end of an iteration is one token, in the hands of a worker that signals, in the
  queue of a scheduler or as a BEGIN task in the queue of a worker, and none of them
  before everything is complete. `LaunchOK` and `QueueOK`: launch events follow the
  BEGIN counts one by one, a scheduler with a task lags by one iteration at most,
  and all unfinished tasks are of this iteration. `SchedOK` and `EndingOK` are the
  schedulers' locals and the shutdown. The theorems are read off from these parts.
* `Megakernel`, refinement: the state of `Loop` is `executed`, `Launched` (the
  counter of the launch event) and the number of BEGIN tasks ever queued. `BeginsOK`
  says that the latter is `Launched`, or one more while a BEGIN task waits; with it
  each action is a step of the loop or a stutter (`LoopStep`).
* `Megakernel`, queues: `TurnsOK` is the round robin. If a worker has K ordinary
  tasks unfinished, its XCD has n workers and t turns have passed since its last,
  then (K - 1) * n + t + 1 tasks of the share have been dealt; as these are at most
  the XCD's ordinary tasks, K is bounded. Nothing weaker is inductive: that a worker
  has at most its rounds says nothing of when it gets the next task. TLC checked
  `IInv` and `TurnsOK` on five small configurations before they were proved.
* `BatchManager`: `prepare_next_batch` rewrites the page table in place while it
  still reads it, so the invariant is about `Table`, what each slot holds: its row is
  read from the copy in shared memory as long as the compaction has not come to the
  slot (`Behind`), and ends at `num_pages` where the next row is not begun. With the
  ring of free pages it is `Consistent`: every page in one place. Two lemmas,
  `TakePages` and `GivePages`, carry this through every step. That the ring has the
  pages a slot asks for (the code takes them unasked) is counted in `RoomForMore`,
  from the assumption that the pool suffices. `SlotsOK`, `RequestsOK` and `TableOK`
  tie lengths, steps and known tokens to the rows. `CacheOK` survives an iteration
  because no two tokens of a batch write the same cell (`OneWriter`), which is
  `Consistent` again. `NoneDropped` needs `MaxSeqLength > 1`: otherwise every
  admitted request is complete from the start and yet holds a slot. TLC
  checked this invariant on six small configurations first.

* `MemoryPlanner`: `PlannerInv` adds to the property of the books that a tensor
  is allocated before it is freed (`InOrder`: no event is taken before one that is
  due earlier), and that any two tensors placed so far are apart if they live
  together, also when one has been freed since. The lemmas `RoomLemma`,
  `SplitLemma` and `CoalesceLemma` say what the three operations on ranges do;
  `Coalesce` needs that free ranges do not overlap, or the range it takes for the
  right neighbour might not be the last.
* `ThreadblockKernel`: a step of a thread leaves the planner's variables alone, so
  the theorems of the planner carry over by `KernelPlans`.
* `LinearHopper`: counting phases leads nowhere, as the barriers of the two sides
  count each other. `HopperInv` instead says, tile by tile, that the barrier of a
  ring is beyond the round of tile j exactly when j has landed, and the barrier of
  the consumers exactly when its slot was released (`PhasesTell`); that requests
  are at most `Kstages` ahead of the releases (`NoneAhead`); that the threads are
  within a tile and an atom of each other (`InStep`); and that whoever has passed
  a wait has seen the tile land (`WaitsTell`). From these a barrier that is waited
  for can only be in two consecutive phases. `OutputsInv` says who has written
  which atom to `mm_output`.
* `KernelLaunch`: `LaunchInv` says what is known of a block at each point of the
  election (`Elected`): whoever is past the claim has an XCD that is claimed, so an XCD
  keeps at least one block that is no worker, its scheduler or one that has still to
  claim. With one such block for each XCD (an injection into the blocks that are no
  workers) at most `NumWorkers` are left to be workers, which is why the numbers they
  draw stay in range. `worker_xcd_ready_count` is the number of workers that have
  reported; when it says `NumWorkers`, these are all, their numbers are all numbers
  (an injection between finite sets of the same size), and none has still to write its
  entry of the map (`AllThere`). So no entry changes behind a scheduler's back
  (`CollectedOK`), although nothing stops a worker from writing late.
* `TaskGraph`: `GraphInv` follows the registration one operator at a time. The nested
  loops are an order on vectors, in which every member of a finite set has a rank
  (`RankInjective`, `InOrderEnumerates`): so each block becomes one task. A block
  belongs to one event because the number of events along a dimension, a greatest
  common divisor, divides the grids on both sides (`OneEvent`; uneven shares would leave
  blocks to none). The blocks of an event are a segment of the order
  (`RangeOfEvent`), so the consumers are exactly the ids from `first_task_id` to below
  `last_task_id`, also after more operators have been added. While the graph grows,
  `EventsGrow` has the counts and the order, and `JoinsGrow` that an event is triggered
  by exactly the blocks that are `Joined` with its consumers; `EndComplete` carries
  this over to `dependent_event` and the end event. `Ancestors` is a recursive function on the
  tasks, whose recursion ends because producers come first; that it has a solution
  is proved without induction, from the least sets closed under waiting
  (`AncestorsAre`). `EndIsLast` looks at the first operator none of whose tasks comes
  after a given one (`SomeAfter`: there is none), and `ReadsInOrder` has two cases. Along the tensor that joins two operators, blocks
  that overlap are in the same share: with n events and f and g blocks to a share, block
  b of n * f and c of n * g can overlap only if b / f and c / g are equal when rounded
  down (`OverlapShare`). Behind an operator joined by a single event a task
  comes after everything before it (`BehindBarrier`).
* `GangTiles`: `TileNumber` is the inverse of the windowed traversal. That a decoded
  tile has the number it came from, and that the number of a tile is decoded into
  it, both rest on integer division being unique (`Unique`), and on the last window,
  which is lower, being the only one that may begin less than a window from the end.
* `SplitK`: `SplitKInv` says that the counter of a tile is the number of its blocks
  that have counted themselves, until the finisher resets it (`Counting`); that the
  blocks of a tile that are past the barrier with `is_last` set are one, and finish
  after all have been counted; and that the columns of warp 0 hold exactly the terms
  of the blocks whose warp 0 has added them (`Sums`). Nothing like `Sums` holds of the
  other warps. The theorems assume `SplitKConstants` where other modules have an
  `ASSUME`. `OneFinisher`, `CountingWarpComplete` and `SplitKInv` were also checked
  with TLC (2 tiles, 2 splits, 2 warps, 2 layers), but have no run of their own.
* `MultiGpu`: a GPU that has reduced a round has seen the signals of all other GPUs,
  so each had produced its terms, and before that reduced the round before
  (`AllAtMostOneBehind`). Going on along such steps, from one GPU to another and
  back, a GPU that may produce round m knows that every other has reduced every
  round n that is `Apart` from m (`Reach`): at least two before it, and, when there
  are two GPUs and so no third to go through, an even number before it. That is how
  far apart the uses of a counter or a term are: the invariant says that a term is
  kept until it is copied, and `Counting` that the counter holds no signal of a
  later iteration, so that equality means that the rows of this one are complete
  (`RowsHaveCome`). A buffer is used again sooner. `RowsKept` says what is left: a row
  that has arrived and is not summed yet can be written over only by a round that is
  near its own (`Near`, not `Apart` in either direction), because whoever has produced
  one further ahead knows this one reduced, and a row further behind was signalled
  before this round was produced. `ReducedInOrder` is what makes the invariant
  inductive for rounds that are further apart. That a row is not written over at all
  (`OthersTermsReady`) does not hold (see 6).

Only model-checked: liveness (`Termination`, `Delivered`, `AllServed`,
`AllReturn`), which under fairness is outside what the prover can do; what
`MCTwoGraphs` says of the runtime on its two graphs and of the gang kernels under it
(`Safe` repeats properties that `MegakernelProofs` has for every graph;
`EveryOutputTileOnce` puts `TilesRunOnce` and the decodings of `XcdProofs` together,
which are proved for every graph and every shape, and checks on its shapes that no
kernel computes a tile outside its output); and `ReadsFresh` of
`ThreadblockKernel`: what the recursive functions of `TbSchedule` compute for every
graph would need induction over data.

## 6. Where the code differs from what is said of it

* `src/kernel/runtime.cc:324`: the event a reduce waits for is signalled by the
  copies of the other GPUs only, but it adds its own GPU's term as well
  (`reduction.cuh:157-158`), which comments say has been gathered first. On the
  slower GPU the reduce, in another worker's queue, can be the first to run. Run
  `own_term`.
* `models/qwen3/builder.py:570`, `696`: every all-reduce is given the same buffer, and
  nothing keeps a GPU from putting its next term there while another still sums the
  one before, although comments call the two halves of an all-reduce allgather and
  reduce (`task_register.cc:1608`, `runtime.cc:1020`). Two GPUs and one layer are
  enough: TLC violates `OthersTermsReady`, put in the place of `OwnTermReady` in
  `MCMultiGpu_own_term.cfg`, also with one tile. No run is spent on it; `RowsGathered`,
  which `all_reduce` checks with that buffer, says how wrong the term can be.
* `persistent_kernel.cuh:914-917`, `940-942`: tasks are said to be dispatched only
  after their dependent event has fired. Since `register_mugraph` prelaunches the
  whole graph (`src/kernel/runtime.cc:593`) they are not; the polling loop
  after the comment is essential, and `Megakernel` models it (`StartTask`). No run
  is spent on it.
* `linear_ck_mi300.cuh:894`: thread 0 counts its block as soon as its own warp has
  added its terms; the fence before it orders a warp's accesses, not those of the
  other three, and there is no `__syncthreads` in between. The block that counts
  last can read, and zero, sums that lack a slow warp's terms, which then land in the
  next layer's. `gang_splitk_linear_mi300.cuh:146` has the same order. Run `split_k`.
* `persistent_kernel.cuh:1862-1865`: the election of the combined launch is said to
  guarantee one scheduler per XCD "regardless of hardware block placement". An XCD
  without a block has none, and one worker more than `num_workers` takes a number.
  `launch` shows the claim for the placements that use every XCD; no run is spent
  on the others.
* `runtime.cc:437-442`: `n_tile_start` of a k-split gang is meant as the index of the
  split, but `execute_worker` adds it to the tile number as well
  (`persistent_kernel.cuh:1104`), so XCD x leaves out its first x tiles; the gang that
  finalizes takes it for a column and a tile offset. The docstring
  (`persistent_kernel.py:1481-1482`) describes neither. No run is spent on it, nor on
  the workspace of the split-K gang, which is cut by columns between the XCDs but
  addressed by rows, with the counters behind the rows (`task_register.cc:706-728`).
* `transpiler_tb.cc:1487`: no barrier closes the loop body, so the next
  iteration's copies may overwrite a tile a slow thread still reads, unless a matmul,
  which ends in a barrier, happens to come behind the last kernel that reads one. The
  planner's comment (`plan_stensor_memory.cc:27`) says that a tensor can be used
  throughout its lifetime. The graphs are of the repository: the test
  `tb_input_output`, and `rms_norm.py`, whose body ends in squaring the tile it has
  multiplied. Run `loop_end`.

## 7. What the code needs and does not check

These are the named assumptions, `ASSUME`s of the modules:

* `PlacementAssumption`: XCD 0 has a worker; gang tasks of one operator fall to
  different XCDs (the workers go round the XCDs in turn and the number of XCDs
  divides the number of workers);
* `BatchAssumption`: there are enough pages for every slot at maximal length, and
  prompts are not empty;
* `GraphsAssumption`: a graph has an operator, no two dimensions of a grid cut one
  tensor dimension, and each operator reads something of the one before it;
* `EveryXcdServed` (in `KernelLaunch`): the hardware puts block k of the scheduler
  kernel on XCD k, and in a combined launch a block on every XCD. The first is a comment
  in `get_rand_sched_id`, the second is nowhere; `SupportedAssumption` checks that the
  placements of `launch` are these. The theorems need it: without it TLC violates
  both properties;
* `SafelyRead` (in `TaskGraph`): a tensor that does not join an operator to the
  previous one is cut alike or lies behind a barrier;
* `QueuesLongEnough`: a worker queue has room for the gang tasks a worker takes part
  in, its rounds of the ordinary tasks of its XCD and one more, and every scheduler
  has a task. Both lengths are set to 1024 (`persistent_kernel.cuh:2027-2028`) and
  compared with no graph. A scheduler without a task is waited for by nobody, and
  may fall behind the launch events by any number. With this hypothesis `NoOverrun`
  is proved (`QueuesSuffice`); `RoomAssumption` checks that it is met by `gang`;
* `MultiGpuAssumption`: with two GPUs a graph has an even number of all-reduces (a
  layer has two), or a counter could be used again before it was waited for.

And of the kernels:

* `gang_linear_silu_kernel` is given an even number of tiles for each XCD, or a gate
  tile has no partner; `gang_linear_msplit_kernel` a number of row tiles that divides
  the number of XCDs; `gang_moe_w13_linear_kernel` a batch that is a multiple of 16
  or at most 16 (the Python layer rounds down where the kernel rounds up);
* a threadblock graph in which every tensor is used (an unused one is freed
  before it is allocated and the planner throws, `DeclsAssumption`); behind the last
  barrier of whose loop body, which may be the one a matmul ends in, nothing is read
  that the next iteration writes or copies before its first barrier (run
  `loop_end`): neither a tile, copied asynchronously or not, nor what shares its
  address; and whose running maximum shares its address with nothing (the planner
  gives it the lifetime of one iteration, `plan_stensor_memory.cc:399`). The four
  kernels of `threadblock` are such; `rms_norm.py`, `llama3-8b.py`, `chameleon-7b.py`
  and the test `test_rms_norm` are not: they accumulate the mean square of the tile
  behind the matmul;
* accumulators are not used by the loop that fills them;
* `linear_kernel_hopper` is given no more output atoms than stages: with more, the
  slot of `mm_output` is written again when only the leader has waited for the
  store that reads it. `StoresIntact` states this; it is proved for
  `NUM_ITER_N <= Kstages` (`HopperStores`), and TLC violates it for 3 atoms on 2
  stages.

## 8. Not modelled

Start-up and tear-down of NVSHMEM and MPI, and failures of the network; `MODE_ONLINE` and `MODE_ONLINE_NOTOKEN`; the dispatch of `LAUNCH_TASKS` events; the
memory model (L2 caches of the XCDs and the fences); the numerics of the task
kernels, the pipelines inside the MI300 ones and the k-split gangs; of the pipelined kernels all but
`linear_kernel_hopper` with a residual and one consumer warp group; metadata and
descriptors of tasks; the profiler; the Python layer. Of the CUDA transpiler:
layouts and swizzles, which integer programs choose, the planning of device
memory, kernel-level operators, and the Hopper and Blackwell emitters, whose
programs use mbarriers instead of `__syncthreads`. The search and its verifiers
are symbolic algebra over a state space far beyond a model checker, and the text
that `task_register.cc` and the Triton and NKI transpilers emit has no state.

## 9. Plan

1. The core, done: `DecodingLoop`, `Megakernel`, `EventLog`, `EventQueue`,
   `BatchManager`, `KernelLaunch`, `TaskGraph`; all safety properties of
   `Megakernel`, `EventQueue` and `BatchManager` and both refinements proved.
2. The kernels, done: `MemoryPlanner`, `TbSchedule`, `ThreadblockKernel`,
   `LinearHopper`; the planner, its use by every kernel, and the safety of the
   pipeline's loads proved.
3. Several GPUs, done: `MultiGpu`; its waits, and what its reduces can read, proved.
4. The MI300 kernels, done: `GangTiles`, `SplitK`; the decodings and the
   counting proved.
5. Extend: `get_first_last_ids`; the `LAUNCH_TASKS` branches of the scheduler; the online
   modes of `prepare_next_batch`; reuse of buffers between layers in `TaskGraph`.
6. The launch and the task graph, done: uniqueness of roles and numbers, the boot
   handshake, and all properties of `TaskGraph` proved for any number of blocks, any
   graph and any grid.
7. Prove: `ReadsFresh` of `ThreadblockKernel` from a condition on the schedule.
