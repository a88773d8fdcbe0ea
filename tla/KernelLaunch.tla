---------------------------- MODULE KernelLaunch ----------------------------
(***************************************************************************)
(* One launch of the megakernel after another (launch_persistent_kernel):  *)
(* the host resets the shared state and starts the blocks; every block     *)
(* finds its role and its XCD, and the workers and the schedulers find     *)
(* each other through worker_xcd_map before the task graph runs.           *)
(*                                                                         *)
(* The launch is split (a worker kernel and a scheduler kernel, the roles  *)
(* fixed by the block index) or combined (one kernel, the roles elected by *)
(* atomics); init_persistent_kernel always chooses the split one.  The     *)
(* hardware places the blocks anew in every launch, and starts them in any *)
(* order.  The run of the task graph is the subject of Megakernel: here a  *)
(* scheduler that has its workers goes on and in the end makes them return.*)
(***************************************************************************)
EXTENDS Integers, FiniteSets

CONSTANTS
    NumWorkers,               \* config.num_workers
    NumXcds,                  \* config.num_xcds = config.num_local_schedulers
    Placements,               \* the placements of blocks on XCDs that can occur
                              \* in a split launch (TRUE) and in a combined one
    MaxLaunches               \* bound on the launches

Xcd == 0 .. NumXcds - 1
WorkerId == 0 .. NumWorkers - 1
\* Split: the blocks of worker_kernel come first, then those of scheduler_kernel.
Block == 0 .. NumWorkers + NumXcds - 1
IsWorkerBlock(b) == b < NumWorkers

ASSUME LaunchAssumption ==
    /\ NumWorkers \in Nat \ {0}
    /\ NumXcds \in Nat \ {0}
    /\ Placements \in [BOOLEAN -> SUBSET [Block -> Xcd]]
    /\ MaxLaunches \in Nat

\* What the hardware has to do, and no code enforces: the blocks of a split launch's
\* scheduler kernel fall to the XCDs in order (the comment in get_rand_sched_id), and
\* in a combined launch every XCD has a block, which can then be its scheduler.
EveryXcdServed ==
    /\ \A h \in Placements[TRUE] : \A x \in Xcd : h[NumWorkers + x] = x
    /\ \A h \in Placements[FALSE] : \A x \in Xcd : \E b \in Block : h[b] = x

VARIABLES
    split_worker_scheduler,      \* config.split_worker_scheduler, never changed
    launches,                    \* history: how many launches have been made
    hw_xcd,                      \* where this launch's blocks are
    pc, my_role, my_id,          \* of each block
    my_workers,                  \* of each block that is a scheduler
    xcd_scheduler_claimed, dynamic_worker_id_counter,
    worker_xcd_map, worker_xcd_ready_count

election == << xcd_scheduler_claimed, dynamic_worker_id_counter >>
placement == << worker_xcd_map, worker_xcd_ready_count >>
blockVars == << pc, my_role, my_id, my_workers >>
host == << split_worker_scheduler, launches, hw_xcd >>
vars == << host, blockVars, election, placement >>

\* A block before it knows its role, or at the first line of its kernel.
EntryPoint(b) == IF ~split_worker_scheduler THEN "claim"
                 ELSE IF IsWorkerBlock(b) THEN "map" ELSE "boot"
EntryRole(b) == IF ~split_worker_scheduler THEN "none"
                ELSE IF IsWorkerBlock(b) THEN "worker" ELSE "scheduler"
\* Mutant: the schedulers are counted from the end.
MutEntryId(b) == IF split_worker_scheduler /\ ~IsWorkerBlock(b)
                 THEN b - NumWorkers - NumXcds ELSE b
EntryId(b) == IF ~split_worker_scheduler THEN -1
              ELSE IF IsWorkerBlock(b) THEN b ELSE b - NumWorkers

Init ==
    /\ launches = 0
    /\ split_worker_scheduler \in BOOLEAN
    /\ hw_xcd \in Placements[split_worker_scheduler]
    /\ pc = [b \in Block |-> "returned"]
    /\ my_role = [b \in Block |-> EntryRole(b)]
    /\ my_id = [b \in Block |-> EntryId(b)]
    /\ my_workers = [b \in Block |-> {}]
    /\ xcd_scheduler_claimed = [x \in Xcd |-> -1]
    /\ dynamic_worker_id_counter = 0
    /\ worker_xcd_map = [w \in WorkerId |-> -1]
    /\ worker_xcd_ready_count = 0

-----------------------------------------------------------------------------
(* The host.                                                                *)

\* Mutant: the election of the last launch survives.
MutClaimedAfterPrepare == xcd_scheduler_claimed

ReadyAfterPrepare == 0
ClaimedAfterPrepare == [x \in Xcd |-> -1]

\* prepare_kernel resets the shared state, and the kernels start behind it; the
\* host has waited for all blocks of the launch before.
Launch ==
    /\ \A b \in Block : pc[b] = "returned"
    /\ launches < MaxLaunches
    /\ launches' = launches + 1
    /\ hw_xcd' \in Placements[split_worker_scheduler]
    /\ pc' = [b \in Block |-> EntryPoint(b)]
    /\ my_role' = [b \in Block |-> EntryRole(b)]
    /\ my_id' = [b \in Block |-> EntryId(b)]
    /\ my_workers' = [b \in Block |-> {}]
    /\ xcd_scheduler_claimed' = ClaimedAfterPrepare
    /\ dynamic_worker_id_counter' = 0
    /\ worker_xcd_map' = [w \in WorkerId |-> -1]
    /\ worker_xcd_ready_count' = ReadyAfterPrepare
    /\ UNCHANGED split_worker_scheduler

-----------------------------------------------------------------------------
(* persistent_kernel, the combined launch.                                  *)

\* Compare-and-swap on the entry of the block's XCD: the first to arrive is its
\* scheduler, with the XCD as its number.
ClaimScheduler(b) ==
    LET x == hw_xcd[b]
        won == xcd_scheduler_claimed[x] = -1
    IN  /\ pc[b] = "claim"
        /\ IF won
           THEN /\ xcd_scheduler_claimed' = [xcd_scheduler_claimed EXCEPT ![x] = b]
                /\ my_role' = [my_role EXCEPT ![b] = "scheduler"]
                /\ my_id' = [my_id EXCEPT ![b] = x]
           ELSE UNCHANGED << xcd_scheduler_claimed, my_role, my_id >>
        /\ pc' = [pc EXCEPT ![b] = IF won THEN "boot" ELSE "number"]
        /\ UNCHANGED << host, my_workers, dynamic_worker_id_counter,
                        placement >>

\* The others are workers and number themselves with an atomic counter.
TakeWorkerId(b) ==
    /\ pc[b] = "number"
    /\ my_role' = [my_role EXCEPT ![b] = "worker"]
    /\ my_id' = [my_id EXCEPT ![b] = dynamic_worker_id_counter]
    /\ dynamic_worker_id_counter' = dynamic_worker_id_counter + 1
    /\ pc' = [pc EXCEPT ![b] = "map"]
    /\ UNCHANGED << host, my_workers, xcd_scheduler_claimed, placement >>

-----------------------------------------------------------------------------
(* execute_worker and execute_scheduler, up to the task graph.              *)

\* The worker's XCD into the shared map; a number behind the end of the map
\* would be a write outside of it, which is no state of this model.
MapXcd(b) ==
    /\ pc[b] = "map"
    /\ worker_xcd_map' = IF my_id[b] \in WorkerId
                         THEN [worker_xcd_map EXCEPT ![my_id[b]] = hw_xcd[b]]
                         ELSE worker_xcd_map
    /\ pc' = [pc EXCEPT ![b] = "ready"]
    /\ UNCHANGED << host, my_role, my_id, my_workers, election,
                    worker_xcd_ready_count >>

\* ... and only behind the fence the count of those that are there.
ReportReady(b) ==
    /\ pc[b] = "ready"
    /\ worker_xcd_ready_count' = worker_xcd_ready_count + 1
    /\ pc' = [pc EXCEPT ![b] = "run"]
    /\ UNCHANGED << host, my_role, my_id, my_workers, election,
                    worker_xcd_map >>

\* Mutant: one worker less.
MutAllReady == worker_xcd_ready_count >= NumWorkers - 1
\* Mutant: one worker more.
MutAllReadyOffByOne == worker_xcd_ready_count > NumWorkers
AllReady == worker_xcd_ready_count >= NumWorkers

\* The scheduler waits for all of them and takes those of the XCD it is on.
CollectWorkers(b) ==
    /\ pc[b] = "boot"
    /\ AllReady
    /\ my_workers' = [my_workers EXCEPT ![b] =
                        {w \in WorkerId : worker_xcd_map[w] = hw_xcd[b]}]
    /\ pc' = [pc EXCEPT ![b] = "run"]
    /\ UNCHANGED << host, my_role, my_id, election, placement >>

\* The end of the task graph reaches scheduler 0, which signals the termination
\* to all of them; a scheduler passes it on to its workers and returns.
SchedulerReturns(b) ==
    /\ pc[b] = "run" /\ my_role[b] = "scheduler"
    /\ \E r \in Block : /\ my_role[r] = "scheduler" /\ my_id[r] = 0
                        /\ pc[r] \in {"run", "returned"}
    /\ pc' = [pc EXCEPT ![b] = "returned"]
    /\ UNCHANGED << host, my_role, my_id, my_workers, election, placement >>

WorkerReturns(b) ==
    /\ pc[b] = "run" /\ my_role[b] = "worker"
    /\ \E r \in Block : /\ my_role[r] = "scheduler" /\ pc[r] = "returned"
                        /\ my_id[b] \in my_workers[r]
    /\ pc' = [pc EXCEPT ![b] = "returned"]
    /\ UNCHANGED << host, my_role, my_id, my_workers, election, placement >>

\* Waiting is polling: the block stays where it is.
Poll(b) ==
    /\ \/ pc[b] = "boot" /\ ~AllReady
       \/ pc[b] = "run"
    /\ UNCHANGED vars

BlockStep(b) ==
    \/ ClaimScheduler(b) \/ TakeWorkerId(b) \/ MapXcd(b) \/ ReportReady(b)
    \/ CollectWorkers(b) \/ SchedulerReturns(b) \/ WorkerReturns(b) \/ Poll(b)

AllReturned == launches = MaxLaunches /\ \A b \in Block : pc[b] = "returned"
Finished == AllReturned /\ UNCHANGED vars

Next == Launch \/ (\E b \in Block : BlockStep(b)) \/ Finished

Spec == Init /\ [][Next]_vars

\* The blocks are all resident, one per CU, so each that can do a step does it,
\* whatever the others do; and the host launches again.
FairSpec == Spec /\ WF_vars(Launch) /\ \A b \in Block : WF_vars(BlockStep(b))

-----------------------------------------------------------------------------
(* Properties.                                                              *)

\* Types of the shared state of the launch and of the blocks' own variables
\* (RuntimeConfig; my_role and my_id of persistent_kernel).
TypeOK ==
    /\ split_worker_scheduler \in BOOLEAN
    /\ launches \in 0 .. MaxLaunches
    /\ hw_xcd \in [Block -> Xcd]
    /\ pc \in [Block -> {"claim", "number", "map", "ready", "boot", "run", "returned"}]
    /\ my_role \in [Block -> {"none", "worker", "scheduler"}]
    /\ my_id \in [Block -> Nat \cup {-1}]
    /\ my_workers \in [Block -> SUBSET WorkerId]
    /\ xcd_scheduler_claimed \in [Xcd -> Block \cup {-1}]
    /\ dynamic_worker_id_counter \in 0 .. NumWorkers + NumXcds
    /\ worker_xcd_map \in [WorkerId -> Xcd \cup {-1}]
    /\ worker_xcd_ready_count \in 0 .. NumWorkers + NumXcds

Workers == {b \in Block : my_role[b] = "worker"}
Schedulers == {b \in Block : my_role[b] = "scheduler"}

\* The numbers index the queues: no two blocks of a role have the same one, and
\* none is behind the last queue (num_workers of them, one per XCD).
NumbersDiffer ==
    /\ \A b \in Workers : my_id[b] \in WorkerId
    /\ \A b \in Schedulers : my_id[b] \in Xcd
    /\ \A b, c \in Block : b # c /\ my_role[b] = my_role[c] /\ my_role[b] # "none"
                             => my_id[b] # my_id[c]

\* When every block has its role, each XCD has exactly one scheduler, with the
\* XCD as its number (the comments in persistent_kernel and get_rand_sched_id).
OneSchedulerPerXcd ==
    (\A b \in Block : my_role[b] # "none" /\ pc[b] # "claim") =>
      \A x \in Xcd : \E b \in Schedulers :
        /\ my_id[b] = x /\ hw_xcd[b] = x
        /\ \A c \in Schedulers \ {b} : hw_xcd[c] # x

\* In whatever order the blocks of a launch arrive, the roles and the numbers
\* come out right, also when an earlier launch has left its own behind.
RolesAndNumbers == NumbersDiffer /\ OneSchedulerPerXcd

\* A scheduler that has started dispatches to exactly the workers that will
\* signal its queue, those of this launch on the XCD with its number: none is
\* missing because it was late, none is there twice, none from the last launch.
WorkersFound ==
    \A s \in Schedulers : pc[s] \in {"run", "returned"} /\ my_id[s] \in Xcd /\ launches > 0 =>
      my_workers[s] = {my_id[b] : b \in {c \in Workers : hw_xcd[c] = my_id[s]}}

\* Every launch gets all its blocks to work and back: no scheduler waits for ever
\* for a worker to be ready, and none leaves a worker of its XCD polling.
AllReturn == <>[]AllReturned
=============================================================================
