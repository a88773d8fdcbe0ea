----------------------------- MODULE DecodingLoop -----------------------------
(***************************************************************************)
(* What the megakernel promises to the model it runs: iterations of the    *)
(* task graph separated by barriers.  A batch is prepared only when every  *)
(* tile of the graph has been executed in the previous iteration; within   *)
(* an iteration every tile is executed once, after the tiles it reads from.*)
(* Nothing is said of XCDs, queues or counters.                            *)
(***************************************************************************)
EXTENDS Integers

CONSTANTS Tile,      \* the units of work of one iteration
          Requires,  \* for each tile, the tiles it reads the output of
          MaxBatches \* bound on the batches there are

\* What the theorems ask of the constants; Megakernel's assumptions on its graph
\* give it.
RequiresAssumption == /\ Requires \in [Tile -> SUBSET Tile]
                      /\ MaxBatches \in Nat

VARIABLES batches,    \* batches prepared
          iteration,  \* iterations launched
          executed    \* for each tile, how often it was executed

loopVars == << batches, iteration, executed >>

Init == /\ batches = 0
        /\ iteration = 0
        /\ executed = [t \in Tile |-> 0]

Complete == \A t \in Tile : executed[t] = iteration

PrepareBatch ==
    /\ iteration = batches
    /\ batches < MaxBatches
    /\ Complete
    /\ batches' = batches + 1
    /\ UNCHANGED << iteration, executed >>

Launch ==
    /\ iteration < batches
    /\ Complete
    /\ iteration' = iteration + 1
    /\ UNCHANGED << batches, executed >>

MayRun(t) == /\ executed[t] = iteration - 1
             /\ \A r \in Requires[t] : executed[r] = iteration

\* Any set of tiles whose requirements are met runs, each for the first time
\* in this iteration.
Execute ==
    /\ executed' \in [Tile -> {iteration - 1, iteration}]
    /\ \A t \in Tile : executed'[t] # executed[t] =>
         MayRun(t) /\ executed'[t] = iteration
    /\ UNCHANGED << batches, iteration >>

Next == PrepareBatch \/ Launch \/ Execute
Spec == Init /\ [][Next]_loopVars

\* Counts are counts.
TypeOK == /\ batches \in Nat
          /\ iteration \in Nat
          /\ executed \in [Tile -> Nat]

\* The barrier (END_OF_TASK_GRAPH, then prepare_next_batch, then the launch
\* event): every tile has run in all iterations before the current one, and a
\* batch is prepared only behind a complete iteration, and one ahead at most.
Barrier == /\ iteration <= batches /\ batches <= iteration + 1
           /\ \A t \in Tile : executed[t] \in {iteration - 1, iteration}
           /\ batches # iteration => Complete

\* What a tile reads is there, and is of its own iteration: whatever it requires
\* has run at least as often as itself (the dependent events of execute_worker).
RequirementsMet ==
    \A t \in Tile : \A r \in Requires[t] : executed[r] >= executed[t]
=============================================================================
