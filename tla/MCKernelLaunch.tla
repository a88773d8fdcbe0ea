--------------------------- MODULE MCKernelLaunch ---------------------------
(* Placements for model checking KernelLaunch.                              *)
EXTENDS KernelLaunch

\* Every placement of the blocks on two XCDs.
Anywhere == [0 .. NumWorkers + NumXcds - 1 -> 0 .. NumXcds - 1]

\* The split launch: block k of the scheduler kernel is on XCD k, the workers are
\* anywhere (the comment in get_rand_sched_id).
SchedulersInOrder ==
    {h \in Anywhere : \A k \in 0 .. NumXcds - 1 : h[NumWorkers + k] = k}

\* The combined launch: every XCD has a block.
EveryXcdUsed == {h \in Anywhere : \A x \in 0 .. NumXcds - 1 : \E b \in DOMAIN h : h[b] = x}

\* The launches that find every worker.
Supported == [split \in BOOLEAN |-> IF split THEN SchedulersInOrder ELSE EveryXcdUsed]

\* They are what the theorems about the launch assume of the hardware.
ASSUME SupportedAssumption == EveryXcdServed
=============================================================================
