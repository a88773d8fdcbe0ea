------------------------------- MODULE MultiGpu -------------------------------
(***************************************************************************)
(* All-reduce between the GPUs of a tensor-parallel model: the tasks       *)
(* register_mugraph makes of an all-reduce operator (runtime.cc), their    *)
(* code (task_register.cc, reduction.cuh) and the NVSHMEM events that tie  *)
(* the GPUs together (execute_worker).                                     *)
(*                                                                         *)
(* Every GPU runs its own megakernel on a graph of the same shape.  An     *)
(* iteration has NumRounds all-reduces.  In each, a block of the operator  *)
(* before it computes the GPU's term of a tile ("produce"), one task per   *)
(* other GPU puts the term into that GPU's buffer, row by row, each row    *)
(* adding one to a counter there ("copy"), and a task sums the terms once  *)
(* the counter tells that all rows have come ("reduce").  There is no      *)
(* other synchronisation between the GPUs: one may be ahead of another,    *)
(* and nothing keeps it from writing over a buffer that is being read.     *)
(*                                                                         *)
(* Rounds are numbered through: round n is the all-reduce Slot(n) of       *)
(* iteration IterationOf(n), and what is stored is the number of the round *)
(* it was computed in.  The rest of an iteration, operators that need all  *)
(* tiles of an all-reduce, is part of the produce tasks of the next one,   *)
(* and the schedulers are those of Megakernel, with one XCD.               *)
(***************************************************************************)
EXTENDS Integers, FiniteSets

CONSTANTS
    NumGpus,         \* num_gpus
    NumRounds,       \* all-reduce operators of the graph
    NumTiles,        \* blocks of an all-reduce, bgraph.grid_dim
    NumRows,         \* for_loop: the rows of a tile are put one by one
    NumWorkers,      \* config.num_workers of each GPU
    Buffer,          \* the tensors given to all-reduces as their buffer
    BufferOf,        \* the buffer of each all-reduce
    MaxIterations    \* bound on the batches prepare_next_batch finds

Gpu == 0 .. NumGpus - 1
Tile == 0 .. NumTiles - 1
Row == 1 .. NumRows
Slots == 1 .. NumRounds
Round == 1 .. NumRounds * MaxIterations

Slot(n) == ((n - 1) % NumRounds) + 1
IterationOf(n) == ((n - 1) \div NumRounds) + 1
BufferIn(n) == BufferOf[Slot(n)]
Others(g) == Gpu \ {g}

\* Two rounds that use the same counter or buffer.  A GPU reduces a round when
\* all others have put their terms of it, so it is ahead of another by less than
\* two rounds; two GPUs, which only wait for each other, drift apart by chains of
\* every other round.
Apart(n, m) == m - n > 1 /\ (NumGpus > 2 \/ (m - n) % 2 = 0)

\* What the code needs of a graph and does not check: the same all-reduce of two
\* iterations is that far apart.  The graphs here have two of them in a layer.
ASSUME MultiGpuAssumption ==
    /\ NumGpus \in Nat /\ NumGpus > 1
    /\ {NumRounds, NumTiles, NumRows, NumWorkers, MaxIterations} \subseteq Nat \ {0}
    /\ NumRounds > 1 /\ (NumGpus > 2 \/ NumRounds % 2 = 0)
    /\ BufferOf \in [Slots -> Buffer]

Near(n, m) == ~Apart(n, m) /\ ~Apart(m, n)

\* A task is << kind, round, tile, target >>; all but copies are for their own GPU.
Task == [g \in Gpu |-> ({"produce", "reduce"} \X Round \X Tile \X {g})
              \cup ({"copy"} \X Round \X Tile \X Others(g))]

\* The position of a task in the order of the tasks register_mugraph adds.
Position(g, p) ==
    LET t == p[3]
        h == p[4]
    IN  (p[2] - 1) * NumTiles * (NumGpus + 1)
          + CASE p[1] = "produce" -> t
              [] p[1] = "copy" -> NumTiles + t * (NumGpus - 1) + (IF h < g THEN h ELSE h - 1)
              [] p[1] = "reduce" -> NumTiles * NumGpus + t

\* The scheduler goes round the workers, with a BEGIN task before each iteration.
Worker(g, p) == (Position(g, p) + IterationOf(p[2])) % NumWorkers

\* The tasks pushed to the worker of p before p.
Earlier == [g \in Gpu |-> [p \in Task[g] |->
              {q \in Task[g] : Worker(g, q) = Worker(g, p) /\ Position(g, q) < Position(g, p)}]]

VARIABLES
    iteration,   \* the iteration each GPU has launched
    reducing,    \* the reduces under way on each GPU
    done,        \* the tasks finished on each GPU
    term,        \* input_ptrs[0] of the reduces and copies: this GPU's terms
    gathered,    \* input_ptrs[1] of the reduces: the terms of the others
    signals,     \* what was added to the counters of the NVSHMEM events
    puts,        \* rows sent
    landed       \* rows that have arrived and whose signal has not

vars == << iteration, reducing, done, term, gathered, signals, puts, landed >>
network == << gathered, signals, puts, landed >>

Message == [src : Gpu, dst : Gpu, round : Round, tile : Tile, row : Row, term : Round \cup {0}]

TypeOK ==
    /\ iteration \in [Gpu -> 0 .. MaxIterations]
    /\ reducing \in [Gpu -> SUBSET UNION {Task[g] : g \in Gpu}]
    /\ done \in [Gpu -> SUBSET UNION {Task[g] : g \in Gpu}]
    /\ \A g \in Gpu : reducing[g] \cup done[g] \subseteq Task[g]
    /\ term \in [Gpu -> [Slots \X Tile -> Round \cup {0}]]
    /\ gathered \in [Gpu -> [Buffer \X Gpu \X Tile \X Row -> Round \cup {0}]]
    /\ signals \in [Gpu -> [Slots \X Tile -> SUBSET ((1 .. MaxIterations) \X (Gpu \X Row))]]
    /\ puts \subseteq Message
    /\ landed \subseteq Message

Init ==
    /\ iteration = [g \in Gpu |-> 0]
    /\ reducing = [g \in Gpu |-> {}]
    /\ done = [g \in Gpu |-> {}]
    /\ term = [g \in Gpu |-> [s \in Slots \X Tile |-> 0]]
    /\ gathered = [g \in Gpu |-> [c \in Buffer \X Gpu \X Tile \X Row |-> 0]]
    /\ signals = [g \in Gpu |-> [s \in Slots \X Tile |-> {}]]
    /\ puts = {} /\ landed = {}

-----------------------------------------------------------------------------
(* The events.                                                             *)

\* The counter of an NVSHMEM event: every signal adds one.
Counter(g, n, t) == Cardinality(signals[g][<< Slot(n), t >>])

\* Mutant: a copy counts once for all its rows.
MutNeededPerTask(n) == (NumGpus - 1) * IterationOf(n)
\* num_triggers * iteration_num
NeededCounts(n) == (NumGpus - 1) * NumRows * IterationOf(n)

Reduced(g, n) == \A t \in Tile : << "reduce", n, t, g >> \in done[g]

\* Mutant: an operator does not wait for the all-reduce before it.
MutNothingBefore(g, n) == n > 0
\* The first operator of an iteration waits for the iteration only.
AfterPrevious(g, n) == Slot(n) = 1 \/ Reduced(g, n - 1)

Fired(g, p) ==
    \/ p[1] = "produce" /\ AfterPrevious(g, p[2])
    \/ p[1] = "copy" /\ << "produce", p[2], p[3], g >> \in done[g]
    \/ p[1] = "reduce" /\ Counter(g, p[2], p[3]) = NeededCounts(p[2])

-----------------------------------------------------------------------------
(* The steps of a GPU.                                                     *)

\* The end of the task graph, reported by the tasks of its last operator, and
\* the launch of the next iteration.
BeginIteration(g) ==
    /\ iteration[g] < MaxIterations
    /\ iteration[g] > 0 => Reduced(g, iteration[g] * NumRounds)
    /\ iteration' = [iteration EXCEPT ![g] = @ + 1]
    /\ UNCHANGED << reducing, done, term, network >>

\* The tasks at the heads of the workers' queues: a worker takes its tasks in
\* the order they were pushed.
Heads(g) == {p \in Task[g] \ done[g] : /\ IterationOf(p[2]) <= iteration[g]
                                       /\ Earlier[g][p] \subseteq done[g]}

Finish(g, p) == done' = [done EXCEPT ![g] = @ \cup {p}] /\ UNCHANGED iteration

Produce(g, p) ==
    /\ p[1] = "produce"
    /\ Fired(g, p)
    /\ term' = [term EXCEPT ![g][<< Slot(p[2]), p[3] >>] = p[2]]
    /\ Finish(g, p)
    /\ UNCHANGED << reducing, network >>

\* nvshmemx_putmem_signal_block for every row.
Copy(g, p) ==
    /\ p[1] = "copy"
    /\ Fired(g, p)
    /\ puts' = puts \cup
         { [src |-> g, dst |-> p[4], round |-> p[2], tile |-> p[3], row |-> i,
            term |-> term[g][<< Slot(p[2]), p[3] >>]] : i \in Row }
    /\ Finish(g, p)
    /\ UNCHANGED << reducing, term, gathered, signals, landed >>

\* The wait is over, and reduction_kernel reads while other GPUs go on.
StartReduce(g, p) ==
    /\ p[1] = "reduce"
    /\ p \notin reducing[g]
    /\ Fired(g, p)
    /\ reducing' = [reducing EXCEPT ![g] = @ \cup {p}]
    /\ UNCHANGED << iteration, done, term, network >>

FinishReduce(g, p) ==
    /\ p \in reducing[g]
    /\ reducing' = [reducing EXCEPT ![g] = @ \ {p}]
    /\ Finish(g, p)
    /\ UNCHANGED << term, network >>

TaskStep(g, p) == \/ Produce(g, p) \/ Copy(g, p)
                  \/ StartReduce(g, p) \/ FinishReduce(g, p)

-----------------------------------------------------------------------------
(* The network: puts arrive in any order, and a signal after its row.      *)

Land(m) ==
    /\ puts' = puts \ {m}
    /\ landed' = landed \cup {m}
    /\ gathered' = [gathered EXCEPT
                      ![m.dst][<< BufferIn(m.round), m.src, m.tile, m.row >>] = m.term]
    /\ UNCHANGED << iteration, reducing, done, term, signals >>

Signal(m) ==
    /\ landed' = landed \ {m}
    /\ signals' = [signals EXCEPT ![m.dst][<< Slot(m.round), m.tile >>] =
                     @ \cup {<< IterationOf(m.round), << m.src, m.row >> >>}]
    /\ UNCHANGED << iteration, reducing, done, term, gathered, puts >>

-----------------------------------------------------------------------------
AllDone == \A g \in Gpu : iteration[g] = MaxIterations /\ Task[g] \subseteq done[g]
Terminated == AllDone /\ puts = {} /\ landed = {} /\ UNCHANGED vars

GpuStep(g) == BeginIteration(g) \/ \E p \in Heads(g) : TaskStep(g, p)
NetworkStep == (\E m \in puts : Land(m)) \/ (\E m \in landed : Signal(m))

Step == (\E g \in Gpu : GpuStep(g)) \/ NetworkStep
Next == Step \/ Terminated

Spec == Init /\ [][Next]_vars

\* The blocks of every GPU are resident, and what is put arrives: something goes
\* on as long as something can.
FairSpec == Spec /\ WF_vars(Step)

-----------------------------------------------------------------------------
(* Properties.                                                             *)

\* A reduce starts when the number of signals is right (execute_worker compares a
\* counter).  They are then the right ones: every row of every other GPU's term of
\* its round has come, although copies of other rounds add to the counter.  Nothing
\* tells a GPU that another has read its buffer, so the reduce (reduction_kernel)
\* may find a later term put over one.  It is always that of a round that shares
\* the buffer and is near: with two GPUs the same or an odd number of rounds away,
\* with more the same, the next or the one before.
RowsGathered ==
    \A g \in Gpu : \A n \in Round : \A t \in Tile :
      << "reduce", n, t, g >> \in reducing[g] =>
        \A h \in Others(g) : \A i \in Row :
          /\ << IterationOf(n), << h, i >> >> \in signals[g][<< Slot(n), t >>]
          /\ \E m \in Round : /\ BufferIn(m) = BufferIn(n) /\ Near(n, m)
                             /\ gathered[g][<< BufferIn(n), h, t, i >>] = m

\* The wait for an NVSHMEM event is for equality (NVSHMEM_CMP_EQ), and nobody
\* holds the counter still: it has not moved on while a reduce waits for it.
NoSignalMissed ==
    \A g \in Gpu : \A n \in Round : \A t \in Tile :
      << "reduce", n, t, g >> \notin reducing[g] \cup done[g] =>
        Counter(g, n, t) <= NeededCounts(n)

\* The GPUs do not wait for each other in a circle, whatever the order in which
\* their workers hold the tasks: all end.
Termination == <>AllDone

\* runtime.cc says that an all-reduce first launches the tasks that gather the
\* terms: the reduce that follows finds its own GPU's term written.
OwnTermReady ==
    \A g \in Gpu : \A n \in Round : \A t \in Tile :
      << "reduce", n, t, g >> \in reducing[g] => term[g][<< Slot(n), t >>] = n

\* A stronger RowsGathered, that a reduce finds the terms of its own round.  It does
\* not hold of all-reduces that follow each other on one buffer.
OthersTermsReady ==
    \A g \in Gpu : \A n \in Round : \A t \in Tile :
      << "reduce", n, t, g >> \in reducing[g] =>
        \A h \in Others(g) : \A i \in Row : gathered[g][<< BufferIn(n), h, t, i >>] = n
=============================================================================
