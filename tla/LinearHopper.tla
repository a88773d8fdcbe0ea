----------------------------- MODULE LinearHopper -----------------------------
(***************************************************************************)
(* linear_kernel_hopper: a matrix product by one block whose warp groups   *)
(* are specialised.  One producer thread has the tensor memory accelerator *)
(* copy tiles of the input, the weight and the residual into rings of      *)
(* Kstages slots; the threads of a consumer warp group multiply them and   *)
(* store the output.  They meet at mbarriers only, whose waits tell two    *)
(* phases apart by their parity.                                           *)
(*                                                                         *)
(* Tiles are counted through: tile j is iteration j % NUM_ITER_K of output *)
(* atom j \div NUM_ITER_K.  The residual and the output have a tile an atom.*)
(***************************************************************************)
EXTENDS Integers, FiniteSets

CONSTANTS Kstages,     \* slots of each ring
          NUM_ITER_N,  \* output atoms
          NUM_ITER_K,  \* tiles along the reduction
          Thread,      \* consumer threads
          Leader       \* the one that speaks for the warp group

ASSUME SizesAssumption ==
    /\ {Kstages, NUM_ITER_N, NUM_ITER_K} \subseteq Nat \ {0}
    /\ Leader \in Thread

NumTiles == NUM_ITER_N * NUM_ITER_K
Slots == 0 .. Kstages - 1
Ring == {"input", "weight", "residual"}
Barrier == Ring \cup {"compute_done", "residual_done"}
Empty == -1

Slot(j) == j % Kstages
\* The round of the ring a tile belongs to; the code keeps its parity, `phase'.
Round(j) == j \div Kstages

VARIABLES loaded,    \* tiles of input and weight the producer has requested
          residuals, \* tiles of the residual it has requested
          loads,     \* copies under way, as << ring, tile >>
          smem,      \* for each ring and slot, the tile in it
          barrier,   \* the mbarriers
          pc,        \* for each consumer thread, where it is
          atom,      \* its output_atom_idx
          tile,      \* and the tiles it has seen multiplied
          computed,  \* products the tensor cores have finished
          output,    \* for each slot of mm_output, who wrote which atom
          stores     \* atoms whose store to global memory is under way

vars == << loaded, residuals, loads, smem, barrier, pc, atom, tile, computed,
           output, stores >>

-----------------------------------------------------------------------------
(* An mbarrier that expects one arrival: phase is the number of completed  *)
(* phases; pending the arrivals and tx the copies whose bytes are still    *)
(* expected in this one.                                                   *)

NewBarrier == [phase |-> 0, pending |-> 1, tx |-> 0]
Completed(b) == IF b.pending = 0 /\ b.tx = 0
                THEN [NewBarrier EXCEPT !.phase = b.phase + 1] ELSE b
Arrive(b) == Completed([b EXCEPT !.pending = @ - 1])
ArriveExpect(b) == [phase |-> b.phase, pending |-> b.pending - 1, tx |-> b.tx + 1]
CompleteTx(b) == Completed([b EXCEPT !.tx = @ - 1])

\* wait(barrier, parity) passes when the phase under way has the other parity.
Passes(kind, slot, parity) == barrier[kind][slot].phase % 2 # parity

Init ==
    /\ loaded = 0 /\ residuals = 0 /\ loads = {}
    /\ smem = [r \in Ring |-> [s \in Slots |-> Empty]]
    /\ barrier = [b \in Barrier |-> [s \in Slots |-> NewBarrier]]
    /\ pc = [th \in Thread |-> "input"]
    /\ atom = [th \in Thread |-> 0]
    /\ tile = [th \in Thread |-> 0]
    /\ computed = 0
    /\ output = [s \in Slots |-> [th \in Thread |-> Empty]]
    /\ stores = {}

-----------------------------------------------------------------------------
(* The producer.                                                           *)

consumerVars == << pc, atom, tile, computed, output, stores >>

\* Mutant: the rounds are counted anew for every output atom.
MutProducerParity(j) == ((j % NUM_ITER_K) \div Kstages + 1) % 2
\* phase ^ 1: the slot has been released in the round before; in the first
\* round the wait passes at once.
ProducerParity(j) == (Round(j) + 1) % 2

Request(rings, j) ==
    /\ loads' = loads \cup (rings \X {j})
    /\ barrier' = [b \in Barrier |->
                     IF b \in rings THEN [barrier[b] EXCEPT ![Slot(j)] = ArriveExpect(@)]
                     ELSE barrier[b]]

LoadResidual ==
    /\ residuals < NUM_ITER_N
    /\ loaded = residuals * NUM_ITER_K
    /\ Passes("residual_done", Slot(residuals), (Round(residuals) + 1) % 2)
    /\ Request({"residual"}, residuals)
    /\ residuals' = residuals + 1
    /\ UNCHANGED << loaded, smem, consumerVars >>

LoadTile ==
    /\ loaded < residuals * NUM_ITER_K
    /\ Passes("compute_done", Slot(loaded), ProducerParity(loaded))
    /\ Request({"input", "weight"}, loaded)
    /\ loaded' = loaded + 1
    /\ UNCHANGED << residuals, smem, consumerVars >>

\* A copy lands: its bytes are counted at the barrier of its slot.
Land(load) ==
    LET ring == load[1]
        j == load[2]
    IN  /\ loads' = loads \ {load}
        /\ smem' = [smem EXCEPT ![ring][Slot(j)] = j]
        /\ barrier' = [barrier EXCEPT ![ring][Slot(j)] = CompleteTx(@)]
        /\ UNCHANGED << loaded, residuals, consumerVars >>

-----------------------------------------------------------------------------
(* The consumers.                                                          *)

Goto(th, label) == pc' = [pc EXCEPT ![th] = label]
producerVars == << loaded, residuals, loads, smem >>

\* The waits for the input and for the weight, then the product is issued.
WaitTile(th) ==
    /\ \/ /\ pc[th] = "input" /\ Passes("input", Slot(tile[th]), Round(tile[th]) % 2)
          /\ Goto(th, "weight")
       \/ /\ pc[th] = "weight" /\ Passes("weight", Slot(tile[th]), Round(tile[th]) % 2)
          /\ Goto(th, "multiply")
    /\ UNCHANGED << producerVars, barrier, atom, tile, computed, output, stores >>

\* wgmma is issued by the whole warp group and reads shared memory on its own.
Multiply ==
    /\ \A th \in Thread : pc[th] = "multiply" /\ tile[th] = computed
    /\ computed' = computed + 1
    /\ UNCHANGED << producerVars, barrier, pc, atom, tile, output, stores >>

\* Mutant: the slot is released when the product has been issued.
MutProductDone(th) == computed >= tile[th]
\* mma_async_wait.
ProductDone(th) == computed > tile[th]

\* Mutant: every thread releases the slot.
MutReleases(th) == th \in Thread
\* The first lane of the first warp releases the slot for all.
Releases(th) == th = Leader

Release(th) ==
    LET last == (tile[th] + 1) % NUM_ITER_K = 0
    IN  /\ pc[th] = "multiply" /\ ProductDone(th)
        /\ tile' = [tile EXCEPT ![th] = @ + 1]
        /\ barrier' = IF Releases(th)
                      THEN [barrier EXCEPT !["compute_done"][Slot(tile[th])] = Arrive(@)]
                      ELSE barrier
        /\ Goto(th, IF last THEN "residual" ELSE "input")
        /\ UNCHANGED << producerVars, atom, computed, output, stores >>

\* The wait for the residual, and for all but the last Kstages - 1 stores this
\* thread has committed: only the leader has any.
WaitResidual(th) ==
    /\ pc[th] = "residual"
    /\ Passes("residual", Slot(atom[th]), Round(atom[th]) % 2)
    /\ th = Leader => \A n \in stores : n > atom[th] - Kstages
    /\ Goto(th, "output")
    /\ UNCHANGED << producerVars, barrier, atom, tile, computed, output, stores >>

\* The sum of the product and the residual goes to mm_output.
WriteOutput(th) ==
    /\ pc[th] = "output"
    /\ output' = [output EXCEPT ![Slot(atom[th])][th] = atom[th]]
    /\ Goto(th, "sync")
    /\ UNCHANGED << producerVars, barrier, atom, tile, computed, stores >>

\* wg_sync, behind which the leader commits the store and releases the residual.
SyncAndStore(th) ==
    LET n == atom[th]
    IN  /\ pc[th] = "sync"
        /\ \A u \in Thread : atom[u] > n \/ (atom[u] = n /\ pc[u] \in {"sync", "store"})
        /\ IF th = Leader THEN Goto(th, "store") /\ UNCHANGED atom
           ELSE /\ atom' = [atom EXCEPT ![th] = @ + 1]
                /\ Goto(th, IF n + 1 = NUM_ITER_N THEN "drain" ELSE "input")
        /\ UNCHANGED << producerVars, barrier, tile, computed, output, stores >>

Store ==
    LET n == atom[Leader]
    IN  /\ pc[Leader] = "store"
        /\ stores' = stores \cup {n}
        /\ barrier' = [barrier EXCEPT !["residual_done"][Slot(n)] = Arrive(@)]
        /\ atom' = [atom EXCEPT ![Leader] = @ + 1]
        /\ Goto(Leader, IF n + 1 = NUM_ITER_N THEN "drain" ELSE "input")
        /\ UNCHANGED << producerVars, tile, computed, output >>

Stored(n) ==
    /\ stores' = stores \ {n}
    /\ UNCHANGED << producerVars, barrier, pc, atom, tile, computed, output >>

\* store_async_wait<0> and the last __syncthreads.
Drain(th) ==
    /\ pc[th] = "drain"
    /\ th = Leader => stores = {}
    /\ Goto(th, "end")
    /\ UNCHANGED << producerVars, barrier, atom, tile, computed, output, stores >>

Done == loaded = NumTiles /\ \A th \in Thread : pc[th] = "end"
Returned == Done /\ UNCHANGED vars

Produce == LoadResidual \/ LoadTile
Consume(th) == \/ WaitTile(th) \/ Release(th) \/ WaitResidual(th)
               \/ WriteOutput(th) \/ SyncAndStore(th) \/ Drain(th)
Next == \/ Produce \/ Multiply \/ Store
        \/ \E load \in loads : Land(load)
        \/ \E n \in stores : Stored(n)
        \/ \E th \in Thread : Consume(th)
        \/ Returned

Spec == Init /\ [][Next]_vars
\* Resident warps are scheduled again and again, and what the accelerator and
\* the tensor cores are given is done.
FairSpec == /\ Spec
            /\ WF_vars(Produce) /\ WF_vars(Multiply) /\ WF_vars(Store)
            /\ WF_vars(\E load \in loads : Land(load))
            /\ WF_vars(\E n \in stores : Stored(n))
            /\ \A th \in Thread : WF_vars(Consume(th))

-----------------------------------------------------------------------------
(* Properties.                                                             *)

Holds(ring, j) ==
    /\ smem[ring][Slot(j)] = j
    /\ \A load \in loads : load[1] = ring => Slot(load[2]) # Slot(j)

\* The tensor cores read the tile they are to multiply, from when the first
\* thread has passed the waits to the end of the product, and the threads read
\* the residual of their atom: the copy has landed and nothing has been copied,
\* or is being copied, over it.
LoadsIntact ==
    \A th \in Thread :
      /\ pc[th] = "multiply" /\ tile[th] = computed =>
           Holds("input", tile[th]) /\ Holds("weight", tile[th])
      /\ pc[th] = "output" => Holds("residual", atom[th])

\* A parity is enough to tell the phases apart: whoever waits for the end of a
\* phase finds the barrier in that phase or in the next, never a round ahead or
\* behind (wait of barrier.cuh sees the low bit only).
Phase(kind, j) == barrier[kind][Slot(j)].phase - Round(j)
ParityUnambiguous ==
    /\ loaded < NumTiles => Phase("compute_done", loaded) \in {-1, 0}
    /\ residuals < NUM_ITER_N => Phase("residual_done", residuals) \in {-1, 0}
    /\ \A th \in Thread :
         /\ pc[th] \in {"input", "weight"} => Phase(pc[th], tile[th]) \in {0, 1}
         /\ pc[th] = "residual" => Phase("residual", atom[th]) \in {0, 1}

\* A store reads from mm_output what all threads wrote for its atom.
StoresIntact ==
    \A n \in stores : \A th \in Thread : output[Slot(n)][th] = n

\* The kernel ends: producer and consumers never wait for each other.
Termination == <>Done
=============================================================================
