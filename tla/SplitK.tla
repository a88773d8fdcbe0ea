-------------------------------- MODULE SplitK --------------------------------
(***************************************************************************)
(* The split-K linear layer of the MI300 (splitk_linear_res_atomic, and in *)
(* the same form gang_splitk_linear_res_kernel): the sum over K of a tile  *)
(* of the output is split between K_SPLITS blocks on different workers,    *)
(* which add their terms to a workspace with atomicAdd; the block that     *)
(* finds itself the last by the tile's done counter reads the sums, writes *)
(* the output, and leaves the workspace and the counter zeroed for the     *)
(* next layer.                                                             *)
(*                                                                         *)
(* A block has several warps.  In the tile, warp c holds the terms of its  *)
(* own columns in every row; afterwards warp r of the last block handles   *)
(* its own rows in every column.  A cell of the workspace is therefore     *)
(* << tile, columns' warp, rows' warp >>, and its value the set of terms   *)
(* added since it was zeroed: a term is << layer, split >>.                *)
(***************************************************************************)
EXTENDS Integers, FiniteSets

CONSTANTS
    NumTiles,    \* tiles of the output's columns, each with its done counter
    K_SPLITS,    \* blocks a tile's sum is split between
    NumWarps,    \* warps of a block: 256 threads, 4 warps
    MaxLayers    \* bound: layers that use the workspace one after the other

\* What the constants are; the theorems assume it.
SplitKConstants ==
    /\ NumTiles \in Nat \ {0}
    /\ K_SPLITS \in Nat \ {0}
    /\ NumWarps \in Nat \ {0}
    /\ MaxLayers \in Nat \ {0}

Tile == 0 .. NumTiles - 1
Split == 0 .. K_SPLITS - 1
Warp == 0 .. NumWarps - 1
Block == Tile \X Split
Cell == Tile \X Warp \X Warp
Term == (1 .. MaxLayers) \X Split

VARIABLES
    layer,           \* the layer that is executed
    pc,              \* of every warp of every block of the layer
    is_last,         \* __shared__, of every block
    workspace,       \* the terms added to a cell since it was zeroed
    done_counter,    \* of every tile
    output           \* the terms in what the layer wrote to a cell, if it did

vars == << layer, pc, is_last, workspace, done_counter, output >>

Init ==
    /\ layer = 1
    /\ pc = [b \in Block |-> [w \in Warp |-> "gemm"]]
    /\ is_last = [b \in Block |-> FALSE]
    /\ workspace = [c \in Cell |-> {}]
    /\ done_counter = [n \in Tile |-> 0]
    /\ output = [c \in Cell |-> {}]

Goto(b, w, l) == pc' = [pc EXCEPT ![b][w] = l]

\* A warp adds its part of the block's terms; thread 0 goes on to count the
\* block, the other warps wait for it at the barrier.
AddTerms(b, w) ==
    /\ pc[b][w] = "gemm"
    /\ workspace' = [c \in Cell |->
                       IF c[1] = b[1] /\ c[2] = w
                       THEN workspace[c] \cup {<< layer, b[2] >>} ELSE workspace[c]]
    /\ Goto(b, w, IF w = 0 THEN "count" ELSE "barrier")
    /\ UNCHANGED << layer, is_last, done_counter, output >>

\* Thread 0 counts the block, and finds out whether it is the tile's last.
CountBlock(b) ==
    /\ pc[b][0] = "count"
    /\ done_counter' = [done_counter EXCEPT ![b[1]] = @ + 1]
    /\ is_last' = [is_last EXCEPT ![b] = done_counter[b[1]] = K_SPLITS - 1]
    /\ Goto(b, 0, "barrier")
    /\ UNCHANGED << layer, workspace, output >>

\* __syncthreads: every thread of the block learns whether it is the last.
PassBarrier(b) ==
    /\ \A w \in Warp : pc[b][w] = "barrier"
    /\ pc' = [pc EXCEPT ![b] = [w \in Warp |-> IF is_last[b] THEN "read" ELSE "exit"]]
    /\ UNCHANGED << layer, is_last, workspace, done_counter, output >>

RowsOf(b, r) == {c \in Cell : c[1] = b[1] /\ c[3] = r}

\* A warp of the last block reads the sums of its rows and writes the output.
WriteOutput(b, r) ==
    /\ pc[b][r] = "read"
    /\ output' = [c \in Cell |-> IF c \in RowsOf(b, r) THEN workspace[c] ELSE output[c]]
    /\ Goto(b, r, "zero")
    /\ UNCHANGED << layer, is_last, workspace, done_counter >>

\* It zeroes what it read, and thread 0 the tile's counter.
ZeroWorkspace(b, r) ==
    /\ pc[b][r] = "zero"
    /\ workspace' = [c \in Cell |-> IF c \in RowsOf(b, r) THEN {} ELSE workspace[c]]
    /\ done_counter' = [done_counter EXCEPT ![b[1]] = IF r = 0 THEN 0 ELSE @]
    /\ Goto(b, r, "exit")
    /\ UNCHANGED << layer, is_last, output >>

LayerDone == \A b \in Block, w \in Warp : pc[b][w] = "exit"

\* All blocks have completed, their event fired, and the next split-K layer is
\* executed with the same workspace and counters (o_proj and down_proj).
NextLayer ==
    /\ LayerDone
    /\ layer < MaxLayers
    /\ layer' = layer + 1
    /\ pc' = [b \in Block |-> [w \in Warp |-> "gemm"]]
    /\ is_last' = [b \in Block |-> FALSE]
    /\ output' = [c \in Cell |-> {}]
    /\ UNCHANGED << workspace, done_counter >>

AllDone == LayerDone /\ layer = MaxLayers

Next ==
    \/ \E b \in Block, w \in Warp :
         AddTerms(b, w) \/ WriteOutput(b, w) \/ ZeroWorkspace(b, w)
    \/ \E b \in Block : CountBlock(b) \/ PassBarrier(b)
    \/ NextLayer
    \/ AllDone /\ UNCHANGED vars

Spec == Init /\ [][Next]_vars

-----------------------------------------------------------------------------
TypeOK ==
    /\ layer \in 1 .. MaxLayers
    /\ pc \in [Block -> [Warp -> {"gemm", "count", "barrier", "read", "zero", "exit"}]]
    /\ is_last \in [Block -> BOOLEAN]
    /\ workspace \in [Cell -> SUBSET Term]
    /\ done_counter \in [Tile -> Nat]
    /\ output \in [Cell -> SUBSET Term]

\* The terms of the layer: what a cell of its output must be the sum of.
LayerTerms == {layer} \X Split

\* The last block of a tile finishes alone, after every block was counted, and
\* a layer that is done has left the counters of its tiles at 0.
OneFinisher ==
    /\ \A b, c \in Block : b[1] = c[1] /\ is_last[b] /\ is_last[c] => b = c
    /\ LayerDone => \A n \in Tile : /\ \E k \in Split : is_last[<< n, k >>]
                                    /\ done_counter[n] = 0

\* What warp 0 adds is in place when its thread 0 counts the block: its columns
\* of the output of a layer that is done are the sum of all terms, once each.
CountingWarpComplete ==
    LayerDone => \A c \in Cell : c[2] = 0 => output[c] = LayerTerms

\* Every element of the output of a layer that is done is the sum of the
\* layer's terms, and of no other's.
OutputComplete ==
    LayerDone => \A c \in Cell : output[c] = LayerTerms
=============================================================================
