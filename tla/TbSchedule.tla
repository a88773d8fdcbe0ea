----------------------------- MODULE TbSchedule -----------------------------
(***************************************************************************)
(* How the CUDA transpiler arranges the operators of a threadblock graph:  *)
(* which operators are fused, in which order they run before, in and after *)
(* the for loop, where __syncthreads goes between them, and which lifetime *)
(* that gives to each tensor in shared memory.                             *)
(*                                                                         *)
(* A graph g is a record: g.ops is the sequence of its operators in the    *)
(* order of their creation, g.range the forloop_range.  An operator has    *)
(*   type     its kind, shape parameters left out,                         *)
(*   in       its input tensors, each as << operator, output number >>,    *)
(*   size     the physical sizes of its output tensors,                    *)
(*   looped   of an input operator: forloop_dim is not -1,                 *)
(*   chunked  of an input operator: it can be copied in chunks of 16 bytes,*)
(*   numel    of an accumulator: elements per thread.                      *)
(***************************************************************************)
EXTENDS Integers, SequencesExt, FiniteSetsExt

T == 100000000  \* the time base: the loop begins at T, what follows at 2 T

Accums == {"ACCUM", "ACCUM_RESCALE", "ACCUM_MAX"}
MaxAccumRegs == 192

Op(g) == DOMAIN g.ops
Type(g, i) == g.ops[i].type
Owner(t) == t[1]
Inputs(g, i) == ToSet(g.ops[i].in)
Outputs(g, i) == {<< i, k >> : k \in DOMAIN g.ops[i].size}
FirstOwner(g, i) == Owner(g.ops[i].in[1])

\* The operators of the threadblock that come after an accumulator.
AfterAccum(g) ==
    LET after[i \in Op(g)] ==
          /\ Type(g, i) # "INPUT"
          /\ LET o == FirstOwner(g, i) IN Type(g, o) \in Accums \/ after[o]
    IN  {i \in Op(g) : after[i]}

NumConsumers(g, t) ==
    Cardinality({u \in Op(g) \X (1 .. 2) :
                   u[2] \in DOMAIN g.ops[u[1]].in /\ g.ops[u[1]].in[u[2]] = t})

\* Element-wise unary operators and plain accumulators are fused with what
\* produces their input, if they are its only consumer.
IsFusedWithPrev(g, i) ==
    /\ Type(g, i) \in {"UNARY", "ACCUM"}
    /\ NumConsumers(g, g.ops[i].in[1]) = 1
    /\ Type(g, FirstOwner(g, i)) \notin Accums \cup {"INPUT", "REDUCTION_MAX"}

\* The fusion chain an operator leads.
ChainFrom(g) ==
    LET next(i) == {j \in Op(g) : IsFusedWithPrev(g, j) /\ FirstOwner(g, j) = i}
        chain[i \in Op(g)] ==
          << i >> \o (IF next(i) = {} THEN << >> ELSE chain[CHOOSE j \in next(i) : TRUE])
    IN  chain

-----------------------------------------------------------------------------
(* Lowering: operators that reduce an accumulator, or normalize, become a   *)
(* chain of plain ones.                                                     *)

\* The operators that replace op, where `in' are its inputs in the new graph.
Lowered(op) ==
    CASE op.type \in {"ACCUM_SUM", "ACCUM_TO_DIMX"} -> << "ACCUM", "REDUCTION" >>
      [] op.type = "ACCUM_RESCALE_SUM" -> << "ACCUM_RESCALE", "REDUCTION" >>
      [] op.type = "ACCUM_RMS" -> << "UNARY", "UNARY", "ACCUM", "REDUCTION", "UNARY" >>
      [] op.type = "RMS_NORM" -> << "UNARY", "UNARY", "REDUCTION", "UNARY", "BINARY" >>
      [] OTHER -> << op.type >>

\* The first operator of the chain takes the inputs, each other one the output
\* of the one before it, which keeps the size of the input until a reduction;
\* the division of a normalization takes the input again.
Lower(graph) ==
    LET step(s, op) ==
          LET in == [k \in DOMAIN op.in |-> << s.at[op.in[k][1]], op.in[k][2] >>]
              n == Len(s.ops)
              types == Lowered(op)
              reduced == {k \in DOMAIN types : types[k] = "REDUCTION"}
              size(k) == IF Len(types) > 1 /\ (\A r \in reduced : k < r)
                         THEN << s.ops[in[1][1]].size[in[1][2]] >> ELSE op.size
              source(k) == IF k = 1 THEN in
                           ELSE IF types[k] = "BINARY" THEN << in[1], << n + k - 1, 1 >> >>
                           ELSE << << n + k - 1, 1 >> >>
          IN  [ops |-> s.ops \o [k \in DOMAIN types |->
                        [op EXCEPT !.type = types[k], !.in = source(k), !.size = size(k)]],
               at |-> Append(s.at, n + Len(types))]
    IN  [graph EXCEPT !.ops = FoldLeft(step, [ops |-> << >>, at |-> << >>], @).ops]

-----------------------------------------------------------------------------
(* The schedule: three sequences of nodes, each a fusion chain or SYNC.     *)

SYNC == << >>

\* Inputs are on level 0 (and accumulators, for the operators behind the
\* loop); an operator is a level above its inputs unless it is fused.
Levels(g, roots) ==
    LET level[i \in Op(g)] ==
          IF i \in roots THEN 0
          ELSE IF IsFusedWithPrev(g, i) THEN level[FirstOwner(g, i)]
          ELSE 1 + Max({level[Owner(t)] : t \in Inputs(g, i)})
    IN  level

\* ops2sched: chains in the order of their level, then of their creation,
\* and a barrier wherever the level changes.
Schedule(g, leaders, level) ==
    LET Earlier(i, j) == level[i] < level[j] \/ (level[i] = level[j] /\ i < j)
        order == SortSeq(SelectSeq([i \in Op(g) |-> i], LAMBDA i : i \in leaders), Earlier)
        chains == ChainFrom(g)
        Starts(k) == k > 1 /\ level[order[k]] # level[order[k - 1]]
    IN  FlattenSeq([k \in DOMAIN order |->
          (IF Starts(k) THEN << SYNC >> ELSE << >>) \o << chains[order[k]] >>])

InputOps(g) == {i \in Op(g) : Type(g, i) = "INPUT"}
Leaders(g) == {i \in Op(g) : ~IsFusedWithPrev(g, i)}

PreLoopNodes(g) ==
    Schedule(g, {i \in InputOps(g) : ~g.ops[i].looped}, [i \in Op(g) |-> 0])
LoopNodes(g) ==
    Schedule(g, {i \in Leaders(g) \ AfterAccum(g) : i \in InputOps(g) => g.ops[i].looped},
             Levels(g, InputOps(g)))
PostLoopNodes(g) ==
    Schedule(g, Leaders(g) \cap AfterAccum(g),
             Levels(g, InputOps(g) \cup {i \in Op(g) : Type(g, i) \in Accums}))

\* Software-pipelined inputs: copied in chunks, a tile ahead of the loop (the
\* target is an A100 or newer).
IsPipelined(g, i) == Type(g, i) = "INPUT" /\ g.ops[i].looped /\ g.ops[i].chunked

\* An accumulator is kept in registers while the budget lasts, and only if its
\* chain is a matmul and the accumulation.
IsAccumInReg(g, i) ==
    LET used[j \in 0 .. Len(g.ops)] ==
          IF j = 0 THEN 0
          ELSE IF Type(g, j) = "ACCUM" /\ used[j - 1] + g.ops[j].numel <= MaxAccumRegs
          THEN used[j - 1] + g.ops[j].numel ELSE used[j - 1]
    IN  /\ Type(g, i) = "ACCUM"
        /\ used[i - 1] + g.ops[i].numel <= MaxAccumRegs
        /\ IsFusedWithPrev(g, i)
        /\ Type(g, FirstOwner(g, i)) = "MATMUL"

-----------------------------------------------------------------------------
(* The declarations for the memory planner.  The i-th node runs in the i-th *)
(* time slice, counted from 0, of its part of the kernel.                   *)

\* The second buffer of a pipelined input.
Buf(t) == << t[1], t[2], "async_copy_buf" >>

Uses(nodes, g, t) == {k \in DOMAIN nodes : nodes[k] # SYNC /\ t \in Inputs(g, nodes[k][1])}

\* The first barrier after the last use, or the end; -1 if there is no use.
\* Mutant: right after the last use.
MutEarliestFree(g, t, nodes, base) ==
    IF Uses(nodes, g, t) = {} THEN -1 ELSE base + Max(Uses(nodes, g, t))
EarliestFree(g, t, nodes, base) ==
    IF Uses(nodes, g, t) = {} THEN -1
    ELSE LET last == Max(Uses(nodes, g, t))
             syncs == {k \in last .. Len(nodes) : nodes[k] = SYNC}
         IN  base - 1 + Min(syncs \cup {Len(nodes) + 1})

ProducedBy(nodes, g, t) ==
    {k \in DOMAIN nodes : nodes[k] # SYNC /\ Last(nodes[k]) = Owner(t)}

Decl(size, alloc, free) == [phy_size |-> size, alloc_time |-> alloc, free_time |-> free]

TensorDecls(g) ==
    LET pre == PreLoopNodes(g)
        loop == LoopNodes(g)
        post == PostLoopNodes(g)
        made == UNION {Outputs(g, Last(chain)) : chain \in (ToSet(pre) \cup ToSet(loop) \cup ToSet(post)) \ {SYNC}}
        bufs == {Buf(t) : t \in {u \in made : IsPipelined(g, Owner(u))}}
        behind == AfterAccum(g)
        slot(nodes, t) == Max(ProducedBy(nodes, g, t)) - 1
        size(t) == g.ops[Owner(t)].size[t[2]]
        after(t) == EarliestFree(g, t, post, 2 * T)
        decl(t) ==
          CASE IsPipelined(g, Owner(t)) -> Decl(size(t), T - 1, 2 * T)
            [] Type(g, Owner(t)) = "INPUT" /\ ~g.ops[Owner(t)].looped ->
                 Decl(size(t), slot(pre, t), IF after(t) = -1 THEN 2 * T ELSE after(t))
            [] Type(g, Owner(t)) \in Accums ->
                 Decl(size(t), IF IsAccumInReg(g, Owner(t)) THEN 2 * T ELSE T - 1, after(t))
            [] Owner(t) \in behind -> Decl(size(t), slot(post, t) + 2 * T, after(t))
            [] OTHER -> Decl(size(t), slot(loop, t) + T, EarliestFree(g, t, loop, T))
    IN  [t \in made \cup bufs |-> decl(t)]
=============================================================================
