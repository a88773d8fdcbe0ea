--------------------------- MODULE ThreadblockKernel ---------------------------
(***************************************************************************)
(* A threadblock kernel of the CUDA transpiler, from its graph to its      *)
(* threads.  The memory planner places the tensors TbSchedule declares;    *)
(* transpiler_tb.cc turns the schedule into a straight program; the        *)
(* threads of a block run it on shared memory, apart except for            *)
(* __syncthreads, with cp.async copies that land in their own time.        *)
(*                                                                         *)
(* The kernels copy, compute and store element by element, each with its   *)
(* own assignment of elements to threads.  So of every unit of memory each *)
(* thread writes a slice, and a thread that reads a tensor reads all       *)
(* slices.  A slice holds << tensor, version >>: the version is the number *)
(* of the iteration (from 1) whose value it is, 1 for what is written once,*)
(* 0 for a cleared accumulator.                                            *)
(***************************************************************************)
EXTENDS TbSchedule, MemoryPlanner

CONSTANTS Graphs,        \* a sequence of lowered threadblock graphs
          NumThreads,    \* threads of the block
          DeclaredOrder  \* bound: graphs of which simultaneous events of the
                         \* planner are taken in one order only

Thread == 0 .. NumThreads - 1

VARIABLES graph,    \* the graph that is compiled and run
          program,  \* the code of the kernel, once it is generated
          smem,     \* shared memory, by address and slice
          pc,       \* for each thread, the instruction it is at
          swapped,  \* for each thread, whether stensor_ptr and
                    \* async_copy_buf are exchanged
          pending   \* for each thread, its groups of async copies not yet
                    \* landed; the last group is still open

vars == << plannerVars, graph, program, smem, pc, swapped, pending >>

-----------------------------------------------------------------------------
(* The program.  An instruction is [op, ts]: ts are << tensor, version >>.  *)

Instr(op, ts) == << [op |-> op, ts |-> ts] >>
Sync == Instr("sync", {})
When(condition, instrs) == IF condition THEN instrs ELSE << >>

\* The version of a tensor read in iteration i, or behind the loop
\* (i = g.range): pre-loop inputs and what is computed behind the loop have
\* one value; the accumulators are read behind the last iteration.
Version(g, t, i) ==
    IF i < g.range THEN IF Type(g, Owner(t)) = "INPUT" /\ ~g.ops[Owner(t)].looped THEN 1 ELSE i + 1
    ELSE IF Type(g, Owner(t)) \in Accums THEN g.range ELSE 1
Versioned(g, ts, i) == {<< t, Version(g, t, i) >> : t \in ts}

\* Mutant: the barrier at the end of Matmul::run is left out.
MutMatmulSync == << >>
MatmulSync == Sync

\* A node: the kernel of the first operator of the chain reads, the epilogue of
\* the last stores or accumulates.  Matmul::run ends in a barrier; a pipelined
\* input is skipped; a running maximum is updated where it is.
Node(g, chain, i) ==
    LET last == Last(chain)
        ins == Versioned(g, Inputs(g, chain[1]), i)
        outs == Versioned(g, Outputs(g, last), i)
        max == {v \in outs : Type(g, last) = "REDUCTION_MAX" /\ v[1][2] = 1}
    IN  IF IsPipelined(g, last) THEN << >>
        ELSE When(ins # {}, Instr("read", ins))
          \o When(Type(g, chain[1]) = "MATMUL", MatmulSync)
          \o CASE IsAccumInReg(g, last) \/ Type(g, last) = "OUTPUT" -> << >>
               [] Type(g, last) \in Accums -> Instr("accumulate", outs)
               [] max # {} -> Instr("accumulate", max) \o Instr("write", outs \ max)
               [] OTHER -> Instr("write", outs)

Nodes(g, nodes, i) ==
    FlattenSeq([k \in DOMAIN nodes |-> IF nodes[k] = SYNC THEN Sync ELSE Node(g, nodes[k], i)])

Pipelined(g) == {i \in Op(g) : IsPipelined(g, i)}
PipelinedTile(g, version) == {<< << i, 1 >>, version >> : i \in Pipelined(g)}

\* What is accumulated in shared memory is cleared before the loop, the
\* running maxima included.
Cleared(g) ==
    LET ops == {i \in Op(g) : Type(g, i) \in Accums \cup {"REDUCTION_MAX"}
                                /\ i \notin AfterAccum(g) /\ ~IsAccumInReg(g, i)}
    IN  {<< << i, 1 >>, 0 >> : i \in ops}

Prologue(g) ==
    LET copies == Nodes(g, PreLoopNodes(g), 0)
        clear == When(Cleared(g) # {}, Instr("write", Cleared(g)))
    IN  copies \o clear \o When(copies \o clear # << >>, Sync)
          \o When(Pipelined(g) # {},
                  Instr("prefetch", PipelinedTile(g, 1)) \o Instr("fence", {}))

\* The next tile goes to the buffer of the last one; then the copies of all
\* groups but the newest are waited for.  The fence closes a group, an empty one
\* in the last iteration, which is what makes the wait include the last tile.
\* Mutant: no group is closed in the last iteration.
MutLoopHead(g, i) ==
    When(i + 1 # g.range, Instr("copy", PipelinedTile(g, i + 2)) \o Instr("fence", {}))
      \o Instr("wait", {}) \o Instr("swap", {})
LoopHead(g, i) ==
    When(i + 1 # g.range, Instr("copy", PipelinedTile(g, i + 2)))
      \o Instr("fence", {}) \o Instr("wait", {}) \o Instr("swap", {})

LoopBody(g, i) ==
    When(Pipelined(g) # {}, LoopHead(g, i)) \o Nodes(g, LoopNodes(g), i)

\* Accumulators in registers are written back behind the loop.
Epilogue(g) ==
    LET inReg == {<< << i, 1 >>, g.range >> : i \in {j \in Op(g) : IsAccumInReg(g, j)}}
    IN  When(inReg # {}, Sync \o Instr("write", inReg))
          \o When(PostLoopNodes(g) # << >>, Sync \o Nodes(g, PostLoopNodes(g), g.range))

Program(g) ==
    Prologue(g) \o FlattenSeq([i \in 1 .. g.range |-> LoopBody(g, i - 1)]) \o Epilogue(g)

-----------------------------------------------------------------------------
(* The threads.                                                            *)

Init ==
    /\ PlannerInit
    /\ graph \in DOMAIN Graphs
    /\ decls = TensorDecls(Graphs[graph])
    /\ program = << >>
    /\ smem = << >>
    /\ pc = [th \in Thread |-> 1]
    /\ swapped = [th \in Thread |-> FALSE]
    /\ pending = [th \in Thread |-> << {} >>]

Plan(e) ==
    /\ graph \in DeclaredOrder => e = CHOOSE f \in Due : TRUE
    /\ ProcessEvent(e)
    /\ UNCHANGED << graph, program, smem, pc, swapped, pending >>

Launch ==
    /\ ChoosePlan
    /\ program' = Program(Graphs[graph])
    /\ smem' = [a \in 0 .. plan'.smem_size - 1 |-> [th \in Thread |-> << >>]]
    /\ UNCHANGED << graph, pc, swapped, pending >>

AtEnd(th) == pc[th] > Len(program)
At(th, op) == Planned /\ ~AtEnd(th) /\ program[pc[th]].op = op
Operands(th) == program[pc[th]].ts
Advance(th) == pc' = [pc EXCEPT ![th] = @ + 1]

\* Where a thread's stensor_ptr or, if `other', its async_copy_buf points.
Ptr(th, t, other) ==
    plan.addrs[IF Buf(t) \in Tensor /\ swapped[th] # other THEN Buf(t) ELSE t]
Units(th, t, other) ==
    LET a == Ptr(th, t, other) IN a .. a + decls[t].phy_size - 1

\* Memory after a thread has written its slices of the operands.
Written(th, vs) ==
    [a \in DOMAIN smem |->
       LET here == {v \in vs : a \in Units(th, v[1], FALSE)}
       IN  IF here = {} THEN smem[a]
           ELSE [smem[a] EXCEPT ![th] = CHOOSE v \in here : TRUE]]

\* Reading needs no action on memory: ReadsFresh says what is read.
Read(th) ==
    /\ At(th, "read")
    /\ Advance(th)
    /\ UNCHANGED << plannerVars, graph, program, smem, swapped, pending >>

Write(th) ==
    /\ At(th, "write") \/ At(th, "accumulate")
    /\ smem' = Written(th, Operands(th))
    /\ Advance(th)
    /\ UNCHANGED << plannerVars, graph, program, swapped, pending >>

\* __syncthreads: nobody passes before all have come.
Barrier(th) ==
    /\ At(th, "sync")
    /\ \A u \in Thread : pc[u] >= pc[th]
    /\ Advance(th)
    /\ UNCHANGED << plannerVars, graph, program, smem, swapped, pending >>

\* The first tile goes to async_copy_buf, the others to stensor_ptr.
CopyAsync(th) ==
    /\ At(th, "prefetch") \/ At(th, "copy")
    /\ LET open == Len(pending[th])
           copies == {<< Ptr(th, v[1], At(th, "prefetch")), v >> : v \in Operands(th)}
       IN  pending' = [pending EXCEPT ![th][open] = @ \cup copies]
    /\ Advance(th)
    /\ UNCHANGED << plannerVars, graph, program, smem, swapped >>

Fence(th) ==
    /\ At(th, "fence")
    /\ pending' = [pending EXCEPT ![th] = Append(@, {})]
    /\ Advance(th)
    /\ UNCHANGED << plannerVars, graph, program, smem, swapped >>

\* cp_async_wait<1>: of the closed groups only the newest may be under way.
Wait(th) ==
    /\ At(th, "wait")
    /\ LET closed == Len(pending[th]) - 1
       IN  /\ \A k \in 1 .. closed - 1 : pending[th][k] = {}
           /\ pending' = [pending EXCEPT ![th] = SubSeq(@, closed, closed + 1)]
    /\ Advance(th)
    /\ UNCHANGED << plannerVars, graph, program, smem, swapped >>

Swap(th) ==
    /\ At(th, "swap")
    /\ swapped' = [swapped EXCEPT ![th] = ~@]
    /\ Advance(th)
    /\ UNCHANGED << plannerVars, graph, program, smem, pending >>

\* A copy lands at any time after its issue, in any order.
Land(th) ==
    /\ \E k \in DOMAIN pending[th] : \E c \in pending[th][k] :
         /\ pending' = [pending EXCEPT ![th][k] = @ \ {c}]
         /\ smem' = [a \in DOMAIN smem |->
                       IF a \in c[1] .. c[1] + decls[c[2][1]].phy_size - 1
                       THEN [smem[a] EXCEPT ![th] = c[2]] ELSE smem[a]]
    /\ UNCHANGED << plannerVars, graph, program, pc, swapped >>

Step(th) == \/ Read(th) \/ Write(th) \/ Barrier(th) \/ CopyAsync(th)
            \/ Fence(th) \/ Wait(th) \/ Swap(th)

Done == Planned /\ \A th \in Thread : AtEnd(th)
Returned == Done /\ UNCHANGED vars
Next == \/ \E e \in events : Plan(e)
        \/ Launch
        \/ \E th \in Thread : Step(th) \/ Land(th)
        \/ Returned

Spec == Init /\ [][Next]_vars

-----------------------------------------------------------------------------
(* Properties.                                                             *)

\* A thread that is to read a tensor finds in all its slices what its producer
\* wrote in the iteration it reads from, written or landed by whichever thread
\* had to: no copy still under way, no storage given to another tensor
\* meanwhile, nobody an iteration ahead or behind.  A thread that accumulates
\* finds in its own slice the sum, or the running maximum, of all the
\* iterations before.
ReadsFresh ==
    \A th \in Thread :
      /\ At(th, "read") =>
           \A v \in Operands(th) : \A a \in Units(th, v[1], FALSE) : \A u \in Thread :
             smem[a][u] = v
      /\ At(th, "accumulate") =>
           \A v \in Operands(th) : \A a \in Units(th, v[1], FALSE) :
             smem[a][th] = << v[1], v[2] - 1 >>
=============================================================================
