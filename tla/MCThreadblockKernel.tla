------------------------- MODULE MCThreadblockKernel -------------------------
(***************************************************************************)
(* Threadblock graphs of the repository for ThreadblockKernel, with small  *)
(* tensors and three iterations of the loop.                               *)
(***************************************************************************)
EXTENDS ThreadblockKernel

Make(type, in, size, looped, chunked, numel) ==
    [type |-> type, in |-> in, size |-> size, looped |-> looped,
     chunked |-> chunked, numel |-> numel]
Input(looped, chunked) == Make("INPUT", << >>, << 1 >>, looped, chunked, 0)
Tile == Input(TRUE, TRUE)
Compute(type, in, size) == Make(type, in, << size >>, FALSE, FALSE, 0)
\* An accumulator that fits in registers, and one that does not.
Accum(type, in, size) == Make(type, in, << size >>, FALSE, FALSE, 1)
BigAccum(type, in, size) == Make(type, in, << size >>, FALSE, FALSE, 200)
Output(t) == Make("OUTPUT", << t >>, << >>, FALSE, FALSE, 0)
Of(i) == << i, 1 >>
KernelOf(range, ops) == Lower([ops |-> ops, range |-> range])
Kernel(ops) == KernelOf(3, ops)

\* gated_mlp.py: two matmuls accumulated, one in registers and one in memory.
GatedMlp == Kernel(<<
    Tile, Tile, Tile,
    Compute("MATMUL", << Of(1), Of(2) >>, 1), Compute("MATMUL", << Of(1), Of(3) >>, 1),
    Accum("ACCUM", << Of(4) >>, 1), BigAccum("ACCUM", << Of(5) >>, 1),
    Compute("UNARY", << Of(6) >>, 1), Compute("BINARY", << Of(8), Of(7) >>, 1),
    Output(Of(9)) >>)

\* The first kernel of group_query_attention.py: Q is read before the loop, and
\* the exponentials are both multiplied by V and summed.
Attention == Kernel(<<
    Input(FALSE, TRUE), Tile, Tile,
    Compute("MATMUL", << Of(1), Of(2) >>, 1), Compute("UNARY", << Of(4) >>, 2),
    Compute("MATMUL", << Of(5), Of(3) >>, 1),
    Accum("ACCUM", << Of(6) >>, 1), Accum("ACCUM_SUM", << Of(5) >>, 1),
    Output(Of(7)), Output(Of(8)) >>)

\* Its second kernel, which has no loop: the parts of the keys are put together.
CombineParts == KernelOf(1, <<
    Input(FALSE, TRUE), Input(FALSE, TRUE),
    Accum("ACCUM_TO_DIMX", << Of(1) >>, 1), Accum("ACCUM_SUM", << Of(2) >>, 1),
    Compute("BINARY", << Of(3), Of(4) >>, 1), Output(Of(5)) >>)

\* The first kernel of group_query_attention_customized.py: an online softmax.
OnlineAttention == Kernel(<<
    Input(FALSE, TRUE), Tile, Tile,
    Compute("MATMUL", << Of(1), Of(2) >>, 1),
    Make("REDUCTION_MAX", << Of(4) >>, << 1, 1 >>, FALSE, FALSE, 0),
    Compute("BINARY", << Of(4), Of(5) >>, 1), Compute("UNARY", << Of(6) >>, 1),
    Compute("UNARY", << << 5, 2 >> >>, 1),
    Compute("MATMUL", << Of(7), Of(3) >>, 1),
    BigAccum("ACCUM_RESCALE", << Of(9), Of(8) >>, 1),
    BigAccum("ACCUM_RESCALE_SUM", << Of(7), Of(8) >>, 1),
    BigAccum("ACCUM_MAX", << Of(5) >>, 1),
    Output(Of(10)), Output(Of(11)), Output(Of(12)) >>)

\* The test tb_input_output: tiles are added up.
InputOutput == Kernel(<<
    Tile, BigAccum("ACCUM", << Of(1) >>, 1), Output(Of(2)) >>)

\* rms_norm.py: the mean square of X is accumulated besides the product.
RmsNorm == Kernel(<<
    Tile, Tile,
    Compute("MATMUL", << Of(1), Of(2) >>, 1), Accum("ACCUM_RMS", << Of(1) >>, 1),
    Accum("ACCUM", << Of(3) >>, 1),
    Compute("BINARY", << Of(5), Of(4) >>, 1), Output(Of(6)) >>)

SafeKernels == << GatedMlp, Attention, OnlineAttention, CombineParts >>
RacingKernels == << InputOutput, RmsNorm >>
AllDecls == {TensorDecls(Graphs[n]) : n \in DOMAIN Graphs}
=============================================================================
