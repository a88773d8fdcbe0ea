------------------------------ MODULE MCTaskGraph ------------------------------
(***************************************************************************)
(* The graphs of up to three operators for TaskGraph: every way to cut the *)
(* tensors, grids whose sizes divide each other and grids whose do not.    *)
(***************************************************************************)
EXTENDS TaskGraph

Grids == {<<4, 1, 1>>, <<2, 2, 1>>, <<3, 1, 1>>}

\* The ways to map a grid; a dimension of size 1 is not mapped.
MapsOf(grid) ==
    {map \in [GridDim -> TensorDim \cup {NotMapped}] :
       /\ \A g \in GridDim : grid[g] = 1 => map[g] = NotMapped
       /\ \A g, h \in GridDim : map[g] = map[h] => g = h \/ map[g] = NotMapped}

Acc(k, i, map) == [tensor |-> <<k, i>>, map |-> map]
Op(grid, inputs, outputs) == [grid |-> grid, inputs |-> inputs, outputs |-> outputs]

\* Operators that read one tensor of the operator before and write one.
Firsts == UNION { {Op(g, << >>, << Acc(1, 1, m) >>) : m \in MapsOf(g)} :
                   g \in Grids \ {<<3, 1, 1>>} }
Middles == UNION { {Op(g, << Acc(1, 1, n) >>, << Acc(2, 1, m) >>) :
                      n \in MapsOf(g), m \in MapsOf(g)} : g \in Grids }
Lasts == UNION { {Op(g, << Acc(2, 1, n) >>, << >>) : n \in MapsOf(g)} : g \in Grids }

\* The last operator also reads what the first has written (a residual).
WithResidual == {Op(<<4, 1, 1>>, << Acc(1, 1, r), Acc(2, 1, n) >>, << >>) :
                   r \in MapsOf(<<4, 1, 1>>), n \in MapsOf(<<4, 1, 1>>)}

Chains == {<< a, b, c >> : a \in Firsts, b \in Middles, c \in Lasts \cup WithResidual}

\* Two operators that share two tensors (the partial results of argmax).
Pairs ==
    UNION { {<< Op(g, << >>, << Acc(1, 1, m1), Acc(1, 2, m2) >>),
                Op(h, << Acc(1, 1, n1), Acc(1, 2, n2) >>, << >>) >> :
               m1 \in MapsOf(g), m2 \in MapsOf(g), n1 \in MapsOf(h), n2 \in MapsOf(h)} :
            g \in {<<4, 1, 1>>, <<2, 1, 1>>}, h \in {<<2, 1, 1>>, <<2, 2, 1>>} }

SmallGraphs == Chains \cup Pairs
================================================================================
