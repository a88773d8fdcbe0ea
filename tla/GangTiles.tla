------------------------------ MODULE GangTiles ------------------------------
(***************************************************************************)
(* What the workers of a gang compute: execute_worker hands every gang     *)
(* kernel of the MI300 a number, tile_idx = n_tile_start + t for t in      *)
(* 0 .. n_tile_count - 1, and the kernel decodes it, on each worker by     *)
(* itself, into the part of the output that is its own.  A tile is written *)
(* as a pair or triple of indices; a decoding is the set of the tiles that *)
(* are computed, empty when the kernel returns early.                      *)
(***************************************************************************)
EXTENDS Integers

\* Mutant: the last window is as high as the others.
MutFullWindow(left, W) == W

\* The height of the window that begins `left' rows before the last.
WindowHeight(left, W) == IF left > W THEN W ELSE left

\* The windowed traversal of fast x slow tiles (HipKittens Algorithm 1): within
\* a window of W rows the fast index is swept first.
Windowed(fast, slow, wg, tile_idx) ==
    LET W == IF wg > 0 /\ wg < fast THEN wg ELSE fast
        first == (tile_idx \div (W * slow)) * W
        height == WindowHeight(fast - first, W)
        local == tile_idx % (W * slow)
    IN  IF local < height * slow
        THEN {<< first + (local % height), local \div height >>} ELSE {}

\* gang_linear_kernel and its residual form: M is the fast index; the XCD's
\* columns of the output are the bid_x-th part of it.
MTiling(m_tiles, n_tiles, wgm, bid_x, tile_idx) ==
    {<< c[1], bid_x * n_tiles + c[2] >> : c \in Windowed(m_tiles, n_tiles, wgm, tile_idx)}

\* gang_linear_n_tiling_kernel and its residual form: N is the fast index.
NTiling(m_tiles, n_tiles, wgn, bid_x, tile_idx) ==
    {<< c[2], bid_x * n_tiles + c[1] >> : c \in Windowed(n_tiles, m_tiles, wgn, tile_idx)}

\* gang_linear_silu_kernel: the weight's tiles are interleaved, two of the gate
\* and two of the up projection in turn; output tile o reads one of each.
GateTile(o) == (o \div 2) * 4 + (o % 2)
UpTile(o) == (o \div 2) * 4 + 2 + (o % 2)
SiluWeights(m_tiles, n_tiles, wgm, bid_x, tile_idx) ==
    UNION {{<< c[1], 2 * bid_x * n_tiles + GateTile(c[2]) >>,
            << c[1], 2 * bid_x * n_tiles + UpTile(c[2]) >>} :
             c \in Windowed(m_tiles, n_tiles, wgm, tile_idx)}

\* gang_linear_msplit_kernel: the XCDs split the rows, then the columns.
MSplit(n_groups, n_tiles_per_xcd, bid_x, tile_idx) ==
    IF tile_idx < n_tiles_per_xcd
    THEN {<< bid_x \div n_groups, (bid_x % n_groups) * n_tiles_per_xcd + tile_idx >>}
    ELSE {}

\* gang_splitk_linear_res_kernel: a part of the sum for a tile of columns.
SplitKPart(n_tiles, k_splits, bid_x, tile_idx) ==
    IF (tile_idx \div k_splits) < n_tiles
    THEN {<< bid_x * n_tiles + (tile_idx \div k_splits), tile_idx % k_splits >>}
    ELSE {}

\* gang_attention_split_kv_kernel: request, head and chunk of the keys (the
\* merge kernel: a single chunk).  Its n_tile_start is not 0, so that the XCDs
\* share the items; the last ones may have fewer.
AttentionStart(bid_x, tiles_per_xcd) == bid_x * tiles_per_xcd
ItemsPerXcd(total_work_items, num_xcds) == (total_work_items + num_xcds - 1) \div num_xcds
AttentionItem(total_work_items, num_kv_heads, num_kv_chunks, tile_idx) ==
    IF tile_idx < total_work_items
    THEN {<< tile_idx \div (num_kv_chunks * num_kv_heads),
             (tile_idx \div num_kv_chunks) % num_kv_heads,
             tile_idx % num_kv_chunks >>}
    ELSE {}

\* gang_moe_w13_linear_kernel and gang_moe_w2_linear_kernel: the activated
\* experts are dealt out to the XCDs in turn, by the XCD's hardware number; a
\* tile of an expert is one of its rows (16 tokens of w13, a token of w2) and
\* columns.
ExpertTile(num_activated, n_tiles, rows, tiles_per_expert, num_xcds, xcd_id, tile_idx) ==
    LET ae_idx == xcd_id + (tile_idx \div tiles_per_expert) * num_xcds
        within == tile_idx % tiles_per_expert
    IN  IF ae_idx < num_activated /\ (within \div n_tiles) < rows
        THEN {<< ae_idx, within \div n_tiles, within % n_tiles >>} ELSE {}
=============================================================================
