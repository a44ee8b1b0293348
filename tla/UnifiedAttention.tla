-------------------------- MODULE UnifiedAttention --------------------------
(***************************************************************************)
(* Attention over the paged KV cache, as triton_attn.py drives it and      *)
(* triton_unified_attention.py computes it.  A layer writes the keys of    *)
(* the new tokens into the cache; then either one grid of programs (2D)    *)
(* writes the output, or a grid over segments of the keys (3D) writes      *)
(* partial sums into buffers that all launches share, and a second grid    *)
(* adds them up.  Which of the two runs, and on how many tokens and        *)
(* sequences, is frozen in a captured graph; the batch itself is not.      *)
(*                                                                         *)
(* The softmax is left out: a sum is the set of its terms, each with the   *)
(* segment and KV head it was computed for, the position it was loaded     *)
(* for and what the cache held there.  No program reads what its own grid  *)
(* writes, so a grid is one step; where two programs write one place       *)
(* either may be the last.  ALiBi, sinks, soft caps, biases, multimodal    *)
(* ranges and fp8 change the terms, not which keys enter: left out, as is  *)
(* the choice of the prefill tile size from the shared memory.             *)
(***************************************************************************)
EXTENDS Integers, Sequences, FiniteSets, FiniteSetsExt

CONSTANTS
  AttnConfigs,
  MaxSeqs, MaxTokens,         \* max_num_seqs, max_num_batched_tokens
  Contexts,                   \* bound: tokens of a new request that a step finds in the cache
  MaxLen, MaxSteps,           \* bounds: the length of a request, the steps
  BlockSize,                  \* tokens in a block of the KV cache
  MinBlockM,                  \* 16 in the code
  MIN_LAUNCH_GRID_SIZE_2D, NUM_PAR_SOFTMAX_SEGMENTS

(* hq, hkv: query and KV heads of the rank; window: SLIDING_WINDOW, 0 without; *)
(* tile, decode: TILE_SIZE of the 2D and of the 3D kernel; graphs: which       *)
(* batches run from a full graph (none, uniform decodes, all); sizes: the      *)
(* capture sizes; q: uniform_decode_query_len.                                 *)
AttnConfig == [hq : Nat \ {0}, hkv : Nat \ {0}, window : Nat, tile : Nat \ {0},
               decode : Nat \ {0}, graphs : {"none", "decode", "all"},
               sizes : SUBSET (Nat \ {0}), q : Nat \ {0}]

ASSUME AttnAssumption ==
  /\ AttnConfigs \subseteq AttnConfig /\ Contexts \subseteq Nat
  /\ \A c \in AttnConfigs :
       c.hq % c.hkv = 0 /\ IsFiniteSet(c.sizes) /\ (c.graphs # "none" => c.sizes # {})
  /\ {MaxSeqs, MaxTokens, MaxLen, BlockSize, MinBlockM, MIN_LAUNCH_GRID_SIZE_2D,
      NUM_PAR_SOFTMAX_SEGMENTS} \subseteq Nat \ {0}

VARIABLES
  att,     \* the configuration
  rows,    \* the batch: rows[i] = [id, ctx, q], context and new tokens of a request
  cache,   \* cache[<<block, kv head, offset>>]: whose key, of which position
  segm,    \* softmax_segm_output, _max, _expsum: <<token, head, segment>> to a sum
  out,     \* the output: <<token, head, 0>> to a sum
  launch,  \* what the kernels are launched with: tokens, sequences, longest query
  at,      \* where the layer is
  turn     \* steps so far

attnVars == <<att, rows, cache, segm, out, launch, at, turn>>

cdiv_fn(x, y) == (x + y - 1) \div y
Least(x, y) == IF x < y THEN x ELSE y
Most(x, y) == IF x < y THEN y ELSE x
-----------------------------------------------------------------------------
(* The shape of a program: BLOCK_M lanes, one for each query and head.         *)
num_queries_per_kv == att.hq \div att.hkv
next_power_of_2(n) ==
  LET doubled[i \in 0..n] == IF i = 0 THEN 1
                             ELSE IF doubled[i - 1] >= n THEN doubled[i - 1] ELSE 2 * doubled[i - 1]
  IN  doubled[n]
BLOCK_M == IF num_queries_per_kv <= MinBlockM THEN MinBlockM
                                              ELSE next_power_of_2(num_queries_per_kv)
BLOCK_Q == BLOCK_M \div num_queries_per_kv

(* The builder allocates a row of segments for each sequence of the largest    *)
(* batch that takes the 3D kernel: the capture size nearest to the threshold.  *)
seq_threshold_3D ==
  LET t == MIN_LAUNCH_GRID_SIZE_2D \div att.hkv
      apart(s) == Most(s, t) - Least(s, t)
  IN  IF att.graphs = "none" THEN t
      ELSE CHOOSE s \in att.sizes :
             \A x \in att.sizes : apart(s) < apart(x) \/ (apart(s) = apart(x) /\ s <= x)

Stale == <<0, 0, 0, <<"stale">>>>
Heads == 0..att.hq - 1
Segments == 0..NUM_PAR_SOFTMAX_SEGMENTS - 1
OutCells == (0..Max({MaxTokens} \cup att.sizes) - 1) \X Heads \X {0}
SegmentCells == (0..seq_threshold_3D - 1) \X Heads \X Segments

(* The metadata of row i, counted from 0.  The rows that pad a full graph have *)
(* no tokens and length 0.                                                     *)
query_start_loc(i) == MapThenSumSet(LAMBDA j : rows[j].q, 1..Least(i, Len(rows)))
query_len(i) == query_start_loc(i + 1) - query_start_loc(i)
seq_lens(i) == IF i < Len(rows) THEN rows[i + 1].ctx + rows[i + 1].q ELSE 0

(* Where the key of a position is; a row owns the blocks of its block table.   *)
Blocks == cdiv_fn(MaxLen, BlockSize)
Slot(i, kv, pos) == <<i * Blocks + pos \div BlockSize, kv, pos % BlockSize>>
Slots == (0..MaxSeqs * Blocks - 1) \X (0..att.hkv - 1) \X (0..BlockSize - 1)

(* The binary search for the row of a block of queries, or of a token.         *)
find_seq_idx(target, byBlock) ==
  LET Value(mid) == IF byBlock THEN query_start_loc(mid) \div BLOCK_Q + mid
                               ELSE query_start_loc(mid)
      Bound == 0..launch.seqs
      search[b \in Bound \X Bound] ==
        LET l   == b[1]
            r   == b[2]
            mid == (l + r) \div 2
        IN  IF l >= r THEN l - 1
            ELSE IF Value(mid) <= target THEN search[<<mid + 1, r>>] ELSE search[<<l, mid>>]
  IN  search[<<0, launch.seqs>>]
-----------------------------------------------------------------------------
(* A program of a grid: the block of queries it has, of which row, its KV head  *)
(* and its segment (0 in the 2D grid).  One without queries returns at once.    *)
KernelProgram(block, kv_head_idx, segm_idx) ==
  LET i == find_seq_idx(block, TRUE)
  IN  [block |-> block, kv |-> kv_head_idx, segm |-> segm_idx, row |-> i,
       start |-> query_start_loc(i), qlen |-> query_len(i), len |-> seq_lens(i),
       ctx |-> seq_lens(i) - query_len(i),
       first |-> (block - (query_start_loc(i) \div BLOCK_Q + i)) * BLOCK_Q]

Grid(segments) ==
  {p \in {KernelProgram(b, kv, s) : b \in 0..launch.tokens \div BLOCK_Q + launch.seqs - 1,
                              kv \in 0..att.hkv - 1, s \in segments} : p.first < p.qlen}

(* Mutant: the prefix covers the queries of the block only. *)
PrefixOfTheBlock(p) == Least(p.ctx + p.first + BLOCK_Q, p.len)

(* Spare lanes compute a query of the next block, too: the prefix covers them. *)
max_seq_prefix_len(p) ==
  Least(p.ctx + p.first + (BLOCK_M - 1) \div num_queries_per_kv + 1, p.len)

Tiles(p, size) ==
  LET num_tiles == cdiv_fn(max_seq_prefix_len(p), size)
      qpos_hi   == Least(p.first + (BLOCK_M - 1) \div num_queries_per_kv, p.qlen - 1)
      first_allowed_key == p.ctx + p.first - att.window + 1
      last_allowed_key  == p.ctx + qpos_hi
  IN  IF att.window = 0 THEN 0..num_tiles - 1
      ELSE Most(0, first_allowed_key \div size)..
             Least(last_allowed_key \div size + 1, num_tiles) - 1

tiles_per_segment(len) == cdiv_fn(len, NUM_PAR_SOFTMAX_SEGMENTS * att.decode)

SegmentTiles(p) ==
  LET n == tiles_per_segment(p.len)
  IN  Tiles(p, att.decode) \cap (p.segm * n..(p.segm + 1) * n - 1)

(* Query and head of lane m; masked lanes store nothing.                       *)
QueryPos(p, m) == p.first + m \div num_queries_per_kv
QueryHead(p, m) == p.kv * num_queries_per_kv + (m % num_queries_per_kv)
Lanes(p) == {m \in 0..BLOCK_M - 1 : QueryPos(p, m) < p.qlen /\ QueryHead(p, m) < att.hq}

(* The keys lane m adds up: those of the tiles that pass its mask.  A key past *)
(* the prefix is not loaded: zero is in its place.                             *)
LaneSum(p, m, tiles, size) ==
  LET query_abs_pos == p.ctx + QueryPos(p, m)
      prefix == max_seq_prefix_len(p)
      Passes(pos) == /\ pos <= query_abs_pos
                     /\ att.window > 0 => query_abs_pos - pos < att.window
  IN  {<<p.segm, p.kv, pos, IF pos < prefix THEN cache[Slot(p.row, p.kv, pos)] ELSE <<>> >> :
         pos \in {x \in UNION {j * size..(j + 1) * size - 1 : j \in tiles} : Passes(x)}}

(* What a program stores: for each lane its cell, the sum and who stores it.   *)
Sums(p, tiles, size) ==
  {[cell |-> <<p.start + QueryPos(p, m), QueryHead(p, m), p.segm>>, by |-> p.block,
    sum |-> LaneSum(p, m, tiles, size)] : m \in Lanes(p)}

(* Where two programs store one sum either is the last.                       *)
After(writes, old, late) ==
  [cell \in DOMAIN old |->
    LET mine == {w \in writes : w.cell = cell}
    IN  IF mine = {} THEN old[cell]
        ELSE (CHOOSE w \in mine :
                \A x \in mine : IF late THEN x.by <= w.by ELSE w.by <= x.by).sum]

(* The segments of its query that reduce_segments adds up.  A padding row has  *)
(* no tiles: the number of its segments is divided by zero.                    *)
ActiveSegments(token, garbage) ==
  LET len == seq_lens(find_seq_idx(token, FALSE))
      n   == tiles_per_segment(len) * att.decode
      act_num_segments == IF n = 0 THEN garbage ELSE cdiv_fn(len, n)
  IN  {s \in Segments : s < act_num_segments}
-----------------------------------------------------------------------------
(* A batch runs from the smallest full graph that may take it; what the        *)
(* kernels are launched with is then that of the capture, else the batch's own. *)
Launched ==
  LET tokens  == query_start_loc(Len(rows))
      longest == Max({rows[i].q : i \in DOMAIN rows})
      uniform == longest = att.q /\ tokens = longest * Len(rows)
      graphs  == {n \in att.sizes :
                    /\ n >= tokens
                    /\ att.graphs = "all" \/ (att.graphs = "decode" /\ uniform
                                               /\ n % att.q = 0 /\ n <= MaxSeqs * att.q)}
      size    == Min(graphs)
  IN  IF graphs = {} THEN [tokens |-> tokens, seqs |-> Len(rows), max_query_len |-> longest]
      ELSE IF att.graphs = "all"
           THEN [tokens |-> size, seqs |-> Least(size, MaxSeqs), max_query_len |-> size]
           ELSE [tokens |-> size, seqs |-> size \div att.q, max_query_len |-> att.q]

Use2D == launch.max_query_len > 1 \/ launch.seqs > seq_threshold_3D

(* The cache once the keys of row i at positions from[i] up to to[i] are in     *)
(* their slots.                                                                *)
Written(old, from, to) ==
  [s \in DOMAIN old |->
    LET new == {w \in (DOMAIN rows) \X (0..MaxLen - 1) :
                  from[w[1]] <= w[2] /\ w[2] < to[w[1]] /\ s = Slot(w[1] - 1, s[2], w[2])}
    IN  IF new = {} THEN old[s] ELSE CHOOSE key \in {<<rows[w[1]].id, w[2]>> : w \in new} : TRUE]

(* The tokens a step may give its rows.                                        *)
Queries(n) == {q \in [n -> 1..MaxTokens] : MapThenSumSet(LAMBDA i : q[i], n) <= MaxTokens}

(* do_kv_cache_update: the keys of the new tokens go to their slots.           *)
UpdateCache ==
  /\ at = "cache"
  /\ cache' = Written(cache, [i \in DOMAIN rows |-> rows[i].ctx],
                              [i \in DOMAIN rows |-> rows[i].ctx + rows[i].q])
  /\ launch' = Launched
  /\ at' = "attend"
  /\ UNCHANGED <<att, rows, segm, out, turn>>

Launch2D ==
  /\ at = "attend" /\ Use2D
  /\ \E late \in BOOLEAN :
       out' = After(UNION {Sums(p, Tiles(p, att.tile), att.tile) : p \in Grid({0})}, out, late)
  /\ at' = "done"
  /\ UNCHANGED <<att, rows, cache, segm, launch, turn>>

(* A program whose segment starts past the sequence returns.                   *)
Launch3D ==
  /\ at = "attend" /\ ~Use2D
  /\ \E late \in BOOLEAN :
       segm' = After(UNION {Sums(p, SegmentTiles(p), att.decode) :
                        p \in {x \in Grid(Segments) :
                                 x.segm * tiles_per_segment(x.len) * att.decode < x.len}},
                     segm, late)
  /\ at' = "reduce"
  /\ UNCHANGED <<att, rows, cache, out, launch, turn>>

(* A row of segments past the buffer holds whatever lies there.                *)
Reduce ==
  /\ at = "reduce"
  /\ \E garbage \in {0, NUM_PAR_SOFTMAX_SEGMENTS} :
       out' = [c \in DOMAIN out |->
         IF c[1] >= launch.tokens THEN out[c]
         ELSE UNION {IF <<c[1], c[2], s>> \in DOMAIN segm THEN segm[<<c[1], c[2], s>>]
                                                          ELSE {Stale} :
                       s \in ActiveSegments(c[1], garbage)}]
  /\ at' = "done"
  /\ UNCHANGED <<att, rows, cache, segm, launch, turn>>

(* The next step: every request goes on, or another one takes its row and its  *)
(* blocks.  The layer is given a new output.                                   *)
NextStep ==
  /\ at = "done" /\ turn < MaxSteps
  /\ \E fresh \in SUBSET DOMAIN rows, q \in Queries(DOMAIN rows) :
       /\ rows' = [i \in DOMAIN rows |->
            IF i \in fresh THEN [id |-> (turn + 1) * MaxSeqs + i, ctx |-> 0, q |-> q[i]]
            ELSE [id |-> rows[i].id, ctx |-> rows[i].ctx + rows[i].q, q |-> q[i]]]
       /\ \A i \in DOMAIN rows : rows'[i].ctx + q[i] <= MaxLen
  /\ out' = [c \in DOMAIN out |-> {Stale}]
  /\ at' = "cache" /\ turn' = turn + 1
  /\ UNCHANGED <<att, cache, segm, launch>>

AttnInit ==
  /\ att \in AttnConfigs
  /\ \E n \in 1..MaxSeqs : \E q \in Queries(1..n), ctx \in [1..n -> Contexts] :
       /\ \A i \in 1..n : ctx[i] + q[i] <= MaxLen
       /\ rows = [i \in 1..n |-> [id |-> i, ctx |-> ctx[i], q |-> q[i]]]
  /\ cache = Written([s \in Slots |-> <<"stale">>], [i \in DOMAIN rows |-> 0],
                     [i \in DOMAIN rows |-> rows[i].ctx])
  /\ segm = [c \in SegmentCells |-> {Stale}]
  /\ out = [c \in OutCells |-> {Stale}]
  /\ launch = [tokens |-> 0, seqs |-> 0, max_query_len |-> 0]
  /\ at = "cache" /\ turn = 0

Ended == at = "done" /\ turn = MaxSteps /\ UNCHANGED attnVars

AttnNext == UpdateCache \/ Launch2D \/ Launch3D \/ Reduce \/ NextStep \/ Ended
-----------------------------------------------------------------------------
(* The keys a query at position pos of request id may look at: its own, up to  *)
(* itself, within the window.                                                  *)
KeysOf(id, pos) ==
  {<<p, <<id, p>>>> : p \in (IF att.window = 0 THEN 0 ELSE Most(0, pos - att.window + 1))..pos}

(* Whatever the lengths in the batch, the kernel that was launched, the graph  *)
(* it was captured in and what earlier steps left in the buffers: the output of *)
(* every token and head is the sum over that token's keys, each once, read from *)
(* its own request's blocks and its head's KV head (kernel_unified_attention_2d, *)
(* kernel_unified_attention_3d, reduce_segments).                              *)
TokensSeeTheirKeys ==
  at = "done" =>
    \A i \in DOMAIN rows, h \in Heads : \A t \in 0..rows[i].q - 1 :
      LET sum == out[<<query_start_loc(i - 1) + t, h, 0>>]
      IN  /\ {<<x[3], x[4]>> : x \in sum} = KeysOf(rows[i].id, rows[i].ctx + t)
          /\ Cardinality(sum) = Cardinality(KeysOf(rows[i].id, rows[i].ctx + t))
          /\ \A x \in sum : x[2] = h \div num_queries_per_kv
=============================================================================
