---------------------------- MODULE FusedExperts ----------------------------
(***************************************************************************)
(* The routed experts of one layer as fused_moe_tp8.py computes them: two  *)
(* grouped matrix products whose programs find their tokens through a      *)
(* table sorted by expert (or, for few tokens, through the routing itself), *)
(* with the activation between them and a sum over a token's experts at    *)
(* the end.  The first and the third intermediate share one memory, which  *)
(* is handed over from chunk to chunk, and the output may be the input.    *)
(*                                                                         *)
(* A number is what it was computed from: a product is <<row, expert,      *)
(* weights, column>>, where weights counts the multiplications by the      *)
(* router's weight.  The loop over the inner dimension, scales, zero       *)
(* points, biases and the dequantisation change the number and not which   *)
(* operands it has: left out, as are int4, mxfp and LoRA.                  *)
(***************************************************************************)
EXTENDS Integers, Sequences, FiniteSets, SequencesExt

CONSTANTS
  MoeConfigs,
  CHUNK_SIZE,       \* VLLM_FUSED_MOE_CHUNK_SIZE
  FastTopK,         \* 8 in the code: the routes of a token the fast path takes
  SPARSITY_FACTOR   \* 4 in the code

(* path: which caller computes (fused_experts_impl, TritonExperts.apply, its    *)
(* gfx906 FP8 branch); ids: the experts of every token; experts: how many there *)
(* are in all; local: those of this rank, in its order (the expert map), all    *)
(* without a map; block: BLOCK_SIZE_M by the number of tokens; n, k: columns of  *)
(* the two products; onInput: apply_router_weight_on_input; fast: the switch of  *)
(* the fast path.                                                              *)
MoeConfig ==
  [path : {"impl", "experts", "fp8"}, ids : Seq(Seq(Nat)), experts : Nat \ {0},
   local : Seq(Nat), mapped : BOOLEAN, block : Seq(Nat \ {0}), BLOCK_SIZE_N : Nat \ {0},
   GROUP_SIZE_M : Nat \ {0}, n : Nat \ {0}, k : Nat \ {0}, inplace : BOOLEAN,
   onInput : BOOLEAN, fast : BOOLEAN]

ASSUME MoeAssumption ==
  /\ {CHUNK_SIZE, FastTopK, SPARSITY_FACTOR} \subseteq Nat \ {0}
  /\ MoeConfigs \subseteq MoeConfig
  /\ \A c \in MoeConfigs :
       /\ 0 < Len(c.ids) /\ Len(c.ids) <= Len(c.block) /\ c.n % 2 = 0
       /\ \A t \in DOMAIN c.ids :
            /\ 0 < Len(c.ids[1]) /\ Len(c.ids[t]) = Len(c.ids[1]) /\ IsInjective(c.ids[t])
            /\ ToSet(c.ids[t]) \subseteq 0..c.experts - 1
       /\ ~c.mapped => c.local = [e \in 1..c.experts |-> e - 1]

VARIABLES
  moe,      \* the configuration
  hidden,   \* hidden_states, a value for each token
  result,   \* the output: for each token and column the set of its terms
  cache13,  \* the memory of intermediate_cache1 and intermediate_cache3
  cache2,   \* intermediate_cache2, a value for each row
  table,    \* sorted_token_ids, expert_ids, num_tokens_post_padded
  chunk, pc

moeVars == <<moe, hidden, result, cache13, cache2, table, chunk, pc>>

cdiv(x, y) == (x + y - 1) \div y
Smaller(x, y) == IF x < y THEN x ELSE y
Garbage == <<"garbage">>
Zero == <<"zero">>
-----------------------------------------------------------------------------
num_tokens == Len(moe.ids)
top_k == Len(moe.ids[1])

(* fused_experts_impl works in chunks, TritonExperts takes its batch whole.    *)
chunk_size == IF moe.path = "impl" THEN CHUNK_SIZE ELSE num_tokens
begin_chunk_idx == chunk * chunk_size
tokens_in_chunk == Smaller((chunk + 1) * chunk_size, num_tokens) - begin_chunk_idx
BLOCK_SIZE_M == moe.block[tokens_in_chunk]

(* The rows of a chunk: route r is slot r % top_k of token r \div top_k.       *)
Routes == 0..tokens_in_chunk * top_k - 1
Routed(r) == moe.ids[begin_chunk_idx + r \div top_k + 1][(r % top_k) + 1]
LocalIndex(e) == IF \E i \in DOMAIN moe.local : moe.local[i] = e
                 THEN (CHOOSE i \in DOMAIN moe.local : moe.local[i] = e) - 1 ELSE -1

naive_block_assignment ==
  /\ moe.path # "fp8" /\ ~moe.mapped
  /\ tokens_in_chunk * top_k * SPARSITY_FACTOR <= moe.experts

(* The number of experts that the table is made for: the FP8 branch counts its *)
(* weights, which are those of this rank, also with an expert map.             *)
num_experts == IF moe.path = "fp8" THEN Len(moe.local) ELSE moe.experts

(* moe_align_block_size: the routes sorted by expert, each expert's in any      *)
(* order (its threads race for their places), filled up to whole blocks with    *)
(* the number of routes, which is no route's.  Experts of other ranks are left  *)
(* out if they are to be ignored and named -1 if not; routes beyond the number  *)
(* of experts are left out.                                                    *)
Aligned(ignore) ==
  LET numel == tokens_in_chunk * top_k
      size  == IF numel < num_experts THEN Smaller(numel + num_experts * (BLOCK_SIZE_M - 1),
                                                   numel * BLOCK_SIZE_M)
               ELSE numel + num_experts * (BLOCK_SIZE_M - 1)
      Of(e) == SetToSeq({r \in Routes : Routed(r) = e})
      blocks(e) == IF ignore /\ LocalIndex(e) = -1 THEN 0 ELSE cdiv(Len(Of(e)), BLOCK_SIZE_M)
      Filled(e) == [j \in 1..blocks(e) * BLOCK_SIZE_M |-> IF j <= Len(Of(e)) THEN Of(e)[j] ELSE numel]
      sorted == FlattenSeq([e \in 1..num_experts |-> Filled(e - 1)])
  IN  [sorted_token_ids |-> [j \in 1..size |-> IF j <= Len(sorted) THEN sorted[j] ELSE numel],
       expert_ids |-> FlattenSeq([e \in 1..num_experts |->
                                    [j \in 1..blocks(e - 1) |-> LocalIndex(e - 1)]]),
       num_tokens_post_padded |-> Len(sorted)]

(* Without sorting every route has a block of its own.  The bound is that of   *)
(* the whole batch, whatever the chunk.                                        *)
Unsorted ==
  [sorted_token_ids |-> <<>>, expert_ids |-> [j \in 1..tokens_in_chunk * top_k |-> Routed(j - 1)],
   num_tokens_post_padded |-> num_tokens * top_k * BLOCK_SIZE_M]
-----------------------------------------------------------------------------
(* invoke_fused_moe_triton_kernel: how far the grid goes for a first operand of *)
(* so many rows.                                                               *)
EM(rows, k) ==
  IF table.sorted_token_ids = <<>> THEN rows * k * BLOCK_SIZE_M
  ELSE IF rows < BLOCK_SIZE_M THEN Smaller(Len(table.sorted_token_ids), rows * k * BLOCK_SIZE_M)
       ELSE Len(table.sorted_token_ids)

(* The block of rows and of columns of a program: groups of GROUP_SIZE_M blocks *)
(* of rows, the last one smaller.                                              *)
Pid(pid, em, columns) ==
  LET num_pid_n == cdiv(columns, moe.BLOCK_SIZE_N)
      num_pid_in_group == moe.GROUP_SIZE_M * num_pid_n
      first_pid_m == (pid \div num_pid_in_group) * moe.GROUP_SIZE_M
      group_size_m == Smaller(cdiv(em, BLOCK_SIZE_M) - first_pid_m, moe.GROUP_SIZE_M)
  IN  [m |-> first_pid_m + ((pid % num_pid_in_group) % group_size_m),
       n |-> (pid % num_pid_in_group) \div group_size_m]

(* The rows a program works on.                                                *)
RowsOf(m, valid) ==
  IF table.sorted_token_ids = <<>> THEN {m} \cap 0..valid - 1
  ELSE {table.sorted_token_ids[m * BLOCK_SIZE_M + j] : j \in 1..BLOCK_SIZE_M} \cap 0..valid - 1

(* fused_moe_kernel: the cells the grid stores, <<row, expert, column>>.       *)
Products(rows, k, columns) ==
  LET em == EM(rows, k)
      grid == 0..cdiv(em, BLOCK_SIZE_M) * cdiv(columns, moe.BLOCK_SIZE_N) - 1
      programs == {p \in {Pid(pid, em, columns) : pid \in grid} :
                     p.m * BLOCK_SIZE_M < table.num_tokens_post_padded}
  IN  UNION {{<<r, table.expert_ids[p.m + 1], c>> :
                r \in RowsOf(p.m, rows * k),
                c \in {x \in p.n * moe.BLOCK_SIZE_N..(p.n + 1) * moe.BLOCK_SIZE_N - 1 : x < columns}} :
              p \in programs}

(* The memory after the products: an expert of another rank stores zeros.      *)
Multiplied(memory, cells, columns, operand, weights) ==
  [i \in DOMAIN memory |->
    LET mine == {x \in cells : x[1] * columns + x[3] = i}
        cell == CHOOSE x \in mine : TRUE
    IN  IF mine = {} THEN memory[i]
        ELSE IF cell[2] = -1 THEN Zero
        ELSE <<operand[cell[1]], moe.local[cell[2] + 1], weights, cell[3]>>]
-----------------------------------------------------------------------------
(* What a route's result should be: activation of its token's gate and up     *)
(* columns by its expert, times the expert, times the weight, once.            *)
Activated(x, e, w) == [c \in 0..moe.n \div 2 - 1 |-> <<<<x, e, w, c>>, <<x, e, w, c + moe.n \div 2>> >>]
AtFirst == IF moe.onInput /\ moe.path = "impl" THEN 1 ELSE 0
AtSecond == IF moe.onInput THEN 0 ELSE 1

(* One launch for a token's eight routes: which batches may take it.           *)
TakesFastPath ==
  /\ moe.path = "experts" /\ moe.fast
  /\ ~moe.onInput /\ ~moe.mapped /\ top_k = FastTopK /\ num_tokens <= 4

FastPath ==
  /\ pc = "chunk" /\ TakesFastPath
  /\ result' = [t \in 1..num_tokens |-> [c \in 0..moe.k - 1 |->
       {<<s - 1, <<Activated(hidden[t], moe.ids[t][s], 0), moe.ids[t][s], 1, c>> >> : s \in 1..top_k}]]
  /\ pc' = "done"
  /\ UNCHANGED <<moe, hidden, cache13, cache2, table, chunk>>

Align ==
  /\ pc = "chunk" /\ ~TakesFastPath
  /\ table' = IF naive_block_assignment THEN Unsorted ELSE Aligned(moe.path = "impl")
  /\ pc' = "w1"
  /\ UNCHANGED <<moe, hidden, result, cache13, cache2, chunk>>

MultiplyW1 ==
  /\ pc = "w1"
  /\ cache13' = Multiplied(cache13, Products(tokens_in_chunk, top_k, moe.n), moe.n,
                           [r \in Routes |-> hidden[begin_chunk_idx + r \div top_k + 1]], AtFirst)
  /\ pc' = "act"
  /\ UNCHANGED <<moe, hidden, result, cache2, table, chunk>>

Activate ==
  /\ pc = "act"
  /\ cache2' = [r \in DOMAIN cache2 |->
       IF r \in Routes THEN [c \in 0..moe.n \div 2 - 1 |->
                               <<cache13[r * moe.n + c], cache13[r * moe.n + c + moe.n \div 2]>>]
       ELSE cache2[r]]
  /\ pc' = "w2"
  /\ UNCHANGED <<moe, hidden, result, cache13, table, chunk>>

(* Mutant: the first intermediate shows through. *)
Uncleared == cache13

(* Only fused_experts_impl ignores other ranks' experts; it clears the third   *)
(* intermediate, which they will not write.                                    *)
Cleared ==
  [i \in DOMAIN cache13 |-> IF /\ moe.path = "impl" /\ moe.mapped
                              /\ i < tokens_in_chunk * top_k * moe.k THEN Zero ELSE cache13[i]]

MultiplyW2 ==
  /\ pc = "w2"
  /\ cache13' = Multiplied(Cleared, Products(tokens_in_chunk * top_k, 1, moe.k), moe.k,
                           cache2, AtSecond)
  /\ pc' = "sum"
  /\ UNCHANGED <<moe, hidden, result, cache2, table, chunk>>

(* moe_sum, into the input itself if the caller allows it; then the next chunk. *)
SumExperts ==
  /\ pc = "sum"
  /\ LET Sum(t, c) == {<<s, cache13[(t * top_k + s) * moe.k + c]>> : s \in 0..top_k - 1}
         mine == begin_chunk_idx + 1..begin_chunk_idx + tokens_in_chunk
     IN  /\ result' = [t \in DOMAIN result |-> IF t \notin mine THEN result[t]
                        ELSE [c \in 0..moe.k - 1 |-> Sum(t - begin_chunk_idx - 1, c)]]
         /\ hidden' = [t \in DOMAIN hidden |-> IF moe.inplace /\ t \in mine THEN Garbage
                                                                           ELSE hidden[t]]
  /\ chunk' = chunk + 1
  /\ pc' = IF chunk' <= num_tokens \div chunk_size /\ chunk' * chunk_size < num_tokens
           THEN "chunk" ELSE "done"
  /\ UNCHANGED <<moe, cache13, cache2, table>>

MoeInit ==
  /\ moe \in MoeConfigs
  /\ hidden = [t \in 1..num_tokens |-> <<"hidden", t>>]
  /\ result = [t \in 1..num_tokens |-> [c \in 0..moe.k - 1 |-> {Garbage}]]
  /\ LET M == Smaller(num_tokens, chunk_size)
     IN  /\ cache13 = [i \in 0..M * top_k * (IF moe.n > moe.k THEN moe.n ELSE moe.k) - 1 |-> Garbage]
         /\ cache2 = [r \in 0..M * top_k - 1 |-> Garbage]
  /\ table = [sorted_token_ids |-> <<>>, expert_ids |-> <<>>, num_tokens_post_padded |-> 0]
  /\ chunk = 0 /\ pc = "chunk"

Finished == pc = "done" /\ UNCHANGED moeVars

MoeNext == FastPath \/ Align \/ MultiplyW1 \/ Activate \/ MultiplyW2 \/ SumExperts \/ Finished

(* Every route is to an expert that the table is made for.  All are but in the *)
(* FP8 branch with an expert map, which supports_expert_map() admits.          *)
RoutesCounted == \A t \in 1..num_tokens : \A s \in 1..top_k : moe.ids[t][s] < num_experts

(* Whatever the blocks, groups, chunks and the sharing of the memory, with the *)
(* experts on one rank or spread by an expert map: if the table counts them, a *)
(* token's output is the sum over its own experts of this rank, each once and  *)
(* with its weight once, and zero for those of other ranks (fused_moe_kernel,  *)
(* fused_experts_impl, TritonExperts.apply, the fast path).                    *)
ExpertsAreExact ==
  pc = "done" /\ RoutesCounted =>
    LET owed == IF moe.onInput /\ moe.path # "impl" THEN 0 ELSE 1   \* prepare() has multiplied
        early == IF moe.onInput THEN owed ELSE 0
    IN  \A t \in 1..num_tokens, c \in 0..moe.k - 1 :
          result[t][c] = {<<s - 1, LET e == moe.ids[t][s]
                                  IN  IF LocalIndex(e) = -1 THEN Zero
                                      ELSE <<Activated(<<"hidden", t>>, e, early), e, owed - early, c>> >> :
                            s \in 1..top_k}
=============================================================================
