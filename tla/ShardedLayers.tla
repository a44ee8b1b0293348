---------------------------- MODULE ShardedLayers ----------------------------
(***************************************************************************)
(* How the layers of a model are cut over the tensor-parallel ranks and    *)
(* put together again: linear.py builds column- and row-parallel layers    *)
(* and loads their shards in whatever order the file has them; qwen3_5.py  *)
(* turns the head order of a GGUF file into the one the layers expect, and *)
(* hands replicated key and value heads out; the interleaved MLP has a     *)
(* loader of its own; and qwen3_next_tp4x2_in_tp8.py builds and reduces    *)
(* the experts in two groups of four ranks inside a group of eight, by     *)
(* replacing the functions linear.py asks for its rank.                    *)
(*                                                                         *)
(* A weight is a sequence of heads (or of columns of an MLP), each named   *)
(* by where it comes from.  What a rank computes is a sum of terms, each    *)
(* named by the heads that met in it.  The ranks run one program.          *)
(***************************************************************************)
EXTENDS Integers, Sequences, FiniteSets, SequencesExt, FiniteSetsExt

CONSTANTS
  Configs,
  GgufHeads, GgufGroup   \* n_heads and group of the conversions (48 and 3)

(* tp: world size; heads, kv: of the attention; keys, values: heads of the     *)
(* gated delta net; inter: columns of the MLP and of each expert; gguf: the    *)
(* file has the tiled order of llama.cpp, and both conversion switches are     *)
(* set; quant: its matrices are quantised; moe: a mixture of experts, shared:  *)
(* with a shared expert; four, fourShared, fuse: the TP4X2 switches;           *)
(* interleave: the interleaved MLP.                                           *)
Config == [tp : Nat \ {0}, heads : Nat \ {0}, kv : Nat \ {0}, keys : Nat \ {0},
           values : Nat \ {0}, inter : Nat \ {0}, gguf : BOOLEAN, quant : BOOLEAN,
           moe : BOOLEAN, shared : BOOLEAN, four : BOOLEAN, fourShared : BOOLEAN,
           fuse : BOOLEAN, interleave : BOOLEAN]

(* The assertions of the constructors, and where the loaders are used: a       *)
(* quantised MLP is not interleaved, nor are experts.  Heads have one length,   *)
(* and a tensor as long as the conversions' own q, k and v (10240 rows) has as  *)
(* many value heads as theirs.                                                *)
ASSUME ShardAssumption ==
  /\ Configs \subseteq Config
  /\ GgufHeads \in Nat \ {0} /\ GgufGroup \in Nat \ {0} /\ GgufHeads % GgufGroup = 0
  /\ \A c \in Configs :
       /\ {c.heads % c.tp, c.keys % c.tp, c.values % c.keys, c.inter % c.tp, c.heads % c.kv} = {0}
       /\ c.kv % c.tp = 0 \/ c.tp % c.kv = 0
       /\ c.quant => ~ c.moe
       /\ 2 * c.keys + c.values = 2 * (GgufHeads \div GgufGroup) + GgufHeads => c.values = GgufHeads
       /\ c.interleave => ~ c.quant /\ ~ c.moe

VARIABLES
  conf,
  statement, \* the next statement of Program, by every rank
  patched,   \* linear_layers' getters are replaced
  tp,        \* tp[m]: tp_size and tp_rank of a layer, rank by rank; its loads ...
  coming,    \* tensors of the file still to come
  param      \* param[m][r]: the weight; with quant, the shards as they came

shardVars == <<conf, statement, patched, tp, coming, param>>

World == 0..conf.tp - 1
Whole == [r \in World |-> [size |-> conf.tp, rank |-> r]]
Fours == [r \in World |-> [size |-> 4, rank |-> r % 4]]

tp4x2 == conf.four /\ conf.tp = 8
tp4x2_shared == tp4x2 /\ conf.fourShared
tp4x2_fuse == tp4x2_shared /\ conf.fuse

(* One gated delta net with its MLP or experts, and the attention of the next  *)
(* layer.                                                                     *)
DenseProgram == <<"in_proj", "conv1d", "state", "out_proj", "enter", "gate_up", "down", "leave",
                  "qkv", "o_proj">>
SharedProgram == <<"in_proj", "conv1d", "state", "out_proj", "enter", "gate_up", "down", "leave",
                   "w13", "w2", "qkv", "o_proj">>
RoutedProgram == <<"in_proj", "conv1d", "state", "out_proj", "w13", "w2", "qkv", "o_proj">>
Program ==
  IF ~ conf.moe THEN DenseProgram ELSE IF conf.shared THEN SharedProgram ELSE RoutedProgram
Layers == ToSet(Program) \ {"enter", "leave"}
-----------------------------------------------------------------------------
(* A layer: the shards of its output (or input) dimension in logical order,    *)
(* and the tensors of the file, each with the shards it holds.                *)
Replicas == IF conf.tp >= conf.kv THEN conf.tp \div conf.kv ELSE 1
Shards(m) ==
  CASE m = "in_proj" -> <<"q", "k", "v", "z", "b", "a">>
    [] m = "conv1d" -> <<"q", "k", "v">>
    [] m = "state" -> <<"A_log">>
    [] m \in {"gate_up", "w13"} -> <<"gate", "up">>
    [] m = "qkv" -> <<"Q", "K", "V">>
    [] OTHER -> <<"in">>
Tensors(m) ==
  CASE m = "in_proj" -> {<<"q", "k", "v">>, <<"z">>, <<"b">>, <<"a">>}
    [] m = "conv1d" -> {<<"q", "k", "v">>}
    [] OTHER -> {<<s>> : s \in ToSet(Shards(m))}

(* Heads of a shard in the file. *)
Total(m, s) ==
  CASE m \in {"in_proj", "conv1d", "state"} -> IF s \in {"q", "k"} THEN conf.keys ELSE conf.values
    [] m = "out_proj" -> conf.values
    [] m = "qkv" -> IF s = "Q" THEN conf.heads ELSE conf.kv
    [] m = "o_proj" -> conf.heads
    [] OTHER -> conf.inter
(* output_sizes: with replicated heads counted as often as there are replicas. *)
output_size(m, s) == IF m = "qkv" /\ s # "Q" THEN conf.kv * Replicas ELSE Total(m, s)
shard_size(m, s, r) == output_size(m, s) \div tp[m][r].size

offset(m, k, r) == MapThenSumSet(LAMBDA i : shard_size(m, Shards(m)[i], r), 1..k - 1)
width(m, r) == offset(m, Len(Shards(m)) + 1, r)

(* GGUFLinearMethod keeps the shards of a merged layer in a container.          *)
Contained(m) == conf.quant /\ Len(Shards(m)) > 1 /\ m # "conv1d"

ShardInit ==
  /\ conf \in Configs
  /\ statement = 1 /\ patched = FALSE
  /\ tp = << >> /\ coming = {} /\ param = << >>
-----------------------------------------------------------------------------
(* What get_tensor_model_parallel_rank and _world_size tell linear.py.         *)
View == IF patched THEN Fours ELSE Whole

EnterContext ==
  /\ statement <= Len(Program) /\ Program[statement] = "enter"
  /\ patched' = (conf.moe /\ tp4x2_shared)
  /\ statement' = statement + 1
  /\ UNCHANGED <<conf, tp, coming, param>>

LeaveContextKept ==    \* mutant: no finally
  /\ statement <= Len(Program) /\ Program[statement] = "leave"
  /\ statement' = statement + 1
  /\ UNCHANGED <<conf, patched, tp, coming, param>>
LeaveContext ==
  /\ statement <= Len(Program) /\ Program[statement] = "leave"
  /\ patched' = FALSE
  /\ statement' = statement + 1
  /\ UNCHANGED <<conf, tp, coming, param>>

(* The constructor of a layer; the experts are given their rank, the others    *)
(* ask for it.                                                                *)
Build ==
  /\ statement <= Len(Program) /\ Program[statement] \in Layers
  /\ LET m == Program[statement]
         cut == IF m \in {"w13", "w2"} THEN IF tp4x2 THEN Fours ELSE Whole ELSE View
     IN tp' = [n \in DOMAIN tp \cup {m} |-> IF n = m THEN cut ELSE tp[n]]
  /\ statement' = statement + 1
  /\ UNCHANGED <<conf, patched, coming, param>>

(* Parameters are allocated, and load_weights begins.                          *)
BeginLoad ==
  /\ statement = Len(Program) + 1
  /\ coming' = UNION {{<<m, t>> : t \in Tensors(m)} : m \in Layers}
  /\ param' = [m \in Layers |-> [r \in World |->
                 IF Contained(m) THEN <<>> ELSE [i \in 1..width(m, r) |-> <<"empty", 0>>]]]
  /\ statement' = statement + 1
  /\ UNCHANGED <<conf, patched, tp>>
-----------------------------------------------------------------------------
(* The file.  llama.cpp writes value heads tiled: the first value head of every *)
(* key head, then the second of every key head, ...                           *)
PerKey == conf.values \div conf.keys
Tiled(p) == (p % conf.keys) * PerKey + p \div conf.keys
PerValueHead(m, s) == m \in {"in_proj", "conv1d", "state", "out_proj"} /\ s \notin {"q", "k"}
InFile(m, s) ==
  [i \in 1..Total(m, s) |-> <<s, IF conf.gguf /\ PerValueHead(m, s) THEN Tiled(i - 1) ELSE i - 1>>]

(* _qwen35_gguf_head_inverse_indices, and index_select with it.                *)
GgufKeys == GgufHeads \div GgufGroup
HeadForward(idx) == (idx % GgufKeys) * GgufGroup + idx \div GgufKeys   \* mutant: the wrong way
HeadInverse(idx) == (idx % GgufGroup) * GgufKeys + idx \div GgufGroup

(* The conversions know a tensor by its name and its length, and take no other;  *)
(* a quantised matrix has another name.                                       *)
Recognised(m, s) ==
  /\ PerValueHead(m, s) /\ (conf.quant => m \in {"conv1d", "state"})
  /\ IF s = "v" THEN 2 * conf.keys + conf.values = 2 * GgufKeys + GgufHeads
                ELSE conf.values = GgufHeads
Converted(m, s) ==
  LET rows == InFile(m, s) IN
  IF conf.gguf /\ Recognised(m, s)
    THEN [i \in DOMAIN rows |-> rows[HeadInverse(i - 1) + 1]]
    ELSE rows

(* The part of a shard that rank r keeps.                                      *)
RankRoundRobin(m, s, r) ==    \* mutant: replicas dealt out in turn
  IF m = "qkv" /\ s # "Q" THEN tp[m][r].rank % conf.kv ELSE tp[m][r].rank
shard_rank(m, s, r) ==
  IF m = "qkv" /\ s # "Q" THEN tp[m][r].rank \div Replicas ELSE tp[m][r].rank
Part(m, s, w, r) ==
  LET n == shard_size(m, s, r)
      start == shard_rank(m, s, r) * n
  IN SubSeq(w, start + 1, start + n)

(* The place in the parameter of row i of the shard that is the k-th of m.     *)
Place(m, k, i, r) ==
  IF m = "gate_up" /\ conf.interleave THEN 2 * (i - 1) + k ELSE offset(m, k, r) + i

Store(m, k, part, p, r) ==
  IF Contained(m)
    THEN Append(p, [shard |-> k, rows |-> part])
    ELSE LET at(j) == {i \in DOMAIN part : Place(m, k, i, r) = j} IN
         [j \in DOMAIN p |-> IF at(j) = {} THEN p[j] ELSE part[CHOOSE i \in at(j) : TRUE]]

(* One tensor of the file; one that holds several shards is cut first.  The    *)
(* tensors of a layer come in any order, and those of different layers do not  *)
(* meet.  The shared expert's are loaded in the context, which changes nothing: *)
(* a layer keeps the rank it was built with.                                  *)
Loaders(m, t) ==
  [r \in World |->
     FoldLeft(LAMBDA p, s : LET k == CHOOSE i \in DOMAIN Shards(m) : Shards(m)[i] = s IN
                            Store(m, k, Part(m, s, Converted(m, s), r), p, r),
              param[m][r], t)]
LoadWeight ==
  /\ coming # {} /\ statement = Len(Program) + 2
  /\ LET m == CHOOSE x \in Layers : \E e \in coming : e[1] = x IN
     \E t \in {e[2] : e \in {f \in coming : f[1] = m}} :
       /\ param' = [param EXCEPT ![m] = Loaders(m, t)]
       /\ coming' = coming \ {<<m, t>>}
  /\ UNCHANGED <<conf, statement, patched, tp>>

Loaded == statement = Len(Program) + 2 /\ coming = {}
(* A forward pass reads the weights. *)
Forward == Loaded /\ UNCHANGED shardVars

ShardNext == EnterContext \/ LeaveContext \/ Build \/ BeginLoad \/ LoadWeight \/ Forward

ShardSpec == ShardInit /\ [][ShardNext]_shardVars
-----------------------------------------------------------------------------
(* The forward pass.  _create_padded_weight_param and apply: the shards in     *)
(* logical order, whatever order they came in.                                *)
LogicalOrder(c) ==
  LET came == {c[i].shard : i \in DOMAIN c} IN
  [n \in DOMAIN c |-> CHOOSE k \in came : Cardinality({l \in came : l <= k}) = n]
Weight(m, r) ==
  LET p == param[m][r] IN
  IF ~ Contained(m) THEN p
  ELSE FlattenSeq([n \in DOMAIN p |-> (CHOOSE e \in ToSet(p) : e.shard = LogicalOrder(p)[n]).rows])

(* A split of the output of m on rank r: the block of its k-th shard.          *)
Block(m, k, r) == SubSeq(Weight(m, r), offset(m, k, r) + 1, offset(m, k + 1, r))

(* A sum is the sequence of its terms. *)
all_reduce(local, group) == FoldSet(LAMBDA r, sum : sum \o local[r], <<>>, group)

(* Query head j of a rank reads the key and value head that attention pairs it *)
(* with, and meets its column of o_proj.                                      *)
Attention(r) ==
  LET q == Block("qkv", 1, r)
      k == Block("qkv", 2, r)
      v == Block("qkv", 3, r)
      o == Weight("o_proj", r)
      kv(j) == (j - 1) \div (Len(q) \div Len(k)) + 1
  IN [j \in DOMAIN q |-> <<q[j], k[kv(j)], v[kv(j)], o[j]>>]

(* Qwen3_5GatedDeltaNet.forward: qkv, z, b and a are split off, the convolution *)
(* goes over qkv channel by channel, and each key head serves a group of value *)
(* heads.                                                                     *)
DeltaNet(r) ==
  LET q == Block("in_proj", 1, r)
      k == Block("in_proj", 2, r)
      v == Block("in_proj", 3, r)
      z == Block("in_proj", 4, r)
      b == Block("in_proj", 5, r)
      a == Block("in_proj", 6, r)
      conv_q == Block("conv1d", 1, r)
      conv_k == Block("conv1d", 2, r)
      conv_v == Block("conv1d", 3, r)
      A_log == Weight("state", r)
      o == Weight("out_proj", r)
      key(j) == (j - 1) \div PerKey + 1
  IN [j \in DOMAIN v |-> <<q[key(j)], conv_q[key(j)], k[key(j)], conv_k[key(j)],
                          v[j], conv_v[j], z[j], b[j], a[j], A_log[j], o[j]>>]

(* silu(gate) * up, each against a column of the down projection.              *)
Gated(m, down, r) ==
  LET w == Weight(m, r)
      o == Weight(down, r)
      n == Len(w) \div 2
      interleaved == m = "gate_up" /\ conf.interleave
  IN [j \in 1..n |-> <<m, IF interleaved THEN w[2 * j - 1] ELSE w[j],
                      IF interleaved THEN w[2 * j] ELSE w[n + j], o[j]>>]
shared_expert(r) == IF "gate_up" \in Layers THEN Gated("gate_up", "down", r) ELSE <<>>
routed_experts(r) == IF "w13" \in Layers THEN Gated("w13", "w2", r) ELSE <<>>

FourOf(r) == {s \in World : s \div 4 = r \div 4}
(* Qwen3NextSparseMoeBlock.forward; a dense MLP reduces in down_proj.  The      *)
(* groups in which the shared and the routed part of rank r are summed.        *)
ReducedOverFours(r) ==    \* mutant: the fused reduction forgets the shared switch
  IF conf.moe /\ tp4x2 /\ (conf.fuse \/ tp4x2_shared \/ ~ conf.shared)
    THEN [shared |-> FourOf(r), routed |-> FourOf(r)]
    ELSE [shared |-> World, routed |-> IF conf.moe /\ tp4x2 THEN FourOf(r) ELSE World]
ReducedOver(r) ==
  IF conf.moe /\ tp4x2 /\ (tp4x2_fuse \/ ~ conf.shared)
    THEN [shared |-> FourOf(r), routed |-> FourOf(r)]
  ELSE IF conf.moe /\ tp4x2
    THEN [shared |-> IF tp4x2_shared THEN FourOf(r) ELSE World, routed |-> FourOf(r)]
  ELSE [shared |-> World, routed |-> World]
FeedForward ==
  LET shared == [r \in World |-> shared_expert(r)]
      routed == [r \in World |-> routed_experts(r)]
  IN [r \in World |-> all_reduce(shared, ReducedOver(r).shared)
                         \o all_reduce(routed, ReducedOver(r).routed)]
-----------------------------------------------------------------------------
(* Every term once, and no other.                                             *)
SumOf(sum, S) == ToSet(sum) = S /\ Len(sum) = Cardinality(S)

(* Once the file is loaded, in whatever order, the ranks' attention outputs sum *)
(* up to every query head once, with the key and value head of its group and   *)
(* its own columns of o_proj: also with key and value heads on several ranks,  *)
(* and with quantised shards kept as they came.                               *)
AttentionIsExact ==
  Loaded =>
    SumOf(all_reduce([r \in World |-> Attention(r)], World),
          {LET g == h \div (conf.heads \div conf.kv)
           IN << <<"Q", h>>, <<"K", g>>, <<"V", g>>, <<"in", h>> >> : h \in 0..conf.heads - 1})

(* The files that the conversions are right for: those in plain order; tiled,    *)
(* with their own numbers of heads, and not quantised; and those in which the   *)
(* two orders are one and no conversion takes a tensor for its own.  In any    *)
(* other some heads stay tiled, or are moved wrongly, and nothing says so.     *)
Convertible ==
  \/ ~ conf.gguf
  \/ conf.keys = GgufKeys /\ conf.values = GgufHeads /\ ~ conf.quant
  \/ conf.keys = conf.values /\ conf.values # GgufHeads

(* For such a file those of the gated delta net sum up to every value head      *)
(* once, with its own gate, beta, alpha, decay, convolution and columns of     *)
(* out_proj, and the key head of its group: every tensor of the layer is cut    *)
(* at the same heads.                                                         *)
DeltaNetIsExact ==
  Loaded /\ Convertible =>
    SumOf(all_reduce([r \in World |-> DeltaNet(r)], World),
          {LET k == i \div PerKey IN
            << <<"q", k>>, <<"q", k>>, <<"k", k>>, <<"k", k>>, <<"v", i>>, <<"v", i>>,
               <<"z", i>>, <<"b", i>>, <<"a", i>>, <<"A_log", i>>, <<"in", i>> >> :
            i \in 0..conf.values - 1})

(* And every rank ends with every column of the MLP, or of the shared expert    *)
(* and the experts, exactly once, whichever of the TP4X2 switches are set.     *)
AllColumns ==
  {<<m, <<"gate", i>>, <<"up", i>>, <<"in", i>> >> :
    m \in {"gate_up", "w13"} \cap Layers, i \in 0..conf.inter - 1}
FeedForwardIsExact == Loaded => \A r \in World : SumOf(FeedForward[r], AllColumns)

(* The replaced getters are seen by the shared expert and by nothing else: no   *)
(* layer built before or after it is cut in four.                             *)
OnlyTheExpertsAreCutInFour ==
  \A m \in DOMAIN tp :
    tp[m] = IF \/ m \in {"w13", "w2"} /\ tp4x2
               \/ m \in {"gate_up", "down"} /\ conf.moe /\ tp4x2_shared
              THEN Fours ELSE Whole
=============================================================================
