--------------------------- MODULE MCDecoderLayer ---------------------------
(* The three computations of a decoder layer, each on its own: the weights of  *)
(* all ranks, the attention of one rank over its cache, its routed experts.    *)
(* A run follows one of them; the others stay where they are.                  *)
EXTENDS MCShardedLayers, UnifiedAttention, FusedExperts

VARIABLE part
allVars == <<part, shardVars, attnVars, moeVars>>

Attn(hq, hkv, window, tile, decode, graphs, sizes, q) ==
  [hq |-> hq, hkv |-> hkv, window |-> window, tile |-> tile, decode |-> decode,
   graphs |-> graphs, sizes |-> sizes, q |-> q]

(* Three heads on four lanes leave a spare one; speculation makes a decode two *)
(* tokens long; a window shorter than a tile and one longer.                   *)
MCAttnConfigs == {Attn(3, 1, 0, 4, 1, "decode", {1, 2, 4}, 1),
                  Attn(2, 1, 3, 2, 2, "decode", {2, 4}, 2),
                  Attn(2, 2, 2, 4, 2, "none", {}, 1),
                  Attn(3, 1, 2, 2, 1, "all", {1, 2, 4}, 1),
                  Attn(6, 2, 0, 2, 1, "all", {1, 3}, 1)}
CachedContexts == {0, 3}

(* Up to three tokens, one or two of experts 1, 2 and 6 of eight, two of which *)
(* are this rank's if there is a map.                                          *)
Routings(tokens, k) == [1..tokens -> {s \in [1..k -> {1, 2, 6}] : IsInjective(s)}]
AllExperts == [e \in 1..8 |-> e - 1]
Moe(path, ids, local, block, group, k) ==
  [path |-> path, ids |-> ids, experts |-> 8, local |-> local, mapped |-> local # AllExperts,
   block |-> block, BLOCK_SIZE_N |-> 3 - group, GROUP_SIZE_M |-> group, n |-> 2, k |-> k]
Flags(inplace, onInput, fast) == [inplace |-> inplace, onInput |-> onInput, fast |-> fast]
MCMoeConfigs ==
  LET routings == UNION {Routings(t, k) : t \in 1..3, k \in 1..2}
      Of(path, locals) == {Moe(path, ids, local, block, group, 5 - 2 * group) :
          ids \in routings, local \in locals, block \in {<<1, 2, 2>>, <<2, 2, 3>>}, group \in {1, 2}}
  IN  {c @@ f : c \in Of("impl", {AllExperts, <<1, 2>>}), f \in {Flags(i, FALSE, FALSE) : i \in BOOLEAN}}
      \cup {c @@ f : c \in {x \in Of("impl", {<<1, 2>>}) : Len(x.ids[1]) = 1},
                     f \in {Flags(TRUE, TRUE, FALSE)}}
      \cup {c @@ f : c \in Of("experts", {AllExperts, <<1, 2>>}), f \in {Flags(FALSE, FALSE, f) : f \in BOOLEAN}}
      \cup {c @@ f : c \in Of("fp8", {AllExperts, <<1, 2>>}), f \in {Flags(FALSE, FALSE, FALSE)}}

WeightsIdle == /\ conf = (CHOOSE c \in Configs : TRUE) /\ statement = 1 /\ patched = FALSE
               /\ tp = << >> /\ coming = {} /\ param = << >>
AttentionIdle == /\ att = [hq |-> 0] /\ rows = << >> /\ cache = << >> /\ segm = << >>
                 /\ out = << >> /\ launch = << >> /\ at = "idle" /\ turn = 0
ExpertsIdle == /\ moe = [path |-> "none"] /\ hidden = << >> /\ result = << >>
               /\ cache13 = << >> /\ cache2 = << >> /\ table = << >> /\ chunk = 0 /\ pc = "idle"

LayerInit == \/ part = "weights" /\ ShardInit /\ AttentionIdle /\ ExpertsIdle
             \/ part = "attention" /\ AttnInit /\ WeightsIdle /\ ExpertsIdle
             \/ part = "experts" /\ MoeInit /\ WeightsIdle /\ AttentionIdle

OnlyWeights == part = "weights" /\ UNCHANGED <<part, attnVars, moeVars>>
OnlyAttention == part = "attention" /\ UNCHANGED <<part, shardVars, moeVars>>
OnlyExperts == part = "experts" /\ UNCHANGED <<part, shardVars, attnVars>>

LayerNext ==
  \/ OnlyWeights /\ EnterContext
  \/ OnlyWeights /\ LeaveContext
  \/ OnlyWeights /\ Build
  \/ OnlyWeights /\ BeginLoad
  \/ OnlyWeights /\ LoadWeight
  \/ OnlyWeights /\ Forward
  \/ OnlyAttention /\ UpdateCache
  \/ OnlyAttention /\ Launch2D
  \/ OnlyAttention /\ Launch3D
  \/ OnlyAttention /\ Reduce
  \/ OnlyAttention /\ NextStep
  \/ OnlyAttention /\ Ended
  \/ OnlyExperts /\ FastPath
  \/ OnlyExperts /\ Align
  \/ OnlyExperts /\ MultiplyW1
  \/ OnlyExperts /\ Activate
  \/ OnlyExperts /\ MultiplyW2
  \/ OnlyExperts /\ SumExperts
  \/ OnlyExperts /\ Finished

LayerSpec == LayerInit /\ [][LayerNext]_allVars
=============================================================================
