--------------------------- MODULE ResidualPrefold ---------------------------
(***************************************************************************)
(* The residual pre-fold: a decoder layer leaves its residual in a module  *)
(* global of communication_op.py, and the next all-reduce of the process   *)
(* that fits it adds residual / TP to its partial sum, so that the sum     *)
(* comes out with the residual in it.  The layer then asks whether it was  *)
(* consumed, clears the global and drops its own copy.  A second way, one  *)
(* kernel for the product and the sum, decides before the all-reduce.      *)
(*                                                                         *)
(* A tensor is what it is a sum of: units of every source, TP units being  *)
(* one whole contribution.  Rounding is left out.  The ranks run one       *)
(* program over equal shapes, and meet in the all-reduces.                 *)
(***************************************************************************)
EXTENDS Integers, FiniteSets, FiniteSetsExt

CONSTANTS
  Ranks,
  Layers,    \* number of decoder layers
  NoTensor   \* None

(* enable: VLLM_GFX906_AR_PREFOLD_ENABLE; strict: ..._STRICT; mlp, bias, down: *)
(* the switches of the decoder layer; native: the extension of the fused      *)
(* kernel is loaded.                                                          *)
Confs == [enable: BOOLEAN, strict: BOOLEAN, mlp: BOOLEAN, bias: BOOLEAN, down: BOOLEAN,
          native: BOOLEAN]

(* How the output of an MLP and the residual go together: alike, of different *)
(* shape or type, or not contiguous.                                          *)
Fits == {"alike", "unlike", "strided"}

TP == Cardinality(Ranks)
Sources == {<<0, "embed">>} \cup ((1..Layers) \X {"attn", "mlp"})

ASSUME PrefoldAssumption ==
  /\ IsFiniteSet(Ranks) /\ Cardinality(Ranks) > 1 /\ Layers \in Nat \ {0}
  /\ NoTensor \notin [Sources -> Nat]

Zero == [s \in Sources |-> 0]
Plus(x, y) == [s \in Sources |-> x[s] + y[s]]
Over(x, n) == [s \in Sources |-> x[s] \div n]
Partial(s) == [Zero EXCEPT ![s] = 1]

VARIABLES
  switches,
  moe,        \* the layers whose MLP is a mixture of experts
  fit,        \* fit[l]: of the MLP of layer l in this forward pass
  pc,         \* embed, layer, middle, after: what a rank does next;
              \* ..._reduce: the all-reduce it waits in; done, raised
  layer,
  hidden, residual,
  pending,    \* _PENDING_AR_PREFOLD
  consumed,   \* _LAST_AR_PREFOLD_CONSUMED
  fused       \* forward_with_residual_prefold returned True

prefoldVars == <<switches, moe, fit, pc, layer, hidden, residual, pending, consumed, fused>>

PrefoldInit ==
  /\ switches \in Confs /\ moe \in SUBSET (1..Layers) /\ fit \in [1..Layers -> Fits]
  /\ pc = [r \in Ranks |-> "embed"] /\ layer = [r \in Ranks |-> 1]
  /\ hidden = [r \in Ranks |-> NoTensor] /\ residual = [r \in Ranks |-> NoTensor]
  /\ pending = [r \in Ranks |-> NoTensor]
  /\ consumed = [r \in Ranks |-> FALSE] /\ fused = [r \in Ranks |-> FALSE]
-----------------------------------------------------------------------------
(* _consume_all_reduce_prefold, with res pending and how the input of the      *)
(* all-reduce fits: whether it folds res in, and whether it raises.           *)
Folds(res, f) == switches.enable /\ res # NoTensor /\ f = "alike"
Raises(res, f) == switches.enable /\ res # NoTensor /\ f = "strided" /\ switches.strict

(* tensor_model_parallel_all_reduce and its in-place kinds: x goes into the    *)
(* all-reduce, with the pending residual when it is consumed.                 *)
AllReduce(r, x, res, f, wait) ==
  /\ pc' = [pc EXCEPT ![r] = wait]
  /\ hidden' = [hidden EXCEPT ![r] = IF Folds(res, f) THEN Plus(x, Over(res, TP)) ELSE x]
  /\ pending' = [pending EXCEPT ![r] = IF Folds(res, f) THEN NoTensor ELSE res]

(* RMSNorm with a residual: the sum goes on as the residual.                  *)
Summed(r) == IF residual[r] = NoTensor THEN hidden[r] ELSE Plus(hidden[r], residual[r])

(* embed_input_ids: VocabParallelEmbedding reduces like any other.            *)
Embed(r) ==
  /\ pc[r] = "embed"
  /\ AllReduce(r, Partial(<<0, "embed">>), pending[r], "alike", "embed_reduce")
  /\ consumed' = [consumed EXCEPT ![r] = @ \/ Folds(pending[r], "alike")]
  /\ UNCHANGED <<switches, moe, fit, layer, residual, fused>>

(* input_layernorm and self_attn. *)
Attention(r) ==
  /\ pc[r] = "layer" /\ layer[r] <= Layers
  /\ residual' = [residual EXCEPT ![r] = Summed(r)]
  /\ AllReduce(r, Partial(<<layer[r], "attn">>), pending[r], "alike", "attn_reduce")
  /\ consumed' = [consumed EXCEPT ![r] = @ \/ Folds(pending[r], "alike")]
  /\ UNCHANGED <<switches, moe, fit, layer, fused>>

use_down(r) == switches.down /\ layer[r] \notin moe
use_prefold(r) == switches.mlp /\ layer[r] \notin moe /\ ~ switches.bias /\ ~ use_down(r)
can_fuse(r) == use_down(r) /\ switches.native /\ fit[layer[r]] = "alike"

(* post_attention_layernorm, begin, and the MLP: its product alone, or with    *)
(* the residual in it.  STRICT raises; finally clears.                        *)
MLP(r) ==
  LET res == Summed(r)
      begun == IF use_prefold(r) THEN res ELSE pending[r]
      product == Partial(<<layer[r], "mlp">>)
      f == fit[layer[r]]
  IN
  /\ pc[r] = "middle"
  /\ residual' = [residual EXCEPT ![r] = res]
  /\ fused' = [fused EXCEPT ![r] = can_fuse(r)]
  /\ consumed' = [consumed EXCEPT ![r] =
                    (@ /\ ~ use_prefold(r)) \/ Folds(begun, f)]
  /\ IF Raises(begun, f)
       THEN /\ pc' = [pc EXCEPT ![r] = "raised"]
            /\ pending' = [pending EXCEPT ![r] = NoTensor]
            /\ UNCHANGED hidden
       ELSE AllReduce(r, IF can_fuse(r) THEN Plus(product, Over(res, TP)) ELSE product,
                      begun, f, "mlp_reduce")
  /\ UNCHANGED <<switches, moe, fit, layer>>

(* The end of the layer: was it consumed, clear, and drop what was folded.    *)
DroppedBegun(r) == use_prefold(r) \/ (use_down(r) /\ fused[r])   \* mutant: not asked
Dropped(r) == (use_prefold(r) /\ consumed[r]) \/ (use_down(r) /\ fused[r])
LayerEndKeeps(r) ==    \* mutant: no clear
  /\ pc[r] = "after"
  /\ residual' = [residual EXCEPT ![r] = IF Dropped(r) THEN NoTensor ELSE @]
  /\ layer' = [layer EXCEPT ![r] = @ + 1]
  /\ pc' = [pc EXCEPT ![r] = "layer"]
  /\ UNCHANGED <<switches, moe, fit, hidden, pending, consumed, fused>>
LayerEnd(r) ==
  /\ pc[r] = "after"
  /\ residual' = [residual EXCEPT ![r] = IF Dropped(r) THEN NoTensor ELSE @]
  /\ pending' = [pending EXCEPT ![r] = IF use_prefold(r) THEN NoTensor ELSE @]
  /\ layer' = [layer EXCEPT ![r] = @ + 1]
  /\ pc' = [pc EXCEPT ![r] = "layer"]
  /\ UNCHANGED <<switches, moe, fit, hidden, consumed, fused>>

(* The model's last norm. *)
Finish(r) ==
  /\ pc[r] = "layer" /\ layer[r] > Layers
  /\ hidden' = [hidden EXCEPT ![r] = Summed(r)]
  /\ residual' = [residual EXCEPT ![r] = NoTensor]
  /\ pc' = [pc EXCEPT ![r] = "done"]
  /\ UNCHANGED <<switches, moe, fit, layer, pending, consumed, fused>>

(* The all-reduce itself, when every rank has come to it.                     *)
Following == [embed_reduce |-> "layer", attn_reduce |-> "middle", mlp_reduce |-> "after"]
Reduce ==
  /\ \E w \in DOMAIN Following : \A r \in Ranks : pc[r] = w /\ pc' = [x \in Ranks |-> Following[w]]
  /\ hidden' = [r \in Ranks |-> [s \in Sources |-> FoldSet(LAMBDA q, t : t + hidden[q][s], 0, Ranks)]]
  /\ UNCHANGED <<switches, moe, fit, layer, residual, pending, consumed, fused>>

(* The next forward pass, with other shapes; also after one that raised.       *)
NextForward ==
  /\ (\A r \in Ranks : pc[r] = "done") \/ (\A r \in Ranks : pc[r] = "raised")
  /\ fit' \in [1..Layers -> Fits]
  /\ pc' = [r \in Ranks |-> "embed"] /\ layer' = [r \in Ranks |-> 1]
  /\ hidden' = [r \in Ranks |-> NoTensor] /\ residual' = [r \in Ranks |-> NoTensor]
  /\ fused' = [r \in Ranks |-> FALSE]
  /\ UNCHANGED <<switches, moe, pending, consumed>>

PrefoldNext ==
  \/ \E r \in Ranks : Embed(r) \/ Attention(r) \/ MLP(r) \/ LayerEnd(r) \/ Finish(r)
  \/ Reduce
  \/ NextForward

PrefoldSpec == PrefoldInit /\ [][PrefoldNext]_prefoldVars
-----------------------------------------------------------------------------
(* Between two layers every rank has the whole stream: every contribution so   *)
(* far exactly once, whichever way and whether or not each residual was folded *)
(* into an all-reduce, and whatever an earlier pass left behind.              *)
StreamIsExact ==
  \A r \in Ranks : pc[r] = "layer" =>
    Summed(r) = [s \in Sources |-> IF s[1] < layer[r] THEN TP ELSE 0]

(* A residual waits only between begin and clear of its own layer: no other    *)
(* all-reduce, of the attention, the embedding or the next pass, finds it.     *)
PendingStaysInItsLayer ==
  \A r \in Ranks : pending[r] # NoTensor =>
    pc[r] \in {"mlp_reduce", "after"} /\ use_prefold(r) /\ pending[r] = residual[r]
=============================================================================
