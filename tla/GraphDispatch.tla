---------------------------- MODULE GraphDispatch ----------------------------
(***************************************************************************)
(* The life of the CUDA graphs of one worker: gpu_model_runner.py resolves *)
(* cudagraph_mode, captures a few graphs to estimate their memory, throws  *)
(* them away, captures all of them, and then serves batches by replaying   *)
(* the graph a batch is padded to; cuda_graph.py keeps the graphs.         *)
(*                                                                         *)
(* A replay reads the worker's buffers at the padded size, whatever is in  *)
(* them: slot_mapping and block_table beyond the batch still hold the      *)
(* requests of earlier steps unless the step overwrites them.              *)
(*                                                                         *)
(* CudagraphDispatcher, CompilationConfig and the attention backends are   *)
(* not in src/ and are modelled from how this code uses them.  Data        *)
(* parallelism, microbatches, LoRA and encoder-decoder models are left out. *)
(***************************************************************************)
EXTENDS Integers, Sequences, FiniteSets, FiniteSetsExt, Functions

CONSTANTS
  Configs,    \* what a worker may be started with
  Reqs,
  MaxSeqs,    \* max_num_seqs
  MaxTokens   \* max_num_tokens

None == "NONE"
Full == "FULL"
Piece == "PIECEWISE"
DecodeOnly == "FULL_DECODE_ONLY"
FullAndPiece == "FULL_AND_PIECEWISE"
CUDAGraphModes == {None, Piece, Full, DecodeOnly, FullAndPiece}

(* min_cg_support: NEVER, UNIFORM_SINGLE_TOKEN_DECODE, UNIFORM_BATCH, ALWAYS. *)
Support == 0..3

(* mode, sizes: cudagraph_mode and capture sizes as configured; split:        *)
(* splitting_ops_contain_attention; compiled: VLLM_COMPILE; partition:        *)
(* use_inductor_graph_partition; q: uniform_decode_query_len; mamba, blocks:  *)
(* recurrent layers, and the blocks of their cache; separate: some backend    *)
(* updates the KV cache outside of forward; scales: calculate_kv_scales;      *)
(* estimate: the memory of the graphs is profiled.                            *)
Config == [mode: CUDAGraphModes, support: Support, split: BOOLEAN, compiled: BOOLEAN,
           partition: BOOLEAN, q: Nat \ {0}, sizes: SUBSET (Nat \ {0}), mamba: BOOLEAN,
           blocks: Nat \ {0}, separate: BOOLEAN, scales: BOOLEAN, estimate: BOOLEAN]

ASSUME GraphAssumption ==
  /\ Configs \subseteq Config /\ MaxSeqs \in Nat \ {0} /\ MaxTokens \in Nat
  /\ \A c \in Configs : IsFiniteSet(c.sizes) /\ \A s \in c.sizes : s <= MaxTokens

VARIABLES
  conf,
  phase,      \* start, profiling, profiled, ready, capturing, serving, rejected, dead
  mode,       \* compilation_config.cudagraph_mode
  sizes,      \* compilation_config.cudagraph_capture_sizes
  keys,       \* cudagraph_dispatcher.cudagraph_keys: <<mode, descriptor>>
  todo,       \* the descriptors still to capture
  graphs,     \* the wrappers' entries: <<mode, descriptor, pool>>
  pool,       \* the wrappers' graph_pool
  enabled,    \* set_cudagraph_capturing_enabled
  scales,     \* calculate_kv_scales is still to be done
  slot,       \* slot_mapping: whose token each place writes
  table,      \* block_table: whose blocks each row reads
  lens,       \* seq_lens is positive
  seen        \* the batch and the buffers the last forward pass ran with

setup == <<conf, phase, mode, sizes, keys, todo, pool, enabled>>
buffers == <<slot, table, lens>>
vars == <<conf, phase, mode, sizes, keys, todo, graphs, pool, enabled, scales, slot,
          table, lens, seen>>

Pad == "pad"            \* -1
Unused == "unused"      \* what the buffers hold before the first batch
NoRun == [owner |-> <<>>, rows |-> <<>>, slots |-> <<>>, tables |-> <<>>, lens |-> <<>>]

Init ==
  /\ conf \in Configs
  /\ phase = "start" /\ mode = conf.mode /\ sizes = conf.sizes
  /\ keys = {} /\ todo = {} /\ graphs = {} /\ pool = "global" /\ enabled = FALSE
  /\ scales = conf.scales
  /\ slot = [i \in 1..MaxTokens |-> Unused] /\ table = [i \in 1..MaxSeqs |-> Unused]
  /\ lens = [i \in 1..MaxSeqs |-> FALSE]
  /\ seen = NoRun
-----------------------------------------------------------------------------
(* CUDAGraphMode: how mixed batches and how uniform decode batches are run,   *)
(* and whether they have routines of their own.                               *)
mixed_mode == [NONE |-> None, PIECEWISE |-> Piece, FULL |-> Full,
               FULL_DECODE_ONLY |-> None, FULL_AND_PIECEWISE |-> Piece]
decode_mode == [NONE |-> None, PIECEWISE |-> Piece, FULL |-> Full,
                FULL_DECODE_ONLY |-> Full, FULL_AND_PIECEWISE |-> Full]
separate_routine(m) == m \in {DecodeOnly, FullAndPiece}
has_full_cudagraphs(m) == Full \in {mixed_mode[m], decode_mode[m]}

(* _check_and_update_cudagraph_mode: one downgrade after the other.           *)
Rejected == "rejected"
ForMixed(c, m) ==
  IF mixed_mode[m] = Full /\ c.support # 3
    THEN IF c.support = 0 THEN Rejected
         ELSE IF c.split THEN FullAndPiece ELSE DecodeOnly
    ELSE m
ForDecode(c, m) ==
  IF m # Rejected /\ decode_mode[m] = Full /\ c.support = 0
    THEN IF c.compiled /\ (c.split \/ c.partition) THEN Piece ELSE None
    ELSE m
ForSpecDecodeIgnored(c, m) == m   \* mutant
ForSpecDecode(c, m) ==
  IF m # Rejected /\ decode_mode[m] = Full /\ c.q > 1 /\ c.support < 2
    THEN IF c.split THEN Piece ELSE None
    ELSE m
DoubleCheck(c, m) ==
  IF m # Rejected /\ has_full_cudagraphs(m) /\ c.support = 0 THEN Rejected ELSE m
Resolve(c, m) == DoubleCheck(c, ForSpecDecode(c, ForDecode(c, ForMixed(c, m))))

(* adjust_cudagraph_sizes_for_spec_decode, ..._for_mamba_cache (external).    *)
RoundUp(s, q) == ((s + q - 1) \div q) * q
AdjustForSpecDecodeNever(c, m, ss) == ss    \* mutant
AdjustForSpecDecode(c, m, ss) ==
  IF decode_mode[m] = Full /\ separate_routine(m) /\ c.q > 1 /\ ss # {}
    THEN LET r == {s \in {RoundUp(x, c.q) : x \in ss} : s <= Max(ss)}
         IN  IF r = {} /\ c.q <= Max(ss) THEN {c.q} ELSE r
    ELSE ss
AdjustForMamba(c, m, ss, blocks) ==
  IF has_full_cudagraphs(m) /\ c.mamba THEN {s \in ss : s <= blocks} ELSE ss

(* initialize_cudagraph_keys (external): n tokens, r requests (0: any).       *)
Desc(n, uniform, r) == [n |-> n, uniform |-> uniform, r |-> r]
LeastOf(a, b) == IF a < b THEN a ELSE b
MixedDesc(m, n) == Desc(n, FALSE, IF mixed_mode[m] = Full THEN LeastOf(n, MaxSeqs) ELSE 0)
Keys(c, m, ss) ==
  (IF mixed_mode[m] = None THEN {} ELSE {<<mixed_mode[m], MixedDesc(m, s)>> : s \in ss})
  \cup
  (IF decode_mode[m] = Full /\ separate_routine(m)
     THEN {<<Full, Desc(s, TRUE, s \div c.q)>> : s \in {x \in ss : x \in c.q..c.q * MaxSeqs}}
     ELSE {})

(* dispatch (external): the least captured size a batch fits in, as a uniform *)
(* decode batch where those have graphs; NONE is not padded.                  *)
Fitting(ss, n) == {s \in ss : s >= n}
Dispatch(n, uniform, valid) ==
  LET p == Min(Fitting(sizes, n))
      decode == <<Full, Desc(p, TRUE, p \div conf.q)>>
      mixed == {<<k, MixedDesc(mode, p)>> : k \in {Full, Piece}}
      found == {x \in mixed \cup (IF uniform THEN {decode} ELSE {}) :
                  x \in keys /\ x[1] \in valid}
  IN  IF Fitting(sizes, n) = {} \/ found = {} THEN <<None, Desc(n, FALSE, 0)>>
      ELSE IF decode \in found THEN decode
      ELSE CHOOSE x \in found : TRUE
AllModes == {None, Piece, Full}

(* initialize_attn_backend: the mode, the sizes and the keys it leaves behind. *)
InitializeAttnBackend(blocks, next) ==
  LET m == Resolve(conf, mode)
      spec == AdjustForSpecDecode(conf, m, sizes)
      ss == AdjustForMamba(conf, m, spec, blocks)
  IN  IF m = Rejected \/ (sizes # {} /\ ss = {})
        THEN phase' = Rejected /\ UNCHANGED <<mode, sizes, keys>>
        ELSE /\ mode' = m /\ sizes' = ss /\ keys' = Keys(conf, m, ss)
             /\ phase' = next
-----------------------------------------------------------------------------
(* CUDAGraphWrapper.__call__ in mode m with descriptor d: replay, capture, or  *)
(* the error of validate_cudagraph_capturing_enabled.                         *)
HasGraph(k) == \E g \in graphs : <<g[1], g[2]>> = k
Call(k) ==
  IF k[1] = None \/ HasGraph(k) THEN UNCHANGED graphs
  ELSE enabled /\ graphs' = graphs \cup {<<k[1], k[2], pool>>}
CallFails(k) == k[1] # None /\ ~ HasGraph(k) /\ ~ enabled

(* _dummy_run for one descriptor, as _warmup_and_capture calls it: the batch   *)
(* is made up, and dispatched again; the mode must be the wanted one.  With    *)
(* attention metadata it leaves its own sequence lengths behind.               *)
DummyReqs(d) == IF d.uniform THEN LeastOf(MaxSeqs, (d.n + conf.q - 1) \div conf.q)
                             ELSE LeastOf(d.n, MaxSeqs)
DummyFails(k) ==
  LET d == k[2] IN
  \/ d.n > MaxTokens
  \/ d.uniform /\ DummyReqs(d) * conf.q < d.n
  \/ Dispatch(d.n, d.uniform, AllModes)[1] # k[1]
  \/ d.uniform /\ Dispatch(d.n, TRUE, AllModes)[2].n % conf.q # 0
CaptureOne(k) ==
  /\ k \in todo
  /\ todo' = todo \ {k}
  /\ IF DummyFails(k) THEN phase' = "dead" /\ UNCHANGED <<graphs, lens>>
     ELSE /\ Call(Dispatch(k[2].n, k[2].uniform, AllModes))
          /\ lens' = [i \in DOMAIN lens |-> IF k[1] = Full THEN i <= DummyReqs(k[2]) ELSE lens[i]]
          /\ UNCHANGED phase
  /\ UNCHANGED <<conf, mode, sizes, keys, pool, enabled, scales, slot, table, seen>>

(* get_capture_descs lists the largest sizes first; profiling takes the first  *)
(* two of each mode.                                                          *)
FirstTwo(ks) == {k \in ks : Cardinality({x \in ks : x[1] = k[1] /\ x[2].n > k[2].n}) < 2}

(* profile_cudagraph_memory: a KV cache of max_cudagraph_capture_size blocks,  *)
(* a temporary pool, and everything taken back at the end.                    *)
MinBlocksOne == 1   \* mutant
MinBlocks == IF sizes = {} THEN 1 ELSE Max(sizes)
StartProfiling ==
  /\ phase = "start" /\ conf.estimate
  /\ InitializeAttnBackend(MinBlocks, "profiling")
  /\ todo' = FirstTwo(keys')
  /\ IF keys' = {} THEN UNCHANGED <<pool, enabled>>
                   ELSE pool' = "temporary" /\ enabled' = TRUE
  /\ UNCHANGED <<conf, graphs, scales, slot, table, lens, seen>>
ProfileOne == phase = "profiling" /\ \E k \in todo : CaptureOne(k)
EndProfilingKeepsGraphs ==   \* mutant: without clear_all_graphs
  /\ phase = "profiling" /\ todo = {}
  /\ phase' = "profiled" /\ enabled' = FALSE /\ pool' = "global" /\ keys' = {}
  /\ UNCHANGED <<conf, mode, sizes, todo, graphs, scales, slot, table, lens, seen>>
EndProfiling ==
  /\ phase = "profiling" /\ todo = {}
  /\ phase' = "profiled" /\ enabled' = FALSE /\ pool' = "global"
  /\ graphs' = {} /\ keys' = {}
  /\ UNCHANGED <<conf, mode, sizes, todo, scales, slot, table, lens, seen>>

(* initialize_kv_cache with the final number of blocks. *)
InitializeKVCache ==
  /\ phase = (IF conf.estimate THEN "profiled" ELSE "start")
  /\ InitializeAttnBackend(conf.blocks, "ready")
  /\ UNCHANGED <<conf, todo, graphs, pool, enabled, scales, slot, table, lens, seen>>

(* capture_model. *)
StartCapture ==
  /\ phase = "ready"
  /\ IF mode = None THEN phase' = "serving" /\ UNCHANGED <<todo, enabled>>
                    ELSE phase' = "capturing" /\ todo' = keys /\ enabled' = TRUE
  /\ UNCHANGED <<conf, mode, sizes, keys, graphs, pool, scales, slot, table, lens, seen>>
CaptureGraph == phase = "capturing" /\ \E k \in todo : CaptureOne(k)
EndCapture ==
  /\ phase = "capturing" /\ todo = {}
  /\ phase' = "serving" /\ enabled' = FALSE
  /\ UNCHANGED <<conf, mode, sizes, keys, todo, graphs, pool, scales, slot, table, lens, seen>>
-----------------------------------------------------------------------------
(* A batch: its requests in the order of the rows, and the row each token of   *)
(* the flattened batch belongs to (req_indices of _prepare_inputs).            *)
Layouts(n, k) ==
  {f \in [1..n -> 1..k] : /\ \A s, t \in 1..n : s <= t => f[s] <= f[t]
                         /\ \A i \in 1..k : \E t \in 1..n : f[t] = i}
BatchesOf(n, k) ==
  [rows : {r \in [1..k -> Reqs] : IsInjective(r)}, row : Layouts(n, k), n : {n}, k : {k}]
Batches == UNION {UNION {BatchesOf(n, k) : k \in 1..MaxSeqs} : n \in 1..MaxTokens}
Scheduled(b, i) == Cardinality({t \in 1..b.n : b.row[t] = i})
max_query_len(b) == Max({Scheduled(b, i) : i \in 1..b.k})
IsUniformDecode(b) == max_query_len(b) = conf.q /\ b.n = conf.q * b.k

(* _prepare_inputs: slots and block tables of the batch; seq_lens of all rows. *)
PreparedSlot(b) == [i \in 1..MaxTokens |-> IF i <= b.n THEN b.rows[b.row[i]] ELSE slot[i]]
PreparedTable(b) == [i \in 1..MaxSeqs |-> IF i <= b.k THEN b.rows[i] ELSE table[i]]
PreparedLens(b) == [i \in 1..MaxSeqs |-> i <= b.k]

(* _get_slot_mappings and _get_block_table: -1 from the batch to its padding.  *)
FillSlotNothing(s, from, to) == s   \* mutant
FillSlot(s, from, to) == [i \in DOMAIN s |-> IF i \in from + 1..to THEN Pad ELSE s[i]]
FillTable(s, from, to) == [i \in DOMAIN s |-> IF i \in from + 1..to THEN Pad ELSE s[i]]

(* What the forward pass reads: a FULL graph, or attention with padded         *)
(* metadata, all of its rows and tokens; otherwise attention runs on the batch *)
(* itself, and only a separate KV update on the padded tokens.                 *)
Execute(b, cascade) ==
  LET k == Dispatch(b.n, IsUniformDecode(b), AllModes \ (IF cascade THEN {Full} ELSE {}))
      d == k[2]
      r == IF d.r = 0 THEN b.k ELSE d.r
      pad == k[1] = Full
      tokens == IF pad \/ conf.separate THEN d.n ELSE b.n
      reqs == IF pad THEN r ELSE b.k
      run == IF scales THEN <<None, d>> ELSE k
  IN
  /\ phase = "serving"
  /\ slot' = FillSlot(PreparedSlot(b), b.n, tokens)
  /\ table' = FillTable(PreparedTable(b), b.k, reqs)
  /\ lens' = PreparedLens(b)
  /\ scales' = FALSE
  /\ IF CallFails(run)
       THEN phase' = "dead" /\ UNCHANGED <<graphs, seen>>
       ELSE /\ Call(run) /\ UNCHANGED phase
            /\ seen' = [owner |-> [i \in 1..b.n |-> b.rows[b.row[i]]], rows |-> b.rows,
                        slots |-> [i \in 1..tokens |-> slot'[i]],
                        tables |-> [i \in 1..reqs |-> table'[i]],
                        lens |-> [i \in 1..reqs |-> lens'[i]]]
  /\ UNCHANGED <<conf, mode, sizes, keys, todo, pool, enabled>>

Stopped == phase \in {"dead", Rejected} /\ UNCHANGED vars

Next ==
  \/ StartProfiling \/ ProfileOne \/ EndProfiling
  \/ InitializeKVCache
  \/ StartCapture \/ CaptureGraph \/ EndCapture
  \/ \E b \in Batches, cascade \in BOOLEAN : Execute(b, cascade)
  \/ Stopped

Spec == Init /\ [][Next]_vars
-----------------------------------------------------------------------------
(* Neither a capture nor a batch trips an assertion of _dummy_run, the         *)
(* dispatcher or the capture guard: what is captured is what is dispatched     *)
(* later, whatever mode the configuration was resolved to.                    *)
NeverDead == phase # "dead"

(* Once serving, every key of the dispatcher has its graph, captured in the    *)
(* global pool and not left over from profiling.                              *)
ServingGraphsComplete ==
  phase = "serving" => /\ {<<g[1], g[2]>> : g \in graphs} = keys
                       /\ \A g \in graphs : g[3] = "global"

(* The resolved mode is one the attention backends support, and resolving it   *)
(* again (profiling does, and then initialize_kv_cache) changes nothing.      *)
ResolvedModeIsSupported ==
  phase \notin {"start", "rejected"} =>
    /\ mixed_mode[mode] = Full => conf.support = 3
    /\ decode_mode[mode] = Full => conf.support > 0 /\ (conf.q > 1 => conf.support >= 2)
    /\ Resolve(conf, mode) = mode

(* Profiling leaves no trace: the keys are those of a worker that was started  *)
(* without it, although it resolves the mode and adjusts the sizes for a KV    *)
(* cache that is much smaller than the final one.                             *)
ProfilingLeavesNoTrace ==
  phase \in {"ready", "capturing", "serving"} =>
    LET m == Resolve(conf, conf.mode)
    IN  keys = Keys(conf, m, AdjustForMamba(conf, m, AdjustForSpecDecode(conf, m, conf.sizes),
                                            conf.blocks))

(* Whatever the buffers held, a forward pass writes and reads the KV cache of  *)
(* the batch's requests only: the places of the padding are -1 and their rows  *)
(* empty, and the graph is large enough for the batch.                        *)
SeesOnlyTheBatch ==
  /\ Len(seen.owner) <= Len(seen.slots) /\ Len(seen.rows) <= Len(seen.tables)
  /\ \A i \in DOMAIN seen.slots :
       seen.slots[i] = IF i <= Len(seen.owner) THEN seen.owner[i] ELSE Pad
  /\ \A i \in DOMAIN seen.tables :
       IF i <= Len(seen.rows) THEN seen.tables[i] = seen.rows[i] /\ seen.lens[i]
                              ELSE seen.tables[i] = Pad /\ ~ seen.lens[i]
=============================================================================
