# TLA+ models of the gfx906 vLLM stack

This directory is a verification project for the repository: TLA+ modules of
the parts whose correctness depends on order, failure and recovery, TLC
configurations that model-check them, and TLAPS proofs of what matters most.
`PROJECT.json` lists the components, the runs, the mutants that show each
property can fail, the source lines behind every definition, the findings, the
hazards and the theorems.

Short names used below: *deploy* is `src/qwen36-gfx906/deploy.sh`; *AR* is
`src/qwen36-gfx906/files/gfx906_runtime/python_overlays/persistent_ar_kindroute_20260613/`;
*stage* is `src/qwen36-gfx906/stage_vnext_gguf_assets.sh`; *vllm* is
`src/qwen36-gfx906/overlays/gguf-moe/minimal-bundle/vllm/`.

## 1. The system

The repository deploys a patched vLLM for a host with four or eight gfx906
GPUs. A shell script prepares the host's Docker, builds an image and brings a
server up; the image contains Python overlays over vLLM; inside the server,
one worker process per GPU runs the model under tensor parallelism and reduces
partial sums through a persistent all-reduce "sidecar" instead of RCCL.

| Component | State it keeps | Operations | Talks to |
|---|---|---|---|
| deploy.sh orchestration (*deploy* 13209–15509) and the Makefile | `daemon.json` and its backup, the system dockerd, a temporary data-root, a private dockerd/containerd pair with pid files, service containers, three shell flags | gates, start of the private daemons, apply and restore of the temporary root, build, save, load, readiness wait, EXIT trap, `make clean` | systemd, dockerd, containerd, compose |
| Persistent all-reduce sidecar (*AR* `gfx906_persistent_ar.py`) | per process: handles by library, started workers, launch counter, prefix occurrences, routes read from the environment | `try_all_reduce_inplace`, the fused add-RMS boundary, `preinit_for_graph_capture`, `start_deferred_workers` | a C library per route; environment variables |
| Capture context and wrappers (*AR* `parallel_state.py`) | environment variables saved by nested contexts, a count of contexts | `graph_capture`, `all_reduce_inplace*` | sidecar, RCCL |
| Row-parallel routing and parallel linear layers (*AR* `linear.py`) | the weights of a rank | kind and prefix of each layer's reduction; creation and loading of shards | wrappers, model definitions |
| sitecustomize hooks (*AR* `sitecustomize_postcapture_start.py`) | one-shot "armed" flag in the environment | wrap `profile_cudagraph_memory`, `capture_model`, `execute_model` | sidecar, model runner |
| GPU model runner (*vllm* `gpu_model_runner.py`) | cached requests, persistent batch, pinned input buffers, results of the last step, outputs under way | `_update_states`, `_prepare_inputs`, `execute_model`, `sample_tokens`, asynchronous outputs; resolution of the graph mode, memory profile, capture, dispatch | scheduler, device, graph wrapper |
| CUDA graph wrapper (*vllm* `cuda_graph.py`) | graphs by mode and batch descriptor, the pool | capture on first use, replay, clear | model runner, dispatcher |
| Residual prefold (*AR* `communication_op.py`, `qwen2_moe_interleaved_swiglu_20260608.py`) | one pending residual per process | begin, consume, clear | all-reduce, decoder layer |
| Model definitions and GGUF loaders (`qwen3_5.py`, `qwen3_next_tp4x2_in_tp8.py`, `gguf.py`) | which slice of which tensor a rank holds | build, load, forward | parallel layers, the file |
| Attention and expert kernels (`triton_attn.py`, `triton_unified_attention.py`, `fused_moe_tp8.py`) | the KV cache, shared segment buffers, shared intermediates | cache update, 2D and 3D attention, segment reduction; alignment, two grouped products, sum | model runner, graph wrapper |
| Measuring (`run_chat_capture.py`, `run_qwen36_live_tps.py`, `begin_think_proxy.py`, the benchmark scripts) | samples of the server's counters, the rows scored | wait for idle, sample, ask, wait for the counters, gates | server |
| GGUF asset staging (*stage*) | archive, config directory, manifest, parts, parts list, `.tmp`, model | two download functions | a release server; whoever reads the models |
| vNext launch (`vnext_repro_launcher.sh`, `verify_vnext_launch_artifact.sh`, `verify_vnext_release_readiness.sh`) | run directories, patch bundles with their manifests, containers by name | check a profile and write its directory, verify it, replace the container, install the bundle's files, start the engine; do that for all profiles and measure each | Docker, server, benchmark script |
| Other release scripts, host tools, VRAM check, format probe | none across runs | see `PROJECT.json` | |

What is hard in it:

* *Ranks.* Eight processes take the same decisions from private copies of the
  same state. A decision taken differently on one of them (a library that
  fails to load there only, a counter advanced on one return path and not on
  another) makes a collective that never completes.
* *Order of the lifecycle.* Handles must exist before a graph is recorded,
  deferred workers must be started before anybody waits for them, and three
  nested wrappers switch the sidecar off and on through environment variables,
  also when an exception unwinds them.
* *Cleanup.* Under `set -e` every command of the deployment may be its last.
  One trap must undo the right half of what was done, on a host that still
  carries what earlier runs, crashes and reboots left.
* *Recovery.* A download of many gigabytes is cut short somewhere, and the next run starts
  over on the files it finds.
* *Two steps at once.* With asynchronous scheduling the runner prepares a step while
  the device still works on the last one. What it writes is provisional and is
  corrected by batch row, while requests finish, leave, return and move rows.
* *Frozen decisions.* A recorded graph has its sizes, its kernel and its buffers
  fixed. The batch it is replayed for is smaller, and the rest of the buffers holds
  whatever earlier batches left.
* *Slices.* A head or a column must enter each sum once over all ranks, with the
  partners it had in the file, although ranks share heads, files come in two head
  orders and experts are cut for other groups than the layers around them.
* *Leftovers.* A run directory is written over an older one, file by file, and is mounted
  into the container that reads it; stopping the last container may fail unnoticed, and
  whoever listens on the port is measured.
* *Late numbers.* Throughput is measured by differences of counters that are written
  after the answer, and move for other clients, too.

### Properties that make each component correct

* Deployment: the system Docker is back to what it was after every run; a failed
  isolated run leaves nothing, a successful one is not taken down by its own
  trap; the data-root being served is not deleted; what is reported deployed is
  where the next start of the daemon will find it.
* Sidecar: all ranks issue the same collectives over the same transport; no
  handle is created while recording; no one waits for a worker that was not
  started; wrappers put the environment back; start-up does not hang.
* Staging: only verified models appear under a final name; the success message
  is true; leftovers never wedge the next run.
* Graphs: whatever mode the configuration is resolved to, what is dispatched was
  captured for serving, and a forward pass sees its own batch only.
* Model runner: the device is fed the requests' own tokens, an output goes to the
  step it was promised for, and a client gets its tokens in order, each once.
* Prefold: a pending residual is added to its own layer's sum, once, on every rank.
* Layers: every head and column enters each sum once, in the order of the file.
* Kernels: a token sees its keys, each once, from its own request; a token gets its own
  experts, each once.
* Launch: an engine has the files of its model's format and family and, from a directory
  written to its end, all its patches and the pinned versions; a benchmark measures the engine
  of its own profile.
* Measuring: what is reported as settled is the measured request's, and the strict gate
  passes only answers that closed their reasoning.

## 2. Modules

| Module | Models |
|---|---|
| `DeployLifecycle` | runs of deploy.sh one after another on one host, with systemd, crashes, reboots and `make clean` |
| `MCDeployLifecycle` | the flag settings TLC explores, and the claims of §5 |
| `DeployLifecycle_proofs` | its theorems |
| `Collectives` | abstract: what the ranks of a group owe each other |
| `PersistentAR` | the sidecar, the capture context, the wrappers and the hooks of every rank, driven by the engine |
| `MCPersistentAR` | routes and forward passes for TLC |
| `PersistentAR_proofs` | its theorems: agreement of the ranks, the nested wrappers |
| `AssetStaging` | the staging script, one command a step |
| `MCAssetStaging` | two models and three releases for TLC |
| `AssetStaging_proofs` | its theorems |
| `TokenStream` | abstract: what a client of the model runner is promised |
| `ModelRunner`, `MCModelRunner`, `ModelRunner_proofs` | the persistent batch, the asynchronous pipeline and the engine around them |
| `ModelRunnerInputs_proofs` | that the device is fed the right tokens, from the invariants of `ModelRunner_proofs` |
| `GraphDispatch`, `MCGraphDispatch` | graphs of one worker from configuration to replay |
| `ResidualPrefold`, `MCResidualPrefold` | the pending residual through repeated forward passes |
| `MCForwardPass` | composes the last two for one run |
| `ForwardPass_proofs` | the theorems of both |
| `Benchmark`, `MCBenchmark` | both ways of measuring, against a server with late counters |
| `VnextLaunch`, `MCVnextLaunch` | profiles from the launcher to an engine that is measured |
| `MCRelease` | composes the last two for one run |
| `Release_proofs` | the theorems of both |
| `ShardedLayers`, `MCShardedLayers` | weights of all ranks from file to sum |
| `UnifiedAttention` | one rank's attention over its paged cache |
| `FusedExperts` | one rank's routed experts |
| `MCDecoderLayer` | composes the last three for one run |
| `DecoderLayer_proofs` | the theorems of the three |

Operators marked "Mutant" in a module are wrong variants of the operator after
them; nothing uses them but the mutants of `PROJECT.json`.

### DeployLifecycle

State. `daemonJson`, `backup`, `sysDocker`, `tempRoot` are the system side;
`iso` is the private side (`dir`, the daemons `live` under it, `orphans` whose
pid file was removed, `stalePid` for a pid file that names a dead process);
`svc` the data-roots on which the service runs; `flags` the shell variables
`DOCKER_TEMP_DATA_ROOT_ACTIVE`, `..._EXISTED`,
`DOCKER_ISOLATED_DEPLOY_SUCCEEDED`; `opt` the settings of the run; `pc` the next
group of commands and `ret` the caller of `restore_docker_data_root`, which the body, the
build-only exit and the trap all call. `hist` and `count` are history
and bounds. A restart of the system Docker succeeds, brings the daemon down, or does
nothing (`RestartIgnored`): `restart_docker_service` is called as a condition, which turns
`set -e` off inside it, so what `systemctl` returns is lost and only the daemon's answer
counts, which the daemon on its old root gives, too.

Actions follow the main script in order: `StartRun`, `PassDiskGates`,
`PassGpuGates` (with the `CHECK_GPU_ONLY` exit), `StartIsolated`,
`LaunchContainerd`, `LaunchDockerd` or `BackUpDaemonJson`, `InstallTempConfig`,
`RestartOnTempRoot`, `ActivateTempRoot`, then `ComposeDown`,
`ComposeBuildSeedUp`, `FinishBuildOnly`, `SaveImage`, `LoadImageAndUp`,
`ReportDeployed`. `AbortBody` is any of: a command failing under `set -e`, a
gate that refuses, a wait that times out, INT or TERM. The trap is
`RestoreConfig`, `RestoreCopyFails`, `RestartOnOriginalRoot`, `DropTempRoot`,
then the cleanup of the private daemons. `AbandonRun` is a trap cut short. The
host may lose a daemon, reboot, have a container exit, be cleaned. Building,
copying and downloading change nothing the properties see and are part of the
step they precede.

### PersistentAR and Collectives

The engine broadcasts a call (profile, measure graphs, capture, execute) as a
list of steps, `rpc`. Each rank performs them at its own pace: `RankStep(r)`
applies one step to the rank's state, and `past[r]` remembers its states since
the call began, so that properties can compare the ranks step by step. `Core`
is one process: the two environment variables, what the open wrappers saved,
the number of capture contexts, the handles, started workers, the launch
counter, the prefix occurrences, the armed flag, the recorded graph, and the
collectives the last step issued, each named by its transport (a library, or
`"public"` for RCCL).

`TryAllReduceInplace`, `TryAddRms`, `PreinitForGraphCapture`,
`StartDeferredWorkers`, `EnterCapture`, `EnterProfile`, `Leave`, `EndExecute`
translate the functions of those names; `Raise` is an exception unwinding the
wrappers. Any step may meet a failing library on one rank (`Fault`). The engine
goes on (`Quiescent`) only when every rank has finished and all have issued the
same collectives: with different transports the device work never completes.

`Collectives` says only this: ranks append batches, no two disagree on a batch
both have issued, a rank may abort, and a new call starts when all have issued
the same. `PersistentAR` implements it by reading each rank's issued batches
off `past` and the aborted ranks off their status (`Group!Spec`).

### AssetStaging

A file is a sequence of blocks, its hash is the sequence itself, and an absent
file is the empty one. `disk[m]` holds what is on disk for a model: `manifest`,
`parts`, `list`, `tmp` and the model, which may be a link. `run.pc` is the
command the run is at. `Torn` gives, for each command, what it leaves when it is
cut short; `Interrupt` picks one and ends the run. `Republish` changes the
release between any two commands.

### ModelRunner and TokenStream

Three parties. The *engine* (external) schedules any part of any requests' tokens
(`Schedule`), preempts, aborts and resubmits, and takes outputs (`TakeOutput`).
The *runner's* thread performs a step in two calls (`ems` is
`execute_model_state` between them): it updates the cached requests `req` and the
batch `rows`, prepares the reused buffers `buf` and queues device work; with
asynchronous scheduling it uses what it knows of the last step, `prev`
(`prev_req_id_to_index`), and placeholders. The *device* works off `queue` in order:
`GpuInput` fills in the ids, `GpuSample` runs the pass and the rejection sampler,
`CopyCounts` is the side stream. An output in `outputs` is promised before the
device has produced it. The engine schedules the next step before it takes the
last output, as the code counts on.

A token is `<<request, life, position>>`, so a wrong row, a wrong position or a
token of an earlier life of the same name shows. `StreamsInOrder` is the
refinement of `TokenStream`, which knows only each client's output.

### GraphDispatch

`Resolve` lowers the configured mode in four steps (`ForMixed`, `ForDecode`,
`ForSpecDecode`, `DoubleCheck`), and the capture sizes are adjusted to it; then the worker
profiles (`StartProfiling`, `ProfileOne`, `EndProfiling`) or not, gets its final
cache (`InitializeKVCache`), captures (`StartCapture`, `CaptureGraph`, `EndCapture`)
and serves (`Execute`). `graphs` are the wrappers' entries by mode, descriptor
and pool; `slot`, `table`, `lens` are the persistent buffers, with the request each
place belongs to; `seen` is what the last pass read. An assertion of the code
that fails leads to the phase `dead`, a configuration it refuses to `rejected`.

### ResidualPrefold

Every rank runs the same layers. A tensor is what it is a sum of, in units of
1/TP of a contribution, so that a residual folded by one rank too few shows as a
wrong number of units. A forward pass may raise anywhere the code does; the next
one starts with whatever the module globals hold. Its specification is `PrefoldSpec`.

### Benchmark

The server makes a token (`Generate`) and records the step later (`Record`); it
may restart, and serve others (`OtherClient`). A script goes through `WaitIdle`,
`ReadBefore`, `Post`, `ReadAfter`, `Score` for each of its stages, or fails. Time is
left out: a wait may end before or after anything.

### VnextLaunch and MCRelease

A run directory is a record of its files, each with the request it was written for, how
far it is (`torn`, `ready`; an entrypoint with its placeholder; a command cut off) and
whether it is executable. `Launch` checks the request (`Preflight`) and opens the
directory, perhaps an old one; `WriteFile` takes one of `Steps`; `KillLauncher` stops
between any two. `Verify` is the verifier (`ArtifactIsValid`); what it passed stays in
`verified` until somebody writes there. `Begin`, `StopAndRemove`, `DockerRun`,
`ServerAnswers`, `Capture` are one turn of the readiness loop, `Die` its end at any step;
`RunByHand` is somebody else's use of docker_run.sh. In the container, `CheckBundle`,
`CopyTargets`, `ApplyPatches` and `ExecCommand` read the directory and the bundle as they
are at the moment. The text of the files is left out, the table of copies is in `Targets`
with one row of each kind.

The ladder of captures is one step in `VnextLaunch` for each half and a script of its own in
`Benchmark`; a run of `MCRelease` follows one of the two modules. Their common ground is
that a capture is answered by one server.

### ShardedLayers

`Program` is the order in which a layer's parameters are built, with the context
of the shared expert as two statements. `LoadWeight` takes any tensor left in the file:
the conversions (`Converted`), the shard of the rank (`Part`), the place in the
parameter (`Place`, `Store`). The sums of `Attention`, `DeltaNet` and `FeedForward` are
sets of terms that name the heads or columns which met in them, by rank and
reduced over the group the code reduces over.

### UnifiedAttention, FusedExperts, MCDecoderLayer

`UnifiedAttention`: `UpdateCache` writes the new tokens' keys and looks up how the
batch is launched (`Launched`: from a full graph, whose sizes are frozen, or with
its own); `Launch2D`, or `Launch3D` and `Reduce`, compute the output; `NextStep` lets
requests go on or gives their rows and blocks to others. `Tiles`, `SegmentTiles`, `Lanes`,
`max_seq_prefix_len`, `find_seq_idx` are the index arithmetic of the kernels. A sum
is the set of its terms; where two programs store one sum, either is the last.

`FusedExperts`: `Align`, `MultiplyW1`, `Activate`, `MultiplyW2`, `SumExperts` are one chunk of
`fused_experts_impl`, or all of `TritonExperts.apply`, whose fast path is `FastPath`.
`Products` is what the grid of `fused_moe_kernel` stores, through the table of
`moe_align_block_size` (external), which sorts an expert's routes in any order.

A run of `MCDecoderLayer` follows one of the three computations, chosen in the
initial state. They share no state: the modules fit together through what
each takes for granted of the next (which heads a rank has, which experts).

## 3. Runs

| Run | Question | Distinct states |
|---|---|---|
| `deploy_runs` | Does the trap undo a failed run, and nothing else, whatever the runs before it left? Is a deployed stack on the data-root that is configured? | 483,854 |
| `ar_kind_route` | The shipped dense profile with a fused boundary: do the ranks agree, is nothing created while recording, is the group contract implemented, does start-up end? | 11,592 |
| `ar_deferred` | Call-site routes, bypasses and deferred workers started after capture and after a prefill: do the ranks' counters stay alike, do the nested wrappers restore the environment, is everything served and recorded answered by workers that run? | 7,085 |
| `staging` | Are the final names and the final message to be trusted, and does a clean run always succeed? | 505,105 |
| `runner` | Are the tokens fed and returned each request's own, in order, while two steps are in flight? | 632,431 |
| `forward_pass` | Does every configuration resolve, profile and capture such that any batch finds its graph and sees only itself? Is the residual in the stream exactly once, however it is added and whoever raises? | 114,828 |
| `bench` | Are the numbers called settled, and the cases of the legacy harness, those of the measured request? Does the gate need a closed reasoning? Has an engine the files of its model, and is it the measured profile's? | 2,304,995 |
| `layers` | Does every rank hold, multiply and reduce the right slices? Do the kernels read the right keys, and the right experts? | 130,064 |
| `claim_*` | Four statements of the repository, each refuted (§5) | |

Bounds, and why they are enough:

* `deploy_runs`: eleven flag settings, chosen so that each flag is varied from
  the default of its mode; three runs, so that one run's leftover can become the
  next one's original and harm a third; two faults (`MaxFaults`: restarts that fail or
  do nothing, daemon crashes, reboots), so that one may hit a run and another its cleanup.
  Failures of ordinary commands and cut traps are not bounded.
* `ar_*`: three ranks, so that a rank can agree with one and not with the other;
  two libraries beside RCCL, since a route either has its own library or the
  default one; two or three all-reduces a pass, one per kind; two or three requests
  (prefills and decodes in every order against first handle, start and replay); two
  failures, so that one may follow or coincide with another on a different rank.
  `ar_kind_route` sets the hooks as the shipped profile does, `ar_deferred` as its
  documented variant. Two settings of the source are not exercised by a run:
  `CAPTURE_ONLY`, and a number of capture contexts to skip. Under the latter
  nothing is recorded with the sidecar, and most of what is checked would hold for
  want of anything to check. Symmetry of the ranks is used only in `ar_deferred`,
  which checks invariants only.
* `staging`: models of three and two blocks in one to three parts, three faults
  (two interruptions and a republication in any order), the initial final names
  free, damaged, whole or links to any of these. Re-runs are not bounded.
* `runner`: four configurations (asynchronous with zero, one and two drafts,
  synchronous with one); two requests, prompts of one and two tokens, so that a
  prompt can be cut; up to three tokens of output, so that one step's output is
  placed while the next is prepared and a third scheduled; one preemption, one abort,
  one resubmission, in any combination. Two requests give both orders of rows and
  every change between them. Three tokens for the first request beside two for the
  second, with one draft, hold as well, in twice the time.
* `forward_pass`, graphs: 360 configurations (five modes, four levels of support, three ways to
  compile, three shapes of decodes and sizes, one of which no size fits, two ways
  to start); a batch of up to four tokens of two requests, so that one can
  leave its place to the other and leave padding behind it.
* `forward_pass`, prefold: two ranks, two layers (so that a residual can reach the next layer and
  the next pass); all switches, kinds of layer, and shapes chosen anew each pass.
* `bench`: two stages, one request of another client, one restart, two polls of an
  idle wait that gives up after the last; answers of one or two tokens, so that a
  counter can be half-way. Launches: the four shipped profiles, two of which serve the same
  name and differ in one group, and requests that launcher or verifier refuse, each for
  another reason; one directory, written twice, so that each file can be old or new; two
  containers, started by the loop or by hand, so that one can be in the way of the other; one
  edit of a bundle or loss of a manifest. Nobody is assumed to write a directory while a server
  is being started
  from it (`InUse`).
* `layers`, weights: 218 configurations in worlds of two, four and eight ranks, with
  heads on several ranks and several heads on one, in any order of the file. The
  conversion of GGUF heads, written for 48 heads in groups of three, is for 24 in groups
  of three here (`GgufHeads`, `GgufGroup`), and files of other numbers are among the
  configurations.
  Attention: five configurations (a spare lane or none, decodes of one and two tokens,
  windows shorter and longer than a tile, no graph, decode graphs and graphs for all
  batches), up to three requests of at most four tokens a step, with or without three
  cached ones, over two steps, so that segments and blocks are used again. The constants
  16, 128 and 16 of the code (lanes, grid, segments) are 4, 2 and 2, which keeps
  every branch: more segments than tiles, fewer, a batch over the threshold. Experts: up
  to three tokens with one or two of three experts out of eight, chunks of two, so that the
  second chunk is shorter than the first, on each path, with a map of experts and without.

Deadlock is checked except in `deploy_runs` and the deployment claims, where after
the last allowed run the host may rest, and in the measuring runs, where a script
has ended. In `PersistentAR` the action `Stopped` marks the two ends a run may have, so
a deadlock there is a hang of the ranks: a state in which nobody has raised and the
engine still waits. `ModelRunner` has `Idle`, `GraphDispatch` its `Stopped`, the parts of the
layer `Ended` and `Finished`, to the same end.

### Fairness

* Deployment: none. That a run ends would follow from the time limits of its waits
  alone, and nothing in the script brings back a system Docker that is down: it prints
  "please restart docker manually" (*deploy* 14713).
* Sidecar: `WF(RankStep(r))`, because a rank enqueues collectives and does not
  await them, and `WF` of the engine's start-up calls. Nothing makes device work
  complete but agreement.
* Staging: `WF(RunStep)`, a command that is not cut short ends. Nobody is obliged
  to start the script again.
* The other modules state no liveness. The model runner has no wait of its own
  but for the device, and the scripts' waits all have limits after which they go on.

## 4. Theorems

All are proved for every value of the constants under the named assumptions of the
modules (`DeployAssumption`, `ARAssumption`, `StagingAssumption`, `RunnerAssumption`,
`GraphAssumption`, `PrefoldAssumption`, `LaunchAssumption`, `ShardAssumption`, `AttnAssumption`,
`MoeAssumption`). They type the
constants, and say besides: for the sidecar that there are finitely many libraries and that a
call bypassed by prefix has a prefix; for the graphs that no capture size exceeds the
token budget; for the prefold that there are two ranks at least, and that "no tensor" is none
of the tensors; for the runner that the tokens a step adds to a request are bounded
(`MostAtOnce`); for the launch that every model is of one of two
families, which the launcher sees or does not; for
the layers what the constructors assert, that quantised weights are those of a dense model,
that interleaved gate and up weights are neither quantised nor experts, and that a fused
matrix with as many rows as the GGUF conversion expects has as many value heads as it expects;
for the attention that the heads are a multiple of the
key heads; for the experts that a batch is not empty, that without a map of experts all are
local, and that a token's experts are experts, all different. TLC evaluates them in every run.

Type correctness of the deployment, the sidecar and the staging script is a theorem
(`TypeCorrect` of each) and not a run's invariant.

`DeployLifecycle_proofs`. The inductive invariant is `TypeOK /\ SwapInv /\
PrivateInv`. `SwapInv` ties the ACTIVE flag to the backup: while it is set, the
backup is the configuration the run found (or there was none); when it is
cleared the configuration is back; and after a restart that had its effect and followed a
good restore the daemon is off the temporary root. Without it `AppliedRunRestored`
is not inductive, as nothing would connect `backup` with `hist.pre`.
`PrivateInv` says there are no live daemons without a private root, and that a
run with the success flag can only be in its trap. From it follow
`AppliedRunsAreRestored`, `CleanStartsKeepTheLiveRoot` (which names the three ways in which
the code does delete a root in use), `DeployedStacksOnConfiguredRoot`,
`FailedIsolatedRunsLeaveNothing`, `DeployedStacksSurviveTheTrap` and
`IsolatedRunsLeaveSystemDocker`.

`PersistentAR_proofs`. The inductive invariant is `PastInv /\ CountInv /\ StepInv
/\ AgreeInv`. `StepInv` says that with STRICT a step either raised or is the
step without any failure: that is what STRICT buys, and it is proved operator by
operator (`Miss`, `Launch`, `Sidecar`, the fused boundary, preinit, the hooks).
`AgreeInv` says that ranks which have not raised went through the same states;
it follows by the determinism of the failure-free step. `RanksAgreeOnTransport`
and `RanksAlikeBetweenCalls` are read off it. They hold for any number of
ranks, any routes, model, hooks, bounds and failures. `ImplementsCollectives` is the
refinement: under the mapping of `Group`, `AgreeInv` gives that what two ranks have
issued is the same as far as both got (`Compatible`), and each step of a rank is an
`Issue`, a raise, the start of the next call or a stutter of `Collectives`.

`AssetStaging_proofs`. The inductive invariant adds to `TypeOK` that models the
run has passed are in place, that what is about to be moved is the verified
model, and that the config is complete once the models are being worked on.
`StagedIsComplete` and `FinalNamesAreVerified` follow, for any models, any
releases (wrong ones too) and any interruptions.

The second half of `PersistentAR_proofs` goes on from this invariant and adds
`CInv`, which is `CallInv /\ OpenInv /\ NoCreateWhileRecording /\ AnsweredInv`.
`CallInv` says that the engine's calls are well nested; `OpenInv` that an open wrapper
was entered at an earlier step of the call and is left at a later one, and that what
it saved is what was there before. So an exception restores the environment at
whatever step it comes (`EnvironmentComesBack`), every configured route has its handle
when something is recorded (`RecordingCreatesNothing`), and with START_AFTER_CAPTURE every
library in the graph has its worker when serving begins (`GraphsAreAnswered`).
`ServedAreAnswered` adds the eager calls of a served request. It assumes a model without
fused boundaries: those launch without asking whether the worker was started.

`ModelRunner_proofs` has three invariants, each resting on the ones before.
`Pipeline` lists the six contents the device queue can have, and for each which output waits
for the buffers and which for what the device has taken; without it nothing would say that the
buffers are not rewritten before they are taken (`OutputsAreTheirSteps`).
`CInv` counts: of a request the engine has as many outputs as the worker caches, plus the
placeholders it holds for steps in flight, minus the drafts these have rejected; the counts
buffer has the lengths of the last results, and the rows of the last output are those of
`prev`. So the numbers of `scheduled_cached_reqs` are never behind the cached ones
(`CachedOutputsOnlyGrow`) and a request with drafts is found in `prev_req_id_to_index`
(`LookupsSucceed`).
`PInv` gives positions: each step in the buffers, on the device, waiting or finished samples
each of its requests where its result is due, which is behind the engine's tokens plus
what the output before it will add. `StreamsKeepTheirOrder` is the refinement: taking an
output is a `Give` of `TokenStream` for the requests in it, and every other step a stutter,
an end or a new life.

`ModelRunnerInputs_proofs` has one theorem, `DeviceIsFedTheRequestsTokens`. What the device
reads was settled earlier and in four places, so the invariant `FInv` speaks of all of them.
`FedHolds`: what was read and not yet sampled is right. `BufHolds`: what waits in the
buffers, with the last results scattered into it, is what the device will need *then*
(`RealThen`, `KvThen`: what it will have after sampling what it has read).
`Computed` and `Exist` tie the engine's numbers to the device's: the engine counts as
computed the drafts that were refused and not yet reported (`Refused`). `AsyncRows`,
`LastSamples` and `LastIdx` say that a row without placeholders is whole, and one with a
placeholder is found by `prev_req_id_to_index` although rows are compacted and moved;
`SyncRows` says the same where tokens are booked at once. Each part is needed by another:
`execute_model` builds the buffer from rows and numbers, and sampling makes rows out of it.
The buffer is flat, and the model finds its cells with the library's folds, which take elements
in an order of their own. That each gives the same total (`TotalsAgree`) and that cells
of different rows do not meet (`OnePlace`) is shown by a least set or a least row for which it
would fail.

`ForwardPass_proofs`, graphs: `OnlyTheBatchIsSeen` (captured sizes fit the buffers, a
descriptor is at least as large as its batch, and the places between are overwritten
in the same step) and `TheModeIsSupported` (the four steps by cases: the mode is
one the backends support, and resolving it again changes nothing).
`GraphsAreComplete`: a key is padded to itself, so what is recorded under it is its own
graph, and `CapturedInv` counts the keys that are done. `NoWorkerDies`: in modes with
uniform decode graphs all sizes are whole requests (`AliveInv`), so every assertion on the
way holds. `ProfilingLeavesNothing`: resolving and adjusting are idempotent, and the
cache that profiling uses holds every size (`TraceInv`).

`ForwardPass_proofs`, prefold: `NoResidualIsLeftBehind`, an invariant on its own, and
`StreamsAreExact`. Between two all-reduces the ranks are on one path of at most two steps
(`PathInv`), so ranks at one place are in one state; for each place in a pass the invariant says
what the stream, the residual and the pending tensor sum up to together. That a sum over the
ranks of equal tensors is as many times one of them (`SumOfEqual`) is shown by the
least number of ranks for which it would fail.

`Release_proofs` has five theorems. `SettledCaptures`: what the counters will show once all
is recorded is the sum of the requests so far, so a harness that saw its own request's tokens
saw nobody else's; partial sums are bounded by it. `UndisturbedCases` adds what the legacy
harness tests. `GateIsClosed`: neither the long capture nor
exit status 0 comes before a strict capture whose reasoning was closed. `EnginesFit` (what
the verifier passed may still be cut in its configuration or its patches: the theorem says
what an engine has in that case, and what it has in the other) and `LaddersMeasureTheirProfile`
follow the files: each file of a
directory is of one of the requests written there, what the verifier passed is of one
request until somebody writes, the container keeps what it copied, and the answer comes
from the container that the loop started.

`DecoderLayer_proofs` begins with what the folds of the community modules add up to
(`SumsExist`, `AnyOrder`: a set sum has one value in whatever order it is taken; shown by a least
size for which it would not), division (`CdivIs`, `DivBounds`) and the order of products. Six
theorems rest on it.

* `KeysAreSeen`: for any heads, blocks, tiles, windows, contexts and graphs a token sums over the
  keys of its window, each once. `AttnIInv` says that the cache holds the key of each position
  of each running row up to where the layer has written (`Holds`), that the launch
  covers the batch (`Fits`), and that the segments, then the output, are right.
  `find_seq_idx` is a binary search over the starts of the rows: it finds the row a block belongs
  to because the starts, each rounded to blocks, ascend. Each key of a row falls into one tile,
  each tile into one segment, and the programs of the grid that store a token are those of its
  block, which agree.
* `AttentionAddsUp`, `DeltaNetAddsUp`, `FeedForwardAddsUp`: for any number of ranks and heads
  the sums over all ranks have the model's terms, each once; the delta net if its file
  is one the conversions are right for (`Convertible`): in plain order; tiled, with the number
  of heads and the groups the code is written for and not quantised; or with one value head
  to a key head, where the two orders are one. `WeightIInv`
  is `ShardIInv`, which says which layers are made inside the context and so cut for a group of
  four; `LayersBuilt`, that they are made in the order of `Program`; and `WeightsArrive`: of
  each tensor that has come, a rank's parameter has the shard of its group's rank, at
  the place its forward pass looks for it, whether the tensor was one of several fused in
  the file, interleaved, or quantised and stored as it came. Then the heads a rank has in
  one layer are those it has in the next, and the ranks of a reduction share them out
  (`SharedOut`, `SharesListed`).
* `TheContextDoesNotLeak`: the getters are replaced exactly from the fifth to the eighth
  statement of `Program`.
* `ExpertsAddUp`: for any batch, chunks, block sizes, groups of programs and placement of the
  experts, on each of the paths, a token's output is the sum over its own experts, provided that
  the alignment is told of all experts a token may be routed to (`RoutesCounted`), which every
  path but a mapped fp8 layer does. `MoeIInv` is
  `MoeType /\ Progress /\ Stages`: tokens of the chunks before this one have their sums, those of
  this one and the next still have their inputs, and the intermediate that the next stage reads
  holds what it should (`AfterW1`, `AfterActivation`, `AfterW2`), though the first and the
  last share their memory. A stage is right because of three facts. The table is right
  (`TableRight`): by going through the experts one after the other (`Prefixed`, up to the
  least expert for which it would fail), each route is in a block of its expert and
  all blocks fit into the table and the grid. `Pid` reaches every block of rows and of columns
  (`PidOnto`), whatever is left in the last group. And two routes of two experts never store
  one cell (`MultipliedRight`), so each cell is written by its own product or, on another rank's
  expert, cleared or zero.

Only model-checked is liveness (`StartupEnds`, `CleanRunStages`), which is out of the prover's
reach, as is the absence of deadlock. Every
invariant and every action property of the runs, and both refinements, are theorems. What
the theorems say of recursive functions (the binary search, the sums) is got without
induction, from a least counterexample: the library's induction theorems cannot be instantiated
with the provers at hand.

## 5. What the checks found

Each is a run named `claim_*`, whose property states what the repository says:

1. `make check-gpu`, "run GPU VRAM preflight check only" (Makefile:24), leaves
   through the trap of a failed deployment and stops the private daemons of an
   earlier successful one.
2. "The legacy fallback changes system Docker `data-root` temporarily"
   (`src/qwen36-gfx906/README.md:693`): when the restart on the temporary root
   fails, the ACTIVE flag is not set yet and nothing restores `daemon.json`. The
   next run then takes the temporary configuration for the original one, which
   is why `CleanStartKeepsLiveRoot` is about runs that found a root of their own.
3. "delete temporary Docker data-root ... after restoring system Docker" (*deploy* 14717):
   when the restart before it does nothing, the daemon still answers from the temporary
   root, the wait is satisfied, and the root it serves is deleted.
4. "The capture harness now waits for post-response `/metrics` counters to settle"
   (`docs/gfx906-key-learnings-20260606.md:1769`): `run_chat_capture.py:128` takes one sample
   before its loop and tests that one until the time limit. Counters that catch up a
   moment later are never seen.

Seen while modelling, and kept out of the runs:

* *Deployment.* Pid files survive a reboot, and a run that fails at an early gate kills
  whatever has those pids by then (*deploy* 14758). A containerd that outlives its
  dockerd loses its pid file to the next run and can be neither reused nor stopped
  (14001). A restart onto the temporary root that does nothing passes as one that worked:
  the build then runs on the ordinary root.
* *Sidecar.* With one capture context to skip, as the profiles set, the hook's own
  profiling wrapper makes the final capture the skipped one, and no handle exists when
  the hook starts the workers. Without STRICT a rank whose library fails falls back alone
  and the group hangs. With graphs and START_AFTER_PREFILL alone, a decode replayed before
  the first prefill meets workers nobody has started; a prefill that comes before the
  first handle uses the hook's one shot up. With a pending residual,
  `tensor_model_parallel_all_reduce_inplace_public`, which its docstring says bypasses the
  hooks, goes through them.
* *Staging.* The script removes the extracted config before it unpacks it again.
* *Measuring.* The ladder does not wait for an idle server, and the summary prints a
  throughput without asking whether the counters had settled.
* *Launch.* No bundle contains `qwen3_next.py`, so the group `moe_tp8` installs nothing
  and hf-moe35b-tp8 relies on the image; likewise the GGUF dense bundle and its native
  libraries and interleaved MLP: `copy_if_present` passes over what is missing. Files of a
  bundle that its manifest does not list are installed unverified. The verifier asks little of
  the command: of an HF profile, a command line cut short passes it, beside older files
  of the same profile. docker_run.sh replaces the model links before it replaces the
  container that uses them. The loop in `profiles/vnext/README.md` (534) has no `die`: it
  measures after a failed docker_run.sh, too. The benchmark's wait for the backend has no limit.
  The verifier greps the patches for two names that stand where the functions are defined, and
  never looks at the path of the bundle: a run directory whose effective_config.env,
  deploy_compat_patches.py or docker_run.sh was cut short can pass, and an engine then starts
  without its bundle or without some patches. The entrypoint checks a bundle only if its
  manifest is there.
  The verifier does not compare the command with the other files: two launchers killed one after
  the other can leave a directory that passes and whose command is a third request's.
* *Layers.* The MoE bundle's `GGUFLinearMethod.apply` uses the order of arrival and lacks the
  branch for replicated heads (its profile forces unquantised linear layers). The permutation
  of heads matches names ending in ".weight" only, is written for 48 value heads in groups of
  three, and passes on whatever has other shapes: another model's heads, or quantised
  matrices whose rows are not counted in elements, stay tiled. The interleaved loader falls back
  to blocks when gate and up are fused on disk, and the forward pass reads them
  interleaved.
* *Kernels.* The number of segments of a padding row is divided by zero; nothing reads the
  result. The fp8 branch of `TritonExperts.apply` passes its count of local experts to the
  alignment, which with an expert map leaves routes to higher numbers out, although the class
  says that it supports one (no profile sets one).

## 6. What is not modelled

* *Sidecar*: the watchdog thread (prints only), destruction of handles at exit,
  `ensure_initialized` and the llmm1 variant (no caller in the repository), a
  pipeline-parallel group's nested `graph_capture`, numerics. The fused boundary is
  modelled from its definition; its caller is not in the repository. The dummy
  runs inside a capture context are outside `ServedByLiveWorkers`: they are not
  served requests.
* *Deployment*: the ~13,200 lines of here-documents are data the script writes;
  the arithmetic of the free-space and memory gates is the choice to pass or to
  abort. Two deployments at once are not modelled, and nothing in the script
  expects them.
* *Staging*: two runs at once, a stalled `curl` (counted as an interruption), a
  relative model root.
* *Model runner*: pipeline parallelism, n-gram and suffix drafting, streaming
  inputs, multimodal inputs, LoRA, pooling, hybrid models' accepted-token buffers. The
  engine and `InputBatch` are not in the repository. They are assumed to forget a
  removed request in `prev_req_id_to_index`, to schedule the next step (even an empty one)
  before taking the last output when scheduling is asynchronous, to send a request that
  skipped a step with placeholders for drafts, and to leave the rows in any order.
* *Graphs*: the dispatcher, the configuration object and the attention backends are
  external; data parallelism, microbatches, LoRA, encoder-decoder models, garbage
  collection and weak references are left out.
* *Prefold*: all ranks have the same switches (the environment they are started with) and
  shapes (one model, one batch); rounding.
* *Measuring*: the degenerate-output check, the poller thread of the summary, the
  report's layout; the two gauges (running, waiting) are one.
* *Layers*: expert parallelism and its load balancing, sequence-parallel experts, biases, the
  packed formats of fp8, marlin and bitsandbytes; the arithmetic on the slices.
* *Kernels*: everything numerical: softmax, scales, fp8, ALiBi, sinks, soft caps, multimodal
  ranges, quantised operands, the wna16, gptq and awq kernels and the tuning
  tables.
* *Launch*: `--run` on the host, how docker_run.sh resolves links and snapshots of a model,
  the checks against fixed values (lengths, types, P2P), names of variables, the text of the
  compatibility patches, which are applied wholly or end the container.
* *Other release scripts, host tools, format probe*: sequences of checks that keep nothing.
* *Copies*: nineteen of the Python files exist in two or three bundles, often with the
  same contents; the map cites one of each. They and the vendored engine files that
  differ from upstream in a few lines are most of the source, which is why the map covers a
  small share of it.

`PROJECT.json` has the reason for each component.

## 7. Plan

Done: the deployment lifecycle, the sidecar and the capture context, staging, graphs,
prefold, the model runner, measuring and the launch, the slices and the kernels, with proofs
of all their safety properties.

What is left, in order:

1. The automatic choice of GPUs of *deploy*, as an operator against a reference definition.
2. Expert parallelism: the maps of experts are inputs of `FusedExperts`, and nothing says yet that
   the maps of all ranks share the experts out.
