------------------------- MODULE MCDeployLifecycle -------------------------
(***************************************************************************)
(* DeployLifecycle for TLC: the flag settings each run invokes deploy.sh   *)
(* with, and the claims of the README, the Makefile and the messages of    *)
(* deploy.sh that the model refutes.                                       *)
(***************************************************************************)
EXTENDS DeployLifecycle

(* The flags as deploy.sh defaults them; every set below varies some. *)
Defaults == [iso |-> TRUE, temp |-> FALSE, check |-> FALSE, build |-> FALSE,
             cleanup |-> TRUE, delete |-> TRUE, drop |-> FALSE]

(* Isolated deployments, GPU checks, build-only runs and every setting of the
   two cleanup flags; the temporary root may be asked for as well. *)
IsoOptions ==
  {Defaults,
   [Defaults EXCEPT !.check = TRUE],
   [Defaults EXCEPT !.build = TRUE],
   [Defaults EXCEPT !.temp = TRUE, !.drop = TRUE],
   [Defaults EXCEPT !.cleanup = FALSE],
   [Defaults EXCEPT !.delete = FALSE]}

(* Temporary-root deployments, build-only runs, with and without dropping the
   root afterwards; and a plain run on whatever root is installed. *)
TempDefaults == [Defaults EXCEPT !.iso = FALSE, !.temp = TRUE, !.drop = TRUE]
TempOptions ==
  {TempDefaults,
   [TempDefaults EXCEPT !.drop = FALSE],
   [TempDefaults EXCEPT !.build = TRUE],
   [TempDefaults EXCEPT !.check = TRUE],
   [TempDefaults EXCEPT !.temp = FALSE]}

AllOptions == IsoOptions \union TempOptions

TempOnly == {TempDefaults}

CheckOptions == {Defaults, [Defaults EXCEPT !.check = TRUE]}

-----------------------------------------------------------------------------
(* Makefile:24 calls check-gpu a GPU VRAM preflight check only: a run with
   CHECK_GPU_ONLY=1 whose check passes leaves the daemons of an earlier
   deployment running. *)
CheckOnlyPreservesDeployment ==
  [][(BodyStep \/ TrapStep) /\ opt.check /\ hist.last # "failed"
       => iso'.live = iso.live]_vars

(* qwen36-gfx906/README.md:693 and Makefile:18: the system Docker data-root is changed
   temporarily, that is, not beyond the run whose trap completed. *)
TempRootIsTemporary ==
  pc = "idle" /\ hist.trapOk => daemonJson # "temp"

(* deploy.sh:14717 gives its sudo prompt as delete temporary Docker data-root
   after restoring system Docker: the root that goes is one the system daemon
   no longer serves. *)
TempRootDroppedAfterRestore ==
  [][DropTempRoot /\ tempRoot /\ ~tempRoot'
       => ~(sysDocker.up /\ sysDocker.root = "temp")]_vars
=============================================================================
