----------------------------- MODULE VnextLaunch -----------------------------
(***************************************************************************)
(* The vNext launch path.  vnext_repro_launcher.sh checks a profile and    *)
(* writes a run directory; verify_vnext_launch_artifact.sh checks it; its  *)
(* docker_run.sh replaces the container; the entrypoint in the container   *)
(* installs the patch bundle and starts the engine.                        *)
(* verify_vnext_release_readiness.sh does all that for one profile after   *)
(* the other, and measures each.                                           *)
(*                                                                         *)
(* The directory and the bundle are mounted: a container reads what is in  *)
(* them at the moment.  Docker is external; any command of its may fail,   *)
(* any script may be killed, any container may exit.                       *)
(***************************************************************************)
EXTENDS Integers, Sequences, FiniteSets, FiniteSetsExt

CONSTANTS
  Requests,       \* what the launcher may be asked for: a profile, with what the
                  \* environment overrides, and the model it is pointed at
  RunDirs,        \* values of --out
  MaxLaunches,    \* of the launcher
  MaxContainers,  \* runs of docker_run.sh
  MaxEdits        \* of bundles

Current == "vnext_repro_current"
Names == {Current, "by_hand"}      \* VNEXT_CONTAINER_NAME

Overlays == {"hf_release", "gguf_dense", "gguf_moe"}
GgufOverlays == {"gguf_dense", "gguf_moe"}

(* There are two families; detect_model_family sees nothing, or what it is.     *)
ASSUME LaunchAssumption ==
  /\ MaxLaunches \in Nat /\ MaxContainers \in Nat /\ MaxEdits \in Nat
  /\ "none" \notin RunDirs
  /\ \A q \in Requests : /\ q.family \in {"dense", "moe"} /\ q.overlay \in Overlays
                          /\ q.model.seen \in {"unknown", q.model.family}

(* What the entrypoint copies, in its order, one row for each kind of row of   *)
(* its table; two groups share a destination.                                 *)
Row(group, src, dst) == [group |-> group, src |-> src, dst |-> dst]
Targets ==
  << Row("dense", "native", "opt_gfx906"), Row("moe", "tuned_configs", "tuned_configs"),
     Row("common", "qwen3_5", "qwen3_5"), Row("moe", "qwen2_moe", "qwen2_moe"),
     Row("dense", "parallel_state", "parallel_state"),
     Row("dense", "interleaved_swiglu", "qwen2_moe"), Row("moe_tp8", "qwen3_next", "qwen3_next"),
     Row("gguf", "gguf_loader", "gguf_loader"), Row("moe", "fused_moe", "fused_moe") >>
Places == {Targets[i].dst : i \in DOMAIN Targets}

(* The files of the three bundles, and of a container without one;             *)
(* copy_if_present passes over the rest.                                      *)
Contents ==
  [none       |-> {},
   hf_release |-> {"native", "tuned_configs", "qwen3_5", "qwen2_moe", "parallel_state",
                   "interleaved_swiglu", "fused_moe"},
   gguf_dense |-> {"qwen3_5", "parallel_state", "gguf_loader"},
   gguf_moe   |-> {"tuned_configs", "qwen3_5", "qwen2_moe", "gguf_loader", "fused_moe"}]

Pinned == 0                        \* the version whose manifest the profiles pin
NoManifest == -1                   \* the bundle has no sha256sum.txt

VARIABLES
  files,     \* of each run directory: [of: the request, state, x: executable]
  writer,    \* the launcher at work: [dir, of, step]; step 0: none
  verified,  \* directories the verifier passed and nobody has written to since
  bundle,    \* of each overlay, the versions of its files and of its manifest
  box,       \* containers by name
  op,        \* the readiness loop: [at, dir, of, measured]
  ladders,   \* finished ladders: [of, measured, alone]
  spent      \* [launches, containers, edits; byHand: somebody has used docker_run.sh
             \* beside the loop; rehashed: a manifest was written anew or removed]

launchVars == <<files, writer, verified, bundle, box, op, ladders, spent>>

NoFile == [of |-> "none", state |-> "none", x |-> FALSE]
NoWriter == [dir |-> "none", of |-> "none", step |-> 0]
NoBox == [at |-> "none", dir |-> "none", overlay |-> "none", groups |-> {}, fs |-> <<>>,
          version |-> Pinned, patched |-> FALSE, of |-> "none", load |-> "auto",
          whole |-> FALSE, complete |-> FALSE, edited |-> FALSE]
NoOp == [at |-> "idle", dir |-> "none", of |-> "none", measured |-> {}]

(* How a directory comes about: a file is opened (which cuts an old one off,    *)
(* and keeps its mode), then written.  The entrypoint is written with a        *)
(* placeholder for the groups, rewritten into a new file that takes its name,  *)
(* and made executable.  The command is written argument by argument: torn, it  *)
(* has no server that answers to its name; cut, it ends before --load-format.  *)
(* The other files that are cut have all that the verifier looks for, and not   *)
(* the rest: the configuration has an empty patch_bundle_path (without one,    *)
(* docker_run.sh stops at its set -u), the patches lack calls of what they     *)
(* define, docker_run.sh lacks docker run.                                    *)
Steps ==
  << <<"config", "torn">>, <<"config", "cut">>, <<"config", "ready">>,
     <<"command", "torn">>, <<"command", "cut">>, <<"command", "ready">>,
     <<"patches", "torn">>, <<"patches", "cut">>, <<"patches", "ready">>,
     <<"env", "torn">>, <<"env", "ready">>,
     <<"entrypoint", "torn">>, <<"entrypoint", "placeholder">>, <<"entrypoint", "moved">>,
     <<"entrypoint", "ready">>,
     <<"docker_run", "torn">>, <<"docker_run", "cut">>, <<"docker_run", "ready">>,
     <<"preflight", "ready">> >>
Starting == {"check", "copy", "patch", "exec"}
Files == {Steps[i][1] : i \in DOMAIN Steps}
Empty == [f \in Files |-> NoFile]

LaunchInit ==
  /\ files = [d \in RunDirs |-> Empty] /\ writer = NoWriter /\ verified = {}
  /\ bundle = [o \in Overlays |-> [content |-> Pinned, listed |-> Pinned]]
  /\ box = [n \in Names |-> NoBox] /\ op = NoOp /\ ladders = {}
  /\ spent = [launches |-> 0, containers |-> 0, edits |-> 0, byHand |-> FALSE, rehashed |-> FALSE]
-----------------------------------------------------------------------------
(* The launcher.  A request q has the profile's MODEL_FORMAT (fmt), family,     *)
(* overlay, PATCH_TARGET_GROUPS, LOAD_FORMAT, ALLOW_MODEL_FORMAT_MISMATCH      *)
(* and the kinds of PROFILE_ENV_VARS (vars), and the model that is there:       *)
(* its true format and family, and the family detect_model_family has seen.    *)
Accepts(q) ==
  /\ q.model.seen \in {"unknown", q.family}
  /\ q.model.fmt = q.fmt \/ q.allow
  /\ q.load = "gguf" <=> q.model.fmt = "gguf"
  /\ <<q.family, q.overlay>> \notin {<<"dense", "gguf_moe">>, <<"moe", "gguf_dense">>}
  /\ q.fmt = "gguf" <=> q.overlay \in GgufOverlays
  /\ "common" \in q.groups /\ (q.fmt = "gguf" <=> "gguf" \in q.groups)
  /\ q.family = "dense" => q.groups \cap {"moe", "moe_tp8"} = {}
  /\ q.family = "moe" => "dense" \notin q.groups
  /\ "gguf" \in q.vars => q.fmt = "gguf"
  /\ "moe" \in q.vars => q.family = "moe"
Preflight(q) == Accepts(q) /\ bundle[q.overlay] = [content |-> Pinned, listed |-> Pinned]

(* Nobody starts a server from a directory that is being written, or writes to   *)
(* one from which a server is being started.                                   *)
InUse(d) == \/ op.dir = d \/ \E n \in Names : box[n].at \in Starting /\ box[n].dir = d

(* A directory of that name may be there, or have been removed first.          *)
Launch(d, q) ==
  /\ writer.step = 0 /\ spent.launches < MaxLaunches /\ ~ InUse(d)
  /\ Preflight(q)
  /\ writer' = [dir |-> d, of |-> q, step |-> 1]
  /\ \/ UNCHANGED <<files, verified>>
     \/ files' = [files EXCEPT ![d] = Empty] /\ verified' = verified \ {d}
  /\ spent' = [spent EXCEPT !.launches = @ + 1]
  /\ UNCHANGED <<bundle, box, op, ladders>>

WriteFile ==
  /\ writer.step > 0
  /\ LET f == Steps[writer.step][1]
         s == Steps[writer.step][2]
     IN files' = [files EXCEPT ![writer.dir][f] =
                    [of |-> writer.of, state |-> s, x |-> s = "ready" \/ (@.x /\ s # "moved")]]
  /\ writer' = IF writer.step = Len(Steps) THEN NoWriter ELSE [writer EXCEPT !.step = @ + 1]
  /\ verified' = verified \ {writer.dir}
  /\ UNCHANGED <<bundle, box, op, ladders, spent>>

KillLauncher ==
  /\ writer.step > 0 /\ writer' = NoWriter
  /\ UNCHANGED <<files, verified, bundle, box, op, ladders, spent>>

(* verify_vnext_launch_artifact.sh: what it asks of the files of one directory.  *)
ArtifactIsValid(f) ==
  LET c == f["config"].of
      gguf == c.model.fmt = "gguf"
      loads == f["command"].state = "ready" /\ f["command"].of.load = "gguf"
  IN  /\ \A n \in Files : f[n].state # "none"
      /\ \A n \in {"config", "patches", "docker_run"} : f[n].state \in {"cut", "ready"}
      /\ f["env"].state = "ready"
      /\ f["entrypoint"].x /\ f["docker_run"].x
      /\ c.model.fmt = c.fmt
      /\ gguf <=> c.overlay \in GgufOverlays
      /\ "common" \in c.groups /\ (gguf <=> "gguf" \in c.groups)
      /\ c.family = "dense" => c.groups \cap {"moe", "moe_tp8"} = {}
      /\ c.family = "moe" => "dense" \notin c.groups
      /\ f["entrypoint"].state = "ready" /\ f["entrypoint"].of.groups = c.groups
      /\ gguf <=> loads
      /\ gguf \/ f["command"].state = "torn" \/ "gguf" \notin f["command"].of.vars

Verify(d) ==
  /\ d \notin verified /\ ArtifactIsValid(files[d])
  /\ verified' = verified \cup {d}
  /\ UNCHANGED <<files, writer, bundle, box, op, ladders, spent>>

(* Somebody changes a file of a bundle, writes its manifest anew               *)
(* (hash_vnext_patch_bundle.sh create), or removes it.                        *)
EditBundle(o) ==
  /\ spent.edits < MaxEdits
  /\ bundle' = [bundle EXCEPT ![o].content = @ + 1]
  /\ box' = [n \in Names |-> IF box[n].at = "copy" /\ box[n].overlay = o
                               THEN [box[n] EXCEPT !.edited = TRUE] ELSE box[n]]
  /\ spent' = [spent EXCEPT !.edits = @ + 1]
  /\ UNCHANGED <<files, writer, verified, op, ladders>>
Rehash(o) ==
  /\ bundle[o].listed # bundle[o].content
  /\ bundle' = [bundle EXCEPT ![o].listed = bundle[o].content]
  /\ spent' = [spent EXCEPT !.rehashed = TRUE]
  /\ UNCHANGED <<files, writer, verified, box, op, ladders>>
LoseManifest(o) ==
  /\ bundle[o].listed # NoManifest /\ spent.edits < MaxEdits
  /\ bundle' = [bundle EXCEPT ![o].listed = NoManifest]
  /\ spent' = [spent EXCEPT !.edits = @ + 1, !.rehashed = TRUE]
  /\ UNCHANGED <<files, writer, verified, box, op, ladders>>
-----------------------------------------------------------------------------
(* The container: container_entrypoint.sh, under set -e.                       *)
Exited(n) == [box EXCEPT ![n] = [NoBox EXCEPT !.at = "exited"]]
Container(n, b) == box' = [box EXCEPT ![n] = b]
               /\ UNCHANGED <<files, writer, verified, bundle, op, ladders, spent>>

(* sha256sum -c, with the manifest that is there now, if one is.               *)
CheckBundleSkipped(n) ==    \* mutant
  /\ box[n].at = "check" /\ Container(n, [box[n] EXCEPT !.at = "copy"])
CheckBundle(n) ==
  /\ box[n].at = "check"
  /\ box[n].overlay # "none" =>
       bundle[box[n].overlay].listed \in {NoManifest, bundle[box[n].overlay].content}
  /\ Container(n, [box[n] EXCEPT !.at = "copy"])

Installed(groups, overlay) ==
  [p \in Places |->
    LET rows == {i \in DOMAIN Targets : /\ Targets[i].dst = p /\ Targets[i].group \in groups
                                        /\ Targets[i].src \in Contents[overlay]}
    IN IF rows = {} THEN "image" ELSE Targets[Max(rows)].group]
CopyTargets(n) ==
  /\ box[n].at = "copy"
  /\ Container(n, [box[n] EXCEPT !.at = "patch", !.fs = Installed(box[n].groups, box[n].overlay),
                     !.version = IF box[n].overlay = "none" THEN @ ELSE bundle[box[n].overlay].content])

(* deploy_compat_patches.py; one that is empty or cut patches nothing, or not   *)
(* all, or is no Python (Exit).                                               *)
ApplyPatches(n) ==
  /\ box[n].at = "patch"
  /\ Container(n, [box[n] EXCEPT !.at = "exec",
                                 !.patched = files[box[n].dir]["patches"].state = "ready"])

(* exec vllm_command.sh; the engine binds the port, which the host's containers  *)
(* share.                                                                     *)
Serving == {n \in Names : box[n].at = "serve"}
ExecCommand(n) ==
  /\ box[n].at = "exec" /\ Serving = {}
  /\ LET command == files[box[n].dir]["command"] IN
     /\ command.state \in {"cut", "ready"}
     /\ Container(n, [box[n] EXCEPT !.at = "serve", !.dir = "none", !.groups = {}, !.of = command.of,
                                    !.load = IF command.state = "ready" THEN command.of.load ELSE "auto"])

(* A check, a patch without its anchor or the engine fails, or it is stopped.  *)
Exit(n) ==
  /\ box[n].at \in Starting \cup {"serve"}
  /\ box' = Exited(n)
  /\ UNCHANGED <<files, writer, verified, bundle, op, ladders, spent>>
-----------------------------------------------------------------------------
(* The command is of the request that the directory says it is of, or complete   *)
(* and of the one that the entrypoint is of.  For the properties: nothing in    *)
(* the code looks.                                                            *)
CommandBelongs(f) ==
  \/ f["command"].of = f["config"].of
  \/ f["command"].of = f["entrypoint"].of /\ f["command"].state = "ready"

(* The two files whose end the verifier does not look for.  For the property.   *)
Complete(f) == f["config"].state = "ready" /\ f["patches"].state = "ready"

(* docker run: the name must be free; the entrypoint must be executable and    *)
(* have a first line, or the container is created and does not start.  sh       *)
(* takes the groups from it as it starts.  An empty patch_bundle_path mounts    *)
(* no bundle.                                                                 *)
CanRun(d) == /\ writer.dir # d /\ spent.containers < MaxContainers
             /\ files[d]["docker_run"].x /\ files[d]["docker_run"].state = "ready"
             /\ files[d]["config"].state \in {"cut", "ready"}
Mounted(f) == IF f["config"].state = "ready" THEN f["config"].of.overlay ELSE "none"
Started(d) ==
  LET e == files[d]["entrypoint"] IN
  IF e.x /\ e.state # "torn"
    THEN [NoBox EXCEPT !.at = "check", !.dir = d, !.overlay = Mounted(files[d]),
                       !.groups = IF e.state = "placeholder" THEN {} ELSE e.of.groups,
                       !.whole = d \in verified /\ CommandBelongs(files[d]),
                       !.complete = Complete(files[d])]
    ELSE [NoBox EXCEPT !.at = "exited"]

(* Somebody starts a server with docker_run.sh himself, under its own name.    *)
RunByHand(d) ==
  /\ CanRun(d) /\ files[d]["entrypoint"].state # "none"
  /\ box' = [box EXCEPT !["by_hand"] = Started(d)]
  /\ spent' = [spent EXCEPT !.containers = @ + 1, !.byHand = TRUE]
  /\ UNCHANGED <<files, writer, verified, bundle, op, ladders>>

(* The readiness loop, for one profile, whose directory it has had written by a  *)
(* launcher that did not fail, and verified.  die: at any step it may end.     *)
Written(f) == \E q \in Requests : \A n \in Files : f[n] = [of |-> q, state |-> "ready", x |-> TRUE]
Begin(d) ==
  /\ op.at = "idle" /\ d \in verified /\ writer.dir # d /\ Written(files[d])
  /\ op' = [NoOp EXCEPT !.at = "clear", !.dir = d]
  /\ UNCHANGED <<files, writer, verified, bundle, box, ladders, spent>>
Die ==
  /\ op.at # "idle" /\ op' = NoOp
  /\ UNCHANGED <<files, writer, verified, bundle, box, ladders, spent>>

(* docker stop || true; docker rm || true: before docker_run.sh, in it, and     *)
(* when the profile has been measured.                                         *)
After(at) == CASE at = "clear" -> "replace" [] at = "replace" -> "run" [] at = "done" -> "idle"
StopAndRemove ==
  /\ op.at \in {"clear", "replace", "done"}
  /\ op' = IF op.at = "done" THEN NoOp ELSE [op EXCEPT !.at = After(@)]
  /\ \/ UNCHANGED box
     \/ box[Current].at # "none" /\ box' = Exited(Current)
     \/ box[Current].at # "none" /\ box' = [box EXCEPT ![Current] = NoBox]
  /\ UNCHANGED <<files, writer, verified, bundle, ladders, spent>>

DockerRunUnchecked ==    \* mutant: the loop goes on when docker_run.sh has failed
  /\ op.at = "run" /\ CanRun(op.dir)
  /\ box' = IF box[Current].at = "none" THEN [box EXCEPT ![Current] = Started(op.dir)] ELSE box
  /\ op' = [op EXCEPT !.at = "wait"]
  /\ spent' = [spent EXCEPT !.containers = @ + 1]
  /\ UNCHANGED <<files, writer, verified, bundle, ladders>>
DockerRun ==
  /\ op.at = "run" /\ box[Current].at = "none" /\ CanRun(op.dir)
  /\ box' = [box EXCEPT ![Current] = Started(op.dir)]
  /\ op' = IF Started(op.dir).at = "check" THEN [op EXCEPT !.at = "wait"] ELSE NoOp
  /\ spent' = [spent EXCEPT !.containers = @ + 1]
  /\ UNCHANGED <<files, writer, verified, bundle, ladders>>

(* run_vnext_profile_benchmark.sh waits until the port answers, whoever does;   *)
(* then its captures ask for a model by its served name.                      *)
ServerAnswers ==
  /\ op.at = "wait" /\ Serving # {} /\ files[op.dir]["env"].state = "ready"
  /\ op' = [op EXCEPT !.at = "strict", !.of = files[op.dir]["env"].of]
  /\ UNCHANGED <<files, writer, verified, bundle, box, ladders, spent>>
Capture ==
  /\ op.at \in {"strict", "long"}
  /\ \E n \in Serving :
       LET measured == op.measured \cup {box[n].of} IN
       /\ box[n].of.served = op.of.served
       /\ op' = [op EXCEPT !.measured = measured, !.at = IF @ = "strict" THEN "long" ELSE "done"]
       /\ ladders' = IF op.at = "strict" THEN ladders
                     ELSE ladders \cup {[of |-> op.of, measured |-> measured,
                                         alone |-> ~ spent.byHand]}
  /\ UNCHANGED <<files, writer, verified, bundle, box, spent>>

LaunchNext ==
  \/ \E d \in RunDirs, q \in Requests : Launch(d, q)
  \/ WriteFile \/ KillLauncher
  \/ \E d \in RunDirs : Verify(d) \/ RunByHand(d) \/ Begin(d)
  \/ \E o \in Overlays : EditBundle(o) \/ Rehash(o) \/ LoseManifest(o)
  \/ \E n \in Names : \/ CheckBundle(n) \/ CopyTargets(n) \/ ApplyPatches(n)
                       \/ ExecCommand(n) \/ Exit(n)
  \/ Die \/ StopAndRemove \/ DockerRun \/ ServerAnswers \/ Capture

LaunchSpec == LaunchInit /\ [][LaunchNext]_launchVars
-----------------------------------------------------------------------------
(* An engine started from a directory that passed the verifier has only files   *)
(* of its model's format, and family if that was seen, and --load-format if the  *)
(* format is GGUF: whatever was in the directory before, wherever the last     *)
(* launcher was killed.  (The verifier does not compare the command with the   *)
(* rest: if two launchers were killed one after the other it may be of a third  *)
(* request, see CommandBelongs.)                                              *)
(* The verifier passes a directory cut off in its configuration or its patches: *)
(* that engine may lack the whole bundle, or patches.  If those two files were  *)
(* complete as it started, it has the common files, the loader of its format   *)
(* and all patches, and the pinned version of each file, unless a manifest was  *)
(* written anew or removed, or a file changed between check and copy.         *)
Belongs(group, m) ==
  CASE group \in {"image", "common"} -> TRUE
    [] group = "gguf" -> m.fmt = "gguf"
    [] group = "dense" -> m.seen = "unknown" \/ m.family = "dense"
    [] group \in {"moe", "moe_tp8"} -> m.seen = "unknown" \/ m.family = "moe"
EnginesFitTheirModel ==
  \A n \in Serving : box[n].whole =>
    LET q == box[n].of
        gguf == q.model.fmt = "gguf"
    IN
    /\ \A p \in Places : Belongs(box[n].fs[p], q.model)
    /\ gguf => box[n].load = "gguf"
    /\ box[n].complete =>
         /\ box[n].fs["qwen3_5"] = "common" /\ box[n].patched
         /\ gguf => box[n].fs["gguf_loader"] = "gguf"
         /\ ~ spent.rehashed /\ ~ box[n].edited => box[n].version = Pinned

(* What a ladder of the readiness loop reports was measured on the engine of    *)
(* its own profile, in all its captures, although stopping and removing the    *)
(* last container may fail in silence.  With a server started by hand beside   *)
(* it, it was at least an engine of that name.                                *)
LadderMeasuresItsProfile ==
  \A l \in ladders : \A q \in l.measured : /\ l.alone => q.name = l.of.name
                                         /\ q.served = l.of.served
=============================================================================
