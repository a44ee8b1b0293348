--------------------------- MODULE DeployLifecycle ---------------------------
(***************************************************************************)
(* The run of qwen36-gfx906/deploy.sh seen from the host it changes: the   *)
(* system Docker configuration it swaps (legacy temporary data-root mode), *)
(* the private dockerd/containerd pair it starts (isolated mode), and the  *)
(* EXIT trap that undoes both.  Runs follow one another on the same host   *)
(* and inherit what the previous ones left; any command of a run may fail  *)
(* (set -e), a signal may arrive, a sudo prompt may be declined, the host  *)
(* may reboot.  Builds, copies and downloads are steps that change nothing *)
(* this module looks at.                                                   *)
(***************************************************************************)
EXTENDS Naturals, FiniteSets

CONSTANTS
  Options,     \* the flag settings deploy.sh is invoked with (a set of records)
  MaxRuns,     \* bound: how many times the script is started
  MaxFaults,   \* bound: restarts that fail or do nothing, crashes, reboots
  TrapMayFail  \* may the trap be cut short (SIGKILL, a second signal, a sudo
               \* prompt declined inside it) or its copy of the backup fail?

Daemons == {"containerd", "dockerd"}
Roots   == {"sys", "temp", "iso"}
OptionRecord == [iso: BOOLEAN, temp: BOOLEAN, check: BOOLEAN, build: BOOLEAN,
                 cleanup: BOOLEAN, delete: BOOLEAN, drop: BOOLEAN]

ASSUME DeployAssumption ==
  /\ Options \subseteq OptionRecord
  /\ MaxRuns \in Nat
  /\ MaxFaults \in Nat
  /\ TrapMayFail \in BOOLEAN

VARIABLES
  daemonJson,  \* /etc/docker/daemon.json: "absent", "orig" or "temp"
  backup,      \* .deploy.daemon.json.backup: "none", "orig" or "temp"
  sysDocker,   \* the system dockerd: up?, and the data-root it serves
  tempRoot,    \* does DOCKER_TEMP_DATA_ROOT_DIR exist?
  iso,         \* DOCKER_ISOLATED_DAEMON_DIR and the daemons under it
  svc,         \* the data-roots in which a service container runs
  pc, ret,     \* where the run is; where restore_docker_data_root returns to
  opt,         \* the flags of the current (or last) run
  flags,       \* the shell variables ACTIVE, EXISTED and SUCCEEDED
  hist,        \* history: the configuration before the run, how the run and
               \* its last restart of the system Docker ended
  count        \* runs started and faults injected so far

host == <<daemonJson, backup, sysDocker, tempRoot>>
run  == <<opt, flags, hist, ret>>
vars == <<daemonJson, backup, sysDocker, tempRoot, iso, svc, pc, ret, opt,
          flags, hist, count>>

-----------------------------------------------------------------------------
(* The data-root a dockerd started now would serve. *)
ConfiguredRoot == IF daemonJson = "temp" THEN "temp" ELSE "sys"

(* Mutant: the temporary data-root is looked at first. *)
ModeTempFirst == IF opt.temp THEN "temp" ELSE IF opt.iso THEN "iso" ELSE "plain"

(* The mode the main script selects: isolated wins over temporary root. *)
Mode == IF opt.iso THEN "iso" ELSE IF opt.temp THEN "temp" ELSE "plain"

(* The data-root of the daemon the docker CLI of this run talks to. *)
CurrentRoot == IF Mode = "iso" THEN "iso" ELSE sysDocker.root

DockerAnswers == IF Mode = "iso" THEN "dockerd" \in iso.live ELSE sysDocker.up

RestorePcs == {"rsFile", "rsRestart", "rsDelete"}
TrapPcs    == {"ciGate", "ciKill", "ciDelete"}
InTrap  == pc \in TrapPcs \/ (pc \in RestorePcs /\ ret = "ciGate")
InBody  == pc # "idle" /\ ~InTrap

Goto(l) == pc' = l

Init ==
  /\ daemonJson \in {"absent", "orig"}
  /\ backup = "none"
  /\ sysDocker = [up |-> TRUE, root |-> "sys"]
  /\ tempRoot = FALSE
  /\ iso = [dir |-> FALSE, live |-> {}, orphans |-> {}, stalePid |-> FALSE]
  /\ svc = {}
  /\ pc = "idle" /\ ret = "ciGate"
  /\ opt \in Options
  /\ flags = [active |-> FALSE, existed |-> FALSE, succeeded |-> FALSE]
  /\ hist = [pre |-> daemonJson, applied |-> FALSE, ignored |-> FALSE,
             last |-> "none", trapOk |-> TRUE]
  /\ count = [runs |-> 0, faults |-> 0]

-----------------------------------------------------------------------------
(* The body of the script. *)

(* A run starts: environment defaults, trap installed, shell flags cleared. *)
StartRun(o) ==
  /\ pc = "idle" /\ count.runs < MaxRuns
  /\ opt' = o
  /\ flags' = [active |-> FALSE, existed |-> FALSE, succeeded |-> FALSE]
  /\ hist' = [pre |-> daemonJson, applied |-> FALSE, ignored |-> FALSE,
              last |-> "running", trapOk |-> TRUE]
  /\ count' = [count EXCEPT !.runs = @ + 1]
  /\ Goto("disk")
  /\ UNCHANGED <<host, iso, svc, ret>>

(* The free-space gates, unless SKIP_DISK_SPACE_CHECK, make the directory the
   mode will use before anything else is known to work. *)
PassDiskGates ==
  /\ pc = "disk"
  /\ \E checked \in BOOLEAN :
       /\ iso' = [iso EXCEPT !.dir = @ \/ (checked /\ Mode = "iso")]
       /\ tempRoot' = (tempRoot \/ (checked /\ Mode = "temp"))
  /\ Goto("gpu")
  /\ UNCHANGED <<daemonJson, backup, sysDocker, svc, run, count>>

(* auto_select_hip_visible_devices and the two memory gates, then the
   CHECK_GPU_ONLY exit 0, then the choice of the Docker mode. *)
PassGpuGates ==
  /\ pc = "gpu"
  /\ IF opt.check
     THEN Goto("rsFile") /\ ret' = "ciGate"
     ELSE /\ Goto(CASE Mode = "iso" -> "isoStart" [] Mode = "temp" -> "tmpBackup"
                    [] OTHER -> "composeDown")
          /\ ret' = ret
  /\ UNCHANGED <<host, iso, svc, opt, flags, hist, count>>

(* start_isolated_docker_daemon: make the directories, then either reuse a
   dockerd that answers, or drop sockets and pid files and start afresh. *)
StartIsolated ==
  /\ pc = "isoStart"
  /\ IF "dockerd" \in iso.live
     THEN iso' = [iso EXCEPT !.dir = TRUE] /\ Goto("composeDown")
     ELSE /\ iso' = [iso EXCEPT !.dir = TRUE, !.orphans = @ \union iso.live,
                                !.live = {}, !.stalePid = FALSE]
          /\ Goto("isoContainerd")
  /\ UNCHANGED <<host, svc, run, count>>

(* containerd is started and its socket awaited; a containerd left over from
   an earlier run still holds the metadata lock, so the new one never gets
   as far as its socket. *)
LaunchContainerd ==
  /\ pc = "isoContainerd"
  /\ iso' = [iso EXCEPT !.live = @ \union {"containerd"}]
  /\ Goto("isoDockerd")
  /\ UNCHANGED <<host, svc, run, count>>

LaunchDockerd ==
  /\ pc = "isoDockerd" /\ "containerd" \notin iso.orphans
  /\ iso' = [iso EXCEPT !.live = @ \union {"dockerd"}]
  /\ Goto("composeDown")
  /\ UNCHANGED <<host, svc, run, count>>

(* Mutant: the backup flag is set whether or not a configuration existed. *)
BackUpAlwaysExisted ==
  /\ pc = "tmpBackup"
  /\ tempRoot' = TRUE
  /\ flags' = [flags EXCEPT !.existed = TRUE]
  /\ backup' = IF daemonJson = "absent" THEN "none" ELSE daemonJson
  /\ Goto("tmpInstall")
  /\ UNCHANGED <<daemonJson, sysDocker, iso, svc, opt, hist, ret, count>>

(* apply_temp_docker_data_root, up to the backup of daemon.json. *)
BackUpDaemonJson ==
  /\ pc = "tmpBackup"
  /\ tempRoot' = TRUE
  /\ flags' = [flags EXCEPT !.existed = daemonJson # "absent"]
  /\ backup' = IF daemonJson = "absent" THEN "none" ELSE daemonJson
  /\ Goto("tmpInstall")
  /\ UNCHANGED <<daemonJson, sysDocker, iso, svc, opt, hist, ret, count>>

(* write_docker_daemon_json and the mv over daemon.json. *)
InstallTempConfig ==
  /\ pc = "tmpInstall"
  /\ daemonJson' = "temp"
  /\ Goto("tmpRestart")
  /\ UNCHANGED <<backup, sysDocker, tempRoot, iso, svc, run, count>>

(* restart_docker_service runs inside an if, so set -e is off in it: what
   systemctl returns is dropped and only wait_for_docker_ready decides.  The
   containers of the system daemon stop (RESTART_POLICY=no) and the daemon
   comes back on the configured root; *)
RestartSucceeds ==
  /\ sysDocker' = [up |-> TRUE, root |-> ConfiguredRoot]
  /\ svc' = svc \ {"sys", "temp"}
  /\ hist' = [hist EXCEPT !.ignored = FALSE]
  /\ UNCHANGED count

(* or the command fails and leaves the daemon as it was: it answers, so the
   wait is satisfied by a daemon still on its old root; *)
RestartIgnored ==
  /\ sysDocker.up /\ count.faults < MaxFaults
  /\ count' = [count EXCEPT !.faults = @ + 1]
  /\ hist' = [hist EXCEPT !.ignored = TRUE]
  /\ UNCHANGED <<sysDocker, svc>>

(* or the daemon goes down and does not answer within its 120 s. *)
RestartFails ==
  /\ count.faults < MaxFaults
  /\ count' = [count EXCEPT !.faults = @ + 1]
  /\ sysDocker' = [sysDocker EXCEPT !.up = FALSE]
  /\ svc' = svc \ {"sys", "temp"}
  /\ hist' = [hist EXCEPT !.ignored = FALSE]

(* The restart inside apply: only a daemon that answers sets
   DOCKER_TEMP_DATA_ROOT_ACTIVE, a failure is exit 1 and so the EXIT trap.  A
   host with neither systemctl nor service ends here as AbortBody does. *)
RestartOnTempRoot ==
  /\ pc = "tmpRestart"
  /\ \/ /\ RestartSucceeds \/ RestartIgnored
        /\ Goto("tmpActivate") /\ UNCHANGED ret
     \/ /\ RestartFails
        /\ Goto("rsFile") /\ ret' = "ciGate"
  /\ UNCHANGED <<daemonJson, backup, tempRoot, iso, opt, flags>>

ActivateTempRoot ==
  /\ pc = "tmpActivate"
  /\ flags' = [flags EXCEPT !.active = TRUE]
  /\ hist' = [hist EXCEPT !.applied = TRUE]
  /\ Goto("composeDown")
  /\ UNCHANGED <<host, iso, svc, opt, ret, count>>

(* Patch bundle, optional model staging, then compose down --remove-orphans
   (its failure is ignored). *)
ComposeDown ==
  /\ pc = "composeDown"
  /\ svc' = IF DockerAnswers THEN svc \ {CurrentRoot} ELSE svc
  /\ Goto("build")
  /\ UNCHANGED <<host, iso, run, count>>

(* compose_build_seed_up: build or pull, and unless BUILD_ONLY the up -d. *)
ComposeBuildSeedUp ==
  /\ pc = "build" /\ DockerAnswers
  /\ svc' = IF opt.build THEN svc ELSE svc \union {CurrentRoot}
  /\ IF opt.build
     THEN Goto("rsFile") /\ ret' = "built"
     ELSE Goto(IF Mode = "temp" THEN "save" ELSE "waitReady") /\ ret' = ret
  /\ UNCHANGED <<host, iso, opt, flags, hist, count>>

(* finish_build_only_if_requested, after its restore: exit 0 as a success. *)
FinishBuildOnly ==
  /\ pc = "built"
  /\ flags' = [flags EXCEPT !.succeeded = TRUE]
  /\ hist' = [hist EXCEPT !.last = "ok"]
  /\ Goto("rsFile") /\ ret' = "ciGate"
  /\ UNCHANGED <<host, iso, svc, opt, count>>

(* docker save from the temporary root, then restore_docker_data_root. *)
SaveImage ==
  /\ pc = "save" /\ DockerAnswers
  /\ Goto("rsFile") /\ ret' = "load"
  /\ UNCHANGED <<host, iso, svc, opt, flags, hist, count>>

(* docker load and the second up -d, now on the restored daemon. *)
LoadImageAndUp ==
  /\ pc = "load" /\ DockerAnswers
  /\ svc' = svc \union {CurrentRoot}
  /\ Goto("waitReady")
  /\ UNCHANGED <<host, iso, run, count>>

(* wait_for_container_running and wait_for_vllm_ready, then the success flag. *)
ReportDeployed ==
  /\ pc = "waitReady" /\ DockerAnswers /\ CurrentRoot \in svc
  /\ flags' = [flags EXCEPT !.succeeded = TRUE]
  /\ hist' = [hist EXCEPT !.last = "ok"]
  /\ Goto("rsFile") /\ ret' = "ciGate"
  /\ UNCHANGED <<host, iso, svc, opt, count>>

(* Any command of the body fails under set -e, a gate refuses, a sudo prompt
   is declined, a wait times out, or INT/TERM arrives: the EXIT trap runs. *)
AbortBody ==
  /\ InBody
  /\ hist' = [hist EXCEPT !.last = IF flags.succeeded THEN @ ELSE "failed"]
  /\ Goto("rsFile") /\ ret' = "ciGate"
  /\ UNCHANGED <<host, iso, svc, opt, flags, count>>

-----------------------------------------------------------------------------
(* Mutant: the restart after the restore is left out. *)
RestoreConfigNoRestart ==
  /\ pc = "rsFile"
  /\ IF ~flags.active
     THEN Goto(ret) /\ UNCHANGED <<daemonJson, flags>>
     ELSE /\ daemonJson' = IF flags.existed THEN backup ELSE "absent"
          /\ Goto("rsDelete") /\ flags' = [flags EXCEPT !.active = FALSE]
  /\ UNCHANGED <<backup, sysDocker, tempRoot, iso, svc, opt, hist, ret, count>>

(* restore_docker_data_root, called by the body, by build-only and by the
   trap. *)
RestoreConfig ==
  /\ pc = "rsFile"
  /\ IF ~flags.active
     THEN Goto(ret) /\ UNCHANGED <<daemonJson, flags>>
     ELSE IF flags.existed /\ backup = "none"
     THEN Goto(ret) /\ flags' = [flags EXCEPT !.active = FALSE] /\ UNCHANGED daemonJson
     ELSE /\ daemonJson' = IF flags.existed THEN backup ELSE "absent"
          /\ Goto("rsRestart") /\ UNCHANGED flags
  /\ UNCHANGED <<backup, sysDocker, tempRoot, iso, svc, opt, hist, ret, count>>

(* Under the trap's set +e a cp that fails, or the rm -f where there was no
   daemon.json, is passed over, and the restart goes ahead on the temporary
   configuration. *)
RestoreCopyFails ==
  /\ pc = "rsFile" /\ ret = "ciGate" /\ TrapMayFail
  /\ flags.active /\ (flags.existed => backup # "none")
  /\ hist' = [hist EXCEPT !.trapOk = FALSE]
  /\ Goto("rsRestart")
  /\ UNCHANGED <<host, iso, svc, opt, flags, ret, count>>

(* A failed restart is only a warning here, and one without effect not even
   that: either way ACTIVE is cleared and the removal of the root comes next. *)
RestartOnOriginalRoot ==
  /\ pc = "rsRestart"
  /\ RestartSucceeds \/ RestartIgnored \/ RestartFails
  /\ flags' = [flags EXCEPT !.active = FALSE]
  /\ Goto("rsDelete")
  /\ UNCHANGED <<daemonJson, backup, tempRoot, iso, opt, ret>>

DropTempRoot ==
  /\ pc = "rsDelete"
  /\ tempRoot' = (tempRoot /\ ~opt.drop)
  /\ Goto(ret)
  /\ UNCHANGED <<daemonJson, backup, sysDocker, iso, svc, run, count>>

-----------------------------------------------------------------------------
(* The rest of the EXIT trap: cleanup_isolated_docker_daemon_on_failure. *)

EndRun(how) ==
  /\ Goto("idle")
  /\ hist' = [hist EXCEPT !.last = how]

(* The early returns of the cleanup. *)
SkipIsolatedCleanup ==
  /\ pc = "ciGate"
  /\ ~opt.iso \/ flags.succeeded \/ ~opt.cleanup \/ ~iso.dir
  /\ EndRun(IF hist.last = "running" THEN "ok" ELSE hist.last)
  /\ UNCHANGED <<host, iso, svc, opt, flags, ret, count>>

(* Mutant: the success flag is not looked at. *)
BeginCleanupAlways ==
  /\ pc = "ciGate"
  /\ opt.iso /\ opt.cleanup /\ iso.dir
  /\ Goto("ciKill")
  /\ UNCHANGED <<host, iso, svc, run, count>>

BeginIsolatedCleanup ==
  /\ pc = "ciGate"
  /\ opt.iso /\ ~flags.succeeded /\ opt.cleanup /\ iso.dir
  /\ Goto("ciKill")
  /\ UNCHANGED <<host, iso, svc, run, count>>

(* Mutant: containerd.pid is missing from the list of pid files. *)
KillDockerdOnly ==
  /\ pc = "ciKill"
  /\ iso' = [iso EXCEPT !.live = @ \ {"dockerd"}, !.stalePid = @ \/ iso.live # {}]
  /\ svc' \in IF iso.live = {} THEN {svc} ELSE {svc, svc \ {"iso"}}
  /\ Goto("ciDelete")
  /\ UNCHANGED <<host, run, count>>

(* kill, sleep 3, kill -9 of whatever the pid files name.  The container may
   go down with its daemon or be left to its shim. *)
KillPrivateDaemons ==
  /\ pc = "ciKill"
  /\ iso' = [iso EXCEPT !.live = {}, !.stalePid = @ \/ iso.live # {}]
  /\ svc' \in IF iso.live = {} THEN {svc} ELSE {svc, svc \ {"iso"}}
  /\ Goto("ciDelete")
  /\ UNCHANGED <<host, run, count>>

(* lazy_unmount_tree and the rm -rf of the private root.  A forgotten daemon
   outlives it but locks nothing a later run uses. *)
DeletePrivateRoot ==
  /\ pc = "ciDelete"
  /\ iso' = IF opt.delete THEN [iso EXCEPT !.dir = FALSE, !.stalePid = FALSE,
                                        !.orphans = {}]
             ELSE iso
  /\ EndRun(IF hist.last = "running" THEN "ok" ELSE hist.last)
  /\ UNCHANGED <<host, svc, opt, flags, ret, count>>

(* The run ends without completing its trap. *)
AbandonRun ==
  /\ TrapMayFail /\ pc # "idle"
  /\ Goto("idle")
  /\ hist' = [hist EXCEPT !.last = IF @ = "running" THEN "failed" ELSE @,
                          !.trapOk = FALSE]
  /\ UNCHANGED <<host, iso, svc, opt, flags, ret, count>>

-----------------------------------------------------------------------------
(* The host. *)

(* Somebody restarts the system Docker by hand, as the warning asks, or
   systemd does, on whatever configuration is installed by then; dockerd
   creates a missing data-root.  Nothing in the script does it, so nothing
   says that it ever happens. *)
SystemDockerRecovers ==
  /\ ~sysDocker.up
  /\ sysDocker' = [up |-> TRUE, root |-> ConfiguredRoot]
  /\ tempRoot' = (tempRoot \/ ConfiguredRoot = "temp")
  /\ UNCHANGED <<daemonJson, backup, iso, svc, pc, run, count>>

ContainerExits(r) ==
  /\ r \in svc
  /\ svc' = svc \ {r}
  /\ UNCHANGED <<host, iso, pc, run, count>>

(* The private dockerd dies alone; its containerd keeps running. *)
PrivateDockerdCrashes ==
  /\ "dockerd" \in iso.live /\ count.faults < MaxFaults
  /\ iso' = [iso EXCEPT !.live = @ \ {"dockerd"}, !.stalePid = TRUE]
  /\ count' = [count EXCEPT !.faults = @ + 1]
  /\ UNCHANGED <<host, svc, pc, run>>

(* The host reboots between runs: every process is gone, every file stays,
   the pid files under .d/r included. *)
Reboot ==
  /\ pc = "idle" /\ count.faults < MaxFaults
  /\ iso' = [iso EXCEPT !.live = {}, !.orphans = {},
                        !.stalePid = @ \/ iso.live # {}]
  /\ svc' = {}
  /\ sysDocker' = [up |-> TRUE, root |-> ConfiguredRoot]
  /\ tempRoot' = (tempRoot \/ ConfiguredRoot = "temp")
  /\ count' = [count EXCEPT !.faults = @ + 1]
  /\ UNCHANGED <<daemonJson, backup, pc, run>>

(* make clean: the backup and the temporary data-root are removed. *)
MakeClean ==
  /\ pc = "idle" /\ (backup # "none" \/ tempRoot)
  /\ backup' = "none" /\ tempRoot' = FALSE
  /\ UNCHANGED <<daemonJson, sysDocker, iso, svc, pc, run, count>>

-----------------------------------------------------------------------------
BodyStep ==
  \/ PassDiskGates \/ PassGpuGates \/ StartIsolated \/ LaunchContainerd \/ LaunchDockerd
  \/ BackUpDaemonJson \/ InstallTempConfig \/ RestartOnTempRoot \/ ActivateTempRoot
  \/ ComposeDown \/ ComposeBuildSeedUp \/ FinishBuildOnly \/ SaveImage
  \/ LoadImageAndUp \/ ReportDeployed

TrapStep ==
  \/ RestoreConfig \/ RestoreCopyFails \/ RestartOnOriginalRoot \/ DropTempRoot
  \/ SkipIsolatedCleanup \/ BeginIsolatedCleanup \/ KillPrivateDaemons
  \/ DeletePrivateRoot

HostStep ==
  \/ SystemDockerRecovers \/ (\E r \in Roots : ContainerExits(r))
  \/ PrivateDockerdCrashes \/ Reboot \/ MakeClean

Next ==
  \/ \E o \in Options : StartRun(o)
  \/ BodyStep \/ AbortBody \/ TrapStep \/ AbandonRun \/ HostStep

Spec == Init /\ [][Next]_vars

-----------------------------------------------------------------------------
(* Properties. *)

BodyPcs == {"disk", "gpu", "isoStart", "isoContainerd", "isoDockerd", "tmpBackup",
            "tmpInstall", "tmpRestart", "tmpActivate", "composeDown", "build",
            "built", "save", "load", "waitReady"}

Configs       == {"absent", "orig", "temp"}
Labels        == {"idle"} \union BodyPcs \union RestorePcs \union TrapPcs
DaemonRecord  == [up: BOOLEAN, root: {"sys", "temp"}]
PrivateRecord == [dir: BOOLEAN, live: SUBSET Daemons, orphans: SUBSET Daemons,
                  stalePid: BOOLEAN]
FlagRecord    == [active: BOOLEAN, existed: BOOLEAN, succeeded: BOOLEAN]
HistRecord    == [pre: Configs, applied: BOOLEAN, ignored: BOOLEAN,
                  last: {"none", "running", "ok", "failed"}, trapOk: BOOLEAN]
CountRecord   == [runs: Nat, faults: Nat]

TypeOK ==
  /\ daemonJson \in Configs
  /\ backup \in {"none", "orig", "temp"}
  /\ sysDocker \in DaemonRecord
  /\ tempRoot \in BOOLEAN
  /\ iso \in PrivateRecord
  /\ svc \in SUBSET Roots
  /\ pc \in Labels
  /\ ret \in {"ciGate", "built", "load"}
  /\ opt \in OptionRecord
  /\ flags \in FlagRecord
  /\ hist \in HistRecord
  /\ count \in CountRecord

(* Whatever way a run that applied the temporary data-root ends, once its trap
   has completed daemon.json is what it was before the run
   (restore_docker_data_root from the body, from build-only or from the trap). *)
AppliedRunRestored ==
  pc = "idle" /\ hist.applied /\ hist.trapOk => daemonJson = hist.pre

(* The rm -rf of restore_docker_data_root deletes a data-root the system
   daemon has open in three ways at most: the restart before it had no effect,
   the trap's copy over daemon.json failed, or the run found the temporary root
   configured already and restored that. *)
CleanStartKeepsLiveRoot ==
  [][DropTempRoot /\ tempRoot /\ ~tempRoot'
     /\ ~hist.ignored /\ hist.trapOk /\ hist.pre # "temp"
       => ~(sysDocker.up /\ sysDocker.root = "temp")]_vars

(* A temporary-root run that reports its stack ready has it on the data-root
   daemon.json names, where the next start of the daemon will find it, unless
   its last restart had no effect: after the save the restore and its restart
   come before the load and the second up -d. *)
DeployedOnConfiguredRoot ==
  [][ReportDeployed /\ Mode = "temp" /\ ~hist.ignored
       => sysDocker.root = ConfiguredRoot]_vars

(* Isolated mode never touches the system Docker: no step of such a run, the
   restore its trap calls included, changes daemon.json, its backup or the
   data-root of the system daemon. *)
IsolatedRunLeavesSystemDocker ==
  [][(BodyStep \/ AbortBody \/ TrapStep) /\ opt.iso
       => UNCHANGED <<daemonJson, backup, sysDocker>>]_vars

(* After a failed isolated run whose trap completed, with both cleanup flags
   at their default of 1, neither the private root nor a private daemon whose
   pid was recorded is left (cleanup_isolated_docker_daemon_on_failure). *)
FailedIsolatedRunLeavesNothing ==
  pc = "idle" /\ hist.last = "failed" /\ hist.trapOk
  /\ opt.iso /\ opt.cleanup /\ opt.delete
    => ~iso.dir /\ iso.live = {}

(* The trap of a run that set DOCKER_ISOLATED_DEPLOY_SUCCEEDED takes nothing of
   the deployment down: the daemons, the private root and the service
   containers stay as the body left them. *)
DeployedStackSurvivesTrap ==
  [][TrapStep /\ flags.succeeded => UNCHANGED <<iso, svc>>]_vars
=============================================================================
