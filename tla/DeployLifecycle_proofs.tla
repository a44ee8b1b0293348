----------------------- MODULE DeployLifecycle_proofs -----------------------
(***************************************************************************)
(* Theorems about DeployLifecycle, for every set of flag settings and      *)
(* every bound on runs and faults.  One inductive invariant carries all of *)
(* them: SwapInv follows daemon.json and its backup through a run that     *)
(* applies the temporary data-root, PrivateInv the private daemons and     *)
(* their root through a run in isolated mode.                              *)
(***************************************************************************)
EXTENDS DeployLifecycle, TLAPS

IsoPcs    == {"isoStart", "isoContainerd", "isoDockerd"}
TmpPcs    == {"tmpBackup", "tmpInstall", "tmpRestart", "tmpActivate"}
PreBackup == {"disk", "gpu", "tmpBackup"} \union IsoPcs
PreApply  == PreBackup \union TmpPcs

(* While DOCKER_TEMP_DATA_ROOT_ACTIVE is set the backup is the configuration
   the run found; once it is cleared again that configuration is back, and a
   restart that did its work has the daemon on the root it names. *)
SwapInv ==
  /\ flags.active =>
       /\ hist.applied /\ Mode = "temp"
       /\ pc \notin PreApply \union TrapPcs \union {"built", "load", "waitReady", "rsDelete"}
       /\ pc = "idle" => ~hist.trapOk
  /\ hist.applied => pc \notin PreApply
  /\ pc \in TmpPcs => Mode = "temp"
  /\ pc \in IsoPcs => Mode = "iso"
  /\ pc \in PreBackup => daemonJson = hist.pre
  /\ pc # "idle" /\ (flags.active \/ pc \in {"tmpInstall", "tmpRestart", "tmpActivate"}) =>
       /\ flags.existed <=> hist.pre # "absent"
       /\ flags.existed => backup = hist.pre
  /\ pc = "rsRestart" => flags.active
  /\ pc = "rsDelete" => hist.applied /\ Mode = "temp"
  /\ hist.applied /\ hist.trapOk /\ (~flags.active \/ pc = "rsRestart")
       => daemonJson = hist.pre
  /\ Mode = "temp" /\ (pc \in {"composeDown", "build", "save"} \/ (pc = "rsFile" /\ ret = "load"))
       => flags.active
  /\ pc \in {"rsDelete", "load", "waitReady"} /\ Mode = "temp" /\ ~hist.ignored /\ sysDocker.up
       => sysDocker.root = ConfiguredRoot

(* No daemon without a private root; a run that has set the success flag is
   past everything that could undo it. *)
PrivateInv ==
  /\ ~iso.dir => iso.live = {}
  /\ pc \in {"isoContainerd", "isoDockerd"} => iso.dir
  /\ pc = "ciDelete" => iso.live = {}
  /\ flags.succeeded =>
       hist.last = "ok" /\ ~flags.active /\ pc \in {"rsFile", "ciGate", "idle"} /\ ret = "ciGate"
  /\ FailedIsolatedRunLeavesNothing

IInv == TypeOK /\ SwapInv /\ PrivateInv

-----------------------------------------------------------------------------
USE DEF Goto

LEMMA InitIInv == Init => IInv
<1> SUFFICES ASSUME Init PROVE IInv
  OBVIOUS
<1>1. TypeOK
  BY DeployAssumption DEF Init, TypeOK, Labels, DaemonRecord, PrivateRecord, FlagRecord,
     HistRecord, CountRecord, Configs
<1>2. SwapInv
  BY DEF Init, SwapInv, Mode, PreBackup, PreApply, IsoPcs, TmpPcs, TrapPcs
<1>3. PrivateInv
  BY DEF Init, PrivateInv, FailedIsolatedRunLeavesNothing
<1>4. QED
  BY <1>1, <1>2, <1>3 DEF IInv

LEMMA RestartTypes ==
  ASSUME sysDocker \in DaemonRecord, svc \in SUBSET Roots, hist \in HistRecord,
         RestartSucceeds \/ RestartIgnored \/ RestartFails
  PROVE  sysDocker' \in DaemonRecord /\ svc' \in SUBSET Roots /\ hist' \in HistRecord
<1>1. svc' \in SUBSET Roots
  BY DEF RestartSucceeds, RestartIgnored, RestartFails
<1>2. hist' \in HistRecord
  BY DEF RestartSucceeds, RestartIgnored, RestartFails, HistRecord
<1>3. CASE RestartSucceeds
  BY <1>1, <1>2, <1>3 DEF RestartSucceeds, ConfiguredRoot, DaemonRecord
<1>4. CASE RestartIgnored
  BY <1>1, <1>2, <1>4 DEF RestartIgnored
<1>5. CASE RestartFails
  BY <1>1, <1>2, <1>5 DEF RestartFails, DaemonRecord
<1>6. QED
  BY <1>3, <1>4, <1>5

(* Each step keeps the types, for every flag setting and every bound. *)
LEMMA CountFault ==
  ASSUME count \in CountRecord
  PROVE  [count EXCEPT !.faults = @ + 1] \in CountRecord
BY DEF CountRecord

LEMMA StepTypeOK == TypeOK /\ [Next]_vars => TypeOK'
<1> SUFFICES ASSUME TypeOK, [Next]_vars PROVE TypeOK'
  OBVIOUS
<1> USE DEF TypeOK, host, run, Labels, BodyPcs, RestorePcs, TrapPcs
<1>1. CASE \E o \in Options : StartRun(o)
  BY <1>1, DeployAssumption DEF StartRun, FlagRecord, HistRecord, CountRecord, Configs
<1>2. CASE PassDiskGates
  BY <1>2 DEF PassDiskGates, Mode, PrivateRecord
<1>3. CASE PassGpuGates
  BY <1>3 DEF PassGpuGates, Mode
<1>4. CASE StartIsolated
  BY <1>4 DEF StartIsolated, PrivateRecord
<1>5. CASE LaunchContainerd
  BY <1>5 DEF LaunchContainerd, PrivateRecord, Daemons
<1>6. CASE LaunchDockerd
  BY <1>6 DEF LaunchDockerd, PrivateRecord, Daemons
<1>7. CASE BackUpDaemonJson
  BY <1>7 DEF BackUpDaemonJson, FlagRecord, Configs
<1>8. CASE InstallTempConfig
  BY <1>8 DEF InstallTempConfig, Configs
<1>9. CASE RestartOnTempRoot
  <2>1. count' \in CountRecord
    BY <1>9, CountFault DEF RestartOnTempRoot, RestartSucceeds, RestartIgnored, RestartFails
  <2>2. sysDocker' \in DaemonRecord /\ svc' \in SUBSET Roots /\ hist' \in HistRecord
    BY <1>9, RestartTypes DEF RestartOnTempRoot
  <2>3. QED
    BY <1>9, <2>1, <2>2 DEF RestartOnTempRoot
<1>10. CASE ActivateTempRoot
  BY <1>10 DEF ActivateTempRoot, FlagRecord, HistRecord
<1>11. CASE ComposeDown
  BY <1>11 DEF ComposeDown, DockerAnswers, CurrentRoot, Mode
<1>12. CASE ComposeBuildSeedUp
  BY <1>12 DEF ComposeBuildSeedUp, DockerAnswers, CurrentRoot, Mode, Roots, DaemonRecord
<1>13. CASE FinishBuildOnly
  BY <1>13 DEF FinishBuildOnly, FlagRecord, HistRecord
<1>14. CASE SaveImage
  BY <1>14 DEF SaveImage
<1>15. CASE LoadImageAndUp
  BY <1>15 DEF LoadImageAndUp, CurrentRoot, Mode, Roots, DaemonRecord
<1>16. CASE ReportDeployed
  BY <1>16 DEF ReportDeployed, FlagRecord, HistRecord
<1>17. CASE AbortBody
  BY <1>17 DEF AbortBody, InBody, InTrap, HistRecord
<1>18. CASE RestoreConfig
  BY <1>18 DEF RestoreConfig, FlagRecord, Configs
<1>19. CASE RestoreCopyFails
  BY <1>19 DEF RestoreCopyFails, HistRecord
<1>20. CASE RestartOnOriginalRoot
  <2>1. count' \in CountRecord
    BY <1>20, CountFault DEF RestartOnOriginalRoot, RestartSucceeds, RestartIgnored, RestartFails
  <2>2. sysDocker' \in DaemonRecord /\ svc' \in SUBSET Roots /\ hist' \in HistRecord
    BY <1>20, RestartTypes DEF RestartOnOriginalRoot
  <2>3. flags' \in FlagRecord
    BY <1>20 DEF RestartOnOriginalRoot, FlagRecord
  <2>4. QED
    BY <1>20, <2>1, <2>2, <2>3 DEF RestartOnOriginalRoot
<1>21. CASE DropTempRoot
  BY <1>21 DEF DropTempRoot
<1>22. CASE SkipIsolatedCleanup
  BY <1>22 DEF SkipIsolatedCleanup, EndRun, HistRecord
<1>23. CASE BeginIsolatedCleanup
  BY <1>23 DEF BeginIsolatedCleanup
<1>24. CASE KillPrivateDaemons
  BY <1>24 DEF KillPrivateDaemons, PrivateRecord
<1>25. CASE DeletePrivateRoot
  BY <1>25 DEF DeletePrivateRoot, EndRun, PrivateRecord, HistRecord
<1>26. CASE AbandonRun
  BY <1>26 DEF AbandonRun, HistRecord
<1>27. CASE SystemDockerRecovers
  BY <1>27 DEF SystemDockerRecovers, ConfiguredRoot, DaemonRecord
<1>28. CASE PrivateDockerdCrashes
  <2>1. iso' \in PrivateRecord
    BY <1>28 DEF PrivateDockerdCrashes, PrivateRecord
  <2>2. QED
    BY <1>28, <2>1, CountFault DEF PrivateDockerdCrashes
<1>29. CASE Reboot
  <2>1. iso' \in PrivateRecord
    BY <1>29 DEF Reboot, PrivateRecord
  <2>2. sysDocker' \in DaemonRecord
    BY <1>29 DEF Reboot, ConfiguredRoot, DaemonRecord
  <2>3. QED
    BY <1>29, <2>1, <2>2, CountFault DEF Reboot
<1>30. CASE MakeClean
  BY <1>30 DEF MakeClean
<1>31. CASE \E r \in Roots : ContainerExits(r)
  BY <1>31 DEF ContainerExits
<1>32. CASE UNCHANGED vars
  BY <1>32 DEF vars
<1>33. QED
  BY <1>1, <1>2, <1>3, <1>4, <1>5, <1>6, <1>7, <1>8, <1>9, <1>10, <1>11,
     <1>12, <1>13, <1>14, <1>15, <1>16, <1>17, <1>18, <1>19, <1>20, <1>21,
     <1>22, <1>23, <1>24, <1>25, <1>26, <1>27, <1>28, <1>29, <1>30, <1>31,
     <1>32 DEF Next, BodyStep, TrapStep, HostStep

LEMMA StepSwapInv == TypeOK /\ SwapInv /\ PrivateInv /\ [Next]_vars => SwapInv'
<1> SUFFICES ASSUME TypeOK, SwapInv, PrivateInv, [Next]_vars PROVE SwapInv'
  OBVIOUS
<1> USE DEF TypeOK, SwapInv, PrivateInv, host, run, Labels, BodyPcs, RestorePcs, TrapPcs,
            IsoPcs, TmpPcs, PreBackup, PreApply, DaemonRecord, FlagRecord, HistRecord, Configs,
            Mode, ConfiguredRoot
<1>1. CASE \E o \in Options : StartRun(o)
  BY <1>1, DeployAssumption DEF StartRun
<1>2. CASE PassDiskGates
  BY <1>2 DEF PassDiskGates, Mode
<1>3. CASE PassGpuGates
  BY <1>3 DEF PassGpuGates, Mode
<1>4. CASE StartIsolated
  BY <1>4 DEF StartIsolated
<1>5. CASE LaunchContainerd
  BY <1>5 DEF LaunchContainerd
<1>6. CASE LaunchDockerd
  BY <1>6 DEF LaunchDockerd
<1>7. CASE BackUpDaemonJson
  BY <1>7 DEF BackUpDaemonJson
<1>8. CASE InstallTempConfig
  BY <1>8 DEF InstallTempConfig
<1>9. CASE RestartOnTempRoot
  BY <1>9 DEF RestartOnTempRoot, RestartSucceeds, RestartIgnored, RestartFails, ConfiguredRoot
<1>10. CASE ActivateTempRoot
  BY <1>10 DEF ActivateTempRoot
<1>11. CASE ComposeDown
  BY <1>11 DEF ComposeDown, DockerAnswers, CurrentRoot, Mode
<1>12. CASE ComposeBuildSeedUp
  <2>1. UNCHANGED <<host, opt, flags, hist>>
    BY <1>12 DEF ComposeBuildSeedUp
  <2>2. pc' \in {"rsFile", "save", "waitReady"} /\ pc = "build"
    BY <1>12 DEF ComposeBuildSeedUp
  <2>3. pc' = "waitReady" => Mode # "temp"
    BY <1>12 DEF ComposeBuildSeedUp
  <2>4. QED
    BY <2>1, <2>2, <2>3
<1>13. CASE FinishBuildOnly
  BY <1>13 DEF FinishBuildOnly
<1>14. CASE SaveImage
  BY <1>14 DEF SaveImage
<1>15. CASE LoadImageAndUp
  BY <1>15 DEF LoadImageAndUp, CurrentRoot, Mode
<1>16. CASE ReportDeployed
  BY <1>16 DEF ReportDeployed
<1>17. CASE AbortBody
  BY <1>17 DEF AbortBody, InBody, InTrap
<1>18. CASE RestoreConfig
  BY <1>18 DEF RestoreConfig
<1>19. CASE RestoreCopyFails
  BY <1>19 DEF RestoreCopyFails
<1>20. CASE RestartOnOriginalRoot
  BY <1>20 DEF RestartOnOriginalRoot, RestartSucceeds, RestartIgnored, RestartFails, ConfiguredRoot
<1>21. CASE DropTempRoot
  BY <1>21 DEF DropTempRoot
<1>22. CASE SkipIsolatedCleanup
  BY <1>22 DEF SkipIsolatedCleanup, EndRun
<1>23. CASE BeginIsolatedCleanup
  BY <1>23 DEF BeginIsolatedCleanup
<1>24. CASE KillPrivateDaemons
  BY <1>24 DEF KillPrivateDaemons
<1>25. CASE DeletePrivateRoot
  BY <1>25 DEF DeletePrivateRoot, EndRun
<1>26. CASE AbandonRun
  BY <1>26 DEF AbandonRun
<1>27. CASE SystemDockerRecovers
  BY <1>27 DEF SystemDockerRecovers, ConfiguredRoot
<1>28. CASE PrivateDockerdCrashes
  BY <1>28 DEF PrivateDockerdCrashes
<1>29. CASE Reboot
  BY <1>29 DEF Reboot, ConfiguredRoot
<1>30. CASE MakeClean
  BY <1>30 DEF MakeClean
<1>31. CASE \E r \in Roots : ContainerExits(r)
  BY <1>31 DEF ContainerExits
<1>32. CASE UNCHANGED vars
  BY <1>32 DEF vars
<1>33. QED
  BY <1>1, <1>2, <1>3, <1>4, <1>5, <1>6, <1>7, <1>8, <1>9, <1>10, <1>11,
     <1>12, <1>13, <1>14, <1>15, <1>16, <1>17, <1>18, <1>19, <1>20, <1>21,
     <1>22, <1>23, <1>24, <1>25, <1>26, <1>27, <1>28, <1>29, <1>30, <1>31,
     <1>32 DEF Next, BodyStep, TrapStep, HostStep

LEMMA StepPrivateInv == TypeOK /\ SwapInv /\ PrivateInv /\ [Next]_vars => PrivateInv'
<1> SUFFICES ASSUME TypeOK, SwapInv, PrivateInv, [Next]_vars PROVE PrivateInv'
  OBVIOUS
<1> USE DEF TypeOK, SwapInv, PrivateInv, FailedIsolatedRunLeavesNothing, host, run, Labels,
            BodyPcs, RestorePcs, TrapPcs, IsoPcs, TmpPcs, PreBackup, PreApply,
            PrivateRecord, FlagRecord, HistRecord
<1>1. CASE \E o \in Options : StartRun(o)
  BY <1>1, DeployAssumption DEF StartRun
<1>2. CASE PassDiskGates
  BY <1>2 DEF PassDiskGates, Mode
<1>3. CASE PassGpuGates
  BY <1>3 DEF PassGpuGates, Mode
<1>4. CASE StartIsolated
  BY <1>4 DEF StartIsolated
<1>5. CASE LaunchContainerd
  BY <1>5 DEF LaunchContainerd
<1>6. CASE LaunchDockerd
  BY <1>6 DEF LaunchDockerd
<1>7. CASE BackUpDaemonJson
  BY <1>7 DEF BackUpDaemonJson
<1>8. CASE InstallTempConfig
  BY <1>8 DEF InstallTempConfig
<1>9. CASE RestartOnTempRoot
  BY <1>9 DEF RestartOnTempRoot, RestartSucceeds, RestartIgnored, RestartFails, ConfiguredRoot
<1>10. CASE ActivateTempRoot
  BY <1>10 DEF ActivateTempRoot
<1>11. CASE ComposeDown
  BY <1>11 DEF ComposeDown, DockerAnswers, CurrentRoot, Mode
<1>12. CASE ComposeBuildSeedUp
  BY <1>12 DEF ComposeBuildSeedUp, DockerAnswers, CurrentRoot, Mode
<1>13. CASE FinishBuildOnly
  BY <1>13 DEF FinishBuildOnly
<1>14. CASE SaveImage
  BY <1>14 DEF SaveImage
<1>15. CASE LoadImageAndUp
  BY <1>15 DEF LoadImageAndUp, CurrentRoot, Mode
<1>16. CASE ReportDeployed
  BY <1>16 DEF ReportDeployed
<1>17. CASE AbortBody
  BY <1>17 DEF AbortBody, InBody, InTrap
<1>18. CASE RestoreConfig
  BY <1>18 DEF RestoreConfig
<1>19. CASE RestoreCopyFails
  BY <1>19 DEF RestoreCopyFails
<1>20. CASE RestartOnOriginalRoot
  BY <1>20 DEF RestartOnOriginalRoot, RestartSucceeds, RestartIgnored, RestartFails, ConfiguredRoot
<1>21. CASE DropTempRoot
  BY <1>21 DEF DropTempRoot
<1>22. CASE SkipIsolatedCleanup
  BY <1>22 DEF SkipIsolatedCleanup, EndRun
<1>23. CASE BeginIsolatedCleanup
  BY <1>23 DEF BeginIsolatedCleanup
<1>24. CASE KillPrivateDaemons
  BY <1>24 DEF KillPrivateDaemons
<1>25. CASE DeletePrivateRoot
  BY <1>25 DEF DeletePrivateRoot, EndRun
<1>26. CASE AbandonRun
  BY <1>26 DEF AbandonRun
<1>27. CASE SystemDockerRecovers
  BY <1>27 DEF SystemDockerRecovers, ConfiguredRoot
<1>28. CASE PrivateDockerdCrashes
  BY <1>28 DEF PrivateDockerdCrashes
<1>29. CASE Reboot
  BY <1>29 DEF Reboot, ConfiguredRoot
<1>30. CASE MakeClean
  BY <1>30 DEF MakeClean
<1>31. CASE \E r \in Roots : ContainerExits(r)
  BY <1>31 DEF ContainerExits
<1>32. CASE UNCHANGED vars
  BY <1>32 DEF vars
<1>33. QED
  BY <1>1, <1>2, <1>3, <1>4, <1>5, <1>6, <1>7, <1>8, <1>9, <1>10, <1>11,
     <1>12, <1>13, <1>14, <1>15, <1>16, <1>17, <1>18, <1>19, <1>20, <1>21,
     <1>22, <1>23, <1>24, <1>25, <1>26, <1>27, <1>28, <1>29, <1>30, <1>31,
     <1>32 DEF Next, BodyStep, TrapStep, HostStep

(* The inductive invariant holds, for every set of flags and bound. *)
THEOREM InvariantHolds == Spec => []IInv
<1>1. Init => IInv
  BY InitIInv
<1>2. IInv /\ [Next]_vars => IInv'
  BY StepTypeOK, StepSwapInv, StepPrivateInv DEF IInv
<1>3. QED
  BY <1>1, <1>2, PTL DEF Spec

-----------------------------------------------------------------------------
(* What the invariant gives. *)

(* Every variable keeps its type, in every run of every length. *)
THEOREM TypeCorrect == Spec => []TypeOK
<1>1. IInv => TypeOK
  BY DEF IInv
<1>2. QED
  BY <1>1, InvariantHolds, PTL

(* daemon.json is restored by every run that applied the temporary root and
   whose trap completed. *)
THEOREM AppliedRunsAreRestored == Spec => []AppliedRunRestored
<1>1. IInv => AppliedRunRestored
  BY DEF IInv, SwapInv, AppliedRunRestored
<1>2. QED
  BY <1>1, InvariantHolds, PTL

(* A failed isolated run whose trap completed leaves no private root and no
   recorded private daemon behind. *)
THEOREM FailedIsolatedRunsLeaveNothing == Spec => []FailedIsolatedRunLeavesNothing
<1>1. IInv => FailedIsolatedRunLeavesNothing
  BY DEF IInv, PrivateInv
<1>2. QED
  BY <1>1, InvariantHolds, PTL

(* The data-root the daemon serves is deleted only after a restart without
   effect, a failed copy or by a run that found that root configured. *)
THEOREM CleanStartsKeepTheLiveRoot == Spec => CleanStartKeepsLiveRoot
<1>1. ASSUME IInv, DropTempRoot, ~hist.ignored, hist.trapOk, hist.pre # "temp"
      PROVE  ~(sysDocker.up /\ sysDocker.root = "temp")
  <2>1. pc = "rsDelete" /\ ~flags.active /\ daemonJson = hist.pre /\ Mode = "temp"
    BY <1>1 DEF IInv, SwapInv, DropTempRoot
  <2>2. sysDocker.up => sysDocker.root = "sys"
    BY <1>1, <2>1 DEF IInv, SwapInv, ConfiguredRoot
  <2>3. QED
    BY <2>2
<1>2. IInv /\ [Next]_vars =>
        [DropTempRoot /\ tempRoot /\ ~tempRoot'
         /\ ~hist.ignored /\ hist.trapOk /\ hist.pre # "temp"
           => ~(sysDocker.up /\ sysDocker.root = "temp")]_vars
  BY <1>1
<1>3. QED
  BY <1>2, InvariantHolds, PTL DEF Spec, CleanStartKeepsLiveRoot

(* A stack reported ready by a temporary-root run is on the data-root that
   daemon.json names, unless the last restart had no effect. *)
THEOREM DeployedStacksOnConfiguredRoot == Spec => DeployedOnConfiguredRoot
<1>1. ASSUME IInv, ReportDeployed, Mode = "temp", ~hist.ignored
      PROVE  sysDocker.root = ConfiguredRoot
  <2>1. pc = "waitReady" /\ sysDocker.up
    BY <1>1 DEF ReportDeployed, DockerAnswers
  <2>2. QED
    BY <1>1, <2>1 DEF IInv, SwapInv
<1>2. IInv /\ [Next]_vars =>
        [ReportDeployed /\ Mode = "temp" /\ ~hist.ignored
           => sysDocker.root = ConfiguredRoot]_vars
  BY <1>1
<1>3. QED
  BY <1>2, InvariantHolds, PTL DEF Spec, DeployedOnConfiguredRoot

(* The trap of a successful run takes nothing of its deployment down. *)
THEOREM DeployedStacksSurviveTheTrap == Spec => DeployedStackSurvivesTrap
<1>1. ASSUME IInv, TrapStep, flags.succeeded
      PROVE  UNCHANGED <<iso, svc>>
  <2>1. pc # "rsRestart" /\ pc \in {"rsFile", "ciGate", "idle"}
    BY <1>1 DEF IInv, SwapInv, PrivateInv
  <2>2. QED
    BY <1>1, <2>1 DEF TrapStep, RestoreConfig, RestoreCopyFails, RestartOnOriginalRoot,
       DropTempRoot, SkipIsolatedCleanup, BeginIsolatedCleanup, KillPrivateDaemons,
       DeletePrivateRoot, host, run
<1>2. IInv /\ [Next]_vars => [TrapStep /\ flags.succeeded => UNCHANGED <<iso, svc>>]_vars
  BY <1>1
<1>3. QED
  BY <1>2, InvariantHolds, PTL DEF Spec, DeployedStackSurvivesTrap

(* A run in isolated mode changes neither daemon.json, nor its backup, nor the
   system daemon, and neither does the restore its trap calls. *)
THEOREM IsolatedRunsLeaveSystemDocker == Spec => IsolatedRunLeavesSystemDocker
<1>1. ASSUME IInv, BodyStep \/ AbortBody \/ TrapStep, opt.iso
      PROVE  UNCHANGED <<daemonJson, backup, sysDocker>>
  <2>1. ~flags.active /\ pc \notin TmpPcs \union {"rsRestart"}
    BY <1>1 DEF IInv, SwapInv, Mode
  <2>2. CASE BodyStep
    BY <2>1, <2>2 DEF BodyStep, PassDiskGates, PassGpuGates, StartIsolated, LaunchContainerd,
       LaunchDockerd, BackUpDaemonJson, InstallTempConfig, RestartOnTempRoot,
       ActivateTempRoot, ComposeDown, ComposeBuildSeedUp, FinishBuildOnly, SaveImage,
       LoadImageAndUp, ReportDeployed, host, run, TmpPcs
  <2>3. CASE AbortBody
    BY <2>3 DEF AbortBody, host
  <2>4. CASE TrapStep
    BY <2>1, <2>4 DEF TrapStep, RestoreConfig, RestoreCopyFails, RestartOnOriginalRoot,
       DropTempRoot, SkipIsolatedCleanup, BeginIsolatedCleanup, KillPrivateDaemons,
       DeletePrivateRoot, host
  <2>5. QED
    BY <1>1, <2>2, <2>3, <2>4
<1>2. IInv /\ [Next]_vars =>
        [(BodyStep \/ AbortBody \/ TrapStep) /\ opt.iso
           => UNCHANGED <<daemonJson, backup, sysDocker>>]_vars
  BY <1>1
<1>3. QED
  BY <1>2, InvariantHolds, PTL DEF Spec, IsolatedRunLeavesSystemDocker
=============================================================================
