------------------------------ MODULE MCRelease ------------------------------
(* A release is made ready and measured: the launch of the profiles, and the   *)
(* captures of one of them.  A run follows one; the other stays where it is.   *)
EXTENDS MCBenchmark, MCVnextLaunch

VARIABLE part
allVars == <<part, vars, launchVars>>

CapturesIdle == /\ parser = FALSE /\ requests = <<>> /\ backlog = <<>> /\ counters = NoCounters
                /\ run = NoRun /\ rows = <<>> /\ status = 9 /\ hist = [others |-> 0]

ReleaseInit == \/ part = "captures" /\ Init /\ LaunchInit
               \/ part = "launch" /\ LaunchInit /\ CapturesIdle

OnlyCaptures == part = "captures" /\ UNCHANGED <<part, launchVars>>
OnlyLaunch == part = "launch" /\ UNCHANGED <<part, vars>>

ReleaseNext ==
  \/ OnlyCaptures /\ Generate
  \/ OnlyCaptures /\ Record
  \/ OnlyCaptures /\ Disconnect
  \/ OnlyCaptures /\ OtherClient
  \/ OnlyCaptures /\ Restart
  \/ OnlyCaptures /\ Start
  \/ OnlyCaptures /\ WaitIdle
  \/ OnlyCaptures /\ ReadBefore
  \/ OnlyCaptures /\ Post
  \/ OnlyCaptures /\ Fail
  \/ OnlyCaptures /\ ReadAfter
  \/ OnlyCaptures /\ Score
  \/ OnlyLaunch /\ \E d \in RunDirs, q \in Requests : Launch(d, q)
  \/ OnlyLaunch /\ WriteFile
  \/ OnlyLaunch /\ KillLauncher
  \/ OnlyLaunch /\ \E d \in RunDirs : Verify(d)
  \/ OnlyLaunch /\ \E d \in RunDirs : RunByHand(d)
  \/ OnlyLaunch /\ \E d \in RunDirs : Begin(d)
  \/ OnlyLaunch /\ \E o \in Overlays : EditBundle(o)
  \/ OnlyLaunch /\ \E o \in Overlays : Rehash(o)
  \/ OnlyLaunch /\ \E o \in Overlays : LoseManifest(o)
  \/ OnlyLaunch /\ \E n \in Names : CheckBundle(n)
  \/ OnlyLaunch /\ \E n \in Names : CopyTargets(n)
  \/ OnlyLaunch /\ \E n \in Names : ApplyPatches(n)
  \/ OnlyLaunch /\ \E n \in Names : ExecCommand(n)
  \/ OnlyLaunch /\ \E n \in Names : Exit(n)
  \/ OnlyLaunch /\ Die
  \/ OnlyLaunch /\ StopAndRemove
  \/ OnlyLaunch /\ DockerRun
  \/ OnlyLaunch /\ ServerAnswers
  \/ OnlyLaunch /\ Capture

ReleaseSpec == ReleaseInit /\ [][ReleaseNext]_allVars
=============================================================================
