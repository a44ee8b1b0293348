----------------------------- MODULE AssetStaging -----------------------------
(***************************************************************************)
(* stage_vnext_gguf_assets.sh: the dense text-config archive and, one      *)
(* after the other, the GGUF models, each downloaded as parts named by a   *)
(* manifest, verified, concatenated and moved to its final name.           *)
(*                                                                         *)
(* A run is a sequence of commands under set -e.  Any of them may be cut   *)
(* short (a lost connection, a full disk, a signal, a power failure) and   *)
(* leaves what it had written; the next run starts over on what it finds.  *)
(* The release may be republished with other split points at any time.     *)
(* A file is the sequence of its blocks, and its SHA256 stands for it.     *)
(***************************************************************************)
EXTENDS Naturals, Sequences

CONSTANTS
  Block,      \* the blocks files are made of
  Whole,      \* Whole[m]: the model behind the m-th hard-coded final hash
  Releases,   \* what may be published: for each model, its parts in order
  MaxParts,   \* bound: parts of one model
  MaxFaults   \* bound: commands cut short and republications

Models  == DOMAIN Whole
File    == Seq(Block)          \* an absent file is the empty one
Config  == {"config.json", "tokenizer.json"}

ASSUME StagingAssumption ==
  /\ Whole \in Seq(File) /\ \A m \in Models : Whole[m] # <<>>
  /\ Releases \subseteq [Models -> Seq(File \ {<<>>})]
  /\ \A r \in Releases, m \in Models : Len(r[m]) <= MaxParts
  /\ MaxParts \in Nat /\ MaxFaults \in Nat

VARIABLES
  release,  \* what the download URLs serve
  config,   \* the archive and the files of the directory extracted from it
  disk,     \* disk[m]: manifest, parts, parts list, .tmp and the model itself
  run,      \* the command the run is at, model and row it works on, outcome
  faults

vars == <<release, config, disk, run, faults>>

Prefixes(s) == {SubSeq(s, 1, k) : k \in 0..Len(s)}

Joined(parts) ==
  LET upTo[k \in 0..Len(parts)] == IF k = 0 THEN <<>> ELSE upTo[k - 1] \o parts[k]
  IN  upTo[Len(parts)]

Complete == [f \in Config |-> "good"]
NoParts  == [i \in 1..MaxParts |-> <<>>]
Regular(data) == [link |-> FALSE, data |-> data]

Dir == [manifest: Seq(File), parts: [1..MaxParts -> File], list: Seq(1..MaxParts),
        tmp: File, model: [link: BOOLEAN, data: File]]

(* The final name may be free, hold a damaged file, or be a link (to the   *)
(* model, to something else, or dangling).                                 *)
Init ==
  /\ release \in Releases
  /\ config = [archive |-> "bad", dir |-> [f \in Config |-> "none"]]
  /\ \E link \in [Models -> BOOLEAN], whole, free \in [Models -> BOOLEAN] :
       disk = [m \in Models |->
                [manifest |-> <<>>, parts |-> NoParts, list |-> <<>>, tmp |-> <<>>,
                 model |-> [link |-> link[m],
                            data |-> IF whole[m] THEN Whole[m]
                                     ELSE IF free[m] THEN <<>> ELSE Tail(Whole[m])]]]
  /\ run = [pc |-> "idle", m |-> 1, row |-> 1, linked |-> FALSE, result |-> "none"]
  /\ faults = 0

-----------------------------------------------------------------------------
(* The files of the model the run works on. *)
Here == disk[run.m]

Verified(m) == disk[m].model.data = Whole[m]

Goto(l) == run' = [run EXCEPT !.pc = l]
Fail    == run' = [run EXCEPT !.pc = "idle", !.result = "failed"]
NextModel == run' = [run EXCEPT !.pc = "look", !.m = @ + 1]

SetHere(new) == disk' = [disk EXCEPT ![run.m] = new]

StartRun ==
  /\ run.pc = "idle"
  /\ run' = [pc |-> "archive", m |-> 1, row |-> 1, linked |-> FALSE,
             result |-> "running"]
  /\ UNCHANGED <<release, config, disk, faults>>

-----------------------------------------------------------------------------
(* download_dense_text_config *)

(* Reused if it verifies, else downloaded and verified. *)
FetchArchive ==
  /\ run.pc = "archive"
  /\ config' = [config EXCEPT !.archive = "good"]
  /\ Goto("clear")
  /\ UNCHANGED <<release, disk, faults>>

(* rm -rf of the extracted directory. *)
ClearConfig ==
  /\ run.pc = "clear"
  /\ config' = [config EXCEPT !.dir = [f \in Config |-> "none"]]
  /\ Goto("extract")
  /\ UNCHANGED <<release, disk, faults>>

(* tar -xzf, the two tests and the hash of config.json. *)
ExtractConfig ==
  /\ run.pc = "extract"
  /\ config' = [config EXCEPT !.dir = Complete]
  /\ Goto("look")
  /\ UNCHANGED <<release, disk, faults>>

-----------------------------------------------------------------------------
(* download_split_gguf *)

(* Mutant: a file under the final name is taken as it is. *)
LookWithoutVerifying ==
  /\ run.pc = "look" /\ run.m \in Models
  /\ IF Here.model.link THEN Goto("copyLink")
     ELSE IF Here.model.data # <<>> THEN NextModel
     ELSE Goto("manifest")
  /\ UNCHANGED <<release, config, disk, faults>>

(* A verified link is copied, a verified file reused, anything else is     *)
(* downloaded.                                                             *)
LookAtModel ==
  /\ run.pc = "look" /\ run.m \in Models
  /\ IF ~Verified(run.m) THEN Goto("manifest")
     ELSE IF Here.model.link THEN Goto("copyLink") ELSE NextModel
  /\ UNCHANGED <<release, config, disk, faults>>

(* rm -f and cat of the link's target. *)
CopyLink ==
  /\ run.pc = "copyLink"
  /\ SetHere([Here EXCEPT !.tmp = Here.model.data])
  /\ run' = [run EXCEPT !.pc = "verify", !.linked = TRUE]
  /\ UNCHANGED <<release, config, faults>>

FetchManifest ==
  /\ run.pc = "manifest"
  /\ SetHere([Here EXCEPT !.manifest = release[run.m], !.list = <<>>])
  /\ run' = [run EXCEPT !.pc = "rows", !.row = 1, !.linked = FALSE]
  /\ UNCHANGED <<release, config, faults>>

AtRow == run.pc = "rows" /\ run.row <= Len(Here.manifest)
Available == run.row <= Len(release[run.m])

(* download_one_part: the part is there, or is downloaded, and verifies.   *)
FetchPart ==
  /\ AtRow
  /\ \/ Here.parts[run.row] = Here.manifest[run.row]
     \/ Available /\ release[run.m][run.row] = Here.manifest[run.row]
  /\ SetHere([Here EXCEPT !.parts[run.row] = Here.manifest[run.row],
                          !.list = Append(@, run.row)])
  /\ run' = [run EXCEPT !.row = @ + 1]
  /\ UNCHANGED <<release, config, faults>>

(* The release has changed since the manifest was read: the part is gone   *)
(* (curl -f), or another one, which stays on the disk.                     *)
PartDoesNotVerify ==
  /\ AtRow
  /\ Here.parts[run.row] # Here.manifest[run.row]
  /\ ~(Available /\ release[run.m][run.row] = Here.manifest[run.row])
  /\ SetHere(IF Available THEN [Here EXCEPT !.parts[run.row] = release[run.m][run.row]]
             ELSE Here)
  /\ Fail
  /\ UNCHANGED <<release, config, faults>>

RowsDone == run.pc = "rows" /\ run.row > Len(Here.manifest)
PartsMatch == /\ Here.list # <<>>
              /\ \A i \in DOMAIN Here.manifest : Here.parts[i] = Here.manifest[i]

(* Mutant: the .tmp of an unfinished run is appended to. *)
CheckPartsKeepsTmp ==
  /\ RowsDone
  /\ IF PartsMatch THEN run' = [run EXCEPT !.pc = "assemble", !.row = 1] ELSE Fail
  /\ UNCHANGED <<release, config, disk, faults>>

(* test -s of the list, sha256sum -c of all parts, rm -f of the .tmp. *)
CheckParts ==
  /\ RowsDone
  /\ IF PartsMatch
     THEN /\ SetHere([Here EXCEPT !.tmp = <<>>])
          /\ run' = [run EXCEPT !.pc = "assemble", !.row = 1]
     ELSE Fail /\ UNCHANGED disk
  /\ UNCHANGED <<release, config, faults>>

(* One cat of the loop over the parts list. *)
AssemblePart ==
  /\ run.pc = "assemble"
  /\ SetHere([Here EXCEPT !.tmp = @ \o Here.parts[Here.list[run.row]]])
  /\ run' = [run EXCEPT !.row = @ + 1,
                        !.pc = IF run.row = Len(Here.list) THEN "verify" ELSE @]
  /\ UNCHANGED <<release, config, faults>>

(* Mutant: only the verification after the move is left. *)
VerifyTmpLater ==
  /\ run.pc = "verify"
  /\ Goto("move")
  /\ UNCHANGED <<release, config, disk, faults>>

VerifyTmp ==
  /\ run.pc = "verify"
  /\ IF Here.tmp = Whole[run.m] THEN Goto("move") ELSE Fail
  /\ UNCHANGED <<release, config, disk, faults>>

MoveTmp ==
  /\ run.pc = "move"
  /\ SetHere([Here EXCEPT !.model = Regular(Here.tmp), !.tmp = <<>>])
  /\ Goto("confirm")
  /\ UNCHANGED <<release, config, faults>>

(* The final verification and, after a download, the rm -f of the list.    *)
ConfirmModel ==
  /\ run.pc = "confirm"
  /\ IF Verified(run.m)
     THEN NextModel /\ SetHere([Here EXCEPT !.list = IF run.linked THEN @ ELSE <<>>])
     ELSE Fail /\ UNCHANGED disk
  /\ UNCHANGED <<release, config, faults>>

ReportStaged ==
  /\ run.pc = "look" /\ run.m \notin Models
  /\ run' = [run EXCEPT !.pc = "idle", !.result = "staged"]
  /\ UNCHANGED <<release, config, disk, faults>>

-----------------------------------------------------------------------------
(* What a command that is cut short may leave. *)
Torn ==
  CASE run.pc = "copyLink" -> {[Here EXCEPT !.tmp = t] : t \in Prefixes(Here.model.data)}
    [] run.pc = "manifest" -> {[Here EXCEPT !.manifest = q] : q \in Prefixes(release[run.m])}
    [] AtRow /\ Available /\ Here.parts[run.row] # Here.manifest[run.row]
         -> {[Here EXCEPT !.parts[run.row] = t] : t \in Prefixes(release[run.m][run.row])}
    [] run.pc = "assemble"
         -> {[Here EXCEPT !.tmp = @ \o t] : t \in Prefixes(Here.parts[Here.list[run.row]])}
    [] OTHER -> {}

Fault == faults < MaxFaults /\ faults' = faults + 1

Interrupt ==
  /\ run.pc # "idle" /\ Fault /\ Fail
  /\ \/ UNCHANGED <<config, disk>>
     \/ \E new \in Torn : SetHere(new) /\ UNCHANGED config
     \/ /\ run.pc = "archive" /\ config.archive # "good"
        /\ config' = [config EXCEPT !.archive = "bad"]
        /\ UNCHANGED disk
     \/ /\ run.pc \in {"clear", "extract"}
        /\ \E left \in [Config -> {"none", "partial", "good"}] :
             /\ run.pc = "clear" => \A f \in Config : left[f] \in {"none", config.dir[f]}
             /\ config' = [config EXCEPT !.dir = left]
        /\ UNCHANGED disk
  /\ UNCHANGED release

Republish ==
  /\ Fault
  /\ release' \in Releases \ {release}
  /\ UNCHANGED <<config, disk, run>>

RunStep ==
  \/ FetchArchive \/ ClearConfig \/ ExtractConfig
  \/ LookAtModel \/ CopyLink \/ FetchManifest \/ FetchPart \/ PartDoesNotVerify
  \/ CheckParts \/ AssemblePart \/ VerifyTmp \/ MoveTmp \/ ConfirmModel \/ ReportStaged

Next == StartRun \/ RunStep \/ Interrupt \/ Republish

Spec == Init /\ [][Next]_vars

(* A command that is not cut short ends.  A transfer that stalls for ever  *)
(* counts as one that is cut short: the script gives curl no timeout.      *)
FairSpec == Spec /\ WF_vars(RunStep)

-----------------------------------------------------------------------------
RunRecord ==
  [pc: {"idle", "archive", "clear", "extract", "look", "copyLink", "manifest", "rows",
        "assemble", "verify", "move", "confirm"},
   m: 1..(Len(Whole) + 1), row: Nat \ {0}, linked: BOOLEAN,
   result: {"none", "running", "staged", "failed"}]

ConfigRecord ==
  [archive: {"good", "bad"}, dir: [Config -> {"none", "partial", "good"}]]

(* The types; in particular no command works on a model, a row of the      *)
(* manifest or an entry of the parts list that does not exist.             *)
TypeOK ==
  /\ release \in Releases
  /\ config \in ConfigRecord
  /\ disk \in [Models -> Dir]
  /\ run \in RunRecord
  /\ faults \in 0..MaxFaults
  /\ run.pc \in {"copyLink", "manifest", "rows", "assemble", "verify", "move", "confirm"}
       => run.m \in Models
  /\ run.pc = "assemble" => run.row \in DOMAIN Here.list
  /\ run.pc = "rows" => \A i \in DOMAIN Here.manifest : i <= MaxParts

(* A run that says "vNext GGUF assets staged" has left every model as a    *)
(* regular file with its locked hash, and the text-config complete,        *)
(* whatever earlier runs that were cut short had left behind.              *)
StagedMeansComplete ==
  run.result = "staged" =>
    /\ \A m \in Models : disk[m].model = Regular(Whole[m])
    /\ config.dir = Complete

(* The final name changes in one step, and only to the verified file: at   *)
(* no moment can a server find a part of a model there that the script     *)
(* wrote, and a model that was whole stays whole.                          *)
OnlyVerifiedModelsAppear ==
  [][\A m \in Models : disk'[m].model # disk[m].model
       => disk'[m].model = Regular(Whole[m])]_vars

(* No leftover wedges the script: a run with nothing going wrong any more, *)
(* against a correctly split release, stages everything, whatever parts,   *)
(* lists and .tmp files earlier runs left.                                 *)
CleanRunStages ==
  run.pc = "archive" /\ faults = MaxFaults
    /\ (\A m \in Models : Joined(release[m]) = Whole[m])
      ~> run.result = "staged"
=============================================================================
