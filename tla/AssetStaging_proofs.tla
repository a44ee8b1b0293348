------------------------- MODULE AssetStaging_proofs -------------------------
(***************************************************************************)
(* What holds of the staging script for every set of models, every way to  *)
(* split them into parts and any number of interruptions.                  *)
(***************************************************************************)
EXTENDS AssetStaging, SequenceTheorems, TLAPS

ModelPcs == {"look", "copyLink", "manifest", "rows", "assemble", "verify", "move",
             "confirm"}

(* The models the run has gone past are in place. *)
PastInPlace ==
  run.pc # "idle" => \A m \in Models : m < run.m => disk[m].model = Regular(Whole[m])

(* What is about to be moved, and what has just been moved, is the model. *)
MovedIsVerified ==
  /\ run.pc = "move" => Here.tmp = Whole[run.m]
  /\ run.pc = "confirm" => Here.model = Regular(Whole[run.m])

ConfigInPlace == run.pc \in ModelPcs => config.dir = Complete

(* While the run is at the archive it is at the first model. *)
StartsAtFirst == run.pc \in {"archive", "clear", "extract"} => run.m = 1

StagedIsIdle == run.result = "staged" => run.pc = "idle"

IInv == /\ TypeOK
        /\ PastInPlace /\ MovedIsVerified /\ ConfigInPlace /\ StartsAtFirst
        /\ StagedIsIdle /\ StagedMeansComplete

-----------------------------------------------------------------------------
(* A prefix of a sequence is a sequence over the same set. *)
LEMMA PrefixType ==
  ASSUME NEW S, NEW s \in Seq(S), NEW t \in Prefixes(s)
  PROVE  t \in Seq(S)
<1>1. PICK k \in 0..Len(s) : t = SubSeq(s, 1, k)
  BY DEF Prefixes
<1>2. \A i \in 1..k : s[i] \in S
  BY <1>1
<1> QED BY <1>1, <1>2

(* A prefix is not longer than the sequence. *)
LEMMA PrefixLength ==
  ASSUME NEW S, NEW s \in Seq(S), NEW t \in Prefixes(s)
  PROVE  Len(t) <= Len(s)
<1>1. PICK k \in 0..Len(s) : t = SubSeq(s, 1, k)
  BY DEF Prefixes
<1>2. Len(t) = k
  BY <1>1
<1> QED BY <1>1, <1>2

(* A model's files stay of their type when one of them is replaced. *)
LEMMA DirUpdates ==
  ASSUME NEW d \in Dir, NEW f \in File, NEW q \in Seq(File), NEW l \in Seq(1..MaxParts),
         NEW i, NEW b \in BOOLEAN
  PROVE  /\ [d EXCEPT !.tmp = f] \in Dir
         /\ [d EXCEPT !.manifest = q] \in Dir
         /\ [d EXCEPT !.manifest = q, !.list = l] \in Dir
         /\ [d EXCEPT !.list = l] \in Dir
         /\ [d EXCEPT !.parts[i] = f] \in Dir
         /\ [d EXCEPT !.parts[i] = f, !.list = l] \in Dir
         /\ [d EXCEPT !.model = Regular(f), !.tmp = <<>>] \in Dir
<1>1. d.parts \in [1..MaxParts -> File]
  BY DEF Dir
<1>2. [d.parts EXCEPT ![i] = f] \in [1..MaxParts -> File]
  BY <1>1
<1>3. Regular(f) \in [link: BOOLEAN, data: File] /\ <<>> \in File
  BY DEF Regular, File
<1> QED BY <1>2, <1>3 DEF Dir

(* The release serves sequences of files, no longer than MaxParts. *)
LEMMA ReleaseType ==
  ASSUME NEW r \in Releases, NEW m \in Models
  PROVE  /\ r[m] \in Seq(File)
         /\ \A i \in DOMAIN r[m] : i \in 1..MaxParts /\ r[m][i] \in File
<1>1. r[m] \in Seq(File \ {<<>>}) /\ Len(r[m]) <= MaxParts /\ MaxParts \in Nat
  BY StagingAssumption
<1>2. r[m] \in Seq(File)
  BY <1>1
<1> QED BY <1>1, <1>2

(* Setting the files of the model at work leaves the others alone. *)
LEMMA SetHereFacts ==
  ASSUME TypeOK, run.m \in Models, NEW new \in Dir, SetHere(new)
  PROVE  /\ disk' \in [Models -> Dir]
         /\ disk'[run.m] = new
         /\ \A m \in Models : m # run.m => disk'[m] = disk[m]
BY DEF TypeOK, RunRecord, ConfigRecord, SetHere

(* The models are numbered from one. *)
LEMMA ModelsRange == Models = 1..Len(Whole) /\ Len(Whole) \in Nat
BY StagingAssumption DEF Models

(* A command that fails ends the run and claims nothing. *)
LEMMA FailInv ==
  ASSUME IInv, run.pc # "idle", Fail, disk' \in [Models -> Dir],
         config' \in ConfigRecord,
         release' \in Releases, faults' \in 0..MaxFaults
  PROVE  IInv'
<1>1. /\ run'.pc = "idle" /\ run'.result = "failed"
      /\ run' \in RunRecord
  BY DEF IInv, TypeOK, RunRecord, ConfigRecord, Fail, RunRecord
<1>2. TypeOK'
  BY <1>1 DEF TypeOK, RunRecord, ConfigRecord
<1> QED BY <1>1, <1>2 DEF IInv, PastInPlace, MovedIsVerified, ConfigInPlace,
          StartsAtFirst, StagedIsIdle, StagedMeansComplete, ModelPcs

-----------------------------------------------------------------------------
LEMMA InitInv == Init => IInv
<1> SUFFICES ASSUME Init PROVE IInv
  OBVIOUS
<1>1. Whole \in Seq(File) /\ (\A m \in Models : Whole[m] \in File /\ Whole[m] # <<>>)
  <2>1. Whole \in Seq(File) /\ \A m \in Models : Whole[m] # <<>>
    BY StagingAssumption
  <2> QED BY <2>1 DEF Models
<1>2. disk \in [Models -> Dir]
  <2>1. PICK link \in [Models -> BOOLEAN], whole, free \in [Models -> BOOLEAN] :
          disk = [m \in Models |->
                [manifest |-> <<>>, parts |-> NoParts, list |-> <<>>, tmp |-> <<>>,
                 model |-> [link |-> link[m],
                            data |-> IF whole[m] THEN Whole[m]
                                     ELSE IF free[m] THEN <<>> ELSE Tail(Whole[m])]]]
    BY Zenon DEF Init
  <2>2. \A m \in Models : Tail(Whole[m]) \in File /\ Whole[m] \in File /\ <<>> \in File
    BY <1>1 DEF File
  <2>3. NoParts \in [1..MaxParts -> File]
    BY DEF NoParts, File
  <2> SUFFICES ASSUME NEW m \in Models PROVE disk[m] \in Dir
    BY <2>1
  <2>4. link[m] \in BOOLEAN
    BY <2>1
  <2> DEFINE data == IF whole[m] THEN Whole[m]
                     ELSE IF free[m] THEN <<>> ELSE Tail(Whole[m])
  <2>5. data \in File
    BY <2>2
  <2>6. disk[m] = [manifest |-> <<>>, parts |-> NoParts, list |-> <<>>, tmp |-> <<>>,
                   model |-> [link |-> link[m], data |-> data]]
    BY <2>1
  <2> HIDE DEF data
  <2> QED BY <2>2, <2>3, <2>4, <2>5, <2>6 DEF Dir
<1>3. TypeOK
  BY <1>1, <1>2, StagingAssumption DEF Init, TypeOK, RunRecord, ConfigRecord
<1> QED BY <1>3 DEF Init, IInv, PastInPlace, MovedIsVerified, ConfigInPlace,
             StartsAtFirst, StagedIsIdle, StagedMeansComplete, ModelPcs

-----------------------------------------------------------------------------
(* The steps.  Those that leave the models' files alone first. *)
LEMMA StartRunInv == IInv /\ StartRun => IInv'
<1> SUFFICES ASSUME IInv, StartRun PROVE IInv'
  OBVIOUS
<1>1. TypeOK'
  BY ModelsRange DEF IInv, TypeOK, RunRecord, ConfigRecord, StartRun
<1>2. PastInPlace'
  BY ModelsRange DEF StartRun, PastInPlace
<1> QED BY <1>1, <1>2 DEF IInv, StartRun, MovedIsVerified, ConfigInPlace,
          StartsAtFirst, StagedIsIdle, StagedMeansComplete, ModelPcs

LEMMA ConfigStepsInv == IInv /\ (FetchArchive \/ ClearConfig \/ ExtractConfig) => IInv'
<1>1. IInv /\ FetchArchive => IInv'
  BY DEF IInv, FetchArchive, Goto, TypeOK, RunRecord, ConfigRecord, PastInPlace, MovedIsVerified, ConfigInPlace,
       StartsAtFirst, StagedIsIdle, StagedMeansComplete, ModelPcs, Here
<1>2. IInv /\ ClearConfig => IInv'
  BY DEF IInv, ClearConfig, Goto, TypeOK, RunRecord, ConfigRecord, PastInPlace, MovedIsVerified, ConfigInPlace,
       StartsAtFirst, StagedIsIdle, StagedMeansComplete, ModelPcs, Here
<1>3. IInv /\ ExtractConfig => IInv'
  BY DEF IInv, ExtractConfig, Complete, Goto, TypeOK, RunRecord, ConfigRecord, PastInPlace, MovedIsVerified, ConfigInPlace,
       StartsAtFirst, StagedIsIdle, StagedMeansComplete, ModelPcs, Here
<1> QED BY <1>1, <1>2, <1>3

LEMMA LookAtModelInv == IInv /\ LookAtModel => IInv'
<1> SUFFICES ASSUME IInv, LookAtModel PROVE IInv'
  OBVIOUS
<1>1. TypeOK /\ Here \in Dir
  BY DEF IInv, TypeOK, RunRecord, ConfigRecord, Here, LookAtModel
<1>2. Verified(run.m) /\ ~Here.model.link => Here.model = Regular(Whole[run.m])
  BY <1>1 DEF Verified, Regular, Here, Dir
<1>3. CASE ~Verified(run.m) \/ Here.model.link
  <2>1. PICK l \in {"manifest", "copyLink"} : run' = [run EXCEPT !.pc = l]
    BY <1>3 DEF LookAtModel, Goto
  <2>2. /\ run'.pc \in {"manifest", "copyLink"} /\ run'.m = run.m
        /\ run'.result = run.result
        /\ UNCHANGED <<release, config, disk, faults>>
    BY <2>1 DEF IInv, TypeOK, RunRecord, ConfigRecord, LookAtModel
  <2>3. TypeOK'
    BY <1>1, <2>1, <2>2 DEF TypeOK, RunRecord, ConfigRecord, LookAtModel
  <2> QED BY <2>2, <2>3 DEF IInv, LookAtModel, PastInPlace, MovedIsVerified,
            ConfigInPlace, StartsAtFirst, StagedIsIdle, StagedMeansComplete, ModelPcs
<1>4. CASE Verified(run.m) /\ ~Here.model.link
  <2>1. /\ run' = [run EXCEPT !.pc = "look", !.m = run.m + 1]
        /\ run.pc = "look" /\ run.m \in Models
        /\ UNCHANGED <<release, config, disk, faults>>
    BY <1>4 DEF LookAtModel, NextModel
  <2>2. run \in RunRecord /\ run.m + 1 \in 1..(Len(Whole) + 1)
    BY <1>1, <2>1, ModelsRange DEF TypeOK
  <2>3. /\ run' \in RunRecord
        /\ run'.pc = "look" /\ run'.m = run.m + 1 /\ run'.result = run.result
    BY <2>1, <2>2 DEF RunRecord
  <2>4. TypeOK'
    BY <1>1, <2>1, <2>3 DEF TypeOK
  <2>5. PastInPlace'
    BY <1>2, <1>4, <2>1, <2>3, ModelsRange DEF IInv, PastInPlace, Here
  <2>6. StagedMeansComplete' /\ StagedIsIdle'
    BY <2>1, <2>3 DEF IInv, StagedIsIdle, StagedMeansComplete
  <2> QED BY <2>1, <2>3, <2>4, <2>5, <2>6 DEF IInv, MovedIsVerified,
            ConfigInPlace, StartsAtFirst, ModelPcs
<1> QED BY <1>3, <1>4

LEMMA VerifyTmpInv == IInv /\ VerifyTmp => IInv'
<1> SUFFICES ASSUME IInv, VerifyTmp PROVE IInv'
  OBVIOUS
<1>1. CASE Here.tmp = Whole[run.m]
  <2>1. /\ run' = [run EXCEPT !.pc = "move"]
        /\ UNCHANGED <<release, config, disk, faults>>
    BY <1>1 DEF VerifyTmp, Goto
  <2>2. /\ run.pc = "verify" /\ run'.pc = "move" /\ run'.m = run.m
        /\ run'.result = run.result
    BY <2>1 DEF IInv, TypeOK, RunRecord, ConfigRecord, VerifyTmp
  <2>3. TypeOK'
    BY <2>1, <2>2 DEF IInv, TypeOK, RunRecord, ConfigRecord
  <2> QED BY <1>1, <2>1, <2>2, <2>3 DEF IInv, PastInPlace, MovedIsVerified, Here,
            ConfigInPlace, StartsAtFirst, StagedIsIdle, StagedMeansComplete, ModelPcs
<1>2. CASE Here.tmp # Whole[run.m]
  BY <1>2, FailInv DEF VerifyTmp, IInv, TypeOK, RunRecord, ConfigRecord
<1> QED BY <1>1, <1>2

LEMMA ReportStagedInv == IInv /\ ReportStaged => IInv'
<1> SUFFICES ASSUME IInv, ReportStaged PROVE IInv'
  OBVIOUS
<1>1. Models = 1..Len(Whole) /\ Len(Whole) \in Nat
  BY ModelsRange
<1>2. run.m = Len(Whole) + 1
  BY <1>1 DEF IInv, TypeOK, RunRecord, ConfigRecord, ReportStaged
<1>3. TypeOK'
  BY DEF IInv, TypeOK, RunRecord, ConfigRecord, ReportStaged
<1>4. \A m \in Models : disk[m].model = Regular(Whole[m])
  BY <1>1, <1>2 DEF IInv, PastInPlace, ReportStaged
<1>5. StagedMeansComplete'
  BY <1>4 DEF IInv, ConfigInPlace, StagedMeansComplete, ReportStaged, ModelPcs
<1> QED BY <1>3, <1>5 DEF IInv, ReportStaged, TypeOK, RunRecord, ConfigRecord, PastInPlace, MovedIsVerified,
          ConfigInPlace, StartsAtFirst, StagedIsIdle, ModelPcs

(* The steps that write files of one model keep the invariant if they      *)
(* leave the final name alone and the run where the next command expects.  *)
LEMMA WriteInv ==
  ASSUME IInv, run.m \in Models, run.pc \in ModelPcs,
         NEW new \in Dir, SetHere(new), new.model = Here.model,
         UNCHANGED <<release, config, faults>>,
         run'.pc \in ModelPcs, run'.m = run.m, run'.result = run.result, TypeOK',
         run'.pc \notin {"move", "confirm"}
  PROVE  IInv'
<1>1. \A m \in Models : disk'[m].model = disk[m].model
  BY SetHereFacts DEF IInv, Here
<1> QED BY <1>1 DEF IInv, PastInPlace, MovedIsVerified, ConfigInPlace, StartsAtFirst,
          StagedIsIdle, StagedMeansComplete, ModelPcs

LEMMA RepublishInv == IInv /\ Republish => IInv'
<1> SUFFICES ASSUME IInv, Republish PROVE IInv'
  OBVIOUS
<1>1. faults' \in 0..MaxFaults
  BY StagingAssumption DEF IInv, TypeOK, RunRecord, ConfigRecord, Republish, Fault
<1> QED BY <1>1 DEF IInv, Republish, TypeOK, RunRecord, ConfigRecord, PastInPlace, MovedIsVerified, ConfigInPlace,
          StartsAtFirst, StagedIsIdle, StagedMeansComplete, ModelPcs, Here

LEMMA CopyLinkInv == IInv /\ CopyLink => IInv'
<1> SUFFICES ASSUME IInv, CopyLink PROVE IInv'
  OBVIOUS
<1> DEFINE new == [Here EXCEPT !.tmp = Here.model.data]
<1>1. /\ run.m \in Models /\ Here \in Dir /\ run.pc \in ModelPcs
      /\ Here.model.data \in File /\ <<>> \in File /\ <<>> \in Seq(File)
      /\ <<>> \in Seq(1..MaxParts)
  BY DEF IInv, TypeOK, RunRecord, ConfigRecord, CopyLink, Here, Dir, File, ModelPcs
<1>2. new \in Dir /\ new.model = Here.model /\ SetHere(new)
  <2>1. new \in Dir
    BY <1>1, DirUpdates
  <2> QED BY <2>1, <1>1 DEF CopyLink, Dir
<1>3. run' = [run EXCEPT !.pc = "verify", !.linked = TRUE]
      /\ UNCHANGED <<release, config, faults>>
  BY DEF CopyLink
<1>4. run'.pc = "verify" /\ run'.m = run.m /\ run'.result = run.result
  BY <1>3 DEF IInv, TypeOK, RunRecord, ConfigRecord
<1>5. disk' \in [Models -> Dir]
  BY <1>1, <1>2, SetHereFacts DEF IInv
<1>6. TypeOK'
  BY <1>1, <1>3, <1>4, <1>5 DEF IInv, TypeOK, RunRecord, ConfigRecord
<1> QED BY <1>1, <1>2, <1>3, <1>4, <1>6, WriteInv DEF ModelPcs

LEMMA FetchManifestInv == IInv /\ FetchManifest => IInv'
<1> SUFFICES ASSUME IInv, FetchManifest PROVE IInv'
  OBVIOUS
<1> DEFINE new == [Here EXCEPT !.manifest = release[run.m], !.list = <<>>]
<1>1. /\ run.m \in Models /\ Here \in Dir /\ run.pc \in ModelPcs
      /\ release \in Releases /\ <<>> \in File /\ <<>> \in Seq(1..MaxParts)
  BY DEF IInv, TypeOK, RunRecord, ConfigRecord, FetchManifest, Here, File, ModelPcs
<1>2. release[run.m] \in Seq(File) /\ \A i \in DOMAIN release[run.m] : i <= MaxParts
  <2>1. release[run.m] \in Seq(File) /\ \A i \in DOMAIN release[run.m] : i \in 1..MaxParts
    BY <1>1, ReleaseType
  <2> QED BY <2>1, StagingAssumption
<1>3. new \in Dir /\ new.model = Here.model /\ SetHere(new) /\ new.manifest = release[run.m]
  <2>1. new \in Dir
    BY <1>1, <1>2, DirUpdates
  <2> QED BY <2>1, <1>1 DEF FetchManifest, Dir
<1>4. run' = [run EXCEPT !.pc = "rows", !.row = 1, !.linked = FALSE]
      /\ UNCHANGED <<release, config, faults>>
  BY DEF FetchManifest
<1>5. /\ run' \in RunRecord
      /\ run'.pc = "rows" /\ run'.m = run.m /\ run'.result = run.result
  <2>1. run \in RunRecord /\ 1 \in Nat \ {0}
    BY DEF IInv, TypeOK
  <2> QED BY <1>4, <2>1 DEF RunRecord
<1>6. disk' \in [Models -> Dir] /\ Here' = new
  BY <1>1, <1>3, <1>5, SetHereFacts DEF IInv, Here
<1>7. TypeOK'
  <2>1. \A i \in DOMAIN Here'.manifest : i <= MaxParts
    BY <1>2, <1>3, <1>6
  <2> HIDE DEF new
  <2> QED BY <2>1, <1>1, <1>4, <1>5, <1>6 DEF IInv, TypeOK
<1> QED BY <1>1, <1>3, <1>4, <1>5, <1>7, WriteInv DEF ModelPcs

LEMMA FetchPartInv == IInv /\ FetchPart => IInv'
<1> SUFFICES ASSUME IInv, FetchPart PROVE IInv'
  OBVIOUS
<1> DEFINE part == Here.manifest[run.row]
           new  == [Here EXCEPT !.parts[run.row] = part, !.list = Append(@, run.row)]
<1>1. /\ run.m \in Models /\ Here \in Dir /\ run.pc = "rows" /\ run.row \in Nat \ {0}
      /\ run.row <= Len(Here.manifest) /\ Here.manifest \in Seq(File)
      /\ Here.list \in Seq(1..MaxParts)
      /\ \A i \in DOMAIN Here.manifest : i <= MaxParts
      /\ <<>> \in File /\ <<>> \in Seq(File)
  BY DEF IInv, TypeOK, RunRecord, ConfigRecord, FetchPart, AtRow, Here, Dir, File
<1>2. run.row \in DOMAIN Here.manifest /\ part \in File /\ run.row \in 1..MaxParts
  BY <1>1, StagingAssumption
<1>3. Append(Here.list, run.row) \in Seq(1..MaxParts)
  BY <1>1, <1>2
<1>4. /\ new \in Dir /\ new.model = Here.model /\ SetHere(new)
      /\ new.manifest = Here.manifest
  <2>1. new \in Dir
    BY <1>1, <1>2, <1>3, DirUpdates
  <2> QED BY <2>1, <1>1 DEF FetchPart, Dir
<1>5. run' = [run EXCEPT !.row = run.row + 1] /\ UNCHANGED <<release, config, faults>>
  BY DEF FetchPart
<1>6. run'.pc = "rows" /\ run'.m = run.m /\ run'.result = run.result
  BY <1>1, <1>5 DEF IInv, TypeOK, RunRecord, ConfigRecord
<1> HIDE DEF new
<1>7. disk' \in [Models -> Dir] /\ Here' = new
  BY <1>1, <1>4, <1>6, SetHereFacts DEF IInv, Here
<1>8. TypeOK'
  <2>1. \A i \in DOMAIN Here'.manifest : i <= MaxParts
    BY <1>1, <1>4, <1>7
  <2> QED BY <2>1, <1>1, <1>5, <1>6, <1>7 DEF IInv, TypeOK, RunRecord, ConfigRecord
<1> QED BY <1>1, <1>4, <1>5, <1>6, <1>8, WriteInv DEF ModelPcs

LEMMA PartDoesNotVerifyInv == IInv /\ PartDoesNotVerify => IInv'
<1> SUFFICES ASSUME IInv, PartDoesNotVerify PROVE IInv'
  OBVIOUS
<1>1. /\ run.m \in Models /\ Here \in Dir /\ run.row \in Nat \ {0}
      /\ release \in Releases /\ run.pc = "rows"
      /\ <<>> \in Seq(File) /\ <<>> \in Seq(1..MaxParts)
  BY DEF IInv, TypeOK, RunRecord, ConfigRecord, PartDoesNotVerify, AtRow, Here
<1>2. disk' \in [Models -> Dir]
  <2>1. CASE Available
    <3>1. run.row \in DOMAIN release[run.m]
      BY <1>1, <2>1, ReleaseType DEF Available
    <3>2. release[run.m][run.row] \in File
      BY <1>1, <3>1, ReleaseType
    <3>3. [Here EXCEPT !.parts[run.row] = release[run.m][run.row]] \in Dir
      BY <1>1, <3>2, DirUpdates
    <3> QED BY <1>1, <2>1, <3>3, SetHereFacts DEF IInv, PartDoesNotVerify
  <2>2. CASE ~Available
    BY <1>1, <2>2, SetHereFacts DEF IInv, PartDoesNotVerify
  <2> QED BY <2>1, <2>2
<1> QED BY <1>1, <1>2, FailInv DEF PartDoesNotVerify, IInv, TypeOK, RunRecord, ConfigRecord

LEMMA CheckPartsInv == IInv /\ CheckParts => IInv'
<1> SUFFICES ASSUME IInv, CheckParts PROVE IInv'
  OBVIOUS
<1>1. /\ run.m \in Models /\ Here \in Dir /\ run.pc = "rows"
      /\ <<>> \in File /\ <<>> \in Seq(File)
      /\ Here.list \in Seq(1..MaxParts)
  BY DEF IInv, TypeOK, RunRecord, ConfigRecord, CheckParts, RowsDone, Here, Dir, File
<1>2. CASE PartsMatch
  <2> DEFINE new == [Here EXCEPT !.tmp = <<>>]
  <2>1. new \in Dir /\ new.model = Here.model /\ SetHere(new) /\ new.list = Here.list
    <3>1. new \in Dir
      BY <1>1, DirUpdates
    <3> QED BY <3>1, <1>1, <1>2 DEF CheckParts, Dir
  <2>2. /\ run' = [run EXCEPT !.pc = "assemble", !.row = 1]
        /\ UNCHANGED <<release, config, faults>>
    BY <1>2 DEF CheckParts
  <2>3. /\ run' \in RunRecord
        /\ run'.pc = "assemble" /\ run'.m = run.m /\ run'.result = run.result
        /\ run'.row = 1
    <3>1. run \in RunRecord /\ 1 \in Nat \ {0}
      BY DEF IInv, TypeOK
    <3> QED BY <2>2, <3>1 DEF RunRecord
  <2> HIDE DEF new
  <2>4. disk' \in [Models -> Dir] /\ Here' = new
    BY <1>1, <2>1, <2>3, SetHereFacts DEF IInv, Here
  <2>5. TypeOK'
    <3>1. 1 \in DOMAIN Here'.list
      BY <1>1, <1>2, <2>1, <2>4 DEF PartsMatch
    <3> QED BY <3>1, <1>1, <2>2, <2>3, <2>4 DEF IInv, TypeOK
  <2> QED BY <1>1, <2>1, <2>2, <2>3, <2>5, WriteInv DEF ModelPcs
<1>3. CASE ~PartsMatch
  BY <1>1, <1>3, FailInv DEF CheckParts, IInv, TypeOK, RunRecord, ConfigRecord
<1> QED BY <1>2, <1>3

LEMMA AssemblePartInv == IInv /\ AssemblePart => IInv'
<1> SUFFICES ASSUME IInv, AssemblePart PROVE IInv'
  OBVIOUS
<1> DEFINE part == Here.parts[Here.list[run.row]]
           new  == [Here EXCEPT !.tmp = Here.tmp \o part]
<1>1. /\ run.m \in Models /\ Here \in Dir /\ run.pc = "assemble" /\ run.row \in Nat \ {0}
      /\ Here.list \in Seq(1..MaxParts) /\ Here.parts \in [1..MaxParts -> File]
      /\ Here.tmp \in File /\ run.row \in DOMAIN Here.list
      /\ <<>> \in Seq(File) /\ <<>> \in Seq(1..MaxParts)
  BY DEF IInv, TypeOK, RunRecord, ConfigRecord, AssemblePart, Here, Dir
<1>2. Here.tmp \o part \in File
  <2>1. Here.list[run.row] \in 1..MaxParts
    <3>1. Here.list \in Seq(1..MaxParts) /\ run.row \in 1..Len(Here.list)
      BY <1>1
    <3> QED BY <3>1, ElementOfSeq
  <2>2. part \in File
    BY <1>1, <2>1
  <2> QED BY <1>1, <2>2 DEF File
<1>3. new \in Dir /\ new.model = Here.model /\ SetHere(new) /\ new.list = Here.list
  <2>1. new \in Dir
    BY <1>1, <1>2, DirUpdates
  <2> QED BY <2>1, <1>1 DEF AssemblePart, Dir
<1> HIDE DEF new
<1>4. PICK l \in {"assemble", "verify"} :
        /\ run' = [run EXCEPT !.row = run.row + 1, !.pc = l]
        /\ l = "assemble" => run.row # Len(Here.list)
        /\ UNCHANGED <<release, config, faults>>
  BY <1>1 DEF AssemblePart
<1>5. /\ run' \in RunRecord /\ run'.row = run.row + 1
      /\ run'.pc = l /\ run'.m = run.m /\ run'.result = run.result
  <2>1. run \in RunRecord /\ run.row + 1 \in Nat \ {0}
    BY <1>1 DEF IInv, TypeOK
  <2> QED BY <1>4, <2>1 DEF RunRecord
<1>6. disk' \in [Models -> Dir] /\ Here' = new
  BY <1>1, <1>3, <1>5, SetHereFacts DEF IInv, Here
<1>7. TypeOK'
  <2>1. l = "assemble" => run.row + 1 \in DOMAIN Here'.list
    BY <1>1, <1>3, <1>4, <1>6
  <2> QED BY <2>1, <1>1, <1>4, <1>5, <1>6 DEF IInv, TypeOK
<1> QED BY <1>1, <1>3, <1>4, <1>5, <1>7, WriteInv DEF ModelPcs

LEMMA MoveTmpInv == IInv /\ MoveTmp => IInv'
<1> SUFFICES ASSUME IInv, MoveTmp PROVE IInv'
  OBVIOUS
<1> DEFINE new == [Here EXCEPT !.model = Regular(Here.tmp), !.tmp = <<>>]
<1>1. /\ run.m \in Models /\ Here \in Dir /\ run.pc = "move" /\ run \in RunRecord
      /\ Here.tmp = Whole[run.m] /\ Here.tmp \in File
      /\ <<>> \in Seq(File) /\ <<>> \in Seq(1..MaxParts)
  BY DEF IInv, TypeOK, MovedIsVerified, MoveTmp, Here, Dir
<1>2. new \in Dir /\ new.model = Regular(Whole[run.m]) /\ SetHere(new)
  <2>1. new \in Dir
    BY <1>1, DirUpdates
  <2> QED BY <2>1, <1>1 DEF MoveTmp, Dir
<1>3. run' = [run EXCEPT !.pc = "confirm"] /\ UNCHANGED <<release, config, faults>>
  BY DEF MoveTmp, Goto
<1>4. /\ run' \in RunRecord
      /\ run'.pc = "confirm" /\ run'.m = run.m /\ run'.result = run.result
  BY <1>1, <1>3 DEF RunRecord
<1> HIDE DEF new
<1>5. /\ disk' \in [Models -> Dir] /\ Here' = new
      /\ \A m \in Models : m # run.m => disk'[m] = disk[m]
  BY <1>1, <1>2, <1>4, SetHereFacts DEF IInv, Here
<1>6. TypeOK'
  BY <1>1, <1>3, <1>4, <1>5 DEF IInv, TypeOK
<1>7. PastInPlace'
  BY <1>1, <1>4, <1>5, ModelsRange DEF IInv, PastInPlace
<1>8. MovedIsVerified'
  BY <1>2, <1>4, <1>5 DEF MovedIsVerified
<1>9. StagedIsIdle' /\ StagedMeansComplete'
  BY <1>1, <1>4 DEF IInv, StagedIsIdle, StagedMeansComplete
<1> QED BY <1>1, <1>3, <1>4, <1>6, <1>7, <1>8, <1>9
        DEF IInv, ConfigInPlace, StartsAtFirst, ModelPcs

LEMMA ConfirmModelInv == IInv /\ ConfirmModel => IInv'
<1> SUFFICES ASSUME IInv, ConfirmModel PROVE IInv'
  OBVIOUS
<1>1. /\ run.m \in Models /\ Here \in Dir /\ run.pc = "confirm" /\ run \in RunRecord
      /\ Here.list \in Seq(1..MaxParts)
      /\ <<>> \in File /\ <<>> \in Seq(File) /\ <<>> \in Seq(1..MaxParts)
      /\ Here.model = Regular(Whole[run.m])
  BY DEF IInv, TypeOK, MovedIsVerified, ConfirmModel, Here, Dir, File
<1>2. Verified(run.m)
  BY <1>1 DEF Verified, Regular, Here
<1>3. PICK l \in Seq(1..MaxParts) : SetHere([Here EXCEPT !.list = l])
  BY <1>1, <1>2 DEF ConfirmModel
<1> DEFINE new == [Here EXCEPT !.list = l]
<1>4. new \in Dir /\ new.model = Here.model
  <2>1. new \in Dir
    BY <1>1, DirUpdates
  <2> QED BY <2>1, <1>1 DEF Dir
<1>5. SetHere(new)
  BY <1>3
<1>6. run' = [run EXCEPT !.pc = "look", !.m = run.m + 1]
      /\ UNCHANGED <<release, config, faults>>
  BY <1>2 DEF ConfirmModel, NextModel
<1>7. /\ run' \in RunRecord
      /\ run'.pc = "look" /\ run'.m = run.m + 1 /\ run'.result = run.result
  <2>1. run.m + 1 \in 1..(Len(Whole) + 1)
    BY <1>1, ModelsRange
  <2> QED BY <1>1, <1>6, <2>1 DEF RunRecord
<1> HIDE DEF new
<1>8. /\ disk' \in [Models -> Dir]
      /\ disk'[run.m].model = Regular(Whole[run.m])
      /\ \A m \in Models : m # run.m => disk'[m] = disk[m]
  BY <1>1, <1>4, <1>5, SetHereFacts DEF IInv
<1>9. TypeOK'
  BY <1>6, <1>7, <1>8 DEF IInv, TypeOK
<1>10. PastInPlace'
  BY <1>1, <1>7, <1>8, ModelsRange DEF IInv, PastInPlace
<1>11. StagedIsIdle' /\ StagedMeansComplete'
  BY <1>1, <1>7 DEF IInv, StagedIsIdle, StagedMeansComplete
<1> QED BY <1>1, <1>6, <1>7, <1>9, <1>10, <1>11
        DEF IInv, MovedIsVerified, ConfigInPlace, StartsAtFirst, ModelPcs

(* Whatever a command that is cut short leaves is of the right type, and   *)
(* not under the final name.                                               *)
LEMMA TornType ==
  ASSUME IInv, NEW new \in Torn
  PROVE  run.m \in Models /\ new \in Dir /\ new.model = Here.model
<1>1. CASE run.pc = "copyLink"
  <2>1. /\ run.m \in Models /\ Here \in Dir /\ Here.model.data \in Seq(Block)
        /\ <<>> \in Seq(File) /\ <<>> \in Seq(1..MaxParts)
    BY <1>1 DEF IInv, TypeOK, Here, Dir, File
  <2>2. PICK t \in Prefixes(Here.model.data) : new = [Here EXCEPT !.tmp = t]
    <3>1. Torn = {[Here EXCEPT !.tmp = t] : t \in Prefixes(Here.model.data)}
      BY <1>1 DEF Torn, AtRow
    <3> QED BY <3>1
  <2>3. t \in File
    BY <2>1, PrefixType DEF File
  <2>4. new \in Dir
    BY <2>1, <2>2, <2>3, DirUpdates
  <2> QED BY <2>1, <2>2, <2>4 DEF Dir
<1>2. CASE run.pc = "manifest"
  <2>1. /\ run.m \in Models /\ Here \in Dir /\ release \in Releases
        /\ <<>> \in File /\ <<>> \in Seq(1..MaxParts)
    BY <1>2 DEF IInv, TypeOK, Here, File
  <2>2. PICK q \in Prefixes(release[run.m]) : new = [Here EXCEPT !.manifest = q]
    <3>1. Torn = {[Here EXCEPT !.manifest = q] : q \in Prefixes(release[run.m])}
      BY <1>2 DEF Torn, AtRow
    <3> QED BY <3>1
  <2>3. q \in Seq(File)
    <3>1. release[run.m] \in Seq(File)
      BY <2>1, ReleaseType
    <3> QED BY <3>1, PrefixType
  <2>4. new \in Dir
    BY <2>1, <2>2, <2>3, DirUpdates
  <2> QED BY <2>1, <2>2, <2>4 DEF Dir
<1>3. CASE run.pc \notin {"copyLink", "manifest"} /\ AtRow /\ Available
            /\ Here.parts[run.row] # Here.manifest[run.row]
  <2>1. /\ run.m \in Models /\ Here \in Dir /\ release \in Releases
        /\ run.row \in Nat \ {0}
        /\ <<>> \in Seq(File) /\ <<>> \in Seq(1..MaxParts)
    BY <1>3 DEF IInv, TypeOK, RunRecord, Here, AtRow
  <2>2. PICK t \in Prefixes(release[run.m][run.row]) :
          new = [Here EXCEPT !.parts[run.row] = t]
    <3>1. Torn = {[Here EXCEPT !.parts[run.row] = t] : t \in Prefixes(release[run.m][run.row])}
      BY <1>3 DEF Torn, AtRow
    <3> QED BY <3>1
  <2>3. t \in File
    <3>1. release[run.m] \in Seq(File) /\ run.row \in DOMAIN release[run.m]
      BY <1>3, <2>1, ReleaseType DEF Available
    <3>2. release[run.m][run.row] \in Seq(Block)
      BY <2>1, <3>1, ReleaseType DEF File
    <3> QED BY <3>2, PrefixType DEF File
  <2>4. new \in Dir
    BY <2>1, <2>2, <2>3, DirUpdates
  <2> QED BY <2>1, <2>2, <2>4 DEF Dir
<1>4. CASE run.pc = "assemble"
  <2>1. /\ run.m \in Models /\ Here \in Dir /\ run.row \in DOMAIN Here.list
        /\ Here.list \in Seq(1..MaxParts) /\ Here.parts \in [1..MaxParts -> File]
        /\ Here.tmp \in Seq(Block)
        /\ <<>> \in Seq(File) /\ <<>> \in Seq(1..MaxParts)
    BY <1>4 DEF IInv, TypeOK, Here, Dir, File
  <2>2. PICK t \in Prefixes(Here.parts[Here.list[run.row]]) :
          new = [Here EXCEPT !.tmp = Here.tmp \o t]
    <3>1. Torn = {[Here EXCEPT !.tmp = @ \o t] : t \in Prefixes(Here.parts[Here.list[run.row]])}
      BY <1>4 DEF Torn, AtRow
    <3> QED BY <3>1
  <2>3. Here.tmp \o t \in File
    <3>1. Here.list \in Seq(1..MaxParts) /\ run.row \in 1..Len(Here.list)
      BY <2>1
    <3>2. Here.list[run.row] \in 1..MaxParts
      BY <3>1, ElementOfSeq
    <3>3. Here.parts[Here.list[run.row]] \in Seq(Block)
      BY <2>1, <3>2 DEF File
    <3>4. t \in Seq(Block)
      BY <3>3, PrefixType
    <3> QED BY <2>1, <3>4 DEF File
  <2>4. new \in Dir
    BY <2>1, <2>2, <2>3, DirUpdates
  <2> QED BY <2>1, <2>2, <2>4 DEF Dir
<1> QED BY <1>1, <1>2, <1>3, <1>4 DEF Torn

LEMMA InterruptInv == IInv /\ Interrupt => IInv'
<1> SUFFICES ASSUME IInv, Interrupt PROVE IInv'
  OBVIOUS
<1>1. faults' \in 0..MaxFaults
  BY StagingAssumption DEF IInv, TypeOK, Interrupt, Fault
<1>2. run.pc # "idle" /\ Fail /\ release' \in Releases
  BY DEF IInv, TypeOK, Interrupt
<1>3. disk' \in [Models -> Dir] /\ config' \in ConfigRecord
  <2>1. CASE UNCHANGED <<config, disk>>
    BY <2>1 DEF IInv, TypeOK
  <2>2. CASE \E new \in Torn : SetHere(new) /\ UNCHANGED config
    <3>1. PICK new \in Torn : SetHere(new) /\ UNCHANGED config
      BY <2>2
    <3>2. run.m \in Models /\ new \in Dir
      BY TornType
    <3> QED BY <3>1, <3>2, SetHereFacts DEF IInv, TypeOK
  <2>3. CASE config' = [config EXCEPT !.archive = "bad"] /\ UNCHANGED disk
    BY <2>3 DEF IInv, TypeOK, ConfigRecord
  <2>4. CASE (\E left \in [Config -> {"none", "partial", "good"}] :
               config' = [config EXCEPT !.dir = left]) /\ UNCHANGED disk
    BY <2>4 DEF IInv, TypeOK, ConfigRecord
  <2> QED BY <2>1, <2>2, <2>3, <2>4 DEF Interrupt
<1> QED BY <1>1, <1>2, <1>3, FailInv

-----------------------------------------------------------------------------
(* The invariant holds of the script, for every model, release and number  *)
(* of interruptions.                                                       *)
THEOREM InvariantHolds == Spec => []IInv
<1>1. IInv /\ [Next]_vars => IInv'
  <2> SUFFICES ASSUME IInv, [Next]_vars PROVE IInv'
    OBVIOUS
  <2>1. CASE UNCHANGED vars
    BY <2>1 DEF vars, IInv, TypeOK, PastInPlace, MovedIsVerified, ConfigInPlace,
            StartsAtFirst, StagedIsIdle, StagedMeansComplete, Here
  <2>2. CASE RunStep
    BY <2>2, ConfigStepsInv, LookAtModelInv, CopyLinkInv, FetchManifestInv, FetchPartInv,
       PartDoesNotVerifyInv, CheckPartsInv, AssemblePartInv, VerifyTmpInv, MoveTmpInv,
       ConfirmModelInv, ReportStagedInv DEF RunStep
  <2> QED BY <2>1, <2>2, StartRunInv, InterruptInv, RepublishInv DEF Next
<1> QED BY <1>1, InitInv, PTL DEF Spec

(* The types hold, and no command works on something that does not exist   *)
(* (stage_vnext_gguf_assets.sh, the loops over the manifest and the list). *)
THEOREM TypeCorrect == Spec => []TypeOK
<1>1. IInv => TypeOK
  BY DEF IInv
<1> QED BY <1>1, InvariantHolds, PTL

(* The message "vNext GGUF assets staged" is true, whatever failed runs    *)
(* came before.                                                            *)
THEOREM StagedIsComplete == Spec => []StagedMeansComplete
<1>1. IInv => StagedMeansComplete
  BY DEF IInv
<1> QED BY <1>1, InvariantHolds, PTL

(* Only the verified model ever appears under the final name, and a model  *)
(* that is whole stays whole.                                              *)
THEOREM FinalNamesAreVerified == Spec => OnlyVerifiedModelsAppear
<1> DEFINE Good == \A m \in Models : disk'[m].model # disk[m].model
                     => disk'[m].model = Regular(Whole[m])
<1>1. IInv /\ [Next]_vars => Good
  <2> SUFFICES ASSUME IInv, [Next]_vars PROVE Good
    OBVIOUS
  <2>1. CASE UNCHANGED disk
    BY <2>1
  <2>2. CASE MoveTmp
    <3>1. /\ run.m \in Models /\ Here.tmp = Whole[run.m] /\ Here \in Dir
      BY <2>2 DEF IInv, TypeOK, MovedIsVerified, MoveTmp, Here
    <3> QED BY <2>2, <3>1 DEF IInv, TypeOK, MoveTmp, SetHere, Dir
  <2>3. ASSUME NEW new, SetHere(new), new.model = Here.model PROVE Good
    <3>1. \A m \in Models : disk'[m] = disk[m] \/ (m = run.m /\ disk'[m] = new)
      BY <2>3 DEF IInv, TypeOK, SetHere
    <3> QED BY <2>3, <3>1 DEF Here
  <2>4. run.m \in Models => Here \in Dir
    BY DEF IInv, TypeOK, Here
  <2>5. CASE CopyLink
    BY <2>3, <2>4, <2>5 DEF IInv, TypeOK, CopyLink, Dir
  <2>6. CASE FetchManifest
    BY <2>3, <2>4, <2>6 DEF IInv, TypeOK, FetchManifest, Dir
  <2>7. CASE FetchPart
    BY <2>3, <2>4, <2>7 DEF IInv, TypeOK, FetchPart, AtRow, Dir
  <2>8. CASE PartDoesNotVerify
    BY <2>3, <2>4, <2>8 DEF IInv, TypeOK, PartDoesNotVerify, AtRow, Dir
  <2>9. CASE CheckParts
    BY <2>1, <2>3, <2>4, <2>9 DEF IInv, TypeOK, CheckParts, RowsDone, Dir
  <2>10. CASE AssemblePart
    BY <2>3, <2>4, <2>10 DEF IInv, TypeOK, AssemblePart, Dir
  <2>11. CASE ConfirmModel
    BY <2>1, <2>3, <2>4, <2>11 DEF IInv, TypeOK, ConfirmModel, Dir
  <2>12. CASE Interrupt
    <3>1. CASE \E new \in Torn : SetHere(new)
      <4>1. PICK new \in Torn : SetHere(new)
        BY <3>1
      <4>2. new.model = Here.model
        BY TornType
      <4> QED BY <2>3, <4>1, <4>2
    <3> QED BY <2>1, <2>12, <3>1 DEF Interrupt
  <2> QED
    BY <2>1, <2>2, <2>5, <2>6, <2>7, <2>8, <2>9, <2>10, <2>11, <2>12
       DEF Next, RunStep, StartRun, FetchArchive, ClearConfig, ExtractConfig,
           LookAtModel, VerifyTmp, ReportStaged, Republish, vars
<1> QED BY <1>1, InvariantHolds, PTL DEF Spec, OnlyVerifiedModelsAppear
=============================================================================
