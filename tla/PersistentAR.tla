---------------------------- MODULE PersistentAR ----------------------------
(***************************************************************************)
(* The persistent all-reduce sidecar of the tensor-parallel workers:       *)
(* gfx906_persistent_ar.py (handles, call-site numbering, bypass, routing, *)
(* deferred workers), the graph-capture context and the in-place           *)
(* all-reduce wrappers of parallel_state.py, and the sitecustomize hooks   *)
(* that disable and start it around the model runner.                      *)
(*                                                                         *)
(* Every rank is a process with its own copy of the state ("core").  The   *)
(* engine broadcasts a call; each rank performs the call's steps at its    *)
(* own pace, and any step may meet a failure on that rank alone.  The      *)
(* engine goes on when every rank has finished and the device work of all  *)
(* of them matches: a collective issued over different transports never    *)
(* completes.                                                              *)
(***************************************************************************)
EXTENDS Naturals, Sequences, FiniteSets

CONSTANTS
  Ranks,
  Lib,           \* the library each route is configured with, or NoLib
  NoLib,
  LayerPrefixes, \* layer prefixes the call-site metadata may carry
  NoPrefix,
  Model,         \* the all-reduce calls of one forward pass, in order
  Strict, Defer, CaptureOnly, Preinit,  \* the *_STRICT, *_DEFER_WORKER, ...
  SkipContexts,       \* *_SKIP_GRAPH_CAPTURE_CONTEXTS
  AfterCapture,       \* *_START_AFTER_CAPTURE
  AfterPrefill,       \* *_START_AFTER_PREFILL
  BypassSites,        \* call sites the bypass selectors match
  BypassOccurrences,  \* occurrences of a listed prefix they match
  RoutedSites,        \* call sites the callsite route matches
  Graphs,             \* is cudagraph_mode other than NONE?
  Warmups,            \* cudagraph_num_of_warmups
  MaxExecutes,        \* bound: execute_model calls
  MaxFaults           \* bound: library calls that fail

Kinds == {"default", "attn", "mlp", "other", "callsite"}
Libs  == {Lib[k] : k \in Kinds} \ {NoLib}
CallRecord == [op: {"inplace", "fused", "public"}, kind: Kinds,
               prefix: LayerPrefixes \cup {NoPrefix},
               bypass: {"never", "prefix", "site"}]
Step  == [op: {"run", "record", "replay", "enterProfile", "enterCapture",
               "exitCapture", "clearGraphs", "exitProfile", "afterCapture",
               "endExecute"},
          call: Nat, flag: BOOLEAN]

ASSUME ARAssumption ==
  /\ NoLib # "public" /\ "public" \notin Libs /\ IsFiniteSet(Libs)
  /\ DOMAIN Lib = Kinds
  /\ Model \in Seq(CallRecord)
  /\ \A i \in DOMAIN Model : Model[i].bypass = "prefix" => Model[i].prefix # NoPrefix
  /\ NoPrefix \notin LayerPrefixes
  /\ {Strict, Defer, CaptureOnly, Preinit, AfterCapture, AfterPrefill, Graphs}
       \subseteq BOOLEAN
  /\ SkipContexts \in Nat /\ Warmups \in Nat
  /\ MaxExecutes \in Nat /\ MaxFaults \in Nat

VARIABLES
  past,      \* past[r]: the cores of rank r since the call began, newest last
  rpc,       \* the steps of the call the engine is waiting for
  phase,     \* how far the engine has come
  executes,  \* execute_model calls so far
  faults     \* failures so far

vars == <<past, rpc, phase, executes, faults>>

-----------------------------------------------------------------------------
(* The state of one rank.  saved[w] is what the open wrapper w restores.   *)
Scopes == {"profile", "capture"}
Saved  == [ar: BOOLEAN, inCap: BOOLEAN, restoreAr: BOOLEAN]
SavedByScope == [Scopes -> Saved]
Transports   == Libs \cup {"public"}
Trace        == Seq(Transports)
Occurrences  == [LayerPrefixes -> Nat]
Core == [status: {"ok", "raised"},
         ar: BOOLEAN,                  \* VLLM_GFX906_PERSISTENT_AR
         inCap: BOOLEAN,               \* *_IN_GRAPH_CAPTURE
         open: SUBSET Scopes, saved: SavedByScope,
         contexts: Nat,                \* graph_capture contexts counted
         handles: SUBSET Libs, started: SUBSET Libs,
         seq: Nat,                     \* _launch_sequences
         occ: Occurrences,             \* _prefix_occurrences
         armed: BOOLEAN,               \* *_PREFILL_STARTED
         graph: Trace,                 \* collectives in the recorded graph
         last: Trace]                  \* collectives the last step issued

Core0 == [status |-> "ok", ar |-> TRUE, inCap |-> FALSE, open |-> {},
          saved |-> [w \in Scopes |->
                      [ar |-> FALSE, inCap |-> FALSE, restoreAr |-> FALSE]],
          contexts |-> 0, handles |-> {}, started |-> {}, seq |-> 0,
          occ |-> [p \in LayerPrefixes |-> 0], armed |-> FALSE,
          graph |-> <<>>, last |-> <<>>]

(* What may fail in one step: creating or starting a library's handle, and *)
(* the launch.                                                             *)
Fault   == [create: SUBSET Libs, launch: BOOLEAN, start: SUBSET Libs]
NoFault == [create |-> {}, launch |-> FALSE, start |-> {}]

Quiet(c)    == [c EXCEPT !.last = <<>>]
Issue(c, t) == [c EXCEPT !.last = <<t>>]

(* Mutant: the finally block forgets VLLM_GFX906_PERSISTENT_AR. *)
LeaveKeepsAr(w, c) ==
  IF w \in c.open
  THEN [c EXCEPT !.open = @ \ {w}, !.inCap = c.saved[w].inCap]
  ELSE c

(* The finally block of a wrapper: put the environment back. *)
Leave(w, c) ==
  IF w \in c.open
  THEN [c EXCEPT !.open = @ \ {w}, !.inCap = c.saved[w].inCap,
                 !.ar = IF c.saved[w].restoreAr THEN c.saved[w].ar ELSE @]
  ELSE c

(* An exception unwinds the open wrappers, the inner one first. *)
Raise(c) == [Quiet(Leave("profile", Leave("capture", c))) EXCEPT !.status = "raised"]

(* A route without a library of its own uses the default one. *)
PathOf(kind) ==
  IF kind # "default" /\ Lib[kind] # NoLib THEN Lib[kind] ELSE Lib["default"]

ConfiguredRoutes == {"default"} \cup {k \in Kinds : Lib[k] # NoLib}

Missing(c, lib, f) == lib = NoLib \/ (lib \notin c.handles /\ lib \in f.create)

(* Mutant: a failure falls back to the public path even when strict. *)
MissFallsBack(c) == Issue(c, "public")

(* The sidecar cannot serve the call. *)
Miss(c) == IF Strict THEN Raise(c) ELSE Issue(c, "public")

Numbered(c) == [c EXCEPT !.seq = @ + 1]

Counted(c, call) ==
  IF call.prefix = NoPrefix THEN c ELSE [c EXCEPT !.occ[call.prefix] = @ + 1]

BypassCallsite(c, call) ==
  \/ call.bypass = "prefix" /\ c.occ[call.prefix] \in BypassOccurrences
  \/ call.bypass = "site" /\ c.seq \in BypassSites

CallsiteRouteKind(c, call) ==
  IF Lib["callsite"] # NoLib /\ c.seq \in RoutedSites THEN "callsite" ELSE call.kind

Unavailable(c, fits) == ~c.ar \/ ~fits \/ (CaptureOnly /\ ~c.inCap)

(* Mutant: a launch that fails falls back by itself. *)
LaunchFallsBack(c, lib, f) ==
  LET h == [c EXCEPT !.handles = @ \cup {lib}]
  IN  IF f.launch THEN Issue(h, "public") ELSE Issue(Numbered(h), lib)

(* A sidecar launch on a handle the rank has or creates now. *)
Launch(c, lib, f) ==
  LET h == [c EXCEPT !.handles = @ \cup {lib}]
  IN  IF f.launch THEN Miss(h) ELSE Issue(Numbered(h), lib)

(* Mutant: workers that were not started are not recognised. *)
SidecarNoDeferGuard(c, kind, f) ==
  IF Missing(c, PathOf(kind), f) THEN Miss(c) ELSE Launch(c, PathOf(kind), f)

(* The sidecar part of try_all_reduce_inplace, once the route is known. *)
Sidecar(c, kind, f) ==
  LET lib == PathOf(kind) IN
  IF Missing(c, lib, f) THEN Miss(c)
  ELSE IF Defer /\ lib \notin c.started /\ ~c.inCap
       THEN Issue([c EXCEPT !.handles = @ \cup {lib}], "public")
       ELSE Launch(c, lib, f)

TryAllReduceInplace(c, call, fits, f) ==
  IF Unavailable(c, fits) THEN Issue(c, "public")
  ELSE IF BypassCallsite(c, call) THEN Issue(Numbered(Counted(c, call)), "public")
       ELSE Sidecar(Counted(c, call), CallsiteRouteKind(c, call), f)

(* The fused boundary: no deferral guard, no call-site number and no       *)
(* fallback; whatever keeps it from running raises.                        *)
TryAddRms(c, call, f) ==
  LET lib == PathOf(call.kind) IN
  IF Unavailable(c, TRUE) \/ Missing(c, lib, f) \/ f.launch
  THEN Raise(c)
  ELSE Issue([c EXCEPT !.handles = @ \cup {lib}], lib)

AllReduce(c, call, fits, f) ==
  CASE call.op = "public"  -> Issue(c, "public")
    [] call.op = "fused"   -> TryAddRms(c, call, f)
    [] call.op = "inplace" -> TryAllReduceInplace(c, call, fits, f)

(* Recording: the collective goes into the graph. *)
Record(c, call, f) ==
  LET d == AllReduce(c, call, TRUE, f) IN [d EXCEPT !.graph = @ \o d.last]

(* Mutant: only the unkinded route is initialised ahead of the capture. *)
PreinitDefaultOnly(c, f) ==
  IF Strict /\ Missing(c, PathOf("default"), f)
  THEN Raise(c)
  ELSE [c EXCEPT !.handles = @ \cup
          {l \in {PathOf("default")} : ~Missing(c, l, f)}]

(* preinit_for_graph_capture: a handle for every configured route. *)
PreinitForGraphCapture(c, f) ==
  LET wanted == {PathOf(k) : k \in ConfiguredRoutes}
      failed == {l \in wanted : Missing(c, l, f)}
  IN  IF Strict /\ failed # {} THEN Raise(c)
      ELSE [c EXCEPT !.handles = @ \cup (wanted \ failed)]

(* The first SkipContexts contexts entered with the sidecar on skip it. *)
Skips(c) == c.ar /\ c.contexts < SkipContexts

(* GroupCoordinator.graph_capture up to its yield.  The finally block is   *)
(* not yet in force while handles are created.                             *)
EnterCapture(c, f) ==
  LET skip    == Skips(c)
      counted == [Quiet(c) EXCEPT !.inCap = TRUE, !.ar = @ /\ ~skip,
                                  !.contexts = IF c.ar THEN @ + 1 ELSE @]
      ready   == IF counted.ar /\ Preinit
                 THEN PreinitForGraphCapture(counted, f) ELSE counted
  IN  IF ready.status = "raised" THEN ready
      ELSE [ready EXCEPT !.open = @ \cup {"capture"},
              !.saved["capture"] =
                 [ar |-> c.ar, inCap |-> c.inCap, restoreAr |-> skip]]

(* _with_persistent_ar_disabled up to the wrapped call. *)
EnterProfile(c) ==
  [Quiet(c) EXCEPT !.ar = FALSE, !.inCap = FALSE, !.open = @ \cup {"profile"},
     !.saved["profile"] = [ar |-> c.ar, inCap |-> c.inCap, restoreAr |-> TRUE]]

(* Mutant: a worker that does not start is passed over, strict or not. *)
StartToleratesFailure(c, f) ==
  IF ~c.ar \/ ~Defer THEN c
  ELSE [c EXCEPT !.started = @ \cup ((c.handles \ c.started) \ f.start)]

(* start_deferred_workers: every handle whose worker is not running yet. *)
StartDeferredWorkers(c, f) ==
  LET todo == c.handles \ c.started IN
  IF ~c.ar \/ ~Defer THEN c
  ELSE IF Strict /\ todo \cap f.start # {} THEN Raise(c)
       ELSE [c EXCEPT !.started = @ \cup (todo \ f.start)]

ShouldStartAfterPrefill(c, real) ==
  AfterPrefill /\ c.ar /\ ~c.inCap /\ ~c.armed /\ real

(* The execute_model wrapper after the wrapped call. *)
EndExecute(c, real, f) ==
  IF ~ShouldStartAfterPrefill(c, real) THEN c
  ELSE LET d == StartDeferredWorkers(c, f)
       IN  IF d.status = "raised" THEN d ELSE [d EXCEPT !.armed = TRUE]

(* What step s does to a rank in state c. *)
Apply(c, s, f) ==
  CASE s.op = "run"          -> AllReduce(c, Model[s.call], s.flag, f)
    [] s.op = "record"       -> Record(c, Model[s.call], f)
    [] s.op = "replay"       -> [c EXCEPT !.last = c.graph]
    [] s.op = "enterProfile" -> EnterProfile(c)
    [] s.op = "enterCapture" -> EnterCapture(c, f)
    [] s.op = "exitCapture"  -> Leave("capture", Quiet(c))
    [] s.op = "clearGraphs"  -> [Quiet(c) EXCEPT !.graph = <<>>]
    [] s.op = "exitProfile"  -> Leave("profile", Quiet(c))
    [] s.op = "afterCapture" -> StartDeferredWorkers(Quiet(c), f)
    [] s.op = "endExecute"   -> EndExecute(Quiet(c), s.flag, f)

-----------------------------------------------------------------------------
(* The engine's calls, as the sequences of steps every rank performs.      *)
Do(op)        == <<[op |-> op, call |-> 0, flag |-> FALSE]>>
Body(op, fits) ==
  [i \in 1..Len(Model) |-> [op |-> op, call |-> i, flag |-> fits]]

(* _warmup_and_capture: eager dummy runs, then the recorded one. *)
WarmupAndCapture ==
  LET n == Warmups * Len(Model)
  IN  [i \in 1..n |-> [op |-> "run", call |-> ((i - 1) % Len(Model)) + 1,
                       flag |-> TRUE]]
      \o Body("record", TRUE)

CaptureContext == IF Graphs
                  THEN Do("enterCapture") \o WarmupAndCapture \o Do("exitCapture")
                  ELSE <<>>

(* profile_cudagraph_memory, wrapped when either hook is enabled. *)
ProfileCudagraphMemory ==
  IF AfterCapture \/ AfterPrefill
  THEN Do("enterProfile") \o CaptureContext \o Do("clearGraphs") \o Do("exitProfile")
  ELSE CaptureContext \o Do("clearGraphs")

CaptureModel ==
  IF AfterCapture THEN CaptureContext \o Do("afterCapture") ELSE CaptureContext

(* execute_model: a pass runs eagerly, within the sidecar's sizes or not,  *)
(* and as the prefill of a request or not; where a graph was recorded for  *)
(* its size, a decode replays it.                                          *)
ExecuteEager(fits, real) ==
  Body("run", fits) \o <<[op |-> "endExecute", call |-> 0, flag |-> real]>>
ExecuteReplay == Do("replay") \o Do("endExecute")

-----------------------------------------------------------------------------
Cur(r)  == past[r][Len(past[r])]
Done(r) == Cur(r).status = "ok" /\ Len(past[r]) = Len(rpc) + 1
Issued(r) == [i \in 1..(Len(past[r]) - 1) |-> past[r][i + 1].last]
Raised == {r \in Ranks : Cur(r).status = "raised"}

(* Every rank has finished the call and the device work has completed. *)
Quiescent == /\ \A r \in Ranks : Done(r)
             /\ \A r, s \in Ranks : Issued(r) = Issued(s)

Init == /\ past = [r \in Ranks |-> <<Core0>>]
        /\ rpc = <<>>
        /\ phase = "boot"
        /\ executes = 0
        /\ faults = 0

Dispatch(steps, next) ==
  /\ Quiescent
  /\ rpc' = steps
  /\ past' = [r \in Ranks |-> <<Cur(r)>>]
  /\ phase' = next
  /\ UNCHANGED faults

(* profile_run: one eager pass over the largest batch. *)
ProfileRun == /\ phase = "boot"
              /\ Dispatch(Body("run", FALSE), "profiled")
              /\ UNCHANGED executes

ProfileGraphs == /\ phase = "profiled"
                 /\ Dispatch(ProfileCudagraphMemory, "measured")
                 /\ UNCHANGED executes

Capture == /\ phase \in {"profiled", "measured"}
           /\ Dispatch(CaptureModel, "captured")
           /\ UNCHANGED executes

Execute == /\ phase \in {"captured", "serving"}
           /\ executes < MaxExecutes
           /\ \/ \E fits, real \in BOOLEAN : Dispatch(ExecuteEager(fits, real), "serving")
              \/ Graphs /\ Dispatch(ExecuteReplay, "serving")
           /\ executes' = executes + 1

(* One rank performs its next step; something in it may fail there. *)
RankStep(r) ==
  /\ Cur(r).status = "ok"
  /\ Len(past[r]) <= Len(rpc)
  /\ \E f \in Fault :
       LET step == rpc[Len(past[r])]
           next == Apply(Cur(r), step, f)
           hurt == next # Apply(Cur(r), step, NoFault)
       IN  /\ hurt => faults < MaxFaults
           /\ past' = [past EXCEPT ![r] = Append(@, next)]
           /\ faults' = IF hurt THEN faults + 1 ELSE faults
  /\ UNCHANGED <<rpc, phase, executes>>

(* The run is over: a rank raised and the engine gives up, or the bound on *)
(* executes is reached.                                                    *)
Stopped == /\ Raised # {} \/ (Quiescent /\ executes = MaxExecutes)
           /\ UNCHANGED vars

Next == \/ ProfileRun \/ ProfileGraphs \/ Capture \/ Execute
        \/ \E r \in Ranks : RankStep(r)
        \/ Stopped

Spec == Init /\ [][Next]_vars

(* A rank's Python always gets to its next step: a collective is enqueued, *)
(* not awaited.  The engine always sends the next call of the start-up.    *)
FairSpec == /\ Spec
            /\ \A r \in Ranks : WF_vars(RankStep(r))
            /\ WF_vars(ProfileRun) /\ WF_vars(Capture)

-----------------------------------------------------------------------------
(* The state is what the declarations above say: in particular a started   *)
(* worker has a handle, and no rank is ahead of the call it serves.        *)
TypeOK ==
  /\ past \in [Ranks -> Seq(Core)]
  /\ rpc \in Seq(Step)
  /\ \A r \in Ranks : Len(past[r]) \in 1..(Len(rpc) + 1)
                      /\ Cur(r).started \subseteq Cur(r).handles
  /\ phase \in {"boot", "profiled", "measured", "captured", "serving"}
  /\ executes \in 0..MaxExecutes
  /\ faults \in 0..MaxFaults

(* With STRICT the ranks never issue the same all-reduce over different    *)
(* transports, whatever fails on one of them alone: a rank that cannot use *)
(* the sidecar raises instead of falling back by itself                    *)
(* (try_all_reduce_inplace, all_reduce_inplace_kind).                      *)
TransportAgreement ==
  Strict => \A r, s \in Ranks : \A i \in DOMAIN past[r] \cap DOMAIN past[s] :
    past[r][i].status = "ok" /\ past[s][i].status = "ok"
      => past[r][i].last = past[s][i].last

(* PREINIT_ON_GRAPH_CAPTURE does its job: no handle is created while a     *)
(* graph is being recorded, because preinit_for_graph_capture has created  *)
(* one for every route a recorded call can take.                           *)
NoCreateWhileRecording ==
  Strict /\ Preinit => \A r \in Ranks : \A i \in 1..(Len(past[r]) - 1) :
    rpc[i].op = "record" => past[r][i + 1].handles = past[r][i].handles

(* The nested finally blocks of graph_capture and of the profile wrapper   *)
(* leave the environment as they found it, on every way out of a call; the *)
(* one exception is a rank that raised inside preinit, before the try.     *)
EnvRestored ==
  \A r \in Ranks : Cur(r).open = {} =>
    Cur(r).ar /\ (Cur(r).inCap => Cur(r).status = "raised")

(* A collective of a served request goes through a sidecar only where its  *)
(* deferred worker has been started: an unstarted worker answers nothing.  *)
ServedByLiveWorkers ==
  phase = "serving" /\ Defer => \A r \in Ranks : \A i \in 1..(Len(past[r]) - 1) :
    \A j \in DOMAIN past[r][i + 1].last :
      past[r][i + 1].last[j] \in past[r][i].started \cup {"public"}

(* With STRICT, between two calls all ranks are in the same state: same    *)
(* handles, same started workers, same call-site numbers and prefix        *)
(* occurrences, same graph.  The next call's routing depends on all of     *)
(* them, so a difference here is a mismatch later.                         *)
RanksStayAlike == Strict /\ Quiescent => \A r, s \in Ranks : Cur(r) = Cur(s)

(* Seen from outside, the ranks issue collectives as Collectives demands.  *)
AllIssued == [r \in Ranks |->
  [i \in 1..(Len(past[r]) - (IF r \in Raised THEN 2 ELSE 1)) |-> past[r][i + 1].last]]
Group == INSTANCE Collectives WITH issued <- AllIssued, aborted <- Raised
RanksIssueTheSameCollectives == Group!Spec

(* Start-up ends: the engine gets as far as serving, or some rank has      *)
(* raised; no set of failures leaves the ranks waiting for each other.     *)
StartupEnds == <>((phase = "captured" /\ Quiescent) \/ Raised # {})

(* START_AFTER_CAPTURE does what it is for (sitecustomize_postcapture_start): *)
(* from the end of the capture on, every library in the recorded graph has a *)
(* worker that runs on every rank, whatever the graph routes to and whatever *)
(* requests come in between: a replay meets nobody who does not answer.      *)
WorkersRunAfterCapture ==
  AfterCapture /\ Defer /\ Strict
    /\ (phase = "serving" \/ (phase = "captured" /\ Quiescent))
  => \A r \in Ranks : {Cur(r).graph[i] : i \in DOMAIN Cur(r).graph} \ {"public"}
                       \subseteq Cur(r).started
=============================================================================
