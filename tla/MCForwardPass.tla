---------------------------- MODULE MCForwardPass ----------------------------
(* Two sides of a forward pass, each on its own: the graph a worker's batch is *)
(* replayed from, and the residual the ranks fold into their all-reduces.  A   *)
(* run follows one; the other stays where it is.                              *)
EXTENDS MCGraphDispatch, MCResidualPrefold

VARIABLE part
allVars == <<part, vars, prefoldVars>>

GraphsIdle ==
  /\ conf = (CHOOSE c \in Configs : TRUE) /\ phase = "start" /\ mode = None
  /\ sizes = {} /\ keys = {} /\ todo = {} /\ graphs = {} /\ pool = "global"
  /\ enabled = FALSE /\ scales = FALSE /\ slot = <<>> /\ table = <<>> /\ lens = <<>>
  /\ seen = NoRun
StreamIdle ==
  /\ switches = (CHOOSE s \in Confs : TRUE) /\ moe = {} /\ fit = [l \in 1..Layers |-> "alike"]
  /\ pc = [r \in Ranks |-> "idle"] /\ layer = [r \in Ranks |-> 1]
  /\ hidden = [r \in Ranks |-> NoTensor] /\ residual = [r \in Ranks |-> NoTensor]
  /\ pending = [r \in Ranks |-> NoTensor]
  /\ consumed = [r \in Ranks |-> FALSE] /\ fused = [r \in Ranks |-> FALSE]

ForwardInit == \/ part = "graphs" /\ Init /\ StreamIdle
               \/ part = "stream" /\ PrefoldInit /\ GraphsIdle

OnlyGraphs == part = "graphs" /\ UNCHANGED <<part, prefoldVars>>
OnlyStream == part = "stream" /\ UNCHANGED <<part, vars>>

ForwardNext ==
  \/ OnlyGraphs /\ StartProfiling
  \/ OnlyGraphs /\ ProfileOne
  \/ OnlyGraphs /\ EndProfiling
  \/ OnlyGraphs /\ InitializeKVCache
  \/ OnlyGraphs /\ StartCapture
  \/ OnlyGraphs /\ CaptureGraph
  \/ OnlyGraphs /\ EndCapture
  \/ OnlyGraphs /\ \E batch \in Batches, cascade \in BOOLEAN : Execute(batch, cascade)
  \/ OnlyGraphs /\ Stopped
  \/ OnlyStream /\ \E r \in Ranks : Embed(r)
  \/ OnlyStream /\ \E r \in Ranks : Attention(r)
  \/ OnlyStream /\ \E r \in Ranks : MLP(r)
  \/ OnlyStream /\ \E r \in Ranks : LayerEnd(r)
  \/ OnlyStream /\ \E r \in Ranks : Finish(r)
  \/ OnlyStream /\ Reduce
  \/ OnlyStream /\ NextForward

ForwardSpec == ForwardInit /\ [][ForwardNext]_allVars
=============================================================================
