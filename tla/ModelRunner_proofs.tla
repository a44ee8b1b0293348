------------------------- MODULE ModelRunner_proofs -------------------------
(* For every number of requests, drafts and steps: the device works off the  *)
(* two steps in flight in order, each on its own inputs, and fills in the     *)
(* output that was returned for it; the worker's count of a request's outputs *)
(* agrees with the engine's, so that no cached output and no look-up is lost; *)
(* and each request's tokens are delivered in order, none lost or repeated.   *)
EXTENDS ModelRunner, SequenceTheorems, FiniteSetTheorems, TLAPS

(* The queue and the outputs are sequences, of whatever the operators put in. *)
Shaped ==
  /\ \E S : queue \in Seq(S)
  /\ \E T : outputs \in Seq(T)
  /\ \A i \in DOMAIN outputs : /\ {"rows", "spec", "invalid", "ready"} \subseteq DOMAIN outputs[i]
                               /\ outputs[i].ready \in BOOLEAN
  /\ ems = [rows |-> ems.rows, phase |-> ems.phase]

(* An output that waits for the step whose inputs are in b (buf or fed). *)
Awaits(o, rw, b) == /\ o.rows = rw /\ o.spec = b.spec /\ o.ready = FALSE
                    /\ o.invalid = {i \in DOMAIN rw : b.discard[i]}
AllReady == \A i \in DOMAIN outputs : outputs[i].ready
OnlyAwaits(rw, b) ==
  \E i \in DOMAIN outputs : /\ Awaits(outputs[i], rw, b)
                            /\ \A j \in DOMAIN outputs : j # i => outputs[j].ready

(* The six shapes of the pipeline with asynchronous scheduling. *)
Empty == /\ Len(queue) = 0 /\ AllReady
         /\ \/ ems = NoStep
            \/ /\ ems.phase = "executed" /\ fed.rows = ems.rows
               /\ fed.spec = buf.spec /\ fed.discard = buf.discard
In == /\ Len(queue) = 1 /\ queue[1].op = "input" /\ AllReady
      /\ ems.phase = "executed" /\ queue[1].rows = ems.rows
Sa == /\ Len(queue) = 1 /\ queue[1].op = "sample" /\ ems = NoStep
      /\ fed.rows = queue[1].rows /\ OnlyAwaits(fed.rows, fed)
InSa == /\ Len(queue) = 2 /\ queue[1].op = "input" /\ queue[2].op = "sample"
        /\ ems = NoStep /\ queue[1].rows = queue[2].rows
        /\ OnlyAwaits(queue[1].rows, buf)
SaIn == /\ Len(queue) = 2 /\ queue[1].op = "sample" /\ queue[2].op = "input"
        /\ ems.phase = "executed" /\ queue[2].rows = ems.rows
        /\ fed.rows = queue[1].rows
        /\ Len(outputs) = 1 /\ Awaits(outputs[1], fed.rows, fed)
SaInSa == /\ Len(queue) = 3 /\ queue[1].op = "sample" /\ queue[2].op = "input"
          /\ queue[3].op = "sample" /\ ems = NoStep
          /\ fed.rows = queue[1].rows /\ queue[2].rows = queue[3].rows
          /\ Len(outputs) = 2 /\ Awaits(outputs[1], fed.rows, fed)
          /\ Awaits(outputs[2], queue[2].rows, buf)
Async == /\ ems.phase \in {"none", "executed"} /\ Len(outputs) <= 2
         /\ (ems.phase = "executed" => Len(outputs) <= 1)
         /\ (Empty \/ In \/ Sa \/ InSa \/ SaIn \/ SaInSa)

(* Without it: one step at a time. *)
FedIsBuf == fed.rows = ems.rows /\ fed.discard = buf.discard
Sync ==
  \/ ems = NoStep /\ Len(queue) = 0
  \/ /\ ems.phase = "executed"
     /\ \/ Len(queue) = 0 /\ FedIsBuf
        \/ Len(queue) = 1 /\ queue[1].op = "input" /\ queue[1].rows = ems.rows
  \/ /\ ems.phase = "sampling"
     /\ \/ Len(queue) = 0
        \/ Len(queue) = 1 /\ queue[1].op = "sample" /\ queue[1].rows = ems.rows /\ FedIsBuf
        \/ /\ Len(queue) = 2 /\ queue[1].op = "input" /\ queue[2].op = "sample"
           /\ queue[1].rows = ems.rows /\ queue[2].rows = ems.rows

Pipeline == /\ mode.async \in BOOLEAN /\ Shaped
            /\ (mode.async => Async)
            /\ (~ mode.async => Sync)
-----------------------------------------------------------------------------
LEMMA AppendShape ==
  ASSUME NEW S, NEW s \in Seq(S), NEW x
  PROVE  /\ \E T : Append(s, x) \in Seq(T)
         /\ Len(s) \in Nat /\ Len(Append(s, x)) = Len(s) + 1
         /\ DOMAIN s = 1..Len(s) /\ DOMAIN Append(s, x) = 1..(Len(s) + 1)
         /\ Append(s, x)[Len(s) + 1] = x
         /\ \A i \in 1..Len(s) : Append(s, x)[i] = s[i]
<1>1. s \in Seq(S \cup {x})
  OBVIOUS
<1> QED BY <1>1, AppendProperties, LenProperties

LEMMA TailShape ==
  ASSUME NEW S, NEW s \in Seq(S), s # <<>>
  PROVE  /\ Tail(s) \in Seq(S) /\ Head(s) = s[1]
         /\ Len(s) \in Nat \ {0} /\ Len(Tail(s)) = Len(s) - 1
         /\ DOMAIN s = 1..Len(s) /\ DOMAIN Tail(s) = 1..(Len(s) - 1)
         /\ \A i \in 1..(Len(s) - 1) : Tail(s)[i] = s[i + 1]
<1>1. Head(s) = s[1]
  OBVIOUS
<1> QED BY <1>1, HeadTailProperties, LenProperties

(* The pending output is the one the invariant speaks of. *)
LEMMA PendingIsFirst ==
  ASSUME NEW T, outputs \in Seq(T), NEW k \in DOMAIN outputs,
         \A i \in DOMAIN outputs : outputs[i].ready \in BOOLEAN,
         outputs[k].ready = FALSE, \A j \in 1..(k - 1) : outputs[j].ready
  PROVE  FirstPending = k
<1>1. DOMAIN outputs = 1..Len(outputs) /\ Len(outputs) \in Nat
  BY LenProperties
<1>2. \A i \in DOMAIN outputs :
        ~ outputs[i].ready /\ (\A j \in 1..(i - 1) : outputs[j].ready) => i = k
  BY <1>1
<1> QED BY <1>1, <1>2 DEF FirstPending
-----------------------------------------------------------------------------
LEMMA InitPipeline == Init => Pipeline
<1> SUFFICES ASSUME Init PROVE Pipeline
  OBVIOUS
<1>1. mode.async \in BOOLEAN
  BY RunnerAssumption DEF Init
<1>2. queue \in Seq({}) /\ outputs \in Seq({}) /\ Len(queue) = 0 /\ Len(outputs) = 0
      /\ DOMAIN outputs = {}
  BY DEF Init
<1>3. Shaped
  BY <1>2 DEF Init, Shaped, NoStep
<1>4. Async
  BY <1>2 DEF Init, Async, Empty, AllReady, NoStep
<1>5. Sync
  BY <1>2 DEF Init, Sync
<1> QED BY <1>1, <1>3, <1>4, <1>5 DEF Pipeline
-----------------------------------------------------------------------------
(* A step that touches none of what the pipeline is made of. *)
Frame == <<mode, queue, outputs, ems, fed, buf>>
LEMMA FramePipeline == ASSUME Pipeline, UNCHANGED Frame PROVE Pipeline'
BY DEF Frame, Pipeline, Shaped, Async, Sync, Empty, In, Sa, InSa, SaIn, SaInSa,
       AllReady, OnlyAwaits, Awaits, FedIsBuf

LEMMA InputOpFields ==
  ASSUME NEW rw, NEW b, NEW pv
  PROVE  InputOp(rw, b, pv).op = "input" /\ InputOp(rw, b, pv).rows = rw
BY DEF InputOp

Fields == {"rows", "spec", "invalid", "ready"}
ShapedOut == /\ \E T : outputs \in Seq(T)
             /\ \A i \in DOMAIN outputs : /\ Fields \subseteq DOMAIN outputs[i]
                                          /\ outputs[i].ready \in BOOLEAN
LEMMA GrowOutputs ==
  ASSUME ShapedOut, NEW x, Fields \subseteq DOMAIN x, x.ready \in BOOLEAN,
         outputs' = Append(outputs, x)
  PROVE  /\ ShapedOut'
         /\ Len(outputs) \in Nat /\ Len(outputs') = Len(outputs) + 1
         /\ DOMAIN outputs = 1..Len(outputs) /\ DOMAIN outputs' = 1..(Len(outputs) + 1)
         /\ outputs'[Len(outputs) + 1] = x
         /\ \A i \in 1..Len(outputs) : outputs'[i] = outputs[i]
<1>1. PICK T : outputs \in Seq(T)
  BY DEF ShapedOut
<1>2. PICK U : Append(outputs, x) \in Seq(U)
  BY <1>1, AppendShape
<1>3. /\ Len(outputs) \in Nat /\ Len(outputs') = Len(outputs) + 1
      /\ DOMAIN outputs = 1..Len(outputs) /\ DOMAIN outputs' = 1..(Len(outputs) + 1)
      /\ outputs'[Len(outputs) + 1] = x
      /\ \A i \in 1..Len(outputs) : outputs'[i] = outputs[i]
  BY <1>1, AppendShape
<1>4. \A i \in DOMAIN outputs' : i \in DOMAIN outputs \/ outputs'[i] = x
  BY <1>3
<1> QED BY <1>2, <1>3, <1>4 DEF ShapedOut

LEMMA GrowQueue ==
  ASSUME NEW S, queue \in Seq(S), NEW x, queue' = Append(queue, x)
  PROVE  /\ \E U : queue' \in Seq(U)
         /\ Len(queue) \in Nat /\ Len(queue') = Len(queue) + 1
         /\ DOMAIN queue = 1..Len(queue)
         /\ queue'[Len(queue) + 1] = x
         /\ \A i \in 1..Len(queue) : queue'[i] = queue[i]
<1>1. PICK U : Append(queue, x) \in Seq(U)
  BY AppendShape
<1>2. /\ Len(queue) \in Nat /\ Len(queue') = Len(queue) + 1
      /\ DOMAIN queue = 1..Len(queue)
      /\ queue'[Len(queue) + 1] = x
      /\ \A i \in 1..Len(queue) : queue'[i] = queue[i]
  BY AppendShape
<1> QED BY <1>1, <1>2

(* execute_model queues the inputs of a step, or returns an empty output. *)
LEMMA ExecutePipeline ==
  ASSUME Pipeline, NEW n, NEW P, NEW order, ExecuteModel(n, P, order)
  PROVE  Pipeline'
<1> DEFINE so == SchedOut(n)
           op == InputOp(order, buf', prev')
           out == [rows |-> <<>>, spec |-> <<>>, invalid |-> {}, toks |-> <<>>,
                   ready |-> TRUE]
<1>1. /\ ems = NoStep /\ Len(outputs) < (IF mode.async THEN 2 ELSE 1)
      /\ mode.async => \A i \in DOMAIN queue : queue[i].op # "input"
      /\ UNCHANGED <<mode, fed>>
  BY DEF ExecuteModel, Synchronized
<1>2. PICK S : queue \in Seq(S)
  BY DEF Pipeline, Shaped
<1>3. Len(queue) \in Nat /\ DOMAIN queue = 1..Len(queue)
  BY <1>2, LenProperties
<1>4. CASE LookupFails(so)
  <2>1. UNCHANGED <<buf, ems, queue, outputs>>
    BY <1>4 DEF ExecuteModel
  <2> QED BY <1>1, <2>1, FramePipeline DEF Frame
<1>5. CASE ~ LookupFails(so) /\ order = <<>>
  <2>1. outputs' = Append(outputs, out) /\ UNCHANGED <<buf, ems, queue>>
    BY <1>5 DEF ExecuteModel
  <2>2. Fields \subseteq DOMAIN out /\ out.ready \in BOOLEAN /\ out.ready = TRUE
    BY DEF Fields
  <2>3. ShapedOut
    BY DEF Pipeline, Shaped, ShapedOut, Fields
  <2> HIDE DEF out
  <2>4. /\ ShapedOut'
        /\ Len(outputs) \in Nat /\ Len(outputs') = Len(outputs) + 1
        /\ DOMAIN outputs = 1..Len(outputs) /\ DOMAIN outputs' = 1..(Len(outputs) + 1)
        /\ outputs'[Len(outputs) + 1] = out
        /\ \A i \in 1..Len(outputs) : outputs'[i] = outputs[i]
    BY <2>1, <2>2, <2>3, GrowOutputs
  <2>5. Shaped'
    BY <2>1, <2>4 DEF Pipeline, Shaped, ShapedOut, Fields
  <2>6. ASSUME mode.async PROVE Async'
    <3>1. Async
      BY <2>6 DEF Pipeline
    <3>2. \/ Empty
          \/ Sa
      BY <1>1, <1>3, <2>6, <3>1 DEF Async, In, InSa, SaIn, SaInSa, Empty, Sa, NoStep
    <3>3. CASE Empty
      <4>1. Empty'
        BY <1>1, <2>1, <2>2, <2>4, <3>3 DEF Empty, AllReady
      <4> QED BY <1>1, <2>1, <2>4, <2>6, <4>1 DEF Async, NoStep
    <3>4. CASE Sa
      <4>1. Sa'
        BY <1>1, <2>1, <2>2, <2>4, <3>4 DEF Sa, OnlyAwaits, Awaits
      <4> QED BY <1>1, <2>1, <2>4, <2>6, <4>1 DEF Async, NoStep
    <3> QED BY <3>2, <3>3, <3>4
  <2>7. ASSUME ~ mode.async PROVE Sync'
    BY <1>1, <2>1, <2>7 DEF Pipeline, Sync, FedIsBuf
  <2> QED BY <1>1, <2>5, <2>6, <2>7 DEF Pipeline
<1>6. CASE ~ LookupFails(so) /\ order # <<>>
  <2>1. /\ queue' = Append(queue, op) /\ UNCHANGED outputs
        /\ ems' = [rows |-> order, phase |-> "executed"]
    BY <1>6 DEF ExecuteModel
  <2>2. op.op = "input" /\ op.rows = order
    BY InputOpFields
  <2> HIDE DEF op
  <2>3. /\ \E U : queue' \in Seq(U)
        /\ Len(queue') = Len(queue) + 1
        /\ queue'[Len(queue) + 1] = op
        /\ \A i \in 1..Len(queue) : queue'[i] = queue[i]
    BY <1>2, <2>1, GrowQueue
  <2>4. Shaped'
    BY <2>1, <2>3 DEF Pipeline, Shaped
  <2>5. ASSUME mode.async PROVE Async'
    <3>1. Async
      BY <2>5 DEF Pipeline
    <3>2. Empty \/ Sa
      BY <1>1, <1>3, <2>5, <3>1 DEF Async, In, InSa, SaIn, SaInSa, Empty, Sa, NoStep
    <3>3. \E T : outputs \in Seq(T)
      BY DEF Pipeline, Shaped
    <3>4. Len(outputs) \in Nat /\ DOMAIN outputs = 1..Len(outputs) /\ Len(outputs) <= 1
      BY <1>1, <2>5, <3>3, LenProperties
    <3>5. CASE Empty
      <4>1. In'
        BY <1>3, <2>1, <2>2, <2>3, <3>5 DEF Empty, In, AllReady
      <4> QED BY <2>1, <2>5, <3>4, <4>1 DEF Async
    <3>6. CASE Sa
      <4>1. Len(outputs) = 1 /\ Awaits(outputs[1], fed.rows, fed)
        BY <3>4, <3>6 DEF Sa, OnlyAwaits
      <4>2. SaIn'
        BY <1>1, <1>3, <2>1, <2>2, <2>3, <3>6, <4>1 DEF Sa, SaIn, Awaits
      <4> QED BY <2>1, <2>5, <3>4, <4>2 DEF Async
    <3> QED BY <3>2, <3>5, <3>6
  <2>6. ASSUME ~ mode.async PROVE Sync'
    <3>1. Len(queue) = 0
      BY <1>1, <2>6 DEF Pipeline, Sync, NoStep
    <3> QED BY <2>1, <2>2, <2>3, <3>1 DEF Sync
  <2> QED BY <1>1, <2>4, <2>5, <2>6 DEF Pipeline
<1> QED BY <1>4, <1>5, <1>6

(* sample_tokens with asynchronous scheduling: the sampling is queued behind   *)
(* the inputs, and its output returned.                                       *)
LEMMA SampleAsyncPipeline ==
  ASSUME Pipeline, SampleTokensAsync
  PROVE  Pipeline'
<1> DEFINE op == SampleOp(ems.rows)
           out == Output(ems.rows, <<>>, FALSE)
<1>1. /\ mode.async /\ ems.phase = "executed" /\ ems' = NoStep
      /\ UNCHANGED <<mode, fed, buf>>
      /\ queue' = Append(queue, op) /\ outputs' = Append(outputs, out)
  BY DEF SampleTokensAsync
<1>2. op.op = "sample" /\ op.rows = ems.rows
  BY DEF SampleOp
<1>3. /\ Fields \subseteq DOMAIN out /\ out.ready = FALSE /\ out.ready \in BOOLEAN
      /\ out.rows = ems.rows /\ out.spec = buf.spec
      /\ out.invalid = DOMAIN ems.rows \ Sampled(ems.rows)
  BY DEF Output, Fields
<1>4. out.invalid = {i \in DOMAIN ems.rows : buf.discard[i]}
  BY <1>3 DEF Sampled
<1>5. Awaits(out, ems.rows, buf)
  BY <1>3, <1>4 DEF Awaits
<1>6. PICK S : queue \in Seq(S)
  BY DEF Pipeline, Shaped
<1>7. ShapedOut
  BY DEF Pipeline, Shaped, ShapedOut, Fields
<1> HIDE DEF op, out
<1>8. /\ \E U : queue' \in Seq(U)
      /\ Len(queue) \in Nat /\ Len(queue') = Len(queue) + 1
      /\ queue'[Len(queue) + 1] = op
      /\ \A i \in 1..Len(queue) : queue'[i] = queue[i]
  BY <1>1, <1>6, GrowQueue
<1>9. /\ ShapedOut'
      /\ Len(outputs) \in Nat /\ Len(outputs') = Len(outputs) + 1
      /\ DOMAIN outputs = 1..Len(outputs) /\ DOMAIN outputs' = 1..(Len(outputs) + 1)
      /\ outputs'[Len(outputs) + 1] = out
      /\ \A i \in 1..Len(outputs) : outputs'[i] = outputs[i]
  BY <1>1, <1>3, <1>7, GrowOutputs
<1>10. Shaped'
  BY <1>1, <1>8, <1>9 DEF Shaped, ShapedOut, Fields, NoStep
<1>11. Async
  BY <1>1 DEF Pipeline
<1>12. Empty \/ In \/ SaIn
  BY <1>1, <1>11 DEF Async, Sa, InSa, SaInSa, NoStep
<1>13. Len(outputs') <= 2
  BY <1>1, <1>9, <1>11 DEF Async
<1>14. CASE Empty
  <2>1. AllReady /\ Len(queue) = 0 /\ fed.rows = ems.rows /\ fed.spec = buf.spec
        /\ fed.discard = buf.discard
    BY <1>1, <1>14 DEF Empty, NoStep
  <2>2. Awaits(out, fed.rows, fed)
    BY <1>5, <2>1 DEF Awaits
  <2>3. Awaits(outputs'[Len(outputs) + 1], fed'.rows, fed')
    BY <1>1, <1>9, <2>2
  <2>4. \A j \in DOMAIN outputs' : j # Len(outputs) + 1 => outputs'[j].ready
    BY <1>9, <2>1 DEF AllReady
  <2>5. OnlyAwaits(fed.rows, fed)'
    BY <1>9, <2>3, <2>4 DEF OnlyAwaits, Awaits
  <2>6. Sa'
    BY <1>1, <1>2, <1>8, <2>1, <2>5 DEF Sa
  <2> QED BY <1>1, <1>10, <1>13, <2>6 DEF Pipeline, Async, NoStep
<1>15. CASE In
  <2>1. AllReady /\ Len(queue) = 1 /\ queue[1].op = "input" /\ queue[1].rows = ems.rows
    BY <1>15 DEF In
  <2>2. Awaits(outputs'[Len(outputs) + 1], queue'[1].rows, buf')
    BY <1>1, <1>5, <1>8, <1>9, <2>1
  <2>3. \A j \in DOMAIN outputs' : j # Len(outputs) + 1 => outputs'[j].ready
    BY <1>9, <2>1 DEF AllReady
  <2>4. OnlyAwaits(queue[1].rows, buf)'
    BY <1>9, <2>2, <2>3 DEF OnlyAwaits, Awaits
  <2>5. InSa'
    BY <1>1, <1>2, <1>8, <2>1, <2>4 DEF InSa
  <2> QED BY <1>1, <1>10, <1>13, <2>5 DEF Pipeline, Async, NoStep
<1>16. CASE SaIn
  <2>1. /\ Len(queue) = 2 /\ queue[1].op = "sample" /\ queue[2].op = "input"
        /\ queue[2].rows = ems.rows /\ fed.rows = queue[1].rows
        /\ Len(outputs) = 1 /\ Awaits(outputs[1], fed.rows, fed)
    BY <1>16 DEF SaIn
  <2>2. /\ Awaits(outputs'[1], fed'.rows, fed')
        /\ Awaits(outputs'[2], queue'[2].rows, buf')
    BY <1>1, <1>5, <1>8, <1>9, <2>1
  <2>3. SaInSa'
    BY <1>1, <1>2, <1>8, <1>9, <2>1, <2>2 DEF SaInSa, Awaits
  <2> QED BY <1>1, <1>10, <1>13, <2>3 DEF Pipeline, Async, NoStep
<1> QED BY <1>1, <1>10, <1>12, <1>14, <1>15, <1>16 DEF Pipeline

(* Without: the call queues the sampling, and returns after the device. *)
LEMMA SamplePipeline ==
  ASSUME Pipeline, SampleTokens
  PROVE  Pipeline'
<1> DEFINE op == SampleOp(ems.rows)
<1>1. /\ ~ mode.async /\ ems.phase = "executed" /\ queue' = Append(queue, op)
      /\ ems' = [ems EXCEPT !.phase = "sampling"]
      /\ UNCHANGED <<mode, fed, buf, outputs>>
  BY DEF SampleTokens
<1>2. op.op = "sample" /\ op.rows = ems.rows
  BY DEF SampleOp
<1>3. PICK S : queue \in Seq(S)
  BY DEF Pipeline, Shaped
<1> HIDE DEF op
<1>4. /\ \E U : queue' \in Seq(U)
      /\ Len(queue) \in Nat /\ Len(queue') = Len(queue) + 1
      /\ queue'[Len(queue) + 1] = op
      /\ \A i \in 1..Len(queue) : queue'[i] = queue[i]
  BY <1>1, <1>3, GrowQueue
<1>5. ems' = [rows |-> ems.rows, phase |-> "sampling"]
  BY <1>1 DEF Pipeline, Shaped
<1>6. Shaped'
  BY <1>1, <1>4, <1>5 DEF Pipeline, Shaped
<1>7. Sync'
  BY <1>1, <1>2, <1>4, <1>5 DEF Pipeline, Sync, FedIsBuf, NoStep
<1> QED BY <1>1, <1>6, <1>7 DEF Pipeline

LEMMA FinishPipeline ==
  ASSUME Pipeline, FinishSync
  PROVE  Pipeline'
<1> DEFINE base == Output(ems.rows, gpu.toks, TRUE)
           out == [base EXCEPT !.drafts = IF Fits(buf) THEN gpu.drafts
                                          ELSE [i \in DOMAIN ems.rows |-> <<>>]]
<1>1. /\ ems.phase = "sampling" /\ queue = <<>> /\ ems' = NoStep
      /\ outputs' = Append(outputs, out)
      /\ UNCHANGED <<mode, fed, buf, queue>>
  BY DEF FinishSync
<1>2. Fields \subseteq DOMAIN out /\ out.ready \in BOOLEAN
  BY DEF Output, Fields
<1>3. ShapedOut
  BY DEF Pipeline, Shaped, ShapedOut, Fields
<1> HIDE DEF out
<1>4. ShapedOut'
  BY <1>1, <1>2, <1>3, GrowOutputs
<1>5. Shaped'
  BY <1>1, <1>4 DEF Pipeline, Shaped, ShapedOut, Fields, NoStep
<1>6. ~ mode.async
  BY <1>1 DEF Pipeline, Async
<1>7. Len(queue') = 0
  BY <1>1
<1> QED BY <1>1, <1>5, <1>6, <1>7 DEF Pipeline, Sync

(* The device takes the inputs: fed is what buf holds, for the queued rows. *)
LEMMA InputPipeline ==
  ASSUME Pipeline, GpuInput
  PROVE  Pipeline'
<1>1. /\ queue # <<>> /\ Head(queue).op = "input" /\ queue' = Tail(queue)
      /\ fed'.rows = Head(queue).rows /\ fed'.spec = buf.spec
      /\ fed'.discard = buf.discard
      /\ UNCHANGED <<mode, buf, ems, outputs>>
  BY DEF GpuInput
<1>2. PICK S : queue \in Seq(S)
  BY DEF Pipeline, Shaped
<1>3. /\ queue' \in Seq(S) /\ Head(queue) = queue[1]
      /\ Len(queue) \in Nat \ {0} /\ Len(queue') = Len(queue) - 1
      /\ \A i \in 1..(Len(queue) - 1) : queue'[i] = queue[i + 1]
  BY <1>1, <1>2, TailShape
<1>4. Shaped'
  BY <1>1, <1>3 DEF Pipeline, Shaped
<1>5. ASSUME mode.async PROVE Async'
  <2>1. Async
    BY <1>5 DEF Pipeline
  <2>2. In \/ InSa
    BY <1>1, <1>3, <2>1 DEF Async, Empty, Sa, SaIn, SaInSa
  <2>3. CASE In
    <3>1. Empty'
      BY <1>1, <1>3, <2>3 DEF In, Empty, AllReady
    <3> QED BY <1>1, <2>1, <3>1 DEF Async
  <2>4. CASE InSa
    <3>1. /\ Len(queue) = 2 /\ queue[2].op = "sample" /\ queue[2].rows = queue[1].rows
          /\ ems = NoStep /\ OnlyAwaits(queue[1].rows, buf)
      BY <2>4 DEF InSa
    <3>2. OnlyAwaits(fed.rows, fed)'
      BY <1>1, <1>3, <3>1 DEF OnlyAwaits, Awaits
    <3>3. Len(queue') = 1 /\ queue'[1] = queue[2]
      BY <1>3, <3>1
    <3>4. fed'.rows = queue[1].rows
      BY <1>1, <1>3
    <3>5. Sa'
      BY <1>1, <3>1, <3>2, <3>3, <3>4 DEF Sa
    <3> QED BY <1>1, <2>1, <3>5 DEF Async
  <2> QED BY <2>2, <2>3, <2>4
<1>6. ASSUME ~ mode.async PROVE Sync'
  BY <1>1, <1>3, <1>6 DEF Pipeline, Sync, FedIsBuf, NoStep
<1> QED BY <1>1, <1>4, <1>5, <1>6 DEF Pipeline

(* It samples: the output that waits for this step becomes ready. *)
LEMMA SamplingPipeline ==
  ASSUME Pipeline, NEW acc, GpuSample(acc)
  PROVE  Pipeline'
<1> DEFINE toks == SampleRows(acc)
<1>1. /\ queue # <<>> /\ Head(queue).op = "sample" /\ queue' = Tail(queue)
      /\ UNCHANGED <<mode, buf, ems>>
      /\ mode.async => outputs' = [outputs EXCEPT ![FirstPending].toks = toks,
                                                  ![FirstPending].ready = TRUE]
      /\ ~ mode.async => UNCHANGED outputs
  BY DEF GpuSample
<1> HIDE DEF toks
<1>2. PICK S : queue \in Seq(S)
  BY DEF Pipeline, Shaped
<1>3. /\ queue' \in Seq(S) /\ Head(queue) = queue[1]
      /\ Len(queue) \in Nat \ {0} /\ Len(queue') = Len(queue) - 1
      /\ \A i \in 1..(Len(queue) - 1) : queue'[i] = queue[i + 1]
  BY <1>1, <1>2, TailShape
<1>4. PICK T : outputs \in Seq(T)
  BY DEF Pipeline, Shaped
<1>5. DOMAIN outputs = 1..Len(outputs) /\ Len(outputs) \in Nat
  BY <1>4, LenProperties
<1>6. CASE ~ mode.async
  <2>1. Shaped'
    BY <1>1, <1>3, <1>6 DEF Pipeline, Shaped
  <2>2. Sync'
    BY <1>1, <1>3, <1>6 DEF Pipeline, Sync, FedIsBuf, NoStep
  <2> QED BY <1>1, <1>6, <2>1, <2>2 DEF Pipeline
<1>7. CASE mode.async
  <2>1. Async /\ (Sa \/ SaIn \/ SaInSa)
    BY <1>1, <1>3, <1>7 DEF Pipeline, Async, Empty, In, InSa
  <2>2. PICK k \in DOMAIN outputs :
          /\ outputs[k].ready = FALSE
          /\ \A j \in 1..(k - 1) : outputs[j].ready
          /\ \A j \in DOMAIN outputs : j # k =>
               \/ outputs[j].ready
               \/ SaInSa /\ k = 1 /\ j = 2
    <3>1. CASE Sa
      BY <1>5, <3>1 DEF Sa, OnlyAwaits, Awaits
    <3>2. CASE SaIn
      BY <1>5, <3>2 DEF SaIn, Awaits
    <3>3. CASE SaInSa
      BY <1>5, <3>3 DEF SaInSa, Awaits
    <3> QED BY <2>1, <3>1, <3>2, <3>3
  <2>3. FirstPending = k
    BY <1>4, <2>2, PendingIsFirst DEF Pipeline, Shaped
  <2>4. /\ DOMAIN outputs' = DOMAIN outputs
        /\ \A j \in DOMAIN outputs' : j = k \/ outputs'[j] = outputs[j]
    BY <1>1, <1>4, <1>7, <2>3
  <2>5. outputs'[k] = [outputs[k] EXCEPT !.toks = toks, !.ready = TRUE]
    BY <1>1, <1>4, <1>7, <2>3
  <2>6. Fields \subseteq DOMAIN outputs'[k] /\ outputs'[k].ready = TRUE
    <3>1. Fields \subseteq DOMAIN outputs[k]
      BY DEF Pipeline, Shaped, Fields
    <3> QED BY <2>5, <3>1 DEF Fields
  <2>7. outputs' \in Seq({outputs'[j] : j \in DOMAIN outputs})
        /\ Len(outputs') = Len(outputs)
    BY <1>1, <1>5, <1>7, <2>4
  <2>8. Shaped'
    <3>1. ShapedOut'
      BY <2>4, <2>6, <2>7 DEF Pipeline, Shaped, ShapedOut, Fields
    <3> QED BY <1>1, <1>3, <3>1 DEF Pipeline, Shaped, ShapedOut, Fields
  <2>9. CASE Sa
    <3>1. AllReady'
      BY <2>2, <2>4, <2>6, <2>9 DEF AllReady, Sa, SaInSa, NoStep
    <3>2. Empty'
      BY <1>1, <1>3, <2>9, <3>1 DEF Empty, Sa
    <3> QED BY <1>1, <2>1, <2>7, <2>8, <3>2, <1>7 DEF Pipeline, Async
  <2>10. CASE SaIn
    <3>1. AllReady'
      BY <1>5, <2>2, <2>4, <2>6, <2>10 DEF AllReady, SaIn
    <3>2. Len(queue') = 1 /\ queue'[1] = queue[2]
      BY <1>3, <2>10 DEF SaIn
    <3>3. In'
      BY <1>1, <2>10, <3>1, <3>2 DEF In, SaIn
    <3> QED BY <1>1, <2>1, <2>7, <2>8, <3>3, <1>7 DEF Pipeline, Async
  <2>11. CASE SaInSa
    <3>1. /\ Len(queue) = 3 /\ queue[2].op = "input" /\ queue[3].op = "sample"
          /\ ems = NoStep /\ queue[2].rows = queue[3].rows
          /\ Len(outputs) = 2 /\ outputs[1].ready = FALSE
          /\ Awaits(outputs[2], queue[2].rows, buf)
      BY <2>11 DEF SaInSa, Awaits
    <3>2. k = 1
      BY <1>5, <2>2, <3>1
    <3>3. outputs'[2] = outputs[2] /\ DOMAIN outputs' = {1, 2}
      BY <1>5, <2>4, <3>1, <3>2
    <3>4. OnlyAwaits(queue[1].rows, buf)'
      BY <1>1, <1>3, <2>6, <3>1, <3>2, <3>3 DEF OnlyAwaits, Awaits
    <3>5. Len(queue') = 2 /\ queue'[1] = queue[2] /\ queue'[2] = queue[3]
      BY <1>3, <3>1
    <3>6. InSa'
      BY <1>1, <3>1, <3>4, <3>5 DEF InSa
    <3> QED BY <1>1, <2>1, <2>7, <2>8, <3>6, <1>7 DEF Pipeline, Async
  <2> QED BY <2>1, <2>9, <2>10, <2>11
<1> QED BY <1>6, <1>7

(* The engine takes the first output, which is ready. *)
LEMMA TakePipeline ==
  ASSUME Pipeline, TakeOutput
  PROVE  Pipeline'
<1>1. /\ outputs # <<>> /\ Head(outputs).ready /\ outputs' = Tail(outputs)
      /\ UNCHANGED <<mode, queue, ems, fed, buf>>
  BY DEF TakeOutput
<1>2. PICK T : outputs \in Seq(T)
  BY DEF Pipeline, Shaped
<1>3. /\ outputs' \in Seq(T) /\ Head(outputs) = outputs[1]
      /\ Len(outputs) \in Nat \ {0} /\ Len(outputs') = Len(outputs) - 1
      /\ DOMAIN outputs = 1..Len(outputs) /\ DOMAIN outputs' = 1..(Len(outputs) - 1)
      /\ \A i \in 1..(Len(outputs) - 1) : outputs'[i] = outputs[i + 1]
  BY <1>1, <1>2, TailShape
<1>4. outputs[1].ready = TRUE /\ 1 \in DOMAIN outputs
  BY <1>1, <1>3 DEF Pipeline, Shaped
<1>5. \A i \in DOMAIN outputs' : i + 1 \in DOMAIN outputs /\ outputs'[i] = outputs[i + 1]
  BY <1>3
<1>6. Shaped'
  <2>1. ShapedOut'
    BY <1>3, <1>5 DEF Pipeline, Shaped, ShapedOut, Fields
  <2> QED BY <1>1, <2>1 DEF Pipeline, Shaped, ShapedOut, Fields
<1>7. ASSUME mode.async PROVE Async'
  <2>1. Async
    BY <1>7 DEF Pipeline
  <2>2. Len(outputs') <= 1
    BY <1>3, <2>1 DEF Async
  <2>3. Empty \/ In \/ Sa \/ InSa
    BY <1>4, <2>1 DEF Async, SaIn, SaInSa, Awaits
  <2>4. AllReady => AllReady'
    BY <1>5 DEF AllReady
  <2>5. ASSUME NEW rw, NEW b, OnlyAwaits(rw, b)
        PROVE  \E i \in DOMAIN outputs' :
                 /\ Awaits(outputs'[i], rw, b)
                 /\ \A j \in DOMAIN outputs' : j # i => outputs'[j].ready
    <3>1. PICK i \in DOMAIN outputs :
            /\ Awaits(outputs[i], rw, b)
            /\ \A j \in DOMAIN outputs : j # i => outputs[j].ready
      BY <2>5 DEF OnlyAwaits
    <3>2. i # 1
      BY <1>4, <3>1 DEF Awaits
    <3>3. i - 1 \in DOMAIN outputs' /\ outputs'[i - 1] = outputs[i]
      BY <1>3, <3>2
    <3>4. \A j \in DOMAIN outputs' : j # i - 1 => outputs'[j].ready
      BY <1>3, <1>5, <3>1
    <3> QED BY <3>1, <3>3, <3>4
  <2>6. CASE Empty
    <3>1. Empty'
      BY <1>1, <2>4, <2>6 DEF Empty
    <3> QED BY <1>1, <2>1, <2>2, <3>1 DEF Async
  <2>7. CASE In
    <3>1. In'
      BY <1>1, <2>4, <2>7 DEF In
    <3> QED BY <1>1, <2>1, <2>2, <3>1 DEF Async
  <2>8. CASE Sa
    <3>1. OnlyAwaits(fed.rows, fed)
      BY <2>8 DEF Sa
    <3>2. \E i \in DOMAIN outputs' :
            /\ Awaits(outputs'[i], fed.rows, fed)
            /\ \A j \in DOMAIN outputs' : j # i => outputs'[j].ready
      BY <2>5, <3>1
    <3>3. OnlyAwaits(fed.rows, fed)'
      BY <1>1, <3>2 DEF OnlyAwaits, Awaits
    <3>4. Sa'
      BY <1>1, <2>8, <3>3 DEF Sa
    <3> QED BY <1>1, <2>1, <2>2, <3>4 DEF Async
  <2>9. CASE InSa
    <3>1. OnlyAwaits(queue[1].rows, buf)
      BY <2>9 DEF InSa
    <3>2. \E i \in DOMAIN outputs' :
            /\ Awaits(outputs'[i], queue[1].rows, buf)
            /\ \A j \in DOMAIN outputs' : j # i => outputs'[j].ready
      BY <2>5, <3>1
    <3>3. OnlyAwaits(queue[1].rows, buf)'
      BY <1>1, <3>2 DEF OnlyAwaits, Awaits
    <3>4. InSa'
      BY <1>1, <2>9, <3>3 DEF InSa
    <3> QED BY <1>1, <2>1, <2>2, <3>4 DEF Async
  <2> QED BY <2>3, <2>6, <2>7, <2>8, <2>9
<1>8. ASSUME ~ mode.async PROVE Sync'
  BY <1>1, <1>8 DEF Pipeline, Sync, FedIsBuf
<1> QED BY <1>1, <1>6, <1>7, <1>8 DEF Pipeline
-----------------------------------------------------------------------------
LEMMA NextPipeline ==
  ASSUME Pipeline, [Next]_vars
  PROVE  Pipeline'
<1>1. CASE Schedule
  BY <1>1, ExecutePipeline DEF Schedule
<1>2. CASE SampleTokensAsync
  BY <1>2, SampleAsyncPipeline
<1>3. CASE SampleTokens
  BY <1>3, SamplePipeline
<1>4. CASE FinishSync
  BY <1>4, FinishPipeline
<1>5. CASE GpuInput
  BY <1>5, InputPipeline
<1>6. ASSUME NEW acc, GpuSample(acc) PROVE Pipeline'
  BY <1>6, SamplingPipeline
<1>7. CASE CopyCounts
  BY <1>7, FramePipeline DEF CopyCounts, Frame
<1>8. CASE TakeOutput
  BY <1>8, TakePipeline
<1>9. ASSUME NEW q \in Reqs, Abort(q) \/ Resubmit(q) PROVE Pipeline'
  BY <1>9, FramePipeline DEF Abort, Resubmit, Frame
<1>10. CASE UNCHANGED vars
  BY <1>10, FramePipeline DEF vars, Frame
<1> QED BY <1>1, <1>2, <1>3, <1>4, <1>5, <1>6, <1>7, <1>8, <1>9, <1>10 DEF Next, Idle

LEMMA PipelineBelongs == Pipeline => OutputsBelongToTheirSteps
<1> SUFFICES ASSUME Pipeline, queue # <<>>, Head(queue).op = "sample"
             PROVE  /\ fed.rows = Head(queue).rows
                    /\ mode.async => outputs # <<>> /\ Promised(outputs[FirstPending])
                    /\ ~ mode.async => ems.rows = fed.rows /\ buf.discard = fed.discard
  BY DEF OutputsBelongToTheirSteps
<1>1. PICK S : queue \in Seq(S)
  BY DEF Pipeline, Shaped
<1>2. Head(queue) = queue[1] /\ Len(queue) \in Nat \ {0}
  BY <1>1, TailShape
<1>3. PICK T : outputs \in Seq(T)
  BY DEF Pipeline, Shaped
<1>4. DOMAIN outputs = 1..Len(outputs) /\ Len(outputs) \in Nat
  BY <1>3, LenProperties
<1>5. CASE ~ mode.async
  BY <1>2, <1>5 DEF Pipeline, Sync, FedIsBuf
<1>6. CASE mode.async
  <2>1. Sa \/ SaIn \/ SaInSa
    BY <1>2, <1>6 DEF Pipeline, Async, Empty, In, InSa
  <2>2. fed.rows = queue[1].rows
    BY <2>1 DEF Sa, SaIn, SaInSa
  <2>3. PICK k \in DOMAIN outputs : /\ Awaits(outputs[k], fed.rows, fed)
                                    /\ \A j \in 1..(k - 1) : outputs[j].ready
    <3>1. CASE Sa
      BY <1>4, <3>1 DEF Sa, OnlyAwaits
    <3>2. CASE SaIn
      BY <1>4, <3>2 DEF SaIn
    <3>3. CASE SaInSa
      BY <1>4, <3>3 DEF SaInSa
    <3> QED BY <2>1, <3>1, <3>2, <3>3
  <2>4. FirstPending = k
    BY <1>3, <2>3, PendingIsFirst DEF Pipeline, Shaped, Awaits
  <2>5. Promised(outputs[k])
    BY <2>3 DEF Promised, Awaits
  <2> QED BY <1>2, <1>4, <1>6, <2>2, <2>4, <2>5
<1> QED BY <1>5, <1>6

(* With asynchronous scheduling two steps are in flight and their buffers are  *)
(* reused; the device still samples each step on the inputs prepared for it,   *)
(* and fills in the output returned for it, with the same rows discarded.      *)
THEOREM OutputsAreTheirSteps == Spec => []OutputsBelongToTheirSteps
<1>1. Init => Pipeline
  BY InitPipeline
<1>2. Pipeline /\ [Next]_vars => Pipeline'
  BY NextPipeline
<1>3. Pipeline => OutputsBelongToTheirSteps
  BY PipelineBelongs
<1> QED BY <1>1, <1>2, <1>3, PTL DEF Spec
-----------------------------------------------------------------------------
Listed(s) == Len(s) \in Nat /\ s = [i \in 1..Len(s) |-> s[i]]
Within(q, s) == \E i \in DOMAIN s : s[i] = q
PlaceIn(s, q) == CHOOSE i \in DOMAIN s : s[i] = q
InRows(s) == /\ DOMAIN s = 1..Len(s) /\ Len(s) \in Nat
             /\ \A i \in DOMAIN s : s[i] \in Reqs
             /\ \A i, j \in DOMAIN s : s[i] = s[j] => i = j

Live(q) == eng[q].st \in {"running", "preempted"}

Samples(o, q) == Within(q, o.rows) /\ PlaceIn(o.rows, q) \notin o.invalid
Held(o, q) == IF Samples(o, q) THEN 1 + o.spec[PlaceIn(o.rows, q)] ELSE 0
Rejects(o, q) == IF Samples(o, q) /\ o.ready
                   THEN o.spec[PlaceIn(o.rows, q)] + 1 - Len(o.toks[PlaceIn(o.rows, q)]) ELSE 0
Executing == ems.phase = "executed"
InStep(q) == IF Executing /\ Within(q, rows) /\ ~ buf.discard[PlaceIn(rows, q)]
               THEN 1 + Len(req[q].draft) ELSE 0
HeldOut(q) == (IF Len(outputs) >= 1 THEN Held(outputs[1], q) ELSE 0)
            + (IF Len(outputs) = 2 THEN Held(outputs[2], q) ELSE 0)
AllRejects(q) == (IF Len(outputs) >= 1 THEN Rejects(outputs[1], q) ELSE 0)
               + (IF Len(outputs) = 2 THEN Rejects(outputs[2], q) ELSE 0)
Earlier(q) == IF Len(outputs) = (IF Executing THEN 1 ELSE 2) THEN Rejects(outputs[1], q) ELSE 0

EngFields == {"st", "computed", "outs", "hold", "specs"}
ReqFields == {"known", "computed", "out", "draft", "row"}
EngTyped == eng = [q \in Reqs |-> eng[q]] /\ \A q \in Reqs :
  /\ DOMAIN eng[q] = EngFields
  /\ eng[q].computed \in Int /\ eng[q].hold \in Int
  /\ Listed(eng[q].outs) /\ Listed(eng[q].specs)
  /\ eng[q].st \in {"new", "running", "preempted", "done"}
  /\ Live(q) => Len(eng[q].outs) < mode.most[q]
  /\ eng[q].st = "new" => eng[q].outs = <<>> /\ eng[q].hold = 0
ReqTyped == req = [q \in Reqs |-> req[q]] /\ \A q \in Reqs :
  /\ DOMAIN req[q] = ReqFields
  /\ req[q].known \in BOOLEAN /\ req[q].computed \in Int
  /\ Listed(req[q].out) /\ Listed(req[q].draft)
Lives == \A q \in Reqs :
  /\ Live(q) => q \notin told /\ req[q].known
  /\ req[q].known => Live(q) \/ q \in told
  /\ Within(q, rows) => q \in told \/ eng[q].st = "running"
  /\ eng[q].st = "new" => /\ ~ Within(q, ems.rows)
                          /\ \A j \in DOMAIN outputs : ~ Within(q, outputs[j].rows)
OutTyped == \A j \in DOMAIN outputs :
  LET o == outputs[j] IN
  /\ InRows(o.rows) /\ "toks" \in DOMAIN o
  /\ \A i \in DOMAIN o.rows :
       /\ o.spec[i] \in Nat
       /\ o.ready /\ i \notin o.invalid => Listed(o.toks[i]) /\ Len(o.toks[i]) >= 1
       /\ mode.async /\ o.ready /\ i \notin o.invalid => Len(o.toks[i]) <= o.spec[i] + 1
       /\ mode.async /\ mode.spec = 0 => o.spec[i] = 0
  /\ mode.async /\ ~ o.ready /\ mode.spec > 0 => copying /\ ems = NoStep /\ j = Len(outputs)
  /\ ~ mode.async => o.ready /\ \A i \in DOMAIN o.rows : Listed(o.drafts[i])
Batch ==
  /\ InRows(rows) /\ (ems # NoStep => ems.rows = rows)
  /\ copying => prev.set
  /\ mode.spec \in Nat /\ \A q \in Reqs : mode.most[q] \in Nat \ {0}
  /\ mode.async /\ mode.spec = 0 => \A q \in Reqs : eng[q].specs = <<>> /\ req[q].draft = <<>>
LastStep ==
  ems = NoStep =>
    /\ outputs # <<>> => outputs[Len(outputs)].rows = rows
    /\ mode.async => \A i \in DOMAIN rows : Live(rows[i]) =>
         /\ outputs # <<>>
         /\ LET o == outputs[Len(outputs)] IN
              /\ o.spec[i] = Len(req[rows[i]].draft)
              /\ i \in o.invalid => req[rows[i]].draft = <<>>
              /\ i \notin o.invalid => /\ prev.set /\ rows[i] \in DOMAIN prev.idx
                                       /\ prev.idx[rows[i]] = i
              /\ o.ready /\ i \notin o.invalid /\ mode.spec > 0 =>
                   Len(o.toks[i]) = IF copying THEN gpu.count[i] ELSE counts[i]
ThisStep ==
  ems # NoStep => \A i \in DOMAIN rows :
    /\ buf.spec[i] \in Nat
    /\ mode.async /\ mode.spec = 0 => buf.spec[i] = 0
    /\ Live(rows[i]) => /\ buf.spec[i] = Len(req[rows[i]].draft)
                        /\ mode.async /\ buf.discard[i] => req[rows[i]].draft = <<>>
AsyncCounts == \A q \in Reqs : mode.async /\ Live(q) =>
  LET a == Len(eng[q].outs) + eng[q].hold
      d == IF Executing THEN InStep(q) ELSE Len(req[q].draft)
  IN
  /\ eng[q].hold = HeldOut(q) + InStep(q)
  /\ Within(q, rows) => a = Len(req[q].out) + Earlier(q) + d
  /\ ~ Within(q, rows) => a >= Len(req[q].out) + AllRejects(q)
SyncCounts ==
  ~ mode.async =>
    /\ Len(outputs) <= 1 /\ (outputs # <<>> => ems = NoStep)
    /\ \A q \in Reqs : Live(q) =>
         /\ eng[q].hold = 0
         /\ Len(req[q].out) = Len(eng[q].outs) +
              (IF Len(outputs) = 1 /\ Samples(outputs[1], q)
                 THEN Len(outputs[1].toks[PlaceIn(outputs[1].rows, q)]) ELSE 0)
    /\ ems.phase = "sampling" /\ queue = <<>> =>
         \A i \in DOMAIN rows : /\ Listed(gpu.toks[i]) /\ Len(gpu.toks[i]) >= 1
                                 /\ Listed(gpu.drafts[i])

CInv == /\ EngTyped /\ ReqTyped /\ Lives /\ OutTyped /\ Batch /\ LastStep /\ ThisStep
        /\ AsyncCounts /\ SyncCounts
-----------------------------------------------------------------------------
LEMMA ListedIsSeq ==
  ASSUME NEW s, Listed(s)
  PROVE  \E S : s \in Seq(S) /\ DOMAIN s = 1..Len(s) /\ Len(s) \in Nat
<1> DEFINE S == {s[i] : i \in 1..Len(s)}
<1>1. [i \in 1..Len(s) |-> s[i]] \in [1..Len(s) -> S]
  OBVIOUS
<1>2. s \in [1..Len(s) -> S] /\ Len(s) \in Nat
  BY <1>1 DEF Listed
<1>3. s \in Seq(S)
  BY <1>2, SeqDef
<1> QED BY <1>2, <1>3

LEMMA SeqIsListed ==
  ASSUME NEW S, NEW s \in Seq(S)
  PROVE  Listed(s)
BY LenProperties DEF Listed

LEMMA ListedConcat ==
  ASSUME NEW s, NEW t, Listed(s), Listed(t)
  PROVE  Listed(s \o t) /\ Len(s \o t) = Len(s) + Len(t)
<1>1. PICK S : s \in Seq(S)
  BY ListedIsSeq
<1>2. PICK T : t \in Seq(T)
  BY ListedIsSeq
<1>3. s \in Seq(S \cup T) /\ t \in Seq(S \cup T)
  BY <1>1, <1>2
<1>4. s \o t \in Seq(S \cup T) /\ Len(s \o t) = Len(s) + Len(t)
  BY <1>3, ConcatProperties
<1> QED BY <1>4, SeqIsListed

LEMMA ListedFront ==
  ASSUME NEW s, Listed(s), NEW k \in 0..Len(s)
  PROVE  Listed(SubSeq(s, 1, k)) /\ Len(SubSeq(s, 1, k)) = k
<1>1. PICK S : s \in Seq(S)
  BY ListedIsSeq
<1>2. SubSeq(s, 1, k) \in Seq(S) /\ Len(SubSeq(s, 1, k)) = k
  BY <1>1, SubSeqProperties
<1> QED BY <1>2, SeqIsListed

LEMMA ListedBack ==
  ASSUME NEW s, Listed(s), NEW k \in 0..Len(s)
  PROVE  /\ Listed(SubSeq(s, Len(s) - k + 1, Len(s)))
         /\ Len(SubSeq(s, Len(s) - k + 1, Len(s))) = k
<1>1. PICK S : s \in Seq(S) /\ Len(s) \in Nat
  BY ListedIsSeq
<1>2. SubSeq(s, Len(s) - k + 1, Len(s)) \in Seq(S)
      /\ Len(SubSeq(s, Len(s) - k + 1, Len(s))) = k
  BY <1>1, SubSeqProperties
<1> QED BY <1>2, SeqIsListed

LEMMA ListedLiterals ==
  /\ Listed(<<>>) /\ Len(<<>>) = 0
  /\ \A x : Listed(<<x>>) /\ Len(<<x>>) = 1
  /\ \A k \in Nat : /\ Listed(Holes(k)) /\ Len(Holes(k)) = k
                    /\ \A q, f : Listed(Toks(q, f, k)) /\ Len(Toks(q, f, k)) = k
<1>1. \A k \in Nat : Len(Holes(k)) = k /\ \A q, f : Len(Toks(q, f, k)) = k
  BY DEF Holes, Toks
<1> QED BY <1>1 DEF Listed, Holes, Toks

LEMMA PlaceOfRow ==
  ASSUME NEW s, InRows(s)
  PROVE  /\ \A i \in DOMAIN s : Within(s[i], s) /\ PlaceIn(s, s[i]) = i
         /\ \A q : Within(q, s) => PlaceIn(s, q) \in DOMAIN s /\ s[PlaceIn(s, q)] = q
         /\ \A q : Contains(s, q) <=> Within(q, s)
BY DEF InRows, Within, PlaceIn, Contains

(* The requests the engine has lost or not begun are none of its counts'.      *)
LEMMA EngineOnly ==
  ASSUME CInv, UNCHANGED <<mode, req, rows, outputs, ems, buf, prev, counts, copying, gpu, queue>>,
         NEW a \in Reqs, NEW e, eng' = [eng EXCEPT ![a] = e],
         e.st \notin {"running", "preempted"}, e.specs = <<>>
  PROVE  ReqTyped' /\ OutTyped' /\ Batch' /\ LastStep' /\ ThisStep' /\ AsyncCounts' /\ SyncCounts'
<1>1. /\ eng'[a] = e
      /\ \A q \in Reqs : q # a => eng'[q] = eng[q]
  BY DEF CInv, EngTyped
<1>2. \A q \in Reqs : Live(q)' => q # a /\ Live(q) /\ eng'[q] = eng[q]
  BY <1>1 DEF Live
<1>3. ReqTyped'
  BY DEF CInv, ReqTyped
<1>4. OutTyped'
  BY DEF CInv, OutTyped
<1>5. Batch'
  BY <1>1 DEF CInv, Batch
<1>6. LastStep'
  <2>1. \A i \in DOMAIN rows : rows[i] \in Reqs
    BY DEF CInv, Batch, InRows
  <2> QED BY <1>2, <2>1 DEF CInv, LastStep
<1>7. ThisStep'
  <2>1. \A i \in DOMAIN rows : rows[i] \in Reqs
    BY DEF CInv, Batch, InRows
  <2> QED BY <1>2, <2>1 DEF CInv, ThisStep
<1>8. AsyncCounts'
  BY <1>2 DEF CInv, AsyncCounts, Executing, InStep, HeldOut, AllRejects, Earlier
<1>9. SyncCounts'
  BY <1>2 DEF CInv, SyncCounts
<1> QED BY <1>3, <1>4, <1>5, <1>6, <1>7, <1>8, <1>9

LEMMA AbortCounts ==
  ASSUME CInv, NEW a \in Reqs, Abort(a)
  PROVE  CInv'
<1> DEFINE e == [Fresh EXCEPT !.st = "done", !.outs = eng[a].outs]
<1>1. /\ Live(a) /\ eng' = [eng EXCEPT ![a] = e] /\ told' = told \cup {a}
      /\ UNCHANGED <<mode, req, rows, outputs, ems, buf, prev, counts, copying, gpu, queue>>
  BY DEF Abort, Live
<1>2. /\ DOMAIN e = EngFields /\ e.st = "done" /\ e.specs = <<>>
      /\ e.computed = 0 /\ e.hold = 0 /\ e.outs = eng[a].outs
  BY DEF Fresh, EngFields
<1> HIDE DEF e
<1>3. /\ eng'[a] = e /\ eng' = [q \in Reqs |-> eng'[q]]
      /\ \A q \in Reqs : q # a => eng'[q] = eng[q]
  BY <1>1 DEF CInv, EngTyped
<1>4. EngTyped'
  <2> SUFFICES ASSUME NEW q \in Reqs
               PROVE  /\ DOMAIN eng'[q] = EngFields
                      /\ eng'[q].computed \in Int /\ eng'[q].hold \in Int
                      /\ Listed(eng'[q].outs) /\ Listed(eng'[q].specs)
                      /\ eng'[q].st \in {"new", "running", "preempted", "done"}
                      /\ Live(q)' => Len(eng'[q].outs) < mode'.most[q]
                      /\ eng'[q].st = "new" => eng'[q].outs = <<>> /\ eng'[q].hold = 0
    BY <1>3 DEF EngTyped
  <2>1. CASE q = a
    BY <1>2, <1>3, <2>1, ListedLiterals DEF CInv, EngTyped, Live
  <2>2. CASE q # a
    BY <1>1, <1>3, <2>2 DEF CInv, EngTyped, Live
  <2> QED BY <2>1, <2>2
<1>5. Lives'
  BY <1>1, <1>2, <1>3 DEF CInv, Lives, Live
<1> QED BY <1>1, <1>2, <1>4, <1>5, EngineOnly DEF CInv

LEMMA ResubmitCounts ==
  ASSUME CInv, NEW a \in Reqs, Resubmit(a)
  PROVE  CInv'
<1>1. /\ eng[a].st = "done" /\ eng' = [eng EXCEPT ![a] = Fresh]
      /\ \A i \in DOMAIN outputs : ~ Contains(outputs[i].rows, a)
      /\ ~ Contains(ems.rows, a)
      /\ UNCHANGED <<mode, told, req, rows, outputs, ems, buf, prev, counts, copying, gpu, queue>>
  BY DEF Resubmit
<1>2. /\ DOMAIN Fresh = EngFields /\ Fresh.st = "new" /\ Fresh.computed = 0 /\ Fresh.hold = 0
      /\ Fresh.specs = <<>> /\ Fresh.outs = <<>>
  BY DEF Fresh, EngFields
<1>3. /\ eng'[a] = Fresh /\ eng' = [q \in Reqs |-> eng'[q]]
      /\ \A q \in Reqs : q # a => eng'[q] = eng[q]
  BY <1>1 DEF CInv, EngTyped
<1>4. EngTyped'
  <2> SUFFICES ASSUME NEW q \in Reqs
               PROVE  /\ DOMAIN eng'[q] = EngFields
                      /\ eng'[q].computed \in Int /\ eng'[q].hold \in Int
                      /\ Listed(eng'[q].outs) /\ Listed(eng'[q].specs)
                      /\ eng'[q].st \in {"new", "running", "preempted", "done"}
                      /\ Live(q)' => Len(eng'[q].outs) < mode'.most[q]
                      /\ eng'[q].st = "new" => eng'[q].outs = <<>> /\ eng'[q].hold = 0
    BY <1>3 DEF EngTyped
  <2>1. CASE q = a
    BY <1>2, <1>3, <2>1, ListedLiterals DEF Live
  <2>2. CASE q # a
    BY <1>1, <1>3, <2>2 DEF CInv, EngTyped, Live
  <2> QED BY <2>1, <2>2
<1>5. /\ \A j \in DOMAIN outputs : ~ Within(a, outputs[j].rows)
      /\ ~ Within(a, ems.rows)
  <2>1. \A j \in DOMAIN outputs : InRows(outputs[j].rows)
    BY DEF CInv, OutTyped
  <2>2. InRows(ems.rows)
    <3>1. CASE ems = NoStep
      BY <3>1 DEF NoStep, InRows
    <3>2. CASE ems # NoStep
      BY <3>2 DEF CInv, Batch
    <3> QED BY <3>1, <3>2
  <2> QED BY <1>1, <2>1, <2>2, PlaceOfRow
<1>6. Lives'
  BY <1>1, <1>2, <1>3, <1>5 DEF CInv, Lives, Live
<1> QED BY <1>1, <1>2, <1>4, <1>6, EngineOnly DEF CInv

(* Nothing the counts are about.                                              *)
Counted == <<mode, eng, told, req, rows, prev, buf, ems, gpu, counts, copying, outputs>>
LEMMA FrameCounts ==
  ASSUME CInv, UNCHANGED Counted,
         ems.phase = "sampling" /\ queue' = <<>> => queue = <<>> \/ mode.async
  PROVE  CInv'
<1>1. EngTyped' /\ ReqTyped'
  BY DEF CInv, EngTyped, ReqTyped, Counted, Live
<1>2. Lives' /\ OutTyped' /\ Batch'
  BY DEF CInv, Lives, OutTyped, Batch, Counted, Live
<1>3. LastStep' /\ ThisStep'
  BY DEF CInv, LastStep, ThisStep, Counted, Live
<1>4. AsyncCounts'
  BY DEF CInv, AsyncCounts, Counted, Live, Executing, InStep, HeldOut, AllRejects, Earlier
<1>5. SyncCounts'
  BY DEF CInv, SyncCounts, Counted, Live
<1> QED BY <1>1, <1>2, <1>3, <1>4, <1>5 DEF CInv

(* _bookkeeping_sync: the outputs of the requests that were sampled grow.      *)
IsSampled(q) == Within(q, rows) /\ ~ buf.discard[PlaceIn(rows, q)]
LEMMA BookedCounts ==
  ASSUME CInv, ems # NoStep, NEW ids, req' = Booked(ems.rows, ids),
         \A i \in DOMAIN rows : ~ buf.discard[i] => Listed(ids[i])
  PROVE  /\ ReqTyped'
         /\ \A q \in Reqs :
              /\ req'[q].known = req[q].known /\ req'[q].draft = req[q].draft
              /\ Len(req'[q].out) = Len(req[q].out)
                   + (IF IsSampled(q) THEN Len(ids[PlaceIn(rows, q)]) ELSE 0)
<1>1. ems.rows = rows /\ InRows(rows)
  BY DEF CInv, Batch
<1>2. ASSUME NEW q \in Reqs
      PROVE  /\ req'[q] = IF IsSampled(q)
                            THEN [req[q] EXCEPT !.out = @ \o ids[PlaceIn(rows, q)],
                                                !.row = @ \o ids[PlaceIn(rows, q)]]
                            ELSE req[q]
  <2>1. (\E i \in Sampled(rows) : rows[i] = q) <=> IsSampled(q)
    BY <1>1, PlaceOfRow DEF Sampled, IsSampled, Within
  <2>2. RowOf(q) = PlaceIn(rows, q)
    BY DEF RowOf, PlaceIn
  <2> QED BY <1>1, <2>1, <2>2 DEF Booked
<1>3. ASSUME NEW q \in Reqs
      PROVE  /\ DOMAIN req'[q] = ReqFields /\ req'[q].known = req[q].known
             /\ req'[q].computed = req[q].computed /\ req'[q].draft = req[q].draft
             /\ Listed(req'[q].out)
             /\ Len(req'[q].out) = Len(req[q].out)
                   + (IF IsSampled(q) THEN Len(ids[PlaceIn(rows, q)]) ELSE 0)
  <2>1. DOMAIN req[q] = ReqFields /\ Listed(req[q].out)
    BY DEF CInv, ReqTyped
  <2>2. CASE IsSampled(q)
    <3>1. PICK t : t = ids[PlaceIn(rows, q)]
      OBVIOUS
    <3>2. Listed(t)
      BY <1>1, <2>2, <3>1, PlaceOfRow DEF IsSampled
    <3>3. /\ DOMAIN req'[q] = ReqFields /\ req'[q].known = req[q].known
          /\ req'[q].computed = req[q].computed /\ req'[q].draft = req[q].draft
          /\ req'[q].out = req[q].out \o t
      BY <1>2, <2>1, <2>2, <3>1 DEF ReqFields
    <3> QED BY <2>1, <2>2, <3>1, <3>2, <3>3, ListedConcat
  <2>3. CASE ~ IsSampled(q)
    <3>1. Len(req[q].out) \in Nat
      BY <2>1 DEF Listed
    <3>2. req'[q] = req[q] /\ DOMAIN req[q] = ReqFields /\ Listed(req[q].out)
      BY <1>2, <2>1, <2>3
    <3>3. (IF IsSampled(q) THEN Len(ids[PlaceIn(rows, q)]) ELSE 0) = 0
      BY <2>3
    <3>4. Len(req[q].out) = Len(req[q].out) + 0
      BY <3>1
    <3> QED BY <3>2, <3>3, <3>4
  <2> QED BY <2>2, <2>3
<1>4. req' = [q \in Reqs |-> req'[q]]
  BY DEF Booked
<1> QED BY <1>3, <1>4 DEF CInv, ReqTyped

(* An output appended behind the others.                                      *)
LEMMA OutputAppended ==
  ASSUME Pipeline, NEW x, outputs' = Append(outputs, x)
  PROVE  /\ Len(outputs) \in Nat /\ Len(outputs') = Len(outputs) + 1
         /\ DOMAIN outputs = 1..Len(outputs) /\ DOMAIN outputs' = 1..(Len(outputs) + 1)
         /\ outputs'[Len(outputs) + 1] = x /\ outputs' # <<>>
         /\ \A i \in 1..Len(outputs) : outputs'[i] = outputs[i]
<1>1. PICK T : outputs \in Seq(T)
  BY DEF Pipeline, Shaped
<1>2. /\ Len(outputs) \in Nat /\ Len(outputs') = Len(outputs) + 1
      /\ DOMAIN outputs = 1..Len(outputs) /\ DOMAIN outputs' = 1..(Len(outputs) + 1)
      /\ outputs'[Len(outputs) + 1] = x
      /\ \A i \in 1..Len(outputs) : outputs'[i] = outputs[i]
  BY <1>1, AppendShape
<1> QED BY <1>2

(* The engine's view is not touched.                                          *)
LEMMA EngineStays ==
  ASSUME CInv, UNCHANGED <<mode, eng>>
  PROVE  EngTyped' /\ \A q \in Reqs : Live(q)' = Live(q)
BY DEF CInv, EngTyped, Live

LEMMA SampleAsyncCounts ==
  ASSUME Pipeline, CInv, SampleTokensAsync
  PROVE  CInv'
<1> DEFINE x == Output(ems.rows, <<>>, FALSE)
           n == Len(outputs)
<1>1. /\ mode.async /\ ems.phase = "executed" /\ ems' = NoStep
      /\ outputs' = Append(outputs, x) /\ prev' = [set |-> TRUE, idx |-> Index(ems.rows)]
      /\ copying' = (mode.spec > 0) /\ req' = Booked(ems.rows, [i \in DOMAIN ems.rows |-> <<Hole>>])
      /\ UNCHANGED <<mode, eng, told, rows, buf, gpu, counts>>
  BY DEF SampleTokensAsync
<1>2. ems # NoStep /\ ems.rows = rows /\ InRows(rows) /\ NoStep.rows = <<>>
  BY <1>1 DEF CInv, Batch, NoStep
<1>3. /\ x.rows = rows /\ x.spec = buf.spec /\ x.ready = FALSE
      /\ x.invalid = {i \in DOMAIN rows : buf.discard[i]} /\ "toks" \in DOMAIN x
  BY <1>2 DEF Output, Sampled
<1>4. n <= 1 /\ n \in Nat
  <2>1. \E T : outputs \in Seq(T)
    BY DEF Pipeline, Shaped
  <2> QED BY <1>1, <2>1, LenProperties DEF Pipeline, Async
<1> HIDE DEF x, n
<1>5. /\ Len(outputs') = n + 1 /\ DOMAIN outputs = 1..n /\ DOMAIN outputs' = 1..(n + 1)
      /\ outputs'[n + 1] = x /\ outputs' # <<>>
      /\ \A i \in 1..n : outputs'[i] = outputs[i]
  BY <1>1, OutputAppended DEF n
<1>6. EngTyped' /\ \A q \in Reqs : Live(q)' = Live(q)
  BY <1>1, EngineStays
<1>7. /\ ReqTyped'
      /\ \A q \in Reqs :
           /\ req'[q].known = req[q].known /\ req'[q].draft = req[q].draft
           /\ Len(req'[q].out) = Len(req[q].out) + (IF IsSampled(q) THEN 1 ELSE 0)
  <2> DEFINE ids == [i \in DOMAIN rows |-> <<Hole>>]
  <2>1. req' = Booked(ems.rows, ids)
    BY <1>1, <1>2
  <2>2. \A i \in DOMAIN rows : Listed(ids[i]) /\ Len(ids[i]) = 1
    BY ListedLiterals
  <2> HIDE DEF ids
  <2>3. \A q \in Reqs : IsSampled(q) => PlaceIn(rows, q) \in DOMAIN rows
    BY <1>2, PlaceOfRow DEF IsSampled
  <2> QED BY <1>2, <2>1, <2>2, <2>3, BookedCounts
<1>8. Lives'
  <2>1. ~ \E q : Within(q, <<>>)
    BY DEF Within
  <2>2. \A q \in Reqs : eng[q].st = "new" => ~ Within(q, rows)
    BY <1>2 DEF CInv, Lives
  <2>3. ASSUME NEW q \in Reqs, eng[q].st = "new", NEW j \in DOMAIN outputs'
        PROVE  ~ Within(q, outputs'[j].rows)
    <3>1. CASE j \in 1..n
      BY <1>5, <2>3, <3>1 DEF CInv, Lives
    <3>2. CASE j = n + 1
      BY <1>3, <1>5, <2>2, <2>3, <3>2
    <3> QED BY <1>4, <1>5, <3>1, <3>2
  <2>4. ~ \E q : Within(q, ems'.rows)
    BY <1>1, <1>2, <2>1
  <2> QED BY <1>1, <1>6, <1>7, <2>3, <2>4 DEF CInv, Lives
<1>9. ASSUME NEW i \in DOMAIN rows
      PROVE  rows[i] \in Reqs /\ buf.spec[i] \in Nat
  BY <1>2 DEF CInv, ThisStep, InRows
<1>10. Batch'
  BY <1>1, <1>2, <1>7 DEF CInv, Batch
<1>11. mode.spec \in Nat
  BY DEF CInv, Batch
<1>12. OutTyped'
  <2> SUFFICES ASSUME NEW j \in 1..(n + 1)
               PROVE  LET o == outputs'[j] IN
                      /\ InRows(o.rows) /\ "toks" \in DOMAIN o
                      /\ \A i \in DOMAIN o.rows :
                           /\ o.spec[i] \in Nat
                           /\ o.ready /\ i \notin o.invalid => Listed(o.toks[i]) /\ Len(o.toks[i]) >= 1
                           /\ mode.async /\ o.ready /\ i \notin o.invalid
                                => Len(o.toks[i]) <= o.spec[i] + 1
                           /\ mode.async /\ mode.spec = 0 => o.spec[i] = 0
                      /\ mode.async /\ ~ o.ready /\ mode.spec > 0
                           => copying' /\ ems' = NoStep /\ j = n + 1
                      /\ ~ mode.async => o.ready /\ \A i \in DOMAIN o.rows : Listed(o.drafts[i])
    BY <1>1, <1>5 DEF OutTyped
  <2>1. CASE j \in 1..n
    BY <1>2, <1>5, <2>1 DEF CInv, OutTyped
  <2>2. CASE j = n + 1
    <3>1. \A i \in DOMAIN rows : mode.spec = 0 => buf.spec[i] = 0
      BY <1>1, <1>2 DEF CInv, ThisStep
    <3>2. /\ outputs'[j] = x /\ x.rows = rows /\ x.spec = buf.spec /\ x.ready = FALSE
          /\ "toks" \in DOMAIN x
      BY <1>3, <1>5, <2>2
    <3>3. mode.spec > 0 => copying' /\ ems' = NoStep
      BY <1>1
    <3> QED BY <1>1, <1>2, <1>9, <2>2, <3>1, <3>2, <3>3
  <2> QED BY <1>4, <2>1, <2>2
<1>13. LastStep'
  <2>1. outputs'[Len(outputs')] = x /\ x.rows = rows' /\ outputs' # <<>>
    BY <1>1, <1>3, <1>4, <1>5
  <2>2. ASSUME NEW i \in DOMAIN rows, Live(rows[i])
        PROVE  /\ x.spec[i] = Len(req'[rows[i]].draft)
               /\ i \in x.invalid => req'[rows[i]].draft = <<>>
               /\ i \notin x.invalid => /\ prev'.set /\ rows[i] \in DOMAIN prev'.idx
                                        /\ prev'.idx[rows[i]] = i
    <3>1. req'[rows[i]].draft = req[rows[i]].draft
      BY <1>7, <1>9
    <3>2. buf.spec[i] = Len(req[rows[i]].draft)
          /\ (buf.discard[i] => req[rows[i]].draft = <<>>)
      BY <1>1, <1>2, <2>2 DEF CInv, ThisStep
    <3>3. i \notin x.invalid => i \in Sampled(rows)
      BY <1>3 DEF Sampled
    <3>4. i \in Sampled(rows) => rows[i] \in DOMAIN prev'.idx /\ prev'.idx[rows[i]] = i
      BY <1>1, <1>2, PlaceOfRow DEF Index, PlaceIn
    <3> QED BY <1>1, <1>3, <3>1, <3>2, <3>3, <3>4
  <2>3. \A i \in DOMAIN rows : rows[i] \in Reqs /\ x.ready = FALSE
    BY <1>3, <1>9
  <2> QED BY <1>1, <1>6, <2>1, <2>2, <2>3 DEF LastStep
<1>14. ThisStep'
  BY <1>1 DEF ThisStep
<1>15. AsyncCounts'
  <2> SUFFICES ASSUME NEW q \in Reqs, Live(q)
               PROVE  /\ eng[q].hold = HeldOut(q)' + InStep(q)'
                      /\ Within(q, rows) => Len(eng[q].outs) + eng[q].hold
                            = Len(req'[q].out) + Earlier(q)' + Len(req'[q].draft)
                      /\ ~ Within(q, rows) => Len(eng[q].outs) + eng[q].hold
                                                >= Len(req'[q].out) + AllRejects(q)'
    <3>1. ~ Executing'
      BY <1>1 DEF Executing, NoStep
    <3> QED BY <1>1, <1>6, <3>1 DEF AsyncCounts
  <2>1. /\ ~ Executing' /\ Executing /\ InStep(q)' = 0
    BY <1>1 DEF Executing, NoStep, InStep
  <2>2. /\ eng[q].hold = HeldOut(q) + InStep(q)
        /\ Within(q, rows) => Len(eng[q].outs) + eng[q].hold
                                = Len(req[q].out) + Earlier(q) + InStep(q)
        /\ ~ Within(q, rows) => Len(eng[q].outs) + eng[q].hold >= Len(req[q].out) + AllRejects(q)
    BY <1>1, <2>1 DEF CInv, AsyncCounts
  <2>3. /\ Len(req[q].out) \in Nat /\ eng[q].hold \in Int /\ Len(eng[q].outs) \in Nat
        /\ Len(req[q].draft) \in Nat
    BY DEF CInv, ReqTyped, EngTyped, Listed
  <2>4. /\ req'[q].draft = req[q].draft
        /\ Len(req'[q].out) = Len(req[q].out) + (IF IsSampled(q) THEN 1 ELSE 0)
    BY <1>7
  <2>5. InStep(q) = IF IsSampled(q) THEN 1 + Len(req[q].draft) ELSE 0
    BY <2>1 DEF InStep, IsSampled
  <2>6. Samples(x, q) <=> IsSampled(q)
    BY <1>2, <1>3, PlaceOfRow DEF Samples, IsSampled
  <2>7. Held(x, q) = InStep(q)
    <3>1. CASE IsSampled(q)
      <4>1. PlaceIn(rows, q) \in DOMAIN rows /\ rows[PlaceIn(rows, q)] = q
        BY <1>2, <3>1, PlaceOfRow DEF IsSampled
      <4>2. buf.spec[PlaceIn(rows, q)] = Len(req[q].draft)
        BY <1>2, <4>1 DEF CInv, ThisStep
      <4> QED BY <1>3, <2>5, <2>6, <3>1, <4>2 DEF Held
    <3>2. CASE ~ IsSampled(q)
      BY <2>5, <2>6, <3>2 DEF Held
    <3> QED BY <3>1, <3>2
  <2>8. Rejects(x, q) = 0
    BY <1>3 DEF Rejects
  <2>9. Within(q, rows) /\ ~ IsSampled(q) => Len(req[q].draft) = 0
    <3>1. ASSUME Within(q, rows), ~ IsSampled(q) PROVE req[q].draft = <<>>
      <4>1. PlaceIn(rows, q) \in DOMAIN rows /\ rows[PlaceIn(rows, q)] = q
        BY <1>2, <3>1, PlaceOfRow
      <4> QED BY <1>1, <1>2, <3>1, <4>1 DEF CInv, ThisStep, IsSampled
    <3> QED BY <3>1
  <2>12. ASSUME NEW h \in Int, NEW j \in Int,
                HeldOut(q) = h, AllRejects(q) = j, Earlier(q) = j,
                HeldOut(q)' = h + InStep(q), AllRejects(q)' = j, Earlier(q)' = j
         PROVE  /\ eng[q].hold = HeldOut(q)' + InStep(q)'
                /\ Within(q, rows) => Len(eng[q].outs) + eng[q].hold
                      = Len(req'[q].out) + Earlier(q)' + Len(req'[q].draft)
                /\ ~ Within(q, rows) => Len(eng[q].outs) + eng[q].hold
                                          >= Len(req'[q].out) + AllRejects(q)'
    <3>1. PICK a, e, r, d, s : a = Len(eng[q].outs) /\ e = eng[q].hold /\ r = Len(req[q].out)
                               /\ d = Len(req[q].draft) /\ s = InStep(q)
      OBVIOUS
    <3>2. a \in Nat /\ e \in Int /\ r \in Nat /\ d \in Nat /\ s \in Nat
      BY <2>3, <2>5, <3>1
    <3>3. e = h + s /\ (Within(q, rows) => a + e = r + j + s) /\ (~ Within(q, rows) => a + e >= r + j)
      BY <2>2, <2>12, <3>1
    <3>4. Len(req'[q].draft) = d
      BY <2>4, <3>1
    <3>5. CASE IsSampled(q)
      <4>1. Len(req'[q].out) = r + 1 /\ s = 1 + d /\ Within(q, rows)
        BY <2>4, <2>5, <3>1, <3>5 DEF IsSampled
      <4>2. a + e = (r + 1) + j + d /\ e = (h + s) + 0
        BY <3>2, <3>3, <4>1
      <4> QED BY <2>1, <2>12, <3>1, <3>4, <4>1, <4>2
    <3>6. CASE ~ IsSampled(q)
      <4>1. Len(req'[q].out) = r + 0 /\ s = 0 /\ (Within(q, rows) => d = 0)
        BY <2>4, <2>5, <2>9, <3>1, <3>6
      <4>2. Len(req'[q].out) = r
        BY <3>2, <4>1
      <4>3. (Within(q, rows) => a + e = r + j + d) /\ e = (h + s) + 0
        BY <3>2, <3>3, <4>1
      <4> QED BY <2>1, <2>12, <3>1, <3>3, <3>4, <4>2, <4>3
    <3> QED BY <3>5, <3>6
  <2>10. CASE n = 0
    <3>1. HeldOut(q) = 0 /\ AllRejects(q) = 0 /\ Earlier(q) = 0
      BY <2>1, <2>10 DEF HeldOut, AllRejects, Earlier, n
    <3>2. HeldOut(q)' = Held(x, q) /\ AllRejects(q)' = Rejects(x, q) /\ Earlier(q)' = 0
      <4>1. Len(outputs') = 1 /\ outputs'[1] = x
        BY <1>5, <2>10
      <4> HIDE DEF HeldOut
      <4>2. Held(x, q) \in Int
        BY <2>3, <2>5, <2>7
      <4> QED BY <2>1, <2>8, <4>1, <4>2 DEF HeldOut, AllRejects, Earlier
    <3>3. HeldOut(q)' = InStep(q) /\ AllRejects(q)' = 0 /\ Earlier(q)' = 0
      BY <2>7, <2>8, <3>2
    <3>4. InStep(q) = 0 + InStep(q) /\ 0 \in Int
      BY <2>3, <2>5
    <3>5. HeldOut(q)' = 0 + InStep(q)
      BY <3>3, <3>4
    <3> QED BY <2>12, <3>1, <3>3, <3>4, <3>5
  <2>11. CASE n = 1
    <3>1. PICK h, j : h = Held(outputs[1], q) /\ j = Rejects(outputs[1], q)
      OBVIOUS
    <3>2. h \in Int /\ j \in Int
      <4>1. 1 \in DOMAIN outputs
        BY <1>5, <2>11
      <4>2. InRows(outputs[1].rows)
        BY <4>1 DEF CInv, OutTyped
      <4>3. Samples(outputs[1], q) => PlaceIn(outputs[1].rows, q) \in DOMAIN outputs[1].rows
                                      /\ PlaceIn(outputs[1].rows, q) \notin outputs[1].invalid
        BY <4>2, PlaceOfRow DEF Samples
      <4>4. Samples(outputs[1], q) => outputs[1].spec[PlaceIn(outputs[1].rows, q)] \in Nat
        BY <4>1, <4>3 DEF CInv, OutTyped
      <4>5. Samples(outputs[1], q) /\ outputs[1].ready =>
              Len(outputs[1].toks[PlaceIn(outputs[1].rows, q)]) \in Nat
        BY <4>1, <4>3 DEF CInv, OutTyped, Listed
      <4> QED BY <3>1, <4>4, <4>5 DEF Held, Rejects
    <3>3. HeldOut(q) = h /\ AllRejects(q) = j /\ Earlier(q) = j
      <4>1. Len(outputs) = 1
        BY <2>11 DEF n
      <4> QED BY <2>1, <3>1, <3>2, <4>1 DEF HeldOut, AllRejects, Earlier
    <3>4. HeldOut(q)' = h + Held(x, q) /\ AllRejects(q)' = j + Rejects(x, q) /\ Earlier(q)' = j
      <4>1. Len(outputs') = 2 /\ outputs'[2] = x /\ outputs'[1] = outputs[1]
        BY <1>5, <2>11
      <4> QED BY <2>1, <3>1, <4>1 DEF HeldOut, AllRejects, Earlier
    <3>5. HeldOut(q)' = h + InStep(q) /\ AllRejects(q)' = j /\ Earlier(q)' = j
      BY <2>7, <2>8, <3>2, <3>4
    <3> QED BY <2>12, <3>2, <3>3, <3>5
  <2> QED BY <1>4, <2>10, <2>11
<1>16. SyncCounts'
  BY <1>1 DEF SyncCounts
<1> QED BY <1>6, <1>7, <1>8, <1>10, <1>12, <1>13, <1>14, <1>15, <1>16 DEF CInv

LEMMA SampleCounts ==
  ASSUME Pipeline, CInv, SampleTokens
  PROVE  CInv'
<1>1. /\ ~ mode.async /\ ems.phase = "executed" /\ ems' = [ems EXCEPT !.phase = "sampling"]
      /\ queue' = Append(queue, SampleOp(ems.rows))
      /\ UNCHANGED <<mode, eng, told, req, rows, prev, buf, gpu, counts, copying, outputs>>
  BY DEF SampleTokens
<1>2. ems # NoStep /\ ems' # NoStep /\ ems'.rows = ems.rows /\ ems'.phase = "sampling"
  BY <1>1 DEF NoStep, Pipeline, Shaped
<1>3. queue' # <<>>
  <2>1. PICK S : queue \in Seq(S)
    BY DEF Pipeline, Shaped
  <2>2. Len(queue') = Len(queue) + 1 /\ Len(queue) \in Nat
    BY <1>1, <2>1, AppendShape
  <2> QED BY <2>2
<1>4. EngTyped' /\ ReqTyped' /\ Lives'
  BY <1>1, <1>2 DEF CInv, EngTyped, ReqTyped, Lives, Live
<1>5. OutTyped' /\ Batch'
  BY <1>1, <1>2 DEF CInv, OutTyped, Batch
<1>6. LastStep' /\ ThisStep' /\ AsyncCounts'
  BY <1>1, <1>2 DEF CInv, LastStep, ThisStep, AsyncCounts, Live
<1>7. SyncCounts'
  <2>1. outputs = <<>>
    BY <1>1, <1>2 DEF CInv, SyncCounts
  <2> QED BY <1>1, <1>2, <1>3, <2>1 DEF CInv, SyncCounts, Live
<1> QED BY <1>4, <1>5, <1>6, <1>7 DEF CInv

LEMMA FinishCounts ==
  ASSUME Pipeline, CInv, FinishSync
  PROVE  CInv'
<1> DEFINE x == [Output(ems.rows, gpu.toks, TRUE) EXCEPT
                   !.drafts = IF Fits(buf) THEN gpu.drafts
                              ELSE [i \in DOMAIN ems.rows |-> <<>>]]
<1>1. /\ ems.phase = "sampling" /\ queue = <<>> /\ ems' = NoStep
      /\ req' = Booked(ems.rows, gpu.toks) /\ outputs' = Append(outputs, x)
      /\ UNCHANGED <<mode, eng, told, rows, prev, buf, gpu, counts, copying>>
  BY DEF FinishSync
<1>2. ~ mode.async
  BY <1>1 DEF Pipeline, Async
<1>3. ems # NoStep /\ ems.rows = rows /\ InRows(rows) /\ NoStep.rows = <<>>
  BY <1>1 DEF CInv, Batch, NoStep
<1>4. outputs = <<>>
  BY <1>2, <1>3 DEF CInv, SyncCounts
<1>5. /\ x.rows = rows /\ x.spec = buf.spec /\ x.ready = TRUE /\ x.toks = gpu.toks
      /\ x.invalid = {i \in DOMAIN rows : buf.discard[i]}
      /\ x.drafts = IF Fits(buf) THEN gpu.drafts ELSE [i \in DOMAIN rows |-> <<>>]
      /\ "toks" \in DOMAIN x
  BY <1>3 DEF Output, Sampled
<1> HIDE DEF x
<1>6. outputs' = <<x>> /\ Len(outputs') = 1 /\ outputs'[1] = x /\ DOMAIN outputs' = {1}
      /\ outputs' # <<>>
  BY <1>1, <1>4
<1>7. \A i \in DOMAIN rows : /\ Listed(gpu.toks[i]) /\ Len(gpu.toks[i]) >= 1
                             /\ Listed(gpu.drafts[i]) /\ rows[i] \in Reqs
  BY <1>1, <1>2, <1>3 DEF CInv, SyncCounts, InRows
<1>8. EngTyped' /\ \A q \in Reqs : Live(q)' = Live(q)
  BY <1>1, EngineStays
<1>9. /\ ReqTyped'
      /\ \A q \in Reqs :
           /\ req'[q].known = req[q].known /\ req'[q].draft = req[q].draft
           /\ Len(req'[q].out) = Len(req[q].out)
                + (IF IsSampled(q) THEN Len(gpu.toks[PlaceIn(rows, q)]) ELSE 0)
  BY <1>1, <1>3, <1>7, BookedCounts
<1>10. Lives'
  <2>1. ~ \E q : Within(q, <<>>)
    BY DEF Within
  <2>2. \A q \in Reqs : eng[q].st = "new" => ~ Within(q, rows)
    BY <1>3 DEF CInv, Lives
  <2> QED BY <1>1, <1>3, <1>5, <1>6, <1>8, <1>9, <2>1, <2>2 DEF CInv, Lives
<1>11. OutTyped'
  <2>1. \A i \in DOMAIN rows : buf.spec[i] \in Nat
    BY <1>3 DEF CInv, ThisStep
  <2>2. \A i \in DOMAIN rows : Listed(x.drafts[i])
    BY <1>5, <1>7, ListedLiterals
  <2>3. /\ x.rows = rows /\ x.spec = buf.spec /\ x.ready = TRUE /\ x.toks = gpu.toks
        /\ "toks" \in DOMAIN x
    BY <1>5
  <2> QED BY <1>1, <1>2, <1>3, <1>6, <1>7, <2>1, <2>2, <2>3 DEF OutTyped
<1>12. Batch'
  BY <1>1, <1>2, <1>3 DEF CInv, Batch
<1>13. LastStep' /\ ThisStep' /\ AsyncCounts'
  <2>1. outputs'[Len(outputs')].rows = rows'
    BY <1>1, <1>5, <1>6
  <2> QED BY <1>1, <1>2, <2>1 DEF LastStep, ThisStep, AsyncCounts
<1>14. SyncCounts'
  <2>1. ASSUME NEW q \in Reqs, Live(q)
        PROVE  /\ eng[q].hold = 0
               /\ Len(req'[q].out) = Len(eng[q].outs) +
                    (IF Samples(x, q) THEN Len(x.toks[PlaceIn(x.rows, q)]) ELSE 0)
    <3>1. eng[q].hold = 0 /\ Len(req[q].out) = Len(eng[q].outs) + 0
      BY <1>2, <1>4, <2>1 DEF CInv, SyncCounts
    <3>2. Len(req[q].out) = Len(eng[q].outs)
      <4>1. Len(eng[q].outs) \in Nat
        BY DEF CInv, EngTyped, Listed
      <4> QED BY <3>1, <4>1
    <3>3. Samples(x, q) <=> IsSampled(q)
      BY <1>3, <1>5, PlaceOfRow DEF Samples, IsSampled
    <3> QED BY <1>5, <1>9, <3>1, <3>2, <3>3
  <2>2. ems'.phase # "sampling"
    BY <1>1 DEF NoStep
  <2>3. \A q \in Reqs : Live(q)' =>
          /\ eng'[q].hold = 0
          /\ Len(req'[q].out) = Len(eng'[q].outs) +
               (IF Len(outputs') = 1 /\ Samples(outputs'[1], q)
                  THEN Len(outputs'[1].toks[PlaceIn(outputs'[1].rows, q)]) ELSE 0)
    BY <1>1, <1>6, <1>8, <2>1
  <2>4. Len(outputs') <= 1 /\ ems' = NoStep
    BY <1>1, <1>6
  <2> QED BY <2>2, <2>3, <2>4 DEF SyncCounts
<1> QED BY <1>8, <1>9, <1>10, <1>11, <1>12, <1>13, <1>14 DEF CInv

LEMMA GpuInputCounts ==
  ASSUME Pipeline, CInv, GpuInput
  PROVE  CInv'
<1>1. /\ queue # <<>> /\ Head(queue).op = "input" /\ queue' = Tail(queue)
      /\ UNCHANGED Counted
  BY DEF GpuInput, Counted
<1>2. PICK S : queue \in Seq(S)
  BY DEF Pipeline, Shaped
<1>3. /\ Head(queue) = queue[1] /\ Len(queue) \in Nat \ {0} /\ Len(queue') = Len(queue) - 1
  BY <1>1, <1>2, TailShape
<1>4. ASSUME ems.phase = "sampling", queue' = <<>> PROVE mode.async
  <2>1. Len(queue) = 1
    BY <1>3, <1>4
  <2> QED BY <1>1, <1>3, <1>4, <2>1 DEF Pipeline, Sync, NoStep
<1> QED BY <1>1, <1>4, FrameCounts

LEMMA CopyCountsCounts ==
  ASSUME Pipeline, CInv, CopyCounts
  PROVE  CInv'
<1>1. /\ copying /\ counts' = gpu.count /\ copying' = FALSE
      /\ \A i \in DOMAIN queue : queue[i].op # "sample"
      /\ UNCHANGED <<mode, eng, told, req, rows, prev, buf, ems, queue, gpu, outputs>>
  BY DEF CopyCounts
<1>2. mode.async => AllReady
  <2>1. PICK S : queue \in Seq(S)
    BY DEF Pipeline, Shaped
  <2>2. DOMAIN queue = 1..Len(queue) /\ Len(queue) \in Nat
    BY <2>1, LenProperties
  <2> QED BY <1>1, <2>2 DEF Pipeline, Async, Empty, In, Sa, InSa, SaIn, SaInSa
<1>3. EngTyped' /\ ReqTyped' /\ Lives'
  BY <1>1 DEF CInv, EngTyped, ReqTyped, Lives, Live
<1>4. OutTyped'
  BY <1>1, <1>2 DEF CInv, OutTyped, AllReady
<1>5. Batch'
  BY <1>1 DEF CInv, Batch
<1>6. LastStep' /\ ThisStep'
  BY <1>1 DEF CInv, LastStep, ThisStep, Live
<1>7. AsyncCounts'
  BY <1>1 DEF CInv, AsyncCounts, Live, Executing, InStep, HeldOut, AllRejects, Earlier
<1>8. SyncCounts'
  BY <1>1 DEF CInv, SyncCounts, Live
<1> QED BY <1>3, <1>4, <1>5, <1>6, <1>7, <1>8 DEF CInv

(* Results of the device: every row gets a token, and each accepted draft one. *)
LEMMA ResultLengths ==
  ASSUME NEW D, NEW acc \in [D -> Nat], DOMAIN fed.rows = D, NEW i \in D
  PROVE  /\ Listed(SampleRows(acc)[i]) /\ Len(SampleRows(acc)[i]) >= 1
         /\ ~ fed.discard[i] => Len(SampleRows(acc)[i]) = acc[i] + 1
<1>1. SampleRows(acc)[i] = IF fed.discard[i] THEN <<Guess(fed.rows[i])>>
                           ELSE Toks(fed.rows[i], Base(i), acc[i] + 1)
  BY DEF SampleRows
<1>2. acc[i] \in Nat /\ acc[i] + 1 \in Nat /\ acc[i] + 1 >= 1
  OBVIOUS
<1> QED BY <1>1, <1>2, ListedLiterals

LEMMA DraftsListed ==
  ASSUME mode.spec \in Nat, NEW i, NEW len, NEW fits
  PROVE  Listed(Drafted(i, len, fits))
<1>1. Listed([j \in 1..mode.spec |-> Guess(fed.rows[i])])
  BY DEF Listed
<1> QED BY <1>1, ListedLiterals DEF Drafted

(* An output is filled in: its counts of rejected drafts are new, and no       *)
(* request's balance depends on them yet.                                     *)
Filled(k, toks) ==
  /\ DOMAIN outputs' = DOMAIN outputs /\ Len(outputs') = Len(outputs)
  /\ \A j \in DOMAIN outputs : j # k => outputs'[j] = outputs[j]
  /\ outputs'[k].rows = outputs[k].rows /\ outputs'[k].spec = outputs[k].spec
  /\ outputs'[k].invalid = outputs[k].invalid
  /\ outputs'[k].ready = TRUE /\ outputs'[k].toks = toks /\ "toks" \in DOMAIN outputs'[k]
LEMMA FilledRejects ==
  ASSUME CInv, mode.async, NEW k \in DOMAIN outputs, NEW toks, Filled(k, toks),
         Len(outputs) \in 0..2, DOMAIN outputs = 1..Len(outputs),
         outputs[k].ready = FALSE, UNCHANGED <<mode, ems, rows>>,
         \A i \in DOMAIN outputs[k].rows : i \notin outputs[k].invalid =>
            Listed(toks[i]) /\ Len(toks[i]) >= 1 /\ Len(toks[i]) <= outputs[k].spec[i] + 1,
         NEW q \in Reqs
  PROVE  /\ HeldOut(q)' = HeldOut(q) /\ Earlier(q)' = Earlier(q)
         /\ ~ Within(q, rows) => AllRejects(q)' = AllRejects(q)
<1>1. \A j \in DOMAIN outputs : Samples(outputs'[j], q) <=> Samples(outputs[j], q)
  BY DEF Filled, Samples
<1>2. \A j \in DOMAIN outputs : Held(outputs'[j], q) = Held(outputs[j], q)
  BY <1>1 DEF Filled, Held
<1>3. HeldOut(q)' = HeldOut(q)
  <2>1. /\ Len(outputs) >= 1 => Held(outputs'[1], q) = Held(outputs[1], q)
        /\ Len(outputs) = 2 => Held(outputs'[2], q) = Held(outputs[2], q)
    BY <1>2
  <2>2. Len(outputs') = Len(outputs)
    BY DEF Filled
  <2> QED BY <2>1, <2>2 DEF HeldOut
<1>4. InRows(outputs[k].rows) /\ mode.spec \in Nat
  BY DEF CInv, OutTyped, Batch
<1>5. \A j \in DOMAIN outputs : j # k => Rejects(outputs'[j], q) = Rejects(outputs[j], q)
  BY DEF Filled
<1>6. Rejects(outputs[k], q) = 0
  BY DEF Rejects
<1>7. CASE mode.spec = 0
  <2>1. Rejects(outputs'[k], q) = 0
    <3>1. CASE Samples(outputs[k], q)
      <4> DEFINE p == PlaceIn(outputs[k].rows, q)
      <4>1. p \in DOMAIN outputs[k].rows /\ p \notin outputs[k].invalid
        BY <1>4, <3>1, PlaceOfRow DEF Samples
      <4>2. outputs[k].spec[p] = 0
        BY <1>7, <4>1 DEF CInv, OutTyped
      <4>3. Len(toks[p]) = 1
        <5>1. Listed(toks[p]) /\ Len(toks[p]) >= 1 /\ Len(toks[p]) <= outputs[k].spec[p] + 1
          BY <4>1
        <5>2. Len(toks[p]) \in Nat
          BY <5>1 DEF Listed
        <5>3. Len(toks[p]) <= 1
          BY <4>2, <5>1
        <5>4. PICK m : m = Len(toks[p])
          OBVIOUS
        <5>5. m \in Nat /\ m >= 1 /\ m <= 1
          BY <5>1, <5>2, <5>3, <5>4
        <5>6. m = 1
          BY <5>5
        <5> QED BY <5>4, <5>6, Zenon
      <4>4. Rejects(outputs'[k], q) = outputs[k].spec[p] + 1 - Len(toks[p])
        BY <1>1, <3>1 DEF Filled, Rejects
      <4> QED BY <4>2, <4>3, <4>4
    <3>2. CASE ~ Samples(outputs[k], q)
      BY <1>1, <3>2 DEF Rejects
    <3> QED BY <3>1, <3>2
  <2>2. \A j \in DOMAIN outputs : Rejects(outputs'[j], q) = Rejects(outputs[j], q)
    BY <1>5, <1>6, <2>1
  <2>3. /\ Len(outputs) >= 1 => Rejects(outputs'[1], q) = Rejects(outputs[1], q)
        /\ Len(outputs) = 2 => Rejects(outputs'[2], q) = Rejects(outputs[2], q)
    BY <2>2
  <2>4. Len(outputs') = Len(outputs) /\ Executing' = Executing
    BY DEF Filled, Executing
  <2>5. AllRejects(q)' = AllRejects(q)
    BY <2>3, <2>4 DEF AllRejects
  <2>6. Earlier(q)' = Earlier(q)
    <3>1. Len(outputs) = (IF Executing THEN 1 ELSE 2) => Len(outputs) >= 1
      OBVIOUS
    <3> QED BY <2>3, <2>4, <3>1 DEF Earlier
  <2> QED BY <1>3, <2>5, <2>6
<1>8. CASE mode.spec > 0
  <2>1. ems = NoStep /\ k = Len(outputs)
    BY <1>8 DEF CInv, OutTyped
  <2>2. ~ Executing /\ ~ Executing'
    BY <2>1 DEF Executing, NoStep
  <2>3. outputs[k].rows = rows
    <3>1. outputs # <<>>
      OBVIOUS
    <3> QED BY <2>1, <3>1 DEF CInv, LastStep
  <2>4. ~ Within(q, rows) => Rejects(outputs'[k], q) = 0
    BY <1>1, <2>3 DEF Rejects, Samples
  <2>5. ~ Within(q, rows) => \A j \in DOMAIN outputs : Rejects(outputs'[j], q) = Rejects(outputs[j], q)
    BY <1>5, <1>6, <2>4
  <2>6. Len(outputs') = Len(outputs)
    BY DEF Filled
  <2>7. Earlier(q)' = Earlier(q)
    <3>1. Len(outputs) = 2 => Rejects(outputs'[1], q) = Rejects(outputs[1], q)
      BY <1>5, <2>1
    <3> QED BY <2>2, <2>6, <3>1 DEF Earlier
  <2>8. ~ Within(q, rows) => AllRejects(q)' = AllRejects(q)
    <3>1. ASSUME ~ Within(q, rows)
          PROVE  /\ Len(outputs) >= 1 => Rejects(outputs'[1], q) = Rejects(outputs[1], q)
                 /\ Len(outputs) = 2 => Rejects(outputs'[2], q) = Rejects(outputs[2], q)
      BY <2>5, <3>1
    <3> QED BY <2>6, <3>1 DEF AllRejects
  <2> QED BY <1>3, <2>7, <2>8
<1> QED BY <1>4, <1>7, <1>8

(* The output a sampling step fills in is there, and the first that waits.     *)
LEMMA WaitingOutput ==
  ASSUME Pipeline, mode.async, queue # <<>>, Head(queue).op = "sample"
  PROVE  /\ DOMAIN outputs = 1..Len(outputs) /\ Len(outputs) \in 0..2
         /\ FirstPending \in DOMAIN outputs /\ outputs[FirstPending].ready = FALSE
         /\ \A j \in 1..(FirstPending - 1) : outputs[j].ready
<1>1. /\ DOMAIN outputs = 1..Len(outputs) /\ Len(outputs) \in Nat
  <2>1. PICK T : outputs \in Seq(T)
    BY DEF Pipeline, Shaped
  <2> QED BY <2>1, LenProperties
<1>2. Len(outputs) \in 0..2
  BY <1>1 DEF Pipeline, Async
<1>3. PICK m \in DOMAIN outputs : ~ outputs[m].ready
  <2>1. PICK S : queue \in Seq(S)
    BY DEF Pipeline, Shaped
  <2>2. Head(queue) = queue[1]
    BY <2>1, TailShape
  <2>3. Sa \/ SaIn \/ SaInSa
    BY <2>1, <2>2 DEF Pipeline, Async, Empty, In, InSa
  <2> QED BY <1>1, <2>3 DEF Sa, SaIn, SaInSa, OnlyAwaits, Awaits
<1>4. \E i \in DOMAIN outputs : ~ outputs[i].ready /\ \A j \in 1..(i - 1) : outputs[j].ready
  <2>1. CASE outputs[1].ready
    <3>1. m = 2
      BY <1>1, <1>2, <1>3, <2>1
    <3>2. \A j \in 1..(m - 1) : outputs[j].ready
      BY <2>1, <3>1
    <3> QED BY <1>3, <3>2
  <2>2. CASE ~ outputs[1].ready
    <3>1. 1 \in DOMAIN outputs
      BY <1>1, <1>3
    <3> QED BY <2>2, <3>1
  <2> QED BY <2>1, <2>2
<1>5. /\ FirstPending \in DOMAIN outputs /\ ~ outputs[FirstPending].ready
      /\ \A j \in 1..(FirstPending - 1) : outputs[j].ready
  BY <1>4 DEF FirstPending
<1>6. outputs[FirstPending].ready \in BOOLEAN
  BY <1>5 DEF Pipeline, Shaped
<1> QED BY <1>1, <1>2, <1>5, <1>6

LEMMA FillsOutput ==
  ASSUME Pipeline, CInv, NEW k \in DOMAIN outputs, NEW toks,
         outputs' = [outputs EXCEPT ![k].toks = toks, ![k].ready = TRUE]
  PROVE  Filled(k, toks)
<1>1. {"rows", "spec", "invalid", "ready", "toks"} \subseteq DOMAIN outputs[k]
  BY DEF CInv, OutTyped, Pipeline, Shaped
<1> DEFINE y == [outputs[k] EXCEPT !.toks = toks, !.ready = TRUE]
<1>2. outputs' = [outputs EXCEPT ![k] = y]
  OBVIOUS
<1>3. /\ DOMAIN outputs' = DOMAIN outputs /\ outputs'[k] = y
      /\ \A j \in DOMAIN outputs : j # k => outputs'[j] = outputs[j]
  BY <1>2
<1>4. Len(outputs') = Len(outputs)
  <2>1. PICK T : outputs \in Seq(T)
    BY DEF Pipeline, Shaped
  <2>2. outputs \in Seq(T \cup {y}) /\ y \in T \cup {y}
    BY <2>1
  <2>3. k \in 1..Len(outputs)
    BY <2>1, LenProperties
  <2> HIDE DEF y
  <2> QED BY <1>2, <2>2, <2>3, ExceptSeq
<1> QED BY <1>1, <1>3, <1>4 DEF Filled

LEMMA GpuSampleCounts ==
  ASSUME Pipeline, CInv, NEW D, NEW acc \in [D -> Nat], GpuSample(acc)
  PROVE  CInv'
<1> DEFINE toks == SampleRows(acc)
           k == FirstPending
<1>1. /\ queue # <<>> /\ Head(queue).op = "sample" /\ DOMAIN acc = DOMAIN Head(queue).rows
      /\ \A i \in DOMAIN acc : acc[i] > 0 => /\ ~ fed.discard[i] /\ acc[i] <= fed.spec[i]
      /\ gpu'.toks = toks
      /\ gpu'.count = [i \in DOMAIN Head(queue).rows |-> IF fed.discard[i] THEN 0 ELSE acc[i] + 1]
      /\ gpu'.drafts = [i \in DOMAIN Head(queue).rows |->
                          Drafted(i, Base(i) + acc[i] + 1, Head(queue).fits)]
      /\ IF mode.async THEN outputs' = [outputs EXCEPT ![k].toks = toks, ![k].ready = TRUE]
                       ELSE UNCHANGED outputs
      /\ queue' = Tail(queue)
      /\ UNCHANGED <<mode, eng, told, req, rows, prev, buf, ems, counts, copying>>
  BY DEF GpuSample
<1>2. /\ fed.rows = Head(queue).rows
      /\ mode.async => Promised(outputs[k])
      /\ ~ mode.async => ems.rows = fed.rows /\ buf.discard = fed.discard
  BY <1>1, PipelineBelongs DEF OutputsBelongToTheirSteps
<1>3. D = DOMAIN fed.rows /\ DOMAIN acc = D
  BY <1>1, <1>2
<1>4. \A i \in D : /\ Listed(toks[i]) /\ Len(toks[i]) >= 1
                   /\ ~ fed.discard[i] => Len(toks[i]) = acc[i] + 1 /\ gpu'.count[i] = Len(toks[i])
  BY <1>1, <1>2, <1>3, ResultLengths
<1>5. mode.spec \in Nat /\ mode.async \in BOOLEAN
  BY DEF CInv, Batch, Pipeline
<1>6. \A i \in D : Listed(gpu'.drafts[i])
  BY <1>1, <1>2, <1>3, <1>5, DraftsListed
<1> HIDE DEF toks, k
<1>7. EngTyped' /\ ReqTyped' /\ ThisStep' /\ Batch'
  BY <1>1 DEF CInv, EngTyped, ReqTyped, ThisStep, Batch, Live
<1>8. CASE ~ mode.async
  <2>1. OutTyped' /\ LastStep' /\ AsyncCounts'
    BY <1>1, <1>8 DEF CInv, OutTyped, LastStep, AsyncCounts
  <2>2. Lives'
    BY <1>1, <1>8 DEF CInv, Lives, Live
  <2>3. ASSUME ems.phase = "sampling", NEW i \in DOMAIN rows
        PROVE  Listed(gpu'.toks[i]) /\ Len(gpu'.toks[i]) >= 1 /\ Listed(gpu'.drafts[i])
    <3>1. ems # NoStep
      BY <2>3 DEF NoStep
    <3>2. i \in D
      BY <1>2, <1>3, <1>8, <3>1 DEF CInv, Batch
    <3> QED BY <1>1, <1>4, <1>6, <3>2
  <2>4. SyncCounts'
    BY <1>1, <1>8, <2>3 DEF CInv, SyncCounts, Live
  <2> QED BY <1>7, <2>1, <2>2, <2>4 DEF CInv
<1>9. CASE mode.async
  <2>1. /\ DOMAIN outputs = 1..Len(outputs) /\ Len(outputs) \in 0..2
        /\ k \in DOMAIN outputs /\ outputs[k].ready = FALSE
    BY <1>1, <1>9, WaitingOutput DEF k
  <2>2. Len(outputs) \in Nat
    BY <2>1
  <2>3. k \in DOMAIN outputs /\ outputs[k].ready = FALSE
    BY <2>1
  <2>4. /\ outputs[k].rows = fed.rows /\ outputs[k].spec = fed.spec
        /\ outputs[k].invalid = {i \in D : fed.discard[i]}
    BY <1>2, <1>3, <1>9 DEF Promised
  <2>5. Filled(k, toks)
    BY <1>1, <1>9, <2>3, FillsOutput DEF k
  <2>6. \A i \in D : i \notin outputs[k].invalid =>
          /\ Listed(toks[i]) /\ Len(toks[i]) >= 1 /\ Len(toks[i]) <= outputs[k].spec[i] + 1
          /\ gpu'.count[i] = Len(toks[i])
    <3> SUFFICES ASSUME NEW i \in D, ~ fed.discard[i]
                 PROVE  /\ Listed(toks[i]) /\ Len(toks[i]) >= 1 /\ Len(toks[i]) <= fed.spec[i] + 1
                        /\ gpu'.count[i] = Len(toks[i])
      BY <2>4
    <3>1. fed.spec[i] \in Nat
      BY <1>3, <2>3, <2>4 DEF CInv, OutTyped
    <3>2. acc[i] \in Nat /\ acc[i] <= fed.spec[i]
      BY <1>1, <1>3, <3>1
    <3> QED BY <1>4, <3>1, <3>2
  <2>7. \A q \in Reqs : /\ HeldOut(q)' = HeldOut(q) /\ Earlier(q)' = Earlier(q)
                        /\ ~ Within(q, rows) => AllRejects(q)' = AllRejects(q)
    BY <1>1, <1>3, <1>9, <2>1, <2>2, <2>3, <2>4, <2>5, <2>6, FilledRejects
  <2>8. Lives'
    <3>1. \A j \in DOMAIN outputs' : j \in DOMAIN outputs /\ outputs'[j].rows = outputs[j].rows
      BY <2>5 DEF Filled
    <3> QED BY <1>1, <3>1 DEF CInv, Lives, Live
  <2>9. OutTyped'
    <3> SUFFICES ASSUME NEW j \in DOMAIN outputs
                 PROVE  LET o == outputs'[j] IN
                      /\ InRows(o.rows) /\ "toks" \in DOMAIN o
                      /\ \A i \in DOMAIN o.rows :
                           /\ o.spec[i] \in Nat
                           /\ o.ready /\ i \notin o.invalid => Listed(o.toks[i]) /\ Len(o.toks[i]) >= 1
                           /\ o.ready /\ i \notin o.invalid => Len(o.toks[i]) <= o.spec[i] + 1
                           /\ mode.spec = 0 => o.spec[i] = 0
                      /\ ~ o.ready /\ mode.spec > 0 => copying /\ ems = NoStep /\ j = Len(outputs)
      BY <1>1, <1>9, <2>5 DEF OutTyped, Filled
    <3>1. CASE j # k
      BY <1>9, <2>5, <3>1 DEF CInv, OutTyped, Filled
    <3>2. CASE j = k
      <4>1. /\ InRows(outputs[k].rows)
            /\ \A i \in D : /\ outputs[k].spec[i] \in Nat
                            /\ mode.spec = 0 => outputs[k].spec[i] = 0
        BY <1>3, <1>9, <2>3, <2>4 DEF CInv, OutTyped
      <4> QED BY <1>3, <2>4, <2>5, <2>6, <3>2, <4>1 DEF Filled
    <3> QED BY <3>1, <3>2
  <2>10. LastStep'
    <3> SUFFICES ASSUME ems = NoStep
                 PROVE  /\ outputs' # <<>> => outputs'[Len(outputs')].rows = rows
                        /\ \A i \in DOMAIN rows : Live(rows[i]) =>
                             /\ outputs' # <<>>
                             /\ LET o == outputs'[Len(outputs')] IN
                                  /\ o.spec[i] = Len(req[rows[i]].draft)
                                  /\ i \in o.invalid => req[rows[i]].draft = <<>>
                                  /\ i \notin o.invalid => /\ prev.set /\ rows[i] \in DOMAIN prev.idx
                                                           /\ prev.idx[rows[i]] = i
                                  /\ o.ready /\ i \notin o.invalid /\ mode.spec > 0 =>
                                       Len(o.toks[i]) = IF copying THEN gpu'.count[i] ELSE counts[i]
      <4>1. \A q : Live(q)' = Live(q)
        BY <1>1 DEF Live
      <4> QED BY <1>1, <4>1 DEF LastStep
    <3>1. outputs # <<>> /\ outputs' # <<>> /\ Len(outputs') = Len(outputs) /\ Len(outputs) \in 1..2
      <4>1. Len(outputs) \in 1..2
        BY <2>1, <2>2, <2>3
      <4>2. Len(outputs') = Len(outputs)
        BY <2>5 DEF Filled
      <4> QED BY <4>1, <4>2
    <3>2. DOMAIN rows = DOMAIN outputs[Len(outputs)].rows /\ rows = outputs[Len(outputs)].rows
      BY <3>1 DEF CInv, LastStep
    <3>3. CASE k = Len(outputs)
      <4>1. outputs[k].rows = rows /\ D = DOMAIN rows
        BY <1>3, <2>4, <3>2, <3>3
      <4>2. \A i \in DOMAIN rows : i \notin outputs[k].invalid /\ mode.spec > 0 =>
              Len(toks[i]) = IF copying THEN gpu'.count[i] ELSE counts[i]
        <5>1. mode.spec > 0 => copying
          BY <1>9, <2>3 DEF CInv, OutTyped
        <5> QED BY <2>6, <4>1, <5>1
      <4>3. \A i \in DOMAIN rows : Live(rows[i]) =>
              /\ outputs[k].spec[i] = Len(req[rows[i]].draft)
              /\ i \in outputs[k].invalid => req[rows[i]].draft = <<>>
              /\ i \notin outputs[k].invalid => /\ prev.set /\ rows[i] \in DOMAIN prev.idx
                                                /\ prev.idx[rows[i]] = i
        BY <1>9, <3>3 DEF CInv, LastStep
      <4> QED BY <2>5, <3>1, <3>3, <4>1, <4>2, <4>3 DEF Filled
    <3>4. CASE k # Len(outputs)
      <4>1. mode.spec = 0
        BY <1>5, <1>9, <2>3, <3>4 DEF CInv, OutTyped
      <4>2. outputs'[Len(outputs')] = outputs[Len(outputs)]
        BY <2>1, <2>5, <3>1, <3>4 DEF Filled
      <4>3. ~ (mode.spec > 0)
        BY <4>1
      <4> QED BY <1>9, <3>1, <4>2, <4>3 DEF CInv, LastStep
    <3> QED BY <3>3, <3>4
  <2>11. AsyncCounts'
    <3>1. \A q \in Reqs : Live(q)' = Live(q) /\ InStep(q)' = InStep(q) /\ Executing' = Executing
      BY <1>1 DEF Live, InStep, Executing
    <3> QED BY <1>1, <2>7, <3>1 DEF CInv, AsyncCounts
  <2>12. SyncCounts'
    BY <1>1, <1>9 DEF SyncCounts
  <2> QED BY <1>7, <2>8, <2>9, <2>10, <2>11, <2>12 DEF CInv
<1> QED BY <1>5, <1>8, <1>9

(* What the engine makes of a result: the request is done, or has all of it.   *)
Rejected(o, i) == IF o.spec[i] > 0 /\ Valid(o, i) # <<>>
                    THEN o.spec[i] + 1 - Len(Valid(o, i)) ELSE 0
LEMMA RoomLeft ==
  ASSUME NEW a \in Nat, NEW l \in Nat, NEW m \in Nat, a < m,
         a + (IF l < m - a THEN l ELSE m - a) # m
  PROVE  l < m - a /\ a + l < m
OBVIOUS

LEMMA TookShape ==
  ASSUME NEW q \in Reqs, NEW o, NEW i, CInv, Live(q),
         Listed(Valid(o, i)), o.spec[i] \in Nat, ~ mode.async => Listed(o.drafts[i])
  PROVE  LET t == Took(q, o, i) IN
         /\ DOMAIN t = EngFields /\ t.computed \in Int /\ t.hold \in Int
         /\ Listed(t.outs) /\ Listed(t.specs) /\ t.st \in {eng[q].st, "done"}
         /\ mode.async => t.specs \in {eng[q].specs, <<>>}
         /\ t.st # "done" =>
              /\ Len(t.outs) = Len(eng[q].outs) + Len(Valid(o, i))
              /\ Len(t.outs) < mode.most[q]
              /\ t.hold = IF eng[q].hold > 0
                            THEN eng[q].hold - Rejected(o, i) - Len(Valid(o, i)) ELSE eng[q].hold
<1> DEFINE g == Valid(o, i)
           e == eng[q]
           r == Rejected(o, i)
           most == mode.most[q]
           room == most - Len(e.outs)
           c == IF Len(g) < room THEN Len(g) ELSE room
           add == SubSeq(g, 1, c)
           t == Took(q, o, i)
<1>1. /\ DOMAIN e = EngFields /\ e.computed \in Int /\ e.hold \in Int
      /\ Listed(e.outs) /\ Listed(e.specs) /\ Len(e.outs) < most
  BY DEF CInv, EngTyped
<1>2. Len(e.outs) \in Nat /\ Len(g) \in Nat /\ most \in Nat \ {0}
  BY <1>1 DEF CInv, Batch, Listed
<1>3. room \in Nat \ {0} /\ c \in 0..Len(g)
  BY <1>1, <1>2
<1>4. Listed(add) /\ Len(add) = c
  BY <1>3, ListedFront
<1>5. Listed(e.outs \o add) /\ Len(e.outs \o add) = Len(e.outs) + c
  BY <1>1, <1>4, ListedConcat
<1>6. r \in Int
  BY <1>2 DEF Rejected
<1>7. t = IF Len(e.outs) + Len(add) = most
            THEN [Fresh EXCEPT !.st = "done", !.outs = e.outs \o add]
            ELSE [e EXCEPT !.outs = @ \o add,
                    !.computed = IF @ > 0 THEN @ - r ELSE @,
                    !.hold = (IF @ > 0 THEN @ - r - Len(add) ELSE @),
                    !.specs = IF mode.async \/ g = <<>> THEN @ ELSE o.drafts[i]]
  BY DEF Took, Rejected
<1> HIDE DEF g, e, r, most, room, c, add, t
<1>8. CASE Len(e.outs) + Len(add) = most
  <2>1. /\ DOMAIN t = EngFields /\ t.st = "done" /\ t.outs = e.outs \o add
        /\ t.computed = 0 /\ t.hold = 0 /\ t.specs = <<>>
    BY <1>7, <1>8 DEF Fresh, EngFields
  <2> QED BY <1>5, <2>1, ListedLiterals DEF t
<1>9. CASE Len(e.outs) + Len(add) # most
  <2>1. c = Len(g) /\ Len(e.outs) + c < most
    <3>1. Len(e.outs) + c # most
      BY <1>4, <1>9
    <3>2. Len(g) < room /\ Len(e.outs) + Len(g) < most
      BY <1>1, <1>2, <3>1, RoomLeft DEF c, room
    <3> QED BY <3>2 DEF c
  <2>2. t = [e EXCEPT !.outs = e.outs \o add,
                    !.computed = IF e.computed > 0 THEN e.computed - r ELSE e.computed,
                    !.hold = (IF e.hold > 0 THEN e.hold - r - Len(add) ELSE e.hold),
                    !.specs = IF mode.async \/ g = <<>> THEN e.specs ELSE o.drafts[i]]
    BY <1>1, <1>7, <1>9 DEF EngFields
  <2>3. /\ DOMAIN t = EngFields /\ t.st = e.st /\ t.outs = e.outs \o add
        /\ t.computed = IF e.computed > 0 THEN e.computed - r ELSE e.computed
        /\ t.hold = IF e.hold > 0 THEN e.hold - r - Len(add) ELSE e.hold
        /\ t.specs = IF mode.async \/ g = <<>> THEN e.specs ELSE o.drafts[i]
    BY <1>1, <2>2 DEF EngFields
  <2>4. Len(t.outs) = Len(e.outs) + Len(g) /\ Len(t.outs) < most
    <3>1. Len(t.outs) = Len(e.outs) + c
      BY <1>5, <2>3
    <3> QED BY <2>1, <3>1
  <2>5. t.computed \in Int
    BY <1>1, <1>6, <2>3
  <2>6. t.hold = IF e.hold > 0 THEN e.hold - r - Len(g) ELSE e.hold
    BY <1>4, <2>1, <2>3
  <2>7. t.hold \in Int
    BY <1>1, <1>2, <1>6, <2>6
  <2>8. Listed(t.outs)
    BY <1>5, <2>3
  <2>9. Listed(t.specs) /\ (mode.async => t.specs = e.specs)
    BY <1>1, <2>3 DEF Pipeline
  <2> QED BY <2>3, <2>4, <2>5, <2>6, <2>7, <2>8, <2>9 DEF t, e, g, r, most
<1> QED BY <1>8, <1>9

(* What one output holds and rejects of a request.                            *)
LEMMA HeldTyped ==
  ASSUME CInv, NEW j \in DOMAIN outputs, NEW q \in Reqs
  PROVE  /\ Held(outputs[j], q) \in Nat
         /\ Rejects(outputs[j], q) \in Int
         /\ Samples(outputs[j], q) => Held(outputs[j], q) >= 1
         /\ mode.async => Rejects(outputs[j], q) >= 0
<1> DEFINE o == outputs[j]
           p == PlaceIn(o.rows, q)
<1>1. InRows(o.rows)
  BY DEF CInv, OutTyped
<1>2. CASE ~ Samples(o, q)
  BY <1>2 DEF Held, Rejects
<1>3. CASE Samples(o, q)
  <2>1. p \in DOMAIN o.rows /\ p \notin o.invalid
    BY <1>1, <1>3, PlaceOfRow DEF Samples
  <2>2. /\ o.spec[p] \in Nat /\ (o.ready => Listed(o.toks[p]))
        /\ (mode.async /\ o.ready => Len(o.toks[p]) <= o.spec[p] + 1)
    BY <2>1 DEF CInv, OutTyped
  <2>3. Held(o, q) = 1 + o.spec[p]
    BY <1>3 DEF Held
  <2>4. Rejects(o, q) = IF o.ready THEN o.spec[p] + 1 - Len(o.toks[p]) ELSE 0
    BY <1>3 DEF Rejects
  <2>5. o.ready => Len(o.toks[p]) \in Nat
    BY <2>2 DEF Listed
  <2> HIDE DEF o, p
  <2>6. Held(o, q) \in Nat /\ Held(o, q) >= 1
    BY <2>2, <2>3
  <2>7. Rejects(o, q) \in Int /\ (mode.async => Rejects(o, q) >= 0)
    <3>1. CASE o.ready
      BY <2>2, <2>4, <2>5, <3>1
    <3>2. CASE ~ o.ready
      BY <2>4, <3>2
    <3> QED BY <3>1, <3>2
  <2> QED BY <2>6, <2>7 DEF o
<1> QED BY <1>2, <1>3

(* A request of an output that is taken: what the engine does with its result. *)
LEMMA TakerShape ==
  ASSUME CInv, NEW o, outputs # <<>>, o = outputs[1], 1 \in DOMAIN outputs, o.ready,
         NEW q \in Reqs, Live(q), Within(q, o.rows)
  PROVE  LET t == Took(q, o, PlaceIn(o.rows, q))
             g == IF Samples(o, q) THEN Len(o.toks[PlaceIn(o.rows, q)]) ELSE 0
         IN
         /\ DOMAIN t = EngFields /\ t.computed \in Int /\ t.hold \in Int
         /\ Listed(t.outs) /\ Listed(t.specs) /\ t.st \in {eng[q].st, "done"}
         /\ mode.async => t.specs \in {eng[q].specs, <<>>}
         /\ t.st # "done" => /\ Len(t.outs) = Len(eng[q].outs) + g
                             /\ Len(t.outs) < mode.most[q]
                             /\ eng[q].hold = 0 => t.hold = 0
                             /\ mode.async /\ eng[q].hold >= Held(o, q) =>
                                  t.hold = eng[q].hold - Held(o, q)
                             /\ g = Held(o, q) - Rejects(o, q)
<1> DEFINE p == PlaceIn(o.rows, q)
           g == IF Samples(o, q) THEN Len(o.toks[p]) ELSE 0
           t == Took(q, o, p)
<1>1. p \in DOMAIN o.rows /\ o.rows[p] = q
  <2>1. InRows(o.rows)
    BY DEF CInv, OutTyped
  <2> QED BY <2>1, PlaceOfRow
<1>2. /\ o.spec[p] \in Nat /\ (p \notin o.invalid => Listed(o.toks[p]) /\ Len(o.toks[p]) >= 1)
      /\ (mode.async /\ p \notin o.invalid => Len(o.toks[p]) <= o.spec[p] + 1)
      /\ (~ mode.async => Listed(o.drafts[p]))
  BY <1>1 DEF CInv, OutTyped
<1>3. Samples(o, q) <=> p \notin o.invalid
  BY DEF Samples
<1>4. Valid(o, p) = IF Samples(o, q) THEN o.toks[p] ELSE <<>>
  BY <1>3 DEF Valid
<1>5. Listed(Valid(o, p)) /\ Len(Valid(o, p)) = g
  BY <1>2, <1>3, <1>4, ListedLiterals
<1>6. /\ Held(o, q) = IF Samples(o, q) THEN 1 + o.spec[p] ELSE 0
      /\ Rejects(o, q) = IF Samples(o, q) THEN o.spec[p] + 1 - Len(o.toks[p]) ELSE 0
  BY DEF Held, Rejects
<1> HIDE DEF p, g, t
<1>7. /\ DOMAIN t = EngFields /\ t.computed \in Int /\ t.hold \in Int
      /\ Listed(t.outs) /\ Listed(t.specs) /\ t.st \in {eng[q].st, "done"}
      /\ mode.async => t.specs \in {eng[q].specs, <<>>}
      /\ t.st # "done" =>
           /\ Len(t.outs) = Len(eng[q].outs) + g
           /\ Len(t.outs) < mode.most[q]
           /\ t.hold = IF eng[q].hold > 0 THEN eng[q].hold - Rejected(o, p) - g ELSE eng[q].hold
  BY <1>2, <1>5, TookShape DEF t
<1>8. eng[q].hold \in Int
  BY DEF CInv, EngTyped
<1>9. CASE Samples(o, q)
  <2>1. PICK s, l, h : s = o.spec[p] /\ l = Len(o.toks[p]) /\ h = eng[q].hold
    OBVIOUS
  <2>2. s \in Nat /\ l \in Nat /\ l >= 1 /\ h \in Int /\ (mode.async => l <= s + 1)
    BY <1>2, <1>3, <1>8, <1>9, <2>1 DEF Listed
  <2>3. g = l /\ Held(o, q) = 1 + s /\ Rejects(o, q) = s + 1 - l
    BY <1>6, <1>9, <2>1 DEF g
  <2>4. Valid(o, p) # <<>>
    <3>1. Len(Valid(o, p)) # 0
      BY <1>5, <2>2, <2>3
    <3> QED BY <3>1, ListedLiterals
  <2>5. Rejected(o, p) = IF s > 0 THEN s + 1 - l ELSE 0
    BY <1>5, <2>1, <2>3, <2>4 DEF Rejected
  <2>6. mode.async => Rejected(o, p) = s + 1 - l
    <3>1. CASE s > 0
      BY <2>5, <3>1
    <3>2. CASE ~ (s > 0)
      BY <2>2, <2>5, <3>2
    <3> QED BY <3>1, <3>2
  <2>7. mode.async /\ h >= 1 + s /\ t.st # "done" => t.hold = h - (1 + s)
    <3> SUFFICES ASSUME mode.async, h >= 1 + s, t.st # "done" PROVE t.hold = h - (1 + s)
      OBVIOUS
    <3>1. t.hold = IF h > 0 THEN h - (s + 1 - l) - l ELSE h
      BY <1>7, <2>1, <2>3, <2>6
    <3> QED BY <2>2, <3>1
  <2>8. l = (1 + s) - (s + 1 - l)
    BY <2>2
  <2>9. h = 0 /\ t.st # "done" => t.hold = 0
    BY <1>7, <2>1
  <2>10. g = Held(o, q) - Rejects(o, q)
    BY <2>3, <2>8
  <2>11. mode.async /\ eng[q].hold >= Held(o, q) /\ t.st # "done" => t.hold = eng[q].hold - Held(o, q)
    BY <2>1, <2>3, <2>7
  <2> QED BY <1>7, <2>1, <2>9, <2>10, <2>11 DEF t, g, p
<1>10. CASE ~ Samples(o, q)
  <2>1. Valid(o, p) = <<>> /\ g = 0 /\ Held(o, q) = 0 /\ Rejects(o, q) = 0 /\ Rejected(o, p) = 0
    BY <1>4, <1>6, <1>10 DEF g, Rejected
  <2>2. t.st # "done" => t.hold = eng[q].hold
    BY <1>7, <1>8, <2>1
  <2>3. t.st # "done" => t.hold = eng[q].hold - Held(o, q)
    BY <1>8, <2>1, <2>2
  <2>4. g = Held(o, q) - Rejects(o, q)
    BY <2>1
  <2>5. t.st # "done" /\ eng[q].hold = 0 => t.hold = 0
    BY <2>2
  <2> QED BY <1>7, <2>3, <2>4, <2>5 DEF t, g, p
<1> QED BY <1>9, <1>10

LEMMA TakeCounts ==
  ASSUME Pipeline, CInv, TakeOutput
  PROVE  CInv'
<1> DEFINE o == outputs[1]
           n == Len(outputs)
           takes(q) == Live(q) /\ Within(q, o.rows)
<1>1. /\ outputs # <<>> /\ outputs' = Tail(outputs)
      /\ DOMAIN outputs = 1..n /\ n \in Nat \ {0} /\ Head(outputs) = o
      /\ Len(outputs') = n - 1 /\ DOMAIN outputs' = 1..(n - 1)
      /\ \A i \in 1..(n - 1) : outputs'[i] = outputs[i + 1]
  <2>1. PICK T : outputs \in Seq(T)
    BY DEF Pipeline, Shaped
  <2>2. outputs # <<>> /\ outputs' = Tail(outputs)
    BY DEF TakeOutput
  <2> QED BY <2>1, <2>2, TailShape
<1>2. /\ o.ready
      /\ mode.async => n = 2 \/ outputs[n].rows = <<>> \/ ~ HasRequests
      /\ UNCHANGED <<mode, req, rows, prev, buf, ems, queue, gpu, counts, copying>>
  <2>1. Last(outputs) = outputs[n]
    BY DEF Last
  <2> QED BY <1>1, <2>1 DEF TakeOutput
<1>3. /\ InRows(o.rows) /\ 1 \in DOMAIN outputs
      /\ \A q : Contains(o.rows, q) <=> Within(q, o.rows)
  <2>1. 1 \in DOMAIN outputs
    BY <1>1
  <2> QED BY <2>1, PlaceOfRow DEF CInv, OutTyped
<1>4. \A q \in Reqs : eng[q].st # "done" /\ Contains(o.rows, q) <=> takes(q)
  <2>1. \A q \in Reqs : eng[q].st = "new" => ~ Within(q, o.rows)
    BY <1>3 DEF CInv, Lives
  <2> QED BY <1>3, <2>1 DEF CInv, EngTyped, Live
<1>5. /\ eng' = [q \in Reqs |-> IF takes(q) THEN Took(q, o, PlaceIn(o.rows, q)) ELSE eng[q]]
      /\ told' = told \cup {q \in Reqs : takes(q) /\ eng'[q].st = "done"}
  <2>1. /\ eng' = [q \in Reqs |-> IF q \in {r \in Reqs : eng[r].st # "done" /\ Contains(o.rows, r)}
                                   THEN Took(q, o, PlaceIn(o.rows, q)) ELSE eng[q]]
        /\ told' = told \cup {q \in {r \in Reqs : eng[r].st # "done" /\ Contains(o.rows, r)} :
                                eng'[q].st = "done"}
    BY <1>1 DEF TakeOutput, PlaceIn
  <2> QED BY <1>4, <2>1
<1>6. ASSUME NEW q \in Reqs
      PROVE  /\ DOMAIN eng'[q] = EngFields /\ eng'[q].computed \in Int /\ eng'[q].hold \in Int
             /\ Listed(eng'[q].outs) /\ Listed(eng'[q].specs)
             /\ eng'[q].st = eng[q].st \/ (eng'[q].st = "done" /\ takes(q))
             /\ mode.async => eng'[q].specs \in {eng[q].specs, <<>>}
             /\ ~ takes(q) => eng'[q] = eng[q]
             /\ Live(q)' => Live(q) /\ Len(eng'[q].outs) < mode.most[q]
             /\ Live(q)' /\ takes(q) =>
                  /\ Len(eng'[q].outs) = Len(eng[q].outs)
                       + (IF Samples(o, q) THEN Len(o.toks[PlaceIn(o.rows, q)]) ELSE 0)
                  /\ eng[q].hold = 0 => eng'[q].hold = 0
                  /\ mode.async /\ eng[q].hold >= Held(o, q) => eng'[q].hold = eng[q].hold - Held(o, q)
                  /\ (IF Samples(o, q) THEN Len(o.toks[PlaceIn(o.rows, q)]) ELSE 0)
                       = Held(o, q) - Rejects(o, q)
  <2>1. CASE takes(q)
    <3>1. eng'[q] = Took(q, o, PlaceIn(o.rows, q))
      BY <1>5, <2>1
    <3>2. Live(q)' => eng'[q].st # "done"
      BY DEF Live
    <3>3. Live(q) /\ Within(q, o.rows)
      BY <2>1
    <3> DEFINE t == Took(q, o, PlaceIn(o.rows, q))
               g == IF Samples(o, q) THEN Len(o.toks[PlaceIn(o.rows, q)]) ELSE 0
    <3>4. /\ DOMAIN t = EngFields /\ t.computed \in Int /\ t.hold \in Int
          /\ Listed(t.outs) /\ Listed(t.specs) /\ t.st \in {eng[q].st, "done"}
          /\ mode.async => t.specs \in {eng[q].specs, <<>>}
          /\ t.st # "done" => /\ Len(t.outs) = Len(eng[q].outs) + g
                              /\ Len(t.outs) < mode.most[q]
                              /\ eng[q].hold = 0 => t.hold = 0
                              /\ mode.async /\ eng[q].hold >= Held(o, q) =>
                                   t.hold = eng[q].hold - Held(o, q)
                              /\ g = Held(o, q) - Rejects(o, q)
      BY <1>1, <1>2, <1>3, <3>3, TakerShape
    <3> QED BY <2>1, <3>1, <3>2, <3>3, <3>4
  <2>2. CASE ~ takes(q)
    <3>1. eng'[q] = eng[q]
      BY <1>5, <2>2
    <3>2. Live(q)' => Live(q)
      BY <3>1 DEF Live
    <3> QED BY <2>2, <3>1, <3>2 DEF CInv, EngTyped
  <2> QED BY <2>1, <2>2
<1>7. eng' = [q \in Reqs |-> eng'[q]]
  BY <1>5
<1>8. EngTyped'
  <2> SUFFICES ASSUME NEW q \in Reqs
               PROVE  /\ eng'[q].st \in {"new", "running", "preempted", "done"}
                      /\ eng'[q].st = "new" => eng'[q].outs = <<>> /\ eng'[q].hold = 0
    BY <1>2, <1>6, <1>7 DEF EngTyped
  <2>1. eng[q].st \in {"new", "running", "preempted", "done"}
    BY DEF CInv, EngTyped
  <2>2. eng'[q].st = "new" => eng'[q] = eng[q]
    BY <1>6 DEF Live
  <2> QED BY <1>6, <2>1, <2>2 DEF CInv, EngTyped
<1>9. ReqTyped' /\ Batch'
  <2>1. Batch'
    <3>1. mode.async /\ mode.spec = 0 => \A q \in Reqs : eng'[q].specs = <<>>
      BY <1>6 DEF CInv, Batch
    <3> QED BY <1>2, <3>1 DEF CInv, Batch
  <2> QED BY <1>2, <2>1 DEF CInv, ReqTyped
<1>10. Lives'
  <2> SUFFICES ASSUME NEW q \in Reqs
               PROVE  /\ Live(q)' => q \notin told' /\ req[q].known
                      /\ req[q].known => Live(q)' \/ q \in told'
                      /\ Within(q, rows) => q \in told' \/ eng'[q].st = "running"
                      /\ eng'[q].st = "new" => /\ ~ Within(q, ems.rows)
                                               /\ \A j \in DOMAIN outputs' : ~ Within(q, outputs'[j].rows)
    BY <1>2 DEF Lives
  <2>1. /\ Live(q) => q \notin told /\ req[q].known
        /\ req[q].known => Live(q) \/ q \in told
        /\ Within(q, rows) => q \in told \/ eng[q].st = "running"
        /\ eng[q].st = "new" => /\ ~ Within(q, ems.rows)
                                /\ \A j \in DOMAIN outputs : ~ Within(q, outputs[j].rows)
    BY DEF CInv, Lives
  <2>2. Live(q)' <=> Live(q) /\ ~ (takes(q) /\ eng'[q].st = "done")
    BY <1>6 DEF Live
  <2>3. eng[q].st # "done" => eng[q].st = eng'[q].st \/ q \in told'
    BY <1>5, <1>6
  <2>4. eng'[q].st = "new" => eng[q].st = "new"
    BY <1>6
  <2>5. \A j \in DOMAIN outputs' : \E i \in DOMAIN outputs : outputs'[j] = outputs[i]
    BY <1>1
  <2>6. q \in told' <=> q \in told \/ (takes(q) /\ eng'[q].st = "done")
    BY <1>5
  <2> HIDE DEF takes
  <2>7. Live(q)' => q \notin told' /\ req[q].known
    BY <2>1, <2>2, <2>6
  <2>8. req[q].known => Live(q)' \/ q \in told'
    BY <2>1, <2>2, <2>6
  <2>9. Within(q, rows) => q \in told' \/ eng'[q].st = "running"
    BY <2>1, <2>3, <2>6
  <2> QED BY <2>1, <2>4, <2>5, <2>7, <2>8, <2>9
<1>11. OutTyped'
  <2>1. \A j \in DOMAIN outputs' : /\ j + 1 \in DOMAIN outputs /\ outputs'[j] = outputs[j + 1]
                                   /\ j + 1 = Len(outputs) => j = Len(outputs')
    BY <1>1
  <2> QED BY <1>2, <2>1 DEF CInv, OutTyped
<1>12. n > 1 => outputs' # <<>> /\ outputs'[Len(outputs')] = outputs[n]
  <2> SUFFICES ASSUME n > 1 PROVE outputs' # <<>> /\ outputs'[Len(outputs')] = outputs[n]
    OBVIOUS
  <2>1. n - 1 \in 1..(n - 1) /\ (n - 1) + 1 = n
    BY <1>1
  <2>2. Len(outputs') # 0
    BY <1>1, <2>1
  <2>3. outputs'[n - 1] = outputs[n]
    BY <1>1, <2>1
  <2> QED BY <1>1, <2>2, <2>3
<1>13. mode.async /\ n = 1 /\ ems = NoStep => \A q \in Reqs : ~ (Live(q) /\ Within(q, rows))
  <2> SUFFICES ASSUME mode.async, n = 1, ems = NoStep, NEW q \in Reqs, Live(q), Within(q, rows)
               PROVE  FALSE
    OBVIOUS
  <2>1. HasRequests
    BY DEF HasRequests, Live
  <2>2. outputs[n].rows = rows
    BY <1>1 DEF CInv, LastStep
  <2>3. rows = <<>>
    BY <1>2, <2>1, <2>2
  <2> QED BY <2>3 DEF Within
<1>16. \A i \in DOMAIN rows : rows[i] \in Reqs
  BY DEF CInv, Batch, InRows
<1>14. LastStep'
  <2> SUFFICES ASSUME ems = NoStep
               PROVE  /\ outputs' # <<>> => outputs'[Len(outputs')].rows = rows
                      /\ mode.async => \A i \in DOMAIN rows : Live(rows[i]) => outputs' # <<>>
    <3>1. \A i \in DOMAIN rows : Live(rows[i])' => Live(rows[i])
      BY <1>2, <1>6, <1>16
    <3>2. outputs' # <<>> => outputs'[Len(outputs')] = outputs[Len(outputs)]
      <4>1. n = 1 => outputs' = <<>>
        <5>1. n = 1 => Len(outputs') = 0
          BY <1>1
        <5>2. PICK T : outputs \in Seq(T)
          BY DEF Pipeline, Shaped
        <5>3. outputs' \in Seq(T)
          BY <1>1, <5>2, TailShape
        <5> QED BY <5>1, <5>3, EmptySeq
      <4> QED BY <1>1, <1>12, <4>1
    <3> QED BY <1>1, <1>2, <3>1, <3>2 DEF CInv, LastStep
  <2>1. ASSUME outputs' # <<>> PROVE outputs'[Len(outputs')].rows = rows
    <3>1. n > 1
      <4>1. PICK T : outputs \in Seq(T)
        BY DEF Pipeline, Shaped
      <4>2. outputs' \in Seq(T)
        BY <1>1, <4>1, TailShape
      <4>3. Len(outputs') # 0
        BY <2>1, <4>2, EmptySeq
      <4> QED BY <1>1, <4>3
    <3> QED BY <1>1, <1>12, <3>1 DEF CInv, LastStep
  <2>2. ASSUME mode.async, NEW i \in DOMAIN rows, Live(rows[i]) PROVE outputs' # <<>>
    <3>1. rows[i] \in Reqs /\ Within(rows[i], rows)
      BY PlaceOfRow DEF CInv, Batch, InRows
    <3>2. n # 1
      BY <1>13, <2>2, <3>1
    <3> QED BY <1>1, <1>12, <3>2
  <2> QED BY <2>1, <2>2
<1>15. ThisStep'
  <2>1. \A i \in DOMAIN rows : Live(rows[i])' => Live(rows[i])
    BY <1>2, <1>6, <1>16
  <2> QED BY <1>2, <2>1 DEF CInv, ThisStep
<1>17. mode.async =>
        /\ n \in 1..2 /\ (Executing => n = 1) /\ (~ Executing => ems = NoStep)
  BY <1>1 DEF Pipeline, Async, Executing, Empty, In, Sa, InSa, SaIn, SaInSa
<1>18. AsyncCounts'
  <2> SUFFICES ASSUME mode.async, NEW q \in Reqs, Live(q)'
               PROVE  LET a == Len(eng'[q].outs) + eng'[q].hold
                          d == IF Executing THEN InStep(q) ELSE Len(req[q].draft)
                      IN  /\ eng'[q].hold = HeldOut(q)' + InStep(q)
                          /\ Within(q, rows) => a = Len(req[q].out) + Earlier(q)' + d
                          /\ ~ Within(q, rows) => a >= Len(req[q].out) + AllRejects(q)'
    <3>1. \A q \in Reqs : InStep(q)' = InStep(q) /\ Executing' = Executing
      BY <1>2 DEF InStep, Executing
    <3> QED BY <1>2, <3>1 DEF AsyncCounts
  <2>1. PICK h, r : h = Held(o, q) /\ r = Rejects(o, q)
    OBVIOUS
  <2>2. PICK x, y : /\ x = (IF n = 2 THEN Held(outputs[2], q) ELSE 0)
                    /\ y = (IF n = 2 THEN Rejects(outputs[2], q) ELSE 0)
    OBVIOUS
  <2>3. h \in Nat /\ r \in Int
    BY <1>3, <2>1, HeldTyped
  <2>4. x \in Nat /\ y \in Int
    <3>1. n = 2 => 2 \in DOMAIN outputs
      BY <1>1
    <3> QED BY <2>2, <3>1, HeldTyped
  <2>5. /\ HeldOut(q) = h + x /\ AllRejects(q) = r + y
        /\ Earlier(q) = IF n = (IF Executing THEN 1 ELSE 2) THEN r ELSE 0
    BY <1>17, <2>1, <2>2 DEF HeldOut, AllRejects, Earlier
  <2>6. HeldOut(q)' = x /\ AllRejects(q)' = y
    <3>1. CASE n = 1
      <4>1. Len(outputs') = 0
        BY <1>1, <3>1
      <4> QED BY <2>2, <3>1, <4>1 DEF HeldOut, AllRejects
    <3>2. CASE n = 2
      <4>1. Len(outputs') = 1 /\ outputs'[1] = outputs[2]
        BY <1>1, <3>2
      <4>2. x + 0 = x /\ y + 0 = y
        BY <2>4
      <4> QED BY <2>2, <3>2, <4>1, <4>2 DEF HeldOut, AllRejects
    <3> QED BY <1>17, <3>1, <3>2
  <2>7. Earlier(q)' = 0
    <3>1. Executing' = Executing
      BY <1>2 DEF Executing
    <3>2. Len(outputs') # (IF Executing THEN 1 ELSE 2)
      <4>1. (Executing => n - 1 = 0) /\ (~ Executing => n - 1 \in 0..1)
        BY <1>17
      <4>2. Len(outputs') = n - 1
        BY <1>1
      <4>3. CASE Executing
        <5>1. Len(outputs') = 0
          BY <4>1, <4>2, <4>3
        <5> QED BY <4>3, <5>1
      <4>4. CASE ~ Executing
        <5>1. Len(outputs') \in 0..1
          BY <4>1, <4>2, <4>4
        <5>2. Len(outputs') # 2
          BY <5>1
        <5> QED BY <4>4, <5>2
      <4> QED BY <4>3, <4>4
    <3> QED BY <3>1, <3>2 DEF Earlier
  <2>8. PICK a, e, k, d, s : /\ a = Len(eng[q].outs) /\ e = eng[q].hold /\ k = Len(req[q].out)
                             /\ s = InStep(q) /\ d = IF Executing THEN InStep(q) ELSE Len(req[q].draft)
    OBVIOUS
  <2>9. a \in Nat /\ e \in Int /\ k \in Nat /\ s \in Nat /\ d \in Nat
    <3>1. Listed(eng[q].outs) /\ Listed(req[q].out) /\ Listed(req[q].draft) /\ eng[q].hold \in Int
      BY DEF CInv, EngTyped, ReqTyped
    <3>2. Len(req[q].draft) \in Nat
      BY <3>1 DEF Listed
    <3>3. InStep(q) \in Nat
      BY <3>2 DEF InStep
    <3> QED BY <2>8, <3>1, <3>2, <3>3 DEF Listed
  <2>10. Live(q)
    BY <1>6
  <2>11. /\ e = h + x + s
         /\ Within(q, rows) => a + e = k + Earlier(q) + d
         /\ ~ Within(q, rows) => a + e >= k + (r + y)
    BY <2>5, <2>8, <2>10 DEF CInv, AsyncCounts
  <2>12. Within(q, rows) => Earlier(q) = r
    <3>1. ~ Executing /\ Within(q, rows) => n # 1
      BY <1>13, <1>17, <2>10
    <3> QED BY <1>17, <2>5, <3>1
  <2>13. Len(eng'[q].outs) = a + h - r /\ eng'[q].hold = e - h
    <3>1. CASE takes(q)
      <4>1. e >= h
        BY <2>3, <2>4, <2>9, <2>11
      <4>2. eng'[q].hold = e - h /\ Len(eng'[q].outs) = a + (h - r)
        BY <1>6, <2>1, <2>8, <3>1, <4>1
      <4> QED BY <2>3, <2>9, <4>2
    <3>2. CASE ~ takes(q)
      <4>1. ~ Within(q, o.rows)
        BY <2>10, <3>2
      <4>2. h = 0 /\ r = 0
        BY <2>1, <4>1 DEF Held, Rejects, Samples
      <4>3. eng'[q] = eng[q]
        BY <1>6, <3>2
      <4> QED BY <2>3, <2>8, <2>9, <4>2, <4>3
    <3> QED BY <3>1, <3>2
  <2> HIDE DEF n, o, takes
  <2>14. eng'[q].hold = x + s
    BY <2>3, <2>4, <2>9, <2>11, <2>13
  <2>15. Len(eng'[q].outs) + eng'[q].hold = a + e - r
    BY <2>3, <2>9, <2>13
  <2>16. Within(q, rows) => Len(eng'[q].outs) + eng'[q].hold = k + 0 + d
    BY <2>3, <2>9, <2>11, <2>12, <2>15
  <2>17. ~ Within(q, rows) => Len(eng'[q].outs) + eng'[q].hold >= k + y
    BY <2>3, <2>4, <2>9, <2>11, <2>15
  <2> QED BY <2>6, <2>7, <2>8, <2>14, <2>16, <2>17
<1>19. SyncCounts'
  <2> SUFFICES ASSUME ~ mode.async
               PROVE  /\ Len(outputs') <= 1 /\ (outputs' # <<>> => ems = NoStep)
                      /\ \A q \in Reqs : Live(q)' =>
                           /\ eng'[q].hold = 0
                           /\ Len(req[q].out) = Len(eng'[q].outs) +
                                (IF Len(outputs') = 1 /\ Samples(outputs'[1], q)
                                   THEN Len(outputs'[1].toks[PlaceIn(outputs'[1].rows, q)]) ELSE 0)
                      /\ ems.phase = "sampling" /\ queue = <<>> =>
                           \A i \in DOMAIN rows : /\ Listed(gpu.toks[i]) /\ Len(gpu.toks[i]) >= 1
                                                   /\ Listed(gpu.drafts[i])
    BY <1>2 DEF SyncCounts
  <2>1. n = 1 /\ ems = NoStep /\ Len(outputs') = 0
    <3>1. n <= 1 /\ ems = NoStep
      BY <1>1 DEF CInv, SyncCounts
    <3>2. n = 1
      BY <1>1, <3>1
    <3> QED BY <1>1, <3>1, <3>2
  <2>2. ASSUME NEW q \in Reqs, Live(q)'
        PROVE  eng'[q].hold = 0 /\ Len(req[q].out) = Len(eng'[q].outs)
    <3>1. Live(q)
      BY <1>6, <2>2
    <3>2. eng[q].hold = 0 /\ Len(req[q].out) = Len(eng[q].outs) +
            (IF Samples(o, q) THEN Len(o.toks[PlaceIn(o.rows, q)]) ELSE 0)
      BY <2>1, <3>1 DEF CInv, SyncCounts
    <3>3. CASE takes(q)
      BY <1>6, <2>2, <3>2, <3>3
    <3>4. CASE ~ takes(q)
      <4>1. ~ Samples(o, q)
        BY <3>1, <3>4 DEF Samples
      <4>2. Len(eng[q].outs) + 0 = Len(eng[q].outs)
        BY DEF CInv, EngTyped, Listed
      <4> QED BY <1>6, <3>2, <3>4, <4>1, <4>2
    <3> QED BY <3>3, <3>4
  <2>3. ASSUME NEW q \in Reqs PROVE Len(eng'[q].outs) + 0 = Len(eng'[q].outs)
    BY <1>6 DEF Listed
  <2>4. NoStep.phase # "sampling"
    BY DEF NoStep
  <2> QED BY <2>1, <2>2, <2>3, <2>4
<1> QED BY <1>8, <1>9, <1>10, <1>11, <1>14, <1>15, <1>18, <1>19 DEF CInv

-----------------------------------------------------------------------------
(* execute_model.  A request whose row is kept: the last step's output is the  *)
(* only one, and its rejected drafts are those _update_states takes back.      *)
Ready == /\ ems = NoStep /\ Synchronized
         /\ Len(outputs) < (IF mode.async THEN 2 ELSE 1)

LEMMA OneOutput ==
  ASSUME Pipeline, CInv, Ready
  PROVE  /\ Len(outputs) \in 0..1 /\ DOMAIN outputs = 1..Len(outputs)
         /\ outputs = <<>> <=> Len(outputs) = 0
         /\ ~ mode.async => outputs = <<>>
         /\ Len(outputs) = 1 => outputs[1].rows = rows
         /\ ~ Executing /\ \A q : InStep(q) = 0
<1>1. PICK T : outputs \in Seq(T)
  BY DEF Pipeline, Shaped
<1>2. Len(outputs) \in Nat /\ DOMAIN outputs = 1..Len(outputs) /\ (outputs = <<>> <=> Len(outputs) = 0)
  BY <1>1, LenProperties, EmptySeq
<1>3. Len(outputs) < 2 /\ (~ mode.async => Len(outputs) < 1)
  BY <1>2 DEF Ready
<1>4. Len(outputs) \in 0..1 /\ (~ mode.async => outputs = <<>>)
  BY <1>2, <1>3
<1>5. Len(outputs) = 1 => outputs[1].rows = rows
  BY <1>2 DEF CInv, LastStep, Ready
<1>6. ~ Executing
  BY DEF Ready, Executing, NoStep
<1> QED BY <1>2, <1>4, <1>5, <1>6 DEF InStep

LEMMA KeptAsync ==
  ASSUME Pipeline, CInv, Ready, mode.async, NEW q \in Reqs, Live(q), Within(q, rows)
  PROVE  /\ AllRejects(q) \in 0..Len(req[q].draft)
         /\ Len(eng[q].outs) + eng[q].hold = Len(req[q].out) + Len(req[q].draft)
         /\ req[q].draft # <<>> =>
              /\ prev.set /\ q \in DOMAIN prev.idx
              /\ Accepted(q) \in 0..Len(req[q].draft)
              /\ AllRejects(q) = Len(req[q].draft) - Accepted(q)
<1> DEFINE o == outputs[1]
           p == PlaceIn(rows, q)
<1>1. p \in DOMAIN rows /\ rows[p] = q
  BY PlaceOfRow DEF CInv, Batch
<1>2. /\ outputs # <<>>
      /\ LET x == outputs[Len(outputs)] IN
           /\ x.spec[p] = Len(req[q].draft)
           /\ p \in x.invalid => req[q].draft = <<>>
           /\ p \notin x.invalid => prev.set /\ q \in DOMAIN prev.idx /\ prev.idx[q] = p
           /\ x.ready /\ p \notin x.invalid /\ mode.spec > 0 =>
                Len(x.toks[p]) = IF copying THEN gpu.count[p] ELSE counts[p]
  BY <1>1 DEF CInv, LastStep, Ready
<1>3. Len(outputs) = 1 /\ 1 \in DOMAIN outputs /\ o.rows = rows
  <2>1. Len(outputs) = 1 /\ o.rows = rows
    BY <1>2, OneOutput
  <2> QED BY <2>1, OneOutput
<1>4. Listed(req[q].draft) /\ Len(req[q].draft) \in Nat /\ Len(req[q].out) \in Nat
  BY DEF CInv, ReqTyped, Listed
<1>5. Len(eng[q].outs) + eng[q].hold = Len(req[q].out) + Len(req[q].draft)
  <2>1. Len(eng[q].outs) + eng[q].hold = Len(req[q].out) + Earlier(q) + Len(req[q].draft)
    BY OneOutput DEF CInv, AsyncCounts
  <2>2. Earlier(q) = 0
    BY <1>3, OneOutput DEF Earlier
  <2>3. Len(req[q].out) + 0 = Len(req[q].out)
    BY <1>4
  <2> QED BY <2>1, <2>2, <2>3
<1>6. Samples(o, q) <=> p \notin o.invalid
  BY <1>3 DEF Samples
<1>7. AllRejects(q) = IF p \notin o.invalid /\ o.ready THEN o.spec[p] + 1 - Len(o.toks[p]) ELSE 0
  <2>1. Rejects(o, q) = IF p \notin o.invalid /\ o.ready THEN o.spec[p] + 1 - Len(o.toks[p]) ELSE 0
    BY <1>3, <1>6 DEF Rejects
  <2>2. Rejects(o, q) \in Int
    BY <1>3, HeldTyped
  <2> QED BY <1>3, <2>1, <2>2 DEF AllRejects
<1>8. /\ o.ready /\ p \notin o.invalid => Listed(o.toks[p]) /\ Len(o.toks[p]) >= 1
                                          /\ Len(o.toks[p]) <= o.spec[p] + 1
      /\ mode.spec = 0 => o.spec[p] = 0
      /\ ~ o.ready /\ mode.spec > 0 => copying
  BY <1>1, <1>3 DEF CInv, OutTyped
<1>9. /\ o.spec[p] = Len(req[q].draft)
      /\ p \in o.invalid => req[q].draft = <<>>
      /\ p \notin o.invalid => prev.set /\ q \in DOMAIN prev.idx /\ prev.idx[q] = p
      /\ o.ready /\ p \notin o.invalid /\ mode.spec > 0 =>
           Len(o.toks[p]) = IF copying THEN gpu.count[p] ELSE counts[p]
  BY <1>2, <1>3
<1> HIDE DEF o, p
<1>10. AllRejects(q) \in 0..Len(req[q].draft)
  <2>1. CASE p \notin o.invalid /\ o.ready
    <3>1. PICK l, d : l = Len(o.toks[p]) /\ d = Len(req[q].draft)
      OBVIOUS
    <3>2. l \in Nat /\ d \in Nat /\ l >= 1 /\ l <= d + 1
      BY <1>4, <1>8, <1>9, <2>1, <3>1 DEF Listed
    <3>3. AllRejects(q) = d + 1 - l
      BY <1>7, <1>9, <2>1, <3>1
    <3>4. d + 1 - l \in 0..d
      BY <3>2
    <3> QED BY <3>1, <3>3, <3>4
  <2>2. CASE ~ (p \notin o.invalid /\ o.ready)
    <3>1. AllRejects(q) = 0
      BY <1>7, <2>2
    <3> QED BY <1>4, <3>1
  <2> QED BY <2>1, <2>2
<1>11. ASSUME req[q].draft # <<>>
       PROVE  /\ prev.set /\ q \in DOMAIN prev.idx
              /\ Accepted(q) \in 0..Len(req[q].draft)
              /\ AllRejects(q) = Len(req[q].draft) - Accepted(q)
  <2>1. p \notin o.invalid /\ prev.set /\ q \in DOMAIN prev.idx /\ prev.idx[q] = p
    BY <1>9, <1>11
  <2>2. Len(req[q].draft) # 0
    <3>1. \E T : req[q].draft \in Seq(T)
      BY <1>4, ListedIsSeq
    <3> QED BY <1>11, <3>1, EmptySeq
  <2>3. mode.spec > 0
    <3>1. mode.spec # 0
      BY <1>8, <1>9, <2>2
    <3>2. mode.spec \in Nat
      BY DEF CInv, Batch
    <3> QED BY <3>1, <3>2
  <2>4. ~ copying
    BY <2>1, <2>3 DEF Ready, Synchronized
  <2>5. o.ready
    BY <1>8, <2>3, <2>4
  <2>6. Len(o.toks[p]) = counts[p]
    BY <1>9, <2>1, <2>3, <2>4, <2>5
  <2>7. Accepted(q) = Len(o.toks[p]) - 1
    BY <2>1, <2>6 DEF Accepted
  <2>8. PICK l, d : l = Len(o.toks[p]) /\ d = Len(req[q].draft)
    OBVIOUS
  <2>9. l \in Nat /\ d \in Nat /\ l >= 1 /\ l <= d + 1
    BY <1>4, <1>8, <1>9, <2>1, <2>5, <2>8 DEF Listed
  <2>10. AllRejects(q) = d + 1 - l
    BY <1>7, <1>9, <2>1, <2>5, <2>8
  <2>11. l - 1 \in 0..d /\ d + 1 - l = d - (l - 1)
    BY <2>9
  <2> QED BY <2>1, <2>7, <2>8, <2>10, <2>11
<1> QED BY <1>5, <1>10, <1>11

(* One that is not in the batch: nothing of it is under way.                   *)
LEMMA AwayAsync ==
  ASSUME Pipeline, CInv, Ready, mode.async, NEW q \in Reqs, Live(q), ~ Within(q, rows)
  PROVE  eng[q].hold = 0 /\ AllRejects(q) = 0 /\ Len(eng[q].outs) >= Len(req[q].out)
<1>1. HeldOut(q) = 0 /\ AllRejects(q) = 0
  <2>1. CASE Len(outputs) = 0
    BY <2>1 DEF HeldOut, AllRejects
  <2>2. CASE Len(outputs) = 1
    <3>1. ~ Samples(outputs[1], q)
      BY <2>2, OneOutput DEF Samples
    <3>2. Held(outputs[1], q) = 0 /\ Rejects(outputs[1], q) = 0
      BY <3>1 DEF Held, Rejects
    <3> QED BY <2>2, <3>2 DEF HeldOut, AllRejects
  <2> QED BY <2>1, <2>2, OneOutput
<1>2. eng[q].hold = HeldOut(q) + InStep(q)
      /\ Len(eng[q].outs) + eng[q].hold >= Len(req[q].out) + AllRejects(q)
  BY DEF CInv, AsyncCounts
<1>3. eng[q].hold = 0
  BY <1>1, <1>2, OneOutput
<1>4. Len(eng[q].outs) + 0 >= Len(req[q].out) + 0
  BY <1>1, <1>2, <1>3
<1>5. Len(eng[q].outs) \in Nat /\ Len(req[q].out) \in Nat
  BY DEF CInv, EngTyped, ReqTyped, Listed
<1> QED BY <1>1, <1>3, <1>4, <1>5

LEMMA NewCounts ==
  ASSUME Pipeline, CInv, Ready, NEW q \in Reqs, eng[q].st = "new"
  PROVE  /\ eng[q].outs = <<>> /\ eng[q].hold = 0 /\ AllRejects(q) = 0 /\ HeldOut(q) = 0
<1>1. eng[q].outs = <<>> /\ eng[q].hold = 0
  BY DEF CInv, EngTyped
<1>2. \A j \in DOMAIN outputs : Held(outputs[j], q) = 0 /\ Rejects(outputs[j], q) = 0
  BY DEF CInv, Lives, Held, Rejects, Samples
<1>3. Len(outputs) >= 1 => Held(outputs[1], q) = 0 /\ Rejects(outputs[1], q) = 0
  BY <1>2, OneOutput
<1>4. Len(outputs) # 2
  BY OneOutput
<1> QED BY <1>1, <1>3, <1>4 DEF AllRejects, HeldOut

LEMMA SpecsShape ==
  ASSUME CInv, NEW q \in Reqs, NEW k \in Nat, k <= NumNew(q), prompt[q] \in Nat
  PROVE  /\ Listed(Specs(q, k)) /\ Len(Specs(q, k)) \in Nat
         /\ eng[q].computed + k < NumTokens(q) + eng[q].hold => Specs(q, k) = <<>>
         /\ eng[q].specs = <<>> => Specs(q, k) = <<>>
<1> DEFINE d == k + eng[q].computed - NumTokens(q) - eng[q].hold
<1>1. /\ Listed(eng[q].specs) /\ Len(eng[q].specs) \in Nat /\ NumTokens(q) \in Nat
      /\ eng[q].computed \in Int /\ eng[q].hold \in Int
  <2>1. Listed(eng[q].specs) /\ eng[q].computed \in Int /\ eng[q].hold \in Int /\ Listed(eng[q].outs)
    BY DEF CInv, EngTyped
  <2>2. Len(eng[q].specs) \in Nat /\ Len(eng[q].outs) \in Nat
    BY <2>1 DEF Listed
  <2> QED BY <2>1, <2>2 DEF NumTokens
<1>2. d \in Int /\ d <= Len(eng[q].specs)
  <2>1. PICK t, s, h, c : /\ t = NumTokens(q) /\ s = Len(eng[q].specs)
                          /\ h = eng[q].hold /\ c = eng[q].computed
    OBVIOUS
  <2>2. t \in Nat /\ s \in Nat /\ h \in Int /\ c \in Int /\ k <= t + s + h - c
    BY <1>1, <2>1 DEF NumNew
  <2>3. k + c - t - h \in Int /\ k + c - t - h <= s
    BY <2>2
  <2> QED BY <2>1, <2>3
<1>3. Specs(q, k) = IF d > 0 THEN SubSeq(eng[q].specs, 1, d) ELSE <<>>
  BY DEF Specs
<1>4. eng[q].computed + k < NumTokens(q) + eng[q].hold => ~ (d > 0)
  BY <1>1
<1>5. Len(eng[q].specs) = 0 => ~ (d > 0)
  BY <1>2
<1> HIDE DEF d
<1>6. Listed(Specs(q, k)) /\ Len(Specs(q, k)) \in Nat
  <2>1. CASE d > 0
    <3>1. d \in 0..Len(eng[q].specs)
      BY <1>1, <1>2, <2>1
    <3> QED BY <1>1, <1>3, <2>1, <3>1, ListedFront
  <2>2. CASE ~ (d > 0)
    BY <1>3, <2>2, ListedLiterals
  <2> QED BY <2>1, <2>2
<1> QED BY <1>3, <1>4, <1>5, <1>6, ListedLiterals

(* What _update_states makes of a request that is scheduled: one that stays    *)
(* gets the placeholders of the accepted drafts, one that comes back gets its  *)
(* known tokens, and in both cases as many outputs as the engine counts, less  *)
(* the rejected drafts it has not been told of.                                *)
Scheduled(n, S) == /\ S \subseteq Schedulable /\ n \in [S -> 1..8]
                   /\ \A q \in S : n[q] <= NumNew(q)
Untold(q) == IF mode.async THEN AllRejects(q) ELSE 0
RowShape(n, q) ==
  LET u == Updated(SchedOut(n))[q] IN
  /\ ~ (Corrects(q, SchedOut(n)) /\ (~ prev.set \/ q \notin DOMAIN prev.idx))
  /\ DOMAIN u = ReqFields /\ u.known = TRUE /\ u.computed = eng[q].computed - Untold(q)
  /\ u.draft = Specs(q, n[q]) /\ Listed(u.out)
  /\ Len(u.out) = (Len(eng[q].outs) + eng[q].hold) - Untold(q)
  /\ Live(q) => Len(u.out) >= Len(req[q].out)
  /\ Untold(q) \in Nat

LEMMA SchedOutFields ==
  ASSUME NEW n, NEW q \in DOMAIN n
  PROVE  LET so == SchedOut(n) IN
         /\ DOMAIN so.n = DOMAIN n /\ so.fin = told
         /\ q \in so.fresh <=> eng[q].st = "new"
         /\ q \in so.resumed <=> eng[q].st = "preempted"
         /\ so.computed[q] = eng[q].computed /\ so.numOut[q] = Len(eng[q].outs) + eng[q].hold
         /\ so.specs[q] = Specs(q, n[q]) /\ so.all[q] = Toks(q, 0, prompt[q]) \o eng[q].outs
BY DEF SchedOut

LEMMA FreshRow ==
  ASSUME Pipeline, CInv, Ready, NEW n, NEW S, Scheduled(n, S), NEW q \in S, q \in Reqs,
         eng[q].st = "new"
  PROVE  RowShape(n, q)
<1> DEFINE so == SchedOut(n)
           u == Updated(so)[q]
<1>1. DOMAIN n = S
  BY DEF Scheduled
<1>2. u = AddNew(q, so)
  BY <1>1, SchedOutFields DEF Updated
<1>3. /\ DOMAIN u = ReqFields /\ u.known = TRUE /\ u.computed = eng[q].computed
      /\ u.draft = Specs(q, n[q]) /\ u.out = <<>>
  <2>1. so.computed[q] = eng[q].computed /\ so.specs[q] = Specs(q, n[q])
    BY <1>1, SchedOutFields
  <2> HIDE DEF so
  <2>2. AddNew(q, so) = [known |-> TRUE, computed |-> eng[q].computed, out |-> <<>>,
                         row |-> Toks(q, 0, prompt[q]), draft |-> Specs(q, n[q])]
    BY <2>1 DEF AddNew
  <2> QED BY <1>2, <2>2 DEF ReqFields
<1>4. Untold(q) = 0 /\ eng[q].outs = <<>> /\ eng[q].hold = 0
  BY NewCounts DEF Untold
<1>5. ~ Corrects(q, so)
  BY <1>1, SchedOutFields DEF Corrects, Kept
<1>6. ~ Live(q)
  BY DEF Live
<1>7. eng[q].computed \in Int
  BY DEF CInv, EngTyped
<1> HIDE DEF u, so
<1>8. eng[q].computed - Untold(q) = eng[q].computed
  BY <1>4, <1>7
<1>9. Len(u.out) = (Len(eng[q].outs) + eng[q].hold) - Untold(q)
  BY <1>3, <1>4, ListedLiterals
<1>10. Untold(q) \in Nat
  BY <1>4
<1> QED BY <1>3, <1>5, <1>6, <1>8, <1>9, <1>10, ListedLiterals DEF RowShape, u, so

LEMMA KeptRow ==
  ASSUME Pipeline, CInv, Ready, NEW n, NEW S, Scheduled(n, S), NEW q \in S, q \in Reqs,
         q \in Kept(SchedOut(n))
  PROVE  RowShape(n, q)
<1> DEFINE so == SchedOut(n)
           u == Updated(so)[q]
           a == Len(eng[q].outs) + eng[q].hold
<1>1. DOMAIN n = S
  BY DEF Scheduled
<1>2. /\ eng[q].st # "new" /\ eng[q].st # "preempted" /\ Contains(rows, q) /\ so.fin = told
  BY <1>1, SchedOutFields DEF Kept
<1>3. Live(q) /\ Within(q, rows)
  <2>1. eng[q].st # "done"
    BY DEF Scheduled, Schedulable
  <2>2. Within(q, rows)
    BY <1>2, PlaceOfRow DEF CInv, Batch
  <2> QED BY <1>2, <2>1, <2>2 DEF CInv, EngTyped, Live
<1>4. u = KeepRow(q, so)
  BY <1>1, <1>2, SchedOutFields DEF Updated
<1>5. /\ so.computed[q] = eng[q].computed /\ so.numOut[q] = a /\ so.specs[q] = Specs(q, n[q])
  BY <1>1, SchedOutFields
<1>6. DOMAIN req[q] = ReqFields /\ req[q].known /\ Listed(req[q].out) /\ Listed(req[q].draft)
  BY <1>3 DEF CInv, ReqTyped, Lives
<1>7. req[q].known = TRUE
  BY <1>6 DEF CInv, ReqTyped
<1>8. Corrects(q, so) <=> mode.async /\ req[q].draft # <<>>
  BY DEF Corrects
<1>9. /\ Len(eng[q].outs) \in Nat /\ eng[q].hold \in Int /\ eng[q].computed \in Int
      /\ Len(req[q].out) \in Nat /\ Len(req[q].draft) \in Nat
  BY DEF CInv, EngTyped, ReqTyped, Listed
<1> DEFINE k == IF Corrects(q, so) THEN Accepted(q) ELSE 0
           g == GrownOut(q, so)
<1>10. /\ k \in Nat /\ Untold(q) \in Nat
       /\ CorrectedComputed(q, so) = eng[q].computed - Untold(q)
       /\ Len(req[q].out) + k = a - Untold(q)
       /\ ~ (Corrects(q, so) /\ (~ prev.set \/ q \notin DOMAIN prev.idx))
  <2>1. CASE mode.async
    <3>1. /\ AllRejects(q) \in 0..Len(req[q].draft)
          /\ a = Len(req[q].out) + Len(req[q].draft)
          /\ req[q].draft # <<>> =>
               /\ prev.set /\ q \in DOMAIN prev.idx
               /\ Accepted(q) \in 0..Len(req[q].draft)
               /\ AllRejects(q) = Len(req[q].draft) - Accepted(q)
      BY <1>3, <2>1, KeptAsync
    <3>2. Untold(q) = AllRejects(q)
      BY <2>1 DEF Untold
    <3>3. CASE req[q].draft # <<>>
      <4>1. k = Accepted(q) /\ Untold(q) = Len(req[q].draft) - k
        BY <1>8, <2>1, <3>1, <3>2, <3>3
      <4>2. CorrectedComputed(q, so) = eng[q].computed - Untold(q)
        BY <1>5, <1>8, <2>1, <3>3, <4>1 DEF CorrectedComputed
      <4>3. Len(req[q].out) + k = a - (Len(req[q].draft) - k)
        <5>1. PICK r, d, c : r = Len(req[q].out) /\ d = Len(req[q].draft) /\ c = Accepted(q)
          OBVIOUS
        <5>2. r \in Nat /\ d \in Nat /\ c \in 0..d /\ a = r + d
          BY <1>9, <3>1, <3>3, <5>1
        <5>3. r + c = (r + d) - (d - c)
          BY <5>2
        <5> QED BY <4>1, <5>1, <5>2, <5>3
      <4> QED BY <1>9, <3>1, <3>2, <3>3, <4>1, <4>2, <4>3
    <3>4. CASE req[q].draft = <<>>
      <4>1. k = 0 /\ Untold(q) = 0 /\ a = Len(req[q].out) + 0
        BY <1>8, <3>1, <3>2, <3>4, ListedLiterals
      <4>2. CorrectedComputed(q, so) = eng[q].computed - Untold(q)
        BY <1>5, <1>8, <3>4, <4>1 DEF CorrectedComputed
      <4> QED BY <1>8, <1>9, <3>4, <4>1, <4>2
    <3> QED BY <3>3, <3>4
  <2>2. CASE ~ mode.async
    <3>1. k = 0 /\ Untold(q) = 0
      BY <1>8, <2>2 DEF Untold
    <3>2. outputs = <<>>
      BY <2>2, OneOutput
    <3>3. eng[q].hold = 0 /\ Len(req[q].out) = Len(eng[q].outs) + 0
      BY <1>3, <2>2, <3>2 DEF CInv, SyncCounts
    <3>4. CorrectedComputed(q, so) = eng[q].computed - Untold(q)
      BY <1>5, <1>8, <2>2, <3>1 DEF CorrectedComputed
    <3> QED BY <1>8, <1>9, <2>2, <3>1, <3>3, <3>4
  <2> QED BY <2>1, <2>2
<1>11. Listed(g) /\ Len(g) = Len(req[q].out) + k
  <2>1. g = req[q].out \o (IF Corrects(q, so) THEN Holes(k) ELSE <<>>)
    BY DEF GrownOut
  <2>2. CASE Corrects(q, so)
    <3>1. Listed(Holes(k)) /\ Len(Holes(k)) = k
      BY <1>10, ListedLiterals
    <3> QED BY <1>6, <2>1, <2>2, <3>1, ListedConcat
  <2>3. CASE ~ Corrects(q, so)
    <3>1. Len(<<>>) = k
      BY <2>3, ListedLiterals
    <3> QED BY <1>6, <2>1, <2>3, <3>1, ListedLiterals, ListedConcat
  <2> QED BY <2>2, <2>3
<1> HIDE DEF so, u, k, g, a
<1>12. a \in Int
  BY <1>9 DEF a
<1>13. ~ Truncates(q, so)
  <2>1. ~ (a < Len(g))
    BY <1>9, <1>10, <1>11, <1>12
  <2> QED BY <1>5, <2>1 DEF Truncates, g
<1>14. /\ DOMAIN u = ReqFields /\ u.known = TRUE /\ u.computed = CorrectedComputed(q, so)
       /\ u.draft = Specs(q, n[q]) /\ u.out = SubSeq(g, 1, Len(g))
  BY <1>4, <1>5, <1>6, <1>7, <1>13 DEF KeepRow, ReqFields, g
<1>15. Listed(u.out) /\ Len(u.out) = Len(g)
  <2>1. Len(g) \in 0..Len(g)
    BY <1>9, <1>10, <1>11
  <2> QED BY <1>11, <1>14, <2>1, ListedFront
<1>16. Len(u.out) >= Len(req[q].out)
  BY <1>9, <1>10, <1>11, <1>15
<1>17. Len(u.out) = a - Untold(q)
  BY <1>10, <1>11, <1>15
<1>18. /\ u.computed = eng[q].computed - Untold(q)
       /\ Len(u.out) = (Len(eng[q].outs) + eng[q].hold) - Untold(q)
       /\ ~ (Corrects(q, SchedOut(n)) /\ (~ prev.set \/ q \notin DOMAIN prev.idx))
  <2>1. u.computed = eng[q].computed - Untold(q)
    BY <1>10, <1>14
  <2>2. Len(u.out) = (Len(eng[q].outs) + eng[q].hold) - Untold(q)
    BY <1>17 DEF a
  <2>3. ~ (Corrects(q, SchedOut(n)) /\ (~ prev.set \/ q \notin DOMAIN prev.idx))
    BY <1>10 DEF so
  <2> QED BY <2>1, <2>2, <2>3
<1>19. u = Updated(SchedOut(n))[q]
  BY DEF u, so
<1> QED BY <1>10, <1>14, <1>15, <1>16, <1>18, <1>19 DEF RowShape

LEMMA ReaddRow ==
  ASSUME Pipeline, CInv, Ready, NEW n, NEW S, Scheduled(n, S), NEW q \in S, q \in Reqs,
         q \notin Kept(SchedOut(n)), eng[q].st # "new", prompt[q] \in Nat
  PROVE  RowShape(n, q)
<1> DEFINE so == SchedOut(n)
           u == Updated(so)[q]
           l == Len(eng[q].outs)
<1>1. DOMAIN n = S
  BY DEF Scheduled
<1>2. u = Readd(q, so)
  BY <1>1, SchedOutFields DEF Updated
<1>3. Live(q)
  <2>1. eng[q].st # "done"
    BY DEF Scheduled, Schedulable
  <2> QED BY <2>1 DEF CInv, EngTyped, Live
<1>4. ~ Within(q, rows)
  <2>1. q \notin told
    BY <1>3 DEF CInv, Lives
  <2>2. Within(q, rows) => eng[q].st = "running"
    BY <2>1 DEF CInv, Lives
  <2>3. Contains(rows, q) <=> Within(q, rows)
    BY PlaceOfRow DEF CInv, Batch
  <2> QED BY <1>1, <2>1, <2>2, <2>3, SchedOutFields DEF Kept
<1>5. ~ Corrects(q, so)
  BY DEF Corrects
<1>6. /\ Listed(eng[q].outs) /\ l \in Nat /\ Listed(req[q].out) /\ Len(req[q].out) \in Nat
      /\ eng[q].computed \in Int
  BY DEF CInv, EngTyped, ReqTyped, Listed
<1>7. eng[q].hold = 0 /\ Untold(q) = 0 /\ l >= Len(req[q].out) /\ (~ mode.async => l = Len(req[q].out))
  <2>1. CASE mode.async
    BY <1>3, <1>4, <2>1, AwayAsync DEF Untold
  <2>2. CASE ~ mode.async
    <3>1. outputs = <<>>
      BY <2>2, OneOutput
    <3>2. eng[q].hold = 0 /\ Len(req[q].out) = l + 0
      BY <1>3, <2>2, <3>1 DEF CInv, SyncCounts
    <3> QED BY <1>6, <2>2, <3>2 DEF Untold
  <2> QED BY <2>1, <2>2
<1> DEFINE k == so.numOut[q]
           all == so.all[q]
           cached == SubSeq(req[q].out, 1, IF k < Len(req[q].out) THEN k ELSE Len(req[q].out))
<1>8. k = l /\ all = Toks(q, 0, prompt[q]) \o eng[q].outs
  <2>1. /\ so.numOut[q] = Len(eng[q].outs) + eng[q].hold
        /\ so.all[q] = Toks(q, 0, prompt[q]) \o eng[q].outs
    BY <1>1, SchedOutFields
  <2>2. l + 0 = l
    BY <1>6
  <2> HIDE DEF so
  <2>3. so.numOut[q] = l + 0
    BY <1>7, <2>1
  <2> QED BY <2>1, <2>2, <2>3
<1>9. Listed(all) /\ Len(all) = prompt[q] + l
  <2>1. Listed(Toks(q, 0, prompt[q])) /\ Len(Toks(q, 0, prompt[q])) = prompt[q]
    BY ListedLiterals
  <2> QED BY <1>6, <1>8, <2>1, ListedConcat
<1> HIDE DEF so, u, k, all, cached, l
<1>10. /\ DOMAIN u = ReqFields /\ u.known = TRUE /\ u.computed = so.computed[q] /\ u.draft = so.specs[q]
       /\ u.out = IF mode.async /\ k > 0 THEN SubSeq(all, Len(all) - k + 1, Len(all)) ELSE cached
  BY <1>2 DEF Readd, ReqFields, k, all, cached
<1>11. so.computed[q] = eng[q].computed /\ so.specs[q] = Specs(q, n[q])
  BY <1>1, SchedOutFields DEF so
<1>12. Listed(u.out) /\ Len(u.out) = l
  <2>1. CASE mode.async /\ k > 0
    <3>1. k \in 0..Len(all)
      <4>1. l \in 0..(prompt[q] + l)
        BY <1>6
      <4> QED BY <1>8, <1>9, <4>1
    <3> QED BY <1>8, <1>9, <1>10, <2>1, <3>1, ListedBack
  <2>2. CASE ~ (mode.async /\ k > 0)
    <3> DEFINE c == IF k < Len(req[q].out) THEN k ELSE Len(req[q].out)
    <3>1. c \in 0..Len(req[q].out) /\ c = l
      <4>1. CASE mode.async
        <5>1. l = 0 /\ Len(req[q].out) = 0 /\ k = 0
          BY <1>6, <1>7, <1>8, <2>2, <4>1
        <5> QED BY <5>1
      <4>2. CASE ~ mode.async
        <5>1. l = Len(req[q].out) /\ k = l
          BY <1>7, <1>8, <4>2
        <5> QED BY <1>6, <5>1
      <4> QED BY <4>1, <4>2
    <3>2. Listed(SubSeq(req[q].out, 1, c)) /\ Len(SubSeq(req[q].out, 1, c)) = c
      BY <1>6, <3>1, ListedFront
    <3> QED BY <1>10, <2>2, <3>1, <3>2 DEF cached
  <2> QED BY <2>1, <2>2
<1>13. /\ eng[q].computed - Untold(q) = eng[q].computed
       /\ (l + eng[q].hold) - Untold(q) = l /\ Untold(q) \in Nat
  BY <1>6, <1>7
<1> QED BY <1>5, <1>7, <1>10, <1>11, <1>12, <1>13 DEF RowShape, so, u, l

LEMMA ScheduledRow ==
  ASSUME Pipeline, CInv, Ready, NEW n, NEW S, Scheduled(n, S), NEW q \in S, q \in Reqs,
         prompt[q] \in Nat
  PROVE  RowShape(n, q)
BY FreshRow, KeptRow, ReaddRow

(* The rows of a step: every scheduled request, once.                         *)
LEMMA OrderRows ==
  ASSUME NEW S, S \subseteq Reqs, NEW order \in SetToSeqs(S)
  PROVE  /\ InRows(order) /\ \A q : Within(q, order) <=> q \in S
         /\ order = <<>> <=> S = {}
<1>1. IsFiniteSet(S) /\ Cardinality(S) \in Nat
  BY RunnerAssumption, FS_Subset, FS_CardinalityType
<1> DEFINE m == Cardinality(S)
<1>2. /\ order \in [1..m -> S]
      /\ \A i, j \in 1..m : i # j => order[i] # order[j]
  BY DEF SetToSeqs
<1>3. Cardinality(1..m) = m /\ IsFiniteSet(1..m)
  BY <1>1, FS_Interval
<1>4. order \in Injection(1..m, S)
  BY <1>2 DEF Injection, IsInjective
<1>5. order \in Surjection(1..m, S)
  BY <1>1, <1>3, <1>4, FS_Injection
<1>6. \A q \in S : \E i \in 1..m : order[i] = q
  BY <1>5 DEF Surjection
<1>7. order \in Seq(S) /\ Len(order) = m
  BY <1>1, <1>2, SeqDef
<1> HIDE DEF m
<1>8. DOMAIN order = 1..m
  BY <1>2
<1>9. InRows(order)
  BY <1>1, <1>2, <1>7, <1>8 DEF InRows, m
<1>10. \A q : Within(q, order) <=> q \in S
  BY <1>2, <1>6, <1>8 DEF Within
<1>11. order = <<>> <=> S = {}
  BY <1>7, <1>10, <1>2, <1>8, EmptySeq DEF Within
<1> QED BY <1>9, <1>10, <1>11

(* An empty step's output adds nothing.                                       *)
LEMMA EmptyOutput ==
  ASSUME Pipeline, CInv, Ready, NEW x, outputs' = Append(outputs, x), x.rows = <<>>,
         NEW q \in Reqs
  PROVE  HeldOut(q)' = HeldOut(q) /\ AllRejects(q)' = AllRejects(q)
<1>1. ~ Samples(x, q)
  BY DEF Samples, Within
<1>2. Held(x, q) = 0 /\ Rejects(x, q) = 0
  BY <1>1 DEF Held, Rejects
<1>3. /\ Len(outputs) \in 0..1 /\ Len(outputs') = Len(outputs) + 1
      /\ outputs'[Len(outputs) + 1] = x /\ \A i \in 1..Len(outputs) : outputs'[i] = outputs[i]
  BY OneOutput, OutputAppended
<1>4. CASE Len(outputs) = 0
  <2>1. Len(outputs') = 1 /\ outputs'[1] = x
    BY <1>3, <1>4
  <2> QED BY <1>2, <1>4, <2>1 DEF HeldOut, AllRejects
<1>5. CASE Len(outputs) = 1
  <2>1. Len(outputs') = 2 /\ outputs'[2] = x /\ outputs'[1] = outputs[1]
    BY <1>3, <1>5
  <2>2. Held(outputs[1], q) \in Int /\ Rejects(outputs[1], q) \in Int
    <3>1. 1 \in DOMAIN outputs
      BY <1>5, OneOutput
    <3> QED BY <3>1, HeldTyped
  <2>3. HeldOut(q)' = Held(outputs[1], q) + 0 /\ AllRejects(q)' = Rejects(outputs[1], q) + 0
    BY <1>2, <2>1 DEF HeldOut, AllRejects
  <2>4. HeldOut(q) = Held(outputs[1], q) + 0 /\ AllRejects(q) = Rejects(outputs[1], q) + 0
    BY <1>5 DEF HeldOut, AllRejects
  <2> QED BY <2>3, <2>4
<1> QED BY <1>3, <1>4, <1>5

(* What the engine counts of a request that is not scheduled covers what the   *)
(* runner caches, whatever is still rejected.                                 *)
LEMMA UnscheduledCounts ==
  ASSUME Pipeline, CInv, Ready, mode.async, NEW q \in Reqs, Live(q)
  PROVE  /\ Len(eng[q].outs) + eng[q].hold >= Len(req[q].out) + AllRejects(q)
         /\ eng[q].hold = HeldOut(q)
<1>1. eng[q].hold = HeldOut(q)
  <2>1. eng[q].hold = HeldOut(q) + InStep(q) /\ eng[q].hold \in Int
    BY DEF CInv, AsyncCounts, EngTyped
  <2>2. HeldOut(q) \in Int
    <3>1. Len(outputs) = 1 => Held(outputs[1], q) \in Int
      BY OneOutput, HeldTyped
    <3> QED BY <3>1, OneOutput DEF HeldOut
  <2> QED BY <2>1, <2>2, OneOutput
<1>2. /\ Len(eng[q].outs) \in Nat /\ eng[q].hold \in Int
      /\ Len(req[q].out) \in Nat /\ Len(req[q].draft) \in Nat
  BY DEF CInv, EngTyped, ReqTyped, Listed
<1>3. CASE Within(q, rows)
  <2>1. /\ AllRejects(q) \in 0..Len(req[q].draft)
        /\ Len(eng[q].outs) + eng[q].hold = Len(req[q].out) + Len(req[q].draft)
    BY <1>3, KeptAsync
  <2>2. PICK d, r : d = Len(req[q].draft) /\ r = AllRejects(q)
    OBVIOUS
  <2>3. d \in Nat /\ r \in 0..d
    BY <1>2, <2>1, <2>2
  <2>4. Len(req[q].out) + d >= Len(req[q].out) + r
    BY <1>2, <2>3
  <2> QED BY <1>1, <2>1, <2>2, <2>4
<1>4. CASE ~ Within(q, rows)
  <2>1. eng[q].hold = 0 /\ AllRejects(q) = 0 /\ Len(eng[q].outs) >= Len(req[q].out)
    BY <1>4, AwayAsync
  <2> QED BY <1>1, <1>2, <2>1
<1> QED BY <1>3, <1>4

(* The requests after the engine has scheduled the step.                      *)
Steps(n, S, P, order) ==
  /\ Scheduled(n, S) /\ P \subseteq {q \in Reqs \ S : eng[q].st = "running"}
  /\ order \in SetToSeqs(S) /\ ExecuteModel(n, P, order)
Partial(n, q) == eng[q].computed + n[q] < NumTokens(q) + eng[q].hold
Extra(n, q) == IF mode.async /\ ~ Partial(n, q) THEN 1 + Len(Specs(q, n[q])) ELSE 0

LEMMA AdvancedShape ==
  ASSUME Pipeline, CInv, NEW n, NEW S, NEW P, NEW order, Steps(n, S, P, order), NEW q \in Reqs
  PROVE  /\ DOMAIN n = S /\ DOMAIN eng'[q] = EngFields
         /\ eng'[q].outs = eng[q].outs
         /\ q \in S => /\ n[q] \in Nat /\ n[q] <= NumNew(q) /\ prompt[q] \in Nat
                       /\ eng[q].st # "done" /\ eng'[q].st = "running"
                       /\ eng'[q].computed \in Int /\ Listed(eng'[q].specs)
                       /\ eng'[q].hold = eng[q].hold + Extra(n, q) /\ eng'[q].hold \in Int
                       /\ Extra(n, q) \in Nat
                       /\ mode.async /\ mode.spec = 0 => eng'[q].specs = <<>>
         /\ q \notin S => /\ eng'[q].hold = eng[q].hold /\ eng'[q].computed \in Int
                          /\ Listed(eng'[q].specs) /\ eng'[q].specs \in {eng[q].specs, <<>>}
                          /\ \/ eng'[q].st = eng[q].st
                             \/ eng[q].st = "running" /\ eng'[q].st = "preempted"
<1>1. /\ S \subseteq Schedulable /\ n \in [S -> 1..8] /\ DOMAIN n = S
      /\ \A r \in S : n[r] <= NumNew(r)
      /\ P \subseteq {r \in Reqs \ S : eng[r].st = "running"}
      /\ eng'[q] = IF q \in S THEN Advance(q, n[q]) ELSE IF q \in P THEN Preempt(q) ELSE eng[q]
  BY DEF Steps, Scheduled, ExecuteModel, Engine1
<1>2. /\ DOMAIN eng[q] = EngFields /\ eng[q].computed \in Int /\ eng[q].hold \in Int
      /\ Listed(eng[q].outs) /\ Listed(eng[q].specs)
  BY DEF CInv, EngTyped
<1>3. mode.spec \in Nat /\ mode.async \in BOOLEAN
  BY DEF CInv, Batch, Pipeline
<1>4. CASE q \in S
  <2>1. /\ n[q] \in Nat /\ n[q] <= NumNew(q) /\ prompt[q] \in Nat /\ eng[q].st # "done"
    BY <1>1, <1>4, RunnerAssumption DEF Schedulable
  <2>2. Listed(Specs(q, n[q])) /\ Len(Specs(q, n[q])) \in Nat
    BY <2>1, SpecsShape
  <2>3. Extra(n, q) \in Nat
    BY <2>2 DEF Extra
  <2> DEFINE e == eng[q]
             b == mode.async /\ ~ Partial(n, q)
  <2>4. Advance(q, n[q]) =
          [e EXCEPT !.st = "running", !.computed = @ + n[q],
                    !.hold = IF b THEN @ + 1 + Len(Specs(q, n[q])) ELSE @,
                    !.specs = IF b THEN Holes(mode.spec) ELSE <<>>]
    BY DEF Advance, Partial
  <2>5. Extra(n, q) = IF b THEN 1 + Len(Specs(q, n[q])) ELSE 0
    BY DEF Extra
  <2> HIDE DEF b, e
  <2>6. /\ DOMAIN eng'[q] = EngFields /\ eng'[q].st = "running" /\ eng'[q].computed = e.computed + n[q]
        /\ eng'[q].hold = IF b THEN e.hold + 1 + Len(Specs(q, n[q])) ELSE e.hold
        /\ eng'[q].specs = IF b THEN Holes(mode.spec) ELSE <<>>
        /\ eng'[q].outs = e.outs
    BY <1>1, <1>2, <1>4, <2>4 DEF EngFields, e
  <2>7. eng'[q].hold = e.hold + Extra(n, q)
    <3>1. e.hold \in Int
      BY <1>2 DEF e
    <3>2. CASE b
      BY <2>2, <2>5, <2>6, <3>1, <3>2
    <3>3. CASE ~ b
      BY <2>5, <2>6, <3>1, <3>3
    <3> QED BY <3>2, <3>3
  <2>8. Listed(eng'[q].specs)
    BY <1>3, <2>6, ListedLiterals
  <2>9. mode.spec = 0 => eng'[q].specs = <<>>
    <3>1. \A k \in Nat : k = 0 => Holes(k) = <<>>
      <4>1. Holes(0) = <<>>
        BY DEF Holes
      <4> QED BY <4>1
    <3> QED BY <1>3, <2>6, <3>1
  <2>10. eng'[q].computed \in Int /\ eng'[q].hold \in Int
    BY <1>2, <2>1, <2>3, <2>6, <2>7 DEF e
  <2> QED BY <1>1, <1>4, <2>1, <2>3, <2>6, <2>7, <2>8, <2>9, <2>10 DEF e
<1>5. CASE q \notin S
  <2>1. CASE q \in P
    <3>1. eng'[q] = [eng[q] EXCEPT !.st = "preempted", !.computed = 0, !.specs = <<>>]
      BY <1>1, <1>5, <2>1 DEF Preempt
    <3>2. /\ DOMAIN eng'[q] = EngFields /\ eng'[q].st = "preempted" /\ eng'[q].computed = 0
          /\ eng'[q].specs = <<>> /\ eng'[q].hold = eng[q].hold /\ eng'[q].outs = eng[q].outs
      BY <1>2, <3>1 DEF EngFields
    <3> QED BY <1>1, <1>5, <2>1, <3>2, ListedLiterals
  <2>2. CASE q \notin P
    BY <1>1, <1>2, <1>5, <2>2
  <2> QED BY <2>1, <2>2
<1> QED BY <1>4, <1>5

LEMMA UpdatedShape ==
  ASSUME Pipeline, CInv, NEW n, NEW S, NEW P, NEW order, Steps(n, S, P, order)
  PROVE  /\ Ready /\ Scheduled(n, S) /\ ~ LookupFails(SchedOut(n))
         /\ req' = Updated(SchedOut(n)) /\ S \subseteq Reqs
         /\ rows' = order /\ prev'.set = prev.set /\ told' = {}
         /\ IF order = <<>>
              THEN /\ \E x : outputs' = Append(outputs, x) /\ x.rows = <<>> /\ x.ready = TRUE
                             /\ "toks" \in DOMAIN x
                   /\ UNCHANGED <<buf, ems, queue>>
              ELSE /\ buf' = Prepared(order, req', n)
                   /\ ems' = [rows |-> order, phase |-> "executed"]
                   /\ UNCHANGED outputs
         /\ UNCHANGED <<mode, gpu, counts, copying>>
<1> DEFINE so == SchedOut(n)
           x == [rows |-> <<>>, spec |-> <<>>, invalid |-> {}, toks |-> <<>>, ready |-> TRUE]
<1>1. Ready /\ Scheduled(n, S) /\ S \subseteq Reqs /\ DOMAIN n = S
  BY DEF Steps, ExecuteModel, Ready, Scheduled, Schedulable
<1>2. DOMAIN so.n = S
  BY <1>1 DEF SchedOut
<1>3. \A q \in S : prompt[q] \in Nat
  BY <1>1, RunnerAssumption
<1>4. ~ LookupFails(so)
  <2>1. \A q \in S : RowShape(n, q)
    BY <1>1, <1>3, ScheduledRow
  <2> QED BY <1>2, <2>1 DEF LookupFails, RowShape
<1>5. prev'.set = prev.set
  <2>1. prev' = Forget(so)
    BY DEF Steps, ExecuteModel
  <2> QED BY <2>1 DEF Forget
<1>6. /\ rows' = order /\ told' = {} /\ UNCHANGED <<mode, gpu, counts, copying>>
      /\ req' = Updated(so)
      /\ IF order = <<>>
           THEN outputs' = Append(outputs, x) /\ UNCHANGED <<buf, ems, queue>>
           ELSE /\ buf' = Prepared(order, req', n)
                /\ ems' = [rows |-> order, phase |-> "executed"]
                /\ UNCHANGED outputs
  BY <1>4 DEF Steps, ExecuteModel, Engine1
<1>7. x.rows = <<>> /\ x.ready = TRUE /\ "toks" \in DOMAIN x
  OBVIOUS
<1> HIDE DEF x
<1> QED BY <1>1, <1>4, <1>5, <1>6, <1>7

LEMMA UpdatedRows ==
  ASSUME Pipeline, CInv, NEW n, NEW S, NEW P, NEW order, Steps(n, S, P, order), NEW q \in Reqs
  PROVE  /\ DOMAIN req'[q] = ReqFields /\ req'[q].known \in BOOLEAN /\ req'[q].computed \in Int
         /\ Listed(req'[q].out) /\ Listed(req'[q].draft)
         /\ q \in S => /\ req'[q].known
                       /\ req'[q].computed = eng[q].computed - Untold(q)
                       /\ req'[q].draft = Specs(q, n[q])
                       /\ Len(req'[q].out) = (Len(eng[q].outs) + eng[q].hold) - Untold(q)
                       /\ Live(q) => Len(req'[q].out) >= Len(req[q].out)
                       /\ Untold(q) \in Nat
         /\ q \notin S /\ q \notin told => /\ req'[q].known = req[q].known
                                           /\ req'[q].out = req[q].out
                                           /\ req'[q].draft = req[q].draft
         /\ q \notin S /\ q \in told => ~ req'[q].known /\ req'[q].draft = <<>>
<1> DEFINE so == SchedOut(n)
<1>1. /\ Ready /\ Scheduled(n, S) /\ req' = Updated(so) /\ S \subseteq Reqs
  BY UpdatedShape
<1>2. DOMAIN n = S
  BY <1>1 DEF Scheduled
<1>3. /\ DOMAIN req[q] = ReqFields /\ req[q].known \in BOOLEAN /\ req[q].computed \in Int
      /\ Listed(req[q].out) /\ Listed(req[q].draft)
  BY DEF CInv, ReqTyped
<1>4. CASE q \in S
  <2>1. prompt[q] \in Nat
    BY RunnerAssumption
  <2>2. RowShape(n, q)
    BY <1>1, <1>4, <2>1, ScheduledRow
  <2>3. n[q] \in Nat /\ n[q] <= NumNew(q)
    BY <1>1, <1>4 DEF Scheduled
  <2>4. Listed(Specs(q, n[q]))
    BY <2>1, <2>3, SpecsShape
  <2>5. eng[q].computed \in Int
    BY DEF CInv, EngTyped
  <2>6. req'[q] = Updated(SchedOut(n))[q]
    BY <1>1
  <2>7. /\ DOMAIN req'[q] = ReqFields /\ req'[q].known = TRUE
        /\ req'[q].computed = eng[q].computed - Untold(q)
        /\ req'[q].draft = Specs(q, n[q]) /\ Listed(req'[q].out)
        /\ Len(req'[q].out) = (Len(eng[q].outs) + eng[q].hold) - Untold(q)
        /\ Live(q) => Len(req'[q].out) >= Len(req[q].out)
        /\ Untold(q) \in Nat
    BY <2>2, <2>6 DEF RowShape
  <2>8. req'[q].computed \in Int
    BY <2>5, <2>7
  <2> QED BY <1>4, <2>4, <2>7, <2>8
<1>5. CASE q \notin S
  <2>1. q \notin so.fresh /\ q \notin Kept(so) /\ q \notin DOMAIN so.n /\ so.fin = told
    BY <1>2, <1>5 DEF SchedOut, Kept
  <2>2. req'[q] = IF q \in told THEN NoReq ELSE [req[q] EXCEPT !.row = <<>>]
    BY <1>1, <2>1 DEF Updated
  <2>3. CASE q \in told
    <3>1. /\ DOMAIN req'[q] = ReqFields /\ req'[q].known = FALSE /\ req'[q].computed = 0
          /\ req'[q].out = <<>> /\ req'[q].draft = <<>>
      BY <2>2, <2>3 DEF NoReq, ReqFields
    <3>4. req'[q].computed \in Int
      BY <3>1
    <3>2. req'[q].known \in BOOLEAN /\ ~ req'[q].known
      BY <3>1, Zenon
    <3>3. Listed(req'[q].out) /\ Listed(req'[q].draft)
      BY <3>1, ListedLiterals
    <3> QED BY <1>5, <2>3, <3>1, <3>2, <3>3, <3>4
  <2>4. CASE q \notin told
    <3>1. /\ DOMAIN req'[q] = ReqFields /\ req'[q].known = req[q].known
          /\ req'[q].computed = req[q].computed
          /\ req'[q].out = req[q].out /\ req'[q].draft = req[q].draft
      BY <1>3, <2>2, <2>4 DEF ReqFields
    <3> QED BY <1>3, <1>5, <2>4, <3>1
  <2> QED BY <2>3, <2>4
<1> QED BY <1>4, <1>5

LEMMA ExecuteCounts ==
  ASSUME Pipeline, CInv, NEW n, NEW S, NEW P, NEW order, Steps(n, S, P, order)
  PROVE  CInv'
<1>1. /\ Ready /\ S \subseteq Reqs
      /\ rows' = order /\ prev'.set = prev.set /\ told' = {}
      /\ IF order = <<>>
           THEN /\ \E x : outputs' = Append(outputs, x) /\ x.rows = <<>> /\ x.ready = TRUE
                          /\ "toks" \in DOMAIN x
                /\ UNCHANGED <<buf, ems, queue>>
           ELSE /\ buf' = Prepared(order, req', n)
                /\ ems' = [rows |-> order, phase |-> "executed"]
                /\ UNCHANGED outputs
      /\ UNCHANGED <<mode, gpu, counts, copying>>
  BY UpdatedShape
<1>2. ems = NoStep /\ mode.spec \in Nat /\ mode.async \in BOOLEAN
  BY <1>1 DEF Ready, CInv, Batch, Pipeline
<1>3. /\ InRows(order) /\ \A q : Within(q, order) <=> q \in S
      /\ order = <<>> <=> S = {}
  <2>1. order \in SetToSeqs(S)
    BY DEF Steps
  <2> QED BY <1>1, <2>1, OrderRows
<1>4. \A i \in DOMAIN order : order[i] \in S
  BY <1>3, PlaceOfRow
<1>5. /\ eng' = [q \in Reqs |-> eng'[q]] /\ req' = [q \in Reqs |-> req'[q]]
  <2>1. req' = Updated(SchedOut(n))
    BY UpdatedShape
  <2> QED BY <2>1 DEF Steps, ExecuteModel, Engine1, Updated
<1>6. ASSUME NEW q \in Reqs
      PROVE  /\ eng'[q].st \in {"new", "running", "preempted", "done"}
             /\ Live(q)' <=> q \in S \/ Live(q)
             /\ eng'[q].st = "new" => eng[q].st = "new" /\ q \notin S
  <2>1. eng[q].st \in {"new", "running", "preempted", "done"}
    BY DEF CInv, EngTyped
  <2> QED BY <2>1, AdvancedShape DEF Live
<1>7. EngTyped'
  <2> SUFFICES ASSUME NEW q \in Reqs
               PROVE  /\ DOMAIN eng'[q] = EngFields
                      /\ eng'[q].computed \in Int /\ eng'[q].hold \in Int
                      /\ Listed(eng'[q].outs) /\ Listed(eng'[q].specs)
                      /\ eng'[q].st \in {"new", "running", "preempted", "done"}
                      /\ Live(q)' => Len(eng'[q].outs) < mode.most[q]
                      /\ eng'[q].st = "new" => eng'[q].outs = <<>> /\ eng'[q].hold = 0
    BY <1>1, <1>5 DEF EngTyped
  <2>1. /\ eng[q].computed \in Int /\ eng[q].hold \in Int
        /\ Listed(eng[q].outs) /\ Listed(eng[q].specs)
        /\ eng[q].st \in {"new", "running", "preempted", "done"}
        /\ Live(q) => Len(eng[q].outs) < mode.most[q]
        /\ eng[q].st = "new" => eng[q].outs = <<>> /\ eng[q].hold = 0
    BY DEF CInv, EngTyped
  <2>2. eng[q].st = "new" => Len(eng[q].outs) < mode.most[q]
    <3>1. mode.most[q] \in Nat \ {0}
      BY DEF CInv, Batch
    <3> QED BY <2>1, <3>1, ListedLiterals
  <2>3. Live(q)' => Len(eng[q].outs) < mode.most[q]
    BY <1>6, <2>1, <2>2, AdvancedShape DEF Live
  <2> QED BY <1>6, <2>1, <2>3, AdvancedShape
<1>8. ReqTyped'
  BY <1>5, UpdatedRows DEF ReqTyped
<1>9. /\ order = <<>> => ems' = NoStep
      /\ order # <<>> => ems' # NoStep /\ ems'.phase = "executed" /\ ems'.rows = order
  BY <1>1, <1>2 DEF NoStep
<1>10. /\ Len(outputs) \in 0..1 /\ DOMAIN outputs = 1..Len(outputs)
       /\ outputs = <<>> <=> Len(outputs) = 0
       /\ ~ mode.async => outputs = <<>>
       /\ Len(outputs) = 1 => outputs[1].rows = rows
       /\ ~ Executing /\ \A q : InStep(q) = 0
  BY <1>1, OneOutput
<1>11. ASSUME order = <<>>
       PROVE  /\ Len(outputs') = Len(outputs) + 1 /\ DOMAIN outputs' = 1..(Len(outputs) + 1)
              /\ outputs' # <<>> /\ \A i \in 1..Len(outputs) : outputs'[i] = outputs[i]
              /\ LET x == outputs'[Len(outputs) + 1] IN
                   x.rows = <<>> /\ x.ready = TRUE /\ "toks" \in DOMAIN x
              /\ \A q \in Reqs : HeldOut(q)' = HeldOut(q) /\ AllRejects(q)' = AllRejects(q)
  <2>1. PICK x : outputs' = Append(outputs, x) /\ x.rows = <<>> /\ x.ready = TRUE
                 /\ "toks" \in DOMAIN x
    BY <1>1, <1>11
  <2>2. \A q \in Reqs : HeldOut(q)' = HeldOut(q) /\ AllRejects(q)' = AllRejects(q)
    BY <1>1, <2>1, EmptyOutput
  <2> QED BY <2>1, <2>2, OutputAppended
<1>12. \A q \in Reqs : HeldOut(q)' = HeldOut(q) /\ AllRejects(q)' = AllRejects(q)
  <2>1. CASE order = <<>>
    BY <1>11, <2>1
  <2>2. CASE order # <<>>
    BY <1>1, <2>2 DEF HeldOut, AllRejects
  <2> QED BY <2>1, <2>2
<1>13. Lives'
  <2> SUFFICES ASSUME NEW q \in Reqs
               PROVE  /\ Live(q)' => req'[q].known
                      /\ req'[q].known => Live(q)'
                      /\ Within(q, order) => eng'[q].st = "running"
                      /\ eng'[q].st = "new" =>
                           /\ ~ Within(q, ems'.rows)
                           /\ \A j \in DOMAIN outputs' : ~ Within(q, outputs'[j].rows)
    BY <1>1 DEF Lives
  <2>1. /\ Live(q) => q \notin told /\ req[q].known
        /\ req[q].known => Live(q) \/ q \in told
        /\ eng[q].st = "new" => \A j \in DOMAIN outputs : ~ Within(q, outputs[j].rows)
    BY DEF CInv, Lives
  <2>2. ~ Within(q, <<>>)
    BY DEF Within
  <2>3. Live(q)' => req'[q].known
    BY <1>6, <2>1, UpdatedRows
  <2>4. req'[q].known => Live(q)'
    BY <1>6, <2>1, UpdatedRows
  <2>5. Within(q, order) => eng'[q].st = "running"
    BY <1>3, AdvancedShape
  <2>6. eng'[q].st = "new" => ~ Within(q, ems'.rows)
    <3>1. NoStep.rows = <<>>
      BY DEF NoStep
    <3> QED BY <1>3, <1>6, <1>9, <2>2, <3>1
  <2>7. eng'[q].st = "new" => \A j \in DOMAIN outputs' : ~ Within(q, outputs'[j].rows)
    <3>1. CASE order = <<>>
      <4>1. \A j \in DOMAIN outputs' : j \in DOMAIN outputs \/ j = Len(outputs) + 1
        BY <1>10, <1>11, <3>1
      <4> QED BY <1>6, <1>10, <1>11, <2>1, <2>2, <3>1, <4>1
    <3>2. CASE order # <<>>
      BY <1>1, <1>6, <2>1, <3>2
    <3> QED BY <3>1, <3>2
  <2> QED BY <2>3, <2>4, <2>5, <2>6, <2>7
<1>14. Batch'
  <2>1. mode.async /\ mode.spec = 0 => \A q \in Reqs : eng'[q].specs = <<>> /\ req'[q].draft = <<>>
    <3> SUFFICES ASSUME mode.async, mode.spec = 0, NEW q \in Reqs
                 PROVE  eng'[q].specs = <<>> /\ req'[q].draft = <<>>
      OBVIOUS
    <3>1. eng[q].specs = <<>> /\ req[q].draft = <<>>
      BY DEF CInv, Batch
    <3>2. eng'[q].specs = <<>>
      BY <3>1, AdvancedShape
    <3>3. q \in S => Specs(q, n[q]) = <<>>
      BY <3>1, AdvancedShape, SpecsShape
    <3> QED BY <3>1, <3>2, <3>3, UpdatedRows
  <2> QED BY <1>1, <1>3, <1>9, <2>1 DEF CInv, Batch
<1>15. OutTyped'
  <2>1. CASE order # <<>>
    <3>1. \A j \in DOMAIN outputs : mode.async /\ mode.spec > 0 /\ ~ outputs[j].ready => FALSE
      <4> SUFFICES ASSUME NEW j \in DOMAIN outputs, mode.async, mode.spec > 0, ~ outputs[j].ready
                   PROVE  FALSE
        OBVIOUS
      <4>1. copying
        BY DEF CInv, OutTyped
      <4>2. prev.set
        BY <4>1 DEF CInv, Batch
      <4> QED BY <1>1, <4>1, <4>2 DEF Ready, Synchronized
    <3> QED BY <1>1, <2>1, <3>1 DEF CInv, OutTyped
  <2>2. CASE order = <<>>
    <3> DEFINE x == outputs'[Len(outputs) + 1]
    <3>1. \A j \in DOMAIN outputs : mode.async /\ mode.spec > 0 /\ ~ outputs[j].ready => FALSE
      <4> SUFFICES ASSUME NEW j \in DOMAIN outputs, mode.async, mode.spec > 0, ~ outputs[j].ready
                   PROVE  FALSE
        OBVIOUS
      <4>1. copying
        BY DEF CInv, OutTyped
      <4>2. prev.set
        BY <4>1 DEF CInv, Batch
      <4> QED BY <1>1, <4>1, <4>2 DEF Ready, Synchronized
    <3>2. DOMAIN <<>> = {} /\ InRows(<<>>)
      BY DEF InRows
    <3> SUFFICES ASSUME NEW j \in DOMAIN outputs'
                 PROVE  LET o == outputs'[j] IN
                      /\ InRows(o.rows) /\ "toks" \in DOMAIN o
                      /\ \A i \in DOMAIN o.rows :
                           /\ o.spec[i] \in Nat
                           /\ o.ready /\ i \notin o.invalid => Listed(o.toks[i]) /\ Len(o.toks[i]) >= 1
                           /\ mode.async /\ o.ready /\ i \notin o.invalid
                                => Len(o.toks[i]) <= o.spec[i] + 1
                           /\ mode.async /\ mode.spec = 0 => o.spec[i] = 0
                      /\ mode.async /\ ~ o.ready /\ mode.spec > 0 => FALSE
                      /\ ~ mode.async => o.ready /\ \A i \in DOMAIN o.rows : Listed(o.drafts[i])
      BY <1>1, <1>9, <2>2 DEF OutTyped
    <3>3. CASE j \in DOMAIN outputs
      <4>1. outputs'[j] = outputs[j]
        BY <1>10, <1>11, <2>2, <3>3
      <4> QED BY <3>1, <3>3, <4>1 DEF CInv, OutTyped
    <3>4. CASE j = Len(outputs) + 1
      <4>1. /\ outputs'[j].rows = <<>> /\ outputs'[j].ready = TRUE /\ "toks" \in DOMAIN outputs'[j]
        BY <1>11, <2>2, <3>4
      <4> QED BY <3>2, <4>1
    <3> QED BY <1>10, <1>11, <2>2, <3>3, <3>4
  <2> QED BY <2>1, <2>2
<1>16. LastStep'
  <2>1. CASE order # <<>>
    BY <1>9, <2>1 DEF LastStep
  <2>2. CASE order = <<>>
    <3>1. outputs'[Len(outputs')].rows = order
      BY <1>11, <2>2
    <3> QED BY <1>1, <2>2, <3>1 DEF LastStep
  <2> QED BY <2>1, <2>2
<1>17. ASSUME NEW i \in DOMAIN order, order # <<>>
       PROVE  /\ order[i] \in S /\ order[i] \in Reqs
              /\ buf'.spec[i] = Len(req'[order[i]].draft)
              /\ buf'.discard[i] <=> Partial(n, order[i])
  <2> DEFINE q == order[i]
  <2>1. q \in S /\ q \in Reqs
    BY <1>1, <1>4
  <2>2. /\ buf'.spec[i] = Len(req'[q].draft)
        /\ buf'.discard[i] <=> req'[q].computed + n[q] < prompt[q] + Len(req'[q].out)
    <3>1. /\ buf'.spec = [j \in DOMAIN order |-> Len(req'[order[j]].draft)]
          /\ buf'.discard = [j \in DOMAIN order |->
               req'[order[j]].computed + n[order[j]] < prompt[order[j]] + Len(req'[order[j]].out)]
      BY <1>1, <1>17 DEF Prepared
    <3> QED BY <3>1
  <2> HIDE DEF q
  <2>3. PICK c, k, p, a, h, u : /\ c = eng[q].computed /\ k = n[q] /\ p = prompt[q]
                                /\ a = Len(eng[q].outs) /\ h = eng[q].hold /\ u = Untold(q)
    OBVIOUS
  <2>4. c \in Int /\ k \in Nat /\ p \in Nat /\ a \in Nat /\ h \in Int /\ u \in Nat
    <3>1. k \in Nat /\ p \in Nat
      BY <2>1, <2>3, AdvancedShape
    <3>2. u \in Nat
      BY <2>1, <2>3, UpdatedRows
    <3> QED BY <2>1, <2>3, <3>1, <3>2 DEF CInv, EngTyped, Listed
  <2>5. req'[q].computed = c - u /\ Len(req'[q].out) = (a + h) - u
    BY <2>1, <2>3, UpdatedRows
  <2>6. (c - u) + k < p + ((a + h) - u) <=> c + k < (p + a) + h
    BY <2>4
  <2>7. Partial(n, q) <=> c + k < (p + a) + h
    BY <2>3 DEF Partial, NumTokens
  <2> QED BY <2>1, <2>2, <2>3, <2>5, <2>6, <2>7 DEF q
<1>18. ThisStep'
  <2>1. CASE order = <<>>
    BY <1>9, <2>1 DEF ThisStep
  <2>2. CASE order # <<>>
    <3> SUFFICES ASSUME NEW i \in DOMAIN order
                 PROVE  /\ buf'.spec[i] \in Nat
                        /\ mode.async /\ mode.spec = 0 => buf'.spec[i] = 0
                        /\ buf'.spec[i] = Len(req'[order[i]].draft)
                        /\ buf'.discard[i] => req'[order[i]].draft = <<>>
      BY <1>1 DEF ThisStep
    <3>1. /\ order[i] \in S /\ order[i] \in Reqs
          /\ buf'.spec[i] = Len(req'[order[i]].draft)
          /\ buf'.discard[i] <=> Partial(n, order[i])
      BY <1>17, <2>2
    <3>2. buf'.spec[i] \in Nat
      BY <3>1, UpdatedRows DEF Listed
    <3>3. mode.async /\ mode.spec = 0 => buf'.spec[i] = 0
      BY <1>1, <1>14, <3>1, ListedLiterals DEF Batch
    <3>4. Partial(n, order[i]) => req'[order[i]].draft = <<>>
      <4>1. /\ n[order[i]] \in Nat /\ n[order[i]] <= NumNew(order[i]) /\ prompt[order[i]] \in Nat
        BY <3>1, AdvancedShape
      <4>2. Partial(n, order[i]) => Specs(order[i], n[order[i]]) = <<>>
        BY <3>1, <4>1, SpecsShape DEF Partial
      <4> QED BY <3>1, <4>2, UpdatedRows
    <3> QED BY <3>1, <3>2, <3>3, <3>4
  <2> QED BY <2>1, <2>2
<1>19. AsyncCounts'
  <2> SUFFICES ASSUME mode.async, NEW q \in Reqs, Live(q)'
               PROVE  LET a == Len(eng'[q].outs) + eng'[q].hold
                          d == IF Executing' THEN InStep(q)' ELSE Len(req'[q].draft)
                      IN  /\ eng'[q].hold = HeldOut(q)' + InStep(q)'
                          /\ Within(q, order) => a = Len(req'[q].out) + Earlier(q)' + d
                          /\ ~ Within(q, order) => a >= Len(req'[q].out) + AllRejects(q)'
    BY <1>1 DEF AsyncCounts
  <2>1. PICK a, h, r, w : /\ a = Len(eng[q].outs) /\ h = eng[q].hold /\ r = AllRejects(q)
                          /\ w = HeldOut(q)
    OBVIOUS
  <2>2. a \in Nat /\ h \in Int
    BY <2>1 DEF CInv, EngTyped, Listed
  <2>3. h = w /\ w \in Int
    <3>1. CASE Live(q)
      BY <1>1, <2>1, <2>2, <3>1, UnscheduledCounts
    <3>2. CASE ~ Live(q)
      <4>1. q \in S
        BY <1>6, <3>2
      <4>2. eng[q].st = "new"
        <5>1. eng[q].st \in {"new", "running", "preempted", "done"}
          BY DEF CInv, EngTyped
        <5> QED BY <3>2, <4>1, <5>1, AdvancedShape DEF Live
      <4> QED BY <1>1, <2>1, <4>2, NewCounts
    <3> QED BY <3>1, <3>2
  <2>4. HeldOut(q)' = w /\ AllRejects(q)' = r /\ Len(eng'[q].outs) = a
    BY <1>12, <2>1, AdvancedShape
  <2>5. CASE q \in S
    <3>1. order # <<>> /\ Within(q, order)
      BY <1>3, <2>5
    <3>2. Executing' /\ UNCHANGED outputs
      BY <1>1, <1>9, <3>1 DEF Executing
    <3>3. PICK x : x = Extra(n, q)
      OBVIOUS
    <3>4. x \in Nat /\ eng'[q].hold = h + x
      BY <2>1, <2>5, <3>3, AdvancedShape
    <3>5. /\ Len(req'[q].out) = (a + h) - r /\ req'[q].draft = Specs(q, n[q]) /\ r \in Nat
      <4>1. Untold(q) = r
        BY <2>1 DEF Untold
      <4> QED BY <2>1, <2>5, <4>1, UpdatedRows
    <3>6. InStep(q)' = x
      <4>1. PlaceIn(order, q) \in DOMAIN order /\ order[PlaceIn(order, q)] = q
        BY <1>3, <3>1, PlaceOfRow
      <4>2. buf'.discard[PlaceIn(order, q)] <=> Partial(n, q)
        BY <1>17, <3>1, <4>1
      <4>3. x = IF ~ Partial(n, q) THEN 1 + Len(Specs(q, n[q])) ELSE 0
        BY <3>3 DEF Extra
      <4>4. InStep(q)' = IF ~ buf'.discard[PlaceIn(order, q)] THEN 1 + Len(req'[q].draft) ELSE 0
        BY <1>1, <3>1, <3>2 DEF InStep
      <4> QED BY <3>5, <4>2, <4>3, <4>4
    <3>7. Earlier(q)' = r
      <4>1. Len(outputs) = 1 => Earlier(q)' = Rejects(outputs[1], q)
        BY <3>2 DEF Earlier
      <4>2. Len(outputs) = 0 => Earlier(q)' = 0
        BY <3>2 DEF Earlier
      <4>3. Len(outputs) = 0 => AllRejects(q) = 0
        BY DEF AllRejects
      <4>4. Len(outputs) = 1 => AllRejects(q) = Rejects(outputs[1], q)
        <5>1. Len(outputs) = 1 => Rejects(outputs[1], q) \in Int
          BY <1>10, HeldTyped
        <5> QED BY <5>1 DEF AllRejects
      <4> QED BY <1>10, <2>1, <4>1, <4>2, <4>3, <4>4
    <3>8. h + x = w + x /\ a + (h + x) = ((a + h) - r) + r + x
      BY <2>2, <2>3, <3>4, <3>5
    <3> QED BY <2>4, <3>1, <3>2, <3>4, <3>5, <3>6, <3>7, <3>8
  <2>6. CASE q \notin S
    <3>1. Live(q) /\ ~ Within(q, order)
      BY <1>3, <1>6, <2>6
    <3>2. q \notin told
      BY <3>1 DEF CInv, Lives
    <3>3. eng'[q].hold = h /\ req'[q].out = req[q].out
      BY <2>1, <2>6, <3>2, AdvancedShape, UpdatedRows
    <3>4. a + h >= Len(req[q].out) + r
      BY <1>1, <2>1, <3>1, UnscheduledCounts
    <3>5. InStep(q)' = 0
      BY <1>1, <3>1 DEF InStep
    <3>6. h = w + 0
      BY <2>3
    <3> QED BY <2>4, <3>1, <3>3, <3>4, <3>5, <3>6
  <2> QED BY <2>5, <2>6
<1>20. SyncCounts'
  <2> SUFFICES ASSUME ~ mode.async
               PROVE  /\ Len(outputs') <= 1 /\ (outputs' # <<>> => ems' = NoStep)
                      /\ \A q \in Reqs : Live(q)' =>
                           /\ eng'[q].hold = 0
                           /\ Len(req'[q].out) = Len(eng'[q].outs) +
                                (IF Len(outputs') = 1 /\ Samples(outputs'[1], q)
                                   THEN Len(outputs'[1].toks[PlaceIn(outputs'[1].rows, q)]) ELSE 0)
                      /\ ems'.phase # "sampling"
    BY <1>1 DEF SyncCounts
  <2>1. outputs = <<>> /\ Len(outputs) = 0
    BY <1>10
  <2>2. /\ Len(outputs') <= 1 /\ (outputs' # <<>> => ems' = NoStep)
        /\ \A q \in Reqs : ~ (Len(outputs') = 1 /\ Samples(outputs'[1], q))
    <3>1. CASE order = <<>>
      <4>1. Len(outputs') = 1 /\ outputs'[1].rows = <<>>
        BY <1>11, <2>1, <3>1
      <4>2. \A q \in Reqs : ~ Samples(outputs'[1], q)
        BY <4>1 DEF Samples, Within
      <4> QED BY <1>9, <3>1, <4>1, <4>2
    <3>2. CASE order # <<>>
      BY <1>1, <2>1, <3>2
    <3> QED BY <3>1, <3>2
  <2>3. ASSUME NEW q \in Reqs, Live(q)'
        PROVE  eng'[q].hold = 0 /\ Len(req'[q].out) = Len(eng'[q].outs) + 0
    <3>1. Len(eng[q].outs) \in Nat /\ Untold(q) = 0
      BY DEF CInv, EngTyped, Listed, Untold
    <3>2. CASE q \in S
      <4>1. eng[q].hold = 0
        <5>1. CASE Live(q)
          BY <5>1 DEF CInv, SyncCounts
        <5>2. CASE ~ Live(q)
          <6>1. eng[q].st \in {"new", "running", "preempted", "done"} /\ eng[q].st # "done"
            BY <3>2, AdvancedShape DEF CInv, EngTyped
          <6> QED BY <5>2, <6>1 DEF Live, CInv, EngTyped
        <5> QED BY <5>1, <5>2
      <4>2. eng'[q].hold = eng[q].hold + 0 /\ eng'[q].outs = eng[q].outs
        BY <3>2, AdvancedShape DEF Extra
      <4>3. Len(req'[q].out) = (Len(eng[q].outs) + eng[q].hold) - 0
        BY <3>1, <3>2, UpdatedRows
      <4>4. eng'[q].hold = 0
        BY <4>1, <4>2
      <4>5. (Len(eng[q].outs) + 0) - 0 = Len(eng[q].outs) + 0
        BY <3>1
      <4> QED BY <4>1, <4>2, <4>3, <4>4, <4>5
    <3>3. CASE q \notin S
      <4>1. Live(q) /\ q \notin told
        BY <1>6, <2>3, <3>3 DEF CInv, Lives
      <4>2. eng[q].hold = 0 /\ Len(req[q].out) = Len(eng[q].outs) + 0
        BY <2>1, <4>1 DEF CInv, SyncCounts
      <4>3. /\ eng'[q].hold = eng[q].hold /\ eng'[q].outs = eng[q].outs
            /\ req'[q].out = req[q].out
        BY <3>3, <4>1, AdvancedShape, UpdatedRows
      <4> QED BY <4>2, <4>3
    <3> QED BY <3>2, <3>3
  <2>4. ems'.phase # "sampling"
    <3>1. NoStep.phase # "sampling"
      BY DEF NoStep
    <3> QED BY <1>9, <3>1
  <2> QED BY <2>2, <2>3, <2>4
<1> QED BY <1>7, <1>8, <1>13, <1>14, <1>15, <1>16, <1>18, <1>19, <1>20 DEF CInv

-----------------------------------------------------------------------------
LEMMA InitCounts == Init => CInv
<1> SUFFICES ASSUME Init PROVE CInv
  OBVIOUS
<1>1. /\ mode \in Modes /\ eng = [q \in Reqs |-> Fresh] /\ told = {}
      /\ req = [q \in Reqs |-> NoReq] /\ rows = <<>> /\ prev.set = FALSE
      /\ ems = NoStep /\ queue = <<>> /\ copying = FALSE /\ outputs = <<>>
  BY DEF Init
<1>2. /\ DOMAIN Fresh = EngFields /\ Fresh.st = "new" /\ Fresh.computed = 0 /\ Fresh.hold = 0
      /\ Fresh.specs = <<>> /\ Fresh.outs = <<>>
  BY DEF Fresh, EngFields
<1>3. /\ DOMAIN NoReq = ReqFields /\ NoReq.known = FALSE /\ NoReq.computed = 0
      /\ NoReq.out = <<>> /\ NoReq.draft = <<>>
  BY DEF NoReq, ReqFields
<1>4. NoStep.rows = <<>> /\ NoStep.phase = "none"
  BY DEF NoStep
<1>5. /\ mode.spec \in Nat /\ mode.async \in BOOLEAN /\ \A q \in Reqs : mode.most[q] \in Nat \ {0}
  BY <1>1, RunnerAssumption
<1>6. DOMAIN <<>> = {} /\ InRows(<<>>) /\ Len(<<>>) = 0 /\ \A q : ~ Within(q, <<>>)
  BY DEF InRows, Within
<1>7. \A q \in Reqs : eng[q] = Fresh /\ req[q] = NoReq /\ ~ Live(q)
  BY <1>1, <1>2 DEF Live
<1>8. EngTyped
  <2>1. eng = [q \in Reqs |-> eng[q]]
    BY <1>1
  <2>2. 0 \in Int /\ Listed(<<>>)
    BY ListedLiterals
  <2> QED BY <1>2, <1>7, <2>1, <2>2 DEF EngTyped
<1>9. ReqTyped
  <2>1. req = [q \in Reqs |-> req[q]]
    BY <1>1
  <2>2. 0 \in Int /\ Listed(<<>>) /\ FALSE \in BOOLEAN
    BY ListedLiterals
  <2> QED BY <1>3, <1>7, <2>1, <2>2 DEF ReqTyped
<1>10. Lives
  BY <1>1, <1>3, <1>4, <1>6, <1>7 DEF Lives
<1>11. OutTyped
  BY <1>1, <1>6 DEF OutTyped
<1>12. Batch
  BY <1>1, <1>2, <1>3, <1>5, <1>6, <1>7 DEF Batch
<1>13. LastStep /\ ThisStep
  BY <1>1, <1>6 DEF LastStep, ThisStep
<1>14. AsyncCounts
  BY <1>7 DEF AsyncCounts
<1>15. SyncCounts
  BY <1>1, <1>4, <1>6, <1>7 DEF SyncCounts
<1> QED BY <1>8, <1>9, <1>10, <1>11, <1>12, <1>13, <1>14, <1>15 DEF CInv

LEMMA NextCounts ==
  ASSUME Pipeline, CInv, [Next]_vars
  PROVE  CInv'
<1>1. CASE Schedule
  <2>1. PICK S \in SUBSET Schedulable :
          \E n \in {f \in [S -> 1..8] : \A q \in S : f[q] <= NumNew(q)} :
            \E P \in SUBSET {q \in Reqs \ S : eng[q].st = "running"} :
              \E order \in SetToSeqs(S) : ExecuteModel(n, P, order)
    BY <1>1 DEF Schedule
  <2>2. PICK n, P, order : Steps(n, S, P, order)
    BY <2>1 DEF Steps, Scheduled
  <2> QED BY <2>2, ExecuteCounts
<1>2. CASE SampleTokensAsync
  BY <1>2, SampleAsyncCounts
<1>3. CASE SampleTokens
  BY <1>3, SampleCounts
<1>4. CASE FinishSync
  BY <1>4, FinishCounts
<1>5. CASE GpuInput
  BY <1>5, GpuInputCounts
<1>6. ASSUME NEW acc \in UNION {[1..k -> 0..mode.spec] : k \in 1..Cardinality(Reqs)}, GpuSample(acc)
      PROVE  CInv'
  <2>1. PICK k \in 1..Cardinality(Reqs) : acc \in [1..k -> 0..mode.spec]
    BY <1>6
  <2>2. acc \in [1..k -> Nat]
    BY <2>1
  <2> QED BY <1>6, <2>2, GpuSampleCounts
<1>7. CASE CopyCounts
  BY <1>7, CopyCountsCounts
<1>8. CASE TakeOutput
  BY <1>8, TakeCounts
<1>9. ASSUME NEW q \in Reqs, Abort(q) \/ Resubmit(q)
      PROVE  CInv'
  BY <1>9, AbortCounts, ResubmitCounts
<1>10. CASE Idle \/ UNCHANGED vars
  <2>1. UNCHANGED Counted /\ queue' = queue
    BY <1>10 DEF Idle, vars, Counted
  <2> QED BY <2>1, FrameCounts
<1> QED BY <1>1, <1>2, <1>3, <1>4, <1>5, <1>6, <1>7, <1>8, <1>9, <1>10 DEF Next

(* Every step that changes the cached requests.                               *)
Grows == \A q \in Reqs \ told : req[q].known /\ req'[q].known => Len(req'[q].out) >= Len(req[q].out)
LEMMA UnchangedGrows == ASSUME CInv, req' = req PROVE Grows
<1>1. \A q \in Reqs : Len(req[q].out) \in Nat
  BY DEF CInv, ReqTyped, Listed
<1> QED BY <1>1 DEF Grows

LEMMA BookedGrows ==
  ASSUME CInv, ems # NoStep, NEW ids, req' = Booked(ems.rows, ids),
         \A i \in DOMAIN rows : ~ buf.discard[i] => Listed(ids[i])
  PROVE  Grows
<1> SUFFICES ASSUME NEW q \in Reqs PROVE Len(req'[q].out) >= Len(req[q].out)
  BY DEF Grows
<1> DEFINE d == IF IsSampled(q) THEN Len(ids[PlaceIn(rows, q)]) ELSE 0
<1>1. Len(req'[q].out) = Len(req[q].out) + d
  BY BookedCounts
<1>2. d \in Nat
  <2>1. IsSampled(q) => PlaceIn(rows, q) \in DOMAIN rows /\ ~ buf.discard[PlaceIn(rows, q)]
    BY PlaceOfRow DEF IsSampled, CInv, Batch
  <2>2. IsSampled(q) => Len(ids[PlaceIn(rows, q)]) \in Nat
    BY <2>1 DEF Listed
  <2> QED BY <2>2
<1>3. Len(req[q].out) \in Nat
  BY DEF CInv, ReqTyped, Listed
<1>4. PICK r, t : r = Len(req[q].out) /\ t = d
  OBVIOUS
<1>5. r \in Nat /\ t \in Nat
  BY <1>2, <1>3, <1>4
<1>6. r + t >= r
  BY <1>5
<1> HIDE DEF d
<1> QED BY <1>1, <1>4, <1>6

LEMMA NextGrows ==
  ASSUME Pipeline, CInv, [Next]_vars
  PROVE  Grows
<1>1. CASE Schedule
  <2>1. PICK S \in SUBSET Schedulable :
          \E n \in {f \in [S -> 1..8] : \A q \in S : f[q] <= NumNew(q)} :
            \E P \in SUBSET {q \in Reqs \ S : eng[q].st = "running"} :
              \E order \in SetToSeqs(S) : ExecuteModel(n, P, order)
    BY <1>1 DEF Schedule
  <2>2. PICK n, P, order : Steps(n, S, P, order)
    BY <2>1 DEF Steps, Scheduled
  <2>3. ASSUME NEW q \in Reqs \ told, req[q].known
        PROVE  Len(req'[q].out) >= Len(req[q].out)
    <3>1. Live(q) /\ q \in Reqs /\ Len(req[q].out) \in Nat
      BY <2>3 DEF CInv, Lives, ReqTyped, Listed
    <3>2. CASE q \in S
      BY <2>2, <3>1, <3>2, UpdatedRows
    <3>3. CASE q \notin S
      <4>1. req'[q].out = req[q].out
        BY <2>2, <2>3, <3>3, UpdatedRows
      <4> QED BY <3>1, <4>1
    <3> QED BY <3>2, <3>3
  <2> QED BY <2>3 DEF Grows
<1>2. CASE SampleTokensAsync
  <2>1. /\ ems.phase = "executed"
        /\ req' = Booked(ems.rows, [i \in DOMAIN ems.rows |-> <<Hole>>])
    BY <1>2 DEF SampleTokensAsync
  <2>2. ems # NoStep /\ ems.rows = rows
    BY <2>1 DEF NoStep, CInv, Batch
  <2> DEFINE ids == [i \in DOMAIN rows |-> <<Hole>>]
  <2>3. req' = Booked(ems.rows, ids)
    BY <2>1, <2>2
  <2>4. \A i \in DOMAIN rows : Listed(ids[i])
    BY ListedLiterals
  <2> HIDE DEF ids
  <2> QED BY <2>2, <2>3, <2>4, BookedGrows
<1>3. CASE FinishSync
  <2>1. ems.phase = "sampling" /\ queue = <<>> /\ req' = Booked(ems.rows, gpu.toks)
    BY <1>3 DEF FinishSync
  <2>2. ems # NoStep /\ ~ mode.async
    BY <2>1 DEF NoStep, Pipeline, Async
  <2>3. \A i \in DOMAIN rows : Listed(gpu.toks[i])
    BY <2>1, <2>2 DEF CInv, SyncCounts
  <2> QED BY <2>1, <2>2, <2>3, BookedGrows
<1>4. CASE SampleTokens \/ GpuInput \/ CopyCounts \/ TakeOutput
  <2>1. req' = req
    BY <1>4 DEF SampleTokens, GpuInput, CopyCounts, TakeOutput
  <2> QED BY <2>1, UnchangedGrows
<1>5. ASSUME NEW acc, GpuSample(acc) PROVE Grows
  <2>1. req' = req
    BY <1>5 DEF GpuSample
  <2> QED BY <2>1, UnchangedGrows
<1>6. ASSUME NEW q \in Reqs, Abort(q) \/ Resubmit(q) PROVE Grows
  <2>1. req' = req
    BY <1>6 DEF Abort, Resubmit
  <2> QED BY <2>1, UnchangedGrows
<1>7. CASE Idle \/ UNCHANGED vars
  <2>1. req' = req
    BY <1>7 DEF Idle, vars
  <2> QED BY <2>1, UnchangedGrows
<1> QED BY <1>1, <1>2, <1>3, <1>4, <1>5, <1>6, <1>7 DEF Next

(* The engine's count of a request's outputs is at all times its cached count  *)
(* plus what is under way and not yet rejected: _update_states never has fewer *)
(* outputs to keep than it has cached, so neither its "output tokens were      *)
(* discarded" branch nor its recovery from all_token_ids loses a token, for    *)
(* any number of requests, drafts, preemptions, aborts and reused names.       *)
THEOREM CachedOutputsOnlyGrow == Spec => CachedOutputsNeverShrink
<1>1. Init => Pipeline /\ CInv
  BY InitPipeline, InitCounts
<1>2. Pipeline /\ CInv /\ [Next]_vars => Pipeline' /\ CInv'
  BY NextPipeline, NextCounts
<1>3. Pipeline /\ CInv /\ [Next]_vars =>
        [\A q \in Reqs \ told : req[q].known /\ req'[q].known
           => Len(req'[q].out) >= Len(req[q].out)]_vars
  BY NextGrows DEF Grows
<1> QED BY <1>1, <1>2, <1>3, PTL DEF Spec, CachedOutputsNeverShrink

(* A request whose drafts are to be corrected was in the step before: it is    *)
(* always found in prev_req_id_to_index, whatever left, came back or moved.    *)
LEMMA NextFinds ==
  ASSUME Pipeline, CInv, ~ failed, [Next]_vars
  PROVE  ~ failed'
<1>1. CASE Schedule
  <2>1. PICK S \in SUBSET Schedulable :
          \E n \in {f \in [S -> 1..8] : \A q \in S : f[q] <= NumNew(q)} :
            \E P \in SUBSET {q \in Reqs \ S : eng[q].st = "running"} :
              \E order \in SetToSeqs(S) : ExecuteModel(n, P, order)
    BY <1>1 DEF Schedule
  <2>2. PICK n, P, order : Steps(n, S, P, order)
    BY <2>1 DEF Steps, Scheduled
  <2>3. ~ LookupFails(SchedOut(n))
    BY <2>2, UpdatedShape
  <2>4. failed' = (failed \/ LookupFails(SchedOut(n)))
    BY <2>2 DEF Steps, ExecuteModel
  <2> QED BY <2>3, <2>4
<1>2. CASE SampleTokensAsync \/ SampleTokens \/ FinishSync \/ GpuInput \/ CopyCounts \/ TakeOutput
  BY <1>2 DEF SampleTokensAsync, SampleTokens, FinishSync, GpuInput, CopyCounts, TakeOutput
<1>3. ASSUME NEW acc, GpuSample(acc) PROVE ~ failed'
  BY <1>3 DEF GpuSample
<1>4. ASSUME NEW q \in Reqs, Abort(q) \/ Resubmit(q) PROVE ~ failed'
  BY <1>4 DEF Abort, Resubmit
<1>5. CASE Idle \/ UNCHANGED vars
  BY <1>5 DEF Idle, vars
<1> QED BY <1>1, <1>2, <1>3, <1>4, <1>5 DEF Next

(* No step raises a KeyError at prev_req_id_to_index: the second half of       *)
(* FedTheRequestsTokens, for every number of requests and steps.              *)
THEOREM LookupsSucceed == Spec => [](~ failed)
<1>1. Init => Pipeline /\ CInv /\ ~ failed
  BY InitPipeline, InitCounts DEF Init
<1>2. Pipeline /\ CInv /\ ~ failed /\ [Next]_vars => Pipeline' /\ CInv' /\ ~ failed'
  BY NextPipeline, NextCounts, NextFinds
<1> QED BY <1>1, <1>2, PTL DEF Spec
-----------------------------------------------------------------------------
(* Where in a request's sequence the result of its j-th output begins: behind  *)
(* what the engine has of it and what the output before this will add.         *)
Due(q, j) == prompt[q] + Len(eng[q].outs)
               + (IF j = 2 THEN Held(outputs[1], q) - Rejects(outputs[1], q) ELSE 0)

(* The step whose inputs are in b samples each request where its result is due. *)
Fit(b, rw, j) == \A i \in DOMAIN rw : ~ b.discard[i] /\ Live(rw[i]) =>
  b.start[i] + b.n[i] - b.spec[i] = Due(rw[i], j)
(* The tokens of a request are its next ones. *)
NextToks(q, t, j) == /\ Len(t) \in Nat /\ Len(t) <= mode.spec + 1
                  /\ t = Toks(q, Due(q, j), Len(t))

HasInput == \E i \in DOMAIN queue : queue[i].op = "input"
Sampling == queue # <<>> /\ Head(queue).op = "sample"
Pending(k) == k \in DOMAIN outputs /\ ~ outputs[k].ready

OutputsFit == \A j \in DOMAIN outputs : \A i \in DOMAIN outputs[j].rows :
  outputs[j].ready /\ i \notin outputs[j].invalid /\ Live(outputs[j].rows[i])
    => NextToks(outputs[j].rows[i], outputs[j].toks[i], j)
FedFits == \A k \in DOMAIN outputs :
  Sampling /\ Pending(k) /\ (\A j \in 1..(k - 1) : outputs[j].ready)
    => Fit(fed, outputs[k].rows, k)
BufFits == \A k \in DOMAIN outputs :
  HasInput /\ ems = NoStep /\ Pending(k) /\ (\A j \in DOMAIN outputs : j > k => outputs[j].ready)
    => Fit(buf, outputs[k].rows, k)
StepFits ==
  ems # NoStep =>
    /\ HasInput => Fit(buf, rows, Len(outputs) + 1)
    /\ ~ HasInput /\ (Executing \/ queue # <<>>) => Fit(fed, rows, Len(outputs) + 1)
    /\ ~ Executing /\ queue = <<>> => \A i \in DOMAIN rows :
         ~ buf.discard[i] /\ Live(rows[i]) => NextToks(rows[i], gpu.toks[i], 1)
PInv == OutputsFit /\ FedFits /\ BufFits /\ StepFits
-----------------------------------------------------------------------------
LEMMA OutputRows ==
  ASSUME CInv, NEW j \in DOMAIN outputs
  PROVE  /\ InRows(outputs[j].rows)
         /\ \A i \in DOMAIN outputs[j].rows : outputs[j].rows[i] \in Reqs
BY DEF CInv, OutTyped, InRows

LEMMA BatchRows == CInv => InRows(rows) /\ \A i \in DOMAIN rows : rows[i] \in Reqs
BY DEF CInv, Batch, InRows

(* Nothing the positions are about; requests may be lost.                      *)
Placed == <<mode, outputs, rows, buf, fed, queue, ems, gpu>>
LEMMA FramePositions ==
  ASSUME CInv, PInv, UNCHANGED Placed,
         \A q \in Reqs : Live(q)' => /\ Live(q) /\ eng'[q].outs = eng[q].outs
                                     /\ life'[q] = life[q]
  PROVE  PInv'
<1>1. ASSUME NEW q \in Reqs, Live(q)'
      PROVE  /\ Live(q) /\ \A j : Due(q, j)' = Due(q, j)
             /\ \A t, j : NextToks(q, t, j)' = NextToks(q, t, j)
  <2>1. Live(q) /\ eng'[q].outs = eng[q].outs /\ life'[q] = life[q] /\ outputs' = outputs
        /\ mode' = mode
    BY <1>1 DEF Placed
  <2>2. \A j : Due(q, j)' = Due(q, j)
    BY <2>1 DEF Due, Held, Rejects, Samples
  <2> QED BY <2>1, <2>2 DEF NextToks, Toks, Tok
<1>2. OutputsFit'
  BY <1>1, OutputRows DEF PInv, OutputsFit, Placed
<1>3. FedFits'
  BY <1>1, OutputRows DEF PInv, FedFits, Placed, Fit, Sampling, Pending
<1>4. BufFits'
  BY <1>1, OutputRows DEF PInv, BufFits, Placed, Fit, HasInput, Pending
<1>5. StepFits'
  BY <1>1, BatchRows DEF PInv, StepFits, Placed, Fit, HasInput, Executing
<1> QED BY <1>2, <1>3, <1>4, <1>5 DEF PInv
-----------------------------------------------------------------------------
(* Before a step is executed the device has read the inputs of the last one.   *)
LEMMA ReadyQueue ==
  ASSUME Pipeline, Ready
  PROVE  /\ ~ HasInput /\ \E T : queue \in Seq(T)
         /\ DOMAIN queue = 1..Len(queue) /\ Len(queue) \in 0..1
<1>1. PICK T : queue \in Seq(T)
  BY DEF Pipeline, Shaped
<1>2. DOMAIN queue = 1..Len(queue) /\ Len(queue) \in Nat
  BY <1>1, LenProperties
<1>3. ems = NoStep /\ ems.phase = "none"
  BY DEF Ready, NoStep
<1>4. CASE mode.async
  <2>1. ~ HasInput
    BY <1>4 DEF Ready, Synchronized, HasInput
  <2>2. Empty \/ Sa
    BY <1>2, <1>3, <1>4, <2>1 DEF Pipeline, Async, Empty, In, Sa, InSa, SaIn, SaInSa, HasInput
  <2>3. Len(queue) \in 0..1
    BY <2>2 DEF Empty, Sa
  <2> QED BY <1>1, <1>2, <2>1, <2>3
<1>5. CASE ~ mode.async
  <2>1. Len(queue) = 0
    BY <1>3, <1>5 DEF Pipeline, Sync
  <2>2. ~ HasInput
    BY <1>2, <2>1 DEF HasInput
  <2> QED BY <1>1, <1>2, <2>1, <2>2
<1> QED BY <1>4, <1>5 DEF Pipeline

(* A request that is not sampled partially gets the drafts that are left of its *)
(* part.                                                                      *)
LEMMA SpecsLength ==
  ASSUME CInv, NEW q \in Reqs, NEW n, n[q] \in Nat, n[q] <= NumNew(q), prompt[q] \in Nat,
         ~ Partial(n, q)
  PROVE  eng[q].computed + n[q] - Len(Specs(q, n[q])) = NumTokens(q) + eng[q].hold
<1>1. /\ Listed(eng[q].specs) /\ eng[q].computed \in Int /\ eng[q].hold \in Int
      /\ Len(eng[q].outs) \in Nat /\ Len(eng[q].specs) \in Nat
  BY DEF CInv, EngTyped, Listed
<1>2. NumTokens(q) \in Nat
  BY <1>1 DEF NumTokens
<1>3. PICK k, c, t, h, s : /\ k = n[q] /\ c = eng[q].computed /\ t = NumTokens(q)
                           /\ h = eng[q].hold /\ s = Len(eng[q].specs)
  OBVIOUS
<1>4. k \in Nat /\ c \in Int /\ t \in Nat /\ h \in Int /\ s \in Nat
      /\ k <= (t + s) + (h - c) /\ ~ (c + k < t + h)
  BY <1>1, <1>2, <1>3 DEF NumNew, Partial
<1>5. PICK d : d = k + c - t - h
  OBVIOUS
<1>6. d \in Nat /\ d <= s /\ c + k - d = t + h
  BY <1>4, <1>5
<1>7. Specs(q, k) = IF d > 0 THEN SubSeq(eng[q].specs, 1, d) ELSE <<>>
  BY <1>3, <1>5 DEF Specs
<1>8. Len(Specs(q, k)) = d
  <2>1. CASE d > 0
    <3>1. d \in 0..Len(eng[q].specs)
      BY <1>3, <1>6
    <3> QED BY <1>1, <1>7, <2>1, <3>1, ListedFront
  <2>2. CASE ~ (d > 0)
    <3>1. d = 0
      BY <1>6, <2>2
    <3> QED BY <1>7, <2>2, <3>1, ListedLiterals
  <2> QED BY <2>1, <2>2
<1> QED BY <1>3, <1>6, <1>8

(* execute_model prepares the step so that it samples behind all that is under *)
(* way.                                                                       *)
LEMMA ExecutedStart ==
  ASSUME Pipeline, CInv, NEW n, NEW S, NEW P, NEW order, Steps(n, S, P, order),
         NEW q \in S, q \in Reqs,
         ~ (req'[q].computed + n[q] < prompt[q] + Len(req'[q].out))
  PROVE  req'[q].computed + n[q] - Len(req'[q].draft) = Due(q, Len(outputs) + 1)
<1>1. /\ Ready /\ n[q] \in Nat /\ n[q] <= NumNew(q) /\ prompt[q] \in Nat /\ eng[q].st # "done"
  BY UpdatedShape, AdvancedShape
<1>2. /\ req'[q].computed = eng[q].computed - Untold(q)
      /\ req'[q].draft = Specs(q, n[q]) /\ Untold(q) \in Nat
      /\ Len(req'[q].out) = (Len(eng[q].outs) + eng[q].hold) - Untold(q)
  BY UpdatedRows
<1>3. PICK k, c, a, h, u, p, d :
        /\ k = n[q] /\ c = eng[q].computed /\ a = Len(eng[q].outs) /\ h = eng[q].hold
        /\ u = Untold(q) /\ p = prompt[q] /\ d = Len(Specs(q, n[q]))
  OBVIOUS
<1>4. /\ k \in Nat /\ c \in Int /\ a \in Nat /\ h \in Int /\ u \in Nat /\ p \in Nat
  BY <1>1, <1>2, <1>3 DEF CInv, EngTyped, Listed
<1>5. d \in Nat
  BY <1>1, <1>3, SpecsShape
<1>6. ~ ((c - u) + k < p + ((a + h) - u))
  BY <1>2, <1>3
<1>7. ~ (c + k < (p + a) + h)
  BY <1>4, <1>6
<1>8. ~ Partial(n, q)
  BY <1>3, <1>7 DEF Partial, NumTokens
<1>9. c + k - d = (p + a) + h
  BY <1>1, <1>3, <1>8, SpecsLength DEF NumTokens
<1>10. req'[q].computed + n[q] - Len(req'[q].draft) = (p + a) + (h - u)
  <2>1. (c - u) + k - d = (p + a) + (h - u)
    BY <1>4, <1>5, <1>9
  <2> QED BY <1>2, <1>3, <2>1
<1>11. h - u = IF Len(outputs) = 1 THEN Held(outputs[1], q) - Rejects(outputs[1], q) ELSE 0
  <2>1. eng[q].st = "new" \/ Live(q)
    BY <1>1 DEF CInv, EngTyped, Live
  <2>2. CASE mode.async
    <3>1. h = HeldOut(q) /\ u = AllRejects(q)
      <4>1. eng[q].hold = HeldOut(q)
        BY <1>1, <2>1, <2>2, NewCounts, UnscheduledCounts
      <4> QED BY <1>3, <2>2, <4>1 DEF Untold
    <3>2. CASE Len(outputs) = 1
      <4>1. 1 \in DOMAIN outputs
        BY <1>1, <3>2, OneOutput
      <4>2. Held(outputs[1], q) \in Int /\ Rejects(outputs[1], q) \in Int
        BY <4>1, HeldTyped
      <4>3. HeldOut(q) = Held(outputs[1], q) /\ AllRejects(q) = Rejects(outputs[1], q)
        BY <3>2, <4>2 DEF HeldOut, AllRejects
      <4> QED BY <3>1, <3>2, <4>3
    <3>3. CASE Len(outputs) = 0
      BY <3>1, <3>3 DEF HeldOut, AllRejects
    <3> QED BY <1>1, <3>2, <3>3, OneOutput
  <2>3. CASE ~ mode.async
    <3>1. u = 0
      BY <1>3, <2>3 DEF Untold
    <3>2. h = 0
      BY <1>3, <2>1, <2>3 DEF CInv, SyncCounts, EngTyped
    <3>3. Len(outputs) = 0
      BY <1>1, <2>3, OneOutput
    <3> QED BY <3>1, <3>2, <3>3
  <2> QED BY <2>2, <2>3 DEF Pipeline
<1>12. Len(outputs) \in 0..1
  BY <1>1, OneOutput
<1>13. (Len(outputs) + 1 = 2) <=> Len(outputs) = 1
  <2>1. \A m \in 0..1 : (m + 1 = 2) <=> m = 1
    OBVIOUS
  <2> QED BY <1>12, <2>1
<1>14. Due(q, Len(outputs) + 1) = (p + a) + (h - u)
  <2>1. CASE Len(outputs) = 1
    <3>1. Due(q, Len(outputs) + 1) = prompt[q] + Len(eng[q].outs) + (Held(outputs[1], q) - Rejects(outputs[1], q))
      BY <1>13, <2>1 DEF Due
    <3>2. Held(outputs[1], q) - Rejects(outputs[1], q) = h - u
      BY <1>11, <2>1
    <3> QED BY <1>3, <1>4, <3>1, <3>2
  <2>2. CASE Len(outputs) # 1
    <3>1. Due(q, Len(outputs) + 1) = prompt[q] + Len(eng[q].outs) + 0
      BY <1>13, <2>2 DEF Due
    <3> QED BY <1>3, <1>4, <1>11, <2>2, <3>1
  <2> QED BY <2>1, <2>2
<1> QED BY <1>10, <1>14

LEMMA ExecutePositions ==
  ASSUME Pipeline, CInv, PInv, NEW n, NEW S, NEW P, NEW order, Steps(n, S, P, order)
  PROVE  PInv'
<1>1. /\ Ready /\ S \subseteq Reqs
      /\ IF order = <<>>
           THEN /\ \E x : outputs' = Append(outputs, x) /\ x.rows = <<>> /\ x.ready = TRUE
                          /\ "toks" \in DOMAIN x
                /\ UNCHANGED <<buf, ems, queue>>
           ELSE /\ buf' = Prepared(order, req', n)
                /\ ems' = [rows |-> order, phase |-> "executed"]
                /\ UNCHANGED outputs
      /\ rows' = order /\ UNCHANGED <<mode, gpu, counts, copying>>
  BY UpdatedShape
<1>2. UNCHANGED <<life, fed>> /\ ems = NoStep
  BY <1>1 DEF Steps, ExecuteModel, Ready
<1>3. /\ ~ HasInput /\ \E T : queue \in Seq(T)
      /\ DOMAIN queue = 1..Len(queue) /\ Len(queue) \in 0..1
  BY <1>1, ReadyQueue
<1>4. /\ Len(outputs) \in 0..1 /\ DOMAIN outputs = 1..Len(outputs)
  BY <1>1, OneOutput
<1>5. ASSUME NEW q \in Reqs, Live(q)'
      PROVE  /\ q \in S \/ Live(q)
             /\ Due(q, 1)' = Due(q, 1) /\ \A t : NextToks(q, t, 1)' = NextToks(q, t, 1)
  <2>1. eng'[q].outs = eng[q].outs /\ (q \in S \/ Live(q))
    BY <1>5, AdvancedShape DEF Live
  <2>2. Due(q, 1)' = Due(q, 1)
    BY <2>1 DEF Due
  <2> QED BY <1>1, <1>2, <2>1, <2>2 DEF NextToks, Toks, Tok
<1>6. ASSUME NEW q \in Reqs, Live(q)', NEW j \in DOMAIN outputs, Within(q, outputs[j].rows)
      PROVE  Live(q)
  <2>1. eng[q].st # "new"
    BY <1>6 DEF CInv, Lives
  <2>2. q \in S => eng[q].st # "done"
    BY AdvancedShape
  <2> QED BY <1>5, <1>6, <2>1, <2>2 DEF CInv, EngTyped, Live
<1>7. \A j \in DOMAIN outputs : j = 1
  BY <1>4
<1>8. CASE order = <<>>
  <2>1. PICK x : outputs' = Append(outputs, x) /\ x.rows = <<>> /\ x.ready = TRUE
    BY <1>1, <1>8
  <2>2. /\ DOMAIN outputs' = 1..(Len(outputs) + 1)
        /\ outputs'[Len(outputs) + 1] = x
        /\ \A i \in 1..Len(outputs) : outputs'[i] = outputs[i]
    BY <2>1, OutputAppended
  <2>3. ASSUME NEW j \in DOMAIN outputs', outputs'[j].rows # <<>>
        PROVE  j \in DOMAIN outputs /\ j = 1 /\ outputs'[j] = outputs[j]
    BY <1>4, <1>7, <2>1, <2>2, <2>3
  <2>4. UNCHANGED <<buf, ems, queue>>
    BY <1>1, <1>8
  <2>5. OutputsFit'
    <3> SUFFICES ASSUME NEW j \in DOMAIN outputs', NEW i \in DOMAIN outputs'[j].rows,
                        outputs'[j].ready, i \notin outputs'[j].invalid, Live(outputs[j].rows[i])',
                        outputs'[j] = outputs[j], j \in DOMAIN outputs, j = 1
                 PROVE  NextToks(outputs[j].rows[i], outputs[j].toks[i], j)'
      <4>1. ASSUME NEW j \in DOMAIN outputs', NEW i \in DOMAIN outputs'[j].rows
            PROVE  j \in DOMAIN outputs /\ j = 1 /\ outputs'[j] = outputs[j]
        <5>1. outputs'[j].rows # <<>>
          BY <4>1
        <5> QED BY <2>3, <5>1
      <4> QED BY <4>1 DEF OutputsFit
    <3>1. outputs[j].rows[i] \in Reqs /\ Live(outputs[j].rows[i])
      <4>1. PICK q : q = outputs[j].rows[i]
        OBVIOUS
      <4>2. q \in Reqs /\ Within(q, outputs[j].rows)
        BY <4>1, OutputRows DEF Within
      <4>3. Live(q)'
        BY <2>1, <4>1 DEF Live
      <4> QED BY <1>6, <4>1, <4>2, <4>3
    <3>2. NextToks(outputs[j].rows[i], outputs[j].toks[i], j)
      BY <3>1 DEF PInv, OutputsFit
    <3> QED BY <1>5, <3>1, <3>2
  <2>6. FedFits'
    <3> SUFFICES ASSUME NEW k \in DOMAIN outputs', Sampling', Pending(k)',
                        \A j \in 1..(k - 1) : outputs'[j].ready
                 PROVE  Fit(fed, outputs[k].rows, k)'
      BY DEF FedFits
    <3>1. k = 1 /\ k \in DOMAIN outputs /\ outputs'[k] = outputs[k]
      BY <1>4, <1>7, <2>1, <2>2 DEF Pending
    <3>2. Sampling /\ Pending(k)
      BY <2>4, <3>1 DEF Sampling, Pending
    <3>3. Fit(fed, outputs[k].rows, k)
      BY <3>1, <3>2 DEF PInv, FedFits
    <3> QED BY <1>2, <1>5, <1>6, <3>1, <3>3, OutputRows DEF Fit, Within
  <2>7. BufFits'
    BY <1>3, <2>4 DEF BufFits, HasInput
  <2>8. StepFits'
    BY <1>2, <2>4 DEF StepFits, NoStep
  <2> QED BY <2>5, <2>6, <2>7, <2>8 DEF PInv
<1>9. CASE order # <<>>
  <2>1. /\ buf' = Prepared(order, req', n) /\ ems' = [rows |-> order, phase |-> "executed"]
        /\ UNCHANGED outputs
    BY <1>1, <1>9
  <2>2. PICK op : queue' = Append(queue, op) /\ op.op = "input"
    <3>1. ~ LookupFails(SchedOut(n))
      BY UpdatedShape
    <3>2. queue' = Append(queue, InputOp(order, buf', prev'))
      BY <1>9, <3>1 DEF Steps, ExecuteModel
    <3> QED BY <3>2, InputOpFields
  <2>3. /\ \E T : queue' \in Seq(T) /\ Len(queue') = Len(queue) + 1
        /\ queue'[Len(queue) + 1] = op /\ \A i \in 1..Len(queue) : queue'[i] = queue[i]
        /\ DOMAIN queue' = 1..(Len(queue) + 1)
    <3>1. PICK T : queue \in Seq(T)
      BY <1>3
    <3> QED BY <2>2, <3>1, AppendShape
  <2>4. HasInput'
    <3>1. Len(queue) + 1 \in DOMAIN queue'
      BY <1>3, <2>3
    <3> QED BY <2>2, <2>3, <3>1 DEF HasInput
  <2>5. Sampling' => Sampling
    <3> SUFFICES ASSUME Sampling' PROVE Sampling
      OBVIOUS
    <3>1. Head(queue') = queue'[1]
      BY DEF Sampling
    <3>2. Len(queue) = 1
      <4>1. Len(queue) = 0 => queue'[1] = op
        BY <2>3
      <4> QED BY <1>3, <2>2, <3>1, <4>1 DEF Sampling
    <3>3. queue # <<>> /\ Head(queue) = queue[1]
      <4>1. PICK T : queue \in Seq(T)
        BY <1>3
      <4>2. queue # <<>>
        BY <3>2, <4>1, EmptySeq
      <4> QED BY <4>1, <4>2, TailShape
    <3> QED BY <2>3, <3>1, <3>2, <3>3 DEF Sampling
  <2>6. OutputsFit'
    <3> SUFFICES ASSUME NEW j \in DOMAIN outputs, NEW i \in DOMAIN outputs[j].rows,
                        outputs[j].ready, i \notin outputs[j].invalid, Live(outputs[j].rows[i])'
                 PROVE  NextToks(outputs[j].rows[i], outputs[j].toks[i], j)'
      BY <2>1 DEF OutputsFit
    <3>1. outputs[j].rows[i] \in Reqs /\ Live(outputs[j].rows[i])
      <4>1. PICK q : q = outputs[j].rows[i]
        OBVIOUS
      <4>2. q \in Reqs /\ Within(q, outputs[j].rows)
        BY <4>1, OutputRows DEF Within
      <4>3. Live(q)'
        BY <2>1, <4>1 DEF Live
      <4> QED BY <1>6, <4>1, <4>2, <4>3
    <3>2. NextToks(outputs[j].rows[i], outputs[j].toks[i], j)
      BY <3>1 DEF PInv, OutputsFit
    <3> QED BY <1>5, <1>7, <2>1, <3>1, <3>2
  <2>7. FedFits'
    <3> SUFFICES ASSUME NEW k \in DOMAIN outputs, Sampling', Pending(k)',
                        \A j \in 1..(k - 1) : outputs[j].ready
                 PROVE  Fit(fed, outputs[k].rows, k)'
      BY <2>1 DEF FedFits
    <3>1. Sampling /\ Pending(k) /\ k = 1
      BY <1>7, <2>1, <2>5 DEF Pending
    <3>2. Fit(fed, outputs[k].rows, k)
      BY <3>1 DEF PInv, FedFits
    <3> QED BY <1>2, <1>5, <1>6, <2>1, <3>1, <3>2, OutputRows DEF Fit, Within
  <2>8. BufFits'
    BY <2>1 DEF BufFits, NoStep
  <2>9. Fit(buf, rows, Len(outputs) + 1)'
    <3> SUFFICES ASSUME NEW i \in DOMAIN order, ~ buf'.discard[i]
                 PROVE  buf'.start[i] + buf'.n[i] - buf'.spec[i] = Due(order[i], Len(outputs) + 1)'
      BY <1>1 DEF Fit
    <3>1. PICK q : q = order[i]
      OBVIOUS
    <3>2. q \in S /\ q \in Reqs
      <4>1. order \in SetToSeqs(S)
        BY DEF Steps
      <4>2. InRows(order) /\ \A r : Within(r, order) <=> r \in S
        BY <1>1, <4>1, OrderRows
      <4> QED BY <1>1, <3>1, <4>2, PlaceOfRow
    <3>3. /\ buf'.start[i] = req'[q].computed /\ buf'.n[i] = n[q]
          /\ buf'.spec[i] = Len(req'[q].draft)
          /\ ~ (req'[q].computed + n[q] < prompt[q] + Len(req'[q].out))
      BY <2>1, <3>1 DEF Prepared
    <3>4. req'[q].computed + n[q] - Len(req'[q].draft) = Due(q, Len(outputs) + 1)
      BY <3>2, <3>3, ExecutedStart
    <3>5. Due(q, Len(outputs) + 1)' = Due(q, Len(outputs) + 1)
      <4>1. eng'[q].outs = eng[q].outs
        BY <3>2, AdvancedShape
      <4> QED BY <2>1, <4>1 DEF Due, Held, Rejects, Samples
    <3>6. Due(q, Len(outputs) + 1)' = Due(order[i], Len(outputs) + 1)'
      BY <3>1
    <3> QED BY <3>3, <3>4, <3>5, <3>6
  <2>10. Executing'
    BY <2>1 DEF Executing
  <2>11. StepFits'
    BY <2>4, <2>9, <2>10 DEF StepFits
  <2> QED BY <2>6, <2>7, <2>8, <2>11 DEF PInv
<1> QED BY <1>8, <1>9
-----------------------------------------------------------------------------
(* A step that leaves the engine's view alone moves no request's next token,   *)
(* as far as the first output stays or there is none.                         *)
LEMMA DueStays ==
  ASSUME NEW q \in Reqs, UNCHANGED <<mode, eng, life>>
  PROVE  /\ Live(q)' = Live(q) /\ Due(q, 1)' = Due(q, 1)
         /\ \A t : NextToks(q, t, 1)' = NextToks(q, t, 1)
         /\ outputs'[1] = outputs[1] => /\ Due(q, 2)' = Due(q, 2)
                                        /\ \A t : NextToks(q, t, 2)' = NextToks(q, t, 2)
<1>1. Live(q)' = Live(q)
  BY DEF Live
<1>2. Due(q, 1)' = Due(q, 1)
  BY DEF Due
<1>3. \A t : NextToks(q, t, 1)' = NextToks(q, t, 1)
  BY <1>2 DEF NextToks, Toks, Tok
<1>4. ASSUME outputs'[1] = outputs[1]
      PROVE  Due(q, 2)' = Due(q, 2) /\ \A t : NextToks(q, t, 2)' = NextToks(q, t, 2)
  <2>1. Due(q, 2)' = Due(q, 2)
    BY <1>4 DEF Due, Held, Rejects, Samples
  <2> QED BY <2>1 DEF NextToks, Toks, Tok
<1> QED BY <1>1, <1>2, <1>3, <1>4

(* The queue grows behind its head.                                           *)
LEMMA QueueGrows ==
  ASSUME Pipeline, NEW op, op.op = "sample", queue' = Append(queue, op)
  PROVE  /\ HasInput' <=> HasInput
         /\ queue # <<>> => (Sampling' <=> Sampling)
         /\ queue' # <<>>
<1>1. PICK T : queue \in Seq(T)
  BY DEF Pipeline, Shaped
<1>2. /\ Len(queue) \in Nat /\ Len(queue') = Len(queue) + 1
      /\ DOMAIN queue = 1..Len(queue) /\ DOMAIN queue' = 1..(Len(queue) + 1)
      /\ queue'[Len(queue) + 1] = op /\ \A i \in 1..Len(queue) : queue'[i] = queue[i]
  BY <1>1, AppendShape
<1>3. HasInput' <=> HasInput
  <2>1. "input" # "sample"
    OBVIOUS
  <2> QED BY <1>2, <2>1 DEF HasInput
<1>4. queue' # <<>> /\ Head(queue') = queue'[1]
  <2>1. PICK U : queue' \in Seq(U)
    BY <1>1, AppendShape
  <2>2. queue' # <<>>
    BY <1>2, <2>1, EmptySeq
  <2> QED BY <2>1, <2>2, TailShape
<1>5. queue # <<>> => queue'[1] = queue[1] /\ Head(queue) = queue[1]
  <2> SUFFICES ASSUME queue # <<>> PROVE queue'[1] = queue[1] /\ Head(queue) = queue[1]
    OBVIOUS
  <2>1. Head(queue) = queue[1] /\ Len(queue) \in Nat \ {0}
    BY <1>1, TailShape
  <2> QED BY <1>2, <2>1
<1> QED BY <1>3, <1>4, <1>5 DEF Sampling

LEMMA SampleAsyncPositions ==
  ASSUME Pipeline, CInv, PInv, SampleTokensAsync
  PROVE  PInv'
<1> DEFINE x == Output(ems.rows, <<>>, FALSE)
<1>0. PICK n : n = Len(outputs)
  OBVIOUS
<1>1. /\ mode.async /\ ems.phase = "executed" /\ ems' = NoStep
      /\ queue' = Append(queue, SampleOp(ems.rows)) /\ outputs' = Append(outputs, x)
      /\ UNCHANGED <<mode, eng, life, rows, buf, gpu, fed>>
  BY DEF SampleTokensAsync
<1>2. ems # NoStep /\ ems.rows = rows
  BY <1>1 DEF CInv, Batch, NoStep
<1>3. x.rows = rows /\ x.ready = FALSE
  BY <1>2 DEF Output
<1>4. SampleOp(ems.rows).op = "sample"
  BY DEF SampleOp
<1>5. /\ HasInput' <=> HasInput
      /\ queue # <<>> => (Sampling' <=> Sampling)
  BY <1>1, <1>4, QueueGrows
<1>6. n \in 0..1
  <2>1. PICK T : outputs \in Seq(T)
    BY DEF Pipeline, Shaped
  <2>2. Len(outputs) \in Nat
    BY <2>1, LenProperties
  <2>3. Len(outputs) <= 1
    BY <1>1 DEF Pipeline, Async
  <2> QED BY <1>0, <2>2, <2>3
<1> HIDE DEF x
<1>7. /\ DOMAIN outputs = 1..n /\ DOMAIN outputs' = 1..(n + 1)
      /\ outputs'[n + 1] = x /\ \A i \in 1..n : outputs'[i] = outputs[i]
  BY <1>0, <1>1, OutputAppended
<1>8. ASSUME NEW q \in Reqs, NEW j \in 1..(n + 1)
      PROVE  /\ Live(q)' = Live(q) /\ Due(q, j)' = Due(q, j)
             /\ \A t : NextToks(q, t, j)' = NextToks(q, t, j)
  <2>1. j = 1 \/ (j = 2 /\ n = 1 /\ outputs'[1] = outputs[1])
    BY <1>6, <1>7
  <2> QED BY <1>1, <2>1, DueStays
<1>9. OutputsFit'
  <2> SUFFICES ASSUME NEW j \in DOMAIN outputs', NEW i \in DOMAIN outputs'[j].rows,
                      outputs'[j].ready, i \notin outputs'[j].invalid, Live(outputs[j].rows[i])'
               PROVE  NextToks(outputs[j].rows[i], outputs[j].toks[i], j)'
    BY DEF OutputsFit
  <2>1. j \in 1..n /\ outputs'[j] = outputs[j]
    BY <1>3, <1>6, <1>7
  <2>2. PICK q : q = outputs[j].rows[i]
    OBVIOUS
  <2>3. q \in Reqs /\ Live(q)'
    BY <1>7, <2>1, <2>2, OutputRows DEF Live
  <2>4. j \in 1..(n + 1)
    BY <1>6, <2>1
  <2>5. Live(q)
    BY <1>8, <2>3, <2>4
  <2>6. NextToks(q, outputs[j].toks[i], j)
    BY <1>7, <2>1, <2>2, <2>5 DEF PInv, OutputsFit
  <2>7. NextToks(q, outputs[j].toks[i], j)'
    BY <1>8, <2>1, <2>3, <2>4, <2>6
  <2> QED BY <2>1, <2>2, <2>7
<1>10. ASSUME NEW b, Fit(b, rows, n + 1)
       PROVE  \A i \in DOMAIN rows : ~ b.discard[i] /\ Live(rows[i])' =>
                b.start[i] + b.n[i] - b.spec[i] = Due(rows[i], n + 1)'
  <2>1. n + 1 \in 1..(n + 1)
    BY <1>6
  <2> SUFFICES ASSUME NEW i \in DOMAIN rows, ~ b.discard[i], Live(rows[i])'
               PROVE  b.start[i] + b.n[i] - b.spec[i] = Due(rows[i], n + 1)'
    OBVIOUS
  <2>2. PICK q : q = rows[i]
    OBVIOUS
  <2>3. q \in Reqs
    BY <2>2, BatchRows
  <2>4. Live(q)' /\ Due(q, n + 1)' = Due(rows[i], n + 1)'
    BY <1>1, <2>2 DEF Live
  <2>5. Live(q) /\ Due(q, n + 1)' = Due(q, n + 1)
    BY <1>8, <2>1, <2>3, <2>4
  <2>6. b.start[i] + b.n[i] - b.spec[i] = Due(q, n + 1)
    BY <1>10, <2>2, <2>5 DEF Fit
  <2> QED BY <2>4, <2>5, <2>6
<1>11. FedFits'
  <2> SUFFICES ASSUME NEW k \in DOMAIN outputs', Sampling', Pending(k)',
                      \A j \in 1..(k - 1) : outputs'[j].ready
               PROVE  Fit(fed, outputs[k].rows, k)'
    BY DEF FedFits
  <2>1. PICK T : queue \in Seq(T)
    BY DEF Pipeline, Shaped
  <2>2. CASE queue = <<>>
    <3>1. Empty
      BY <1>1, <2>2 DEF Pipeline, Async, In, Sa, InSa, SaIn, SaInSa
    <3>2. k = n + 1
      BY <1>6, <1>7, <3>1 DEF Empty, AllReady, Pending
    <3>3. ~ HasInput
      BY <2>2 DEF HasInput
    <3>4. Fit(fed, rows, n + 1)
      BY <1>0, <1>1, <1>2, <3>3 DEF PInv, StepFits, Executing
    <3>5. \A i \in DOMAIN rows : ~ fed.discard[i] /\ Live(rows[i])' =>
            fed.start[i] + fed.n[i] - fed.spec[i] = Due(rows[i], n + 1)'
      BY <1>10, <3>4
    <3>6. outputs'[k].rows = rows
      BY <1>3, <1>7, <3>2
    <3> QED BY <1>1, <3>2, <3>5, <3>6 DEF Fit
  <2>3. CASE queue # <<>>
    <3>1. Sampling
      BY <1>5, <2>3
    <3>2. Head(queue) = queue[1]
      BY <2>1, <2>3, TailShape
    <3>3. SaIn
      BY <1>1, <1>2, <3>1, <3>2 DEF Pipeline, Async, Empty, In, Sa, InSa, SaInSa, Sampling
    <3>4. n = 1 /\ ~ outputs[1].ready
      BY <1>0, <3>3 DEF SaIn, Awaits
    <3>5. k = 1 /\ k \in DOMAIN outputs /\ outputs'[k] = outputs[k]
      <4>1. outputs'[1] = outputs[1] /\ k \in 1..2
        BY <1>7, <3>4
      <4>2. k # 2
        BY <3>4, <4>1
      <4> QED BY <1>7, <3>4, <4>1, <4>2
    <3>6. Fit(fed, outputs[k].rows, k)
      <4>1. \A j \in 1..(k - 1) : outputs[j].ready
        BY <3>5
      <4> QED BY <3>1, <3>4, <3>5, <4>1 DEF PInv, FedFits, Pending
    <3>7. k \in 1..(n + 1)
      BY <3>4, <3>5
    <3>8. \A i \in DOMAIN outputs[k].rows : outputs[k].rows[i] \in Reqs
      BY <3>5, OutputRows
    <3> QED BY <1>1, <1>8, <3>5, <3>6, <3>7, <3>8 DEF Fit
  <2> QED BY <2>2, <2>3
<1>12. BufFits'
  <2> SUFFICES ASSUME NEW k \in DOMAIN outputs', HasInput', Pending(k)',
                      \A j \in DOMAIN outputs' : j > k => outputs'[j].ready
               PROVE  Fit(buf, outputs[k].rows, k)'
    BY DEF BufFits
  <2>1. k = n + 1
    BY <1>3, <1>6, <1>7
  <2>2. Fit(buf, rows, n + 1)
    BY <1>0, <1>2, <1>5 DEF PInv, StepFits
  <2> QED BY <1>1, <1>3, <1>7, <1>10, <2>1, <2>2 DEF Fit
<1>13. StepFits'
  BY <1>1 DEF StepFits
<1> QED BY <1>9, <1>11, <1>12, <1>13 DEF PInv

(* Without asynchronous scheduling every output is there when it is returned. *)
LEMMA SyncReady ==
  ASSUME CInv', ~ mode'.async
  PROVE  FedFits' /\ BufFits'
<1>1. \A k : ~ Pending(k)'
  BY DEF CInv, OutTyped, Pending
<1> QED BY <1>1 DEF FedFits, BufFits

LEMMA SamplePositions ==
  ASSUME Pipeline, CInv, PInv, SampleTokens
  PROVE  PInv'
<1>1. /\ ~ mode.async /\ ems.phase = "executed" /\ ems' = [ems EXCEPT !.phase = "sampling"]
      /\ queue' = Append(queue, SampleOp(ems.rows))
      /\ UNCHANGED <<mode, eng, life, rows, buf, gpu, fed, outputs>>
  BY DEF SampleTokens
<1>2. ems # NoStep
  BY <1>1 DEF NoStep
<1>3. SampleOp(ems.rows).op = "sample"
  BY DEF SampleOp
<1>4. (HasInput' <=> HasInput) /\ queue' # <<>>
  BY <1>1, <1>3, QueueGrows
<1>5. ASSUME NEW q \in Reqs
      PROVE  /\ Live(q)' = Live(q) /\ Due(q, 1)' = Due(q, 1) /\ Due(q, 2)' = Due(q, 2)
             /\ \A t, j : NextToks(q, t, j)' = NextToks(q, t, j)
  <2>1. \A j : Due(q, j)' = Due(q, j)
    BY <1>1 DEF Due, Held, Rejects, Samples
  <2> QED BY <1>1, <2>1 DEF NextToks, Toks, Tok, Live
<1>6. OutputsFit'
  BY <1>1, <1>5, OutputRows DEF PInv, OutputsFit
<1>7. FedFits' /\ BufFits'
  <2>1. CInv'
    BY SampleCounts
  <2> QED BY <1>1, <2>1, SyncReady
<1>8. StepFits'
  <2>1. Len(outputs) + 1 = 1 /\ Executing
    <3>1. outputs = <<>>
      BY <1>1, <1>2 DEF CInv, SyncCounts
    <3> QED BY <1>1, <3>1 DEF Executing
  <2>2. HasInput => Fit(buf, rows, 1)
    BY <1>2, <2>1 DEF PInv, StepFits
  <2>3. ~ HasInput => Fit(fed, rows, 1)
    BY <1>2, <2>1 DEF PInv, StepFits
  <2>4. \A b : Fit(b, rows, 1) => \A i \in DOMAIN rows : ~ b.discard[i] /\ Live(rows[i])' =>
                b.start[i] + b.n[i] - b.spec[i] = Due(rows[i], 1)'
    BY <1>1, <1>5, BatchRows DEF Fit
  <2> QED BY <1>1, <1>4, <2>1, <2>2, <2>3, <2>4 DEF StepFits, Fit
<1> QED BY <1>6, <1>7, <1>8 DEF PInv

LEMMA FinishPositions ==
  ASSUME Pipeline, CInv, PInv, FinishSync
  PROVE  PInv'
<1> DEFINE x == [Output(ems.rows, gpu.toks, TRUE) EXCEPT
                   !.drafts = IF Fits(buf) THEN gpu.drafts
                              ELSE [i \in DOMAIN ems.rows |-> <<>>]]
<1>1. /\ ems.phase = "sampling" /\ queue = <<>> /\ ems' = NoStep
      /\ outputs' = Append(outputs, x)
      /\ UNCHANGED <<mode, eng, life, rows, buf, gpu, fed, queue>>
  BY DEF FinishSync
<1>2. ~ mode.async
  BY <1>1 DEF Pipeline, Async
<1>3. ems # NoStep /\ ems.rows = rows /\ outputs = <<>>
  <2>1. ems # NoStep /\ ems.rows = rows
    BY <1>1 DEF CInv, Batch, NoStep
  <2>2. outputs # <<>> => ems = NoStep
    BY <1>2 DEF CInv, SyncCounts
  <2> QED BY <2>1, <2>2
<1>4. /\ x.rows = rows /\ x.toks = gpu.toks
      /\ x.invalid = {i \in DOMAIN rows : buf.discard[i]}
  BY <1>3 DEF Output, Sampled
<1> HIDE DEF x
<1>5. outputs'[1] = x /\ DOMAIN outputs' = {1}
  <2>1. outputs' = <<x>>
    BY <1>1, <1>3
  <2> QED BY <2>1
<1>6. \A i \in DOMAIN rows : ~ buf.discard[i] /\ Live(rows[i]) => NextToks(rows[i], gpu.toks[i], 1)
  BY <1>1, <1>3 DEF PInv, StepFits, Executing
<1>7. OutputsFit'
  <2> SUFFICES ASSUME NEW i \in DOMAIN rows, i \notin x.invalid, Live(rows[i])'
               PROVE  NextToks(rows[i], gpu.toks[i], 1)'
    BY <1>1, <1>4, <1>5 DEF OutputsFit
  <2>1. PICK q : q = rows[i]
    OBVIOUS
  <2>2. q \in Reqs /\ Live(q)'
    BY <1>1, <2>1, BatchRows DEF Live
  <2>3. NextToks(q, gpu.toks[i], 1)
    BY <1>1, <1>4, <1>6, <2>1, <2>2 DEF Live
  <2>4. NextToks(q, gpu.toks[i], 1)'
    BY <1>1, <2>2, <2>3, DueStays
  <2> QED BY <1>1, <2>1, <2>4
<1>8. FedFits' /\ BufFits'
  <2>1. CInv'
    BY FinishCounts
  <2> QED BY <1>1, <1>2, <2>1, SyncReady
<1>9. StepFits'
  BY <1>1 DEF StepFits
<1> QED BY <1>7, <1>8, <1>9 DEF PInv
-----------------------------------------------------------------------------
LEMMA InputPositions ==
  ASSUME Pipeline, CInv, PInv, GpuInput
  PROVE  PInv'
<1>1. /\ queue # <<>> /\ Head(queue).op = "input" /\ queue' = Tail(queue)
      /\ fed'.start = buf.start /\ fed'.n = buf.n /\ fed'.spec = buf.spec
      /\ fed'.discard = buf.discard
      /\ UNCHANGED <<mode, eng, life, rows, buf, ems, gpu, outputs>>
  BY DEF GpuInput
<1>2. PICK T : queue \in Seq(T)
  BY DEF Pipeline, Shaped
<1>3. /\ queue' \in Seq(T) /\ Head(queue) = queue[1]
      /\ Len(queue) \in Nat \ {0} /\ Len(queue') = Len(queue) - 1
      /\ DOMAIN queue = 1..Len(queue) /\ DOMAIN queue' = 1..(Len(queue) - 1)
      /\ \A i \in 1..(Len(queue) - 1) : queue'[i] = queue[i + 1]
  BY <1>1, <1>2, TailShape
<1>4. HasInput
  <2>1. 1 \in DOMAIN queue /\ queue[1].op = "input"
    BY <1>1, <1>3
  <2> QED BY <2>1 DEF HasInput
<1>5. ~ HasInput'
  <2>1. Len(queue) = 1 \/ (Len(queue) = 2 /\ queue[2].op = "sample")
    <3>1. CASE mode.async
      BY <1>1, <1>3, <3>1 DEF Pipeline, Async, Empty, In, Sa, InSa, SaIn, SaInSa
    <3>2. CASE ~ mode.async
      BY <1>1, <1>3, <3>2 DEF Pipeline, Sync
    <3> QED BY <3>1, <3>2
  <2>2. \A i \in DOMAIN queue' : queue'[i].op = "sample"
    BY <1>3, <2>1
  <2> QED BY <2>2 DEF HasInput
<1>6. ASSUME NEW q \in Reqs
      PROVE  /\ Live(q)' = Live(q) /\ \A j : Due(q, j)' = Due(q, j)
             /\ \A t, j : NextToks(q, t, j)' = NextToks(q, t, j)
  <2>1. \A j : Due(q, j)' = Due(q, j)
    BY <1>1 DEF Due, Held, Rejects, Samples
  <2> QED BY <1>1, <2>1 DEF NextToks, Toks, Tok, Live
<1>7. OutputsFit'
  BY <1>1, <1>6, OutputRows DEF PInv, OutputsFit
<1>8. BufFits'
  BY <1>5 DEF BufFits
<1>9. FedFits'
  <2>1. CASE ~ mode.async
    <3>1. CInv'
      BY GpuInputCounts
    <3> QED BY <1>1, <2>1, <3>1, SyncReady
  <2>2. CASE mode.async
    <3> SUFFICES ASSUME NEW k \in DOMAIN outputs, Sampling', Pending(k)
                 PROVE  Fit(fed, outputs[k].rows, k)'
      BY <1>1 DEF FedFits, Pending
    <3>1. queue' # <<>>
      BY DEF Sampling
    <3>2. Len(queue) # 1
      BY <1>3, <3>1, EmptySeq
    <3>3. InSa
      BY <1>1, <1>3, <2>2, <3>2 DEF Pipeline, Async, Empty, In, Sa, SaIn, SaInSa
    <3>4. ems = NoStep /\ \A j \in DOMAIN outputs : j # k => outputs[j].ready
      BY <3>3 DEF InSa, OnlyAwaits, Pending
    <3>5. \A j \in DOMAIN outputs : j > k => outputs[j].ready
      <4>1. k \in Nat
        <5>1. \E U : outputs \in Seq(U)
          BY DEF Pipeline, Shaped
        <5> QED BY <5>1, LenProperties
      <4>2. ~ (k > k)
        BY <4>1
      <4> QED BY <3>4, <4>2
    <3>6. Fit(buf, outputs[k].rows, k)
      BY <1>4, <3>4, <3>5 DEF PInv, BufFits
    <3> QED BY <1>1, <1>6, <3>6, OutputRows DEF Fit
  <2> QED BY <2>1, <2>2 DEF Pipeline
<1>10. StepFits'
  <2> SUFFICES ASSUME ems # NoStep
               PROVE  /\ Fit(fed, rows, Len(outputs) + 1)'
                      /\ Executing \/ queue' # <<>>
    BY <1>1, <1>5 DEF StepFits, Executing
  <2>1. Fit(buf, rows, Len(outputs) + 1)
    BY <1>4 DEF PInv, StepFits
  <2>2. Fit(fed, rows, Len(outputs) + 1)'
    BY <1>1, <1>6, <2>1, BatchRows DEF Fit
  <2>3. Executing \/ queue' # <<>>
    <3>1. CASE mode.async
      BY <1>1, <1>3, <3>1 DEF Pipeline, Async, Empty, In, Sa, InSa, SaIn, SaInSa, Executing
    <3>2. CASE ~ mode.async
      <4>1. Executing \/ Len(queue) = 2
        BY <1>1, <1>3, <3>2 DEF Pipeline, Sync, Executing
      <4>2. ASSUME Len(queue) = 2 PROVE queue' # <<>>
        <5>1. Len(queue') = 1
          BY <1>3, <4>2
        <5> QED BY <5>1, ListedLiterals
      <4> QED BY <4>1, <4>2
    <3> QED BY <3>1, <3>2
  <2> QED BY <2>2, <2>3
<1> QED BY <1>7, <1>8, <1>9, <1>10 DEF PInv

(* Filling in an output moves no token that is due behind it: either it is the *)
(* last one, or nothing can be rejected.                                      *)
LEMMA FilledDue ==
  ASSUME CInv, mode.async, NEW k \in DOMAIN outputs, NEW toks, Filled(k, toks),
         outputs[k].ready = FALSE, UNCHANGED <<mode, eng, life>>, NEW q \in Reqs,
         \A i \in DOMAIN outputs[k].rows : i \notin outputs[k].invalid =>
            Len(toks[i]) \in 1..(mode.spec + 1)
  PROVE  /\ Live(q)' = Live(q) /\ Due(q, 1)' = Due(q, 1)
         /\ \A t : NextToks(q, t, 1)' = NextToks(q, t, 1)
         /\ 1 \in DOMAIN outputs /\ (k = 1 => mode.spec = 0) =>
              /\ Due(q, 2)' = Due(q, 2)
              /\ \A t : NextToks(q, t, 2)' = NextToks(q, t, 2)
<1>1. Live(q)' = Live(q) /\ Due(q, 1)' = Due(q, 1)
  BY DEF Live, Due
<1>2. \A t : NextToks(q, t, 1)' = NextToks(q, t, 1)
  BY <1>1 DEF NextToks, Toks, Tok
<1>3. ASSUME 1 \in DOMAIN outputs, k = 1 => mode.spec = 0
      PROVE  Due(q, 2)' = Due(q, 2)
  <2>1. CASE k # 1
    <3>1. outputs'[1] = outputs[1]
      BY <1>3, <2>1 DEF Filled
    <3> QED BY <3>1, DueStays
  <2>2. CASE k = 1
    <3> DEFINE o == outputs[1]
               p == PlaceIn(o.rows, q)
    <3>1. outputs'[1].rows = o.rows /\ outputs'[1].spec = o.spec /\ outputs'[1].invalid = o.invalid
          /\ outputs'[1].toks = toks /\ mode.spec = 0
      BY <1>3, <2>2 DEF Filled
    <3>2. Held(outputs'[1], q) = Held(o, q) /\ (Samples(outputs'[1], q) <=> Samples(o, q))
      BY <3>1 DEF Held, Samples
    <3>3. Rejects(o, q) = 0
      BY <2>2 DEF Rejects
    <3>4. Rejects(outputs'[1], q) = 0
      <4>1. CASE ~ Samples(o, q)
        BY <3>2, <4>1 DEF Rejects
      <4>2. CASE Samples(o, q)
        <5>1. InRows(o.rows)
          BY <1>3 DEF CInv, OutTyped
        <5>2. p \in DOMAIN o.rows /\ p \notin o.invalid
          BY <4>2, <5>1, PlaceOfRow DEF Samples
        <5>3. o.spec[p] = 0
          BY <1>3, <3>1, <5>2 DEF CInv, OutTyped
        <5>4. Len(toks[p]) = 1
          <6>1. Len(toks[p]) \in 1..(mode.spec + 1)
            BY <2>2, <5>2
          <6>2. Len(toks[p]) \in 1..1
            BY <3>1, <6>1
          <6> QED BY <6>2
        <5>5. Rejects(outputs'[1], q) \in {0, o.spec[p] + 1 - Len(toks[p])}
          BY <3>1 DEF Rejects
        <5> QED BY <5>3, <5>4, <5>5
      <4> QED BY <4>1, <4>2
    <3>5. Due(q, 2)' = prompt[q] + Len(eng[q].outs) + (Held(outputs'[1], q) - Rejects(outputs'[1], q))
      BY DEF Due, Held, Rejects, Samples
    <3>6. Due(q, 2) = prompt[q] + Len(eng[q].outs) + (Held(o, q) - Rejects(o, q))
      BY DEF Due
    <3> QED BY <3>2, <3>3, <3>4, <3>5, <3>6
  <2> QED BY <2>1, <2>2
<1>4. Due(q, 2)' = Due(q, 2) => \A t : NextToks(q, t, 2)' = NextToks(q, t, 2)
  BY DEF NextToks, Toks, Tok
<1> QED BY <1>1, <1>2, <1>3, <1>4

(* The device samples each row at the position the step was prepared for.      *)
LEMMA SampledToks ==
  ASSUME NEW D, NEW acc \in [D -> 0..mode.spec], DOMAIN fed.rows = D, mode.spec \in Nat,
         NEW i \in D, ~ fed.discard[i], NEW q, q = fed.rows[i],
         NEW j, fed.start[i] + fed.n[i] - fed.spec[i] = Due(q, j)
  PROVE  NextToks(q, SampleRows(acc)[i], j) /\ Len(SampleRows(acc)[i]) \in 1..(mode.spec + 1)
<1>1. SampleRows(acc)[i] = Toks(q, Due(q, j), acc[i] + 1)
  BY DEF SampleRows, Base
<1>2. acc[i] + 1 \in Nat /\ acc[i] + 1 <= mode.spec + 1 /\ acc[i] + 1 \in 1..(mode.spec + 1)
  OBVIOUS
<1>3. Len(Toks(q, Due(q, j), acc[i] + 1)) = acc[i] + 1
  BY <1>2, ListedLiterals
<1> QED BY <1>1, <1>2, <1>3 DEF NextToks

LEMMA GpuSamplePositions ==
  ASSUME Pipeline, CInv, PInv, NEW D, NEW acc \in [D -> 0..mode.spec], GpuSample(acc)
  PROVE  PInv'
<1>0. PICK toks : toks = SampleRows(acc)
  OBVIOUS
<1>1. /\ queue # <<>> /\ Head(queue).op = "sample" /\ DOMAIN acc = DOMAIN Head(queue).rows
      /\ gpu'.toks = toks /\ queue' = Tail(queue)
      /\ mode.async => outputs' = [outputs EXCEPT ![FirstPending].toks = toks,
                                                  ![FirstPending].ready = TRUE]
      /\ ~ mode.async => UNCHANGED outputs
      /\ UNCHANGED <<mode, eng, life, rows, buf, ems>>
  BY <1>0 DEF GpuSample
<1>2. /\ fed.rows = Head(queue).rows /\ Sampling
      /\ mode.async => Promised(outputs[FirstPending])
      /\ ~ mode.async => ems.rows = fed.rows /\ buf.discard = fed.discard
  BY <1>1, PipelineBelongs DEF OutputsBelongToTheirSteps, Sampling
<1>3. D = DOMAIN fed.rows
  BY <1>1, <1>2
<1>4. PICK T : queue \in Seq(T)
  BY DEF Pipeline, Shaped
<1>5. /\ queue' \in Seq(T) /\ Head(queue) = queue[1]
      /\ Len(queue) \in Nat \ {0} /\ Len(queue') = Len(queue) - 1
      /\ DOMAIN queue = 1..Len(queue) /\ DOMAIN queue' = 1..(Len(queue) - 1)
      /\ \A i \in 1..(Len(queue) - 1) : queue'[i] = queue[i + 1]
  BY <1>1, <1>4, TailShape
<1>6. mode.spec \in Nat /\ mode.async \in BOOLEAN
  BY DEF CInv, Batch, Pipeline
<1>7. ASSUME NEW i \in D, ~ fed.discard[i], NEW q, q = fed.rows[i],
             NEW j, fed.start[i] + fed.n[i] - fed.spec[i] = Due(q, j)
      PROVE  NextToks(q, toks[i], j) /\ Len(toks[i]) \in 1..(mode.spec + 1)
  BY <1>0, <1>3, <1>6, <1>7, SampledToks
<1>8. CASE ~ mode.async
  <2>1. ASSUME NEW q \in Reqs
        PROVE  /\ Live(q)' = Live(q) /\ \A j : Due(q, j)' = Due(q, j)
               /\ \A t, j : NextToks(q, t, j)' = NextToks(q, t, j)
    <3>1. \A j : Due(q, j)' = Due(q, j)
      BY <1>1, <1>8 DEF Due, Held, Rejects, Samples
    <3> QED BY <1>1, <3>1 DEF NextToks, Toks, Tok, Live
  <2>2. OutputsFit'
    BY <1>1, <1>8, <2>1, OutputRows DEF PInv, OutputsFit
  <2>3. FedFits' /\ BufFits'
    <3>1. CInv'
      <4>1. \A i \in D : acc[i] \in Nat
        BY <1>6
      <4>2. acc \in [D -> Nat]
        BY <4>1
      <4> QED BY <4>2, GpuSampleCounts
    <3> QED BY <1>1, <1>8, <3>1, SyncReady
  <2>4. ems.phase = "sampling" /\ Len(queue) = 1 /\ ems # NoStep
    <3>1. ems.phase = "sampling" /\ Len(queue) = 1
      BY <1>1, <1>5, <1>8 DEF Pipeline, Sync
    <3> QED BY <3>1 DEF NoStep
  <2>5. queue' = <<>> /\ ~ HasInput' /\ ~ HasInput
    <3>1. Len(queue') = 0
      BY <1>5, <2>4
    <3>2. queue' = <<>> /\ ~ HasInput'
      BY <1>5, <2>4, <3>1, EmptySeq DEF HasInput
    <3>3. DOMAIN queue = {1} /\ queue[1].op # "input"
      BY <1>1, <1>5, <2>4
    <3> QED BY <3>2, <3>3 DEF HasInput
  <2>6. outputs = <<>> /\ rows = fed.rows
    <3>1. outputs # <<>> => ems = NoStep
      BY <1>8 DEF CInv, SyncCounts
    <3>2. ems.rows = rows
      BY <2>4 DEF CInv, Batch
    <3> QED BY <1>2, <1>8, <2>4, <3>1, <3>2
  <2>7. Fit(fed, rows, 1)
    <3>1. Len(outputs) + 1 = 1
      BY <2>6
    <3>2. Fit(fed, rows, Len(outputs) + 1)
      BY <1>1, <2>4, <2>5 DEF PInv, StepFits
    <3> QED BY <3>1, <3>2
  <2>8. ASSUME NEW i \in DOMAIN rows, ~ buf.discard[i], NEW q \in Reqs, q = rows[i], Live(q)
        PROVE  NextToks(q, toks[i], 1)'
    <3>1. i \in D /\ ~ fed.discard[i] /\ q = fed.rows[i]
      BY <1>2, <1>3, <1>8, <2>6, <2>8
    <3>2. fed.start[i] + fed.n[i] - fed.spec[i] = Due(q, 1)
      BY <2>6, <2>7, <2>8, <3>1 DEF Fit
    <3>3. NextToks(q, toks[i], 1)
      BY <1>7, <3>1, <3>2
    <3> QED BY <2>1, <3>3
  <2>9. StepFits'
    <3> SUFFICES ASSUME NEW i \in DOMAIN rows, ~ buf.discard[i], Live(rows[i])'
                 PROVE  NextToks(rows[i], gpu.toks[i], 1)'
      BY <1>1, <2>4, <2>5 DEF StepFits, Executing
    <3>1. PICK q : q = rows[i]
      OBVIOUS
    <3>2. q \in Reqs /\ Live(q)
      BY <1>1, <2>1, <3>1, BatchRows DEF Live
    <3>3. NextToks(q, toks[i], 1)'
      BY <2>8, <3>1, <3>2
    <3>4. NextToks(rows[i], gpu.toks[i], 1)' <=> NextToks(q, toks[i], 1)'
      BY <1>1, <3>1
    <3> QED BY <3>3, <3>4
  <2> QED BY <2>2, <2>3, <2>9 DEF PInv
<1>9. CASE mode.async
  <2>1. PICK k : k = FirstPending
    OBVIOUS
  <2>2. /\ DOMAIN outputs = 1..Len(outputs) /\ Len(outputs) \in 0..2
        /\ k \in DOMAIN outputs /\ outputs[k].ready = FALSE
        /\ \A j \in 1..(k - 1) : outputs[j].ready
    BY <1>1, <1>9, <2>1, WaitingOutput
  <2>3. outputs[k].rows = fed.rows /\ outputs[k].invalid = {i \in D : fed.discard[i]}
    BY <1>2, <1>3, <1>9, <2>1 DEF Promised
  <2>4. Filled(k, toks)
    BY <1>1, <1>9, <2>1, <2>2, FillsOutput
  <2>5. Fit(fed, outputs[k].rows, k)
    BY <1>2, <2>2 DEF PInv, FedFits, Pending
  <2>6. \A i \in D : ~ fed.discard[i] => Len(toks[i]) \in 1..(mode.spec + 1)
    <3> SUFFICES ASSUME NEW i \in D, ~ fed.discard[i]
                 PROVE  Len(toks[i]) \in 1..(mode.spec + 1)
      OBVIOUS
    <3>1. toks[i] = Toks(fed.rows[i], Base(i), acc[i] + 1)
      BY <1>0, <1>3 DEF SampleRows
    <3>2. acc[i] + 1 \in Nat /\ acc[i] + 1 \in 1..(mode.spec + 1)
      BY <1>6
    <3> QED BY <3>1, <3>2, ListedLiterals
  <2>7. ASSUME NEW q \in Reqs
        PROVE  /\ Live(q)' = Live(q) /\ Due(q, 1)' = Due(q, 1)
               /\ \A t : NextToks(q, t, 1)' = NextToks(q, t, 1)
               /\ 1 \in DOMAIN outputs /\ (k = 1 => mode.spec = 0) =>
                    /\ Due(q, 2)' = Due(q, 2)
                    /\ \A t : NextToks(q, t, 2)' = NextToks(q, t, 2)
    <3>1. \A i \in DOMAIN outputs[k].rows : i \notin outputs[k].invalid =>
            Len(toks[i]) \in 1..(mode.spec + 1)
      BY <1>3, <2>3, <2>6
    <3>2. UNCHANGED <<mode, eng, life>> /\ outputs[k].ready = FALSE
      BY <1>1, <2>2
    <3> QED BY <1>9, <2>2, <2>4, <3>1, <3>2, FilledDue
  <2>8. ASSUME NEW q \in Reqs, NEW j \in {1, 2}, j = 2 => 1 \in DOMAIN outputs /\ (k = 1 => mode.spec = 0)
        PROVE  /\ Live(q)' = Live(q) /\ Due(q, j)' = Due(q, j)
               /\ \A t : NextToks(q, t, j)' = NextToks(q, t, j)
    BY <2>7, <2>8
  (* With drafts, only the last output can wait, and none while a step is      *)
  (* executed.                                                                *)
  <2>9. mode.spec > 0 => ems = NoStep /\ k = Len(outputs)
    BY <1>9, <2>2 DEF CInv, OutTyped
  <2>10. OutputsFit'
    <3> SUFFICES ASSUME NEW j \in DOMAIN outputs, NEW i \in DOMAIN outputs[j].rows,
                        outputs'[j].ready, i \notin outputs[j].invalid,
                        NEW q, q = outputs[j].rows[i], Live(q)', NEW t, t = outputs'[j].toks[i]
                 PROVE  NextToks(q, t, j)'
      <4>1. \A j \in DOMAIN outputs : outputs'[j].rows = outputs[j].rows
                                      /\ outputs'[j].invalid = outputs[j].invalid
        BY <2>4 DEF Filled
      <4>2. DOMAIN outputs' = DOMAIN outputs
        BY <2>4 DEF Filled
      <4> QED BY <4>1, <4>2 DEF OutputsFit, Live
    <3>1. q \in Reqs
      BY OutputRows
    <3>2. j \in {1, 2} /\ (j = 2 => 1 \in DOMAIN outputs /\ (k = 1 => mode.spec = 0))
      BY <1>6, <2>2, <2>9
    <3>3. Live(q)
      BY <2>8, <3>1, <3>2
    <3>4. CASE j = k
      <4>1. i \in D /\ ~ fed.discard[i] /\ q = fed.rows[i]
        BY <1>3, <2>3, <3>4
      <4>2. fed.start[i] + fed.n[i] - fed.spec[i] = Due(q, k)
        BY <1>3, <2>3, <2>5, <3>3, <4>1 DEF Fit
      <4>3. NextToks(q, toks[i], j)
        BY <1>7, <3>4, <4>1, <4>2
      <4>4. outputs'[j].toks = toks
        BY <2>4, <3>4 DEF Filled
      <4>5. NextToks(q, toks[i], j)'
        BY <2>8, <3>1, <3>2, <4>3
      <4>6. t = toks[i]
        BY <4>4
      <4> QED BY <4>5, <4>6
    <3>5. CASE j # k
      <4>1. outputs'[j] = outputs[j]
        BY <2>4, <3>5 DEF Filled
      <4>2. NextToks(q, t, j)
        BY <3>3, <4>1 DEF PInv, OutputsFit
      <4> QED BY <2>8, <3>1, <3>2, <4>2
    <3> QED BY <3>4, <3>5
  <2>11. ~ Sampling'
    <3>1. CASE Len(queue) = 1
      <4>1. queue' = <<>>
        <5>1. Len(queue') = 0
          BY <1>5, <3>1
        <5> QED BY <1>5, <5>1, EmptySeq
      <4> QED BY <4>1 DEF Sampling
    <3>2. CASE Len(queue) # 1
      <4>1. queue[2].op = "input"
        BY <1>1, <1>5, <1>9, <3>2 DEF Pipeline, Async, Empty, In, Sa, InSa, SaIn, SaInSa
      <4>2. queue'[1].op = "input"
        BY <1>5, <3>2, <4>1
      <4>3. queue' # <<>> => Head(queue') = queue'[1]
        BY <1>5, TailShape
      <4> QED BY <4>2, <4>3 DEF Sampling
    <3> QED BY <3>1, <3>2
  <2>12. FedFits'
    BY <2>11 DEF FedFits
  <2>13. HasInput' => HasInput
    BY <1>5 DEF HasInput
  <2>14. BufFits'
    <3> SUFFICES ASSUME NEW m \in DOMAIN outputs, HasInput, ems = NoStep, Pending(m)',
                        \A j \in DOMAIN outputs : j > m => outputs'[j].ready
                 PROVE  Fit(buf, outputs[m].rows, m)'
      <4>1. DOMAIN outputs' = DOMAIN outputs
        BY <2>4 DEF Filled
      <4> QED BY <1>1, <2>13, <4>1 DEF BufFits
    <3>1. m # k /\ outputs'[m] = outputs[m] /\ Pending(m)
      BY <2>4 DEF Filled, Pending
    <3>2. m = 2 /\ k = 1 /\ Len(outputs) = 2
      <4>1. m \in 1..2 /\ k \in 1..2 /\ m <= Len(outputs)
        BY <2>2
      <4>2. ~ (m < k)
        BY <2>2, <3>1, <4>1 DEF Pending
      <4> QED BY <2>2, <3>1, <4>1, <4>2
    <3>3. mode.spec = 0
      BY <1>6, <2>9, <3>2
    <3>4. Fit(buf, outputs[m].rows, m)
      <4>1. \A j \in DOMAIN outputs : j > m => outputs[j].ready
        BY <2>2, <3>2
      <4> QED BY <3>1, <4>1 DEF PInv, BufFits
    <3>5. \A q \in Reqs : Live(q)' = Live(q) /\ Due(q, m)' = Due(q, m)
      BY <2>2, <2>8, <3>2, <3>3
    <3> QED BY <1>1, <3>1, <3>4, <3>5, OutputRows DEF Fit
  <2>15. StepFits'
    <3> SUFFICES ASSUME ems # NoStep PROVE  /\ HasInput' /\ HasInput /\ queue' # <<>>
                                             /\ Fit(buf, rows, Len(outputs) + 1)'
      BY <1>1 DEF StepFits, Executing
    <3>1. SaIn
      BY <1>1, <1>5, <1>9 DEF Pipeline, Async, Empty, In, Sa, InSa, SaInSa
    <3>2. HasInput' /\ HasInput /\ queue' # <<>>
      <4>1. queue'[1] = queue[2] /\ queue[2].op = "input" /\ 1 \in DOMAIN queue' /\ 2 \in DOMAIN queue
        BY <1>5, <3>1 DEF SaIn
      <4>2. queue' # <<>>
        BY <4>1
      <4> QED BY <4>1, <4>2 DEF HasInput
    <3>3. Len(outputs) = 1 /\ Len(outputs') = Len(outputs)
      BY <2>4, <3>1 DEF SaIn, Filled
    <3>4. Fit(buf, rows, 2)
      <4>1. Fit(buf, rows, Len(outputs) + 1) /\ Len(outputs) + 1 = 2
        BY <3>2, <3>3 DEF PInv, StepFits
      <4> QED BY <4>1
    <3>5. mode.spec = 0 /\ 1 \in DOMAIN outputs
      BY <1>6, <2>2, <2>9, <3>3
    <3>6. \A q \in Reqs : Live(q)' = Live(q) /\ Due(q, 2)' = Due(q, 2)
      BY <2>8, <3>5
    <3>7. Fit(buf, rows, 2)'
      BY <1>1, <3>4, <3>6, BatchRows DEF Fit
    <3>8. Len(outputs') + 1 = 2
      BY <3>3
    <3> QED BY <3>2, <3>7, <3>8
  <2> QED BY <2>10, <2>12, <2>14, <2>15 DEF PInv
<1> QED BY <1>6, <1>8, <1>9
-----------------------------------------------------------------------------
(* The engine takes the first output: what was due behind it is due first.     *)
LEMMA TakenDue ==
  ASSUME Pipeline, CInv, TakeOutput, NEW q \in Reqs, Live(q)'
  PROVE  /\ Live(q) /\ Due(q, 1)' = Due(q, 2)
         /\ \A t : NextToks(q, t, 1)' = NextToks(q, t, 2)
<1> DEFINE o == outputs[1]
           p == PlaceIn(o.rows, q)
           takes == Live(q) /\ Within(q, o.rows)
<1>1. outputs # <<>> /\ Head(outputs) = o /\ 1 \in DOMAIN outputs /\ o.ready
  <2>1. PICK T : outputs \in Seq(T)
    BY DEF Pipeline, Shaped
  <2>2. outputs # <<>> /\ Head(outputs).ready
    BY DEF TakeOutput
  <2> QED BY <2>1, <2>2, TailShape
<1>2. UNCHANGED <<mode, life>>
  BY DEF TakeOutput
<1>3. InRows(o.rows) /\ (eng[q].st = "new" => ~ Within(q, o.rows))
  BY <1>1 DEF CInv, OutTyped, Lives
<1>4. eng[q].st # "done" /\ Contains(o.rows, q) <=> takes
  BY <1>3, PlaceOfRow DEF CInv, EngTyped, Live
<1>5. eng'[q] = IF takes THEN Took(q, o, p) ELSE eng[q]
  <2>1. eng'[q] = IF eng[q].st # "done" /\ Contains(o.rows, q) THEN Took(q, o, p) ELSE eng[q]
    BY <1>1 DEF TakeOutput, PlaceIn
  <2> QED BY <1>4, <2>1
<1>6. /\ Len(eng[q].outs) \in Nat /\ prompt[q] \in Nat
      /\ Held(o, q) \in Int /\ Rejects(o, q) \in Int
  <2>1. Len(eng[q].outs) \in Nat
    BY DEF CInv, EngTyped, Listed
  <2>2. prompt[q] \in Nat
    BY RunnerAssumption
  <2>3. Held(outputs[1], q) \in Nat /\ Rejects(outputs[1], q) \in Int
    BY <1>1, HeldTyped
  <2> QED BY <2>1, <2>2, <2>3
<1>7. CASE takes
  <2> DEFINE t == Took(q, o, p)
             g == IF Samples(o, q) THEN Len(o.toks[p]) ELSE 0
  <2>1. t.st # "done"
    BY <1>5, <1>7 DEF Live
  <2>2. Len(t.outs) = Len(eng[q].outs) + g /\ g = Held(o, q) - Rejects(o, q)
    BY <1>1, <1>7, <2>1, TakerShape
  <2>3. Len(eng'[q].outs) = Len(eng[q].outs) + (Held(o, q) - Rejects(o, q))
    BY <1>5, <1>7, <2>2
  <2>4. Due(q, 1)' = prompt[q] + Len(eng'[q].outs) + 0
    BY DEF Due
  <2>5. Due(q, 2) = prompt[q] + Len(eng[q].outs) + (Held(o, q) - Rejects(o, q))
    BY DEF Due
  <2>6. PICK a, b, h : a = prompt[q] /\ b = Len(eng[q].outs) /\ h = Held(o, q) - Rejects(o, q)
    OBVIOUS
  <2>7. a \in Nat /\ b \in Nat /\ h \in Int
    BY <1>6, <2>6
  <2>8. a + (b + h) + 0 = a + b + h
    BY <2>7
  <2>9. Due(q, 1)' = Due(q, 2)
    BY <2>3, <2>4, <2>5, <2>6, <2>8
  <2> QED BY <1>2, <1>7, <2>9 DEF NextToks, Toks, Tok
<1>8. CASE ~ takes
  <2>1. eng'[q] = eng[q]
    BY <1>5, <1>8
  <2>2. Live(q) /\ ~ Within(q, o.rows)
    BY <1>8, <2>1 DEF Live
  <2>3. Held(o, q) = 0 /\ Rejects(o, q) = 0
    BY <2>2 DEF Held, Rejects, Samples
  <2>4. Due(q, 1)' = Due(q, 2)
    BY <2>1, <2>3 DEF Due
  <2> QED BY <1>2, <2>2, <2>4 DEF NextToks, Toks, Tok
<1> QED BY <1>7, <1>8

LEMMA TakePositions ==
  ASSUME Pipeline, CInv, PInv, TakeOutput
  PROVE  PInv'
<1>1. PICK T : outputs \in Seq(T)
  BY DEF Pipeline, Shaped
<1>2. /\ outputs # <<>> /\ Head(outputs).ready /\ outputs' = Tail(outputs)
      /\ UNCHANGED <<mode, rows, buf, ems, queue, gpu, fed>>
  BY DEF TakeOutput
<1>3. PICK n : n = Len(outputs)
  OBVIOUS
<1>4. /\ n \in Nat \ {0} /\ Len(outputs') = n - 1 /\ outputs[1].ready
      /\ DOMAIN outputs = 1..n /\ DOMAIN outputs' = 1..(n - 1)
      /\ \A i \in 1..(n - 1) : outputs'[i] = outputs[i + 1]
  BY <1>1, <1>2, <1>3, TailShape
<1>5. n <= 2 /\ (ems # NoStep => n = 1 /\ Executing)
  <2>1. CASE mode.async
    <3>1. Len(outputs) <= 2 /\ (Executing => Len(outputs) <= 1)
      BY <2>1 DEF Pipeline, Async, Executing
    <3>2. ems = NoStep \/ Executing
      BY <2>1 DEF Pipeline, Async, Empty, In, Sa, InSa, SaIn, SaInSa, Executing
    <3> QED BY <1>3, <1>4, <3>1, <3>2
  <2>2. CASE ~ mode.async
    <3>1. Len(outputs) <= 1 /\ ems = NoStep
      BY <1>2, <2>2 DEF CInv, SyncCounts
    <3> QED BY <1>3, <1>4, <3>1
  <2> QED BY <2>1, <2>2 DEF Pipeline
<1>6. ASSUME NEW j \in DOMAIN outputs'
      PROVE  j = 1 /\ n = 2 /\ outputs'[1] = outputs[2] /\ 2 \in DOMAIN outputs
  BY <1>4, <1>5, <1>6
<1>7. ASSUME NEW q \in Reqs, Live(q)'
      PROVE  /\ Live(q) /\ Due(q, 1)' = Due(q, 2)
             /\ \A t : NextToks(q, t, 1)' = NextToks(q, t, 2)
  BY <1>7, TakenDue
<1>8. OutputsFit'
  <2> SUFFICES ASSUME 2 \in DOMAIN outputs, NEW i \in DOMAIN outputs[2].rows,
                      outputs[2].ready, i \notin outputs[2].invalid,
                      NEW q, q = outputs[2].rows[i], Live(q)', NEW t, t = outputs[2].toks[i]
               PROVE  NextToks(q, t, 1)'
    BY <1>6 DEF OutputsFit, Live
  <2>1. q \in Reqs
    BY OutputRows
  <2>2. Live(q)
    BY <1>7, <2>1
  <2>3. NextToks(q, t, 2)
    BY <2>2 DEF PInv, OutputsFit
  <2> QED BY <1>7, <2>1, <2>3
<1>9. ASSUME NEW b, NEW rw, \A i \in DOMAIN rw : rw[i] \in Reqs, Fit(b, rw, 2)
      PROVE  \A i \in DOMAIN rw : \A q : q = rw[i] /\ ~ b.discard[i] /\ Live(q)' =>
               b.start[i] + b.n[i] - b.spec[i] = Due(q, 1)'
  BY <1>7, <1>9 DEF Fit
<1>10. FedFits'
  <2> SUFFICES ASSUME NEW k \in DOMAIN outputs', Sampling, Pending(k)'
               PROVE  Fit(fed, outputs[k].rows, k)'
    BY <1>2 DEF FedFits, Sampling
  <2>1. k = 1 /\ outputs'[1] = outputs[2] /\ Pending(2)
    BY <1>6 DEF Pending
  <2>2. \A j \in 1..(2 - 1) : outputs[j].ready
    BY <1>4
  <2>3. Fit(fed, outputs[2].rows, 2)
    BY <2>1, <2>2 DEF PInv, FedFits, Pending
  <2>4. \A i \in DOMAIN outputs[2].rows : outputs[2].rows[i] \in Reqs
    BY <1>6, OutputRows
  <2>5. \A i \in DOMAIN outputs[2].rows : \A q : q = outputs[2].rows[i] /\ ~ fed.discard[i] /\ Live(q)' =>
          fed.start[i] + fed.n[i] - fed.spec[i] = Due(q, 1)'
    BY <1>9, <2>3, <2>4
  <2> QED BY <1>2, <2>1, <2>5 DEF Fit, Live
<1>11. BufFits'
  <2> SUFFICES ASSUME NEW k \in DOMAIN outputs', HasInput, ems = NoStep, Pending(k)'
               PROVE  Fit(buf, outputs[k].rows, k)'
    BY <1>2 DEF BufFits, HasInput
  <2>1. k = 1 /\ outputs'[1] = outputs[2] /\ Pending(2) /\ n = 2
    BY <1>6 DEF Pending
  <2>2. \A j \in DOMAIN outputs : j > 2 => outputs[j].ready
    BY <1>4, <2>1
  <2>3. Fit(buf, outputs[2].rows, 2)
    BY <2>1, <2>2 DEF PInv, BufFits, Pending
  <2>4. \A i \in DOMAIN outputs[2].rows : outputs[2].rows[i] \in Reqs
    BY <1>6, OutputRows
  <2>5. \A i \in DOMAIN outputs[2].rows : \A q : q = outputs[2].rows[i] /\ ~ buf.discard[i] /\ Live(q)' =>
          buf.start[i] + buf.n[i] - buf.spec[i] = Due(q, 1)'
    BY <1>9, <2>3, <2>4
  <2> QED BY <1>2, <2>1, <2>5 DEF Fit, Live
<1>12. StepFits'
  <2> SUFFICES ASSUME ems # NoStep
               PROVE  /\ HasInput => Fit(buf, rows, Len(outputs) + 1)'
                      /\ ~ HasInput => Fit(fed, rows, Len(outputs) + 1)'
                      /\ Executing
    BY <1>2 DEF StepFits, Executing, HasInput
  <2>1. Len(outputs) + 1 = 2 /\ Len(outputs') + 1 = 1 /\ Executing
    BY <1>3, <1>4, <1>5
  <2>2. (HasInput => Fit(buf, rows, 2)) /\ (~ HasInput => Fit(fed, rows, 2))
    BY <2>1 DEF PInv, StepFits
  <2>3. ASSUME NEW b, Fit(b, rows, 2)
        PROVE  \A i \in DOMAIN rows : \A q : q = rows[i] /\ ~ b.discard[i] /\ Live(q)' =>
                 b.start[i] + b.n[i] - b.spec[i] = Due(q, 1)'
    BY <1>9, <2>3, BatchRows
  <2>4. HasInput => Fit(buf, rows, 1)'
    BY <1>2, <2>2, <2>3 DEF Fit, Live
  <2>5. ~ HasInput => Fit(fed, rows, 1)'
    BY <1>2, <2>2, <2>3 DEF Fit, Live
  <2> QED BY <2>1, <2>4, <2>5
<1> QED BY <1>8, <1>10, <1>11, <1>12 DEF PInv

LEMMA InitPositions == Init => PInv
<1> SUFFICES ASSUME Init PROVE PInv
  OBVIOUS
<1>1. outputs = <<>> /\ DOMAIN outputs = {} /\ ems = NoStep
  BY DEF Init
<1> QED BY <1>1 DEF PInv, OutputsFit, FedFits, BufFits, StepFits, Pending

(* What no step touches, and the shape of the lives.                          *)
Steady == mode \in Modes /\ DOMAIN life = Reqs
LEMMA NextSteady ==
  ASSUME Steady, [Next]_vars
  PROVE  Steady'
<1>1. UNCHANGED mode /\ \/ UNCHANGED life
                        \/ \E q \in Reqs : life' = [life EXCEPT ![q] = @ + 1]
  BY DEF Next, Schedule, ExecuteModel, SampleTokensAsync, SampleTokens, FinishSync, GpuInput,
         GpuSample, CopyCounts, TakeOutput, Abort, Resubmit, Idle, vars
<1> QED BY <1>1 DEF Steady

LEMMA NextPositions ==
  ASSUME Pipeline, CInv, PInv, Steady, [Next]_vars
  PROVE  PInv'
<1>1. CASE Schedule
  <2>1. PICK S, n, P, order : Steps(n, S, P, order)
    BY <1>1 DEF Schedule, Steps, Scheduled
  <2> QED BY <2>1, ExecutePositions
<1>2. CASE SampleTokensAsync
  BY <1>2, SampleAsyncPositions
<1>3. CASE SampleTokens
  BY <1>3, SamplePositions
<1>4. CASE FinishSync
  BY <1>4, FinishPositions
<1>5. CASE GpuInput
  BY <1>5, InputPositions
<1>6. ASSUME NEW k \in 1..Cardinality(Reqs), NEW acc \in [1..k -> 0..mode.spec], GpuSample(acc)
      PROVE  PInv'
  BY <1>6, GpuSamplePositions
<1>7. CASE CopyCounts
  BY <1>7, FramePositions DEF CopyCounts, Placed, Live
<1>8. CASE TakeOutput
  BY <1>8, TakePositions
<1>9. ASSUME NEW a \in Reqs, Abort(a) \/ Resubmit(a)
      PROVE  PInv'
  <2>1. UNCHANGED Placed
    BY <1>9 DEF Abort, Resubmit, Placed
  <2>2. /\ \A q \in Reqs : q # a => eng'[q] = eng[q] /\ life'[q] = life[q]
        /\ eng'[a].st \in {"done", "new"}
    <3>1. eng = [q \in Reqs |-> eng[q]] /\ DOMAIN life = Reqs
      BY DEF CInv, EngTyped, Steady
    <3>2. CASE Abort(a)
      <4>1. /\ eng' = [eng EXCEPT ![a] = [Fresh EXCEPT !.st = "done", !.outs = eng[a].outs]]
            /\ life' = life
        BY <3>2 DEF Abort
      <4>2. eng'[a] = [Fresh EXCEPT !.st = "done", !.outs = eng[a].outs]
        BY <3>1, <4>1
      <4>3. eng'[a].st = "done"
        BY <4>2 DEF Fresh
      <4> QED BY <3>1, <4>1, <4>3
    <3>3. CASE Resubmit(a)
      <4>1. eng' = [eng EXCEPT ![a] = Fresh] /\ life' = [life EXCEPT ![a] = @ + 1]
        BY <3>3 DEF Resubmit
      <4>2. Fresh.st = "new"
        BY DEF Fresh
      <4> QED BY <3>1, <4>1, <4>2
    <3> QED BY <1>9, <3>2, <3>3
  <2>3. \A q \in Reqs : Live(q)' => q # a /\ Live(q)
    BY <2>2 DEF Live
  <2> QED BY <2>1, <2>2, <2>3, FramePositions
<1>10. CASE UNCHANGED vars
  BY <1>10, FramePositions DEF vars, Placed, Live
<1> QED BY <1>1, <1>2, <1>3, <1>4, <1>5, <1>6, <1>7, <1>8, <1>9, <1>10 DEF Next, Idle
-----------------------------------------------------------------------------
(* The engine keeps of a result what there is room for, in its place.          *)
LEMMA TookOuts ==
  ASSUME Pipeline, CInv, PInv, Steady, TakeOutput, NEW q \in Reqs
  PROVE  \E k \in 0..MostAtOnce : eng'[q].outs = eng[q].outs \o Toks(q, prompt[q] + Len(eng[q].outs), k)
<1> DEFINE o == outputs[1]
           p == PlaceIn(o.rows, q)
           from == prompt[q] + Len(eng[q].outs)
<1>1. outputs # <<>> /\ Head(outputs) = o /\ 1 \in DOMAIN outputs /\ o.ready
  <2>1. PICK T : outputs \in Seq(T)
    BY DEF Pipeline, Shaped
  <2>2. outputs # <<>> /\ Head(outputs).ready
    BY DEF TakeOutput
  <2> QED BY <2>1, <2>2, TailShape
<1>2. Listed(eng[q].outs) /\ DOMAIN eng[q] = EngFields /\ MostAtOnce \in Nat
      /\ mode.spec + 1 <= MostAtOnce /\ mode.spec \in Nat
  BY RunnerAssumption DEF CInv, EngTyped, Batch, Steady
<1>3. CASE eng[q].st # "done" /\ Contains(o.rows, q)
  <2>1. Live(q) /\ p \in DOMAIN o.rows /\ o.rows[p] = q
    <3>1. InRows(o.rows)
      BY <1>1 DEF CInv, OutTyped
    <3>2. Within(q, o.rows)
      BY <1>3, <3>1, PlaceOfRow
    <3> QED BY <1>1, <1>3, <3>1, <3>2, PlaceOfRow DEF CInv, Lives, EngTyped, Live
  <2> DEFINE g == Valid(o, p)
             room == mode.most[q] - Len(eng[q].outs)
             k == IF Len(g) < room THEN Len(g) ELSE room
  <2>2. Len(g) \in Nat /\ Len(g) <= mode.spec + 1 /\ g = Toks(q, from, Len(g))
    <3>1. CASE p \in o.invalid
      <4>1. g = <<>> /\ Len(g) = 0
        BY <3>1, ListedLiterals DEF Valid
      <4>2. Toks(q, from, 0) = <<>>
        BY DEF Toks
      <4> QED BY <1>2, <4>1, <4>2
    <3>2. CASE p \notin o.invalid
      <4>1. NextToks(q, o.toks[p], 1)
        BY <1>1, <2>1, <3>2 DEF PInv, OutputsFit
      <4>2. g = o.toks[p]
        BY <3>2 DEF Valid
      <4>3. Due(q, 1) = from + 0
        BY DEF Due
      <4>4. from + 0 = from
        <5>1. Len(eng[q].outs) \in Nat /\ prompt[q] \in Nat
          BY <1>2, RunnerAssumption DEF Listed
        <5> QED BY <5>1
      <4> QED BY <4>1, <4>2, <4>3, <4>4 DEF NextToks
    <3> QED BY <3>1, <3>2
  <2>3. room \in Nat
    <3>1. mode.most[q] \in Nat /\ Len(eng[q].outs) \in Nat /\ Len(eng[q].outs) < mode.most[q]
      BY <1>2, <2>1 DEF CInv, Batch, EngTyped, Listed
    <3> QED BY <3>1
  <2>4. eng'[q].outs = eng[q].outs \o SubSeq(g, 1, k)
    <3>1. eng'[q] = Took(q, o, p)
      BY <1>1, <1>3 DEF TakeOutput, PlaceIn
    <3> HIDE DEF o, p
    <3>2. CASE Len(eng[q].outs) + Len(SubSeq(g, 1, k)) = mode.most[q]
      <4>1. eng'[q] = [Fresh EXCEPT !.st = "done", !.outs = eng[q].outs \o SubSeq(g, 1, k)]
        BY <3>1, <3>2 DEF Took
      <4> QED BY <4>1 DEF Fresh
    <3>3. CASE Len(eng[q].outs) + Len(SubSeq(g, 1, k)) # mode.most[q]
      <4>1. eng'[q] = [eng[q] EXCEPT !.outs = @ \o SubSeq(g, 1, k),
                         !.computed = IF @ > 0 THEN @ - Rejected(o, p) ELSE @,
                         !.hold = (IF @ > 0 THEN @ - Rejected(o, p) - Len(SubSeq(g, 1, k)) ELSE @),
                         !.specs = IF mode.async \/ g = <<>> THEN @ ELSE o.drafts[p]]
        BY <3>1, <3>3 DEF Took, Rejected
      <4> QED BY <1>2, <4>1 DEF EngFields
    <3> QED BY <3>2, <3>3
  <2> HIDE DEF g, room
  <2>5. k \in 0..Len(g) /\ k \in 0..MostAtOnce
    BY <1>2, <2>2, <2>3
  <2>6. SubSeq(g, 1, k) = Toks(q, from, k)
    <3> HIDE DEF k, from
    <3>1. g = [i \in 1..Len(g) |-> Tok(q, from + i - 1)]
      BY <2>2 DEF Toks
    <3>2. SubSeq(g, 1, k) = [i \in 1..k |-> g[i]]
      <4>1. Listed(g)
        BY <2>2, ListedLiterals
      <4>2. PICK T : g \in Seq(T)
        BY <4>1, ListedIsSeq
      <4>3. /\ Len(SubSeq(g, 1, k)) = k /\ SubSeq(g, 1, k) \in Seq(T)
            /\ \A i \in 1..k : SubSeq(g, 1, k)[i] = g[i]
        BY <2>5, <4>2, SubSeqProperties
      <4> QED BY <2>5, <4>3
    <3>3. \A i \in 1..k : g[i] = Tok(q, from + i - 1)
      BY <2>2, <2>5, <3>1
    <3> QED BY <3>2, <3>3 DEF Toks
  <2> QED BY <2>4, <2>5, <2>6
<1>4. CASE ~ (eng[q].st # "done" /\ Contains(o.rows, q))
  <2>1. eng'[q] = eng[q]
    BY <1>1, <1>4 DEF TakeOutput
  <2>2. Toks(q, from, 0) = <<>> /\ eng[q].outs \o <<>> = eng[q].outs
    <3>1. Toks(q, from, 0) = <<>>
      BY DEF Toks
    <3>2. PICK T : eng[q].outs \in Seq(T)
      BY <1>2, ListedIsSeq
    <3> QED BY <3>1, <3>2
  <2>3. 0 \in 0..MostAtOnce
    BY <1>2
  <2> QED BY <2>1, <2>2, <2>3
<1> QED BY <1>3, <1>4

(* Every step of the runner is one of the stream's, or none.                   *)
Outs == [q \in Reqs |-> eng[q].outs]
LEMMA NextStream ==
  ASSUME Pipeline, CInv, PInv, Steady, [Next]_vars
  PROVE  [Stream!Next]_<<Outs, life>>
<1>1. CASE TakeOutput
  <2>1. PICK more \in [Reqs -> 0..MostAtOnce] : \A q \in Reqs :
          eng'[q].outs = eng[q].outs \o Toks(q, prompt[q] + Len(eng[q].outs), more[q])
    <3> DEFINE f == [q \in Reqs |-> CHOOSE k \in 0..MostAtOnce :
                       eng'[q].outs = eng[q].outs \o Toks(q, prompt[q] + Len(eng[q].outs), k)]
    <3>1. \A q \in Reqs : /\ f[q] \in 0..MostAtOnce
                          /\ eng'[q].outs = eng[q].outs \o Toks(q, prompt[q] + Len(eng[q].outs), f[q])
      BY <1>1, TookOuts
    <3>2. f \in [Reqs -> 0..MostAtOnce]
      BY <3>1
    <3> QED BY <3>1, <3>2
  <2>2. \A q \in Reqs : Outs'[q] = Outs[q] \o Stream!Next1(q, more[q])
    BY <2>1 DEF Outs, Stream!Next1, Toks, Tok
  <2>3. Outs' = [q \in Reqs |-> Outs[q] \o Stream!Next1(q, more[q])]
    BY <2>2 DEF Outs
  <2>4. Stream!Grow(more)
    BY <1>1, <2>3 DEF Stream!Grow, Outs, TakeOutput
  <2>5. Stream!Next
    BY <2>1, <2>4 DEF Stream!Next
  <2> QED BY <2>5
<1>2. ASSUME NEW a \in Reqs, Resubmit(a)
      PROVE  Stream!Again(a)
  <2>1. eng' = [eng EXCEPT ![a] = Fresh] /\ life' = [life EXCEPT ![a] = @ + 1]
    BY <1>2 DEF Resubmit
  <2>2. eng = [q \in Reqs |-> eng[q]] /\ Fresh.outs = <<>>
    BY DEF CInv, EngTyped, Fresh
  <2>3. Outs' = [Outs EXCEPT ![a] = <<>>]
    BY <2>1, <2>2 DEF Outs
  <2> QED BY <2>1, <2>3 DEF Stream!Again, Outs
<1>3. ASSUME \A q \in Reqs : eng'[q].outs = eng[q].outs, UNCHANGED life
      PROVE  UNCHANGED <<Outs, life>>
  BY <1>3 DEF Outs
<1>4. CASE Schedule
  <2>1. PICK S, n, P, order : Steps(n, S, P, order)
    BY <1>4 DEF Schedule, Steps, Scheduled
  <2>2. UNCHANGED life
    BY <2>1 DEF Steps, ExecuteModel
  <2> QED BY <1>3, <2>1, <2>2, AdvancedShape
<1>5. ASSUME NEW a \in Reqs, Abort(a)
      PROVE  UNCHANGED <<Outs, life>>
  <2>1. eng' = [eng EXCEPT ![a] = [Fresh EXCEPT !.st = "done", !.outs = eng[a].outs]] /\ UNCHANGED life
    BY <1>5 DEF Abort
  <2>2. eng = [q \in Reqs |-> eng[q]]
    BY DEF CInv, EngTyped
  <2>3. [Fresh EXCEPT !.st = "done", !.outs = eng[a].outs].outs = eng[a].outs
    BY DEF Fresh
  <2> QED BY <1>3, <2>1, <2>2, <2>3
<1>6. CASE \/ SampleTokensAsync \/ SampleTokens \/ FinishSync \/ GpuInput \/ CopyCounts \/ Idle
           \/ UNCHANGED vars \/ \E acc : GpuSample(acc)
  <2>1. UNCHANGED <<eng, life>>
    BY <1>6 DEF SampleTokensAsync, SampleTokens, FinishSync, GpuInput, CopyCounts, Idle, vars,
                GpuSample
  <2> QED BY <1>3, <2>1
<1>7. (\E a \in Reqs : Stream!Again(a)) => Stream!Next
  BY DEF Stream!Next
<1> QED BY <1>1, <1>2, <1>4, <1>5, <1>6, <1>7 DEF Next

(* The runner implements the token stream: although steps are prepared before  *)
(* the last one's tokens are known, drafts are counted before they are         *)
(* rejected, and requests leave, return and move rows meanwhile, each request  *)
(* gets its next tokens, in order and each once.                              *)
THEOREM StreamsKeepTheirOrder == Spec => StreamsInOrder
<1>1. Init => Pipeline /\ CInv /\ PInv /\ Steady
  <2>1. Init => Steady
    BY DEF Init, Steady
  <2> QED BY <2>1, InitPipeline, InitCounts, InitPositions
<1>2. Pipeline /\ CInv /\ PInv /\ Steady /\ [Next]_vars
        => Pipeline' /\ CInv' /\ PInv' /\ Steady' /\ [Stream!Next]_<<Outs, life>>
  BY NextPipeline, NextCounts, NextPositions, NextSteady, NextStream
<1>3. Init => Stream!Init
  BY DEF Init, Fresh, Stream!Init
<1>4. StreamsInOrder <=> Stream!Init /\ [][Stream!Next]_<<Outs, life>>
  BY DEF StreamsInOrder, Stream!Spec, Outs
<1> QED BY <1>1, <1>2, <1>3, <1>4, PTL DEF Spec
=============================================================================
