----------------------------- MODULE ModelRunner -----------------------------
(***************************************************************************)
(* GPUModelRunner of gpu_model_runner.py on the last pipeline rank: the    *)
(* cached requests, the persistent batch, the preparation of input ids,    *)
(* sampling with speculative decoding, and the asynchronous outputs, with  *)
(* and without asynchronous scheduling.                                    *)
(*                                                                         *)
(* Three parties share the work.  The engine schedules a step and takes    *)
(* outputs.  The runner's thread (execute_model, then sample_tokens) keeps *)
(* the batch and queues device work.  The device executes the queue in     *)
(* order and later: with asynchronous scheduling the runner prepares a     *)
(* step before it knows which tokens the last one produced, so it writes   *)
(* placeholders and has the device fill them in from prev_sampled_token_ids *)
(* by batch row, while requests finish, leave, come back and move rows.    *)
(*                                                                         *)
(* A token is <<q, life, position>>: the token of request q at a position  *)
(* of its sequence.  The engine and InputBatch are not in src/; they are   *)
(* modelled from how this file uses them.                                  *)
(***************************************************************************)
EXTENDS Integers, Sequences, FiniteSets, SequencesExt

CONSTANTS
  Reqs,
  prompt,        \* the number of prompt tokens of each request
  Modes,         \* the configurations: async, spec, and the requests' max_tokens
  DrafterMaxLen, \* effective_drafter_max_model_len
  MostAtOnce,    \* the most tokens that a step adds to a request
  MaxPreempts,   \* bound: preemptions
  MaxAborts,     \* bound: requests aborted by their client
  MaxAgain       \* bound: requests submitted again under the same name

ASSUME RunnerAssumption ==
  /\ prompt \in [Reqs -> Nat \ {0}] /\ IsFiniteSet(Reqs)
  /\ Modes \subseteq [async: BOOLEAN, spec: Nat, most: [Reqs -> Nat \ {0}]]
  /\ DrafterMaxLen \in Nat
  /\ MostAtOnce \in Nat /\ \A m \in Modes : m.spec + 1 <= MostAtOnce
  /\ MaxPreempts \in Nat /\ MaxAborts \in Nat /\ MaxAgain \in Nat

VARIABLES
  mode,     \* use_async_scheduling, num_spec_tokens, max_tokens
  eng,      \* the engine's view of each request
  life,     \* how often the name has been submitted
  told,     \* finished requests the runner has not been told of
  budget,   \* preemptions and aborts used
  req,      \* self.requests, with the row data of those in the batch
  rows,     \* input_batch.req_ids: the requests in row order
  prev,     \* prev_sampled_token_ids is set?, prev_req_id_to_index
  buf,      \* the reused CPU buffers of the step's inputs
  ems,      \* execute_model_state
  queue,    \* device work submitted and not executed
  gpu,      \* the last step's results on the device
  counts,   \* valid_sampled_token_count_cpu
  copying,  \* a copy into counts is under way (its event is not recorded)
  outputs,  \* ModelRunnerOutputs the engine has not taken
  real,     \* the true length of each request: tokens that exist
  kv,       \* leading positions whose KV entries are those of true tokens
  fed,      \* the inputs the device last executed
  failed    \* a lookup of prev_req_id_to_index failed (KeyError)

vars == <<mode, eng, life, told, budget, req, rows, prev, buf, ems, queue, gpu,
          counts, copying, outputs, real, kv, fed, failed>>

Hole == <<>>                    \* the placeholder -1
Tok(q, p) == <<q, life[q], p>>
Guess(q) == Tok(q, -1)          \* a token nobody may see or compute with
Holes(k) == [i \in 1..k |-> Hole]
Toks(q, from, k) == [i \in 1..k |-> Tok(q, from + i - 1)]
NoReq == [known |-> FALSE, computed |-> 0, out |-> <<>>, draft |-> <<>>, row |-> <<>>]
NoInput == [rows |-> <<>>, start |-> <<>>, n |-> <<>>, spec |-> <<>>, ids |-> <<>>,
            discard |-> <<>>, common |-> {}]
NoStep == [rows |-> <<>>, phase |-> "none"]
Fresh == [st |-> "new", computed |-> 0, outs |-> <<>>, hold |-> 0, specs |-> <<>>]

Sum(s, k) == FoldLeft(LAMBDA a, x : a + x, 0, SubSeq(s, 1, k))
RowOf(q) == CHOOSE i \in DOMAIN rows : rows[i] = q

Init ==
  /\ mode \in Modes
  /\ eng = [q \in Reqs |-> Fresh] /\ life = [q \in Reqs |-> 1]
  /\ told = {} /\ budget = [preempt |-> MaxPreempts, abort |-> MaxAborts,
                            again |-> MaxAgain]
  /\ req = [q \in Reqs |-> NoReq] /\ rows = <<>>
  /\ prev = [set |-> FALSE, idx |-> <<>>]
  /\ buf = [start |-> <<>>, n |-> <<>>, spec |-> <<>>, ids |-> <<>>, discard |-> <<>>]
  /\ ems = NoStep /\ queue = <<>>
  /\ gpu = [toks |-> <<>>, next |-> <<>>, count |-> <<>>, drafts |-> <<>>]
  /\ counts = <<>> /\ copying = FALSE /\ outputs = <<>>
  /\ real = prompt /\ kv = [q \in Reqs |-> 0]
  /\ fed = NoInput
  /\ failed = FALSE

-----------------------------------------------------------------------------
(* The engine's scheduler: num_tokens_with_spec + num_output_placeholders -   *)
(* num_computed_tokens tokens of a request can run, or a first part of them.  *)
NumTokens(q) == prompt[q] + Len(eng[q].outs)
NumNew(q) == NumTokens(q) + Len(eng[q].specs) + eng[q].hold - eng[q].computed

(* No step for a request whose last one is sure to reach max_tokens. *)
Schedulable == {q \in Reqs :
  /\ eng[q].st # "done" /\ NumNew(q) > 0
  /\ ~ (eng[q].hold > 0 /\ eng[q].computed + 2 - eng[q].hold >= prompt[q] + mode.most[q])}

(* A scheduler_output: tokens per request; what it says of the requests the *)
(* runner has (scheduled_cached_reqs) and of their draft tokens.             *)
Specs(q, k) ==
  LET d == k + eng[q].computed - NumTokens(q) - eng[q].hold
  IN  IF d > 0 THEN SubSeq(eng[q].specs, 1, d) ELSE <<>>
SchedOut(n) ==
  [n |-> n, fin |-> told,
   fresh |-> {q \in DOMAIN n : eng[q].st = "new"},
   resumed |-> {q \in DOMAIN n : eng[q].st = "preempted"},
   computed |-> [q \in DOMAIN n |-> eng[q].computed],
   numOut |-> [q \in DOMAIN n |-> Len(eng[q].outs) + eng[q].hold],
   specs |-> [q \in DOMAIN n |-> Specs(q, n[q])],
   all |-> [q \in DOMAIN n |-> Toks(q, 0, prompt[q]) \o eng[q].outs]]

(* num_computed_tokens moves past the scheduled tokens; with asynchronous   *)
(* scheduling a request that will sample gets placeholders for its outputs   *)
(* and for the drafts of the next step.                                      *)
Advance(q, k) ==
  LET e == eng[q]
      partial == e.computed + k < NumTokens(q) + e.hold
  IN  [e EXCEPT !.st = "running", !.computed = @ + k,
                !.hold = IF mode.async /\ ~partial THEN @ + 1 + Len(Specs(q, k)) ELSE @,
                !.specs = IF mode.async /\ ~partial THEN Holes(mode.spec) ELSE <<>>]
Preempt(q) == [eng[q] EXCEPT !.st = "preempted", !.computed = 0, !.specs = <<>>]

(* The client gives up; the runner is told with the next step. *)
Abort(q) ==
  /\ eng[q].st \in {"running", "preempted"} /\ budget.abort > 0
  /\ eng' = [eng EXCEPT ![q] = [Fresh EXCEPT !.st = "done", !.outs = eng[q].outs]]
  /\ told' = told \cup {q}
  /\ budget' = [budget EXCEPT !.abort = @ - 1]
  /\ UNCHANGED <<mode, life, req, rows, prev, buf, ems, queue, gpu, counts,
                 copying, outputs, real, kv, fed, failed>>

(* "A request is aborted and then resubmitted with the same ID": its name    *)
(* may be in finished_req_ids and scheduled_new_reqs of one step.            *)
Resubmit(q) ==
  /\ eng[q].st = "done" /\ budget.again > 0
  /\ \A i \in DOMAIN outputs : ~ Contains(outputs[i].rows, q)
  /\ ~ Contains(ems.rows, q)
  /\ eng' = [eng EXCEPT ![q] = Fresh]
  /\ budget' = [budget EXCEPT !.again = @ - 1]
  /\ life' = [life EXCEPT ![q] = @ + 1]
  /\ real' = [real EXCEPT ![q] = prompt[q]]
  /\ kv' = [kv EXCEPT ![q] = 0]
  /\ UNCHANGED <<mode, told, req, rows, prev, buf, ems, queue, gpu, counts,
                 copying, outputs, fed, failed>>
-----------------------------------------------------------------------------
(* _update_states.  Requests that stay in the batch: scheduled, neither       *)
(* finished nor resumed.                                                      *)
Kept(so) == {q \in (DOMAIN so.n \ so.resumed) \ (so.fin \cup so.fresh) : Contains(rows, q)}

(* remove_request also takes a request out of prev_req_id_to_index (external: *)
(* InputBatch; the request's old row must not be read when it is added again). *)
Forget(so) == [prev EXCEPT !.idx = Restrict(prev.idx, DOMAIN prev.idx \cap Kept(so))]

(* With asynchronous scheduling the engine counted every draft of the last    *)
(* step as computed: take back those the device rejected.                     *)
CorrectsAny(q, so) == mode.async /\ req[q].draft # <<>>     \* mutant: no req_index test
Corrects(q, so) == mode.async /\ req[q].draft # <<>> /\ q \in Kept(so)
LookupFails(so) ==
  \E q \in DOMAIN so.n : Corrects(q, so) /\ (~ prev.set \/ q \notin DOMAIN prev.idx)
Accepted(q) == counts[prev.idx[q]] - 1
CorrectedComputed(q, so) ==
  so.computed[q] - (IF Corrects(q, so) THEN Len(req[q].draft) - Accepted(q) ELSE 0)
GrownOut(q, so) ==
  req[q].out \o (IF Corrects(q, so) THEN Holes(Accepted(q)) ELSE <<>>)

(* Output tokens the engine does not count are discarded. *)
Truncates(q, so) == so.numOut[q] < Len(GrownOut(q, so))

(* A request of the batch keeps its row; its out and row may be cut. *)
KeepRow(q, so) ==
  LET cut == Truncates(q, so)
  IN  [req[q] EXCEPT
         !.computed = CorrectedComputed(q, so),
         !.out = SubSeq(GrownOut(q, so), 1, IF cut THEN so.numOut[q] ELSE Len(GrownOut(q, so))),
         !.row = IF cut THEN SubSeq(@ \o Holes(so.numOut[q]), 1, prompt[q] + so.numOut[q])
                        ELSE @,
         !.draft = so.specs[q]]

(* A resumed request, or one that skipped a step, is added again: with        *)
(* asynchronous scheduling its outputs are taken from all_token_ids, since    *)
(* the cached ones are placeholders.                                          *)
Readd(q, so) ==
  LET k == so.numOut[q]
      cached == SubSeq(req[q].out, 1, IF k < Len(req[q].out) THEN k ELSE Len(req[q].out))
      out == IF mode.async /\ k > 0
               THEN SubSeq(so.all[q], Len(so.all[q]) - k + 1, Len(so.all[q]))
               ELSE cached
  IN  [known |-> TRUE, computed |-> so.computed[q], out |-> out,
       row |-> Toks(q, 0, prompt[q]) \o out, draft |-> so.specs[q]]
AddNew(q, so) ==
  [known |-> TRUE, computed |-> so.computed[q], out |-> <<>>,
   row |-> Toks(q, 0, prompt[q]), draft |-> so.specs[q]]

(* Every request after the update; one that is not scheduled leaves the       *)
(* batch and keeps its cached state.                                          *)
Updated(so) == [q \in Reqs |->
  IF q \in so.fresh THEN AddNew(q, so)
  ELSE IF q \in Kept(so) THEN KeepRow(q, so)
  ELSE IF q \in DOMAIN so.n THEN Readd(q, so)
  ELSE IF q \in so.fin THEN NoReq
  ELSE [req[q] EXCEPT !.row = <<>>]]
-----------------------------------------------------------------------------
(* _prepare_inputs and _prepare_input_ids, over the rows of the batch.        *)
Cell(r, p) == IF p < Len(r.row) THEN r.row[p + 1]
              ELSE IF p < Len(r.row) + Len(r.draft) THEN r.draft[p + 1 - Len(r.row)]
              ELSE Hole

(* token_ids_cpu gathered into input_ids.cpu, with positions, query lengths   *)
(* and discard_request_mask: a request whose known tokens are not all in is    *)
(* not sampled.                                                               *)
Prepared(rw, rq, n) ==
  [start |-> [i \in DOMAIN rw |-> rq[rw[i]].computed],
   n |-> [i \in DOMAIN rw |-> n[rw[i]]],
   spec |-> [i \in DOMAIN rw |-> Len(rq[rw[i]].draft)],
   ids |-> FlattenSeq([i \in DOMAIN rw |->
             [j \in 1..n[rw[i]] |-> Cell(rq[rw[i]], rq[rw[i]].computed + j - 1)]]),
   discard |-> [i \in DOMAIN rw |->
      rq[rw[i]].computed + n[rw[i]] < prompt[rw[i]] + Len(rq[rw[i]].out)]]

(* The requests the last step sampled: the flat index of the last token of    *)
(* each (0-based, as in the code), and of its sampled token.                  *)
Common(rw, pv) == {i \in DOMAIN rw : pv.set /\ rw[i] \in DOMAIN pv.idx}
LastFlat(b, i) == Sum(b.n, i) - 1
SampleFlatLast(b, i) == LastFlat(b, i)   \* mutant: the drafts' places not skipped
SampleFlat(b, i) == LastFlat(b, i) - b.spec[i]

(* copy: input_ids.cpu is uploaded; slice: one slice of prev_sampled_token_ids *)
(* is copied because the batch is unchanged; otherwise the sampled tokens and  *)
(* then the drafts are scattered to <<flat index, row of the last step>>.      *)
InputOp(rw, b, pv) ==
  LET common == Common(rw, pv)
      total == Sum(b.n, Len(b.n))
      specs == FoldFunctionOnSet(LAMBDA x, y : y + x, 0, b.spec, common)
      same == /\ \A i \in common : pv.idx[rw[i]] - 1 = LastFlat(b, i)
              /\ \A i \in common : LastFlat(b, i) <= Cardinality(common) - 1
      slice == common # {} /\ same
                 /\ \E i \in common : LastFlat(b, i) = Cardinality(common) - 1
  IN  [op |-> "input", rows |-> rw, common |-> common,
       copy |-> ~ pv.set \/ Cardinality(common) < total - specs,
       slice |-> IF slice THEN Cardinality(common) ELSE 0,
       scatter |-> IF slice THEN {}
                   ELSE {<<SampleFlat(b, i), pv.idx[rw[i]]>> : i \in common},
       drafts |-> IF slice THEN {}
                  ELSE UNION {{<<SampleFlat(b, i) + j, pv.idx[rw[i]], j>> :
                                 j \in 1..b.spec[i]} : i \in common}]

(* execute_model: refused until sample_tokens has taken the last step's        *)
(* state; waits for the device to have read the reused buffers                 *)
(* (synchronize_input_prep) and, in _update_states, for the counts of accepted *)
(* tokens.  The row order the batch ends up in (holes filled, condensed,       *)
(* reordered for the attention backend) is any order.                          *)
Engine1(n, P) ==
  /\ eng' = [q \in Reqs |-> IF q \in DOMAIN n THEN Advance(q, n[q])
                            ELSE IF q \in P THEN Preempt(q) ELSE eng[q]]
  /\ budget' = [budget EXCEPT !.preempt = @ - Cardinality(P)]
  /\ told' = {}
SynchronizedOnCounts ==    \* mutant: no wait for the reused input buffers
  prev.set /\ mode.spec > 0 => ~ copying
Synchronized ==
  /\ mode.async => \A i \in DOMAIN queue : queue[i].op # "input"
  /\ prev.set /\ mode.spec > 0 => ~ copying
ExecuteModel(n, P, order) ==
  LET so == SchedOut(n) IN
  /\ ems = NoStep /\ Synchronized
  /\ Len(outputs) < (IF mode.async THEN 2 ELSE 1)
  /\ Engine1(n, P)
  /\ rows' = order /\ prev' = Forget(so)
  /\ failed' = (failed \/ LookupFails(so))
  /\ IF LookupFails(so) THEN UNCHANGED <<req, buf, ems, queue, outputs>>
     ELSE /\ req' = Updated(so)
          /\ IF order = <<>>
               THEN /\ outputs' = Append(outputs, [rows |-> <<>>, spec |-> <<>>,
                                         invalid |-> {}, toks |-> <<>>, ready |-> TRUE])
                    /\ UNCHANGED <<buf, ems, queue>>
               ELSE /\ buf' = Prepared(order, req', n)
                    /\ queue' = Append(queue, InputOp(order, buf', prev'))
                    /\ ems' = [rows |-> order, phase |-> "executed"]
                    /\ UNCHANGED outputs
  /\ UNCHANGED <<mode, life, gpu, counts, copying, real, kv, fed>>
-----------------------------------------------------------------------------
(* sample_tokens.  The drafter runs when the longest sequence leaves room.    *)
Fits(b) == \A i \in DOMAIN b.n : b.start[i] + b.n[i] + mode.spec <= DrafterMaxLen
SampledAll(rw) == DOMAIN rw           \* mutant: partial prompts are booked too
Sampled(rw) == {i \in DOMAIN rw : ~ buf.discard[i]}
Index(rw) == [q \in {rw[i] : i \in Sampled(rw)} |-> CHOOSE i \in DOMAIN rw : rw[i] = q]
SampleOp(rw) == [op |-> "sample", rows |-> rw, fits |-> Fits(buf)]
Output(rw, toks, ready) ==
  [rows |-> rw, spec |-> buf.spec, invalid |-> DOMAIN rw \ Sampled(rw),
   toks |-> toks, drafts |-> <<>>, ready |-> ready]

(* _bookkeeping_sync: the sampled ids, or one placeholder, join the row and    *)
(* the outputs of each request that was sampled.                              *)
Booked(rw, ids) == [q \in Reqs |->
  IF \E i \in Sampled(rw) : rw[i] = q
    THEN LET t == ids[RowOf(q)]
         IN  [req[q] EXCEPT !.out = @ \o t, !.row = @ \o t]
    ELSE req[q]]

(* Asynchronous scheduling: nothing is read back.  The sampled tokens stay on  *)
(* the device for the next step, with the rows they belong to, and the output  *)
(* is returned before it exists.                                              *)
SampleTokensAsync ==
  /\ mode.async /\ ems.phase = "executed"
  /\ queue' = Append(queue, SampleOp(ems.rows))
  /\ prev' = [set |-> TRUE, idx |-> Index(ems.rows)]
  /\ copying' = (mode.spec > 0)
  /\ req' = Booked(ems.rows, [i \in DOMAIN ems.rows |-> <<Hole>>])
  /\ outputs' = Append(outputs, Output(ems.rows, <<>>, FALSE))
  /\ ems' = NoStep
  /\ UNCHANGED <<mode, eng, life, told, budget, rows, buf, gpu, counts, real, kv,
                 fed, failed>>

(* Otherwise the call samples, waits for the device, books the tokens and      *)
(* leaves the drafts for take_draft_token_ids.                                *)
SampleTokens ==
  /\ ~ mode.async /\ ems.phase = "executed"
  /\ queue' = Append(queue, SampleOp(ems.rows))
  /\ ems' = [ems EXCEPT !.phase = "sampling"]
  /\ UNCHANGED <<mode, eng, life, told, budget, req, rows, prev, buf, gpu, counts,
                 copying, outputs, real, kv, fed, failed>>
FinishSync ==
  /\ ems.phase = "sampling" /\ queue = <<>>
  /\ req' = Booked(ems.rows, gpu.toks)
  /\ outputs' = Append(outputs, [Output(ems.rows, gpu.toks, TRUE) EXCEPT
                  !.drafts = IF Fits(buf) THEN gpu.drafts
                             ELSE [i \in DOMAIN ems.rows |-> <<>>]])
  /\ ems' = NoStep
  /\ UNCHANGED <<mode, eng, life, told, budget, rows, prev, buf, queue, gpu, counts,
                 copying, real, kv, fed, failed>>
-----------------------------------------------------------------------------
(* The device executes the queue in order.  First the inputs: the upload of    *)
(* the reused buffers, then the tokens of the last step.                      *)
At(pairs, k) == CHOOSE x \in pairs : x[1] = k - 1
Targets(pairs) == {x[1] + 1 : x \in pairs}
InputIds(o) == [k \in 1..Sum(buf.n, Len(buf.n)) |->
  IF k <= o.slice THEN gpu.next[k]
  ELSE IF k \in Targets(o.drafts)
    THEN gpu.drafts[At(o.drafts, k)[2]][At(o.drafts, k)[3]]
  ELSE IF k \in Targets(o.scatter) THEN gpu.next[At(o.scatter, k)[2]]
  ELSE IF o.copy THEN buf.ids[k] ELSE Hole]
GpuInput ==
  /\ queue # <<>> /\ Head(queue).op = "input"
  /\ fed' = [rows |-> Head(queue).rows, start |-> buf.start, n |-> buf.n,
             spec |-> buf.spec, ids |-> InputIds(Head(queue)), discard |-> buf.discard,
             common |-> Head(queue).common]
  /\ queue' = Tail(queue)
  /\ UNCHANGED <<mode, eng, life, told, budget, req, rows, prev, buf, ems, gpu, counts,
                 copying, outputs, real, kv, failed>>

(* Then the forward pass and the rejection sampler, which accepts a first part *)
(* of each request's drafts (never the placeholder -1) and adds one token; the *)
(* drafter proposes the next.                                                 *)
Base(i) == fed.start[i] + fed.n[i] - fed.spec[i]
Drafted(i, len, fits) == IF fits THEN Toks(fed.rows[i], len, mode.spec)
                         ELSE [j \in 1..mode.spec |-> Guess(fed.rows[i])]
DraftAt(i, j) == fed.ids[Sum(fed.n, i) - fed.spec[i] + j]
SampleRows(acc) == [i \in DOMAIN fed.rows |->
  IF fed.discard[i] THEN <<Guess(fed.rows[i])>> ELSE Toks(fed.rows[i], Base(i), acc[i] + 1)]
FirstPending == CHOOSE i \in DOMAIN outputs :
  ~ outputs[i].ready /\ \A j \in 1..(i - 1) : outputs[j].ready
GpuSample(acc) ==
  LET o == Head(queue)
      toks == SampleRows(acc)
  IN
  /\ queue # <<>> /\ o.op = "sample"
  /\ DOMAIN acc = DOMAIN o.rows
  /\ \A i \in DOMAIN acc : acc[i] > 0 => /\ ~ fed.discard[i] /\ acc[i] <= fed.spec[i]
                                        /\ DraftAt(i, 1) # Hole
  /\ gpu' = [toks |-> toks,
             next |-> [i \in DOMAIN o.rows |-> Last(toks[i])],
             count |-> [i \in DOMAIN o.rows |-> IF fed.discard[i] THEN 0 ELSE acc[i] + 1],
             drafts |-> [i \in DOMAIN o.rows |-> Drafted(i, Base(i) + acc[i] + 1, o.fits)]]
  /\ real' = [q \in Reqs |-> IF \E i \in DOMAIN o.rows : o.rows[i] = q /\ ~ fed.discard[i]
                THEN LET i == CHOOSE i \in DOMAIN o.rows : o.rows[i] = q
                     IN  Base(i) + acc[i] + 1
                ELSE real[q]]
  /\ kv' = [q \in Reqs |-> IF \E i \in DOMAIN o.rows : o.rows[i] = q
                THEN LET i == CHOOSE i \in DOMAIN o.rows : o.rows[i] = q
                     IN  Base(i) + acc[i]
                ELSE kv[q]]
  /\ IF mode.async
       THEN outputs' = [outputs EXCEPT ![FirstPending].toks = toks,
                                       ![FirstPending].ready = TRUE]
       ELSE UNCHANGED outputs
  /\ queue' = Tail(queue) /\ fed' = NoInput
  /\ UNCHANGED <<mode, eng, life, told, budget, req, rows, prev, buf, ems, counts,
                 copying, failed>>

(* The side stream copies the counts once the step has sampled.               *)
CopyCounts ==
  /\ copying /\ \A i \in DOMAIN queue : queue[i].op # "sample"
  /\ counts' = gpu.count
  /\ copying' = FALSE
  /\ UNCHANGED <<mode, eng, life, told, budget, req, rows, prev, buf, ems, queue, gpu,
                 outputs, real, kv, fed, failed>>
-----------------------------------------------------------------------------
(* get_output waits for the copy, and clears the rows that were not to be      *)
(* sampled; the engine then appends each request's tokens up to max_tokens and *)
(* takes the rejected drafts out of its counts.  With asynchronous scheduling  *)
(* it schedules the next step first, even an empty one: _update_states counts  *)
(* on being sent numbers that include the last step's drafts.                  *)
HasRequests == told # {} \/ \E q \in Reqs : eng[q].st # "done"
ValidUncleared(o, i) == o.toks[i]    \* mutant: invalid_req_indices not cleared
Valid(o, i) == IF i \in o.invalid THEN <<>> ELSE o.toks[i]
Took(q, o, i) ==
  LET e == eng[q]
      g == Valid(o, i)
      room == mode.most[q] - Len(e.outs)
      add == SubSeq(g, 1, IF Len(g) < room THEN Len(g) ELSE room)
      rejected == IF o.spec[i] > 0 /\ g # <<>> THEN o.spec[i] + 1 - Len(g) ELSE 0
  IN  IF Len(e.outs) + Len(add) = mode.most[q]
        THEN [Fresh EXCEPT !.st = "done", !.outs = e.outs \o add]
        ELSE [e EXCEPT !.outs = @ \o add,
                !.computed = IF @ > 0 THEN @ - rejected ELSE @,
                !.hold = (IF @ > 0 THEN @ - rejected - Len(add) ELSE @),
                !.specs = IF mode.async \/ g = <<>> THEN @
                          ELSE o.drafts[i]]
TakeOutput ==
  LET o == Head(outputs)
      at(q) == CHOOSE i \in DOMAIN o.rows : o.rows[i] = q
      takers == {q \in Reqs : eng[q].st # "done" /\ Contains(o.rows, q)}
  IN
  /\ outputs # <<>> /\ o.ready
  /\ mode.async => \/ Len(outputs) = 2 \/ Last(outputs).rows = <<>>
                   \/ ~ HasRequests
  /\ eng' = [q \in Reqs |-> IF q \in takers THEN Took(q, o, at(q)) ELSE eng[q]]
  /\ told' = told \cup {q \in takers : eng'[q].st = "done"}
  /\ outputs' = Tail(outputs)
  /\ UNCHANGED <<mode, life, budget, req, rows, prev, buf, ems, queue, gpu, counts,
                 copying, real, kv, fed, failed>>
-----------------------------------------------------------------------------
(* One step of the engine: any schedulable requests, any first part of their   *)
(* tokens, any running requests preempted in their place.                     *)
Schedule ==
  \E S \in SUBSET Schedulable :
    \E n \in {f \in [S -> 1..8] : \A q \in S : f[q] <= NumNew(q)} :
      \E P \in SUBSET {q \in Reqs \ S : eng[q].st = "running"} :
        /\ Cardinality(P) <= budget.preempt
        /\ P # {} => S \cap {q \in Reqs : eng[q].st # "running"} = {}
        /\ S # {} \/ (HasRequests /\ (P # {} \/ Schedulable = {}))
        /\ \E order \in SetToSeqs(S) : ExecuteModel(n, P, order)

(* Everything is done and delivered: the engine waits for new requests. *)
Idle == ~ HasRequests /\ outputs = <<>> /\ queue = <<>> /\ UNCHANGED vars

Next ==
  \/ Schedule
  \/ SampleTokensAsync \/ SampleTokens \/ FinishSync
  \/ GpuInput
  \/ \E acc \in UNION {[1..k -> 0..mode.spec] : k \in 1..Cardinality(Reqs)} : GpuSample(acc)
  \/ CopyCounts
  \/ TakeOutput
  \/ \E q \in Reqs : Abort(q) \/ Resubmit(q)
  \/ Idle

Spec == Init /\ [][Next]_vars
-----------------------------------------------------------------------------
(* The device is fed, for every request of a step and every position of its    *)
(* part, the token the request has there, and for drafts what was proposed for *)
(* that request and position (or zeros, when the drafter did not run, or the   *)
(* placeholder, when the request was not in the last step); the part starts    *)
(* where the valid KV entries end at the latest, and ends with the request's   *)
(* last token exactly if the request is sampled.  Rows move, outputs are not   *)
(* known yet, buffers are reused: _update_states, _prepare_inputs and          *)
(* _prepare_input_ids have to agree about all of it.  A request with drafts in  *)
(* the last step is found in prev_req_id_to_index and has its count.          *)
RowFed(i) ==
  LET q == fed.rows[i]
      base == fed.n[i] - fed.spec[i]
      at(j) == fed.ids[Sum(fed.n, i - 1) + j]
  IN  /\ fed.start[i] <= kv[q]
      /\ \A j \in 1..base : at(j) = Tok(q, fed.start[i] + j - 1)
      /\ \A j \in base + 1..fed.n[i] :
           \/ at(j) \in {Tok(q, fed.start[i] + j - 1), Guess(q)}
           \/ mode.async /\ i \notin fed.common /\ at(j) = Hole
      /\ IF fed.discard[i] THEN fed.start[i] + base < real[q]
                           ELSE fed.start[i] + base = real[q]
FedTheRequestsTokens ==
  /\ queue # <<>> /\ Head(queue).op = "sample" => \A i \in DOMAIN fed.rows : RowFed(i)
  /\ ~ failed

(* A step samples the rows it was fed, and its results go to the output that   *)
(* was returned for it before they existed: the same rows, the same counts of  *)
(* drafts, and as invalid exactly the rows the device did not sample, although *)
(* the runner reads buffers it reuses for the next step, and an output of the  *)
(* step before may still be pending.                                          *)
Promised(o) == /\ o.rows = fed.rows /\ o.spec = fed.spec /\ ~ o.ready
               /\ o.invalid = {i \in DOMAIN fed.rows : fed.discard[i]}
OutputsBelongToTheirSteps ==
  queue # <<>> /\ Head(queue).op = "sample" =>
    /\ fed.rows = Head(queue).rows
    /\ mode.async => outputs # <<>> /\ Promised(outputs[FirstPending])
    /\ ~ mode.async => ems.rows = fed.rows /\ buf.discard = fed.discard

(* The engine never counts fewer outputs of a request than the runner caches:  *)
(* the "output tokens were discarded" branch of _update_states, and the        *)
(* recovery from all_token_ids, lose no token.                                *)
CachedOutputsNeverShrink ==
  [][\A q \in Reqs \ told : req[q].known /\ req'[q].known
       => Len(req'[q].out) >= Len(req[q].out)]_vars

(* What the engine has of a request is its own tokens, in order, each once.    *)
Stream == INSTANCE TokenStream WITH outs <- [q \in Reqs |-> eng[q].outs]
StreamsInOrder == Stream!Spec
=============================================================================
