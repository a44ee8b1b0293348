------------------------------ MODULE Benchmark ------------------------------
(***************************************************************************)
(* How the repository measures a server: the benchmark scripts run one     *)
(* capture after another (run_chat_capture.py, through begin_think_proxy.py *)
(* or not), the legacy harness one case after another (run_qwen36_live_tps), *)
(* and both score differences of the server's /metrics counters.           *)
(*                                                                         *)
(* The server is external: an engine step makes one token of one request;  *)
(* the client has it at once, the counters have it when the step is        *)
(* recorded, later, in order.  Time is left out: a sleep, a time limit and  *)
(* a lag may each end before or after anything else.                       *)
(***************************************************************************)
EXTENDS Integers, Sequences, FiniteSets, SequencesExt

CONSTANTS
  MaxOthers,    \* requests of other clients, an earlier script that failed included
  MaxRestarts,  \* of the server
  MaxPolls      \* of wait_idle (300 in the code)

ASSUME BenchmarkAssumption ==
  MaxOthers \in Nat /\ MaxRestarts \in Nat /\ MaxPolls \in Nat \ {0}

(* The captures of run_vnext_profile_benchmark.sh: one of the two fixed lengths *)
(* 2000 and 10000, no warm-up, which is a capture like it.  Two cases of the   *)
(* legacy harness.                                                            *)
Stages == [ladder |-> <<"strict", "long">>, tps |-> <<"case", "case">>]
Lengths(stage) == CASE stage = "strict" -> {1, 2} [] stage = "long" -> {2} [] stage = "case" -> {1}

(* What the model wrote: its reasoning was closed, an answer followed, and how *)
(* it stopped.                                                                *)
Outputs == {o \in [closed : BOOLEAN, answer : BOOLEAN, finish : {"stop", "length"}] :
              o.answer => o.closed}

NoOutput == [closed |-> FALSE, answer |-> FALSE, finish |-> "length"]

VARIABLES
  parser,    \* the server splits the reasoning off (--reasoning-parser)
  requests,  \* at the server: [owner: script or other; left: tokens to make]
  backlog,   \* steps not yet recorded: [gen, fin, busy]
  counters,  \* what /metrics shows: generation tokens, finished requests, and
             \* requests running or waiting
  run,       \* the script: [kind, proxy, pc, stage, polls, before, after, output, tokens]
  rows,      \* what the script has scored
  status,    \* exit status of the strict capture: 0, 2 or 9 (none yet)
  hist       \* for the properties: [others, restarts; quiet: the script met an
             \* idle server; alone: nobody else came since (in a case: since it looked
             \* for idle); idle: the case saw an idle server; lag: steps were
             \* unrecorded when it looked; reset: by a restart]

vars == <<parser, requests, backlog, counters, run, rows, status, hist>>

NoCounters == [gen |-> 0, fin |-> 0, busy |-> 0]
NoRun == [kind |-> "tps", proxy |-> FALSE, pc |-> "none", stage |-> 1, polls |-> 0,
          before |-> NoCounters, after |-> NoCounters, output |-> NoOutput, tokens |-> 0]

Init ==
  /\ parser \in BOOLEAN
  /\ requests = <<>> /\ backlog = <<>> /\ counters = NoCounters
  /\ run = NoRun /\ rows = <<>> /\ status = 9
  /\ hist = [others |-> 0, restarts |-> 0,
             quiet |-> TRUE, alone |-> TRUE, idle |-> FALSE, lag |-> FALSE, reset |-> FALSE]
-----------------------------------------------------------------------------
(* The server. *)
Stepped(gen, fin, reqs) == Append(backlog, [gen |-> gen, fin |-> fin, busy |-> Len(reqs)])

Arrive(owner, n) ==
  /\ requests' = Append(requests, [owner |-> owner, left |-> n])
  /\ backlog' = Stepped(0, 0, requests')

(* One token of a request; with the last one its client has the answer.        *)
Generate ==
  \E i \in DOMAIN requests :
    LET q == requests[i] IN
    /\ requests' = IF q.left > 1 THEN [requests EXCEPT ![i].left = @ - 1]
                                 ELSE RemoveAt(requests, i)
    /\ backlog' = Stepped(1, IF q.left = 1 THEN 1 ELSE 0, requests')
    /\ IF q.owner = "script" /\ q.left = 1
         THEN \E o \in IF Stages[run.kind][run.stage] = "strict" THEN Outputs ELSE {NoOutput} :
                run' = [run EXCEPT !.pc = "answered", !.output = o]
         ELSE UNCHANGED run
    /\ UNCHANGED <<parser, counters, rows, status, hist>>

Record ==
  /\ backlog # <<>>
  /\ LET s == Head(backlog) IN
     counters' = [gen |-> counters.gen + s.gen, fin |-> counters.fin + s.fin, busy |-> s.busy]
  /\ backlog' = Tail(backlog)
  /\ UNCHANGED <<parser, requests, run, rows, status, hist>>

(* Its client hung up. *)
Disconnect ==
  \E i \in DOMAIN requests :
    /\ requests[i].owner = "other"
    /\ requests' = RemoveAt(requests, i) /\ backlog' = Stepped(0, 0, requests')
    /\ UNCHANGED <<parser, counters, run, rows, status, hist>>

OtherClient ==
  /\ hist.others < MaxOthers
  /\ Arrive("other", 1)
  /\ hist' = [hist EXCEPT !.others = @ + 1, !.alone = FALSE]
  /\ UNCHANGED <<parser, counters, run, rows, status>>

(* The server comes back with counters at zero; a request in flight fails.     *)
Restart ==
  /\ hist.restarts < MaxRestarts
  /\ requests' = <<>> /\ backlog' = <<>> /\ counters' = NoCounters
  /\ run' = IF run.pc = "stream" THEN [NoRun EXCEPT !.kind = run.kind, !.pc = "failed"] ELSE run
  /\ hist' = [hist EXCEPT !.restarts = @ + 1, !.reset = TRUE]
  /\ UNCHANGED <<parser, rows, status>>
-----------------------------------------------------------------------------
(* The scripts. *)
First(kind) == IF kind = "tps" THEN "poll" ELSE "before"

Start ==
  /\ run.pc = "none"
  /\ \E kind \in DOMAIN Stages, proxy \in BOOLEAN :
       run' = [NoRun EXCEPT !.kind = kind, !.proxy = proxy /\ kind = "ladder",
                            !.pc = First(kind)]
  /\ hist' = [hist EXCEPT !.quiet = requests = <<>> /\ backlog = <<>>, !.alone = TRUE,
                          !.reset = FALSE]
  /\ UNCHANGED <<parser, requests, backlog, counters, rows, status>>

(* wait_idle: it goes on when it has polled often enough, too.                 *)
WaitIdleNever ==    \* mutant: it does not wait
  /\ run.pc = "poll"
  /\ run' = [run EXCEPT !.pc = "before"]
  /\ hist' = [hist EXCEPT !.idle = TRUE, !.lag = backlog # <<>>, !.reset = FALSE,
                          !.alone = TRUE]
  /\ UNCHANGED <<parser, requests, backlog, counters, rows, status>>
WaitIdle ==
  /\ run.pc = "poll"
  /\ LET idle == counters.busy = 0 IN
     /\ run' = IF idle \/ run.polls + 1 = MaxPolls THEN [run EXCEPT !.pc = "before"]
                                                   ELSE [run EXCEPT !.polls = @ + 1]
     /\ hist' = [hist EXCEPT !.idle = idle, !.lag = backlog # <<>>, !.reset = FALSE,
                             !.alone = TRUE]
  /\ UNCHANGED <<parser, requests, backlog, counters, rows, status>>

ReadBefore ==
  /\ run.pc = "before"
  /\ run' = [run EXCEPT !.pc = "post", !.before = counters]
  /\ hist' = [hist EXCEPT !.lag = @ \/ backlog # <<>>]
  /\ UNCHANGED <<parser, requests, backlog, counters, rows, status>>

Stage == Stages[run.kind][run.stage]

Post ==
  /\ run.pc = "post"
  /\ \E n \in Lengths(Stage) :
       /\ Arrive("script", n)
       /\ run' = [run EXCEPT !.pc = "stream", !.tokens = n]
  /\ UNCHANGED <<parser, counters, rows, status, hist>>

(* A time limit, or an error: the exception ends the script, and its request is *)
(* nobody's.                                                                  *)
Fail ==
  /\ run.pc \in {"poll", "before", "post", "stream", "answered", "settle"}
  /\ run' = [NoRun EXCEPT !.kind = run.kind, !.pc = "failed"]
  /\ requests' = [i \in DOMAIN requests |->
                    IF requests[i].owner = "script" THEN [requests[i] EXCEPT !.owner = "other"]
                                                    ELSE requests[i]]
  /\ UNCHANGED <<parser, backlog, counters, rows, status, hist>>

(* A first sample after the answer. *)
ReadAfter ==
  /\ run.pc = "answered"
  /\ run' = [run EXCEPT !.pc = "settle", !.after = counters]
  /\ hist' = [hist EXCEPT !.lag = @ \/ backlog # <<>>]
  /\ UNCHANGED <<parser, requests, backlog, counters, rows, status>>

(* What the capture sees of the output, through the parser and the proxy: the   *)
(* pieces of the message's two parts.                                         *)
Reasoning == IF parser THEN {"text"} ELSE {}
Content ==
  LET o == run.output
      sent == IF ~ parser THEN {"text"} \cup (IF o.closed THEN {"</think>"} ELSE {})
              ELSE IF o.answer THEN {"text"} ELSE {}     \* none: null
  IN IF run.proxy /\ sent # {} THEN {"<think>"} \cup sent ELSE sent

(* strict_qwen_answer of the uncapped capture; degenerate output is left out.  *)
HasReasoning ==    \* mutant: as visible_after_qwen_thinking, reasoning is enough
  "</think>" \in Content \/ Reasoning # {}
HasClose ==
  \/ "</think>" \in Content
  \/ Reasoning # {} /\ Content # {}
qwen_gate_valid == run.output.finish = "stop" /\ HasClose

Delta(m) == run.after[m] - run.before[m]
(* metric_delta of a total in place of a difference. *)
SettledByTotals(sample) ==    \* mutant
  /\ run.tokens <= 0 \/ sample.gen >= run.tokens
  /\ sample.fin >= 1
(* tokens is what the answer's usage says, which this server always sends.      *)
Settled(sample) ==
  /\ run.tokens <= 0 \/ sample.gen - run.before.gen >= run.tokens
  /\ sample.fin - run.before.fin >= 1

(* The row, and the next stage: the capture returns settled, or unsettled at    *)
(* its time limit; it has looked at the sample only.  A strict capture that is *)
(* not valid ends the script.                                                 *)
Score ==
  /\ run.pc = "settle"
  /\ rows' = Append(rows, [gen |-> Delta("gen"), fin |-> Delta("fin"), tokens |-> run.tokens,
                           output |-> run.output, settled |-> Settled(run.after), caughtUp |-> Settled(counters),
                           sound |-> hist.idle /\ hist.alone /\ ~ hist.lag /\ ~ hist.reset])
  /\ LET valid == Stage = "strict" => qwen_gate_valid
         last == run.stage = Len(Stages[run.kind])
     IN
     /\ status' = IF Stage = "strict" THEN IF valid THEN 0 ELSE 2 ELSE status
     /\ run' = [NoRun EXCEPT
                  !.kind = run.kind, !.proxy = run.proxy,
                  !.stage = IF valid /\ ~ last THEN run.stage + 1 ELSE run.stage,
                  !.pc = CASE ~ valid -> "failed"
                           [] valid /\ last -> "done"
                           [] valid /\ ~ last -> First(run.kind)]
  /\ UNCHANGED <<parser, requests, backlog, counters, hist>>

Next ==
  \/ Generate \/ Record \/ Disconnect \/ OtherClient \/ Restart
  \/ Start \/ WaitIdle \/ ReadBefore \/ Post \/ Fail \/ ReadAfter \/ Score

Spec == Init /\ [][Next]_vars
-----------------------------------------------------------------------------
IsExact(row) == row.gen = row.tokens /\ row.fin = 1

(* A script that met an idle server and had it to itself: a capture that says   *)
(* metrics_settled, like all before it, is exactly its own request, however    *)
(* late the counters are, and although one before may have ended at a restart. *)
SettledCapturesAreExact ==
  run.kind = "ladder" /\ hist.quiet /\ hist.alone =>
    \A i \in DOMAIN rows : (\A j \in 1..i : rows[j].settled) => IsExact(rows[i])

(* A case of the legacy harness can be wrong for four reasons only: it gave up  *)
(* waiting for an idle server, another client came, a step was unrecorded when *)
(* it looked, the server was restarted.  A request that an earlier script left *)
(* behind is none of them.                                                    *)
CasesAreExact ==
  run.kind = "tps" => \A i \in DOMAIN rows : rows[i].sound => IsExact(rows[i])

(* The long captures, and exit status 0, come after a strict one whose model    *)
(* closed its reasoning and stopped by itself, with or without a reasoning     *)
(* parser in the server and the proxy that opens a <think> in between.         *)
GateNeedsClose ==
  run.kind = "ladder" /\ (status = 0 \/ Len(rows) > 1) =>
    rows[1].output.closed /\ rows[1].output.finish = "stop"

(* "waits for post-response /metrics counters to settle so long in-flight       *)
(* decode requests are not scored from lagging metrics snapshots"              *)
(* (docs/gfx906-key-learnings-20260606.md:1769): when the counters have caught *)
(* up by the time the wait ends, it has noticed.                              *)
WaitSeesTheCountersSettle ==
  run.kind = "ladder" => \A i \in DOMAIN rows : rows[i].caughtUp => rows[i].settled
=============================================================================
