--------------------------- MODULE Release_proofs ---------------------------
(***************************************************************************)
(* What a release is judged by, for any profiles, directories, numbers of  *)
(* launches, other clients and restarts.  First Benchmark: which scored    *)
(* differences are exactly the measured request.  Then VnextLaunch: which  *)
(* files an engine has and whose engine is measured.                       *)
(*                                                                         *)
(* Benchmark, the argument: what the counters will show once every step is *)
(* recorded is bounded by what was there when the capture looked, and what *)
(* its request has made since (AtMost, WillShow, in terms of the partial   *)
(* sums over the backlog).  A settled sample has reached that bound, so    *)
(* nothing is left for the next capture.                                   *)
(***************************************************************************)
EXTENDS Benchmark, VnextLaunch, SequenceTheorems, TLAPS

Measures == {"gen", "fin"}
Counter == [gen : Nat, fin : Nat, busy : Nat]
Scripted == {"poll", "before", "post", "stream", "answered", "settle"}

Request == [owner : {"script", "other"}, left : Nat \ {0}]
Run == [kind : {"ladder", "tps"}, proxy : BOOLEAN,
        pc : Scripted \cup {"none", "failed", "done"}, stage : {1, 2}, polls : Nat,
        before : Counter, after : Counter, output : Outputs, tokens : Nat]
Scored == [gen : Int, fin : Int, tokens : Nat, output : Outputs, settled : BOOLEAN,
           caughtUp : BOOLEAN, sound : BOOLEAN]
Hist == [others : Nat, restarts : Nat, quiet : BOOLEAN, alone : BOOLEAN, idle : BOOLEAN,
         lag : BOOLEAN, reset : BOOLEAN]

BTypeOK ==
  /\ parser \in BOOLEAN
  /\ requests \in Seq(Request) /\ backlog \in Seq(Counter) /\ counters \in Counter
  /\ run \in Run /\ rows \in Seq(Scored) /\ status \in {0, 2, 9} /\ hist \in Hist

(* Partial sums: what the counter m of c shows as the steps of b are recorded.  *)
Shows(g, b, c, m) == g[0] = c[m] /\ \A i \in 1..Len(b) : g[i] = g[i - 1] + b[i][m]
Within(b, c, m, t) == \E g \in [0..Len(b) -> 0..t] : Shows(g, b, c, m)
Ends(b, c, m, t) == \E g \in [0..Len(b) -> 0..t] : Shows(g, b, c, m) /\ g[Len(b)] = t

AtMost(m, t) == Within(backlog, counters, m, t)
WillShow(m, t) == Ends(backlog, counters, m, t)

(* The last step that the counters have, or will have, says how busy it is.    *)
BusyInv == IF backlog = <<>> THEN counters.busy = Len(requests)
                             ELSE backlog[Len(backlog)].busy = Len(requests)

(* The server has a request of the script's only while that waits for it.      *)
OwnerInv == \A i \in 1..Len(requests) : requests[i].owner = "script" =>
  run.pc = "stream" /\ \A j \in 1..Len(requests) : requests[j].owner = "script" => j = i

Mine(left) == requests = <<[owner |-> "script", left |-> left]>>
Gain(m) == IF m = "gen" THEN run.tokens ELSE 1

(* A request asks for a token at least.                                       *)
AskedInv == run.pc \in {"stream", "answered", "settle"} => run.tokens > 0

(* A ladder alone, whose captures have all settled. *)
AloneAndSettled == /\ run.kind = "ladder" /\ hist.quiet /\ hist.alone
                   /\ \A i \in DOMAIN rows : rows[i].settled
LadderInv ==
  AloneAndSettled =>
    /\ run.pc \in Scripted \ {"stream"} => requests = <<>>
    /\ run.pc = "before" => \A m \in Measures : AtMost(m, counters[m])
    /\ run.pc = "post" => \A m \in Measures : AtMost(m, run.before[m])
    /\ run.pc = "stream" => \E left \in 1..run.tokens :
         Mine(left) /\ AtMost("gen", run.before.gen + run.tokens - left) /\ AtMost("fin", run.before.fin)
    /\ run.pc = "answered" => \A m \in Measures : AtMost(m, run.before[m] + Gain(m))
    /\ run.pc = "settle" => \A m \in Measures :
         /\ run.after[m] <= run.before[m] + Gain(m)
         /\ \/ AtMost(m, counters[m])
            \/ run.after[m] <= counters[m] /\ AtMost(m, run.before[m] + Gain(m))

(* A case that, so far, nothing has disturbed. *)
Undisturbed == hist.idle /\ hist.alone /\ ~ hist.lag /\ ~ hist.reset
CaseInv ==
  run.kind = "tps" /\ Undisturbed =>
    /\ run.pc = "before" => requests = <<>> /\ backlog = <<>>
    /\ run.pc = "post" => requests = <<>> /\ \A m \in Measures : WillShow(m, run.before[m])
    /\ run.pc = "stream" => \E left \in 1..run.tokens :
         Mine(left) /\ WillShow("gen", run.before.gen + run.tokens - left) /\ WillShow("fin", run.before.fin)
    /\ run.pc = "answered" =>
         requests = <<>> /\ \A m \in Measures : WillShow(m, run.before[m] + Gain(m))
    /\ run.pc = "settle" => \A m \in Measures : run.after[m] = run.before[m] + Gain(m)

(* The rows tell how far a ladder is. *)
FirstClosed == rows[1].output.closed /\ rows[1].output.finish = "stop"
GateInv ==
  /\ run.kind = "tps" => status = 9
  /\ run.kind = "ladder" => run.pc \notin {"none", "poll"}
  /\ run.pc = "none" => rows = <<>>
  /\ status = 0 => Len(rows) > 0
  /\ run.kind = "ladder" /\ (status = 0 \/ Len(rows) > 1) => FirstClosed
  /\ run.kind = "ladder" /\ run.pc \in Scripted =>
       run.stage = Len(rows) + 1 /\ (rows # <<>> => FirstClosed)

BInv == /\ BTypeOK /\ BusyInv /\ OwnerInv /\ AskedInv /\ LadderInv /\ CaseInv /\ GateInv
        /\ SettledCapturesAreExact /\ CasesAreExact
-----------------------------------------------------------------------------
(* Partial sums. *)
LEMMA EmptySums ==
  ASSUME NEW c \in Counter, NEW m \in Measures
  PROVE  Within(<<>>, c, m, c[m]) /\ Ends(<<>>, c, m, c[m])
<1> DEFINE g == [i \in 0..0 |-> c[m]]
<1>1. c[m] \in Nat BY DEF Measures, Counter
<1>2. g \in [0..Len(<<>>) -> 0..c[m]] /\ g[0] = c[m] BY <1>1
<1>3. Shows(g, <<>>, c, m) BY <1>2 DEF Shows
<1> HIDE DEF g
<1> QED BY <1>2, <1>3 DEF Within, Ends

LEMMA AppendSums ==
  ASSUME NEW b \in Seq(Counter), NEW c, NEW s \in Counter, NEW m \in Measures,
         NEW t \in Nat, NEW u \in Nat, t + s[m] <= u
  PROVE  /\ Within(b, c, m, t) => Within(Append(b, s), c, m, u)
         /\ Ends(b, c, m, t) /\ u = t + s[m] => Ends(Append(b, s), c, m, u)
<1>0. s[m] \in Nat /\ Len(b) \in Nat BY DEF Measures, Counter
<1>1. ASSUME NEW g \in [0..Len(b) -> 0..t], Shows(g, b, c, m)
      PROVE  \E h \in [0..Len(Append(b, s)) -> 0..u] :
               Shows(h, Append(b, s), c, m) /\ h[Len(Append(b, s))] = g[Len(b)] + s[m]
  <2> DEFINE h == [i \in 0..(Len(b) + 1) |-> IF i = Len(b) + 1 THEN g[Len(b)] + s[m] ELSE g[i]]
  <2>1. /\ Len(Append(b, s)) = Len(b) + 1
        /\ \A i \in 1..Len(b) : Append(b, s)[i] = b[i]
        /\ Append(b, s)[Len(b) + 1] = s
    BY <1>0
  <2>2. \A i \in 0..Len(b) : g[i] \in 0..t
    OBVIOUS
  <2>3. \A i \in 0..(Len(b) + 1) : h[i] \in 0..u
    <3> TAKE i \in 0..(Len(b) + 1)
    <3>1. CASE i = Len(b) + 1
      <4>1. g[Len(b)] \in 0..t BY <1>0, <2>2
      <4> QED BY <1>0, <3>1, <4>1
    <3>2. CASE i \in 0..Len(b)
      <4>1. g[i] \in 0..t /\ h[i] = g[i] BY <1>0, <2>2, <3>2
      <4> QED BY <1>0, <4>1
    <3> QED BY <1>0, <3>1, <3>2
  <2>4. \A i \in 1..(Len(b) + 1) : h[i] = h[i - 1] + Append(b, s)[i][m]
    <3> TAKE i \in 1..(Len(b) + 1)
    <3>1. CASE i = Len(b) + 1
      BY <1>0, <2>1, <3>1
    <3>2. CASE i \in 1..Len(b)
      BY <1>0, <1>1, <2>1, <3>2 DEF Shows
    <3> QED BY <1>0, <3>1, <3>2
  <2>5. h[0] = c[m] /\ h[Len(b) + 1] = g[Len(b)] + s[m]
    BY <1>0, <1>1 DEF Shows
  <2>6. h \in [0..(Len(b) + 1) -> 0..u]
    BY <2>3
  <2> HIDE DEF h
  <2> QED BY <2>1, <2>4, <2>5, <2>6 DEF Shows
<1> QED BY <1>1 DEF Within, Ends

LEMMA RecordSums ==
  ASSUME NEW b \in Seq(Counter), b # <<>>, NEW c \in Counter, NEW d \in Counter,
         NEW m \in Measures, d[m] = c[m] + Head(b)[m], NEW t \in Nat
  PROVE  /\ Within(b, c, m, t) => Within(Tail(b), d, m, t)
         /\ Ends(b, c, m, t) => Ends(Tail(b), d, m, t)
<1>0. /\ Len(b) \in Nat \ {0} /\ Head(b) = b[1] /\ Tail(b) \in Seq(Counter)
      /\ Len(Tail(b)) = Len(b) - 1
      /\ \A i \in 1..(Len(b) - 1) : Tail(b)[i] = b[i + 1]
  BY EmptySeq, HeadTailProperties
<1>1. ASSUME NEW g \in [0..Len(b) -> 0..t], Shows(g, b, c, m)
      PROVE  \E h \in [0..Len(Tail(b)) -> 0..t] :
               Shows(h, Tail(b), d, m) /\ h[Len(Tail(b))] = g[Len(b)]
  <2> DEFINE h == [i \in 0..(Len(b) - 1) |-> g[i + 1]]
  <2>1. h \in [0..(Len(b) - 1) -> 0..t]
    BY <1>0
  <2>2. \A i \in 1..(Len(b) - 1) : h[i] = h[i - 1] + Tail(b)[i][m]
    BY <1>0, <1>1 DEF Shows
  <2>3. h[0] = d[m] /\ h[Len(b) - 1] = g[Len(b)]
    BY <1>0, <1>1 DEF Shows
  <2> HIDE DEF h
  <2> QED BY <1>0, <2>1, <2>2, <2>3 DEF Shows
<1> QED BY <1>1 DEF Within, Ends

(* The counter is not beyond what it will be, and with nothing to record it is  *)
(* there.                                                                     *)
LEMMA SumsBound ==
  ASSUME NEW b \in Seq(Counter), NEW c \in Counter, NEW m \in Measures, NEW t \in Nat
  PROVE  /\ Within(b, c, m, t) => c[m] <= t
         /\ Within(b, c, m, t) => \A u \in Nat : t <= u => Within(b, c, m, u)
         /\ Ends(b, c, m, t) /\ b = <<>> => c[m] = t
<1>1. Len(b) \in Nat /\ c[m] \in Nat BY DEF Measures, Counter
<1>2. Within(b, c, m, t) => c[m] <= t
  BY <1>1 DEF Within, Shows
<1>3. ASSUME NEW u \in Nat, t <= u, Within(b, c, m, t) PROVE Within(b, c, m, u)
  <2> [0..Len(b) -> 0..t] \subseteq [0..Len(b) -> 0..u] BY <1>3
  <2> QED BY <1>3 DEF Within
<1>4. Ends(b, c, m, t) /\ b = <<>> => c[m] = t
  BY <1>1 DEF Ends, Shows
<1> QED BY <1>2, <1>3, <1>4
-----------------------------------------------------------------------------
(* Types, and how busy the last step is. *)
LEMMA StagesType ==
  /\ DOMAIN Stages = {"ladder", "tps"}
  /\ \A k \in {"ladder", "tps"} : Len(Stages[k]) = 2
  /\ \A k \in {"ladder", "tps"}, i \in 1..2 : /\ Stages[k][i] \in {"strict", "long", "case"}
                                              /\ Stages[k][i] = "strict" <=> k = "ladder" /\ i = 1
  /\ \A stage \in {"strict", "long", "case"} : Lengths(stage) \subseteq Nat \ {0}
BY DEF Stages, Lengths

LEMMA NoRunType ==
  /\ NoOutput \in Outputs /\ NoCounters \in Counter /\ NoRun \in Run
  /\ NoRun.kind = "tps" /\ NoRun.pc = "none" /\ NoRun.stage = 1
<1>1. NoOutput \in Outputs BY DEF NoOutput, Outputs
<1>2. NoCounters \in Counter BY DEF NoCounters, Counter
<1> QED BY <1>1, <1>2 DEF NoRun, Run, Scripted

LEMMA InitBTypes == Init => BTypeOK /\ BusyInv
<1> SUFFICES ASSUME Init PROVE BTypeOK /\ BusyInv OBVIOUS
<1>1. hist \in Hist BY DEF Init, Hist
<1>2. counters.busy = 0 BY DEF Init, NoCounters
<1> QED BY <1>1, <1>2, NoRunType DEF Init, BTypeOK, BusyInv

LEMMA RemoveAtType ==
  ASSUME NEW S, NEW s \in Seq(S), NEW i \in 1..Len(s)
  PROVE  RemoveAt(s, i) \in Seq(S)
BY DEF RemoveAt

LEMMA NextBTypes == BTypeOK /\ BusyInv /\ [Next]_vars => BTypeOK' /\ BusyInv'
<1> SUFFICES ASSUME BTypeOK, BusyInv, [Next]_vars PROVE BTypeOK' /\ BusyInv'
  OBVIOUS
<1>0. requests \in Seq(Request) /\ Len(requests) \in Nat /\ Len(backlog) \in Nat
  BY DEF BTypeOK
<1>s. ASSUME NEW gen \in Nat, NEW fin \in Nat, requests' \in Seq(Request),
             backlog' = Append(backlog, [gen |-> gen, fin |-> fin, busy |-> Len(requests')])
      PROVE  backlog' \in Seq(Counter) /\ BusyInv'
  <2>1. Len(requests') \in Nat BY <1>s
  <2> DEFINE step == [gen |-> gen, fin |-> fin, busy |-> Len(requests')]
  <2>2. step \in Counter /\ step.busy = Len(requests')
    BY <2>1, <1>s DEF Counter
  <2>3. backlog' = Append(backlog, step)
    BY <1>s
  <2> HIDE DEF step
  <2>4. Append(backlog, step) \in Seq(Counter) /\ Len(Append(backlog, step)) = Len(backlog) + 1
        /\ Append(backlog, step)[Len(backlog) + 1] = step
    BY <1>0, <2>2 DEF BTypeOK
  <2>5. Append(backlog, step) # <<>>
    BY <1>0, <2>4
  <2> QED BY <2>2, <2>3, <2>4, <2>5 DEF BusyInv
<1>1. CASE Generate
  <2>1. PICK i \in DOMAIN requests : Generate!(i)
    BY <1>1 DEF Generate
  <2>2. i \in 1..Len(requests) /\ requests[i] \in Request
    BY <1>0
  <2>3. requests' \in Seq(Request)
    <3>1. CASE requests[i].left > 1
      <4>1. [requests[i] EXCEPT !.left = @ - 1] \in Request
        BY <2>2, <3>1 DEF Request
      <4>2. requests' = [requests EXCEPT ![i] = [requests[i] EXCEPT !.left = @ - 1]]
        BY <2>1, <2>2, <3>1
      <4> QED BY <1>0, <4>1, <4>2
    <3>2. CASE ~ (requests[i].left > 1)
      BY <1>0, <2>1, <2>2, <3>2, RemoveAtType
    <3> QED BY <3>1, <3>2
  <2>4. backlog' \in Seq(Counter) /\ BusyInv'
    <3> DEFINE fin == IF requests[i].left = 1 THEN 1 ELSE 0
    <3>1. fin \in Nat /\ 1 \in Nat /\ backlog' = Append(backlog, [gen |-> 1, fin |-> fin, busy |-> Len(requests')])
      BY <2>1 DEF Stepped
    <3> HIDE DEF fin
    <3> QED BY <1>s, <2>3, <3>1
  <2>5. run' \in Run
    <3>1. run \in Run BY DEF BTypeOK
    <3>2. ASSUME NEW o \in Outputs PROVE [run EXCEPT !.pc = "answered", !.output = o] \in Run
      BY <3>1, <3>2 DEF Run, Scripted
    <3>3. NoOutput \in Outputs BY NoRunType
    <3> QED BY <2>1, <3>1, <3>2, <3>3
  <2> QED BY <2>1, <2>3, <2>4, <2>5 DEF BTypeOK
<1>2. CASE Record
  <2>1. Head(backlog) \in Counter /\ Tail(backlog) \in Seq(Counter) /\ backlog = <<Head(backlog)>> \o Tail(backlog)
    BY <1>2, EmptySeq, HeadTailProperties DEF Record, BTypeOK
  <2>2. BTypeOK'
    <3>1. counters' \in Counter
      <4>1. PICK c, x : c = counters /\ x = Head(backlog) /\ c \in Counter /\ x \in Counter
        BY <2>1 DEF BTypeOK
      <4>2. counters' = [gen |-> c.gen + x.gen, fin |-> c.fin + x.fin, busy |-> x.busy]
        BY <1>2, <4>1, Zenon DEF Record
      <4> QED BY <4>1, <4>2 DEF Counter
    <3> QED BY <1>2, <2>1, <3>1 DEF Record, BTypeOK
  <2>3. BusyInv'
    <3>1. PICK n \in Nat : /\ n # 0 /\ Len(backlog) = n /\ Len(Tail(backlog)) = n - 1
                           /\ \A j \in 1..(n - 1) : Tail(backlog)[j] = backlog[j + 1]
      BY <1>2, EmptySeq, HeadTailProperties DEF Record, BTypeOK
    <3>2. /\ backlog' = Tail(backlog) /\ counters'.busy = backlog[1].busy
          /\ requests' = requests /\ backlog # <<>>
      BY <1>2 DEF Record
    <3>3. CASE n = 1
      <4>1. Len(Tail(backlog)) = 0 BY <3>1, <3>3
      <4>2. Tail(backlog) = <<>> BY <2>1, <4>1, EmptySeq
      <4> QED BY <3>1, <3>2, <3>3, <4>2 DEF BusyInv
    <3>4. CASE n > 1
      <4>1. Len(Tail(backlog)) # Len(<<>>) BY <3>1, <3>4
      <4>2. Tail(backlog)[n - 1] = backlog[n] BY <3>1, <3>4
      <4>3. Tail(backlog) # <<>> BY <4>1
      <4> QED BY <3>1, <3>2, <4>2, <4>3 DEF BusyInv
    <3> QED BY <3>1, <3>3, <3>4
  <2> QED BY <2>2, <2>3
<1>3. CASE Disconnect
  <2>1. PICK i \in DOMAIN requests : Disconnect!(i)
    BY <1>3 DEF Disconnect
  <2>2. requests' \in Seq(Request)
    BY <1>0, <2>1, RemoveAtType
  <2>3. 0 \in Nat /\ backlog' = Append(backlog, [gen |-> 0, fin |-> 0, busy |-> Len(requests')])
    BY <2>1 DEF Stepped
  <2>4. backlog' \in Seq(Counter) /\ BusyInv'
    <3> QED BY <1>s, <2>2, <2>3
  <2> QED BY <2>1, <2>2, <2>4 DEF BTypeOK
<1>a. ASSUME NEW owner \in {"script", "other"}, NEW n \in Nat \ {0}, Arrive(owner, n)
      PROVE  requests' \in Seq(Request) /\ backlog' \in Seq(Counter) /\ BusyInv'
  <2>1. [owner |-> owner, left |-> n] \in Request
    BY <1>a DEF Request
  <2>2. requests' \in Seq(Request)
    BY <1>0, <1>a, <2>1 DEF Arrive
  <2>3. 0 \in Nat /\ backlog' = Append(backlog, [gen |-> 0, fin |-> 0, busy |-> Len(requests')])
    BY <1>a DEF Arrive, Stepped
  <2> QED BY <1>s, <2>2, <2>3
<1>h. hist \in Hist /\ run \in Run /\ counters \in Counter
  BY DEF BTypeOK
<1>4. CASE OtherClient
  <2>1. Arrive("other", 1) /\ hist' = [hist EXCEPT !.others = @ + 1, !.alone = FALSE]
    BY <1>4 DEF OtherClient
  <2>2. requests' \in Seq(Request) /\ backlog' \in Seq(Counter) /\ BusyInv'
    <3>1. 1 \in Nat \ {0} OBVIOUS
    <3> QED BY <1>a, <2>1, <3>1
  <2>3. hist' \in Hist
    <3>1. hist.others + 1 \in Nat BY <1>h DEF Hist
    <3>2. PICK n \in Nat : hist' = [hist EXCEPT !.others = n, !.alone = FALSE] BY <2>1, <3>1
    <3> QED BY <1>h, <3>2 DEF Hist
  <2> QED BY <1>4, <2>2, <2>3 DEF BTypeOK, OtherClient
<1>5. CASE Restart
  <2>1. run' \in Run
    <3>1. run' = run \/ run' = [NoRun EXCEPT !.kind = run.kind, !.pc = "failed"]
      BY <1>5 DEF Restart
    <3> QED BY <1>h, <3>1, NoRunType DEF Run
  <2>2. hist' \in Hist
    <3>1. hist.restarts + 1 \in Nat BY <1>h DEF Hist
    <3>2. PICK n \in Nat : hist' = [hist EXCEPT !.restarts = n, !.reset = TRUE] BY <1>5, <3>1 DEF Restart
    <3> QED BY <1>h, <3>2 DEF Hist
  <2>3. counters' = NoCounters /\ requests' = <<>> /\ backlog' = <<>> BY <1>5 DEF Restart
  <2>4. BusyInv' BY <2>3 DEF BusyInv, NoCounters
  <2> QED BY <1>5, <2>1, <2>2, <2>3, <2>4, NoRunType DEF Restart, BTypeOK
<1>6. CASE Start
  <2>1. PICK kind \in {"ladder", "tps"}, proxy \in BOOLEAN :
          run' = [NoRun EXCEPT !.kind = kind, !.proxy = proxy /\ kind = "ladder", !.pc = First(kind)]
    BY <1>6, StagesType DEF Start
  <2>2. First(kind) \in Scripted BY DEF First, Scripted
  <2>3. run' \in Run BY <2>1, <2>2, NoRunType DEF Run
  <2>4. hist' \in Hist BY <1>6, <1>h DEF Start, Hist
  <2> QED BY <1>6, <2>3, <2>4 DEF Start, BTypeOK, BusyInv
<1>7. CASE WaitIdle
  <2>1. run' = [run EXCEPT !.pc = "before"] \/ run' = [run EXCEPT !.polls = @ + 1]
    BY <1>7 DEF WaitIdle
  <2>2. run' \in Run BY <1>h, <2>1 DEF Run, Scripted
  <2>3. hist' \in Hist BY <1>7, <1>h DEF WaitIdle, Hist
  <2> QED BY <1>7, <2>2, <2>3 DEF WaitIdle, BTypeOK, BusyInv
<1>8. CASE ReadBefore
  <2>1. run' \in Run BY <1>8, <1>h DEF ReadBefore, Run, Scripted
  <2>2. hist' \in Hist BY <1>8, <1>h DEF ReadBefore, Hist
  <2> QED BY <1>8, <2>1, <2>2 DEF ReadBefore, BTypeOK, BusyInv
<1>9. CASE Post
  <2>1. PICK n \in Lengths(Stage) : Arrive("script", n) /\ run' = [run EXCEPT !.pc = "stream", !.tokens = n]
    BY <1>9 DEF Post
  <2>2. n \in Nat \ {0}
    <3>1. Stage \in {"strict", "long", "case"}
      <4>1. run.kind \in {"ladder", "tps"} /\ run.stage \in 1..2 BY <1>h DEF Run
      <4> QED BY <4>1, StagesType DEF Stage
    <3> QED BY <3>1, StagesType
  <2>3. requests' \in Seq(Request) /\ backlog' \in Seq(Counter) /\ BusyInv'
    BY <1>a, <2>1, <2>2
  <2>4. run' \in Run BY <1>h, <2>1, <2>2 DEF Run, Scripted
  <2> QED BY <1>9, <2>3, <2>4 DEF Post, BTypeOK
<1>10. CASE Fail
  <2>1. requests' \in Seq(Request) /\ Len(requests') = Len(requests)
    <3>1. \A i \in 1..Len(requests) : /\ requests[i] \in Request
                                       /\ [requests[i] EXCEPT !.owner = "other"] \in Request
      <4> TAKE i \in 1..Len(requests)
      <4>1. requests[i] \in Request BY <1>0
      <4> QED BY <4>1 DEF Request
    <3>2. requests' = [i \in 1..Len(requests) |->
                        IF requests[i].owner = "script" THEN [requests[i] EXCEPT !.owner = "other"]
                                                        ELSE requests[i]]
      BY <1>0, <1>10 DEF Fail
    <3>3. requests' \in [1..Len(requests) -> Request]
      BY <3>1, <3>2
    <3> QED BY <1>0, <3>2, <3>3
  <2>2. run' \in Run BY <1>10, <1>h, NoRunType DEF Fail, Run
  <2> QED BY <1>10, <2>1, <2>2 DEF Fail, BTypeOK, BusyInv
<1>11. CASE ReadAfter
  <2>1. run' \in Run BY <1>11, <1>h DEF ReadAfter, Run, Scripted
  <2>2. hist' \in Hist BY <1>11, <1>h DEF ReadAfter, Hist
  <2> QED BY <1>11, <2>1, <2>2 DEF ReadAfter, BTypeOK, BusyInv
<1>12. CASE Score
  <2>1. rows' \in Seq(Scored)
    <3> DEFINE row == [gen |-> Delta("gen"), fin |-> Delta("fin"), tokens |-> run.tokens,
                       output |-> run.output, settled |-> Settled(run.after), caughtUp |-> Settled(counters),
                       sound |-> hist.idle /\ hist.alone /\ ~ hist.lag /\ ~ hist.reset]
    <3>1. Delta("gen") \in Int /\ Delta("fin") \in Int
      BY <1>h DEF Run, Counter, Delta
    <3>2. Settled(run.after) \in BOOLEAN /\ Settled(counters) \in BOOLEAN
      BY DEF Settled
    <3>3. run.tokens \in Nat /\ run.output \in Outputs
      BY <1>h DEF Run
    <3>4. row \in Scored
      BY <1>h, <3>1, <3>2, <3>3 DEF Hist, Scored
    <3>5. rows' = Append(rows, row)
      BY <1>12 DEF Score
    <3> HIDE DEF row
    <3> QED BY <3>4, <3>5 DEF BTypeOK
  <2>2. run' \in Run
    <3>1. PICK stage \in {1, 2}, pc \in {"failed", "done", "poll", "before"} :
            run' = [NoRun EXCEPT !.kind = run.kind, !.proxy = run.proxy, !.stage = stage, !.pc = pc]
      <4>1. run.stage \in {1, 2} BY <1>h DEF Run
      <4>2. run.kind \in {"ladder", "tps"} BY <1>h DEF Run
      <4>3. Len(Stages[run.kind]) = 2 BY <4>2, StagesType
      <4> DEFINE valid == Stage = "strict" => qwen_gate_valid
                 last == run.stage = Len(Stages[run.kind])
                 stage == IF valid /\ ~ last THEN run.stage + 1 ELSE run.stage
                 pc == CASE ~ valid -> "failed" [] valid /\ last -> "done"
                         [] valid /\ ~ last -> First(run.kind)
      <4>4. run' = [NoRun EXCEPT !.kind = run.kind, !.proxy = run.proxy, !.stage = stage, !.pc = pc]
        BY <1>12 DEF Score
      <4>5. stage \in {1, 2} BY <4>1, <4>3
      <4>6. pc \in {"failed", "done", "poll", "before"} BY DEF First
      <4> QED BY <4>4, <4>5, <4>6
    <3> QED BY <1>h, <3>1, NoRunType DEF Run, Scripted
  <2>3. status' \in {0, 2, 9}
    BY <1>12 DEF Score, BTypeOK
  <2> QED BY <1>12, <2>1, <2>2, <2>3 DEF Score, BTypeOK, BusyInv
<1>13. CASE UNCHANGED vars
  BY <1>13 DEF vars, BTypeOK, BusyInv
<1> QED BY <1>1, <1>2, <1>3, <1>4, <1>5, <1>6, <1>7, <1>8, <1>9, <1>10, <1>11, <1>12, <1>13 DEF Next
-----------------------------------------------------------------------------
(* Whose requests, and the gate. *)
LEMMA RemoveAtElements ==
  ASSUME NEW S, NEW s \in Seq(S), NEW i \in 1..Len(s)
  PROVE  /\ Len(RemoveAt(s, i)) = Len(s) - 1
         /\ \A k \in 1..(Len(s) - 1) : RemoveAt(s, i)[k] = s[IF k < i THEN k ELSE k + 1]
<1>1. PICK n \in Nat : Len(s) = n /\ i \in 1..n
  OBVIOUS
<1>2. /\ SubSeq(s, 1, i - 1) \in Seq(S) /\ Len(SubSeq(s, 1, i - 1)) = i - 1
      /\ \A k \in 1..(i - 1) : SubSeq(s, 1, i - 1)[k] = s[k]
  BY <1>1
<1>3. /\ SubSeq(s, i + 1, n) \in Seq(S) /\ Len(SubSeq(s, i + 1, n)) = n - i
      /\ \A k \in 1..(n - i) : SubSeq(s, i + 1, n)[k] = s[k + i]
  BY <1>1
<1> QED BY <1>1, <1>2, <1>3 DEF RemoveAt

(* The two things a generated token can be. *)
Continuing(i) == /\ requests[i].left > 1 /\ run' = run
           /\ requests' = [requests EXCEPT ![i].left = @ - 1] /\ backlog' = Stepped(1, 0, requests')
Finishing(i) == /\ requests[i].left = 1
           /\ requests' = RemoveAt(requests, i) /\ backlog' = Stepped(1, 1, requests')
           /\ IF requests[i].owner = "script"
                THEN \E o \in Outputs : run' = [run EXCEPT !.pc = "answered", !.output = o]
                ELSE run' = run
LEMMA GenerateCases ==
  ASSUME BTypeOK, Generate
  PROVE  /\ UNCHANGED <<parser, counters, rows, status, hist>>
         /\ \E i \in 1..Len(requests) : requests[i] \in Request /\ (Continuing(i) \/ Finishing(i))
<1>1. PICK i \in DOMAIN requests : Generate!(i)
  BY DEF Generate
<1>2. i \in 1..Len(requests) /\ requests[i] \in Request
  BY DEF BTypeOK
<1>3. PICK left \in Nat \ {0} : requests[i].left = left
  BY <1>2 DEF Request
<1>4. CASE left > 1
  <2>1. left # 1 BY <1>4
  <2> QED BY <1>1, <1>2, <1>3, <1>4, <2>1 DEF Continuing
<1>5. CASE left = 1
  <2>1. ~ (left > 1) BY <1>5
  <2>2. requests' = RemoveAt(requests, i) /\ backlog' = Stepped(1, 1, requests')
    BY <1>1, <1>3, <1>5, <2>1
  <2>3. NoOutput \in Outputs
    BY DEF NoOutput, Outputs
  <2>4. IF requests[i].owner = "script"
          THEN \E o \in Outputs : run' = [run EXCEPT !.pc = "answered", !.output = o]
          ELSE run' = run
    BY <1>1, <1>3, <1>5, <2>3
  <2> QED BY <1>1, <1>2, <1>3, <1>5, <2>2, <2>4 DEF Finishing
<1> QED BY <1>3, <1>4, <1>5

LEMMA NextOwner == BTypeOK /\ OwnerInv /\ [Next]_vars => OwnerInv'
<1> SUFFICES ASSUME BTypeOK, OwnerInv, [Next]_vars PROVE OwnerInv'
  OBVIOUS
<1>0. requests \in Seq(Request) /\ run.kind \in {"ladder", "tps"}
  BY DEF BTypeOK, Run
<1>1. CASE Generate
  <2>1. PICK i \in 1..Len(requests) : requests[i] \in Request /\ (Continuing(i) \/ Finishing(i))
    BY <1>1, GenerateCases
  <2>3. CASE Continuing(i)
    <3>2. Len(requests') = Len(requests)
          /\ \A j \in 1..Len(requests) : requests'[j].owner = requests[j].owner
      BY <1>0, <2>1, <2>3 DEF Request, Continuing
    <3> QED BY <2>3, <3>2 DEF OwnerInv, Continuing
  <2>4. CASE Finishing(i)
    <3> DEFINE was(k) == IF k < i THEN k ELSE k + 1
    <3>1. PICK n \in Nat : Len(requests) = n /\ i \in 1..n
      BY <1>0, <2>1
    <3>2. Len(requests') = n - 1 /\ \A k \in 1..(n - 1) : requests'[k] = requests[was(k)]
      BY <1>0, <2>4, <3>1, RemoveAtElements DEF Finishing
    <3>3. \A k \in 1..(n - 1) : was(k) \in 1..n /\ was(k) # i
      BY <3>1
    <3>4. \A j, k \in 1..(n - 1) : was(j) = was(k) => j = k
      BY <3>1
    <3> HIDE DEF was
    <3>5. CASE requests[i].owner = "script"
      <4>1. \A k \in 1..(n - 1) : requests'[k].owner # "script"
        BY <3>1, <3>2, <3>3, <3>5 DEF OwnerInv
      <4> QED BY <3>2, <4>1 DEF OwnerInv
    <3>6. CASE requests[i].owner # "script"
      <4>1. run' = run BY <2>4, <3>6 DEF Finishing
      <4>2. ASSUME NEW k \in 1..(n - 1), requests'[k].owner = "script"
            PROVE  run'.pc = "stream" /\ \A j \in 1..(n - 1) : requests'[j].owner = "script" => j = k
        <5>1. was(k) \in 1..Len(requests) /\ requests[was(k)].owner = "script"
          BY <3>1, <3>2, <3>3, <4>2
        <5>2. run.pc = "stream" /\ \A j \in 1..n : requests[j].owner = "script" => j = was(k)
          BY <3>1, <5>1 DEF OwnerInv
        <5>3. \A j \in 1..(n - 1) : requests'[j].owner = "script" => was(j) = was(k)
          BY <3>2, <3>3, <5>2
        <5> QED BY <3>4, <4>1, <5>2, <5>3
      <4> QED BY <3>2, <4>2 DEF OwnerInv
    <3> QED BY <3>5, <3>6
  <2> QED BY <2>1, <2>3, <2>4
<1>2. CASE Record
  BY <1>2 DEF Record, OwnerInv
<1>3. CASE Disconnect
  <2>1. PICK i \in DOMAIN requests : Disconnect!(i)
    BY <1>3 DEF Disconnect
  <2> DEFINE was(k) == IF k < i THEN k ELSE k + 1
  <2>2. PICK n \in Nat : Len(requests) = n /\ i \in 1..n
    BY <1>0
  <2>3. Len(requests') = n - 1 /\ \A k \in 1..(n - 1) : requests'[k] = requests[was(k)]
    BY <1>0, <2>1, <2>2, RemoveAtElements
  <2>4. \A k \in 1..(n - 1) : was(k) \in 1..n
    BY <2>2
  <2>5. \A j, k \in 1..(n - 1) : was(j) = was(k) => j = k
    BY <2>2
  <2> HIDE DEF was
  <2>6. ASSUME NEW k \in 1..(n - 1), requests'[k].owner = "script"
        PROVE  run'.pc = "stream" /\ \A j \in 1..(n - 1) : requests'[j].owner = "script" => j = k
    <3>1. was(k) \in 1..Len(requests) /\ requests[was(k)].owner = "script"
      BY <2>2, <2>3, <2>4, <2>6
    <3>2. run.pc = "stream" /\ \A j \in 1..n : requests[j].owner = "script" => j = was(k)
      BY <2>2, <3>1 DEF OwnerInv
    <3>3. \A j \in 1..(n - 1) : requests'[j].owner = "script" => was(j) = was(k)
      BY <2>3, <2>4, <3>2
    <3> QED BY <2>1, <2>5, <3>2, <3>3
  <2> QED BY <2>3, <2>6 DEF OwnerInv
<1>4. CASE OtherClient
  <2>1. PICK n \in Nat : Len(requests) = n
    BY <1>0
  <2>2. /\ Len(requests') = n + 1 /\ requests'[n + 1].owner = "other"
        /\ \A i \in 1..n : requests'[i] = requests[i]
    BY <1>0, <1>4, <2>1 DEF OtherClient, Arrive
  <2>3. \A i \in 1..(n + 1) : requests'[i].owner = "script" => i \in 1..n
    BY <2>2
  <2>4. run' = run BY <1>4 DEF OtherClient
  <2> QED BY <2>1, <2>2, <2>3, <2>4 DEF OwnerInv
<1>5. CASE Restart
  BY <1>5 DEF Restart, OwnerInv
<1>6. CASE Start
  BY <1>6 DEF Start, OwnerInv
<1>7. CASE WaitIdle
  BY <1>7 DEF WaitIdle, OwnerInv
<1>8. CASE ReadBefore
  BY <1>8 DEF ReadBefore, OwnerInv
<1>9. CASE Post
  <2>1. PICK n \in Nat : Len(requests) = n
    BY <1>0
  <2>2. /\ Len(requests') = n + 1
        /\ \A i \in 1..n : requests'[i] = requests[i]
    BY <1>0, <1>9, <2>1 DEF Post, Arrive
  <2>3. \A i \in 1..n : requests[i].owner # "script"
    BY <1>9, <2>1 DEF Post, OwnerInv
  <2>4. \A i \in 1..(n + 1) : requests'[i].owner = "script" => i = n + 1
    BY <2>2, <2>3
  <2>5. run'.pc = "stream" BY <1>9 DEF Post, BTypeOK, Run
  <2> QED BY <2>2, <2>4, <2>5 DEF OwnerInv
<1>10. CASE Fail
  <2>1. \A i \in 1..Len(requests) : /\ requests[i] \in Request
                                    /\ requests[i].owner = "other" \/ [requests[i] EXCEPT !.owner = "other"].owner = "other"
    <3> TAKE i \in 1..Len(requests)
    <3>1. requests[i] \in Request BY <1>0
    <3> QED BY <3>1 DEF Request
  <2>2. requests' = [i \in 1..Len(requests) |->
                      IF requests[i].owner = "script" THEN [requests[i] EXCEPT !.owner = "other"]
                                                      ELSE requests[i]]
    BY <1>0, <1>10 DEF Fail
  <2>3. Len(requests') = Len(requests)
    BY <1>0, <2>2
  <2>4. \A i \in 1..Len(requests) : requests'[i].owner # "script"
    BY <2>1, <2>2 DEF Request
  <2> QED BY <2>3, <2>4 DEF OwnerInv
<1>11. CASE ReadAfter
  BY <1>11 DEF ReadAfter, OwnerInv
<1>12. CASE Score
  BY <1>12 DEF Score, OwnerInv
<1>13. CASE UNCHANGED vars
  BY <1>13 DEF vars, OwnerInv
<1> QED BY <1>1, <1>2, <1>3, <1>4, <1>5, <1>6, <1>7, <1>8, <1>9, <1>10, <1>11, <1>12, <1>13 DEF Next

(* A strict answer that is valid was closed and stopped by itself. *)
LEMMA ValidIsClosed ==
  ASSUME BTypeOK, qwen_gate_valid
  PROVE  run.output.closed /\ run.output.finish = "stop"
<1>1. run.output \in Outputs BY DEF BTypeOK, Run
<1>2. run.output.finish = "stop" /\ HasClose BY DEF qwen_gate_valid
<1>3. run.output.answer => run.output.closed BY <1>1 DEF Outputs
<1> DEFINE sent == IF ~ parser THEN {"text"} \cup (IF run.output.closed THEN {"</think>"} ELSE {})
                   ELSE IF run.output.answer THEN {"text"} ELSE {}
<1>c. Content = IF run.proxy /\ sent # {} THEN {"<think>"} \cup sent ELSE sent
  BY DEF Content
<1>4. CASE "</think>" \in Content
  <2>1. "</think>" \in sent BY <1>4, <1>c
  <2> QED BY <1>2, <2>1
<1>5. CASE Reasoning # {} /\ Content # {}
  <2>1. sent # {} BY <1>5, <1>c
  <2>2. parser BY <1>5 DEF Reasoning
  <2>3. run.output.answer BY <2>1, <2>2
  <2> QED BY <1>2, <1>3, <2>3
<1> QED BY <1>2, <1>4, <1>5 DEF HasClose

(* What scoring does to the rows. *)
LEMMA ScoredRow ==
  ASSUME BTypeOK, Score
  PROVE  /\ Len(rows') = Len(rows) + 1 /\ \A i \in 1..Len(rows) : rows'[i] = rows[i]
         /\ rows'[Len(rows) + 1].gen = Delta("gen") /\ rows'[Len(rows) + 1].fin = Delta("fin")
         /\ rows'[Len(rows) + 1].tokens = run.tokens /\ rows'[Len(rows) + 1].output = run.output
         /\ rows'[Len(rows) + 1].settled = Settled(run.after)
         /\ rows'[Len(rows) + 1].sound = Undisturbed
BY DEF BTypeOK, Score, Undisturbed

LEMMA ScoredRun ==
  ASSUME BTypeOK, Score
  PROVE  /\ run'.kind = run.kind
         /\ Stage = "strict" <=> run.kind = "ladder" /\ run.stage = 1
         /\ status' = IF Stage = "strict" THEN IF qwen_gate_valid THEN 0 ELSE 2 ELSE status
         /\ IF Stage = "strict" /\ ~ qwen_gate_valid THEN run'.pc = "failed"
            ELSE IF run.stage = 2 THEN run'.pc = "done"
            ELSE run'.pc = First(run.kind) /\ run'.stage = 2
<1>1. run \in Run /\ run.kind \in {"ladder", "tps"} /\ run.stage \in {1, 2}
  BY DEF BTypeOK, Run
<1>2. Stage = "strict" <=> run.kind = "ladder" /\ run.stage = 1
  BY <1>1 DEF Stages, Stage
<1>3. Len(Stages[run.kind]) = 2 BY <1>1, StagesType
<1> DEFINE valid == Stage = "strict" => qwen_gate_valid
           last == run.stage = Len(Stages[run.kind])
           stage == IF valid /\ ~ last THEN run.stage + 1 ELSE run.stage
           pc == CASE ~ valid -> "failed" [] valid /\ last -> "done"
                   [] valid /\ ~ last -> First(run.kind)
<1>4. run' = [NoRun EXCEPT !.kind = run.kind, !.proxy = run.proxy, !.stage = stage, !.pc = pc]
  BY DEF Score
<1>5. run'.kind = run.kind /\ run'.stage = stage /\ run'.pc = pc
  BY <1>4 DEF NoRun
<1>6. last <=> run.stage = 2 BY <1>3
<1>7. ~ valid => pc = "failed" OBVIOUS
<1>8. valid /\ last => pc = "done" OBVIOUS
<1>9. valid /\ ~ last => pc = First(run.kind) /\ stage = 2 BY <1>1, <1>6
<1>10. status' = IF Stage = "strict" THEN IF qwen_gate_valid THEN 0 ELSE 2 ELSE status
  BY DEF Score
<1> QED BY <1>2, <1>5, <1>6, <1>7, <1>8, <1>9, <1>10

LEMMA InitGate ==
  Init => GateInv /\ OwnerInv /\ AskedInv /\ LadderInv /\ CaseInv /\ SettledCapturesAreExact /\ CasesAreExact
BY DEF Init, NoRun, GateInv, OwnerInv, AskedInv, LadderInv, AloneAndSettled, CaseInv, Undisturbed, SettledCapturesAreExact,
       CasesAreExact

LEMMA NextAsked == BTypeOK /\ OwnerInv /\ AskedInv /\ [Next]_vars => AskedInv'
<1> SUFFICES ASSUME BTypeOK, OwnerInv, AskedInv, [Next]_vars PROVE AskedInv'
  OBVIOUS
<1>0. run \in Run BY DEF BTypeOK
<1>k. ASSUME run' = run PROVE AskedInv' BY <1>k DEF AskedInv
<1>1. CASE Generate
  <2>1. PICK i \in 1..Len(requests) : requests[i] \in Request /\ (Continuing(i) \/ Finishing(i))
    BY <1>1, GenerateCases
  <2>2. CASE \E o \in Outputs : run' = [run EXCEPT !.pc = "answered", !.output = o]
    <3>1. run' = run \/ run.pc = "stream" BY <2>1 DEF Continuing, Finishing, OwnerInv
    <3>2. run'.tokens = run.tokens BY <1>0, <2>2 DEF Run
    <3> QED BY <1>k, <3>1, <3>2 DEF AskedInv
  <2> QED BY <1>k, <2>1, <2>2 DEF Continuing, Finishing
<1>2. CASE Record \/ Disconnect \/ OtherClient
  BY <1>2, <1>k DEF Record, Disconnect, OtherClient
<1>3. CASE Restart \/ Fail
  BY <1>3, <1>k DEF Restart, Fail, NoRun, AskedInv
<1>4. CASE Start
  <2>1. run'.pc \in {"poll", "before"} BY <1>4 DEF Start, NoRun, First
  <2> QED BY <2>1 DEF AskedInv
<1>5. CASE WaitIdle \/ ReadBefore
  <2>1. run'.pc \in {"poll", "before", "post"} BY <1>0, <1>5 DEF WaitIdle, ReadBefore, Run
  <2> QED BY <2>1 DEF AskedInv
<1>6. CASE Post
  <2>1. PICK n \in Lengths(Stage) : run' = [run EXCEPT !.pc = "stream", !.tokens = n] BY <1>6 DEF Post
  <2>2. Stage \in {"strict", "long", "case"} BY <1>0, StagesType DEF Stage, Run
  <2>3. n \in Nat \ {0} BY <2>2, StagesType
  <2>4. run'.tokens = n BY <1>0, <2>1 DEF Run
  <2> QED BY <2>3, <2>4 DEF AskedInv
<1>7. CASE ReadAfter
  <2>1. run.pc = "answered" /\ run'.tokens = run.tokens BY <1>0, <1>7 DEF ReadAfter, Run
  <2> QED BY <2>1 DEF AskedInv
<1>8. CASE Score
  <2>1. run'.pc \in {"failed", "done", "poll", "before"} BY <1>8, ScoredRun DEF First
  <2> QED BY <2>1 DEF AskedInv
<1>9. CASE UNCHANGED vars
  BY <1>9, <1>k DEF vars
<1> QED BY <1>1, <1>2, <1>3, <1>4, <1>5, <1>6, <1>7, <1>8, <1>9 DEF Next

LEMMA NextGate == BTypeOK /\ OwnerInv /\ GateInv /\ [Next]_vars => GateInv'
<1> SUFFICES ASSUME BTypeOK, OwnerInv, GateInv, [Next]_vars PROVE GateInv'
  OBVIOUS
<1>0. run \in Run /\ run.kind \in {"ladder", "tps"} /\ run.stage \in {1, 2}
  BY DEF BTypeOK, Run
<1>k. ASSUME rows' = rows, status' = status, run'.kind = run.kind, run'.stage = run.stage,
             run'.pc = run.pc \/ (run.pc \in Scripted /\ run'.pc \in Scripted \ {"poll"})
      PROVE  GateInv'
  BY <1>k DEF GateInv, FirstClosed, Scripted
<1>f. ASSUME rows' = rows, status' = status, run'.kind = run.kind, run'.pc = "failed"
      PROVE  GateInv'
  BY <1>f DEF GateInv, FirstClosed, Scripted
<1>1. CASE Generate
  <2>1. PICK i \in 1..Len(requests) : requests[i] \in Request /\ (Continuing(i) \/ Finishing(i))
    BY <1>1, GenerateCases
  <2>2. rows' = rows /\ status' = status
    BY <1>1, GenerateCases
  <2>3. CASE run' = run
    BY <1>k, <2>2, <2>3
  <2>4. CASE \E o \in Outputs : run' = [run EXCEPT !.pc = "answered", !.output = o]
    <3>1. run' = run \/ run.pc = "stream" BY <2>1 DEF Continuing, Finishing, OwnerInv
    <3>2. run'.kind = run.kind /\ run'.stage = run.stage /\ run'.pc = "answered"
      BY <1>0, <2>4 DEF Run
    <3> QED BY <1>k, <2>2, <2>3, <3>1, <3>2 DEF Scripted
  <2> QED BY <2>1, <2>3, <2>4 DEF Continuing, Finishing
<1>2. CASE Record
  BY <1>2, <1>k DEF Record
<1>3. CASE Disconnect
  BY <1>3, <1>k DEF Disconnect
<1>4. CASE OtherClient
  BY <1>4, <1>k DEF OtherClient
<1>5. CASE Restart
  <2>1. CASE run' = run BY <1>5, <1>k, <2>1 DEF Restart
  <2>2. CASE run' = [NoRun EXCEPT !.kind = run.kind, !.pc = "failed"]
    BY <1>5, <1>f, <2>2 DEF Restart, NoRun
  <2> QED BY <1>5, <2>1, <2>2 DEF Restart
<1>6. CASE Start
  <2>1. run.pc = "none" /\ rows = <<>> /\ run.kind = "tps" /\ status = 9
    BY <1>0, <1>6 DEF Start, GateInv
  <2>2. rows' = <<>> /\ status' = 9 /\ run'.pc = First(run'.kind) /\ run'.stage = 1
    BY <1>6, <2>1, NoRunType DEF Start, NoRun
  <2> QED BY <2>2 DEF GateInv, First, Scripted
<1>7. CASE WaitIdle
  <2>1. run.pc = "poll" /\ run.kind = "tps"
    BY <1>0, <1>7 DEF WaitIdle, GateInv
  <2>2. run'.kind = "tps" /\ run'.pc # "none" /\ rows' = rows /\ status' = status
    BY <1>0, <1>7, <2>1 DEF WaitIdle, Run
  <2> QED BY <2>1, <2>2 DEF GateInv
<1>8. CASE ReadBefore
  <2>1. run'.kind = run.kind /\ run'.stage = run.stage /\ run.pc = "before" /\ run'.pc = "post"
    BY <1>0, <1>8 DEF ReadBefore, Run
  <2> QED BY <1>8, <1>k, <2>1 DEF ReadBefore, Scripted
<1>9. CASE Post
  <2>1. run'.kind = run.kind /\ run'.stage = run.stage /\ run.pc = "post" /\ run'.pc = "stream"
    BY <1>0, <1>9 DEF Post, Run
  <2> QED BY <1>9, <1>k, <2>1 DEF Post, Scripted
<1>10. CASE Fail
  BY <1>10, <1>f DEF Fail, NoRun
<1>11. CASE ReadAfter
  <2>1. run'.kind = run.kind /\ run'.stage = run.stage /\ run.pc = "answered" /\ run'.pc = "settle"
    BY <1>0, <1>11 DEF ReadAfter, Run
  <2> QED BY <1>11, <1>k, <2>1 DEF ReadAfter, Scripted
<1>12. CASE Score
  <2>0. PICK n \in Nat : Len(rows) = n /\ (n = 0 <=> rows = <<>>)
    BY EmptySeq DEF BTypeOK
  <2>1. run.pc = "settle" /\ run.pc \in Scripted /\ run.pc # "none"
    BY <1>12 DEF Score, Scripted
  <2>2. Len(rows') = n + 1 /\ (n > 0 => FirstClosed' = FirstClosed)
    BY <1>12, <2>0, ScoredRow DEF FirstClosed
  <2>3. CASE run.kind = "tps"
    BY <1>12, <2>3, ScoredRun DEF GateInv, First
  <2>4. CASE run.kind = "ladder"
    <3>1. run.stage = n + 1 /\ (n > 0 => FirstClosed)
      BY <2>0, <2>1, <2>4 DEF GateInv
    <3>2. CASE n = 0
      <4>1. run.stage = 1 /\ Stage = "strict" BY <1>12, <2>4, <3>1, <3>2, ScoredRun
      <4>2. Len(rows') = 1 /\ rows'[1].output = run.output
        BY <1>12, <2>0, <3>2, ScoredRow
      <4>3. CASE qwen_gate_valid
        <5>1. FirstClosed' BY <4>2, <4>3, ValidIsClosed DEF FirstClosed
        <5>2. run'.kind = "ladder" /\ run'.pc = "before" /\ run'.stage = 2 /\ status' = 0
          BY <1>12, <2>4, <4>1, <4>3, ScoredRun DEF First
        <5> QED BY <4>2, <5>1, <5>2 DEF GateInv
      <4>4. CASE ~ qwen_gate_valid
        <5>1. run'.kind = "ladder" /\ run'.pc = "failed" /\ status' = 2
          BY <1>12, <2>4, <4>1, <4>4, ScoredRun
        <5> QED BY <4>2, <5>1 DEF GateInv, Scripted
      <4> QED BY <4>3, <4>4
    <3>3. CASE n > 0
      <4>1. run.stage = 2 /\ n = 1 /\ FirstClosed
        BY <1>0, <2>0, <3>1, <3>3
      <4>2. run'.kind = "ladder" /\ run'.pc = "done"
        BY <1>12, <2>4, <4>1, ScoredRun
      <4>3. FirstClosed' /\ Len(rows') = 2
        BY <2>2, <4>1
      <4> QED BY <4>2, <4>3 DEF GateInv, Scripted
    <3> QED BY <3>2, <3>3
  <2> QED BY <1>0, <2>3, <2>4
<1>13. CASE UNCHANGED vars
  BY <1>13, <1>k DEF vars
<1> QED BY <1>1, <1>2, <1>3, <1>4, <1>5, <1>6, <1>7, <1>8, <1>9, <1>10, <1>11, <1>12, <1>13 DEF Next
-----------------------------------------------------------------------------
(* What a step of the server does to what the counters will show. *)
LEMMA Numbers ==
  ASSUME BTypeOK, NEW m \in Measures
  PROVE  /\ counters[m] \in Nat /\ run.before[m] \in Nat /\ run.after[m] \in Nat
         /\ run.tokens \in Nat /\ Gain(m) \in Nat
<1>1. /\ counters \in Counter /\ run.before \in Counter /\ run.after \in Counter
      /\ run.tokens \in Nat
  BY DEF BTypeOK, Run
<1>2. \A c \in Counter : c[m] \in Nat BY DEF Measures, Counter
<1> QED BY <1>1, <1>2 DEF Gain

LEMMA SteppedSums ==
  ASSUME BTypeOK, NEW gen \in Nat, NEW fin \in Nat, requests' \in Seq(Request),
         backlog' = Stepped(gen, fin, requests'), counters' = counters,
         NEW m \in Measures, NEW t \in Nat
  PROVE  LET u == t + (IF m = "gen" THEN gen ELSE fin)
         IN  (AtMost(m, t) => AtMost(m, u)') /\ (WillShow(m, t) => WillShow(m, u)')
<1> DEFINE step == [gen |-> gen, fin |-> fin, busy |-> Len(requests')]
           u == t + (IF m = "gen" THEN gen ELSE fin)
<1>1. Len(requests') \in Nat OBVIOUS
<1>2. step \in Counter BY <1>1 DEF Counter
<1>3. t + step[m] = u /\ u \in Nat BY DEF Measures
<1>4. backlog' = Append(backlog, step) BY DEF Stepped
<1>5. backlog \in Seq(Counter) BY DEF BTypeOK
<1> HIDE DEF step, u
<1>6. t + step[m] <= u BY <1>3
<1>7. /\ Within(backlog, counters, m, t) => Within(backlog', counters, m, u)
      /\ Ends(backlog, counters, m, t) => Ends(backlog', counters, m, u)
  BY <1>2, <1>3, <1>4, <1>5, <1>6, AppendSums
<1>8. (AtMost(m, t) => AtMost(m, u)') /\ (WillShow(m, t) => WillShow(m, u)')
  BY <1>7 DEF AtMost, WillShow
<1> QED BY <1>8 DEF u

LEMMA RecordedSums ==
  ASSUME BTypeOK, BTypeOK', Record, NEW m \in Measures
  PROVE  /\ counters[m] <= counters'[m]
         /\ AtMost(m, counters[m]) => Within(backlog', counters', m, counters'[m])
         /\ \A t \in Nat : /\ AtMost(m, t) => Within(backlog', counters', m, t)
                           /\ WillShow(m, t) => Ends(backlog', counters', m, t)
<1>1. /\ backlog \in Seq(Counter) /\ backlog # <<>> /\ Head(backlog) \in Counter
      /\ counters \in Counter /\ counters' \in Counter /\ backlog' = Tail(backlog)
      /\ backlog' \in Seq(Counter)
  BY EmptySeq, HeadTailProperties DEF Record, BTypeOK
<1>2. counters'[m] = counters[m] + Head(backlog)[m]
  BY DEF Record, Measures
<1>3. Head(backlog)[m] \in Nat /\ counters[m] \in Nat /\ counters'[m] \in Nat
  BY <1>1 DEF Counter, Measures
<1>4. \A t \in Nat : /\ AtMost(m, t) => Within(backlog', counters', m, t)
                     /\ WillShow(m, t) => Ends(backlog', counters', m, t)
  BY <1>1, <1>2, RecordSums DEF AtMost, WillShow
<1>5. ASSUME AtMost(m, counters[m]) PROVE Within(backlog', counters', m, counters'[m])
  <2>1. Within(backlog', counters', m, counters[m])
    BY <1>3, <1>4, <1>5
  <2>2. counters'[m] <= counters[m] BY <1>1, <1>3, <2>1, SumsBound
  <2>3. counters'[m] = counters[m] BY <1>2, <1>3, <2>2
  <2> QED BY <2>1, <2>3
<1> QED BY <1>2, <1>3, <1>4, <1>5

LEMMA BoundSums ==
  ASSUME BTypeOK, NEW m \in Measures, NEW t \in Nat, AtMost(m, t)
  PROVE  counters[m] <= t /\ \A u \in Nat : t <= u => AtMost(m, u)
<1>1. backlog \in Seq(Counter) /\ counters \in Counter BY DEF BTypeOK
<1> QED BY <1>1, SumsBound DEF AtMost

(* Nothing to record: the counters show what they will. *)
LEMMA IdleSums ==
  ASSUME BTypeOK, backlog = <<>>, NEW m \in Measures
  PROVE  /\ AtMost(m, counters[m]) /\ WillShow(m, counters[m])
         /\ \A t \in Nat : WillShow(m, t) => t = counters[m]
<1>1. backlog \in Seq(Counter) /\ counters \in Counter BY DEF BTypeOK
<1> QED BY <1>1, EmptySums, SumsBound DEF AtMost, WillShow

(* After a restart they show nothing, so anything bounds them. *)
LEMMA RestartedSums ==
  ASSUME BTypeOK', Restart, NEW m \in Measures, NEW t \in Nat
  PROVE  Within(backlog', counters', m, t)
<1>1. backlog' = <<>> /\ counters' = NoCounters BY DEF Restart
<1>2. NoCounters[m] = 0 /\ NoCounters \in Counter BY DEF NoCounters, Measures, Counter
<1>3. Within(<<>>, NoCounters, m, 0) BY <1>2, EmptySums
<1>4. <<>> \in Seq(Counter) OBVIOUS
<1>5. 0 <= t /\ 0 \in Nat OBVIOUS
<1>6. Within(<<>>, NoCounters, m, t) BY <1>2, <1>3, <1>4, <1>5, SumsBound
<1> QED BY <1>1, <1>6

(* The script's own request, when it is the only one. *)
LEMMA MineOnly ==
  ASSUME BTypeOK, NEW left \in Nat \ {0}, Mine(left), NEW i \in 1..Len(requests)
  PROVE  /\ i = 1 /\ requests[i].owner = "script" /\ requests[i].left = left
         /\ Continuing(i) => left > 1 /\ Mine(left - 1)'
         /\ Finishing(i) => /\ left = 1 /\ requests' = <<>>
                            /\ \E o \in Outputs : run' = [run EXCEPT !.pc = "answered", !.output = o]
<1>1. Len(requests) = 1 /\ requests[1] = [owner |-> "script", left |-> left]
  BY DEF Mine
<1>2. i = 1 BY <1>1
<1>5. requests[i].owner = "script" /\ requests[i].left = left
  BY <1>1, <1>2
<1>3. ASSUME Continuing(i) PROVE left > 1 /\ Mine(left - 1)'
  <2>1. left > 1 /\ requests' = [requests EXCEPT ![1].left = @ - 1]
    BY <1>1, <1>2, <1>3 DEF Continuing
  <2>2. requests' = <<[owner |-> "script", left |-> left - 1]>>
    BY <1>1, <2>1 DEF Mine
  <2> QED BY <2>1, <2>2 DEF Mine
<1>4. ASSUME Finishing(i)
      PROVE  /\ left = 1 /\ requests' = <<>>
             /\ \E o \in Outputs : run' = [run EXCEPT !.pc = "answered", !.output = o]
  <2>1. requests' = RemoveAt(requests, 1) /\ requests \in Seq(Request)
    BY <1>2, <1>4 DEF Finishing, BTypeOK
  <2>2. 1 \in 1..Len(requests) BY <1>1
  <2>3. Len(RemoveAt(requests, 1)) = Len(requests) - 1 /\ RemoveAt(requests, 1) \in Seq(Request)
    BY <2>1, <2>2, RemoveAtElements, RemoveAtType
  <2>4. Len(RemoveAt(requests, 1)) = 0 BY <1>1, <2>3
  <2>5. requests' = <<>> BY <2>1, <2>3, <2>4, EmptySeq
  <2>6. left = 1 BY <1>4, <1>5 DEF Finishing
  <2>7. \E o \in Outputs : run' = [run EXCEPT !.pc = "answered", !.output = o]
    BY <1>4, <1>5 DEF Finishing
  <2> QED BY <2>5, <2>6, <2>7
<1> QED BY <1>2, <1>3, <1>4, <1>5
-----------------------------------------------------------------------------
(* The ladder. *)
LEMMA GenerateLadder ==
  ASSUME BTypeOK, BTypeOK', OwnerInv, GateInv, LadderInv, Generate
  PROVE  LadderInv'
<1> SUFFICES ASSUME AloneAndSettled' PROVE LadderInv'
  BY DEF LadderInv
<1>1. PICK i \in 1..Len(requests) : requests[i] \in Request /\ (Continuing(i) \/ Finishing(i))
  BY GenerateCases
<1>2. UNCHANGED <<parser, counters, rows, status, hist>>
  BY GenerateCases
<1>3. run' = run \/ \E o \in Outputs : run' = [run EXCEPT !.pc = "answered", !.output = o]
  BY <1>1 DEF Continuing, Finishing
<1>4. run \in Run /\ run'.kind = run.kind
  BY <1>3 DEF BTypeOK, Run
<1>5. AloneAndSettled
  BY <1>2, <1>4 DEF AloneAndSettled
<1>6. ASSUME run.pc # "stream" PROVE LadderInv'
  <2>1. run.pc \notin Scripted
    BY <1>5, <1>6 DEF LadderInv
  <2>2. requests[i].owner # "script"
    BY <1>6 DEF OwnerInv
  <2>3. run' = run
    BY <1>1, <2>2 DEF Continuing, Finishing
  <2> QED BY <2>1, <2>3 DEF LadderInv, Scripted
<1>7. CASE run.pc = "stream"
  <2>1. PICK left \in 1..run.tokens :
          Mine(left) /\ AtMost("gen", run.before.gen + run.tokens - left) /\ AtMost("fin", run.before.fin)
    BY <1>5, <1>7 DEF LadderInv
  <2>2. PICK b \in Nat, n \in Nat, f \in Nat :
          run.before.gen = b /\ run.tokens = n /\ run.before.fin = f
    <3>1. run.before \in Counter /\ run.tokens \in Nat BY <1>4 DEF Run
    <3> QED BY <3>1 DEF Counter
  <2>3. left \in 1..n /\ left \in Nat \ {0} /\ b + n - left \in Nat
    BY <2>1, <2>2
  <2>6. /\ AtMost("gen", b + n - left) /\ AtMost("fin", f)
        /\ requests' \in Seq(Request) /\ {"gen", "fin"} = Measures
    BY <2>1, <2>2 DEF BTypeOK, Measures
  <2>4. CASE Continuing(i)
    <3>1. left > 1 /\ Mine(left - 1)' /\ run' = run /\ backlog' = Stepped(1, 0, requests')
      BY <1>1, <2>1, <2>3, <2>4, MineOnly DEF Continuing
    <3>2. AtMost("gen", b + n - left + 1)' /\ AtMost("fin", f + 0)'
      BY <1>2, <2>3, <2>6, <3>1, SteppedSums
    <3>3. left - 1 \in 1..n /\ b + n - left + 1 = b + n - (left - 1) /\ f + 0 = f
      BY <2>3, <3>1
    <3>4. run'.pc = "stream" BY <1>7, <3>1
    <3>5. \E l \in 1..n : Mine(l)' /\ AtMost("gen", b + n - l)' /\ AtMost("fin", f)'
      BY <3>1, <3>2, <3>3
    <3> QED BY <2>2, <3>1, <3>4, <3>5 DEF LadderInv, Scripted
  <2>5. CASE Finishing(i)
    <3>1. /\ left = 1 /\ requests' = <<>> /\ backlog' = Stepped(1, 1, requests')
          /\ \E o \in Outputs : run' = [run EXCEPT !.pc = "answered", !.output = o]
      BY <1>1, <2>1, <2>3, <2>5, MineOnly DEF Finishing
    <3>2. AtMost("gen", b + n - left + 1)' /\ AtMost("fin", f + 1)'
      BY <1>2, <2>3, <2>6, <3>1, SteppedSums
    <3>3. b + n - left + 1 = b + n
      BY <3>1
    <3>4. run'.pc = "answered" /\ run'.before = run.before /\ run'.tokens = run.tokens
      BY <1>4, <3>1 DEF Run
    <3>5. AtMost("gen", run.before["gen"] + Gain("gen"))' /\ AtMost("fin", run.before["fin"] + Gain("fin"))'
      BY <2>2, <3>2, <3>3, <3>4 DEF Gain
    <3>6. \A m \in Measures : AtMost(m, run.before[m] + Gain(m))'
      BY <2>6, <3>5
    <3> QED BY <3>1, <3>4, <3>6 DEF LadderInv
  <2> QED BY <1>1, <2>4, <2>5
<1> QED BY <1>6, <1>7

(* What scoring a settled sample finds. *)
LEMMA SettledGain ==
  ASSUME BTypeOK, AskedInv, run.pc = "settle", Settled(run.after), NEW m \in Measures
  PROVE  run.after[m] >= run.before[m] + Gain(m)
<1>1. run.before \in Counter /\ run.after \in Counter /\ run.tokens \in Nat
  BY DEF BTypeOK, Run
<1>2. m = "gen" \/ m = "fin" BY DEF Measures
<1>3. CASE m = "gen"
  <2>1. run.after.gen \in Nat /\ run.before.gen \in Nat BY <1>1 DEF Counter
  <2>2. run.after.gen - run.before.gen >= run.tokens BY <1>1 DEF Settled, AskedInv
  <2> QED BY <1>1, <1>3, <2>1, <2>2 DEF Gain
<1>4. CASE m = "fin"
  <2>1. run.after.fin \in Nat /\ run.before.fin \in Nat BY <1>1 DEF Counter
  <2>2. run.after.fin - run.before.fin >= 1 BY DEF Settled
  <2> QED BY <1>4, <2>1, <2>2 DEF Gain
<1> QED BY <1>2, <1>3, <1>4

LEMMA NextLadder ==
  BTypeOK /\ BTypeOK' /\ OwnerInv /\ AskedInv /\ GateInv /\ LadderInv /\ [Next]_vars => LadderInv'
<1> SUFFICES ASSUME BTypeOK, BTypeOK', OwnerInv, AskedInv, GateInv, LadderInv, [Next]_vars, AloneAndSettled'
             PROVE  LadderInv'
  BY DEF LadderInv
<1>0. run \in Run /\ run.kind \in {"ladder", "tps"} BY DEF BTypeOK, Run
<1>a. ASSUME UNCHANGED <<hist, rows>>, run'.kind = run.kind PROVE AloneAndSettled
  BY <1>a DEF AloneAndSettled
<1>k. ASSUME UNCHANGED <<run, requests, backlog, counters, rows>>, hist'.quiet = hist.quiet,
             hist'.alone = hist.alone
      PROVE  LadderInv'
  <2>1. AloneAndSettled BY <1>k DEF AloneAndSettled
  <2> QED BY <1>k, <2>1 DEF LadderInv, AtMost, Mine, Gain
<1>1. CASE Generate
  BY <1>1, GenerateLadder
<1>2. CASE Record
  <2>1. UNCHANGED <<hist, rows, run, requests>> BY <1>2 DEF Record
  <2>2. AloneAndSettled BY <1>a, <2>1
  <2>3. ASSUME NEW m \in Measures
        PROVE  /\ run.before[m] \in Nat /\ run.before[m] + Gain(m) \in Nat
               /\ run.after[m] \in Nat /\ counters[m] \in Nat /\ counters'[m] \in Nat
    <3>1. counters' \in Counter BY DEF BTypeOK
    <3>2. counters'[m] \in Nat BY <3>1 DEF Counter, Measures
    <3>3. run.before[m] \in Nat /\ run.after[m] \in Nat /\ counters[m] \in Nat /\ Gain(m) \in Nat
      BY Numbers
    <3> QED BY <3>2, <3>3
  <2>4. run.pc = "before" => \A m \in Measures : AtMost(m, counters[m])'
    BY <1>2, <2>2, RecordedSums DEF LadderInv, AtMost
  <2>5. run.pc = "post" => \A m \in Measures : AtMost(m, run.before[m])'
    BY <1>2, <2>1, <2>2, <2>3, RecordedSums DEF LadderInv, AtMost
  <2>6. run.pc = "answered" => \A m \in Measures : AtMost(m, run.before[m] + Gain(m))'
    BY <1>2, <2>1, <2>2, <2>3, RecordedSums DEF LadderInv, AtMost, Gain
  <2>7. ASSUME run.pc = "settle", NEW m \in Measures
        PROVE  \/ AtMost(m, counters[m])'
               \/ run.after[m] <= counters'[m] /\ AtMost(m, run.before[m] + Gain(m))'
    <3>1. CASE AtMost(m, counters[m])
      BY <1>2, <3>1, RecordedSums DEF AtMost
    <3>2. CASE run.after[m] <= counters[m] /\ AtMost(m, run.before[m] + Gain(m))
      <4>1. Within(backlog', counters', m, run.before[m] + Gain(m)) /\ counters[m] <= counters'[m]
        BY <1>2, <2>3, <3>2, RecordedSums
      <4>2. run.after[m] <= counters'[m] BY <2>3, <3>2, <4>1
      <4> QED BY <2>1, <4>1, <4>2 DEF AtMost, Gain
    <3> QED BY <2>2, <2>7, <3>1, <3>2 DEF LadderInv
  <2>8. ASSUME run.pc = "stream"
        PROVE  \E left \in 1..run.tokens :
                 /\ Mine(left)' /\ AtMost("gen", run.before.gen + run.tokens - left)'
                 /\ AtMost("fin", run.before.fin)'
    <3>1. PICK left \in 1..run.tokens :
            Mine(left) /\ AtMost("gen", run.before.gen + run.tokens - left) /\ AtMost("fin", run.before.fin)
      BY <2>2, <2>8 DEF LadderInv
    <3>2. "gen" \in Measures /\ "fin" \in Measures BY DEF Measures
    <3>3. run.tokens \in Nat /\ run.before.gen \in Nat /\ run.before.fin \in Nat
      <4>1. run.before \in Counter /\ run.tokens \in Nat BY <1>0 DEF Run
      <4> QED BY <4>1 DEF Counter
    <3>4. PICK b \in Nat, n \in Nat, f \in Nat :
            run.before.gen = b /\ run.tokens = n /\ run.before.fin = f
      BY <3>3
    <3>5. left \in 1..n /\ b + n - left \in Nat BY <3>1, <3>4
    <3>6. AtMost("gen", b + n - left) /\ AtMost("fin", f) BY <3>1, <3>4
    <3>7. AtMost("gen", b + n - left)' /\ AtMost("fin", f)'
      BY <1>2, <3>2, <3>5, <3>6, RecordedSums DEF AtMost
    <3> QED BY <2>1, <3>1, <3>4, <3>5, <3>7 DEF Mine
  <2>9. requests' = requests /\ (run.pc \in Scripted \ {"stream"} => requests = <<>>)
        /\ (run.pc = "settle" => \A m \in Measures : run.after[m] <= run.before[m] + Gain(m))
    BY <2>1, <2>2 DEF LadderInv
  <2> QED BY <2>1, <2>4, <2>5, <2>6, <2>7, <2>8, <2>9 DEF LadderInv, Gain
<1>3. CASE Disconnect
  <2>1. PICK i \in DOMAIN requests : Disconnect!(i)
    BY <1>3 DEF Disconnect
  <2>2. UNCHANGED <<hist, rows, run>> BY <2>1
  <2>3. AloneAndSettled BY <1>a, <2>2
  <2>4. i \in 1..Len(requests) BY DEF BTypeOK
  <2>5. run.pc # "stream"
    <3> SUFFICES ASSUME run.pc = "stream" PROVE FALSE OBVIOUS
    <3>1. PICK left \in 1..run.tokens : Mine(left) BY <2>3 DEF LadderInv
    <3>2. left \in Nat \ {0} BY <1>0, <3>1 DEF Run
    <3>3. requests[i].owner = "script" BY <2>4, <3>1, <3>2, MineOnly
    <3> QED BY <2>1, <3>3
  <2>6. run.pc \notin Scripted
    BY <2>3, <2>4, <2>5 DEF LadderInv
  <2> QED BY <2>2, <2>6 DEF LadderInv, Scripted
<1>4. CASE OtherClient
  <2>1. hist'.alone = FALSE BY <1>4 DEF OtherClient, BTypeOK, Hist
  <2> QED BY <2>1 DEF AloneAndSettled
<1>5. CASE Restart
  <2>1. CASE run.pc = "stream"
    <3>1. run'.pc = "failed" BY <1>5, <2>1 DEF Restart, NoRun
    <3> QED BY <3>1 DEF LadderInv, Scripted
  <2>2. CASE run.pc # "stream"
    <3>1. run' = run /\ requests' = <<>> /\ counters' \in Counter /\ rows' = rows
      BY <1>5, <2>2 DEF Restart, BTypeOK
    <3>2. hist'.quiet = hist.quiet /\ hist'.alone = hist.alone
      BY <1>5 DEF Restart, BTypeOK, Hist
    <3>3. AloneAndSettled BY <3>1, <3>2 DEF AloneAndSettled
    <3>4. ASSUME NEW m \in Measures
          PROVE  /\ run.before[m] \in Nat /\ run.before[m] + Gain(m) \in Nat /\ counters'[m] \in Nat
      <4>1. run.before[m] \in Nat /\ Gain(m) \in Nat BY Numbers
      <4>2. counters'[m] \in Nat BY <3>1 DEF Counter, Measures
      <4> QED BY <4>1, <4>2
    <3>5. \A m \in Measures : /\ AtMost(m, run.before[m])' /\ AtMost(m, run.before[m] + Gain(m))'
                              /\ AtMost(m, counters[m])'
      BY <1>5, <3>1, <3>4, RestartedSums DEF AtMost, Gain
    <3> QED BY <2>2, <3>1, <3>3, <3>5 DEF LadderInv, Gain
  <2> QED BY <2>1, <2>2
<1>6. CASE Start
  <2>1. run'.pc = First(run'.kind) /\ UNCHANGED <<requests, backlog, counters>>
    BY <1>6 DEF Start, NoRun
  <2>2. run'.kind = "ladder" BY DEF AloneAndSettled
  <2>3. requests = <<>> /\ backlog = <<>>
    BY <1>6 DEF Start, AloneAndSettled, BTypeOK, Hist
  <2>4. \A m \in Measures : AtMost(m, counters[m])
    BY <2>3, IdleSums
  <2>5. run'.pc = "before" /\ requests' = <<>> /\ \A m \in Measures : AtMost(m, counters[m])'
    BY <2>1, <2>2, <2>3, <2>4 DEF First, AtMost
  <2> QED BY <2>5 DEF LadderInv
<1>7. CASE WaitIdle
  <2>1. run.kind = "tps" BY <1>0, <1>7 DEF WaitIdle, GateInv
  <2>2. run'.kind = "tps" BY <1>0, <1>7, <2>1 DEF WaitIdle, Run
  <2> QED BY <2>2 DEF AloneAndSettled
<1>8. CASE ReadBefore
  <2>1. /\ run.pc = "before" /\ run'.kind = run.kind /\ run'.pc = "post" /\ run'.before = counters
        /\ UNCHANGED <<requests, backlog, counters, rows>>
    BY <1>0, <1>8 DEF ReadBefore, Run
  <2>2. hist'.quiet = hist.quiet /\ hist'.alone = hist.alone
    BY <1>8 DEF ReadBefore, BTypeOK, Hist
  <2>3. AloneAndSettled BY <2>1, <2>2 DEF AloneAndSettled
  <2>4. requests' = <<>> /\ \A m \in Measures : AtMost(m, run.before[m])'
    BY <2>1, <2>3 DEF LadderInv, Scripted, AtMost
  <2> QED BY <2>1, <2>4 DEF LadderInv
<1>9. CASE Post
  <2>1. PICK n \in Lengths(Stage) : Arrive("script", n) /\ run' = [run EXCEPT !.pc = "stream", !.tokens = n]
    BY <1>9 DEF Post
  <2>2. /\ run.pc = "post" /\ run'.kind = run.kind /\ run'.pc = "stream" /\ run'.before = run.before
        /\ run'.tokens = n
    BY <1>0, <1>9, <2>1 DEF Post, Run
  <2>3. UNCHANGED <<counters, rows, hist>> BY <1>9 DEF Post
  <2>4. AloneAndSettled BY <1>a, <2>2, <2>3
  <2>5. requests = <<>> /\ \A m \in Measures : AtMost(m, run.before[m])
    BY <2>2, <2>4 DEF LadderInv, Scripted
  <2>6. n \in Nat \ {0}
    <3>1. Stage \in {"strict", "long", "case"}
      <4>1. run.stage \in 1..2 BY <1>0 DEF Run
      <4> QED BY <1>0, <4>1, StagesType DEF Stage
    <3> QED BY <3>1, StagesType
  <2>7. Mine(n)' /\ requests' \in Seq(Request) /\ backlog' = Stepped(0, 0, requests')
    BY <2>1, <2>5 DEF Arrive, Mine, BTypeOK
  <2>8. PICK b \in Nat, f \in Nat : run.before["gen"] = b /\ run.before["fin"] = f
    <3>1. "gen" \in Measures /\ "fin" \in Measures BY DEF Measures
    <3> QED BY <3>1, Numbers
  <2>9. AtMost("gen", b + 0)' /\ AtMost("fin", f + 0)'
    <3>1. AtMost("gen", b) /\ AtMost("fin", f) /\ {"gen", "fin"} = Measures
      BY <2>5, <2>8 DEF Measures
    <3>2. 0 \in Nat OBVIOUS
    <3> QED BY <2>3, <2>7, <3>1, <3>2, SteppedSums
  <2>10. b + 0 = b + n - n /\ f + 0 = f /\ n \in 1..n
    BY <2>6
  <2>11. Mine(n)' /\ AtMost("gen", b + n - n)' /\ AtMost("fin", f)'
    BY <2>7, <2>9, <2>10
  <2>12. run'.before.gen = b /\ run'.before.fin = f
    BY <2>2, <2>8
  <2> QED BY <2>2, <2>10, <2>11, <2>12 DEF LadderInv, Scripted
<1>10. CASE Fail
  <2>1. run'.pc = "failed" BY <1>10 DEF Fail, NoRun
  <2> QED BY <2>1 DEF LadderInv, Scripted
<1>11. CASE ReadAfter
  <2>1. /\ run.pc = "answered" /\ run'.kind = run.kind /\ run'.pc = "settle" /\ run'.before = run.before
        /\ run'.after = counters /\ run'.tokens = run.tokens
        /\ UNCHANGED <<requests, backlog, counters, rows>>
    BY <1>0, <1>11 DEF ReadAfter, Run
  <2>2. hist'.quiet = hist.quiet /\ hist'.alone = hist.alone
    BY <1>11 DEF ReadAfter, BTypeOK, Hist
  <2>3. AloneAndSettled BY <2>1, <2>2 DEF AloneAndSettled
  <2>4. requests = <<>> /\ \A m \in Measures : AtMost(m, run.before[m] + Gain(m))
    BY <2>1, <2>3 DEF LadderInv, Scripted
  <2>5. ASSUME NEW m \in Measures
        PROVE  /\ run.before[m] + Gain(m) \in Nat /\ counters[m] \in Nat
               /\ counters[m] <= run.before[m] + Gain(m) /\ counters[m] <= counters[m]
    <3>1. run.before[m] + Gain(m) \in Nat /\ counters[m] \in Nat BY Numbers
    <3>2. counters[m] <= run.before[m] + Gain(m) BY <2>4, <3>1, BoundSums
    <3> QED BY <3>1, <3>2
  <2>6. \A m \in Measures : /\ run'.after[m] <= run'.before[m] + Gain(m)'
                            /\ run'.after[m] <= counters'[m]
                            /\ AtMost(m, run.before[m] + Gain(m))'
    BY <2>1, <2>4, <2>5 DEF AtMost, Gain
  <2> QED BY <2>1, <2>4, <2>6 DEF LadderInv
<1>12. CASE Score
  <2>1. /\ run.pc = "settle" /\ run'.kind = run.kind /\ UNCHANGED <<requests, backlog, counters, hist>>
    BY <1>12, ScoredRun DEF Score
  <2>2. AloneAndSettled /\ Settled(run.after)
    <3>1. PICK n \in Nat : Len(rows) = n /\ DOMAIN rows = 1..n BY DEF BTypeOK
    <3>2. /\ Len(rows') = n + 1 /\ \A i \in 1..n : rows'[i] = rows[i]
          /\ rows'[n + 1].settled = Settled(run.after)
      BY <1>12, <3>1, ScoredRow
    <3>3. DOMAIN rows' = 1..(n + 1) BY <3>2 DEF BTypeOK
    <3>4. \A i \in 1..n : rows[i].settled
      BY <3>2, <3>3 DEF AloneAndSettled
    <3>5. rows'[n + 1].settled BY <3>1, <3>3 DEF AloneAndSettled
    <3> QED BY <2>1, <3>1, <3>2, <3>4, <3>5 DEF AloneAndSettled
  <2>3. requests = <<>> BY <2>1, <2>2 DEF LadderInv, Scripted
  <2>4. ASSUME NEW m \in Measures PROVE AtMost(m, counters[m])
    <3>1. CASE AtMost(m, counters[m]) BY <3>1
    <3>2. CASE run.after[m] <= counters[m] /\ AtMost(m, run.before[m] + Gain(m))
      <4>1. /\ run.before[m] + Gain(m) \in Nat /\ counters[m] \in Nat /\ run.after[m] \in Nat
        BY Numbers
      <4>2. run.after[m] >= run.before[m] + Gain(m) BY <2>1, <2>2, SettledGain
      <4>3. run.before[m] + Gain(m) <= counters[m] BY <3>2, <4>1, <4>2
      <4> QED BY <3>2, <4>1, <4>3, BoundSums
    <3> QED BY <2>1, <2>2, <3>1, <3>2 DEF LadderInv
  <2>5. run'.pc \in {"failed", "done", "before"}
    <3>1. run.kind = "ladder" BY <2>2 DEF AloneAndSettled
    <3> QED BY <1>12, <3>1, ScoredRun DEF First
  <2>6. requests' = <<>> /\ \A m \in Measures : AtMost(m, counters[m])'
    BY <2>1, <2>3, <2>4 DEF AtMost
  <2> QED BY <2>5, <2>6 DEF LadderInv, Scripted
<1>13. CASE UNCHANGED vars
  BY <1>13, <1>k DEF vars
<1> QED BY <1>1, <1>2, <1>3, <1>4, <1>5, <1>6, <1>7, <1>8, <1>9, <1>10, <1>11, <1>12, <1>13 DEF Next
-----------------------------------------------------------------------------
(* The cases of the legacy harness. *)
LEMMA NextCase ==
  BTypeOK /\ BTypeOK' /\ BusyInv /\ OwnerInv /\ GateInv /\ CaseInv /\ [Next]_vars => CaseInv'
<1> SUFFICES ASSUME BTypeOK, BTypeOK', BusyInv, OwnerInv, GateInv, CaseInv, [Next]_vars,
                    run'.kind = "tps", Undisturbed'
             PROVE  CaseInv'
  BY DEF CaseInv
<1>0. run \in Run /\ run.kind \in {"ladder", "tps"} BY DEF BTypeOK, Run
<1>a. UNCHANGED hist => Undisturbed
  BY DEF Undisturbed
<1>m. {"gen", "fin"} = Measures /\ "gen" \in Measures /\ "fin" \in Measures
  BY DEF Measures
<1>1. CASE Generate
  <2>1. PICK i \in 1..Len(requests) : requests[i] \in Request /\ (Continuing(i) \/ Finishing(i))
    BY <1>1, GenerateCases
  <2>2. UNCHANGED <<parser, counters, rows, status, hist>>
    BY <1>1, GenerateCases
  <2>3. run' = run \/ \E o \in Outputs : run' = [run EXCEPT !.pc = "answered", !.output = o]
    BY <2>1 DEF Continuing, Finishing
  <2>4. run.kind = "tps" /\ Undisturbed
    BY <1>0, <1>a, <2>2, <2>3 DEF Run
  <2>5. ASSUME run.pc # "stream" PROVE CaseInv'
    <3>1. run' = run
      BY <2>1, <2>5 DEF Continuing, Finishing, OwnerInv
    <3>2. run.pc \notin {"before", "post", "answered"}
      BY <2>4 DEF CaseInv
    <3>3. run.pc = "settle" => \A m \in Measures : run.after[m] = run.before[m] + Gain(m)
      BY <2>4 DEF CaseInv
    <3> QED BY <2>5, <3>1, <3>2, <3>3 DEF CaseInv, Gain
  <2>6. CASE run.pc = "stream"
    <3>1. PICK left \in 1..run.tokens :
            Mine(left) /\ WillShow("gen", run.before.gen + run.tokens - left) /\ WillShow("fin", run.before.fin)
      BY <2>4, <2>6 DEF CaseInv
    <3>2. PICK b \in Nat, n \in Nat, f \in Nat :
            run.before.gen = b /\ run.tokens = n /\ run.before.fin = f
      <4>1. run.before \in Counter /\ run.tokens \in Nat BY <1>0 DEF Run
      <4> QED BY <4>1 DEF Counter
    <3>3. left \in 1..n /\ left \in Nat \ {0} /\ b + n - left \in Nat
      BY <3>1, <3>2
    <3>4. /\ WillShow("gen", b + n - left) /\ WillShow("fin", f) /\ requests' \in Seq(Request)
      BY <3>1, <3>2 DEF BTypeOK
    <3>5. CASE Continuing(i)
      <4>1. left > 1 /\ Mine(left - 1)' /\ run' = run /\ backlog' = Stepped(1, 0, requests')
        BY <2>1, <3>1, <3>3, <3>5, MineOnly DEF Continuing
      <4>2. WillShow("gen", b + n - left + 1)' /\ WillShow("fin", f + 0)'
        BY <1>m, <2>2, <3>3, <3>4, <4>1, SteppedSums
      <4>3. left - 1 \in 1..n /\ b + n - left + 1 = b + n - (left - 1) /\ f + 0 = f
        BY <3>3, <4>1
      <4>4. run'.pc = "stream" BY <2>6, <4>1
      <4>5. \E l \in 1..n : Mine(l)' /\ WillShow("gen", b + n - l)' /\ WillShow("fin", f)'
        BY <4>1, <4>2, <4>3
      <4> QED BY <3>2, <4>1, <4>4, <4>5 DEF CaseInv
    <3>6. CASE Finishing(i)
      <4>1. /\ left = 1 /\ requests' = <<>> /\ backlog' = Stepped(1, 1, requests')
            /\ \E o \in Outputs : run' = [run EXCEPT !.pc = "answered", !.output = o]
        BY <2>1, <3>1, <3>3, <3>6, MineOnly DEF Finishing
      <4>2. WillShow("gen", b + n - left + 1)' /\ WillShow("fin", f + 1)'
        BY <1>m, <2>2, <3>3, <3>4, <4>1, SteppedSums
      <4>3. b + n - left + 1 = b + n
        BY <4>1
      <4>4. run'.pc = "answered" /\ run'.before = run.before /\ run'.tokens = run.tokens
        BY <1>0, <4>1 DEF Run
      <4>5. /\ WillShow("gen", run.before["gen"] + Gain("gen"))'
            /\ WillShow("fin", run.before["fin"] + Gain("fin"))'
        BY <3>2, <4>2, <4>3, <4>4 DEF Gain
      <4>6. \A m \in Measures : WillShow(m, run.before[m] + Gain(m))'
        BY <1>m, <4>5
      <4> QED BY <4>1, <4>4, <4>6 DEF CaseInv
    <3> QED BY <2>1, <3>5, <3>6
  <2> QED BY <2>5, <2>6
<1>2. CASE Record
  <2>1. UNCHANGED <<hist, rows, run, requests>> /\ backlog # <<>> BY <1>2 DEF Record
  <2>2. run.kind = "tps" /\ Undisturbed BY <1>a, <2>1
  <2>3. ASSUME NEW m \in Measures
        PROVE  run.before[m] \in Nat /\ run.before[m] + Gain(m) \in Nat
    BY Numbers
  <2>4. run.pc # "before" BY <2>1, <2>2 DEF CaseInv
  <2>5. run.pc = "post" => \A m \in Measures : WillShow(m, run.before[m])'
    BY <1>2, <2>1, <2>2, <2>3, RecordedSums DEF CaseInv, WillShow
  <2>6. run.pc = "answered" => \A m \in Measures : WillShow(m, run.before[m] + Gain(m))'
    BY <1>2, <2>1, <2>2, <2>3, RecordedSums DEF CaseInv, WillShow, Gain
  <2>7. ASSUME run.pc = "stream"
        PROVE  \E left \in 1..run.tokens :
                 /\ Mine(left)' /\ WillShow("gen", run.before.gen + run.tokens - left)'
                 /\ WillShow("fin", run.before.fin)'
    <3>1. PICK left \in 1..run.tokens :
            Mine(left) /\ WillShow("gen", run.before.gen + run.tokens - left) /\ WillShow("fin", run.before.fin)
      BY <2>2, <2>7 DEF CaseInv
    <3>2. PICK b \in Nat, n \in Nat, f \in Nat :
            run.before.gen = b /\ run.tokens = n /\ run.before.fin = f
      <4>1. run.before \in Counter /\ run.tokens \in Nat BY <1>0 DEF Run
      <4> QED BY <4>1 DEF Counter
    <3>3. left \in 1..n /\ b + n - left \in Nat BY <3>1, <3>2
    <3>4. WillShow("gen", b + n - left) /\ WillShow("fin", f) BY <3>1, <3>2
    <3>5. WillShow("gen", b + n - left)' /\ WillShow("fin", f)'
      BY <1>2, <1>m, <3>3, <3>4, RecordedSums DEF WillShow
    <3> QED BY <2>1, <3>1, <3>2, <3>3, <3>5 DEF Mine
  <2>8. /\ run.pc \in {"post", "answered"} => requests = <<>>
        /\ run.pc = "settle" => \A m \in Measures : run.after[m] = run.before[m] + Gain(m)
    BY <2>2 DEF CaseInv
  <2> QED BY <2>1, <2>4, <2>5, <2>6, <2>7, <2>8 DEF CaseInv, Gain
<1>3. CASE Disconnect
  <2>1. PICK i \in DOMAIN requests : Disconnect!(i)
    BY <1>3 DEF Disconnect
  <2>2. UNCHANGED <<hist, rows, run>> BY <2>1
  <2>3. run.kind = "tps" /\ Undisturbed BY <1>a, <2>2
  <2>4. i \in 1..Len(requests) BY DEF BTypeOK
  <2>5. run.pc # "stream"
    <3> SUFFICES ASSUME run.pc = "stream" PROVE FALSE OBVIOUS
    <3>1. PICK left \in 1..run.tokens : Mine(left) BY <2>3 DEF CaseInv
    <3>2. left \in Nat \ {0} BY <1>0, <3>1 DEF Run
    <3>3. requests[i].owner = "script" BY <2>4, <3>1, <3>2, MineOnly
    <3> QED BY <2>1, <3>3
  <2>6. run.pc \notin {"before", "post", "answered"}
    BY <2>3, <2>4 DEF CaseInv
  <2>7. run.pc = "settle" => \A m \in Measures : run.after[m] = run.before[m] + Gain(m)
    BY <2>3 DEF CaseInv
  <2> QED BY <2>2, <2>5, <2>6, <2>7 DEF CaseInv, Gain
<1>4. CASE OtherClient
  <2>1. hist'.alone = FALSE BY <1>4 DEF OtherClient, BTypeOK, Hist
  <2> QED BY <2>1 DEF Undisturbed
<1>5. CASE Restart
  <2>1. hist'.reset = TRUE BY <1>5 DEF Restart, BTypeOK, Hist
  <2> QED BY <2>1 DEF Undisturbed
<1>6. CASE Start
  <2>1. run'.pc = First(run'.kind) BY <1>6 DEF Start, NoRun
  <2>2. run'.pc = "poll" BY <2>1 DEF First
  <2> QED BY <2>2 DEF CaseInv
<1>7. CASE WaitIdle
  <2>1. hist'.idle = (counters.busy = 0) /\ hist'.lag = (backlog # <<>>)
    BY <1>7 DEF WaitIdle, BTypeOK, Hist
  <2>2. counters.busy = 0 /\ backlog = <<>> BY <2>1 DEF Undisturbed
  <2>3. run' = [run EXCEPT !.pc = "before"] /\ requests' = requests /\ backlog' = backlog
    BY <1>7, <2>2 DEF WaitIdle
  <2>4. Len(requests) = 0 BY <2>2 DEF BusyInv
  <2>5. requests = <<>> BY <2>4, EmptySeq DEF BTypeOK
  <2>6. run'.pc = "before" BY <1>0, <2>3 DEF Run
  <2> QED BY <2>2, <2>3, <2>5, <2>6 DEF CaseInv
<1>8. CASE ReadBefore
  <2>1. /\ run.pc = "before" /\ run'.kind = run.kind /\ run'.pc = "post" /\ run'.before = counters
        /\ UNCHANGED <<requests, backlog, counters>>
    BY <1>0, <1>8 DEF ReadBefore, Run
  <2>2. Undisturbed /\ backlog = <<>>
    BY <1>8 DEF ReadBefore, BTypeOK, Hist, Undisturbed
  <2>3. requests = <<>> BY <2>1, <2>2 DEF CaseInv
  <2>4. \A m \in Measures : WillShow(m, counters[m]) BY <2>2, IdleSums
  <2>5. \A m \in Measures : WillShow(m, run.before[m])' BY <2>1, <2>4 DEF WillShow
  <2> QED BY <2>1, <2>3, <2>5 DEF CaseInv
<1>9. CASE Post
  <2>1. PICK n \in Lengths(Stage) : Arrive("script", n) /\ run' = [run EXCEPT !.pc = "stream", !.tokens = n]
    BY <1>9 DEF Post
  <2>2. /\ run.pc = "post" /\ run'.kind = run.kind /\ run'.pc = "stream" /\ run'.before = run.before
        /\ run'.tokens = n /\ UNCHANGED <<counters, rows, hist>>
    BY <1>0, <1>9, <2>1 DEF Post, Run
  <2>3. Undisturbed BY <1>a, <2>2
  <2>4. requests = <<>> /\ \A m \in Measures : WillShow(m, run.before[m])
    BY <2>2, <2>3 DEF CaseInv
  <2>5. n \in Nat \ {0}
    <3>1. Stage \in {"strict", "long", "case"}
      <4>1. run.stage \in 1..2 BY <1>0 DEF Run
      <4> QED BY <1>0, <4>1, StagesType DEF Stage
    <3> QED BY <3>1, StagesType
  <2>6. Mine(n)' /\ requests' \in Seq(Request) /\ backlog' = Stepped(0, 0, requests')
    BY <2>1, <2>4 DEF Arrive, Mine, BTypeOK
  <2>7. PICK b \in Nat, f \in Nat : run.before["gen"] = b /\ run.before["fin"] = f
    BY <1>m, Numbers
  <2>8. WillShow("gen", b + 0)' /\ WillShow("fin", f + 0)'
    <3>1. WillShow("gen", b) /\ WillShow("fin", f)
      BY <1>m, <2>4, <2>7
    <3>2. 0 \in Nat OBVIOUS
    <3> QED BY <1>m, <2>2, <2>6, <3>1, <3>2, SteppedSums
  <2>9. b + 0 = b + n - n /\ f + 0 = f /\ n \in 1..n
    BY <2>5
  <2>10. Mine(n)' /\ WillShow("gen", b + n - n)' /\ WillShow("fin", f)'
    BY <2>6, <2>8, <2>9
  <2>11. run'.before.gen = b /\ run'.before.fin = f
    BY <2>2, <2>7
  <2> QED BY <2>2, <2>9, <2>10, <2>11 DEF CaseInv
<1>10. CASE Fail
  <2>1. run'.pc = "failed" BY <1>10 DEF Fail, NoRun
  <2> QED BY <2>1 DEF CaseInv
<1>11. CASE ReadAfter
  <2>1. /\ run.pc = "answered" /\ run'.kind = run.kind /\ run'.pc = "settle" /\ run'.before = run.before
        /\ run'.after = counters /\ run'.tokens = run.tokens
    BY <1>0, <1>11 DEF ReadAfter, Run
  <2>2. Undisturbed /\ backlog = <<>>
    BY <1>11 DEF ReadAfter, BTypeOK, Hist, Undisturbed
  <2>3. \A m \in Measures : WillShow(m, run.before[m] + Gain(m))
    BY <2>1, <2>2 DEF CaseInv
  <2>4. \A m \in Measures : counters[m] = run.before[m] + Gain(m)
    <3> TAKE m \in Measures
    <3>1. run.before[m] + Gain(m) \in Nat BY Numbers
    <3> QED BY <2>2, <2>3, <3>1, IdleSums
  <2> QED BY <2>1, <2>4 DEF CaseInv, Gain
<1>12. CASE Score
  <2>1. run'.kind = run.kind BY <1>12, ScoredRun
  <2>2. run'.pc \in {"failed", "done", "poll"}
    BY <1>12, <2>1, ScoredRun DEF First
  <2> QED BY <2>2 DEF CaseInv
<1>13. CASE UNCHANGED vars
  <2>1. Undisturbed BY <1>13, <1>a DEF vars
  <2> QED BY <1>13, <2>1 DEF vars, CaseInv, WillShow, Mine, Gain
<1> QED BY <1>1, <1>2, <1>3, <1>4, <1>5, <1>6, <1>7, <1>8, <1>9, <1>10, <1>11, <1>12, <1>13 DEF Next
-----------------------------------------------------------------------------
(* The rows. *)
LEMMA ScoredExact ==
  ASSUME BTypeOK, Score,
         \A m \in Measures : run.after[m] = run.before[m] + Gain(m)
  PROVE  IsExact(rows'[Len(rows) + 1])
<1>1. PICK b \in Nat, f \in Nat, n \in Nat :
        run.before["gen"] = b /\ run.before["fin"] = f /\ run.tokens = n
  <2>1. "gen" \in Measures /\ "fin" \in Measures BY DEF Measures
  <2> QED BY <2>1, Numbers
<1>2. run.after["gen"] = b + n /\ run.after["fin"] = f + 1
  BY <1>1 DEF Measures, Gain
<1>3. Delta("gen") = n /\ Delta("fin") = 1
  BY <1>1, <1>2 DEF Delta
<1> QED BY <1>1, <1>3, ScoredRow DEF IsExact

(* An action that scores nothing. *)
LEMMA UnscoredExact ==
  ASSUME BTypeOK, GateInv, [Next]_vars, ~ Score
  PROVE  /\ rows' = rows
         /\ run'.kind = run.kind \/ rows = <<>>
         /\ run'.kind = "ladder" /\ hist'.quiet /\ hist'.alone => rows = <<>> \/ (hist.quiet /\ hist.alone)
<1>0. run \in Run /\ hist \in Hist BY DEF BTypeOK
<1>k. ASSUME rows' = rows, hist' = hist, run'.kind = run.kind
      PROVE  /\ rows' = rows
             /\ run'.kind = run.kind \/ rows = <<>>
             /\ run'.kind = "ladder" /\ hist'.quiet /\ hist'.alone => rows = <<>> \/ (hist.quiet /\ hist.alone)
  BY <1>k
<1>1. CASE Generate
  <2>1. PICK i \in 1..Len(requests) : requests[i] \in Request /\ (Continuing(i) \/ Finishing(i))
    BY <1>1, GenerateCases
  <2>2. run' = run \/ \E o \in Outputs : run' = [run EXCEPT !.pc = "answered", !.output = o]
    BY <2>1 DEF Continuing, Finishing
  <2>3. run'.kind = run.kind BY <1>0, <2>2 DEF Run
  <2>4. rows' = rows /\ hist' = hist BY <1>1, GenerateCases
  <2> QED BY <1>k, <2>3, <2>4
<1>2. CASE Record BY <1>2 DEF Record
<1>3. CASE Disconnect BY <1>3 DEF Disconnect
<1>4. CASE OtherClient BY <1>0, <1>4 DEF OtherClient, Hist
<1>5. CASE Restart
  <2>1. run'.kind = run.kind BY <1>5 DEF Restart, NoRun
  <2>2. hist'.quiet = hist.quiet /\ hist'.alone = hist.alone /\ rows' = rows
    BY <1>0, <1>5 DEF Restart, Hist
  <2> QED BY <2>1, <2>2
<1>6. CASE Start
  BY <1>6 DEF Start, GateInv
<1>7. CASE WaitIdle
  <2>1. run.pc = "poll" /\ run'.kind = run.kind /\ rows' = rows BY <1>0, <1>7 DEF WaitIdle, Run
  <2>2. run.kind # "ladder" BY <2>1 DEF GateInv
  <2> QED BY <2>1, <2>2
<1>8. CASE ReadBefore
  BY <1>0, <1>8 DEF ReadBefore, Hist, Run
<1>9. CASE Post
  BY <1>0, <1>9, <1>k DEF Post, Run
<1>10. CASE Fail
  BY <1>10, <1>k DEF Fail, NoRun
<1>11. CASE ReadAfter
  BY <1>0, <1>11 DEF ReadAfter, Hist, Run
<1>12. CASE UNCHANGED vars
  BY <1>12 DEF vars
<1> QED BY <1>1, <1>2, <1>3, <1>4, <1>5, <1>6, <1>7, <1>8, <1>9, <1>10, <1>11, <1>12 DEF Next

LEMMA NextExact ==
  /\ BTypeOK /\ BTypeOK' /\ AskedInv /\ GateInv /\ LadderInv /\ CaseInv /\ [Next]_vars
  /\ SettledCapturesAreExact /\ CasesAreExact
  => SettledCapturesAreExact' /\ CasesAreExact'
<1> SUFFICES ASSUME BTypeOK, BTypeOK', AskedInv, GateInv, LadderInv, CaseInv, [Next]_vars,
                    SettledCapturesAreExact, CasesAreExact
             PROVE  SettledCapturesAreExact' /\ CasesAreExact'
  OBVIOUS
<1>1. CASE ~ Score
  <2>1. DOMAIN rows = 1..Len(rows) /\ (rows = <<>> => Len(rows) = 0) BY DEF BTypeOK
  <2>2. CASE rows = <<>>
    BY <1>1, <2>1, <2>2, UnscoredExact DEF SettledCapturesAreExact, CasesAreExact
  <2>3. CASE rows # <<>>
    BY <1>1, <2>3, UnscoredExact DEF SettledCapturesAreExact, CasesAreExact, IsExact
  <2> QED BY <2>2, <2>3
<1>2. CASE Score
  <2>1. PICK n \in Nat : Len(rows) = n /\ DOMAIN rows = 1..n BY DEF BTypeOK
  <2>2. /\ Len(rows') = n + 1 /\ \A i \in 1..n : rows'[i] = rows[i]
        /\ rows'[n + 1].settled = Settled(run.after) /\ rows'[n + 1].sound = Undisturbed
    BY <1>2, <2>1, ScoredRow
  <2>3. DOMAIN rows' = 1..(n + 1) BY <2>2 DEF BTypeOK
  <2>4. run'.kind = run.kind /\ hist' = hist /\ run.pc = "settle"
    BY <1>2, ScoredRun DEF Score
  <2>5. SettledCapturesAreExact'
    <3> SUFFICES ASSUME run.kind = "ladder", hist.quiet, hist.alone, NEW i \in 1..(n + 1),
                        \A j \in 1..i : rows'[j].settled
                 PROVE  IsExact(rows'[i])
      BY <2>3, <2>4 DEF SettledCapturesAreExact, IsExact
    <3>1. CASE i \in 1..n
      <4>1. \A j \in 1..i : rows[j].settled /\ rows'[i] = rows[i]
        BY <2>1, <2>2, <3>1
      <4> QED BY <2>1, <3>1, <4>1 DEF SettledCapturesAreExact
    <3>2. CASE i = n + 1
      <4>1. AloneAndSettled BY <2>1, <2>2, <3>2 DEF AloneAndSettled
      <4>2. Settled(run.after) BY <2>1, <2>2, <3>2
      <4>3. ASSUME NEW m \in Measures PROVE run.after[m] = run.before[m] + Gain(m)
        <5>1. run.after[m] <= run.before[m] + Gain(m) BY <2>4, <4>1 DEF LadderInv
        <5>2. run.after[m] >= run.before[m] + Gain(m) BY <2>4, <4>2, SettledGain
        <5>3. run.after[m] \in Nat /\ run.before[m] + Gain(m) \in Nat BY Numbers
        <5> QED BY <5>1, <5>2, <5>3
      <4> QED BY <1>2, <2>1, <3>2, <4>3, ScoredExact
    <3> QED BY <2>1, <3>1, <3>2
  <2>6. CasesAreExact'
    <3> SUFFICES ASSUME run.kind = "tps", NEW i \in 1..(n + 1), rows'[i].sound
                 PROVE  IsExact(rows'[i])
      BY <2>3, <2>4 DEF CasesAreExact, IsExact
    <3>1. CASE i \in 1..n
      BY <2>1, <2>2, <3>1 DEF CasesAreExact
    <3>2. CASE i = n + 1
      <4>1. Undisturbed BY <2>2, <3>2
      <4>2. \A m \in Measures : run.after[m] = run.before[m] + Gain(m)
        BY <2>4, <4>1 DEF CaseInv
      <4> QED BY <1>2, <2>1, <3>2, <4>2, ScoredExact
    <3> QED BY <2>1, <3>1, <3>2
  <2> QED BY <2>5, <2>6
<1> QED BY <1>1, <1>2

LEMMA BenchmarkInvariant == Spec => []BInv
<1>1. BInv /\ [Next]_vars => BInv'
  <2> SUFFICES ASSUME BInv, [Next]_vars PROVE BInv' OBVIOUS
  <2>1. BTypeOK' /\ BusyInv' BY NextBTypes DEF BInv
  <2>2. OwnerInv' /\ AskedInv' BY NextOwner, NextAsked DEF BInv
  <2>3. GateInv' BY NextGate DEF BInv
  <2>4. LadderInv' BY <2>1, NextLadder DEF BInv
  <2>5. CaseInv' BY <2>1, NextCase DEF BInv
  <2>6. SettledCapturesAreExact' /\ CasesAreExact' BY <2>1, NextExact DEF BInv
  <2> QED BY <2>1, <2>2, <2>3, <2>4, <2>5, <2>6 DEF BInv
<1>2. Init => BInv
  BY InitBTypes, InitGate DEF BInv
<1> QED BY <1>1, <1>2, PTL DEF Spec

(* The settle loop of run_chat_capture.py (wait_for_settled_metrics), with any   *)
(* number of other clients and restarts: a ladder that met an idle server and  *)
(* had it to itself scores exactly its own request in every capture up to the  *)
(* last of those that settled.                                                *)
THEOREM SettledCaptures == Spec => []SettledCapturesAreExact
<1>1. BInv => SettledCapturesAreExact BY DEF BInv
<1> QED BY <1>1, BenchmarkInvariant, PTL

(* wait_idle and metric_delta of run_qwen36_live_tps.py: nothing but the four    *)
(* reasons of CasesAreExact makes a case differ from its request.             *)
THEOREM UndisturbedCases == Spec => []CasesAreExact
<1>1. BInv => CasesAreExact BY DEF BInv
<1> QED BY <1>1, BenchmarkInvariant, PTL

(* strict_qwen_answer gates the ladder: no long capture, and no exit status 0,   *)
(* without a strict capture whose reasoning was closed and that stopped.       *)
THEOREM GateIsClosed == Spec => []GateNeedsClose
<1>1. BInv => GateNeedsClose BY DEF BInv, GateInv, FirstClosed, GateNeedsClose
<1> QED BY <1>1, BenchmarkInvariant, PTL
-----------------------------------------------------------------------------
(* VnextLaunch, the argument.  A file is of a request that the launcher has     *)
(* accepted.  What the verifier found stays so, and so do the files of a        *)
(* directory that is in use: nobody writes to it.  So a container that is being *)
(* started from a directory that passed has, in each of its phases, what the    *)
(* verifier compared (BoxInv), and the loop's container is of the loop's own    *)
(* directory, all of whose files are of one request (OpInv).                   *)
States == {Steps[i][2] : i \in DOMAIN Steps} \cup {"none"}
Asked == Requests \cup {"none"}
Dirs == RunDirs \cup {"none"}
Group == UNION {q.groups : q \in Requests}
Load == {q.load : q \in Requests} \cup {"auto"}
Mounts == Overlays \cup {"none"}
System == {Installed(groups, overlay) : groups \in SUBSET Group, overlay \in Mounts}

File == [of : Asked, state : States, x : BOOLEAN]
Writer == [dir : Dirs, of : Asked, step : 0..Len(Steps)]
Bundle == [content : Nat, listed : Int]
Box == [at : Starting \cup {"none", "exited", "serve"}, dir : Dirs, overlay : Mounts,
        groups : SUBSET Group, fs : System \cup {<<>>}, version : Nat, patched : BOOLEAN,
        of : Asked, load : Load, whole : BOOLEAN, complete : BOOLEAN, edited : BOOLEAN]
Op == [at : {"idle", "clear", "replace", "run", "wait", "strict", "long", "done"},
       dir : Dirs, of : Asked, measured : SUBSET Asked]
Spent == [launches : Nat, containers : Nat, edits : Nat, byHand : BOOLEAN, rehashed : BOOLEAN]

LTypeOK ==
  /\ files \in [RunDirs -> [Files -> File]] /\ writer \in Writer /\ verified \subseteq RunDirs
  /\ bundle \in [Overlays -> Bundle] /\ box \in [Names -> Box] /\ op \in Op /\ spent \in Spent

WriterInv ==
  /\ writer.step > 0 => writer.dir \in RunDirs /\ writer.of \in Requests /\ Accepts(writer.of)
  /\ writer.step = 0 => writer.dir = "none"
FilesInv == \A d \in RunDirs, f \in Files :
  IF files[d][f].state = "none" THEN ~ files[d][f].x
                                ELSE files[d][f].of \in Requests /\ Accepts(files[d][f].of)
VerifiedInv == \A d \in verified : ArtifactIsValid(files[d])
DirectoryInv == WriterInv /\ FilesInv /\ VerifiedInv

BundleInv == ~ spent.rehashed => \A o \in Overlays : bundle[o].listed = Pinned

(* A container that has been started from f, which the verifier passed.        *)
Compared(b, f) ==
  /\ ArtifactIsValid(f) /\ CommandBelongs(f)
  /\ b.groups = f["config"].of.groups /\ b.overlay = Mounted(f) /\ (b.complete => Complete(f))
(* In the directories fs, of which the launcher writes w, with the bundles bs,  *)
(* whose manifests may have been written anew (re).                            *)
Sound(b, fs, w, bs, re) ==
  /\ b.at \in Starting =>
       /\ b.dir \in RunDirs /\ b.dir # w /\ b.overlay \in Mounts
       /\ b.whole => Compared(b, fs[b.dir])
  /\ b.overlay \in Overlays /\ ~ re /\ ~ b.edited =>
       /\ b.at = "copy" => bs[b.overlay].content = Pinned
       /\ b.at \in {"patch", "exec"} => b.version = Pinned
  /\ b.at \in {"patch", "exec"} => b.fs = Installed(b.groups, b.overlay)
  /\ b.at = "exec" /\ b.whole /\ b.complete => b.patched
BoxInv == \A n \in Names : Sound(box[n], files, writer.dir, bundle, spent.rehashed)

OpInv ==
  /\ op.at # "idle" => op.dir \in RunDirs /\ op.dir # writer.dir /\ Written(files[op.dir])
  /\ op.at \in {"wait", "strict", "long"} =>
       /\ box[Current].at \in Starting => box[Current].dir = op.dir
       /\ box[Current].at = "serve" => box[Current].of = files[op.dir]["command"].of
  /\ op.at \in {"strict", "long"} => op.of = files[op.dir]["env"].of
  /\ op.at \notin {"long", "done"} => op.measured = {}
  /\ \A q \in op.measured : q.served = op.of.served /\ (~ spent.byHand => q.name = op.of.name)
AloneInv == ~ spent.byHand => box["by_hand"].at = "none"

LInv == /\ LTypeOK /\ DirectoryInv /\ BundleInv /\ BoxInv /\ EnginesFitTheirModel
        /\ OpInv /\ AloneInv /\ LadderMeasuresItsProfile

LEMMA StepsType ==
  /\ Len(Steps) \in Nat /\ Len(Steps) > 0
  /\ \A i \in 1..Len(Steps) : Steps[i][1] \in Files /\ Steps[i][2] \in States
  /\ {"config", "command", "patches", "env", "entrypoint", "docker_run"} \subseteq Files
  /\ "none" \in States
<1>1. Len(Steps) = 19 /\ DOMAIN Steps = 1..Len(Steps)
  BY DEF Steps
<1>2. /\ Steps[1][1] = "config" /\ Steps[4][1] = "command" /\ Steps[7][1] = "patches"
      /\ Steps[10][1] = "env" /\ Steps[12][1] = "entrypoint" /\ Steps[16][1] = "docker_run"
  BY DEF Steps
<1>3. {1, 4, 7, 10, 12, 16} \subseteq 1..Len(Steps) BY <1>1
<1> QED BY <1>1, <1>2, <1>3 DEF Files, States

LEMMA SystemType ==
  ASSUME NEW groups \in SUBSET Group, NEW overlay \in Mounts
  PROVE  Installed(groups, overlay) \in System
BY DEF System

LEMMA NoneType ==
  /\ NoFile \in File /\ NoWriter \in Writer /\ NoBox \in Box /\ NoOp \in Op
  /\ NoBox.at = "none" /\ NoWriter.dir = "none" /\ NoWriter.step = 0
  /\ [NoBox EXCEPT !.at = "exited"] \in Box /\ [NoBox EXCEPT !.at = "exited"].at = "exited"
<1>1. NoFile \in File BY StepsType DEF NoFile, File, Asked
<1>2. NoWriter \in Writer /\ NoWriter.dir = "none" /\ NoWriter.step = 0
  BY StepsType DEF NoWriter, Writer, Asked, Dirs
<1>3. NoOp \in Op BY DEF NoOp, Op, Asked, Dirs
<1>4. NoBox \in Box /\ NoBox.at = "none"
  BY DEF NoBox, Box, Asked, Dirs, Load, Mounts, Pinned
<1>5. [NoBox EXCEPT !.at = "exited"] \in Box /\ [NoBox EXCEPT !.at = "exited"].at = "exited"
  BY <1>4 DEF Box
<1> QED BY <1>1, <1>2, <1>3, <1>4, <1>5

LEMMA RequestType ==
  ASSUME NEW q \in Requests
  PROVE  /\ q \in Asked /\ q.groups \in SUBSET Group /\ q.load \in Load /\ q.overlay \in Overlays
         /\ q.family \in {"dense", "moe"} /\ q.model.seen \in {"unknown", q.model.family}
BY LaunchAssumption DEF Asked, Group, Load

LEMMA StartedType ==
  ASSUME LTypeOK, FilesInv, NEW d \in RunDirs, CanRun(d)
  PROVE  /\ Started(d) \in Box
         /\ Started(d).at = "exited" \/
              /\ Started(d).at = "check" /\ Started(d).dir = d
              /\ Started(d).overlay = Mounted(files[d]) /\ Started(d).overlay \in Mounts
              /\ Started(d).complete = Complete(files[d])
              /\ Started(d).whole => d \in verified /\ CommandBelongs(files[d])
              /\ files[d]["entrypoint"].state = "ready" => Started(d).groups = files[d]["entrypoint"].of.groups
<1> DEFINE e == files[d]["entrypoint"]
           c == files[d]["config"]
           whole == d \in verified /\ CommandBelongs(files[d])
           groups == IF e.state = "placeholder" THEN {} ELSE e.of.groups
           overlay == Mounted(files[d])
           complete == Complete(files[d])
<1>1. CASE ~ (e.x /\ e.state # "torn")
  BY <1>1, NoneType DEF Started
<1>2. CASE e.x /\ e.state # "torn"
  <2>1. e \in File /\ c \in File /\ e.state # "none" /\ c.state # "none"
    BY <1>2, StepsType DEF LTypeOK, FilesInv, CanRun
  <2>2. e.of \in Requests /\ c.of \in Requests
    BY <2>1, StepsType DEF FilesInv
  <2>3. groups \in SUBSET Group /\ overlay \in Mounts
    BY <2>2, RequestType DEF Mounted, Mounts
  <2>4. Started(d) = [NoBox EXCEPT !.at = "check", !.dir = d, !.overlay = overlay,
                                   !.groups = groups, !.whole = whole, !.complete = complete]
    BY <1>2 DEF Started
  <2>5. whole \in BOOLEAN /\ complete \in BOOLEAN BY DEF CommandBelongs, Complete
  <2> HIDE DEF e, c, whole, groups, overlay, complete
  <2>6. /\ Started(d) \in Box /\ Started(d).at = "check" /\ Started(d).dir = d
        /\ Started(d).overlay = overlay /\ Started(d).whole = whole /\ Started(d).groups = groups
        /\ Started(d).complete = complete
    <3>1. PICK n : n = NoBox /\ n \in Box BY NoneType
    <3>2. Started(d) = [n EXCEPT !.at = "check", !.dir = d, !.overlay = overlay,
                                 !.groups = groups, !.whole = whole, !.complete = complete]
      BY <2>4, <3>1, Zenon
    <3> QED BY <2>3, <2>5, <3>1, <3>2 DEF Box, Starting, Dirs
  <2> QED BY <2>3, <2>6 DEF whole, groups, overlay, complete, e, c
<1> QED BY <1>1, <1>2

(* What the directories come to. *)
Writes(f, new) ==
  /\ files' = [files EXCEPT ![writer.dir] = [files[writer.dir] EXCEPT ![f] = new]]
  /\ new.of = writer.of /\ new.state # "none"
  /\ writer.dir \in RunDirs /\ writer.of \in Requests /\ Accepts(writer.of)
  /\ writer' = NoWriter \/ (writer'.dir = writer.dir /\ writer'.of = writer.of /\ writer'.step > 0)
  /\ writer' \in Writer /\ verified' = verified \ {writer.dir}

LEMMA WriteFileDoes ==
  ASSUME LTypeOK, WriterInv, WriteFile
  PROVE  \E f \in Files, new \in File : Writes(f, new)
<1>0. PICK i \in 1..Len(Steps) : writer.step = i
  BY DEF WriteFile, LTypeOK, Writer
<1> DEFINE f == Steps[i][1]
           s == Steps[i][2]
           old == files[writer.dir][f]
           new == [of |-> writer.of, state |-> s, x |-> s = "ready" \/ (old.x /\ s # "moved")]
<1>1. f \in Files /\ s \in States /\ s # "none"
  BY <1>0, StepsType DEF Steps
<1>2. writer.dir \in RunDirs /\ writer.of \in Requests /\ Accepts(writer.of)
  BY <1>0 DEF WriterInv
<1>3. old \in File BY <1>1, <1>2 DEF LTypeOK
<1>4. new \in File BY <1>1, <1>2, <1>3 DEF File, Asked
<1>5. files' = [files EXCEPT ![writer.dir] = [files[writer.dir] EXCEPT ![f] = new]]
  BY <1>0, <1>1, <1>2 DEF WriteFile, LTypeOK
<1>6. writer' = NoWriter \/ (writer'.dir = writer.dir /\ writer'.of = writer.of /\ writer'.step > 0)
  BY <1>0, StepsType DEF WriteFile, LTypeOK, Writer
<1>7. writer' \in Writer
  BY <1>0, NoneType, StepsType DEF WriteFile, LTypeOK, Writer
<1>8. verified' = verified \ {writer.dir} BY DEF WriteFile
<1>9. new.of = writer.of /\ new.state = s OBVIOUS
<1> HIDE DEF f, s, old, new
<1> QED BY <1>1, <1>2, <1>4, <1>5, <1>6, <1>7, <1>8, <1>9 DEF Writes

LEMMA InitL == LaunchInit => LInv
<1> SUFFICES ASSUME LaunchInit PROVE LInv OBVIOUS
<1>1. /\ files = [d \in RunDirs |-> Empty] /\ Empty \in [Files -> File]
      /\ \A f \in Files : Empty[f].state = "none" /\ ~ Empty[f].x
  BY NoneType DEF LaunchInit, Empty, NoFile
<1>2. files \in [RunDirs -> [Files -> File]] BY <1>1
<1>3. spent \in Spent BY DEF LaunchInit, Spent
<1>4. bundle \in [Overlays -> Bundle] /\ BundleInv BY DEF LaunchInit, Bundle, BundleInv, Pinned
<1>5. LTypeOK BY <1>2, <1>3, <1>4, NoneType DEF LTypeOK, LaunchInit
<1>6. DirectoryInv BY <1>1, NoneType DEF LaunchInit, DirectoryInv, WriterInv, FilesInv, VerifiedInv
<1>7. \A n \in Names : box[n].at = "none" BY NoneType DEF LaunchInit
<1>8. BoxInv /\ EnginesFitTheirModel /\ AloneInv
  BY <1>7 DEF BoxInv, Sound, Starting, EnginesFitTheirModel, Serving, AloneInv, Names
<1>9. OpInv /\ LadderMeasuresItsProfile
  BY DEF LaunchInit, OpInv, NoOp, LadderMeasuresItsProfile
<1> QED BY <1>4, <1>5, <1>6, <1>8, <1>9 DEF LInv

LEMMA NextDirectories ==
  LTypeOK /\ DirectoryInv /\ [LaunchNext]_launchVars
    => DirectoryInv' /\ files' \in [RunDirs -> [Files -> File]] /\ writer' \in Writer /\ verified' \subseteq RunDirs
<1> SUFFICES ASSUME LTypeOK, DirectoryInv, [LaunchNext]_launchVars
             PROVE  DirectoryInv' /\ files' \in [RunDirs -> [Files -> File]] /\ writer' \in Writer
                    /\ verified' \subseteq RunDirs
  OBVIOUS
<1>0. /\ files \in [RunDirs -> [Files -> File]] /\ writer \in Writer /\ verified \subseteq RunDirs
      /\ WriterInv /\ FilesInv /\ VerifiedInv
  BY DEF LTypeOK, DirectoryInv
<1>1. ASSUME NEW d \in RunDirs, NEW q \in Requests, Launch(d, q) PROVE  DirectoryInv' /\ files' \in [RunDirs -> [Files -> File]] /\ writer' \in Writer /\ verified' \subseteq RunDirs
  <2>1. writer' = [dir |-> d, of |-> q, step |-> 1] /\ Accepts(q) BY <1>1 DEF Launch, Preflight
  <2>2. writer' \in Writer /\ WriterInv' BY <2>1, StepsType DEF Writer, WriterInv, Dirs, Asked
  <2>3. CASE UNCHANGED <<files, verified>>
    BY <1>0, <2>2, <2>3 DEF DirectoryInv, FilesInv, VerifiedInv
  <2>4. CASE files' = [files EXCEPT ![d] = Empty] /\ verified' = verified \ {d}
    <3>1. Empty \in [Files -> File] /\ \A f \in Files : Empty[f].state = "none" /\ ~ Empty[f].x
      BY NoneType DEF Empty, NoFile
    <3>2. files' \in [RunDirs -> [Files -> File]] BY <1>0, <2>4, <3>1
    <3>3. FilesInv' BY <1>0, <2>4, <3>1 DEF FilesInv
    <3>4. VerifiedInv' BY <1>0, <2>4 DEF VerifiedInv
    <3> QED BY <1>0, <2>2, <2>4, <3>2, <3>3, <3>4 DEF DirectoryInv
  <2> QED BY <1>1, <2>3, <2>4 DEF Launch
<1>2. CASE WriteFile
  <2>1. PICK f \in Files, new \in File : Writes(f, new)
    BY <1>0, <1>2, WriteFileDoes
  <2> DEFINE dir == [files[writer.dir] EXCEPT ![f] = new]
  <2>2. dir \in [Files -> File] /\ dir[f] = new /\ \A g \in Files : g # f => dir[g] = files[writer.dir][g]
    BY <1>0, <2>1 DEF Writes
  <2>3. files' = [files EXCEPT ![writer.dir] = dir] BY <2>1 DEF Writes
  <2> HIDE DEF dir
  <2>4. files' \in [RunDirs -> [Files -> File]] BY <1>0, <2>1, <2>2, <2>3 DEF Writes
  <2>5. FilesInv' BY <1>0, <2>1, <2>2, <2>3 DEF FilesInv, Writes
  <2>6. VerifiedInv' BY <1>0, <2>1, <2>3 DEF VerifiedInv, Writes
  <2>7. WriterInv' BY <2>1, NoneType DEF WriterInv, Writes
  <2> QED BY <1>0, <2>1, <2>4, <2>5, <2>6, <2>7 DEF DirectoryInv, Writes
<1>3. CASE KillLauncher
  BY <1>0, <1>3, NoneType DEF KillLauncher, DirectoryInv, WriterInv, FilesInv, VerifiedInv
<1>4. ASSUME NEW d \in RunDirs, Verify(d) PROVE DirectoryInv' /\ files' \in [RunDirs -> [Files -> File]] /\ writer' \in Writer /\ verified' \subseteq RunDirs
  BY <1>0, <1>4 DEF Verify, DirectoryInv, WriterInv, FilesInv, VerifiedInv
<1>5. CASE UNCHANGED <<files, writer, verified>>
  BY <1>0, <1>5 DEF DirectoryInv, WriterInv, FilesInv, VerifiedInv
<1> QED BY <1>1, <1>2, <1>3, <1>4, <1>5
        DEF LaunchNext, launchVars, RunByHand, Begin, EditBundle, Rehash, LoseManifest, CheckBundle, CopyTargets, ApplyPatches,
            ExecCommand, Exit, Container, Die, StopAndRemove, DockerRun, ServerAnswers, Capture
-----------------------------------------------------------------------------
(* What is installed, and whose it is. *)
LEMMA TargetsType ==
  /\ DOMAIN Targets = 1..9
  /\ \A i \in 1..9 : Targets[i].dst \in Places
                     /\ Targets[i].group \in {"common", "gguf", "dense", "moe", "moe_tp8"}
  /\ Targets[3] = Row("common", "qwen3_5", "qwen3_5") /\ Targets[8] = Row("gguf", "gguf_loader", "gguf_loader")
  /\ \A i \in 1..9 : /\ Targets[i].dst = "qwen3_5" => i = 3
                     /\ Targets[i].dst = "gguf_loader" => i = 8
BY DEF Targets, Row, Places

LEMMA MaxType ==
  ASSUME NEW S \in SUBSET (1..9), S # {}
  PROVE  Max(S) \in S
<1>1. \E x \in S : \A y \in S : x >= y
  <2> DEFINE Greatest(n) == n \in S /\ \A m \in S : n >= m
  <2>1. 9 \in S => Greatest(9) OBVIOUS
  <2>2. 9 \notin S => S \subseteq 1..8 OBVIOUS
  <2>3. S \subseteq 1..8 => Greatest(8) \/ S \subseteq 1..7 OBVIOUS
  <2>4. S \subseteq 1..7 => Greatest(7) \/ S \subseteq 1..6 OBVIOUS
  <2>5. S \subseteq 1..6 => Greatest(6) \/ S \subseteq 1..5 OBVIOUS
  <2>6. S \subseteq 1..5 => Greatest(5) \/ S \subseteq 1..4 OBVIOUS
  <2>7. S \subseteq 1..4 => Greatest(4) \/ S \subseteq 1..3 OBVIOUS
  <2>8. S \subseteq 1..3 => Greatest(3) \/ S \subseteq 1..2 OBVIOUS
  <2>9. S \subseteq 1..2 => Greatest(2) \/ \A m \in S : m = 1 OBVIOUS
  <2>10. ASSUME \A m \in S : m = 1 PROVE Greatest(1)
    <3>1. PICK x \in S : TRUE OBVIOUS
    <3>2. x = 1 BY <2>10
    <3> QED BY <2>10, <3>1, <3>2
  <2> QED BY <2>1, <2>2, <2>3, <2>4, <2>5, <2>6, <2>7, <2>8, <2>9, <2>10
<1> QED BY <1>1 DEF Max

LEMMA InstalledGroups ==
  ASSUME NEW groups, NEW overlay \in Mounts, "common" \in groups
  PROVE  LET fs == Installed(groups, overlay) IN
         /\ \A p \in Places : fs[p] = "image" \/
              (fs[p] \in groups /\ fs[p] \in {"common", "gguf", "dense", "moe", "moe_tp8"})
         /\ overlay \in Overlays => fs["qwen3_5"] = "common"
         /\ overlay \in GgufOverlays /\ "gguf" \in groups => fs["gguf_loader"] = "gguf"
<1> DEFINE holders(p) == {i \in DOMAIN Targets : /\ Targets[i].dst = p /\ Targets[i].group \in groups
                                              /\ Targets[i].src \in Contents[overlay]}
           fs == Installed(groups, overlay)
<1>1. \A p \in Places : fs[p] = IF holders(p) = {} THEN "image" ELSE Targets[Max(holders(p))].group
  BY DEF Installed
<1>2. \A p : holders(p) \in SUBSET (1..9) BY TargetsType
<1>3. ASSUME NEW p \in Places, holders(p) # {}
      PROVE  Max(holders(p)) \in holders(p) /\ fs[p] = Targets[Max(holders(p))].group
  BY <1>1, <1>2, <1>3, MaxType
<1>4. ASSUME NEW p \in Places
      PROVE  fs[p] = "image" \/
               (fs[p] \in groups /\ fs[p] \in {"common", "gguf", "dense", "moe", "moe_tp8"})
  <2>1. CASE holders(p) = {} BY <1>1, <2>1
  <2>2. CASE holders(p) # {}
    <3>1. Max(holders(p)) \in holders(p) /\ fs[p] = Targets[Max(holders(p))].group BY <1>3, <2>2
    <3> QED BY <3>1, TargetsType
  <2> QED BY <2>1, <2>2
<1>5. ASSUME overlay \in Overlays PROVE fs["qwen3_5"] = "common"
  <2>1. /\ Targets[3].dst = "qwen3_5" /\ Targets[3].group = "common" /\ Targets[3].src = "qwen3_5"
        /\ Targets[3].dst \in Places
    BY TargetsType DEF Row
  <2>2. "qwen3_5" \in Contents[overlay] BY <1>5 DEF Contents, Overlays
  <2>3. 3 \in holders("qwen3_5") BY <2>1, <2>2, TargetsType
  <2>4. Max(holders("qwen3_5")) \in holders("qwen3_5") /\ fs["qwen3_5"] = Targets[Max(holders("qwen3_5"))].group
    BY <1>3, <2>1, <2>3
  <2>5. Max(holders("qwen3_5")) = 3 BY <2>4, TargetsType
  <2> QED BY <2>1, <2>4, <2>5
<1>6. ASSUME overlay \in GgufOverlays, "gguf" \in groups PROVE fs["gguf_loader"] = "gguf"
  <2>1. /\ Targets[8].dst = "gguf_loader" /\ Targets[8].group = "gguf" /\ Targets[8].src = "gguf_loader"
        /\ Targets[8].dst \in Places
    BY TargetsType DEF Row
  <2>2. "gguf_loader" \in Contents[overlay] BY <1>6 DEF Contents, GgufOverlays
  <2>3. 8 \in holders("gguf_loader") BY <1>6, <2>1, <2>2, TargetsType
  <2>4. Max(holders("gguf_loader")) \in holders("gguf_loader") /\ fs["gguf_loader"] = Targets[Max(holders("gguf_loader"))].group
    BY <1>3, <2>1, <2>3
  <2>5. Max(holders("gguf_loader")) = 8 BY <2>4, TargetsType
  <2> QED BY <2>1, <2>4, <2>5
<1> HIDE DEF fs
<1> QED BY <1>4, <1>5, <1>6 DEF fs

(* What the verifier has compared is enough, for the request of the command.    *)
LEMMA ComparedFits ==
  ASSUME NEW f, Compared([groups |-> f["config"].of.groups, overlay |-> Mounted(f), complete |-> FALSE], f),
         \A n \in Files : f[n].of \in Requests /\ Accepts(f[n].of)
  PROVE  LET q == f["command"].of
             groups == f["config"].of.groups
             overlay == f["config"].of.overlay
         IN  /\ "common" \in groups
             /\ "gguf" \in groups => q.model.fmt = "gguf"
             /\ q.model.fmt = "gguf" => "gguf" \in groups /\ overlay \in GgufOverlays
                                        /\ f["command"].state = "ready" /\ q.load = "gguf"
             /\ "dense" \in groups => q.model.seen = "unknown" \/ q.model.family = "dense"
             /\ groups \cap {"moe", "moe_tp8"} # {} => q.model.seen = "unknown" \/ q.model.family = "moe"
<1> DEFINE c == f["config"].of
           q == f["command"].of
           e == f["entrypoint"].of
<1>1. {"config", "command", "entrypoint"} \subseteq Files BY StepsType
<1>2. c \in Requests /\ Accepts(c) /\ q \in Requests /\ Accepts(q) /\ Accepts(e) BY <1>1
<1>3. /\ c.model.fmt = c.fmt /\ (c.model.fmt = "gguf" <=> c.overlay \in GgufOverlays)
      /\ "common" \in c.groups /\ (c.model.fmt = "gguf" <=> "gguf" \in c.groups)
      /\ e.groups = c.groups
      /\ c.model.fmt = "gguf" <=> (f["command"].state = "ready" /\ q.load = "gguf")
  BY DEF Compared, ArtifactIsValid
<1>4. q = c \/ (q = e /\ f["command"].state = "ready") BY DEF Compared, CommandBelongs
<1>5. q.groups = c.groups BY <1>3, <1>4
<1>6. q.load = "gguf" <=> q.model.fmt = "gguf" BY <1>2 DEF Accepts
<1>7. c.load = "gguf" <=> c.model.fmt = "gguf" BY <1>2 DEF Accepts
<1>8. q.model.fmt = "gguf" <=> c.model.fmt = "gguf"
  BY <1>3, <1>4, <1>6, <1>7
<1>9. /\ q.family = "dense" => q.groups \cap {"moe", "moe_tp8"} = {}
      /\ q.family = "moe" => "dense" \notin q.groups
      /\ q.model.seen \in {"unknown", q.family}
  BY <1>2 DEF Accepts
<1>10. q.family \in {"dense", "moe"} /\ q.model.seen \in {"unknown", q.model.family}
  BY <1>2, RequestType
<1> QED BY <1>3, <1>5, <1>6, <1>8, <1>9, <1>10
-----------------------------------------------------------------------------
(* The containers. *)
FitsModel(b, re) ==
  LET q == b.of IN
  /\ \A p \in Places : Belongs(b.fs[p], q.model)
  /\ q.model.fmt = "gguf" => b.load = "gguf"
  /\ b.complete =>
       /\ b.fs["qwen3_5"] = "common" /\ b.patched
       /\ q.model.fmt = "gguf" => b.fs["gguf_loader"] = "gguf"
       /\ ~ re /\ ~ b.edited => b.version = Pinned
Good(b, fs, w, bs, re) ==
  b \in Box /\ Sound(b, fs, w, bs, re) /\ (b.at = "serve" /\ b.whole => FitsModel(b, re))
GoodNow(b) == Good(b, files, writer.dir, bundle, spent.rehashed)

LEMMA AllGood ==
  ASSUME LTypeOK
  PROVE  BoxInv /\ EnginesFitTheirModel <=> \A n \in Names : GoodNow(box[n])
<1>1. \A n \in Names : box[n] \in Box BY DEF LTypeOK
<1>2. EnginesFitTheirModel <=> \A n \in Names : box[n].at = "serve" /\ box[n].whole => FitsModel(box[n], spent.rehashed)
  BY DEF EnginesFitTheirModel, Serving, FitsModel
<1> QED BY <1>1, <1>2 DEF BoxInv, GoodNow, Good

LEMMA StoppedIsGood ==
  ASSUME NEW b \in {NoBox, [NoBox EXCEPT !.at = "exited"]}
  PROVE  GoodNow(b)
<1>1. b \in Box /\ b.at \in {"none", "exited"} BY NoneType
<1>2. b.at \notin Starting /\ b.at \notin {"copy", "patch", "exec", "serve"} BY <1>1 DEF Starting
<1> QED BY <1>1, <1>2 DEF GoodNow, Good, Sound

LEMMA StartedIsGood ==
  ASSUME LTypeOK, DirectoryInv, NEW d \in RunDirs, CanRun(d)
  PROVE  GoodNow(Started(d))
<1> DEFINE b == Started(d)
<1>1. /\ b \in Box /\ writer.dir # d
      /\ b.at = "exited" \/
           /\ b.at = "check" /\ b.dir = d
           /\ b.overlay = Mounted(files[d]) /\ b.overlay \in Mounts /\ b.complete = Complete(files[d])
           /\ b.whole => d \in verified /\ CommandBelongs(files[d])
           /\ files[d]["entrypoint"].state = "ready" => b.groups = files[d]["entrypoint"].of.groups
  BY StartedType DEF DirectoryInv, CanRun
<1> HIDE DEF b
<1>2. ASSUME b.at = "check", b.whole PROVE Compared(b, files[b.dir])
  <2>1. b.dir = d /\ ArtifactIsValid(files[d]) /\ CommandBelongs(files[d])
    BY <1>1, <1>2 DEF DirectoryInv, VerifiedInv
  <2>2. /\ files[d]["entrypoint"].state = "ready"
        /\ files[d]["entrypoint"].of.groups = files[d]["config"].of.groups
    BY <2>1 DEF ArtifactIsValid
  <2> QED BY <1>1, <1>2, <2>1, <2>2 DEF Compared
<1>3. b.at \in Starting <=> b.at = "check" BY <1>1 DEF Starting
<1>4. b.at \notin {"copy", "patch", "exec", "serve"} BY <1>1
<1>5. Sound(b, files, writer.dir, bundle, spent.rehashed)
  BY <1>1, <1>2, <1>3, <1>4 DEF Sound
<1>6. GoodNow(b) BY <1>1, <1>4, <1>5 DEF GoodNow, Good
<1> QED BY <1>6 DEF b

(* The phases of the entrypoint. *)
LEMMA CheckedIsGood ==
  ASSUME LTypeOK, BundleInv, NEW b, GoodNow(b), b.at = "check",
         b.overlay # "none" => bundle[b.overlay].listed \in {NoManifest, bundle[b.overlay].content}
  PROVE  GoodNow([b EXCEPT !.at = "copy"])
<1> DEFINE new == [b EXCEPT !.at = "copy"]
<1>0. b \in Box /\ Sound(b, files, writer.dir, bundle, spent.rehashed) /\ b.at \in Starting
  BY DEF GoodNow, Good, Starting
<1>1. /\ new \in Box /\ new.at = "copy" /\ new.dir = b.dir /\ new.overlay = b.overlay
      /\ new.groups = b.groups /\ new.whole = b.whole /\ new.complete = b.complete
  BY <1>0 DEF Box, Starting
<1> HIDE DEF new
<1>2. b.overlay \in Overlays /\ ~ spent.rehashed => bundle[b.overlay].content = Pinned
  BY DEF BundleInv, Overlays, NoManifest, Pinned
<1>3. Sound(new, files, writer.dir, bundle, spent.rehashed)
  BY <1>0, <1>1, <1>2 DEF Sound, Starting, Compared
<1>4. GoodNow(new) BY <1>1, <1>3 DEF GoodNow, Good
<1> QED BY <1>4 DEF new

LEMMA CopiedIsGood ==
  ASSUME LTypeOK, NEW b, GoodNow(b), b.at = "copy"
  PROVE  GoodNow([b EXCEPT !.at = "patch", !.fs = Installed(b.groups, b.overlay),
                           !.version = IF b.overlay = "none" THEN @ ELSE bundle[b.overlay].content])
<1> DEFINE version == IF b.overlay = "none" THEN b.version ELSE bundle[b.overlay].content
           fs == Installed(b.groups, b.overlay)
           new == [b EXCEPT !.at = "patch", !.fs = fs, !.version = version]
<1>0. b \in Box /\ Sound(b, files, writer.dir, bundle, spent.rehashed) /\ b.at \in Starting
  BY DEF GoodNow, Good, Starting
<1>1. b.overlay \in Mounts /\ b.groups \in SUBSET Group /\ b.version \in Nat
  BY <1>0 DEF Sound, Box
<1>2. version \in Nat /\ fs \in System
  BY <1>1, SystemType DEF LTypeOK, Bundle, Mounts
<1>v. b.overlay \in Overlays /\ ~ spent.rehashed /\ ~ b.edited => version = Pinned
  BY <1>0 DEF Sound, Overlays
<1>f. fs = Installed(b.groups, b.overlay) OBVIOUS
<1> HIDE DEF version, fs
<1>3. /\ new \in Box /\ new.at = "patch" /\ new.dir = b.dir /\ new.overlay = b.overlay
      /\ new.groups = b.groups /\ new.whole = b.whole /\ new.edited = b.edited
      /\ new.version = version /\ new.fs = fs /\ new.complete = b.complete
  BY <1>0, <1>2 DEF Box, Starting
<1> HIDE DEF new
<1>4. Sound(new, files, writer.dir, bundle, spent.rehashed)
  BY <1>0, <1>3, <1>v, <1>f DEF Sound, Starting, Compared
<1>5. GoodNow(new) BY <1>3, <1>4 DEF GoodNow, Good
<1> QED BY <1>5 DEF new, version, fs

LEMMA PatchedIsGood ==
  ASSUME LTypeOK, NEW b, GoodNow(b), b.at = "patch"
  PROVE  GoodNow([b EXCEPT !.at = "exec", !.patched = files[b.dir]["patches"].state = "ready"])
<1> DEFINE patched == files[b.dir]["patches"].state = "ready"
           new == [b EXCEPT !.at = "exec", !.patched = patched]
<1>0. b \in Box /\ Sound(b, files, writer.dir, bundle, spent.rehashed) /\ b.at \in Starting
  BY DEF GoodNow, Good, Starting
<1>1. b.whole /\ b.complete => patched
  BY <1>0 DEF Sound, Compared, Complete
<1>2. patched \in BOOLEAN OBVIOUS
<1> HIDE DEF patched
<1>3. /\ new \in Box /\ new.at = "exec" /\ new.dir = b.dir /\ new.overlay = b.overlay
      /\ new.groups = b.groups /\ new.whole = b.whole /\ new.edited = b.edited
      /\ new.version = b.version /\ new.fs = b.fs /\ new.patched = patched
      /\ new.complete = b.complete
  BY <1>0, <1>2 DEF Box, Starting
<1> HIDE DEF new
<1>4. Sound(new, files, writer.dir, bundle, spent.rehashed)
  BY <1>0, <1>1, <1>3 DEF Sound, Starting, Compared
<1>5. GoodNow(new) BY <1>3, <1>4 DEF GoodNow, Good
<1> QED BY <1>5 DEF new, patched

LEMMA ServingIsGood ==
  ASSUME LTypeOK, FilesInv, NEW b, GoodNow(b), b.at = "exec",
         files[b.dir]["command"].state \in {"cut", "ready"}
  PROVE  LET command == files[b.dir]["command"]
             new == [b EXCEPT !.at = "serve", !.dir = "none", !.groups = {}, !.of = command.of,
                              !.load = IF command.state = "ready" THEN command.of.load ELSE "auto"]
         IN  GoodNow(new) /\ new.at = "serve" /\ new.of = command.of
<1> DEFINE f == files[b.dir]
           q == f["command"].of
           load == IF f["command"].state = "ready" THEN q.load ELSE "auto"
           new == [b EXCEPT !.at = "serve", !.dir = "none", !.groups = {}, !.of = q, !.load = load]
<1>0. b \in Box /\ Sound(b, files, writer.dir, bundle, spent.rehashed) /\ b.at \in Starting
  BY DEF GoodNow, Good, Starting
<1>1. b.dir \in RunDirs /\ {"config", "command"} \subseteq Files /\ f \in [Files -> File]
  BY <1>0, StepsType DEF Sound, LTypeOK
<1>2. q \in Requests BY <1>1 DEF FilesInv
<1>3. load \in Load /\ q \in Asked BY <1>2, RequestType DEF Load
<1>l. load = IF f["command"].state = "ready" THEN q.load ELSE "auto" OBVIOUS
<1> HIDE DEF load
<1>4. /\ new \in Box /\ new.at = "serve" /\ new.of = q /\ new.load = load /\ new.whole = b.whole
      /\ new.fs = b.fs /\ new.patched = b.patched /\ new.version = b.version /\ new.edited = b.edited
      /\ new.complete = b.complete
  BY <1>0, <1>3 DEF Box, Starting, Dirs
<1> HIDE DEF new
<1>5. Sound(new, files, writer.dir, bundle, spent.rehashed)
  BY <1>4 DEF Sound, Starting
<1>6. ASSUME b.whole PROVE FitsModel(new, spent.rehashed)
  <2> DEFINE groups == f["config"].of.groups
             overlay == f["config"].of.overlay
  <2>1. /\ Compared(b, f) /\ b.groups = groups /\ b.overlay \in Mounts
        /\ b.fs = Installed(b.groups, b.overlay) /\ (b.complete => b.patched)
        /\ b.overlay \in Overlays /\ ~ spent.rehashed /\ ~ b.edited => b.version = Pinned
    BY <1>0, <1>6 DEF Sound, Compared
  <2>o. b.complete => b.overlay = overlay /\ overlay \in Overlays
    <3>1. "config" \in Files /\ (b.complete => f["config"].state = "ready") BY <1>1, <2>1 DEF Compared, Complete
    <3>2. ArtifactIsValid(f) BY <2>1 DEF Compared
    <3>3. f["config"].of \in Requests BY <1>1, <3>1, <3>2 DEF FilesInv, ArtifactIsValid
    <3> QED BY <2>1, <3>1, <3>3, RequestType DEF Compared, Mounted
  <2>2. Compared([groups |-> groups, overlay |-> Mounted(f), complete |-> FALSE], f) BY <2>1 DEF Compared
  <2>3. \A n \in Files : f[n].of \in Requests /\ Accepts(f[n].of)
    BY <1>1, <2>1 DEF FilesInv, Compared, ArtifactIsValid
  <2>4. /\ "common" \in groups
        /\ "gguf" \in groups => q.model.fmt = "gguf"
        /\ q.model.fmt = "gguf" => "gguf" \in groups /\ overlay \in GgufOverlays
                                   /\ f["command"].state = "ready" /\ q.load = "gguf"
        /\ "dense" \in groups => q.model.seen = "unknown" \/ q.model.family = "dense"
        /\ groups \cap {"moe", "moe_tp8"} # {} => q.model.seen = "unknown" \/ q.model.family = "moe"
    BY <2>2, <2>3, ComparedFits
  <2> HIDE DEF f, groups, overlay
  <2>5. /\ \A p \in Places : b.fs[p] = "image" \/
             (b.fs[p] \in groups /\ b.fs[p] \in {"common", "gguf", "dense", "moe", "moe_tp8"})
        /\ b.overlay \in Overlays => b.fs["qwen3_5"] = "common"
        /\ b.overlay \in GgufOverlays /\ "gguf" \in groups => b.fs["gguf_loader"] = "gguf"
    BY <2>1, <2>4, InstalledGroups
  <2>6. ASSUME NEW p \in Places PROVE Belongs(b.fs[p], q.model)
    <3>1. CASE b.fs[p] \in {"image", "common"} BY <3>1 DEF Belongs
    <3>2. CASE b.fs[p] = "gguf" BY <2>4, <2>5, <3>2 DEF Belongs
    <3>3. CASE b.fs[p] = "dense" BY <2>4, <2>5, <3>3 DEF Belongs
    <3>4. CASE b.fs[p] \in {"moe", "moe_tp8"} BY <2>4, <2>5, <3>4 DEF Belongs
    <3> QED BY <2>5, <3>1, <3>2, <3>3, <3>4
  <2>7. /\ q.model.fmt = "gguf" => load = "gguf"
        /\ q.model.fmt = "gguf" /\ b.complete => b.fs["gguf_loader"] = "gguf"
    BY <1>l, <2>4, <2>5, <2>o DEF f
  <2> QED BY <1>4, <2>1, <2>o, <2>5, <2>6, <2>7 DEF FitsModel
<1>7. GoodNow(new) BY <1>4, <1>5, <1>6 DEF GoodNow, Good
<1> QED BY <1>4, <1>7 DEF new, load, q, f

(* A directory in use stays as it is. *)
LEMMA InUseIsStable ==
  ASSUME LTypeOK, DirectoryInv, [LaunchNext]_launchVars, NEW d \in RunDirs, InUse(d), d # writer.dir
  PROVE  files'[d] = files[d] /\ d # writer'.dir
<1>0. files \in [RunDirs -> [Files -> File]] /\ WriterInv BY DEF LTypeOK, DirectoryInv
<1>1. ASSUME NEW e \in RunDirs, NEW q \in Requests, Launch(e, q) PROVE files'[d] = files[d] /\ d # writer'.dir
  <2>1. d # e /\ writer'.dir = e BY <1>1 DEF Launch
  <2> QED BY <1>0, <1>1, <2>1 DEF Launch
<1>2. CASE WriteFile
  <2>1. PICK f \in Files, new \in File : Writes(f, new) BY <1>0, <1>2, WriteFileDoes
  <2>2. d # writer'.dir
    <3>1. d # "none" BY LaunchAssumption
    <3> QED BY <2>1, <3>1, NoneType DEF Writes
  <2> QED BY <1>0, <2>1, <2>2 DEF Writes
<1>3. CASE KillLauncher
  <2>1. d # "none" BY LaunchAssumption
  <2> QED BY <1>3, <2>1, NoneType DEF KillLauncher
<1>4. CASE UNCHANGED <<files, writer>> BY <1>4
<1> QED BY <1>1, <1>2, <1>3, <1>4
        DEF LaunchNext, launchVars, Verify, RunByHand, Begin, EditBundle, Rehash, LoseManifest, CheckBundle, CopyTargets,
            ApplyPatches, ExecCommand, Exit, Container, Die, StopAndRemove, DockerRun, ServerAnswers, Capture

BoxesGood == /\ box' \in [Names -> Box] /\ bundle' \in [Overlays -> Bundle] /\ spent' \in Spent /\ BundleInv'
             /\ \A n \in Names : Good(box'[n], files', writer'.dir, bundle', spent'.rehashed)

LEMMA NextBoxes ==
  LTypeOK /\ DirectoryInv /\ BundleInv /\ BoxInv /\ EnginesFitTheirModel /\ OpInv /\ [LaunchNext]_launchVars
    => BoxesGood
<1> SUFFICES ASSUME LTypeOK, DirectoryInv, BundleInv, BoxInv, EnginesFitTheirModel, OpInv,
                    [LaunchNext]_launchVars
             PROVE  BoxesGood
  OBVIOUS
<1>0. /\ box \in [Names -> Box] /\ bundle \in [Overlays -> Bundle] /\ spent \in Spent
      /\ \A n \in Names : GoodNow(box[n])
  BY AllGood DEF LTypeOK
<1>n. Current \in Names /\ "by_hand" \in Names BY DEF Names
(* The boxes stay. *)
<1>s. ASSUME UNCHANGED <<box, bundle>>, spent' \in Spent, spent'.rehashed = spent.rehashed PROVE BoxesGood
  <2>1. ASSUME NEW n \in Names
        PROVE  Good(box'[n], files', writer'.dir, bundle', spent'.rehashed)
    <3> DEFINE b == box[n]
    <3>1. Good(b, files, writer.dir, bundle, spent.rehashed) BY <1>0 DEF GoodNow
    <3>2. ASSUME b.at \in Starting PROVE files'[b.dir] = files[b.dir] /\ b.dir # writer'.dir
      <4>1. b.dir \in RunDirs /\ b.dir # writer.dir BY <3>1, <3>2 DEF Good, Sound
      <4>2. InUse(b.dir) BY <3>2 DEF InUse
      <4> QED BY <4>1, <4>2, InUseIsStable
    <3> HIDE DEF b
    <3>3. Good(b, files', writer'.dir, bundle', spent'.rehashed)
      BY <1>s, <3>1, <3>2 DEF Good, Sound
    <3> QED BY <1>s, <3>3 DEF b
  <2> QED BY <1>0, <1>s, <2>1 DEF BoxesGood, BundleInv
(* One box changes. *)
<1>b. ASSUME NEW n \in Names, NEW b, GoodNow(b), box' = [box EXCEPT ![n] = b],
             UNCHANGED <<files, writer, bundle>>, spent' \in Spent, spent'.rehashed = spent.rehashed
      PROVE  BoxesGood
  <2>1. b \in Box /\ box' \in [Names -> Box] BY <1>0, <1>b DEF GoodNow, Good
  <2>2. \A m \in Names : Good(box'[m], files, writer.dir, bundle, spent.rehashed)
    BY <1>0, <1>b DEF GoodNow
  <2> QED BY <1>0, <1>b, <2>1, <2>2 DEF BoxesGood, BundleInv
<1>1. ASSUME NEW d \in RunDirs, NEW q \in Requests, Launch(d, q) PROVE BoxesGood
  <2>1. spent' \in Spent /\ spent'.rehashed = spent.rehashed BY <1>0, <1>1 DEF Launch, Spent
  <2> QED BY <1>1, <1>s, <2>1 DEF Launch
<1>2. CASE WriteFile \/ KillLauncher \/ Die \/ ServerAnswers \/ Capture
  BY <1>0, <1>2, <1>s DEF WriteFile, KillLauncher, Die, ServerAnswers, Capture
<1>3. ASSUME NEW d \in RunDirs, Verify(d) \/ Begin(d) PROVE BoxesGood
  BY <1>0, <1>3, <1>s DEF Verify, Begin
<1>4. ASSUME NEW d \in RunDirs, RunByHand(d) PROVE BoxesGood
  <2>1. spent' \in Spent /\ spent'.rehashed = spent.rehashed
    <3>1. PICK c \in Nat : spent.containers + 1 = c BY <1>0 DEF Spent
    <3>2. spent' = [spent EXCEPT !.containers = c, !.byHand = TRUE] BY <1>4, <3>1 DEF RunByHand
    <3> QED BY <1>0, <3>2 DEF Spent
  <2>2. GoodNow(Started(d)) BY <1>4, StartedIsGood DEF RunByHand
  <2> QED BY <1>4, <1>n, <1>b, <2>1, <2>2 DEF RunByHand
<1>5. ASSUME NEW o \in Overlays, EditBundle(o) PROVE BoxesGood
  <2>1. spent' \in Spent /\ spent'.rehashed = spent.rehashed BY <1>0, <1>5 DEF EditBundle, Spent
  <2>2. /\ bundle' \in [Overlays -> Bundle]
        /\ \A p \in Overlays : bundle'[p].listed = bundle[p].listed /\ (p # o => bundle'[p] = bundle[p])
    BY <1>0, <1>5 DEF EditBundle, Bundle
  <2>3. ASSUME NEW n \in Names
        PROVE  box'[n] \in Box /\ Good(box'[n], files, writer.dir, bundle', spent.rehashed)
    <3> DEFINE b == box[n]
               new == [b EXCEPT !.edited = TRUE]
    <3>1. Good(b, files, writer.dir, bundle, spent.rehashed) /\ b \in Box
      BY <1>0 DEF GoodNow
    <3>2. CASE b.at = "copy" /\ b.overlay = o
      <4>1. box'[n] = new BY <1>5, <3>2 DEF EditBundle
      <4>2. /\ new \in Box /\ new.at = "copy" /\ new.dir = b.dir /\ new.overlay = b.overlay
            /\ new.groups = b.groups /\ new.whole = b.whole /\ new.complete = b.complete /\ new.edited
        BY <3>1, <3>2 DEF Box
      <4> HIDE DEF new
      <4>3. Good(new, files, writer.dir, bundle', spent.rehashed)
        BY <3>1, <3>2, <4>2 DEF Good, Sound, Starting, Compared
      <4> QED BY <4>1, <4>2, <4>3
    <3>3. CASE ~ (b.at = "copy" /\ b.overlay = o)
      <4>1. box'[n] = b BY <1>5, <3>3 DEF EditBundle
      <4> HIDE DEF b
      <4>3. Good(b, files, writer.dir, bundle', spent.rehashed)
        BY <2>2, <3>1, <3>3 DEF Good, Sound
      <4> QED BY <3>1, <4>1, <4>3
    <3> QED BY <3>2, <3>3
  <2>4. box' \in [Names -> Box]
    <3>1. \E g : box' = [n \in Names |-> g[n]]
      <4>1. box' = [n \in Names |-> IF box[n].at = "copy" /\ box[n].overlay = o
                                      THEN [box[n] EXCEPT !.edited = TRUE] ELSE box[n]]
        BY <1>5 DEF EditBundle
      <4>2. box' = [n \in Names |-> box'[n]] BY <4>1
      <4> QED BY <4>2
    <3> QED BY <2>3, <3>1
  <2> QED BY <1>5, <2>1, <2>2, <2>3, <2>4 DEF BoxesGood, BundleInv, EditBundle
<1>6. ASSUME NEW o \in Overlays, Rehash(o) \/ LoseManifest(o) PROVE BoxesGood
  <2>1. spent' \in Spent /\ spent'.rehashed
    <3>1. CASE Rehash(o) BY <1>0, <3>1 DEF Rehash, Spent
    <3>2. CASE LoseManifest(o)
      <4>1. PICK e \in Nat : spent.edits + 1 = e BY <1>0 DEF Spent
      <4>2. spent' = [spent EXCEPT !.edits = e, !.rehashed = TRUE] BY <3>2, <4>1 DEF LoseManifest
      <4> QED BY <1>0, <4>2 DEF Spent
    <3> QED BY <1>6, <3>1, <3>2
  <2>2. bundle' \in [Overlays -> Bundle] BY <1>0, <1>6 DEF Rehash, LoseManifest, Bundle, NoManifest
  <2>3. ASSUME NEW n \in Names PROVE Good(box[n], files, writer.dir, bundle', spent'.rehashed)
    <3>1. Good(box[n], files, writer.dir, bundle, spent.rehashed) BY <1>0 DEF GoodNow
    <3> QED BY <2>1, <3>1 DEF Good, Sound, FitsModel
  <2> QED BY <1>0, <1>6, <2>1, <2>2, <2>3 DEF BoxesGood, BundleInv, Rehash, LoseManifest
<1>7. ASSUME NEW n \in Names, CheckBundle(n) PROVE BoxesGood
  <2>1. GoodNow([box[n] EXCEPT !.at = "copy"]) BY <1>0, <1>7, CheckedIsGood DEF CheckBundle
  <2> QED BY <1>0, <1>7, <1>b, <2>1 DEF CheckBundle, Container
<1>8. ASSUME NEW n \in Names, CopyTargets(n) PROVE BoxesGood
  <2>1. GoodNow([box[n] EXCEPT !.at = "patch", !.fs = Installed(box[n].groups, box[n].overlay),
                   !.version = IF box[n].overlay = "none" THEN @ ELSE bundle[box[n].overlay].content])
    BY <1>0, <1>8, CopiedIsGood DEF CopyTargets
  <2> QED BY <1>0, <1>8, <1>b, <2>1 DEF CopyTargets, Container
<1>9. ASSUME NEW n \in Names, ApplyPatches(n) PROVE BoxesGood
  <2>1. GoodNow([box[n] EXCEPT !.at = "exec", !.patched = files[box[n].dir]["patches"].state = "ready"])
    BY <1>0, <1>9, PatchedIsGood DEF ApplyPatches
  <2> QED BY <1>0, <1>9, <1>b, <2>1 DEF ApplyPatches, Container
<1>10. ASSUME NEW n \in Names, ExecCommand(n) PROVE BoxesGood
  <2> DEFINE command == files[box[n].dir]["command"]
             new == [box[n] EXCEPT !.at = "serve", !.dir = "none", !.groups = {}, !.of = command.of,
                                   !.load = IF command.state = "ready" THEN command.of.load ELSE "auto"]
  <2>1. GoodNow(new)
    BY <1>0, <1>10, ServingIsGood DEF ExecCommand, DirectoryInv
  <2>2. box' = [box EXCEPT ![n] = new] /\ UNCHANGED <<files, writer, bundle, spent>>
    BY <1>10 DEF ExecCommand, Container
  <2> HIDE DEF new
  <2> QED BY <1>0, <1>b, <2>1, <2>2
<1>x. GoodNow([NoBox EXCEPT !.at = "exited"]) /\ GoodNow(NoBox)
  BY StoppedIsGood
<1>11. ASSUME NEW n \in Names, Exit(n) PROVE BoxesGood
  BY <1>0, <1>11, <1>b, <1>x DEF Exit, Exited
<1>12. CASE StopAndRemove
  <2>1. CASE UNCHANGED box BY <1>0, <1>12, <1>s, <2>1 DEF StopAndRemove
  <2>2. CASE box' = Exited(Current) BY <1>0, <1>12, <1>b, <1>n, <1>x, <2>2 DEF StopAndRemove, Exited
  <2>3. CASE box' = [box EXCEPT ![Current] = NoBox]
    BY <1>0, <1>12, <1>b, <1>n, <1>x, <2>3 DEF StopAndRemove
  <2> QED BY <1>12, <2>1, <2>2, <2>3 DEF StopAndRemove
<1>13. CASE DockerRun
  <2>0. op.dir \in RunDirs BY <1>13 DEF DockerRun, OpInv
  <2>1. spent' \in Spent /\ spent'.rehashed = spent.rehashed BY <1>0, <1>13 DEF DockerRun, Spent
  <2>2. GoodNow(Started(op.dir)) BY <1>13, <2>0, StartedIsGood DEF DockerRun
  <2> QED BY <1>13, <1>n, <1>b, <2>1, <2>2 DEF DockerRun
<1>14. CASE UNCHANGED launchVars
  BY <1>0, <1>14, <1>s DEF launchVars
<1> QED BY <1>1, <1>2, <1>3, <1>4, <1>5, <1>6, <1>7, <1>8, <1>9, <1>10, <1>11, <1>12, <1>13, <1>14 DEF LaunchNext
-----------------------------------------------------------------------------
(* The readiness loop. *)
LoopGood == op' \in Op /\ OpInv' /\ AloneInv' /\ LadderMeasuresItsProfile'

(* What a container does by itself: it goes on, exits, or serves its command.   *)
GoesOn(b, c) ==
  \/ c.at = "exited"
  \/ c.at = b.at /\ c.dir = b.dir /\ c.of = b.of
  \/ b.at \in Starting /\ c.at \in Starting /\ c.dir = b.dir
  \/ b.at \in Starting /\ c.at = "serve" /\ c.of = files[b.dir]["command"].of

LEMMA LoopKeeps ==
  ASSUME LTypeOK, DirectoryInv, OpInv, AloneInv, LadderMeasuresItsProfile, [LaunchNext]_launchVars,
         UNCHANGED <<op, ladders>>, spent'.byHand = spent.byHand,
         GoesOn(box[Current], box'[Current]),
         box'["by_hand"].at = "none" \/ box["by_hand"].at # "none"
  PROVE  LoopGood
<1>1. op.at # "idle" => op.dir \in RunDirs /\ files'[op.dir] = files[op.dir] /\ op.dir # writer'.dir
  BY InUseIsStable DEF OpInv, InUse
<1>2. ASSUME op.at \in {"wait", "strict", "long"}
      PROVE  /\ box'[Current].at \in Starting => box'[Current].dir = op.dir
             /\ box'[Current].at = "serve" => box'[Current].of = files'[op.dir]["command"].of
  <2>1. /\ box[Current].at \in Starting => box[Current].dir = op.dir
        /\ box[Current].at = "serve" => box[Current].of = files[op.dir]["command"].of
        /\ files'[op.dir] = files[op.dir]
    BY <1>1, <1>2 DEF OpInv
  <2> QED BY <2>1 DEF GoesOn, Starting
<1>3. op' = op /\ op \in Op BY DEF LTypeOK
<1>4. OpInv' BY <1>1, <1>2, <1>3 DEF OpInv
<1>5. AloneInv' BY DEF AloneInv
<1>6. LadderMeasuresItsProfile' BY DEF LadderMeasuresItsProfile
<1> QED BY <1>3, <1>4, <1>5, <1>6 DEF LoopGood

LEMMA NextLoop ==
  LTypeOK /\ DirectoryInv /\ BoxInv /\ OpInv /\ AloneInv /\ LadderMeasuresItsProfile /\ [LaunchNext]_launchVars
    => LoopGood
<1> SUFFICES ASSUME LTypeOK, DirectoryInv, BoxInv, OpInv, AloneInv, LadderMeasuresItsProfile,
                    [LaunchNext]_launchVars
             PROVE  LoopGood
  OBVIOUS
<1>0. /\ box \in [Names -> Box] /\ op \in Op /\ spent \in Spent /\ Current # "by_hand"
      /\ Names = {Current, "by_hand"} /\ box[Current] \in Box /\ box["by_hand"] \in Box
  BY DEF LTypeOK, Names, Current
<1>s. ASSUME UNCHANGED <<box, op, ladders>>, spent'.byHand = spent.byHand PROVE LoopGood
  <2>1. GoesOn(box[Current], box'[Current]) BY <1>s DEF GoesOn
  <2> QED BY <1>s, <2>1, LoopKeeps
<1>b. ASSUME NEW n \in Names, NEW b, GoesOn(box[n], b), box[n].at # "none", box' = [box EXCEPT ![n] = b],
             UNCHANGED <<op, ladders>>, spent'.byHand = spent.byHand
      PROVE  LoopGood
  <2>1. GoesOn(box[Current], box[Current]) BY DEF GoesOn
  <2>2. n = Current \/ n = "by_hand" BY <1>0
  <2>3. CASE n = Current
    <3>1. box'[Current] = b /\ box'["by_hand"] = box["by_hand"] BY <1>0, <1>b, <2>3
    <3> QED BY <1>b, <2>3, <3>1, LoopKeeps
  <2>4. CASE n = "by_hand"
    <3>1. box'[Current] = box[Current] BY <1>0, <1>b, <2>4
    <3> QED BY <1>b, <2>1, <2>4, <3>1, LoopKeeps
  <2> QED BY <2>2, <2>3, <2>4
<1>1. ASSUME NEW d \in RunDirs, NEW q \in Requests, Launch(d, q) PROVE LoopGood
  BY <1>0, <1>1, <1>s DEF Launch, Spent
<1>2. CASE WriteFile \/ KillLauncher
  BY <1>2, <1>s DEF WriteFile, KillLauncher
<1>3. ASSUME NEW d \in RunDirs, Verify(d) PROVE LoopGood
  BY <1>3, <1>s DEF Verify
<1>4. ASSUME NEW d \in RunDirs, RunByHand(d) PROVE LoopGood
  <2>1. spent'.byHand /\ UNCHANGED <<files, writer, op, ladders>> BY <1>0, <1>4 DEF RunByHand, Spent
  <2>2. box'[Current] = box[Current] BY <1>0, <1>4 DEF RunByHand
  <2>3. OpInv' BY <2>1, <2>2 DEF OpInv
  <2> QED BY <1>0, <2>1, <2>3 DEF LoopGood, AloneInv, LadderMeasuresItsProfile
<1>5. ASSUME NEW d \in RunDirs, Begin(d) PROVE LoopGood
  <2>1. /\ op' = [NoOp EXCEPT !.at = "clear", !.dir = d] /\ Written(files[d]) /\ writer.dir # d
        /\ UNCHANGED <<files, writer, box, ladders, spent>>
    BY <1>5 DEF Begin
  <2>2. op' \in Op /\ op'.at = "clear" /\ op'.dir = d /\ op'.measured = {}
    BY <2>1 DEF NoOp, Op, Dirs, Asked
  <2>3. OpInv' BY <2>1, <2>2 DEF OpInv
  <2> QED BY <2>1, <2>2, <2>3 DEF LoopGood, AloneInv, LadderMeasuresItsProfile
<1>6. ASSUME NEW o \in Overlays, EditBundle(o) PROVE LoopGood
  <2>1. spent'.byHand = spent.byHand /\ UNCHANGED <<op, ladders>> BY <1>0, <1>6 DEF EditBundle, Spent
  <2>2. \A n \in Names : box'[n].at = box[n].at /\ box'[n].dir = box[n].dir /\ box'[n].of = box[n].of
    BY <1>0, <1>6 DEF EditBundle, Box
  <2>3. GoesOn(box[Current], box'[Current]) /\ box'["by_hand"].at = box["by_hand"].at
    BY <1>0, <2>2 DEF GoesOn
  <2> QED BY <2>1, <2>3, LoopKeeps
<1>7. ASSUME NEW o \in Overlays, Rehash(o) \/ LoseManifest(o) PROVE LoopGood
  BY <1>0, <1>7, <1>s DEF Rehash, LoseManifest, Spent
<1>8. ASSUME NEW n \in Names, CheckBundle(n) PROVE LoopGood
  <2> DEFINE b == [box[n] EXCEPT !.at = "copy"]
  <2>1. box[n].at = "check" /\ box' = [box EXCEPT ![n] = b] /\ UNCHANGED <<op, ladders, spent>>
    BY <1>8 DEF CheckBundle, Container
  <2>2. b.at = "copy" /\ b.dir = box[n].dir BY <1>0 DEF Box
  <2> HIDE DEF b
  <2>3. GoesOn(box[n], b) BY <2>1, <2>2 DEF GoesOn, Starting
  <2> QED BY <1>b, <2>1, <2>3
<1>9. ASSUME NEW n \in Names, CopyTargets(n) PROVE LoopGood
  <2> DEFINE b == [box[n] EXCEPT !.at = "patch", !.fs = Installed(box[n].groups, box[n].overlay),
                     !.version = IF box[n].overlay = "none" THEN @ ELSE bundle[box[n].overlay].content]
  <2>1. box[n].at = "copy" /\ box' = [box EXCEPT ![n] = b] /\ UNCHANGED <<op, ladders, spent>>
    BY <1>9 DEF CopyTargets, Container
  <2>2. b.at = "patch" /\ b.dir = box[n].dir BY <1>0 DEF Box
  <2> HIDE DEF b
  <2>3. GoesOn(box[n], b) BY <2>1, <2>2 DEF GoesOn, Starting
  <2> QED BY <1>b, <2>1, <2>3
<1>10. ASSUME NEW n \in Names, ApplyPatches(n) PROVE LoopGood
  <2> DEFINE b == [box[n] EXCEPT !.at = "exec", !.patched = files[box[n].dir]["patches"].state = "ready"]
  <2>1. box[n].at = "patch" /\ box' = [box EXCEPT ![n] = b] /\ UNCHANGED <<op, ladders, spent>>
    BY <1>10 DEF ApplyPatches, Container
  <2>2. b.at = "exec" /\ b.dir = box[n].dir BY <1>0 DEF Box
  <2> HIDE DEF b
  <2>3. GoesOn(box[n], b) BY <2>1, <2>2 DEF GoesOn, Starting
  <2> QED BY <1>b, <2>1, <2>3
<1>11. ASSUME NEW n \in Names, ExecCommand(n) PROVE LoopGood
  <2> DEFINE command == files[box[n].dir]["command"]
             b == [box[n] EXCEPT !.at = "serve", !.dir = "none", !.groups = {}, !.of = command.of,
                                 !.load = IF command.state = "ready" THEN command.of.load ELSE "auto"]
  <2>1. box[n].at = "exec" /\ box' = [box EXCEPT ![n] = b] /\ UNCHANGED <<op, ladders, spent>>
    BY <1>11 DEF ExecCommand, Container
  <2>2. b.at = "serve" /\ b.of = command.of BY <1>0 DEF Box
  <2> HIDE DEF b
  <2>3. GoesOn(box[n], b) BY <2>1, <2>2 DEF GoesOn, Starting
  <2> QED BY <1>b, <2>1, <2>3
<1>12. ASSUME NEW n \in Names, Exit(n) PROVE LoopGood
  <2> DEFINE b == [NoBox EXCEPT !.at = "exited"]
  <2>1. GoesOn(box[n], b) BY NoneType DEF GoesOn
  <2>2. box[n].at # "none" BY <1>12 DEF Exit, Starting
  <2> QED BY <1>12, <1>b, <2>1, <2>2 DEF Exit, Exited
<1>13. CASE Die
  <2>1. op' = NoOp /\ NoOp.at = "idle" /\ NoOp.measured = {} /\ UNCHANGED <<box, ladders, spent>>
    BY <1>13 DEF Die, NoOp
  <2>2. OpInv' BY <2>1 DEF OpInv
  <2> QED BY <2>1, <2>2, NoneType DEF LoopGood, AloneInv, LadderMeasuresItsProfile
<1>14. CASE StopAndRemove
  <2>1. UNCHANGED <<files, writer, ladders, spent>> /\ box'["by_hand"] = box["by_hand"]
    BY <1>0, <1>14 DEF StopAndRemove, Exited
  <2>2. op.at \in {"clear", "replace", "done"} BY <1>14 DEF StopAndRemove
  <2>3. CASE op.at = "done"
    <3>1. op' = NoOp /\ NoOp.at = "idle" /\ NoOp.measured = {} BY <1>14, <2>3 DEF StopAndRemove, NoOp
    <3>2. OpInv' BY <3>1 DEF OpInv
    <3> QED BY <2>1, <3>1, <3>2, NoneType DEF LoopGood, AloneInv, LadderMeasuresItsProfile
  <2>4. CASE op.at # "done"
    <3>1. op' \in Op /\ op'.at \in {"replace", "run"} /\ op'.dir = op.dir /\ op'.measured = op.measured
      BY <1>0, <1>14, <2>2, <2>4 DEF StopAndRemove, After, Op
    <3>2. OpInv' BY <2>1, <2>2, <2>4, <3>1 DEF OpInv
    <3> QED BY <2>1, <3>1, <3>2 DEF LoopGood, AloneInv, LadderMeasuresItsProfile
  <2> QED BY <2>3, <2>4
<1>15. CASE DockerRun
  <2>1. /\ UNCHANGED <<files, writer, ladders>> /\ spent'.byHand = spent.byHand /\ op.at = "run"
        /\ box'["by_hand"] = box["by_hand"] /\ box'[Current] = Started(op.dir) /\ CanRun(op.dir)
    BY <1>0, <1>15 DEF DockerRun, Spent
  <2>2. CASE Started(op.dir).at = "check"
    <3>1. op' \in Op /\ op'.at = "wait" /\ op'.dir = op.dir /\ op'.measured = op.measured
      BY <1>0, <1>15, <2>2 DEF DockerRun, Op
    <3>2. Started(op.dir).dir = op.dir
      BY <2>1, <2>2, StartedType DEF OpInv, DirectoryInv
    <3>3. OpInv' BY <2>1, <2>2, <3>1, <3>2 DEF OpInv
    <3> QED BY <2>1, <3>1, <3>3 DEF LoopGood, AloneInv, LadderMeasuresItsProfile
  <2>3. CASE Started(op.dir).at # "check"
    <3>1. op' = NoOp /\ NoOp.at = "idle" /\ NoOp.measured = {} BY <1>15, <2>3 DEF DockerRun, NoOp
    <3>2. OpInv' BY <3>1 DEF OpInv
    <3> QED BY <2>1, <3>1, <3>2, NoneType DEF LoopGood, AloneInv, LadderMeasuresItsProfile
  <2> QED BY <2>2, <2>3
<1>16. CASE ServerAnswers
  <2> DEFINE q == files[op.dir]["env"].of
  <2>1. /\ op.at = "wait" /\ op' = [op EXCEPT !.at = "strict", !.of = q]
        /\ UNCHANGED <<files, writer, box, ladders, spent>> /\ op.dir \in RunDirs
    BY <1>16 DEF ServerAnswers, OpInv
  <2>2. q \in Asked
    <3>1. "env" \in Files BY StepsType
    <3> QED BY <2>1, <3>1 DEF LTypeOK, File
  <2> HIDE DEF q
  <2>3. op' \in Op /\ op'.at = "strict" /\ op'.dir = op.dir /\ op'.of = q /\ op'.measured = op.measured
    BY <1>0, <2>1, <2>2 DEF Op
  <2>4. OpInv' BY <2>1, <2>3 DEF OpInv, q
  <2> QED BY <2>1, <2>3, <2>4 DEF LoopGood, AloneInv, LadderMeasuresItsProfile
<1>17. CASE Capture
  <2>1. PICK n \in Serving : Capture!2!(n) BY <1>17 DEF Capture
  <2> DEFINE measured == op.measured \cup {box[n].of}
             at == IF op.at = "strict" THEN "long" ELSE "done"
  <2>2. /\ UNCHANGED <<files, writer, box, spent>> /\ op.at \in {"strict", "long"} /\ n \in Names
        /\ box[n].at = "serve" /\ box[n].of.served = op.of.served
        /\ op' = [op EXCEPT !.measured = measured, !.at = at]
    BY <1>17, <2>1 DEF Capture, Serving
  <2>3. ASSUME ~ spent.byHand PROVE box[n].of.name = op.of.name
    <3>1. n = Current BY <1>0, <2>2, <2>3 DEF AloneInv
    <3>2. /\ box[n].of = files[op.dir]["command"].of /\ op.of = files[op.dir]["env"].of
          /\ Written(files[op.dir])
      BY <2>2, <3>1 DEF OpInv
    <3>3. "command" \in Files /\ "env" \in Files BY StepsType
    <3> QED BY <3>2, <3>3 DEF Written
  <2>4. \A q \in measured : q.served = op.of.served /\ (~ spent.byHand => q.name = op.of.name)
    BY <2>2, <2>3 DEF OpInv
  <2>5. box[n].of \in Asked BY <1>0, <2>2 DEF Box
  <2>l. ladders' = ladders \/
          ladders' = ladders \cup {[of |-> op.of, measured |-> measured, alone |-> ~ spent.byHand]}
    BY <2>1
  <2>6. op' \in Op /\ op'.at = at /\ op'.dir = op.dir /\ op'.of = op.of /\ op'.measured = measured
    BY <1>0, <2>2, <2>5 DEF Op
  <2> HIDE DEF measured
  <2>7. OpInv' BY <2>2, <2>4, <2>6 DEF OpInv
  <2>8. LadderMeasuresItsProfile'
    <3> DEFINE new == [of |-> op.of, measured |-> measured, alone |-> ~ spent.byHand]
    <3>1. new.of = op.of /\ new.measured = measured /\ (new.alone => ~ spent.byHand)
      OBVIOUS
    <3>2. ladders' = ladders \/ ladders' = ladders \cup {new} BY <2>l
    <3> HIDE DEF new
    <3>3. \A q \in new.measured : q.served = new.of.served /\ (new.alone => q.name = new.of.name)
      BY <2>4, <3>1
    <3> QED BY <3>2, <3>3 DEF LadderMeasuresItsProfile
  <2> QED BY <2>2, <2>6, <2>7, <2>8 DEF LoopGood, AloneInv
<1>18. CASE UNCHANGED launchVars
  BY <1>18, <1>s DEF launchVars
<1> QED BY <1>1, <1>2, <1>3, <1>4, <1>5, <1>6, <1>7, <1>8, <1>9, <1>10, <1>11, <1>12, <1>13, <1>14, <1>15,
           <1>16, <1>17, <1>18
        DEF LaunchNext

LEMMA LaunchInvariant == LaunchSpec => []LInv
<1>1. LInv /\ [LaunchNext]_launchVars => LInv'
  <2> SUFFICES ASSUME LInv, [LaunchNext]_launchVars PROVE LInv' OBVIOUS
  <2>1. DirectoryInv' /\ files' \in [RunDirs -> [Files -> File]] /\ writer' \in Writer /\ verified' \subseteq RunDirs
    BY NextDirectories DEF LInv
  <2>2. BoxesGood BY NextBoxes DEF LInv
  <2>3. LoopGood BY NextLoop DEF LInv
  <2>4. LTypeOK' BY <2>1, <2>2, <2>3 DEF LTypeOK, BoxesGood, LoopGood
  <2>5. (BoxInv /\ EnginesFitTheirModel)'
    <3>1. \A n \in Names : Sound(box'[n], files', writer'.dir, bundle', spent'.rehashed)
      BY <2>2 DEF BoxesGood, Good
    <3>2. \A n \in Names : box'[n].at = "serve" /\ box'[n].whole => FitsModel(box'[n], spent'.rehashed)
      BY <2>2 DEF BoxesGood, Good
    <3> QED BY <3>1, <3>2 DEF BoxInv, EnginesFitTheirModel, Serving, FitsModel
  <2> QED BY <2>1, <2>2, <2>3, <2>4, <2>5 DEF LInv, BoxesGood, LoopGood
<1> QED BY <1>1, InitL, PTL DEF LaunchSpec

(* vnext_repro_launcher.sh, verify_vnext_launch_artifact.sh and the entrypoint    *)
(* together: whatever requests there are, however many launchers wrote to a     *)
(* directory or were killed there, and whatever is done to the bundles, an      *)
(* engine from a directory that passed has nothing of another format or family. *)
(* What its model needs it has if effective_config.env and                     *)
(* deploy_compat_patches.py were complete: the verifier does not see to that.  *)
THEOREM EnginesFit == LaunchSpec => []EnginesFitTheirModel
<1>1. LInv => EnginesFitTheirModel BY DEF LInv
<1> QED BY <1>1, LaunchInvariant, PTL

(* The loop of verify_vnext_release_readiness.sh: each finished ladder has        *)
(* measured the engine of its own profile, although docker stop and rm may      *)
(* fail in silence.                                                           *)
THEOREM LaddersMeasureTheirProfile == LaunchSpec => []LadderMeasuresItsProfile
<1>1. LInv => LadderMeasuresItsProfile BY DEF LInv
<1> QED BY <1>1, LaunchInvariant, PTL
=============================================================================
