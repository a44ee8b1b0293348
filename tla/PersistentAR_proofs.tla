------------------------ MODULE PersistentAR_proofs ------------------------
(***************************************************************************)
(* With STRICT, ranks that fail independently still agree on the transport *)
(* of every collective, and between calls on their whole state, for any    *)
(* number of ranks, any routes, model, hooks and failures.                 *)
(*                                                                         *)
(* The argument: a step of a rank is a function of its state, of the step  *)
(* and of what fails (Apply).  When strict, a failure either changes       *)
(* nothing or ends in a raise (StrictApply); so the states a rank goes     *)
(* through before it raises are the ones without failures, and all ranks   *)
(* start a call from the same state.                                       *)
(***************************************************************************)
EXTENDS PersistentAR, SequenceTheorems, TLAPS

(* A rank's state, with a handle behind every started worker. *)
Good == {c \in Core : c.started \subseteq c.handles}

(* A step the ranks can perform: an all-reduce step names a call. *)
Legal == {s \in Step : s.op \in {"run", "record"} => s.call \in 1..Len(Model)}

-----------------------------------------------------------------------------
(* Every operation of a rank yields a rank state.                          *)

LEMMA TraceTypes ==
  /\ <<>> \in Trace
  /\ \A t \in Transports : <<t>> \in Trace
  /\ \A p, q \in Trace : p \o q \in Trace
<1>1. <<>> \in Trace
  BY EmptySeq DEF Trace
<1>2. ASSUME NEW t \in Transports
      PROVE  <<t>> \in Trace
  BY DEF Trace
<1>3. ASSUME NEW p \in Trace, NEW q \in Trace
      PROVE  p \o q \in Trace
  BY <1>3, ConcatProperties DEF Trace
<1> QED BY <1>1, <1>2, <1>3

LEMMA LeaveGood ==
  ASSUME NEW c \in Good, NEW w \in Scopes
  PROVE  Leave(w, c) \in Good
<1>1. c.saved[w] \in Saved
  BY DEF Good, Core, SavedByScope
<1> QED BY <1>1 DEF Leave, Good, Core, Saved

LEMMA QuietGood ==
  ASSUME NEW c \in Good
  PROVE  Quiet(c) \in Good
BY TraceTypes DEF Quiet, Good, Core

LEMMA RaiseGood ==
  ASSUME NEW c \in Good
  PROVE  Raise(c) \in Good /\ Raise(c).status = "raised"
<1>1. Leave("capture", c) \in Good
  BY LeaveGood DEF Scopes
<1>2. Leave("profile", Leave("capture", c)) \in Good
  BY <1>1, LeaveGood DEF Scopes
<1>3. Quiet(Leave("profile", Leave("capture", c))) \in Good
  BY <1>2, QuietGood
<1> QED BY <1>3 DEF Raise, Good, Core

LEMMA IssueGood ==
  ASSUME NEW c \in Good, NEW t \in Transports
  PROVE  Issue(c, t) \in Good
BY TraceTypes DEF Issue, Good, Core

LEMMA HandleGood ==
  ASSUME NEW c \in Good, NEW L \in SUBSET Libs
  PROVE  [c EXCEPT !.handles = @ \cup L] \in Good
BY DEF Good, Core

LEMMA NumberedGood ==
  ASSUME NEW c \in Good
  PROVE  Numbered(c) \in Good
BY DEF Numbered, Good, Core

LEMMA MissGood ==
  ASSUME NEW c \in Good
  PROVE  Miss(c) \in Good
BY RaiseGood, IssueGood DEF Miss, Transports

LEMMA CountedGood ==
  ASSUME NEW c \in Good, NEW call \in CallRecord
  PROVE  Counted(c, call) \in Good
<1>1. CASE call.prefix = NoPrefix
  BY <1>1 DEF Counted
<1>2. CASE call.prefix # NoPrefix
  <2>1. call.prefix \in LayerPrefixes
    BY <1>2 DEF CallRecord
  <2>2. [c.occ EXCEPT ![call.prefix] = @ + 1] \in Occurrences
    BY <2>1 DEF Good, Core, Occurrences
  <2>3. Counted(c, call) = [c EXCEPT !.occ = [c.occ EXCEPT ![call.prefix] = @ + 1]]
    BY <1>2 DEF Counted, Good, Core
  <2> QED BY <2>2, <2>3 DEF Good, Core
<1> QED BY <1>1, <1>2

(* The library of a route is a configured one, or there is none. *)
LEMMA PathOfType ==
  ASSUME NEW kind \in Kinds
  PROVE  PathOf(kind) \in Libs \cup {NoLib}
BY DEF PathOf, Libs, Kinds

LEMMA LaunchGood ==
  ASSUME NEW c \in Good, NEW lib \in Libs, NEW f \in Fault
  PROVE  Launch(c, lib, f) \in Good
<1> DEFINE h == [c EXCEPT !.handles = @ \cup {lib}]
<1>1. h \in Good
  BY HandleGood
<1>2. Miss(h) \in Good
  BY <1>1, MissGood
<1>3. Issue(Numbered(h), lib) \in Good
  BY <1>1, NumberedGood, IssueGood DEF Transports
<1> QED BY <1>2, <1>3 DEF Launch

LEMMA SidecarGood ==
  ASSUME NEW c \in Good, NEW kind \in Kinds, NEW f \in Fault
  PROVE  Sidecar(c, kind, f) \in Good
<1> DEFINE lib == PathOf(kind)
<1>1. CASE Missing(c, lib, f)
  BY <1>1, MissGood DEF Sidecar
<1>2. CASE ~Missing(c, lib, f)
  <2>1. lib \in Libs
    BY <1>2, PathOfType DEF Missing
  <2>2. Issue([c EXCEPT !.handles = @ \cup {lib}], "public") \in Good
    BY <2>1, HandleGood, IssueGood DEF Transports
  <2>3. Launch(c, lib, f) \in Good
    BY <2>1, LaunchGood
  <2> QED BY <1>2, <2>2, <2>3 DEF Sidecar
<1> QED BY <1>1, <1>2

LEMMA AllReduceGood ==
  ASSUME NEW c \in Good, NEW call \in CallRecord, NEW fits \in BOOLEAN, NEW f \in Fault
  PROVE  AllReduce(c, call, fits, f) \in Good
<1>1. Issue(c, "public") \in Good
  BY IssueGood DEF Transports
<1>2. TryAddRms(c, call, f) \in Good
  <2> DEFINE lib == PathOf(call.kind)
  <2>1. call.kind \in Kinds
    BY DEF CallRecord
  <2>2. CASE Unavailable(c, TRUE) \/ Missing(c, lib, f) \/ f.launch
    BY <2>2, RaiseGood DEF TryAddRms
  <2>3. CASE ~(Unavailable(c, TRUE) \/ Missing(c, lib, f) \/ f.launch)
    <3>1. lib \in Libs
      BY <2>1, <2>3, PathOfType DEF Missing
    <3> QED BY <2>3, <3>1, HandleGood, IssueGood DEF TryAddRms, Transports
  <2> QED BY <2>2, <2>3
<1>3. TryAllReduceInplace(c, call, fits, f) \in Good
  <2>1. Counted(c, call) \in Good
    BY CountedGood
  <2>2. Issue(Numbered(Counted(c, call)), "public") \in Good
    BY <2>1, NumberedGood, IssueGood DEF Transports
  <2>3. CallsiteRouteKind(c, call) \in Kinds
    BY DEF CallsiteRouteKind, CallRecord, Kinds
  <2>4. Sidecar(Counted(c, call), CallsiteRouteKind(c, call), f) \in Good
    BY <2>1, <2>3, SidecarGood
  <2> QED BY <1>1, <2>2, <2>4 DEF TryAllReduceInplace
<1>4. call.op \in {"inplace", "fused", "public"}
  BY DEF CallRecord
<1> QED BY <1>1, <1>2, <1>3, <1>4 DEF AllReduce

LEMMA RecordGood ==
  ASSUME NEW c \in Good, NEW call \in CallRecord, NEW f \in Fault
  PROVE  Record(c, call, f) \in Good
<1> DEFINE d == AllReduce(c, call, TRUE, f)
<1>1. d \in Good
  BY AllReduceGood
<1>2. d.graph \o d.last \in Trace
  BY <1>1, TraceTypes DEF Good, Core
<1> QED BY <1>1, <1>2 DEF Record, Good, Core

LEMMA PreinitGood ==
  ASSUME NEW c \in Good, NEW f \in Fault
  PROVE  PreinitForGraphCapture(c, f) \in Good
<1> DEFINE wanted == {PathOf(k) : k \in ConfiguredRoutes}
           failed == {l \in wanted : Missing(c, l, f)}
<1>1. ConfiguredRoutes \subseteq Kinds
  BY DEF ConfiguredRoutes, Kinds
<1>2. wanted \ failed \subseteq Libs
  BY <1>1, PathOfType DEF Missing
<1>3. [c EXCEPT !.handles = @ \cup (wanted \ failed)] \in Good
  BY <1>2, HandleGood
<1> QED BY <1>3, RaiseGood DEF PreinitForGraphCapture

(* Opening a wrapper: what it saves is what is there. *)
LEMMA OpenGood ==
  ASSUME NEW c \in Good, NEW w \in Scopes, NEW v \in Saved
  PROVE  [c EXCEPT !.open = @ \cup {w}, !.saved[w] = v] \in Good
<1>1. [c.saved EXCEPT ![w] = v] \in SavedByScope
  BY DEF Good, Core, SavedByScope
<1>2. [c EXCEPT !.open = @ \cup {w}, !.saved[w] = v]
        = [c EXCEPT !.open = @ \cup {w}, !.saved = [c.saved EXCEPT ![w] = v]]
  BY DEF Good, Core
<1>3. [c EXCEPT !.open = @ \cup {w}, !.saved = [c.saved EXCEPT ![w] = v]] \in Good
  BY <1>1 DEF Good, Core
<1> QED BY <1>2, <1>3

(* The state graph_capture sets up before it creates handles. *)
LEMMA CountedContextGood ==
  ASSUME NEW c \in Good
  PROVE  [Quiet(c) EXCEPT !.inCap = TRUE, !.ar = @ /\ ~Skips(c),
                          !.contexts = IF c.ar THEN @ + 1 ELSE @] \in Good
<1> DEFINE a == Quiet(c).ar /\ ~Skips(c)
           n == IF c.ar THEN Quiet(c).contexts + 1 ELSE Quiet(c).contexts
<1>1. Quiet(c) \in Good
  BY QuietGood
<1>2. a \in BOOLEAN
  OBVIOUS
<1>3. n \in Nat
  BY <1>1 DEF Good, Core
<1> HIDE DEF a, n
<1>4. [Quiet(c) EXCEPT !.inCap = TRUE, !.ar = a, !.contexts = n] \in Good
  BY <1>1, <1>2, <1>3 DEF Good, Core
<1> QED BY <1>4 DEF a, n

LEMMA EnterCaptureGood ==
  ASSUME NEW c \in Good, NEW f \in Fault
  PROVE  EnterCapture(c, f) \in Good
<1> DEFINE skip    == Skips(c)
           counted == [Quiet(c) EXCEPT !.inCap = TRUE, !.ar = @ /\ ~skip,
                                       !.contexts = IF c.ar THEN @ + 1 ELSE @]
           ready   == IF counted.ar /\ Preinit
                      THEN PreinitForGraphCapture(counted, f) ELSE counted
<1>1. skip \in BOOLEAN
  BY DEF Skips
<1>2. counted \in Good
  BY CountedContextGood
<1>3. ready \in Good
  BY <1>2, PreinitGood
<1>4. [ar |-> c.ar, inCap |-> c.inCap, restoreAr |-> skip] \in Saved
  BY <1>1 DEF Good, Core, Saved
<1>5. "capture" \in Scopes
  BY DEF Scopes
<1>6. [ready EXCEPT !.open = @ \cup {"capture"},
         !.saved["capture"] = [ar |-> c.ar, inCap |-> c.inCap, restoreAr |-> skip]]
        \in Good
  BY <1>3, <1>4, <1>5, OpenGood
<1> HIDE DEF skip, counted, ready
<1>7. EnterCapture(c, f) =
        IF ready.status = "raised" THEN ready
        ELSE [ready EXCEPT !.open = @ \cup {"capture"},
                !.saved["capture"] =
                   [ar |-> c.ar, inCap |-> c.inCap, restoreAr |-> skip]]
  BY Zenon DEF EnterCapture, skip, counted, ready
<1> QED BY <1>3, <1>6, <1>7

LEMMA EnterProfileGood ==
  ASSUME NEW c \in Good
  PROVE  EnterProfile(c) \in Good
<1> DEFINE v == [ar |-> c.ar, inCap |-> c.inCap, restoreAr |-> TRUE]
           d == [Quiet(c) EXCEPT !.ar = FALSE, !.inCap = FALSE]
<1>1. v \in Saved
  BY DEF Good, Core, Saved
<1>2. Quiet(c) \in Good
  BY QuietGood
<1>3. d \in Good
  BY <1>2 DEF Good, Core
<1>4. "profile" \in Scopes
  BY DEF Scopes
<1>5. [d EXCEPT !.open = @ \cup {"profile"}, !.saved["profile"] = v] \in Good
  BY <1>1, <1>3, <1>4, OpenGood
<1>6. EnterProfile(c) = [d EXCEPT !.open = @ \cup {"profile"}, !.saved["profile"] = v]
  BY <1>2 DEF EnterProfile, Good, Core
<1> QED BY <1>5, <1>6

LEMMA StartGood ==
  ASSUME NEW c \in Good, NEW f \in Fault
  PROVE  StartDeferredWorkers(c, f) \in Good
<1> DEFINE todo == c.handles \ c.started
<1>1. [c EXCEPT !.started = @ \cup (todo \ f.start)] \in Good
  BY DEF Good, Core
<1> QED BY <1>1, RaiseGood DEF StartDeferredWorkers

LEMMA EndExecuteGood ==
  ASSUME NEW c \in Good, NEW real \in BOOLEAN, NEW f \in Fault
  PROVE  EndExecute(c, real, f) \in Good
<1> DEFINE d == StartDeferredWorkers(c, f)
<1>1. d \in Good
  BY StartGood
<1>2. [d EXCEPT !.armed = TRUE] \in Good
  BY <1>1 DEF Good, Core
<1> QED BY <1>1, <1>2 DEF EndExecute

LEMMA ApplyGood ==
  ASSUME NEW c \in Good, NEW s \in Legal, NEW f \in Fault
  PROVE  Apply(c, s, f) \in Good
<1>1. Quiet(c) \in Good
  BY QuietGood
<1>2. s \in Step /\ s.flag \in BOOLEAN
  BY DEF Legal, Step
<1>3. CASE s.op \in {"run", "record"}
  <2>1. Model[s.call] \in CallRecord
    <3>1. s.call \in 1..Len(Model)
      BY <1>3 DEF Legal
    <3> QED BY <3>1, ARAssumption, ElementOfSeq
  <2> QED BY <1>2, <1>3, <2>1, AllReduceGood, RecordGood DEF Apply
<1>4. CASE s.op = "replay"
  BY <1>4 DEF Apply, Good, Core
<1>5. CASE s.op = "enterProfile"
  BY <1>5, EnterProfileGood DEF Apply
<1>6. CASE s.op = "enterCapture"
  BY <1>6, EnterCaptureGood DEF Apply
<1>7. CASE s.op \in {"exitCapture", "exitProfile"}
  BY <1>1, <1>7, LeaveGood DEF Apply, Scopes
<1>8. CASE s.op = "clearGraphs"
  <2>1. [Quiet(c) EXCEPT !.graph = <<>>] \in Good
    BY <1>1, TraceTypes DEF Good, Core
  <2> QED BY <1>8, <2>1 DEF Apply
<1>9. CASE s.op = "afterCapture"
  BY <1>1, <1>9, StartGood DEF Apply
<1>10. CASE s.op = "endExecute"
  BY <1>1, <1>2, <1>10, EndExecuteGood DEF Apply
<1> QED BY <1>2, <1>3, <1>4, <1>5, <1>6, <1>7, <1>8, <1>9, <1>10 DEF Step

-----------------------------------------------------------------------------
(* When strict, what fails on a rank either changes nothing or raises.     *)

LEMMA StrictAllReduce ==
  ASSUME Strict, NEW c \in Good, NEW call \in CallRecord, NEW fits \in BOOLEAN,
         NEW f \in Fault
  PROVE  \/ AllReduce(c, call, fits, f) = AllReduce(c, call, fits, NoFault)
         \/ AllReduce(c, call, fits, f).status = "raised"
<1>1. ASSUME NEW d \in Good, NEW lib
      PROVE  Miss(d).status = "raised" /\ Launch(d, lib, f) \in {Launch(d, lib, NoFault),
                                               Miss([d EXCEPT !.handles = @ \cup {lib}])}
  BY RaiseGood DEF Miss, Launch, NoFault
<1>2. ASSUME NEW d \in Good, NEW kind \in Kinds
      PROVE  \/ Sidecar(d, kind, f) = Sidecar(d, kind, NoFault)
             \/ Sidecar(d, kind, f).status = "raised"
  <2> DEFINE lib == PathOf(kind)
  <2>1. CASE Missing(d, lib, f)
    BY <1>1, <2>1 DEF Sidecar
  <2>2. CASE ~Missing(d, lib, f)
    <3>1. ~Missing(d, lib, NoFault)
      BY <2>2 DEF Missing, NoFault
    <3>2. lib \in Libs
      BY <2>2, PathOfType DEF Missing
    <3>3. Miss([d EXCEPT !.handles = @ \cup {lib}]).status = "raised"
      BY <1>1, <3>2, HandleGood
    <3>4. \/ Launch(d, lib, f) = Launch(d, lib, NoFault)
          \/ Launch(d, lib, f).status = "raised"
      BY <1>1, <3>3
    <3> QED BY <2>2, <3>1, <3>4 DEF Sidecar
  <2> QED BY <2>1, <2>2
<1>3. CASE call.op = "public"
  BY <1>3 DEF AllReduce
<1>4. CASE call.op = "fused"
  <2>1. TryAddRms(c, call, f) \in {TryAddRms(c, call, NoFault), Raise(c)}
    BY DEF TryAddRms, Missing, NoFault
  <2> QED BY <1>4, <2>1, RaiseGood DEF AllReduce
<1>5. CASE call.op = "inplace"
  <2>1. Counted(c, call) \in Good
    BY CountedGood
  <2>2. CallsiteRouteKind(c, call) \in Kinds
    BY DEF CallsiteRouteKind, CallRecord, Kinds
  <2> QED BY <1>2, <1>5, <2>1, <2>2 DEF AllReduce, TryAllReduceInplace
<1> QED BY <1>3, <1>4, <1>5 DEF CallRecord

LEMMA StrictPreinit ==
  ASSUME Strict, NEW c \in Good, NEW f \in Fault
  PROVE  \/ PreinitForGraphCapture(c, f) = PreinitForGraphCapture(c, NoFault)
         \/ PreinitForGraphCapture(c, f).status = "raised"
<1> DEFINE wanted    == {PathOf(k) : k \in ConfiguredRoutes}
           failed(g) == {l \in wanted : Missing(c, l, g)}
<1>1. failed(NoFault) \subseteq failed(f)
  BY DEF Missing, NoFault
<1>2. CASE failed(f) # {}
  BY <1>2, RaiseGood DEF PreinitForGraphCapture
<1>3. CASE failed(f) = {}
  <2>1. failed(NoFault) = failed(f)
    BY <1>1, <1>3
  <2> QED BY <2>1 DEF PreinitForGraphCapture
<1> QED BY <1>2, <1>3

LEMMA StrictStart ==
  ASSUME Strict, NEW c \in Good, NEW f \in Fault
  PROVE  \/ StartDeferredWorkers(c, f) = StartDeferredWorkers(c, NoFault)
         \/ StartDeferredWorkers(c, f).status = "raised"
<1> DEFINE todo == c.handles \ c.started
<1>1. CASE todo \cap f.start # {}
  BY <1>1, RaiseGood DEF StartDeferredWorkers
<1>2. CASE todo \cap f.start = {}
  <2>1. todo \ f.start = todo \ NoFault.start /\ todo \cap NoFault.start = {}
    BY <1>2 DEF NoFault
  <2> QED BY <1>2, <2>1 DEF StartDeferredWorkers
<1> QED BY <1>1, <1>2

LEMMA NoFaultType == NoFault \in Fault
BY DEF NoFault, Fault

LEMMA StrictApply ==
  ASSUME Strict, NEW c \in Good, NEW s \in Legal, NEW f \in Fault
  PROVE  Apply(c, s, f) = Apply(c, s, NoFault) \/ Apply(c, s, f).status = "raised"
<1>1. Quiet(c) \in Good
  BY QuietGood
<1>2. s \in Step /\ s.flag \in BOOLEAN
  BY DEF Legal, Step
<1>3. ASSUME s.op \in {"run", "record"}
      PROVE  Model[s.call] \in CallRecord
  <2>1. s.call \in 1..Len(Model)
    BY <1>3 DEF Legal
  <2> QED BY <2>1, ARAssumption, ElementOfSeq
<1>4. CASE s.op = "run"
  BY <1>2, <1>3, <1>4, StrictAllReduce DEF Apply
<1>5. CASE s.op = "record"
  <2> DEFINE call == Model[s.call]
             d    == AllReduce(c, call, TRUE, f)
  <2>1. call \in CallRecord
    BY <1>3, <1>5
  <2>2. d \in Good
    BY <2>1, AllReduceGood
  <2>3. [d EXCEPT !.graph = @ \o d.last].status = d.status
    BY <2>2 DEF Good, Core
  <2>4. d = AllReduce(c, call, TRUE, NoFault) \/ d.status = "raised"
    BY <2>1, StrictAllReduce
  <2> QED BY <1>5, <2>3, <2>4 DEF Apply, Record
<1>6. CASE s.op = "enterCapture"
  <2> DEFINE counted == [Quiet(c) EXCEPT !.inCap = TRUE, !.ar = @ /\ ~Skips(c),
                                         !.contexts = IF c.ar THEN @ + 1 ELSE @]
             ready(g) == IF counted.ar /\ Preinit
                         THEN PreinitForGraphCapture(counted, g) ELSE counted
  <2>1. counted \in Good
    BY CountedContextGood
  <2>2. ready(f) = ready(NoFault) \/ ready(f).status = "raised"
    BY <2>1, StrictPreinit
  <2> DEFINE opened(d) == IF d.status = "raised" THEN d
                          ELSE [d EXCEPT !.open = @ \cup {"capture"},
                                  !.saved["capture"] = [ar |-> c.ar, inCap |-> c.inCap,
                                                        restoreAr |-> Skips(c)]]
  <2>3. \A g : EnterCapture(c, g) = opened(ready(g))
    BY Zenon DEF EnterCapture
  <2>4. opened(ready(f)) = opened(ready(NoFault)) \/ opened(ready(f)).status = "raised"
    <3> HIDE DEF ready
    <3> QED BY <2>2
  <2>5. EnterCapture(c, f) = EnterCapture(c, NoFault)
        \/ EnterCapture(c, f).status = "raised"
    <3> HIDE DEF opened, ready
    <3> QED BY <2>3, <2>4
  <2> QED BY <1>6, <2>5 DEF Apply
<1>7. CASE s.op = "afterCapture"
  BY <1>1, <1>7, StrictStart DEF Apply
<1>8. CASE s.op = "endExecute"
  BY <1>1, <1>8, StrictStart DEF Apply, EndExecute
<1>9. CASE s.op \in {"replay", "enterProfile", "exitCapture", "clearGraphs", "exitProfile"}
  BY <1>9 DEF Apply
<1> QED BY <1>2, <1>4, <1>5, <1>6, <1>7, <1>8, <1>9 DEF Step

-----------------------------------------------------------------------------
(* The engine's calls consist of legal steps.                              *)

LEMMA DoLegal ==
  ASSUME NEW op \in {"replay", "enterProfile", "enterCapture", "exitCapture",
                     "clearGraphs", "exitProfile", "afterCapture", "endExecute"}
  PROVE  Do(op) \in Seq(Legal)
<1>1. [op |-> op, call |-> 0, flag |-> FALSE] \in Legal
  BY DEF Legal, Step
<1> QED BY <1>1 DEF Do

LEMMA BodyLegal ==
  ASSUME NEW op \in {"run", "record"}, NEW fits \in BOOLEAN
  PROVE  Body(op, fits) \in Seq(Legal)
<1>1. Len(Model) \in Nat
  BY ARAssumption, LenProperties
<1>2. \A i \in 1..Len(Model) : [op |-> op, call |-> i, flag |-> fits] \in Legal
  BY <1>1 DEF Legal, Step
<1> QED BY <1>1, <1>2 DEF Body

LEMMA WarmupLegal == WarmupAndCapture \in Seq(Legal)
<1> DEFINE L == Len(Model)
           n == Warmups * L
           m(i) == ((i - 1) % L) + 1
<1>1. L \in Nat /\ Warmups \in Nat
  BY ARAssumption, LenProperties
<1>2. n \in Nat
  BY <1>1
<1>3. ASSUME NEW i \in 1..n
      PROVE  m(i) \in 1..L
  <2>1. L # 0
    BY <1>1, <1>3
  <2>2. i - 1 \in Nat
    BY <1>2, <1>3
  <2>3. (i - 1) % L \in 0..(L - 1)
    <3> HIDE DEF L, n
    <3> QED BY <1>1, <2>1, <2>2
  <2> HIDE DEF L, n
  <2> QED BY <1>1, <2>3
<1>4. \A i \in 1..n : [op |-> "run", call |-> m(i), flag |-> TRUE] \in Legal
  BY <1>1, <1>3 DEF Legal, Step
<1>5. [i \in 1..n |-> [op |-> "run", call |-> m(i), flag |-> TRUE]] \in Seq(Legal)
  <2> HIDE DEF n, m
  <2> QED BY <1>2, <1>4
<1>6. Body("record", TRUE) \in Seq(Legal)
  BY BodyLegal
<1> QED BY <1>5, <1>6, ConcatProperties DEF WarmupAndCapture

LEMMA CallsLegal ==
  /\ ProfileCudagraphMemory \in Seq(Legal)
  /\ CaptureModel \in Seq(Legal)
  /\ \A fits, real \in BOOLEAN : ExecuteEager(fits, real) \in Seq(Legal)
  /\ ExecuteReplay \in Seq(Legal)
<1>1. \A p, q \in Seq(Legal) : p \o q \in Seq(Legal)
  BY ConcatProperties
<1>2. CaptureContext \in Seq(Legal)
  <2>1. Do("enterCapture") \in Seq(Legal) /\ Do("exitCapture") \in Seq(Legal)
    BY DoLegal
  <2>2. <<>> \in Seq(Legal)
    BY EmptySeq
  <2> QED BY <1>1, <2>1, <2>2, WarmupLegal DEF CaptureContext
<1>3. ProfileCudagraphMemory \in Seq(Legal)
  <2>1. /\ Do("enterProfile") \in Seq(Legal) /\ Do("clearGraphs") \in Seq(Legal)
        /\ Do("exitProfile") \in Seq(Legal)
    BY DoLegal
  <2> QED BY <1>1, <1>2, <2>1 DEF ProfileCudagraphMemory
<1>4. CaptureModel \in Seq(Legal)
  <2>1. Do("afterCapture") \in Seq(Legal)
    BY DoLegal
  <2> QED BY <1>1, <1>2, <2>1 DEF CaptureModel
<1>5. ASSUME NEW fits \in BOOLEAN, NEW real \in BOOLEAN
      PROVE  ExecuteEager(fits, real) \in Seq(Legal)
  <2>1. [op |-> "endExecute", call |-> 0, flag |-> real] \in Legal
    BY DEF Legal, Step
  <2>2. <<[op |-> "endExecute", call |-> 0, flag |-> real]>> \in Seq(Legal)
    BY <2>1
  <2>3. Body("run", fits) \in Seq(Legal)
    BY BodyLegal
  <2> QED BY <1>1, <2>2, <2>3 DEF ExecuteEager
<1>6. ExecuteReplay \in Seq(Legal)
  <2>1. Do("replay") \in Seq(Legal) /\ Do("endExecute") \in Seq(Legal)
    BY DoLegal
  <2> QED BY <1>1, <2>1 DEF ExecuteReplay
<1> QED BY <1>3, <1>4, <1>5, <1>6

-----------------------------------------------------------------------------
(* The inductive invariant: types, what one step of a rank's past is, and  *)
(* that two ranks which have not raised went through the same states.      *)

PastInv ==
  /\ past \in [Ranks -> Seq(Good)]
  /\ rpc \in Seq(Legal)
  /\ \A r \in Ranks : Len(past[r]) \in 1..(Len(rpc) + 1)

CountInv ==
  /\ phase \in {"boot", "profiled", "measured", "captured", "serving"}
  /\ executes \in 0..MaxExecutes
  /\ faults \in 0..MaxFaults

(* Every step but the last ended well; when strict, a step that ended well *)
(* is the step without failures.                                           *)
StepInv ==
  Strict => \A r \in Ranks : \A i \in 1..(Len(past[r]) - 1) :
    /\ past[r][i].status = "ok"
    /\ \/ past[r][i + 1] = Apply(past[r][i], rpc[i], NoFault)
       \/ past[r][i + 1].status = "raised"

AgreeInv ==
  Strict => \A r, s \in Ranks : \A i \in (1..Len(past[r])) \cap (1..Len(past[s])) :
    past[r][i].status = "ok" /\ past[s][i].status = "ok" => past[r][i] = past[s][i]

IInv == PastInv /\ CountInv /\ StepInv /\ AgreeInv

LEMMA Core0Good == Core0 \in Good
<1>1. [w \in Scopes |-> [ar |-> FALSE, inCap |-> FALSE, restoreAr |-> FALSE]] \in SavedByScope
  BY DEF SavedByScope, Saved
<1>2. [p \in LayerPrefixes |-> 0] \in Occurrences
  BY DEF Occurrences
<1> QED BY <1>1, <1>2, TraceTypes DEF Core0, Good, Core

LEMMA InitIInv == Init => IInv
<1> SUFFICES ASSUME Init PROVE IInv
  OBVIOUS
<1>1. PastInv
  <2>1. <<Core0>> \in Seq(Good)
    BY Core0Good
  <2>2. <<>> \in Seq(Legal) /\ Len(<<>>) = 0
    BY EmptySeq
  <2> QED BY <2>1, <2>2 DEF Init, PastInv
<1>2. CountInv
  BY ARAssumption DEF Init, CountInv
<1>3. StepInv /\ AgreeInv
  BY DEF Init, StepInv, AgreeInv
<1> QED BY <1>1, <1>2, <1>3 DEF IInv

(* Where all have finished, all are in the same state. *)
LEMMA QuiescentAlike ==
  ASSUME PastInv, AgreeInv, Strict, Quiescent, NEW r \in Ranks, NEW s \in Ranks
  PROVE  Cur(r) = Cur(s)
<1>1. Len(past[r]) = Len(rpc) + 1 /\ Len(past[s]) = Len(rpc) + 1
  BY DEF Quiescent, Done
<1>2. Len(rpc) + 1 \in (1..Len(past[r])) \cap (1..Len(past[s]))
  BY <1>1, LenProperties DEF PastInv
<1> QED BY <1>1, <1>2 DEF AgreeInv, Quiescent, Done, Cur

LEMMA CurGood ==
  ASSUME PastInv, NEW r \in Ranks
  PROVE  Cur(r) \in Good
BY ElementOfSeq DEF PastInv, Cur

LEMMA DispatchIInv ==
  ASSUME IInv, NEW steps \in Seq(Legal), NEW next, Dispatch(steps, next)
  PROVE  PastInv' /\ StepInv' /\ AgreeInv'
<1>1. PastInv'
  <2>1. Len(steps) \in Nat
    BY LenProperties
  <2>2. \A r \in Ranks : <<Cur(r)>> \in Seq(Good) /\ Len(<<Cur(r)>>) = 1
    BY CurGood DEF IInv
  <2>3. past' = [r \in Ranks |-> <<Cur(r)>>] /\ rpc' = steps
    BY DEF Dispatch
  <2> QED BY <2>1, <2>2, <2>3 DEF PastInv
<1>2. StepInv'
  BY DEF Dispatch, StepInv
<1>3. AgreeInv'
  BY QuiescentAlike DEF Dispatch, AgreeInv, IInv
<1> QED BY <1>1, <1>2, <1>3

LEMMA RankStepIInv ==
  ASSUME IInv, NEW r \in Ranks, RankStep(r)
  PROVE  IInv'
<1> DEFINE n == Len(past[r])
           step == rpc[n]
<1>1. PICK f \in Fault :
         LET next == Apply(Cur(r), step, f)
             hurt == next # Apply(Cur(r), step, NoFault)
         IN  /\ hurt => faults < MaxFaults
             /\ past' = [past EXCEPT ![r] = Append(@, next)]
             /\ faults' = IF hurt THEN faults + 1 ELSE faults
  BY DEF RankStep
<1> DEFINE next == Apply(Cur(r), step, f)
<1>2. /\ past[r] \in Seq(Good) /\ n \in 1..Len(rpc)
      /\ Len(rpc) \in Nat /\ step \in Legal
  <2>1. past[r] \in Seq(Good) /\ rpc \in Seq(Legal) /\ n \in 1..(Len(rpc) + 1)
    BY DEF IInv, PastInv
  <2>2. n <= Len(rpc)
    BY DEF RankStep
  <2>3. Len(rpc) \in Nat
    BY <2>1, LenProperties
  <2>4. n \in 1..Len(rpc)
    BY <2>1, <2>2, <2>3
  <2> QED BY <2>1, <2>3, <2>4, ElementOfSeq
<1>3. next \in Good
  BY <1>2, CurGood, ApplyGood DEF IInv
<1>4. /\ past' = [past EXCEPT ![r] = Append(@, next)]
      /\ UNCHANGED <<rpc, phase, executes>>
      /\ Cur(r) = past[r][n] /\ Cur(r).status = "ok"
  BY <1>1 DEF RankStep, Cur
<1>5. /\ past'[r] = Append(past[r], next)
      /\ \A s \in Ranks \ {r} : past'[s] = past[s]
  BY <1>4 DEF IInv, PastInv
<1>6. /\ Append(past[r], next) \in Seq(Good)
      /\ Len(past'[r]) = n + 1
      /\ \A i \in 1..n : past'[r][i] = past[r][i]
      /\ past'[r][n + 1] = next
  BY <1>2, <1>3, <1>5, AppendProperties
<1> HIDE DEF step, next
<1>7. PastInv'
  BY <1>2, <1>4, <1>5, <1>6 DEF IInv, PastInv
<1>8. CountInv'
  BY <1>1, <1>4, ARAssumption DEF IInv, CountInv
<1>9. StepInv'
  <2> SUFFICES ASSUME Strict, NEW q \in Ranks, NEW i \in 1..(Len(past'[q]) - 1)
               PROVE  /\ past'[q][i].status = "ok"
                      /\ \/ past'[q][i + 1] = Apply(past'[q][i], rpc[i], NoFault)
                         \/ past'[q][i + 1].status = "raised"
    BY <1>4 DEF StepInv
  <2>1. CASE q # r
    BY <1>5, <2>1 DEF IInv, StepInv
  <2>2. CASE q = r /\ i < n
    <3>1. i \in 1..(n - 1) /\ i \in 1..n /\ i + 1 \in 1..n
      BY <1>2, <2>2
    <3> QED BY <1>6, <2>2, <3>1 DEF IInv, StepInv
  <2>3. CASE q = r /\ i = n
    <3>1. next = Apply(Cur(r), step, NoFault) \/ next.status = "raised"
      BY <1>2, CurGood, StrictApply DEF IInv, next
    <3>2. past'[r][n] = past[r][n]
      BY <1>2, <1>6
    <3> QED BY <1>4, <1>6, <2>3, <3>1, <3>2 DEF step
  <2>4. i <= n \/ q # r
    BY <1>2, <1>6
  <2> QED BY <1>2, <2>1, <2>2, <2>3, <2>4
<1>10. AgreeInv'
  <2>1. ASSUME Strict, NEW s \in Ranks \ {r}, NEW i \in (1..(n + 1)) \cap (1..Len(past[s])),
               past'[r][i].status = "ok", past[s][i].status = "ok"
        PROVE  past'[r][i] = past[s][i]
    <3>1. CASE i \in 1..n
      BY <1>6, <2>1, <3>1 DEF IInv, AgreeInv
    <3>2. CASE i = n + 1
      <4>1. /\ past[s][n].status = "ok"
            /\ past[s][n + 1] = Apply(past[s][n], step, NoFault)
        <5>1. Len(past[s]) \in Nat
          BY <2>1, LenProperties DEF IInv, PastInv
        <5>2. n \in 1..(Len(past[s]) - 1)
          BY <1>2, <2>1, <3>2, <5>1
        <5> QED BY <2>1, <3>2, <5>2 DEF IInv, StepInv, step
      <4>2. past[r][n] = past[s][n]
        <5>1. n \in (1..Len(past[r])) \cap (1..Len(past[s]))
          BY <1>2, <2>1, <3>2
        <5> QED BY <1>4, <2>1, <4>1, <5>1 DEF IInv, AgreeInv
      <4>3. next = Apply(Cur(r), step, NoFault)
        <5>1. next.status = "ok"
          BY <1>6, <2>1, <3>2
        <5>2. next = Apply(Cur(r), step, NoFault) \/ next.status = "raised"
          BY <1>2, <2>1, CurGood, StrictApply DEF IInv, next
        <5> QED BY <5>1, <5>2
      <4> QED BY <1>4, <1>6, <3>2, <4>1, <4>2, <4>3
    <3> QED BY <1>2, <2>1, <3>1, <3>2
  <2> SUFFICES ASSUME Strict, NEW p \in Ranks, NEW s \in Ranks,
                      NEW i \in (1..Len(past'[p])) \cap (1..Len(past'[s])),
                      past'[p][i].status = "ok", past'[s][i].status = "ok"
               PROVE  past'[p][i] = past'[s][i]
    BY DEF AgreeInv
  <2>2. CASE p = r /\ s # r
    <3>1. s \in Ranks \ {r} /\ past'[s] = past[s] /\ past'[p] = past'[r]
      BY <1>5, <2>2
    <3>2. i \in (1..(n + 1)) \cap (1..Len(past[s]))
      BY <1>6, <3>1
    <3> QED BY <2>1, <3>1, <3>2
  <2>3. CASE s = r /\ p # r
    <3>1. p \in Ranks \ {r} /\ past'[p] = past[p] /\ past'[s] = past'[r]
      BY <1>5, <2>3
    <3>2. i \in (1..(n + 1)) \cap (1..Len(past[p]))
      BY <1>6, <3>1
    <3> QED BY <2>1, <3>1, <3>2
  <2>4. CASE p # r /\ s # r
    BY <1>5, <2>4 DEF IInv, AgreeInv
  <2> QED BY <2>2, <2>3, <2>4
<1> QED BY <1>7, <1>8, <1>9, <1>10 DEF IInv

LEMMA NextIInv == IInv /\ [Next]_vars => IInv'
<1> SUFFICES ASSUME IInv, [Next]_vars PROVE IInv'
  OBVIOUS
<1>1. CASE ProfileRun
  <2>1. Body("run", FALSE) \in Seq(Legal)
    BY BodyLegal
  <2>2. CountInv'
    BY <1>1 DEF ProfileRun, Dispatch, IInv, CountInv
  <2> QED BY <1>1, <2>1, <2>2, DispatchIInv DEF ProfileRun, IInv
<1>2. CASE ProfileGraphs
  <2>1. CountInv'
    BY <1>2 DEF ProfileGraphs, Dispatch, IInv, CountInv
  <2> QED BY <1>2, <2>1, CallsLegal, DispatchIInv DEF ProfileGraphs, IInv
<1>3. CASE Capture
  <2>1. CountInv'
    BY <1>3 DEF Capture, Dispatch, IInv, CountInv
  <2> QED BY <1>3, <2>1, CallsLegal, DispatchIInv DEF Capture, IInv
<1>4. CASE Execute
  <2>1. CountInv'
    BY <1>4, ARAssumption DEF Execute, Dispatch, IInv, CountInv
  <2>2. PICK steps \in Seq(Legal) : Dispatch(steps, "serving")
    BY <1>4, CallsLegal DEF Execute
  <2> QED BY <2>1, <2>2, DispatchIInv DEF IInv
<1>5. CASE \E r \in Ranks : RankStep(r)
  BY <1>5, RankStepIInv
<1>6. CASE Stopped \/ UNCHANGED vars
  <2>1. past' = past /\ rpc' = rpc /\ phase' = phase /\ executes' = executes
        /\ faults' = faults
    BY <1>6 DEF Stopped, vars
  <2>2. PastInv' /\ CountInv'
    BY <2>1 DEF IInv, PastInv, CountInv
  <2>3. StepInv' /\ AgreeInv'
    BY <2>1 DEF IInv, StepInv, AgreeInv
  <2> QED BY <2>2, <2>3 DEF IInv
<1> QED BY <1>1, <1>2, <1>3, <1>4, <1>5, <1>6 DEF Next

(* The inductive invariant holds, for every number of ranks, model, route  *)
(* table and set of failures.                                              *)
THEOREM InvariantHolds == Spec => []IInv
BY InitIInv, NextIInv, PTL DEF Spec

-----------------------------------------------------------------------------
(* Every variable keeps its type, every started worker has a handle and no *)
(* rank runs ahead of the call it serves.                                  *)
THEOREM TypeCorrect == Spec => []TypeOK
<1>1. IInv => TypeOK
  <2> SUFFICES ASSUME IInv PROVE TypeOK
    OBVIOUS
  <2>1. past \in [Ranks -> Seq(Core)]
    <3>1. Good \subseteq Core
      BY DEF Good
    <3>2. ASSUME NEW r \in Ranks
          PROVE  past[r] \in Seq(Core)
      <4>1. past[r] \in Seq(Good)
        BY DEF IInv, PastInv
      <4> QED BY <3>1, <4>1, SeqMonotonic
    <3> QED BY <3>2 DEF IInv, PastInv
  <2>2. rpc \in Seq(Step)
    <3>1. Legal \subseteq Step /\ rpc \in Seq(Legal)
      BY DEF Legal, IInv, PastInv
    <3> QED BY <3>1, SeqMonotonic
  <2>3. \A r \in Ranks : Cur(r).started \subseteq Cur(r).handles
    BY CurGood DEF IInv, Good
  <2> QED BY <2>1, <2>2, <2>3 DEF TypeOK, IInv, PastInv, CountInv
<1> QED BY <1>1, InvariantHolds, PTL

(* With STRICT no two ranks ever issue one all-reduce over different       *)
(* transports, for any number of ranks and any failures.                   *)
THEOREM RanksAgreeOnTransport == Spec => []TransportAgreement
<1>1. IInv => TransportAgreement
  <2> SUFFICES ASSUME IInv, Strict, NEW r \in Ranks, NEW s \in Ranks,
                      NEW i \in DOMAIN past[r] \cap DOMAIN past[s],
                      past[r][i].status = "ok", past[s][i].status = "ok"
               PROVE  past[r][i].last = past[s][i].last
    BY DEF TransportAgreement
  <2>1. i \in (1..Len(past[r])) \cap (1..Len(past[s]))
    BY LenProperties DEF IInv, PastInv
  <2> QED BY <2>1 DEF IInv, AgreeInv
<1> QED BY <1>1, InvariantHolds, PTL

(* With STRICT all ranks hold the same handles, started workers, call-site *)
(* numbers and graph whenever a call has completed.                        *)
THEOREM RanksAlikeBetweenCalls == Spec => []RanksStayAlike
<1>1. IInv => RanksStayAlike
  <2> SUFFICES ASSUME IInv, Strict, Quiescent, NEW r \in Ranks, NEW s \in Ranks
               PROVE  Cur(r) = Cur(s)
    BY DEF RanksStayAlike
  <2>1. PastInv /\ AgreeInv
    BY DEF IInv
  <2> QED BY <2>1, QuiescentAlike
<1> QED BY <1>1, InvariantHolds, PTL
-----------------------------------------------------------------------------
(* The refinement of Collectives.  Seen from outside, a rank's step issues *)
(* the batch the others issued or aborts, and the engine's call starts     *)
(* anew when all have issued the same.                                     *)

(* What is issued of a rank's past: all of it, but a step that raised.     *)
Shown(r) == Len(past[r]) - (IF r \in Raised THEN 2 ELSE 1)

LEMMA ShownEndedWell ==
  ASSUME IInv, Strict, NEW r \in Ranks, NEW i \in 1..Shown(r)
  PROVE  i + 1 \in 1..Len(past[r]) /\ past[r][i + 1].status = "ok"
<1> DEFINE n == Len(past[r])
<1>1. n \in Nat /\ past[r] \in Seq(Good)
  BY LenProperties DEF IInv, PastInv
<1>2. n \in 1..(Len(rpc) + 1) /\ Len(rpc) \in Nat
  BY LenProperties DEF IInv, PastInv
<1>3. CASE r \in Raised
  <2>1. i \in 1..(n - 2)
    BY <1>3 DEF Shown
  <2>2. i + 1 \in 1..(n - 1) /\ i + 1 \in 1..n
    BY <1>1, <2>1
  <2> QED BY <2>2 DEF IInv, StepInv
<1>4. CASE r \notin Raised
  <2>1. i \in 1..(n - 1)
    BY <1>4 DEF Shown
  <2>2. i + 1 \in 1..n /\ (i + 1 \in 1..(n - 1) \/ i + 1 = n)
    BY <1>1, <2>1
  <2>3. past[r][n].status = "ok"
    <3>1. Cur(r) \in Good
      BY CurGood DEF IInv
    <3>2. Cur(r).status \in {"ok", "raised"}
      BY <3>1 DEF Good, Core
    <3> QED BY <1>4, <3>2 DEF Raised, Cur
  <2> QED BY <2>2, <2>3 DEF IInv, StepInv
<1> QED BY <1>3, <1>4

LEMMA IssuedShape ==
  ASSUME IInv
  PROVE  \A r \in Ranks : /\ AllIssued[r] = [i \in 1..Shown(r) |-> past[r][i + 1].last]
                          /\ DOMAIN AllIssued[r] = 1..Shown(r)
                          /\ Shown(r) \in Int
BY LenProperties DEF IInv, PastInv, AllIssued, Shown

(* No two ranks disagree on what both have issued.                         *)
LEMMA IssuedAgree == IInv /\ Strict => Group!Compatible(AllIssued)
<1> SUFFICES ASSUME IInv, Strict, NEW r \in Ranks, NEW s \in Ranks,
                    NEW i \in DOMAIN AllIssued[r] \cap DOMAIN AllIssued[s]
             PROVE  AllIssued[r][i] = AllIssued[s][i]
  BY DEF Group!Compatible
<1>0. i \in 1..Shown(r) /\ i \in 1..Shown(s)
  BY IssuedShape
<1>1. /\ i + 1 \in 1..Len(past[r]) /\ past[r][i + 1].status = "ok"
      /\ i + 1 \in 1..Len(past[s]) /\ past[s][i + 1].status = "ok"
  BY <1>0, ShownEndedWell
<1>2. past[r][i + 1] = past[s][i + 1]
  BY <1>1 DEF IInv, AgreeInv
<1>3. \A p \in {r, s} : AllIssued[p][i] = past[p][i + 1].last
  <2> TAKE p \in {r, s}
  <2>1. AllIssued[p] = [j \in 1..Shown(p) |-> past[p][j + 1].last]
    BY IssuedShape
  <2>2. i \in 1..Shown(p)
    BY <1>0
  <2> QED BY <2>1, <2>2
<1> QED BY <1>2, <1>3

LEMMA InitCollectives ==
  ASSUME Init
  PROVE  Group!Init
<1>1. \A r \in Ranks : Len(past[r]) = 1 /\ Cur(r) = Core0
  BY DEF Init, Cur
<1>2. Raised = {}
  BY <1>1 DEF Raised, Core0
<1>3. AllIssued = [r \in Ranks |-> <<>>]
  <2>1. \A r \in Ranks : [i \in 1..(1 - 1) |-> past[r][i + 1].last] = <<>>
    OBVIOUS
  <2> QED BY <1>1, <1>2, <2>1 DEF AllIssued
<1> QED BY <1>2, <1>3 DEF Group!Init

(* A call of the engine is a NewCall.                                      *)
LEMMA DispatchStartsACall ==
  ASSUME IInv, NEW steps, NEW next, Dispatch(steps, next)
  PROVE  Group!NewCall
<1>1. \A r \in Ranks : Cur(r).status = "ok"
  BY DEF Dispatch, Quiescent, Done
<1>2. \A r \in Ranks : past'[r] = <<Cur(r)>>
  BY DEF Dispatch
<1>3. ASSUME NEW r \in Ranks
      PROVE  Len(past'[r]) = 1 /\ Cur(r)' = Cur(r)
  <2> DEFINE c == Cur(r)
  <2>1. past'[r] = <<c>>
    BY <1>2
  <2> HIDE DEF c
  <2>2. Len(past'[r]) = 1 /\ past'[r][Len(past'[r])] = c
    BY <2>1
  <2>3. Cur(r)' = past'[r][Len(past'[r])]
    BY DEF Cur
  <2> QED BY <2>2, <2>3 DEF c
<1>4. Raised = {} /\ Raised' = {}
  BY <1>1, <1>3 DEF Raised
<1>5. \A r, s \in Ranks : AllIssued[r] = AllIssued[s]
  <2>1. \A r \in Ranks : AllIssued[r] = Issued(r)
    BY <1>4 DEF AllIssued, Issued
  <2> QED BY <2>1 DEF Dispatch, Quiescent
<1>6. AllIssued' = [r \in Ranks |-> <<>>]
  <2>1. \A r \in Ranks : [i \in 1..(1 - 1) |-> past'[r][i + 1].last] = <<>>
    OBVIOUS
  <2> QED BY <1>3, <1>4, <2>1 DEF AllIssued
<1> QED BY <1>4, <1>5, <1>6 DEF Group!NewCall

(* A rank's step is an Issue, or an Abort when it raises.                  *)
LEMMA RankStepIssuesOrAborts ==
  ASSUME IInv, Group!Compatible(AllIssued)', NEW r \in Ranks, RankStep(r)
  PROVE  Group!Issue(r) \/ Group!Abort(r)
<1> DEFINE n == Len(past[r])
<1>1. IInv'
  BY RankStepIInv
<1>2. /\ Cur(r).status = "ok" /\ r \notin Raised
      /\ \E next : past' = [past EXCEPT ![r] = Append(@, next)]
  BY DEF RankStep, Raised
<1>3. PICK next : past' = [past EXCEPT ![r] = Append(@, next)]
  BY <1>2
<1>4. past \in [Ranks -> Seq(Good)] /\ past' \in [Ranks -> Seq(Good)] /\ n \in Nat /\ n >= 1
  BY <1>1, LenProperties DEF IInv, PastInv
<1>5. /\ past'[r] = Append(past[r], next)
      /\ \A s \in Ranks \ {r} : past'[s] = past[s]
  BY <1>3, <1>4
<1>6. /\ Len(past'[r]) = n + 1
      /\ \A i \in 1..n : past'[r][i] = past[r][i]
  BY <1>4, <1>5
<1>7. \A s \in Ranks \ {r} : /\ Cur(s)' = Cur(s) /\ (s \in Raised' <=> s \in Raised)
                             /\ Shown(s)' = Shown(s)
  BY <1>5 DEF Cur, Raised, Shown
<1>8. \A s \in Ranks \ {r} : AllIssued'[s] = AllIssued[s]
  BY <1>5, <1>7 DEF AllIssued
<1>9. CASE r \in Raised'
  <2>1. Raised' = Raised \cup {r}
    BY <1>7, <1>9 DEF Raised
  <2>2. AllIssued'[r] = AllIssued[r]
    <3>1. AllIssued[r] = [i \in 1..(n - 1) |-> past[r][i + 1].last]
      BY <1>2 DEF AllIssued
    <3>2. AllIssued'[r] = [i \in 1..(n + 1 - 2) |-> past'[r][i + 1].last]
      BY <1>6, <1>9 DEF AllIssued
    <3>3. \A i \in 1..(n - 1) : past'[r][i + 1] = past[r][i + 1]
      BY <1>4, <1>6
    <3>4. 1..(n + 1 - 2) = 1..(n - 1)
      BY <1>4
    <3> QED BY <3>1, <3>2, <3>3, <3>4
  <2>3. AllIssued' = AllIssued
    BY <1>8, <2>2 DEF AllIssued
  <2> QED BY <1>2, <2>1, <2>3 DEF Group!Abort
<1>10. CASE r \notin Raised'
  <2>1. Raised' = Raised
    BY <1>2, <1>7, <1>10 DEF Raised
  <2>2. AllIssued[r] = [i \in 1..(n - 1) |-> past[r][i + 1].last]
    BY <1>2 DEF AllIssued
  <2>3. AllIssued'[r] = [i \in 1..(n + 1 - 1) |-> past'[r][i + 1].last]
    BY <1>6, <1>10 DEF AllIssued
  <2>4. Len(AllIssued'[r]) = Len(AllIssued[r]) + 1
    <3>1. n - 1 \in Nat /\ n + 1 - 1 \in Nat /\ n + 1 - 1 = (n - 1) + 1
      BY <1>4
    <3>2. Len(AllIssued[r]) = n - 1
      BY <2>2, <3>1
    <3>3. Len(AllIssued'[r]) = n + 1 - 1
      BY <2>3, <3>1
    <3> QED BY <3>1, <3>2, <3>3
  <2>5. \A i \in DOMAIN AllIssued[r] : AllIssued'[r][i] = AllIssued[r][i]
    <3> SUFFICES ASSUME NEW i \in 1..(n - 1) PROVE AllIssued'[r][i] = AllIssued[r][i]
      BY <2>2
    <3>1. i \in 1..(n + 1 - 1) /\ i + 1 \in 1..n
      BY <1>4
    <3> QED BY <1>6, <2>2, <2>3, <3>1
  <2> QED BY <1>2, <1>8, <2>1, <2>4, <2>5 DEF Group!Issue, Group!Compatible
<1> QED BY <1>9, <1>10

LEMMA NextCollectives ==
  ASSUME IInv, Group!Compatible(AllIssued)', [Next]_vars
  PROVE  [Group!Next]_(Group!vars)
<1>1. CASE ProfileRun \/ ProfileGraphs \/ Capture \/ Execute
  <2>1. \E steps, next : Dispatch(steps, next)
    BY <1>1 DEF ProfileRun, ProfileGraphs, Capture, Execute
  <2> QED BY <2>1, DispatchStartsACall DEF Group!Next
<1>2. CASE \E r \in Ranks : RankStep(r)
  BY <1>2, RankStepIssuesOrAborts DEF Group!Next
<1>3. CASE Stopped \/ UNCHANGED vars
  <2>1. past' = past
    BY <1>3 DEF Stopped, vars
  <2>2. Raised' = Raised /\ AllIssued' = AllIssued
    BY <2>1 DEF Raised, AllIssued, Cur
  <2> QED BY <2>2 DEF Group!vars
<1> QED BY <1>1, <1>2, <1>3 DEF Next

(* With STRICT the sidecar implements Collectives, for any ranks, routes,  *)
(* models, hooks and failures: no rank ever issues a batch of collectives  *)
(* another rank has issued differently, and no call starts before all have *)
(* issued the same.                                                        *)
THEOREM ImplementsCollectives == Strict /\ Spec => RanksIssueTheSameCollectives
<1> SUFFICES ASSUME Strict PROVE Spec => Group!Spec
  BY DEF RanksIssueTheSameCollectives
<1>1. IInv => Group!Compatible(AllIssued)
  BY IssuedAgree
<1>2. IInv /\ Group!Compatible(AllIssued)' /\ [Next]_vars => [Group!Next]_(Group!vars)
  BY NextCollectives
<1>3. Init => Group!Init
  BY InitCollectives
<1> QED BY <1>1, <1>2, <1>3, InvariantHolds, PTL DEF Spec, Group!Spec
-----------------------------------------------------------------------------
(***************************************************************************)
(* The nested wrappers of PersistentAR: whatever raises inside them, the   *)
(* environment is put back; while a graph is recorded every handle it      *)
(* needs is there; and once the capture is over every library in the graph *)
(* has a worker that runs.  For any model, routes, hooks and failures.     *)
(*                                                                         *)
(* The argument: the engine's calls are well nested (Nested), so an open   *)
(* wrapper was entered at an earlier step of the call and is left at a     *)
(* later one (OpenInv); hence what it saved is what was there before, and  *)
(* an exception restores it at whatever step it comes (EnvOk).             *)
(***************************************************************************)
Enter == [w \in Scopes |-> IF w = "profile" THEN "enterProfile" ELSE "enterCapture"]
Exit  == [w \in Scopes |-> IF w = "profile" THEN "exitProfile" ELSE "exitCapture"]

(* A call's steps: the profile wrapper is around everything, a capture      *)
(* context is entered first or right inside it, both are left again, and    *)
(* what is recorded is recorded inside a capture context.                   *)
Nested(s) == \A i \in 1..Len(s) :
  /\ s[i].op = "enterProfile" => i = 1 /\ \E j \in (i + 1)..Len(s) : s[j].op = "exitProfile"
  /\ s[i].op = "exitProfile"  => i = Len(s)
  /\ s[i].op = "enterCapture" => /\ i = 1 \/ (i = 2 /\ s[1].op = "enterProfile")
                                 /\ \E j \in (i + 1)..Len(s) : s[j].op = "exitCapture"
  /\ s[i].op = "record" => \E j \in 1..(i - 1) : /\ s[j].op = "enterCapture"
                                                  /\ \A k \in j..i : s[k].op # "exitCapture"

(* The environment and what the open wrappers will restore. *)
EnvOk(c) ==
  /\ "profile" \in c.open =>
       c.saved["profile"].ar /\ ~c.saved["profile"].inCap /\ c.saved["profile"].restoreAr
  /\ c.open = {"capture"} =>
       /\ ~c.saved["capture"].inCap
       /\ IF c.saved["capture"].restoreAr THEN c.saved["capture"].ar ELSE c.ar
  /\ c.open = {} => c.ar /\ (c.inCap => c.status = "raised")

(* The graph uses handles the rank has. *)
GraphOk(c) == \A i \in 1..Len(c.graph) : c.graph[i] \in c.handles \cup {"public"}

(* Preinit has been here. *)
Wanted == {PathOf(k) : k \in ConfiguredRoutes}
ReadyOk(c) == Strict /\ Preinit /\ "capture" \in c.open /\ c.ar => Wanted \subseteq c.handles

CoreOk(c) == EnvOk(c) /\ GraphOk(c) /\ ReadyOk(c)

(* A capture context is open after the first n - 1 steps. *)
Capturing(n) == \E j \in 1..(n - 1) : /\ rpc[j].op = "enterCapture"
                                      /\ \A k \in j..(n - 1) : rpc[k].op # "exitCapture"

OpenInv == \A r \in Ranks :
  /\ CoreOk(Cur(r))
  /\ \A w \in Cur(r).open : /\ \E j \in 1..(Len(past[r]) - 1) : rpc[j].op = Enter[w]
                            /\ \E j \in Len(past[r])..Len(rpc) : rpc[j].op = Exit[w]
  /\ Cur(r).status = "ok" /\ Capturing(Len(past[r])) => "capture" \in Cur(r).open

(* The graph a rank would replay is answered. *)
Answered(c) == \A i \in 1..Len(c.graph) : c.graph[i] \in c.started \cup {"public"}

CallInv ==
  /\ Nested(rpc)
  /\ phase = "captured" /\ AfterCapture => Len(rpc) > 0 /\ rpc[Len(rpc)].op = "afterCapture"
  /\ phase = "serving" => \A i \in 1..Len(rpc) : rpc[i].op \in {"run", "replay", "endExecute"}

AnsweredInv == AfterCapture /\ Defer /\ Strict => \A r \in Ranks :
  (phase = "serving" \/ (phase = "captured" /\ Done(r))) => Answered(Cur(r))

CInv == CallInv /\ OpenInv /\ NoCreateWhileRecording /\ AnsweredInv
-----------------------------------------------------------------------------
(* What one step does to the wrappers, the handles and the graph.          *)

(* An all-reduce leaves everything alone but handles and counters. *)
Kept(c, d) ==
  /\ d.open = c.open /\ d.saved = c.saved /\ d.ar = c.ar /\ d.inCap = c.inCap
  /\ d.status = c.status /\ d.graph = c.graph /\ d.started = c.started
  /\ c.handles \subseteq d.handles

Issues(d) == d.last \in Seq(d.handles \cup {"public"})

LEMMA KeptTransitive ==
  ASSUME NEW c, NEW d, NEW e, Kept(c, d), Kept(d, e)
  PROVE  Kept(c, e)
BY DEF Kept

LEMMA IssueKeeps ==
  ASSUME NEW c \in Good, NEW t \in c.handles \cup {"public"}
  PROVE  Kept(c, Issue(c, t)) /\ Issues(Issue(c, t))
<1>1. Kept(c, Issue(c, t))
  BY DEF Kept, Issue, Good, Core
<1>2. Issue(c, t).last = <<t>> /\ Issue(c, t).handles = c.handles
  BY DEF Issue, Good, Core
<1> QED BY <1>1, <1>2 DEF Issues

LEMMA NumberedKeeps ==
  ASSUME NEW c \in Good
  PROVE  Kept(c, Numbered(c)) /\ Numbered(c).handles = c.handles
BY DEF Kept, Numbered, Good, Core

LEMMA CountedKeeps ==
  ASSUME NEW c \in Good, NEW call \in CallRecord
  PROVE  Kept(c, Counted(c, call)) /\ Counted(c, call).handles = c.handles
BY DEF Kept, Counted, Good, Core

LEMMA HandleKeeps ==
  ASSUME NEW c \in Good, NEW lib \in Libs
  PROVE  LET h == [c EXCEPT !.handles = @ \cup {lib}]
         IN  Kept(c, h) /\ h.handles = c.handles \cup {lib} /\ h \in Good
BY HandleGood DEF Kept, Good, Core

(* Raising: the handles, the workers and the graph stay, the wrappers close. *)
LEMMA RaiseLeaves ==
  ASSUME NEW c \in Good
  PROVE  LET d == Raise(c) IN
         /\ d.open = {} /\ d.status = "raised" /\ d.graph = c.graph
         /\ d.handles = c.handles /\ d.started = c.started
         /\ ("profile" \in c.open => d.ar = IF c.saved["profile"].restoreAr
                                           THEN c.saved["profile"].ar ELSE Leave("capture", c).ar)
         /\ ("profile" \notin c.open => d.ar = Leave("capture", c).ar)
<1> DEFINE e == Leave("capture", c)
           g == Leave("profile", e)
<1>1. e \in Good
  BY LeaveGood DEF Scopes
<1>2. /\ e.open = c.open \ {"capture"} /\ e.saved = c.saved /\ e.graph = c.graph
      /\ e.handles = c.handles /\ e.started = c.started
  BY DEF Leave, Good, Core
<1>3. g \in Good
  BY <1>1, LeaveGood DEF Scopes
<1>4. /\ g.open = e.open \ {"profile"} /\ g.graph = e.graph
      /\ g.handles = e.handles /\ g.started = e.started
      /\ g.ar = IF "profile" \in e.open /\ e.saved["profile"].restoreAr
                THEN e.saved["profile"].ar ELSE e.ar
  BY <1>1 DEF Leave, Good, Core
<1>5. c.open \subseteq Scopes
  BY DEF Good, Core
<1> HIDE DEF e, g
<1>6. /\ Raise(c).open = g.open /\ Raise(c).status = "raised" /\ Raise(c).graph = g.graph
      /\ Raise(c).handles = g.handles /\ Raise(c).started = g.started /\ Raise(c).ar = g.ar
  <2>1. Raise(c) = [Quiet(g) EXCEPT !.status = "raised"]
    BY DEF Raise, e, g
  <2> QED BY <1>3, <2>1 DEF Quiet, Good, Core
<1>7. g.open = {}
  BY <1>2, <1>4, <1>5 DEF Scopes
<1> QED BY <1>2, <1>4, <1>6, <1>7 DEF e

(* An exception puts the environment back, wherever it comes from. *)
LEMMA RaiseCoreOk ==
  ASSUME NEW c \in Good, EnvOk(c), GraphOk(c)
  PROVE  CoreOk(Raise(c))
<1> DEFINE d == Raise(c)
<1>1. c.open \subseteq {"profile", "capture"}
  BY DEF Good, Core, Scopes
<1>2. d.ar
  <2>1. CASE "profile" \in c.open
    BY <2>1, RaiseLeaves DEF EnvOk
  <2>2. CASE c.open = {"capture"}
    <3>1. Leave("capture", c).ar
      BY <2>2 DEF Leave, EnvOk, Good, Core
    <3> QED BY <2>2, <3>1, RaiseLeaves
  <2>3. CASE c.open = {}
    <3>1. Leave("capture", c) = c
      BY <2>3 DEF Leave
    <3> QED BY <2>3, <3>1, RaiseLeaves DEF EnvOk
  <2> QED BY <1>1, <2>1, <2>2, <2>3
<1>3. d.open = {} /\ d.status = "raised" /\ d.graph = c.graph /\ d.handles = c.handles
  BY RaiseLeaves
<1> HIDE DEF d
<1> QED BY <1>2, <1>3 DEF CoreOk, EnvOk, GraphOk, ReadyOk, d

LEMMA KeptCoreOk ==
  ASSUME NEW c, NEW d, CoreOk(c), Kept(c, d)
  PROVE  CoreOk(d)
BY DEF CoreOk, EnvOk, GraphOk, ReadyOk, Kept

(* An all-reduce issues through handles it has, or raises. *)
Outcome(c, d) == \/ Kept(c, d) /\ Issues(d)
                 \/ \E e \in Good : Kept(c, e) /\ d = Raise(e)

LEMMA MissOutcome ==
  ASSUME NEW c \in Good
  PROVE  Outcome(c, Miss(c))
<1>1. Kept(c, c)
  BY DEF Kept
<1> QED BY <1>1, IssueKeeps DEF Outcome, Miss

LEMMA OutcomeAfter ==
  ASSUME NEW c, NEW b, NEW d, Kept(c, b), Outcome(b, d)
  PROVE  Outcome(c, d)
BY KeptTransitive DEF Outcome

LEMMA LaunchOutcome ==
  ASSUME NEW c \in Good, NEW lib \in Libs, NEW f \in Fault
  PROVE  Outcome(c, Launch(c, lib, f))
<1> DEFINE h == [c EXCEPT !.handles = @ \cup {lib}]
<1>1. Kept(c, h) /\ lib \in h.handles /\ h \in Good
  BY HandleKeeps
<1> HIDE DEF h
<1>2. Outcome(h, Miss(h))
  BY <1>1, MissOutcome
<1>3. Outcome(h, Issue(Numbered(h), lib))
  <2>1. Numbered(h) \in Good /\ Kept(h, Numbered(h)) /\ Numbered(h).handles = h.handles
    BY <1>1, NumberedGood, NumberedKeeps
  <2>2. Kept(Numbered(h), Issue(Numbered(h), lib)) /\ Issues(Issue(Numbered(h), lib))
    BY <1>1, <2>1, IssueKeeps
  <2> QED BY <2>1, <2>2, KeptTransitive DEF Outcome
<1>4. Launch(c, lib, f) \in {Miss(h), Issue(Numbered(h), lib)}
  BY DEF Launch, h
<1> QED BY <1>1, <1>2, <1>3, <1>4, OutcomeAfter

LEMMA AllReduceOutcome ==
  ASSUME NEW c \in Good, NEW call \in CallRecord, NEW fits \in BOOLEAN, NEW f \in Fault
  PROVE  Outcome(c, AllReduce(c, call, fits, f))
<1>1. Outcome(c, Issue(c, "public")) /\ Kept(c, c)
  BY IssueKeeps DEF Outcome, Kept
<1>2. Outcome(c, TryAddRms(c, call, f))
  <2> DEFINE lib == PathOf(call.kind)
             h   == [c EXCEPT !.handles = @ \cup {lib}]
  <2>1. CASE Unavailable(c, TRUE) \/ Missing(c, lib, f) \/ f.launch
    BY <1>1, <2>1 DEF TryAddRms, Outcome
  <2>2. CASE ~(Unavailable(c, TRUE) \/ Missing(c, lib, f) \/ f.launch)
    <3>1. lib \in Libs
      BY <2>2, PathOfType DEF Missing, CallRecord
    <3>2. Kept(c, h) /\ lib \in h.handles /\ h \in Good
      BY <3>1, HandleKeeps
    <3>3. TryAddRms(c, call, f) = Issue(h, lib)
      BY <2>2 DEF TryAddRms
    <3> HIDE DEF h, lib
    <3>4. Kept(h, Issue(h, lib)) /\ Issues(Issue(h, lib))
      BY <3>2, IssueKeeps
    <3> QED BY <3>2, <3>3, <3>4, KeptTransitive DEF Outcome
  <2> QED BY <2>1, <2>2
<1>3. Outcome(c, TryAllReduceInplace(c, call, fits, f))
  <2> DEFINE b == Counted(c, call)
  <2>1. b \in Good /\ Kept(c, b)
    BY CountedGood, CountedKeeps
  <2>2. ASSUME NEW kind \in Kinds
        PROVE  Outcome(b, Sidecar(b, kind, f))
    <3> DEFINE lib == PathOf(kind)
               h   == [b EXCEPT !.handles = @ \cup {lib}]
    <3>1. CASE Missing(b, lib, f)
      BY <2>1, <3>1, MissOutcome DEF Sidecar
    <3>2. CASE ~Missing(b, lib, f)
      <4>1. lib \in Libs
        BY <3>2, PathOfType DEF Missing
      <4>2. Kept(b, h) /\ h \in Good
        BY <2>1, <4>1, HandleKeeps
      <4>3. Outcome(h, Issue(h, "public"))
        BY <4>2, IssueKeeps DEF Outcome
      <4>4. Outcome(b, Launch(b, lib, f))
        BY <2>1, <4>1, LaunchOutcome
      <4>5. Sidecar(b, kind, f) \in {Issue(h, "public"), Launch(b, lib, f)}
        BY <3>2 DEF Sidecar
      <4> HIDE DEF h, lib, b
      <4> QED BY <4>2, <4>3, <4>4, <4>5, OutcomeAfter
    <3> QED BY <3>1, <3>2
  <2>3. Outcome(b, Issue(Numbered(b), "public"))
    <3>1. Numbered(b) \in Good /\ Kept(b, Numbered(b))
      BY <2>1, NumberedGood, NumberedKeeps
    <3>2. Outcome(Numbered(b), Issue(Numbered(b), "public"))
      BY <3>1, IssueKeeps DEF Outcome
    <3> QED BY <3>1, <3>2, OutcomeAfter
  <2>4. CallsiteRouteKind(c, call) \in Kinds
    BY DEF CallsiteRouteKind, CallRecord, Kinds
  <2>5. TryAllReduceInplace(c, call, fits, f) \in
          {Issue(c, "public"), Issue(Numbered(b), "public"),
           Sidecar(b, CallsiteRouteKind(c, call), f)}
    BY DEF TryAllReduceInplace
  <2> HIDE DEF b
  <2> QED BY <1>1, <2>1, <2>2, <2>3, <2>4, <2>5, OutcomeAfter
<1>4. call.op \in {"inplace", "fused", "public"}
  BY DEF CallRecord
<1> QED BY <1>1, <1>2, <1>3, <1>4 DEF AllReduce
-----------------------------------------------------------------------------
(* Once preinit has been there, recording creates no handle.               *)

LEMMA WantedByAll ==
  ASSUME NEW kind \in Kinds
  PROVE  PathOf(kind) \in Wanted
<1>1. CASE Lib[kind] # NoLib
  BY <1>1 DEF Wanted, ConfiguredRoutes
<1>2. CASE Lib[kind] = NoLib
  <2>1. PathOf(kind) = PathOf("default")
    BY <1>2 DEF PathOf
  <2> QED BY <2>1 DEF Wanted, ConfiguredRoutes
<1> QED BY <1>1, <1>2

LEMMA RecordKeepsHandles ==
  ASSUME Strict, NEW c \in Good, NEW call \in CallRecord, NEW f \in Fault,
         c.ar => Wanted \subseteq c.handles
  PROVE  AllReduce(c, call, TRUE, f).handles = c.handles
<1>1. ASSUME NEW d \in Good, NEW t PROVE Issue(d, t).handles = d.handles
  BY DEF Issue, Good, Core
<1>2. ASSUME NEW d \in Good PROVE Miss(d).handles = d.handles
  BY RaiseLeaves DEF Miss
<1>3. ASSUME NEW d \in Good, NEW lib \in d.handles
      PROVE  [d EXCEPT !.handles = @ \cup {lib}] = d
  <2>1. d.handles \cup {lib} = d.handles
    OBVIOUS
  <2> QED BY <2>1 DEF Good, Core
<1>4. CASE Unavailable(c, TRUE)
  BY <1>1, <1>4, RaiseLeaves DEF AllReduce, TryAddRms, TryAllReduceInplace, CallRecord
<1>5. CASE ~Unavailable(c, TRUE)
  <2>1. \A kind \in Kinds : PathOf(kind) \in c.handles
    BY <1>5, WantedByAll DEF Unavailable
  <2>2. TryAddRms(c, call, f).handles = c.handles
    <3>1. PathOf(call.kind) \in c.handles
      BY <2>1 DEF CallRecord
    <3>2. [c EXCEPT !.handles = @ \cup {PathOf(call.kind)}] = c
      BY <1>3, <3>1
    <3> QED BY <1>1, <3>2, RaiseLeaves DEF TryAddRms
  <2>3. TryAllReduceInplace(c, call, TRUE, f).handles = c.handles
    <3> DEFINE b   == Counted(c, call)
               lib == PathOf(CallsiteRouteKind(c, call))
    <3>1. b \in Good /\ b.handles = c.handles
      BY CountedGood, CountedKeeps
    <3>2. CallsiteRouteKind(c, call) \in Kinds
      BY DEF CallsiteRouteKind, CallRecord, Kinds
    <3>3. lib \in b.handles
      BY <2>1, <3>1, <3>2
    <3>4. Numbered(b) \in Good /\ Numbered(b).handles = b.handles
      BY <3>1, NumberedGood, NumberedKeeps
    <3>5. Issue(Numbered(b), "public").handles = c.handles
      BY <1>1, <3>1, <3>4
    <3>6. [b EXCEPT !.handles = @ \cup {lib}] = b
      BY <1>3, <3>1, <3>3
    <3>7. Launch(b, lib, f) \in {Miss(b), Issue(Numbered(b), lib)}
      BY <3>6 DEF Launch
    <3>8. Launch(b, lib, f).handles = c.handles
      BY <1>1, <1>2, <3>1, <3>4, <3>7
    <3>9. Sidecar(b, CallsiteRouteKind(c, call), f)
            \in {Miss(b), Issue(b, "public"), Launch(b, lib, f)}
      BY <3>6 DEF Sidecar
    <3>10. Sidecar(b, CallsiteRouteKind(c, call), f).handles = c.handles
      BY <1>1, <1>2, <3>1, <3>8, <3>9
    <3> QED BY <1>5, <3>5, <3>10 DEF TryAllReduceInplace
  <2> QED BY <1>1, <2>2, <2>3 DEF AllReduce, CallRecord
<1> QED BY <1>4, <1>5

-----------------------------------------------------------------------------
(* One step of a rank, at a place where a nested call may have it.         *)

Placed(c, s) ==
  /\ s.op = "enterProfile" => c.open = {}
  /\ s.op \in {"enterCapture", "exitProfile"} => "capture" \notin c.open
  /\ s.op = "record" => "capture" \in c.open

Stepped(c, s, d) ==
  /\ CoreOk(d)
  /\ \A w \in d.open : (w \in c.open /\ s.op # Exit[w]) \/ s.op = Enter[w]
  /\ d.status = "ok" =>
       /\ s.op = "enterCapture" => "capture" \in d.open
       /\ "capture" \in c.open /\ s.op # "exitCapture" => "capture" \in d.open
  /\ Strict /\ Preinit /\ s.op = "record" => d.handles = c.handles
  /\ s.op \in {"run", "replay", "endExecute"} =>
       d.graph = c.graph /\ c.started \subseteq d.started
  /\ s.op = "afterCapture" /\ d.status = "ok" /\ Strict /\ Defer /\ c.ar =>
       d.graph = c.graph /\ d.handles = c.handles /\ c.handles \subseteq d.started

LEMMA RaiseSteps ==
  ASSUME NEW c \in Good, EnvOk(c), GraphOk(c), NEW s,
         NEW e \in Good, Kept(c, e), s.op # "record" \/ e.handles = c.handles
  PROVE  Stepped(c, s, Raise(e))
<1>1. CoreOk(Raise(e))
  <2>1. EnvOk(e) /\ GraphOk(e)
    BY DEF Kept, EnvOk, GraphOk
  <2> QED BY <2>1, RaiseCoreOk
<1>2. /\ Raise(e).open = {} /\ Raise(e).status = "raised" /\ Raise(e).graph = e.graph
      /\ Raise(e).started = e.started /\ Raise(e).handles = e.handles
  BY RaiseLeaves
<1> QED BY <1>1, <1>2 DEF Stepped, Kept

LEMMA QuietKeeps ==
  ASSUME NEW c \in Good
  PROVE  Kept(c, Quiet(c)) /\ Quiet(c).handles = c.handles
BY DEF Kept, Quiet, Good, Core

LEMMA KeptSteps ==
  ASSUME NEW c \in Good, CoreOk(c), NEW s, NEW d, Kept(c, d),
         s.op \notin {"enterProfile", "enterCapture", "exitProfile", "exitCapture",
                     "afterCapture"},
         s.op # "record" \/ d.handles = c.handles
  PROVE  Stepped(c, s, d)
<1>1. CoreOk(d)
  BY KeptCoreOk
<1>2. \A w \in c.open : s.op # Exit[w]
  BY DEF Good, Core, Scopes, Exit
<1> QED BY <1>1, <1>2 DEF Stepped, Kept

LEMMA RunSteps ==
  ASSUME NEW c \in Good, CoreOk(c), NEW s \in Legal, NEW f \in Fault,
         s.op = "run"
  PROVE  Stepped(c, s, Apply(c, s, f))
<1> DEFINE d == AllReduce(c, Model[s.call], s.flag, f)
<1>1. Model[s.call] \in CallRecord /\ s.flag \in BOOLEAN
  <2>1. s.call \in 1..Len(Model)
    BY DEF Legal
  <2> QED BY <2>1, ARAssumption, ElementOfSeq DEF Legal, Step
<1>2. Outcome(c, d)
  BY <1>1, AllReduceOutcome
<1>3. Apply(c, s, f) = d
  BY DEF Apply
<1> HIDE DEF d
<1>4. CASE Kept(c, d)
  BY <1>3, <1>4, KeptSteps
<1>5. ASSUME NEW e \in Good, Kept(c, e), d = Raise(e)
      PROVE  Stepped(c, s, d)
  BY <1>5, RaiseSteps DEF CoreOk
<1> QED BY <1>2, <1>3, <1>4, <1>5 DEF Outcome

LEMMA RecordSteps ==
  ASSUME NEW c \in Good, CoreOk(c), NEW s \in Legal, NEW f \in Fault,
         s.op = "record", "capture" \in c.open
  PROVE  Stepped(c, s, Apply(c, s, f))
<1> DEFINE b == AllReduce(c, Model[s.call], TRUE, f)
           d == [b EXCEPT !.graph = @ \o b.last]
<1>1. Model[s.call] \in CallRecord
  <2>1. s.call \in 1..Len(Model)
    BY DEF Legal
  <2> QED BY <2>1, ARAssumption, ElementOfSeq DEF Legal, Step
<1>2. Outcome(c, b) /\ b \in Good
  BY <1>1, AllReduceOutcome, AllReduceGood
<1>3. Apply(c, s, f) = d
  BY DEF Apply, Record
<1>4. Strict /\ Preinit => b.handles = c.handles
  BY <1>1, RecordKeepsHandles DEF CoreOk, ReadyOk
<1>5. /\ d.open = b.open /\ d.saved = b.saved /\ d.ar = b.ar /\ d.inCap = b.inCap
      /\ d.status = b.status /\ d.started = b.started /\ d.handles = b.handles
      /\ d.graph = b.graph \o b.last
  BY <1>2 DEF Good, Core
<1> HIDE DEF b, d
<1>6. CASE Kept(c, b) /\ Issues(b)
  <2>1. GraphOk(d)
    <3>1. b.graph \in Seq(b.handles \cup {"public"}) /\ b.last \in Seq(b.handles \cup {"public"})
      <4>1. b.graph \in Seq(Transports)
        BY <1>2 DEF Good, Core, Trace
      <4>2. \A i \in 1..Len(b.graph) : b.graph[i] \in b.handles \cup {"public"}
        BY <1>6 DEF CoreOk, GraphOk, Kept
      <4>3. b.graph \in Seq(b.handles \cup {"public"})
        BY <4>1, <4>2
      <4> QED BY <1>6, <4>3 DEF Issues
    <3>2. d.graph \in Seq(d.handles \cup {"public"})
      BY <1>5, <3>1, ConcatProperties
    <3> QED BY <3>2, ElementOfSeq DEF GraphOk
  <2>2. EnvOk(d) /\ ReadyOk(d)
    BY <1>5, <1>6 DEF CoreOk, EnvOk, ReadyOk, Kept
  <2>3. \A w \in c.open : s.op # Exit[w]
    BY DEF Good, Core, Scopes, Exit
  <2> QED BY <1>3, <1>4, <1>5, <1>6, <2>1, <2>2, <2>3 DEF Stepped, CoreOk, Kept
<1>7. ASSUME NEW e \in Good, Kept(c, e), b = Raise(e)
      PROVE  Stepped(c, s, d)
  <2>1. b.open = {} /\ b.status = "raised" /\ b.handles = e.handles /\ b.graph = e.graph
    BY <1>7, RaiseLeaves
  <2>2. CoreOk(b)
    BY <1>7, RaiseCoreOk DEF CoreOk, EnvOk, GraphOk, Kept
  <2>3. b.last = <<>>
    <3>1. Leave("profile", Leave("capture", e)) \in Good
      BY <1>7, LeaveGood DEF Scopes
    <3> QED BY <1>7, <3>1 DEF Raise, Quiet, Good, Core
  <2>4. d.graph = b.graph
    BY <1>2, <1>5, <2>3, ConcatEmptySeq DEF Good, Core, Trace
  <2>5. CoreOk(d)
    BY <1>5, <2>2, <2>4 DEF CoreOk, EnvOk, GraphOk, ReadyOk
  <2> QED BY <1>4, <1>5, <2>1, <2>5 DEF Stepped
<1> QED BY <1>2, <1>3, <1>6, <1>7 DEF Outcome

LEMMA EnterProfileSteps ==
  ASSUME NEW c \in Good, CoreOk(c), c.status = "ok", NEW s,
         s.op = "enterProfile", c.open = {}
  PROVE  Stepped(c, s, EnterProfile(c))
<1> DEFINE d == EnterProfile(c)
<1>1. c.ar /\ ~c.inCap
  BY DEF CoreOk, EnvOk
<1>2. /\ d.open = {"profile"} /\ ~d.ar /\ d.graph = c.graph /\ d.handles = c.handles
      /\ d.saved["profile"] = [ar |-> c.ar, inCap |-> c.inCap, restoreAr |-> TRUE]
  BY DEF EnterProfile, Quiet, Good, Core, SavedByScope, Scopes
<1> HIDE DEF d
<1>3. CoreOk(d)
  BY <1>1, <1>2 DEF CoreOk, EnvOk, GraphOk, ReadyOk
<1>4. \A w \in d.open : s.op = Enter[w]
  BY <1>2 DEF Enter, Scopes
<1> QED BY <1>2, <1>3, <1>4 DEF Stepped, d
LEMMA EnterCaptureSteps ==
  ASSUME NEW c \in Good, CoreOk(c), c.status = "ok", NEW s, NEW f \in Fault,
         s.op = "enterCapture", "capture" \notin c.open
  PROVE  Stepped(c, s, EnterCapture(c, f))
<1> DEFINE skip    == Skips(c)
           counted == [Quiet(c) EXCEPT !.inCap = TRUE, !.ar = @ /\ ~skip,
                                       !.contexts = IF c.ar THEN @ + 1 ELSE @]
           ready   == IF counted.ar /\ Preinit
                      THEN PreinitForGraphCapture(counted, f) ELSE counted
           v == [ar |-> c.ar, inCap |-> c.inCap, restoreAr |-> skip]
           d == [ready EXCEPT !.open = @ \cup {"capture"}, !.saved["capture"] = v]
<1>1. counted \in Good
  BY CountedContextGood
<1>2. /\ counted.open = c.open /\ counted.saved = c.saved /\ counted.status = "ok"
      /\ counted.graph = c.graph /\ counted.handles = c.handles
      /\ counted.ar = (c.ar /\ ~skip)
  BY DEF Quiet, Good, Core
<1>3. EnterCapture(c, f) = IF ready.status = "raised" THEN ready ELSE d
  BY Zenon DEF EnterCapture
<1> DEFINE failed == {l \in Wanted : Missing(counted, l, f)}
           made   == [counted EXCEPT !.handles = @ \cup (Wanted \ failed)]
<1>4. \/ ready = counted /\ ~(counted.ar /\ Preinit)
      \/ ready = Raise(counted) /\ counted.ar
      \/ ready = made /\ (Strict => failed = {}) /\ counted.ar
  BY DEF PreinitForGraphCapture, Wanted
<1>5. /\ made.open = counted.open /\ made.saved = counted.saved
      /\ made.status = counted.status /\ made.graph = counted.graph
      /\ made.ar = counted.ar /\ made.handles = counted.handles \cup (Wanted \ failed)
  BY <1>1 DEF Good, Core
<1>6. made \in Good
  <2>1. Wanted \ failed \subseteq Libs
    <3>1. \A k \in ConfiguredRoutes : PathOf(k) \in Libs \cup {NoLib}
      BY PathOfType DEF ConfiguredRoutes, Kinds
    <3> QED BY <3>1 DEF Wanted, Missing
  <2> HIDE DEF counted, failed
  <2> QED BY <1>1, <2>1, HandleGood
<1>7. v.ar = c.ar /\ v.inCap = c.inCap /\ v.restoreAr = skip
  OBVIOUS
<1> HIDE DEF skip, counted, failed, made, v
<1>8. CASE ready = Raise(counted) /\ counted.ar
  <2>1. Raise(counted).open = {} /\ Raise(counted).status = "raised"
        /\ Raise(counted).graph = counted.graph /\ Raise(counted).handles = counted.handles
    BY <1>1, RaiseLeaves
  <2>2. Raise(counted).ar
    <3>1. Leave("capture", counted) = counted
      BY <1>2 DEF Leave
    <3> QED BY <1>1, <1>2, <1>8, <3>1, RaiseLeaves DEF CoreOk, EnvOk
  <2>3. CoreOk(Raise(counted))
    BY <1>2, <2>1, <2>2 DEF CoreOk, EnvOk, GraphOk, ReadyOk
  <2> QED BY <1>3, <1>8, <2>1, <2>3 DEF Stepped
<1>9. CASE ready \in {counted, made} /\ ready \in Good
  <2>1. /\ ready.open = c.open /\ ready.saved = c.saved /\ ready.graph = c.graph
        /\ c.handles \subseteq ready.handles /\ ready.ar = (c.ar /\ ~skip)
        /\ ready.status = "ok"
    BY <1>2, <1>5, <1>9
  <2> HIDE DEF ready
  <2>2. /\ d.open = c.open \cup {"capture"} /\ d.graph = ready.graph
        /\ d.handles = ready.handles /\ d.ar = ready.ar
        /\ d.saved["capture"] = v /\ d.saved["profile"] = c.saved["profile"]
    BY <1>9, <2>1 DEF Good, Core, SavedByScope, Scopes
  <2> HIDE DEF d
  <2>3. GraphOk(d)
    BY <2>1, <2>2 DEF CoreOk, GraphOk
  <2>4. EnvOk(d)
    BY <1>7, <2>1, <2>2 DEF CoreOk, EnvOk
  <2>5. ReadyOk(d)
    <3>1. Strict /\ Preinit /\ ready.ar => Wanted \subseteq ready.handles
      BY <1>2, <1>4, <1>5, <1>9, <2>1, RaiseLeaves, <1>1
    <3> QED BY <2>2, <3>1 DEF ReadyOk
  <2>6. \A w \in d.open : (w \in c.open /\ s.op # Exit[w]) \/ s.op = Enter[w]
    BY <2>2 DEF Good, Core, Scopes, Enter, Exit
  <2>7. EnterCapture(c, f) = d
    BY <1>3, <2>1
  <2> QED BY <2>2, <2>3, <2>4, <2>5, <2>6, <2>7 DEF Stepped, CoreOk
<1> QED BY <1>1, <1>4, <1>6, <1>8, <1>9

LEMMA ExitSteps ==
  ASSUME NEW c \in Good, CoreOk(c), c.status = "ok", NEW s, NEW w \in Scopes,
         s.op = Exit[w], w = "profile" => "capture" \notin c.open
  PROVE  Stepped(c, s, Leave(w, Quiet(c)))
<1> DEFINE q == Quiet(c)
           d == Leave(w, q)
<1>1. q \in Good /\ Kept(c, q) /\ CoreOk(q)
  BY QuietGood, QuietKeeps, KeptCoreOk
<1> HIDE DEF q
<1>2. /\ d.open = q.open \ {w} /\ d.saved = q.saved /\ d.graph = q.graph
      /\ d.handles = q.handles /\ d.status = q.status
      /\ d.ar = (IF w \in q.open /\ q.saved[w].restoreAr THEN q.saved[w].ar ELSE q.ar)
      /\ d.inCap = (IF w \in q.open THEN q.saved[w].inCap ELSE q.inCap)
  BY <1>1 DEF Leave, Good, Core
<1>3. q.open \subseteq {"profile", "capture"}
  BY <1>1 DEF Good, Core, Scopes
<1> HIDE DEF d
<1>4. EnvOk(d)
  <2>1. CASE w \notin q.open
    BY <1>1, <1>2, <2>1 DEF CoreOk, EnvOk
  <2>2. CASE w = "profile" /\ w \in q.open
    <3>1. q.open = {"profile"} /\ d.open = {}
      BY <1>1, <1>2, <1>3, <2>2 DEF Kept
    <3> QED BY <1>1, <1>2, <2>2, <3>1 DEF CoreOk, EnvOk
  <2>3. CASE w = "capture" /\ w \in q.open
    <3>1. d.open = {} \/ d.open = {"profile"}
      BY <1>2, <1>3, <2>3
    <3>2. CASE d.open = {"profile"}
      BY <1>1, <1>2, <3>2 DEF CoreOk, EnvOk
    <3>3. CASE d.open = {}
      <4>1. q.open = {"capture"}
        BY <1>2, <1>3, <2>3, <3>3
      <4> QED BY <1>1, <1>2, <2>3, <3>3, <4>1 DEF CoreOk, EnvOk
    <3> QED BY <3>1, <3>2, <3>3
  <2> QED BY <2>1, <2>2, <2>3 DEF Scopes
<1>5. GraphOk(d)
  BY <1>1, <1>2 DEF CoreOk, GraphOk
<1>6. ReadyOk(d)
  <2>1. CASE w = "capture"
    BY <1>2, <2>1 DEF ReadyOk
  <2>2. CASE w = "profile"
    BY <1>1, <1>2, <2>2 DEF ReadyOk, Kept
  <2> QED BY <2>1, <2>2 DEF Scopes
<1>7. \A x \in d.open : x \in c.open /\ s.op # Exit[x]
  BY <1>1, <1>2, <1>3 DEF Kept, Scopes, Exit
<1>8. s.op # "exitCapture" /\ "capture" \in c.open => "capture" \in d.open
  BY <1>1, <1>2 DEF Kept, Scopes, Exit
<1> QED BY <1>4, <1>5, <1>6, <1>7, <1>8 DEF Stepped, CoreOk, Scopes, Exit, d, q

(* start_deferred_workers from a state q with the wrappers of c. *)
LEMMA StartSteps ==
  ASSUME NEW c \in Good, CoreOk(c), NEW s, NEW f \in Fault,
         s.op \in {"afterCapture", "endExecute"}
  PROVE  Stepped(c, s, StartDeferredWorkers(Quiet(c), f))
<1> DEFINE q == Quiet(c)
           todo == q.handles \ q.started
           d == [q EXCEPT !.started = @ \cup (todo \ f.start)]
<1>1. q \in Good /\ Kept(c, q) /\ q.handles = c.handles
  BY QuietGood, QuietKeeps
<1>2. \A w \in c.open : s.op # Exit[w]
  BY DEF Good, Core, Scopes, Exit
<1> HIDE DEF q
<1>3. CASE ~q.ar \/ ~Defer
  <2>1. StartDeferredWorkers(q, f) = q
    BY <1>3 DEF StartDeferredWorkers
  <2>2. CoreOk(q)
    BY <1>1, KeptCoreOk
  <2> QED BY <1>1, <1>2, <1>3, <2>1, <2>2 DEF Stepped, Kept, q
<1>4. CASE q.ar /\ Defer /\ Strict /\ todo \cap f.start # {}
  <2>1. StartDeferredWorkers(q, f) = Raise(q)
    BY <1>4 DEF StartDeferredWorkers
  <2> QED BY <1>1, <2>1, RaiseSteps DEF CoreOk, q
<1>5. CASE q.ar /\ Defer /\ ~(Strict /\ todo \cap f.start # {})
  <2>1. StartDeferredWorkers(q, f) = d
    BY <1>5 DEF StartDeferredWorkers
  <2>2. /\ d.open = q.open /\ d.saved = q.saved /\ d.ar = q.ar /\ d.inCap = q.inCap
        /\ d.status = q.status /\ d.graph = q.graph /\ d.handles = q.handles
        /\ d.started = q.started \cup (todo \ f.start)
    BY <1>1 DEF Good, Core
  <2> HIDE DEF d
  <2>3. CoreOk(d)
    BY <1>1, <2>2 DEF CoreOk, EnvOk, GraphOk, ReadyOk, Kept
  <2>4. Strict => q.handles \subseteq d.started
    BY <1>5, <2>2
  <2> QED BY <1>1, <1>2, <2>1, <2>2, <2>3, <2>4 DEF Stepped, Kept, q
<1> QED BY <1>3, <1>4, <1>5
LEMMA EndExecuteSteps ==
  ASSUME NEW c \in Good, CoreOk(c), NEW s, NEW real \in BOOLEAN, NEW f \in Fault,
         s.op = "endExecute"
  PROVE  Stepped(c, s, EndExecute(Quiet(c), real, f))
<1> DEFINE q == Quiet(c)
           b == StartDeferredWorkers(q, f)
           d == [b EXCEPT !.armed = TRUE]
<1>1. q \in Good /\ Kept(c, q) /\ q.handles = c.handles
  BY QuietGood, QuietKeeps
<1>2. Stepped(c, s, q)
  BY <1>1, KeptSteps
<1>3. b \in Good /\ Stepped(c, s, b)
  BY <1>1, StartGood, StartSteps
<1>4. EndExecute(q, real, f) \in {q, b, d}
  BY DEF EndExecute
<1> HIDE DEF q, b
<1>5. Stepped(c, s, d)
  <2>1. /\ d.open = b.open /\ d.saved = b.saved /\ d.ar = b.ar /\ d.inCap = b.inCap
        /\ d.status = b.status /\ d.graph = b.graph /\ d.handles = b.handles
        /\ d.started = b.started
    BY <1>3 DEF Good, Core
  <2> HIDE DEF d
  <2> QED BY <1>3, <2>1 DEF Stepped, CoreOk, EnvOk, GraphOk, ReadyOk
<1> QED BY <1>2, <1>3, <1>4, <1>5 DEF q

LEMMA ApplySteps ==
  ASSUME NEW c \in Good, CoreOk(c), c.status = "ok", NEW s \in Legal, NEW f \in Fault,
         Placed(c, s)
  PROVE  Stepped(c, s, Apply(c, s, f))
<1>1. s \in Step /\ s.flag \in BOOLEAN
  BY DEF Legal, Step
<1>2. CASE s.op = "run"
  BY <1>2, RunSteps
<1>3. CASE s.op = "record"
  BY <1>3, RecordSteps DEF Placed
<1>4. CASE s.op = "replay"
  <2>1. Kept(c, [c EXCEPT !.last = c.graph])
    BY DEF Kept, Good, Core
  <2> QED BY <1>4, <2>1, KeptSteps DEF Apply
<1>5. CASE s.op = "enterProfile"
  BY <1>5, EnterProfileSteps DEF Apply, Placed
<1>6. CASE s.op = "enterCapture"
  BY <1>6, EnterCaptureSteps DEF Apply, Placed
<1>7. CASE s.op = "exitCapture"
  <2>1. s.op = Exit["capture"] /\ "capture" \in Scopes
    BY <1>7 DEF Exit, Scopes
  <2> QED BY <1>7, <2>1, ExitSteps DEF Apply
<1>8. CASE s.op = "exitProfile"
  <2>1. s.op = Exit["profile"] /\ "profile" \in Scopes
    BY <1>8 DEF Exit, Scopes
  <2> QED BY <1>8, <2>1, ExitSteps DEF Apply, Placed
<1>9. CASE s.op = "clearGraphs"
  <2> DEFINE d == [Quiet(c) EXCEPT !.graph = <<>>]
  <2>1. /\ d.open = c.open /\ d.saved = c.saved /\ d.ar = c.ar /\ d.inCap = c.inCap
        /\ d.status = c.status /\ d.graph = <<>> /\ d.handles = c.handles
    BY DEF Quiet, Good, Core
  <2>2. Apply(c, s, f) = d
    BY <1>9 DEF Apply
  <2> HIDE DEF d
  <2>3. Len(d.graph) = 0
    BY <2>1
  <2>4. CoreOk(d)
    BY <2>1, <2>3 DEF CoreOk, EnvOk, GraphOk, ReadyOk
  <2>5. \A w \in c.open : s.op # Exit[w]
    BY <1>9 DEF Good, Core, Scopes, Exit
  <2> QED BY <1>9, <2>1, <2>2, <2>4, <2>5 DEF Stepped
<1>10. CASE s.op = "afterCapture"
  BY <1>10, StartSteps DEF Apply
<1>11. CASE s.op = "endExecute"
  BY <1>1, <1>11, EndExecuteSteps DEF Apply
<1> QED BY <1>1, <1>2, <1>3, <1>4, <1>5, <1>6, <1>7, <1>8, <1>9, <1>10, <1>11 DEF Step

-----------------------------------------------------------------------------
(* The engine's calls are well nested.                                     *)

LEMMA DoElement ==
  ASSUME NEW op
  PROVE  Len(Do(op)) = 1 /\ Do(op)[1].op = op
BY DEF Do

LEMMA WarmupOps ==
  /\ WarmupAndCapture \in Seq(Legal)
  /\ \A i \in 1..Len(WarmupAndCapture) : WarmupAndCapture[i].op \in {"run", "record"}
<1> DEFINE n == Warmups * Len(Model)
           p == [i \in 1..n |-> [op |-> "run", call |-> ((i - 1) % Len(Model)) + 1,
                                 flag |-> TRUE]]
           q == Body("record", TRUE)
           T == [op: {"run", "record"}, call: Int, flag: BOOLEAN]
<1>1. Len(Model) \in Nat /\ Warmups \in Nat
  BY ARAssumption, LenProperties
<1>2. q \in Seq(T)
  BY <1>1 DEF Body
<1>3. p \in Seq(T)
  <2>1. n \in Nat
    BY <1>1
  <2>2. \A i \in 1..n : ((i - 1) % Len(Model)) + 1 \in Int
    <3> SUFFICES ASSUME NEW i \in 1..n PROVE ((i - 1) % Len(Model)) + 1 \in Int
      OBVIOUS
    <3>1. Len(Model) # 0
      BY <1>1
    <3>2. i - 1 \in Int
      BY <2>1
    <3> HIDE DEF n
    <3> QED BY <1>1, <3>1, <3>2
  <2> HIDE DEF n
  <2> QED BY <2>1, <2>2
<1>4. p \o q \in Seq(T)
  BY <1>2, <1>3, ConcatProperties
<1>5. WarmupAndCapture = p \o q
  BY DEF WarmupAndCapture
<1>6. \A i \in 1..Len(WarmupAndCapture) : WarmupAndCapture[i] \in T
  BY <1>4, <1>5, ElementOfSeq
<1> QED BY <1>6, WarmupLegal

(* A capture context: entered, run and recorded in, left. *)
LEMMA CaptureContextOps ==
  /\ CaptureContext \in Seq(Legal)
  /\ \/ CaptureContext = <<>>
     \/ LET m == Len(CaptureContext) IN
        /\ m >= 2 /\ CaptureContext[1].op = "enterCapture"
        /\ CaptureContext[m].op = "exitCapture"
        /\ \A i \in 2..(m - 1) : CaptureContext[i].op \in {"run", "record"}
<1> DEFINE p == Do("enterCapture")
           w == WarmupAndCapture
           q == Do("exitCapture")
<1>1. p \in Seq(Legal) /\ q \in Seq(Legal) /\ w \in Seq(Legal) /\ <<>> \in Seq(Legal)
  BY DoLegal, WarmupLegal, EmptySeq
<1>2. /\ Len(p) = 1 /\ p[1].op = "enterCapture" /\ Len(q) = 1 /\ q[1].op = "exitCapture"
      /\ \A i \in 1..Len(w) : w[i].op \in {"run", "record"}
  BY DoElement, WarmupOps
<1>3. CaptureContext = IF Graphs THEN p \o w \o q ELSE <<>>
  BY DEF CaptureContext
<1> HIDE DEF p, w, q
<1>4. /\ p \o w \in Seq(Legal) /\ Len(p \o w) = Len(w) + 1 /\ Len(w) \in Nat
      /\ (p \o w)[1] = p[1]
      /\ \A i \in 2..(Len(w) + 1) : (p \o w)[i] = w[i - 1]
  <2>1. Len(w) \in Nat
    BY <1>1, LenProperties
  <2>2. /\ p \o w \in Seq(Legal) /\ Len(p \o w) = Len(p) + Len(w)
        /\ \A i \in 1..(Len(p) + Len(w)) :
             (p \o w)[i] = IF i <= Len(p) THEN p[i] ELSE w[i - Len(p)]
    BY <1>1, ConcatProperties
  <2> QED BY <1>2, <2>1, <2>2
<1>5. /\ p \o w \o q \in Seq(Legal) /\ Len(p \o w \o q) = Len(w) + 2
      /\ (p \o w \o q)[Len(w) + 2] = q[1]
      /\ \A i \in 1..(Len(w) + 1) : (p \o w \o q)[i] = (p \o w)[i]
  BY <1>1, <1>2, <1>4, ConcatProperties
<1> QED BY <1>1, <1>2, <1>3, <1>4, <1>5

(* Sequences of run, replay and closing steps only are nested. *)
LEMMA FlatNested ==
  ASSUME NEW s, \A i \in 1..Len(s) : s[i].op \in {"run", "replay", "endExecute", "clearGraphs",
                                                 "afterCapture"}
  PROVE  Nested(s)
BY DEF Nested

(* So is a capture context that something flat may follow. *)
LEMMA ContextNested ==
  ASSUME NEW s \in Seq(Legal), NEW m \in Nat, m >= 2, m <= Len(s),
         s[1].op = "enterCapture", s[m].op = "exitCapture",
         \A i \in 2..(m - 1) : s[i].op \in {"run", "record"},
         \A i \in (m + 1)..Len(s) : s[i].op \in {"clearGraphs", "afterCapture"}
  PROVE  Nested(s)
<1>1. Len(s) \in Nat
  BY LenProperties
<1>2. ASSUME NEW i \in 1..Len(s)
      PROVE  i = 1 \/ i \in 2..(m - 1) \/ i = m \/ i \in (m + 1)..Len(s)
  BY <1>1
<1>3. m \in 2..Len(s)
  BY <1>1
<1>4. ASSUME NEW i \in 2..(m - 1)
      PROVE  \A k \in 1..i : s[k].op # "exitCapture"
  <2> TAKE k \in 1..i
  <2>1. k = 1 \/ k \in 2..(m - 1)
    BY <1>4
  <2> QED BY <2>1
<1> SUFFICES ASSUME NEW i \in 1..Len(s)
             PROVE  /\ s[i].op \notin {"enterProfile", "exitProfile"}
                    /\ s[i].op = "enterCapture" =>
                         /\ i = 1 /\ \E j \in (i + 1)..Len(s) : s[j].op = "exitCapture"
                    /\ s[i].op = "record" =>
                         \E j \in 1..(i - 1) : /\ s[j].op = "enterCapture"
                                               /\ \A k \in j..i : s[k].op # "exitCapture"
  BY DEF Nested
<1>5. CASE i = 1
  BY <1>3, <1>5
<1>6. CASE i \in 2..(m - 1)
  <2>1. 1 \in 1..(i - 1)
    BY <1>6
  <2> QED BY <1>4, <1>6, <2>1
<1>7. CASE i = m \/ i \in (m + 1)..Len(s)
  BY <1>7
<1> QED BY <1>2, <1>5, <1>6, <1>7
(* And the same inside the profile wrapper. *)
LEMMA ProfileNested ==
  ASSUME NEW s \in Seq(Legal), NEW m \in Nat, m >= 3, m < Len(s),
         s[1].op = "enterProfile", s[Len(s)].op = "exitProfile",
         s[2].op = "enterCapture", s[m].op = "exitCapture",
         \A i \in 3..(m - 1) : s[i].op \in {"run", "record"},
         \A i \in (m + 1)..(Len(s) - 1) : s[i].op = "clearGraphs"
  PROVE  Nested(s)
<1>1. Len(s) \in Nat /\ Len(s) > 3
  BY LenProperties
<1>2. ASSUME NEW i \in 1..Len(s)
      PROVE  \/ i = 1 \/ i = 2 \/ i \in 3..(m - 1) \/ i = m
             \/ i \in (m + 1)..(Len(s) - 1) \/ i = Len(s)
  BY <1>1
<1>3. ASSUME NEW i \in 3..(m - 1)
      PROVE  \A k \in 2..i : s[k].op # "exitCapture"
  <2> TAKE k \in 2..i
  <2>1. k = 2 \/ k \in 3..(m - 1)
    BY <1>3
  <2> QED BY <2>1
<1>4. m \in 3..Len(s) /\ Len(s) \in 2..Len(s)
  BY <1>1
<1> SUFFICES ASSUME NEW i \in 1..Len(s)
             PROVE  /\ s[i].op = "enterProfile" =>
                         i = 1 /\ \E j \in (i + 1)..Len(s) : s[j].op = "exitProfile"
                    /\ s[i].op = "exitProfile" => i = Len(s)
                    /\ s[i].op = "enterCapture" =>
                         i = 2 /\ \E j \in (i + 1)..Len(s) : s[j].op = "exitCapture"
                    /\ s[i].op = "record" =>
                         \E j \in 1..(i - 1) : /\ s[j].op = "enterCapture"
                                               /\ \A k \in j..i : s[k].op # "exitCapture"
  BY DEF Nested
<1>5. CASE i = 1
  BY <1>4, <1>5
<1>6. CASE i = 2
  BY <1>4, <1>6
<1>7. CASE i \in 3..(m - 1)
  <2>1. 2 \in 1..(i - 1)
    BY <1>7
  <2> QED BY <1>3, <1>7, <2>1
<1>8. CASE i = m \/ i \in (m + 1)..(Len(s) - 1) \/ i = Len(s)
  BY <1>8
<1> QED BY <1>2, <1>5, <1>6, <1>7, <1>8

(* t is s and a step of kind op. *)
Extended(t, s, op) ==
  /\ t \in Seq(Legal) /\ Len(s) \in Nat /\ Len(t) = Len(s) + 1
  /\ t[Len(s) + 1].op = op
  /\ \A i \in 1..Len(s) : t[i] = s[i]

LEMMA AfterDo ==
  ASSUME NEW s \in Seq(Legal), NEW op, Do(op) \in Seq(Legal)
  PROVE  Extended(s \o Do(op), s, op)
<1> DEFINE q == Do(op)
<1>1. Len(s) \in Nat
  BY LenProperties
<1>2. Len(q) = 1 /\ q[1].op = op
  BY DoElement
<1> HIDE DEF q
<1>3. /\ s \o q \in Seq(Legal) /\ Len(s \o q) = Len(s) + Len(q)
      /\ \A i \in 1..(Len(s) + Len(q)) :
           (s \o q)[i] = IF i <= Len(s) THEN s[i] ELSE q[i - Len(s)]
  BY ConcatProperties DEF q
<1>4. /\ (s \o q)[Len(s) + 1] = q[1]
      /\ \A i \in 1..Len(s) : (s \o q)[i] = s[i]
  BY <1>1, <1>2, <1>3
<1> QED BY <1>1, <1>2, <1>3, <1>4 DEF q, Extended

LEMMA BodyNested ==
  ASSUME NEW fits \in BOOLEAN
  PROVE  /\ Nested(Body("run", fits))
         /\ \A real \in BOOLEAN :
              \A i \in 1..Len(ExecuteEager(fits, real)) :
                ExecuteEager(fits, real)[i].op \in {"run", "endExecute"}
<1> DEFINE T == [op: {"run", "endExecute"}, call: Int, flag: BOOLEAN]
<1>1. Len(Model) \in Nat
  BY ARAssumption, LenProperties
<1>2. Body("run", fits) \in Seq(T)
  BY <1>1 DEF Body
<1>3. ASSUME NEW real \in BOOLEAN
      PROVE  ExecuteEager(fits, real) \in Seq(T)
  <2>1. <<[op |-> "endExecute", call |-> 0, flag |-> real]>> \in Seq(T)
    OBVIOUS
  <2> QED BY <1>2, <2>1, ConcatProperties DEF ExecuteEager
<1>4. ASSUME NEW i \in 1..Len(Body("run", fits))
      PROVE  Body("run", fits)[i].op \in {"run", "endExecute"}
  <2>1. Body("run", fits)[i] \in T
    BY <1>2, ElementOfSeq
  <2> QED BY <2>1
<1>5. ASSUME NEW real \in BOOLEAN, NEW i \in 1..Len(ExecuteEager(fits, real))
      PROVE  ExecuteEager(fits, real)[i].op \in {"run", "endExecute"}
  <2>1. ExecuteEager(fits, real)[i] \in T
    BY <1>3, <1>5, ElementOfSeq
  <2> QED BY <2>1
<1> QED BY <1>4, <1>5, FlatNested

LEMMA ReplayOps ==
  \A i \in 1..Len(ExecuteReplay) : ExecuteReplay[i].op \in {"replay", "endExecute"}
<1>1. Do("replay") \in Seq(Legal) /\ Do("endExecute") \in Seq(Legal)
  BY DoLegal
<1>2. /\ Len(ExecuteReplay) = 2 /\ ExecuteReplay[1].op = "replay"
      /\ ExecuteReplay[2].op = "endExecute"
  <2>1. Len(Do("replay")) = 1 /\ Do("replay")[1].op = "replay"
    BY DoElement
  <2>2. Extended(ExecuteReplay, Do("replay"), "endExecute")
    BY <1>1, AfterDo DEF ExecuteReplay
  <2> QED BY <2>1, <2>2 DEF Extended
<1> QED BY <1>2

LEMMA CaptureModelNested ==
  /\ Nested(CaptureModel)
  /\ AfterCapture => Len(CaptureModel) > 0
                     /\ CaptureModel[Len(CaptureModel)].op = "afterCapture"
<1> DEFINE x == CaptureContext
           q == Do("afterCapture")
<1>1. x \in Seq(Legal) /\ q \in Seq(Legal)
  BY CaptureContextOps, DoLegal
<1>2. /\ x \o q \in Seq(Legal) /\ Len(x) \in Nat /\ Len(x \o q) = Len(x) + 1
      /\ (x \o q)[Len(x) + 1].op = "afterCapture"
      /\ \A i \in 1..Len(x) : (x \o q)[i] = x[i]
  <2>1. Extended(x \o q, x, "afterCapture")
    BY <1>1, AfterDo
  <2> QED BY <2>1 DEF Extended
<1>3. CaptureModel = IF AfterCapture THEN x \o q ELSE x
  BY DEF CaptureModel
<1>4. \/ x = <<>>
      \/ /\ Len(x) >= 2 /\ x[1].op = "enterCapture" /\ x[Len(x)].op = "exitCapture"
         /\ \A i \in 2..(Len(x) - 1) : x[i].op \in {"run", "record"}
  BY CaptureContextOps
<1> HIDE DEF x, q
<1>5. CASE x = <<>>
  <2>1. Len(x) = 0
    BY <1>5
  <2>2. Nested(x) /\ Nested(x \o q)
    BY <1>2, <2>1, FlatNested
  <2> QED BY <1>2, <1>3, <2>2
<1>6. CASE x # <<>>
  <2>1. Nested(x)
    BY <1>1, <1>2, <1>4, <1>6, ContextNested
  <2>2. Nested(x \o q)
    <3> DEFINE s == x \o q
    <3>1. /\ s[1].op = "enterCapture" /\ s[Len(x)].op = "exitCapture"
          /\ \A i \in 2..(Len(x) - 1) : s[i].op \in {"run", "record"}
          /\ \A i \in (Len(x) + 1)..Len(s) : s[i].op \in {"clearGraphs", "afterCapture"}
      BY <1>2, <1>4, <1>6
    <3>2. s \in Seq(Legal) /\ Len(x) <= Len(s) /\ Len(x) >= 2 /\ Len(x) \in Nat
      BY <1>2, <1>4, <1>6
    <3> HIDE DEF s
    <3>3. Nested(s)
      BY <3>1, <3>2, ContextNested
    <3> QED BY <3>3 DEF s
  <2> QED BY <1>2, <1>3, <2>1, <2>2
<1> QED BY <1>5, <1>6
LEMMA ProfileMemoryNested == Nested(ProfileCudagraphMemory)
<1> DEFINE x == CaptureContext
           p == Do("enterProfile")
           q == Do("clearGraphs")
           z == Do("exitProfile")
<1>1. x \in Seq(Legal) /\ p \in Seq(Legal) /\ q \in Seq(Legal) /\ z \in Seq(Legal)
  BY CaptureContextOps, DoLegal
<1>2. \/ x = <<>>
      \/ /\ Len(x) >= 2 /\ x[1].op = "enterCapture" /\ x[Len(x)].op = "exitCapture"
         /\ \A i \in 2..(Len(x) - 1) : x[i].op \in {"run", "record"}
  BY CaptureContextOps
<1>3. /\ x \o q \in Seq(Legal) /\ Len(x) \in Nat /\ Len(x \o q) = Len(x) + 1
      /\ (x \o q)[Len(x) + 1].op = "clearGraphs"
      /\ \A i \in 1..Len(x) : (x \o q)[i] = x[i]
  <2>1. Extended(x \o q, x, "clearGraphs")
    BY <1>1, AfterDo
  <2> QED BY <2>1 DEF Extended
<1>4. /\ Len(p) = 1 /\ p[1].op = "enterProfile"
  BY DoElement
<1>5. ProfileCudagraphMemory =
        IF AfterCapture \/ AfterPrefill THEN p \o x \o q \o z ELSE x \o q
  BY DEF ProfileCudagraphMemory
<1> DEFINE s == x \o q
           t == p \o x
           u == t \o q
           v == u \o z
<1>6. /\ t \in Seq(Legal) /\ Len(t) = Len(x) + 1 /\ t[1].op = "enterProfile"
      /\ \A i \in 1..Len(x) : t[i + 1] = x[i]
  <2> HIDE DEF x, p
  <2>1. /\ p \o x \in Seq(Legal) /\ Len(p \o x) = Len(p) + Len(x)
        /\ \A i \in 1..(Len(p) + Len(x)) :
             (p \o x)[i] = IF i <= Len(p) THEN p[i] ELSE x[i - Len(p)]
    BY <1>1, ConcatProperties
  <2> QED BY <1>3, <1>4, <2>1
<1>7. /\ u \in Seq(Legal) /\ Len(u) = Len(x) + 2 /\ u[Len(x) + 2].op = "clearGraphs"
      /\ \A i \in 1..(Len(x) + 1) : u[i] = t[i]
  <2> HIDE DEF t, x
  <2>1. Extended(u, t, "clearGraphs")
    BY <1>1, <1>6, AfterDo
  <2> HIDE DEF u
  <2> QED BY <1>3, <1>6, <2>1 DEF Extended
<1>8. /\ v \in Seq(Legal) /\ Len(v) = Len(x) + 3 /\ v[Len(x) + 3].op = "exitProfile"
      /\ \A i \in 1..(Len(x) + 2) : v[i] = u[i]
  <2> HIDE DEF u, x
  <2>1. Extended(v, u, "exitProfile")
    BY <1>1, <1>7, AfterDo
  <2> HIDE DEF v
  <2> QED BY <1>3, <1>7, <2>1 DEF Extended
<1>9. ProfileCudagraphMemory = IF AfterCapture \/ AfterPrefill THEN v ELSE s
  BY <1>5
<1>10. /\ v[1].op = "enterProfile" /\ v[Len(x) + 2].op = "clearGraphs"
       /\ \A i \in 1..Len(x) : v[i + 1] = x[i]
  <2> HIDE DEF x, t, u, v
  <2>1. v[1] = u[1] /\ u[1] = t[1] /\ v[Len(x) + 2] = u[Len(x) + 2]
    BY <1>3, <1>7, <1>8
  <2>2. ASSUME NEW i \in 1..Len(x) PROVE v[i + 1] = x[i]
    <3>1. i + 1 \in 1..(Len(x) + 1) /\ i + 1 \in 1..(Len(x) + 2)
      BY <1>3
    <3> QED BY <1>6, <1>7, <1>8, <3>1
  <2> QED BY <1>6, <1>7, <2>1, <2>2
<1> HIDE DEF x, s, v
<1>11. CASE x = <<>>
  <2>1. Len(x) = 0
    BY <1>11
  <2>2. Nested(s)
    BY <1>3, <2>1, FlatNested DEF s
  <2>3. Nested(v)
    <3>1. /\ Len(v) = 3 /\ v[1].op = "enterProfile" /\ v[2].op = "clearGraphs"
          /\ v[3].op = "exitProfile"
      BY <1>8, <1>10, <2>1
    <3> QED BY <3>1 DEF Nested
  <2> QED BY <1>9, <2>2, <2>3
<1>12. CASE x # <<>>
  <2>1. /\ Len(x) \in Nat /\ Len(x) >= 2 /\ x[1].op = "enterCapture"
        /\ x[Len(x)].op = "exitCapture"
        /\ \A i \in 2..(Len(x) - 1) : x[i].op \in {"run", "record"}
    BY <1>2, <1>3, <1>12
  <2>2. Nested(s)
    <3>1. /\ s \in Seq(Legal) /\ Len(s) = Len(x) + 1 /\ s[Len(x) + 1].op = "clearGraphs"
          /\ \A i \in 1..Len(x) : s[i] = x[i]
      BY <1>3 DEF s
    <3>2. /\ s[1].op = "enterCapture" /\ s[Len(x)].op = "exitCapture"
          /\ \A i \in 2..(Len(x) - 1) : s[i].op \in {"run", "record"}
          /\ \A i \in (Len(x) + 1)..Len(s) : s[i].op \in {"clearGraphs", "afterCapture"}
          /\ Len(x) <= Len(s)
      BY <2>1, <3>1
    <3> QED BY <2>1, <3>1, <3>2, ContextNested
  <2>3. Nested(v)
    <3> DEFINE m == Len(x) + 1
    <3>1. m \in Nat /\ m >= 3 /\ m < Len(v)
      BY <1>8, <2>1
    <3>2. v[2].op = "enterCapture" /\ v[m].op = "exitCapture"
      BY <1>10, <2>1
    <3>3. ASSUME NEW i \in 3..(m - 1) PROVE v[i].op \in {"run", "record"}
      <4>1. i - 1 \in 1..Len(x) /\ i - 1 \in 2..(Len(x) - 1) /\ (i - 1) + 1 = i
        BY <2>1
      <4> QED BY <1>10, <2>1, <4>1
    <3>4. \A i \in (m + 1)..(Len(v) - 1) : v[i].op = "clearGraphs"
      BY <1>8, <1>10, <2>1
    <3>5. v[Len(v)].op = "exitProfile" /\ v \in Seq(Legal)
      BY <1>8
    <3> HIDE DEF m
    <3> QED BY <1>10, <3>1, <3>2, <3>3, <3>4, <3>5, ProfileNested
  <2> QED BY <1>9, <2>2, <2>3
<1> QED BY <1>11, <1>12
-----------------------------------------------------------------------------
(* The invariant, beside the one of PersistentAR_proofs.                   *)

LEMMA InitCInv == Init => CInv
<1> SUFFICES ASSUME Init PROVE CInv
  OBVIOUS
<1>1. Len(rpc) = 0 /\ phase = "boot" /\ past = [r \in Ranks |-> <<Core0>>]
  BY DEF Init
<1>2. \A r \in Ranks : Len(past[r]) = 1 /\ Cur(r) = Core0
  BY <1>1 DEF Cur
<1>3. /\ Core0.open = {} /\ Core0.ar /\ ~Core0.inCap /\ Core0.graph = <<>>
  BY DEF Core0
<1>4. CoreOk(Core0)
  <2>1. Len(Core0.graph) = 0
    BY <1>3
  <2> HIDE DEF Core0
  <2> QED BY <1>3, <2>1 DEF CoreOk, EnvOk, GraphOk, ReadyOk
<1> HIDE DEF Core0
<1>5. CallInv
  BY <1>1 DEF CallInv, Nested
<1>6. OpenInv
  <2>1. ~ Capturing(1)
    BY DEF Capturing
  <2> QED BY <1>2, <1>3, <1>4, <2>1 DEF OpenInv
<1>7. NoCreateWhileRecording
  <2>1. ASSUME NEW r \in Ranks PROVE 1..(Len(past[r]) - 1) = {}
    <3>1. Len(past[r]) = 1
      BY <1>2
    <3> QED BY <3>1
  <2> QED BY <2>1 DEF NoCreateWhileRecording
<1>8. AnsweredInv
  BY <1>1 DEF AnsweredInv
<1> QED BY <1>5, <1>6, <1>7, <1>8 DEF CInv

LEMMA DispatchCInv ==
  ASSUME IInv, CInv, IInv', NEW steps, NEW next, Dispatch(steps, next), CallInv',
         next = "serving" => phase \in {"captured", "serving"}
  PROVE  CInv'
<1>1. ASSUME NEW r \in Ranks
      PROVE  /\ Len(past'[r]) = 1 /\ Cur(r)' = Cur(r) /\ Cur(r).open = {}
             /\ Done(r) /\ CoreOk(Cur(r))
  <2>1. past'[r] = <<Cur(r)>> /\ Done(r) /\ CoreOk(Cur(r))
    BY DEF Dispatch, Quiescent, CInv, OpenInv
  <2>2. Len(past'[r]) = 1 /\ past'[r][1] = Cur(r)
    BY <2>1
  <2>3. Len(past[r]) = Len(rpc) + 1 /\ Len(rpc) \in Nat
    BY <2>1, LenProperties DEF Done, IInv, PastInv
  <2>4. Cur(r).open = {}
    BY <2>3 DEF CInv, OpenInv
  <2> QED BY <2>1, <2>2, <2>4 DEF Cur
<1>2. OpenInv'
  <2>1. ~ Capturing(1)'
    BY DEF Capturing
  <2> SUFFICES ASSUME NEW r \in Ranks
               PROVE  /\ CoreOk(Cur(r))'
                      /\ \A w \in Cur(r)'.open :
                           /\ \E j \in 1..(Len(past'[r]) - 1) : rpc'[j].op = Enter[w]
                           /\ \E j \in Len(past'[r])..Len(rpc') : rpc'[j].op = Exit[w]
                      /\ ~ Capturing(Len(past[r]))'
    BY DEF OpenInv
  <2>2. CoreOk(Cur(r))'
    BY <1>1 DEF CoreOk, EnvOk, GraphOk, ReadyOk
  <2>3. Cur(r)'.open = {}
    BY <1>1
  <2>4. ~ Capturing(Len(past[r]))'
    <3>1. Len(past'[r]) = 1
      BY <1>1
    <3> QED BY <3>1 DEF Capturing
  <2> QED BY <2>2, <2>3, <2>4
<1>3. NoCreateWhileRecording'
  <2>1. ASSUME NEW r \in Ranks PROVE 1..(Len(past'[r]) - 1) = {}
    <3>1. Len(past'[r]) = 1
      BY <1>1
    <3> QED BY <3>1
  <2> QED BY <2>1 DEF NoCreateWhileRecording
<1>4. AnsweredInv'
  <2> SUFFICES ASSUME AfterCapture, Defer, Strict, NEW r \in Ranks,
                      phase' = "serving" \/ (phase' = "captured" /\ Done(r)')
               PROVE  Answered(Cur(r))'
    BY DEF AnsweredInv
  <2>1. phase' = next
    BY DEF Dispatch
  <2>2. CASE phase' = "captured" /\ Done(r)'
    <3>1. Len(rpc') > 0
      BY <2>2 DEF CallInv
    <3>2. Len(rpc') \in Nat
      BY LenProperties DEF IInv, PastInv
    <3>3. Len(past'[r]) = Len(rpc') + 1
      BY <2>2 DEF Done
    <3>4. Len(past'[r]) = 1
      BY <1>1
    <3>5. \A m \in Nat : m > 0 => m + 1 # 1
      OBVIOUS
    <3>6. Len(rpc') + 1 # 1
      BY <3>1, <3>2, <3>5
    <3> QED BY <3>3, <3>4, <3>6
  <2>3. CASE phase' = "serving"
    <3>1. Answered(Cur(r))
      BY <1>1, <2>1, <2>3 DEF CInv, AnsweredInv
    <3> QED BY <1>1, <3>1 DEF Answered
  <2> QED BY <2>2, <2>3
<1> QED BY <1>2, <1>3, <1>4 DEF CInv

LEMMA RankStepCInv ==
  ASSUME IInv, CInv, NEW r \in Ranks, RankStep(r)
  PROVE  CInv'
<1> DEFINE n == Len(past[r])
           s == rpc[n]
           c == Cur(r)
<1>1. PICK f \in Fault : past' = [past EXCEPT ![r] = Append(@, Apply(c, s, f))]
  BY DEF RankStep
<1> DEFINE d == Apply(c, s, f)
<1>2. /\ past[r] \in Seq(Good) /\ n \in 1..Len(rpc) /\ Len(rpc) \in Nat
      /\ s \in Legal /\ c \in Good
  <2>1. past[r] \in Seq(Good) /\ rpc \in Seq(Legal) /\ n \in 1..(Len(rpc) + 1)
    BY DEF IInv, PastInv
  <2>2. n <= Len(rpc)
    BY DEF RankStep
  <2>3. Len(rpc) \in Nat
    BY <2>1, LenProperties
  <2>4. n \in 1..Len(rpc)
    BY <2>1, <2>2, <2>3
  <2> QED BY <2>1, <2>3, <2>4, ElementOfSeq, CurGood DEF IInv
<1>3. /\ UNCHANGED <<rpc, phase>> /\ c = past[r][n] /\ c.status = "ok"
      /\ \A q \in Ranks \ {r} : past'[q] = past[q]
      /\ past'[r] = Append(past[r], d)
  BY <1>1 DEF RankStep, Cur, IInv, PastInv
<1>4. /\ Len(past'[r]) = n + 1 /\ past'[r][n + 1] = d
      /\ \A i \in 1..n : past'[r][i] = past[r][i]
  <2>1. d \in Good
    BY <1>2, ApplyGood
  <2> HIDE DEF d
  <2> QED BY <1>2, <1>3, <2>1, AppendProperties
<1>5. /\ CoreOk(c)
      /\ \A w \in c.open : /\ \E j \in 1..(n - 1) : rpc[j].op = Enter[w]
                           /\ \E j \in n..Len(rpc) : rpc[j].op = Exit[w]
      /\ Capturing(n) => "capture" \in c.open
  BY <1>3 DEF CInv, OpenInv
<1>6. /\ s.op = "enterProfile" => n = 1 /\ \E j \in (n + 1)..Len(rpc) : rpc[j].op = "exitProfile"
      /\ s.op = "exitProfile"  => n = Len(rpc)
      /\ s.op = "enterCapture" => /\ n = 1 \/ (n = 2 /\ rpc[1].op = "enterProfile")
                                  /\ \E j \in (n + 1)..Len(rpc) : rpc[j].op = "exitCapture"
      /\ s.op = "record" => \E j \in 1..(n - 1) : /\ rpc[j].op = "enterCapture"
                                                   /\ \A k \in j..n : rpc[k].op # "exitCapture"
  BY <1>2 DEF CInv, CallInv, Nested
<1> HIDE DEF n, c, d
<1>7. Placed(c, s)
  <2>1. s.op = "enterProfile" => c.open = {}
    BY <1>5, <1>6
  <2>2. ASSUME s.op = "enterCapture", "capture" \in c.open PROVE FALSE
    <3> Enter["capture"] = "enterCapture"
      BY DEF Enter, Scopes
    <3>1. PICK j \in 1..(n - 1) : rpc[j].op = "enterCapture"
      BY <1>5, <2>2
    <3>2. n = 2 /\ rpc[1].op = "enterProfile"
      BY <1>6, <2>2, <3>1
    <3> QED BY <3>1, <3>2
  <2>3. ASSUME s.op = "exitProfile", "capture" \in c.open PROVE FALSE
    <3> Exit["capture"] = "exitCapture"
      BY DEF Exit, Scopes
    <3>1. PICK j \in n..Len(rpc) : rpc[j].op = "exitCapture"
      BY <1>5, <2>3
    <3>2. j = n
      BY <1>2, <1>6, <2>3, <3>1
    <3> QED BY <2>3, <3>1, <3>2
  <2>4. ASSUME s.op = "record" PROVE "capture" \in c.open
    <3>1. PICK j \in 1..(n - 1) : /\ rpc[j].op = "enterCapture"
                                  /\ \A k \in j..n : rpc[k].op # "exitCapture"
      BY <1>6, <2>4
    <3>2. \A k \in j..(n - 1) : k \in j..n
      BY <1>2
    <3>3. Capturing(n)
      BY <3>1, <3>2 DEF Capturing
    <3> QED BY <1>5, <3>3
  <2> QED BY <2>1, <2>2, <2>3, <2>4 DEF Placed
<1>8. Stepped(c, s, d)
  BY <1>2, <1>3, <1>5, <1>7, ApplySteps DEF d
<1>9. Cur(r)' = d
  BY <1>2, <1>4 DEF Cur
<1>10. ASSUME NEW q \in Ranks \ {r}
       PROVE  past'[q] = past[q] /\ Cur(q)' = Cur(q)
  BY <1>3 DEF Cur
<1>11. CallInv'
  BY <1>3 DEF CInv, CallInv, Nested
<1>12. OpenInv'
  <2>1. ASSUME NEW w \in d.open
        PROVE  /\ \E j \in 1..n : rpc[j].op = Enter[w]
               /\ \E j \in (n + 1)..Len(rpc) : rpc[j].op = Exit[w]
    <3>1. CASE w \in c.open /\ s.op # Exit[w]
      <4>1. PICK j \in 1..(n - 1) : rpc[j].op = Enter[w]
        BY <1>5, <3>1
      <4>2. PICK k \in n..Len(rpc) : rpc[k].op = Exit[w]
        BY <1>5, <3>1
      <4>3. k # n
        BY <3>1, <4>2
      <4>4. j \in 1..n /\ k \in (n + 1)..Len(rpc)
        BY <1>2, <4>3
      <4> QED BY <4>1, <4>2, <4>4
    <3>2. CASE s.op = Enter[w]
      <4>1. w \in Scopes
        <5>1. d \in Good
          BY <1>2, ApplyGood DEF d
        <5> QED BY <5>1 DEF Good, Core
      <4>2. \E j \in (n + 1)..Len(rpc) : rpc[j].op = Exit[w]
        BY <1>6, <3>2, <4>1 DEF Enter, Exit, Scopes
      <4>3. n \in 1..n
        BY <1>2
      <4> QED BY <3>2, <4>2, <4>3
    <3> QED BY <1>8, <3>1, <3>2 DEF Stepped
  <2>2. ASSUME d.status = "ok", Capturing(n + 1)
        PROVE  "capture" \in d.open
    <3>1. PICK j \in 1..n : /\ rpc[j].op = "enterCapture"
                            /\ \A k \in j..n : rpc[k].op # "exitCapture"
      <4>1. (n + 1) - 1 = n
        BY <1>2
      <4> QED BY <2>2, <4>1 DEF Capturing
    <3>2. CASE j = n
      BY <1>8, <2>2, <3>1, <3>2 DEF Stepped
    <3>3. CASE j # n
      <4>1. j \in 1..(n - 1) /\ n \in j..n /\ \A k \in j..(n - 1) : k \in j..n
        BY <1>2, <3>3
      <4>2. "capture" \in c.open
        BY <1>5, <3>1, <4>1 DEF Capturing
      <4> QED BY <1>8, <2>2, <3>1, <4>1, <4>2 DEF Stepped
    <3> QED BY <3>2, <3>3
  <2>3. (n + 1) - 1 = n
    BY <1>2
  <2> SUFFICES ASSUME NEW q \in Ranks
               PROVE  /\ CoreOk(Cur(q))'
                      /\ \A w \in Cur(q)'.open :
                           /\ \E j \in 1..(Len(past'[q]) - 1) : rpc[j].op = Enter[w]
                           /\ \E j \in Len(past'[q])..Len(rpc) : rpc[j].op = Exit[w]
                      /\ Cur(q)'.status = "ok" /\ Capturing(Len(past'[q])) =>
                           "capture" \in Cur(q)'.open
    BY <1>3 DEF OpenInv, Capturing
  <2>4. CASE q = r
    <3>1. CoreOk(Cur(r))'
      BY <1>8, <1>9 DEF Stepped, CoreOk, EnvOk, GraphOk, ReadyOk
    <3> QED BY <1>4, <1>9, <2>1, <2>2, <2>3, <2>4, <3>1
  <2>5. CASE q # r
    <3>1. past'[q] = past[q] /\ Cur(q)' = Cur(q)
      BY <1>10, <2>5
    <3>2. CoreOk(Cur(q))'
      BY <3>1 DEF CInv, OpenInv, CoreOk, EnvOk, GraphOk, ReadyOk
    <3> QED BY <3>1, <3>2 DEF CInv, OpenInv
  <2> QED BY <2>4, <2>5
<1>13. NoCreateWhileRecording'
  <2> SUFFICES ASSUME Strict, Preinit, NEW q \in Ranks, NEW i \in 1..(Len(past'[q]) - 1),
                      rpc[i].op = "record"
               PROVE  past'[q][i + 1].handles = past'[q][i].handles
    BY <1>3 DEF NoCreateWhileRecording
  <2>1. CASE q # r
    BY <1>10, <2>1 DEF CInv, NoCreateWhileRecording
  <2>2. CASE q = r /\ i < n
    <3>1. i \in 1..(n - 1) /\ i \in 1..n /\ i + 1 \in 1..n
      BY <1>2, <2>2
    <3> QED BY <1>4, <2>2, <3>1 DEF CInv, NoCreateWhileRecording, n
  <2>3. CASE q = r /\ i = n
    <3>1. past'[r][n] = c /\ past'[r][n + 1] = d
      BY <1>2, <1>3, <1>4
    <3> QED BY <1>8, <2>3, <3>1 DEF Stepped
  <2>4. q # r \/ i <= n
    BY <1>2, <1>4
  <2> QED BY <1>2, <2>1, <2>2, <2>3, <2>4
<1>14. AnsweredInv'
  <2> SUFFICES ASSUME AfterCapture, Defer, Strict, NEW q \in Ranks,
                      phase = "serving" \/ (phase = "captured" /\ Done(q)')
               PROVE  Answered(Cur(q)')
    BY <1>3 DEF AnsweredInv, Answered
  <2>1. CASE q # r
    <3>1. Done(q)' = Done(q)
      BY <1>3, <1>10, <2>1 DEF Done
    <3> QED BY <1>10, <2>1, <3>1 DEF CInv, AnsweredInv
  <2>2. CASE q = r /\ phase = "serving"
    <3>1. s.op \in {"run", "replay", "endExecute"}
      BY <1>2, <2>2 DEF CInv, CallInv
    <3>2. Answered(c)
      BY <2>2 DEF CInv, AnsweredInv, c
    <3> QED BY <1>8, <1>9, <2>2, <3>1, <3>2 DEF Stepped, Answered
  <2>3. CASE q = r /\ phase = "captured" /\ Done(q)'
    <3>1. n = Len(rpc) /\ d.status = "ok"
      BY <1>2, <1>3, <1>4, <1>9, <2>3 DEF Done
    <3>2. s.op = "afterCapture"
      BY <2>3, <3>1 DEF CInv, CallInv
    <3>3. c.open = {}
      <4> SUFFICES ASSUME NEW w \in c.open PROVE FALSE
        OBVIOUS
      <4>1. PICK j \in n..Len(rpc) : rpc[j].op = Exit[w]
        BY <1>5
      <4>2. j = n /\ w \in Scopes
        BY <1>2, <3>1, <4>1 DEF Good, Core
      <4> QED BY <3>2, <4>1, <4>2 DEF Exit, Scopes
    <3>4. c.ar
      BY <1>5, <3>3 DEF CoreOk, EnvOk
    <3>5. d.graph = c.graph /\ d.handles = c.handles /\ c.handles \subseteq d.started
      BY <1>8, <3>1, <3>2, <3>4 DEF Stepped
    <3> QED BY <1>5, <1>9, <2>3, <3>5 DEF CoreOk, GraphOk, Answered
  <2> QED BY <2>1, <2>2, <2>3
<1> QED BY <1>11, <1>12, <1>13, <1>14 DEF CInv

LEMMA NextCInv == IInv /\ IInv' /\ CInv /\ [Next]_vars => CInv'
<1> SUFFICES ASSUME IInv, IInv', CInv, [Next]_vars PROVE CInv'
  OBVIOUS
<1>1. CASE ProfileRun
  <2>1. Nested(Body("run", FALSE))
    BY BodyNested
  <2>2. rpc' = Body("run", FALSE) /\ phase' = "profiled"
    BY <1>1 DEF ProfileRun, Dispatch
  <2>3. Nested(rpc')
    BY <2>1, <2>2
  <2>4. CallInv'
    BY <2>2, <2>3 DEF CallInv, Nested
  <2> QED BY <1>1, <2>4, DispatchCInv DEF ProfileRun
<1>2. CASE ProfileGraphs
  <2>1. CallInv'
    BY <1>2, ProfileMemoryNested DEF ProfileGraphs, Dispatch, CallInv, Nested
  <2> QED BY <1>2, <2>1, DispatchCInv DEF ProfileGraphs
<1>3. CASE Capture
  <2>1. CallInv'
    BY <1>3, CaptureModelNested DEF Capture, Dispatch, CallInv, Nested
  <2> QED BY <1>3, <2>1, DispatchCInv DEF Capture
<1>4. CASE Execute
  <2>1. PICK steps : /\ Dispatch(steps, "serving")
                     /\ \A i \in 1..Len(steps) : steps[i].op \in {"run", "replay", "endExecute"}
    <3>1. CASE \E fits, real \in BOOLEAN : Dispatch(ExecuteEager(fits, real), "serving")
      BY <3>1, BodyNested
    <3>2. CASE Dispatch(ExecuteReplay, "serving")
      BY <3>2, ReplayOps
    <3> QED BY <1>4, <3>1, <3>2 DEF Execute
  <2>2. Nested(steps)
    BY <2>1, FlatNested
  <2>3. CallInv'
    BY <2>1, <2>2 DEF Dispatch, CallInv, Nested
  <2>4. phase \in {"captured", "serving"}
    BY <1>4 DEF Execute
  <2> QED BY <2>1, <2>3, <2>4, DispatchCInv
<1>5. CASE \E r \in Ranks : RankStep(r)
  BY <1>5, RankStepCInv
<1>6. CASE Stopped \/ UNCHANGED vars
  <2>1. past' = past /\ rpc' = rpc /\ phase' = phase
    BY <1>6 DEF Stopped, vars
  <2>2. CallInv' /\ NoCreateWhileRecording'
    BY <2>1 DEF CInv, CallInv, Nested, NoCreateWhileRecording
  <2>3. OpenInv'
    BY <2>1 DEF CInv, OpenInv, Capturing, Cur, CoreOk, EnvOk, GraphOk, ReadyOk
  <2>4. AnsweredInv'
    BY <2>1 DEF CInv, AnsweredInv, Answered, Done, Cur
  <2> QED BY <2>2, <2>3, <2>4 DEF CInv
<1> QED BY <1>1, <1>2, <1>3, <1>4, <1>5, <1>6 DEF Next

(* What every call leaves true of each rank, in all reachable states. *)
THEOREM CallsNest == Spec => []CInv
BY InitCInv, NextCInv, InvariantHolds, PTL DEF Spec

-----------------------------------------------------------------------------
(* Whatever fails inside the wrappers of the capture and of the profile    *)
(* run, and at whatever step, the environment is as it was when they are   *)
(* left (graph_capture, _with_persistent_ar_disabled).                     *)
THEOREM EnvironmentComesBack == Spec => []EnvRestored
<1>1. CInv => EnvRestored
  BY DEF CInv, OpenInv, CoreOk, EnvOk, EnvRestored
<1> QED BY <1>1, CallsNest, PTL

(* With STRICT and PREINIT_ON_GRAPH_CAPTURE no recorded all-reduce creates *)
(* a handle, whatever routes and call sites are configured.                *)
THEOREM RecordingCreatesNothing == Spec => []NoCreateWhileRecording
<1>1. CInv => NoCreateWhileRecording
  BY DEF CInv
<1> QED BY <1>1, CallsNest, PTL

(* With START_AFTER_CAPTURE every library of the recorded graph has a      *)
(* worker that runs, for any model, routes and skipped contexts.           *)
THEOREM GraphsAreAnswered == Spec => []WorkersRunAfterCapture
<1>1. IInv /\ CInv => WorkersRunAfterCapture
  <2> SUFFICES ASSUME IInv, CInv, AfterCapture, Defer, Strict, NEW r \in Ranks,
                      phase = "serving" \/ (phase = "captured" /\ Quiescent)
               PROVE  {Cur(r).graph[i] : i \in DOMAIN Cur(r).graph} \ {"public"}
                        \subseteq Cur(r).started
    BY DEF WorkersRunAfterCapture
  <2>1. Answered(Cur(r))
    BY DEF CInv, AnsweredInv, Quiescent
  <2>2. DOMAIN Cur(r).graph = 1..Len(Cur(r).graph)
    <3>1. Cur(r).graph \in Trace
      BY CurGood DEF IInv, Good, Core
    <3> QED BY <3>1, LenProperties DEF Trace
  <2> QED BY <2>1, <2>2 DEF Answered
<1> QED BY <1>1, InvariantHolds, CallsNest, PTL
-----------------------------------------------------------------------------
(* What a served request's collectives go through.                         *)

(* The batch a step issues is answered by the workers of c.                *)
Served(c, d) == \A j \in DOMAIN d.last : d.last[j] \in c.started \cup {"public"}

LEMMA RaiseServed ==
  ASSUME NEW c, NEW b \in Good
  PROVE  Served(c, Raise(b))
<1> DEFINE e == Leave("profile", Leave("capture", b))
<1>1. e \in Good
  BY LeaveGood DEF Scopes
<1> HIDE DEF e
<1>2. Quiet(e) \in Good /\ Quiet(e).last = <<>>
  BY <1>1, QuietGood DEF Quiet, Good, Core
<1>3. Raise(b).last = <<>>
  BY <1>2 DEF Raise, e, Good, Core
<1> QED BY <1>3 DEF Served

LEMMA IssueServed ==
  ASSUME NEW c, NEW b \in Good, NEW t \in c.started \cup {"public"}
  PROVE  Served(c, Issue(b, t))
<1>1. Issue(b, t).last = <<t>>
  BY DEF Issue, Good, Core
<1> QED BY <1>1 DEF Served

(* Outside of a capture an all-reduce that is not fused meets a worker that *)
(* runs, or goes the public way.                                           *)
LEMMA RunServed ==
  ASSUME Defer, NEW c \in Good, ~ c.inCap, NEW call \in CallRecord, call.op # "fused",
         NEW fits \in BOOLEAN, NEW f \in Fault
  PROVE  Served(c, AllReduce(c, call, fits, f))
<1> DEFINE b == Counted(c, call)
<1>1. b \in Good /\ b.started = c.started /\ b.inCap = c.inCap
  BY CountedGood, CountedKeeps DEF Kept
<1>2. Served(c, Issue(c, "public")) /\ Served(c, Issue(Numbered(b), "public"))
  BY <1>1, NumberedGood, IssueServed
<1>3. ASSUME NEW e \in Good PROVE Served(c, Miss(e))
  BY <1>3, RaiseServed, IssueServed DEF Miss
<1>4. ASSUME NEW kind \in Kinds
      PROVE  Served(c, Sidecar(b, kind, f))
  <2> DEFINE lib == PathOf(kind)
             h   == [b EXCEPT !.handles = @ \cup {lib}]
  <2>1. CASE Missing(b, lib, f)
    BY <1>1, <1>3, <2>1 DEF Sidecar
  <2>2. CASE ~ Missing(b, lib, f)
    <3>1. lib \in Libs
      BY <2>2, PathOfType DEF Missing
    <3>2. h \in Good
      BY <1>1, <3>1, HandleKeeps
    <3>3. Served(c, Issue(h, "public")) /\ Served(c, Miss(h))
      BY <1>3, <3>2, IssueServed
    <3>4. lib \in b.started => Served(c, Issue(Numbered(h), lib))
      BY <1>1, <3>2, NumberedGood, IssueServed
    <3>5. \/ Sidecar(b, kind, f) = Issue(h, "public")
          \/ lib \in b.started /\ Sidecar(b, kind, f) \in {Miss(h), Issue(Numbered(h), lib)}
      BY <1>1, <2>2 DEF Sidecar, Launch
    <3> HIDE DEF h, lib, b
    <3> QED BY <3>3, <3>4, <3>5
  <2> QED BY <2>1, <2>2
<1>5. CallsiteRouteKind(c, call) \in Kinds
  BY DEF CallsiteRouteKind, CallRecord, Kinds
<1>6. TryAllReduceInplace(c, call, fits, f) \in
        {Issue(c, "public"), Issue(Numbered(b), "public"),
         Sidecar(b, CallsiteRouteKind(c, call), f)}
  BY DEF TryAllReduceInplace
<1> HIDE DEF b
<1>7. call.op \in {"inplace", "public"}
  BY DEF CallRecord
<1> QED BY <1>2, <1>4, <1>5, <1>6, <1>7 DEF AllReduce

LEMMA EndExecuteServed ==
  ASSUME NEW c, NEW b \in Good, NEW real, NEW f
  PROVE  Served(c, EndExecute(Quiet(b), real, f))
<1> DEFINE q == Quiet(b)
           d == StartDeferredWorkers(q, f)
<1>1. q \in Good /\ q.last = <<>>
  BY QuietGood DEF Quiet, Good, Core
<1> HIDE DEF q
<1>2. Served(c, d)
  <2>1. CASE d = Raise(q)
    BY <1>1, <2>1, RaiseServed
  <2>2. CASE d = q
    BY <1>1, <2>2 DEF Served
  <2>3. CASE d = [q EXCEPT !.started = @ \cup ((q.handles \ q.started) \ f.start)]
    <3>1. d.last = <<>>
      BY <1>1, <2>3 DEF Good, Core
    <3> QED BY <3>1 DEF Served
  <2> QED BY <2>1, <2>2, <2>3 DEF StartDeferredWorkers
<1>3. [d EXCEPT !.armed = TRUE].last = d.last
  <2>1. d = Raise(q) \/ d = q \/ d = [q EXCEPT !.started = @ \cup ((q.handles \ q.started) \ f.start)]
    BY DEF StartDeferredWorkers
  <2>2. d.last = [d EXCEPT !.armed = TRUE].last
    BY <1>1, <2>1 DEF Good, Core, Raise, Quiet
  <2> QED BY <2>2
<1>4. EndExecute(q, real, f) \in {q, d, [d EXCEPT !.armed = TRUE]}
  BY DEF EndExecute
<1> HIDE DEF d
<1>5. Served(c, q) /\ Served(c, [d EXCEPT !.armed = TRUE])
  BY <1>1, <1>2, <1>3 DEF Served
<1> QED BY <1>2, <1>4, <1>5 DEF q

(* What a fused boundary would need is not in this model: it launches      *)
(* without asking whether the worker was started.                          *)
NothingFused == \A i \in 1..Len(Model) : Model[i].op # "fused"

LEMMA ServedStep ==
  ASSUME IInv, CInv, ServedByLiveWorkers, Strict, AfterCapture, NothingFused,
         NEW r \in Ranks, RankStep(r)
  PROVE  ServedByLiveWorkers'
<1> DEFINE n == Len(past[r])
           s == rpc[n]
           c == Cur(r)
<1>1. PICK f \in Fault : past' = [past EXCEPT ![r] = Append(@, Apply(c, s, f))]
  BY DEF RankStep
<1> DEFINE d == Apply(c, s, f)
<1>2. /\ past[r] \in Seq(Good) /\ n \in 1..Len(rpc) /\ Len(rpc) \in Nat
      /\ s \in Legal /\ c \in Good
  <2>1. past[r] \in Seq(Good) /\ rpc \in Seq(Legal) /\ n \in 1..(Len(rpc) + 1)
    BY DEF IInv, PastInv
  <2>2. n <= Len(rpc)
    BY DEF RankStep
  <2>3. Len(rpc) \in Nat
    BY <2>1, LenProperties
  <2>4. n \in 1..Len(rpc)
    BY <2>1, <2>2, <2>3
  <2> QED BY <2>1, <2>3, <2>4, ElementOfSeq, CurGood DEF IInv
<1>3. /\ UNCHANGED <<rpc, phase>> /\ c = past[r][n] /\ c.status = "ok"
      /\ \A q \in Ranks \ {r} : past'[q] = past[q]
      /\ past'[r] = Append(past[r], d)
  BY <1>1 DEF RankStep, Cur, IInv, PastInv
<1>4. /\ Len(past'[r]) = n + 1 /\ past'[r][n + 1] = d
      /\ \A i \in 1..n : past'[r][i] = past[r][i]
  <2>1. d \in Good
    BY <1>2, ApplyGood
  <2> HIDE DEF d
  <2> QED BY <1>2, <1>3, <2>1, AppendProperties
<1> HIDE DEF n, d
<1> SUFFICES ASSUME phase = "serving", Defer, NEW q \in Ranks, NEW i \in 1..(Len(past'[q]) - 1)
             PROVE  Served(past'[q][i], past'[q][i + 1])
  BY <1>3 DEF ServedByLiveWorkers, Served
<1>5. CASE q # r
  BY <1>3, <1>5 DEF ServedByLiveWorkers, Served
<1>6. CASE q = r /\ i < n
  <2>1. i \in 1..(n - 1) /\ i \in 1..n /\ i + 1 \in 1..n
    BY <1>2, <1>6
  <2> QED BY <1>4, <1>6, <2>1 DEF ServedByLiveWorkers, Served, n
<1>7. CASE q = r /\ i = n
  <2>1. s.op \in {"run", "replay", "endExecute"}
    BY <1>2 DEF CInv, CallInv
  <2>2. ~ c.inCap
    <3>1. c.open = {}
      <4> SUFFICES ASSUME NEW w \in c.open PROVE FALSE
        OBVIOUS
      <4>1. PICK j \in n..Len(rpc) : rpc[j].op = Exit[w]
        BY DEF CInv, OpenInv, n
      <4>2. w \in Scopes /\ j \in 1..Len(rpc)
        BY <1>2 DEF Good, Core
      <4>3. rpc[j].op \in {"run", "replay", "endExecute"}
        BY <4>2 DEF CInv, CallInv
      <4> QED BY <4>1, <4>2, <4>3 DEF Exit, Scopes
    <3> QED BY <1>3, <3>1 DEF CInv, OpenInv, CoreOk, EnvOk
  <2>3. CASE s.op = "run"
    <3>1. s.call \in 1..Len(Model) /\ s.flag \in BOOLEAN
      BY <1>2, <2>3 DEF Legal, Step
    <3>2. Model[s.call] \in CallRecord /\ Model[s.call].op # "fused"
      BY <3>1, ARAssumption, ElementOfSeq DEF NothingFused
    <3>3. d = AllReduce(c, Model[s.call], s.flag, f)
      BY <2>3 DEF d, Apply
    <3> HIDE DEF c, s
    <3>4. Served(c, d)
      BY <1>2, <2>2, <3>1, <3>2, <3>3, RunServed
    <3> QED BY <1>2, <1>3, <1>4, <1>7, <3>4
  <2>4. CASE s.op = "replay"
    <3>1. Answered(c)
      BY DEF CInv, AnsweredInv
    <3>2. d.last = c.graph
      BY <1>2, <2>4 DEF d, Apply, Good, Core
    <3>3. DOMAIN c.graph = 1..Len(c.graph)
      <4>1. c.graph \in Trace
        BY <1>2 DEF Good, Core
      <4> QED BY <4>1, LenProperties DEF Trace
    <3>4. Served(c, d)
      BY <3>1, <3>2, <3>3 DEF Served, Answered
    <3> QED BY <1>2, <1>3, <1>4, <1>7, <3>4
  <2>5. CASE s.op = "endExecute"
    <3>1. d = EndExecute(Quiet(c), s.flag, f)
      BY <2>5 DEF d, Apply
    <3>2. Served(c, d)
      BY <1>2, <3>1, EndExecuteServed
    <3> QED BY <1>2, <1>3, <1>4, <1>7, <3>2
  <2> QED BY <2>1, <2>3, <2>4, <2>5
<1>8. q # r \/ i <= n
  BY <1>2, <1>4
<1> QED BY <1>2, <1>5, <1>6, <1>7, <1>8

LEMMA ServedNext ==
  ASSUME IInv, CInv, ServedByLiveWorkers, Strict, AfterCapture, NothingFused, [Next]_vars
  PROVE  ServedByLiveWorkers'
<1>1. CASE ProfileRun \/ ProfileGraphs \/ Capture \/ Execute
  <2>1. \A r \in Ranks : past'[r] = <<Cur(r)>>
    BY <1>1 DEF ProfileRun, ProfileGraphs, Capture, Execute, Dispatch
  <2>2. ASSUME NEW r \in Ranks PROVE 1..(Len(past'[r]) - 1) = {}
    <3> DEFINE c == Cur(r)
    <3>1. past'[r] = <<c>>
      BY <2>1
    <3> HIDE DEF c
    <3>2. Len(past'[r]) = 1
      BY <3>1
    <3> QED BY <3>2
  <2> QED BY <2>2 DEF ServedByLiveWorkers
<1>2. CASE \E r \in Ranks : RankStep(r)
  BY <1>2, ServedStep
<1>3. CASE Stopped \/ UNCHANGED vars
  BY <1>3 DEF Stopped, vars, ServedByLiveWorkers
<1> QED BY <1>1, <1>2, <1>3 DEF Next

(* With STRICT and START_AFTER_CAPTURE a served request's collective never *)
(* waits for a worker that was not started, run eagerly or replayed, for   *)
(* any model without fused boundaries.                                     *)
THEOREM ServedAreAnswered == Strict /\ AfterCapture /\ NothingFused /\ Spec => []ServedByLiveWorkers
<1> SUFFICES ASSUME Strict, AfterCapture, NothingFused PROVE Spec => []ServedByLiveWorkers
  OBVIOUS
<1>1. Init => ServedByLiveWorkers
  BY DEF Init, ServedByLiveWorkers
<1>2. IInv /\ CInv /\ ServedByLiveWorkers /\ [Next]_vars => ServedByLiveWorkers'
  BY ServedNext
<1> QED BY <1>1, <1>2, InvariantHolds, CallsNest, PTL DEF Spec
=============================================================================
