------------------------- MODULE ForwardPass_proofs -------------------------
(* What a forward pass is given, and what happens to the residual in it.      *)
(*                                                                            *)
(* Whatever the buffers held before and whatever graph a batch is padded to, a *)
(* forward pass sees the batch alone.  The argument: the captured sizes never  *)
(* exceed the buffers, a descriptor the dispatcher returns is at least as      *)
(* large as the batch in tokens and in rows, and the places between the batch  *)
(* and the descriptor are overwritten in the same step.                       *)
(*                                                                            *)
(* No all-reduce outside a layer's own MLP finds a residual to fold in, the    *)
(* ranks fold alike, and the stream holds each layer's output exactly once.    *)
EXTENDS GraphDispatch, ResidualPrefold, FiniteSetTheorems, WellFoundedInduction, TLAPS

Sizes(ss) == ss \subseteq 1..MaxTokens

(* The least and the greatest element of a set of positive numbers up to N.   *)
LEMMA LeastExists ==
  ASSUME NEW N \in Nat, NEW S, S \subseteq 0..N, S # {}
  PROVE  Min(S) \in S /\ \A x \in S : Min(S) <= x
<1>1. \E x \in S : \A y \in S : ~ (<<y, x>> \in OpToRel(<, Nat))
  <2>1. S \subseteq Nat
    OBVIOUS
  <2> QED BY <2>1, WFMin, NatLessThanWellFounded
<1>2. PICK x \in S : \A y \in S : ~ (<<y, x>> \in OpToRel(<, Nat))
  BY <1>1
<1>3. \A y \in S : x <= y
  <2> TAKE y \in S
  <2>1. x \in Nat /\ y \in Nat
    OBVIOUS
  <2>2. ~ (<<y, x>> \in OpToRel(<, Nat))
    BY <1>2
  <2>3. ~ (y < x)
    BY <2>1, <2>2 DEF OpToRel
  <2> QED BY <2>1, <2>3
<1> QED BY <1>3 DEF Min

LEMMA GreatestExists ==
  ASSUME NEW N \in Nat, NEW S, S \subseteq 0..N, S # {}
  PROVE  Max(S) \in S /\ \A x \in S : x <= Max(S)
<1> DEFINE T == {t \in 0..N : N - t \in S}
<1>1. T \subseteq 0..N /\ T # {}
  <2>1. PICK x \in S : TRUE
    OBVIOUS
  <2>2. N - x \in 0..N /\ N - (N - x) = x
    OBVIOUS
  <2>3. N - x \in T
    BY <2>2
  <2> QED BY <2>3
<1> HIDE DEF T
<1>2. Min(T) \in T /\ \A t \in T : Min(T) <= t
  BY <1>1, LeastExists
<1>3. PICK m \in S : Min(T) = N - m
  <2>1. Min(T) \in 0..N /\ N - Min(T) \in S
    BY <1>2 DEF T
  <2> QED BY <2>1
<1>4. \A x \in S : x <= m
  <2> TAKE x \in S
  <2>1. N - x \in T
    <3>1. x \in 0..N /\ N - x \in 0..N /\ N - (N - x) = x
      OBVIOUS
    <3> QED BY <3>1 DEF T
  <2>2. N - m <= N - x
    BY <2>1, <1>2, <1>3
  <2> QED BY <2>2
<1>5. \A x \in S : m >= x
  BY <1>4
<1> QED BY <1>5 DEF Max

(* A layout gives every row a token: no more rows than tokens.                *)
LEMMA RowsFit ==
  ASSUME NEW n \in Nat, NEW k \in Nat, NEW f \in Layouts(n, k)
  PROVE  k <= n
<1>1. f \in Surjection(1..n, 1..k)
  BY DEF Layouts, Surjection
<1>2. IsFiniteSet(1..n) /\ Cardinality(1..n) = n /\ Cardinality(1..k) = k
  BY FS_Interval
<1>3. Cardinality(1..k) <= Cardinality(1..n)
  BY <1>1, <1>2, FS_Surjection
<1> QED BY <1>2, <1>3
-----------------------------------------------------------------------------
Typed ==
  /\ conf \in Configs
  /\ mode \in CUDAGraphModes
  /\ Sizes(sizes)
  /\ keys \subseteq Keys(conf, mode, sizes)
  /\ slot = [i \in 1..MaxTokens |-> slot[i]]
  /\ table = [i \in 1..MaxSeqs |-> table[i]]
  /\ lens \in [1..MaxSeqs -> BOOLEAN]

LEMMA ConfigTyped ==
  ASSUME conf \in Configs
  PROVE  /\ conf.q \in Nat \ {0} /\ Sizes(conf.sizes) /\ conf.mode \in CUDAGraphModes
         /\ MaxTokens \in Nat /\ MaxSeqs \in Nat \ {0}
BY GraphAssumption DEF Config, Sizes

(* Resolving a mode gives a mode, or the error.                               *)
LEMMA ResolveTyped ==
  ASSUME NEW c \in Config, NEW m \in CUDAGraphModes
  PROVE  Resolve(c, m) \in CUDAGraphModes \cup {Rejected}
BY DEF Resolve, DoubleCheck, ForSpecDecode, ForDecode, ForMixed, CUDAGraphModes,
       None, Full, Piece, DecodeOnly, FullAndPiece

(* Neither adjustment invents a size beyond the largest one.                  *)
LEMMA AdjustTyped ==
  ASSUME conf \in Configs, NEW m, NEW ss, Sizes(ss), NEW n
  PROVE  Sizes(AdjustForMamba(conf, m, AdjustForSpecDecode(conf, m, ss), n))
<1>1. conf.q \in Nat \ {0} /\ MaxTokens \in Nat
  BY ConfigTyped
<1>2. Sizes(AdjustForSpecDecode(conf, m, ss))
  <2>1. CASE ss = {}
    BY <2>1 DEF AdjustForSpecDecode, Sizes
  <2>2. CASE ss # {}
    <3>1. Max(ss) \in ss
      <4>1. ss \subseteq 0..MaxTokens
        BY <1>1 DEF Sizes
      <4> QED BY <4>1, <2>2, <1>1, GreatestExists
    <3>2. Max(ss) \in 1..MaxTokens
      BY <3>1 DEF Sizes
    <3>3. \A x \in ss : RoundUp(x, conf.q) \in Int /\ RoundUp(x, conf.q) >= 1
      <4> SUFFICES ASSUME NEW x \in ss PROVE RoundUp(x, conf.q) \in Int /\ RoundUp(x, conf.q) >= 1
        OBVIOUS
      <4>1. x \in Int /\ x >= 1
        BY <1>1 DEF Sizes
      <4> DEFINE a == x + conf.q - 1
      <4>2. a \in Nat /\ a >= conf.q
        BY <1>1, <4>1
      <4>3. a \div conf.q \in Int /\ a \div conf.q >= 1
        BY <4>2, <1>1, Z3
      <4>4. (a \div conf.q) * conf.q \in Int /\ (a \div conf.q) * conf.q >= 1
        <5> DEFINE d == a \div conf.q
        <5>1. d \in Int /\ d >= 1
          BY <4>3
        <5> HIDE DEF d
        <5>2. d * conf.q \in Int /\ d * conf.q >= 1
          BY <5>1, <1>1
        <5> QED BY <5>2 DEF d
      <4> QED BY <4>4 DEF RoundUp
    <3> DEFINE r == {s \in {RoundUp(x, conf.q) : x \in ss} : s <= Max(ss)}
               e == decode_mode[m] = Full /\ separate_routine(m) /\ conf.q > 1 /\ ss # {}
    <3>4. r \subseteq 1..MaxTokens
      BY <1>1, <3>2, <3>3
    <3>5. conf.q <= Max(ss) => {conf.q} \subseteq 1..MaxTokens
      BY <1>1, <3>2
    <3>6. AdjustForSpecDecode(conf, m, ss) =
            IF e THEN IF r = {} /\ conf.q <= Max(ss) THEN {conf.q} ELSE r ELSE ss
      BY DEF AdjustForSpecDecode
    <3> HIDE DEF r, e
    <3> QED BY <3>4, <3>5, <3>6 DEF Sizes
  <2> QED BY <2>1, <2>2
<1> QED BY <1>2 DEF AdjustForMamba, Sizes

(* A descriptor is at least as large as the batch and no larger than the      *)
(* buffers; with a FULL graph this holds for the rows as well.                *)
LEMMA DispatchFits ==
  ASSUME Typed, NEW n \in 1..MaxTokens, NEW k \in 1..MaxSeqs, k <= n,
         NEW u \in BOOLEAN, u => n = conf.q * k, NEW valid
  PROVE  /\ Dispatch(n, u, valid)[2].n \in n..MaxTokens
         /\ Dispatch(n, u, valid)[1] = Full => Dispatch(n, u, valid)[2].r \in k..MaxSeqs
<1> DEFINE F == Fitting(sizes, n)
           p == Min(F)
           decode == <<Full, Desc(p, TRUE, p \div conf.q)>>
           mixed == {<<m, MixedDesc(mode, p)>> : m \in {Full, Piece}}
           found == {x \in mixed \cup (IF u THEN {decode} ELSE {}) : x \in keys /\ x[1] \in valid}
<1>1. conf.q \in Nat \ {0} /\ MaxTokens \in Nat /\ MaxSeqs \in Nat \ {0}
  BY ConfigTyped DEF Typed
<1>2. Dispatch(n, u, valid) =
        IF F = {} \/ found = {} THEN <<None, Desc(n, FALSE, 0)>>
        ELSE IF decode \in found THEN decode ELSE CHOOSE x \in found : TRUE
  BY DEF Dispatch, Fitting
<1>3. CASE F = {} \/ found = {}
  BY <1>1, <1>2, <1>3 DEF Desc, None, Full
<1>4. CASE F # {} /\ found # {}
  <2>1. p \in sizes /\ p \in n..MaxTokens
    <3>1. F \subseteq 0..MaxTokens
      BY <1>1 DEF Fitting, Typed, Sizes
    <3>2. p \in F
      BY <1>1, <1>4, <3>1, LeastExists
    <3> QED BY <1>1, <3>2 DEF Fitting, Typed, Sizes
  <2> DEFINE x == Dispatch(n, u, valid)
  <2>2. x \in found
    BY <1>2, <1>4
  <2>3. CASE u /\ x = decode
    <3>1. <<Full, Desc(p, TRUE, p \div conf.q)>> \in Keys(conf, mode, sizes)
      BY <2>2, <2>3 DEF Typed
    <3>2. PICK s \in sizes : s \in conf.q..conf.q * MaxSeqs
                            /\ Desc(p, TRUE, p \div conf.q) = Desc(s, TRUE, s \div conf.q)
      BY <3>1 DEF Keys, MixedDesc, Desc
    <3>3. p \in conf.q..conf.q * MaxSeqs
      BY <3>2 DEF Desc
    <3>4. p \div conf.q \in k..MaxSeqs
      <4>1. conf.q * k <= p
        BY <2>1, <2>3
      <4>2. p <= conf.q * MaxSeqs
        BY <3>3
      <4> QED BY <4>1, <4>2, <1>1, <2>1, Z3
    <3>5. decode[2].n = p /\ decode[2].r = p \div conf.q
      BY DEF Desc
    <3> HIDE DEF x, decode
    <3>6. x[2].n = p /\ x[2].r = p \div conf.q
      BY <2>3, <3>5
    <3> QED BY <2>1, <3>4, <3>6 DEF x
  <2>4. CASE x \in mixed
    <3>1. x[2] = MixedDesc(mode, p)
      BY <2>4
    <3>2. x[2].n = p
      BY <3>1 DEF MixedDesc, Desc
    <3>3. x[1] = Full => x[2].r \in k..MaxSeqs
      <4>1. SUFFICES ASSUME x[1] = Full PROVE x[2].r \in k..MaxSeqs
        OBVIOUS
      <4>2. <<Full, MixedDesc(mode, p)>> \in Keys(conf, mode, sizes)
        BY <2>2, <2>4, <4>1 DEF Typed
      <4>3. mixed_mode[mode] = Full
        BY <4>2 DEF Keys, MixedDesc, Desc
      <4>4. x[2].r = LeastOf(p, MaxSeqs)
        BY <3>1, <4>3 DEF MixedDesc, Desc
      <4> QED BY <4>4, <2>1, <1>1 DEF LeastOf
    <3> QED BY <2>1, <3>2, <3>3
  <2> QED BY <2>2, <2>3, <2>4
<1> QED BY <1>3, <1>4
-----------------------------------------------------------------------------
BatchOK(b) ==
  /\ b.n \in 1..MaxTokens /\ b.k \in 1..MaxSeqs /\ b.k <= b.n
  /\ b.rows = [i \in 1..b.k |-> b.rows[i]] /\ Len(b.rows) = b.k
  /\ b.row \in [1..b.n -> 1..b.k]

LEMMA BatchesOK == \A b \in Batches : BatchOK(b)
<1> SUFFICES ASSUME NEW b \in Batches PROVE BatchOK(b)
  OBVIOUS
<1>1. PICK n \in 1..MaxTokens, k \in 1..MaxSeqs :
        b \in BatchesOf(n, k)
  BY DEF Batches
<1>2. b.n = n /\ b.k = k /\ b.rows \in [1..k -> Reqs] /\ b.row \in Layouts(n, k)
  BY <1>1 DEF BatchesOf
<1>3. n \in Nat /\ k \in Nat
  BY GraphAssumption
<1>4. k <= n
  BY <1>2, <1>3, RowsFit
<1>5. b.row \in [1..n -> 1..k]
  BY <1>2 DEF Layouts
<1>6. b.rows \in Seq(Reqs) /\ Len(b.rows) = k
  BY <1>2, <1>3
<1> QED BY <1>2, <1>4, <1>5, <1>6 DEF BatchOK

(* One forward pass, from any buffers.                                        *)
LEMMA ExecuteSees ==
  ASSUME Typed, SeesOnlyTheBatch, NEW b \in Batches, NEW cascade \in BOOLEAN, Execute(b, cascade)
  PROVE  Typed' /\ SeesOnlyTheBatch'
<1> DEFINE k == Dispatch(b.n, IsUniformDecode(b), AllModes \ (IF cascade THEN {Full} ELSE {}))
           d == k[2]
           pad == k[1] = Full
           tokens == IF pad \/ conf.separate THEN d.n ELSE b.n
           reqs == IF pad THEN (IF d.r = 0 THEN b.k ELSE d.r) ELSE b.k
           run == IF scales THEN <<None, d>> ELSE k
           owner == [i \in 1..b.n |-> b.rows[b.row[i]]]
<1>1. BatchOK(b)
  BY BatchesOK
<1>2. MaxTokens \in Nat /\ MaxSeqs \in Nat \ {0}
  BY ConfigTyped DEF Typed
<1>3. d.n \in b.n..MaxTokens /\ (pad => d.r \in b.k..MaxSeqs)
  <2>1. IsUniformDecode(b) => b.n = conf.q * b.k
    BY DEF IsUniformDecode
  <2>2. IsUniformDecode(b) \in BOOLEAN
    BY DEF IsUniformDecode
  <2> QED BY <1>1, <2>1, <2>2, DispatchFits DEF BatchOK
<1>4. tokens \in b.n..MaxTokens /\ reqs \in b.k..MaxSeqs
  BY <1>1, <1>2, <1>3 DEF BatchOK
<1>5. /\ slot' = FillSlot(PreparedSlot(b), b.n, tokens)
      /\ table' = FillTable(PreparedTable(b), b.k, reqs)
      /\ lens' = PreparedLens(b)
      /\ \/ UNCHANGED seen
         \/ seen' = [owner |-> owner, rows |-> b.rows,
                     slots |-> [i \in 1..tokens |-> slot'[i]],
                     tables |-> [i \in 1..reqs |-> table'[i]],
                     lens |-> [i \in 1..reqs |-> lens'[i]]]
      /\ UNCHANGED <<conf, mode, sizes, keys>>
  BY DEF Execute
<1> HIDE DEF k, d, pad, tokens, reqs, run
<1>6. /\ slot' = [i \in 1..MaxTokens |-> IF i \in b.n + 1..tokens THEN Pad
                                       ELSE IF i <= b.n THEN b.rows[b.row[i]] ELSE slot[i]]
      /\ table' = [i \in 1..MaxSeqs |-> IF i \in b.k + 1..reqs THEN Pad
                                      ELSE IF i <= b.k THEN b.rows[i] ELSE table[i]]
      /\ lens' = [i \in 1..MaxSeqs |-> i <= b.k]
  BY <1>5 DEF FillSlot, FillTable, PreparedSlot, PreparedTable, PreparedLens
<1>7. Typed'
  BY <1>5, <1>6 DEF Typed
<1>8. CASE UNCHANGED seen
  BY <1>7, <1>8 DEF SeesOnlyTheBatch
<1>9. CASE seen' = [owner |-> owner, rows |-> b.rows,
                    slots |-> [i \in 1..tokens |-> slot'[i]],
                    tables |-> [i \in 1..reqs |-> table'[i]],
                    lens |-> [i \in 1..reqs |-> lens'[i]]]
  <2>1. /\ seen'.owner = owner /\ seen'.rows = b.rows
        /\ seen'.slots = [i \in 1..tokens |-> slot'[i]]
        /\ seen'.tables = [i \in 1..reqs |-> table'[i]]
        /\ seen'.lens = [i \in 1..reqs |-> lens'[i]]
    BY <1>9
  <2>2. tokens \in Nat /\ reqs \in Nat /\ b.n \in Nat /\ b.k \in Nat
    BY <1>1, <1>2, <1>4 DEF BatchOK
  <2>3. /\ Len(seen'.owner) = b.n /\ Len(seen'.rows) = b.k
        /\ Len(seen'.slots) = tokens /\ Len(seen'.tables) = reqs
    <3>1. Len(b.rows) = b.k
      BY <1>1 DEF BatchOK
    <3>2. Len(owner) = b.n
      BY <2>2
    <3>3. Len([i \in 1..tokens |-> slot'[i]]) = tokens /\ Len([i \in 1..reqs |-> table'[i]]) = reqs
      BY <2>2
    <3> QED BY <2>1, <3>1, <3>2, <3>3
  <2>4. \A i \in 1..tokens : seen'.slots[i] = IF i <= b.n THEN owner[i] ELSE Pad
    <3> TAKE i \in 1..tokens
    <3>1. i \in 1..MaxTokens
      BY <1>2, <1>4, <2>2
    <3>2. seen'.slots[i] = IF i \in b.n + 1..tokens THEN Pad
                           ELSE IF i <= b.n THEN b.rows[b.row[i]] ELSE slot[i]
      BY <1>6, <2>1, <3>1
    <3> QED BY <2>2, <3>2
  <2>5. \A i \in 1..reqs : /\ seen'.tables[i] = IF i <= b.k THEN b.rows[i] ELSE Pad
                           /\ seen'.lens[i] = (i <= b.k)
    <3> TAKE i \in 1..reqs
    <3>1. i \in 1..MaxSeqs
      BY <1>2, <1>4, <2>2
    <3>2. /\ seen'.tables[i] = IF i \in b.k + 1..reqs THEN Pad
                               ELSE IF i <= b.k THEN b.rows[i] ELSE table[i]
          /\ seen'.lens[i] = (i <= b.k)
      BY <1>6, <2>1, <3>1
    <3> QED BY <2>2, <3>2
  <2>6. DOMAIN seen'.slots = 1..tokens /\ DOMAIN seen'.tables = 1..reqs
    BY <2>1
  <2>7. b.n <= tokens /\ b.k <= reqs
    BY <1>4
  <2> HIDE DEF owner
  <2>8. SeesOnlyTheBatch'
    BY <2>1, <2>3, <2>4, <2>5, <2>6, <2>7 DEF SeesOnlyTheBatch
  <2> QED BY <1>7, <2>8
<1> QED BY <1>5, <1>8, <1>9

(* Setting up keeps the sizes within the buffers.                             *)
LEMMA InitializeTyped ==
  ASSUME Typed, NEW n, NEW next, InitializeAttnBackend(n, next), UNCHANGED conf
  PROVE  /\ mode' \in CUDAGraphModes /\ Sizes(sizes)'
         /\ (keys \subseteq Keys(conf, mode, sizes))'
<1> DEFINE m == Resolve(conf, mode)
           ss == AdjustForMamba(conf, m, AdjustForSpecDecode(conf, m, sizes), n)
<1>1. CASE UNCHANGED <<mode, sizes, keys>>
  BY <1>1 DEF Typed, Sizes
<1>2. CASE m # Rejected /\ mode' = m /\ sizes' = ss /\ keys' = Keys(conf, m, ss)
  <2>1. Sizes(ss)
    BY AdjustTyped DEF Typed
  <2>2. conf \in Config
    BY GraphAssumption DEF Typed
  <2>3. m \in CUDAGraphModes
    BY <1>2, <2>2, ResolveTyped DEF Typed
  <2> HIDE DEF m, ss
  <2> QED BY <1>2, <2>1, <2>3 DEF Sizes
<1> QED BY <1>1, <1>2 DEF InitializeAttnBackend

LEMMA InitTyped == Init => Typed /\ SeesOnlyTheBatch
<1> SUFFICES ASSUME Init PROVE Typed /\ SeesOnlyTheBatch
  OBVIOUS
<1>1. Typed
  <2>1. conf \in Configs /\ mode = conf.mode /\ sizes = conf.sizes /\ keys = {}
    BY DEF Init
  <2>2. mode \in CUDAGraphModes /\ Sizes(sizes)
    BY <2>1, ConfigTyped
  <2> QED BY <2>1, <2>2 DEF Init, Typed
<1>2. SeesOnlyTheBatch
  BY DEF Init, NoRun, SeesOnlyTheBatch
<1> QED BY <1>1, <1>2

(* One step: a forward pass, a resolution of the mode, or a capture.           *)
LEMMA StepTyped == Typed /\ SeesOnlyTheBatch /\ [Next]_vars => (Typed /\ SeesOnlyTheBatch)'
<1> SUFFICES ASSUME Typed, SeesOnlyTheBatch, [Next]_vars
             PROVE  Typed' /\ SeesOnlyTheBatch'
  OBVIOUS
<1>1. CASE UNCHANGED <<conf, mode, sizes, keys, slot, table, lens, seen>>
  BY <1>1 DEF Typed, Sizes, SeesOnlyTheBatch
<1>2. CASE StartProfiling \/ InitializeKVCache
  <2>1. /\ \E n, next : InitializeAttnBackend(n, next)
        /\ UNCHANGED <<conf, slot, table, lens, seen>>
    BY <1>2 DEF StartProfiling, InitializeKVCache
  <2>2. mode' \in CUDAGraphModes /\ Sizes(sizes)' /\ (keys \subseteq Keys(conf, mode, sizes))'
    BY <2>1, InitializeTyped
  <2> QED BY <2>1, <2>2 DEF Typed, SeesOnlyTheBatch
<1>3. CASE ProfileOne \/ CaptureGraph
  <2>1. PICK k : CaptureOne(k)
    BY <1>3 DEF ProfileOne, CaptureGraph
  <2>2. /\ UNCHANGED <<conf, mode, sizes, keys, slot, table, seen>>
        /\ \/ UNCHANGED lens
           \/ lens' = [i \in DOMAIN lens |->
                        IF k[1] = Full THEN i <= DummyReqs(k[2]) ELSE lens[i]]
    BY <2>1 DEF CaptureOne
  <2>3. lens' \in [1..MaxSeqs -> BOOLEAN]
    <3>1. \A i \in 1..MaxSeqs : lens[i] \in BOOLEAN /\ (i <= DummyReqs(k[2])) \in BOOLEAN
      BY DEF Typed
    <3> QED BY <2>2, <3>1 DEF Typed
  <2> QED BY <2>2, <2>3 DEF Typed, Sizes, SeesOnlyTheBatch
<1>4. CASE EndProfiling
  BY <1>4 DEF EndProfiling, Typed, Sizes, SeesOnlyTheBatch
<1>5. CASE \E b \in Batches, cascade \in BOOLEAN : Execute(b, cascade)
  BY <1>5, ExecuteSees
<1>6. CASE StartCapture \/ EndCapture \/ Stopped \/ UNCHANGED vars
  BY <1>6, <1>1 DEF StartCapture, EndCapture, Stopped, vars
<1> QED BY <1>2, <1>3, <1>4, <1>5, <1>6 DEF Next

(* No forward pass reads or writes the cache of a request outside its batch,   *)
(* whatever the buffers still hold of earlier ones: the padding execute_model  *)
(* replays a graph with is always overwritten.                                *)
THEOREM OnlyTheBatchIsSeen == Spec => []SeesOnlyTheBatch
BY InitTyped, StepTyped, PTL DEF Spec
-----------------------------------------------------------------------------
Supported(c, m) ==
  /\ mixed_mode[m] = Full => c.support = 3
  /\ decode_mode[m] = Full => c.support > 0 /\ (c.q > 1 => c.support >= 2)

(* Each downgrade establishes its own clause and keeps those before it; a mode *)
(* with all of them is left alone.                                            *)
LEMMA ResolveSupported ==
  ASSUME NEW c \in Config, NEW m \in CUDAGraphModes, Resolve(c, m) # Rejected
  PROVE  Supported(c, Resolve(c, m)) /\ Resolve(c, Resolve(c, m)) = Resolve(c, m)
<1>1. /\ mixed_mode[None] = None /\ mixed_mode[Piece] = Piece /\ mixed_mode[Full] = Full
      /\ mixed_mode[DecodeOnly] = None /\ mixed_mode[FullAndPiece] = Piece
      /\ decode_mode[None] = None /\ decode_mode[Piece] = Piece /\ decode_mode[Full] = Full
      /\ decode_mode[DecodeOnly] = Full /\ decode_mode[FullAndPiece] = Full
  BY DEF mixed_mode, decode_mode, None, Full, Piece, DecodeOnly, FullAndPiece
<1>2. /\ None # Full /\ Piece # Full /\ DecodeOnly # Full /\ FullAndPiece # Full
      /\ \A x \in CUDAGraphModes : x # Rejected
  BY DEF CUDAGraphModes, Rejected, None, Full, Piece, DecodeOnly, FullAndPiece
<1>3. c.support \in 0..3 /\ c.q \in Nat \ {0}
  BY DEF Config, Support
<1> HIDE DEF mixed_mode, decode_mode
<1> DEFINE m1 == ForMixed(c, m)
           m2 == ForDecode(c, m1)
           m3 == ForSpecDecode(c, m2)
<1>4. /\ m1 \in CUDAGraphModes \cup {Rejected}
      /\ m1 # Rejected => (mixed_mode[m1] = Full => c.support = 3)
  BY <1>1, <1>2 DEF ForMixed, CUDAGraphModes
<1> HIDE DEF m1
<1>5. /\ m2 \in CUDAGraphModes \cup {Rejected}
      /\ m2 # Rejected => /\ mixed_mode[m2] = Full => c.support = 3
                          /\ decode_mode[m2] = Full => c.support > 0
  BY <1>1, <1>2, <1>3, <1>4 DEF ForDecode, CUDAGraphModes
<1> HIDE DEF m2
<1>6. /\ m3 \in CUDAGraphModes \cup {Rejected}
      /\ m3 # Rejected => Supported(c, m3)
  <2> DEFINE down == m2 # Rejected /\ decode_mode[m2] = Full /\ c.q > 1 /\ c.support < 2
  <2>1. CASE down
    <3>1. m3 = Piece \/ m3 = None
      BY <2>1 DEF ForSpecDecode
    <3> QED BY <3>1, <1>1, <1>2 DEF CUDAGraphModes, Supported
  <2>2. CASE ~ down
    <3>1. m3 = m2
      BY <2>2 DEF ForSpecDecode
    <3>2. m3 # Rejected => (decode_mode[m2] = Full => ~ (c.q > 1 /\ c.support < 2))
      BY <2>2, <3>1
    <3>3. ~ (c.q > 1 /\ c.support < 2) => (c.q > 1 => c.support >= 2)
      BY <1>3
    <3> HIDE DEF m3, down
    <3>4. ASSUME m2 # Rejected PROVE Supported(c, m2)
      <4>1. mixed_mode[m2] = Full => c.support = 3
        BY <1>5, <3>4
      <4>2. decode_mode[m2] = Full => c.support > 0 /\ (c.q > 1 => c.support >= 2)
        BY <1>5, <3>1, <3>2, <3>3, <3>4
      <4> QED BY <4>1, <4>2 DEF Supported
    <3> QED BY <3>1, <3>4, <1>5
  <2> QED BY <2>1, <2>2
<1> HIDE DEF m3
<1>7. Resolve(c, m) = DoubleCheck(c, m3)
  BY DEF Resolve, m1, m2, m3
<1>8. Resolve(c, m) = m3 /\ m3 \in CUDAGraphModes
  BY <1>6, <1>7 DEF DoubleCheck
<1>9. ASSUME NEW x \in CUDAGraphModes, Supported(c, x) PROVE Resolve(c, x) = x
  <2>1. ForMixed(c, x) = x
    BY <1>9 DEF ForMixed, Supported
  <2>2. ForDecode(c, x) = x
    BY <1>3, <1>9 DEF ForDecode, Supported
  <2>3. ForSpecDecode(c, x) = x
    BY <1>3, <1>9 DEF ForSpecDecode, Supported
  <2>4. DoubleCheck(c, x) = x
    BY <1>3, <1>9 DEF DoubleCheck, Supported, has_full_cudagraphs
  <2> QED BY <2>1, <2>2, <2>3, <2>4 DEF Resolve
<1> QED BY <1>2, <1>6, <1>8, <1>9

(* The mode a worker runs with is one its attention backends support, however  *)
(* often (once or, after profiling, twice) and from whichever configured mode  *)
(* initialize_attn_backend resolved it.                                       *)
THEOREM TheModeIsSupported == Spec => []ResolvedModeIsSupported
<1>1. Init => ResolvedModeIsSupported
  BY DEF Init, ResolvedModeIsSupported
<1>2. Typed /\ ResolvedModeIsSupported /\ [Next]_vars => ResolvedModeIsSupported'
  <2> SUFFICES ASSUME Typed, ResolvedModeIsSupported, [Next]_vars
               PROVE  ResolvedModeIsSupported'
    OBVIOUS
  <2>1. CASE UNCHANGED <<conf, mode>> /\ phase \notin {"start", "rejected"}
    BY <2>1 DEF ResolvedModeIsSupported
  <2>2. CASE StartProfiling \/ InitializeKVCache
    <3>1. /\ \E n, next : InitializeAttnBackend(n, next)
          /\ UNCHANGED conf
      BY <2>2 DEF StartProfiling, InitializeKVCache
    <3>2. conf \in Config /\ mode \in CUDAGraphModes
      BY GraphAssumption DEF Typed
    <3>3. CASE phase' = Rejected
      BY <3>3 DEF ResolvedModeIsSupported, Rejected
    <3>4. CASE phase' # Rejected
      <4>1. Resolve(conf, mode) # Rejected /\ mode' = Resolve(conf, mode)
        BY <3>1, <3>4 DEF InitializeAttnBackend
      <4>2. Supported(conf, mode') /\ Resolve(conf, mode') = mode'
        BY <3>2, <4>1, ResolveSupported
      <4> QED BY <3>1, <4>2 DEF ResolvedModeIsSupported, Supported
    <3> QED BY <3>3, <3>4
  <2>3. CASE ProfileOne \/ CaptureGraph
    BY <2>3, <2>1 DEF ProfileOne, CaptureGraph, CaptureOne
  <2>4. CASE EndProfiling \/ StartCapture \/ EndCapture
    BY <2>4, <2>1 DEF EndProfiling, StartCapture, EndCapture
  <2>5. CASE \E b \in Batches, cascade \in BOOLEAN : Execute(b, cascade)
    BY <2>5, <2>1 DEF Execute
  <2>6. CASE Stopped \/ UNCHANGED vars
    BY <2>6 DEF Stopped, vars, ResolvedModeIsSupported
  <2> QED BY <2>2, <2>3, <2>4, <2>5, <2>6 DEF Next
<1>3. Init => Typed /\ SeesOnlyTheBatch
  BY InitTyped
<1>4. Typed /\ SeesOnlyTheBatch /\ [Next]_vars => (Typed /\ SeesOnlyTheBatch)'
  BY StepTyped
<1> QED BY <1>1, <1>2, <1>3, <1>4, PTL DEF Spec
-----------------------------------------------------------------------------
(* A captured size is its own padding, so what _dummy_run dispatches for a key *)
(* is that key, and the graph it records is the key's.                         *)
LEMMA PaddedToItself ==
  ASSUME Typed, NEW s \in sizes
  PROVE  Min(Fitting(sizes, s)) = s /\ Fitting(sizes, s) # {}
<1>1. MaxTokens \in Nat /\ sizes \subseteq 0..MaxTokens /\ s \in Nat
  BY ConfigTyped DEF Typed, Sizes
<1>2. /\ Fitting(sizes, s) \subseteq 0..MaxTokens /\ s \in Fitting(sizes, s)
      /\ \A x \in Fitting(sizes, s) : x >= s /\ x \in Nat
  <2>1. \A x \in sizes : x \in Nat /\ x \in 0..MaxTokens
    BY <1>1
  <2>2. s >= s
    BY <1>1
  <2> QED BY <2>1, <2>2 DEF Fitting
<1>3. /\ Min(Fitting(sizes, s)) \in Fitting(sizes, s)
      /\ \A x \in Fitting(sizes, s) : Min(Fitting(sizes, s)) <= x
  BY <1>1, <1>2, LeastExists
<1> HIDE DEF Fitting
<1>4. Min(Fitting(sizes, s)) >= s /\ Min(Fitting(sizes, s)) <= s /\ Min(Fitting(sizes, s)) \in Nat
  BY <1>2, <1>3
<1> QED BY <1>1, <1>2, <1>4

LEMMA KeyShape ==
  ASSUME Typed, NEW k \in keys
  PROVE  \/ \E s \in sizes : /\ mixed_mode[mode] # None
                              /\ k = <<mixed_mode[mode], MixedDesc(mode, s)>>
         \/ \E s \in sizes : k = <<Full, Desc(s, TRUE, s \div conf.q)>>
BY DEF Typed, Keys

LEMMA KeyIsPair ==
  ASSUME Typed, NEW k \in keys
  PROVE  k = <<k[1], k[2]>> /\ k[1] # None
<1>1. CASE \E s \in sizes : k = <<Full, Desc(s, TRUE, s \div conf.q)>>
  <2>1. PICK s \in sizes : k = <<Full, Desc(s, TRUE, s \div conf.q)>>
    BY <1>1
  <2>2. k = <<k[1], k[2]>> /\ k[1] = Full
    BY <2>1
  <2> QED BY <2>2 DEF None, Full
<1>2. CASE \E s \in sizes : /\ mixed_mode[mode] # None
                            /\ k = <<mixed_mode[mode], MixedDesc(mode, s)>>
  <2>1. PICK s \in sizes : /\ mixed_mode[mode] # None
                           /\ k = <<mixed_mode[mode], MixedDesc(mode, s)>>
    BY <1>2
  <2>2. k = <<k[1], k[2]>> /\ k[1] = mixed_mode[mode]
    BY <2>1
  <2> QED BY <2>1, <2>2
<1> QED BY <1>1, <1>2, KeyShape

LEMMA KeyDispatchesToItself ==
  ASSUME Typed, NEW k \in keys
  PROVE  Dispatch(k[2].n, k[2].uniform, AllModes) = k
<1> DEFINE u == k[2].uniform
           p == Min(Fitting(sizes, k[2].n))
           decode == <<Full, Desc(p, TRUE, p \div conf.q)>>
           mixed == {<<x, MixedDesc(mode, p)>> : x \in {Full, Piece}}
           found == {x \in mixed \cup (IF u THEN {decode} ELSE {}) :
                       x \in keys /\ x[1] \in AllModes}
<1>1. Dispatch(k[2].n, u, AllModes) =
        IF Fitting(sizes, k[2].n) = {} \/ found = {} THEN <<None, Desc(k[2].n, FALSE, 0)>>
        ELSE IF decode \in found THEN decode ELSE CHOOSE x \in found : TRUE
  BY DEF Dispatch
<1>2. \/ \E s \in sizes : /\ mixed_mode[mode] # None
                          /\ k = <<mixed_mode[mode], MixedDesc(mode, s)>>
      \/ \E s \in sizes : k = <<Full, Desc(s, TRUE, s \div conf.q)>>
  BY KeyShape
<1>3. Full \in AllModes /\ Piece \in AllModes
  BY DEF AllModes
<1>4. CASE \E s \in sizes : k = <<Full, Desc(s, TRUE, s \div conf.q)>>
  <2>1. PICK s \in sizes : k = <<Full, Desc(s, TRUE, s \div conf.q)>>
    BY <1>4
  <2>2. k[2].n = s /\ u = TRUE
    BY <2>1 DEF Desc
  <2>3. p = s /\ Fitting(sizes, k[2].n) # {}
    BY <2>2, PaddedToItself
  <2>4. decode = k /\ decode[1] = Full
    BY <2>1, <2>3
  <2>5. decode \in found
    BY <2>2, <2>4, <1>3
  <2> HIDE DEF found, decode, p
  <2> QED BY <2>2, <2>3, <2>4, <2>5, <1>1
<1>5. CASE \E s \in sizes : /\ mixed_mode[mode] # None
                            /\ k = <<mixed_mode[mode], MixedDesc(mode, s)>>
  <2>1. PICK s \in sizes : /\ mixed_mode[mode] # None
                           /\ k = <<mixed_mode[mode], MixedDesc(mode, s)>>
    BY <1>5
  <2>2. k[2].n = s /\ u = FALSE
    BY <2>1 DEF MixedDesc, Desc
  <2>3. p = s /\ Fitting(sizes, k[2].n) # {}
    BY <2>2, PaddedToItself
  <2>4. mixed_mode[mode] \in {Full, Piece}
    BY <2>1 DEF Typed, mixed_mode, CUDAGraphModes, None, Full, Piece, DecodeOnly, FullAndPiece
  <2>5. k \in found
    BY <2>1, <2>2, <2>3, <2>4, <1>3
  <2>6. ASSUME NEW x \in found PROVE x = k
    <3>1. x \in mixed /\ x \in keys
      BY <2>2
    <3>2. x[2] = MixedDesc(mode, s) /\ x = <<x[1], x[2]>>
      BY <3>1, <2>3
    <3>3. \A t : Desc(t, TRUE, t \div conf.q).uniform = TRUE /\ MixedDesc(mode, s).uniform = FALSE
      BY DEF MixedDesc, Desc
    <3>4. \/ \E t \in sizes : x = <<mixed_mode[mode], MixedDesc(mode, t)>>
          \/ \E t \in sizes : x = <<Full, Desc(t, TRUE, t \div conf.q)>>
      BY <3>1, KeyShape
    <3> HIDE DEF mixed, found
    <3>5. CASE \E t \in sizes : x = <<Full, Desc(t, TRUE, t \div conf.q)>>
      <4>1. PICK t \in sizes : x = <<Full, Desc(t, TRUE, t \div conf.q)>>
        BY <3>5
      <4>2. x[2] = Desc(t, TRUE, t \div conf.q)
        BY <4>1
      <4>3. FALSE
        BY <4>2, <3>2, <3>3
      <4> QED BY <4>3
    <3>6. CASE \E t \in sizes : x = <<mixed_mode[mode], MixedDesc(mode, t)>>
      <4>1. PICK t \in sizes : x = <<mixed_mode[mode], MixedDesc(mode, t)>>
        BY <3>6
      <4>2. x[1] = mixed_mode[mode]
        BY <4>1
      <4> QED BY <4>2, <3>2, <2>1
    <3> QED BY <3>4, <3>5, <3>6
  <2>7. decode # k
    BY <2>1 DEF MixedDesc, Desc
  <2> HIDE DEF found, decode, p, mixed
  <2>8. (CHOOSE x \in found : TRUE) \in found
    BY <2>5
  <2> QED BY <2>2, <2>3, <2>5, <2>6, <2>7, <2>8, <1>1
<1> QED BY <1>2, <1>4, <1>5

(* What is dispatched is a key, or NONE.                                       *)
LEMMA DispatchGivesAKey ==
  ASSUME NEW n, NEW u, NEW valid
  PROVE  Dispatch(n, u, valid) \in keys \/ Dispatch(n, u, valid)[1] = None
<1> DEFINE p == Min(Fitting(sizes, n))
           decode == <<Full, Desc(p, TRUE, p \div conf.q)>>
           mixed == {<<x, MixedDesc(mode, p)>> : x \in {Full, Piece}}
           found == {x \in mixed \cup (IF u THEN {decode} ELSE {}) : x \in keys /\ x[1] \in valid}
<1>1. Dispatch(n, u, valid) =
        IF Fitting(sizes, n) = {} \/ found = {} THEN <<None, Desc(n, FALSE, 0)>>
        ELSE IF decode \in found THEN decode ELSE CHOOSE x \in found : TRUE
  BY DEF Dispatch
<1>2. found \subseteq keys
  OBVIOUS
<1> HIDE DEF found, decode
<1>3. found # {} => (CHOOSE x \in found : TRUE) \in found
  OBVIOUS
<1> QED BY <1>1, <1>2, <1>3

(* The graphs that are there, by the phase the worker is in.                   *)
Recorded == {<<g[1], g[2]>> : g \in graphs}
Global == \A g \in graphs : g[3] = "global"
CapturedInv ==
  /\ phase \in {"start", "profiled", "ready"} => graphs = {}
  /\ phase \in {"start", "profiled", "ready", "capturing"} => pool = "global"
  /\ phase = "capturing" => /\ todo \subseteq keys /\ Recorded = keys \ todo /\ Global
  /\ phase = "serving" => Recorded = keys /\ Global

LEMMA CaptureRecords ==
  ASSUME Typed, CapturedInv, phase = "capturing", NEW k \in todo, CaptureOne(k)
  PROVE  CapturedInv'
<1>1. k \in keys /\ pool = "global" /\ todo' = todo \ {k} /\ UNCHANGED <<keys, pool>>
  BY DEF CapturedInv, CaptureOne
<1>2. Dispatch(k[2].n, k[2].uniform, AllModes) = k
  BY <1>1, KeyDispatchesToItself
<1>3. k = <<k[1], k[2]>> /\ k[1] # None
  BY <1>1, KeyIsPair
<1>4. CASE phase' = "dead"
  BY <1>4 DEF CapturedInv
<1>5. CASE phase' = phase /\ Call(k)
  <2>1. ~ HasGraph(k)
    BY <1>1, <1>3 DEF CapturedInv, HasGraph, Recorded
  <2>2. graphs' = graphs \cup {<<k[1], k[2], pool>>}
    BY <1>5, <1>3, <2>1 DEF Call
  <2>3. Recorded' = Recorded \cup {k}
    <3> DEFINE new == <<k[1], k[2], pool>>
    <3>1. <<new[1], new[2]>> = k
      BY <1>3
    <3> HIDE DEF new
    <3>2. graphs' = graphs \cup {new}
      BY <2>2 DEF new
    <3> QED BY <3>1, <3>2 DEF Recorded
  <2>4. Global'
    BY <2>2, <1>1 DEF CapturedInv, Global
  <2> HIDE DEF Recorded, Global
  <2> QED BY <1>1, <1>5, <2>3, <2>4 DEF CapturedInv
<1> QED BY <1>2, <1>4, <1>5 DEF CaptureOne

(* Serving adds no graph: what a batch is padded to has been captured.         *)
LEMMA ServingRecordsNothing ==
  ASSUME CapturedInv, NEW b, NEW cascade, Execute(b, cascade)
  PROVE  CapturedInv'
<1> DEFINE k == Dispatch(b.n, IsUniformDecode(b), AllModes \ (IF cascade THEN {Full} ELSE {}))
           run == IF scales THEN <<None, k[2]>> ELSE k
<1>1. k \in keys \/ k[1] = None
  BY DispatchGivesAKey
<1>2. phase = "serving" /\ UNCHANGED <<keys, pool, todo>>
  BY DEF Execute
<1>3. phase' \in {"serving", "dead"} /\ (UNCHANGED graphs \/ Call(run))
  BY <1>2 DEF Execute
<1> HIDE DEF k
<1>4. run \in keys \/ run[1] = None
  BY <1>1
<1> HIDE DEF run
<1>5. run \in keys => HasGraph(run)
  BY <1>2 DEF CapturedInv, HasGraph, Recorded
<1>6. UNCHANGED graphs
  BY <1>3, <1>4, <1>5 DEF Call
<1> QED BY <1>2, <1>3, <1>6 DEF CapturedInv, Recorded, Global

LEMMA CapturedAlways == Spec => [](Typed /\ CapturedInv)
<1>1. Init => CapturedInv
  BY DEF Init, CapturedInv
<1>2. Typed /\ CapturedInv /\ [Next]_vars => CapturedInv'
  <2> SUFFICES ASSUME Typed, CapturedInv, [Next]_vars PROVE CapturedInv'
    OBVIOUS
  <2>1. CASE StartProfiling
    <3>1. phase' \in {"profiling", "rejected"}
      BY <2>1 DEF StartProfiling, InitializeAttnBackend, Rejected
    <3> QED BY <3>1 DEF CapturedInv
  <2>2. CASE ProfileOne
    <3>1. phase' \in {"profiling", "dead"}
      BY <2>2 DEF ProfileOne, CaptureOne
    <3> QED BY <3>1 DEF CapturedInv
  <2>3. CASE EndProfiling
    BY <2>3 DEF EndProfiling, CapturedInv
  <2>4. CASE InitializeKVCache
    <3>1. phase' \in {"ready", "rejected"}
      BY <2>4 DEF InitializeKVCache, InitializeAttnBackend, Rejected
    <3>2. graphs' = {} /\ pool' = "global"
      BY <2>4 DEF InitializeKVCache, CapturedInv
    <3> QED BY <3>1, <3>2 DEF CapturedInv
  <2>5. CASE StartCapture
    <3>1. graphs = {} /\ pool = "global" /\ UNCHANGED <<graphs, pool, keys>>
      BY <2>5 DEF StartCapture, CapturedInv
    <3>2. CASE mode = None
      <4>1. keys = {}
        BY <3>2 DEF Typed, Keys, mixed_mode, separate_routine, None, DecodeOnly, FullAndPiece
      <4> QED BY <2>5, <3>1, <3>2, <4>1 DEF StartCapture, CapturedInv, Recorded, Global
    <3>3. CASE mode # None
      BY <2>5, <3>1, <3>3 DEF StartCapture, CapturedInv, Recorded, Global
    <3> QED BY <3>2, <3>3
  <2>6. CASE CaptureGraph
    BY <2>6, CaptureRecords DEF CaptureGraph
  <2>7. CASE EndCapture
    BY <2>7 DEF EndCapture, CapturedInv, Recorded, Global
  <2>8. CASE \E b \in Batches, cascade \in BOOLEAN : Execute(b, cascade)
    BY <2>8, ServingRecordsNothing
  <2>9. CASE Stopped \/ UNCHANGED vars
    BY <2>9 DEF Stopped, vars, CapturedInv, Recorded, Global
  <2> QED BY <2>1, <2>2, <2>3, <2>4, <2>5, <2>6, <2>7, <2>8, <2>9 DEF Next
<1>3. Init => Typed /\ SeesOnlyTheBatch
  BY InitTyped
<1>4. Typed /\ SeesOnlyTheBatch /\ [Next]_vars => (Typed /\ SeesOnlyTheBatch)'
  BY StepTyped
<1> QED BY <1>1, <1>2, <1>3, <1>4, PTL DEF Spec

(* When a worker serves, every key of its dispatcher has its graph, recorded   *)
(* in the global pool: none is left of profiling, and none is missing.         *)
THEOREM GraphsAreComplete == Spec => []ServingGraphsComplete
<1>1. CapturedInv => ServingGraphsComplete
  BY DEF CapturedInv, ServingGraphsComplete, Recorded, Global
<1> QED BY <1>1, CapturedAlways, PTL
-----------------------------------------------------------------------------
(* A mode with uniform decode graphs of its own has sizes that are whole       *)
(* requests.                                                                   *)
Whole(m, ss) ==
  separate_routine(m) /\ decode_mode[m] = Full => \A s \in ss : s % conf.q = 0

LEMMA AdjustWhole ==
  ASSUME conf \in Configs, NEW m, NEW ss, Sizes(ss), NEW n
  PROVE  Whole(m, AdjustForMamba(conf, m, AdjustForSpecDecode(conf, m, ss), n))
<1>1. conf.q \in Nat \ {0} /\ MaxTokens \in Nat
  BY ConfigTyped
<1> DEFINE adjusted == AdjustForSpecDecode(conf, m, ss)
           kept == AdjustForMamba(conf, m, adjusted, n)
<1>2. kept \subseteq adjusted
  BY DEF AdjustForMamba
<1>3. Sizes(kept)
  BY AdjustTyped
<1> HIDE DEF kept
<1> SUFFICES ASSUME separate_routine(m), decode_mode[m] = Full, NEW s \in kept
             PROVE  s % conf.q = 0
  BY DEF Whole, kept
<1>4. s \in adjusted /\ s \in Nat
  BY <1>2, <1>3, <1>1 DEF Sizes
<1>5. CASE conf.q = 1
  BY <1>4, <1>5
<1>6. CASE conf.q # 1 /\ ss = {}
  BY <1>4, <1>6 DEF AdjustForSpecDecode
<1>7. CASE conf.q # 1 /\ ss # {}
  <2>1. \/ s = conf.q
        \/ \E x \in ss : s = RoundUp(x, conf.q)
    BY <1>1, <1>4, <1>7 DEF AdjustForSpecDecode
  <2>2. conf.q % conf.q = 0
    <3> DEFINE q == conf.q
    <3>1. q \in Nat \ {0}
      BY <1>1
    <3> HIDE DEF q
    <3>2. q % q = 0
      BY <3>1, Z3
    <3> QED BY <3>2 DEF q
  <2>3. ASSUME NEW x \in ss PROVE RoundUp(x, conf.q) % conf.q = 0
    <3> DEFINE q == conf.q
               d == (x + q - 1) \div q
    <3>1. q \in Nat \ {0} /\ x \in Int
      BY <1>1 DEF Sizes
    <3>2. d \in Int
      BY <3>1, Z3
    <3> HIDE DEF q, d
    <3>3. (d * q) % q = 0
      BY <3>1, <3>2, Z3
    <3> QED BY <3>3 DEF q, d, RoundUp
  <2> QED BY <2>1, <2>2, <2>3
<1> QED BY <1>5, <1>6, <1>7

AliveInv ==
  /\ phase # "dead"
  /\ phase \in {"profiling", "capturing"} => todo \subseteq keys
  /\ phase \notin {"start", "rejected"} => Whole(mode, sizes)

(* A uniform descriptor is a whole number of requests and no more than there   *)
(* may be, so the dummy batch of its size exists; and it is dispatched to      *)
(* itself: none of _dummy_run's assertions fails.                              *)
LEMMA NoDummyFails ==
  ASSUME Typed, Whole(mode, sizes), NEW k \in keys
  PROVE  ~ DummyFails(k)
<1>1. Dispatch(k[2].n, k[2].uniform, AllModes) = k
  BY KeyDispatchesToItself
<1>2. conf.q \in Nat \ {0} /\ MaxTokens \in Nat /\ MaxSeqs \in Nat \ {0}
  BY ConfigTyped DEF Typed
<1>3. CASE \E s \in sizes : /\ mixed_mode[mode] # None
                            /\ k = <<mixed_mode[mode], MixedDesc(mode, s)>>
  <2>1. PICK s \in sizes : k = <<mixed_mode[mode], MixedDesc(mode, s)>>
    BY <1>3
  <2>2. k[2].n = s /\ k[2].uniform = FALSE
    BY <2>1 DEF MixedDesc, Desc
  <2>3. s \in 1..MaxTokens
    BY DEF Typed, Sizes
  <2>4. ~ (k[2].n > MaxTokens)
    BY <2>2, <2>3, <1>2
  <2> QED BY <2>2, <2>4, <1>1 DEF DummyFails
<1>4. CASE ~ \E s \in sizes : /\ mixed_mode[mode] # None
                              /\ k = <<mixed_mode[mode], MixedDesc(mode, s)>>
  <2>1. /\ decode_mode[mode] = Full /\ separate_routine(mode)
        /\ \E s \in sizes : /\ s \in conf.q..conf.q * MaxSeqs
                            /\ k = <<Full, Desc(s, TRUE, s \div conf.q)>>
    BY <1>4 DEF Typed, Keys
  <2>2. PICK s \in sizes : /\ s \in conf.q..conf.q * MaxSeqs
                           /\ k = <<Full, Desc(s, TRUE, s \div conf.q)>>
    BY <2>1
  <2>3. k[2].n = s /\ k[2].uniform = TRUE
    BY <2>2 DEF Desc
  <2>4. s \in 1..MaxTokens /\ s % conf.q = 0
    BY <2>1 DEF Typed, Sizes, Whole
  <2>5. ~ (k[2].n > MaxTokens)
    BY <2>3, <2>4, <1>2
  <2>6. DummyReqs(k[2]) * conf.q >= s
    <3> DEFINE q == conf.q
               c == (s + q - 1) \div q
    <3>1. q \in Nat \ {0} /\ s \in Nat /\ s <= q * MaxSeqs
      BY <1>2, <2>2, <2>4
    <3>2. c \in Int
      BY <3>1, Z3
    <3>3. MaxSeqs * q >= s
      <4> HIDE DEF q
      <4> QED BY <3>1, <1>2, Z3
    <3>4. c * q >= s
      <4> DEFINE a == s + q - 1
      <4>1. a \in Nat
        BY <3>1
      <4> HIDE DEF a, q
      <4>2. (a \div q) * q > a - q
        BY <3>1, <4>1, Z3
      <4>3. (a \div q) \in Int
        BY <3>1, <4>1, Z3
      <4> DEFINE p == (a \div q) * q
      <4>4. p \in Int
        BY <4>3, <3>1
      <4> HIDE DEF p
      <4>5. p >= s
        BY <4>2, <4>4, <3>1 DEF p, a
      <4> QED BY <4>5 DEF p, a, q
    <3>5. DummyReqs(k[2]) = LeastOf(MaxSeqs, c)
      BY <2>3 DEF DummyReqs
    <3> HIDE DEF q, c
    <3>6. DummyReqs(k[2]) = MaxSeqs \/ DummyReqs(k[2]) = c
      BY <3>5 DEF LeastOf
    <3> QED BY <3>3, <3>4, <3>6 DEF q
  <2>7. DummyReqs(k[2]) * conf.q \in Int
    <3>1. (s + conf.q - 1) \div conf.q \in Int
      BY <1>2, <2>4, Z3
    <3>2. DummyReqs(k[2]) \in Int
      BY <2>3, <1>2, <3>1 DEF DummyReqs, LeastOf
    <3> QED BY <3>2, <1>2
  <2>8. ~ (DummyReqs(k[2]) * conf.q < k[2].n)
    <3> DEFINE d == DummyReqs(k[2]) * conf.q
    <3>1. d \in Int /\ d >= s /\ s \in Int
      BY <2>4, <2>6, <2>7
    <3> HIDE DEF d
    <3>2. ~ (d < s)
      BY <3>1
    <3> QED BY <3>2, <2>3 DEF d
  <2> QED BY <1>1, <2>3, <2>4, <2>5, <2>8 DEF DummyFails
<1> QED BY <1>3, <1>4

LEMMA StepAlive ==
  ASSUME Typed, CapturedInv, AliveInv, [Next]_vars
  PROVE  AliveInv'
<1>1. CASE StartProfiling \/ InitializeKVCache
  <2>1. /\ \E n, next : next \in {"profiling", "ready"} /\ InitializeAttnBackend(n, next)
        /\ UNCHANGED conf
    BY <1>1 DEF StartProfiling, InitializeKVCache
  <2>2. PICK n, next : next \in {"profiling", "ready"} /\ InitializeAttnBackend(n, next)
    BY <2>1
  <2>3. CASE phase' = Rejected
    BY <2>3 DEF AliveInv, Rejected
  <2>4. CASE phase' # Rejected
    <3>1. /\ phase' = next
          /\ sizes' = AdjustForMamba(conf, mode', AdjustForSpecDecode(conf, mode', sizes), n)
      BY <2>2, <2>4 DEF InitializeAttnBackend
    <3>2. Whole(mode, sizes)'
      <4> DEFINE m == mode'
                 ss == AdjustForMamba(conf, m, AdjustForSpecDecode(conf, m, sizes), n)
      <4>1. Whole(m, ss)
        <5> HIDE DEF m
        <5> QED BY AdjustWhole DEF Typed
      <4>2. sizes' = ss
        BY <3>1
      <4> HIDE DEF ss
      <4> QED BY <2>1, <4>1, <4>2 DEF Whole
    <3>3. phase' = "profiling" => todo' \subseteq keys'
      <4>1. phase' = "profiling" => StartProfiling
        BY <1>1 DEF InitializeKVCache, InitializeAttnBackend, Rejected
      <4> QED BY <4>1 DEF StartProfiling, FirstTwo
    <3>4. phase' \in {"profiling", "ready"}
      BY <2>2, <3>1
    <3> QED BY <3>2, <3>3, <3>4 DEF AliveInv
  <2> QED BY <2>3, <2>4
<1>2. CASE ProfileOne \/ CaptureGraph
  <2>1. PICK k \in todo : CaptureOne(k) /\ phase \in {"profiling", "capturing"}
    BY <1>2 DEF ProfileOne, CaptureGraph
  <2>2. k \in keys /\ Whole(mode, sizes)
    BY <2>1 DEF AliveInv
  <2>3. ~ DummyFails(k)
    BY <2>2, NoDummyFails
  <2>4. UNCHANGED <<conf, mode, sizes, keys, phase>> /\ todo' \subseteq todo
    BY <2>1, <2>3 DEF CaptureOne
  <2> QED BY <2>1, <2>4 DEF AliveInv, Whole
<1>3. CASE EndProfiling \/ StartCapture \/ EndCapture
  <2>1. UNCHANGED <<conf, mode, sizes>> /\ phase \notin {"start", "rejected"}
    BY <1>3 DEF EndProfiling, StartCapture, EndCapture
  <2>2. phase' \in {"profiled", "capturing", "serving"}
    BY <1>3 DEF EndProfiling, StartCapture, EndCapture
  <2>3. phase' = "capturing" => todo' \subseteq keys'
    BY <1>3 DEF EndProfiling, StartCapture, EndCapture
  <2> QED BY <2>1, <2>2, <2>3 DEF AliveInv, Whole
<1>4. CASE \E b \in Batches, cascade \in BOOLEAN : Execute(b, cascade)
  <2>1. PICK b \in Batches, cascade \in BOOLEAN : Execute(b, cascade)
    BY <1>4
  <2> DEFINE k == Dispatch(b.n, IsUniformDecode(b), AllModes \ (IF cascade THEN {Full} ELSE {}))
             run == IF scales THEN <<None, k[2]>> ELSE k
  <2>2. k \in keys \/ k[1] = None
    BY DispatchGivesAKey
  <2>3. phase = "serving" /\ UNCHANGED <<conf, mode, sizes>>
    BY <2>1 DEF Execute
  <2>4. CallFails(run) \/ phase' = phase
    BY <2>1 DEF Execute
  <2> HIDE DEF k
  <2>5. run \in keys \/ run[1] = None
    BY <2>2
  <2> HIDE DEF run
  <2>6. run \in keys => HasGraph(run)
    BY <2>3 DEF CapturedInv, HasGraph, Recorded
  <2>7. phase' = phase
    BY <2>4, <2>5, <2>6 DEF CallFails
  <2> QED BY <2>3, <2>7 DEF AliveInv, Whole
<1>5. CASE Stopped \/ UNCHANGED vars
  BY <1>5 DEF Stopped, vars, AliveInv, Whole
<1> QED BY <1>1, <1>2, <1>3, <1>4, <1>5 DEF Next

(* No assertion of the dummy run, the dispatcher or the capture guard ends a   *)
(* worker: whatever the configuration is resolved to, what is captured exists, *)
(* and what a batch is padded to has been captured.                            *)
THEOREM NoWorkerDies == Spec => []NeverDead
<1>1. Init => AliveInv
  BY DEF Init, AliveInv
<1>2. AliveInv => NeverDead
  BY DEF AliveInv, NeverDead
<1> QED BY <1>1, <1>2, StepAlive, CapturedAlways, PTL DEF Spec
-----------------------------------------------------------------------------
(* Adjusting sizes that have been adjusted changes nothing, and no size grows  *)
(* beyond the largest.                                                         *)
LEMMA RoundUpKeeps ==
  ASSUME NEW q \in Nat \ {0}, NEW x \in Nat, x % q = 0
  PROVE  RoundUp(x, q) = x
<1> DEFINE d == x \div q
<1>1. d \in Nat
  BY Z3
<1>2. d * q = x
  BY Z3
<1> HIDE DEF d
<1>3. (d * q + q - 1) \div q = d
  BY <1>1, Z3
<1>4. (x + q - 1) \div q = d
  BY <1>2, <1>3
<1> QED BY <1>2, <1>4 DEF RoundUp

LEMMA AdjustIsIdempotent ==
  ASSUME conf \in Configs, NEW m, NEW ss, Sizes(ss)
  PROVE  LET a == AdjustForSpecDecode(conf, m, ss)
         IN  /\ AdjustForSpecDecode(conf, m, a) = a
             /\ ss # {} => \A x \in a : x <= Max(ss)
<1>1. conf.q \in Nat \ {0} /\ MaxTokens \in Nat
  BY ConfigTyped
<1> DEFINE q == conf.q
           rounded(S) == {s \in {RoundUp(x, q) : x \in S} : s <= Max(S)}
           routine == decode_mode[m] = Full /\ separate_routine(m) /\ q > 1
           a == AdjustForSpecDecode(conf, m, ss)
<1>2. \A S : AdjustForSpecDecode(conf, m, S) =
               IF routine /\ S # {}
               THEN IF rounded(S) = {} /\ q <= Max(S) THEN {q} ELSE rounded(S) ELSE S
  BY DEF AdjustForSpecDecode
<1>3. Sizes(a)
  <2>2. \A x \in a : x \in Nat /\ x >= 1 /\ x <= MaxTokens
    <3>1. CASE ~ (routine /\ ss # {})
      <4>1. a = ss
        BY <3>1, <1>2
      <4> HIDE DEF a
      <4> QED BY <4>1, <1>1 DEF Sizes
    <3>2. CASE routine /\ ss # {}
      <4>1. Max(ss) \in ss
        <5>1. ss \subseteq 0..MaxTokens
          BY <1>1 DEF Sizes
        <5> QED BY <5>1, <3>2, <1>1, GreatestExists
      <4>2. Max(ss) \in Nat /\ Max(ss) <= MaxTokens
        <5> DEFINE top == Max(ss)
        <5> HIDE DEF top
        <5>1. top \in ss
          BY <4>1 DEF top
        <5>2. top \in Nat /\ top <= MaxTokens
          BY <5>1, <1>1 DEF Sizes
        <5> QED BY <5>2 DEF top
      <4> HIDE DEF a
      <4>3. \A x \in a : x = q \/ \E y \in ss : x = RoundUp(y, q)
        BY <3>2, <1>2 DEF a
      <4>4. \A x \in a : x <= Max(ss)
        BY <3>2, <1>2 DEF a
      <4>5. ASSUME NEW y \in ss PROVE RoundUp(y, q) \in Int /\ RoundUp(y, q) >= 1
        <5> DEFINE d == (y + q - 1) \div q
        <5>1. q \in Nat \ {0} /\ y \in Nat \ {0}
          BY <1>1 DEF Sizes
        <5>2. d \in Nat \ {0}
          <6> DEFINE b == y + q - 1
          <6>1. b \in Nat /\ b >= q
            BY <5>1
          <6> HIDE DEF b, q
          <6>2. b \div q \in Int /\ b \div q >= 1
            BY <5>1, <6>1, Z3
          <6> QED BY <6>2 DEF b, q
        <5> HIDE DEF d, q
        <5>3. d * q \in Int /\ d * q >= 1
          BY <5>1, <5>2
        <5> QED BY <5>3 DEF d, q, RoundUp
      <4> QED BY <1>1, <4>2, <4>3, <4>4, <4>5
    <3> QED BY <3>1, <3>2
  <2> HIDE DEF a
  <2> QED BY <2>2, <1>1 DEF Sizes
<1>4. CASE ~ routine \/ ss = {}
  <2>1. a = ss
    BY <1>2, <1>4
  <2>2. ss # {} => \A x \in ss : x <= Max(ss)
    <3>1. ss \subseteq 0..MaxTokens
      BY <1>1 DEF Sizes
    <3> QED BY <3>1, <1>1, GreatestExists
  <2> QED BY <2>1, <2>2
<1>5. CASE routine /\ ss # {}
  <2>1. \A x \in a : x <= Max(ss)
    BY <1>2, <1>5
  <2>2. CASE a = {}
    BY <2>1, <2>2, <1>2
  <2>3. CASE a # {}
    <3>1. \A x \in a : x % q = 0 /\ x \in Nat
      <4>1. Whole(m, AdjustForMamba(conf, m, a, MaxTokens))
        BY AdjustWhole
      <4>2. a = AdjustForMamba(conf, m, a, MaxTokens)
        <5> HIDE DEF a
        <5>1. \A x \in a : x <= MaxTokens
          BY <1>3, <1>1 DEF Sizes
        <5> QED BY <5>1 DEF AdjustForMamba
      <4> HIDE DEF a
      <4> QED BY <4>1, <4>2, <1>1, <1>3, <1>5 DEF Whole, Sizes
    <3>2. \A x \in a : RoundUp(x, q) = x
      BY <3>1, <1>1, RoundUpKeeps
    <3>3. \A x \in a : x <= Max(a)
      <4>1. a \subseteq 0..MaxTokens
        BY <1>1, <1>3 DEF Sizes
      <4> HIDE DEF a
      <4> QED BY <4>1, <1>1, <2>3, GreatestExists
    <3> HIDE DEF a
    <3>4. rounded(a) = a
      BY <3>2, <3>3
    <3> HIDE DEF rounded, routine
    <3> QED BY <2>1, <2>3, <3>4, <1>2 DEF a
  <2> QED BY <2>2, <2>3
<1> QED BY <1>4, <1>5

(* What the cache of profiling is too small for is not a size anyway.         *)
LEMMA ProfilingDropsNothing ==
  ASSUME conf \in Configs, NEW m, Sizes(sizes)
  PROVE  LET a == AdjustForSpecDecode(conf, m, sizes)
         IN  AdjustForMamba(conf, m, a, MinBlocks) = a
<1> DEFINE a == AdjustForSpecDecode(conf, m, sizes)
<1> DEFINE kept == AdjustForMamba(conf, m, a, MinBlocks)
<1>1. ASSUME sizes = {} PROVE kept = a
  <2>1. a = {}
    BY <1>1 DEF AdjustForSpecDecode
  <2> HIDE DEF a
  <2> QED BY <2>1 DEF AdjustForMamba
<1>2. ASSUME sizes # {} PROVE kept = a
  <2>1. \A x \in a : x <= MinBlocks
    <3>1. MinBlocks = Max(sizes)
      BY <1>2 DEF MinBlocks
    <3>2. \A x \in a : x <= Max(sizes)
      BY <1>2, AdjustIsIdempotent
    <3> HIDE DEF a
    <3> QED BY <3>1, <3>2
  <2> HIDE DEF a
  <2> QED BY <2>1 DEF AdjustForMamba
<1> QED BY <1>1, <1>2

Profiled(m, ss) ==
  /\ m = Resolve(conf, conf.mode) /\ m # Rejected
  /\ ss = AdjustForSpecDecode(conf, m, conf.sizes)
TraceInv ==
  /\ phase = "start" => mode = conf.mode /\ sizes = conf.sizes
  /\ phase \in {"profiling", "profiled"} => Profiled(mode, sizes)
  /\ ProfilingLeavesNoTrace

LEMMA StepTrace ==
  ASSUME Typed, TraceInv, [Next]_vars
  PROVE  TraceInv'
<1>1. conf \in Configs /\ conf \in Config /\ Sizes(conf.sizes) /\ conf.mode \in CUDAGraphModes
  BY ConfigTyped, GraphAssumption DEF Typed
<1>2. CASE StartProfiling
  <2> DEFINE m == Resolve(conf, mode)
             a == AdjustForSpecDecode(conf, m, sizes)
  <2>1. mode = conf.mode /\ sizes = conf.sizes /\ UNCHANGED conf
    BY <1>2 DEF TraceInv, StartProfiling
  <2>2. \/ phase' = Rejected
        \/ /\ m # Rejected /\ mode' = m /\ phase' = "profiling"
           /\ sizes' = AdjustForMamba(conf, m, a, MinBlocks)
    BY <1>2 DEF StartProfiling, InitializeAttnBackend
  <2>3. AdjustForMamba(conf, m, a, MinBlocks) = a
    BY <1>1, <2>1, ProfilingDropsNothing
  <2>4. CASE phase' = Rejected
    BY <2>4 DEF TraceInv, ProfilingLeavesNoTrace, Rejected
  <2>5. CASE /\ m # Rejected /\ mode' = m /\ phase' = "profiling"
             /\ sizes' = AdjustForMamba(conf, m, a, MinBlocks)
    <3>1. sizes' = a
      BY <2>3, <2>5
    <3>2. Profiled(mode, sizes)'
      BY <2>1, <2>5, <3>1 DEF Profiled
    <3> QED BY <2>5, <3>2 DEF TraceInv, ProfilingLeavesNoTrace
  <2> QED BY <2>2, <2>4, <2>5
<1>3. CASE InitializeKVCache
  <2> DEFINE m == Resolve(conf, mode)
             a == AdjustForSpecDecode(conf, m, sizes)
             once == Resolve(conf, conf.mode)
             onceSizes == AdjustForSpecDecode(conf, once, conf.sizes)
  <2>1. /\ phase \in {"start", "profiled"} /\ UNCHANGED conf
        /\ \/ phase' = Rejected
           \/ /\ m # Rejected /\ phase' = "ready"
              /\ keys' = Keys(conf, m, AdjustForMamba(conf, m, a, conf.blocks))
    BY <1>3 DEF InitializeKVCache, InitializeAttnBackend
  <2>2. CASE phase' = Rejected
    BY <2>2 DEF TraceInv, ProfilingLeavesNoTrace, Rejected
  <2>3. CASE /\ m # Rejected /\ phase' = "ready"
             /\ keys' = Keys(conf, m, AdjustForMamba(conf, m, a, conf.blocks))
    <3>1. m = once /\ a = onceSizes
      <4>1. CASE phase = "start"
        BY <4>1 DEF TraceInv
      <4>2. CASE phase = "profiled"
        <5>1. mode = once /\ once # Rejected /\ sizes = onceSizes
          BY <4>2 DEF TraceInv, Profiled
        <5>2. m = once
          <6>1. Resolve(conf, once) = once
            BY <1>1, <5>1, ResolveSupported
          <6> QED BY <5>1, <6>1
        <5>3. AdjustForSpecDecode(conf, once, onceSizes) = onceSizes
          BY <1>1, AdjustIsIdempotent
        <5> QED BY <5>1, <5>2, <5>3
      <4> QED BY <2>1, <4>1, <4>2
    <3> HIDE DEF m, a
    <3>2. keys' = Keys(conf, once, AdjustForMamba(conf, once, onceSizes, conf.blocks))
      BY <2>3, <3>1
    <3>3. ProfilingLeavesNoTrace'
      BY <2>1, <3>2 DEF ProfilingLeavesNoTrace
    <3> QED BY <2>3, <3>3 DEF TraceInv
  <2> QED BY <2>1, <2>2, <2>3
<1>4. CASE EndProfiling
  BY <1>4 DEF EndProfiling, TraceInv, Profiled, ProfilingLeavesNoTrace
<1>5. CASE ProfileOne \/ CaptureGraph
  <2>1. /\ UNCHANGED <<conf, mode, sizes, keys>>
        /\ phase' = phase \/ phase' = "dead"
    BY <1>5 DEF ProfileOne, CaptureGraph, CaptureOne
  <2> QED BY <2>1 DEF TraceInv, Profiled, ProfilingLeavesNoTrace
<1>6. CASE StartCapture \/ EndCapture
  <2>1. /\ UNCHANGED <<conf, keys>> /\ phase \in {"ready", "capturing"}
        /\ phase' \in {"capturing", "serving"}
    BY <1>6 DEF StartCapture, EndCapture
  <2> QED BY <2>1 DEF TraceInv, ProfilingLeavesNoTrace
<1>7. CASE \E b \in Batches, cascade \in BOOLEAN : Execute(b, cascade)
  <2>1. /\ UNCHANGED <<conf, keys>> /\ phase = "serving"
        /\ phase' = "serving" \/ phase' = "dead"
    BY <1>7 DEF Execute
  <2> QED BY <2>1 DEF TraceInv, ProfilingLeavesNoTrace
<1>8. CASE Stopped \/ UNCHANGED vars
  BY <1>8 DEF Stopped, vars, TraceInv, Profiled, ProfilingLeavesNoTrace
<1> QED BY <1>2, <1>3, <1>4, <1>5, <1>6, <1>7, <1>8 DEF Next

(* A worker that estimates the memory of its graphs first ends up with the     *)
(* keys of one that does not: resolving a resolved mode, and adjusting         *)
(* adjusted sizes, change nothing, and the cache it profiles with holds every  *)
(* size.                                                                      *)
THEOREM ProfilingLeavesNothing == Spec => []ProfilingLeavesNoTrace
<1>1. Init => TraceInv
  BY DEF Init, TraceInv, ProfilingLeavesNoTrace
<1>2. TraceInv => ProfilingLeavesNoTrace
  BY DEF TraceInv
<1> QED BY <1>1, <1>2, StepTrace, InitTyped, StepTyped, PTL DEF Spec

-----------------------------------------------------------------------------
(* The residual pre-fold.                                                     *)

TotalOnRanks == /\ pc = [r \in Ranks |-> pc[r]] /\ pending = [r \in Ranks |-> pending[r]]
             /\ residual = [r \in Ranks |-> residual[r]]
             /\ layer = [r \in Ranks |-> layer[r]]

IInv == TotalOnRanks /\ PendingStaysInItsLayer

(* The step of one rank changes neither the place nor the tensors of another.  *)
LEMMA OtherRanks ==
  ASSUME IInv, NEW r \in Ranks, UNCHANGED <<switches, moe>>,
         NEW p, NEW q, NEW l,
         pc' = [pc EXCEPT ![r] = p], pending' = [pending EXCEPT ![r] = q],
         \/ residual' = residual
         \/ \E x : residual' = [residual EXCEPT ![r] = x],
         layer' = layer \/ layer' = [layer EXCEPT ![r] = l],
         q # NoTensor => /\ p \in {"mlp_reduce", "after"} /\ use_prefold(r)' /\ q = residual'[r]
  PROVE  IInv'
<1>1. TotalOnRanks'
  BY DEF IInv, TotalOnRanks
<1>2. ASSUME NEW s \in Ranks, pending'[s] # NoTensor
      PROVE  pc'[s] \in {"mlp_reduce", "after"} /\ use_prefold(s)' /\ pending'[s] = residual'[s]
  <2>1. CASE s = r
    <3>1. pc'[s] = p /\ pending'[s] = q
      BY <2>1 DEF IInv, TotalOnRanks
    <3> QED BY <1>2, <2>1, <3>1
  <2>2. CASE s # r
    <3>1. pc'[s] = pc[s] /\ pending'[s] = pending[s] /\ residual'[s] = residual[s]
      BY <2>2 DEF IInv, TotalOnRanks
    <3>2. use_prefold(s)' = use_prefold(s)
      <4>1. layer'[s] = layer[s]
        BY <2>2 DEF IInv, TotalOnRanks
      <4> QED BY <4>1 DEF use_prefold, use_down
    <3> QED BY <1>2, <3>1, <3>2 DEF IInv, PendingStaysInItsLayer
  <2> QED BY <2>1, <2>2
<1> QED BY <1>1, <1>2 DEF IInv, PendingStaysInItsLayer

LEMMA InitIInv == PrefoldInit => IInv
  BY DEF PrefoldInit, IInv, TotalOnRanks, PendingStaysInItsLayer

(* Outside of its layer's MLP a rank finds nothing.                            *)
LEMMA NothingElsewhere ==
  ASSUME IInv, NEW r \in Ranks, pc[r] \notin {"mlp_reduce", "after"}
  PROVE  pending[r] = NoTensor
  BY DEF IInv, PendingStaysInItsLayer

LEMMA NothingFolded ==
  ASSUME NEW r, NEW f
  PROVE  ~ Folds(NoTensor, f) /\ ~ Raises(NoTensor, f)
  BY DEF Folds, Raises

(* The MLP: what it leaves pending is what it keeps as its residual.           *)
LEMMA MLPStep ==
  ASSUME IInv, NEW r \in Ranks, MLP(r)
  PROVE  IInv'
<1> DEFINE res == Summed(r)
           begun == IF use_prefold(r) THEN res ELSE pending[r]
           f == fit[layer[r]]
           q == IF Raises(begun, f) \/ Folds(begun, f) THEN NoTensor ELSE begun
           p == IF Raises(begun, f) THEN "raised" ELSE "mlp_reduce"
<1>1. /\ pc[r] = "middle" /\ residual' = [residual EXCEPT ![r] = res]
      /\ UNCHANGED <<switches, moe, layer>>
  BY DEF MLP
<1>2. pc' = [pc EXCEPT ![r] = p] /\ pending' = [pending EXCEPT ![r] = q]
  <2>1. CASE Raises(begun, f)
    BY <2>1 DEF MLP
  <2>2. CASE ~ Raises(begun, f)
    BY <2>2 DEF MLP, AllReduce
  <2> QED BY <2>1, <2>2
<1>3. pending[r] = NoTensor
  BY <1>1, NothingElsewhere
<1>4. use_prefold(r)' = use_prefold(r)
  BY <1>1 DEF use_prefold, use_down
<1>5. residual'[r] = res
  BY <1>1 DEF IInv, TotalOnRanks
<1>6. q # NoTensor => p = "mlp_reduce" /\ use_prefold(r)' /\ q = residual'[r]
  BY <1>3, <1>4, <1>5
<1> HIDE DEF p, q, res
<1> QED BY <1>1, <1>2, <1>6, OtherRanks

(* An all-reduce elsewhere finds nothing and leaves nothing.                   *)
LEMMA OtherReduce ==
  ASSUME IInv, NEW r \in Ranks, pc[r] \in {"embed", "layer"}, NEW x, NEW wait,
         AllReduce(r, x, pending[r], "alike", wait), UNCHANGED <<switches, moe, layer>>,
         residual' = residual \/ \E y : residual' = [residual EXCEPT ![r] = y]
  PROVE  IInv'
<1>1. pending[r] = NoTensor
  BY NothingElsewhere
<1>2. pc' = [pc EXCEPT ![r] = wait] /\ pending' = [pending EXCEPT ![r] = NoTensor]
  BY <1>1 DEF AllReduce
<1> QED BY <1>2, OtherRanks

LEMMA NextIInv == IInv /\ [PrefoldNext]_prefoldVars => IInv'
<1> SUFFICES ASSUME IInv, [PrefoldNext]_prefoldVars PROVE IInv'
  OBVIOUS
<1>1. ASSUME NEW r \in Ranks, Embed(r) PROVE IInv'
  BY <1>1, OtherReduce DEF Embed
<1>2. ASSUME NEW r \in Ranks, Attention(r) PROVE IInv'
  BY <1>2, OtherReduce DEF Attention
<1>3. ASSUME NEW r \in Ranks, MLP(r) PROVE IInv'
  BY <1>3, MLPStep
<1>4. ASSUME NEW r \in Ranks, LayerEnd(r) PROVE IInv'
  <2>1. pending[r] # NoTensor => use_prefold(r)
    BY <1>4 DEF LayerEnd, IInv, PendingStaysInItsLayer
  <2>2. pending' = [pending EXCEPT ![r] = NoTensor]
    BY <1>4, <2>1 DEF LayerEnd, IInv, TotalOnRanks
  <2> DEFINE x == IF Dropped(r) THEN NoTensor ELSE residual[r]
  <2>3. residual' = [residual EXCEPT ![r] = x]
    BY <1>4 DEF LayerEnd
  <2> HIDE DEF x
  <2>4. /\ pc' = [pc EXCEPT ![r] = "layer"] /\ layer' = [layer EXCEPT ![r] = layer[r] + 1]
        /\ UNCHANGED <<switches, moe>>
    BY <1>4 DEF LayerEnd
  <2> QED BY <2>2, <2>3, <2>4, OtherRanks
<1>5. ASSUME NEW r \in Ranks, Finish(r) PROVE IInv'
  <2>1. pending[r] = NoTensor
    BY <1>5, NothingElsewhere DEF Finish
  <2>2. pending' = [pending EXCEPT ![r] = NoTensor]
    BY <1>5, <2>1 DEF Finish, IInv, TotalOnRanks
  <2> QED BY <1>5, <2>2, OtherRanks DEF Finish
<1>6. ASSUME Reduce PROVE IInv'
  <2>1. Ranks # {}
    BY PrefoldAssumption, FS_EmptySet
  <2>2. PICK w \in DOMAIN Following : \A r \in Ranks : pc[r] = w /\ pc' = [y \in Ranks |-> Following[w]]
    BY <1>6 DEF Reduce
  <2>3. TotalOnRanks'
    BY <1>6, <2>1, <2>2 DEF Reduce, IInv, TotalOnRanks
  <2>4. ASSUME NEW r \in Ranks, pending'[r] # NoTensor
        PROVE  pc'[r] = "after" /\ use_prefold(r)' /\ pending'[r] = residual'[r]
    <3>1. pending[r] # NoTensor /\ pending'[r] = pending[r] /\ residual'[r] = residual[r]
      BY <1>6, <2>4 DEF Reduce
    <3>2. pc[r] \in {"mlp_reduce", "after"} /\ use_prefold(r) /\ pending[r] = residual[r]
      BY <3>1 DEF IInv, PendingStaysInItsLayer
    <3>3. w = "mlp_reduce"
      BY <2>2, <3>2 DEF Following
    <3>4. pc'[r] = "after"
      BY <2>2, <3>3 DEF Following
    <3>5. use_prefold(r)' = use_prefold(r)
      BY <1>6 DEF Reduce, use_prefold, use_down
    <3> QED BY <3>1, <3>2, <3>4, <3>5
  <2> QED BY <2>3, <2>4 DEF IInv, PendingStaysInItsLayer
<1>7. ASSUME NextForward PROVE IInv'
  <2>1. \A r \in Ranks : pending[r] = NoTensor
    BY <1>7, NothingElsewhere DEF NextForward
  <2>2. TotalOnRanks'
    BY <1>7 DEF NextForward, IInv, TotalOnRanks
  <2>3. \A r \in Ranks : pending'[r] = NoTensor
    BY <1>7, <2>1 DEF NextForward
  <2> QED BY <2>2, <2>3 DEF IInv, PendingStaysInItsLayer
<1>8. CASE UNCHANGED prefoldVars
  BY <1>8 DEF prefoldVars, IInv, TotalOnRanks, PendingStaysInItsLayer, use_prefold, use_down
<1> QED BY <1>1, <1>2, <1>3, <1>4, <1>5, <1>6, <1>7, <1>8 DEF PrefoldNext

(* PendingStaysInItsLayer for any ranks, layers, switches and shapes: a         *)
(* residual that was begun is cleared in its own layer, by the try and finally  *)
(* of Qwen2MoeDecoderLayer.forward, when the MLP raises as well.                *)
THEOREM NoResidualIsLeftBehind == PrefoldSpec => []PendingStaysInItsLayer
<1>1. IInv => PendingStaysInItsLayer
  BY DEF IInv
<1> QED BY <1>1, InitIInv, NextIInv, PTL DEF PrefoldSpec
-----------------------------------------------------------------------------
(* The ranks between two all-reduces.  What a rank does next is a function of  *)
(* its own state (Local), and at most two steps lead from one all-reduce to    *)
(* the next; so all ranks are on one short path.                              *)
State(p, l, h, x, w, k, u) ==
  [pc |-> p, layer |-> l, hidden |-> h, residual |-> x, pending |-> w, consumed |-> k, fused |-> u]
Core(r) == State(pc[r], layer[r], hidden[r], residual[r], pending[r], consumed[r], fused[r])

SummedOf(c) == IF c.residual = NoTensor THEN c.hidden ELSE Plus(c.hidden, c.residual)
FoldsOf(res, f) == switches.enable /\ res # NoTensor /\ f = "alike"
HiddenOf(x, res, f) == IF FoldsOf(res, f) THEN Plus(x, Over(res, TP)) ELSE x
PendingOf(res, f) == IF FoldsOf(res, f) THEN NoTensor ELSE res
DownOf(c) == switches.down /\ c.layer \notin moe
PrefoldOf(c) == switches.mlp /\ c.layer \notin moe /\ ~ switches.bias /\ ~ DownOf(c)
FuseOf(c) == DownOf(c) /\ switches.native /\ fit[c.layer] = "alike"
BegunOf(c) == IF PrefoldOf(c) THEN SummedOf(c) ELSE c.pending
RaisesOf(c) == Raises(BegunOf(c), fit[c.layer])
ProductOf(c) == LET x == Partial(<<c.layer, "mlp">>)
                IN  IF FuseOf(c) THEN Plus(x, Over(SummedOf(c), TP)) ELSE x
DroppedOf(c) == (PrefoldOf(c) /\ c.consumed) \/ (DownOf(c) /\ c.fused)

EmbedOf(c) ==
  State("embed_reduce", c.layer, HiddenOf(Partial(<<0, "embed">>), c.pending, "alike"),
        c.residual, PendingOf(c.pending, "alike"),
        c.consumed \/ FoldsOf(c.pending, "alike"), c.fused)
AttentionOf(c) ==
  State("attn_reduce", c.layer, HiddenOf(Partial(<<c.layer, "attn">>), c.pending, "alike"),
        SummedOf(c), PendingOf(c.pending, "alike"),
        c.consumed \/ FoldsOf(c.pending, "alike"), c.fused)
MLPOf(c) ==
  State(IF RaisesOf(c) THEN "raised" ELSE "mlp_reduce", c.layer,
        IF RaisesOf(c) THEN c.hidden ELSE HiddenOf(ProductOf(c), BegunOf(c), fit[c.layer]),
        SummedOf(c),
        IF RaisesOf(c) THEN NoTensor ELSE PendingOf(BegunOf(c), fit[c.layer]),
        (c.consumed /\ ~ PrefoldOf(c)) \/ FoldsOf(BegunOf(c), fit[c.layer]), FuseOf(c))
LayerEndOf(c) ==
  State("layer", c.layer + 1, c.hidden, IF DroppedOf(c) THEN NoTensor ELSE c.residual,
        IF PrefoldOf(c) THEN NoTensor ELSE c.pending, c.consumed, c.fused)
FinishOf(c) == State("done", c.layer, SummedOf(c), NoTensor, c.pending, c.consumed, c.fused)

Local(c) ==
  IF c.pc = "embed" THEN EmbedOf(c)
  ELSE IF c.pc = "layer" /\ c.layer <= Layers THEN AttentionOf(c)
  ELSE IF c.pc = "layer" /\ c.layer > Layers THEN FinishOf(c)
  ELSE IF c.pc = "middle" THEN MLPOf(c)
  ELSE IF c.pc = "after" THEN LayerEndOf(c)
  ELSE c

Moving == {"embed", "layer", "middle", "after"}
AllFunctions == /\ TotalOnRanks /\ hidden = [r \in Ranks |-> hidden[r]]
                /\ \A r \in Ranks : layer[r] \in Int
                /\ consumed = [r \in Ranks |-> consumed[r]] /\ fused = [r \in Ranks |-> fused[r]]

(* Every rank is where the last all-reduce left it, or one or two steps on.    *)
OnThePath(b, c, d) == /\ b.pc \in Moving /\ c = Local(b) /\ d = Local(c)
                      /\ \A r \in Ranks : Core(r) \in {b, c, d}
PathInv == AllFunctions /\ \E b, c, d : OnThePath(b, c, d)

(* Where a step leads. *)
LEMMA LocalPlaces ==
  ASSUME NEW c
  PROVE  /\ c.pc = "embed" => Local(c).pc = "embed_reduce"
         /\ c.pc = "layer" => Local(c) = c \/ Local(c).pc \in {"attn_reduce", "done"}
         /\ c.pc = "middle" => Local(c).pc \in {"mlp_reduce", "raised"}
         /\ c.pc = "after" => Local(c).pc = "layer"
         /\ c.pc \notin Moving => Local(c) = c
BY DEF Local, EmbedOf, AttentionOf, FinishOf, MLPOf, LayerEndOf, State, Moving

(* Two steps are enough, and no place of the path is visited twice.            *)
LEMMA ShortPath ==
  ASSUME NEW b, b.pc \in Moving
  PROVE  /\ Local(Local(Local(b))) = Local(Local(b))
         /\ \A c, d \in {b, Local(b), Local(Local(b))} : c.pc = d.pc => c = d
<1> DEFINE c == Local(b)
           d == Local(c)
           e == Local(d)
<1>1. /\ b.pc = "embed" => c.pc = "embed_reduce"
      /\ b.pc = "layer" => c = b \/ c.pc \in {"attn_reduce", "done"}
      /\ b.pc = "middle" => c.pc \in {"mlp_reduce", "raised"}
      /\ b.pc = "after" => c.pc = "layer"
  BY LocalPlaces
<1>2. /\ c.pc = "layer" => d = c \/ d.pc \in {"attn_reduce", "done"}
      /\ c.pc \notin Moving => d = c
  BY LocalPlaces
<1>3. d = c => e = d
  OBVIOUS
<1>4. d.pc \notin Moving => e = d
  BY LocalPlaces
<1>5. b = c => c = d
  OBVIOUS
<1> HIDE DEF c, d, e
<1>6. e = d
  BY <1>1, <1>2, <1>3, <1>4, <1>5 DEF Moving
<1>7. (b.pc = c.pc => b = c) /\ (c.pc = d.pc => c = d) /\ (b.pc = d.pc => b = d)
  BY <1>1, <1>2, <1>5 DEF Moving
<1> QED BY <1>6, <1>7 DEF c, d, e

(* Each action is Local, and leaves the other ranks alone.                     *)
OthersStay(r) ==
  /\ AllFunctions' /\ UNCHANGED <<switches, moe, fit>>
  /\ \A s \in Ranks \ {r} :
       /\ pc'[s] = pc[s] /\ layer'[s] = layer[s] /\ hidden'[s] = hidden[s]
       /\ residual'[s] = residual[s] /\ pending'[s] = pending[s]
       /\ consumed'[s] = consumed[s] /\ fused'[s] = fused[s]

LEMMA ActionsAreLocal ==
  ASSUME AllFunctions, NEW r \in Ranks,
         Embed(r) \/ Attention(r) \/ MLP(r) \/ LayerEnd(r) \/ Finish(r)
  PROVE  Core(r)' = Local(Core(r)) /\ OthersStay(r)
<1> DEFINE c == Core(r)
<1>0. /\ c.pc = pc[r] /\ c.layer = layer[r] /\ c.hidden = hidden[r] /\ c.residual = residual[r]
      /\ c.pending = pending[r] /\ c.consumed = consumed[r] /\ c.fused = fused[r]
  BY DEF Core, State
<1> HIDE DEF c
<1>1. /\ Summed(r) = SummedOf(c) /\ use_down(r) = DownOf(c) /\ use_prefold(r) = PrefoldOf(c)
      /\ can_fuse(r) = FuseOf(c) /\ Dropped(r) = DroppedOf(c)
      /\ \A x, f : Folds(x, f) = FoldsOf(x, f)
  BY <1>0 DEF Summed, SummedOf, use_down, DownOf, use_prefold, PrefoldOf, can_fuse, FuseOf,
              Dropped, DroppedOf, Folds, FoldsOf
<1>2. c.layer \in Int /\ Layers \in Int
  BY <1>0, PrefoldAssumption DEF AllFunctions
<1>4. CASE Embed(r)
  <2> DEFINE h == HiddenOf(Partial(<<0, "embed">>), c.pending, "alike")
             w == PendingOf(c.pending, "alike")
             k == c.consumed \/ FoldsOf(c.pending, "alike")
  <2>0. consumed' = [consumed EXCEPT ![r] = k]
    <3>1. consumed' = [consumed EXCEPT ![r] = consumed[r] \/ Folds(pending[r], "alike")]
      BY <1>4 DEF Embed
    <3>2. (consumed[r] \/ Folds(pending[r], "alike")) = k
      BY <1>0, <1>1
    <3> HIDE DEF k
    <3> QED BY <3>1, <3>2, Zenon
  <2>1. /\ pc' = [pc EXCEPT ![r] = "embed_reduce"] /\ hidden' = [hidden EXCEPT ![r] = h]
        /\ pending' = [pending EXCEPT ![r] = w]
        /\ UNCHANGED <<switches, moe, fit, layer, residual, fused>> /\ c.pc = "embed"
    <3> DEFINE F == Folds(pending[r], "alike")
               h0 == IF F THEN Plus(Partial(<<0, "embed">>), Over(pending[r], TP)) ELSE Partial(<<0, "embed">>)
               w0 == IF F THEN NoTensor ELSE pending[r]
    <3>1. h0 = h /\ w0 = w
      BY <1>0, <1>1 DEF HiddenOf, PendingOf
    <3>2. /\ hidden' = [hidden EXCEPT ![r] = h0] /\ pending' = [pending EXCEPT ![r] = w0]
          /\ pc' = [pc EXCEPT ![r] = "embed_reduce"]
      BY <1>4 DEF Embed, AllReduce
    <3> HIDE DEF h, w, k, F, h0, w0
    <3>3. UNCHANGED <<switches, moe, fit, layer, residual, fused>> /\ c.pc = "embed"
      BY <1>0, <1>1, <1>4 DEF Embed
    <3> QED BY <3>1, <3>2, <3>3
  <2> HIDE DEF h, w, k
  <2>2. OthersStay(r)
    BY <2>0, <2>1 DEF OthersStay, AllFunctions, TotalOnRanks
  <2>3. Core(r)' = State("embed_reduce", c.layer, h, c.residual, w, k, c.fused)
    BY <1>0, <2>0, <2>1 DEF Core, AllFunctions, TotalOnRanks
  <2>4. Core(r)' = EmbedOf(c)
    BY <2>3 DEF EmbedOf, h, w, k
  <2> QED BY <2>1, <2>2, <2>4 DEF Local, c
<1>5. CASE Attention(r)
  <2> DEFINE h == HiddenOf(Partial(<<c.layer, "attn">>), c.pending, "alike")
             x == SummedOf(c)
             w == PendingOf(c.pending, "alike")
             k == c.consumed \/ FoldsOf(c.pending, "alike")
  <2>0. consumed' = [consumed EXCEPT ![r] = k]
    <3>1. consumed' = [consumed EXCEPT ![r] = consumed[r] \/ Folds(pending[r], "alike")]
      BY <1>5 DEF Attention
    <3>2. (consumed[r] \/ Folds(pending[r], "alike")) = k
      BY <1>0, <1>1
    <3> HIDE DEF k
    <3> QED BY <3>1, <3>2, Zenon
  <2>1. /\ pc' = [pc EXCEPT ![r] = "attn_reduce"] /\ hidden' = [hidden EXCEPT ![r] = h]
        /\ residual' = [residual EXCEPT ![r] = x]
        /\ pending' = [pending EXCEPT ![r] = w]
        /\ UNCHANGED <<switches, moe, fit, layer, fused>> /\ c.pc = "layer" /\ c.layer <= Layers
    <3> DEFINE F == Folds(pending[r], "alike")
               h0 == IF F THEN Plus(Partial(<<layer[r], "attn">>), Over(pending[r], TP)) ELSE Partial(<<layer[r], "attn">>)
               w0 == IF F THEN NoTensor ELSE pending[r]
    <3>1. h0 = h /\ w0 = w
      BY <1>0, <1>1 DEF HiddenOf, PendingOf
    <3>2. /\ hidden' = [hidden EXCEPT ![r] = h0] /\ pending' = [pending EXCEPT ![r] = w0]
          /\ pc' = [pc EXCEPT ![r] = "attn_reduce"]
      BY <1>5 DEF Attention, AllReduce
    <3> HIDE DEF h, w, k, F, h0, w0
    <3>3. /\ UNCHANGED <<switches, moe, fit, layer, fused>> /\ c.pc = "layer" /\ c.layer <= Layers
          /\ residual' = [residual EXCEPT ![r] = x]
      BY <1>0, <1>1, <1>5 DEF Attention
    <3> QED BY <3>1, <3>2, <3>3
  <2> HIDE DEF h, x, w, k
  <2>2. OthersStay(r)
    BY <2>0, <2>1 DEF OthersStay, AllFunctions, TotalOnRanks
  <2>3. Core(r)' = State("attn_reduce", c.layer, h, x, w, k, c.fused)
    BY <1>0, <2>0, <2>1 DEF Core, AllFunctions, TotalOnRanks
  <2>4. Core(r)' = AttentionOf(c)
    BY <2>3 DEF AttentionOf, h, x, w, k
  <2> QED BY <2>1, <2>2, <2>4 DEF Local, c
<1>6. CASE MLP(r)
  <2> DEFINE f == fit[c.layer]
             p == IF RaisesOf(c) THEN "raised" ELSE "mlp_reduce"
             h == IF RaisesOf(c) THEN c.hidden ELSE HiddenOf(ProductOf(c), BegunOf(c), f)
             x == SummedOf(c)
             w == IF RaisesOf(c) THEN NoTensor ELSE PendingOf(BegunOf(c), f)
             k == (c.consumed /\ ~ PrefoldOf(c)) \/ FoldsOf(BegunOf(c), f)
             u == FuseOf(c)
  <2>0. consumed' = [consumed EXCEPT ![r] = k]
    <3> DEFINE begun == IF use_prefold(r) THEN Summed(r) ELSE pending[r]
               g == fit[layer[r]]
    <3>1. consumed' = [consumed EXCEPT ![r] =
                         (consumed[r] /\ ~ use_prefold(r)) \/ Folds(begun, g)]
      BY <1>6 DEF MLP
    <3>2. begun = BegunOf(c) /\ g = f
      BY <1>0, <1>1 DEF BegunOf
    <3> HIDE DEF begun, g, f
    <3>3. ((consumed[r] /\ ~ use_prefold(r)) \/ Folds(begun, g)) = k
      BY <1>0, <1>1, <3>2
    <3> HIDE DEF k
    <3> QED BY <3>1, <3>3, Zenon
  <2>1. /\ c.pc = "middle" /\ UNCHANGED <<switches, moe, fit, layer>>
        /\ residual' = [residual EXCEPT ![r] = x] /\ fused' = [fused EXCEPT ![r] = u]
    <3> HIDE DEF p, h, w, k
    <3> QED BY <1>0, <1>1, <1>6 DEF MLP
  <2>2. /\ pc' = [pc EXCEPT ![r] = p] /\ hidden' = [hidden EXCEPT ![r] = h]
        /\ pending' = [pending EXCEPT ![r] = w]
    <3>1. CASE RaisesOf(c)
      <4>1. hidden = [hidden EXCEPT ![r] = c.hidden]
        BY <1>0 DEF AllFunctions
      <4> QED BY <1>0, <1>1, <1>6, <3>1, <4>1 DEF MLP, BegunOf, RaisesOf
    <3>2. CASE ~ RaisesOf(c)
      BY <1>0, <1>1, <1>6, <3>2 DEF MLP, AllReduce, BegunOf, RaisesOf, HiddenOf, PendingOf, ProductOf
    <3> QED BY <3>1, <3>2
  <2> HIDE DEF p, h, x, w, k, u
  <2>3. OthersStay(r)
    BY <2>0, <2>1, <2>2 DEF OthersStay, AllFunctions, TotalOnRanks
  <2>4. Core(r)' = State(p, c.layer, h, x, w, k, u)
    BY <1>0, <2>0, <2>1, <2>2 DEF Core, AllFunctions, TotalOnRanks
  <2>5. Core(r)' = MLPOf(c)
    BY <2>4 DEF MLPOf, p, h, x, w, k, u
  <2> QED BY <2>1, <2>3, <2>5 DEF Local, c
<1>7. CASE LayerEnd(r)
  <2> DEFINE x == IF DroppedOf(c) THEN NoTensor ELSE c.residual
             w == IF PrefoldOf(c) THEN NoTensor ELSE c.pending
  <2>1. /\ pc' = [pc EXCEPT ![r] = "layer"] /\ layer' = [layer EXCEPT ![r] = c.layer + 1]
        /\ residual' = [residual EXCEPT ![r] = x] /\ pending' = [pending EXCEPT ![r] = w]
        /\ UNCHANGED <<switches, moe, fit, hidden, consumed, fused>> /\ c.pc = "after"
    BY <1>0, <1>1, <1>7 DEF LayerEnd
  <2> HIDE DEF x, w
  <2>2. OthersStay(r)
    <3>1. \A s \in Ranks : layer'[s] \in Int
      <4> DEFINE l == c.layer + 1
      <4>1. l \in Int
        BY <1>2
      <4>2. layer' = [layer EXCEPT ![r] = l]
        BY <2>1
      <4> HIDE DEF l
      <4> QED BY <4>1, <4>2 DEF AllFunctions, TotalOnRanks
    <3> QED BY <2>1, <3>1 DEF OthersStay, AllFunctions, TotalOnRanks
  <2>3. Core(r)' = State("layer", c.layer + 1, c.hidden, x, w, c.consumed, c.fused)
    BY <1>0, <2>1 DEF Core, AllFunctions, TotalOnRanks
  <2>4. Core(r)' = LayerEndOf(c)
    BY <2>3 DEF LayerEndOf, x, w
  <2> QED BY <2>1, <2>2, <2>4 DEF Local, c
<1>8. CASE Finish(r)
  <2> DEFINE h == SummedOf(c)
  <2>1. /\ pc' = [pc EXCEPT ![r] = "done"] /\ hidden' = [hidden EXCEPT ![r] = h]
        /\ residual' = [residual EXCEPT ![r] = NoTensor]
        /\ UNCHANGED <<switches, moe, fit, layer, pending, consumed, fused>>
        /\ c.pc = "layer" /\ c.layer > Layers
    BY <1>0, <1>1, <1>8 DEF Finish
  <2> HIDE DEF h
  <2>2. OthersStay(r)
    BY <2>1 DEF OthersStay, AllFunctions, TotalOnRanks
  <2>3. Core(r)' = State("done", c.layer, h, NoTensor, c.pending, c.consumed, c.fused)
    BY <1>0, <2>1 DEF Core, AllFunctions, TotalOnRanks
  <2>4. Core(r)' = FinishOf(c)
    BY <2>3 DEF FinishOf, h
  <2>5. ~ (c.layer <= Layers)
    BY <1>2, <2>1
  <2> QED BY <2>1, <2>2, <2>4, <2>5 DEF Local, c
<1> QED BY <1>4, <1>5, <1>6, <1>7, <1>8

(* What is computed depends on nothing that changes during a pass.            *)
LEMMA LocalStays ==
  ASSUME UNCHANGED <<switches, moe, fit>>, NEW CONSTANT c
  PROVE  Local(c)' = Local(c)
<1>1. EmbedOf(c)' = EmbedOf(c)
  BY DEF EmbedOf, HiddenOf, PendingOf, FoldsOf
<1>2. AttentionOf(c)' = AttentionOf(c)
  BY DEF AttentionOf, SummedOf, HiddenOf, PendingOf, FoldsOf
<1>3. FinishOf(c)' = FinishOf(c)
  BY DEF FinishOf, SummedOf
<1>4. LayerEndOf(c)' = LayerEndOf(c)
  BY DEF LayerEndOf, DroppedOf, PrefoldOf, DownOf
<1>5. MLPOf(c)' = MLPOf(c)
  BY DEF MLPOf, RaisesOf, Raises, BegunOf, ProductOf, FuseOf, PrefoldOf, DownOf, SummedOf,
         HiddenOf, PendingOf, FoldsOf
<1> QED BY <1>1, <1>2, <1>3, <1>4, <1>5 DEF Local

(* Ranks at one place of the path are alike.                                  *)
LEMMA SamePlaceAlike ==
  ASSUME PathInv, NEW r \in Ranks, NEW s \in Ranks, pc[r] = pc[s]
  PROVE  Core(r) = Core(s)
<1>1. PICK b, c, d : OnThePath(b, c, d)
  BY DEF PathInv
<1>2. Core(r).pc = pc[r] /\ Core(s).pc = pc[s]
  BY DEF Core, State
<1> QED BY <1>1, <1>2, ShortPath DEF OnThePath

(* Where all ranks are alike and about to move, a path begins.                *)
LEMMA PathBegins ==
  ASSUME AllFunctions', \A r, s \in Ranks : Core(r)' = Core(s)',
         \A r \in Ranks : pc'[r] \in Moving
  PROVE  PathInv'
<1>1. Ranks # {}
  BY PrefoldAssumption, FS_EmptySet
<1>2. PICK r \in Ranks : TRUE
  BY <1>1
<1>3. PICK b : b = Core(r)'
  OBVIOUS
<1>4. b.pc \in Moving
  BY <1>3 DEF Core, State
<1>5. \A s \in Ranks : Core(s)' = b
  BY <1>3
<1>6. PICK c : c = Local(b)'
  OBVIOUS
<1>7. PICK d : d = Local(c)'
  OBVIOUS
<1>8. OnThePath(b, c, d)'
  BY <1>4, <1>5, <1>6, <1>7 DEF OnThePath
<1> QED BY <1>8 DEF PathInv

LEMMA InitPath == PrefoldInit => PathInv
<1> SUFFICES ASSUME PrefoldInit PROVE PathInv
  OBVIOUS
<1>1. AllFunctions
  BY DEF PrefoldInit, AllFunctions, TotalOnRanks
<1>2. Ranks # {}
  BY PrefoldAssumption, FS_EmptySet
<1>3. PICK r \in Ranks : TRUE
  BY <1>2
<1>4. \A s \in Ranks : Core(s) = Core(r) /\ Core(s).pc = "embed"
  BY DEF PrefoldInit, Core, State
<1>5. OnThePath(Core(r), Local(Core(r)), Local(Local(Core(r))))
  BY <1>4 DEF OnThePath, Moving
<1> QED BY <1>1, <1>5 DEF PathInv

LEMMA NextPath ==
  ASSUME PathInv, [PrefoldNext]_prefoldVars
  PROVE  PathInv'
<1>1. ASSUME NEW r \in Ranks, Embed(r) \/ Attention(r) \/ MLP(r) \/ LayerEnd(r) \/ Finish(r)
      PROVE  PathInv'
  <2>1. PICK b, c, d : OnThePath(b, c, d)
    BY DEF PathInv
  <2>2. Core(r)' = Local(Core(r)) /\ OthersStay(r)
    BY <1>1, ActionsAreLocal DEF PathInv
  <2>3. c = Local(b) /\ d = Local(c) /\ Local(d) = d /\ b.pc \in Moving
    BY <2>1, ShortPath DEF OnThePath
  <2>4. \A s \in Ranks : Core(s)' \in {b, c, d}
    <3> TAKE s \in Ranks
    <3>1. CASE s = r
      <4>1. Core(r) \in {b, c, d}
        BY <2>1 DEF OnThePath
      <4> QED BY <2>2, <2>3, <3>1, <4>1
    <3>2. CASE s # r
      <4>1. Core(s)' = Core(s)
        BY <2>2, <3>2 DEF OthersStay, Core
      <4> QED BY <2>1, <4>1 DEF OnThePath
    <3> QED BY <3>1, <3>2
  <2>5. Local(b)' = Local(b) /\ Local(c)' = Local(c)
    BY <2>2, LocalStays DEF OthersStay
  <2>6. OnThePath(b, c, d)'
    BY <2>3, <2>4, <2>5 DEF OnThePath
  <2> QED BY <2>2, <2>6 DEF PathInv, OthersStay
<1>2. CASE Reduce
  <2>1. PICK w \in DOMAIN Following : \A r \in Ranks : pc[r] = w /\ pc' = [x \in Ranks |-> Following[w]]
    BY <1>2 DEF Reduce
  <2>2. \A r, s \in Ranks : Core(r) = Core(s)
    BY <2>1, SamePlaceAlike
  <2>3. \A r \in Ranks : pc'[r] = Following[w]
    BY <2>1
  <2>4. Following[w] \in Moving
    BY DEF Following, Moving
  <2> DEFINE sum == [s \in Sources |-> FoldSet(LAMBDA q, t : t + hidden[q][s], 0, Ranks)]
  <2>5. hidden' = [r \in Ranks |-> sum] /\ UNCHANGED <<layer, residual, pending, consumed, fused>>
    BY <1>2 DEF Reduce
  <2> HIDE DEF sum
  <2>6. AllFunctions'
    <3>1. Ranks # {}
      BY PrefoldAssumption, FS_EmptySet
    <3> QED BY <2>1, <2>5, <3>1 DEF PathInv, AllFunctions, TotalOnRanks
  <2>7. \A r, s \in Ranks : Core(r)' = Core(s)'
    BY <2>2, <2>3, <2>5 DEF Core, State
  <2> QED BY <2>3, <2>4, <2>6, <2>7, PathBegins
<1>3. CASE NextForward
  <2>1. \A r, s \in Ranks : Core(r) = Core(s)
    BY <1>3, SamePlaceAlike DEF NextForward
  <2>2. /\ \A r \in Ranks : /\ pc'[r] = "embed" /\ layer'[r] = 1 /\ hidden'[r] = NoTensor
                            /\ residual'[r] = NoTensor /\ fused'[r] = FALSE
        /\ UNCHANGED <<pending, consumed>>
    BY <1>3 DEF NextForward
  <2>3. AllFunctions'
    BY <1>3 DEF NextForward, PathInv, AllFunctions, TotalOnRanks
  <2>4. \A r, s \in Ranks : Core(r)' = Core(s)'
    BY <2>1, <2>2 DEF Core, State
  <2> QED BY <2>2, <2>3, <2>4, PathBegins DEF Moving
<1>4. CASE UNCHANGED prefoldVars
  <2>1. PICK b, c, d : OnThePath(b, c, d)
    BY DEF PathInv
  <2>2. \A r \in Ranks : Core(r)' = Core(r)
    BY <1>4 DEF prefoldVars, Core
  <2>3. Local(b)' = Local(b) /\ Local(c)' = Local(c)
    BY <1>4, LocalStays DEF prefoldVars
  <2>4. OnThePath(b, c, d)'
    BY <2>1, <2>2, <2>3 DEF OnThePath
  <2>5. AllFunctions'
    BY <1>4 DEF prefoldVars, PathInv, AllFunctions, TotalOnRanks
  <2> QED BY <2>4, <2>5 DEF PathInv
<1> QED BY <1>1, <1>2, <1>3, <1>4 DEF PrefoldNext

-----------------------------------------------------------------------------
(* The sum of an all-reduce.  A set of numbers has a least one.               *)
LEMMA NatLeast ==
  ASSUME NEW T, T \subseteq Nat, T # {}
  PROVE \E x \in T : \A y \in T : x <= y
<1>1. PICK x \in T : \A y \in T : ~ (<<y, x>> \in OpToRel(<, Nat))
  BY NatLessThanWellFounded, WFMin
<1>2. ASSUME NEW y \in T, y < x
      PROVE  FALSE
  <2>1. <<y, x>> \in OpToRel(<, Nat)
    BY <1>2 DEF OpToRel
  <2> QED BY <1>1, <2>1
<1> QED BY <1>2

(* The recursion by which FoldSet adds the i-th place of every g[q].           *)
Folding(f, g, i, S) ==
  f = [s \in SUBSET S |-> IF s = {} THEN 0
                          ELSE f[s \ {CHOOSE e \in s : TRUE}] + g[CHOOSE e \in s : TRUE][i]]

(* A sum of equal summands is their number times the summand: the product      *)
(* satisfies the recursion, and no other function on the subsets does, since a *)
(* smallest subset where they differ would not be.                             *)
LEMMA SumOfEqual ==
  ASSUME NEW S, IsFiniteSet(S), NEW g, NEW i, NEW c \in Int, \A q \in S : g[q][i] = c
  PROVE  FoldSet(LAMBDA q, t : t + g[q][i], 0, S) = Cardinality(S) * c
<1> DEFINE some(s) == CHOOSE e \in s : TRUE
           product == [s \in SUBSET S |-> Cardinality(s) * c]
<1>1. \A s \in SUBSET S : IsFiniteSet(s) /\ Cardinality(s) \in Nat
  BY FS_Subset, FS_CardinalityType
<1>2. \A s \in SUBSET S : s # {} =>
        /\ some(s) \in s /\ s \ {some(s)} \in SUBSET S /\ g[some(s)][i] = c
        /\ Cardinality(s \ {some(s)}) = Cardinality(s) - 1
  BY <1>1, FS_RemoveElement
<1>3. Folding(product, g, i, S)
  <2>1. ASSUME NEW s \in SUBSET S
        PROVE  product[s] = IF s = {} THEN 0 ELSE product[s \ {some(s)}] + g[some(s)][i]
    <3>1. CASE s = {}
      BY <3>1, FS_EmptySet
    <3>2. CASE s # {}
      <4>1. product[s] = Cardinality(s) * c
        OBVIOUS
      <4>2. product[s \ {some(s)}] = (Cardinality(s) - 1) * c
        BY <1>2, <3>2
      <4>3. \A n \in Nat : n * c = (n - 1) * c + c
        OBVIOUS
      <4> HIDE DEF product, some
      <4> QED BY <1>1, <1>2, <3>2, <4>1, <4>2, <4>3
    <3> QED BY <3>1, <3>2
  <2> QED BY <2>1 DEF Folding
<1>4. PICK f : f = CHOOSE h : Folding(h, g, i, S)
  OBVIOUS
<1>5. Folding(f, g, i, S)
  BY <1>3, <1>4
<1>6. \A s \in SUBSET S : f[s] = IF s = {} THEN 0 ELSE f[s \ {some(s)}] + g[some(s)][i]
  BY <1>5 DEF Folding
<1>7. \A s \in SUBSET S : product[s] = IF s = {} THEN 0 ELSE product[s \ {some(s)}] + g[some(s)][i]
  BY <1>3 DEF Folding
<1> HIDE DEF product, some
<1>8. \A s \in SUBSET S : f[s] = product[s]
  <2> DEFINE T == {n \in Nat : \E s \in SUBSET S : Cardinality(s) = n /\ f[s] # product[s]}
  <2>1. T = {}
    <3> SUFFICES ASSUME T # {} PROVE FALSE
      OBVIOUS
    <3>1. PICK n \in T : \A m \in T : n <= m
      BY NatLeast
    <3>2. PICK s \in SUBSET S : Cardinality(s) = n /\ f[s] # product[s]
      BY <3>1
    <3>3. s # {}
      BY <1>6, <1>7, <3>2
    <3>4. s \ {some(s)} \in SUBSET S /\ Cardinality(s \ {some(s)}) = n - 1 /\ n - 1 \in Nat
      BY <1>1, <1>2, <3>2, <3>3
    <3>5. n - 1 \notin T
      BY <3>1, <3>4
    <3>6. f[s \ {some(s)}] = product[s \ {some(s)}]
      BY <3>4, <3>5
    <3> QED BY <1>6, <1>7, <3>2, <3>3, <3>6
  <2> QED BY <1>1, <2>1
<1>9. FoldSet(LAMBDA q, t : t + g[q][i], 0, S) = f[S]
  BY <1>4 DEF FoldSet, MapThenFoldSet, Folding
<1> QED BY <1>8, <1>9 DEF product
-----------------------------------------------------------------------------
(* What a rank holds at each place of a forward pass: of every source a whole  *)
(* contribution or none, and inside an all-reduce its own unit of each.        *)
Tensor == [Sources -> Nat]
WholeStream(s) == [Zero EXCEPT ![s] = TP]
Before(l) == [s \in Sources |-> IF s[1] < l THEN TP ELSE 0]
Midway(l) == Plus(WholeStream(<<l, "attn">>), Before(l))

AtStart(c) == c.layer = 1 /\ c.residual = NoTensor
AfterLayers(c) == c.layer \in Nat /\ c.layer > 0 /\ c.hidden \in Tensor
                  /\ SummedOf(c) = Before(c.layer)
InAttention(c, h) == /\ c.layer \in 1..Layers /\ c.residual = Before(c.layer)
                     /\ c.hidden = h
InMLP(c, h, folded) == /\ c.layer \in 1..Layers /\ c.residual = Midway(c.layer)
                       /\ c.hidden = IF DroppedOf(c) THEN Plus(h, folded) ELSE h
Holds(c) ==
  /\ c.pc = "embed" => AtStart(c)
  /\ c.pc = "embed_reduce" => AtStart(c) /\ c.hidden = Partial(<<0, "embed">>)
  /\ c.pc = "layer" => AfterLayers(c)
  /\ c.pc = "attn_reduce" => InAttention(c, Partial(<<c.layer, "attn">>))
  /\ c.pc = "middle" => InAttention(c, WholeStream(<<c.layer, "attn">>))
  /\ c.pc = "mlp_reduce" =>
       InMLP(c, Partial(<<c.layer, "mlp">>), Over(Midway(c.layer), TP))
  /\ c.pc = "after" => InMLP(c, WholeStream(<<c.layer, "mlp">>), Midway(c.layer))

LEMMA TPIsPositive == TP \in Nat /\ TP > 1 /\ Layers \in Nat \ {0}
  BY PrefoldAssumption, FS_CardinalityType DEF TP

LEMMA SourcesOfLayers ==
  /\ <<0, "embed">> \in Sources
  /\ \A l \in 1..Layers : <<l, "attn">> \in Sources /\ <<l, "mlp">> \in Sources
  /\ \A s \in Sources :
       /\ s[1] \in Int /\ s[1] >= 0 /\ s[1] <= Layers
       /\ s[1] < 1 <=> s = <<0, "embed">>
       /\ \A l \in 1..Layers : s[1] = l <=> s \in {<<l, "attn">>, <<l, "mlp">>}
  BY TPIsPositive DEF Sources

(* Units and whole contributions, place by place.                             *)
LEMMA Places ==
  ASSUME NEW x \in Sources, NEW s \in Sources
  PROVE  /\ Partial(x)[s] = IF s = x THEN 1 ELSE 0
         /\ WholeStream(x)[s] = IF s = x THEN TP ELSE 0
  BY DEF Partial, WholeStream, Zero

LEMMA Tensors ==
  ASSUME NEW l \in 1..Layers
  PROVE  /\ Before(l) \in Tensor /\ Midway(l) \in Tensor
         /\ WholeStream(<<l, "attn">>) \in Tensor /\ WholeStream(<<l, "mlp">>) \in Tensor
         /\ WholeStream(<<0, "embed">>) \in Tensor
         /\ Plus(WholeStream(<<l, "mlp">>), Midway(l)) \in Tensor
<1>1. \A x \in Sources : WholeStream(x) \in Tensor
  BY TPIsPositive DEF WholeStream, Zero, Tensor
<1>2. Before(l) \in Tensor
  BY TPIsPositive DEF Before, Tensor
<1>3. \A x, y \in Tensor : Plus(x, y) \in Tensor
  BY DEF Plus, Tensor
<1> QED BY <1>1, <1>2, <1>3, SourcesOfLayers DEF Midway

(* The embedding is the stream before layer 1; the attention's and the MLP's   *)
(* contributions make the stream before layer l the one before l + 1.          *)
LEMMA StreamGrows ==
  /\ WholeStream(<<0, "embed">>) = Before(1)
  /\ \A l \in 1..Layers : Plus(WholeStream(<<l, "mlp">>), Midway(l)) = Before(l + 1)
<1>1. WholeStream(<<0, "embed">>) = Before(1)
  <2>1. \A s \in Sources : WholeStream(<<0, "embed">>)[s] = Before(1)[s]
    BY Places, SourcesOfLayers DEF Before
  <2> QED BY <2>1 DEF WholeStream, Zero, Before
<1>2. ASSUME NEW l \in 1..Layers
      PROVE  Plus(WholeStream(<<l, "mlp">>), Midway(l)) = Before(l + 1)
  <2>1. ASSUME NEW s \in Sources
        PROVE  Plus(WholeStream(<<l, "mlp">>), Midway(l))[s] = Before(l + 1)[s]
    <3>1. Plus(WholeStream(<<l, "mlp">>), Midway(l))[s]
            = WholeStream(<<l, "mlp">>)[s] + (WholeStream(<<l, "attn">>)[s] + Before(l)[s])
      BY DEF Plus, Midway
    <3>2. /\ WholeStream(<<l, "mlp">>)[s] = IF s = <<l, "mlp">> THEN TP ELSE 0
          /\ WholeStream(<<l, "attn">>)[s] = IF s = <<l, "attn">> THEN TP ELSE 0
      BY Places, SourcesOfLayers
    <3>3. /\ Before(l)[s] = IF s[1] < l THEN TP ELSE 0
          /\ Before(l + 1)[s] = IF s[1] < l + 1 THEN TP ELSE 0
      BY DEF Before
    <3>4. /\ s[1] \in Int /\ <<l, "attn">> # <<l, "mlp">>
          /\ s[1] = l <=> s \in {<<l, "attn">>, <<l, "mlp">>}
      BY SourcesOfLayers
    <3> QED BY <3>1, <3>2, <3>3, <3>4, TPIsPositive
  <2> QED BY <2>1 DEF Plus, Before
<1> QED BY <1>1, <1>2

(* Adding TP equal tensors multiplies them by TP: a unit becomes a whole       *)
(* contribution, and what was folded in as residual / TP the residual.         *)
Times(x) == [s \in Sources |-> TP * x[s]]
LEMMA UnitsBecomeWhole ==
  /\ \A x \in Sources : Times(Partial(x)) = WholeStream(x)
  /\ \A l \in 1..Layers :
       Times(Plus(Partial(<<l, "mlp">>), Over(Midway(l), TP)))
         = Plus(WholeStream(<<l, "mlp">>), Midway(l))
<1>1. ASSUME NEW x \in Sources
      PROVE  Times(Partial(x)) = WholeStream(x)
  <2>1. \A s \in Sources : Times(Partial(x))[s] = WholeStream(x)[s]
    BY Places, TPIsPositive DEF Times
  <2> QED BY <2>1 DEF Times, WholeStream, Zero
<1>2. ASSUME NEW l \in 1..Layers
      PROVE  Times(Plus(Partial(<<l, "mlp">>), Over(Midway(l), TP)))
               = Plus(WholeStream(<<l, "mlp">>), Midway(l))
  <2>0. <<l, "attn">> \in Sources /\ <<l, "mlp">> \in Sources
    BY SourcesOfLayers
  <2>1. ASSUME NEW s \in Sources
        PROVE  TP * (Partial(<<l, "mlp">>)[s] + Midway(l)[s] \div TP)
                 = WholeStream(<<l, "mlp">>)[s] + Midway(l)[s]
    <3>1. Midway(l)[s] = WholeStream(<<l, "attn">>)[s] + Before(l)[s]
      BY DEF Midway, Plus
    <3>2. Midway(l)[s] \in {0, TP}
      <4>1. WholeStream(<<l, "attn">>)[s] = IF s = <<l, "attn">> THEN TP ELSE 0
        BY <2>0, Places
      <4>2. Before(l)[s] = IF s[1] < l THEN TP ELSE 0
        BY DEF Before
      <4>3. s = <<l, "attn">> => ~ (s[1] < l)
        BY SourcesOfLayers
      <4> QED BY <3>1, <4>1, <4>2, <4>3, TPIsPositive
    <3>3. TP * (Midway(l)[s] \div TP) = Midway(l)[s] /\ Midway(l)[s] \div TP \in {0, 1}
      <4>1. 0 \div TP = 0 /\ TP \div TP = 1
        BY TPIsPositive
      <4> QED BY <3>2, <4>1, TPIsPositive
    <3>4. /\ Partial(<<l, "mlp">>)[s] = IF s = <<l, "mlp">> THEN 1 ELSE 0
          /\ WholeStream(<<l, "mlp">>)[s] = IF s = <<l, "mlp">> THEN TP ELSE 0
      BY <2>0, Places
    <3> QED BY <3>2, <3>3, <3>4, TPIsPositive
  <2>2. Times(Plus(Partial(<<l, "mlp">>), Over(Midway(l), TP)))
          = [s \in Sources |-> TP * (Partial(<<l, "mlp">>)[s] + Midway(l)[s] \div TP)]
    BY DEF Times, Plus, Over
  <2>3. Plus(WholeStream(<<l, "mlp">>), Midway(l))
          = [s \in Sources |-> WholeStream(<<l, "mlp">>)[s] + Midway(l)[s]]
    BY DEF Plus
  <2> QED BY <2>1, <2>2, <2>3
<1> QED BY <1>1, <1>2

-----------------------------------------------------------------------------
LEMMA TensorsAreNotNone == \A x \in Tensor : x # NoTensor
  BY PrefoldAssumption DEF Tensor

LEMMA NoFold == \A x, f : /\ ~ FoldsOf(NoTensor, f) /\ HiddenOf(x, NoTensor, f) = x
                          /\ ~ Raises(NoTensor, f)
  BY DEF FoldsOf, HiddenOf, Raises

(* The MLP: the residual is in its output, or to be in it after the            *)
(* all-reduce, exactly if the layer will drop its own copy.                   *)
LEMMA MLPHolds ==
  ASSUME NEW c, Holds(c), c.pc = "middle", c.pending = NoTensor
  PROVE  Holds(MLPOf(c))
<1> DEFINE l == c.layer
           d == MLPOf(c)
           mid == Midway(l)
           unit == Partial(<<l, "mlp">>)
           f == fit[l]
<1>1. l \in 1..Layers /\ c.residual = Before(l) /\ c.hidden = WholeStream(<<l, "attn">>)
  BY DEF Holds, InAttention
<1>2. SummedOf(c) = mid
  BY <1>1, Tensors, TensorsAreNotNone DEF SummedOf, Midway
<1>3. /\ d.pc = IF RaisesOf(c) THEN "raised" ELSE "mlp_reduce"
      /\ d.layer = l /\ d.residual = mid /\ d.fused = FuseOf(c)
      /\ d.consumed = ((c.consumed /\ ~ PrefoldOf(c)) \/ FoldsOf(BegunOf(c), f))
      /\ ~ RaisesOf(c) => d.hidden = HiddenOf(ProductOf(c), BegunOf(c), f)
  BY <1>2 DEF MLPOf, State
<1>4. DroppedOf(d) <=> (PrefoldOf(c) /\ d.consumed) \/ (DownOf(c) /\ FuseOf(c))
  BY <1>3 DEF DroppedOf, PrefoldOf, DownOf
<1>5. ASSUME ~ RaisesOf(c)
      PROVE  d.hidden = IF DroppedOf(d) THEN Plus(unit, Over(mid, TP)) ELSE unit
  <2>1. CASE PrefoldOf(c)
    <3>1. ~ DownOf(c) /\ ~ FuseOf(c) /\ BegunOf(c) = mid
      BY <1>2, <2>1 DEF PrefoldOf, FuseOf, BegunOf
    <3>2. ProductOf(c) = unit
      BY <3>1 DEF ProductOf
    <3>3. DroppedOf(d) <=> FoldsOf(mid, f)
      BY <1>3, <1>4, <2>1, <3>1
    <3>4. d.hidden = HiddenOf(unit, mid, f)
      BY <1>3, <1>5, <3>1, <3>2
    <3> QED BY <3>3, <3>4 DEF HiddenOf
  <2>2. CASE ~ PrefoldOf(c)
    <3>1. BegunOf(c) = NoTensor
      BY <2>2 DEF BegunOf
    <3>2. d.hidden = ProductOf(c)
      BY <1>3, <1>5, <3>1, NoFold
    <3>3. DroppedOf(d) <=> FuseOf(c)
      BY <1>4, <2>2 DEF FuseOf
    <3>4. ProductOf(c) = IF FuseOf(c) THEN Plus(unit, Over(mid, TP)) ELSE unit
      BY <1>2 DEF ProductOf
    <3> QED BY <3>2, <3>3, <3>4
  <2> QED BY <2>1, <2>2
<1> HIDE DEF d, mid, unit
<1>6. CASE RaisesOf(c)
  BY <1>3, <1>6 DEF Holds, d
<1>7. CASE ~ RaisesOf(c)
  <2>1. InMLP(d, Partial(<<d.layer, "mlp">>), Over(Midway(d.layer), TP))
    BY <1>1, <1>3, <1>5, <1>7 DEF InMLP, mid, unit
  <2> QED BY <1>3, <1>7, <2>1 DEF Holds, d
<1> QED BY <1>6, <1>7 DEF d

(* The layer drops its residual exactly if it is in the output, so the stream  *)
(* it hands on has it once.                                                   *)
LEMMA LayerEndHolds ==
  ASSUME NEW c, Holds(c), c.pc = "after"
  PROVE  Holds(LayerEndOf(c))
<1> DEFINE l == c.layer
           d == LayerEndOf(c)
           out == WholeStream(<<l, "mlp">>)
<1>1. /\ l \in 1..Layers /\ c.residual = Midway(l)
      /\ c.hidden = IF DroppedOf(c) THEN Plus(out, Midway(l)) ELSE out
  BY DEF Holds, InMLP
<1>2. /\ d.pc = "layer" /\ d.layer = l + 1 /\ d.hidden = c.hidden
      /\ d.residual = IF DroppedOf(c) THEN NoTensor ELSE Midway(l)
  BY <1>1 DEF LayerEndOf, State
<1>3. /\ out \in Tensor /\ Midway(l) \in Tensor /\ Plus(out, Midway(l)) \in Tensor
      /\ Midway(l) # NoTensor
  BY <1>1, Tensors, TensorsAreNotNone
<1>4. Plus(out, Midway(l)) = Before(l + 1)
  BY <1>1, StreamGrows
<1> HIDE DEF d, out
<1>5. SummedOf(d) = Before(l + 1)
  BY <1>1, <1>2, <1>3, <1>4 DEF SummedOf
<1>6. d.hidden \in Tensor
  BY <1>1, <1>2, <1>3
<1>7. d.layer \in Nat /\ d.layer > 0
  BY <1>1, <1>2, TPIsPositive
<1>8. AfterLayers(d)
  BY <1>2, <1>5, <1>6, <1>7 DEF AfterLayers
<1> QED BY <1>2, <1>8 DEF Holds, d

(* A rank's step from where it holds what it should, with nothing pending      *)
(* outside of its MLP.                                                        *)
LEMMA LocalHolds ==
  ASSUME NEW c, Holds(c), c.pc \in {"embed", "layer", "middle"} => c.pending = NoTensor
  PROVE  Holds(Local(c))
<1>1. CASE c.pc = "embed"
  <2>1. Local(c) = EmbedOf(c)
    BY <1>1 DEF Local
  <2>2. /\ EmbedOf(c).pc = "embed_reduce" /\ EmbedOf(c).layer = c.layer
        /\ EmbedOf(c).residual = c.residual
        /\ EmbedOf(c).hidden = Partial(<<0, "embed">>)
    BY <1>1, NoFold DEF EmbedOf, State
  <2> QED BY <1>1, <2>1, <2>2 DEF Holds, AtStart
<1>2. CASE c.pc = "layer" /\ c.layer <= Layers
  <2>1. Local(c) = AttentionOf(c)
    BY <1>2 DEF Local
  <2>2. AfterLayers(c)
    BY <1>2 DEF Holds
  <2>3. /\ AttentionOf(c).pc = "attn_reduce" /\ AttentionOf(c).layer = c.layer
        /\ AttentionOf(c).residual = Before(c.layer)
        /\ AttentionOf(c).hidden = Partial(<<c.layer, "attn">>)
    BY <1>2, <2>2, NoFold DEF AttentionOf, State, AfterLayers
  <2>4. c.layer \in 1..Layers
    BY <1>2, <2>2, TPIsPositive DEF AfterLayers
  <2> QED BY <2>1, <2>3, <2>4 DEF Holds, InAttention
<1>3. CASE c.pc = "layer" /\ c.layer > Layers
  <2>1. c.layer \in Nat /\ Layers \in Nat
    BY <1>3, TPIsPositive DEF Holds, AfterLayers
  <2>2. Local(c) = FinishOf(c) /\ FinishOf(c).pc = "done"
    BY <1>3, <2>1 DEF Local, FinishOf, State
  <2> QED BY <2>2 DEF Holds
<1>4. CASE c.pc = "middle"
  BY <1>4, MLPHolds DEF Local
<1>5. CASE c.pc = "after"
  BY <1>5, LayerEndHolds DEF Local
<1>6. CASE c.pc \notin Moving
  BY <1>6, LocalPlaces
<1>7. c.pc = "layer" => c.layer \in Int /\ Layers \in Int
  BY TPIsPositive DEF Holds, AfterLayers
<1> QED BY <1>1, <1>2, <1>3, <1>4, <1>5, <1>6, <1>7 DEF Moving

(* The all-reduce of equal tensors.                                           *)
LEMMA ReduceHolds ==
  ASSUME NEW c, Holds(c), NEW d, c.pc \in DOMAIN Following, d.pc = Following[c.pc],
         d.layer = c.layer, d.residual = c.residual, d.consumed = c.consumed,
         d.fused = c.fused, d.hidden = Times(c.hidden)
  PROVE  Holds(d)
<1>1. c.pc \in {"embed_reduce", "attn_reduce", "mlp_reduce"}
  BY DEF Following
<1>2. CASE c.pc = "embed_reduce"
  <2>1. /\ d.pc = "layer" /\ d.hidden = WholeStream(<<0, "embed">>) /\ d.layer = 1
        /\ d.residual = NoTensor
    BY <1>2, UnitsBecomeWhole, SourcesOfLayers DEF Holds, AtStart, Following
  <2>2. d.hidden \in Tensor /\ d.hidden = Before(1)
    <3>1. 1 \in 1..Layers
      BY TPIsPositive
    <3>2. WholeStream(<<0, "embed">>) \in Tensor
      BY <3>1, Tensors
    <3> QED BY <2>1, <3>2, StreamGrows
  <2>3. AfterLayers(d)
    BY <2>1, <2>2 DEF AfterLayers, SummedOf
  <2> QED BY <2>1, <2>3 DEF Holds
<1>3. CASE c.pc = "attn_reduce"
  <2>1. d.pc = "middle" /\ InAttention(c, Partial(<<c.layer, "attn">>))
    BY <1>3 DEF Following, Holds
  <2>2. Times(Partial(<<c.layer, "attn">>)) = WholeStream(<<c.layer, "attn">>)
    BY <2>1, UnitsBecomeWhole, SourcesOfLayers DEF InAttention
  <2>3. InAttention(d, WholeStream(<<d.layer, "attn">>))
    BY <2>1, <2>2 DEF InAttention
  <2> QED BY <2>1, <2>3 DEF Holds
<1>4. CASE c.pc = "mlp_reduce"
  <2> DEFINE l == c.layer
  <2>1. d.pc = "after" /\ InMLP(c, Partial(<<l, "mlp">>), Over(Midway(l), TP))
    BY <1>4 DEF Following, Holds
  <2>2. l \in 1..Layers
    BY <2>1 DEF InMLP
  <2>3. /\ Times(Partial(<<l, "mlp">>)) = WholeStream(<<l, "mlp">>)
        /\ Times(Plus(Partial(<<l, "mlp">>), Over(Midway(l), TP)))
             = Plus(WholeStream(<<l, "mlp">>), Midway(l))
    BY <2>2, UnitsBecomeWhole, SourcesOfLayers
  <2>4. DroppedOf(d) <=> DroppedOf(c)
    BY DEF DroppedOf, PrefoldOf, DownOf
  <2>5. InMLP(d, WholeStream(<<l, "mlp">>), Midway(l))
    BY <2>1, <2>3, <2>4 DEF InMLP
  <2> QED BY <2>1, <2>5 DEF Holds
<1> QED BY <1>1, <1>2, <1>3, <1>4

(* All ranks hold what they should.                                           *)
StreamInv == IInv /\ PathInv /\ \A r \in Ranks : Holds(Core(r))

LEMMA CoreFields ==
  ASSUME NEW r
  PROVE  /\ Core(r).pc = pc[r] /\ Core(r).layer = layer[r] /\ Core(r).hidden = hidden[r]
         /\ Core(r).residual = residual[r] /\ Core(r).pending = pending[r]
         /\ Core(r).consumed = consumed[r] /\ Core(r).fused = fused[r]
  BY DEF Core, State

LEMMA InitStream == PrefoldInit => StreamInv
<1> SUFFICES ASSUME PrefoldInit, NEW r \in Ranks PROVE Holds(Core(r))
  BY InitIInv, InitPath DEF StreamInv
<1>1. pc[r] = "embed" /\ layer[r] = 1 /\ residual[r] = NoTensor
  BY DEF PrefoldInit
<1> QED BY <1>1, CoreFields DEF Holds, AtStart

(* Holds depends on the configuration and the kinds of the layers alone.       *)
LEMMA HoldsStays ==
  ASSUME UNCHANGED <<switches, moe>>, NEW CONSTANT c
  PROVE  Holds(c)' = Holds(c)
<1>1. DroppedOf(c)' = DroppedOf(c)
  BY DEF DroppedOf, PrefoldOf, DownOf
<1>2. SummedOf(c)' = SummedOf(c)
  BY DEF SummedOf
<1> QED BY <1>1, <1>2 DEF Holds, AtStart, AfterLayers, InAttention, InMLP

LEMMA NextStream ==
  ASSUME StreamInv, [PrefoldNext]_prefoldVars
  PROVE  StreamInv'
<1> SUFFICES \A r \in Ranks : Holds(Core(r))'
  BY NextIInv, NextPath DEF StreamInv
<1>1. ASSUME NEW r \in Ranks, Embed(r) \/ Attention(r) \/ MLP(r) \/ LayerEnd(r) \/ Finish(r)
      PROVE  \A s \in Ranks : Holds(Core(s))'
  <2>1. Core(r)' = Local(Core(r)) /\ OthersStay(r)
    BY <1>1, ActionsAreLocal DEF StreamInv, PathInv
  <2>2. UNCHANGED <<switches, moe>>
    BY <2>1 DEF OthersStay
  <2>3. Holds(Local(Core(r)))
    <3>1. pc[r] \in {"embed", "layer", "middle"} => pending[r] = NoTensor
      BY NothingElsewhere DEF StreamInv
    <3> QED BY <3>1, CoreFields, LocalHolds DEF StreamInv
  <2>4. Holds(Core(r))'
    <3>1. PICK c : c = Core(r)'
      OBVIOUS
    <3>2. Holds(c)
      BY <2>1, <2>3, <3>1
    <3>3. Holds(c)'
      BY <2>2, <3>2, HoldsStays
    <3> QED BY <3>1, <3>3
  <2>5. ASSUME NEW s \in Ranks \ {r}
        PROVE  Holds(Core(s))'
    <3>1. PICK c : c = Core(s)
      OBVIOUS
    <3>2. Core(s)' = c
      BY <2>1, <3>1 DEF OthersStay, Core
    <3>3. Holds(c)'
      BY <2>2, <3>1, HoldsStays DEF StreamInv
    <3> QED BY <3>2, <3>3
  <2> QED BY <2>4, <2>5
<1>2. CASE Reduce
  <2>1. PICK w \in DOMAIN Following : \A r \in Ranks : pc[r] = w /\ pc' = [x \in Ranks |-> Following[w]]
    BY <1>2 DEF Reduce
  <2>2. UNCHANGED <<switches, moe, layer, residual, pending, consumed, fused>>
    BY <1>2 DEF Reduce
  <2> TAKE r \in Ranks
  <2>3. PICK c : c = Core(r)
    OBVIOUS
  <2>4. PICK d : d = Core(r)'
    OBVIOUS
  <2>5. Holds(c) /\ c.pc = w /\ c.hidden = hidden[r]
    BY <2>1, <2>3, CoreFields DEF StreamInv
  <2>6. c.hidden \in Tensor
    <3>1. w \in {"embed_reduce", "attn_reduce", "mlp_reduce"}
      BY DEF Following
    <3>2. \A x \in Sources : Partial(x) \in Tensor
      BY DEF Partial, Zero, Tensor
    <3>3. c.pc # "embed_reduce" => c.layer \in 1..Layers
      BY <2>5, <3>1 DEF Holds, InAttention, InMLP
    <3>4. ASSUME c.pc = "mlp_reduce"
          PROVE  Plus(Partial(<<c.layer, "mlp">>), Over(Midway(c.layer), TP)) \in Tensor
      <4>1. Partial(<<c.layer, "mlp">>) \in Tensor /\ Midway(c.layer) \in Tensor
        BY <3>2, <3>3, <3>4, SourcesOfLayers, Tensors
      <4>2. \A n \in Nat : n \div TP \in Nat
        BY TPIsPositive
      <4> QED BY <4>1, <4>2 DEF Plus, Over, Tensor
    <3> QED BY <2>5, <3>1, <3>2, <3>3, <3>4, SourcesOfLayers DEF Holds, InAttention, InMLP
  <2>7. \A q \in Ranks : hidden[q] = hidden[r]
    <3>1. \A q \in Ranks : Core(q) = Core(r)
      BY <2>1, SamePlaceAlike DEF StreamInv
    <3> QED BY <3>1, CoreFields
  <2>8. hidden'[r] = Times(c.hidden)
    <3>1. hidden'[r] = [s \in Sources |-> FoldSet(LAMBDA q, t : t + hidden[q][s], 0, Ranks)]
      BY <1>2 DEF Reduce
    <3>2. ASSUME NEW s \in Sources
          PROVE  FoldSet(LAMBDA q, t : t + hidden[q][s], 0, Ranks) = TP * c.hidden[s]
      <4>1. c.hidden[s] \in Int /\ \A q \in Ranks : hidden[q][s] = c.hidden[s]
        BY <2>5, <2>6, <2>7 DEF Tensor
      <4>2. IsFiniteSet(Ranks)
        BY PrefoldAssumption
      <4> QED BY <4>1, <4>2, SumOfEqual DEF TP
    <3> QED BY <3>1, <3>2 DEF Times
  <2>9. /\ d.pc = Following[c.pc] /\ d.layer = c.layer /\ d.residual = c.residual
        /\ d.consumed = c.consumed /\ d.fused = c.fused /\ d.hidden = Times(c.hidden)
    BY <2>1, <2>2, <2>3, <2>4, <2>5, <2>8 DEF Core, State
  <2>10. Holds(d)
    BY <2>5, <2>9, ReduceHolds
  <2>11. Holds(d)'
    BY <2>2, <2>10, HoldsStays
  <2> QED BY <2>4, <2>11
<1>3. CASE NextForward
  <2> TAKE r \in Ranks
  <2>1. pc'[r] = "embed" /\ layer'[r] = 1 /\ residual'[r] = NoTensor
    BY <1>3 DEF NextForward
  <2>2. PICK d : d = Core(r)'
    OBVIOUS
  <2>3. d.pc = "embed" /\ d.layer = 1 /\ d.residual = NoTensor
    BY <2>1, <2>2 DEF Core, State
  <2>4. Holds(d)
    BY <2>3 DEF Holds, AtStart
  <2>5. Holds(d)'
    BY <2>3 DEF Holds, AtStart
  <2> QED BY <2>2, <2>5
<1>4. CASE UNCHANGED prefoldVars
  <2> TAKE r \in Ranks
  <2>1. PICK c : c = Core(r)
    OBVIOUS
  <2>2. Core(r)' = c
    BY <1>4, <2>1 DEF Core, prefoldVars
  <2>3. Holds(c)'
    BY <1>4, <2>1, HoldsStays DEF StreamInv, prefoldVars
  <2> QED BY <2>2, <2>3
<1> QED BY <1>1, <1>2, <1>3, <1>4 DEF PrefoldNext

(* Between two layers every rank has every contribution so far exactly once,   *)
(* for any number of ranks and layers: whichever residuals were folded into an *)
(* all-reduce, in whichever way, each is counted once.                        *)
THEOREM StreamsAreExact == PrefoldSpec => []StreamIsExact
<1>1. StreamInv => StreamIsExact
  <2> SUFFICES ASSUME StreamInv, NEW r \in Ranks, pc[r] = "layer"
               PROVE  Summed(r) = [s \in Sources |-> IF s[1] < layer[r] THEN TP ELSE 0]
    BY DEF StreamIsExact
  <2>1. SummedOf(Core(r)) = Before(layer[r])
    BY CoreFields DEF StreamInv, Holds, AfterLayers
  <2> QED BY <2>1, CoreFields DEF Summed, SummedOf, Before
<1> QED BY <1>1, InitStream, NextStream, PTL DEF PrefoldSpec
=============================================================================
