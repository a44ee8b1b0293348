----------------------- MODULE ModelRunnerInputs_proofs -----------------------
(***************************************************************************)
(* The device is fed each request's own tokens, at their own places        *)
(* (FedTheRequestsTokens), for any number of requests and of drafts.       *)
(*                                                                         *)
(* The property speaks of what the device reads, and that is decided long  *)
(* before: by the rows of the batch, which are compacted and whose tokens  *)
(* may still be placeholders; by what lies in the buffers; by the tokens    *)
(* that wait on the device and that prev_req_id_to_index finds; and by the *)
(* number of computed tokens, which runs ahead of the device by the drafts *)
(* that were refused and not yet reported.  The invariant FInv says of each *)
(* of these how it relates to what the device has, or will have when it    *)
(* has sampled what it has read.  It rests on the invariants of            *)
(* ModelRunner_proofs about the pipeline, the counts and the positions.    *)
(*                                                                         *)
(* The cells of the flat buffer are found by sums over rows.  The folds of  *)
(* the library are given by recursion over sets; that they yield the same  *)
(* total in every order follows from a least counterexample.               *)
(***************************************************************************)
EXTENDS ModelRunner_proofs, WellFoundedInduction

-----------------------------------------------------------------------------
(* Sums over finite sets, whatever order the folds of the library take the    *)
(* elements in.                                                               *)

(* A set of numbers has a least one.                                           *)
LEMMA NatLeast ==
  ASSUME NEW T, T \subseteq Nat, T # {}
  PROVE \E x \in T : \A y \in T : x <= y
<1>1. PICK x \in T : \A y \in T : ~ (<<y, x>> \in OpToRel(<, Nat))
  BY NatLessThanWellFounded, WFMin
<1>2. ASSUME NEW y \in T, y < x
      PROVE  FALSE
  <2>1. <<y, x>> \in OpToRel(<, Nat)
    BY <1>2 DEF OpToRel
  <2> QED BY <1>1, <2>1
<1> QED BY <1>2

(* The recursion of a sum over a set, element by element: the elements are     *)
(* taken in the order g; the folds of the library take the greatest (sequences) *)
(* or any (sets).                                                             *)
Adding(f, v, S, g) ==
  f = [t \in SUBSET S |-> IF t = {} THEN 0 ELSE f[t \ {g[t]}] + v[g[t]]]
(* The order g names an element of every set.                                 *)
Picks(g, S) == \A t \in SUBSET S : t # {} => g[t] \in t

(* A set without one of its elements is smaller.                              *)
LEMMA SmallerSet ==
  ASSUME NEW S, IsFiniteSet(S), NEW t \in SUBSET S, NEW x \in t
  PROVE  /\ t \ {x} \in SUBSET S /\ Cardinality(t) \in Nat
         /\ Cardinality(t \ {x}) = Cardinality(t) - 1 /\ Cardinality(t) - 1 \in Nat
<1>1. IsFiniteSet(t)
  BY FS_Subset
<1>2. IsFiniteSet(t \ {x}) /\ Cardinality(t \ {x}) = Cardinality(t) - 1
  BY <1>1, FS_RemoveElement
<1>3. Cardinality(t) \in Nat /\ Cardinality(t \ {x}) \in Nat
  BY <1>1, <1>2, FS_CardinalityType
<1> QED BY <1>2, <1>3

(* Such a sum exists: were there a least size up to which it does not, the sum *)
(* for the sizes below would extend to it.                                     *)
LEMMA SumsExist ==
  ASSUME NEW S, IsFiniteSet(S), NEW v, NEW g, Picks(g, S)
  PROVE  \E f : Adding(f, v, S, g)
<1> DEFINE Up(m) == {t \in SUBSET S : Cardinality(t) <= m}
           Some(m) == \E f : f = [t \in Up(m) |-> IF t = {} THEN 0 ELSE f[t \ {g[t]}] + v[g[t]]]
           T == {m \in Nat : ~ Some(m)}
<1>0. Cardinality({}) = 0 /\ \A t \in SUBSET S : Cardinality(t) \in Nat
  BY FS_EmptySet, FS_Subset, FS_CardinalityType
<1>1. T = {}
  <2> SUFFICES ASSUME T # {} PROVE FALSE
    OBVIOUS
  <2>1. PICK m \in T : \A y \in T : m <= y
    <3>1. T \subseteq Nat
      OBVIOUS
    <3> HIDE DEF T
    <3> QED BY <3>1, NatLeast
  <2>2. m \in Nat
    OBVIOUS
  <2>3. CASE m = 0
    <3>1. \A t \in Up(0) : t = {}
      <4> SUFFICES ASSUME NEW t \in Up(0), NEW x \in t PROVE FALSE
        OBVIOUS
      <4>1. Cardinality(t) - 1 \in Nat /\ Cardinality(t) <= 0 /\ Cardinality(t) \in Nat
        BY SmallerSet
      <4> QED BY <4>1
    <3> DEFINE h == [t \in Up(0) |-> 0]
    <3>2. h = [t \in Up(0) |-> IF t = {} THEN 0 ELSE h[t \ {g[t]}] + v[g[t]]]
      BY <3>1
    <3>3. Some(0)
      BY <3>2
    <3> QED BY <2>3, <3>3
  <2>4. CASE m # 0
    <3>1. m - 1 \in Nat /\ ~ (m <= m - 1)
      BY <2>2, <2>4
    <3>2. Some(m - 1)
      BY <2>1, <3>1
    <3>3. PICK f : f = [t \in Up(m - 1) |-> IF t = {} THEN 0 ELSE f[t \ {g[t]}] + v[g[t]]]
      BY <3>2
    <3> DEFINE h == [t \in Up(m) |-> IF t = {} THEN 0 ELSE f[t \ {g[t]}] + v[g[t]]]
    <3>4. \A t \in Up(m - 1) : t \in Up(m) /\ f[t] = h[t]
      <4>1. \A t \in Up(m - 1) : t \in Up(m)
        BY <1>0, <2>2
      <4> QED BY <3>3, <4>1
    <3>5. ASSUME NEW t \in Up(m), t # {}
          PROVE  t \ {g[t]} \in Up(m - 1)
      <4>1. g[t] \in t
        BY <3>5 DEF Picks
      <4>2. t \ {g[t]} \in SUBSET S /\ Cardinality(t \ {g[t]}) = Cardinality(t) - 1
            /\ Cardinality(t) \in Nat
        BY <4>1, SmallerSet
      <4> QED BY <2>2, <4>2
    <3>6. \A t \in Up(m) : h[t] = IF t = {} THEN 0 ELSE h[t \ {g[t]}] + v[g[t]]
      BY <3>4, <3>5
    <3>7. h = [t \in Up(m) |-> IF t = {} THEN 0 ELSE h[t \ {g[t]}] + v[g[t]]]
      BY <3>6
    <3>8. Some(m)
      BY <3>7
    <3> QED BY <3>8
  <2> QED BY <2>3, <2>4
<1>2. Some(Cardinality(S))
  BY <1>0, <1>1
<1>3. Up(Cardinality(S)) = SUBSET S
  BY FS_Subset
<1> QED BY <1>2, <1>3 DEF Adding

(* The recursion, unfolded once.                                              *)
LEMMA AddingValue ==
  ASSUME NEW S, NEW v, NEW g, NEW f, Adding(f, v, S, g)
  PROVE  \A t \in SUBSET S : f[t] = IF t = {} THEN 0 ELSE f[t \ {g[t]}] + v[g[t]]
BY DEF Adding

(* And does not depend on the order.                                           *)
LEMMA AnyOrder ==
  ASSUME NEW S, IsFiniteSet(S), NEW v, \A x \in S : v[x] \in Nat,
         NEW g, Picks(g, S), NEW f, Adding(f, v, S, g)
  PROVE  \A t \in SUBSET S : f[t] \in Nat /\ \A k \in t : f[t] = f[t \ {k}] + v[k]
<1> DEFINE Good(t) == f[t] \in Nat /\ \A k \in t : f[t] = f[t \ {k}] + v[k]
           T == {m \in Nat : \E t \in SUBSET S : Cardinality(t) = m /\ ~ Good(t)}
<1>1. T = {}
  <2> SUFFICES ASSUME T # {} PROVE FALSE
    OBVIOUS
  <2>1. PICK m \in T : \A y \in T : m <= y
    <3>1. T \subseteq Nat
      OBVIOUS
    <3> HIDE DEF T
    <3> QED BY <3>1, NatLeast
  <2>2. PICK t \in SUBSET S : Cardinality(t) = m /\ ~ Good(t) /\ m \in Nat
    BY <2>1
  <2>3. t # {}
    <3> SUFFICES ASSUME t = {} PROVE FALSE
      OBVIOUS
    <3>1. \A u \in SUBSET S : f[u] = IF u = {} THEN 0 ELSE f[u \ {g[u]}] + v[g[u]]
      BY DEF Adding
    <3>2. f[t] = 0
      BY <3>1
    <3> QED BY <2>2, <3>2
  <2> DEFINE c == g[t]
  <2>4. c \in t /\ f[t] = f[t \ {c}] + v[c] /\ v[c] \in Nat
    BY <2>3, AddingValue DEF Picks
  <2>5. \A u \in SUBSET S : Cardinality(u) = m - 1 => Good(u)
    <3>1. m - 1 \in Nat => ~ (m <= m - 1)
      BY <2>2
    <3>2. m - 1 \in Nat
      BY <2>2, <2>4, SmallerSet
    <3> QED BY <2>1, <3>1, <3>2
  <2>6. \A x \in t : t \ {x} \in SUBSET S /\ Good(t \ {x})
    <3> SUFFICES ASSUME NEW x \in t PROVE t \ {x} \in SUBSET S /\ Good(t \ {x})
      OBVIOUS
    <3>1. t \ {x} \in SUBSET S /\ Cardinality(t \ {x}) = m - 1
      BY <2>2, SmallerSet
    <3> QED BY <2>5, <3>1
  <2>7. f[t] \in Nat
    <3>1. f[t \ {c}] \in Nat
      BY <2>4, <2>6
    <3> QED BY <2>4, <3>1
  <2>8. ASSUME NEW k \in t, k # c
        PROVE  f[t] = f[t \ {k}] + v[k]
    <3> DEFINE both == (t \ {c}) \ {k}
    <3>1. both = (t \ {k}) \ {c} /\ k \in t \ {c} /\ c \in t \ {k}
      BY <2>4, <2>8
    <3>2. f[t \ {c}] = f[both] + v[k]
      BY <2>4, <2>6, <3>1
    <3>3. f[t \ {k}] = f[both] + v[c]
      BY <2>6, <3>1
    <3>4. f[both] \in Nat /\ v[k] \in Nat
      <4>1. Cardinality(t \ {c}) = m - 1 /\ t \ {c} \in SUBSET S
        BY <2>2, <2>4, SmallerSet
      <4>2. both \in SUBSET S
        OBVIOUS
      <4>3. both = {} \/ both # {}
        OBVIOUS
      <4>4. Cardinality(both) = m - 2 /\ m - 2 \in Nat
        <5>1. Cardinality(both) = Cardinality(t \ {c}) - 1 /\ Cardinality(t \ {c}) - 1 \in Nat
          <6> DEFINE w == t \ {c}
          <6>1. k \in w /\ both = w \ {k} /\ w \in SUBSET S
            BY <3>1, <4>1
          <6> HIDE DEF both, w
          <6>2. Cardinality(w \ {k}) = Cardinality(w) - 1 /\ Cardinality(w) - 1 \in Nat
            BY <6>1, SmallerSet
          <6> QED BY <6>1, <6>2 DEF w
        <5> QED BY <2>2, <4>1, <5>1
      <4>5. Good(both)
        <5>1. ~ (m <= m - 2)
          BY <2>2
        <5> QED BY <2>1, <4>2, <4>4, <5>1
      <4> QED BY <4>5
    <3> HIDE DEF c, both
    <3> QED BY <2>4, <3>2, <3>3, <3>4
  <2> QED BY <2>2, <2>4, <2>7, <2>8
<1>2. \A t \in SUBSET S : Cardinality(t) \in Nat
  BY FS_Subset, FS_CardinalityType
<1> QED BY <1>1, <1>2

(* So a fold that adds is a total: of the empty set 0, and whichever element    *)
(* is taken out, the total of the others and it.                              *)
Totals(f, v, S) ==
  \A t \in SUBSET S : /\ f[t] \in Nat /\ (t = {} => f[t] = 0)
                      /\ \A k \in t : f[t] = f[t \ {k}] + v[k]

(* In any order of the elements the recursion gives the totals.               *)
LEMMA AddingTotals ==
  ASSUME NEW S, IsFiniteSet(S), NEW v, \A x \in S : v[x] \in Nat,
         NEW g, Picks(g, S), NEW f, Adding(f, v, S, g)
  PROVE  Totals(f, v, S)
<1>1. \A t \in SUBSET S : f[t] \in Nat /\ \A k \in t : f[t] = f[t \ {k}] + v[k]
  BY AnyOrder
<1>2. \A t \in SUBSET S : t = {} => f[t] = 0
  BY DEF Adding
<1> QED BY <1>1, <1>2 DEF Totals

(* The element a fold over a sequence takes.                                  *)
LEMMA GreatestOf ==
  ASSUME NEW n \in Nat, NEW t \in SUBSET (1..n), t # {}
  PROVE  Max(t) \in t
<1> DEFINE T == {n - x : x \in t}
<1>1. T \subseteq Nat /\ T # {}
  <2>1. \A x \in t : n - x \in Nat
    <3> SUFFICES ASSUME NEW x \in t PROVE n - x \in Nat
      OBVIOUS
    <3>1. x \in 1..n
      OBVIOUS
    <3> QED BY <3>1
  <2> QED BY <2>1
<1>2. PICK m \in T : \A y \in T : m <= y
  <2> HIDE DEF T
  <2> QED BY <1>1, NatLeast
<1>3. PICK x \in t : m = n - x
  BY <1>2
<1>4. \A y \in t : x >= y
  <2> SUFFICES ASSUME NEW y \in t PROVE x >= y
    OBVIOUS
  <2>1. n - x <= n - y /\ x \in 1..n /\ y \in 1..n
    BY <1>2, <1>3
  <2> QED BY <2>1
<1> QED BY <1>4 DEF Max

(* FoldLeft with + is a total over the positions of the sequence.             *)
LEMMA FoldSeqTotals ==
  ASSUME NEW n \in Nat, NEW s, DOMAIN s = 1..n, \A i \in 1..n : s[i] \in Nat
  PROVE  \E f : Totals(f, s, 1..n) /\ FoldLeft(LAMBDA a, x : a + x, 0, s) = f[1..n]
<1> DEFINE g == [t \in SUBSET DOMAIN s |-> Max(t)]
           f == CHOOSE f : Adding(f, s, DOMAIN s, g)
<1>1. FoldLeft(LAMBDA a, x : a + x, 0, s)
        = MapThenFoldSet(LAMBDA x, y : y + x, 0, LAMBDA i : s[i], LAMBDA S : Max(S), DOMAIN s)
  BY DEF FoldLeft
<1>2. MapThenFoldSet(LAMBDA x, y : y + x, 0, LAMBDA i : s[i], LAMBDA S : Max(S), DOMAIN s)
       = f[DOMAIN s]
  BY DEF MapThenFoldSet, Adding
<1>3. Picks(g, DOMAIN s)
  BY GreatestOf DEF Picks
<1>4. IsFiniteSet(DOMAIN s)
  BY FS_Interval
<1> HIDE DEF g
<1>5. \E h : Adding(h, s, DOMAIN s, g)
  BY <1>3, <1>4, SumsExist
<1>6. Adding(f, s, DOMAIN s, g)
  BY <1>5
<1> HIDE DEF f
<1>7. Totals(f, s, DOMAIN s)
  BY <1>3, <1>4, <1>6, AddingTotals
<1> QED BY <1>1, <1>2, <1>7

(* FoldFunctionOnSet with + is a total over the set.                          *)
LEMMA FoldSetTotals ==
  ASSUME NEW S, IsFiniteSet(S), NEW v, \A x \in S : v[x] \in Nat
  PROVE  \E f : Totals(f, v, S) /\ FoldFunctionOnSet(LAMBDA x, y : y + x, 0, v, S) = f[S]
<1> DEFINE g == [t \in SUBSET S |-> CHOOSE x \in t : TRUE]
           f == CHOOSE f : Adding(f, v, S, g)
<1>1. FoldFunctionOnSet(LAMBDA x, y : y + x, 0, v, S)
        = MapThenFoldSet(LAMBDA x, y : y + x, 0, LAMBDA i : v[i], LAMBDA s : CHOOSE x \in s : TRUE, S)
  BY DEF FoldFunctionOnSet
<1>2. MapThenFoldSet(LAMBDA x, y : y + x, 0, LAMBDA i : v[i], LAMBDA s : CHOOSE x \in s : TRUE, S) = f[S]
  BY DEF MapThenFoldSet, Adding
<1>3. Picks(g, S)
  BY DEF Picks
<1> HIDE DEF g
<1>5. \E h : Adding(h, v, S, g)
  BY <1>3, SumsExist
<1>6. Adding(f, v, S, g)
  BY <1>5
<1> HIDE DEF f
<1>7. Totals(f, v, S)
  BY <1>3, <1>6, AddingTotals
<1> QED BY <1>1, <1>2, <1>7

(* What a total of a set is does not depend on what it is a part of.           *)
LEMMA TotalsAgree ==
  ASSUME NEW S, NEW W, IsFiniteSet(S), NEW f, NEW v, Totals(f, v, S), NEW h, NEW w, Totals(h, w, W),
         NEW U, U \subseteq S, U \subseteq W, \A x \in U : v[x] = w[x]
  PROVE  f[U] = h[U]
<1> DEFINE T == {m \in Nat : \E t \in SUBSET U : Cardinality(t) = m /\ f[t] # h[t]}
<1>0. IsFiniteSet(U)
  BY FS_Subset
<1>1. T = {}
  <2> SUFFICES ASSUME T # {} PROVE FALSE
    OBVIOUS
  <2>1. PICK m \in T : \A y \in T : m <= y
    <3>1. T \subseteq Nat
      OBVIOUS
    <3> HIDE DEF T
    <3> QED BY <3>1, NatLeast
  <2>2. PICK t \in SUBSET U : Cardinality(t) = m /\ f[t] # h[t] /\ m \in Nat
    BY <2>1
  <2>3. t # {}
    <3>1. t = {} => f[t] = 0 /\ h[t] = 0
      BY DEF Totals
    <3> QED BY <2>2, <3>1
  <2>4. PICK k \in t : TRUE
    BY <2>3
  <2>5. t \ {k} \in SUBSET U /\ Cardinality(t \ {k}) = m - 1 /\ m - 1 \in Nat
    BY <1>0, <2>2, SmallerSet
  <2>6. f[t \ {k}] = h[t \ {k}]
    <3>1. ~ (m <= m - 1)
      BY <2>2
    <3>2. m - 1 \notin T
      BY <2>1, <3>1
    <3> QED BY <2>5, <3>2
  <2>7. f[t] = f[t \ {k}] + v[k]
    BY DEF Totals
  <2>8. h[t] = h[t \ {k}] + w[k]
    BY DEF Totals
  <2>9. v[k] = w[k]
    OBVIOUS
  <2> HIDE DEF T
  <2> QED BY <2>2, <2>6, <2>7, <2>8, <2>9
<1>2. Cardinality(U) \in Nat
  BY <1>0, FS_CardinalityType
<1> QED BY <1>1, <1>2

(* The sums of the first elements of a sequence.                               *)
Numbers(s, n) == n \in Nat /\ DOMAIN s = 1..n /\ \A i \in 1..n : s[i] \in Nat

(* So is the model's Sum over the first k numbers.                            *)
LEMMA SumIsTotal ==
  ASSUME NEW n, NEW s, Numbers(s, n), NEW f, Totals(f, s, 1..n), NEW k \in 0..n
  PROVE  Sum(s, k) = f[1..k]
<1> DEFINE a == SubSeq(s, 1, k)
<1>1. DOMAIN a = 1..k /\ \A i \in 1..k : a[i] = s[i] /\ s[i] \in Nat
  BY DEF Numbers
<1> HIDE DEF a
<1>2. k \in Nat /\ 1..k \subseteq 1..n /\ IsFiniteSet(1..k)
  BY FS_Interval DEF Numbers
<1>3. PICK h : Totals(h, a, 1..k) /\ FoldLeft(LAMBDA b, x : b + x, 0, a) = h[1..k]
  BY <1>1, <1>2, FoldSeqTotals
<1>4. h[1..k] = f[1..k]
  <2>1. PICK K, N : K = 1..k /\ N = 1..n
    OBVIOUS
  <2>2. /\ IsFiniteSet(K) /\ Totals(h, a, K) /\ Totals(f, s, N) /\ K \subseteq K /\ K \subseteq N
        /\ \A x \in K : a[x] = s[x]
    BY <1>1, <1>2, <1>3, <2>1
  <2>3. h[K] = f[K]
    BY <2>2, TotalsAgree
  <2> QED BY <2>1, <2>3
<1> QED BY <1>3, <1>4 DEF Sum, a

(* Sum, step by step (query_start_loc, a cumulative sum).                     *)
LEMMA SumSteps ==
  ASSUME NEW n, NEW s, Numbers(s, n)
  PROVE  /\ \A k \in 0..n : Sum(s, k) \in Nat
         /\ Sum(s, 0) = 0
         /\ \A k \in 1..n : Sum(s, k) = Sum(s, k - 1) + s[k]
<1>1. n \in Nat /\ DOMAIN s = 1..n
  BY DEF Numbers
<1>2. PICK f : Totals(f, s, 1..n)
  BY FoldSeqTotals DEF Numbers
<1>3. \A k \in 0..n : Sum(s, k) = f[1..k]
  BY <1>2, SumIsTotal
<1>4. \A k \in 0..n : 1..k \in SUBSET (1..n)
  BY <1>1
<1>5. \A k \in 0..n : Sum(s, k) \in Nat
  BY <1>2, <1>3, <1>4 DEF Totals
<1>6. Sum(s, 0) = 0
  <2>1. 1..0 = {} /\ 0 \in 0..n
    BY <1>1
  <2> QED BY <1>2, <1>3, <1>4, <2>1 DEF Totals
<1>7. ASSUME NEW k \in 1..n
      PROVE  Sum(s, k) = Sum(s, k - 1) + s[k]
  <2>1. (1..k) \ {k} = 1..(k - 1) /\ k \in 1..k /\ k \in 0..n /\ k - 1 \in 0..n
    BY <1>1
  <2>2. f[1..k] = f[(1..k) \ {k}] + s[k]
    BY <1>2, <1>4, <2>1 DEF Totals
  <2> QED BY <1>3, <2>1, <2>2
<1> QED BY <1>5, <1>6, <1>7

-----------------------------------------------------------------------------
(* The cells of the flat input buffer.                                        *)

(* It does not decrease.                                                      *)
LEMMA SumOrder ==
  ASSUME NEW n, NEW s, Numbers(s, n), NEW i \in 0..n, NEW j \in 0..n, i <= j
  PROVE  Sum(s, i) <= Sum(s, j)
<1> DEFINE T == {k \in Nat : k \in i..n /\ ~ (Sum(s, i) <= Sum(s, k))}
<1>1. T = {}
  <2> SUFFICES ASSUME T # {} PROVE FALSE
    OBVIOUS
  <2>1. PICK k \in T : \A y \in T : k <= y
    <3>1. T \subseteq Nat
      OBVIOUS
    <3> HIDE DEF T
    <3> QED BY <3>1, NatLeast
  <2>2. k \in Nat /\ k \in i..n /\ ~ (Sum(s, i) <= Sum(s, k)) /\ n \in Nat /\ i \in Nat
    BY <2>1 DEF Numbers
  <2>3. Sum(s, i) \in Nat /\ Sum(s, k) \in Nat
    BY <2>2, SumSteps
  <2>4. k # i
    BY <2>2, <2>3
  <2>5. k \in 1..n /\ k - 1 \in Nat /\ k - 1 \in i..n /\ k - 1 \in 0..n /\ ~ (k <= k - 1)
    BY <2>2, <2>4
  <2>6. k - 1 \notin T
    BY <2>1, <2>5
  <2>7. Sum(s, i) <= Sum(s, k - 1)
    BY <2>5, <2>6
  <2>8. Sum(s, k) = Sum(s, k - 1) + s[k] /\ s[k] \in Nat /\ Sum(s, k - 1) \in Nat
    BY <2>5, SumSteps DEF Numbers
  <2> HIDE DEF T
  <2> QED BY <2>2, <2>3, <2>7, <2>8
<1>2. j \in Nat /\ j \in i..n
  BY DEF Numbers
<1> QED BY <1>1, <1>2

(* Every place of a gathered sequence is one place of one of its parts.        *)
LEMMA OnePlace ==
  ASSUME NEW n, NEW s, Numbers(s, n), NEW i \in 1..n, NEW j \in 1..n,
         NEW a \in 1..s[i], NEW b \in 1..s[j], Sum(s, i - 1) + a = Sum(s, j - 1) + b
  PROVE  i = j /\ a = b
<1>1. n \in Nat /\ s[i] \in Nat /\ s[j] \in Nat
  BY DEF Numbers
<1>2. /\ Sum(s, i) = Sum(s, i - 1) + s[i] /\ Sum(s, j) = Sum(s, j - 1) + s[j]
      /\ Sum(s, i - 1) \in Nat /\ Sum(s, j - 1) \in Nat /\ Sum(s, i) \in Nat /\ Sum(s, j) \in Nat
  <2>1. i - 1 \in 0..n /\ j - 1 \in 0..n /\ i \in 0..n /\ j \in 0..n
    BY <1>1
  <2> QED BY <2>1, SumSteps
<1>3. ~ (i < j)
  <2> SUFFICES ASSUME i < j PROVE FALSE
    OBVIOUS
  <2>1. i \in 0..n /\ j - 1 \in 0..n /\ i <= j - 1
    BY <1>1
  <2>2. Sum(s, i) <= Sum(s, j - 1)
    BY <2>1, SumOrder
  <2> QED BY <1>1, <1>2, <2>2
<1>4. ~ (j < i)
  <2> SUFFICES ASSUME j < i PROVE FALSE
    OBVIOUS
  <2>1. j \in 0..n /\ i - 1 \in 0..n /\ j <= i - 1
    BY <1>1
  <2>2. Sum(s, j) <= Sum(s, i - 1)
    BY <2>1, SumOrder
  <2> QED BY <1>1, <1>2, <2>2
<1>5. i = j
  BY <1>1, <1>3, <1>4
<1>6. a \in Nat /\ b \in Nat
  BY <1>1
<1> QED BY <1>2, <1>5, <1>6

(* Token a of row i has a cell of the flat buffer.                            *)
LEMMA PlaceExists ==
  ASSUME NEW n, NEW s, Numbers(s, n), NEW i \in 1..n, NEW a \in 1..s[i]
  PROVE  Sum(s, i - 1) + a \in 1..Sum(s, n) /\ Sum(s, i - 1) \in Nat /\ Sum(s, n) \in Nat
<1>1. n \in Nat /\ s[i] \in Nat /\ i - 1 \in 0..n /\ i \in 0..n /\ n \in 0..n /\ i <= n
  BY DEF Numbers
<1>2. Sum(s, i) = Sum(s, i - 1) + s[i] /\ Sum(s, i - 1) \in Nat /\ Sum(s, i) \in Nat /\ Sum(s, n) \in Nat
  BY <1>1, SumSteps
<1>3. Sum(s, i) <= Sum(s, n)
  BY <1>1, SumOrder
<1> QED BY <1>1, <1>2, <1>3

(* The cells of a concatenation.                                              *)
LEMMA ConcatCells ==
  ASSUME NEW s, NEW t, Listed(s), Listed(t)
  PROVE  /\ \A k \in 1..Len(s) : (s \o t)[k] = s[k]
         /\ \A k \in 1..Len(t) : (s \o t)[Len(s) + k] = t[k]
<1>1. PICK S : s \in Seq(S) /\ Len(s) \in Nat
  BY ListedIsSeq
<1>2. PICK T : t \in Seq(T) /\ Len(t) \in Nat
  BY ListedIsSeq
<1>3. s \in Seq(S \cup T) /\ t \in Seq(S \cup T)
  BY <1>1, <1>2
<1>4. PICK n, m : n = Len(s) /\ m = Len(t) /\ n \in Nat /\ m \in Nat
  BY <1>1, <1>2
<1>5. \A k \in 1..(n + m) : (s \o t)[k] = IF k <= n THEN s[k] ELSE t[k - n]
  BY <1>3, <1>4, ConcatProperties
<1>6. \A k \in 1..n : (s \o t)[k] = s[k]
  BY <1>4, <1>5
<1>7. ASSUME NEW k \in 1..m PROVE (s \o t)[n + k] = t[k]
  <2>1. n + k \in 1..(n + m) /\ ~ (n + k <= n) /\ (n + k) - n = k
    BY <1>4
  <2> QED BY <1>5, <2>1
<1> QED BY <1>4, <1>6, <1>7

(* FlattenSeq recurs over the sequence: the recursion has a solution.          *)
Flat(f, s, m) == f = [i \in 1..m |-> IF i = 1 THEN s[i] ELSE f[i - 1] \o s[i]]
(* The recursion of the flattening has a solution.                            *)
LEMMA FlatExists ==
  ASSUME NEW s, NEW n \in Nat
  PROVE  \E f : Flat(f, s, n)
<1> DEFINE T == {m \in Nat : ~ \E f : Flat(f, s, m)}
<1>1. T = {}
  <2> SUFFICES ASSUME T # {} PROVE FALSE
    OBVIOUS
  <2>1. PICK m \in T : \A y \in T : m <= y
    <3>1. T \subseteq Nat
      OBVIOUS
    <3> HIDE DEF T
    <3> QED BY <3>1, NatLeast
  <2>2. m \in Nat /\ ~ \E f : Flat(f, s, m)
    BY <2>1
  <2>3. m # 0
    <3>1. Flat([i \in 1..0 |-> s[i]], s, 0)
      BY DEF Flat
    <3> QED BY <2>2, <3>1
  <2>4. m - 1 \in Nat /\ ~ (m <= m - 1)
    BY <2>2, <2>3
  <2>5. PICK f : Flat(f, s, m - 1)
    BY <2>1, <2>4
  <2> DEFINE h == [i \in 1..m |-> IF i = 1 THEN s[i] ELSE f[i - 1] \o s[i]]
  <2>6. ASSUME NEW i \in 1..(m - 1)
        PROVE  h[i] = f[i]
    <3>1. i \in 1..m
      BY <2>2
    <3> QED BY <2>5, <3>1 DEF Flat
  <2>7. \A i \in 1..m : h[i] = IF i = 1 THEN s[i] ELSE h[i - 1] \o s[i]
    <3> SUFFICES ASSUME NEW i \in 1..m, i # 1 PROVE h[i] = h[i - 1] \o s[i]
      OBVIOUS
    <3>1. i - 1 \in 1..(m - 1)
      BY <2>2
    <3>2. h[i] = f[i - 1] \o s[i]
      OBVIOUS
    <3> QED BY <2>6, <3>1, <3>2
  <2>8. Flat(h, s, m)
    BY <2>7 DEF Flat
  <2> QED BY <2>2, <2>8
<1> QED BY <1>1

(* Cell a of the i-th part of a flattened sequence is found at the sum of the *)
(* parts before it.                                                           *)
LEMMA FlatCells ==
  ASSUME NEW n \in Nat, n > 0, NEW s, Len(s) = n, NEW w, Numbers(w, n),
         \A i \in 1..n : Listed(s[i]) /\ Len(s[i]) = w[i],
         NEW i \in 1..n, NEW a \in 1..w[i]
  PROVE  FlattenSeq(s)[Sum(w, i - 1) + a] = s[i][a]
<1>1. Len(s) = n
  OBVIOUS
<1>2. PICK f : Flat(f, s, n) /\ FlattenSeq(s) = f[n]
  <2>1. FlattenSeq(s) = (CHOOSE f : Flat(f, s, n))[n]
    BY <1>1 DEF FlattenSeq, Flat
  <2>2. \E f : Flat(f, s, n)
    BY FlatExists
  <2> QED BY <2>1, <2>2
<1>3. f[1] = s[1] /\ \A k \in 2..n : f[k] = f[k - 1] \o s[k]
  <2>1. f = [k \in 1..n |-> IF k = 1 THEN s[k] ELSE f[k - 1] \o s[k]]
    BY <1>2 DEF Flat
  <2>2. 1 \in 1..n
    OBVIOUS
  <2>3. f[1] = s[1]
    BY <2>1, <2>2
  <2>4. ASSUME NEW k \in 2..n PROVE f[k] = f[k - 1] \o s[k]
    <3>1. k \in 1..n /\ k # 1
      OBVIOUS
    <3>2. f[k] = IF k = 1 THEN s[k] ELSE f[k - 1] \o s[k]
      BY <2>1, <3>1
    <3> QED BY <3>1, <3>2
  <2> QED BY <2>3, <2>4
<1> DEFINE Good(k) == /\ Listed(f[k]) /\ Len(f[k]) = Sum(w, k)
                      /\ \A j \in 1..k : \A b \in 1..w[j] : f[k][Sum(w, j - 1) + b] = s[j][b]
           T == {k \in Nat : k \in 1..n /\ ~ Good(k)}
<1>4. T = {}
  <2> SUFFICES ASSUME T # {} PROVE FALSE
    OBVIOUS
  <2>1. PICK k \in T : \A y \in T : k <= y
    <3>1. T \subseteq Nat
      OBVIOUS
    <3> HIDE DEF T
    <3> QED BY <3>1, NatLeast
  <2>2. k \in Nat /\ k \in 1..n /\ ~ Good(k)
    BY <2>1
  <2>3. Sum(w, k) = Sum(w, k - 1) + w[k] /\ w[k] \in Nat /\ Sum(w, k - 1) \in Nat
    <3> HIDE DEF T, Good
    <3>1. k - 1 \in 0..n
      BY <2>2
    <3> QED BY <2>2, <3>1, SumSteps DEF Numbers
  <2>4. CASE k = 1
    <3>1. Sum(w, 0) = 0 /\ Sum(w, 1) = w[1]
      BY <2>3, <2>4, SumSteps
    <3>2. Listed(f[1]) /\ Len(f[1]) = Sum(w, 1)
      BY <1>3, <3>1, <2>2, <2>4
    <3>3. \A j \in 1..1 : \A b \in 1..w[j] : f[1][Sum(w, j - 1) + b] = s[j][b]
      <4> SUFFICES ASSUME NEW j \in 1..1, NEW b \in 1..w[j] PROVE f[1][Sum(w, j - 1) + b] = s[j][b]
        OBVIOUS
      <4>1. j = 1 /\ j - 1 = 0
        OBVIOUS
      <4>2. b \in Nat
        BY <2>3, <2>4, <4>1
      <4>3. 0 + b = b
        BY <4>2
      <4> QED BY <1>3, <3>1, <4>1, <4>3
    <3> QED BY <2>2, <2>4, <3>2, <3>3
  <2>5. CASE k # 1
    <3>1. k - 1 \in Nat /\ k - 1 \in 1..n /\ ~ (k <= k - 1) /\ k \in 2..n
      BY <2>2, <2>5
    <3>7. Good(k - 1)
      BY <2>1, <3>1
    <3>2. /\ Listed(f[k - 1]) /\ Len(f[k - 1]) = Sum(w, k - 1)
          /\ \A j \in 1..(k - 1) : \A b \in 1..w[j] : f[k - 1][Sum(w, j - 1) + b] = s[j][b]
      BY <3>7
    <3>6. k \in Nat /\ k \in 1..n
      BY <2>2
    <3> HIDE DEF T, Good
    <3>3. f[k] = f[k - 1] \o s[k] /\ Listed(s[k]) /\ Len(s[k]) = w[k]
      BY <1>3, <2>2, <3>1
    <3>9. PICK u, t : u = f[k - 1] /\ t = s[k]
      OBVIOUS
    <3>10. /\ Listed(u \o t) /\ Len(u \o t) = Len(u) + Len(t)
           /\ \A c \in 1..Len(u) : (u \o t)[c] = u[c]
           /\ \A c \in 1..Len(t) : (u \o t)[Len(u) + c] = t[c]
      <4>1. Listed(u) /\ Listed(t)
        BY <3>2, <3>3, <3>9
      <4> QED BY <4>1, ListedConcat, ConcatCells
    <3>4. Listed(f[k]) /\ Len(f[k]) = Sum(w, k)
      BY <2>3, <3>2, <3>3, <3>9, <3>10
    <3>5. ASSUME NEW j \in 1..k, NEW b \in 1..w[j]
          PROVE  f[k][Sum(w, j - 1) + b] = s[j][b]
      <4>1. CASE j = k
        <5>1. (f[k - 1] \o s[k])[Len(f[k - 1]) + b] = s[k][b]
          BY <3>3, <3>5, <3>9, <3>10, <4>1
        <5> QED BY <3>2, <3>3, <4>1, <5>1
      <4>2. CASE j # k
        <5>1. j \in 1..(k - 1) /\ j \in 1..n /\ j \in 0..n /\ j <= k - 1 /\ k - 1 \in 0..n /\ j - 1 \in 0..n
          BY <3>6, <4>2
        <5>2. f[k - 1][Sum(w, j - 1) + b] = s[j][b]
          BY <3>2, <3>5, <5>1
        <5>3. Sum(w, j) <= Sum(w, k - 1)
          BY <5>1, SumOrder
        <5>4. Sum(w, j) = Sum(w, j - 1) + w[j] /\ w[j] \in Nat /\ Sum(w, j - 1) \in Nat
          BY <5>1, SumSteps DEF Numbers
        <5>5. Sum(w, j - 1) + b \in 1..Sum(w, k - 1)
          BY <2>3, <3>5, <5>3, <5>4
        <5>6. (f[k - 1] \o s[k])[Sum(w, j - 1) + b] = f[k - 1][Sum(w, j - 1) + b]
          BY <3>2, <3>9, <3>10, <5>5
        <5> QED BY <3>3, <5>2, <5>6
      <4> QED BY <4>1, <4>2
    <3>8. Good(k)
      BY <3>4, <3>5 DEF Good
    <3> QED BY <2>2, <3>8
  <2> QED BY <2>4, <2>5
<1>5. n \in 1..n
  OBVIOUS
<1>6. Good(n)
  <2>1. n \notin T
    BY <1>4
  <2> HIDE DEF Good
  <2> QED BY <1>5, <2>1
<1> QED BY <1>2, <1>6

-----------------------------------------------------------------------------
(* What _prepare_input_ids leaves in the buffer for a row.                    *)

(* Every row has a token of its own besides its drafts.                        *)
LEMMA ManyTokens ==
  ASSUME NEW S, IsFiniteSet(S), NEW n, NEW spec, NEW f, Totals(f, n, S),
         NEW C \in SUBSET S, NEW h, Totals(h, spec, C),
         \A i \in S : n[i] \in Nat /\ spec[i] \in Nat /\ spec[i] < n[i]
  PROVE  f[S] >= Cardinality(S) + h[C]
<1> DEFINE Good(t) == f[t] >= Cardinality(t) + h[t \cap C]
           T == {m \in Nat : \E t \in SUBSET S : Cardinality(t) = m /\ ~ Good(t)}
<1>1. T = {}
  <2> SUFFICES ASSUME T # {} PROVE FALSE
    OBVIOUS
  <2>1. PICK m \in T : \A y \in T : m <= y
    <3>1. T \subseteq Nat
      OBVIOUS
    <3> HIDE DEF T
    <3> QED BY <3>1, NatLeast
  <2>2. PICK t \in SUBSET S : Cardinality(t) = m /\ ~ Good(t) /\ m \in Nat
    BY <2>1
  <2>3. t # {}
    <3>1. t = {} => f[t] = 0 /\ t \cap C = {} /\ h[t \cap C] = 0 /\ Cardinality(t) = 0
      BY FS_EmptySet DEF Totals
    <3> QED BY <2>2, <3>1
  <2>4. PICK k \in t : TRUE
    BY <2>3
  <2>5. t \ {k} \in SUBSET S /\ Cardinality(t \ {k}) = m - 1 /\ m - 1 \in Nat
    BY <2>2, SmallerSet
  <2>6. Good(t \ {k})
    <3>1. ~ (m <= m - 1)
      BY <2>2
    <3>2. m - 1 \notin T
      BY <2>1, <3>1
    <3> QED BY <2>5, <3>2
  <2>7. f[t] = f[t \ {k}] + n[k] /\ f[t \ {k}] \in Nat /\ n[k] \in Nat /\ spec[k] \in Nat /\ spec[k] < n[k]
    BY DEF Totals
  <2>8. h[t \cap C] \in Nat /\ h[(t \ {k}) \cap C] \in Nat
    BY DEF Totals
  <2>9. h[t \cap C] = h[(t \ {k}) \cap C] + (IF k \in C THEN spec[k] ELSE 0)
    <3>1. CASE k \in C
      <4>1. (t \cap C) \ {k} = (t \ {k}) \cap C /\ k \in t \cap C
        BY <3>1
      <4>2. h[t \cap C] = h[(t \cap C) \ {k}] + spec[k]
        BY <4>1 DEF Totals
      <4> QED BY <3>1, <4>1, <4>2
    <3>2. CASE k \notin C
      <4>1. t \cap C = (t \ {k}) \cap C
        BY <3>2
      <4>2. h[t \cap C] = h[(t \ {k}) \cap C]
        BY <4>1
      <4> HIDE DEF T, Good
      <4> QED BY <2>8, <3>2, <4>2
    <3> QED BY <3>1, <3>2
  <2>10. f[t \ {k}] >= (m - 1) + h[(t \ {k}) \cap C]
    BY <2>5, <2>6
  <2>11. f[t] >= m + h[t \cap C]
    <3> HIDE DEF T, Good
    <3>1. CASE k \in C
      BY <2>2, <2>7, <2>8, <2>9, <2>10, <3>1
    <3>2. CASE k \notin C
      BY <2>2, <2>7, <2>8, <2>9, <2>10, <3>2
    <3> QED BY <3>1, <3>2
  <2> QED BY <2>2, <2>11
<1>2. Cardinality(S) \in Nat /\ S \cap C = C
  BY FS_CardinalityType
<1> QED BY <1>1, <1>2

(* What _prepare_inputs leaves for _prepare_input_ids: every row has a token   *)
(* besides its drafts, and one that was in the last step has just one.         *)
Prepares(rw, pv) ==
  LET N == Len(rw) IN
  /\ DOMAIN rw = 1..N /\ N \in Nat /\ Len(buf.n) = N /\ Numbers(buf.n, N) /\ Numbers(buf.spec, N)
  /\ \A i \in 1..N : buf.spec[i] < buf.n[i]
  /\ \A i \in Common(rw, pv) : buf.n[i] - buf.spec[i] = 1 /\ pv.idx[rw[i]] \in Nat

(* With a row that was not sampled last, the whole buffer is copied to the    *)
(* device.                                                                    *)
LEMMA CopiesTheOthers ==
  ASSUME NEW rw, NEW pv, Prepares(rw, pv), NEW i \in DOMAIN rw, i \notin Common(rw, pv)
  PROVE  InputOp(rw, buf, pv).copy = TRUE
<1> DEFINE N == Len(rw)
           C == Common(rw, pv)
           specs == FoldFunctionOnSet(LAMBDA x, y : y + x, 0, buf.spec, C)
           total == Sum(buf.n, Len(buf.n))
<1>1. N \in Nat /\ IsFiniteSet(1..N) /\ Cardinality(1..N) = N /\ C \in SUBSET (1..N) /\ i \in 1..N
  <2>1. N \in Nat /\ DOMAIN rw = 1..N
    BY DEF Prepares
  <2>2. C \in SUBSET (1..N) /\ i \in 1..N
    BY <2>1 DEF Common
  <2> HIDE DEF N, C
  <2>3. IsFiniteSet(1..N) /\ Cardinality(1..N) = N
    BY <2>1, FS_Interval
  <2> QED BY <2>1, <2>2, <2>3
<1>2. IsFiniteSet(C) /\ Cardinality(C) \in Nat /\ Cardinality(C) <= N /\ (Cardinality(C) = N => C = 1..N)
  BY <1>1, FS_Subset, FS_CardinalityType
<1>3. Cardinality(C) < N
  BY <1>1, <1>2
<1>4. Numbers(buf.n, N) /\ Numbers(buf.spec, N) /\ Len(buf.n) = N
  BY DEF Prepares
<1>5. PICK f : Totals(f, buf.n, 1..N)
  BY <1>1, <1>4, FoldSeqTotals DEF Numbers
<1>6. total = f[1..N]
  BY <1>1, <1>4, <1>5, SumIsTotal
<1>7. \A x \in C : buf.spec[x] \in Nat
  BY <1>1, <1>4 DEF Numbers
<1>8. PICK h : Totals(h, buf.spec, C) /\ specs = h[C]
  <2> HIDE DEF C
  <2> QED BY <1>2, <1>7, FoldSetTotals
<1>9. \A x \in 1..N : buf.n[x] \in Nat /\ buf.spec[x] \in Nat /\ buf.spec[x] < buf.n[x]
  BY <1>4 DEF Numbers, Prepares
<1>10. f[1..N] >= N + h[C]
  <2> HIDE DEF N, C
  <2>1. PICK S : S = 1..N
    OBVIOUS
  <2>2. f[S] >= Cardinality(S) + h[C]
    <3>1. /\ IsFiniteSet(S) /\ Totals(f, buf.n, S) /\ C \in SUBSET S /\ Totals(h, buf.spec, C)
          /\ \A x \in S : buf.n[x] \in Nat /\ buf.spec[x] \in Nat /\ buf.spec[x] < buf.n[x]
      BY <1>1, <1>5, <1>8, <1>9, <2>1
    <3> QED BY <3>1, ManyTokens
  <2> QED BY <1>1, <2>1, <2>2
<1>11. f[1..N] \in Nat /\ h[C] \in Nat
  BY <1>1, <1>5, <1>8 DEF Totals
<1>12. InputOp(rw, buf, pv).copy = (~ pv.set \/ Cardinality(C) < total - specs)
  BY DEF InputOp
<1>13. Cardinality(C) < total - specs
  <2> HIDE DEF N, C, total, specs
  <2> QED BY <1>1, <1>2, <1>3, <1>6, <1>8, <1>10, <1>11
<1> QED BY <1>12, <1>13

(* A step that is fed by one slice of the last step's tokens: the slice is the *)
(* first tokens, one of each of those rows.                                   *)
LEMMA SliceCovers ==
  ASSUME NEW rw, NEW pv, Prepares(rw, pv), NEW C, C = Common(rw, pv),
         \A i \in C : LastFlat(buf, i) <= Cardinality(C) - 1
  PROVE  \A k \in 1..Cardinality(C) : \E i \in C : Sum(buf.n, i) = k
<1> DEFINE N == Len(rw)
           c == Cardinality(C)
           F == [i \in C |-> Sum(buf.n, i)]
<1>1. N \in Nat /\ Numbers(buf.n, N) /\ C \in SUBSET (1..N)
  BY DEF Prepares, Common
<1>2. \A i \in 1..N : buf.n[i] \in Nat /\ buf.n[i] >= 1
  <2> SUFFICES ASSUME NEW i \in 1..N PROVE buf.n[i] \in Nat /\ buf.n[i] >= 1
    OBVIOUS
  <2>1. buf.n[i] \in Nat /\ buf.spec[i] \in Nat /\ buf.spec[i] < buf.n[i]
    BY DEF Prepares, Numbers
  <2> QED BY <2>1
<1> HIDE DEF N
<1>3. IsFiniteSet(C) /\ c \in Nat
  <2>1. IsFiniteSet(1..N)
    BY <1>1, FS_Interval
  <2> QED BY <1>1, <2>1, FS_Subset, FS_CardinalityType
<1>4. \A i \in C : i \in 1..N /\ i - 1 \in 0..N /\ Sum(buf.n, i) \in Nat /\ Sum(buf.n, i - 1) \in Nat
                   /\ Sum(buf.n, i) = Sum(buf.n, i - 1) + buf.n[i]
  <2> SUFFICES ASSUME NEW i \in C
               PROVE  i \in 1..N /\ i - 1 \in 0..N /\ Sum(buf.n, i) \in Nat /\ Sum(buf.n, i - 1) \in Nat
                      /\ Sum(buf.n, i) = Sum(buf.n, i - 1) + buf.n[i]
    OBVIOUS
  <2>1. i \in 1..N
    BY <1>1
  <2>2. i - 1 \in 0..N /\ i \in 0..N
    BY <1>1, <2>1
  <2> QED BY <1>1, <2>1, <2>2, SumSteps
<1>5. ASSUME NEW i \in C PROVE Sum(buf.n, i) \in 1..c
  <2>1. Sum(buf.n, i) - 1 <= c - 1
    BY DEF LastFlat
  <2>2. Sum(buf.n, i) >= 1
    BY <1>1, <1>2, <1>4
  <2> HIDE DEF c
  <2> QED BY <1>3, <1>4, <2>1, <2>2
<1>6. ASSUME NEW i \in C, NEW j \in C, Sum(buf.n, i) = Sum(buf.n, j) PROVE i = j
  <2>1. i \in 1..N /\ j \in 1..N /\ buf.n[i] \in 1..buf.n[i] /\ buf.n[j] \in 1..buf.n[j]
    BY <1>1, <1>2
  <2>2. Sum(buf.n, i - 1) + buf.n[i] = Sum(buf.n, j - 1) + buf.n[j]
    BY <1>4, <1>6
  <2> QED BY <1>1, <2>1, <2>2, OnePlace
<1>7. F \in Injection(C, 1..c)
  BY <1>5, <1>6 DEF Injection, IsInjective
<1> HIDE DEF F
<1>8. IsFiniteSet(1..c) /\ Cardinality(1..c) = Cardinality(C)
  <2> HIDE DEF c
  <2>1. IsFiniteSet(1..c) /\ Cardinality(1..c) = c
    BY <1>3, FS_Interval
  <2> QED BY <2>1 DEF c
<1>9. F \in Surjection(C, 1..c)
  BY <1>7, <1>8, FS_Injection
<1>10. \A k \in 1..c : \E i \in C : F[i] = k
  BY <1>9 DEF Surjection
<1> QED BY <1>10 DEF F

(* What the device finds in its inputs: for a row that was in the last step    *)
(* the token sampled then and the drafts proposed then, for another what the   *)
(* runner wrote.                                                              *)
LEMMA FedIds ==
  ASSUME NEW rw, NEW pv, Prepares(rw, pv), NEW i \in DOMAIN rw, NEW j \in 1..buf.n[i]
  PROVE  LET o == InputOp(rw, buf, pv)
             k == Sum(buf.n, i - 1) + j
             p == pv.idx[rw[i]]
         IN  InputIds(o)[k] = IF i \notin Common(rw, pv) THEN buf.ids[k]
                              ELSE IF j = 1 THEN gpu.next[p] ELSE gpu.drafts[p][j - 1]
<1> DEFINE N == Len(rw)
           C == Common(rw, pv)
           o == InputOp(rw, buf, pv)
           k == Sum(buf.n, i - 1) + j
           p == pv.idx[rw[i]]
           at(x) == Sum(buf.n, x - 1)
<1>1. /\ N \in Nat /\ DOMAIN rw = 1..N /\ Numbers(buf.n, N) /\ Len(buf.n) = N
      /\ C \subseteq 1..N /\ i \in 1..N
  BY DEF Prepares, Common
<1>2. \A x \in 1..N : /\ buf.n[x] \in Nat /\ buf.spec[x] \in Nat /\ buf.n[x] >= 1
                      /\ x \in C => buf.n[x] = buf.spec[x] + 1
  <2> SUFFICES ASSUME NEW x \in 1..N
               PROVE  /\ buf.n[x] \in Nat /\ buf.spec[x] \in Nat /\ buf.n[x] >= 1
                      /\ x \in C => buf.n[x] = buf.spec[x] + 1
    OBVIOUS
  <2>1. buf.n[x] \in Nat /\ buf.spec[x] \in Nat /\ buf.spec[x] < buf.n[x]
    BY DEF Prepares, Numbers
  <2>2. x \in C => buf.n[x] - buf.spec[x] = 1
    BY DEF Prepares
  <2> HIDE DEF C, N
  <2> QED BY <2>1, <2>2
<1>3. \A x \in 1..N : at(x) \in Nat /\ Sum(buf.n, x) = at(x) + buf.n[x]
  <2> SUFFICES ASSUME NEW x \in 1..N PROVE at(x) \in Nat /\ Sum(buf.n, x) = at(x) + buf.n[x]
    OBVIOUS
  <2>1. x - 1 \in 0..N
    BY <1>1
  <2> HIDE DEF N
  <2> QED BY <1>1, <2>1, SumSteps
<1>4. k \in 1..Sum(buf.n, N)
  <2> HIDE DEF N
  <2> QED BY <1>1, PlaceExists
<1>5. InputIds(o)[k] = IF k <= o.slice THEN gpu.next[k]
                       ELSE IF k \in Targets(o.drafts)
                         THEN gpu.drafts[At(o.drafts, k)[2]][At(o.drafts, k)[3]]
                       ELSE IF k \in Targets(o.scatter) THEN gpu.next[At(o.scatter, k)[2]]
                       ELSE IF o.copy THEN buf.ids[k] ELSE Hole
  <2>1. k \in 1..Sum(buf.n, Len(buf.n))
    BY <1>1, <1>4
  <2> HIDE DEF k, o
  <2> QED BY <2>1 DEF InputIds
<1>6. \A x \in C : SampleFlat(buf, x) = at(x)
  <2> SUFFICES ASSUME NEW x \in C PROVE SampleFlat(buf, x) = at(x)
    OBVIOUS
  <2>1. x \in 1..N
    BY <1>1
  <2>2. Sum(buf.n, x) = at(x) + buf.n[x] /\ at(x) \in Nat /\ buf.n[x] = buf.spec[x] + 1 /\ buf.spec[x] \in Nat
    BY <1>2, <1>3, <2>1
  <2>3. SampleFlat(buf, x) = (Sum(buf.n, x) - 1) - buf.spec[x]
    BY DEF SampleFlat, LastFlat
  <2> HIDE DEF at, C
  <2> QED BY <2>2, <2>3
<1>7. i \notin C => o.copy = TRUE
  BY CopiesTheOthers
<1>8. ASSUME NEW x \in 1..N, NEW a \in 1..buf.n[x], at(x) + a = k
      PROVE  x = i /\ a = j
  <2> HIDE DEF N
  <2> QED BY <1>1, <1>8, OnePlace
<1> DEFINE Found(v) == v = IF i \notin C THEN buf.ids[k]
                          ELSE IF j = 1 THEN gpu.next[p] ELSE gpu.drafts[p][j - 1]
           same == /\ \A x \in C : pv.idx[rw[x]] - 1 = LastFlat(buf, x)
                   /\ \A x \in C : LastFlat(buf, x) <= Cardinality(C) - 1
           slice == C # {} /\ same /\ \E x \in C : LastFlat(buf, x) = Cardinality(C) - 1
<1>9. /\ o.slice = IF slice THEN Cardinality(C) ELSE 0
      /\ o.scatter = IF slice THEN {} ELSE {<<SampleFlat(buf, x), pv.idx[rw[x]]>> : x \in C}
      /\ o.drafts = IF slice THEN {}
                    ELSE UNION {{<<SampleFlat(buf, x) + y, pv.idx[rw[x]], y>> :
                                   y \in 1..buf.spec[x]} : x \in C}
  BY DEF InputOp
<1>10. ASSUME slice PROVE Found(InputIds(o)[k])
  <2>1. \A y \in 1..Cardinality(C) : \E x \in C : Sum(buf.n, x) = y
    <3>1. \A x \in C : LastFlat(buf, x) <= Cardinality(C) - 1
      BY <1>10
    <3> QED BY <3>1, SliceCovers
  <2>2. k \in Nat /\ k >= 1 /\ Cardinality(C) \in Nat
    <3>1. IsFiniteSet(1..N)
      BY <1>1, FS_Interval
    <3> QED BY <1>1, <1>3, <3>1, FS_Subset, FS_CardinalityType
  <2>3. o.slice = Cardinality(C) /\ o.scatter = {} /\ o.drafts = {}
    BY <1>9, <1>10
  <2>4. ASSUME k <= Cardinality(C) PROVE i \in C /\ buf.n[i] = j
    <3> HIDE DEF k, C
    <3>1. PICK x \in C : Sum(buf.n, x) = k
      BY <2>1, <2>2, <2>4
    <3>2. x \in 1..N /\ buf.n[x] \in 1..buf.n[x] /\ at(x) + buf.n[x] = k
      BY <1>1, <1>2, <1>3, <3>1
    <3> QED BY <1>8, <3>1, <3>2
  <2>5. CASE i \in C
    <3>1. pv.idx[rw[i]] - 1 = LastFlat(buf, i) /\ LastFlat(buf, i) <= Cardinality(C) - 1
      BY <1>10, <2>5
    <3>2. Sum(buf.n, i) = at(i) + buf.n[i] /\ at(i) \in Nat /\ buf.n[i] \in Nat
      BY <1>1, <1>2, <1>3
    <3>3. LastFlat(buf, i) = Sum(buf.n, i) - 1
      BY DEF LastFlat
    <3>4. k <= Sum(buf.n, i)
      BY <3>2
    <3>5. k <= Cardinality(C)
      <4> HIDE DEF k, C, at
      <4> QED BY <2>2, <3>1, <3>2, <3>3, <3>4
    <3>6. buf.n[i] = j
      BY <2>4, <3>5
    <3>7. j = 1
      <4>1. CASE j # 1
        <5>1. j - 1 \in 1..buf.n[i] /\ at(i) + (j - 1) = k - 1 /\ k - 1 \in 1..Cardinality(C)
          BY <2>2, <3>2, <3>5, <4>1
        <5>2. PICK x \in C : Sum(buf.n, x) = k - 1
          BY <2>1, <5>1
        <5>3. x \in 1..N /\ buf.n[x] \in 1..buf.n[x] /\ at(x) + buf.n[x] = k - 1
          BY <1>1, <1>2, <1>3, <5>2
        <5>4. at(x) + buf.n[x] = at(i) + (j - 1)
          BY <5>1, <5>3
        <5>5. x = i /\ buf.n[x] = j - 1
          <6> HIDE DEF N
          <6> QED BY <1>1, <5>1, <5>3, <5>4, OnePlace
        <5> QED BY <3>2, <3>6, <5>5
      <4> QED BY <4>1
    <3>8. p = k
      <4>1. k = Sum(buf.n, i)
        BY <3>2, <3>6
      <4>2. p \in Nat
        BY <2>5 DEF Prepares
      <4> HIDE DEF k, C, at
      <4> QED BY <3>1, <3>2, <3>3, <4>1, <4>2
    <3>9. InputIds(o)[k] = gpu.next[k]
      <4> HIDE DEF k, o, C
      <4> QED BY <1>5, <2>3, <3>5
    <3> HIDE DEF k, p, C, o
    <3> QED BY <2>5, <3>7, <3>8, <3>9
  <2>6. CASE i \notin C
    <3>1. ~ (k <= Cardinality(C))
      BY <2>4, <2>6
    <3>2. Targets(o.drafts) = {} /\ Targets(o.scatter) = {}
      BY <2>3 DEF Targets
    <3>3. InputIds(o)[k] = buf.ids[k]
      <4> HIDE DEF k, o, C
      <4> QED BY <1>5, <1>7, <2>3, <2>6, <3>1, <3>2
    <3> HIDE DEF k, p, C, o
    <3> QED BY <2>6, <3>3
  <2> QED BY <2>5, <2>6
<1>11. ASSUME ~ slice PROVE Found(InputIds(o)[k])
  <2>1. /\ o.slice = 0 /\ o.scatter = {<<SampleFlat(buf, x), pv.idx[rw[x]]>> : x \in C}
        /\ o.drafts = UNION {{<<SampleFlat(buf, x) + y, pv.idx[rw[x]], y>> :
                                y \in 1..buf.spec[x]} : x \in C}
    BY <1>9, <1>11
  <2>2. k \in Nat /\ ~ (k <= 0) /\ j \in Nat /\ at(i) \in Nat /\ k = at(i) + j
    BY <1>1, <1>2, <1>3
  <2>3. ASSUME NEW z \in o.drafts, z[1] = k - 1
        PROVE  i \in C /\ z[2] = p /\ z[3] = j - 1 /\ j # 1
    <3>1. PICK x \in C : \E y \in 1..buf.spec[x] : z = <<SampleFlat(buf, x) + y, pv.idx[rw[x]], y>>
      BY <2>1
    <3>2. PICK y \in 1..buf.spec[x] : z = <<SampleFlat(buf, x) + y, pv.idx[rw[x]], y>>
      BY <3>1
    <3>3. x \in 1..N /\ at(x) \in Nat /\ buf.n[x] = buf.spec[x] + 1 /\ buf.spec[x] \in Nat /\ SampleFlat(buf, x) = at(x)
      BY <1>1, <1>2, <1>3, <1>6
    <3>4. y + 1 \in 1..buf.n[x] /\ at(x) + y = k - 1 /\ y \in Nat
      BY <2>3, <3>2, <3>3
    <3>5. at(x) + (y + 1) = k
      <4>1. PICK ax, kk : ax = at(x) /\ kk = k
        OBVIOUS
      <4>2. ax \in Nat /\ kk \in Nat /\ y \in Nat /\ ax + y = kk - 1
        BY <2>2, <3>3, <3>4, <4>1
      <4>3. ax + (y + 1) = kk
        BY <4>2
      <4> QED BY <4>1, <4>3
    <3>6. x = i /\ y + 1 = j
      BY <1>8, <3>3, <3>4, <3>5
    <3>7. y = j - 1 /\ j # 1
      BY <2>2, <3>4, <3>6, <3>2, <3>3
    <3> QED BY <3>2, <3>6, <3>7
  <2>4. ASSUME NEW z \in o.scatter, z[1] = k - 1
        PROVE  i \in C /\ z[2] = p /\ j = 1
    <3>1. PICK x \in C : z = <<SampleFlat(buf, x), pv.idx[rw[x]]>>
      BY <2>1
    <3>3. x \in 1..N /\ at(x) \in Nat /\ buf.n[x] \in Nat /\ buf.n[x] >= 1 /\ SampleFlat(buf, x) = at(x)
      BY <1>1, <1>2, <1>3, <1>6
    <3>4. 1 \in 1..buf.n[x] /\ at(x) + 1 = k
      BY <2>2, <2>4, <3>1, <3>3
    <3>6. x = i /\ 1 = j
      BY <1>8, <3>3, <3>4
    <3> QED BY <3>1, <3>6
  <2>5. \A z \in o.drafts : z[1] \in Nat
    <3> SUFFICES ASSUME NEW z \in o.drafts PROVE z[1] \in Nat
      OBVIOUS
    <3>1. PICK x \in C : \E y \in 1..buf.spec[x] : z = <<SampleFlat(buf, x) + y, pv.idx[rw[x]], y>>
      BY <2>1
    <3>2. PICK y \in 1..buf.spec[x] : z = <<SampleFlat(buf, x) + y, pv.idx[rw[x]], y>>
      BY <3>1
    <3>3. SampleFlat(buf, x) \in Nat
      BY <1>1, <1>3, <1>6
    <3> QED BY <3>2, <3>3
  <2>6. \A z \in o.scatter : z[1] \in Nat
    <3> SUFFICES ASSUME NEW z \in o.scatter PROVE z[1] \in Nat
      OBVIOUS
    <3>1. PICK x \in C : z = <<SampleFlat(buf, x), pv.idx[rw[x]]>>
      BY <2>1
    <3>3. SampleFlat(buf, x) \in Nat
      BY <1>1, <1>3, <1>6
    <3> QED BY <3>1, <3>3
  <2>7. \A S : (\A z \in S : z[1] \in Nat) => (k \in Targets(S) <=> \E z \in S : z[1] = k - 1)
    <3> SUFFICES ASSUME NEW S, \A z \in S : z[1] \in Nat
                 PROVE  k \in Targets(S) <=> \E z \in S : z[1] = k - 1
      OBVIOUS
    <3>1. k \in Targets(S) <=> \E z \in S : k = z[1] + 1
      BY DEF Targets
    <3>2. \A z \in S : k = z[1] + 1 <=> z[1] = k - 1
      <4> HIDE DEF k
      <4> QED BY <2>2
    <3> HIDE DEF k
    <3> QED BY <3>1, <3>2
  <2>8. \A S : (\E z \in S : z[1] = k - 1) => At(S, k) \in S /\ At(S, k)[1] = k - 1
    BY DEF At
  <2>9. k \in Targets(o.drafts) => /\ i \in C /\ j # 1
                                   /\ At(o.drafts, k)[2] = p /\ At(o.drafts, k)[3] = j - 1
    <3> HIDE DEF k, o, C, p
    <3> QED BY <2>3, <2>5, <2>7, <2>8
  <2>10. k \in Targets(o.scatter) => i \in C /\ j = 1 /\ At(o.scatter, k)[2] = p
    <3> HIDE DEF k, o, C, p
    <3> QED BY <2>4, <2>6, <2>7, <2>8
  <2>11. ASSUME i \in C, j = 1 PROVE k \in Targets(o.scatter)
    <3>1. <<SampleFlat(buf, i), pv.idx[rw[i]]>> \in o.scatter
      BY <2>1, <2>11
    <3>2. SampleFlat(buf, i) = k - 1
      BY <1>6, <2>2, <2>11
    <3> HIDE DEF k, o, C, p
    <3> QED BY <2>6, <2>7, <3>1, <3>2
  <2>12. ASSUME i \in C, j # 1 PROVE k \in Targets(o.drafts)
    <3>1. j - 1 \in 1..buf.spec[i]
      <4>1. buf.n[i] = buf.spec[i] + 1 /\ buf.spec[i] \in Nat
        BY <1>1, <1>2, <2>12
      <4> HIDE DEF C
      <4> QED BY <2>2, <2>12, <4>1
    <3>2. <<SampleFlat(buf, i) + (j - 1), pv.idx[rw[i]], j - 1>> \in o.drafts
      BY <2>1, <2>12, <3>1
    <3>3. SampleFlat(buf, i) + (j - 1) = k - 1
      BY <1>6, <2>2, <2>12
    <3>4. <<SampleFlat(buf, i) + (j - 1), pv.idx[rw[i]], j - 1>>[1] = k - 1
      BY <3>3
    <3> HIDE DEF k, o, C, p
    <3> QED BY <2>5, <2>7, <3>2, <3>4
  <2> HIDE DEF k, o, C, p
  <2>13. CASE i \notin C
    BY <1>5, <1>7, <2>1, <2>2, <2>9, <2>10, <2>13
  <2>14. CASE i \in C /\ j = 1
    <3>1. k \notin Targets(o.drafts) /\ k \in Targets(o.scatter) /\ At(o.scatter, k)[2] = p
      BY <2>9, <2>10, <2>11, <2>14
    <3>2. InputIds(o)[k] = gpu.next[p]
      BY <1>5, <2>1, <2>2, <3>1
    <3> QED BY <2>14, <3>2
  <2>15. CASE i \in C /\ j # 1
    <3>1. k \in Targets(o.drafts) /\ At(o.drafts, k)[2] = p /\ At(o.drafts, k)[3] = j - 1
      BY <2>9, <2>12, <2>15
    <3>2. InputIds(o)[k] = gpu.drafts[p][j - 1]
      BY <1>5, <2>1, <2>2, <3>1
    <3> QED BY <2>15, <3>2
  <2> QED BY <2>13, <2>14, <2>15
<1>12. Found(InputIds(o)[k])
  BY <1>10, <1>11
<1> QED BY <1>12

-----------------------------------------------------------------------------
(* The invariant.                                                             *)

(* What the device will have computed of a request when it has sampled what it  *)
(* has read, and when it has also read what waits in the buffers.              *)
FedAt(q) == PlaceIn(fed.rows, q)
RealThen(q) == IF Within(q, fed.rows) /\ ~ fed.discard[FedAt(q)] THEN real[q] + 1 ELSE real[q]
KvThen(q) == IF Within(q, fed.rows) THEN fed.start[FedAt(q)] + fed.n[FedAt(q)] ELSE kv[q]
End(q) == IF HasInput /\ Within(q, rows)
            THEN buf.start[PlaceIn(rows, q)] + buf.n[PlaceIn(rows, q)] ELSE KvThen(q)

(* A token of request q at position p, or one that nobody may see.             *)
Proposed(t, q, p) == t \in {Tok(q, p), Guess(q)}

(* What the device has read and not sampled.                                   *)
FedHolds ==
  /\ fed = NoInput \/ Sampling \/ (Executing /\ queue = <<>>)
  /\ InRows(fed.rows)
  /\ \A i \in DOMAIN fed.rows :
       /\ RowFed(i) /\ fed.start[i] \in Nat /\ fed.n[i] \in Nat /\ fed.spec[i] \in 0..mode.spec
       /\ fed.spec[i] < fed.n[i] /\ fed.discard[i] \in BOOLEAN
       /\ fed.discard[i] => fed.spec[i] = 0
  /\ HasInput /\ fed # NoInput => mode.spec = 0
  /\ ~ mode.async /\ fed # NoInput => fed.spec = buf.spec

(* Row p of the last sampling is request q's: on the device lie, or will lie,   *)
(* its last token and the drafts for the next.                                 *)
ResultOf(p, q) ==
  /\ p \in Nat
  /\ IF Sampling THEN p \in DOMAIN fed.rows /\ fed.rows[p] = q /\ ~ fed.discard[p]
     ELSE /\ gpu.next[p] = Tok(q, real[q] - 1)
          /\ \A j \in 1..mode.spec : Proposed(gpu.drafts[p][j], q, real[q] + j - 1)

(* What waits in the buffers: with the last step's tokens filled in, the        *)
(* tokens of the requests where the device will need them.                     *)
InputRow(pv, i) ==
  LET q == rows[i]
      base == buf.n[i] - buf.spec[i]
      at(j) == buf.ids[Sum(buf.n, i - 1) + j]
  IN  /\ buf.start[i] \in Nat /\ buf.start[i] <= KvThen(q) /\ buf.discard[i] \in BOOLEAN
      /\ IF buf.discard[i] THEN buf.start[i] + base < RealThen(q) /\ buf.spec[i] = 0
                           ELSE buf.start[i] + base = RealThen(q)
      /\ buf.spec[i] <= mode.spec
      /\ IF i \in Common(rows, pv) THEN ResultOf(pv.idx[q], q) /\ ~ buf.discard[i]
         ELSE /\ \A j \in 1..base : at(j) = Tok(q, buf.start[i] + j - 1)
              /\ \A j \in base + 1..buf.n[i] :
                   Proposed(at(j), q, buf.start[i] + j - 1) \/ (mode.async /\ at(j) = Hole)
BufFrom(pv) ==
  /\ \E k \in DOMAIN queue : queue[k] = InputOp(rows, buf, pv)
  /\ pv.set \in BOOLEAN /\ (~ mode.async => ~ pv.set)
  /\ Prepares(rows, pv)
  /\ \A i \in DOMAIN rows : InputRow(pv, i)
BufHolds == HasInput => \E pv : BufFrom(pv)

(* The tokens that exist of a request: those the engine has, those in outputs,  *)
(* and those of the call that is sampling.                                     *)
Got(o, q) == IF Samples(o, q) /\ o.ready THEN Len(o.toks[PlaceIn(o.rows, q)]) ELSE 0
Unbooked(q) == ems.phase = "sampling" /\ queue = <<>> /\ IsSampled(q)
AllGot(q) == (IF Len(outputs) >= 1 THEN Got(outputs[1], q) ELSE 0)
           + (IF Len(outputs) = 2 THEN Got(outputs[2], q) ELSE 0)
           + (IF Unbooked(q) THEN Len(gpu.toks[PlaceIn(rows, q)]) ELSE 0)
Refused(q) == AllRejects(q)
            + (IF Unbooked(q) THEN buf.spec[PlaceIn(rows, q)] + 1 - Len(gpu.toks[PlaceIn(rows, q)]) ELSE 0)

(* As many tokens of a request exist as the device says, and it has computed  *)
(* fewer.                                                                     *)
Exist ==
  /\ DOMAIN real = Reqs /\ DOMAIN kv = Reqs
  /\ \A q \in Reqs : /\ real[q] \in Nat /\ kv[q] \in Nat /\ kv[q] < real[q]
                     /\ Live(q) => real[q] = prompt[q] + Len(eng[q].outs) + AllGot(q)
                     /\ eng[q].st = "new" => eng[q] = Fresh /\ real[q] = prompt[q]

(* Without asynchronous scheduling a row gets at most one token more than its *)
(* drafts.                                                                    *)
SyncBound ==
  ~ mode.async =>
    /\ \A j \in DOMAIN outputs : \A i \in DOMAIN outputs[j].rows :
         i \notin outputs[j].invalid => Len(outputs[j].toks[i]) <= outputs[j].spec[i] + 1
    /\ \A q \in Reqs : Unbooked(q) => LET i == PlaceIn(rows, q) IN Len(gpu.toks[i]) <= buf.spec[i] + 1

(* The engine's numbers of computed tokens: of a running request, as far as the *)
(* device will have got, and the drafts it has not been told were refused.     *)
Computed ==
  \A q \in Reqs : Live(q) =>
    IF eng[q].st = "preempted" THEN eng[q].computed = 0 /\ eng[q].specs = <<>>
    ELSE /\ eng[q].computed - Refused(q) = End(q) /\ End(q) >= 1
         /\ mode.async /\ eng[q].hold > 0 => eng[q].computed = (NumTokens(q) + eng[q].hold) - 1

(* The drafts the scheduler knows; with asynchronous scheduling placeholders  *)
(* only.                                                                      *)
EngSpecs ==
  \A q \in Reqs : Live(q) => /\ Len(eng[q].specs) <= mode.spec
                             /\ mode.async => \A j \in 1..Len(eng[q].specs) : eng[q].specs[j] = Hole

(* What the engine has of a request are its tokens, without a gap.            *)
Own == \A q \in Reqs : eng[q].outs = Toks(q, prompt[q], Len(eng[q].outs))

(* With asynchronous scheduling: a request of the batch that was not sampled    *)
(* last has no placeholders in its row; one that was is found where             *)
(* prev_req_id_to_index says.                                                  *)
WholeRow(q) == /\ req[q].row = Toks(q, 0, prompt[q] + Len(eng[q].outs))
               /\ eng[q].hold = 0 /\ Len(req[q].out) = Len(eng[q].outs)
Recent(q) == prev.set /\ q \in DOMAIN prev.idx

(* A request that was not sampled last has no placeholder in its row.         *)
AsyncRows ==
  mode.async => \A i \in DOMAIN rows :
    Live(rows[i]) /\ (IF ems = NoStep THEN ~ Recent(rows[i]) ELSE buf.discard[i]) => WholeRow(rows[i])

(* One that was sampled is found where prev_req_id_to_index says.             *)
LastSamples ==
  mode.async => \A q \in Reqs : Live(q) /\ Recent(q) =>
    LET p == prev.idx[q] IN
      IF HasInput /\ ems = NoStep THEN p \in DOMAIN rows /\ rows[p] = q /\ ~ buf.discard[p]
                                  ELSE ResultOf(p, q)

(* And its row was not a discarded one.                                       *)
LastIdx ==
  mode.async /\ ems = NoStep =>
    \A i \in DOMAIN rows : Live(rows[i]) /\ Recent(rows[i]) => i \notin outputs[Len(outputs)].invalid

(* Without it: the rows and the outputs are the requests' tokens, the drafts    *)
(* those proposed for them.                                                    *)
DraftsOf(q, s, p) == Len(s) <= mode.spec /\ \A j \in 1..Len(s) : Proposed(s[j], q, p + j - 1)
SyncRows ==
  ~ mode.async =>
    /\ ~ prev.set
    /\ \A q \in Reqs : Live(q) =>
        /\ req[q].out = Toks(q, prompt[q], Len(req[q].out))
        /\ Within(q, rows) => req[q].row = Toks(q, 0, prompt[q] + Len(req[q].out))
        /\ DraftsOf(q, eng[q].specs, NumTokens(q))
        /\ \A k \in DOMAIN outputs : Samples(outputs[k], q) =>
             DraftsOf(q, outputs[k].drafts[PlaceIn(outputs[k].rows, q)], real[q])
        /\ Unbooked(q) => DraftsOf(q, gpu.drafts[PlaceIn(rows, q)], real[q])

FInv == /\ FedHolds /\ BufHolds /\ Exist /\ SyncBound /\ Computed /\ EngSpecs /\ Own
        /\ AsyncRows /\ LastSamples /\ LastIdx /\ SyncRows

-----------------------------------------------------------------------------
(* The steps that are not execute_model: initial state, frame, counts, abort, *)
(* resubmission, sampling of a batch, booking, reading of an input, the       *)
(* sampler, the outputs.                                                      *)

(* Nothing of it changes but that the engine may lose requests.                *)
OnDevice == <<mode, life, req, rows, prev, buf, ems, queue, gpu, outputs, real, kv, fed>>
(* A step that leaves the device, the rows and the outputs alone, and gives a *)
(* request nothing new.                                                       *)
LEMMA FrameFed ==
  ASSUME FInv, CInv, UNCHANGED OnDevice,
         \A q \in Reqs : /\ eng'[q].outs = eng[q].outs
                         /\ Live(q)' \/ eng'[q].st = "new" => eng'[q] = eng[q]
  PROVE  FInv'
<1> USE DEF OnDevice, Tok, Guess, Proposed, HasInput, Sampling, Executing, FedAt
<1>1. FedHolds'
  BY DEF FInv, FedHolds, RowFed
<1>2. BufHolds'
  <2>1. \A q : KvThen(q)' = KvThen(q) /\ RealThen(q)' = RealThen(q)
    BY DEF KvThen, RealThen
  <2>2. \A p, q : ResultOf(p, q)' = ResultOf(p, q)
    BY DEF ResultOf
  <2>3. \A pv, i : InputRow(pv, i)' = InputRow(pv, i)
    BY <2>1, <2>2 DEF InputRow
  <2>4. \A pv : Prepares(rows, pv)' = Prepares(rows, pv)
    BY DEF Prepares
  <2>5. \A pv : BufFrom(pv)' = BufFrom(pv)
    BY <2>3, <2>4 DEF BufFrom
  <2> QED BY <2>5 DEF FInv, BufHolds
<1>3. \A q : Unbooked(q)' = Unbooked(q) /\ AllGot(q)' = AllGot(q) /\ Refused(q)' = Refused(q) /\ End(q)' = End(q)
  BY DEF Unbooked, AllGot, Refused, End, AllRejects, Rejects, Got, KvThen, IsSampled
<1>4. \A q \in Reqs : Live(q)' => Live(q) /\ eng'[q] = eng[q]
  BY DEF Live
<1>5. Exist'
  BY <1>3, <1>4 DEF FInv, Exist
<1>6. SyncBound' /\ Computed'
  BY <1>3, <1>4 DEF FInv, SyncBound, Computed, NumTokens
<1>10. EngSpecs' /\ Own'
  BY <1>4 DEF FInv, EngSpecs, Own, Toks
<1>7. \A i \in DOMAIN rows : rows[i] \in Reqs
  BY DEF CInv, Batch, InRows
<1>8. AsyncRows' /\ LastSamples' /\ LastIdx'
  BY <1>4, <1>7 DEF FInv, AsyncRows, LastSamples, LastIdx, WholeRow, Recent, ResultOf, Toks
<1>9. SyncRows'
  <2>1. ~ mode.async => ~ prev.set
    BY DEF FInv, SyncRows
  <2>2. ASSUME NEW q \in Reqs, Live(q)', ~ mode.async
        PROVE  /\ req[q].out = Toks(q, prompt[q], Len(req[q].out))
               /\ Within(q, rows) => req[q].row = Toks(q, 0, prompt[q] + Len(req[q].out))
               /\ DraftsOf(q, eng[q].specs, NumTokens(q))
               /\ \A k \in DOMAIN outputs : Samples(outputs[k], q) =>
                    DraftsOf(q, outputs[k].drafts[PlaceIn(outputs[k].rows, q)], real[q])
               /\ Unbooked(q) => DraftsOf(q, gpu.drafts[PlaceIn(rows, q)], real[q])
               /\ eng'[q] = eng[q]
    BY <1>4, <2>2 DEF FInv, SyncRows
  <2>3. \A q, s, p : DraftsOf(q, s, p)' = DraftsOf(q, s, p)
    BY DEF DraftsOf
  <2>4. \A q, f, k : Toks(q, f, k)' = Toks(q, f, k)
    BY DEF Toks
  <2> QED BY <1>3, <2>1, <2>2, <2>3, <2>4 DEF SyncRows, NumTokens
<1> QED BY <1>1, <1>2, <1>5, <1>6, <1>10, <1>8, <1>9 DEF FInv

(* The copy of the counts.                                                    *)
LEMMA CopyCountsFed ==
  ASSUME FInv, CInv, CopyCounts
  PROVE  FInv'
BY FrameFed DEF CopyCounts, OnDevice

(* An abort: the engine forgets the request, the device still has it.         *)
LEMMA AbortFed ==
  ASSUME FInv, CInv, NEW a \in Reqs, Abort(a)
  PROVE  FInv'
<1>1. UNCHANGED OnDevice
  BY DEF Abort, OnDevice
<1>2. eng' = [eng EXCEPT ![a] = [Fresh EXCEPT !.st = "done", !.outs = eng[a].outs]] /\ DOMAIN eng = Reqs
  BY DEF Abort, CInv, EngTyped
<1>3. \A q \in Reqs : /\ eng'[q].outs = eng[q].outs
                      /\ Live(q)' \/ eng'[q].st = "new" => eng'[q] = eng[q]
  BY <1>2 DEF Live, Fresh
<1> QED BY <1>1, <1>3, FrameFed

(* Initially nothing was read and nothing waits.                              *)
LEMMA InitFed == Init => FInv
<1> SUFFICES ASSUME Init PROVE FInv
  OBVIOUS
<1>1. /\ fed = NoInput /\ queue = <<>> /\ ems = NoStep /\ outputs = <<>> /\ rows = <<>>
      /\ DOMAIN fed.rows = {} /\ Len(fed.rows) = 0 /\ DOMAIN outputs = {} /\ DOMAIN rows = {}
      /\ ems.phase = "none" /\ prev.set = FALSE /\ DOMAIN queue = {} /\ Len(outputs) = 0
      /\ \A q \in Reqs : eng[q] = Fresh /\ ~ Live(q) /\ eng[q].outs = <<>>
  BY DEF Init, NoInput, NoStep, Fresh, Live
<1>2. FedHolds
  BY <1>1 DEF FedHolds, InRows, HasInput
<1>3. BufHolds
  BY <1>1 DEF BufHolds, HasInput
<1>4. Exist
  <2>3. DOMAIN real = Reqs /\ DOMAIN kv = Reqs
    BY RunnerAssumption DEF Init
  <2>1. \A q \in Reqs : real[q] = prompt[q] /\ kv[q] = 0 /\ prompt[q] \in Nat \ {0}
    BY RunnerAssumption DEF Init
  <2>2. \A q \in Reqs : real[q] \in Nat /\ kv[q] \in Nat /\ kv[q] < real[q]
    BY <2>1
  <2> QED BY <1>1, <2>1, <2>2, <2>3 DEF Exist
<1>5. SyncBound /\ Computed /\ EngSpecs
  BY <1>1 DEF SyncBound, Computed, EngSpecs, Unbooked
<1>6. Own
  <2>1. \A q : Toks(q, prompt[q], 0) = <<>>
    BY DEF Toks
  <2> QED BY <1>1, <2>1 DEF Own
<1>7. AsyncRows /\ LastSamples /\ LastIdx /\ SyncRows
  BY <1>1 DEF AsyncRows, LastSamples, LastIdx, SyncRows
<1> QED BY <1>2, <1>3, <1>4, <1>5, <1>6, <1>7 DEF FInv

(* What the device has read is a step of which there is an output, or the one   *)
(* the runner is at.                                                          *)
LEMMA FedRows ==
  ASSUME Pipeline, FedHolds, NEW q, Within(q, fed.rows)
  PROVE  Within(q, ems.rows) \/ \E j \in DOMAIN outputs : Within(q, outputs[j].rows)
<1>1. fed # NoInput
  <2>1. DOMAIN NoInput.rows = {}
    BY DEF NoInput
  <2> QED BY <2>1 DEF Within
<1>2. Sampling \/ (Executing /\ queue = <<>>)
  BY <1>1 DEF FedHolds
<1>3. PICK S : queue \in Seq(S)
  BY DEF Pipeline, Shaped
<1>4. Len(queue) \in Nat /\ (queue = <<>> <=> Len(queue) = 0) /\ (queue # <<>> => Head(queue) = queue[1])
  BY <1>3, EmptySeq, LenProperties
<1>5. CASE mode.async
  <2>1. Empty \/ In \/ Sa \/ InSa \/ SaIn \/ SaInSa
    BY <1>5 DEF Pipeline, Async
  <2>2. CASE Empty
    <3>1. Executing /\ fed.rows = ems.rows
      BY <1>2, <1>4, <2>2 DEF Empty, Sampling, Executing, NoStep
    <3> QED BY <3>1
  <2>3. CASE In \/ InSa
    BY <1>2, <1>4, <2>3 DEF In, InSa, Sampling
  <2>4. CASE Sa
    BY <2>4 DEF Sa, OnlyAwaits, Awaits
  <2>5. CASE SaIn \/ SaInSa
    <3>1. outputs[1].rows = fed.rows /\ Len(outputs) \in {1, 2}
      BY <2>5 DEF SaIn, SaInSa, Awaits
    <3>2. 1 \in DOMAIN outputs
      <4>1. PICK T : outputs \in Seq(T)
        BY DEF Pipeline, Shaped
      <4>2. DOMAIN outputs = 1..Len(outputs)
        BY <4>1, LenProperties
      <4> QED BY <3>1, <4>2
    <3> QED BY <3>1, <3>2
  <2> QED BY <2>1, <2>2, <2>3, <2>4, <2>5
<1>6. CASE ~ mode.async
  <2>1. fed.rows = ems.rows
    BY <1>2, <1>4, <1>6 DEF Pipeline, Sync, FedIsBuf, Sampling, Executing, NoStep
  <2> QED BY <2>1
<1> QED BY <1>5, <1>6

(* And what waits in the buffers.                                              *)
LEMMA WaitingRows ==
  ASSUME Pipeline, CInv, HasInput, NEW q, Within(q, rows)
  PROVE  Within(q, ems.rows) \/ \E j \in DOMAIN outputs : Within(q, outputs[j].rows)
<1>1. ems = NoStep \/ ems.rows = rows
  BY DEF CInv, Batch
<1>2. CASE ems = NoStep
  <2>1. outputs # <<>>
    <3>1. PICK S : queue \in Seq(S)
      BY DEF Pipeline, Shaped
    <3>2. DOMAIN queue = 1..Len(queue) /\ Len(queue) \in Nat
      BY <3>1, LenProperties
    <3>3. PICK k \in DOMAIN queue : queue[k].op = "input"
      BY DEF HasInput
    <3>4. mode.async
      <4>1. Len(queue) # 0
        BY <3>2, <3>3
      <4> QED BY <1>2, <4>1 DEF Pipeline, Sync, NoStep
    <3>5. InSa \/ SaInSa
      <4>1. ems.phase # "executed"
        BY <1>2 DEF NoStep
      <4>2. ~ Empty /\ ~ In /\ ~ SaIn
        BY <3>2, <3>3, <4>1 DEF Empty, In, SaIn
      <4>3. ~ Sa
        BY <3>2, <3>3 DEF Sa
      <4> QED BY <3>4, <4>2, <4>3 DEF Pipeline, Async
    <3>6. DOMAIN outputs # {}
      <4>1. PICK T : outputs \in Seq(T)
        BY DEF Pipeline, Shaped
      <4>2. DOMAIN outputs = 1..Len(outputs)
        BY <4>1, LenProperties
      <4> QED BY <3>5, <4>2 DEF InSa, SaInSa, OnlyAwaits
    <3> QED BY <3>6
  <2>2. outputs[Len(outputs)].rows = rows
    BY <1>2, <2>1 DEF CInv, LastStep
  <2>3. Len(outputs) \in DOMAIN outputs
    <3>1. PICK T : outputs \in Seq(T)
      BY DEF Pipeline, Shaped
    <3> QED BY <2>1, <3>1, EmptySeq, LenProperties
  <2> QED BY <2>2, <2>3
<1> QED BY <1>1, <1>2

(* A name that is submitted again is in no step, and nothing of the old life   *)
(* is left where the others are.                                              *)
LEMMA ResubmitFed ==
  ASSUME Pipeline, CInv, FInv, Steady, NEW a \in Reqs, Resubmit(a)
  PROVE  FInv'
<1>1. /\ UNCHANGED <<mode, req, rows, prev, buf, ems, queue, gpu, outputs, fed>>
      /\ ~ Contains(ems.rows, a) /\ \A j \in DOMAIN outputs : ~ Contains(outputs[j].rows, a)
      /\ eng' = [eng EXCEPT ![a] = Fresh] /\ life' = [life EXCEPT ![a] = @ + 1]
      /\ real' = [real EXCEPT ![a] = prompt[a]] /\ kv' = [kv EXCEPT ![a] = 0]
  BY DEF Resubmit
<1>2. /\ eng'[a] = Fresh /\ real'[a] = prompt[a] /\ kv'[a] = 0
      /\ DOMAIN real' = Reqs /\ DOMAIN kv' = Reqs
      /\ \A q \in Reqs : q # a => eng'[q] = eng[q] /\ life'[q] = life[q] /\ real'[q] = real[q] /\ kv'[q] = kv[q]
  BY <1>1 DEF CInv, EngTyped, FInv, Exist, Steady
<1>3. \A q : HasInput' = HasInput /\ Sampling' = Sampling /\ Executing' = Executing
  BY <1>1 DEF HasInput, Sampling, Executing
<1>4. \A q, p : q # a /\ q \in Reqs => Tok(q, p)' = Tok(q, p) /\ Guess(q)' = Guess(q)
  BY <1>2 DEF Tok, Guess
<1>5. \A q, f, k : q # a /\ q \in Reqs => Toks(q, f, k)' = Toks(q, f, k)
  BY <1>2 DEF Tok, Toks
<1>6. \A q \in Reqs : Live(q)' => q # a /\ Live(q) /\ eng'[q] = eng[q]
  BY <1>2 DEF Live, Fresh
<1>7. ~ Within(a, ems.rows) /\ \A j \in DOMAIN outputs : ~ Within(a, outputs[j].rows)
  <2>1. CASE ems = NoStep
    <3>1. DOMAIN ems.rows = {}
      BY <2>1 DEF NoStep
    <3>2. \A j \in DOMAIN outputs : InRows(outputs[j].rows)
      BY DEF CInv, OutTyped
    <3> QED BY <1>1, <3>1, <3>2, PlaceOfRow DEF Within
  <2>2. CASE ems # NoStep
    <3>1. InRows(ems.rows)
      BY <2>2 DEF CInv, Batch
    <3>2. \A j \in DOMAIN outputs : InRows(outputs[j].rows)
      BY DEF CInv, OutTyped
    <3> QED BY <1>1, <3>1, <3>2, PlaceOfRow
  <2> QED BY <2>1, <2>2
<1>8. ~ Within(a, fed.rows)
  BY <1>7, FedRows DEF FInv
<1>9. HasInput => ~ Within(a, rows)
  BY <1>7, WaitingRows
<1>10. FedHolds'
  <2>1. \A i \in DOMAIN fed.rows : fed.rows[i] \in Reqs /\ fed.rows[i] # a
    BY <1>8 DEF FInv, FedHolds, InRows, Within
  <2>2. \A i \in DOMAIN fed.rows : RowFed(i) => RowFed(i)'
    <3> SUFFICES ASSUME NEW i \in DOMAIN fed.rows, RowFed(i) PROVE RowFed(i)'
      OBVIOUS
    <3>1. PICK q : q = fed.rows[i]
      OBVIOUS
    <3>2. kv'[q] = kv[q] /\ real'[q] = real[q] /\ \A p : Tok(q, p)' = Tok(q, p) /\ Guess(q)' = Guess(q)
      BY <1>2, <1>4, <2>1, <3>1
    <3> QED BY <1>1, <3>1, <3>2 DEF RowFed
  <2> QED BY <1>1, <1>3, <2>2 DEF FInv, FedHolds, InRows
<1>11. BufHolds'
  <2>1. ASSUME NEW q \in Reqs, q # a
        PROVE  KvThen(q)' = KvThen(q) /\ RealThen(q)' = RealThen(q)
               /\ \A p : ResultOf(p, q)' = ResultOf(p, q)
    <3>1. \A t, p : Proposed(t, q, p)' = Proposed(t, q, p)
      BY <1>4, <2>1 DEF Proposed
    <3>2. \A p : Tok(q, p)' = Tok(q, p)
      BY <1>4, <2>1
    <3> QED BY <1>1, <1>2, <1>3, <2>1, <3>1, <3>2 DEF KvThen, RealThen, FedAt, ResultOf
  <2>2. ASSUME NEW pv, HasInput, BufFrom(pv)
        PROVE  BufFrom(pv)'
    <3>1. \A i \in DOMAIN rows : rows[i] \in Reqs /\ rows[i] # a
      BY <1>9, <2>2, BatchRows DEF Within
    <3>2. \A i \in DOMAIN rows : InputRow(pv, i) => InputRow(pv, i)'
      <4> SUFFICES ASSUME NEW i \in DOMAIN rows, InputRow(pv, i) PROVE InputRow(pv, i)'
        OBVIOUS
      <4>1. PICK q \in Reqs : q = rows[i] /\ q # a
        BY <3>1
      <4>2. /\ KvThen(q)' = KvThen(q) /\ RealThen(q)' = RealThen(q)
            /\ \A p : ResultOf(p, q)' = ResultOf(p, q)
            /\ \A p : Tok(q, p)' = Tok(q, p) 
            /\ \A t, p : Proposed(t, q, p)' = Proposed(t, q, p)
        BY <1>4, <2>1, <4>1 DEF Proposed
      <4> QED BY <1>1, <4>1, <4>2 DEF InputRow
    <3>3. Prepares(rows, pv)' = Prepares(rows, pv)
      BY <1>1 DEF Prepares
    <3> QED BY <1>1, <2>2, <3>2, <3>3 DEF BufFrom
  <2> QED BY <1>3, <2>2 DEF FInv, BufHolds
<1>12. \A q \in Reqs : q # a => /\ Unbooked(q)' = Unbooked(q) /\ AllGot(q)' = AllGot(q)
                               /\ Refused(q)' = Refused(q) /\ End(q)' = End(q)
  BY <1>1, <1>2, <1>3 DEF Unbooked, AllGot, Refused, End, AllRejects, Rejects, Got, KvThen, IsSampled, FedAt
<1>13. Exist'
  <2>1. prompt[a] \in Nat \ {0}
    BY RunnerAssumption
  <2>2. 0 < prompt[a] /\ 0 \in Nat
    BY <2>1
  <2>3. ~ Live(a)'
    BY <1>6
  <2>4. ASSUME NEW q \in Reqs, q # a
        PROVE  /\ real[q] \in Nat /\ kv[q] \in Nat /\ kv[q] < real[q]
               /\ Live(q)' => real[q] = prompt[q] + Len(eng[q].outs) + AllGot(q)
               /\ eng[q].st = "new" => eng[q] = Fresh /\ real[q] = prompt[q]
    BY <1>6, <2>4 DEF FInv, Exist
  <2> QED BY <1>2, <1>12, <2>1, <2>2, <2>3, <2>4 DEF Exist
<1>14. SyncBound'
  <2>1. \A q \in Reqs : Unbooked(q)' = Unbooked(q)
    BY <1>1 DEF Unbooked, IsSampled
  <2> QED BY <1>1, <2>1 DEF FInv, SyncBound
<1>15. Computed'
  BY <1>1, <1>6, <1>12 DEF FInv, Computed, NumTokens
<1>16. EngSpecs' /\ Own'
  <2>1. EngSpecs'
    BY <1>1, <1>6 DEF FInv, EngSpecs
  <2>2. ASSUME NEW q \in Reqs
        PROVE  (eng[q].outs = Toks(q, prompt[q], Len(eng[q].outs)))'
    <3>1. CASE q = a
      BY <1>2, <3>1 DEF Fresh, Toks
    <3>2. CASE q # a
      <4>1. \A k : Toks(q, prompt[q], k)' = Toks(q, prompt[q], k)
        BY <1>5, <3>2
      <4> QED BY <1>2, <3>2, <4>1 DEF FInv, Own
    <3> QED BY <3>1, <3>2
  <2> QED BY <2>1, <2>2 DEF Own
<1>17. \A i \in DOMAIN rows : rows[i] \in Reqs
  BY BatchRows
<1>18. AsyncRows'
  <2>1. ASSUME NEW q \in Reqs, Live(q)', WholeRow(q)
        PROVE  WholeRow(q)'
    BY <1>1, <1>5, <1>6, <2>1 DEF WholeRow
  <2>2. \A q : Recent(q)' = Recent(q)
    BY <1>1 DEF Recent
  <2> QED BY <1>1, <1>6, <1>17, <2>1, <2>2 DEF FInv, AsyncRows
<1>19. LastSamples' /\ LastIdx'
  <2>1. \A q : Recent(q)' = Recent(q)
    BY <1>1 DEF Recent
  <2>2. \A q \in Reqs : q # a => \A p : ResultOf(p, q)' = ResultOf(p, q)
    <3> SUFFICES ASSUME NEW q \in Reqs, q # a, NEW p PROVE ResultOf(p, q)' = ResultOf(p, q)
      OBVIOUS
    <3>1. (\A t, x : Proposed(t, q, x)' = Proposed(t, q, x)) /\ \A x : Tok(q, x)' = Tok(q, x)
      BY <1>4 DEF Proposed
    <3> QED BY <1>1, <1>2, <1>3, <3>1 DEF ResultOf
  <2>3. LastSamples'
    BY <1>1, <1>3, <1>6, <2>1, <2>2 DEF FInv, LastSamples
  <2>4. LastIdx'
    BY <1>1, <1>6, <1>17, <2>1 DEF FInv, LastIdx
  <2> QED BY <2>3, <2>4
<1>20. SyncRows'
  <2>1. ~ mode.async => ~ prev.set
    BY DEF FInv, SyncRows
  <2>2. ASSUME NEW q \in Reqs, Live(q)', ~ mode.async
        PROVE  /\ req[q].out = Toks(q, prompt[q], Len(req[q].out))
               /\ Within(q, rows) => req[q].row = Toks(q, 0, prompt[q] + Len(req[q].out))
               /\ DraftsOf(q, eng[q].specs, NumTokens(q))
               /\ \A k \in DOMAIN outputs : Samples(outputs[k], q) =>
                    DraftsOf(q, outputs[k].drafts[PlaceIn(outputs[k].rows, q)], real[q])
               /\ Unbooked(q) => DraftsOf(q, gpu.drafts[PlaceIn(rows, q)], real[q])
               /\ eng'[q] = eng[q] /\ q # a
    BY <1>6, <2>2 DEF FInv, SyncRows
  <2>3. \A q \in Reqs : q # a => \A s, p : DraftsOf(q, s, p)' = DraftsOf(q, s, p)
    BY <1>1, <1>4 DEF DraftsOf, Proposed
  <2> QED BY <1>1, <1>2, <1>5, <1>12, <2>1, <2>2, <2>3 DEF SyncRows, NumTokens
<1> QED BY <1>10, <1>11, <1>13, <1>14, <1>15, <1>16, <1>18, <1>19, <1>20 DEF FInv

(* sample_tokens queues the sampling of what the device has read or will read. *)
LEMMA SampleFed ==
  ASSUME Pipeline, CInv, FInv, SampleTokens
  PROVE  FInv'
<1>1. /\ UNCHANGED <<mode, eng, life, req, rows, prev, buf, gpu, outputs, real, kv, fed>>
      /\ ~ mode.async /\ ems.phase = "executed" /\ queue' = Append(queue, SampleOp(ems.rows))
      /\ ems' = [ems EXCEPT !.phase = "sampling"]
  BY DEF SampleTokens
<1>2. SampleOp(ems.rows).op = "sample"
  BY DEF SampleOp
<1>3. (HasInput' <=> HasInput) /\ queue' # <<>> /\ (queue # <<>> => (Sampling' <=> Sampling))
  BY <1>1, <1>2, QueueGrows
<1>4. PICK S : queue \in Seq(S)
  BY DEF Pipeline, Shaped
<1>5. /\ DOMAIN queue' = 1..(Len(queue) + 1) /\ DOMAIN queue = 1..Len(queue) /\ Len(queue) \in Nat
      /\ queue'[Len(queue) + 1] = SampleOp(ems.rows)
      /\ \A i \in 1..Len(queue) : queue'[i] = queue[i]
  BY <1>1, <1>4, AppendShape
<1>6. queue = <<>> => Sampling'
  <2> SUFFICES ASSUME queue = <<>> PROVE Sampling'
    OBVIOUS
  <2>1. Len(queue) = 0
    BY <1>4, EmptySeq
  <2>2. queue'[1] = SampleOp(ems.rows)
    BY <1>5, <2>1
  <2>3. Head(queue') = queue'[1]
    BY <1>3
  <2> QED BY <1>2, <1>3, <2>2, <2>3 DEF Sampling
<1>7. \A q : ~ Unbooked(q) /\ ~ Unbooked(q)'
  BY <1>1, <1>3 DEF Unbooked
<1>8. \A q : KvThen(q)' = KvThen(q) /\ RealThen(q)' = RealThen(q) /\ End(q)' = End(q)
  BY <1>1, <1>3 DEF KvThen, RealThen, FedAt, End
<1>9. \A q : AllGot(q)' = AllGot(q) /\ Refused(q)' = Refused(q)
  BY <1>1, <1>7 DEF AllGot, Refused, Got, AllRejects, Rejects
<1>10. \A q, p : Tok(q, p)' = Tok(q, p) /\ Guess(q)' = Guess(q) /\ \A t : Proposed(t, q, p)' = Proposed(t, q, p)
  BY <1>1 DEF Tok, Guess, Proposed
<1>11. FedHolds'
  <2>1. fed = NoInput \/ Sampling'
    BY <1>1, <1>3, <1>6 DEF FInv, FedHolds
  <2> QED BY <1>1, <1>3, <1>10, <2>1 DEF FInv, FedHolds, RowFed
<1>12. BufHolds'
  <2>1. ASSUME NEW pv, BufFrom(pv)
        PROVE  BufFrom(pv)'
    <3>1. \E k \in DOMAIN queue' : queue'[k] = InputOp(rows, buf, pv)
      BY <1>5, <2>1 DEF BufFrom
    <3>2. Common(rows, pv) = {}
      BY <1>1, <2>1 DEF BufFrom, Common
    <3>3. \A i \in DOMAIN rows : InputRow(pv, i) => InputRow(pv, i)'
      BY <1>1, <1>8, <1>10, <3>2 DEF InputRow
    <3>4. InputOp(rows, buf, pv)' = InputOp(rows, buf, pv)
      BY <1>1
    <3> QED BY <1>1, <2>1, <3>1, <3>3, <3>4 DEF BufFrom, Prepares
  <2> QED BY <1>3, <2>1 DEF FInv, BufHolds
<1>13. \A q : Live(q)' = Live(q)
  BY <1>1 DEF Live
<1>14. Exist' /\ SyncBound' /\ Computed'
  BY <1>1, <1>7, <1>8, <1>9, <1>13 DEF FInv, Exist, SyncBound, Computed, NumTokens
<1>15. EngSpecs' /\ Own' /\ AsyncRows' /\ LastSamples' /\ LastIdx'
  BY <1>1, <1>10, <1>13 DEF FInv, EngSpecs, Own, Toks, AsyncRows, LastSamples, LastIdx
<1>16. SyncRows'
  BY <1>1, <1>7, <1>10, <1>13 DEF FInv, SyncRows, Toks, DraftsOf, NumTokens
<1> QED BY <1>11, <1>12, <1>14, <1>15, <1>16 DEF FInv

(* The row of a request after bookkeeping.                                    *)
LEMMA BookedRow ==
  ASSUME CInv, ems # NoStep, NEW ids, req' = Booked(ems.rows, ids), NEW q \in Reqs
  PROVE  req'[q] = IF IsSampled(q) THEN [req[q] EXCEPT !.out = @ \o ids[PlaceIn(rows, q)],
                                                      !.row = @ \o ids[PlaceIn(rows, q)]]
                   ELSE req[q]
<1>1. ems.rows = rows /\ InRows(rows)
  BY DEF CInv, Batch
<1>2. (\E i \in Sampled(rows) : rows[i] = q) <=> IsSampled(q)
  BY <1>1, PlaceOfRow DEF Sampled, IsSampled, Within
<1>3. RowOf(q) = PlaceIn(rows, q)
  BY DEF RowOf, PlaceIn
<1> QED BY <1>1, <1>2, <1>3 DEF Booked

(* A request's tokens, continued.                                             *)
LEMMA ToksConcat ==
  ASSUME NEW q, NEW f \in Int, NEW a \in Nat, NEW b \in Nat
  PROVE  Toks(q, f, a) \o Toks(q, f + a, b) = Toks(q, f, a + b)
<1>1. PICK s, t : s = Toks(q, f, a) /\ t = Toks(q, f + a, b)
  OBVIOUS
<1>2. Listed(s) /\ Len(s) = a /\ Listed(t) /\ Len(t) = b
  BY <1>1, ListedLiterals
<1>3. Listed(s \o t) /\ Len(s \o t) = a + b
  BY <1>2, ListedConcat
<1>4. (\A k \in 1..a : (s \o t)[k] = s[k]) /\ (\A k \in 1..b : (s \o t)[a + k] = t[k])
  BY <1>2, ConcatCells
<1>5. ASSUME NEW i \in 1..(a + b)
      PROVE  (s \o t)[i] = Tok(q, f + i - 1)
  <2>1. CASE i <= a
    BY <1>1, <1>4, <2>1 DEF Toks
  <2>2. CASE ~ (i <= a)
    <3>1. PICK k \in 1..b : i = a + k
      BY <2>2
    <3>2. t[k] = Tok(q, (f + a) + k - 1)
      BY <1>1 DEF Toks
    <3>3. (f + a) + k - 1 = f + i - 1
      BY <3>1
    <3> QED BY <1>4, <3>1, <3>2, <3>3
  <2> QED BY <2>1, <2>2
<1>6. s \o t = [i \in 1..(a + b) |-> Tok(q, f + i - 1)]
  BY <1>3, <1>5 DEF Listed
<1> QED BY <1>1, <1>6 DEF Toks

(* The call that has sampled books its tokens and returns its output.          *)
LEMMA FinishFed ==
  ASSUME Pipeline, CInv, PInv, FInv, FinishSync
  PROVE  FInv'
<1> DEFINE x == [Output(ems.rows, gpu.toks, TRUE) EXCEPT
                   !.drafts = IF Fits(buf) THEN gpu.drafts
                              ELSE [i \in DOMAIN ems.rows |-> <<>>]]
<1>1. /\ ems.phase = "sampling" /\ queue = <<>> /\ ems' = NoStep
      /\ req' = Booked(ems.rows, gpu.toks) /\ outputs' = Append(outputs, x)
      /\ UNCHANGED <<mode, eng, life, rows, prev, buf, queue, gpu, real, kv, fed>>
  BY DEF FinishSync
<1>2. ~ mode.async
  BY <1>1 DEF Pipeline, Async
<1>3. ems # NoStep /\ ems.rows = rows /\ InRows(rows) /\ outputs = <<>> /\ Len(outputs) = 0 /\ ~ Executing
  <2>1. ems # NoStep /\ ems.rows = rows /\ InRows(rows) /\ ~ Executing
    BY <1>1 DEF CInv, Batch, NoStep, Executing
  <2>2. outputs # <<>> => ems = NoStep
    BY <1>2 DEF CInv, SyncCounts
  <2> QED BY <2>1, <2>2
<1>4. /\ x.rows = rows /\ x.spec = buf.spec /\ x.ready = TRUE /\ x.toks = gpu.toks
      /\ x.invalid = {i \in DOMAIN rows : buf.discard[i]}
      /\ x.drafts = IF Fits(buf) THEN gpu.drafts ELSE [i \in DOMAIN rows |-> <<>>]
  BY <1>3 DEF Output, Sampled
<1> HIDE DEF x
<1>5. outputs' = <<x>> /\ Len(outputs') = 1 /\ outputs'[1] = x /\ DOMAIN outputs' = {1}
  BY <1>1, <1>3
<1>6. fed = NoInput /\ ~ HasInput /\ ~ Sampling
  <2>1. ~ Sampling /\ ~ HasInput
    BY <1>1 DEF Sampling, HasInput
  <2> QED BY <1>3, <2>1 DEF FInv, FedHolds
<1>7. \A q : Samples(x, q) <=> IsSampled(q)
  BY <1>3, <1>4, PlaceOfRow DEF Samples, IsSampled
<1>8. \A q : (Unbooked(q) <=> IsSampled(q)) /\ ~ Unbooked(q)'
  BY <1>1 DEF Unbooked, NoStep
<1>9. \A i \in DOMAIN rows : /\ Listed(gpu.toks[i]) /\ Len(gpu.toks[i]) >= 1 /\ Len(gpu.toks[i]) \in Nat
                             /\ buf.spec[i] \in Nat /\ rows[i] \in Reqs
  <2>1. \A i \in DOMAIN rows : Listed(gpu.toks[i]) /\ Len(gpu.toks[i]) >= 1
    BY <1>1, <1>2 DEF CInv, SyncCounts
  <2>2. \A i \in DOMAIN rows : buf.spec[i] \in Nat /\ rows[i] \in Reqs
    BY <1>3, BatchRows DEF CInv, ThisStep
  <2> QED BY <2>1, <2>2 DEF Listed
<1>10. ASSUME NEW q \in Reqs
       PROVE  AllGot(q)' = AllGot(q) /\ Refused(q)' = Refused(q)
  <2>1. CASE IsSampled(q)
    <3>1. PICK i \in DOMAIN rows : i = PlaceIn(rows, q)
      BY <1>3, <2>1, PlaceOfRow DEF IsSampled
    <3>2. PICK l \in Nat, s \in Nat : l = Len(gpu.toks[i]) /\ s = buf.spec[i]
      BY <1>9
    <3>3. AllGot(q) = 0 + 0 + l /\ Refused(q) = (0 + 0) + (s + 1 - l)
      BY <1>3, <1>8, <2>1, <3>1, <3>2 DEF AllGot, Refused, AllRejects
    <3>4. Got(x, q) = l /\ Rejects(x, q) = s + 1 - l
      BY <1>4, <1>7, <2>1, <3>1, <3>2 DEF Got, Rejects
    <3>6. AllGot(q)' = Got(outputs'[1], q) + 0 + 0 /\ Refused(q)' = (Rejects(outputs'[1], q) + 0) + 0
      BY <1>5, <1>8 DEF AllGot, Refused, AllRejects
    <3> QED BY <1>5, <3>3, <3>4, <3>6
  <2>2. CASE ~ IsSampled(q)
    <3>1. AllGot(q) = 0 + 0 + 0 /\ Refused(q) = (0 + 0) + 0
      BY <1>3, <1>8, <2>2 DEF AllGot, Refused, AllRejects
    <3>2. Got(x, q) = 0 /\ Rejects(x, q) = 0
      BY <1>7, <2>2 DEF Got, Rejects
    <3>3. AllGot(q)' = Got(outputs'[1], q) + 0 + 0 /\ Refused(q)' = (Rejects(outputs'[1], q) + 0) + 0
      BY <1>5, <1>8 DEF AllGot, Refused, AllRejects
    <3> QED BY <1>5, <3>1, <3>2, <3>3
  <2> QED BY <2>1, <2>2
<1>11. \A q : HasInput' = HasInput /\ Sampling' = Sampling /\ Live(q)' = Live(q) /\ KvThen(q)' = KvThen(q)
  BY <1>1 DEF HasInput, Sampling, Live, KvThen, FedAt
<1>12. \A q : End(q)' = End(q)
  BY <1>6, <1>11 DEF End
<1>13. FedHolds'
  <2>1. DOMAIN fed.rows = {} /\ Len(fed.rows) = 0
    BY <1>6 DEF NoInput
  <2> QED BY <1>1, <1>6, <1>11, <2>1 DEF FedHolds, InRows
<1>14. BufHolds' /\ AsyncRows' /\ LastSamples' /\ LastIdx' /\ EngSpecs' /\ Own'
  BY <1>1, <1>2, <1>6, <1>11 DEF BufHolds, AsyncRows, LastSamples, LastIdx, FInv, EngSpecs, Own, Toks, Tok
<1>15. Exist' /\ Computed'
  BY <1>1, <1>2, <1>10, <1>11, <1>12 DEF FInv, Exist, Computed, NumTokens
<1>16. SyncBound'
  <2>1. ASSUME NEW i \in DOMAIN rows, i \notin x.invalid
        PROVE  Len(gpu.toks[i]) <= buf.spec[i] + 1
    <3>1. PlaceIn(rows, rows[i]) = i /\ Within(rows[i], rows) /\ rows[i] \in Reqs /\ ~ buf.discard[i]
      BY <1>3, <1>4, <1>9, <2>1, PlaceOfRow
    <3>2. Unbooked(rows[i])
      BY <1>8, <3>1 DEF IsSampled
    <3> QED BY <1>2, <3>1, <3>2 DEF FInv, SyncBound
  <2> QED BY <1>4, <1>5, <1>8, <2>1 DEF SyncBound
<1>17. SyncRows'
  <2>1. ASSUME NEW q \in Reqs, Live(q), ~ IsSampled(q)
        PROVE  /\ req'[q].out = Toks(q, prompt[q], Len(req'[q].out))
               /\ Within(q, rows) => req'[q].row = Toks(q, 0, prompt[q] + Len(req'[q].out))
    <3>1. req'[q] = req[q]
      BY <1>1, <1>3, <2>1, BookedRow
    <3> QED BY <1>2, <2>1, <3>1 DEF FInv, SyncRows
  <2>2. ASSUME NEW q \in Reqs, Live(q), IsSampled(q)
        PROVE  /\ req'[q].out = Toks(q, prompt[q], Len(req'[q].out))
               /\ Within(q, rows) => req'[q].row = Toks(q, 0, prompt[q] + Len(req'[q].out))
    <3>1. PICK i \in DOMAIN rows : i = PlaceIn(rows, q) /\ rows[i] = q /\ ~ buf.discard[i]
      BY <1>3, <2>2, PlaceOfRow DEF IsSampled
    <3>2. NextToks(q, gpu.toks[i], 1)
      BY <1>1, <1>3, <2>2, <3>1 DEF PInv, StepFits
    <3>3. PICK a \in Nat, l \in Nat, p \in Nat \ {0} : a = Len(req[q].out) /\ l = Len(gpu.toks[i]) /\ p = prompt[q]
      BY <1>9, RunnerAssumption DEF CInv, ReqTyped, Listed
    <3>4. Len(eng[q].outs) = a
      <4>1. Len(req[q].out) = Len(eng[q].outs) + 0
        BY <1>2, <1>3, <2>2 DEF CInv, SyncCounts
      <4>2. Len(eng[q].outs) \in Nat
        BY DEF CInv, EngTyped, Listed
      <4> QED BY <3>3, <4>1, <4>2
    <3>5. gpu.toks[i] = Toks(q, p + a, l)
      <4>1. Due(q, 1) = p + a + 0
        BY <3>3, <3>4 DEF Due
      <4>2. Due(q, 1) = p + a
        BY <4>1
      <4> QED BY <3>2, <3>3, <4>2 DEF NextToks
    <3>6. req[q].out = Toks(q, p, a) /\ req[q].row = Toks(q, 0, p + a)
      BY <1>2, <2>2, <3>3 DEF FInv, SyncRows, IsSampled
    <3>7. req'[q] = [req[q] EXCEPT !.out = @ \o gpu.toks[i], !.row = @ \o gpu.toks[i]]
      BY <1>1, <1>3, <2>2, <3>1, BookedRow
    <3>8. req'[q].out = req[q].out \o gpu.toks[i] /\ req'[q].row = req[q].row \o gpu.toks[i]
      <4>1. DOMAIN req[q] = ReqFields
        BY DEF CInv, ReqTyped
      <4> QED BY <3>7, <4>1 DEF ReqFields
    <3>9. req'[q].out = Toks(q, p, a + l)
      <4>1. p \in Int
        OBVIOUS
      <4>2. Toks(q, p, a) \o Toks(q, p + a, l) = Toks(q, p, a + l)
        BY <4>1, ToksConcat
      <4> QED BY <3>5, <3>6, <3>8, <4>2
    <3>10. req'[q].row = Toks(q, 0, (p + a) + l)
      <4>1. p + a = 0 + (p + a) /\ p + a \in Nat /\ 0 \in Int
        OBVIOUS
      <4>2. PICK c \in Nat : c = p + a /\ c = 0 + c
        BY <4>1
      <4>3. Toks(q, 0, c) \o Toks(q, 0 + c, l) = Toks(q, 0, c + l)
        BY <4>1, ToksConcat
      <4> QED BY <3>5, <3>6, <3>8, <4>2, <4>3
    <3>11. Len(req'[q].out) = a + l
      BY <3>9, ListedLiterals
    <3>12. (p + a) + l = p + (a + l)
      OBVIOUS
    <3> QED BY <3>3, <3>9, <3>10, <3>11, <3>12
  <2>3. ASSUME NEW q \in Reqs, Live(q), Samples(x, q)
        PROVE  DraftsOf(q, x.drafts[PlaceIn(x.rows, q)], real[q])
    <3>1. PICK i \in DOMAIN rows : i = PlaceIn(rows, q)
      BY <1>3, <1>7, <2>3, PlaceOfRow DEF IsSampled
    <3>2. DraftsOf(q, gpu.drafts[i], real[q])
      BY <1>2, <1>7, <1>8, <2>3, <3>1 DEF FInv, SyncRows
    <3>3. DraftsOf(q, <<>>, real[q])
      BY DEF DraftsOf, CInv, Batch
    <3> QED BY <1>4, <3>1, <3>2, <3>3
  <2>4. \A q, f, k, s, p : Toks(q, f, k)' = Toks(q, f, k) /\ DraftsOf(q, s, p)' = DraftsOf(q, s, p)
    BY <1>1 DEF Toks, DraftsOf, Proposed, Tok, Guess
  <2>5. (~ prev.set) /\ \A q \in Reqs : Live(q) => DraftsOf(q, eng[q].specs, NumTokens(q))
    BY <1>2 DEF FInv, SyncRows
  <2>6. ASSUME NEW q \in Reqs, Live(q)'
        PROVE  (/\ req[q].out = Toks(q, prompt[q], Len(req[q].out))
                /\ Within(q, rows) => req[q].row = Toks(q, 0, prompt[q] + Len(req[q].out))
                /\ DraftsOf(q, eng[q].specs, NumTokens(q))
                /\ \A k \in DOMAIN outputs : Samples(outputs[k], q) =>
                     DraftsOf(q, outputs[k].drafts[PlaceIn(outputs[k].rows, q)], real[q])
                /\ Unbooked(q) => DraftsOf(q, gpu.drafts[PlaceIn(rows, q)], real[q]))'
    <3>1. Live(q)
      BY <1>11, <2>6
    <3>2. /\ req'[q].out = Toks(q, prompt[q], Len(req'[q].out))
          /\ Within(q, rows) => req'[q].row = Toks(q, 0, prompt[q] + Len(req'[q].out))
          /\ DraftsOf(q, eng[q].specs, NumTokens(q))
      BY <2>1, <2>2, <2>5, <3>1
    <3>3. Samples(x, q) => DraftsOf(q, x.drafts[PlaceIn(x.rows, q)], real[q])
      BY <2>3, <3>1
    <3>4. \A k \in DOMAIN outputs' : outputs'[k] = x
      BY <1>5
    <3> QED BY <1>1, <1>8, <2>4, <3>2, <3>3, <3>4 DEF NumTokens
  <2> QED BY <1>1, <2>5, <2>6 DEF SyncRows
<1> QED BY <1>13, <1>14, <1>15, <1>16, <1>17 DEF FInv

(* The device reads the buffers, and fills in the last step's results.         *)
LEMMA GpuInputFed ==
  ASSUME Pipeline, CInv, FInv, GpuInput
  PROVE  FInv'
<1>1. /\ queue # <<>> /\ Head(queue).op = "input" /\ queue' = Tail(queue)
      /\ fed'.rows = Head(queue).rows /\ fed'.start = buf.start /\ fed'.n = buf.n /\ fed'.spec = buf.spec
      /\ fed'.ids = InputIds(Head(queue)) /\ fed'.discard = buf.discard
      /\ fed'.common = Head(queue).common
      /\ UNCHANGED <<mode, eng, life, req, rows, prev, buf, ems, gpu, outputs, real, kv>>
  BY DEF GpuInput
<1>2. PICK T : queue \in Seq(T)
  BY DEF Pipeline, Shaped
<1>3. /\ queue' \in Seq(T) /\ Head(queue) = queue[1]
      /\ Len(queue) \in Nat \ {0} /\ Len(queue') = Len(queue) - 1
      /\ DOMAIN queue = 1..Len(queue) /\ DOMAIN queue' = 1..(Len(queue) - 1)
      /\ \A i \in 1..(Len(queue) - 1) : queue'[i] = queue[i + 1]
  BY <1>1, <1>2, TailShape
<1>4. HasInput /\ ~ Sampling
  <2>1. 1 \in DOMAIN queue /\ queue[1].op = "input"
    BY <1>1, <1>3
  <2> QED BY <1>1, <2>1 DEF HasInput, Sampling
<1>5. \/ Len(queue) = 1 /\ Executing
      \/ Len(queue) = 2 /\ queue[2].op = "sample" /\ ems.phase # "executed"
  <2>1. CASE mode.async
    <3>1. In \/ InSa
      BY <1>1, <1>3, <2>1 DEF Pipeline, Async, Empty, Sa, SaIn, SaInSa
    <3> QED BY <3>1 DEF In, InSa, Executing, NoStep
  <2>2. CASE ~ mode.async
    BY <1>1, <1>3, <2>2 DEF Pipeline, Sync, Executing
  <2> QED BY <2>1, <2>2 DEF Pipeline
<1>6. /\ ~ HasInput'
      /\ Len(queue) = 1 => queue' = <<>> /\ ~ Sampling'
      /\ Len(queue) = 2 => queue' # <<>> /\ Sampling'
  <2>1. CASE Len(queue) = 1
    <3>1. queue' = <<>> /\ DOMAIN queue' = {}
      BY <1>3, <2>1, EmptySeq
    <3> QED BY <2>1, <3>1 DEF HasInput, Sampling
  <2>2. CASE Len(queue) = 2
    <3>1. Len(queue') = 1 /\ queue'[1].op = "sample" /\ DOMAIN queue' = {1}
      BY <1>3, <1>5, <2>2
    <3>2. queue' # <<>>
      BY <3>1, ListedLiterals
    <3>3. Head(queue') = queue'[1]
      BY <1>3, <3>2
    <3> QED BY <2>2, <3>1, <3>2, <3>3 DEF HasInput, Sampling
  <2> QED BY <1>5, <2>1, <2>2
<1>7. fed = NoInput
  BY <1>1, <1>4 DEF FInv, FedHolds
<1>8. PICK pv : BufFrom(pv)
  BY <1>4 DEF FInv, BufHolds
<1>9. Head(queue) = InputOp(rows, buf, pv)
  <2>1. PICK k \in DOMAIN queue : queue[k] = InputOp(rows, buf, pv)
    BY <1>8 DEF BufFrom
  <2>2. queue[k].op = "input"
    BY <2>1, InputOpFields
  <2>3. k = 1
    BY <1>3, <1>5, <2>1, <2>2
  <2> QED BY <1>3, <2>1, <2>3
<1>10. /\ fed'.rows = rows /\ fed'.common = Common(rows, pv)
       /\ fed'.ids = InputIds(InputOp(rows, buf, pv))
  <2>1. InputOp(rows, buf, pv).rows = rows /\ InputOp(rows, buf, pv).common = Common(rows, pv)
    BY DEF InputOp
  <2> QED BY <1>1, <1>9, <2>1
<1>11. \A q : KvThen(q) = kv[q] /\ RealThen(q) = real[q]
  BY <1>7 DEF KvThen, RealThen, NoInput, Within
<1>12. InRows(rows) /\ \A i \in DOMAIN rows : rows[i] \in Reqs
  BY BatchRows
<1>13. \A i \in DOMAIN rows :
         /\ InputRow(pv, i) /\ buf.n[i] \in Nat /\ buf.spec[i] \in Nat /\ buf.spec[i] < buf.n[i]
         /\ i \in Common(rows, pv) => buf.n[i] - buf.spec[i] = 1
         /\ real[rows[i]] \in Nat /\ kv[rows[i]] \in Nat
  <2>1. \A i \in DOMAIN rows : InputRow(pv, i)
    BY <1>8 DEF BufFrom
  <2>2. \A i \in DOMAIN rows : buf.n[i] \in Nat /\ buf.spec[i] \in Nat /\ buf.spec[i] < buf.n[i]
    BY <1>8 DEF BufFrom, Prepares, Numbers
  <2>3. \A i \in DOMAIN rows : i \in Common(rows, pv) => buf.n[i] - buf.spec[i] = 1
    BY <1>8 DEF BufFrom, Prepares
  <2> QED BY <1>12, <2>1, <2>2, <2>3 DEF FInv, Exist
<1>14. ASSUME NEW i \in DOMAIN rows
       PROVE  RowFed(i)'
  <2>8. PICK q \in Reqs : q = rows[i]
    BY <1>12
  <2>9. PICK n \in Nat, sp \in Nat, r \in Nat : n = buf.n[i] /\ sp = buf.spec[i] /\ r = real[q]
    BY <1>13, <2>8
  <2>10. PICK p, st, off : p = pv.idx[q] /\ st = buf.start[i] /\ off = Sum(buf.n, i - 1)
    OBVIOUS
  <2>1. /\ q = rows[i] /\ p = pv.idx[q] /\ st = buf.start[i] /\ n = buf.n[i] /\ sp = buf.spec[i]
        /\ r = real[q] /\ off = Sum(buf.n, i - 1)
    BY <2>8, <2>9, <2>10
  <2>2. /\ sp < n /\ st \in Nat /\ st <= kv[q] /\ sp <= mode.spec
        /\ buf.discard[i] \in BOOLEAN
        /\ IF buf.discard[i] THEN st + (n - sp) < r ELSE st + (n - sp) = r
    BY <1>11, <1>13, <2>1 DEF InputRow
  <2>3. \A j \in 1..n : InputIds(InputOp(rows, buf, pv))[off + j]
              = IF i \notin Common(rows, pv) THEN buf.ids[off + j]
                ELSE IF j = 1 THEN gpu.next[p] ELSE gpu.drafts[p][j - 1]
    BY <1>8, <2>1, FedIds DEF BufFrom
  <2>4. \A j \in 1..(n - sp) : fed'.ids[off + j] = Tok(q, st + j - 1)
    <3> SUFFICES ASSUME NEW j \in 1..(n - sp) PROVE fed'.ids[off + j] = Tok(q, st + j - 1)
      OBVIOUS
    <3>1. j \in 1..n
      BY <2>2
    <3>2. CASE i \in Common(rows, pv)
      <4>1. n - sp = 1 /\ ~ buf.discard[i] /\ ResultOf(p, q)
        BY <1>13, <2>1, <3>2 DEF InputRow
      <4>2. j = 1 /\ st + j - 1 = r - 1
        BY <2>2, <4>1
      <4>3. gpu.next[p] = Tok(q, r - 1)
        BY <1>4, <2>1, <4>1 DEF ResultOf
      <4> QED BY <1>10, <2>3, <3>1, <3>2, <4>2, <4>3
    <3>3. CASE i \notin Common(rows, pv)
      <4>1. buf.ids[off + j] = Tok(q, st + j - 1)
        BY <1>13, <2>1, <3>3 DEF InputRow
      <4> QED BY <1>10, <2>3, <3>1, <3>3, <4>1
    <3> QED BY <3>2, <3>3
  <2>5. ASSUME NEW j \in (n - sp) + 1..n
        PROVE  \/ fed'.ids[off + j] \in {Tok(q, st + j - 1), Guess(q)}
               \/ mode.async /\ i \notin Common(rows, pv) /\ fed'.ids[off + j] = Hole
    <3>1. j \in 1..n
      BY <2>2
    <3>2. CASE i \in Common(rows, pv)
      <4>1. n - sp = 1 /\ ~ buf.discard[i] /\ ResultOf(p, q)
        BY <1>13, <2>1, <3>2 DEF InputRow
      <4>2. j # 1 /\ j - 1 \in 1..mode.spec /\ r + (j - 1) - 1 = st + j - 1
        <5>1. st + (n - sp) = r /\ st \in Nat /\ sp <= mode.spec /\ mode.spec \in Nat
          BY <2>2, <4>1 DEF CInv, Batch
        <5> QED BY <4>1, <5>1
      <4>3. Proposed(gpu.drafts[p][j - 1], q, r + (j - 1) - 1)
        BY <1>4, <2>1, <4>1, <4>2 DEF ResultOf
      <4> QED BY <1>10, <2>3, <3>1, <3>2, <4>2, <4>3 DEF Proposed
    <3>3. CASE i \notin Common(rows, pv)
      <4>1. Proposed(buf.ids[off + j], q, st + j - 1) \/ (mode.async /\ buf.ids[off + j] = Hole)
        BY <1>13, <2>1, <3>3 DEF InputRow
      <4> QED BY <1>10, <2>3, <3>1, <3>3, <4>1 DEF Proposed
    <3> QED BY <3>2, <3>3
  <2>6. \A x : Tok(q, x)' = Tok(q, x) /\ Guess(q)' = Guess(q)
    BY <1>1 DEF Tok, Guess
  <2>7. fed'.rows[i] = q /\ fed'.start[i] = st /\ fed'.n[i] = n /\ fed'.spec[i] = sp /\ fed'.discard[i] = buf.discard[i]
        /\ Sum(fed'.n, i - 1) = off /\ fed'.common = Common(rows, pv) /\ kv' = kv /\ real' = real /\ mode' = mode
    BY <1>1, <1>10, <2>1
  <2> QED BY <2>1, <2>2, <2>4, <2>5, <2>6, <2>7 DEF RowFed
<1>15. FedHolds'
  <2>1. fed' = NoInput' \/ Sampling' \/ (Executing' /\ queue' = <<>>)
    BY <1>1, <1>5, <1>6 DEF Executing
  <2>2. ASSUME NEW i \in DOMAIN rows
        PROVE  /\ fed'.start[i] \in Nat /\ fed'.n[i] \in Nat /\ fed'.spec[i] \in 0..mode.spec
               /\ fed'.spec[i] < fed'.n[i] /\ fed'.discard[i] \in BOOLEAN
               /\ fed'.discard[i] => fed'.spec[i] = 0
    <3>1. /\ buf.start[i] \in Nat /\ buf.spec[i] <= mode.spec /\ buf.discard[i] \in BOOLEAN
          /\ buf.discard[i] => buf.spec[i] = 0
      BY <1>13 DEF InputRow
    <3> QED BY <1>1, <1>13, <3>1 DEF CInv, Batch
  <2> QED BY <1>1, <1>6, <1>10, <1>12, <1>14, <2>1, <2>2 DEF FedHolds
<1>16. \A q : ~ Unbooked(q) /\ ~ Unbooked(q)'
  BY <1>1, <1>5, <1>6 DEF Unbooked, Executing
<1>17. \A q : End(q)' = End(q)
  <2>1. \A q : End(q) = IF Within(q, rows) THEN buf.start[PlaceIn(rows, q)] + buf.n[PlaceIn(rows, q)] ELSE kv[q]
    BY <1>4, <1>11 DEF End
  <2>2. \A q : End(q)' = IF Within(q, rows) THEN buf.start[PlaceIn(rows, q)] + buf.n[PlaceIn(rows, q)] ELSE kv[q]
    BY <1>1, <1>6, <1>10 DEF End, KvThen, FedAt
  <2> QED BY <2>1, <2>2
<1>18. \A q : AllGot(q)' = AllGot(q) /\ Refused(q)' = Refused(q) /\ Live(q)' = Live(q)
  BY <1>1, <1>16 DEF AllGot, Refused, Got, AllRejects, Rejects, Live
<1>19. Exist' /\ SyncBound' /\ Computed'
  BY <1>1, <1>16, <1>17, <1>18 DEF FInv, Exist, SyncBound, Computed, NumTokens
<1>20. BufHolds' /\ EngSpecs' /\ Own'
  BY <1>1, <1>6, <1>18 DEF BufHolds, FInv, EngSpecs, Own, Toks, Tok
<1>21. \A q, f, k, s, x : /\ Toks(q, f, k)' = Toks(q, f, k) /\ DraftsOf(q, s, x)' = DraftsOf(q, s, x)
                          /\ Recent(q)' = Recent(q)
  BY <1>1 DEF Toks, DraftsOf, Proposed, Tok, Guess, Recent
<1>22. AsyncRows' /\ LastIdx'
  BY <1>1, <1>12, <1>18, <1>21 DEF FInv, AsyncRows, LastIdx, WholeRow
<1>23. LastSamples'
  <2> SUFFICES ASSUME mode.async, NEW q \in Reqs, Live(q), Recent(q) PROVE ResultOf(prev.idx[q], q)'
    BY <1>1, <1>6, <1>18, <1>21 DEF LastSamples
  <2>1. PICK p : p = prev.idx[q]
    OBVIOUS
  <2>2. CASE ems = NoStep
    <3>1. p \in DOMAIN rows /\ rows[p] = q /\ ~ buf.discard[p]
      BY <1>4, <2>1, <2>2 DEF FInv, LastSamples
    <3>2. Sampling'
      BY <1>5, <1>6, <2>2 DEF Executing, NoStep
    <3>3. p \in Nat
      BY <1>12, <3>1 DEF InRows
    <3> QED BY <1>1, <1>10, <2>1, <3>1, <3>2, <3>3 DEF ResultOf
  <2>3. CASE ems # NoStep
    <3>1. ResultOf(p, q)
      BY <2>1, <2>3 DEF FInv, LastSamples
    <3>2. ~ Sampling'
      <4>1. Len(queue) # 2
        <5>1. In \/ InSa
          BY <1>1, <1>3 DEF Pipeline, Async, Empty, Sa, SaIn, SaInSa
        <5> QED BY <2>3, <5>1 DEF In, InSa
      <4> QED BY <1>5, <1>6, <4>1
    <3>3. \A x, t : Tok(q, x)' = Tok(q, x) /\ Proposed(t, q, x)' = Proposed(t, q, x)
      BY <1>1 DEF Tok, Proposed, Guess
    <3> QED BY <1>1, <1>4, <2>1, <3>1, <3>2, <3>3 DEF ResultOf
  <2> QED BY <2>2, <2>3
<1>24. SyncRows'
  BY <1>1, <1>16, <1>18, <1>21 DEF FInv, SyncRows, NumTokens
<1> QED BY <1>15, <1>19, <1>20, <1>22, <1>23, <1>24 DEF FInv

(* An output holds a number of tokens of a request.                           *)
LEMMA GotTyped ==
  ASSUME CInv, NEW j \in DOMAIN outputs, NEW q
  PROVE  Got(outputs[j], q) \in Nat
<1>1. CASE Samples(outputs[j], q) /\ outputs[j].ready
  <2>1. PICK i : i = PlaceIn(outputs[j].rows, q)
    OBVIOUS
  <2>2. i \in DOMAIN outputs[j].rows /\ i \notin outputs[j].invalid
    BY <1>1, <2>1, OutputRows, PlaceOfRow DEF Samples
  <2>3. Listed(outputs[j].toks[i])
    BY <1>1, <2>2 DEF CInv, OutTyped
  <2> QED BY <1>1, <2>1, <2>3 DEF Got, Listed
<1> QED BY <1>1 DEF Got

(* What the sampling of a row makes of its request.                            *)
LEMMA SampledRow ==
  ASSUME Pipeline, CInv, FedHolds, Exist, NEW D, NEW acc \in [D -> 0..mode.spec], GpuSample(acc),
         NEW i \in DOMAIN fed.rows, NEW q, q = fed.rows[i]
  PROVE  /\ q \in Reqs /\ D = DOMAIN fed.rows
         /\ acc[i] \in Nat /\ acc[i] <= fed.spec[i] /\ (fed.discard[i] => acc[i] = 0 /\ fed.spec[i] = 0)
         /\ kv'[q] = fed.start[i] + (fed.n[i] - fed.spec[i]) + acc[i]
         /\ real'[q] = IF fed.discard[i] THEN real[q] ELSE real[q] + (acc[i] + 1)
         /\ kv'[q] < real'[q] /\ kv'[q] \in Nat /\ real'[q] \in Nat /\ kv'[q] >= 1
         /\ ~ fed.discard[i] =>
              /\ gpu'.next[i] = Tok(q, real'[q] - 1)
              /\ \A j \in 1..mode.spec : Proposed(gpu'.drafts[i][j], q, real'[q] + j - 1)
              /\ Len(gpu'.toks[i]) = acc[i] + 1 /\ Len(gpu'.drafts[i]) = mode.spec
<1>1. /\ queue # <<>> /\ Head(queue).op = "sample" /\ DOMAIN acc = DOMAIN Head(queue).rows
      /\ \A x \in DOMAIN acc : acc[x] > 0 => /\ ~ fed.discard[x] /\ acc[x] <= fed.spec[x]
      /\ gpu'.toks = SampleRows(acc)
      /\ gpu'.next = [x \in DOMAIN Head(queue).rows |-> Last(SampleRows(acc)[x])]
      /\ gpu'.drafts = [x \in DOMAIN Head(queue).rows |->
                          Drafted(x, Base(x) + acc[x] + 1, Head(queue).fits)]
      /\ real' = [y \in Reqs |-> IF \E x \in DOMAIN Head(queue).rows : Head(queue).rows[x] = y /\ ~ fed.discard[x]
                    THEN LET x == CHOOSE x \in DOMAIN Head(queue).rows : Head(queue).rows[x] = y
                         IN  Base(x) + acc[x] + 1
                    ELSE real[y]]
      /\ kv' = [y \in Reqs |-> IF \E x \in DOMAIN Head(queue).rows : Head(queue).rows[x] = y
                    THEN LET x == CHOOSE x \in DOMAIN Head(queue).rows : Head(queue).rows[x] = y
                         IN  Base(x) + acc[x]
                    ELSE kv[y]]
  BY DEF GpuSample
<1>2. fed.rows = Head(queue).rows
  BY <1>1, PipelineBelongs DEF OutputsBelongToTheirSteps
<1>3. D = DOMAIN fed.rows /\ q \in Reqs /\ InRows(fed.rows)
  BY <1>1, <1>2 DEF FedHolds, InRows
<1>4. PICK r \in Nat, st \in Nat, n \in Nat, sp \in Nat :
         r = real[q] /\ st = fed.start[i] /\ n = fed.n[i] /\ sp = fed.spec[i] /\ sp < n
  <2>1. mode.spec \in Nat
    BY DEF CInv, Batch
  <2> QED BY <1>3, <2>1 DEF FedHolds, Exist
<1>5. PICK a \in Nat : a = acc[i]
  BY <1>3 DEF CInv, Batch
<1>6. a <= sp /\ fed.discard[i] \in BOOLEAN /\ (fed.discard[i] => a = 0 /\ sp = 0)
  <2>1. a > 0 => ~ fed.discard[i] /\ a <= sp
    BY <1>1, <1>3, <1>4, <1>5
  <2>2. fed.discard[i] \in BOOLEAN /\ (fed.discard[i] => sp = 0)
    BY <1>4 DEF FedHolds
  <2>3. a = 0 \/ a > 0
    OBVIOUS
  <2> QED BY <1>4, <2>1, <2>2, <2>3
<1>7. IF fed.discard[i] THEN st + (n - sp) < r ELSE st + (n - sp) = r
  BY <1>4 DEF FedHolds, RowFed
<1>8. PICK b \in Nat : b = Base(i) /\ b = st + (n - sp)
  BY <1>4 DEF Base
<1>9. (CHOOSE x \in DOMAIN fed.rows : fed.rows[x] = q) = i
  BY <1>3 DEF InRows
<1>10. kv'[q] = b + a
  BY <1>1, <1>2, <1>3, <1>5, <1>8, <1>9
<1>11. real'[q] = IF fed.discard[i] THEN r ELSE b + a + 1
  <2>1. (\E x \in DOMAIN fed.rows : fed.rows[x] = q /\ ~ fed.discard[x]) <=> ~ fed.discard[i]
    BY <1>3 DEF InRows
  <2>2. CASE fed.discard[i]
    BY <1>1, <1>2, <1>3, <1>4, <2>1, <2>2
  <2>3. CASE ~ fed.discard[i]
    <3>1. real'[q] = Base(i) + acc[i] + 1
      BY <1>1, <1>2, <1>3, <1>9, <2>1, <2>3
    <3> QED BY <1>5, <1>8, <2>3, <3>1
  <2> QED BY <2>2, <2>3
<1>12. ASSUME ~ fed.discard[i]
       PROVE  /\ gpu'.next[i] = Tok(q, real'[q] - 1)
              /\ \A j \in 1..mode.spec : Proposed(gpu'.drafts[i][j], q, real'[q] + j - 1)
              /\ Len(gpu'.toks[i]) = a + 1 /\ Len(gpu'.drafts[i]) = mode.spec
  <2>1. PICK l \in Nat : l = b + a + 1 /\ real'[q] = l /\ l - 1 = b + (a + 1) - 1
    BY <1>11, <1>12
  <2>2. SampleRows(acc)[i] = Toks(q, b, a + 1)
    BY <1>5, <1>8, <1>12 DEF SampleRows
  <2>3. Len(Toks(q, b, a + 1)) = a + 1 /\ a + 1 \in 1..(a + 1)
    BY ListedLiterals
  <2>4. Toks(q, b, a + 1)[a + 1] = Tok(q, b + (a + 1) - 1)
    BY <2>3 DEF Toks
  <2>5. gpu'.next[i] = Tok(q, l - 1)
    <3>1. gpu'.next[i] = Last(Toks(q, b, a + 1))
      BY <1>1, <1>2, <2>2
    <3>2. Last(Toks(q, b, a + 1)) = Toks(q, b, a + 1)[a + 1]
      BY <2>3 DEF Last
    <3> QED BY <2>1, <2>4, <3>1, <3>2
  <2>6. PICK fits : gpu'.drafts[i] = Drafted(i, l, fits)
    <3>1. gpu'.drafts[i] = Drafted(i, Base(i) + acc[i] + 1, Head(queue).fits)
      BY <1>1, <1>2
    <3>2. Base(i) + acc[i] + 1 = l
      BY <1>5, <1>8, <2>1
    <3> QED BY <3>1, <3>2
  <2>7. \A j \in 1..mode.spec : Drafted(i, l, fits)[j] \in {Tok(q, l + j - 1), Guess(q)}
    BY DEF Drafted, Toks
  <2>8. Len(Drafted(i, l, fits)) = mode.spec
    <3>1. mode.spec \in Nat
      BY DEF CInv, Batch
    <3>2. Len(Toks(fed.rows[i], l, mode.spec)) = mode.spec
      BY <3>1, ListedLiterals
    <3>3. Len([j \in 1..mode.spec |-> Guess(fed.rows[i])]) = mode.spec
      BY <3>1
    <3> QED BY <3>2, <3>3 DEF Drafted
  <2> QED BY <1>1, <2>1, <2>2, <2>3, <2>5, <2>6, <2>7, <2>8 DEF Proposed
<1>13. /\ kv'[q] < real'[q] /\ kv'[q] \in Nat /\ real'[q] \in Nat /\ kv'[q] >= 1
       /\ real'[q] = IF fed.discard[i] THEN r ELSE r + (a + 1)
       /\ kv'[q] = st + (n - sp) + a
  <2>1. CASE fed.discard[i]
    <3>1. st + (n - sp) < r /\ real'[q] = r /\ a = 0 /\ sp = 0
      BY <1>6, <1>7, <1>11, <2>1
    <3> QED BY <1>4, <1>8, <1>10, <2>1, <3>1
  <2>2. CASE ~ fed.discard[i]
    <3>1. st + (n - sp) = r /\ real'[q] = b + a + 1
      BY <1>7, <1>11, <2>2
    <3> QED BY <1>4, <1>8, <1>10, <2>2, <3>1
  <2> QED BY <2>1, <2>2
<1> QED BY <1>3, <1>4, <1>5, <1>6, <1>12, <1>13

(* Sampling changes nothing for a request that is not in what the device      *)
(* read.                                                                      *)
LEMMA UnsampledRow ==
  ASSUME Pipeline, NEW acc, GpuSample(acc), NEW q \in Reqs, ~ Within(q, fed.rows)
  PROVE  real'[q] = real[q] /\ kv'[q] = kv[q]
<1>1. /\ queue # <<>> /\ Head(queue).op = "sample"
      /\ real' = [y \in Reqs |-> IF \E x \in DOMAIN Head(queue).rows : Head(queue).rows[x] = y /\ ~ fed.discard[x]
                    THEN LET x == CHOOSE x \in DOMAIN Head(queue).rows : Head(queue).rows[x] = y
                         IN  Base(x) + acc[x] + 1
                    ELSE real[y]]
      /\ kv' = [y \in Reqs |-> IF \E x \in DOMAIN Head(queue).rows : Head(queue).rows[x] = y
                    THEN LET x == CHOOSE x \in DOMAIN Head(queue).rows : Head(queue).rows[x] = y
                         IN  Base(x) + acc[x]
                    ELSE kv[y]]
  BY DEF GpuSample
<1>2. fed.rows = Head(queue).rows
  BY <1>1, PipelineBelongs DEF OutputsBelongToTheirSteps
<1> QED BY <1>1, <1>2 DEF Within

(* What a sampling adds to a request, and what it refuses of its drafts.       *)
Taking(q) == Within(q, fed.rows) /\ ~ fed.discard[FedAt(q)]
More(acc, q) == IF Taking(q) THEN acc[FedAt(q)] + 1 ELSE 0
Less(acc, q) == IF Taking(q) THEN fed.spec[FedAt(q)] - acc[FedAt(q)] ELSE 0

(* What sampling adds: the accepted tokens and one more exist, the refused    *)
(* drafts are given back.                                                     *)
LEMMA SampleGrows ==
  ASSUME Pipeline, CInv, FInv, NEW D, NEW acc \in [D -> 0..mode.spec], GpuSample(acc), NEW q \in Reqs
  PROVE  /\ More(acc, q) \in Nat /\ Less(acc, q) \in Nat
         /\ real'[q] = real[q] + More(acc, q) /\ kv'[q] = KvThen(q) - Less(acc, q)
         /\ kv'[q] < real'[q] /\ kv'[q] \in Nat /\ real'[q] \in Nat /\ KvThen(q) \in Nat
         /\ kv[q] >= 1 \/ Within(q, fed.rows) => kv'[q] >= 1
         /\ HasInput => /\ Less(acc, q) = 0 /\ kv'[q] = KvThen(q) /\ real'[q] = RealThen(q)
<1>1. FedHolds /\ Exist
  BY DEF FInv
<1>2. CASE ~ Within(q, fed.rows)
  <2>1. real'[q] = real[q] /\ kv'[q] = kv[q]
    BY <1>2, UnsampledRow
  <2>2. real[q] \in Nat /\ kv[q] \in Nat /\ kv[q] < real[q]
    BY <1>1 DEF Exist
  <2>3. More(acc, q) = 0 /\ Less(acc, q) = 0 /\ KvThen(q) = kv[q] /\ RealThen(q) = real[q]
    BY <1>2 DEF More, Less, Taking, KvThen, RealThen
  <2> QED BY <1>2, <2>1, <2>2, <2>3
<1>3. CASE Within(q, fed.rows)
  <2>1. PICK i \in DOMAIN fed.rows : i = FedAt(q) /\ fed.rows[i] = q
    <3>1. InRows(fed.rows)
      BY <1>1 DEF FedHolds
    <3> QED BY <1>3, <3>1, PlaceOfRow DEF FedAt
  <2>2. PICK a \in Nat, sp \in Nat, st \in Nat, n \in Nat, r \in Nat :
          a = acc[i] /\ sp = fed.spec[i] /\ st = fed.start[i] /\ n = fed.n[i] /\ r = real[q]
    <3>1. acc[i] \in Nat
      BY <1>1, <2>1, SampledRow
    <3>2. mode.spec \in Nat
      BY DEF CInv, Batch
    <3>3. fed.spec[i] \in Nat /\ fed.start[i] \in Nat /\ fed.n[i] \in Nat
      BY <1>1, <3>2 DEF FedHolds
    <3>4. real[q] \in Nat
      BY <1>1 DEF Exist
    <3> QED BY <3>1, <3>3, <3>4
  <2>8. /\ acc[i] <= fed.spec[i] /\ (fed.discard[i] => acc[i] = 0 /\ fed.spec[i] = 0)
        /\ kv'[q] = fed.start[i] + (fed.n[i] - fed.spec[i]) + acc[i]
        /\ real'[q] = IF fed.discard[i] THEN real[q] ELSE real[q] + (acc[i] + 1)
        /\ kv'[q] < real'[q] /\ kv'[q] \in Nat /\ real'[q] \in Nat /\ kv'[q] >= 1
    BY <1>1, <2>1, SampledRow
  <2>3. /\ a <= sp /\ (fed.discard[i] => a = 0 /\ sp = 0)
        /\ kv'[q] = st + (n - sp) + a
        /\ real'[q] = IF fed.discard[i] THEN r ELSE r + (a + 1)
        /\ kv'[q] < real'[q] /\ kv'[q] \in Nat /\ real'[q] \in Nat /\ kv'[q] >= 1
    BY <2>2, <2>8
  <2>4. KvThen(q) = st + n /\ RealThen(q) = IF fed.discard[i] THEN r ELSE r + 1
    <3>1. fed.discard[i] \in BOOLEAN
      BY <1>1 DEF FedHolds
    <3>2. KvThen(q) = st + n
      BY <1>3, <2>1, <2>2 DEF KvThen
    <3>3. CASE fed.discard[i]
      <4>1. RealThen(q) = real[q]
        BY <2>1, <3>3 DEF RealThen
      <4> QED BY <2>2, <3>2, <3>3, <4>1
    <3>4. CASE ~ fed.discard[i]
      <4>1. RealThen(q) = real[q] + 1
        BY <1>3, <2>1, <3>4 DEF RealThen
      <4> QED BY <2>2, <3>2, <3>4, <4>1
    <3> QED BY <3>2, <3>3, <3>4
  <2>5. HasInput => a = 0 /\ sp = 0
    <3>1. DOMAIN NoInput.rows = {}
      BY DEF NoInput
    <3>2. fed # NoInput
      BY <2>1, <3>1
    <3>3. fed.spec[i] \in 0..mode.spec
      BY <1>1 DEF FedHolds
    <3>4. HasInput => mode.spec = 0
      BY <1>1, <3>2 DEF FedHolds
    <3> QED BY <2>2, <2>3, <3>3, <3>4
  <2>6. CASE fed.discard[i]
    <3>1. More(acc, q) = 0 /\ Less(acc, q) = 0 /\ RealThen(q) = r /\ real'[q] = r /\ a = 0 /\ sp = 0
      BY <1>3, <2>1, <2>3, <2>4, <2>6 DEF More, Less, Taking
    <3> QED BY <1>3, <2>2, <2>3, <2>4, <3>1
  <2>7. CASE ~ fed.discard[i]
    <3>1. More(acc, q) = a + 1 /\ Less(acc, q) = sp - a /\ RealThen(q) = r + 1 /\ real'[q] = r + (a + 1)
      <4>1. Taking(q)
        BY <1>3, <2>1, <2>7 DEF Taking
      <4>2. More(acc, q) = a + 1 /\ Less(acc, q) = sp - a
        BY <2>1, <2>2, <4>1 DEF More, Less
      <4> QED BY <2>3, <2>4, <2>7, <4>2
    <3>2. a <= sp /\ kv'[q] = st + (n - sp) + a /\ KvThen(q) = st + n
      BY <2>3, <2>4
    <3>3. kv'[q] = KvThen(q) - Less(acc, q) /\ Less(acc, q) \in Nat /\ More(acc, q) \in Nat /\ KvThen(q) \in Nat
      BY <2>2, <3>1, <3>2
    <3>4. HasInput => Less(acc, q) = 0 /\ kv'[q] = KvThen(q) /\ real'[q] = RealThen(q)
      BY <2>2, <2>5, <3>1, <3>2
    <3> QED BY <2>2, <2>3, <3>1, <3>3, <3>4
  <2> QED BY <2>6, <2>7
<1> QED BY <1>2, <1>3

(* The output that waits for the sampling gets what it adds; without            *)
(* asynchronous scheduling the call that is sampling has it.                   *)
LEMMA SampleFills ==
  ASSUME Pipeline, CInv, FInv, NEW D, NEW acc \in [D -> 0..mode.spec], GpuSample(acc), NEW q \in Reqs
  PROVE  /\ AllGot(q) \in Nat /\ AllGot(q)' = AllGot(q) + More(acc, q)
         /\ Refused(q) \in Int /\ Refused(q)' = Refused(q) + Less(acc, q)
<1>0. PICK toks : toks = SampleRows(acc)
  OBVIOUS
<1>1. /\ queue # <<>> /\ Head(queue).op = "sample" /\ DOMAIN acc = DOMAIN Head(queue).rows
      /\ gpu'.toks = toks /\ queue' = Tail(queue)
      /\ mode.async => outputs' = [outputs EXCEPT ![FirstPending].toks = toks,
                                                  ![FirstPending].ready = TRUE]
      /\ ~ mode.async => UNCHANGED outputs
      /\ UNCHANGED <<mode, eng, life, rows, buf, ems>>
  BY <1>0 DEF GpuSample
<1>2. /\ fed.rows = Head(queue).rows
      /\ mode.async => Promised(outputs[FirstPending])
      /\ ~ mode.async => ems.rows = fed.rows /\ buf.discard = fed.discard
  BY <1>1, PipelineBelongs DEF OutputsBelongToTheirSteps
<1>3. D = DOMAIN fed.rows /\ InRows(fed.rows) /\ FedHolds /\ Exist
  BY <1>1, <1>2 DEF FInv, FedHolds
<1>4. More(acc, q) \in Nat /\ Less(acc, q) \in Nat
  BY SampleGrows
<1>5. ASSUME Taking(q)
      PROVE  LET i == FedAt(q) IN
             /\ i \in DOMAIN fed.rows /\ More(acc, q) = Len(toks[i])
             /\ Less(acc, q) = fed.spec[i] + 1 - Len(toks[i])
             /\ Len(toks[i]) \in Nat /\ fed.spec[i] \in Nat
  <2>1. PICK i \in DOMAIN fed.rows : i = FedAt(q) /\ fed.rows[i] = q /\ ~ fed.discard[i]
    BY <1>3, <1>5, PlaceOfRow DEF FedAt, Taking
  <2>2. Len(gpu'.toks[i]) = acc[i] + 1 /\ acc[i] \in Nat
    BY <1>3, <2>1, SampledRow
  <2>3. PICK a \in Nat, s \in Nat : a = acc[i] /\ s = fed.spec[i]
    <3>1. mode.spec \in Nat
      BY DEF CInv, Batch
    <3> QED BY <1>3, <2>1, <2>2, <3>1 DEF FedHolds
  <2>4. Len(toks[i]) = a + 1
    BY <1>1, <2>2, <2>3
  <2>5. More(acc, q) = a + 1 /\ Less(acc, q) = s - a
    BY <1>5, <2>1, <2>3 DEF More, Less
  <2> QED BY <2>1, <2>3, <2>4, <2>5
<1>6. ASSUME ~ Taking(q)
      PROVE  More(acc, q) = 0 /\ Less(acc, q) = 0
  BY <1>6 DEF More, Less
<1>7. CASE mode.async
  <2>1. PICK k : k = FirstPending
    OBVIOUS
  <2>2. /\ DOMAIN outputs = 1..Len(outputs) /\ Len(outputs) \in 0..2
        /\ k \in DOMAIN outputs /\ outputs[k].ready = FALSE
    BY <1>1, <1>7, <2>1, WaitingOutput
  <2>3. /\ outputs[k].rows = fed.rows /\ outputs[k].invalid = {i \in D : fed.discard[i]}
        /\ outputs[k].spec = fed.spec
    BY <1>2, <1>3, <1>7, <2>1 DEF Promised
  <2>4. Filled(k, toks)
    BY <1>1, <1>7, <2>1, <2>2, FillsOutput
  <2>5. ~ Unbooked(q) /\ ~ Unbooked(q)'
    BY <1>1, <1>7 DEF Pipeline, Async, Unbooked
  <2>6. Samples(outputs[k], q) <=> Taking(q)
    BY <1>3, <2>3, PlaceOfRow DEF Samples, Taking, FedAt
  <2>7. Samples(outputs'[k], q) <=> Taking(q)
    <3>1. outputs'[k].rows = outputs[k].rows /\ outputs'[k].invalid = outputs[k].invalid
      BY <2>4 DEF Filled
    <3> QED BY <2>6, <3>1 DEF Samples
  <2>8. Got(outputs[k], q) = 0 /\ Rejects(outputs[k], q) = 0
    BY <2>2 DEF Got, Rejects
  <2>9. Got(outputs'[k], q) = More(acc, q) /\ Rejects(outputs'[k], q) = Less(acc, q)
    <3>1. /\ outputs'[k].rows = fed.rows /\ outputs'[k].spec = fed.spec
          /\ outputs'[k].toks = toks /\ outputs'[k].ready = TRUE
      BY <2>3, <2>4 DEF Filled
    <3>2. CASE Taking(q)
      BY <1>5, <2>7, <3>1, <3>2 DEF Got, Rejects, FedAt
    <3>3. CASE ~ Taking(q)
      BY <1>6, <2>7, <3>3 DEF Got, Rejects
    <3> QED BY <3>2, <3>3
  <2>10. /\ \A j \in DOMAIN outputs : /\ Got(outputs[j], q) \in Nat /\ Rejects(outputs[j], q) \in Int
                                      /\ j # k => outputs'[j] = outputs[j]
         /\ Len(outputs') = Len(outputs)
    BY <2>4, GotTyped, HeldTyped DEF Filled
  <2>11. CASE Len(outputs) = 1
    <3>1. k = 1 /\ 1 \in DOMAIN outputs
      BY <2>2, <2>11
    <3>2. AllGot(q) = Got(outputs[1], q) + 0 + 0 /\ Refused(q) = (Rejects(outputs[1], q) + 0) + 0
      BY <2>5, <2>11 DEF AllGot, Refused, AllRejects
    <3>3. AllGot(q)' = Got(outputs'[1], q) + 0 + 0 /\ Refused(q)' = (Rejects(outputs'[1], q) + 0) + 0
      BY <2>5, <2>10, <2>11 DEF AllGot, Refused, AllRejects
    <3> QED BY <1>4, <2>8, <2>9, <3>1, <3>2, <3>3
  <2>12. CASE Len(outputs) = 2
    <3>1. k \in {1, 2} /\ DOMAIN outputs = {1, 2}
      BY <2>2, <2>12
    <3>2. /\ AllGot(q) = Got(outputs[1], q) + Got(outputs[2], q) + 0
          /\ Refused(q) = (Rejects(outputs[1], q) + Rejects(outputs[2], q)) + 0
      BY <2>5, <2>12 DEF AllGot, Refused, AllRejects
    <3>3. /\ AllGot(q)' = Got(outputs'[1], q) + Got(outputs'[2], q) + 0
          /\ Refused(q)' = (Rejects(outputs'[1], q) + Rejects(outputs'[2], q)) + 0
      BY <2>5, <2>10, <2>12 DEF AllGot, Refused, AllRejects
    <3>4. PICK g1 \in Nat, g2 \in Nat, r1 \in Int, r2 \in Int :
            /\ g1 = Got(outputs[1], q) /\ g2 = Got(outputs[2], q)
            /\ r1 = Rejects(outputs[1], q) /\ r2 = Rejects(outputs[2], q)
      BY <2>10, <3>1
    <3>5. PICK m \in Nat, l \in Nat : m = More(acc, q) /\ l = Less(acc, q)
      BY <1>4
    <3>6. CASE k = 1
      <4>1. /\ Got(outputs'[1], q) = m /\ Got(outputs'[2], q) = g2 /\ g1 = 0
            /\ Rejects(outputs'[1], q) = l /\ Rejects(outputs'[2], q) = r2 /\ r1 = 0
        BY <2>8, <2>9, <2>10, <3>1, <3>4, <3>5, <3>6
      <4> QED BY <3>2, <3>3, <3>4, <3>5, <4>1
    <3>7. CASE k = 2
      <4>1. /\ Got(outputs'[2], q) = m /\ Got(outputs'[1], q) = g1 /\ g2 = 0
            /\ Rejects(outputs'[2], q) = l /\ Rejects(outputs'[1], q) = r1 /\ r2 = 0
        BY <2>8, <2>9, <2>10, <3>1, <3>4, <3>5, <3>7
      <4> QED BY <3>2, <3>3, <3>4, <3>5, <4>1
    <3> QED BY <3>1, <3>6, <3>7
  <2> QED BY <2>2, <2>11, <2>12
<1>8. CASE ~ mode.async
  <2>1. ems.phase = "sampling" /\ Len(queue) = 1 /\ ems # NoStep
    <3>1. PICK S : queue \in Seq(S)
      BY DEF Pipeline, Shaped
    <3>2. Len(queue) \in Nat \ {0} /\ Head(queue) = queue[1]
      BY <1>1, <3>1, TailShape
    <3>3. ems.phase = "sampling" /\ Len(queue) = 1
      BY <1>1, <1>8, <3>2 DEF Pipeline, Sync
    <3> QED BY <3>3 DEF NoStep
  <2>2. queue' = <<>>
    <3>1. PICK S : queue \in Seq(S)
      BY DEF Pipeline, Shaped
    <3>2. queue' \in Seq(S) /\ Len(queue') = 0
      BY <1>1, <2>1, <3>1, TailShape
    <3> QED BY <3>2, EmptySeq
  <2>3. outputs = <<>> /\ Len(outputs) = 0 /\ rows = fed.rows
    <3>1. outputs # <<>> => ems = NoStep
      BY <1>8 DEF CInv, SyncCounts
    <3>2. ems.rows = rows
      BY <2>1 DEF CInv, Batch
    <3> QED BY <1>2, <1>8, <2>1, <3>1, <3>2
  <2>4. ~ Unbooked(q) /\ (Unbooked(q)' <=> Taking(q))
    BY <1>1, <1>2, <1>8, <2>1, <2>2, <2>3 DEF Unbooked, IsSampled, Taking, FedAt
  <2>5. AllGot(q) = 0 + 0 + 0 /\ Refused(q) = (0 + 0) + 0
    BY <2>3, <2>4 DEF AllGot, Refused, AllRejects
  <2>6. CASE Taking(q)
    <3>5. PICK i : i = FedAt(q)
      OBVIOUS
    <3>6. PICK m \in Nat, s \in Nat : m = Len(toks[i]) /\ s = fed.spec[i]
      BY <1>5, <2>6, <3>5
    <3>1. i = FedAt(q) /\ m = Len(toks[i]) /\ s = fed.spec[i]
      BY <3>5, <3>6
    <3>2. buf.spec = fed.spec
      <4>1. fed # NoInput
        <5>1. DOMAIN NoInput.rows = {}
          BY DEF NoInput
        <5> QED BY <2>6, <5>1 DEF Taking, Within
      <4> QED BY <1>3, <1>8, <4>1 DEF FedHolds
    <3>3. AllGot(q)' = 0 + 0 + m /\ Refused(q)' = (0 + 0) + (s + 1 - m)
      BY <1>1, <1>8, <2>3, <2>4, <2>6, <3>1, <3>2 DEF AllGot, Refused, AllRejects, FedAt
    <3>4. More(acc, q) = m /\ Less(acc, q) = s + 1 - m
      BY <1>5, <2>6, <3>1
    <3> QED BY <2>5, <3>3, <3>4
  <2>7. CASE ~ Taking(q)
    <3>1. AllGot(q)' = 0 + 0 + 0 /\ Refused(q)' = (0 + 0) + 0
      BY <1>1, <1>8, <2>3, <2>4, <2>7 DEF AllGot, Refused, AllRejects
    <3> QED BY <1>6, <2>5, <2>7, <3>1
  <2> QED BY <2>6, <2>7
<1> QED BY <1>7, <1>8 DEF Pipeline

(* The device samples what it has read.                                        *)
LEMMA GpuSampleFed ==
  ASSUME Pipeline, CInv, FInv, NEW D, NEW acc \in [D -> 0..mode.spec], GpuSample(acc)
  PROVE  FInv'
<1>1. /\ queue # <<>> /\ Head(queue).op = "sample" /\ DOMAIN acc = DOMAIN Head(queue).rows
      /\ queue' = Tail(queue) /\ fed' = NoInput /\ DOMAIN real' = Reqs /\ DOMAIN kv' = Reqs
      /\ mode.async => outputs' = [outputs EXCEPT ![FirstPending].toks = SampleRows(acc),
                                                  ![FirstPending].ready = TRUE]
      /\ ~ mode.async => UNCHANGED outputs
      /\ UNCHANGED <<mode, eng, life, req, rows, prev, buf, ems>>
  BY DEF GpuSample
<1>2. /\ fed.rows = Head(queue).rows /\ Sampling
      /\ ~ mode.async => ems.rows = fed.rows /\ buf.discard = fed.discard
  BY <1>1, PipelineBelongs DEF OutputsBelongToTheirSteps, Sampling
<1>3. /\ FedHolds /\ Exist /\ D = DOMAIN fed.rows /\ mode.spec \in Nat
  BY <1>1, <1>2 DEF FInv, CInv, Batch
<1>4. PICK T : queue \in Seq(T)
  BY DEF Pipeline, Shaped
<1>5. /\ queue' \in Seq(T) /\ Head(queue) = queue[1]
      /\ Len(queue) \in Nat \ {0} /\ Len(queue') = Len(queue) - 1
      /\ DOMAIN queue = 1..Len(queue) /\ DOMAIN queue' = 1..(Len(queue) - 1)
      /\ \A i \in 1..(Len(queue) - 1) : queue'[i] = queue[i + 1]
  BY <1>1, <1>4, TailShape
<1>6. ASSUME NEW q \in Reqs
      PROVE  /\ More(acc, q) \in Nat /\ Less(acc, q) \in Nat
             /\ real'[q] = real[q] + More(acc, q) /\ kv'[q] = KvThen(q) - Less(acc, q)
             /\ kv'[q] < real'[q] /\ kv'[q] \in Nat /\ real'[q] \in Nat /\ KvThen(q) \in Nat
             /\ HasInput => /\ Less(acc, q) = 0 /\ kv'[q] = KvThen(q) /\ real'[q] = RealThen(q)
             /\ AllGot(q) \in Nat /\ AllGot(q)' = AllGot(q) + More(acc, q)
             /\ Refused(q) \in Int /\ Refused(q)' = Refused(q) + Less(acc, q)
  BY SampleGrows, SampleFills
<1>7. \A k \in DOMAIN queue : queue[k].op = "input" => k - 1 \in DOMAIN queue' /\ queue'[k - 1] = queue[k]
  <2> SUFFICES ASSUME NEW k \in DOMAIN queue, queue[k].op = "input"
               PROVE  k - 1 \in DOMAIN queue' /\ queue'[k - 1] = queue[k]
    OBVIOUS
  <2>1. k # 1
    BY <1>1, <1>5
  <2>2. k - 1 \in 1..(Len(queue) - 1) /\ (k - 1) + 1 = k
    BY <1>5, <2>1
  <2> QED BY <1>5, <2>2
<1>8. HasInput' <=> HasInput
  <2>1. HasInput => HasInput'
    BY <1>7 DEF HasInput
  <2>2. HasInput' => HasInput
    BY <1>5 DEF HasInput
  <2> QED BY <2>1, <2>2
<1>9. ~ Sampling'
  <2>1. CASE Len(queue) = 1
    <3>1. Len(queue') = 0
      BY <1>5, <2>1
    <3>2. queue' = <<>>
      BY <1>5, <3>1, EmptySeq
    <3> QED BY <3>2 DEF Sampling
  <2>2. CASE Len(queue) # 1
    <3>1. queue[2].op = "input"
      <4>1. CASE mode.async
        BY <1>1, <1>5, <2>2, <4>1 DEF Pipeline, Async, Empty, In, Sa, InSa, SaIn, SaInSa
      <4>2. CASE ~ mode.async
        BY <1>1, <1>5, <2>2, <4>2 DEF Pipeline, Sync
      <4> QED BY <4>1, <4>2 DEF Pipeline
    <3>2. queue'[1].op = "input"
      BY <1>5, <2>2, <3>1
    <3>3. queue' # <<>> => Head(queue') = queue'[1]
      BY <1>5, TailShape
    <3> QED BY <3>2, <3>3 DEF Sampling
  <2> QED BY <2>1, <2>2
<1>10. \A q : KvThen(q)' = kv'[q] /\ RealThen(q)' = real'[q]
  BY <1>1 DEF KvThen, RealThen, NoInput, Within
<1>11. \A q, x : Tok(q, x)' = Tok(q, x) /\ Guess(q)' = Guess(q) /\ \A t : Proposed(t, q, x)' = Proposed(t, q, x)
  BY <1>1 DEF Tok, Guess, Proposed
<1>12. ASSUME NEW q, NEW p, ResultOf(p, q)
       PROVE  ResultOf(p, q)'
  <2>1. p \in Nat /\ p \in DOMAIN fed.rows /\ fed.rows[p] = q /\ ~ fed.discard[p]
    BY <1>2, <1>12 DEF ResultOf
  <2>2. /\ gpu'.next[p] = Tok(q, real'[q] - 1)
        /\ \A j \in 1..mode.spec : Proposed(gpu'.drafts[p][j], q, real'[q] + j - 1)
    BY <1>3, <2>1, SampledRow
  <2> QED BY <1>1, <1>9, <1>11, <2>1, <2>2 DEF ResultOf
<1>13. FedHolds'
  <2>1. DOMAIN fed'.rows = {} /\ Len(fed'.rows) = 0
    BY <1>1 DEF NoInput
  <2>2. fed' = NoInput'
    BY <1>1 DEF NoInput
  <2> QED BY <2>1, <2>2 DEF FedHolds, InRows
<1>14. BufHolds'
  <2> SUFFICES ASSUME HasInput PROVE \E pv : BufFrom(pv)'
    BY <1>8 DEF BufHolds
  <2>1. PICK pv : BufFrom(pv)
    BY DEF FInv, BufHolds
  <2>2. PICK k \in DOMAIN queue : queue[k] = InputOp(rows, buf, pv)
    BY <2>1 DEF BufFrom
  <2>3. \E m \in DOMAIN queue' : queue'[m] = InputOp(rows, buf, pv)
    BY <1>7, <2>2, InputOpFields
  <2>4. ASSUME NEW i \in DOMAIN rows
        PROVE  InputRow(pv, i)'
    <3>1. PICK q \in Reqs : q = rows[i]
      BY BatchRows
    <3>2. KvThen(q)' = KvThen(q) /\ RealThen(q)' = RealThen(q)
      BY <1>6, <1>10
    <3>3. InputRow(pv, i)
      BY <2>1 DEF BufFrom
    <3>4. ResultOf(pv.idx[q], q) => ResultOf(pv.idx[q], q)'
      BY <1>12
    <3> QED BY <1>1, <1>11, <3>1, <3>2, <3>3, <3>4 DEF InputRow
  <2>5. InputOp(rows, buf, pv)' = InputOp(rows, buf, pv) /\ Prepares(rows, pv)' = Prepares(rows, pv)
    BY <1>1 DEF Prepares
  <2>6. BufFrom(pv)'
    BY <1>1, <2>1, <2>3, <2>4, <2>5 DEF BufFrom
  <2> QED BY <2>6
<1>15. \A q : Live(q)' = Live(q) /\ Recent(q)' = Recent(q) /\ NumTokens(q)' = NumTokens(q)
  BY <1>1 DEF Live, Recent, NumTokens
<1>16. Exist'
  <2>1. ASSUME NEW q \in Reqs, Live(q)
        PROVE  real'[q] = prompt[q] + Len(eng[q].outs) + AllGot(q)'
    <3>1. PICK p \in Nat, l \in Nat, g \in Nat, m \in Nat :
            p = prompt[q] /\ l = Len(eng[q].outs) /\ g = AllGot(q) /\ m = More(acc, q)
      BY <1>6, RunnerAssumption DEF CInv, EngTyped, Listed
    <3>2. real[q] = p + l + g
      BY <1>3, <2>1, <3>1 DEF Exist
    <3>3. real'[q] = (p + l + g) + m /\ AllGot(q)' = g + m
      BY <1>6, <3>1, <3>2
    <3>4. (p + l + g) + m = p + l + (g + m)
      OBVIOUS
    <3> QED BY <3>1, <3>3, <3>4
  <2>2. ASSUME NEW q \in Reqs, eng[q].st = "new"
        PROVE  real'[q] = prompt[q]
    <3>1. ~ Within(q, fed.rows)
      BY <1>3, <2>2, FedRows DEF CInv, Lives
    <3>2. real'[q] = real[q]
      BY <3>1, UnsampledRow
    <3> QED BY <1>3, <2>2, <3>2 DEF Exist
  <2>3. \A q \in Reqs : eng[q].st = "new" => eng[q] = Fresh
    BY <1>3 DEF Exist
  <2> QED BY <1>1, <1>6, <1>15, <2>1, <2>2, <2>3 DEF Exist
<1>17. ASSUME ~ mode.async
       PROVE  /\ outputs = <<>> /\ rows = fed.rows /\ ems.phase = "sampling" /\ buf.discard = fed.discard
              /\ \A i \in DOMAIN fed.rows : fed.spec = buf.spec
  <2>1. ems.phase = "sampling"
    BY <1>1, <1>5, <1>17 DEF Pipeline, Sync
  <2>2. ems # NoStep
    BY <2>1 DEF NoStep
  <2>3. outputs # <<>> => ems = NoStep
    BY <1>17 DEF CInv, SyncCounts
  <2>4. ems.rows = rows
    BY <2>2 DEF CInv, Batch
  <2>5. DOMAIN NoInput.rows = {}
    BY DEF NoInput
  <2> QED BY <1>2, <1>3, <1>17, <2>1, <2>2, <2>3, <2>4, <2>5 DEF FedHolds
<1>18. ASSUME ~ mode.async, NEW q \in Reqs, Unbooked(q)'
       PROVE  LET i == PlaceIn(rows, q) IN
              /\ i \in DOMAIN fed.rows /\ fed.rows[i] = q /\ ~ fed.discard[i]
              /\ Len(gpu'.toks[i]) <= buf.spec[i] + 1
              /\ DraftsOf(q, gpu'.drafts[i], real'[q])
  <2>1. PICK i \in DOMAIN fed.rows : i = PlaceIn(rows, q) /\ fed.rows[i] = q /\ ~ fed.discard[i]
    <3>1. IsSampled(q)
      BY <1>1, <1>18 DEF Unbooked, IsSampled
    <3>2. InRows(rows)
      BY BatchRows
    <3> QED BY <1>17, <1>18, <3>1, <3>2, PlaceOfRow DEF IsSampled
  <2>2. /\ Len(gpu'.toks[i]) = acc[i] + 1 /\ acc[i] \in Nat /\ acc[i] <= fed.spec[i]
        /\ Len(gpu'.drafts[i]) = mode.spec
        /\ \A j \in 1..mode.spec : Proposed(gpu'.drafts[i][j], q, real'[q] + j - 1)
    BY <1>3, <2>1, SampledRow
  <2>3. fed.spec[i] \in Nat /\ fed.spec = buf.spec
    BY <1>3, <1>17, <1>18 DEF FedHolds
  <2>4. Len(gpu'.toks[i]) <= buf.spec[i] + 1
    BY <2>2, <2>3
  <2>5. DraftsOf(q, gpu'.drafts[i], real'[q])
    BY <1>3, <2>2 DEF DraftsOf
  <2> QED BY <2>1, <2>4, <2>5
<1>19. SyncBound'
  <2>1. \A q \in Reqs : ~ mode.async /\ Unbooked(q)' =>
          Len(gpu'.toks[PlaceIn(rows, q)]) <= buf.spec[PlaceIn(rows, q)] + 1
    BY <1>18
  <2>2. ~ mode.async => DOMAIN outputs' = {}
    BY <1>1, <1>17
  <2> QED BY <1>1, <2>1, <2>2 DEF SyncBound
<1>20. Computed'
  <2> SUFFICES ASSUME NEW q \in Reqs, Live(q), eng[q].st # "preempted"
               PROVE  eng[q].computed - Refused(q)' = End(q)' /\ End(q)' >= 1
    BY <1>1, <1>15 DEF FInv, Computed
  <2>1. eng[q].computed - Refused(q) = End(q) /\ End(q) >= 1
    BY DEF FInv, Computed
  <2>2. CASE HasInput /\ Within(q, rows)
    <3>1. End(q)' = End(q)
      BY <1>1, <1>8, <2>2 DEF End
    <3>2. Refused(q)' = Refused(q)
      BY <1>6, <2>2
    <3> QED BY <2>1, <3>1, <3>2
  <2>3. CASE ~ (HasInput /\ Within(q, rows))
    <3>1. End(q) = KvThen(q) /\ End(q)' = KvThen(q)'
      BY <1>1, <1>8, <2>3 DEF End
    <3>2. PICK c \in Int, r \in Int, k \in Nat, l \in Nat :
            c = eng[q].computed /\ r = Refused(q) /\ k = KvThen(q) /\ l = Less(acc, q)
      BY <1>6 DEF CInv, EngTyped
    <3>3. c - r = k /\ k >= 1 /\ End(q)' = k - l /\ Refused(q)' = r + l
      BY <1>6, <1>10, <2>1, <3>1, <3>2
    <3>4. kv'[q] >= 1
      <4>1. CASE Within(q, fed.rows)
        BY <4>1, SampleGrows
      <4>2. CASE ~ Within(q, fed.rows)
        <5>1. kv'[q] = kv[q] /\ KvThen(q) = kv[q]
          BY <4>2, UnsampledRow DEF KvThen
        <5> QED BY <3>2, <3>3, <5>1
      <4> QED BY <4>1, <4>2
    <3> QED BY <1>6, <3>2, <3>3, <3>4
  <2> QED BY <2>2, <2>3
<1>21. EngSpecs' /\ Own' /\ AsyncRows'
  <2>1. \A q, f, k : Toks(q, f, k)' = Toks(q, f, k)
    BY <1>11 DEF Toks
  <2>2. \A q : WholeRow(q)' = WholeRow(q)
    BY <1>1, <2>1 DEF WholeRow
  <2> QED BY <1>1, <1>15, <2>1, <2>2 DEF FInv, EngSpecs, Own, AsyncRows
<1>22. LastSamples'
  <2> SUFFICES ASSUME mode.async, NEW q \in Reqs, Live(q), Recent(q)
               PROVE  LET p == prev.idx[q] IN
                        IF HasInput /\ ems = NoStep THEN p \in DOMAIN rows /\ rows[p] = q /\ ~ buf.discard[p]
                                                    ELSE ResultOf(p, q)'
    BY <1>1, <1>8, <1>15 DEF LastSamples
  <2>1. PICK p : p = prev.idx[q]
    OBVIOUS
  <2>2. IF HasInput /\ ems = NoStep THEN p \in DOMAIN rows /\ rows[p] = q /\ ~ buf.discard[p]
                                   ELSE ResultOf(p, q)
    BY <2>1 DEF FInv, LastSamples
  <2>3. ResultOf(p, q) => ResultOf(p, q)'
    BY <1>12
  <2>4. CASE HasInput /\ ems = NoStep
    BY <2>1, <2>2, <2>4
  <2>5. CASE ~ (HasInput /\ ems = NoStep)
    <3>1. ResultOf(p, q)'
      BY <2>2, <2>3, <2>5
    <3>2. p = p' /\ ResultOf(prev.idx[q], q)' <=> ResultOf(p, q)'
      BY <1>1, <2>1
    <3> QED BY <2>5, <3>1, <3>2
  <2> QED BY <2>4, <2>5
<1>23. LastIdx'
  <2> SUFFICES ASSUME mode.async, ems = NoStep, NEW i \in DOMAIN rows, Live(rows[i]), Recent(rows[i])
               PROVE  i \notin outputs'[Len(outputs')].invalid
    BY <1>1, <1>15 DEF LastIdx
  <2>1. i \notin outputs[Len(outputs)].invalid
    BY DEF FInv, LastIdx
  <2>2. FirstPending \in DOMAIN outputs /\ Filled(FirstPending, SampleRows(acc))
    BY <1>1, WaitingOutput, FillsOutput
  <2>3. Len(outputs) \in DOMAIN outputs
    BY <1>1, <2>2, WaitingOutput
  <2> QED BY <2>1, <2>2, <2>3 DEF Filled
<1>24. SyncRows'
  <2> SUFFICES ASSUME ~ mode.async, NEW q \in Reqs, Live(q)
               PROVE  Unbooked(q)' => DraftsOf(q, gpu'.drafts[PlaceIn(rows, q)], real'[q])
    <3>1. ~ mode.async => DOMAIN outputs' = {}
      BY <1>1, <1>17
    <3>2. \A r, s, x : DraftsOf(r, s, x)' = DraftsOf(r, s, x)
      BY <1>1, <1>11 DEF DraftsOf
    <3>3. \A r, f, k : Toks(r, f, k)' = Toks(r, f, k)
      BY <1>11 DEF Toks
    <3> QED BY <1>1, <1>15, <3>1, <3>2, <3>3 DEF FInv, SyncRows
  <2> QED BY <1>18
<1> QED BY <1>13, <1>14, <1>16, <1>19, <1>20, <1>21, <1>22, <1>23, <1>24 DEF FInv

(* sample_tokens with asynchronous scheduling: what was sampled last is the     *)
(* step the device has read or will read.                                      *)
LEMMA SampleAsyncFed ==
  ASSUME Pipeline, CInv, FInv, SampleTokensAsync
  PROVE  FInv'
<1>0. PICK x : x = Output(ems.rows, <<>>, FALSE)
  OBVIOUS
<1>1. /\ UNCHANGED <<mode, eng, life, rows, buf, gpu, real, kv, fed>>
      /\ mode.async /\ ems.phase = "executed" /\ queue' = Append(queue, SampleOp(ems.rows))
      /\ prev' = [set |-> TRUE, idx |-> Index(ems.rows)]
      /\ req' = Booked(ems.rows, [i \in DOMAIN ems.rows |-> <<Hole>>])
      /\ outputs' = Append(outputs, x) /\ ems' = NoStep
  BY <1>0 DEF SampleTokensAsync
<1>2. SampleOp(ems.rows).op = "sample"
  BY DEF SampleOp
<1>3. (HasInput' <=> HasInput) /\ queue' # <<>> /\ (queue # <<>> => (Sampling' <=> Sampling))
  BY <1>1, <1>2, QueueGrows
<1>4. PICK S : queue \in Seq(S)
  BY DEF Pipeline, Shaped
<1>5. /\ DOMAIN queue' = 1..(Len(queue) + 1) /\ DOMAIN queue = 1..Len(queue) /\ Len(queue) \in Nat
      /\ queue'[Len(queue) + 1] = SampleOp(ems.rows)
      /\ \A i \in 1..Len(queue) : queue'[i] = queue[i]
  BY <1>1, <1>4, AppendShape
<1>6. queue = <<>> => Sampling'
  <2> SUFFICES ASSUME queue = <<>> PROVE Sampling'
    OBVIOUS
  <2>1. Len(queue) = 0
    BY <1>4, EmptySeq
  <2>2. queue'[1] = SampleOp(ems.rows)
    BY <1>5, <2>1
  <2>3. Head(queue') = queue'[1]
    BY <1>3
  <2> QED BY <1>2, <1>3, <2>2, <2>3 DEF Sampling
<1>7. ems.rows = rows /\ ems # NoStep /\ InRows(rows)
  BY <1>1 DEF CInv, Batch, NoStep
<1>8. /\ x.rows = rows /\ x.ready = FALSE /\ x.invalid = {i \in DOMAIN rows : buf.discard[i]}
  BY <1>0, <1>7 DEF Output, Sampled
<1>9. /\ Len(outputs) \in {0, 1} /\ Len(outputs') = Len(outputs) + 1
      /\ outputs'[Len(outputs) + 1] = x /\ \A i \in 1..Len(outputs) : outputs'[i] = outputs[i]
  <2>1. Len(outputs) <= 1
    BY <1>1 DEF Pipeline, Async
  <2>2. /\ Len(outputs) \in Nat /\ Len(outputs') = Len(outputs) + 1
        /\ outputs'[Len(outputs) + 1] = x /\ \A i \in 1..Len(outputs) : outputs'[i] = outputs[i]
    BY <1>1, OutputAppended
  <2>3. Len(outputs) \in {0, 1}
    <3>1. PICK n \in Nat : n = Len(outputs) /\ n <= 1
      BY <2>1, <2>2
    <3>2. n = 0 \/ n = 1
      BY <3>1
    <3> QED BY <3>1, <3>2
  <2> QED BY <2>2, <2>3
<1>10. \A q : ~ Unbooked(q) /\ ~ Unbooked(q)'
  BY <1>1, <1>3 DEF Unbooked, NoStep
<1>11. \A q : AllGot(q)' = AllGot(q) /\ Refused(q)' = Refused(q)
  <2>1. \A q : Got(x, q) = 0 /\ Rejects(x, q) = 0
    BY <1>8 DEF Got, Rejects
  <2>2. CASE Len(outputs) = 0
    <3>1. outputs'[1] = x /\ Len(outputs') = 1
      BY <1>9, <2>2
    <3>2. \A q : AllGot(q) = 0 + 0 + 0 /\ Refused(q) = (0 + 0) + 0
      BY <1>10, <2>2 DEF AllGot, Refused, AllRejects
    <3>3. \A q : AllGot(q)' = 0 + 0 + 0 /\ Refused(q)' = (0 + 0) + 0
      BY <1>10, <2>1, <3>1 DEF AllGot, Refused, AllRejects
    <3> QED BY <3>2, <3>3
  <2>3. CASE Len(outputs) = 1
    <3>1. outputs'[1] = outputs[1] /\ outputs'[2] = x /\ Len(outputs') = 2
      BY <1>9, <2>3
    <3>2. \A q : AllGot(q) = Got(outputs[1], q) + 0 + 0 /\ Refused(q) = (Rejects(outputs[1], q) + 0) + 0
      BY <1>10, <2>3 DEF AllGot, Refused, AllRejects
    <3>3. \A q : AllGot(q)' = Got(outputs[1], q) + 0 + 0 /\ Refused(q)' = (Rejects(outputs[1], q) + 0) + 0
      BY <1>10, <2>1, <3>1 DEF AllGot, Refused, AllRejects
    <3> QED BY <3>2, <3>3
  <2> QED BY <1>9, <2>2, <2>3
<1>12. \A q : KvThen(q)' = KvThen(q) /\ RealThen(q)' = RealThen(q)
  BY <1>1 DEF KvThen, RealThen, FedAt
<1>13. \A q : End(q)' = End(q)
  BY <1>1, <1>3, <1>12 DEF End
<1>14. \A q, p : Tok(q, p)' = Tok(q, p) /\ Guess(q)' = Guess(q) /\ \A t : Proposed(t, q, p)' = Proposed(t, q, p)
  BY <1>1 DEF Tok, Guess, Proposed
<1>15. FedHolds'
  <2>1. fed = NoInput \/ Sampling'
    BY <1>1, <1>3, <1>6 DEF FInv, FedHolds
  <2>2. \A i : RowFed(i)' <=> RowFed(i)
    BY <1>1, <1>14 DEF RowFed
  <2> QED BY <1>1, <1>3, <2>1, <2>2 DEF FInv, FedHolds
<1>16. BufHolds'
  <2> SUFFICES ASSUME HasInput, NEW pv, BufFrom(pv) PROVE BufFrom(pv)'
    BY <1>3 DEF FInv, BufHolds
  <2>1. \E k \in DOMAIN queue' : queue'[k] = InputOp(rows, buf, pv)
    BY <1>5 DEF BufFrom
  <2>2. Sampling' <=> Sampling
    BY <1>3, <1>5 DEF HasInput
  <2>3. \A p, q : ResultOf(p, q) => ResultOf(p, q)'
    BY <1>1, <1>14, <2>2 DEF ResultOf
  <2>4. \A i \in DOMAIN rows : InputRow(pv, i) => InputRow(pv, i)'
    BY <1>1, <1>12, <1>14, <2>3 DEF InputRow
  <2>5. InputOp(rows, buf, pv)' = InputOp(rows, buf, pv) /\ Prepares(rows, pv)' = Prepares(rows, pv)
    BY <1>1 DEF Prepares
  <2> QED BY <1>1, <2>1, <2>4, <2>5 DEF BufFrom
<1>17. \A q : Live(q)' = Live(q)
  BY <1>1 DEF Live
<1>18. Exist' /\ SyncBound' /\ Computed'
  BY <1>1, <1>11, <1>13, <1>17 DEF FInv, Exist, SyncBound, Computed, NumTokens
<1>19. EngSpecs' /\ Own' /\ SyncRows'
  BY <1>1, <1>14, <1>17 DEF FInv, EngSpecs, Own, SyncRows, Toks
<1>20. \A q : Recent(q)' <=> \E i \in DOMAIN rows : rows[i] = q /\ ~ buf.discard[i]
  BY <1>1, <1>7 DEF Recent, Index, Sampled
<1>21. \A i \in DOMAIN rows : ~ buf.discard[i] => prev'.idx[rows[i]] = i
  <2> SUFFICES ASSUME NEW i \in DOMAIN rows, ~ buf.discard[i] PROVE prev'.idx[rows[i]] = i
    OBVIOUS
  <2>1. i \in Sampled(rows)
    BY DEF Sampled
  <2>2. prev'.idx[rows[i]] = PlaceIn(rows, rows[i])
    BY <1>1, <1>7, <2>1 DEF Index, PlaceIn
  <2> QED BY <1>7, <2>2, PlaceOfRow
<1>22. AsyncRows'
  <2> SUFFICES ASSUME NEW i \in DOMAIN rows, NEW q, q = rows[i], Live(q), ~ Recent(q)' PROVE WholeRow(q)'
    BY <1>1, <1>17 DEF AsyncRows
  <2>1. q \in Reqs /\ PlaceIn(rows, q) = i /\ buf.discard[i]
    BY <1>7, <1>20, PlaceOfRow DEF InRows
  <2>2. WholeRow(q)
    BY <1>1, <1>7, <2>1 DEF FInv, AsyncRows
  <2>3. req'[q] = req[q]
    BY <1>1, <1>7, <2>1, BookedRow DEF IsSampled
  <2>4. Toks(q, 0, prompt[q] + Len(eng[q].outs))' = Toks(q, 0, prompt[q] + Len(eng[q].outs))
    BY <1>1, <1>14 DEF Toks
  <2> QED BY <1>1, <2>2, <2>3, <2>4 DEF WholeRow
<1>23. LastSamples'
  <2> SUFFICES ASSUME NEW q \in Reqs, Recent(q)', NEW p, p = prev'.idx[q]
               PROVE  IF HasInput THEN p \in DOMAIN rows /\ rows[p] = q /\ ~ buf.discard[p] ELSE ResultOf(p, q)'
    BY <1>1, <1>3 DEF LastSamples
  <2>1. p \in DOMAIN rows /\ rows[p] = q /\ ~ buf.discard[p]
    BY <1>20, <1>21
  <2>2. ASSUME ~ HasInput PROVE ResultOf(p, q)'
    <3>1. Len(queue) = 0 /\ fed.rows = rows /\ fed.discard = buf.discard
      <4>1. Empty
        <5>1. /\ Len(queue) = 1 => queue[1].op # "input"
              /\ Len(queue) = 2 => queue[2].op # "input"
          BY <1>5, <2>2 DEF HasInput
        <5> QED BY <1>1, <5>1 DEF Pipeline, Async, In, Sa, InSa, SaIn, SaInSa, NoStep
      <4> QED BY <1>7, <4>1 DEF Empty
    <3>2. Sampling'
      BY <1>4, <1>6, <3>1, EmptySeq
    <3>3. p \in Nat
      BY <1>7, <2>1 DEF InRows
    <3> QED BY <1>1, <2>1, <3>1, <3>2, <3>3 DEF ResultOf
  <2> QED BY <2>1, <2>2
<1>24. LastIdx'
  <2> SUFFICES ASSUME NEW i \in DOMAIN rows, NEW q, q = rows[i], Recent(q)' PROVE i \notin x.invalid
    BY <1>1, <1>9 DEF LastIdx
  <2>1. ~ buf.discard[i]
    BY <1>7, <1>20 DEF InRows
  <2> QED BY <1>8, <2>1
<1> QED BY <1>15, <1>16, <1>18, <1>19, <1>22, <1>23, <1>24 DEF FInv

(* The engine takes an output: which it is, and whose requests it changes.      *)
LEMMA TakeStep ==
  ASSUME Pipeline, CInv, TakeOutput, NEW o, o = outputs[1]
  PROVE  /\ UNCHANGED <<mode, life, req, rows, prev, buf, ems, queue, gpu, real, kv, fed>>
         /\ outputs # <<>> /\ 1 \in DOMAIN outputs /\ o.ready /\ InRows(o.rows)
         /\ Len(outputs) \in {1, 2} /\ DOMAIN outputs = 1..Len(outputs)
         /\ DOMAIN outputs' = 1..Len(outputs')
         /\ Len(outputs') = (IF Len(outputs) = 2 THEN 1 ELSE 0)
         /\ Len(outputs) = 2 => outputs'[1] = outputs[2]
         /\ ~ mode.async => Len(outputs) = 1 /\ ems = NoStep
         /\ \A q : ~ Unbooked(q) /\ ~ Unbooked(q)'
         /\ mode.async /\ ems = NoStep /\ Len(outputs) = 1 =>
              \A q \in Reqs : ~ (Live(q) /\ Within(q, rows))
         /\ \A q \in Reqs : eng'[q] = IF Live(q) /\ Within(q, o.rows)
                                        THEN Took(q, o, PlaceIn(o.rows, q)) ELSE eng[q]
<1>1. PICK T : outputs \in Seq(T)
  BY DEF Pipeline, Shaped
<1>2. /\ outputs # <<>> /\ Head(outputs).ready /\ outputs' = Tail(outputs)
      /\ mode.async => Len(outputs) = 2 \/ Last(outputs).rows = <<>> \/ ~ HasRequests
      /\ UNCHANGED <<mode, life, req, rows, prev, buf, ems, queue, gpu, real, kv, fed>>
  BY DEF TakeOutput
<1>3. PICK n : n = Len(outputs)
  OBVIOUS
<1>4. /\ n \in Nat \ {0} /\ Len(outputs') = n - 1 /\ Head(outputs) = o
      /\ DOMAIN outputs = 1..n /\ DOMAIN outputs' = 1..(n - 1)
      /\ \A i \in 1..(n - 1) : outputs'[i] = outputs[i + 1]
  BY <1>1, <1>2, <1>3, TailShape
<1>5. n <= 2 /\ (ems # NoStep => Executing) /\ (~ mode.async => n = 1 /\ ems = NoStep)
  <2>1. CASE mode.async
    <3>1. Len(outputs) <= 2
      BY <2>1 DEF Pipeline, Async
    <3>2. ems = NoStep \/ Executing
      BY <2>1 DEF Pipeline, Async, Empty, In, Sa, InSa, SaIn, SaInSa, Executing
    <3> QED BY <1>3, <2>1, <3>1, <3>2
  <2>2. CASE ~ mode.async
    <3>1. Len(outputs) <= 1 /\ ems = NoStep
      BY <1>2, <2>2 DEF CInv, SyncCounts
    <3> QED BY <1>3, <1>4, <3>1
  <2> QED BY <2>1, <2>2 DEF Pipeline
<1>6. n \in {1, 2} /\ (n - 1 = IF n = 2 THEN 1 ELSE 0)
  BY <1>4, <1>5
<1>7. 1 \in DOMAIN outputs /\ InRows(o.rows) /\ (n = 2 => outputs'[1] = outputs[2])
  <2>1. 1 \in DOMAIN outputs /\ (n = 2 => outputs'[1] = outputs[2])
    BY <1>4
  <2> QED BY <2>1 DEF CInv, OutTyped
<1>8. \A q : ~ Unbooked(q) /\ ~ Unbooked(q)'
  <2>1. ems.phase # "sampling"
    BY <1>5 DEF NoStep, Executing
  <2> QED BY <1>2, <2>1 DEF Unbooked
<1>9. ASSUME mode.async, ems = NoStep, n = 1, NEW q \in Reqs, Live(q), Within(q, rows)
      PROVE  FALSE
  <2>1. HasRequests
    BY <1>9 DEF HasRequests, Live
  <2>2. Last(outputs) = outputs[n] /\ outputs[n].rows = rows
    BY <1>2, <1>3, <1>9 DEF CInv, LastStep, Last
  <2>3. rows = <<>>
    BY <1>2, <1>3, <1>9, <2>1, <2>2
  <2> QED BY <1>9, <2>3 DEF Within
<1>10. ASSUME NEW q \in Reqs
       PROVE  eng'[q] = IF Live(q) /\ Within(q, o.rows) THEN Took(q, o, PlaceIn(o.rows, q)) ELSE eng[q]
  <2>1. eng'[q] = IF eng[q].st # "done" /\ Contains(o.rows, q) THEN Took(q, o, PlaceIn(o.rows, q)) ELSE eng[q]
    BY <1>4 DEF TakeOutput, PlaceIn
  <2>2. eng[q].st # "done" /\ Contains(o.rows, q) <=> Live(q) /\ Within(q, o.rows)
    <3>1. eng[q].st = "new" => ~ Within(q, o.rows)
      BY <1>7 DEF CInv, Lives
    <3>2. Contains(o.rows, q) <=> Within(q, o.rows)
      BY <1>7, PlaceOfRow
    <3>3. eng[q].st \in {"new", "running", "preempted", "done"}
      BY DEF CInv, EngTyped
    <3> QED BY <3>1, <3>2, <3>3 DEF Live
  <2> QED BY <2>1, <2>2
<1> QED BY <1>2, <1>3, <1>4, <1>5, <1>6, <1>7, <1>8, <1>9, <1>10

(* A request that goes on after its output was taken: its counts.              *)
LEMMA TookFields ==
  ASSUME NEW q \in Reqs, NEW o, NEW p, DOMAIN eng[q] = EngFields,
         NEW t, t = Took(q, o, p), t.st # "done"
  PROVE  /\ t.st = eng[q].st
         /\ t.computed = IF eng[q].computed > 0 THEN eng[q].computed - Rejected(o, p) ELSE eng[q].computed
         /\ t.specs = IF mode.async \/ Valid(o, p) = <<>> THEN eng[q].specs ELSE o.drafts[p]
<1> DEFINE g == Valid(o, p)
           room == mode.most[q] - Len(eng[q].outs)
           add == SubSeq(g, 1, IF Len(g) < room THEN Len(g) ELSE room)
<1>1. t = IF Len(eng[q].outs) + Len(add) = mode.most[q]
            THEN [Fresh EXCEPT !.st = "done", !.outs = eng[q].outs \o add]
            ELSE [eng[q] EXCEPT !.outs = @ \o add,
                    !.computed = IF @ > 0 THEN @ - Rejected(o, p) ELSE @,
                    !.hold = (IF @ > 0 THEN @ - Rejected(o, p) - Len(add) ELSE @),
                    !.specs = IF mode.async \/ g = <<>> THEN @ ELSE o.drafts[p]]
  BY DEF Took, Rejected
<1> HIDE DEF g, room, add
<1>2. Len(eng[q].outs) + Len(add) # mode.most[q]
  <2>1. [Fresh EXCEPT !.st = "done", !.outs = eng[q].outs \o add].st = "done"
    BY DEF Fresh
  <2> QED BY <1>1, <2>1
<1>3. t = [eng[q] EXCEPT !.outs = eng[q].outs \o add,
             !.computed = IF eng[q].computed > 0 THEN eng[q].computed - Rejected(o, p) ELSE eng[q].computed,
             !.hold = (IF eng[q].hold > 0 THEN eng[q].hold - Rejected(o, p) - Len(add) ELSE eng[q].hold),
             !.specs = IF mode.async \/ g = <<>> THEN eng[q].specs ELSE o.drafts[p]]
  BY <1>1, <1>2 DEF EngFields
<1> QED BY <1>3 DEF EngFields, g

(* No output refuses fewer than no drafts.                                     *)
LEMMA RefusedSome ==
  ASSUME CInv, SyncBound, NEW j \in DOMAIN outputs, outputs[j].ready, NEW q \in Reqs,
         NEW o, o = outputs[j], NEW p, p = PlaceIn(o.rows, q), Samples(o, q)
  PROVE  /\ o.spec[p] \in Nat /\ Len(o.toks[p]) \in Nat /\ Len(o.toks[p]) >= 1
         /\ Len(o.toks[p]) <= o.spec[p] + 1
         /\ Rejects(o, q) = o.spec[p] + 1 - Len(o.toks[p]) /\ Got(o, q) = Len(o.toks[p])
         /\ Valid(o, p) = o.toks[p] /\ Valid(o, p) # <<>>
<1>1. p \in DOMAIN o.rows /\ p \notin o.invalid
  BY PlaceOfRow DEF CInv, OutTyped, Samples
<1>2. /\ o.spec[p] \in Nat /\ Listed(o.toks[p]) /\ Len(o.toks[p]) >= 1
      /\ mode.async => Len(o.toks[p]) <= o.spec[p] + 1
  BY <1>1 DEF CInv, OutTyped
<1>3. ~ mode.async => Len(o.toks[p]) <= o.spec[p] + 1
  BY <1>1 DEF SyncBound
<1>4. o.toks[p] # <<>>
  <2>1. Len(o.toks[p]) \in Nat
    BY <1>2 DEF Listed
  <2>2. Len(o.toks[p]) # 0
    BY <1>2, <2>1
  <2> QED BY <2>2, ListedLiterals
<1> QED BY <1>1, <1>2, <1>3, <1>4 DEF Rejects, Got, Valid, Listed

(* An output refuses a number of drafts.                                      *)
LEMMA RefusedTyped ==
  ASSUME CInv, SyncBound, NEW j \in DOMAIN outputs, NEW q \in Reqs
  PROVE  Rejects(outputs[j], q) \in Nat /\ Got(outputs[j], q) \in Nat
<1>1. PICK o, p : o = outputs[j] /\ p = PlaceIn(o.rows, q)
  OBVIOUS
<1>2. CASE Samples(o, q) /\ o.ready
  <2>1. PICK s \in Nat, l \in Nat : /\ l <= s + 1 /\ Rejects(o, q) = s + 1 - l /\ Got(o, q) = l
    BY <1>1, <1>2, RefusedSome
  <2> QED BY <1>1, <2>1
<1>3. CASE ~ (Samples(o, q) /\ o.ready)
  BY <1>1, <1>3 DEF Rejects, Got
<1> QED BY <1>2, <1>3

(* What the taken output says of a request that goes on.                       *)
LEMMA TakenLive ==
  ASSUME Pipeline, CInv, PInv, FInv, TakeOutput, NEW o, o = outputs[1], NEW q \in Reqs, Live(q)',
         NEW g, g = Got(o, q), NEW r, r = Rejects(o, q)
  PROVE  /\ Live(q) /\ eng'[q].st = eng[q].st /\ g \in Nat /\ r \in Nat
         /\ Len(eng'[q].outs) = Len(eng[q].outs) + g
         /\ eng'[q].computed = IF eng[q].computed > 0 THEN eng[q].computed - r ELSE eng[q].computed
         /\ eng'[q].specs = IF mode.async \/ ~ Samples(o, q) THEN eng[q].specs
                                ELSE o.drafts[PlaceIn(o.rows, q)]
         /\ ~ Samples(o, q) => g = 0
         /\ eng[q].hold = 0 => eng'[q].hold = 0
         /\ mode.async => /\ eng'[q].hold = eng[q].hold - Held(o, q) /\ g = Held(o, q) - r
                          /\ Held(o, q) \in Nat /\ eng[q].hold >= Held(o, q)
<1>1. /\ outputs # <<>> /\ 1 \in DOMAIN outputs /\ o.ready /\ InRows(o.rows) /\ mode' = mode
      /\ eng'[q] = IF Live(q) /\ Within(q, o.rows) THEN Took(q, o, PlaceIn(o.rows, q)) ELSE eng[q]
      /\ Len(outputs) \in {1, 2}
  BY TakeStep
<1>2. SyncBound /\ DOMAIN eng[q] = EngFields /\ Listed(eng[q].outs)
      /\ eng[q].computed \in Int /\ eng[q].hold \in Int
  BY DEF FInv, CInv, EngTyped
<1>3. g \in Nat /\ r \in Nat /\ Held(o, q) \in Nat
  BY <1>1, <1>2, RefusedTyped, HeldTyped
<1>4. ~ Samples(o, q) => g = 0 /\ r = 0 /\ Held(o, q) = 0
  BY DEF Got, Rejects, Held
<1>5. Live(q) => (mode.async => eng[q].hold >= Held(o, q))
  <2> SUFFICES ASSUME Live(q), mode.async PROVE eng[q].hold >= Held(o, q)
    OBVIOUS
  <2>1. eng[q].hold = HeldOut(q) + InStep(q)
    BY DEF CInv, AsyncCounts
  <2>2. PICK x : x = IF Len(outputs) = 2 THEN Held(outputs[2], q) ELSE 0
    OBVIOUS
  <2>3. x \in Nat
    <3>1. Len(outputs) = 2 => 2 \in DOMAIN outputs
      BY TakeStep
    <3> QED BY <2>2, <3>1, HeldTyped
  <2>4. InStep(q) \in Nat
    <3>1. Len(req[q].draft) \in Nat
      BY DEF CInv, ReqTyped, Listed
    <3> QED BY <3>1 DEF InStep
  <2>5. HeldOut(q) = Held(o, q) + x
    BY <1>1, <2>2 DEF HeldOut
  <2>6. PICK h \in Nat, i \in Nat : h = Held(o, q) /\ i = InStep(q)
    BY <1>3, <2>4
  <2> QED BY <2>1, <2>3, <2>5, <2>6
<1>6. CASE Live(q) /\ Within(q, o.rows)
  <2>1. PICK p : p = PlaceIn(o.rows, q)
    OBVIOUS
  <2>2. PICK t : t = Took(q, o, p)
    OBVIOUS
  <2>3. eng'[q] = t /\ t.st # "done"
    BY <1>1, <1>6, <2>1, <2>2 DEF Live
  <2>4. /\ t.st = eng[q].st
        /\ t.computed = IF eng[q].computed > 0 THEN eng[q].computed - Rejected(o, p) ELSE eng[q].computed
        /\ t.specs = IF mode.async \/ Valid(o, p) = <<>> THEN eng[q].specs ELSE o.drafts[p]
    BY <1>2, <2>2, <2>3, TookFields
  <2>5. Valid(o, p) = <<>> <=> ~ Samples(o, q)
    <3>1. Samples(o, q) => Valid(o, p) # <<>>
      BY <1>1, <1>2, <2>1, RefusedSome
    <3>2. ~ Samples(o, q) => Valid(o, p) = <<>>
      BY <1>6, <2>1 DEF Samples, Valid
    <3> QED BY <3>1, <3>2
  <2>6. Rejected(o, p) = r
    <3>1. CASE Samples(o, q)
      <4>1. PICK s \in Nat, l \in Nat : /\ s = o.spec[p] /\ l = Len(o.toks[p]) /\ l >= 1 /\ l <= s + 1
                                       /\ r = s + 1 - l /\ Valid(o, p) = o.toks[p]
        BY <1>1, <1>2, <2>1, <3>1, RefusedSome
      <4>2. Rejected(o, p) = IF s > 0 THEN s + 1 - l ELSE 0
        BY <2>5, <3>1, <4>1 DEF Rejected
      <4>3. ~ (s > 0) => s + 1 - l = 0
        BY <4>1
      <4> QED BY <4>1, <4>2, <4>3
    <3>2. CASE ~ Samples(o, q)
      BY <1>4, <2>5, <3>2 DEF Rejected
    <3> QED BY <3>1, <3>2
  <2>7. g = IF Samples(o, q) THEN Len(o.toks[p]) ELSE 0
    BY <1>1, <2>1 DEF Got
  <2>8. /\ Len(t.outs) = Len(eng[q].outs) + g
        /\ eng[q].hold = 0 => t.hold = 0
        /\ mode.async /\ eng[q].hold >= Held(o, q) => t.hold = eng[q].hold - Held(o, q)
        /\ g = Held(o, q) - r
    <3> DEFINE u == Took(q, o, PlaceIn(o.rows, q))
               k == IF Samples(o, q) THEN Len(o.toks[PlaceIn(o.rows, q)]) ELSE 0
    <3>1. u.st # "done" => /\ Len(u.outs) = Len(eng[q].outs) + k
                           /\ eng[q].hold = 0 => u.hold = 0
                           /\ mode.async /\ eng[q].hold >= Held(o, q) => u.hold = eng[q].hold - Held(o, q)
                           /\ k = Held(o, q) - Rejects(o, q)
      <4>1. CInv /\ outputs # <<>> /\ o = outputs[1] /\ 1 \in DOMAIN outputs /\ o.ready
            /\ Live(q) /\ Within(q, o.rows)
        BY <1>1, <1>6
      <4> QED BY <4>1, TakerShape, Zenon
    <3>2. u = t /\ k = g
      BY <2>1, <2>2, <2>7
    <3> HIDE DEF u, k
    <3> QED BY <2>3, <3>1, <3>2
  <2> QED BY <1>3, <1>4, <1>5, <1>6, <2>1, <2>3, <2>4, <2>5, <2>6, <2>8
<1>7. CASE ~ (Live(q) /\ Within(q, o.rows))
  <2>1. eng'[q] = eng[q] /\ Live(q)
    BY <1>1, <1>7 DEF Live
  <2>2. ~ Samples(o, q)
    BY <1>7, <2>1 DEF Samples
  <2>3. g = 0 /\ r = 0 /\ Held(o, q) = 0
    BY <1>4, <2>2
  <2>4. PICK c \in Int, h \in Int, a \in Nat : c = eng[q].computed /\ h = eng[q].hold /\ a = Len(eng[q].outs)
    BY <1>2 DEF Listed
  <2>5. a + 0 = a /\ c - 0 = c /\ h - 0 = h /\ 0 = 0 - 0
    OBVIOUS
  <2> QED BY <1>3, <1>5, <2>1, <2>2, <2>3, <2>4, <2>5
<1> QED BY <1>6, <1>7

(* What the engine takes it no longer finds in the outputs.                     *)
LEMMA TakenShifts ==
  ASSUME Pipeline, CInv, FInv, TakeOutput, NEW o, o = outputs[1], NEW q \in Reqs
  PROVE  /\ AllGot(q)' \in Nat /\ Refused(q)' \in Nat
         /\ AllGot(q) = Got(o, q) + AllGot(q)' /\ Refused(q) = Rejects(o, q) + Refused(q)'
<1>1. /\ 1 \in DOMAIN outputs /\ Len(outputs) \in {1, 2} /\ DOMAIN outputs = 1..Len(outputs)
      /\ Len(outputs') = (IF Len(outputs) = 2 THEN 1 ELSE 0)
      /\ Len(outputs) = 2 => outputs'[1] = outputs[2]
      /\ ~ Unbooked(q) /\ ~ Unbooked(q)'
  BY TakeStep
<1>2. PICK a, b : /\ a = (IF Len(outputs) = 2 THEN Got(outputs[2], q) ELSE 0)
                  /\ b = (IF Len(outputs) = 2 THEN Rejects(outputs[2], q) ELSE 0)
  OBVIOUS
<1>3. PICK g \in Nat, r \in Nat : g = Got(o, q) /\ r = Rejects(o, q)
  BY <1>1, RefusedTyped DEF FInv
<1>4. a \in Nat /\ b \in Nat
  <2>1. Len(outputs) = 2 => 2 \in DOMAIN outputs
    BY <1>1
  <2> QED BY <1>2, <2>1, RefusedTyped DEF FInv
<1>5. AllGot(q) = g + a + 0 /\ Refused(q) = (r + b) + 0
  BY <1>1, <1>2, <1>3 DEF AllGot, Refused, AllRejects
<1>6. AllGot(q)' = a + 0 + 0 /\ Refused(q)' = (b + 0) + 0
  <2>1. CASE Len(outputs) = 2
    <3>1. Len(outputs') = 1 /\ outputs'[1] = outputs[2]
      BY <1>1, <2>1
    <3> QED BY <1>1, <1>2, <2>1, <3>1 DEF AllGot, Refused, AllRejects
  <2>2. CASE Len(outputs) = 1
    <3>1. Len(outputs') = 0
      BY <1>1, <2>2
    <3> QED BY <1>1, <1>2, <2>2, <3>1 DEF AllGot, Refused, AllRejects
  <2> QED BY <1>1, <2>1, <2>2
<1>7. AllGot(q)' = a /\ Refused(q)' = b /\ AllGot(q) = g + a /\ Refused(q) = r + b
  BY <1>4, <1>5, <1>6
<1> QED BY <1>3, <1>4, <1>7

(* The engine takes an output: what it counts moves from there to the request. *)
LEMMA TakeFed ==
  ASSUME Pipeline, CInv, PInv, Steady, FInv, TakeOutput
  PROVE  FInv'
<1>1. PICK o : o = outputs[1]
  OBVIOUS
<1>2. /\ UNCHANGED <<mode, life, req, rows, prev, buf, ems, queue, gpu, real, kv, fed>>
      /\ 1 \in DOMAIN outputs /\ o.ready /\ DOMAIN outputs = 1..Len(outputs)
      /\ Len(outputs) \in {1, 2} /\ DOMAIN outputs' = 1..Len(outputs')
      /\ Len(outputs') = (IF Len(outputs) = 2 THEN 1 ELSE 0)
      /\ Len(outputs) = 2 => outputs'[1] = outputs[2]
      /\ ~ mode.async => Len(outputs) = 1 /\ ems = NoStep
      /\ \A q : ~ Unbooked(q) /\ ~ Unbooked(q)'
      /\ mode.async /\ ems = NoStep /\ Len(outputs) = 1 =>
           \A q \in Reqs : ~ (Live(q) /\ Within(q, rows))
  BY <1>1, TakeStep
<1>3. ~ mode.async => Len(outputs) = 1 /\ Len(outputs') = 0 /\ DOMAIN outputs' = {} /\ mode' = mode
  BY <1>2
<1>4. ASSUME NEW q \in Reqs
      PROVE  eng[q].st # "done" /\ ~ Live(q) => eng'[q] = eng[q] /\ eng[q].st = "new"
  <2>1. eng[q].st \in {"new", "running", "preempted", "done"}
    BY DEF CInv, EngTyped
  <2> QED BY <1>1, <2>1, TakeStep DEF Live
<1>5. ASSUME NEW q \in Reqs, eng'[q].st = "new"
      PROVE  eng'[q] = eng[q]
  <2>1. CASE Live(q) /\ Within(q, o.rows)
    <3>1. eng'[q] = Took(q, o, PlaceIn(o.rows, q))
      BY <1>1, <2>1, TakeStep
    <3>2. DOMAIN eng[q] = EngFields
      BY DEF CInv, EngTyped
    <3>3. eng'[q].st # "done" => eng'[q].st = eng[q].st
      BY <3>1, <3>2, TookFields
    <3> QED BY <1>5, <2>1, <3>3 DEF Live
  <2>2. CASE ~ (Live(q) /\ Within(q, o.rows))
    BY <1>1, <2>2, TakeStep
  <2> QED BY <2>1, <2>2
<1>6. \A q, p : Tok(q, p)' = Tok(q, p) /\ Guess(q)' = Guess(q) /\ \A t : Proposed(t, q, p)' = Proposed(t, q, p)
  BY <1>2 DEF Tok, Guess, Proposed
<1>7. \A q, f, k, s, p : Toks(q, f, k)' = Toks(q, f, k) /\ DraftsOf(q, s, p)' = DraftsOf(q, s, p)
  BY <1>2, <1>6 DEF Toks, DraftsOf
<1>8. HasInput' = HasInput /\ Sampling' = Sampling /\ Executing' = Executing
  BY <1>2 DEF HasInput, Sampling, Executing
<1>9. \A q : /\ KvThen(q)' = KvThen(q) /\ RealThen(q)' = RealThen(q) /\ End(q)' = End(q)
             /\ Recent(q)' = Recent(q)
             /\ \A p : ResultOf(p, q)' = ResultOf(p, q)
  BY <1>2, <1>6, <1>8 DEF KvThen, RealThen, FedAt, End, Recent, ResultOf
<1>10. FedHolds'
  <2>1. \A i : RowFed(i)' <=> RowFed(i)
    BY <1>2, <1>6 DEF RowFed
  <2> QED BY <1>2, <1>8, <2>1 DEF FInv, FedHolds
<1>11. BufHolds'
  <2>1. \A pv, i : InputRow(pv, i)' <=> InputRow(pv, i)
    BY <1>2, <1>6, <1>9 DEF InputRow
  <2>2. \A pv : BufFrom(pv)' <=> BufFrom(pv)
    BY <1>2, <2>1 DEF BufFrom, Prepares
  <2> QED BY <1>8, <2>2 DEF FInv, BufHolds
<1>12. Own'
  <2>1. ASSUME NEW q \in Reqs
        PROVE  eng'[q].outs = Toks(q, prompt[q], Len(eng'[q].outs))
    <3>1. PICK k \in 0..MostAtOnce : eng'[q].outs = eng[q].outs \o Toks(q, prompt[q] + Len(eng[q].outs), k)
      BY TookOuts
    <3>2. PICK a \in Nat, p \in Nat : a = Len(eng[q].outs) /\ p = prompt[q]
      BY RunnerAssumption DEF CInv, EngTyped, Listed
    <3>3. k \in Nat
      BY RunnerAssumption
    <3>4. p \in Int
      BY <3>2
    <3>5. Toks(q, p, a) \o Toks(q, p + a, k) = Toks(q, p, a + k)
      BY <3>2, <3>3, <3>4, ToksConcat
    <3>6. eng[q].outs = Toks(q, p, a)
      BY <3>2 DEF FInv, Own
    <3>7. eng'[q].outs = Toks(q, p, a + k)
      BY <3>1, <3>2, <3>5, <3>6
    <3>8. a + k \in Nat
      BY <3>2, <3>3
    <3>9. Len(eng'[q].outs) = a + k
      BY <3>7, <3>8, ListedLiterals
    <3> QED BY <3>2, <3>7, <3>9
  <2> QED BY <1>7, <2>1 DEF Own
<1>13. Exist'
  <2>1. ASSUME NEW q \in Reqs, Live(q)'
        PROVE  real[q] = prompt[q] + Len(eng'[q].outs) + AllGot(q)'
    <3>1. PICK g \in Nat : g = Got(o, q) /\ Live(q) /\ Len(eng'[q].outs) = Len(eng[q].outs) + g
      BY <1>1, <2>1, TakenLive
    <3>2. PICK x \in Nat : x = AllGot(q)' /\ AllGot(q) = g + x
      BY <1>1, <3>1, TakenShifts
    <3>3. PICK a \in Nat, p \in Nat : a = Len(eng[q].outs) /\ p = prompt[q]
      BY RunnerAssumption DEF CInv, EngTyped, Listed
    <3>4. real[q] = p + a + (g + x)
      BY <3>1, <3>2, <3>3 DEF FInv, Exist
    <3>5. p + a + (g + x) = p + (a + g) + x
      OBVIOUS
    <3> QED BY <3>1, <3>2, <3>3, <3>4, <3>5
  <2> QED BY <1>2, <1>5, <2>1 DEF FInv, Exist
<1>14. SyncBound'
  BY <1>2, <1>3 DEF SyncBound
<1>15. Computed'
  <2>1. ASSUME NEW q \in Reqs, Live(q)'
        PROVE  IF eng'[q].st = "preempted" THEN eng'[q].computed = 0 /\ eng'[q].specs = <<>>
               ELSE /\ eng'[q].computed - Refused(q)' = End(q) /\ End(q) >= 1
                    /\ mode.async /\ eng'[q].hold > 0 =>
                         eng'[q].computed = (NumTokens(q)' + eng'[q].hold) - 1
    <3>1. PICK g \in Nat, r \in Nat : g = Got(o, q) /\ r = Rejects(o, q)
      BY <1>1, <2>1, TakenLive
    <3>2. PICK c \in Int, h \in Int, a \in Nat, p \in Nat :
            c = eng[q].computed /\ h = eng[q].hold /\ a = Len(eng[q].outs) /\ p = prompt[q]
      BY RunnerAssumption DEF CInv, EngTyped, Listed
    <3>3. /\ Live(q) /\ eng'[q].st = eng[q].st /\ Len(eng'[q].outs) = a + g
          /\ eng'[q].computed = IF c > 0 THEN c - r ELSE c
          /\ mode.async \/ ~ Samples(o, q) => eng'[q].specs = eng[q].specs
      BY <1>1, <2>1, <3>1, <3>2, TakenLive
    <3>4. PICK x \in Nat : x = Refused(q)' /\ Refused(q) = r + x
      BY <1>1, <3>1, TakenShifts
    <3>5. CASE eng[q].st = "preempted"
      <4>1. c = 0 /\ eng[q].specs = <<>>
        BY <3>2, <3>3, <3>5 DEF FInv, Computed
      <4>2. eng'[q].computed = 0
        BY <3>3, <4>1
      <4>3. mode.async \/ ~ Samples(o, q)
        <5> SUFFICES ASSUME ~ mode.async, Samples(o, q) PROVE FALSE
          OBVIOUS
        <5>1. Within(q, o.rows) /\ o.rows = rows
          BY <1>1, <1>2 DEF Samples, CInv, LastStep
        <5>2. q \in told \/ eng[q].st = "running"
          BY <5>1 DEF CInv, Lives
        <5> QED BY <3>3, <3>5, <5>2 DEF CInv, Lives
      <4> QED BY <3>3, <3>5, <4>1, <4>2, <4>3
    <3>6. CASE eng[q].st # "preempted"
      <4>1. c - (r + x) = End(q) /\ End(q) >= 1
        BY <3>2, <3>3, <3>4, <3>6 DEF FInv, Computed
      <4>2. PICK d \in Int : d = End(q)
        BY <3>2, <4>1
      <4>3. c > 0 /\ c - r - x = d
        BY <4>1, <4>2
      <4>4. eng'[q].computed = c - r
        BY <3>3, <4>3
      <4>5. ASSUME mode.async, eng'[q].hold > 0
            PROVE  eng'[q].computed = (NumTokens(q)' + eng'[q].hold) - 1
        <5>1. PICK k \in Nat : /\ k = Held(o, q) /\ eng'[q].hold = h - k /\ g = k - r
                               /\ (h = 0 => eng'[q].hold = 0)
          BY <1>1, <2>1, <3>1, <3>2, <4>5, TakenLive
        <5>2. h > 0
          BY <4>5, <5>1
        <5>3. c = ((p + a) + h) - 1
          BY <3>2, <3>3, <3>6, <4>5, <5>2 DEF FInv, Computed, NumTokens
        <5>4. NumTokens(q)' = p + (a + g)
          BY <3>2, <3>3 DEF NumTokens
        <5>5. c - r = ((p + (a + g)) + (h - k)) - 1
          BY <5>1, <5>3
        <5> QED BY <4>4, <5>1, <5>4, <5>5
      <4>6. c - r - x = (c - r) - x
        OBVIOUS
      <4> QED BY <3>3, <3>4, <3>6, <4>1, <4>2, <4>3, <4>4, <4>5, <4>6
    <3> QED BY <3>5, <3>6
  <2> QED BY <1>2, <1>9, <2>1 DEF Computed
<1>16. EngSpecs' /\ SyncRows'
  <2>1. ASSUME NEW q \in Reqs, Live(q)', ~ mode.async
        PROVE  Live(q) /\ DraftsOf(q, eng'[q].specs, NumTokens(q)')
    <3>1. PICK g \in Nat : g = Got(o, q)
      BY <1>1, <2>1, TakenLive
    <3>2. /\ Live(q) /\ Len(eng'[q].outs) = Len(eng[q].outs) + g
          /\ eng'[q].specs = (IF Samples(o, q) THEN o.drafts[PlaceIn(o.rows, q)] ELSE eng[q].specs)
          /\ ~ Samples(o, q) => g = 0
      BY <1>1, <2>1, <3>1, TakenLive
    <3>3. PICK a \in Nat, p \in Nat : a = Len(eng[q].outs) /\ p = prompt[q]
      BY RunnerAssumption DEF CInv, EngTyped, Listed
    <3>4. NumTokens(q) = p + a /\ NumTokens(q)' = p + (a + g)
      BY <3>2, <3>3 DEF NumTokens
    <3>5. CASE Samples(o, q)
      <4>1. DraftsOf(q, o.drafts[PlaceIn(o.rows, q)], real[q])
        BY <1>1, <1>2, <2>1, <3>2, <3>5 DEF FInv, SyncRows
      <4>2. AllGot(q) = g + 0 + 0
        BY <1>1, <1>2, <1>3, <2>1, <3>1 DEF AllGot
      <4>3. real[q] = p + a + (g + 0 + 0)
        BY <3>2, <3>3, <4>2 DEF FInv, Exist
      <4>4. p + a + (g + 0 + 0) = p + (a + g)
        OBVIOUS
      <4> QED BY <3>2, <3>4, <3>5, <4>1, <4>3, <4>4
    <3>6. CASE ~ Samples(o, q)
      <4>1. p + (a + 0) = p + a
        OBVIOUS
      <4>2. DraftsOf(q, eng[q].specs, NumTokens(q))
        BY <2>1, <3>2 DEF FInv, SyncRows
      <4> QED BY <3>2, <3>4, <3>6, <4>1, <4>2
    <3> QED BY <3>5, <3>6
  <2>2. SyncRows'
    <3>1. \A q \in Reqs : ~ mode.async /\ Live(q) =>
            /\ req[q].out = Toks(q, prompt[q], Len(req[q].out))
            /\ Within(q, rows) => req[q].row = Toks(q, 0, prompt[q] + Len(req[q].out))
      BY DEF FInv, SyncRows
    <3>2. ~ mode.async => ~ prev.set
      BY DEF FInv, SyncRows
    <3> QED BY <1>2, <1>3, <1>7, <2>1, <3>1, <3>2 DEF SyncRows
  <2>3. ASSUME NEW q \in Reqs, Live(q)'
        PROVE  /\ Len(eng'[q].specs) <= mode.spec
               /\ mode.async => \A j \in 1..Len(eng'[q].specs) : eng'[q].specs[j] = Hole
    <3>1. CASE mode.async
      <4>1. Live(q) /\ eng'[q].specs = eng[q].specs
        BY <1>1, <2>3, <3>1, TakenLive
      <4> QED BY <4>1 DEF FInv, EngSpecs
    <3>2. CASE ~ mode.async
      BY <2>1, <2>3, <3>2 DEF DraftsOf
    <3> QED BY <3>1, <3>2
  <2> QED BY <1>2, <2>2, <2>3 DEF EngSpecs
<1>17. \A i \in DOMAIN rows : rows[i] \in Reqs
  BY BatchRows
<1>18. \A q \in Reqs : Live(q)' => Live(q)
  BY <1>1, TakenLive
<1>19. AsyncRows'
  <2>1. ASSUME mode.async, NEW q \in Reqs, Live(q)', WholeRow(q)
        PROVE  WholeRow(q)'
    <3>1. PICK g \in Nat : /\ g = Got(o, q) /\ Live(q) /\ Len(eng'[q].outs) = Len(eng[q].outs) + g
                           /\ (eng[q].hold = 0 => eng'[q].hold = 0)
      BY <1>1, <2>1, TakenLive
    <3>2. eng[q].hold = 0
      BY <2>1 DEF WholeRow
    <3>3. ~ Samples(o, q)
      <4> SUFFICES ASSUME Samples(o, q) PROVE FALSE
        OBVIOUS
      <4>1. Held(o, q) \in Nat /\ 0 >= Held(o, q)
        BY <1>1, <2>1, <3>2, TakenLive
      <4>2. Held(o, q) >= 1
        BY <1>1, <1>2, HeldTyped
      <4> QED BY <4>1, <4>2
    <3>4. Len(eng'[q].outs) = Len(eng[q].outs)
      <4>1. g = 0
        BY <1>1, <2>1, <3>1, <3>3, TakenLive
      <4>2. Len(eng[q].outs) \in Nat
        BY DEF CInv, EngTyped, Listed
      <4> QED BY <3>1, <4>1, <4>2
    <3> QED BY <1>2, <1>7, <2>1, <3>1, <3>2, <3>4 DEF WholeRow
  <2> QED BY <1>2, <1>9, <1>17, <1>18, <2>1 DEF FInv, AsyncRows
<1>20. LastSamples'
  BY <1>2, <1>8, <1>9, <1>18 DEF FInv, LastSamples
<1>21. LastIdx'
  <2> SUFFICES ASSUME mode.async, ems = NoStep, NEW i \in DOMAIN rows, NEW q, q = rows[i], Live(q)', Recent(q)
               PROVE  i \notin (outputs'[Len(outputs')]).invalid
    BY <1>2, <1>9 DEF LastIdx
  <2>1. q \in Reqs /\ Live(q) /\ Within(q, rows)
    BY <1>17, <1>18, BatchRows, PlaceOfRow
  <2>2. Len(outputs) = 2
    BY <1>2, <2>1
  <2>3. outputs'[Len(outputs')] = outputs[Len(outputs)]
    BY <1>2, <2>2
  <2> QED BY <2>1, <2>3 DEF FInv, LastIdx
<1> QED BY <1>10, <1>11, <1>12, <1>13, <1>14, <1>15, <1>16, <1>19, <1>20, <1>21 DEF FInv

-----------------------------------------------------------------------------
(* execute_model: the scheduler's numbers, the state it updates, and the      *)
(* input it prepares.                                                         *)

(* Before a step: the device has read all inputs, and if it has still to sample, *)
(* it is the step of the only output, and there are no drafts.                  *)
LEMMA ReadyDevice ==
  ASSUME Pipeline, CInv, FInv, Ready
  PROVE  /\ ~ HasInput /\ \A q : ~ Unbooked(q) /\ End(q) = KvThen(q) /\ Refused(q) = AllRejects(q) + 0
         /\ Len(outputs) = 1 /\ ~ outputs[1].ready =>
              /\ mode.async /\ mode.spec = 0
              /\ outputs[1].rows = fed.rows /\ outputs[1].invalid = {i \in DOMAIN fed.rows : fed.discard[i]}
         /\ ~ (Len(outputs) = 1 /\ ~ outputs[1].ready) => fed = NoInput
         /\ fed # NoInput => Sampling
<1>1. /\ ~ HasInput /\ \E T : queue \in Seq(T)
      /\ DOMAIN queue = 1..Len(queue) /\ Len(queue) \in 0..1
  BY ReadyQueue
<1>2. ems = NoStep /\ ems.phase = "none" /\ ~ Executing
  BY DEF Ready, NoStep, Executing
<1>3. \A q : ~ Unbooked(q) /\ End(q) = KvThen(q) /\ Refused(q) = AllRejects(q) + 0
  BY <1>1, <1>2 DEF Unbooked, End, Refused
<1>4. fed # NoInput => Sampling
  BY <1>2 DEF FInv, FedHolds
<1>5. /\ Len(outputs) \in 0..1 /\ DOMAIN outputs = 1..Len(outputs) /\ (outputs = <<>> <=> Len(outputs) = 0)
      /\ ~ mode.async => outputs = <<>>
  BY OneOutput
<1>6. Sampling => mode.async /\ Sa
  <2> SUFFICES ASSUME Sampling PROVE mode.async /\ Sa
    OBVIOUS
  <2>1. Len(queue) # 0
    <3>1. PICK T : queue \in Seq(T)
      BY <1>1
    <3> QED BY <3>1, EmptySeq DEF Sampling
  <2>2. mode.async
    BY <1>2, <2>1 DEF Pipeline, Sync
  <2> QED BY <1>1, <1>2, <2>1, <2>2 DEF Pipeline, Async, Empty, In, Sa, InSa, SaIn, SaInSa
<1>7. Sampling => /\ Len(outputs) = 1 /\ ~ outputs[1].ready
                  /\ outputs[1].rows = fed.rows /\ outputs[1].invalid = {i \in DOMAIN fed.rows : fed.discard[i]}
  <2> SUFFICES ASSUME Sampling
               PROVE  /\ Len(outputs) = 1 /\ ~ outputs[1].ready
                      /\ outputs[1].rows = fed.rows /\ outputs[1].invalid = {i \in DOMAIN fed.rows : fed.discard[i]}
    OBVIOUS
  <2>1. PICK k \in DOMAIN outputs : Awaits(outputs[k], fed.rows, fed)
    BY <1>6 DEF Sa, OnlyAwaits
  <2>2. k = 1 /\ Len(outputs) = 1
    BY <1>5, <2>1
  <2> QED BY <2>1, <2>2 DEF Awaits
<1>8. ASSUME Len(outputs) = 1, ~ outputs[1].ready
      PROVE  mode.async /\ mode.spec = 0 /\ Sampling
  <2>1. mode.async /\ 1 \in DOMAIN outputs
    BY <1>5, <1>8
  <2>2. mode.spec > 0 => copying /\ prev.set
    BY <1>8, <2>1 DEF CInv, OutTyped, Batch
  <2>3. ~ (mode.spec > 0)
    BY <2>2 DEF Ready, Synchronized
  <2>4. mode.spec = 0
    <3>1. mode.spec \in Nat
      BY DEF CInv, Batch
    <3> QED BY <2>3, <3>1
  <2>5. Sa
    BY <1>1, <1>2, <1>8, <2>1 DEF Pipeline, Async, Empty, In, Sa, InSa, SaIn, SaInSa, AllReady, NoStep
  <2>6. Sampling
    <3>1. PICK T : queue \in Seq(T)
      BY <1>1
    <3>2. Len(queue) = 1 /\ queue[1].op = "sample"
      BY <2>5 DEF Sa
    <3>3. Len(queue) # 0
      BY <3>2
    <3>4. queue # <<>>
      BY <3>1, <3>3, EmptySeq
    <3> QED BY <3>1, <3>2, <3>4, TailShape DEF Sampling
  <2> QED BY <2>1, <2>4, <2>6
<1> QED BY <1>1, <1>3, <1>4, <1>7, <1>8

(* What will have been computed of a request, and what will exist of it, by the  *)
(* engine's counts.                                                            *)
LEMMA ReadyLengths ==
  ASSUME Pipeline, CInv, FInv, Ready, NEW q \in Reqs, Live(q) \/ eng[q].st = "new"
  PROVE  /\ KvThen(q) \in Nat /\ RealThen(q) \in Nat /\ KvThen(q) < RealThen(q)
         /\ Untold(q) = AllRejects(q) /\ Untold(q) \in Int /\ eng[q].hold \in Int
         /\ (prompt[q] + Len(eng[q].outs)) + (eng[q].hold - Untold(q)) = RealThen(q)
<1> DEFINE o == outputs[1]
           waits == Len(outputs) = 1 /\ ~ o.ready
           read == Within(q, fed.rows) /\ ~ fed.discard[FedAt(q)]
<1>1. /\ Len(outputs) \in 0..1 /\ DOMAIN outputs = 1..Len(outputs)
      /\ ~ mode.async => Len(outputs) = 0
  BY OneOutput
<1>2. /\ ~ waits => fed = NoInput
      /\ waits => mode.async /\ mode.spec = 0 /\ o.rows = fed.rows /\ o.invalid = {i \in DOMAIN fed.rows : fed.discard[i]}
      /\ ~ Unbooked(q)
  BY ReadyDevice
<1>3. /\ real[q] \in Nat /\ kv[q] \in Nat /\ kv[q] < real[q]
      /\ Live(q) => real[q] = prompt[q] + Len(eng[q].outs) + AllGot(q)
      /\ eng[q].st = "new" => eng[q] = Fresh /\ real[q] = prompt[q]
  BY DEF FInv, Exist
<1>4. ~ waits => RealThen(q) = real[q] /\ KvThen(q) = kv[q] /\ ~ read
  BY <1>2 DEF RealThen, KvThen, NoInput, Within
<1>5. Within(q, fed.rows) => FedAt(q) \in DOMAIN fed.rows /\ fed.rows[FedAt(q)] = q
  BY PlaceOfRow DEF FInv, FedHolds, FedAt
<1>6. RealThen(q) = real[q] + (IF read THEN 1 ELSE 0)
  <2>1. real[q] + 0 = real[q]
    BY <1>3
  <2> QED BY <2>1 DEF RealThen
<1>7. KvThen(q) \in Nat /\ RealThen(q) \in Nat /\ KvThen(q) < RealThen(q)
  <2>1. CASE waits /\ Within(q, fed.rows)
    <3>1. PICK i : i = FedAt(q) /\ i \in DOMAIN fed.rows /\ fed.rows[i] = q
      BY <1>5, <2>1
    <3>2. /\ fed.start[i] \in Nat /\ fed.n[i] \in Nat /\ fed.spec[i] \in 0..mode.spec
          /\ IF fed.discard[i] THEN fed.start[i] + (fed.n[i] - fed.spec[i]) < real[q]
                               ELSE fed.start[i] + (fed.n[i] - fed.spec[i]) = real[q]
      BY <3>1 DEF FInv, FedHolds, RowFed
    <3>3. PICK st \in Nat, n \in Nat, sp \in 0..mode.spec : st = fed.start[i] /\ n = fed.n[i] /\ sp = fed.spec[i]
      BY <3>2
    <3>4. sp = 0
      BY <1>2, <2>1, <3>2, <3>3
    <3>5. IF fed.discard[i] THEN st + n < real[q] ELSE st + n = real[q]
      BY <3>2, <3>3, <3>4
    <3>6. KvThen(q) = st + n /\ RealThen(q) = IF ~ fed.discard[i] THEN real[q] + 1 ELSE real[q]
      BY <2>1, <3>1, <3>3 DEF KvThen, RealThen
    <3>7. CASE fed.discard[i]
      BY <1>3, <3>3, <3>5, <3>6, <3>7
    <3>8. CASE ~ fed.discard[i]
      BY <1>3, <3>3, <3>5, <3>6, <3>8
    <3> QED BY <3>7, <3>8
  <2>2. CASE ~ Within(q, fed.rows)
    BY <1>3, <2>2 DEF KvThen, RealThen
  <2>3. CASE ~ waits
    BY <1>3, <1>4, <2>3
  <2> QED BY <2>1, <2>2, <2>3
<1>8. /\ eng[q].hold \in Int /\ Len(eng[q].outs) \in Nat /\ prompt[q] \in Nat
  BY RunnerAssumption DEF CInv, EngTyped, Listed
<1>9. CASE Len(outputs) = 0
  <2>1. AllRejects(q) = 0 /\ AllGot(q) = 0 /\ HeldOut(q) = 0
    BY <1>2, <1>9 DEF AllRejects, AllGot, HeldOut
  <2>2. Untold(q) = AllRejects(q) /\ Untold(q) = 0
    BY <2>1 DEF Untold
  <2>3. eng[q].hold = 0
    <3>1. CASE eng[q].st = "new"
      BY <3>1 DEF CInv, EngTyped
    <3>2. CASE Live(q) /\ mode.async
      BY <2>1, <3>2, UnscheduledCounts
    <3>3. CASE Live(q) /\ ~ mode.async
      BY <3>3 DEF CInv, SyncCounts
    <3> QED BY <3>1, <3>2, <3>3 DEF Pipeline
  <2>4. RealThen(q) = real[q] /\ real[q] = prompt[q] + Len(eng[q].outs)
    <3>1. CASE Live(q)
      BY <1>3, <1>4, <1>8, <1>9, <2>1, <3>1
    <3>2. CASE eng[q].st = "new"
      <4>1. Len(eng[q].outs) = 0
        BY <1>3, <3>2, ListedLiterals DEF Fresh
      <4> QED BY <1>3, <1>4, <1>8, <1>9, <3>2, <4>1
    <3> QED BY <3>1, <3>2
  <2> QED BY <1>7, <1>8, <2>2, <2>3, <2>4
<1>10. CASE Len(outputs) = 1
  <2>0. mode.async /\ 1 \in DOMAIN outputs
    BY <1>1, <1>10
  <2>1. AllRejects(q) = Rejects(o, q) + 0 /\ AllGot(q) = Got(o, q) + 0 + 0 /\ HeldOut(q) = Held(o, q) + 0
    BY <1>2, <1>10 DEF AllRejects, AllGot, HeldOut
  <2>2. Rejects(o, q) \in Int /\ Held(o, q) \in Int
    BY <2>0, HeldTyped
  <2>3. Untold(q) = Rejects(o, q) /\ Untold(q) = AllRejects(q)
    BY <2>0, <2>1, <2>2 DEF Untold
  <2>4. eng[q].hold = Held(o, q)
    <3>1. CASE eng[q].st = "new"
      <4>1. eng[q].hold = 0 /\ HeldOut(q) = 0
        BY <3>1, NewCounts
      <4> QED BY <2>1, <2>2, <4>1
    <3>2. CASE Live(q)
      BY <2>0, <2>1, <2>2, <3>2, UnscheduledCounts
    <3> QED BY <3>1, <3>2
  <2>5. InRows(o.rows) /\ (Within(q, o.rows) => PlaceIn(o.rows, q) \in DOMAIN o.rows)
    BY <2>0, PlaceOfRow DEF CInv, OutTyped
  <2>6. Got(o, q) \in Nat /\ Held(o, q) - Rejects(o, q) = Got(o, q) + (IF read THEN 1 ELSE 0)
    <3>1. CASE ~ Samples(o, q)
      <4>1. Got(o, q) = 0 /\ Held(o, q) = 0 /\ Rejects(o, q) = 0
        BY <3>1 DEF Got, Held, Rejects
      <4>2. ~ read
        <5>1. CASE waits
          BY <1>2, <1>5, <3>1, <5>1 DEF Samples, FedAt
        <5> QED BY <1>4, <5>1
      <4> QED BY <4>1, <4>2
    <3>2. CASE Samples(o, q)
      <4>1. PICK p : p = PlaceIn(o.rows, q) /\ p \in DOMAIN o.rows /\ p \notin o.invalid /\ Within(q, o.rows)
        BY <2>5, <3>2 DEF Samples
      <4>2. /\ o.spec[p] \in Nat /\ (o.ready => Listed(o.toks[p]))
            /\ mode.spec = 0 => o.spec[p] = 0
        BY <2>0, <4>1 DEF CInv, OutTyped
      <4>3. CASE o.ready
        <5>1. PICK s \in Nat, l \in Nat : s = o.spec[p] /\ l = Len(o.toks[p])
          BY <4>2, <4>3 DEF Listed
        <5>2. Got(o, q) = l /\ Held(o, q) = 1 + s /\ Rejects(o, q) = s + 1 - l
          BY <3>2, <4>1, <4>3, <5>1 DEF Got, Held, Rejects
        <5>3. ~ read
          BY <1>4, <4>3
        <5>4. \A a, b \in Nat : (1 + a) - (a + 1 - b) = b + 0
          OBVIOUS
        <5> HIDE DEF read, o
        <5> QED BY <5>1, <5>2, <5>3, <5>4
      <4>4. CASE ~ o.ready
        <5>1. o.spec[p] = 0
          BY <1>2, <1>10, <4>2, <4>4
        <5>2. Got(o, q) = 0 /\ Held(o, q) = 1 + 0 /\ Rejects(o, q) = 0
          BY <3>2, <4>1, <4>4, <5>1 DEF Got, Held, Rejects
        <5>3. read
          BY <1>2, <1>10, <4>1, <4>4 DEF FedAt
        <5> QED BY <5>2, <5>3
      <4> QED BY <4>3, <4>4
    <3> QED BY <3>1, <3>2
  <2>7. real[q] = (prompt[q] + Len(eng[q].outs)) + Got(o, q)
    <3>1. CASE Live(q)
      <4>1. Got(o, q) + 0 + 0 = Got(o, q)
        BY <2>6
      <4> QED BY <1>3, <2>1, <3>1, <4>1
    <3>2. CASE eng[q].st = "new"
      <4>1. Len(eng[q].outs) = 0
        BY <1>3, <3>2, ListedLiterals DEF Fresh
      <4>2. ~ Samples(o, q)
        BY <2>0, <3>2 DEF CInv, Lives, Samples
      <4>3. Got(o, q) = 0
        BY <4>2 DEF Got
      <4> QED BY <1>3, <1>8, <3>2, <4>1, <4>3
    <3> QED BY <3>1, <3>2
  <2>8. PICK r, g, h, u, a, w : r = real[q] /\ g = Got(o, q) /\ h = Held(o, q) /\ u = Rejects(o, q)
                               /\ a = prompt[q] + Len(eng[q].outs) /\ w = IF read THEN 1 ELSE 0
    OBVIOUS
  <2>9. g \in Nat /\ h \in Int /\ u \in Int /\ a \in Nat /\ w \in {0, 1} /\ h - u = g + w /\ r = a + g
    BY <1>8, <2>2, <2>6, <2>7, <2>8
  <2>10. a + (h - u) = r + w
    BY <2>9
  <2>11. (prompt[q] + Len(eng[q].outs)) + (eng[q].hold - Untold(q)) = RealThen(q)
    BY <1>6, <2>3, <2>4, <2>8, <2>10
  <2> QED BY <1>7, <1>8, <2>2, <2>3, <2>11
<1> QED BY <1>1, <1>9, <1>10

(* A request that runs on goes on where the device will have got; one that comes *)
(* back, or is new, begins again.                                              *)
LEMMA ReadyStart ==
  ASSUME Pipeline, CInv, FInv, Ready, NEW q \in Reqs, Live(q) \/ eng[q].st = "new"
  PROVE  /\ eng[q].st = "running" => eng[q].computed - Untold(q) = KvThen(q)
         /\ eng[q].st # "running" => eng[q].computed = 0 /\ eng[q].hold = 0 /\ Untold(q) = 0
                                     /\ eng[q].computed - Untold(q) = 0
         /\ mode.async /\ eng[q].hold > 0 => eng[q].computed = (NumTokens(q) + eng[q].hold) - 1
         /\ eng[q].computed \in Int
<1>1. Untold(q) = AllRejects(q) /\ Untold(q) \in Int
  BY ReadyLengths
<1>2. End(q) = KvThen(q) /\ Refused(q) = AllRejects(q) + 0
  BY ReadyDevice
<1>3. CASE eng[q].st = "running"
  <2>1. Live(q) /\ eng[q].computed - Refused(q) = End(q)
        /\ (mode.async /\ eng[q].hold > 0 => eng[q].computed = (NumTokens(q) + eng[q].hold) - 1)
    BY <1>3 DEF Live, FInv, Computed
  <2>2. Refused(q) = Untold(q)
    BY <1>1, <1>2
  <2> QED BY <1>2, <1>3, <2>1, <2>2 DEF CInv, EngTyped
<1>4. CASE eng[q].st = "new"
  <2>1. eng[q].computed = 0
    BY <1>4 DEF FInv, Exist, Fresh
  <2>2. eng[q].hold = 0 /\ AllRejects(q) = 0
    BY <1>4, NewCounts
  <2> QED BY <1>1, <1>4, <2>1, <2>2
<1>5. CASE eng[q].st = "preempted"
  <2>1. Live(q) /\ eng[q].computed = 0
    BY <1>5 DEF Live, FInv, Computed
  <2>2. ~ Within(q, rows)
    BY <1>5, <2>1 DEF CInv, Lives
  <2>3. eng[q].hold = 0 /\ Untold(q) = 0
    <3>1. CASE mode.async
      BY <1>1, <2>1, <2>2, <3>1, AwayAsync
    <3>2. CASE ~ mode.async
      BY <2>1, <3>2 DEF Untold, CInv, SyncCounts
    <3> QED BY <3>1, <3>2
  <2> QED BY <1>5, <2>1, <2>3
<1> QED BY <1>3, <1>4, <1>5 DEF Live

(* The drafts of a part are the first of those the engine has.                 *)
LEMMA SpecsPrefix ==
  ASSUME CInv, NEW q \in Reqs, NEW k \in Nat, k <= NumNew(q), prompt[q] \in Nat
  PROVE  /\ Len(Specs(q, k)) \in Nat /\ Len(Specs(q, k)) <= Len(eng[q].specs)
         /\ \A j \in 1..Len(Specs(q, k)) : Specs(q, k)[j] = eng[q].specs[j]
<1> DEFINE d == k + eng[q].computed - NumTokens(q) - eng[q].hold
<1>1. /\ Listed(eng[q].specs) /\ Len(eng[q].specs) \in Nat /\ NumTokens(q) \in Nat
      /\ eng[q].computed \in Int /\ eng[q].hold \in Int
  <2>1. Listed(eng[q].specs) /\ eng[q].computed \in Int /\ eng[q].hold \in Int /\ Listed(eng[q].outs)
    BY DEF CInv, EngTyped
  <2>2. Len(eng[q].specs) \in Nat /\ Len(eng[q].outs) \in Nat
    BY <2>1 DEF Listed
  <2> QED BY <2>1, <2>2 DEF NumTokens
<1>2. d \in Int /\ d <= Len(eng[q].specs)
  <2>1. PICK t, s, h, c : /\ t = NumTokens(q) /\ s = Len(eng[q].specs)
                          /\ h = eng[q].hold /\ c = eng[q].computed
    OBVIOUS
  <2>2. t \in Nat /\ s \in Nat /\ h \in Int /\ c \in Int /\ k <= t + s + h - c
    BY <1>1, <2>1 DEF NumNew
  <2>3. k + c - t - h \in Int /\ k + c - t - h <= s
    BY <2>2
  <2> QED BY <2>1, <2>3
<1>3. Specs(q, k) = IF d > 0 THEN SubSeq(eng[q].specs, 1, d) ELSE <<>>
  BY DEF Specs
<1> HIDE DEF d
<1>4. CASE d > 0
  <2>1. d \in 0..Len(eng[q].specs)
    BY <1>1, <1>2, <1>4
  <2>2. PICK T : eng[q].specs \in Seq(T)
    BY <1>1, ListedIsSeq
  <2>3. Len(Specs(q, k)) = d
    BY <1>1, <1>3, <1>4, <2>1, ListedFront
  <2>4. \A j \in 1..d : SubSeq(eng[q].specs, 1, d)[j] = eng[q].specs[j]
    <3>1. PICK s : s = eng[q].specs /\ s \in Seq(T) /\ d \in 0..Len(s)
      BY <2>1, <2>2
    <3>2. \A j \in 1..d : SubSeq(s, 1, d)[j] = s[j]
      BY <3>1
    <3> QED BY <3>1, <3>2
  <2> QED BY <1>1, <1>2, <1>3, <1>4, <2>1, <2>3, <2>4
<1>5. CASE ~ (d > 0)
  <2>1. Len(Specs(q, k)) = 0
    BY <1>3, <1>5, ListedLiterals
  <2> QED BY <1>1, <2>1
<1> QED BY <1>4, <1>5

(* What the engine does with the requests of a step, and with the others.      *)
LEMMA AdvancedNumbers ==
  ASSUME Pipeline, CInv, NEW n, NEW S, NEW P, NEW order, Steps(n, S, P, order), NEW q \in Reqs
  PROVE  /\ q \in S => /\ eng'[q].computed = eng[q].computed + n[q]
                       /\ eng'[q].specs = IF mode.async /\ ~ Partial(n, q) THEN Holes(mode.spec) ELSE <<>>
         /\ q \notin S => \/ eng'[q] = eng[q]
                          \/ /\ eng[q].st = "running" /\ eng'[q].st = "preempted"
                             /\ eng'[q].computed = 0 /\ eng'[q].specs = <<>>
<1>1. /\ P \subseteq {r \in Reqs \ S : eng[r].st = "running"}
      /\ eng'[q] = IF q \in S THEN Advance(q, n[q]) ELSE IF q \in P THEN Preempt(q) ELSE eng[q]
  BY DEF Steps, Scheduled, ExecuteModel, Engine1
<1>2. DOMAIN eng[q] = EngFields
  BY DEF CInv, EngTyped
<1>3. CASE q \in S
  <2> DEFINE e == eng[q]
             b == mode.async /\ ~ Partial(n, q)
  <2>4. Advance(q, n[q]) =
          [e EXCEPT !.st = "running", !.computed = @ + n[q],
                    !.hold = IF b THEN @ + 1 + Len(Specs(q, n[q])) ELSE @,
                    !.specs = IF b THEN Holes(mode.spec) ELSE <<>>]
    BY DEF Advance, Partial
  <2> HIDE DEF b, e
  <2>6. eng'[q].computed = e.computed + n[q] /\ eng'[q].specs = IF b THEN Holes(mode.spec) ELSE <<>>
    BY <1>1, <1>2, <1>3, <2>4 DEF EngFields, e
  <2> QED BY <1>3, <2>6 DEF e, b
<1>4. CASE q \notin S
  <2>1. CASE q \in P
    <3>1. eng'[q] = [eng[q] EXCEPT !.st = "preempted", !.computed = 0, !.specs = <<>>]
      BY <1>1, <1>4, <2>1 DEF Preempt
    <3>2. eng'[q].st = "preempted" /\ eng'[q].computed = 0 /\ eng'[q].specs = <<>>
      BY <1>2, <3>1 DEF EngFields
    <3> QED BY <1>1, <1>4, <2>1, <3>2
  <2>2. CASE q \notin P
    BY <1>1, <1>4, <2>2
  <2> QED BY <2>1, <2>2
<1> QED BY <1>3, <1>4

(* The requests that the step before sampled, among those of a step.           *)
LEMMA ForgetKeeps ==
  ASSUME NEW n, NEW q
  PROVE  LET pv == Forget(SchedOut(n)) IN
         /\ pv.set = prev.set
         /\ q \in DOMAIN pv.idx <=> q \in DOMAIN prev.idx /\ q \in Kept(SchedOut(n))
         /\ q \in DOMAIN pv.idx => pv.idx[q] = prev.idx[q]
BY DEF Forget, Restrict

(* The row of a request whose tokens the device need not fill in.              *)
LEMMA RowThen ==
  ASSUME Pipeline, CInv, FInv, NEW n, NEW S, NEW P, NEW order, Steps(n, S, P, order),
         NEW q \in S, q \in Reqs, ~ (prev'.set /\ q \in DOMAIN prev'.idx)
  PROVE  /\ req'[q].row = Toks(q, 0, prompt[q] + Len(eng[q].outs))
         /\ eng[q].hold = 0 /\ Untold(q) = 0 /\ Len(req'[q].out) = Len(eng[q].outs)
         /\ ~ mode.async => req'[q].out = Toks(q, prompt[q], Len(eng[q].outs))
<1> DEFINE so == SchedOut(n)
           u == Updated(so)[q]
           l == Len(eng[q].outs)
<1>1. /\ Ready /\ Scheduled(n, S) /\ req' = Updated(so) /\ S \subseteq Reqs
      /\ prev' = Forget(so)
  BY UpdatedShape DEF Steps, ExecuteModel
<1>2. DOMAIN n = S /\ eng[q].st # "done" /\ eng'[q].outs = eng[q].outs
  BY AdvancedShape
<1>3. (Live(q) \/ eng[q].st = "new") /\ l \in Nat /\ prompt[q] \in Nat
      /\ Listed(req[q].out) /\ Listed(req[q].draft) /\ Listed(eng[q].outs)
      /\ DOMAIN req[q] = ReqFields
  BY <1>2, RunnerAssumption DEF CInv, EngTyped, Live, Listed, ReqTyped
<1>4. /\ so.fin = told /\ (q \in so.fresh <=> eng[q].st = "new") /\ DOMAIN so.n = S
      /\ (q \in so.resumed <=> eng[q].st = "preempted")
      /\ so.computed[q] = eng[q].computed /\ so.numOut[q] = l + eng[q].hold
      /\ so.specs[q] = Specs(q, n[q]) /\ so.all[q] = Toks(q, 0, prompt[q]) \o eng[q].outs
  BY <1>2, SchedOutFields
<1>5. u = IF eng[q].st = "new" THEN AddNew(q, so) ELSE IF q \in Kept(so) THEN KeepRow(q, so) ELSE Readd(q, so)
  BY <1>4 DEF Updated
<1>6. /\ Len(req'[q].out) = (l + eng[q].hold) - Untold(q)
      /\ req'[q] = u /\ eng[q].hold \in Int /\ Untold(q) \in Nat
  BY <1>1, UpdatedRows DEF CInv, EngTyped
<1>7. eng[q].hold = 0 /\ Untold(q) = 0 => Len(req'[q].out) = l
  BY <1>3, <1>6
<1>8. eng[q].outs = Toks(q, prompt[q], l)
  BY DEF FInv, Own
<1> HIDE DEF so, u, l
<1>9. CASE eng[q].st = "new"
  <2>1. l = 0 /\ eng[q].hold = 0
    BY <1>1, <1>9, NewCounts, ListedLiterals DEF l
  <2>2. Untold(q) = 0
    BY <1>1, <1>9, NewCounts DEF Untold
  <2>3. u.row = Toks(q, 0, prompt[q]) /\ u.out = <<>>
    BY <1>5, <1>9 DEF AddNew
  <2>4. prompt[q] + l = prompt[q]
    BY <1>3, <2>1
  <2>5. Toks(q, prompt[q], 0) = <<>>
    BY DEF Toks
  <2> QED BY <1>6, <1>7, <2>1, <2>2, <2>3, <2>4, <2>5 DEF l
<1>10. CASE Live(q) /\ q \notin Kept(so)
  <2>1. ~ Within(q, rows)
    <3>1. q \notin told
      BY <1>10 DEF CInv, Lives
    <3>2. Within(q, rows) => eng[q].st = "running"
      BY <3>1 DEF CInv, Lives
    <3>3. Contains(rows, q) <=> Within(q, rows)
      BY PlaceOfRow DEF CInv, Batch
    <3> QED BY <1>4, <1>10, <3>1, <3>2, <3>3 DEF Kept
  <2>2. eng[q].hold = 0 /\ Untold(q) = 0 /\ (~ mode.async => l = Len(req[q].out))
    <3>1. CASE mode.async
      BY <1>1, <1>10, <2>1, <3>1, AwayAsync DEF Untold
    <3>2. CASE ~ mode.async
      <4>1. outputs = <<>>
        BY <1>1, <3>2, OneOutput
      <4>2. eng[q].hold = 0 /\ Len(req[q].out) = l + 0
        BY <1>10, <3>2, <4>1 DEF CInv, SyncCounts, l
      <4> QED BY <1>3, <3>2, <4>2 DEF Untold
    <3> QED BY <3>1, <3>2
  <2>3. so.numOut[q] = l
    <3>1. l + 0 = l
      BY <1>3
    <3> QED BY <1>4, <2>2, <3>1
  <2>4. u = Readd(q, so)
    BY <1>5, <1>10 DEF Live
  <2> DEFINE all == Toks(q, 0, prompt[q]) \o eng[q].outs
             cached == SubSeq(req[q].out, 1, IF l < Len(req[q].out) THEN l ELSE Len(req[q].out))
  <2>5. /\ u.out = IF mode.async /\ l > 0 THEN SubSeq(all, Len(all) - l + 1, Len(all)) ELSE cached
        /\ u.row = Toks(q, 0, prompt[q]) \o u.out
    BY <1>4, <2>3, <2>4 DEF Readd
  <2>6. Len(req[q].out) \in Nat
    BY <1>3 DEF Listed
  <2>7. u.out = Toks(q, prompt[q], l)
    <3>1. CASE mode.async /\ l > 0
      <4>1. PICK a, b : a = Toks(q, 0, prompt[q]) /\ b = eng[q].outs
        OBVIOUS
      <4>2. Listed(a) /\ Len(a) = prompt[q] /\ Listed(b) /\ Len(b) = l
        BY <1>3, <4>1, ListedLiterals DEF l
      <4>3. Listed(a \o b) /\ Len(a \o b) = prompt[q] + l
        BY <4>2, ListedConcat
      <4>4. \A k \in 1..l : (a \o b)[prompt[q] + k] = b[k]
        BY <4>2, ConcatCells
      <4>5. SubSeq(a \o b, (prompt[q] + l) - l + 1, prompt[q] + l) = b
        <5>1. PICK T : a \o b \in Seq(T)
          BY <4>3, ListedIsSeq
        <5>2. PICK s, p : s = a \o b /\ p = prompt[q] /\ p \in Nat /\ s \in Seq(T) /\ Len(s) = p + l
          BY <1>3, <4>3, <5>1
        <5>3. (p + l) - l + 1 = p + 1
          BY <1>3, <5>2
        <5>4. SubSeq(s, p + 1, p + l) = [k \in 1..l |-> s[p + k]]
          <6>1. SubSeq(s, p + 1, p + l) \in Seq(T) /\ Len(SubSeq(s, p + 1, p + l)) = l
                /\ \A k \in 1..l : SubSeq(s, p + 1, p + l)[k] = s[p + k]
            <7>1. p + 1 \in Int /\ p + l \in Int /\ \A i \in p + 1..p + l : s[i] \in T
              BY <1>3, <5>2
            <7>2. PICK m, e : m = p + 1 /\ e = p + l
              OBVIOUS
            <7>3. /\ SubSeq(s, m, e) \in Seq(T)
                  /\ Len(SubSeq(s, m, e)) = IF m <= e THEN e - m + 1 ELSE 0
                  /\ \A i \in 1..e - m + 1 : SubSeq(s, m, e)[i] = s[m + i - 1]
              BY <7>1, <7>2, SubSeqProperties
            <7>4. e - m + 1 = l /\ (IF m <= e THEN e - m + 1 ELSE 0) = l
              <8>1. l \in Nat /\ p \in Nat /\ m = p + 1 /\ e = p + l
                BY <1>3, <5>2, <7>2
              <8> HIDE DEF l
              <8> QED BY <8>1
            <7>5. \A k \in 1..l : m + k - 1 = p + k
              BY <1>3, <5>2, <7>2
            <7> QED BY <7>2, <7>3, <7>4, <7>5
          <6>2. Listed(SubSeq(s, p + 1, p + l))
            BY <6>1, SeqIsListed
          <6> QED BY <6>1, <6>2 DEF Listed
        <5>5. b = [k \in 1..l |-> b[k]]
          BY <4>2 DEF Listed
        <5>6. SubSeq(s, p + 1, p + l) = b
          BY <4>4, <5>2, <5>4, <5>5
        <5> QED BY <5>2, <5>3, <5>6
      <4> QED BY <1>8, <2>5, <3>1, <4>1, <4>3, <4>5
    <3>2. CASE mode.async /\ ~ (l > 0)
      <4>1. l = 0 /\ Len(req'[q].out) = 0
        BY <1>3, <1>7, <2>2, <3>2
      <4>2. Listed(req'[q].out)
        BY UpdatedRows
      <4>3. req'[q].out = <<>>
        BY <4>1, <4>2 DEF Listed
      <4>4. Toks(q, prompt[q], 0) = <<>>
        BY DEF Toks
      <4> QED BY <1>6, <4>1, <4>3, <4>4
    <3>3. CASE ~ mode.async
      <4>1. l = Len(req[q].out) /\ cached = SubSeq(req[q].out, 1, l)
        BY <2>2, <3>3
      <4>2. SubSeq(req[q].out, 1, l) = req[q].out
        <5>1. PICK s : s = req[q].out
          OBVIOUS
        <5>2. Listed(s) /\ Len(s) = l
          BY <1>3, <4>1, <5>1
        <5>3. SubSeq(s, 1, l) = s
          <6>1. PICK T : s \in Seq(T)
            BY <5>2, ListedIsSeq
          <6> QED BY <1>3, <5>2, <6>1
        <5> QED BY <5>1, <5>3
      <4>3. req[q].out = Toks(q, prompt[q], l)
        BY <1>10, <3>3, <4>1 DEF FInv, SyncRows
      <4> QED BY <2>5, <3>3, <4>1, <4>2, <4>3
    <3> QED BY <3>1, <3>2, <3>3
  <2>8. Toks(q, 0, prompt[q]) \o Toks(q, prompt[q], l) = Toks(q, 0, prompt[q] + l)
    <3>1. 0 \in Int /\ 0 + prompt[q] = prompt[q]
      BY <1>3
    <3>2. Toks(q, 0, prompt[q]) \o Toks(q, 0 + prompt[q], l) = Toks(q, 0, prompt[q] + l)
      BY <1>3, <3>1, ToksConcat
    <3> QED BY <3>1, <3>2
  <2> QED BY <1>6, <1>7, <2>2, <2>5, <2>7, <2>8 DEF l
<1>11. CASE Live(q) /\ q \in Kept(so)
  <2>1. Within(q, rows) /\ PlaceIn(rows, q) \in DOMAIN rows /\ rows[PlaceIn(rows, q)] = q
    <3>1. Contains(rows, q)
      BY <1>11 DEF Kept
    <3> QED BY <3>1, PlaceOfRow DEF CInv, Batch
  <2>2. u = KeepRow(q, so) /\ eng[q].st # "new"
    BY <1>5, <1>11 DEF Live
  <2>3. Len(req[q].out) \in Nat
    BY <1>3 DEF Listed
  <2>4. /\ eng[q].hold = 0 /\ Untold(q) = 0 /\ Len(req[q].out) = l /\ ~ Corrects(q, so)
        /\ req[q].row = Toks(q, 0, prompt[q] + l)
        /\ ~ mode.async => req[q].out = Toks(q, prompt[q], l)
    <3>1. CASE mode.async
      <4>1. ~ Recent(q)
        BY <1>1, <1>11, ForgetKeeps DEF Recent, so
      <4>2. WholeRow(q)
        BY <1>1, <1>11, <2>1, <3>1, <4>1 DEF FInv, AsyncRows, Ready
      <4>3. /\ AllRejects(q) \in 0..Len(req[q].draft)
            /\ l + eng[q].hold = Len(req[q].out) + Len(req[q].draft)
        BY <1>1, <1>11, <2>1, <3>1, KeptAsync DEF l
      <4>4. Len(req[q].draft) = 0
        <5>1. Len(req[q].draft) \in Nat
          BY <1>3 DEF Listed
        <5>2. l + 0 = l + Len(req[q].draft)
          BY <4>2, <4>3 DEF WholeRow, l
        <5> QED BY <1>3, <5>1, <5>2
      <4>5. req[q].draft = <<>>
        BY <1>3, <4>4 DEF Listed
      <4>6. Untold(q) = 0
        BY <3>1, <4>3, <4>4 DEF Untold
      <4> QED BY <3>1, <4>2, <4>5, <4>6 DEF WholeRow, Corrects, l
    <3>2. CASE ~ mode.async
      <4>1. outputs = <<>>
        BY <1>1, <3>2, OneOutput
      <4>2. eng[q].hold = 0 /\ Len(req[q].out) = l + 0
        BY <1>11, <3>2, <4>1 DEF CInv, SyncCounts, l
      <4>3. /\ req[q].out = Toks(q, prompt[q], Len(req[q].out))
            /\ req[q].row = Toks(q, 0, prompt[q] + Len(req[q].out))
        BY <1>11, <2>1, <3>2 DEF FInv, SyncRows
      <4>4. Len(req[q].out) = l
        BY <1>3, <4>2
      <4> QED BY <3>2, <4>2, <4>3, <4>4 DEF Corrects, Untold
    <3> QED BY <3>1, <3>2
  <2>5. GrownOut(q, so) = req[q].out
    <3>1. GrownOut(q, so) = req[q].out \o <<>>
      BY <2>4 DEF GrownOut
    <3>2. PICK T : req[q].out \in Seq(T)
      BY <1>3, ListedIsSeq
    <3> QED BY <3>1, <3>2
  <2>6. ~ Truncates(q, so)
    <3>1. so.numOut[q] = l + 0
      BY <1>4, <2>4
    <3>2. ~ (l + 0 < l)
      BY <1>3
    <3> QED BY <2>4, <2>5, <3>1, <3>2 DEF Truncates
  <2>7. u.row = req[q].row /\ u.out = SubSeq(req[q].out, 1, l)
    BY <1>3, <2>2, <2>4, <2>5, <2>6 DEF KeepRow, ReqFields
  <2>8. SubSeq(req[q].out, 1, l) = req[q].out
    <3>1. PICK s : s = req[q].out
      OBVIOUS
    <3>2. Listed(s) /\ Len(s) = l
      BY <1>3, <2>4, <3>1
    <3>3. SubSeq(s, 1, l) = s
      <4>1. PICK T : s \in Seq(T)
        BY <3>2, ListedIsSeq
      <4> QED BY <1>3, <3>2, <4>1
    <3> QED BY <3>1, <3>3
  <2> QED BY <1>6, <1>7, <2>4, <2>7, <2>8 DEF l
<1> QED BY <1>3, <1>9, <1>10, <1>11

(* The numbers of a scheduled request: its part starts at the latest where the  *)
(* device will have got, and is sampled if it reaches what will exist.         *)
LEMMA StepNumbers ==
  ASSUME Pipeline, CInv, FInv, NEW n, NEW S, NEW P, NEW order, Steps(n, S, P, order),
         NEW q \in S, q \in Reqs
  PROVE  /\ n[q] \in Nat /\ n[q] >= 1 /\ KvThen(q) \in Nat /\ RealThen(q) \in Nat
         /\ req'[q].computed \in Nat /\ req'[q].computed <= KvThen(q) /\ req'[q].draft = Specs(q, n[q])
         /\ prompt[q] + Len(req'[q].out) = RealThen(q)
         /\ Len(Specs(q, n[q])) \in Nat /\ Len(Specs(q, n[q])) < n[q] /\ Len(Specs(q, n[q])) <= mode.spec
         /\ Partial(n, q) <=> req'[q].computed + n[q] < RealThen(q)
         /\ Partial(n, q) => Len(Specs(q, n[q])) = 0
         /\ ~ Partial(n, q) => req'[q].computed + (n[q] - Len(Specs(q, n[q]))) = RealThen(q)
<1>1. /\ Ready /\ Scheduled(n, S) /\ eng[q].st # "done" /\ n[q] <= NumNew(q) /\ prompt[q] \in Nat
      /\ DOMAIN n = S
  BY UpdatedShape, AdvancedShape
<1>2. n[q] \in Nat /\ n[q] >= 1
  <2>1. n[q] \in 1..8
    BY <1>1 DEF Scheduled
  <2> QED BY <2>1
<1>3. Live(q) \/ eng[q].st = "new"
  BY <1>1 DEF CInv, EngTyped, Live
<1>4. /\ KvThen(q) \in Nat /\ RealThen(q) \in Nat /\ KvThen(q) < RealThen(q)
      /\ eng[q].hold \in Int
      /\ (prompt[q] + Len(eng[q].outs)) + (eng[q].hold - Untold(q)) = RealThen(q)
  BY <1>1, <1>3, ReadyLengths
<1>5. /\ eng[q].computed \in Int
      /\ eng[q].computed - Untold(q) \in {KvThen(q), 0}
  BY <1>1, <1>3, ReadyStart
<1>6. /\ req'[q].computed = eng[q].computed - Untold(q)
      /\ req'[q].draft = Specs(q, n[q])
      /\ Len(req'[q].out) = (Len(eng[q].outs) + eng[q].hold) - Untold(q)
      /\ Untold(q) \in Nat
  BY UpdatedRows
<1>7. /\ Len(Specs(q, n[q])) \in Nat /\ Len(Specs(q, n[q])) <= Len(eng[q].specs)
      /\ Partial(n, q) => Specs(q, n[q]) = <<>>
  BY <1>1, <1>2, SpecsPrefix, SpecsShape DEF Partial
<1>8. Len(eng[q].specs) \in Nat /\ Len(eng[q].specs) <= mode.spec /\ mode.spec \in Nat /\ Len(eng[q].outs) \in Nat
  <2>1. Listed(eng[q].specs) /\ Listed(eng[q].outs) /\ mode.spec \in Nat
    BY DEF CInv, EngTyped, Batch
  <2>2. CASE Live(q)
    BY <2>1, <2>2 DEF FInv, EngSpecs, Listed
  <2>3. CASE eng[q].st = "new"
    <3>1. Len(eng[q].specs) = 0
      BY <2>3, ListedLiterals DEF FInv, Exist, Fresh
    <3> QED BY <2>1, <3>1 DEF Listed
  <2> QED BY <1>3, <2>2, <2>3
<1>9. ~ Partial(n, q) => eng[q].computed + n[q] - Len(Specs(q, n[q])) = NumTokens(q) + eng[q].hold
  BY <1>1, <1>2, SpecsLength
<1>10. PICK k, c, a, h, u, d, r, kt, s :
         /\ k = n[q] /\ c = eng[q].computed /\ a = prompt[q] + Len(eng[q].outs) /\ h = eng[q].hold
         /\ u = Untold(q) /\ d = Len(Specs(q, n[q])) /\ r = RealThen(q) /\ kt = KvThen(q)
         /\ s = eng[q].computed - Untold(q)
  OBVIOUS
<1>11. /\ k \in Nat /\ k >= 1 /\ c \in Int /\ a \in Nat /\ h \in Int /\ u \in Nat /\ d \in Nat
       /\ r \in Nat /\ kt \in Nat /\ kt < r /\ s \in {kt, 0} /\ s = c - u /\ a + (h - u) = r
       /\ s \in Nat /\ s <= kt
  <2>1. a \in Nat /\ a + (h - u) = r
    BY <1>1, <1>4, <1>8, <1>10
  <2>2. k \in Nat /\ k >= 1 /\ d \in Nat
    BY <1>2, <1>7, <1>10
  <2>3. c \in Int /\ h \in Int /\ u \in Nat /\ r \in Nat /\ kt \in Nat /\ kt < r /\ s \in {kt, 0} /\ s = c - u
    BY <1>4, <1>5, <1>6, <1>10
  <2>4. s \in Nat /\ s <= kt
    BY <2>3
  <2> QED BY <2>1, <2>2, <2>3, <2>4
<1>12. NumTokens(q) = a
  BY <1>10 DEF NumTokens
<1>13. prompt[q] + Len(req'[q].out) = r
  <2>1. PICK p, l : p = prompt[q] /\ l = Len(eng[q].outs) /\ p \in Nat /\ l \in Nat /\ a = p + l
    BY <1>1, <1>8, <1>10
  <2>3. p \in Nat /\ l \in Nat /\ h \in Int /\ u \in Nat /\ (p + l) + (h - u) = r
    BY <1>11, <2>1
  <2>2. p + ((l + h) - u) = r
    BY <2>3
  <2> QED BY <1>6, <1>10, <2>1, <2>2
<1>14. Partial(n, q) <=> s + k < r
  <2>1. c + k < a + h <=> s + k < r
    BY <1>11
  <2> QED BY <1>10, <1>12, <2>1 DEF Partial
<1>15. Partial(n, q) => d = 0
  BY <1>7, <1>10, ListedLiterals
<1>16. ~ Partial(n, q) => s + (k - d) = r
  <2> SUFFICES ASSUME ~ Partial(n, q) PROVE s + (k - d) = r
    OBVIOUS
  <2>1. c + k - d = a + h
    BY <1>9, <1>10, <1>12
  <2> QED BY <1>11, <2>1
<1>17. d < k
  <2>1. CASE Partial(n, q)
    BY <1>11, <1>15, <2>1
  <2>2. CASE ~ Partial(n, q)
    BY <1>11, <1>16, <2>2
  <2> QED BY <2>1, <2>2
<1>18. d <= mode.spec
  <2>1. PICK e \in Nat, m \in Nat : e = Len(eng[q].specs) /\ m = mode.spec
    BY <1>8
  <2>2. d <= e /\ e <= m
    BY <1>7, <1>8, <1>10, <2>1
  <2>3. d <= m
    BY <1>11, <2>1, <2>2
  <2> QED BY <2>1, <2>3
<1> QED BY <1>2, <1>4, <1>6, <1>10, <1>11, <1>13, <1>14, <1>15, <1>16, <1>17, <1>18

(* One that the last step sampled needs just the token it produced.            *)
LEMMA CommonNumbers ==
  ASSUME Pipeline, CInv, FInv, NEW n, NEW S, NEW P, NEW order, Steps(n, S, P, order),
         NEW q \in S, q \in Reqs, prev'.set, q \in DOMAIN prev'.idx
  PROVE  /\ n[q] - Len(Specs(q, n[q])) = 1 /\ ~ Partial(n, q)
         /\ prev'.idx[q] = prev.idx[q] /\ ResultOf(prev.idx[q], q) /\ prev.idx[q] \in Nat
         /\ mode.async /\ Live(q)
<1>1. /\ Ready /\ eng[q].st # "done" /\ prompt[q] \in Nat /\ DOMAIN n = S
  BY UpdatedShape, AdvancedShape
<1>2. prev' = Forget(SchedOut(n))
  BY DEF Steps, ExecuteModel
<1>3. /\ prev.set /\ q \in DOMAIN prev.idx /\ q \in Kept(SchedOut(n)) /\ prev'.idx[q] = prev.idx[q]
  BY <1>2, ForgetKeeps
<1>4. mode.async
  BY <1>3 DEF FInv, SyncRows
<1>5. eng[q].st = "running" /\ Live(q) /\ Within(q, rows)
  <2>1. eng[q].st # "new" /\ eng[q].st # "preempted" /\ Contains(rows, q)
    BY <1>1, <1>3, SchedOutFields DEF Kept
  <2> QED BY <1>1, <2>1, PlaceOfRow DEF CInv, EngTyped, Live, Batch
<1>6. Recent(q)
  BY <1>3 DEF Recent
<1>7. ~ HasInput /\ ems = NoStep
  BY <1>1, ReadyDevice DEF Ready
<1>8. ResultOf(prev.idx[q], q)
  BY <1>4, <1>5, <1>6, <1>7 DEF FInv, LastSamples
<1>9. PICK i : i = PlaceIn(rows, q) /\ i \in DOMAIN rows /\ rows[i] = q
  BY <1>5, PlaceOfRow DEF CInv, Batch
<1>10. /\ Len(outputs) \in 0..1 /\ (outputs = <<>> <=> Len(outputs) = 0) /\ DOMAIN outputs = 1..Len(outputs)
       /\ Len(outputs) = 1 => outputs[1].rows = rows
  BY <1>1, OneOutput
<1>11. Len(outputs) = 1 /\ 1 \in DOMAIN outputs
  <2>1. outputs # <<>>
    BY <1>4, <1>5, <1>7, <1>9 DEF CInv, LastStep
  <2> QED BY <1>10, <2>1
<1>12. Samples(outputs[1], q)
  <2>1. i \notin outputs[1].invalid
    BY <1>4, <1>5, <1>6, <1>7, <1>9, <1>11 DEF FInv, LastIdx
  <2> QED BY <1>5, <1>9, <1>10, <1>11, <2>1 DEF Samples
<1>13. eng[q].hold > 0 /\ eng[q].hold \in Int
  <2>1. eng[q].hold = HeldOut(q)
    BY <1>1, <1>4, <1>5, UnscheduledCounts
  <2>2. Held(outputs[1], q) \in Nat /\ Held(outputs[1], q) >= 1
    BY <1>11, <1>12, HeldTyped
  <2>3. HeldOut(q) = Held(outputs[1], q) + 0
    BY <1>11 DEF HeldOut
  <2> QED BY <2>1, <2>2, <2>3
<1>14. eng[q].computed = (NumTokens(q) + eng[q].hold) - 1 /\ eng[q].computed \in Int
  BY <1>1, <1>4, <1>5, <1>13, ReadyStart
<1>15. NumTokens(q) \in Nat
  <2>1. Len(eng[q].outs) \in Nat
    BY DEF CInv, EngTyped, Listed
  <2> QED BY <1>1, <2>1 DEF NumTokens
<1>16. n[q] \in Nat /\ n[q] >= 1 /\ Len(Specs(q, n[q])) \in Nat /\ n[q] <= NumNew(q)
  BY StepNumbers, AdvancedShape
<1>17. PICK k, c, a, h, d : k = n[q] /\ c = eng[q].computed /\ a = NumTokens(q) /\ h = eng[q].hold
                            /\ d = Len(Specs(q, n[q]))
  OBVIOUS
<1>18. k \in Nat /\ k >= 1 /\ c \in Int /\ a \in Nat /\ h \in Int /\ d \in Nat /\ c = (a + h) - 1
  BY <1>13, <1>14, <1>15, <1>16, <1>17
<1>19. ~ Partial(n, q)
  <2>1. ~ (c + k < a + h)
    BY <1>18
  <2> QED BY <1>17, <2>1 DEF Partial
<1>20. c + k - d = a + h
  BY <1>1, <1>16, <1>17, <1>19, SpecsLength
<1>21. k - d = 1
  BY <1>18, <1>20
<1> QED BY <1>3, <1>4, <1>5, <1>8, <1>17, <1>19, <1>21 DEF ResultOf

(* The buffers of a step, row by row.                                          *)
LEMMA PreparedCells ==
  ASSUME NEW order, InRows(order), Len(order) # 0, NEW rq, NEW n, \A i \in DOMAIN order : n[order[i]] \in Nat,
         NEW b, b = Prepared(order, rq, n)
  PROVE  /\ Len(b.n) = Len(order) /\ Numbers(b.n, Len(order)) /\ DOMAIN b.spec = 1..Len(order)
         /\ \A i \in DOMAIN order :
              LET q == order[i] IN
              /\ b.start[i] = rq[q].computed /\ b.n[i] = n[q] /\ b.spec[i] = Len(rq[q].draft)
              /\ b.discard[i] = (rq[q].computed + n[q] < prompt[q] + Len(rq[q].out))
              /\ \A j \in 1..n[q] : b.ids[Sum(b.n, i - 1) + j] = Cell(rq[q], rq[q].computed + j - 1)
<1>1. /\ b.start = [i \in DOMAIN order |-> rq[order[i]].computed]
      /\ b.n = [i \in DOMAIN order |-> n[order[i]]]
      /\ b.spec = [i \in DOMAIN order |-> Len(rq[order[i]].draft)]
      /\ b.ids = FlattenSeq([i \in DOMAIN order |->
             [j \in 1..n[order[i]] |-> Cell(rq[order[i]], rq[order[i]].computed + j - 1)]])
      /\ b.discard = [i \in DOMAIN order |->
            rq[order[i]].computed + n[order[i]] < prompt[order[i]] + Len(rq[order[i]].out)]
  BY DEF Prepared
<1>2. PICK m \in Nat : m = Len(order) /\ DOMAIN order = 1..m /\ m > 0
  <2>1. Len(order) \in Nat /\ DOMAIN order = 1..Len(order)
    BY DEF InRows
  <2>3. Len(order) > 0
    BY <2>1
  <2> QED BY <2>1, <2>3
<1>3. Len(b.n) = m /\ Numbers(b.n, m) /\ DOMAIN b.spec = 1..m
  BY <1>1, <1>2 DEF Numbers
<1>4. ASSUME NEW i \in 1..m, NEW j \in 1..n[order[i]]
      PROVE  b.ids[Sum(b.n, i - 1) + j] = Cell(rq[order[i]], rq[order[i]].computed + j - 1)
  <2>1. PICK s : s = [x \in DOMAIN order |->
             [y \in 1..n[order[x]] |-> Cell(rq[order[x]], rq[order[x]].computed + y - 1)]]
    OBVIOUS
  <2>2. Len(s) = m
    BY <1>2, <2>1
  <2>3. \A x \in 1..m : Listed(s[x]) /\ Len(s[x]) = b.n[x]
    BY <1>1, <1>2, <2>1 DEF Listed
  <2>4. j \in 1..b.n[i]
    BY <1>1, <1>2
  <2>5. FlattenSeq(s)[Sum(b.n, i - 1) + j] = s[i][j]
    <3>1. PICK w : w = b.n
      OBVIOUS
    <3>2. Numbers(w, m) /\ (\A x \in 1..m : Listed(s[x]) /\ Len(s[x]) = w[x]) /\ j \in 1..w[i]
      BY <1>3, <2>3, <2>4, <3>1
    <3>3. FlattenSeq(s)[Sum(w, i - 1) + j] = s[i][j]
      BY <1>2, <2>2, <3>2, FlatCells
    <3> QED BY <3>1, <3>3
  <2> QED BY <1>1, <1>2, <2>1, <2>5
<1> QED BY <1>1, <1>2, <1>3, <1>4

(* The buffers of a step hold, for each row, where its part lies and, unless the *)
(* device has to fill it in, its tokens and drafts.                            *)
LEMMA PreparedPart ==
  ASSUME Pipeline, CInv, FInv, NEW n, NEW S, NEW P, NEW order, Steps(n, S, P, order),
         NEW b, b = buf', NEW i \in DOMAIN order
  PROVE  LET q == order[i]
             base == b.n[i] - b.spec[i]
         IN  /\ b.start[i] = req'[q].computed /\ b.n[i] = n[q] /\ b.spec[i] = Len(Specs(q, n[q]))
             /\ b.start[i] \in Nat /\ b.start[i] <= KvThen(q) /\ b.discard[i] \in BOOLEAN
             /\ b.n[i] \in Nat /\ b.spec[i] \in Nat /\ b.spec[i] < b.n[i] /\ b.spec[i] <= mode.spec
             /\ b.discard[i] <=> Partial(n, q)
             /\ IF b.discard[i] THEN b.start[i] + base < RealThen(q) /\ b.spec[i] = 0
                                ELSE b.start[i] + base = RealThen(q)
             /\ \A j \in 1..n[q] : b.ids[Sum(b.n, i - 1) + j] = Cell(req'[q], b.start[i] + j - 1)
             /\ Len(b.n) = Len(order) /\ Numbers(b.n, Len(order)) /\ DOMAIN b.spec = 1..Len(order)
<1>1. order \in SetToSeqs(S) /\ S \subseteq Reqs
  BY UpdatedShape DEF Steps
<1>2. InRows(order) /\ (\A q : Within(q, order) <=> q \in S)
  BY <1>1, OrderRows
<1>3. \A x \in DOMAIN order : order[x] \in S /\ order[x] \in Reqs
  BY <1>1, <1>2, PlaceOfRow
<1>4. Len(order) # 0 /\ order # <<>>
  <2>1. Len(order) # 0
    BY <1>2 DEF InRows
  <2> QED BY <2>1, ListedLiterals
<1>5. PICK rq : rq = req'
  OBVIOUS
<1>6. b = Prepared(order, rq, n)
  BY <1>4, <1>5, UpdatedShape
<1>7. \A x \in DOMAIN order : n[order[x]] \in Nat
  BY <1>3, StepNumbers
<1>8. PICK q \in S : q = order[i] /\ q \in Reqs
  BY <1>3
<1>9. /\ Len(b.n) = Len(order) /\ Numbers(b.n, Len(order)) /\ DOMAIN b.spec = 1..Len(order)
      /\ b.start[i] = rq[q].computed /\ b.n[i] = n[q] /\ b.spec[i] = Len(rq[q].draft)
      /\ b.discard[i] = (rq[q].computed + n[q] < prompt[q] + Len(rq[q].out))
      /\ \A j \in 1..n[q] : b.ids[Sum(b.n, i - 1) + j] = Cell(rq[q], rq[q].computed + j - 1)
  BY <1>2, <1>4, <1>6, <1>7, <1>8, PreparedCells
<1>10. /\ n[q] \in Nat /\ n[q] >= 1 /\ KvThen(q) \in Nat /\ RealThen(q) \in Nat
       /\ rq[q].computed \in Nat /\ rq[q].computed <= KvThen(q) /\ rq[q].draft = Specs(q, n[q])
       /\ prompt[q] + Len(rq[q].out) = RealThen(q)
       /\ Len(Specs(q, n[q])) \in Nat /\ Len(Specs(q, n[q])) < n[q] /\ Len(Specs(q, n[q])) <= mode.spec
       /\ Partial(n, q) <=> rq[q].computed + n[q] < RealThen(q)
       /\ Partial(n, q) => Len(Specs(q, n[q])) = 0
       /\ ~ Partial(n, q) => rq[q].computed + (n[q] - Len(Specs(q, n[q]))) = RealThen(q)
  <2>1. PICK r : r = rq[q]
    OBVIOUS
  <2>2. req'[q] = r
    BY <1>5, <2>1
  <2>3. /\ n[q] \in Nat /\ n[q] >= 1 /\ KvThen(q) \in Nat /\ RealThen(q) \in Nat
        /\ req'[q].computed \in Nat /\ req'[q].computed <= KvThen(q) /\ req'[q].draft = Specs(q, n[q])
        /\ prompt[q] + Len(req'[q].out) = RealThen(q)
        /\ Len(Specs(q, n[q])) \in Nat /\ Len(Specs(q, n[q])) < n[q] /\ Len(Specs(q, n[q])) <= mode.spec
        /\ Partial(n, q) <=> req'[q].computed + n[q] < RealThen(q)
        /\ Partial(n, q) => Len(Specs(q, n[q])) = 0
        /\ ~ Partial(n, q) => req'[q].computed + (n[q] - Len(Specs(q, n[q]))) = RealThen(q)
    BY <1>8, StepNumbers
  <2> QED BY <2>1, <2>2, <2>3
<1>11. b.discard[i] \in BOOLEAN /\ (b.discard[i] <=> Partial(n, q))
  <2>1. b.discard[i] = (rq[q].computed + n[q] < RealThen(q))
    BY <1>9, <1>10
  <2>2. PICK x, y : x = rq[q].computed + n[q] /\ y = RealThen(q)
    OBVIOUS
  <2>3. b.discard[i] = (x < y) /\ (Partial(n, q) <=> x < y)
    BY <1>10, <2>1, <2>2
  <2>4. CASE x < y
    BY <2>3, <2>4
  <2>5. CASE ~ (x < y)
    <3>1. (x < y) = FALSE
      BY <2>5
    <3>2. b.discard[i] = FALSE
      BY <2>3, <3>1
    <3> QED BY <2>3, <2>5, <3>2
  <2> QED BY <2>4, <2>5
<1>12. IF b.discard[i] THEN b.start[i] + (b.n[i] - b.spec[i]) < RealThen(q) /\ b.spec[i] = 0
                       ELSE b.start[i] + (b.n[i] - b.spec[i]) = RealThen(q)
  <2>1. CASE Partial(n, q)
    <3>1. b.spec[i] = 0 /\ b.n[i] - 0 = b.n[i]
      BY <1>9, <1>10, <2>1
    <3>2. b.start[i] + b.n[i] < RealThen(q)
      BY <1>9, <1>10, <2>1
    <3> QED BY <1>11, <2>1, <3>1, <3>2
  <2>2. CASE ~ Partial(n, q)
    BY <1>9, <1>10, <1>11, <2>2
  <2> QED BY <2>1, <2>2
<1> QED BY <1>5, <1>8, <1>9, <1>10, <1>11, <1>12

(* The cells of a row that was not sampled last: the request's own tokens,    *)
(* and what was proposed for the places after them.                           *)
LEMMA PreparedTokens ==
  ASSUME Pipeline, CInv, FInv, NEW n, NEW S, NEW P, NEW order, Steps(n, S, P, order),
         NEW b, b = buf', NEW i \in DOMAIN order, ~ (prev'.set /\ order[i] \in DOMAIN prev'.idx)
  PROVE  LET q == order[i]
             base == b.n[i] - b.spec[i]
             at(j) == b.ids[Sum(b.n, i - 1) + j]
         IN  /\ \A j \in 1..base : at(j) = Tok(q, b.start[i] + j - 1)
             /\ \A j \in base + 1..b.n[i] :
                  Proposed(at(j), q, b.start[i] + j - 1) \/ (mode.async /\ at(j) = Hole)
<1>1. order \in SetToSeqs(S) /\ S \subseteq Reqs /\ Ready
  BY UpdatedShape DEF Steps
<1>2. InRows(order) /\ (\A x : Within(x, order) <=> x \in S)
  BY <1>1, OrderRows
<1>3. PICK q \in S : q = order[i] /\ q \in Reqs
  BY <1>1, <1>2, PlaceOfRow
<1>4. PICK r : r = req'[q]
  OBVIOUS
<1>5. /\ b.start[i] \in Nat /\ b.n[i] = n[q] /\ b.spec[i] = Len(Specs(q, n[q]))
      /\ b.n[i] \in Nat /\ b.spec[i] \in Nat /\ b.spec[i] < b.n[i] /\ b.spec[i] <= mode.spec
      /\ IF b.discard[i] THEN b.start[i] + (b.n[i] - b.spec[i]) < RealThen(q) /\ b.spec[i] = 0
                         ELSE b.start[i] + (b.n[i] - b.spec[i]) = RealThen(q)
      /\ \A j \in 1..n[q] : b.ids[Sum(b.n, i - 1) + j] = Cell(r, b.start[i] + j - 1)
  BY <1>3, <1>4, PreparedPart
<1>6. /\ r.row = Toks(q, 0, prompt[q] + Len(eng[q].outs)) /\ r.draft = Specs(q, n[q])
      /\ eng[q].hold = 0 /\ Untold(q) = 0
  BY <1>3, <1>4, RowThen, StepNumbers
<1>7. n[q] \in Nat /\ n[q] <= NumNew(q) /\ eng[q].st # "done" /\ prompt[q] \in Nat /\ Len(eng[q].outs) \in Nat
  <2>1. n[q] <= NumNew(q) /\ eng[q].st # "done" /\ prompt[q] \in Nat
    BY <1>3, AdvancedShape
  <2>2. Len(eng[q].outs) \in Nat
    BY <1>3 DEF CInv, EngTyped, Listed
  <2>3. n[q] \in Nat
    BY <1>3, StepNumbers
  <2> QED BY <2>1, <2>2, <2>3
<1>8. prompt[q] + Len(eng[q].outs) = RealThen(q) /\ RealThen(q) \in Nat
  <2>1. (prompt[q] + Len(eng[q].outs)) + (eng[q].hold - Untold(q)) = RealThen(q) /\ RealThen(q) \in Nat
    BY <1>1, <1>3, <1>7, ReadyLengths DEF CInv, EngTyped, Live
  <2>2. prompt[q] + Len(eng[q].outs) \in Nat
    BY <1>7
  <2>3. \A a \in Nat : a + (0 - 0) = a
    OBVIOUS
  <2> QED BY <1>6, <2>1, <2>2, <2>3
<1>9. Len(r.row) = RealThen(q) /\ \A p \in 0..RealThen(q) - 1 : r.row[p + 1] = Tok(q, p)
  <2>1. r.row = Toks(q, 0, RealThen(q))
    BY <1>6, <1>8
  <2>2. \A p \in 0..RealThen(q) - 1 : p + 1 \in 1..RealThen(q) /\ 0 + (p + 1) - 1 = p
    BY <1>8
  <2> QED BY <1>8, <2>1, <2>2, ListedLiterals DEF Toks
<1>10. PICK s, k, d, t, off :
         /\ s \in Nat /\ k \in Nat /\ d \in Nat /\ t \in Nat
         /\ s = b.start[i] /\ k = b.n[i] /\ d = b.spec[i] /\ t = RealThen(q) /\ off = Sum(b.n, i - 1)
  <2>1. PICK off : off = Sum(b.n, i - 1)
    OBVIOUS
  <2>2. PICK s \in Nat, k \in Nat, d \in Nat, t \in Nat : s = b.start[i] /\ k = b.n[i] /\ d = b.spec[i] /\ t = RealThen(q)
    BY <1>5, <1>8
  <2> QED BY <2>1, <2>2
<1>11. /\ d < k /\ s + (k - d) <= t /\ (d # 0 => s + (k - d) = t)
       /\ Len(r.draft) = d /\ Len(r.row) = t
       /\ \A j \in 1..k : b.ids[off + j] = Cell(r, s + j - 1)
       /\ \A p \in 0..t - 1 : r.row[p + 1] = Tok(q, p)
  <2>1. IF b.discard[i] THEN s + (k - d) < t /\ d = 0 ELSE s + (k - d) = t
    BY <1>5, <1>10
  <2>2. s + (k - d) <= t /\ (d # 0 => s + (k - d) = t)
    <3>1. CASE b.discard[i]
      <4>1. s + (k - d) < t /\ d = 0
        BY <2>1, <3>1
      <4> QED BY <1>10, <4>1
    <3>2. CASE ~ b.discard[i]
      <4>1. s + (k - d) = t
        BY <2>1, <3>2
      <4> QED BY <1>10, <4>1
    <3> QED BY <3>1, <3>2
  <2> QED BY <1>5, <1>6, <1>9, <1>10, <2>2
<1>12. ASSUME NEW j \in 1..(k - d) PROVE b.ids[off + j] = Tok(q, s + j - 1)
  <2>1. PICK p : p = s + j - 1
    OBVIOUS
  <2>2. p \in 0..t - 1 /\ j \in 1..k /\ p < t
    <3>1. s \in Nat /\ k \in Nat /\ d \in Nat /\ t \in Nat /\ d < k /\ s + (k - d) <= t
      BY <1>10, <1>11
    <3>2. \A jj \in 1..(k - d) : jj \in 1..k /\ s + jj - 1 \in 0..t - 1 /\ s + jj - 1 < t
      BY <3>1
    <3> QED BY <2>1, <3>2
  <2>3. Cell(r, p) = r.row[p + 1]
    BY <1>11, <2>2 DEF Cell
  <2> QED BY <1>11, <2>1, <2>2, <2>3
<1>13. ASSUME NEW j \in (k - d) + 1..k
       PROVE  Proposed(b.ids[off + j], q, s + j - 1) \/ (mode.async /\ b.ids[off + j] = Hole)
  <2>1. PICK m : m = j - (k - d)
    OBVIOUS
  <2>2. PICK p : p = s + j - 1
    OBVIOUS
  <2> DEFINE Nums == s \in Nat /\ k \in Nat /\ d \in Nat /\ t \in Nat /\ d < k
  <2>0. Nums
    BY <1>10, <1>11
  <2>3. m \in 1..d /\ d # 0 /\ j \in 1..k
    <3>1. Nums => \A jj \in (k - d) + 1..k : jj - (k - d) \in 1..d /\ d # 0 /\ jj \in 1..k
      OBVIOUS
    <3> QED BY <1>13, <2>0, <2>1, <3>1
  <2>4. p = t + m - 1 /\ ~ (p < t) /\ p < t + d /\ p + 1 - t = m /\ p \in Nat
    <3>1. s + (k - d) = t
      BY <1>11, <2>3
    <3>2. Nums /\ s + (k - d) = t /\ m \in 1..d /\ j = (k - d) + m /\ j \in Int =>
            /\ s + j - 1 = t + m - 1 /\ ~ (s + j - 1 < t) /\ s + j - 1 < t + d
            /\ s + j - 1 + 1 - t = m /\ s + j - 1 \in Nat
      OBVIOUS
    <3>3. j = (k - d) + m /\ j \in Int
      <4>1. Nums => \A jj \in (k - d) + 1..k : jj = (k - d) + (jj - (k - d)) /\ jj \in Int
        OBVIOUS
      <4> QED BY <1>13, <2>0, <2>1, <4>1
    <3> QED BY <2>0, <2>2, <2>3, <3>1, <3>2, <3>3
  <2>5. Cell(r, p) = r.draft[m]
    BY <1>11, <2>4 DEF Cell
  <2>6. r.draft[m] = eng[q].specs[m] /\ m \in 1..Len(eng[q].specs)
    <3>1. /\ Len(Specs(q, n[q])) <= Len(eng[q].specs) /\ Len(Specs(q, n[q])) = d
          /\ \A x \in 1..Len(Specs(q, n[q])) : Specs(q, n[q])[x] = eng[q].specs[x]
      BY <1>3, <1>5, <1>7, <1>10, SpecsPrefix
    <3>2. Len(eng[q].specs) \in Nat
      BY <1>3 DEF CInv, EngTyped, Listed
    <3>3. PICK e \in Nat : e = Len(eng[q].specs) /\ d <= e
      BY <3>1, <3>2
    <3>4. m \in 1..e
      <4>1. d \in Nat /\ e \in Nat /\ d <= e /\ m \in 1..d
        BY <1>10, <2>3, <3>3
      <4> QED BY <4>1
    <3> QED BY <1>6, <2>3, <3>1, <3>3, <3>4
  <2>7. Live(q)
    <3>1. eng[q].st # "new"
      <4>1. eng[q].st = "new" => eng[q].specs = <<>>
        BY <1>3 DEF FInv, Exist, Fresh
      <4>2. Len(<<>>) = 0
        BY ListedLiterals
      <4> QED BY <2>6, <4>1, <4>2
    <3> QED BY <1>3, <1>7, <3>1 DEF CInv, EngTyped, Live
  <2>8. CASE mode.async
    <3>1. eng[q].specs[m] = Hole
      BY <1>3, <2>6, <2>7, <2>8 DEF FInv, EngSpecs
    <3> QED BY <1>11, <2>2, <2>3, <2>5, <2>6, <2>8, <3>1
  <2>9. CASE ~ mode.async
    <3>1. DraftsOf(q, eng[q].specs, NumTokens(q))
      BY <1>3, <2>7, <2>9 DEF FInv, SyncRows
    <3>2. NumTokens(q) = t
      BY <1>8, <1>10 DEF NumTokens
    <3>3. Proposed(eng[q].specs[m], q, t + m - 1)
      BY <2>6, <3>1, <3>2 DEF DraftsOf
    <3>4. b.ids[off + j] = eng[q].specs[m]
      BY <1>11, <2>2, <2>3, <2>5, <2>6
    <3> QED BY <2>2, <2>4, <3>3, <3>4
  <2> QED BY <2>8, <2>9
<1> QED BY <1>3, <1>10, <1>12, <1>13

(* A step without rows brings no tokens.                                       *)
LEMMA EmptyGot ==
  ASSUME Pipeline, CInv, Ready, NEW x, outputs' = Append(outputs, x), x.rows = <<>>,
         NEW q \in Reqs, ~ Unbooked(q), ~ Unbooked(q)'
  PROVE  AllGot(q)' = AllGot(q)
<1>1. ~ Samples(x, q)
  BY DEF Samples, Within
<1>2. Got(x, q) = 0
  BY <1>1 DEF Got
<1>3. /\ Len(outputs) \in 0..1 /\ Len(outputs') = Len(outputs) + 1
      /\ outputs'[Len(outputs) + 1] = x /\ \A i \in 1..Len(outputs) : outputs'[i] = outputs[i]
  BY OneOutput, OutputAppended
<1>4. CASE Len(outputs) = 0
  <2>1. Len(outputs') = 1 /\ outputs'[1] = x
    BY <1>3, <1>4
  <2>2. AllGot(q)' = Got(x, q) + 0 + 0
    BY <2>1 DEF AllGot
  <2>3. AllGot(q) = 0 + 0 + 0
    BY <1>4 DEF AllGot
  <2> QED BY <1>2, <2>2, <2>3
<1>5. CASE Len(outputs) = 1
  <2>1. Len(outputs') = 2 /\ outputs'[2] = x /\ outputs'[1] = outputs[1]
    BY <1>3, <1>5
  <2>4. Got(outputs[1], q) \in Nat
    <3>1. 1 \in DOMAIN outputs
      BY <1>5, OneOutput
    <3> QED BY <3>1, GotTyped
  <2>2. AllGot(q)' = Got(outputs[1], q) + Got(x, q) + 0
    BY <2>1 DEF AllGot
  <2>3. AllGot(q) = Got(outputs[1], q) + 0 + 0
    BY <1>5 DEF AllGot
  <2> QED BY <1>2, <2>2, <2>3, <2>4
<1> QED BY <1>3, <1>4, <1>5

(* What a step leaves as it was for the device.                                *)
LEMMA ExecuteFrame ==
  ASSUME Pipeline, CInv, FInv, NEW n, NEW S, NEW P, NEW order, Steps(n, S, P, order)
  PROVE  /\ UNCHANGED <<mode, life, gpu, real, kv, fed>>
         /\ Ready /\ S \subseteq Reqs /\ rows' = order /\ InRows(order)
         /\ \A q : Within(q, order) <=> q \in S
         /\ \A q, p : Tok(q, p)' = Tok(q, p)
         /\ \A q, f, k : Toks(q, f, k)' = Toks(q, f, k)
         /\ \A t, q, p : Proposed(t, q, p)' <=> Proposed(t, q, p)
         /\ \A q, s, p : DraftsOf(q, s, p)' <=> DraftsOf(q, s, p)
         /\ (Sampling' <=> Sampling) /\ \A q : ~ Unbooked(q)'
         /\ IF order = <<>>
              THEN /\ S = {} /\ ~ HasInput' /\ UNCHANGED <<buf, ems, queue>>
                   /\ \E x : outputs' = Append(outputs, x) /\ x.rows = <<>> /\ x.ready = TRUE
              ELSE /\ buf' = Prepared(order, req', n) /\ UNCHANGED outputs
                   /\ ems' # NoStep /\ ems'.phase = "executed" /\ HasInput'
                   /\ \E k \in DOMAIN queue' : queue'[k] = InputOp(order, buf', prev')
<1>1. /\ Ready /\ S \subseteq Reqs /\ rows' = order
      /\ IF order = <<>>
           THEN /\ \E x : outputs' = Append(outputs, x) /\ x.rows = <<>> /\ x.ready = TRUE
                /\ UNCHANGED <<buf, ems, queue>>
           ELSE /\ buf' = Prepared(order, req', n) /\ ems' = [rows |-> order, phase |-> "executed"]
                /\ UNCHANGED outputs
      /\ UNCHANGED <<mode, gpu>> /\ ~ LookupFails(SchedOut(n))
  <2>0. Ready /\ S \subseteq Reqs /\ rows' = order /\ mode' = mode /\ gpu' = gpu /\ ~ LookupFails(SchedOut(n))
    BY UpdatedShape
  <2>2. CASE order = <<>>
    <3>1. PICK x : outputs' = Append(outputs, x) /\ x.rows = <<>> /\ x.ready = TRUE
      BY <2>2, UpdatedShape
    <3>2. UNCHANGED <<buf, ems, queue>>
      BY <2>2, UpdatedShape
    <3> QED BY <2>0, <2>2, <3>1, <3>2
  <2>3. CASE order # <<>>
    BY <2>0, <2>3, UpdatedShape
  <2> QED BY <2>2, <2>3
<1>2. UNCHANGED <<life, real, kv, fed>> /\ order \in SetToSeqs(S)
  BY DEF Steps, ExecuteModel
<1>3. InRows(order) /\ (\A q : Within(q, order) <=> q \in S) /\ (order = <<>> <=> S = {})
  BY <1>1, <1>2, OrderRows
<1>4. \A q, p : Tok(q, p)' = Tok(q, p)
  BY <1>2 DEF Tok
<1>5. \A q, f, k : Toks(q, f, k)' = Toks(q, f, k)
  BY <1>2 DEF Toks, Tok
<1>6. \A t, q, p : Proposed(t, q, p)' <=> Proposed(t, q, p)
  BY <1>2 DEF Proposed, Guess, Tok
<1>7. \A q, s, p : DraftsOf(q, s, p)' <=> DraftsOf(q, s, p)
  BY <1>1, <1>6 DEF DraftsOf
<1>8. /\ ~ HasInput /\ \E T : queue \in Seq(T)
      /\ DOMAIN queue = 1..Len(queue) /\ Len(queue) \in 0..1
  BY <1>1, ReadyQueue
<1>9. CASE order = <<>>
  <2>1. ~ HasInput' /\ UNCHANGED <<buf, ems, queue>> /\ S = {}
    BY <1>1, <1>3, <1>8, <1>9 DEF HasInput
  <2>2. (Sampling' <=> Sampling) /\ \A q : ~ Unbooked(q)'
    BY <1>1, <2>1 DEF Sampling, Unbooked, Ready, NoStep
  <2> QED BY <1>1, <1>2, <1>3, <1>4, <1>5, <1>6, <1>7, <1>9, <2>1, <2>2
<1>10. CASE order # <<>>
  <2>1. buf' = Prepared(order, req', n) /\ ems' = [rows |-> order, phase |-> "executed"] /\ UNCHANGED outputs
    BY <1>1, <1>10
  <2>2. PICK op : op = InputOp(order, buf', prev') /\ op.op = "input"
    BY InputOpFields
  <2>3. queue' = Append(queue, op)
    BY <1>1, <1>10, <2>2 DEF Steps, ExecuteModel
  <2>4. /\ Len(queue') = Len(queue) + 1
        /\ queue'[Len(queue) + 1] = op /\ \A i \in 1..Len(queue) : queue'[i] = queue[i]
        /\ DOMAIN queue' = 1..(Len(queue) + 1)
    <3>1. PICK T : queue \in Seq(T)
      BY <1>8
    <3> QED BY <2>3, <3>1, AppendShape
  <2>5. Len(queue) + 1 \in DOMAIN queue'
    BY <1>8, <2>4
  <2>6. HasInput' /\ \E k \in DOMAIN queue' : queue'[k] = InputOp(order, buf', prev')
    BY <2>2, <2>4, <2>5 DEF HasInput
  <2>7. ems' # NoStep /\ ems'.phase = "executed" /\ \A q : ~ Unbooked(q)'
    BY <2>1 DEF NoStep, Unbooked
  <2>8. Sampling' <=> Sampling
    <3>1. Head(queue') = queue'[1] /\ queue' # <<>>
      <4>1. queue' # <<>>
        BY <2>5
      <4> QED BY <4>1
    <3>2. CASE Len(queue) = 0
      <4>1. queue'[1] = op
        BY <2>4, <3>2
      <4>2. ~ Sampling
        <5>1. queue = <<>>
          BY <1>8, <3>2, EmptySeq
        <5> QED BY <5>1 DEF Sampling
      <4> QED BY <2>2, <3>1, <4>1, <4>2 DEF Sampling
    <3>3. CASE Len(queue) = 1
      <4>1. queue # <<>> /\ Head(queue) = queue[1]
        <5>1. PICK T : queue \in Seq(T)
          BY <1>8
        <5>2. Len(queue) # 0
          BY <3>3
        <5>3. queue # <<>>
          BY <5>1, <5>2, EmptySeq
        <5> QED BY <5>1, <5>3, TailShape
      <4>2. queue'[1] = queue[1]
        BY <2>4, <3>3
      <4> QED BY <3>1, <4>1, <4>2 DEF Sampling
    <3> QED BY <1>8, <3>2, <3>3
  <2> QED BY <1>1, <1>2, <1>3, <1>4, <1>5, <1>6, <1>7, <1>10, <2>1, <2>6, <2>7, <2>8
<1> QED BY <1>9, <1>10

(* What execute_model prepares changes no number of what the device has; the  *)
(* rows of the new step end where they begin and go on.                       *)
LEMMA ExecuteNumbers ==
  ASSUME Pipeline, CInv, FInv, NEW n, NEW S, NEW P, NEW order, Steps(n, S, P, order)
  PROVE  /\ \A q : KvThen(q)' = KvThen(q) /\ RealThen(q)' = RealThen(q)
         /\ \A p, q : ResultOf(p, q)' <=> ResultOf(p, q)
         /\ \A q : ~ Within(q, order) => End(q)' = KvThen(q)
         /\ \A i \in DOMAIN order : End(order[i])' = buf'.start[i] + buf'.n[i]
         /\ \A q \in Reqs : AllGot(q)' = AllGot(q) /\ Refused(q)' = AllRejects(q) + 0
<1>1. /\ UNCHANGED <<mode, life, gpu, real, kv, fed>>
      /\ Ready /\ rows' = order /\ InRows(order)
      /\ \A q, p : Tok(q, p)' = Tok(q, p)
      /\ \A t, q, p : Proposed(t, q, p)' <=> Proposed(t, q, p)
      /\ (Sampling' <=> Sampling) /\ \A q : ~ Unbooked(q)'
  BY ExecuteFrame
<1>2. \A q : KvThen(q)' = KvThen(q) /\ RealThen(q)' = RealThen(q)
  BY <1>1 DEF KvThen, RealThen, FedAt
<1>3. \A p, q : ResultOf(p, q)' <=> ResultOf(p, q)
  BY <1>1 DEF ResultOf
<1>4. \A q : ~ Within(q, order) => End(q)' = KvThen(q)
  BY <1>1, <1>2 DEF End
<1>5. ASSUME NEW i \in DOMAIN order
      PROVE  End(order[i])' = buf'.start[i] + buf'.n[i]
  <2>1. Within(order[i], order) /\ PlaceIn(order, order[i]) = i
    BY <1>1, PlaceOfRow
  <2>2. HasInput'
    <3>1. order # <<>>
      BY <1>5
    <3> QED BY <3>1, ExecuteFrame
  <2>3. PICK q : q = order[i]
    OBVIOUS
  <2>4. End(q)' = buf'.start[i] + buf'.n[i]
    BY <1>1, <2>1, <2>2, <2>3 DEF End
  <2> QED BY <2>3, <2>4
<1>6. ASSUME NEW q \in Reqs
      PROVE  AllGot(q)' = AllGot(q) /\ Refused(q)' = AllRejects(q) + 0
  <2>1. Refused(q)' = AllRejects(q)' + 0
    BY <1>1 DEF Refused
  <2>2. ~ Unbooked(q)
    BY <1>1, ReadyDevice
  <2>3. CASE order = <<>>
    <3>1. PICK x : outputs' = Append(outputs, x) /\ x.rows = <<>>
      BY <2>3, ExecuteFrame
    <3>2. AllGot(q)' = AllGot(q)
      BY <1>1, <2>2, <3>1, EmptyGot
    <3>3. AllRejects(q)' = AllRejects(q)
      BY <1>1, <3>1, EmptyOutput
    <3> QED BY <2>1, <3>2, <3>3
  <2>4. CASE order # <<>>
    <3>1. outputs' = outputs
      BY <2>4, ExecuteFrame
    <3>2. AllGot(q)' = AllGot(q) /\ AllRejects(q)' = AllRejects(q)
      BY <1>1, <2>2, <3>1 DEF AllGot, AllRejects
    <3> QED BY <2>1, <3>2
  <2> QED BY <2>3, <2>4
<1> QED BY <1>2, <1>3, <1>4, <1>5, <1>6

(* What a step leaves in the buffers are the tokens its requests need.         *)
LEMMA ExecuteRow ==
  ASSUME Pipeline, CInv, FInv, NEW n, NEW S, NEW P, NEW order, Steps(n, S, P, order),
         NEW b, b = buf', NEW pv, pv = prev', NEW i \in DOMAIN order
  PROVE  LET q == order[i]
             base == b.n[i] - b.spec[i]
             at(j) == b.ids[Sum(b.n, i - 1) + j]
         IN  /\ i \in Common(order, pv) => /\ base = 1 /\ pv.idx[q] \in Nat
                                           /\ ResultOf(pv.idx[q], q) /\ ~ b.discard[i]
             /\ i \notin Common(order, pv) =>
                  /\ \A j \in 1..base : at(j) = Tok(q, b.start[i] + j - 1)
                  /\ \A j \in base + 1..b.n[i] :
                       Proposed(at(j), q, b.start[i] + j - 1) \/ (mode.async /\ at(j) = Hole)
<1>1. order[i] \in S /\ order[i] \in Reqs
  <2>1. S \subseteq Reqs /\ InRows(order) /\ \A x : Within(x, order) <=> x \in S
    BY ExecuteFrame
  <2> QED BY <2>1, PlaceOfRow
<1>2. PICK q : q = order[i] /\ q \in S /\ q \in Reqs
  BY <1>1
<1>3. i \in Common(order, pv) <=> pv.set /\ q \in DOMAIN pv.idx
  BY <1>2 DEF Common
<1>4. ASSUME i \in Common(order, pv)
      PROVE  /\ b.n[i] - b.spec[i] = 1 /\ pv.idx[q] \in Nat
             /\ ResultOf(pv.idx[q], q) /\ ~ b.discard[i]
  <2>1. prev'.set /\ q \in DOMAIN prev'.idx
    BY <1>3, <1>4
  <2>2. /\ n[q] - Len(Specs(q, n[q])) = 1 /\ ~ Partial(n, q)
        /\ prev'.idx[q] = prev.idx[q] /\ ResultOf(prev.idx[q], q) /\ prev.idx[q] \in Nat
    BY <1>2, <2>1, CommonNumbers
  <2>3. pv.idx[q] = prev.idx[q]
    BY <2>2
  <2>4. b.n[i] = n[q] /\ b.spec[i] = Len(Specs(q, n[q])) /\ (b.discard[i] <=> Partial(n, q))
    BY <1>2, PreparedPart
  <2> QED BY <2>2, <2>3, <2>4
<1>5. ASSUME i \notin Common(order, pv)
      PROVE  /\ \A j \in 1..(b.n[i] - b.spec[i]) : b.ids[Sum(b.n, i - 1) + j] = Tok(q, b.start[i] + j - 1)
             /\ \A j \in (b.n[i] - b.spec[i]) + 1..b.n[i] :
                  \/ Proposed(b.ids[Sum(b.n, i - 1) + j], q, b.start[i] + j - 1)
                  \/ mode.async /\ b.ids[Sum(b.n, i - 1) + j] = Hole
  <2>1. ~ (prev'.set /\ order[i] \in DOMAIN prev'.idx)
    BY <1>2, <1>3, <1>5
  <2> QED BY <1>2, <2>1, PreparedTokens
<1> QED BY <1>2, <1>4, <1>5

(* The prepared input is what the invariant says waits in the buffers.        *)
LEMMA ExecuteBuf ==
  ASSUME Pipeline, CInv, FInv, prev.set \in BOOLEAN,
         NEW n, NEW S, NEW P, NEW order, Steps(n, S, P, order)
  PROVE  BufHolds'
<1>1. /\ UNCHANGED <<mode, life, gpu, real, kv, fed>> /\ rows' = order /\ InRows(order)
      /\ \A q, p : Tok(q, p)' = Tok(q, p)
      /\ \A t, q, p : Proposed(t, q, p)' <=> Proposed(t, q, p)
  BY ExecuteFrame
<1>2. \A q : KvThen(q)' = KvThen(q) /\ RealThen(q)' = RealThen(q)
  BY ExecuteNumbers
<1>3. \A p, q : ResultOf(p, q)' <=> ResultOf(p, q)
  BY ExecuteNumbers
<1>4. PICK pv : pv = prev'
  OBVIOUS
<1>5. PICK b : b = buf'
  OBVIOUS
<1>6. pv.set \in BOOLEAN /\ (~ mode.async => ~ pv.set)
  <2>1. prev'.set = prev.set
    BY UpdatedShape
  <2> QED BY <1>4, <2>1 DEF FInv, SyncRows
<1>7. ASSUME NEW i \in DOMAIN order
      PROVE  /\ b.start[i] \in Nat /\ b.start[i] <= KvThen(order[i]) /\ b.discard[i] \in BOOLEAN
             /\ b.n[i] \in Nat /\ b.spec[i] \in Nat /\ b.spec[i] < b.n[i] /\ b.spec[i] <= mode.spec
             /\ IF b.discard[i] THEN b.start[i] + (b.n[i] - b.spec[i]) < RealThen(order[i]) /\ b.spec[i] = 0
                                ELSE b.start[i] + (b.n[i] - b.spec[i]) = RealThen(order[i])
             /\ Len(b.n) = Len(order) /\ Numbers(b.n, Len(order)) /\ DOMAIN b.spec = 1..Len(order)
  BY <1>5, PreparedPart
<1>8. ASSUME NEW i \in DOMAIN order
      PROVE  /\ i \in Common(order, pv) => /\ b.n[i] - b.spec[i] = 1 /\ pv.idx[order[i]] \in Nat
                                           /\ ResultOf(pv.idx[order[i]], order[i]) /\ ~ b.discard[i]
             /\ i \notin Common(order, pv) =>
                  /\ \A j \in 1..(b.n[i] - b.spec[i]) :
                       b.ids[Sum(b.n, i - 1) + j] = Tok(order[i], b.start[i] + j - 1)
                  /\ \A j \in (b.n[i] - b.spec[i]) + 1..b.n[i] :
                       \/ Proposed(b.ids[Sum(b.n, i - 1) + j], order[i], b.start[i] + j - 1)
                       \/ mode.async /\ b.ids[Sum(b.n, i - 1) + j] = Hole
  BY <1>4, <1>5, ExecuteRow
<1>9. CASE order # <<>>
  <2>1. PICK k : k \in DOMAIN queue' /\ queue'[k] = InputOp(order, buf', prev')
    BY <1>9, ExecuteFrame
  <2>2. Prepares(order, pv)'
    <3>1. DOMAIN order = 1..Len(order) /\ Len(order) \in Nat /\ 1 \in DOMAIN order
      <4>1. DOMAIN order = 1..Len(order) /\ Len(order) \in Nat
        BY <1>1 DEF InRows
      <4>2. Len(order) # 0
        <5>1. S \subseteq Reqs /\ order \in SetToSeqs(S)
          BY ExecuteFrame DEF Steps
        <5>2. PICK q : q \in S /\ Within(q, order)
          BY <1>9, <5>1, OrderRows
        <5> QED BY <4>1, <5>2 DEF Within
      <4> QED BY <4>1, <4>2
    <3>2. Len(b.n) = Len(order) /\ Numbers(b.n, Len(order)) /\ DOMAIN b.spec = 1..Len(order)
      BY <1>7, <3>1
    <3>3. Numbers(b.spec, Len(order))
      BY <1>7, <3>1, <3>2 DEF Numbers
    <3>4. \A i \in 1..Len(order) : b.spec[i] < b.n[i]
      BY <1>7, <3>1
    <3>5. \A i \in Common(order, pv) : b.n[i] - b.spec[i] = 1 /\ pv.idx[order[i]] \in Nat
      BY <1>8 DEF Common
    <3> QED BY <1>5, <3>1, <3>2, <3>3, <3>4, <3>5 DEF Prepares
  <2>3. ASSUME NEW i \in DOMAIN order
        PROVE  InputRow(pv, i)'
    <3>1. PICK q : q = order[i]
      OBVIOUS
    <3>2. /\ b.start[i] \in Nat /\ b.start[i] <= KvThen(q)' /\ b.discard[i] \in BOOLEAN
          /\ b.spec[i] <= mode'.spec
          /\ IF b.discard[i] THEN b.start[i] + (b.n[i] - b.spec[i]) < RealThen(q)' /\ b.spec[i] = 0
                             ELSE b.start[i] + (b.n[i] - b.spec[i]) = RealThen(q)'
      <4>1. mode'.spec = mode.spec /\ KvThen(q)' = KvThen(q) /\ RealThen(q)' = RealThen(q)
        BY <1>1, <1>2
      <4> QED BY <1>7, <3>1, <4>1
    <3>3. CASE i \in Common(order, pv)
      <4>1. ResultOf(pv.idx[q], q)' /\ ~ b.discard[i]
        BY <1>3, <1>8, <3>1, <3>3
      <4> QED BY <1>1, <1>5, <3>1, <3>2, <3>3, <4>1 DEF InputRow
    <3>4. CASE i \notin Common(order, pv)
      <4>1. \A j \in 1..(b.n[i] - b.spec[i]) : b.ids[Sum(b.n, i - 1) + j] = Tok(q, b.start[i] + j - 1)'
        BY <1>1, <1>8, <3>1, <3>4
      <4>2. \A j \in (b.n[i] - b.spec[i]) + 1..b.n[i] :
              \/ Proposed(b.ids[Sum(b.n, i - 1) + j], q, b.start[i] + j - 1)'
              \/ mode'.async /\ b.ids[Sum(b.n, i - 1) + j] = Hole
        BY <1>1, <1>8, <3>1, <3>4
      <4> QED BY <1>1, <1>5, <3>1, <3>2, <3>4, <4>1, <4>2 DEF InputRow
    <3> QED BY <3>3, <3>4
  <2>4. BufFrom(pv)'
    <3>1. pv.set \in BOOLEAN /\ (~ mode'.async => ~ pv.set)
      BY <1>1, <1>6
    <3> QED BY <1>1, <1>4, <2>1, <2>2, <2>3, <3>1 DEF BufFrom
  <2> QED BY <2>4 DEF BufHolds
<1>10. CASE order = <<>>
  <2>1. ~ HasInput'
    BY <1>10, ExecuteFrame
  <2> QED BY <2>1 DEF BufHolds
<1> QED BY <1>9, <1>10

(* execute_model makes no token.                                              *)
LEMMA ExecuteExist ==
  ASSUME Pipeline, CInv, FInv, NEW n, NEW S, NEW P, NEW order, Steps(n, S, P, order)
  PROVE  Exist' /\ Own' /\ EngSpecs'
<1>1. /\ UNCHANGED <<mode, life, gpu, real, kv, fed>> /\ Ready
      /\ \A q, f, k : Toks(q, f, k)' = Toks(q, f, k)
  BY ExecuteFrame
<1>2. mode.spec \in Nat
  BY DEF CInv, Batch
<1>3. ASSUME NEW q \in Reqs
      PROVE  /\ eng'[q].outs = eng[q].outs
             /\ q \in S => (Live(q) \/ eng[q].st = "new") /\ eng'[q].st = "running"
             /\ q \notin S => eng'[q] = eng[q] \/ (Live(q) /\ eng'[q].st = "preempted" /\ eng'[q].specs = <<>>)
  BY AdvancedShape, AdvancedNumbers DEF CInv, EngTyped, Live
<1>4. Exist'
  <2>1. ASSUME NEW q \in Reqs
        PROVE  /\ real[q] \in Nat /\ kv[q] \in Nat /\ kv[q] < real[q]
               /\ Live(q)' => real[q] = prompt[q] + Len(eng'[q].outs) + AllGot(q)'
               /\ eng'[q].st = "new" => eng'[q] = Fresh /\ real[q] = prompt[q]
    <3>1. AllGot(q)' = AllGot(q)
      BY ExecuteNumbers
    <3>2. /\ real[q] \in Nat /\ kv[q] \in Nat /\ kv[q] < real[q]
          /\ Live(q) => real[q] = prompt[q] + Len(eng[q].outs) + AllGot(q)
          /\ eng[q].st = "new" => eng[q] = Fresh /\ real[q] = prompt[q]
      BY DEF FInv, Exist
    <3>3. eng'[q].st = "new" => eng'[q] = eng[q]
      BY <1>3
    <3>4. ASSUME eng[q].st = "new"
          PROVE  real[q] = prompt[q] + Len(eng[q].outs) + AllGot(q)
      <4>1. \A j \in DOMAIN outputs : ~ Within(q, outputs[j].rows)
        BY <3>4 DEF CInv, Lives
      <4>2. \A j \in DOMAIN outputs : Got(outputs[j], q) = 0
        BY <4>1 DEF Got, Samples
      <4>3. Len(outputs) \in 0..1 /\ DOMAIN outputs = 1..Len(outputs) /\ ~ Unbooked(q)
        BY <1>1, OneOutput, ReadyDevice
      <4>4. AllGot(q) = 0 + 0 + 0
        <5>1. CASE Len(outputs) = 0
          BY <4>3, <5>1 DEF AllGot
        <5>2. CASE Len(outputs) = 1
          <6>1. Got(outputs[1], q) = 0
            BY <4>2, <4>3, <5>2
          <6> QED BY <4>3, <5>2, <6>1 DEF AllGot
        <5> QED BY <4>3, <5>1, <5>2
      <4>5. Len(eng[q].outs) = 0
        BY <3>2, <3>4, ListedLiterals DEF Fresh
      <4>6. \A x \in Nat : x = x + 0 + (0 + 0 + 0)
        OBVIOUS
      <4> QED BY <3>2, <3>4, <4>4, <4>5, <4>6
    <3>5. Live(q)' => Live(q) \/ eng[q].st = "new"
      BY <1>3 DEF Live
    <3> QED BY <1>3, <3>1, <3>2, <3>3, <3>4, <3>5
  <2> QED BY <1>1, <2>1 DEF FInv, Exist
<1>5. Own'
  <2>1. \A q \in Reqs : eng'[q].outs = eng[q].outs
    BY <1>3
  <2> QED BY <1>1, <2>1 DEF FInv, Own
<1>6. EngSpecs'
  <2> SUFFICES ASSUME NEW q \in Reqs, Live(q)'
               PROVE  /\ Len(eng'[q].specs) <= mode.spec
                      /\ mode.async => \A j \in 1..Len(eng'[q].specs) : eng'[q].specs[j] = Hole
    BY <1>1 DEF EngSpecs
  <2> DEFINE Ok(s) == Len(s) <= mode.spec /\ (mode.async => \A j \in 1..Len(s) : s[j] = Hole)
  <2>1. Ok(<<>>)
    <3>1. Len(<<>>) = 0 /\ 0 <= mode.spec
      BY <1>2, ListedLiterals
    <3> QED BY <3>1
  <2>2. Ok(Holes(mode.spec))
    <3>1. Len(Holes(mode.spec)) = mode.spec /\ mode.spec <= mode.spec
      BY <1>2, ListedLiterals
    <3>2. \A j \in 1..mode.spec : Holes(mode.spec)[j] = Hole
      BY DEF Holes
    <3> QED BY <3>1, <3>2
  <2>3. CASE q \in S
    <3>1. eng'[q].specs \in {Holes(mode.spec), <<>>}
      BY <2>3, AdvancedNumbers
    <3>2. Ok(eng'[q].specs)
      BY <2>1, <2>2, <3>1
    <3> QED BY <3>2
  <2>4. CASE q \notin S
    <3>1. (eng'[q] = eng[q] /\ Live(q)) \/ eng'[q].specs = <<>>
      BY <1>3, <2>4 DEF Live
    <3>2. Live(q) => Ok(eng[q].specs)
      BY DEF FInv, EngSpecs
    <3>3. Ok(eng'[q].specs)
      BY <2>1, <3>1, <3>2
    <3> QED BY <3>3
  <2> QED BY <2>3, <2>4
<1> QED BY <1>4, <1>5, <1>6

(* And the device has read nothing since.                                     *)
LEMMA ExecuteFedHolds ==
  ASSUME Pipeline, CInv, FInv, NEW n, NEW S, NEW P, NEW order, Steps(n, S, P, order)
  PROVE  FedHolds' /\ SyncBound'
<1>1. /\ UNCHANGED <<mode, life, gpu, real, kv, fed>> /\ Ready /\ (Sampling' <=> Sampling)
      /\ \A q, p : Tok(q, p)' = Tok(q, p)
      /\ \A q : ~ Unbooked(q)'
  BY ExecuteFrame
<1>2. fed # NoInput => Sampling /\ mode.async /\ mode.spec = 0
  BY <1>1, ReadyDevice
<1>3. \A i : RowFed(i)' <=> RowFed(i)
  BY <1>1 DEF RowFed, Guess, Tok
<1>4. FedHolds'
  BY <1>1, <1>2, <1>3 DEF FInv, FedHolds
<1>5. SyncBound'
  <2> SUFFICES ASSUME ~ mode.async, NEW j \in DOMAIN outputs'
               PROVE  outputs'[j].rows = <<>>
    BY <1>1 DEF SyncBound
  <2>1. outputs = <<>> /\ Len(outputs) = 0 /\ DOMAIN outputs = 1..Len(outputs)
    BY <1>1, OneOutput
  <2>2. order = <<>>
    <3>1. order # <<>> => outputs' = outputs
      BY ExecuteFrame
    <3> QED BY <2>1, <3>1
  <2>3. PICK x : outputs' = Append(outputs, x) /\ x.rows = <<>>
    BY <2>2, ExecuteFrame
  <2>4. DOMAIN outputs' = 1..(Len(outputs) + 1) /\ outputs'[Len(outputs) + 1] = x
    BY <2>3, OutputAppended
  <2>5. j = 1
    BY <2>1, <2>4
  <2> QED BY <2>1, <2>3, <2>4, <2>5
<1> QED BY <1>4, <1>5

(* The engine counts as computed what the prepared step will compute.         *)
LEMMA ExecuteComputed ==
  ASSUME Pipeline, CInv, FInv, NEW n, NEW S, NEW P, NEW order, Steps(n, S, P, order)
  PROVE  Computed'
<1>1. /\ UNCHANGED <<mode, life, gpu, real, kv, fed>> /\ Ready /\ S \subseteq Reqs
      /\ rows' = order /\ InRows(order) /\ \A q : Within(q, order) <=> q \in S
  BY ExecuteFrame
<1> SUFFICES ASSUME NEW q \in Reqs, Live(q)'
             PROVE  IF eng'[q].st = "preempted" THEN eng'[q].computed = 0 /\ eng'[q].specs = <<>>
                    ELSE /\ eng'[q].computed - Refused(q)' = End(q)' /\ End(q)' >= 1
                         /\ mode.async /\ eng'[q].hold > 0 =>
                              eng'[q].computed = (NumTokens(q)' + eng'[q].hold) - 1
  BY <1>1 DEF Computed
<1>2. Refused(q)' = AllRejects(q) + 0
  BY ExecuteNumbers
<1>3. NumTokens(q)' = NumTokens(q)
  BY AdvancedShape DEF NumTokens
<1>4. CASE q \in S
  <2>1. eng'[q].st = "running" /\ (Live(q) \/ eng[q].st = "new")
    BY <1>4, AdvancedShape DEF CInv, EngTyped, Live
  <2>2. Untold(q) = AllRejects(q) /\ Untold(q) \in Int /\ eng[q].hold \in Int
    BY <1>1, <2>1, ReadyLengths
  <2>3. PICK i : i = PlaceIn(order, q) /\ i \in DOMAIN order /\ order[i] = q
    BY <1>1, <1>4, PlaceOfRow
  <2>4. End(q)' = buf'.start[i] + buf'.n[i] /\ buf'.start[i] = req'[q].computed /\ buf'.n[i] = n[q]
        /\ buf'.start[i] \in Nat
    <3>1. PICK b : b = buf'
      OBVIOUS
    <3>2. End(order[i])' = buf'.start[i] + buf'.n[i]
      BY <2>3, ExecuteNumbers
    <3>3. End(q)' = buf'.start[i] + buf'.n[i]
      BY <2>3, <3>2
    <3>4. b.start[i] = req'[q].computed /\ b.n[i] = n[q] /\ b.start[i] \in Nat
      BY <2>3, <3>1, PreparedPart
    <3> QED BY <3>1, <3>3, <3>4
  <2>5. req'[q].computed = eng[q].computed - Untold(q) /\ n[q] \in Nat /\ n[q] >= 1
        /\ eng[q].computed \in Int
    BY <1>1, <1>4, <2>1, UpdatedRows, StepNumbers, ReadyStart
  <2>6. eng'[q].computed = eng[q].computed + n[q] /\ eng'[q].hold = eng[q].hold + Extra(n, q)
    BY <1>4, AdvancedNumbers, AdvancedShape
  <2>7. PICK c, u, k, h, a, e, d : /\ c = eng[q].computed /\ u = Untold(q) /\ k = n[q] /\ h = eng[q].hold
                             /\ a = NumTokens(q) /\ e = Extra(n, q) /\ d = Len(Specs(q, n[q]))
    OBVIOUS
  <2>8. c \in Int /\ u \in Int /\ k \in Nat /\ k >= 1 /\ h \in Int /\ c - u \in Nat /\ a \in Nat /\ d \in Nat
    <3>1. a \in Nat
      <4>1. Len(eng[q].outs) \in Nat /\ prompt[q] \in Nat
        BY RunnerAssumption DEF CInv, EngTyped, Listed
      <4> QED BY <2>7, <4>1 DEF NumTokens
    <3>2. d \in Nat
      BY <1>4, <2>7, StepNumbers
    <3> QED BY <2>2, <2>4, <2>5, <2>7, <3>1, <3>2
  <2>9. eng'[q].computed - Refused(q)' = End(q)' /\ End(q)' >= 1
    <3>1. eng'[q].computed = c + k /\ Refused(q)' = u + 0 /\ End(q)' = (c - u) + k
      BY <1>2, <2>2, <2>4, <2>5, <2>6, <2>7
    <3>2. (c + k) - (u + 0) = (c - u) + k /\ (c - u) + k >= 1
      BY <2>8
    <3> QED BY <3>1, <3>2
  <2>10. mode.async /\ h > 0 => c = (a + h) - 1
    BY <1>1, <2>1, <2>7, ReadyStart
  <2>11. ASSUME mode.async, h + e > 0
         PROVE  c + k = (a + (h + e)) - 1
    <3>1. CASE Partial(n, q)
      <4>1. e = 0
        BY <2>7, <3>1 DEF Extra
      <4>2. h > 0 /\ c + k < a + h
        BY <2>7, <2>8, <2>11, <3>1, <4>1 DEF Partial
      <4>3. c = (a + h) - 1
        BY <2>10, <2>11, <4>2
      <4> QED BY <2>8, <4>2, <4>3
    <3>2. CASE ~ Partial(n, q)
      <4>1. e = 1 + d
        BY <2>7, <2>11, <3>2 DEF Extra
      <4>2. c + k - d = a + h
        <5>1. n[q] <= NumNew(q) /\ prompt[q] \in Nat /\ n[q] \in Nat
          BY <1>4, AdvancedShape
        <5> QED BY <2>7, <3>2, <5>1, SpecsLength
      <4> QED BY <2>8, <4>1, <4>2
    <3> QED BY <3>1, <3>2
  <2>12. mode.async /\ eng'[q].hold > 0 => eng'[q].computed = (NumTokens(q)' + eng'[q].hold) - 1
    BY <1>3, <2>6, <2>7, <2>11
  <2> QED BY <2>1, <2>9, <2>12
<1>5. CASE q \notin S
  <2>1. CASE eng'[q] = eng[q]
    <3>1. Live(q)
      BY <2>1 DEF Live
    <3>2. End(q)' = KvThen(q)
      BY <1>1, <1>5, ExecuteNumbers
    <3>3. End(q) = KvThen(q) /\ Refused(q) = AllRejects(q) + 0
      BY <1>1, ReadyDevice
    <3>4. IF eng[q].st = "preempted" THEN eng[q].computed = 0 /\ eng[q].specs = <<>>
          ELSE /\ eng[q].computed - Refused(q) = End(q) /\ End(q) >= 1
               /\ mode.async /\ eng[q].hold > 0 => eng[q].computed = (NumTokens(q) + eng[q].hold) - 1
      BY <3>1 DEF FInv, Computed
    <3> QED BY <1>2, <1>3, <2>1, <3>2, <3>3, <3>4
  <2>2. CASE eng'[q] # eng[q]
    BY <1>5, <2>2, AdvancedNumbers
  <2> QED BY <2>1, <2>2
<1> QED BY <1>4, <1>5

(* With asynchronous scheduling: the rows and the last samples stay where     *)
(* they were, or move with their rows.                                        *)
LEMMA ExecuteAsync ==
  ASSUME Pipeline, CInv, FInv, NEW n, NEW S, NEW P, NEW order, Steps(n, S, P, order)
  PROVE  AsyncRows' /\ LastSamples' /\ LastIdx'
<1>1. /\ UNCHANGED <<mode, life, gpu, real, kv, fed>> /\ Ready /\ S \subseteq Reqs
      /\ rows' = order /\ InRows(order) /\ \A q : Within(q, order) <=> q \in S
      /\ \A q, f, k : Toks(q, f, k)' = Toks(q, f, k)
  BY ExecuteFrame
<1>2. \A i \in DOMAIN order : order[i] \in S /\ order[i] \in Reqs
  BY <1>1, PlaceOfRow
<1>3. ASSUME NEW i \in DOMAIN order
      PROVE  ems' # NoStep
  <2>1. order # <<>>
    BY <1>3
  <2> QED BY <2>1, ExecuteFrame
<1>4. AsyncRows'
  <2> SUFFICES ASSUME mode.async, NEW i \in DOMAIN order, NEW q, q = order[i], buf'.discard[i]
               PROVE  WholeRow(q)'
    BY <1>1, <1>3 DEF AsyncRows
  <2>1. q \in S /\ q \in Reqs
    BY <1>2
  <2>2. Partial(n, q)
    <3>1. PICK b : b = buf'
      OBVIOUS
    <3>2. b.discard[i] <=> Partial(n, q)
      BY <3>1, PreparedPart
    <3> QED BY <3>1, <3>2
  <2>3. ~ (prev'.set /\ q \in DOMAIN prev'.idx)
    BY <2>1, <2>2, CommonNumbers
  <2>4. /\ req'[q].row = Toks(q, 0, prompt[q] + Len(eng[q].outs))
        /\ eng[q].hold = 0 /\ Len(req'[q].out) = Len(eng[q].outs)
    BY <2>1, <2>3, RowThen
  <2>5. eng'[q].outs = eng[q].outs /\ eng'[q].hold = eng[q].hold + Extra(n, q)
    BY <2>1, AdvancedShape
  <2>6. Extra(n, q) = 0
    BY <2>2 DEF Extra
  <2>7. eng'[q].hold = 0
    BY <2>4, <2>5, <2>6
  <2>8. Toks(q, 0, prompt[q] + Len(eng[q].outs))' = Toks(q, 0, prompt[q] + Len(eng[q].outs))
    BY <1>1, <2>5
  <2> QED BY <2>4, <2>5, <2>7, <2>8 DEF WholeRow
<1>5. LastSamples'
  <2> SUFFICES ASSUME NEW q \in Reqs, Recent(q)'
               PROVE  ResultOf(prev.idx[q], q)'
    <3>1. ~ (HasInput' /\ ems' = NoStep)
      <4>1. CASE order = <<>>
        BY <4>1, ExecuteFrame
      <4>2. CASE order # <<>>
        BY <4>2, ExecuteFrame
      <4> QED BY <4>1, <4>2
    <3> QED BY <3>1 DEF LastSamples
  <2>1. prev'.set /\ q \in DOMAIN prev'.idx
    BY DEF Recent
  <2>2. q \in S
    <3>1. prev' = Forget(SchedOut(n)) /\ DOMAIN n = S
      BY AdvancedShape DEF Steps, ExecuteModel
    <3>2. q \in Kept(SchedOut(n))
      BY <2>1, <3>1, ForgetKeeps
    <3> QED BY <3>1, <3>2 DEF Kept, SchedOut
  <2>3. ResultOf(prev.idx[q], q) /\ prev'.idx[q] = prev.idx[q]
    BY <2>1, <2>2, CommonNumbers
  <2>4. PICK p : p = prev.idx[q]
    OBVIOUS
  <2>5. ResultOf(p, q)'
    BY <2>3, <2>4, ExecuteNumbers
  <2>6. p = prev'.idx[q]
    BY <2>3, <2>4
  <2> QED BY <2>5, <2>6
<1>6. LastIdx'
  BY <1>1, <1>3 DEF LastIdx
<1> QED BY <1>4, <1>5, <1>6

(* Without it: the rows and the drafts are the requests' own.                 *)
LEMMA ExecuteSync ==
  ASSUME Pipeline, CInv, FInv, NEW n, NEW S, NEW P, NEW order, Steps(n, S, P, order)
  PROVE  SyncRows'
<1>1. /\ UNCHANGED <<mode, life, gpu, real, kv, fed>> /\ Ready /\ S \subseteq Reqs
      /\ rows' = order /\ InRows(order) /\ \A q : Within(q, order) <=> q \in S
      /\ \A q, f, k : Toks(q, f, k)' = Toks(q, f, k)
      /\ \A q, s, p : DraftsOf(q, s, p)' <=> DraftsOf(q, s, p)
      /\ \A q : ~ Unbooked(q)'
  BY ExecuteFrame
<1> SUFFICES ASSUME ~ mode.async PROVE SyncRows'
  BY <1>1 DEF SyncRows
<1>2. ~ prev'.set
  <2>1. prev'.set = prev.set
    BY UpdatedShape
  <2> QED BY <2>1 DEF FInv, SyncRows
<1>3. ASSUME NEW k \in DOMAIN outputs', NEW q
      PROVE  ~ Samples(outputs'[k], q)
  <2>1. outputs = <<>> /\ Len(outputs) = 0 /\ DOMAIN outputs = 1..Len(outputs)
    BY <1>1, OneOutput
  <2>2. order = <<>>
    <3>1. order # <<>> => outputs' = outputs
      BY ExecuteFrame
    <3> QED BY <1>3, <2>1, <3>1
  <2>3. PICK x : outputs' = Append(outputs, x) /\ x.rows = <<>>
    BY <2>2, ExecuteFrame
  <2>4. DOMAIN outputs' = 1..(Len(outputs) + 1) /\ outputs'[Len(outputs) + 1] = x
    BY <2>3, OutputAppended
  <2>5. outputs'[k] = x
    BY <1>3, <2>1, <2>4
  <2>6. ~ Samples(x, q)
    BY <2>3 DEF Samples, Within
  <2> QED BY <2>5, <2>6
<1>4. ASSUME NEW q \in Reqs, NEW p
      PROVE  DraftsOf(q, <<>>, p)
  <2>1. mode.spec \in Nat /\ Len(<<>>) = 0
    BY ListedLiterals DEF CInv, Batch
  <2>2. 0 <= mode.spec
    BY <2>1
  <2> QED BY <2>1, <2>2 DEF DraftsOf
<1>5. ASSUME NEW q \in Reqs, Live(q)'
      PROVE  /\ req'[q].out = Toks(q, prompt[q], Len(req'[q].out))
             /\ Within(q, order) => req'[q].row = Toks(q, 0, prompt[q] + Len(req'[q].out))
             /\ DraftsOf(q, eng'[q].specs, NumTokens(q)')
  <2>1. eng'[q].outs = eng[q].outs /\ NumTokens(q)' = NumTokens(q)
    BY AdvancedShape DEF NumTokens
  <2>2. CASE q \in S
    <3>1. /\ req'[q].row = Toks(q, 0, prompt[q] + Len(eng[q].outs))
          /\ Len(req'[q].out) = Len(eng[q].outs)
          /\ req'[q].out = Toks(q, prompt[q], Len(eng[q].outs))
      BY <1>2, <2>2, RowThen
    <3>2. eng'[q].specs = <<>>
      BY <2>2, AdvancedNumbers
    <3> QED BY <1>1, <1>4, <3>1, <3>2
  <2>3. CASE q \notin S
    <3>1. Live(q)
      BY <1>5, <2>3, AdvancedShape DEF Live
    <3>2. q \notin told
      BY <3>1 DEF CInv, Lives
    <3>3. req'[q].out = req[q].out
      BY <2>3, <3>2, UpdatedRows
    <3>4. eng'[q].specs \in {eng[q].specs, <<>>}
      BY <2>3, AdvancedShape
    <3>5. req[q].out = Toks(q, prompt[q], Len(req[q].out)) /\ DraftsOf(q, eng[q].specs, NumTokens(q))
      BY <3>1 DEF FInv, SyncRows
    <3>6. DraftsOf(q, eng'[q].specs, NumTokens(q))
      BY <1>4, <3>4, <3>5
    <3> QED BY <1>1, <2>1, <2>3, <3>3, <3>5, <3>6
  <2> QED BY <2>2, <2>3
<1>6. ASSUME NEW q \in Reqs, Live(q)'
      PROVE  (/\ req[q].out = Toks(q, prompt[q], Len(req[q].out))
              /\ Within(q, rows) => req[q].row = Toks(q, 0, prompt[q] + Len(req[q].out))
              /\ DraftsOf(q, eng[q].specs, NumTokens(q)))'
  <2>1. PICK r, s, t : r = req'[q] /\ s = eng'[q].specs /\ t = NumTokens(q)'
    OBVIOUS
  <2>2. /\ r.out = Toks(q, prompt[q], Len(r.out))
        /\ Within(q, order) => r.row = Toks(q, 0, prompt[q] + Len(r.out))
        /\ DraftsOf(q, s, t)
    BY <1>5, <1>6, <2>1
  <2>3. /\ Toks(q, prompt[q], Len(r.out))' = Toks(q, prompt[q], Len(r.out))
        /\ Toks(q, 0, prompt[q] + Len(r.out))' = Toks(q, 0, prompt[q] + Len(r.out))
        /\ DraftsOf(q, s, t)' <=> DraftsOf(q, s, t)
    BY <1>1
  <2>4. DraftsOf(q, eng[q].specs, NumTokens(q))'
    BY <2>1, <2>2, <2>3
  <2> QED BY <1>1, <2>1, <2>2, <2>3, <2>4
<1> QED BY <1>1, <1>2, <1>3, <1>6 DEF SyncRows

(* A step leaves what the invariant says, whatever it prepares.                *)
LEMMA ExecuteFed ==
  ASSUME Pipeline, CInv, FInv, prev.set \in BOOLEAN,
         NEW n, NEW S, NEW P, NEW order, Steps(n, S, P, order)
  PROVE  FInv'
BY ExecuteBuf, ExecuteExist, ExecuteFedHolds, ExecuteComputed, ExecuteAsync, ExecuteSync DEF FInv

-----------------------------------------------------------------------------
(* The whole specification.                                                   *)

(* prev_req_id_to_index is there or not.                                      *)
LEMMA NextSet ==
  ASSUME Pipeline, CInv, prev.set \in BOOLEAN, [Next]_vars
  PROVE  prev'.set \in BOOLEAN
<1>1. CASE Schedule
  <2>1. PICK S, n, P, order : Steps(n, S, P, order)
    BY <1>1 DEF Schedule, Steps, Scheduled
  <2> QED BY <2>1, UpdatedShape
<1>2. CASE SampleTokensAsync
  BY <1>2 DEF SampleTokensAsync
<1>3. CASE SampleTokens \/ FinishSync \/ GpuInput \/ CopyCounts \/ TakeOutput \/ Idle \/ UNCHANGED vars
  BY <1>3 DEF SampleTokens, FinishSync, GpuInput, CopyCounts, TakeOutput, Idle, vars
<1>4. ASSUME NEW acc, GpuSample(acc) PROVE prev' = prev
  BY <1>4 DEF GpuSample
<1>5. ASSUME NEW q \in Reqs, Abort(q) \/ Resubmit(q) PROVE prev' = prev
  BY <1>5 DEF Abort, Resubmit
<1> QED BY <1>1, <1>2, <1>3, <1>4, <1>5 DEF Next

(* Every step keeps the invariant.                                            *)
LEMMA NextFed ==
  ASSUME Pipeline, CInv, PInv, Steady, FInv, prev.set \in BOOLEAN, [Next]_vars
  PROVE  FInv'
<1>1. CASE Schedule
  <2>1. PICK S, n, P, order : Steps(n, S, P, order)
    BY <1>1 DEF Schedule, Steps, Scheduled
  <2> QED BY <2>1, ExecuteFed
<1>2. CASE SampleTokensAsync
  BY <1>2, SampleAsyncFed
<1>3. CASE SampleTokens
  BY <1>3, SampleFed
<1>4. CASE FinishSync
  BY <1>4, FinishFed
<1>5. CASE GpuInput
  BY <1>5, GpuInputFed
<1>6. ASSUME NEW k \in 1..Cardinality(Reqs), NEW acc \in [1..k -> 0..mode.spec], GpuSample(acc)
      PROVE  FInv'
  BY <1>6, GpuSampleFed
<1>7. CASE CopyCounts
  BY <1>7, CopyCountsFed
<1>8. CASE TakeOutput
  BY <1>8, TakeFed
<1>9. ASSUME NEW a \in Reqs, Abort(a) \/ Resubmit(a)
      PROVE  FInv'
  BY <1>9, AbortFed, ResubmitFed
<1>10. CASE UNCHANGED vars
  BY <1>10, FrameFed DEF vars, OnDevice
<1> QED BY <1>1, <1>2, <1>3, <1>4, <1>5, <1>6, <1>7, <1>8, <1>9, <1>10 DEF Next, Idle

(* The device is fed each request's own tokens, at the places they have there,  *)
(* and nothing else: for any number of requests, prompt lengths and drafts, and  *)
(* whatever the order of scheduling, sampling, copying, finishing and moving.   *)
THEOREM DeviceIsFedTheRequestsTokens == Spec => []FedTheRequestsTokens
<1> DEFINE Inv == /\ Pipeline /\ CInv /\ PInv /\ Steady /\ FInv
                  /\ prev.set \in BOOLEAN /\ ~ failed
<1>1. Init => Inv
  <2>1. Init => Steady /\ prev.set \in BOOLEAN /\ ~ failed
    BY DEF Init, Steady
  <2> QED BY <2>1, InitPipeline, InitCounts, InitPositions, InitFed
<1>2. Inv /\ [Next]_vars => Inv'
  BY NextPipeline, NextCounts, NextPositions, NextSteady, NextFed, NextSet, NextFinds
<1>3. Inv => FedTheRequestsTokens
  BY DEF FInv, FedHolds, FedTheRequestsTokens
<1> HIDE DEF Inv
<1> QED BY <1>1, <1>2, <1>3, PTL DEF Spec
=============================================================================
