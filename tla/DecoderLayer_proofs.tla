------------------------ MODULE DecoderLayer_proofs ------------------------
(* The computations of a decoder layer, for every size of it. *)
(* *)
(* The attention of one rank: after every launch each token of the batch has *)
(* seen the keys its window holds, each once, and no key of another row, of *)
(* the future or of an unwritten block.  The argument: the cache keeps what *)
(* was written at every position of a running row, the binary search of a *)
(* program finds the row its block of tokens belongs to, the tiles of a row *)
(* are cut so that each key falls into one, and the programs that store a *)
(* token are exactly one. *)
(* *)
(* The layers of all ranks: once the file is loaded, the terms the ranks add *)
(* up are those of the model, each once.  The argument: every shard that has *)
(* come is where the forward pass looks for it, the heads of a rank are the *)
(* same in every layer they meet in, and the ranks of a reduction share the *)
(* heads out. *)
(* *)
(* The routed experts: when a layer is done a token has the sum over its own *)
(* experts.  The argument: the table has a block for every expert that is not *)
(* ignored and room for every block, the grid reaches every block of rows and *)
(* of columns, so each product is stored by the program of its cell and no *)
(* other, and the memory two intermediates share holds what the next stage *)
(* reads. *)
EXTENDS ShardedLayers, UnifiedAttention, FusedExperts, SequenceTheorems, FiniteSetTheorems, WellFoundedInduction, TLAPS

(* Sums over finite sets, whatever order the folds of the library take the *)
(* elements in. *)

(* A set of numbers has a least one. *)
LEMMA NatLeast ==
  ASSUME NEW T, T \subseteq Nat, T # {}
  PROVE \E x \in T : \A y \in T : x <= y
<1>1. PICK x \in T : \A y \in T : ~ (<<y, x>> \in OpToRel(<, Nat))
  BY NatLessThanWellFounded, WFMin
<1>2. ASSUME NEW y \in T, y < x
      PROVE  FALSE
  <2>1. <<y, x>> \in OpToRel(<, Nat)  BY <1>2 DEF OpToRel
  <2> QED BY <1>1, <2>1
<1> QED BY <1>2

(* The recursion of a sum over a set, element by element: the elements are *)
(* taken in the order g; the folds of the library take the greatest (sequences) *)
(* or any (sets). *)
Adding(f, v, S, g) ==
  f = [t \in SUBSET S |-> IF t = {} THEN 0 ELSE v[g[t]] + f[t \ {g[t]}]]
(* The order g names an element of every set. *)
Picks(g, S) == \A t \in SUBSET S : t # {} => g[t] \in t

(* A set without one of its elements is smaller. *)
LEMMA SmallerSet ==
  ASSUME NEW S, IsFiniteSet(S), NEW t \in SUBSET S, NEW x \in t
  PROVE  /\ t \ {x} \in SUBSET S /\ Cardinality(t) \in Nat
         /\ Cardinality(t \ {x}) = Cardinality(t) - 1 /\ Cardinality(t) - 1 \in Nat
<1>1. IsFiniteSet(t)  BY FS_Subset
<1>2. IsFiniteSet(t \ {x}) /\ Cardinality(t \ {x}) = Cardinality(t) - 1
  BY <1>1, FS_RemoveElement
<1>3. Cardinality(t) \in Nat /\ Cardinality(t \ {x}) \in Nat
  BY <1>1, <1>2, FS_CardinalityType
<1> QED BY <1>2, <1>3

(* Such a sum exists, and so does a list (j) of the elements' lists: were there *)
(* a least size up to which it does not, the one for the sizes below would *)
(* extend to it. *)
Empty(j) == IF j THEN <<>> ELSE 0
With(j, all, one) == IF j THEN all \o one ELSE one + all
Unfolds(f, j, v, S, g) ==
  f = [t \in SUBSET S |-> IF t = {} THEN Empty(j) ELSE With(j, f[t \ {g[t]}], v[g[t]])]

LEMMA UnfoldingExists ==
  ASSUME NEW S, IsFiniteSet(S), NEW j, NEW v, NEW g, Picks(g, S)
  PROVE  \E f : Unfolds(f, j, v, S, g)
<1> DEFINE Up(m) == {t \in SUBSET S : Cardinality(t) <= m}
           Some(m) == \E f : f = [t \in Up(m) |-> IF t = {} THEN Empty(j) ELSE With(j, f[t \ {g[t]}], v[g[t]])]
           T == {m \in Nat : ~ Some(m)}
<1>0. Cardinality({}) = 0 /\ \A t \in SUBSET S : Cardinality(t) \in Nat
  BY FS_EmptySet, FS_Subset, FS_CardinalityType
<1>1. T = {}
  <2> SUFFICES ASSUME T # {} PROVE FALSE
    OBVIOUS
  <2>1. PICK m \in T : \A y \in T : m <= y
    <3>1. T \subseteq Nat
      OBVIOUS
    <3> HIDE DEF T
    <3> QED BY <3>1, NatLeast
  <2>2. m \in Nat
    OBVIOUS
  <2>3. CASE m = 0
    <3>1. \A t \in Up(0) : t = {}
      <4> SUFFICES ASSUME NEW t \in Up(0), NEW x \in t PROVE FALSE
        OBVIOUS
      <4>1. Cardinality(t) - 1 \in Nat /\ Cardinality(t) <= 0 /\ Cardinality(t) \in Nat
        BY SmallerSet
      <4> QED BY <4>1
    <3> DEFINE h == [t \in Up(0) |-> Empty(j)]
    <3>2. h = [t \in Up(0) |-> IF t = {} THEN Empty(j) ELSE With(j, h[t \ {g[t]}], v[g[t]])]
      BY <3>1
    <3>3. Some(0)  BY <3>2
    <3> QED BY <2>3, <3>3
  <2>4. CASE m # 0
    <3>1. m - 1 \in Nat /\ ~ (m <= m - 1)  BY <2>2, <2>4
    <3>2. Some(m - 1)  BY <2>1, <3>1
    <3>3. PICK f : f = [t \in Up(m - 1) |-> IF t = {} THEN Empty(j) ELSE With(j, f[t \ {g[t]}], v[g[t]])]
      BY <3>2
    <3> DEFINE h == [t \in Up(m) |-> IF t = {} THEN Empty(j) ELSE With(j, f[t \ {g[t]}], v[g[t]])]
    <3>4. \A t \in Up(m - 1) : t \in Up(m) /\ f[t] = h[t]
      <4>1. \A t \in Up(m - 1) : t \in Up(m)  BY <1>0, <2>2
      <4> QED BY <3>3, <4>1
    <3>5. ASSUME NEW t \in Up(m), t # {}
          PROVE  t \ {g[t]} \in Up(m - 1)
      <4>1. g[t] \in t  BY <3>5 DEF Picks
      <4>2. t \ {g[t]} \in SUBSET S /\ Cardinality(t \ {g[t]}) = Cardinality(t) - 1
            /\ Cardinality(t) \in Nat
        BY <4>1, SmallerSet
      <4> QED BY <2>2, <4>2
    <3>6. \A t \in Up(m) : h[t] = IF t = {} THEN Empty(j) ELSE With(j, h[t \ {g[t]}], v[g[t]])
      BY <3>4, <3>5
    <3>7. h = [t \in Up(m) |-> IF t = {} THEN Empty(j) ELSE With(j, h[t \ {g[t]}], v[g[t]])]
      BY <3>6
    <3>8. Some(m)  BY <3>7
    <3> QED BY <3>8
  <2> QED BY <2>3, <2>4
<1>2. Some(Cardinality(S))  BY <1>0, <1>1
<1>3. Up(Cardinality(S)) = SUBSET S  BY FS_Subset
<1> QED BY <1>2, <1>3 DEF Unfolds

LEMMA SumsExist ==
  ASSUME NEW S, IsFiniteSet(S), NEW v, NEW g, Picks(g, S)
  PROVE  \E f : Adding(f, v, S, g)
<1>1. PICK f : Unfolds(f, FALSE, v, S, g)  BY UnfoldingExists
<1> QED BY <1>1 DEF Unfolds, Empty, With, Adding

(* The recursion, unfolded once. *)
LEMMA AddingValue ==
  ASSUME NEW S, NEW v, NEW g, NEW f, Adding(f, v, S, g)
  PROVE  \A t \in SUBSET S : f[t] = IF t = {} THEN 0 ELSE v[g[t]] + f[t \ {g[t]}]
BY DEF Adding

(* And does not depend on the order. *)
LEMMA AnyOrder ==
  ASSUME NEW S, IsFiniteSet(S), NEW v, \A x \in S : v[x] \in Nat,
         NEW g, Picks(g, S), NEW f, Adding(f, v, S, g)
  PROVE  \A t \in SUBSET S : f[t] \in Nat /\ \A k \in t : f[t] = f[t \ {k}] + v[k]
<1> DEFINE Good(t) == f[t] \in Nat /\ \A k \in t : f[t] = f[t \ {k}] + v[k]
           T == {m \in Nat : \E t \in SUBSET S : Cardinality(t) = m /\ ~ Good(t)}
<1>1. T = {}
  <2> SUFFICES ASSUME T # {} PROVE FALSE
    OBVIOUS
  <2>1. PICK m \in T : \A y \in T : m <= y
    <3>1. T \subseteq Nat
      OBVIOUS
    <3> HIDE DEF T
    <3> QED BY <3>1, NatLeast
  <2>2. PICK t \in SUBSET S : Cardinality(t) = m /\ ~ Good(t) /\ m \in Nat  BY <2>1
  <2>3. t # {}
    <3> SUFFICES ASSUME t = {} PROVE FALSE
      OBVIOUS
    <3>1. \A u \in SUBSET S : f[u] = IF u = {} THEN 0 ELSE v[g[u]] + f[u \ {g[u]}]
      BY DEF Adding
    <3>2. f[t] = 0  BY <3>1
    <3> QED BY <2>2, <3>2
  <2> DEFINE c == g[t]
  <2>4. c \in t /\ f[t] = v[c] + f[t \ {c}] /\ v[c] \in Nat
    <3>1. c \in t  BY <2>3 DEF Picks
    <3>2. \A u \in SUBSET S : f[u] = IF u = {} THEN 0 ELSE v[g[u]] + f[u \ {g[u]}]
      BY AddingValue
    <3> QED BY <2>3, <3>1, <3>2
  <2>5. \A u \in SUBSET S : Cardinality(u) = m - 1 => Good(u)
    <3>1. m - 1 \in Nat => ~ (m <= m - 1)  BY <2>2
    <3>2. m - 1 \in Nat  BY <2>2, <2>4, SmallerSet
    <3> QED BY <2>1, <3>1, <3>2
  <2>6. \A x \in t : t \ {x} \in SUBSET S /\ Good(t \ {x})
    <3> SUFFICES ASSUME NEW x \in t PROVE t \ {x} \in SUBSET S /\ Good(t \ {x})
      OBVIOUS
    <3>1. t \ {x} \in SUBSET S /\ Cardinality(t \ {x}) = m - 1  BY <2>2, SmallerSet
    <3> QED BY <2>5, <3>1
  <2>7. f[t] \in Nat /\ f[t] = f[t \ {c}] + v[c]
    <3>1. f[t \ {c}] \in Nat  BY <2>4, <2>6
    <3> HIDE DEF c
    <3> QED BY <2>4, <3>1
  <2>8. ASSUME NEW k \in t, k # c
        PROVE  f[t] = f[t \ {k}] + v[k]
    <3> DEFINE both == (t \ {c}) \ {k}
    <3>1. both = (t \ {k}) \ {c} /\ k \in t \ {c} /\ c \in t \ {k}  BY <2>4, <2>8
    <3>2. f[t \ {c}] = f[both] + v[k]  BY <2>4, <2>6, <3>1
    <3>3. f[t \ {k}] = f[both] + v[c]  BY <2>6, <3>1
    <3>4. f[both] \in Nat /\ v[k] \in Nat
      <4>1. Cardinality(t \ {c}) = m - 1 /\ t \ {c} \in SUBSET S  BY <2>2, <2>4, SmallerSet
      <4>2. both \in SUBSET S
        OBVIOUS
      <4>4. Cardinality(both) = m - 2 /\ m - 2 \in Nat
        <5>1. Cardinality(both) = Cardinality(t \ {c}) - 1 /\ Cardinality(t \ {c}) - 1 \in Nat
          <6> DEFINE w == t \ {c}
          <6>1. k \in w /\ both = w \ {k} /\ w \in SUBSET S  BY <3>1, <4>1
          <6> HIDE DEF both, w
          <6>2. Cardinality(w \ {k}) = Cardinality(w) - 1 /\ Cardinality(w) - 1 \in Nat
            BY <6>1, SmallerSet
          <6> QED BY <6>1, <6>2 DEF w
        <5> QED BY <2>2, <4>1, <5>1
      <4>5. Good(both)
        <5>1. ~ (m <= m - 2)  BY <2>2
        <5> QED BY <2>1, <4>2, <4>4, <5>1
      <4> QED BY <4>5
    <3> HIDE DEF c, both
    <3> QED BY <2>4, <2>7, <3>2, <3>3, <3>4
  <2> QED BY <2>2, <2>4, <2>7, <2>8
<1>2. \A t \in SUBSET S : Cardinality(t) \in Nat  BY FS_Subset, FS_CardinalityType
<1> QED BY <1>1, <1>2

(* So a fold that adds is a total: of the empty set 0, and whichever element *)
(* is taken out, the total of the others and it. *)
Totals(f, v, S) ==
  \A t \in SUBSET S : /\ f[t] \in Nat /\ (t = {} => f[t] = 0)
                      /\ \A k \in t : f[t] = f[t \ {k}] + v[k]

(* In any order of the elements the recursion gives the totals. *)
LEMMA AddingTotals ==
  ASSUME NEW S, IsFiniteSet(S), NEW v, \A x \in S : v[x] \in Nat,
         NEW g, Picks(g, S), NEW f, Adding(f, v, S, g)
  PROVE  Totals(f, v, S)
<1>1. \A t \in SUBSET S : f[t] \in Nat /\ \A k \in t : f[t] = f[t \ {k}] + v[k]  BY AnyOrder
<1>2. \A t \in SUBSET S : t = {} => f[t] = 0  BY DEF Adding
<1> QED BY <1>1, <1>2 DEF Totals

(* The sums the model takes over a set. *)
AddUp(v, S) == MapThenSumSet(LAMBDA x : v[x], S)
AddUpQ(w, S) == MapThenSumSet(LAMBDA x : w[x].q, S)

(* MapThenSumSet is a total over the set. *)
LEMMA MapSumTotals ==
  ASSUME NEW S, IsFiniteSet(S), NEW v, \A x \in S : v[x] \in Nat
  PROVE  \E f : Totals(f, v, S) /\ AddUp(v, S) = f[S]
<1> DEFINE g == [t \in SUBSET S |-> CHOOSE x \in t : TRUE]
           f == CHOOSE f : Adding(f, v, S, g)
<1>1. AddUp(v, S)
        = MapThenFoldSet(LAMBDA x, y : x + y, 0, LAMBDA i : v[i], LAMBDA s : CHOOSE x \in s : TRUE, S)
  BY DEF MapThenSumSet, AddUp
<1>2. MapThenFoldSet(LAMBDA x, y : x + y, 0, LAMBDA i : v[i], LAMBDA s : CHOOSE x \in s : TRUE, S) = f[S]
  BY DEF MapThenFoldSet, Adding
<1>3. Picks(g, S)  BY DEF Picks
<1> HIDE DEF g
<1>5. \E h : Adding(h, v, S, g)  BY <1>3, SumsExist
<1>6. Adding(f, v, S, g)  BY <1>5
<1> HIDE DEF f
<1>7. Totals(f, v, S)  BY <1>3, <1>6, AddingTotals
<1> QED BY <1>1, <1>2, <1>7

(* And so is the sum of one field of records. *)
LEMMA MapSumField ==
  ASSUME NEW S, IsFiniteSet(S), NEW w, NEW v, \A x \in S : v[x] \in Nat /\ w[x].q = v[x]
  PROVE  \E f : Totals(f, v, S) /\ AddUpQ(w, S) = f[S]
<1> DEFINE one(t) == CHOOSE x \in t : TRUE
           g == [t \in SUBSET S |-> one(t)]
           IsSum(f) == f = [t \in SUBSET S |-> IF t = {} THEN 0 ELSE w[one(t)].q + f[t \ {one(t)}]]
           f == CHOOSE f : IsSum(f)
<1>1. AddUpQ(w, S)
        = MapThenFoldSet(LAMBDA x, y : x + y, 0, LAMBDA i : w[i].q, LAMBDA s : CHOOSE x \in s : TRUE, S)
  BY DEF MapThenSumSet, AddUpQ
<1>2. MapThenFoldSet(LAMBDA x, y : x + y, 0, LAMBDA i : w[i].q, LAMBDA s : CHOOSE x \in s : TRUE, S) = f[S]
  BY Zenon DEF MapThenFoldSet
<1>3. Picks(g, S)  BY DEF Picks
<1> HIDE DEF one
<1>4. \A h : IsSum(h) <=> Adding(h, v, S, g)  BY <1>3 DEF Picks, Adding
<1>5. \E h : Adding(h, v, S, g)  BY <1>3, SumsExist
<1> HIDE DEF IsSum
<1>6. Adding(f, v, S, g)  BY <1>4, <1>5
<1> HIDE DEF f
<1>7. Totals(f, v, S)  BY <1>3, <1>6, AddingTotals
<1> QED BY <1>1, <1>2, <1>7

(* What a total of a set is does not depend on what it is a part of. *)
LEMMA TotalsAgree ==
  ASSUME NEW S, NEW W, IsFiniteSet(S), NEW f, NEW v, Totals(f, v, S), NEW h, NEW w, Totals(h, w, W),
         NEW U, U \subseteq S, U \subseteq W, \A x \in U : v[x] = w[x]
  PROVE  f[U] = h[U]
<1> DEFINE T == {m \in Nat : \E t \in SUBSET U : Cardinality(t) = m /\ f[t] # h[t]}
<1>0. IsFiniteSet(U)  BY FS_Subset
<1>1. T = {}
  <2> SUFFICES ASSUME T # {} PROVE FALSE
    OBVIOUS
  <2>1. PICK m \in T : \A y \in T : m <= y
    <3>1. T \subseteq Nat
      OBVIOUS
    <3> HIDE DEF T
    <3> QED BY <3>1, NatLeast
  <2>2. PICK t \in SUBSET U : Cardinality(t) = m /\ f[t] # h[t] /\ m \in Nat  BY <2>1
  <2>3. t # {}
    <3>1. t = {} => f[t] = 0 /\ h[t] = 0  BY DEF Totals
    <3> QED BY <2>2, <3>1
  <2>4. PICK k \in t : TRUE  BY <2>3
  <2>5. t \ {k} \in SUBSET U /\ Cardinality(t \ {k}) = m - 1 /\ m - 1 \in Nat
    BY <1>0, <2>2, SmallerSet
  <2>6. f[t \ {k}] = h[t \ {k}]
    <3>1. ~ (m <= m - 1)  BY <2>2
    <3>2. m - 1 \notin T  BY <2>1, <3>1
    <3> QED BY <2>5, <3>2
  <2>7. f[t] = f[t \ {k}] + v[k]  BY DEF Totals
  <2>8. h[t] = h[t \ {k}] + w[k]  BY DEF Totals
  <2>9. v[k] = w[k]
    OBVIOUS
  <2> HIDE DEF T
  <2> QED BY <2>2, <2>6, <2>7, <2>8, <2>9
<1>2. Cardinality(U) \in Nat  BY <1>0, FS_CardinalityType
<1> QED BY <1>1, <1>2

CutOut(S, s, m, n, b, u) == u \in Seq(S) /\ Len(u) = b /\ \A i \in 1..b : u[i] = s[m + i - 1]
LEMMA SubSeqIs ==
  ASSUME NEW S, NEW s, NEW m \in Int, NEW n \in Int, m <= n, \A i \in m..n : s[i] \in S,
         NEW b, n - m + 1 = b, NEW u, u = SubSeq(s, m, n)
  PROVE  CutOut(S, s, m, n, b, u)
BY SubSeqProperties DEF CutOut

-----------------------------------------------------------------------------
(* Division. *)
LEMMA DivType ==
  ASSUME NEW a \in Int, NEW b \in Nat \ {0}
  PROVE  a \div b \in Int /\ a % b \in Nat /\ a % b < b
OBVIOUS

LEMMA DivMod ==
  ASSUME NEW a \in Int, NEW b \in Nat \ {0}
  PROVE  a % b = a - b * (a \div b)
OBVIOUS

LEMMA DivNat ==
  ASSUME NEW a \in Nat, NEW b \in Nat \ {0}
  PROVE  a \div b \in Nat
OBVIOUS

LEMMA DivUnique ==
  ASSUME NEW a \in Int, NEW b \in Nat \ {0}, NEW q \in Int, b * q <= a, a < b * q + b
  PROVE  a \div b = q
OBVIOUS

LEMMA DivOrder ==
  ASSUME NEW a \in Int, NEW c \in Int, NEW b \in Nat \ {0}, a <= c
  PROVE  a \div b <= c \div b
OBVIOUS

LEMMA DivBounds ==
  ASSUME NEW a \in Int, NEW b \in Nat \ {0}
  PROVE  b * (a \div b) <= a /\ a < b * (a \div b) + b
OBVIOUS

LEMMA TimesOrder ==
  ASSUME NEW a \in Int, NEW b \in Int, NEW c \in Nat \ {0}
  PROVE  /\ a <= b <=> c * a <= c * b
         /\ a < b <=> c * a < c * b
OBVIOUS

LEMMA DivLess ==
  ASSUME NEW a \in Int, NEW q \in Int, NEW b \in Nat \ {0}
  PROVE  /\ a \div b < q <=> a < b * q
         /\ q <= a \div b <=> b * q <= a
OBVIOUS

(* The quotients of two parts are at most the quotient of the whole, and less *)
(* by one at most. *)
LEMMA DivSum ==
  ASSUME NEW a \in Int, NEW c \in Int, NEW b \in Nat \ {0}
  PROVE  a \div b + c \div b <= (a + c) \div b /\ (a + c) \div b <= a \div b + c \div b + 1
OBVIOUS

-----------------------------------------------------------------------------
(* The binary search of the kernels. *)

(* The recursion of find_seq_idx over the bounds of the search. *)
Searches(f, v, n, target) ==
  f = [b \in (0..n) \X (0..n) |->
        IF b[1] >= b[2] THEN b[1] - 1
        ELSE IF v[(b[1] + b[2]) \div 2] <= target
             THEN f[<<(b[1] + b[2]) \div 2 + 1, b[2]>>]
             ELSE f[<<b[1], (b[1] + b[2]) \div 2>>]]

(* The middle of a range lies in it. *)
LEMMA Middle ==
  ASSUME NEW l \in Nat, NEW r \in Nat, l < r
  PROVE  (l + r) \div 2 \in Nat /\ l <= (l + r) \div 2 /\ (l + r) \div 2 < r
OBVIOUS

(* Where a search of the range from l to r may end: left of it everything in *)
(* the range is at most the target, right of it nothing is. *)
Parts(v, n, target, l, r, s) ==
  /\ s \in Int /\ l - 1 <= s /\ s < r
  /\ \A x \in 0..n : (l <= x /\ x <= s) => v[x] <= target
  /\ \A x \in 0..n : (s < x /\ x < r) => ~ (v[x] <= target)

(* In a sequence that does not decrease there is such a place in every range. *)
LEMMA PartsExist ==
  ASSUME NEW n \in Nat, NEW v, \A x \in 0..n : v[x] \in Int, NEW target \in Int,
         \A x, y \in 0..n : x <= y => v[x] <= v[y],
         NEW l \in 0..n, NEW r \in 0..n, l <= r
  PROVE  \E s \in Int : Parts(v, n, target, l, r, s)
<1> DEFINE T == {x \in Nat : l <= x /\ x <= r /\ (x = r \/ ~ (v[x] <= target))}
<1>1. T \subseteq Nat /\ T # {}
  <2>1. r \in T
    OBVIOUS
  <2> QED BY <2>1
<1>2. PICK k \in T : \A y \in T : k <= y
  <2> HIDE DEF T
  <2> QED BY <1>1, NatLeast
<1>3. k \in Nat /\ l <= k /\ k <= r /\ (k = r \/ ~ (v[k] <= target)) /\ n \in Nat /\ r <= n
  OBVIOUS
<1>4. ASSUME NEW x \in 0..n, l <= x, x <= k - 1
      PROVE  v[x] <= target
  <2>1. x \in Nat /\ x <= r /\ ~ (k <= x)  BY <1>3, <1>4
  <2>2. x \notin T  BY <1>2, <2>1
  <2> QED BY <1>4, <2>1, <2>2
<1>5. ASSUME NEW x \in 0..n, k - 1 < x, x < r
      PROVE  ~ (v[x] <= target)
  <2>1. k \in 0..n /\ k <= x /\ k # r  BY <1>3, <1>5
  <2>2. v[k] <= v[x] /\ v[k] \in Int /\ v[x] \in Int /\ ~ (v[k] <= target)  BY <1>3, <2>1
  <2> QED BY <2>2
<1>6. k - 1 \in Int /\ l - 1 <= k - 1 /\ k - 1 < r  BY <1>3
<1>7. Parts(v, n, target, l, r, k - 1)  BY <1>4, <1>5, <1>6 DEF Parts
<1> QED BY <1>6, <1>7

(* There is only one. *)
LEMMA PartsUnique ==
  ASSUME NEW n \in Nat, NEW v, NEW target, NEW l \in 0..n, NEW r \in 0..n,
         NEW s, NEW t, Parts(v, n, target, l, r, s), Parts(v, n, target, l, r, t)
  PROVE  s = t
<1>1. /\ s \in Int /\ l - 1 <= s /\ s < r /\ t \in Int /\ l - 1 <= t /\ t < r
      /\ l \in Nat /\ r \in Nat /\ r <= n
  BY DEF Parts
<1>2. ~ (s < t)
  <2> SUFFICES ASSUME s < t PROVE FALSE
    OBVIOUS
  <2>1. t \in 0..n /\ l <= t /\ t <= t  BY <1>1
  <2> QED BY <1>1, <2>1 DEF Parts
<1>3. ~ (t < s)
  <2> SUFFICES ASSUME t < s PROVE FALSE
    OBVIOUS
  <2>1. s \in 0..n /\ l <= s /\ s <= s  BY <1>1
  <2> QED BY <1>1, <2>1 DEF Parts
<1> QED BY <1>1, <1>2, <1>3

(* A half of the range has it in the same place. *)
LEMMA Halves ==
  ASSUME NEW n \in Nat, NEW v, \A x \in 0..n : v[x] \in Int, NEW target \in Int,
         \A x, y \in 0..n : x <= y => v[x] <= v[y],
         NEW l \in 0..n, NEW r \in 0..n, l < r, NEW m, m = (l + r) \div 2, NEW s,
         IF v[m] <= target THEN Parts(v, n, target, m + 1, r, s)
                           ELSE Parts(v, n, target, l, m, s)
  PROVE  Parts(v, n, target, l, r, s) /\ m \in 0..n /\ m + 1 \in 0..n /\ l <= m /\ m < r
<1>1. m \in 0..n /\ m + 1 \in 0..n /\ l <= m /\ m < r /\ m \in Nat  BY Middle
<1>2. CASE v[m] <= target
  <2>1. s \in Int /\ m <= s /\ s < r  BY <1>1, <1>2 DEF Parts
  <2>2. ASSUME NEW x \in 0..n, l <= x, x <= s
        PROVE  v[x] <= target
    <3>1. CASE x <= m
      <4>1. v[x] <= v[m] /\ v[x] \in Int /\ v[m] \in Int  BY <1>1, <3>1
      <4> QED BY <1>2, <4>1
    <3>2. CASE m < x
      <4>1. m + 1 <= x  BY <1>1, <3>2
      <4> QED BY <1>2, <2>2, <4>1 DEF Parts
    <3> QED BY <1>1, <3>1, <3>2
  <2>3. \A x \in 0..n : (s < x /\ x < r) => ~ (v[x] <= target)  BY <1>2 DEF Parts
  <2>4. l - 1 <= s  BY <1>1, <2>1
  <2> QED BY <1>1, <2>1, <2>2, <2>3, <2>4 DEF Parts
<1>3. CASE ~ (v[m] <= target)
  <2>1. s \in Int /\ l - 1 <= s /\ s < m  BY <1>1, <1>3 DEF Parts
  <2>2. ASSUME NEW x \in 0..n, s < x, x < r
        PROVE  ~ (v[x] <= target)
    <3>1. CASE x < m
      BY <1>3, <2>2, <3>1 DEF Parts
    <3>2. CASE m <= x
      <4>1. v[m] <= v[x] /\ v[x] \in Int /\ v[m] \in Int  BY <1>1, <3>2
      <4> QED BY <1>3, <4>1
    <3> QED BY <1>1, <3>1, <3>2
  <2>3. \A x \in 0..n : (l <= x /\ x <= s) => v[x] <= target  BY <1>3 DEF Parts
  <2>4. s < r  BY <1>1, <2>1
  <2> QED BY <1>1, <2>1, <2>2, <2>3, <2>4 DEF Parts
<1> QED BY <1>2, <1>3, <1>1

(* The recursion has a solution. *)
LEMMA SearchExists ==
  ASSUME NEW n \in Nat, NEW v, \A x \in 0..n : v[x] \in Int, NEW target \in Int,
         \A x, y \in 0..n : x <= y => v[x] <= v[y]
  PROVE  \E f : Searches(f, v, n, target)
<1> DEFINE D == (0..n) \X (0..n)
           place(l, r) == CHOOSE s \in Int : Parts(v, n, target, l, r, s)
           f == [b \in D |-> IF b[1] >= b[2] THEN b[1] - 1 ELSE place(b[1], b[2])]
           next(b) == IF v[(b[1] + b[2]) \div 2] <= target
                      THEN f[<<(b[1] + b[2]) \div 2 + 1, b[2]>>]
                      ELSE f[<<b[1], (b[1] + b[2]) \div 2>>]
<1>1. ASSUME NEW l \in 0..n, NEW r \in 0..n, l <= r
      PROVE  Parts(v, n, target, l, r, f[<<l, r>>])
  <2>0. <<l, r>> \in D /\ <<l, r>>[1] = l /\ <<l, r>>[2] = r
    OBVIOUS
  <2>1. f[<<l, r>>] = IF l >= r THEN l - 1 ELSE place(l, r)
    <3> HIDE DEF place, D
    <3> QED BY <2>0
  <2> HIDE DEF f, D
  <2>2. \E s \in Int : Parts(v, n, target, l, r, s)  BY <1>1, PartsExist
  <2>3. CASE l < r
    BY <1>1, <2>1, <2>2, <2>3
  <2>4. CASE l = r
    BY <2>1, <2>4 DEF Parts
  <2> QED BY <1>1, <2>3, <2>4
<1>2. ASSUME NEW b \in D
      PROVE  f[b] = IF b[1] >= b[2] THEN b[1] - 1 ELSE next(b)
  <2>1. PICK l, r : l \in 0..n /\ r \in 0..n /\ b = <<l, r>> /\ b[1] = l /\ b[2] = r  OBVIOUS
  <2>2. CASE l >= r
    BY <2>1, <2>2
  <2>3. CASE l < r
    <3> HIDE DEF place
    <3>1. PICK m : m = (l + r) \div 2 /\ m \in Nat /\ l <= m /\ m < r
      <4>1. l \in Nat /\ r \in Nat  BY <2>1
      <4> QED BY <2>3, <4>1, Middle
    <3>2. m \in 0..n /\ m + 1 \in 0..n /\ m + 1 <= r  BY <2>1, <3>1
    <3>3. next(b) = IF v[m] <= target THEN f[<<m + 1, r>>] ELSE f[<<l, m>>]  BY <2>1, <3>1
    <3>4. IF v[m] <= target THEN Parts(v, n, target, m + 1, r, next(b))
                            ELSE Parts(v, n, target, l, m, next(b))
      <4> HIDE DEF f, next, D
      <4>1. Parts(v, n, target, m + 1, r, f[<<m + 1, r>>])  BY <1>1, <2>1, <3>2
      <4>2. Parts(v, n, target, l, m, f[<<l, m>>])  BY <1>1, <2>1, <3>1, <3>2
      <4> QED BY <3>3, <4>1, <4>2
    <3> HIDE DEF f, next, D
    <3>5. Parts(v, n, target, l, r, next(b))
      <4>1. l \in 0..n /\ r \in 0..n /\ m = (l + r) \div 2  BY <2>1, <3>1
      <4> QED BY <2>3, <3>4, <4>1, Halves
    <3>6. Parts(v, n, target, l, r, f[b])
      <4>1. l \in 0..n /\ r \in 0..n /\ l <= r  BY <2>1, <2>3
      <4> QED BY <1>1, <2>1, <4>1
    <3>7. f[b] = next(b)
      <4>1. l \in 0..n /\ r \in 0..n  BY <2>1
      <4> QED BY <3>5, <3>6, <4>1, PartsUnique
    <3>8. ~ (b[1] >= b[2])  BY <2>1, <2>3
    <3> QED BY <3>7, <3>8
  <2> QED BY <2>1, <2>2, <2>3
<1>3. f = [b \in D |-> IF b[1] >= b[2] THEN b[1] - 1 ELSE next(b)]
  <2>1. f = [b \in D |-> f[b]]
    <3> HIDE DEF place, D
    <3> QED OBVIOUS
  <2> HIDE DEF f, next, D
  <2> QED BY <1>2, <2>1
<1> QED BY <1>3 DEF Searches

(* A search of the recursion ends between what is at most the target and what *)
(* is more. *)
LEMMA SearchEnds ==
  ASSUME NEW n \in Nat, NEW v, \A x \in 0..n : v[x] \in Int, NEW target \in Int,
         \A x, y \in 0..n : x <= y => v[x] <= v[y],
         NEW f, Searches(f, v, n, target)
  PROVE  Parts(v, n, target, 0, n, f[<<0, n>>])
<1> DEFINE T == {k \in Nat : \E l, r \in 0..n : l <= r /\ r - l = k
                                             /\ ~ Parts(v, n, target, l, r, f[<<l, r>>])}
<1>1. T = {}
  <2> SUFFICES ASSUME T # {} PROVE FALSE
    OBVIOUS
  <2>1. PICK k \in T : \A y \in T : k <= y
    <3>1. T \subseteq Nat
      OBVIOUS
    <3> HIDE DEF T
    <3> QED BY <3>1, NatLeast
  <2>2. PICK l \in 0..n, r \in 0..n :
             l <= r /\ r - l = k /\ ~ Parts(v, n, target, l, r, f[<<l, r>>]) /\ k \in Nat
    BY <2>1
  <2>3. f[<<l, r>>] = IF l >= r THEN l - 1
                      ELSE IF v[(l + r) \div 2] <= target
                           THEN f[<<(l + r) \div 2 + 1, r>>] ELSE f[<<l, (l + r) \div 2>>]
    <3>1. <<l, r>> \in (0..n) \X (0..n) /\ <<l, r>>[1] = l /\ <<l, r>>[2] = r
      OBVIOUS
    <3> QED BY <3>1, Zenon DEF Searches
  <2>4. CASE l >= r
    <3>1. l = r /\ f[<<l, r>>] = l - 1  BY <2>2, <2>3, <2>4
    <3> QED BY <2>2, <3>1 DEF Parts
  <2>5. CASE ~ (l >= r)
    <3>1. PICK m : m = (l + r) \div 2 /\ m \in Nat /\ l <= m /\ m < r  BY <2>2, <2>5, Middle
    <3>2. m \in 0..n /\ m + 1 \in 0..n /\ m + 1 <= r  BY <3>1
    <3>3. Parts(v, n, target, m + 1, r, f[<<m + 1, r>>])
      <4>1. r - (m + 1) \in Nat /\ ~ (k <= r - (m + 1))  BY <2>2, <3>1
      <4> QED BY <2>1, <3>2, <4>1
    <3>4. Parts(v, n, target, l, m, f[<<l, m>>])
      <4>1. m - l \in Nat /\ ~ (k <= m - l)  BY <2>2, <3>1
      <4> QED BY <2>1, <3>1, <3>2, <4>1
    <3> HIDE DEF T
    <3>5. f[<<l, r>>] = IF v[m] <= target THEN f[<<m + 1, r>>] ELSE f[<<l, m>>]
      BY <2>3, <2>5, <3>1
    <3>6. IF v[m] <= target THEN Parts(v, n, target, m + 1, r, f[<<l, r>>])
                            ELSE Parts(v, n, target, l, m, f[<<l, r>>])
      BY <3>3, <3>4, <3>5
    <3>7. l < r /\ m = (l + r) \div 2  BY <2>5, <3>1
    <3> QED BY <2>2, <3>6, <3>7, Halves
  <2> QED BY <2>4, <2>5
<1>2. 0 \in 0..n /\ n \in 0..n /\ 0 <= n /\ n - 0 \in Nat
  OBVIOUS
<1>3. n - 0 \notin T  BY <1>1
<1> QED BY <1>2, <1>3

(* So find_seq_idx ends there. *)
LEMMA FoundRow ==
  ASSUME NEW n \in Nat, launch.seqs = n, NEW target \in Int, NEW byBlock,
         NEW v, \A x \in 0..n : v[x] \in Int, \A x, y \in 0..n : x <= y => v[x] <= v[y],
         \A x \in 0..n : v[x] = IF byBlock THEN query_start_loc(x) \div BLOCK_Q + x
                                           ELSE query_start_loc(x)
  PROVE  Parts(v, n, target, 0, n, find_seq_idx(target, byBlock))
<1> DEFINE Value(mid) == IF byBlock THEN query_start_loc(mid) \div BLOCK_Q + mid
                                    ELSE query_start_loc(mid)
           D == (0..n) \X (0..n)
           Rec(f) == f = [b \in D |->
              IF b[1] >= b[2] THEN b[1] - 1
              ELSE IF Value((b[1] + b[2]) \div 2) <= target
                   THEN f[<<(b[1] + b[2]) \div 2 + 1, b[2]>>]
                   ELSE f[<<b[1], (b[1] + b[2]) \div 2>>]]
<1>1. find_seq_idx(target, byBlock) = (CHOOSE f : Rec(f))[<<0, n>>]
  BY Zenon DEF find_seq_idx
<1>2. ASSUME NEW f
      PROVE  Rec(f) <=> Searches(f, v, n, target)
  <2> HIDE DEF Value
  <2>1. ASSUME NEW b \in D, ~ (b[1] >= b[2])
        PROVE  v[(b[1] + b[2]) \div 2] = Value((b[1] + b[2]) \div 2)
    <3>1. PICK l, r : l \in 0..n /\ r \in 0..n /\ b[1] = l /\ b[2] = r  OBVIOUS
    <3>2. PICK m : m = (l + r) \div 2 /\ m \in Nat /\ l <= m /\ m < r  BY <2>1, <3>1, Middle
    <3>3. m \in 0..n  BY <3>1, <3>2
    <3> QED BY <3>1, <3>2, <3>3 DEF Value
  <2>2. \A b \in D : (IF b[1] >= b[2] THEN b[1] - 1
                     ELSE IF Value((b[1] + b[2]) \div 2) <= target
                          THEN f[<<(b[1] + b[2]) \div 2 + 1, b[2]>>]
                          ELSE f[<<b[1], (b[1] + b[2]) \div 2>>])
                   = (IF b[1] >= b[2] THEN b[1] - 1
                     ELSE IF v[(b[1] + b[2]) \div 2] <= target
                          THEN f[<<(b[1] + b[2]) \div 2 + 1, b[2]>>]
                          ELSE f[<<b[1], (b[1] + b[2]) \div 2>>])
    <3> SUFFICES ASSUME NEW b \in D, ~ (b[1] >= b[2])
                 PROVE  v[(b[1] + b[2]) \div 2] = Value((b[1] + b[2]) \div 2)
      BY Zenon
    <3> QED BY <2>1
  <2> QED BY <2>2 DEF Searches
<1>3. \E f : Searches(f, v, n, target)  BY SearchExists
<1> HIDE DEF Rec
<1>4. Rec(CHOOSE f : Rec(f))  BY <1>2, <1>3
<1> QED BY <1>1, <1>2, <1>4, SearchEnds

-----------------------------------------------------------------------------
(* The metadata of a batch. *)

(* The batch: rows of some new tokens each, that fit the model. *)
RowsType(n, w) ==
  /\ n \in Nat /\ n > 0 /\ n <= MaxSeqs /\ Len(w) = n /\ DOMAIN w = 1..n
  /\ \A i \in 1..n : w[i].q \in Nat /\ w[i].q > 0 /\ w[i].ctx \in Nat /\ w[i].ctx + w[i].q <= MaxLen

(* query_start_loc adds the tokens up, row by row; past the batch it stays. *)
LEMMA StartsAdd ==
  ASSUME NEW n, RowsType(n, rows)
  PROVE  /\ query_start_loc(0) = 0
         /\ \A k \in Nat : query_start_loc(k) \in Nat /\ (k >= n => query_start_loc(k) = query_start_loc(n))
         /\ \A k \in 1..n : query_start_loc(k) = query_start_loc(k - 1) + rows[k].q
         /\ query_start_loc(n) = AddUpQ(rows, 1..n)
<1>1. PICK w : w = rows  OBVIOUS
<1> DEFINE v == [i \in 1..n |-> w[i].q]
<1>2. n \in Nat /\ Len(w) = n /\ \A i \in 1..n : v[i] \in Nat /\ v[i] = w[i].q /\ w[i].q = v[i]
  BY <1>1 DEF RowsType
<1> HIDE DEF v
<1>3. ASSUME NEW N, NEW k \in 0..n, N = 1..k
      PROVE  \E f : Totals(f, v, N) /\ AddUpQ(w, N) = f[N]
  <2>1. IsFiniteSet(N) /\ \A x \in N : v[x] \in Nat /\ w[x].q = v[x]
    BY <1>2, <1>3, FS_Interval
  <2> QED BY <2>1, MapSumField
<1>4. PICK f : Totals(f, v, 1..n)
  <2>1. n \in 0..n  BY <1>2
  <2> QED BY <1>3, <2>1, Zenon
<1>5. ASSUME NEW k \in 0..n
      PROVE  AddUpQ(w, 1..k) = f[1..k]
  <2>1. PICK N, W : N = 1..k /\ W = 1..n  OBVIOUS
  <2>2. PICK h : Totals(h, v, N) /\ AddUpQ(w, N) = h[N]  BY <1>3, <2>1
  <2>3. IsFiniteSet(N) /\ N \subseteq N /\ N \subseteq W /\ Totals(f, v, W) /\ \A x \in N : v[x] = v[x]
    BY <1>2, <1>4, <2>1, FS_Interval
  <2>4. h[N] = f[N]  BY <2>2, <2>3, TotalsAgree
  <2> QED BY <2>1, <2>2, <2>4
<1>6. ASSUME NEW k \in Nat
      PROVE  /\ k <= n => query_start_loc(k) = f[1..k]
             /\ k >= n => query_start_loc(k) = f[1..n]
  <2>0. query_start_loc(k) = AddUpQ(w, 1..Least(k, n))
    BY <1>1, <1>2 DEF query_start_loc, AddUpQ
  <2>1. ASSUME k <= n PROVE query_start_loc(k) = f[1..k]
    <3>1. Least(k, n) = k /\ k \in 0..n  BY <1>2, <2>1 DEF Least
    <3> QED BY <1>5, <2>0, <3>1
  <2>2. ASSUME k >= n PROVE query_start_loc(k) = f[1..n]
    <3>1. Least(k, n) = n /\ n \in 0..n  BY <1>2, <2>2 DEF Least
    <3> QED BY <1>5, <2>0, <3>1
  <2> QED BY <2>1, <2>2
<1>7. \A k \in 0..n : 1..k \in SUBSET (1..n)  BY <1>2
<1>8. query_start_loc(0) = 0
  <2>1. 1..0 = {} /\ 0 \in 0..n /\ 0 <= n  BY <1>2
  <2> QED BY <1>4, <1>6, <1>7, <2>1 DEF Totals
<1>9. ASSUME NEW k \in Nat
      PROVE  query_start_loc(k) \in Nat /\ (k >= n => query_start_loc(k) = query_start_loc(n))
  <2>1. (k <= n => k \in 0..n) /\ (k <= n \/ k >= n) /\ n \in 0..n /\ n >= n  BY <1>2
  <2> QED BY <1>2, <1>4, <1>6, <1>7, <2>1 DEF Totals
<1>10. ASSUME NEW k \in 1..n
       PROVE  query_start_loc(k) = query_start_loc(k - 1) + rows[k].q
  <2>1. (1..k) \ {k} = 1..(k - 1) /\ k \in 1..k /\ k \in 0..n /\ k - 1 \in Nat /\ k <= n /\ k - 1 <= n
        /\ k \in Nat
    BY <1>2
  <2>2. f[1..k] = f[(1..k) \ {k}] + v[k]  BY <1>4, <1>7, <2>1 DEF Totals
  <2> QED BY <1>1, <1>2, <1>6, <2>1, <2>2
<1>11. query_start_loc(n) = AddUpQ(rows, 1..n)
  <2>1. Least(n, n) = n  BY DEF Least
  <2> QED BY <1>1, <1>2, <2>1 DEF query_start_loc, AddUpQ
<1> QED BY <1>8, <1>9, <1>10, <1>11

(* It does not decrease. *)
LEMMA StartsOrder ==
  ASSUME NEW n, RowsType(n, rows), NEW i \in Nat, NEW j \in Nat, i <= j
  PROVE  query_start_loc(i) <= query_start_loc(j)
<1>0. n \in Nat  BY DEF RowsType
<1> DEFINE T == {k \in Nat : i <= k /\ ~ (query_start_loc(i) <= query_start_loc(k))}
<1>1. T = {}
  <2> SUFFICES ASSUME T # {} PROVE FALSE
    OBVIOUS
  <2>1. PICK k \in T : \A y \in T : k <= y
    <3>1. T \subseteq Nat
      OBVIOUS
    <3> HIDE DEF T
    <3> QED BY <3>1, NatLeast
  <2>2. k \in Nat /\ i <= k /\ ~ (query_start_loc(i) <= query_start_loc(k))  BY <2>1
  <2>3. query_start_loc(i) \in Nat /\ query_start_loc(k) \in Nat  BY <2>2, StartsAdd
  <2>4. k # i  BY <2>2, <2>3
  <2>5. k - 1 \in Nat /\ i <= k - 1 /\ ~ (k <= k - 1)  BY <2>2, <2>4
  <2>6. k - 1 \notin T  BY <2>1, <2>5
  <2>7. query_start_loc(i) <= query_start_loc(k - 1) /\ query_start_loc(k - 1) \in Nat
    BY <2>5, <2>6, StartsAdd
  <2> HIDE DEF T
  <2>8. CASE k <= n
    <3>1. k \in 1..n  BY <1>0, <2>2, <2>5, <2>8
    <3>2. query_start_loc(k) = query_start_loc(k - 1) + rows[k].q /\ rows[k].q \in Nat
      BY <3>1, StartsAdd DEF RowsType
    <3> QED BY <2>2, <2>3, <2>7, <3>2
  <2>9. CASE ~ (k <= n)
    <3>1. k >= n /\ k - 1 >= n  BY <1>0, <2>2, <2>9
    <3>2. query_start_loc(k) = query_start_loc(k - 1)  BY <2>2, <2>5, <3>1, StartsAdd
    <3> QED BY <2>2, <2>7, <3>2
  <2> QED BY <2>8, <2>9
<1> QED BY <1>1

(* A row's own numbers. *)
LEMMA RowNumbers ==
  ASSUME NEW n, RowsType(n, rows), NEW i \in Nat
  PROVE  IF i < n THEN /\ i + 1 \in 1..n
                       /\ query_len(i) = rows[i + 1].q
                       /\ seq_lens(i) = rows[i + 1].ctx + rows[i + 1].q
                       /\ seq_lens(i) - query_len(i) = rows[i + 1].ctx
         ELSE query_len(i) = 0
<1>0. n \in Nat /\ Len(rows) = n  BY DEF RowsType
<1>1. CASE i < n
  <2>1. i + 1 \in 1..n /\ (i + 1) - 1 = i  BY <1>0, <1>1
  <2>2. query_start_loc(i + 1) = query_start_loc(i) + rows[i + 1].q  BY <2>1, StartsAdd
  <2>3. query_start_loc(i) \in Nat /\ rows[i + 1].q \in Nat /\ rows[i + 1].ctx \in Nat
    BY <2>1, StartsAdd DEF RowsType
  <2>4. query_len(i) = rows[i + 1].q  BY <2>2, <2>3 DEF query_len
  <2>5. seq_lens(i) = rows[i + 1].ctx + rows[i + 1].q  BY <1>0, <1>1 DEF seq_lens
  <2> QED BY <1>1, <2>1, <2>3, <2>4, <2>5
<1>2. CASE ~ (i < n)
  <2>1. i >= n /\ i + 1 >= n /\ i + 1 \in Nat  BY <1>0, <1>2
  <2>2. query_start_loc(i + 1) = query_start_loc(i) /\ query_start_loc(i) \in Nat
    BY <2>1, StartsAdd
  <2>3. query_len(i) = 0  BY <2>2 DEF query_len
  <2> QED BY <1>2, <2>3
<1> QED BY <1>1, <1>2

(* A token is of one row only. *)
LEMMA OneRow ==
  ASSUME NEW n, RowsType(n, rows), NEW i \in 1..n, NEW j \in 1..n,
         NEW s \in Nat, s < rows[i].q, NEW t \in Nat, t < rows[j].q,
         query_start_loc(i - 1) + s = query_start_loc(j - 1) + t
  PROVE  i = j /\ s = t
<1>0. n \in Nat  BY DEF RowsType
<1>1. /\ i - 1 \in Nat /\ j - 1 \in Nat /\ i \in Nat /\ j \in Nat
      /\ query_start_loc(i) = query_start_loc(i - 1) + rows[i].q
      /\ query_start_loc(j) = query_start_loc(j - 1) + rows[j].q
      /\ query_start_loc(i - 1) \in Nat /\ query_start_loc(j - 1) \in Nat
      /\ rows[i].q \in Nat /\ rows[j].q \in Nat
  <2>1. i - 1 \in Nat /\ j - 1 \in Nat /\ i \in Nat /\ j \in Nat  BY <1>0
  <2> QED BY <2>1, StartsAdd DEF RowsType
<1>2. ~ (i < j)
  <2> SUFFICES ASSUME i < j PROVE FALSE
    OBVIOUS
  <2>1. i <= j - 1  BY <1>1
  <2>2. query_start_loc(i) <= query_start_loc(j - 1)  BY <1>1, <2>1, StartsOrder
  <2> QED BY <1>1, <2>2
<1>3. ~ (j < i)
  <2> SUFFICES ASSUME j < i PROVE FALSE
    OBVIOUS
  <2>1. j <= i - 1  BY <1>1
  <2>2. query_start_loc(j) <= query_start_loc(i - 1)  BY <1>1, <2>1, StartsOrder
  <2> QED BY <1>1, <2>2
<1>4. i = j  BY <1>1, <1>2, <1>3
<1> QED BY <1>1, <1>4

(* Every row has a token: there are no fewer tokens than rows. *)
LEMMA EnoughTokens ==
  ASSUME NEW n, RowsType(n, rows), NEW k \in 0..n
  PROVE  k <= query_start_loc(k)
<1>0. n \in Nat  BY DEF RowsType
<1> DEFINE T == {i \in Nat : i <= n /\ ~ (i <= query_start_loc(i))}
<1>1. T = {}
  <2> SUFFICES ASSUME T # {} PROVE FALSE
    OBVIOUS
  <2>1. PICK i \in T : \A y \in T : i <= y
    <3>1. T \subseteq Nat
      OBVIOUS
    <3> HIDE DEF T
    <3> QED BY <3>1, NatLeast
  <2>2. i \in Nat /\ i <= n /\ ~ (i <= query_start_loc(i)) /\ query_start_loc(i) \in Nat
    BY <2>1, StartsAdd
  <2>3. i \in 1..n /\ i - 1 \in Nat /\ ~ (i <= i - 1) /\ i - 1 <= n  BY <1>0, <2>2
  <2>4. i - 1 \notin T  BY <2>1, <2>3
  <2>5. i - 1 <= query_start_loc(i - 1) /\ query_start_loc(i - 1) \in Nat
    BY <2>3, <2>4, StartsAdd
  <2> HIDE DEF T
  <2>6. query_start_loc(i) = query_start_loc(i - 1) + rows[i].q /\ rows[i].q \in Nat /\ rows[i].q > 0
    BY <2>3, StartsAdd DEF RowsType
  <2> QED BY <2>2, <2>3, <2>5, <2>6
<1>2. k \in Nat /\ k <= n  BY <1>0
<1> QED BY <1>1, <1>2

-----------------------------------------------------------------------------
(* The shape of a program. *)

(* The recursion of next_power_of_2 has a solution. *)
Doubles(f, n, m) ==
  f = [i \in 0..m |-> IF i = 0 THEN 1 ELSE IF f[i - 1] >= n THEN f[i - 1] ELSE 2 * f[i - 1]]
LEMMA DoublesExist ==
  ASSUME NEW n \in Nat, NEW k \in Nat
  PROVE  \E f : Doubles(f, n, k)
<1> DEFINE T == {m \in Nat : ~ \E f : Doubles(f, n, m)}
<1>1. T = {}
  <2> SUFFICES ASSUME T # {} PROVE FALSE
    OBVIOUS
  <2>1. PICK m \in T : \A y \in T : m <= y
    <3>1. T \subseteq Nat
      OBVIOUS
    <3> HIDE DEF T
    <3> QED BY <3>1, NatLeast
  <2>2. m \in Nat /\ ~ \E f : Doubles(f, n, m)  BY <2>1
  <2>3. m # 0
    <3>1. Doubles([i \in 0..0 |-> 1], n, 0)  BY DEF Doubles
    <3> QED BY <2>2, <3>1
  <2>4. m - 1 \in Nat /\ ~ (m <= m - 1)  BY <2>2, <2>3
  <2>5. PICK f : Doubles(f, n, m - 1)  BY <2>1, <2>4
  <2> DEFINE h == [i \in 0..m |-> IF i = 0 THEN 1 ELSE IF f[i - 1] >= n THEN f[i - 1] ELSE 2 * f[i - 1]]
  <2>6. ASSUME NEW i \in 0..(m - 1)
        PROVE  h[i] = f[i]
    <3>1. i \in 0..m  BY <2>2
    <3> QED BY <2>5, <3>1 DEF Doubles
  <2>7. \A i \in 0..m : h[i] = IF i = 0 THEN 1 ELSE IF h[i - 1] >= n THEN h[i - 1] ELSE 2 * h[i - 1]
    <3> SUFFICES ASSUME NEW i \in 0..m, i # 0
                 PROVE  h[i] = IF h[i - 1] >= n THEN h[i - 1] ELSE 2 * h[i - 1]
      OBVIOUS
    <3>1. i - 1 \in 0..(m - 1)  BY <2>2
    <3>2. h[i] = IF f[i - 1] >= n THEN f[i - 1] ELSE 2 * f[i - 1]
      OBVIOUS
    <3> HIDE DEF h
    <3> QED BY <2>6, <3>1, <3>2
  <2>8. Doubles(h, n, m)  BY <2>7 DEF Doubles
  <2> QED BY <2>2, <2>8
<1> QED BY <1>1

(* And its value is no smaller. *)
LEMMA PowerCovers ==
  ASSUME NEW n \in Nat
  PROVE  next_power_of_2(n) \in Nat /\ next_power_of_2(n) >= n
<1>1. next_power_of_2(n) = (CHOOSE f : Doubles(f, n, n))[n]
  BY Zenon DEF next_power_of_2, Doubles
<1>2. PICK f : Doubles(f, n, n) /\ next_power_of_2(n) = f[n]  BY <1>1, DoublesExist
<1> DEFINE T == {i \in Nat : i <= n /\ ~ (f[i] \in Nat /\ (f[i] > i \/ f[i] >= n))}
<1>3. T = {}
  <2> SUFFICES ASSUME T # {} PROVE FALSE
    OBVIOUS
  <2>1. PICK i \in T : \A y \in T : i <= y
    <3>1. T \subseteq Nat
      OBVIOUS
    <3> HIDE DEF T
    <3> QED BY <3>1, NatLeast
  <2>2. i \in Nat /\ i <= n /\ ~ (f[i] \in Nat /\ (f[i] > i \/ f[i] >= n))  BY <2>1
  <2>3. f[i] = IF i = 0 THEN 1 ELSE IF f[i - 1] >= n THEN f[i - 1] ELSE 2 * f[i - 1]
    BY <1>2, <2>2 DEF Doubles
  <2>4. i # 0  BY <2>2, <2>3
  <2>5. i - 1 \in Nat /\ ~ (i <= i - 1) /\ i - 1 <= n  BY <2>2, <2>4
  <2>6. f[i - 1] \in Nat /\ (f[i - 1] > i - 1 \/ f[i - 1] >= n)  BY <2>1, <2>5
  <2> HIDE DEF T
  <2> QED BY <2>2, <2>3, <2>4, <2>6
<1>4. n <= n /\ n \notin T  BY <1>3
<1> QED BY <1>2, <1>4

(* The numbers of a program's shape: it has a lane for every query head of its *)
(* KV head, of one query at least. *)
Shape(nq, bm, bq) ==
  /\ nq = num_queries_per_kv /\ bm = BLOCK_M /\ bq = BLOCK_Q
  /\ nq \in Nat /\ nq > 0 /\ bm \in Nat /\ bq \in Nat /\ bq > 0
  /\ bq * nq <= bm /\ bm < bq * nq + nq
  /\ att.hq = nq * att.hkv /\ att.hkv \in Nat /\ att.hkv > 0 /\ att.window \in Nat
  /\ att.tile \in Nat /\ att.tile > 0 /\ att.decode \in Nat /\ att.decode > 0

LEMMA ShapeExists ==
  ASSUME att \in AttnConfigs
  PROVE  \E nq, bm, bq : Shape(nq, bm, bq)
<1>1. PICK hq, hkv, nq : hq = att.hq /\ hkv = att.hkv /\ nq = hq \div hkv  OBVIOUS
<1>2. /\ hq \in Nat /\ hq > 0 /\ hkv \in Nat /\ hkv > 0 /\ hq % hkv = 0 /\ att.window \in Nat
      /\ att.tile \in Nat /\ att.tile > 0 /\ att.decode \in Nat /\ att.decode > 0
  <2>1. att \in AttnConfig /\ att.hq % att.hkv = 0  BY AttnAssumption
  <2> QED BY <1>1, <2>1 DEF AttnConfig
<1>3. nq \in Nat /\ hq = nq * hkv
  <2>1. hkv \in Nat \ {0} /\ hq \in Int  BY <1>2
  <2>2. hq = hkv * nq /\ nq \in Int
    <3>1. hq % hkv = hq - hkv * (hq \div hkv) /\ hq \div hkv \in Int
      BY <2>1, DivMod, DivType
    <3> QED BY <1>1, <1>2, <3>1
  <2>3. nq \in Nat  BY <1>1, <1>2, <2>1, DivNat
  <2> QED BY <2>1, <2>2, <2>3
<1>4. nq > 0  BY <1>2, <1>3
<1>5. num_queries_per_kv = nq  BY <1>1 DEF num_queries_per_kv
<1>6. PICK bm : bm = BLOCK_M /\ bm \in Nat /\ bm >= nq
  <2>1. MinBlockM \in Nat  BY AttnAssumption
  <2>2. next_power_of_2(nq) \in Nat /\ next_power_of_2(nq) >= nq  BY <1>3, PowerCovers
  <2> QED BY <1>3, <1>5, <2>1, <2>2 DEF BLOCK_M
<1>7. PICK bq : bq = bm \div nq  OBVIOUS
<1>8. bq \in Nat /\ nq * bq <= bm /\ bm < nq * bq + nq
  <2>1. nq \in Nat \ {0} /\ bm \in Int  BY <1>3, <1>4, <1>6
  <2> QED BY <1>6, <1>7, <2>1, DivNat, DivBounds
<1>9. bq > 0  BY <1>3, <1>6, <1>8
<1>10. BLOCK_Q = bq  BY <1>5, <1>6, <1>7 DEF BLOCK_Q
<1>11. bq * nq = nq * bq  BY <1>3, <1>8
<1>12. Shape(nq, bm, bq)
  BY <1>1, <1>2, <1>3, <1>4, <1>5, <1>6, <1>8, <1>9, <1>10, <1>11 DEF Shape
<1> QED BY <1>12

-----------------------------------------------------------------------------
(* The rows of blocks and of tokens. *)

(* What the kernels are launched with covers the batch. *)
Fits(n) ==
  /\ launch.seqs \in Nat /\ n <= launch.seqs
  /\ launch.tokens \in Nat /\ query_start_loc(n) <= launch.tokens

(* A target between the values of two neighbours is found between them. *)
LEMMA PartIs ==
  ASSUME NEW n \in Nat, NEW v, \A x \in 0..n : v[x] \in Int, NEW target \in Int,
         \A x, y \in 0..n : x <= y => v[x] <= v[y],
         NEW s, Parts(v, n, target, 0, n, s),
         NEW i \in Nat, i < n, v[i] <= target, target < v[i + 1]
  PROVE  s = i
<1>1. i \in 0..n /\ i + 1 \in 0..n
  OBVIOUS
<1>2. ASSUME NEW x \in 0..n, 0 <= x, x <= i
      PROVE  v[x] <= target
  <2>1. v[x] <= v[i] /\ v[x] \in Int /\ v[i] \in Int  BY <1>1, <1>2
  <2> QED BY <2>1
<1>3. ASSUME NEW x \in 0..n, i < x, x < n
      PROVE  ~ (v[x] <= target)
  <2>0. i + 1 <= x  BY <1>3
  <2>1. v[i + 1] <= v[x] /\ v[x] \in Int /\ v[i + 1] \in Int  BY <1>1, <2>0
  <2> QED BY <2>1
<1>4. i \in Int /\ 0 - 1 <= i /\ i < n
  OBVIOUS
<1>5. Parts(v, n, target, 0, n, i)  BY <1>2, <1>3, <1>4 DEF Parts
<1>6. 0 \in 0..n /\ n \in 0..n
  OBVIOUS
<1> QED BY <1>5, <1>6, PartsUnique

(* The search over tokens and the one over blocks of queries. *)
LEMMA FoundToken ==
  ASSUME NEW n, RowsType(n, rows), Fits(n), NEW i \in 1..n, NEW t \in Nat, t < rows[i].q
  PROVE  find_seq_idx(query_start_loc(i - 1) + t, FALSE) = i - 1
<1>1. PICK m : launch.seqs = m /\ m \in Nat /\ n <= m  BY DEF Fits
<1>2. n \in Nat /\ i - 1 \in Nat /\ i - 1 < m /\ (i - 1) + 1 = i  BY <1>1 DEF RowsType
<1> DEFINE v == [x \in 0..m |-> query_start_loc(x)]
<1>3. /\ \A x \in 0..m : v[x] = query_start_loc(x) /\ v[x] \in Int
      /\ \A x, y \in 0..m : x <= y => v[x] <= v[y]
  <2>1. \A x \in 0..m : v[x] = query_start_loc(x) /\ x \in Nat
    OBVIOUS
  <2> HIDE DEF v
  <2>2. \A x \in 0..m : query_start_loc(x) \in Int  BY <2>1, StartsAdd
  <2>3. \A x, y \in 0..m : x <= y => query_start_loc(x) <= query_start_loc(y)
    BY <2>1, StartsOrder
  <2> QED BY <2>1, <2>2, <2>3
<1> HIDE DEF v
<1>4. PICK target : target = query_start_loc(i - 1) + t  OBVIOUS
<1>5. target \in Int /\ v[i - 1] <= target /\ target < v[(i - 1) + 1]
  <2>1. i - 1 \in 0..m /\ i \in 0..m  BY <1>1, <1>2
  <2>2. query_start_loc(i) = query_start_loc(i - 1) + rows[i].q /\ query_start_loc(i - 1) \in Nat
        /\ rows[i].q \in Nat
    BY <1>2, StartsAdd DEF RowsType
  <2> QED BY <1>2, <1>3, <1>4, <2>1, <2>2
<1>6. \A x \in 0..m : v[x] = IF FALSE THEN query_start_loc(x) \div BLOCK_Q + x ELSE query_start_loc(x)
  BY <1>3
<1>7. Parts(v, m, target, 0, m, find_seq_idx(target, FALSE))
  BY <1>1, <1>3, <1>5, <1>6, FoundRow
<1>8. PICK s : s = find_seq_idx(target, FALSE)  OBVIOUS
<1>9. /\ m \in Nat /\ (\A x \in 0..m : v[x] \in Int) /\ target \in Int
      /\ (\A x, y \in 0..m : x <= y => v[x] <= v[y])
      /\ Parts(v, m, target, 0, m, s) /\ i - 1 \in Nat /\ i - 1 < m
      /\ v[i - 1] <= target /\ target < v[(i - 1) + 1]
  BY <1>1, <1>2, <1>3, <1>5, <1>7, <1>8
<1>10. s = i - 1  BY <1>9, PartIs, Zenon
<1> QED BY <1>4, <1>8, <1>10

(* The search for block b over the first blocks of the m rows of the launch. *)
BlockSearch(n, bq, b, m, v) ==
  /\ m \in Nat /\ launch.seqs = m /\ n <= m
  /\ \A x \in 0..m : v[x] = query_start_loc(x) \div bq + x /\ v[x] \in Nat
  /\ \A x, y \in 0..m : x <= y => v[x] <= v[y]
  /\ Parts(v, m, b, 0, m, find_seq_idx(b, TRUE))

LEMMA FoundBlock ==
  ASSUME NEW n, RowsType(n, rows), Fits(n), NEW nq, NEW bm, NEW bq, Shape(nq, bm, bq),
         NEW b \in Nat
  PROVE  \E m, v : BlockSearch(n, bq, b, m, v)
<1>1. PICK m : launch.seqs = m /\ m \in Nat /\ n <= m  BY DEF Fits
<1>2. bq \in Nat \ {0} /\ BLOCK_Q = bq  BY DEF Shape
<1> DEFINE v == [x \in 0..m |-> query_start_loc(x) \div bq + x]
<1>3. /\ \A x \in 0..m : v[x] = query_start_loc(x) \div bq + x /\ v[x] \in Nat
      /\ \A x, y \in 0..m : x <= y => v[x] <= v[y]
  <2>1. \A x \in 0..m : v[x] = query_start_loc(x) \div bq + x /\ x \in Nat
    OBVIOUS
  <2> HIDE DEF v
  <2>2. ASSUME NEW x \in 0..m
        PROVE  query_start_loc(x) \in Nat /\ query_start_loc(x) \div bq \in Nat /\ v[x] \in Nat
    <3>1. query_start_loc(x) \in Nat  BY <2>1, StartsAdd
    <3>2. query_start_loc(x) \div bq \in Nat  BY <1>2, <3>1, DivNat
    <3> QED BY <2>1, <3>1, <3>2
  <2>3. ASSUME NEW x \in 0..m, NEW y \in 0..m, x <= y
        PROVE  v[x] <= v[y]
    <3>1. query_start_loc(x) <= query_start_loc(y)  BY <2>1, <2>3, StartsOrder
    <3>2. query_start_loc(x) \div bq <= query_start_loc(y) \div bq
      BY <1>2, <2>2, <3>1, DivOrder
    <3> QED BY <2>1, <2>2, <2>3, <3>2
  <2> QED BY <2>1, <2>2, <2>3
<1> HIDE DEF v
<1>4. \A x \in 0..m : v[x] \in Int  BY <1>3
<1>5. \A x \in 0..m : v[x] = IF TRUE THEN query_start_loc(x) \div BLOCK_Q + x ELSE query_start_loc(x)
  BY <1>2, <1>3
<1>6. Parts(v, m, b, 0, m, find_seq_idx(b, TRUE))
  <2>1. b \in Int
    OBVIOUS
  <2> QED BY <1>1, <1>3, <1>4, <1>5, <2>1, FoundRow
<1>7. BlockSearch(n, bq, b, m, v)  BY <1>1, <1>3, <1>6 DEF BlockSearch
<1> QED BY <1>7

(* A program with queries has a row of the batch, and its numbers. *)
IsProgram(p, i, segments) ==
  /\ p.kv \in 0..att.hkv - 1 /\ p.segm \in segments
  /\ p.block \in 0..launch.tokens \div BLOCK_Q + launch.seqs - 1
  /\ p.row = i - 1 /\ p.start = query_start_loc(i - 1)
  /\ p.qlen = rows[i].q /\ p.len = rows[i].ctx + rows[i].q /\ p.ctx = rows[i].ctx
  /\ p.first \in Nat /\ p.first < rows[i].q

LEMMA GridRow ==
  ASSUME NEW n, RowsType(n, rows), Fits(n), NEW nq, NEW bm, NEW bq, Shape(nq, bm, bq),
         NEW segments, NEW p \in Grid(segments)
  PROVE  \E i \in 1..n : IsProgram(p, i, segments)
<1>1. PICK b, kv, s : /\ b \in 0..launch.tokens \div BLOCK_Q + launch.seqs - 1
                      /\ kv \in 0..att.hkv - 1 /\ s \in segments
                      /\ p = KernelProgram(b, kv, s)
  BY DEF Grid
<1>2. p.first < p.qlen  BY DEF Grid
<1>3. b \in Nat  BY <1>1
<1>4a. PICK m, v : BlockSearch(n, bq, b, m, v)
  BY <1>3, FoundBlock
<1>4. /\ m \in Nat /\ launch.seqs = m /\ n <= m
      /\ \A x \in 0..m : v[x] = query_start_loc(x) \div bq + x /\ v[x] \in Nat
      /\ \A x, y \in 0..m : x <= y => v[x] <= v[y]
      /\ Parts(v, m, b, 0, m, find_seq_idx(b, TRUE))
  BY <1>4a DEF BlockSearch
<1>5. PICK r : r = find_seq_idx(b, TRUE)  OBVIOUS
<1>6. n \in Nat /\ n > 0 /\ bq \in Nat /\ bq > 0 /\ BLOCK_Q = bq  BY DEF RowsType, Shape
<1>7. r \in Nat /\ r < m /\ v[r] <= b
  <2>1. /\ r \in Int /\ 0 - 1 <= r /\ r < m
        /\ \A x \in 0..m : (0 <= x /\ x <= r) => v[x] <= b
        /\ \A x \in 0..m : (r < x /\ x < m) => ~ (v[x] <= b)
    BY <1>4, <1>5 DEF Parts
  <2>2. r # -1
    <3> SUFFICES ASSUME r = -1 PROVE FALSE
      OBVIOUS
    <3>1. 0 \in 0..m /\ 0 < m /\ -1 < 0  BY <1>4, <1>6
    <3>2. ~ (v[0] <= b)  BY <2>1, <3>1
    <3>3. query_start_loc(0) = 0 /\ 0 \div bq = 0  BY <1>6, StartsAdd
    <3>4. v[0] = 0  BY <1>4, <3>1, <3>3
    <3> QED BY <1>3, <3>2, <3>4
  <2>3. r \in Nat /\ r \in 0..m  BY <2>1, <2>2, <1>4
  <2> QED BY <2>1, <2>3
<1>8. /\ p.block = b /\ p.kv = kv /\ p.segm = s /\ p.row = r /\ p.start = query_start_loc(r)
      /\ p.qlen = query_len(r) /\ p.len = seq_lens(r) /\ p.ctx = seq_lens(r) - query_len(r)
      /\ p.first = (b - (query_start_loc(r) \div bq + r)) * bq
  BY <1>1, <1>5, <1>6 DEF KernelProgram
<1>9. p.first \in Nat
  <2>1. v[r] = query_start_loc(r) \div bq + r /\ v[r] \in Nat  BY <1>4, <1>7
  <2>2. PICK w : w = b - v[r]  OBVIOUS
  <2>3. w \in Nat  BY <1>3, <1>7, <2>1, <2>2
  <2>4. w * bq \in Nat  BY <1>6, <2>3
  <2> QED BY <1>8, <2>1, <2>2, <2>4
<1>10. r < n
  <2> SUFFICES ASSUME ~ (r < n) PROVE FALSE
    OBVIOUS
  <2>1. query_len(r) = 0  BY <1>7, RowNumbers
  <2> QED BY <1>2, <1>8, <1>9, <2>1
<1>11. PICK i : i = r + 1 /\ i \in 1..n /\ i - 1 = r  BY <1>6, <1>7, <1>10
<1>12. query_len(r) = rows[i].q /\ seq_lens(r) = rows[i].ctx + rows[i].q
       /\ seq_lens(r) - query_len(r) = rows[i].ctx
  BY <1>7, <1>10, <1>11, RowNumbers
<1>13. IsProgram(p, i, segments)
  BY <1>1, <1>2, <1>3, <1>8, <1>9, <1>11, <1>12 DEF IsProgram
<1> QED BY <1>11, <1>13

(* And every query of every row has a program for each KV head and segment. *)
LEMMA GridCovers ==
  ASSUME NEW n, RowsType(n, rows), Fits(n), NEW nq, NEW bm, NEW bq, Shape(nq, bm, bq),
         NEW segments, NEW i \in 1..n, NEW t \in Nat, t < rows[i].q,
         NEW kv \in 0..att.hkv - 1, NEW s \in segments
  PROVE  \E p \in Grid(segments) : /\ IsProgram(p, i, segments) /\ p.kv = kv /\ p.segm = s
                                   /\ p.first <= t /\ t < p.first + bq
<1>1. PICK r : r = i - 1 /\ r \in Nat /\ r < n /\ r + 1 = i /\ n \in Nat
  <2>1. n \in Nat  BY DEF RowsType
  <2> QED BY <2>1
<1>2. bq \in Nat \ {0} /\ bq \in Nat /\ bq > 0 /\ BLOCK_Q = bq  BY DEF Shape
<1>3. PICK P, Q, c : P = query_start_loc(r) /\ Q = query_start_loc(i) /\ c = rows[i].q
                     /\ P \in Nat /\ Q = P + c /\ c \in Nat
  <2>1. query_start_loc(r) \in Nat /\ query_start_loc(i) = query_start_loc(i - 1) + rows[i].q
        /\ rows[i].q \in Nat
    BY <1>1, StartsAdd DEF RowsType
  <2> QED BY <1>1, <2>1
<1>4. PICK k : k = t \div bq /\ k \in Nat /\ bq * k <= t /\ t < bq * k + bq
  <2>1. t \div bq \in Nat /\ bq * (t \div bq) <= t /\ t < bq * (t \div bq) + bq
    <3>1. t \in Int
      OBVIOUS
    <3> QED BY <1>2, <3>1, DivNat, DivBounds
  <2> QED BY <2>1
<1>5. PICK d : d = P \div bq /\ d \in Nat  BY <1>2, <1>3, DivNat
<1>6. PICK b : b = d + r + k /\ b \in Nat  BY <1>1, <1>4, <1>5
<1>7a. PICK m, v : BlockSearch(n, bq, b, m, v)
  BY <1>6, FoundBlock
<1>7. /\ m \in Nat /\ launch.seqs = m /\ n <= m
      /\ \A x \in 0..m : v[x] = query_start_loc(x) \div bq + x /\ v[x] \in Nat
      /\ \A x, y \in 0..m : x <= y => v[x] <= v[y]
      /\ Parts(v, m, b, 0, m, find_seq_idx(b, TRUE))
  BY <1>7a DEF BlockSearch
<1>8. d + k <= (P + t) \div bq /\ (P + t) \div bq <= Q \div bq /\ Q \div bq \in Nat
      /\ (P + t) \div bq \in Nat
  <2>1. P \in Int /\ t \in Int /\ Q \in Int /\ P + t \in Int /\ P + t <= Q /\ Q \in Nat /\ P + t \in Nat
    BY <1>3
  <2>2. Q \div bq \in Nat /\ (P + t) \div bq \in Nat  BY <1>2, <2>1, DivNat
  <2>3. (P + t) \div bq <= Q \div bq  BY <1>2, <2>1, DivOrder
  <2>4. P \div bq + t \div bq <= (P + t) \div bq  BY <1>2, <2>1, DivSum
  <2> QED BY <1>4, <1>5, <2>2, <2>3, <2>4
<1>9. find_seq_idx(b, TRUE) = r
  <2>1. r \in 0..m /\ r + 1 \in 0..m /\ r < m  BY <1>1, <1>7
  <2>2. v[r] = d + r /\ v[r + 1] = Q \div bq + (r + 1)  BY <1>1, <1>3, <1>5, <1>7, <2>1
  <2>3. v[r] <= b /\ b < v[r + 1]  BY <1>1, <1>4, <1>5, <1>6, <1>8, <2>2
  <2>4. b \in Int /\ \A x \in 0..m : v[x] \in Int  BY <1>6, <1>7
  <2>5. PICK f : f = find_seq_idx(b, TRUE)  OBVIOUS
  <2>6. /\ m \in Nat /\ (\A x \in 0..m : v[x] \in Int) /\ b \in Int
        /\ (\A x, y \in 0..m : x <= y => v[x] <= v[y])
        /\ Parts(v, m, b, 0, m, f) /\ r \in Nat /\ r < m /\ v[r] <= b /\ b < v[r + 1]
    BY <1>1, <1>7, <2>1, <2>3, <2>4, <2>5
  <2>7. f = r  BY <2>6, PartIs, Zenon
  <2> QED BY <2>5, <2>7
<1>10. b \in 0..launch.tokens \div BLOCK_Q + launch.seqs - 1
  <2>1. PICK T : T = launch.tokens /\ T \in Nat /\ query_start_loc(n) <= T  BY DEF Fits
  <2>2. i \in Nat /\ n \in Nat /\ i <= n  BY <1>1
  <2>3. Q <= query_start_loc(n)  BY <1>3, <2>2, StartsOrder
  <2>4. query_start_loc(n) \in Nat  BY <2>2, StartsAdd
  <2>5. Q <= T /\ Q \in Int /\ T \in Int  BY <1>3, <2>1, <2>3, <2>4
  <2>6. Q \div bq <= T \div bq /\ T \div bq \in Nat  BY <1>2, <2>1, <2>5, DivOrder, DivNat
  <2>7. b <= T \div bq + m - 1  BY <1>1, <1>4, <1>5, <1>6, <1>7, <1>8, <2>6
  <2>8. T \div bq + m - 1 \in Int  BY <1>7, <2>6
  <2> QED BY <1>2, <1>6, <1>7, <2>1, <2>7, <2>8
<1> DEFINE p == KernelProgram(b, kv, s)
<1>11. query_len(r) = rows[i].q /\ seq_lens(r) = rows[i].ctx + rows[i].q
       /\ seq_lens(r) - query_len(r) = rows[i].ctx
  BY <1>1, RowNumbers
<1>12. (b - (query_start_loc(r) \div bq + r)) * bq = bq * k
  <2>1. b - (d + r) = k  BY <1>1, <1>4, <1>5, <1>6
  <2>2. k * bq = bq * k  BY <1>2, <1>4
  <2> QED BY <1>3, <1>5, <2>1, <2>2
<1>13. /\ p.block = b /\ p.kv = kv /\ p.segm = s /\ p.row = r /\ p.start = query_start_loc(r)
       /\ p.qlen = rows[i].q /\ p.len = rows[i].ctx + rows[i].q /\ p.ctx = rows[i].ctx
       /\ p.first = bq * k
  BY <1>2, <1>9, <1>11, <1>12 DEF KernelProgram
<1>14. bq * k \in Nat /\ bq * k < rows[i].q  BY <1>2, <1>3, <1>4
<1>15. p \in Grid(segments)
  <2>1. p.first < p.qlen  BY <1>13, <1>14
  <2> QED BY <1>10, <2>1 DEF Grid
<1>16. IsProgram(p, i, segments) /\ p.kv = kv /\ p.segm = s /\ p.first <= t /\ t < p.first + bq
  <2> HIDE DEF p
  <2>1. IsProgram(p, i, segments)  BY <1>1, <1>10, <1>13, <1>14 DEF IsProgram
  <2> QED BY <1>4, <1>13, <2>1
<1> HIDE DEF p
<1> QED BY <1>15, <1>16

-----------------------------------------------------------------------------
(* The lanes of a program and the keys they add up. *)

(* A lane that stores anything has a query of its row and a head of its KV head. *)
LEMMA LaneHas ==
  ASSUME NEW nq, NEW bm, NEW bq, Shape(nq, bm, bq), NEW i, NEW segments, NEW p,
         IsProgram(p, i, segments), NEW m \in Lanes(p)
  PROVE  /\ QueryPos(p, m) \in Nat /\ p.first <= QueryPos(p, m)
         /\ QueryPos(p, m) <= p.first + (bm - 1) \div nq /\ QueryPos(p, m) < rows[i].q
         /\ QueryHead(p, m) \in Heads /\ QueryHead(p, m) \div nq = p.kv
<1>1. PICK f, kv, w, k : f = p.first /\ kv = p.kv /\ w = m \div nq /\ k = m % nq  OBVIOUS
<1>2. nq \in Nat \ {0} /\ nq \in Nat /\ bm \in Nat /\ num_queries_per_kv = nq /\ BLOCK_M = bm
  BY DEF Shape
<1>3. f \in Nat /\ kv \in Nat /\ p.qlen = rows[i].q  BY <1>1 DEF IsProgram, Shape
<1>4. m \in Nat /\ m <= bm - 1 /\ QueryPos(p, m) < p.qlen /\ QueryHead(p, m) < att.hq
  BY <1>2 DEF Lanes
<1>5. w \in Nat /\ w <= (bm - 1) \div nq /\ (bm - 1) \div nq \in Int
  <2>1. m \in Int /\ bm - 1 \in Int  BY <1>2, <1>4
  <2>2. m \div nq <= (bm - 1) \div nq  BY <1>2, <1>4, <2>1, DivOrder
  <2>3. m \div nq \in Nat /\ (bm - 1) \div nq \in Int  BY <1>2, <1>4, <2>1, DivNat, DivType
  <2> QED BY <1>1, <2>2, <2>3
<1>6. k \in Nat /\ k < nq  BY <1>1, <1>2, <1>4, DivType
<1>7. QueryPos(p, m) = f + w /\ QueryHead(p, m) = kv * nq + k
  BY <1>1, <1>2 DEF QueryPos, QueryHead
<1>8. kv * nq + k \in Nat  BY <1>2, <1>3, <1>6
<1>9. (kv * nq + k) \div nq = kv
  <2>1. nq * kv <= kv * nq + k /\ kv * nq + k < nq * kv + nq /\ kv \in Int /\ kv * nq + k \in Int
    BY <1>2, <1>3, <1>6, <1>8
  <2> QED BY <1>2, <2>1, DivUnique
<1>10. QueryHead(p, m) \in Heads
  <2>1. att.hq \in Nat  BY DEF Shape
  <2> QED BY <1>4, <1>7, <1>8, <2>1 DEF Heads
<1> QED BY <1>1, <1>3, <1>4, <1>5, <1>7, <1>9, <1>10

(* And there is a lane for each of them. *)
LEMMA LaneFor ==
  ASSUME NEW nq, NEW bm, NEW bq, Shape(nq, bm, bq), NEW i, NEW segments, NEW p,
         IsProgram(p, i, segments), NEW t \in Nat, t < rows[i].q, p.first <= t, t < p.first + bq,
         NEW h \in Heads, h \div nq = p.kv
  PROVE  \E m \in Lanes(p) : QueryPos(p, m) = t /\ QueryHead(p, m) = h
<1>1. PICK f, kv, w, k : f = p.first /\ kv = p.kv /\ w = t - f /\ k = h % nq  OBVIOUS
<1>2. /\ nq \in Nat \ {0} /\ nq \in Nat /\ bm \in Nat /\ num_queries_per_kv = nq /\ BLOCK_M = bm
      /\ bq \in Nat /\ bq > 0 /\ bq * nq <= bm /\ att.hq \in Nat
  BY DEF Shape
<1>3. f \in Nat /\ kv \in Nat /\ p.qlen = rows[i].q /\ w \in Nat /\ w <= bq - 1
  <2>1. f \in Nat /\ kv \in Nat /\ p.qlen = rows[i].q  BY <1>1 DEF IsProgram, Shape
  <2> QED BY <1>1, <1>2, <2>1
<1>4. h \in Nat /\ h < att.hq  BY <1>2 DEF Heads
<1>5. k \in Nat /\ k < nq /\ h = kv * nq + k
  <2>1. k \in Nat /\ k < nq /\ k = h - nq * kv
    <3>1. h \in Int  BY <1>4
    <3>2. h % nq \in Nat /\ h % nq < nq  BY <1>2, <3>1, DivType
    <3>3. h % nq = h - nq * (h \div nq)  BY <1>2, <3>1, DivMod
    <3> QED BY <1>1, <3>2, <3>3
  <2> QED BY <1>2, <1>3, <1>4, <2>1
<1>6. PICK m : m = w * nq + k /\ m \in Nat  BY <1>2, <1>3, <1>5
<1>7. m <= bm - 1
  <2>1. w * nq <= (bq - 1) * nq
    <3>1. nq * w <= nq * (bq - 1) /\ nq * w = w * nq /\ nq * (bq - 1) = (bq - 1) * nq
      BY <1>2, <1>3, TimesOrder
    <3> QED BY <3>1
  <2>2. (bq - 1) * nq = bq * nq - nq /\ bq * nq \in Nat /\ w * nq \in Nat  BY <1>2, <1>3
  <2> QED BY <1>2, <1>5, <1>6, <2>1, <2>2
<1>8. m \div nq = w
  <2>1. nq * w <= m /\ m < nq * w + nq /\ m \in Int /\ w \in Int  BY <1>2, <1>3, <1>5, <1>6
  <2> QED BY <1>2, <2>1, DivUnique
<1>9. m % nq = k
  <2>1. m % nq = m - nq * w
    <3>1. m \in Int  BY <1>6
    <3>2. m % nq = m - nq * (m \div nq)  BY <1>2, <3>1, DivMod
    <3> QED BY <1>8, <3>2
  <2> QED BY <1>2, <1>3, <1>5, <1>6, <2>1
<1>10. QueryPos(p, m) = t /\ QueryHead(p, m) = h
  <2>1. QueryPos(p, m) = f + w /\ QueryHead(p, m) = kv * nq + k
    BY <1>1, <1>2, <1>8, <1>9 DEF QueryPos, QueryHead
  <2>2. f + w = t  BY <1>1, <1>3
  <2> QED BY <1>5, <2>1, <2>2
<1>11. m \in Lanes(p)
  <2>1. m \in 0..BLOCK_M - 1  BY <1>2, <1>6, <1>7
  <2> QED BY <1>3, <1>4, <1>10, <2>1 DEF Lanes
<1> QED BY <1>10, <1>11

(* The positions whose keys a query at position a attends to. *)
Window(a) == (IF att.window = 0 THEN 0 ELSE Most(0, a - att.window + 1))..a

LEMMA InWindow ==
  ASSUME att.window \in Nat, NEW a \in Nat, NEW x
  PROVE  x \in Window(a) <=> x \in Nat /\ x <= a /\ (att.window > 0 => a - x < att.window)
<1>1. PICK w : w = att.window /\ w \in Nat  OBVIOUS
<1>2. Window(a) = (IF w = 0 THEN 0 ELSE Most(0, a - w + 1))..a  BY <1>1 DEF Window
<1>3. CASE w = 0
  BY <1>1, <1>2, <1>3
<1>4. CASE w > 0 /\ 0 < a - w + 1
  <2>1. Most(0, a - w + 1) = a - w + 1  BY <1>4 DEF Most
  <2> QED BY <1>1, <1>2, <1>4, <2>1
<1>5. CASE w > 0 /\ ~ (0 < a - w + 1)
  <2>1. Most(0, a - w + 1) = 0  BY <1>5 DEF Most
  <2> QED BY <1>1, <1>2, <1>5, <2>1
<1> QED BY <1>1, <1>3, <1>4, <1>5

(* The tiles of a program hold the keys of all its queries, and all of those *)
(* are loaded. *)
LEMMA TilesHold ==
  ASSUME NEW n, RowsType(n, rows), NEW i \in 1..n,
         NEW nq, NEW bm, NEW bq, Shape(nq, bm, bq), NEW segments, NEW p,
         IsProgram(p, i, segments), NEW m \in Lanes(p), NEW size \in Nat, size > 0
  PROVE  /\ p.ctx + QueryPos(p, m) \in Nat
         /\ Tiles(p, size) \subseteq Nat
         /\ \A x \in Window(p.ctx + QueryPos(p, m)) :
              x \in Nat /\ x < max_seq_prefix_len(p) /\ x < p.len /\ x \div size \in Tiles(p, size)
<1>1. PICK t, f, c, q, s, w : t = QueryPos(p, m) /\ f = p.first /\ c = p.ctx /\ q = p.qlen
                              /\ s = (bm - 1) \div nq /\ w = att.window
  OBVIOUS
<1>2. /\ t \in Nat /\ f <= t /\ t <= f + s /\ t < q /\ f \in Nat /\ c \in Nat /\ q \in Nat
      /\ p.len = c + q
  <2>1. t \in Nat /\ f <= t /\ t <= f + s /\ t < rows[i].q  BY <1>1, LaneHas
  <2>2. f \in Nat /\ p.ctx = rows[i].ctx /\ p.qlen = rows[i].q /\ p.len = rows[i].ctx + rows[i].q
    BY <1>1 DEF IsProgram
  <2>3. rows[i].ctx \in Nat /\ rows[i].q \in Nat  BY DEF RowsType
  <2> QED BY <1>1, <2>1, <2>2, <2>3
<1>3. s \in Int /\ num_queries_per_kv = nq /\ BLOCK_M = bm /\ w \in Nat /\ size \in Nat \ {0}
  <2>1. bm \in Nat /\ nq \in Nat /\ nq > 0 /\ num_queries_per_kv = nq /\ BLOCK_M = bm /\ att.window \in Nat
    BY DEF Shape
  <2>2. nq \in Nat \ {0} /\ bm - 1 \in Int  BY <2>1
  <2>3. (bm - 1) \div nq \in Int  BY <2>2, DivType
  <2> QED BY <1>1, <2>1, <2>3
<1>4. PICK r : r = max_seq_prefix_len(p)  OBVIOUS
<1>5. r = Least(c + f + s + 1, c + q)  BY <1>1, <1>2, <1>3, <1>4 DEF max_seq_prefix_len
<1>6. r \in Nat /\ c + t < r /\ r <= c + q  BY <1>2, <1>3, <1>5 DEF Least
<1>7. PICK nt : nt = cdiv_fn(r, size)  OBVIOUS
<1>8. nt = (r + size - 1) \div size /\ nt \in Nat
  <2>1. nt = (r + size - 1) \div size  BY <1>7 DEF cdiv_fn
  <2>2. r + size - 1 \in Nat  BY <1>3, <1>6
  <2> QED BY <1>3, <2>1, <2>2, DivNat
<1>9. PICK lo, hi : lo = (c + f - w + 1) \div size
                    /\ hi = (c + Least(f + s, q - 1)) \div size
  OBVIOUS
<1>10. Tiles(p, size) = IF w = 0 THEN 0..nt - 1 ELSE Most(0, lo)..Least(hi + 1, nt) - 1
  BY <1>1, <1>3, <1>4, <1>7, <1>9 DEF Tiles
<1>11. lo \in Int /\ hi \in Int /\ c + f - w + 1 \in Int /\ c + Least(f + s, q - 1) \in Int
       /\ c + t <= c + Least(f + s, q - 1)
  <2>1. c + f - w + 1 \in Int  BY <1>2, <1>3
  <2>2. c + Least(f + s, q - 1) \in Int /\ c + t <= c + Least(f + s, q - 1)
    BY <1>2, <1>3 DEF Least
  <2> QED BY <1>3, <1>9, <2>1, <2>2, DivType
<1>12. Tiles(p, size) \subseteq Nat  BY <1>8, <1>10, <1>11 DEF Most, Least
<1>13. ASSUME NEW x \in Window(c + t)
       PROVE  x \in Nat /\ x < r /\ x < c + q /\ x \div size \in Tiles(p, size)
  <2>1. x \in Nat /\ x <= c + t /\ (w > 0 => (c + t) - x < w)
    <3>1. c + t \in Nat /\ att.window \in Nat  BY <1>1, <1>2, <1>3
    <3> QED BY <1>1, <3>1, InWindow
  <2>2. x < r /\ x < c + q  BY <1>2, <1>6, <2>1
  <2>3. PICK d : d = x \div size /\ d \in Nat /\ size * d <= x /\ x < size * d + size
    <3>1. x \in Int  BY <2>1
    <3>2. x \div size \in Nat /\ size * (x \div size) <= x /\ x < size * (x \div size) + size
      BY <1>3, <2>1, <3>1, DivNat, DivBounds
    <3> QED BY <3>2
  <2>4. d < nt
    <3>1. size * (d + 1) <= r + size - 1
      <4>1. size * (d + 1) = size * d + size /\ size * d \in Nat  BY <1>3, <2>3
      <4> QED BY <1>3, <1>6, <2>1, <2>2, <2>3, <4>1
    <3>2. r + size - 1 \in Int /\ d + 1 \in Int  BY <1>3, <1>6, <2>3
    <3>3. d + 1 <= (r + size - 1) \div size  BY <1>3, <3>1, <3>2, DivLess
    <3> QED BY <1>8, <2>3, <3>3
  <2>5. CASE w = 0
    <3>1. d \in 0..nt - 1  BY <1>8, <2>3, <2>4
    <3> QED BY <1>10, <2>1, <2>2, <2>3, <2>5, <3>1
  <2>6. CASE w # 0
    <3>1. lo <= d
      <4>1. c + f - w + 1 <= x /\ x \in Int  BY <1>2, <1>3, <2>1, <2>6
      <4>2. (c + f - w + 1) \div size <= x \div size  BY <1>3, <1>11, <4>1, DivOrder
      <4> QED BY <1>9, <2>3, <4>2
    <3>2. d <= hi
      <4>1. x <= c + Least(f + s, q - 1) /\ x \in Int  BY <1>2, <1>11, <2>1
      <4>2. x \div size <= (c + Least(f + s, q - 1)) \div size
        BY <1>3, <1>11, <4>1, DivOrder
      <4> QED BY <1>9, <2>3, <4>2
    <3>3. d \in Most(0, lo)..Least(hi + 1, nt) - 1
      BY <1>8, <1>11, <2>3, <2>4, <3>1, <3>2 DEF Most, Least
    <3> QED BY <1>10, <2>1, <2>2, <2>3, <2>6, <3>3
  <2> QED BY <2>5, <2>6
<1>14. c + t \in Nat  BY <1>2
<1> QED BY <1>1, <1>2, <1>4, <1>12, <1>13, <1>14

(* What the cache must hold for row i to find its keys up to position e. *)
Holds(i, e) ==
  \A kv \in 0..att.hkv - 1 : \A x \in Nat : x < e => cache[Slot(i - 1, kv, x)] = <<rows[i].id, x>>

(* The positions of a window in some tiles, and the terms of request id at *)
(* positions Y, in a segment, for a KV head. *)
WindowIn(a, size, tiles) == {x \in Window(a) : x \div size \in tiles}
TermsAt(s, kv, id, Y) == {<<s, kv, pos, <<id, pos>>>> : pos \in Y}

(* The sum of a lane over some tiles has the keys of its query in these tiles. *)
LEMMA LaneAdds ==
  ASSUME NEW n, RowsType(n, rows), NEW i \in 1..n,
         NEW nq, NEW bm, NEW bq, Shape(nq, bm, bq), NEW segments, NEW p,
         IsProgram(p, i, segments), NEW m \in Lanes(p), NEW size \in Nat, size > 0,
         NEW tiles, tiles \subseteq Nat, Holds(i, rows[i].ctx + rows[i].q)
  PROVE  LaneSum(p, m, tiles, size)
           = TermsAt(p.segm, p.kv, rows[i].id, WindowIn(p.ctx + QueryPos(p, m), size, tiles))
<1>1. PICK a : a = p.ctx + QueryPos(p, m) /\ a \in Nat  BY TilesHold
<1>2. att.window \in Nat /\ size \in Nat \ {0}  BY DEF Shape
<1> DEFINE Passes(pos) == pos <= a /\ (att.window > 0 => a - pos < att.window)
           X == {x \in UNION {j * size..(j + 1) * size - 1 : j \in tiles} : Passes(x)}
           Y == {x \in Window(a) : x \div size \in tiles}
           key(pos) == IF pos < max_seq_prefix_len(p) THEN cache[Slot(p.row, p.kv, pos)] ELSE <<>>
<1>3. LaneSum(p, m, tiles, size) = {<<p.segm, p.kv, pos, key(pos)>> : pos \in X}
  BY <1>1, Zenon DEF LaneSum
<1>4. ASSUME NEW x \in X
      PROVE  x \in Y
  <2>1. PICK j \in tiles : x \in j * size..(j + 1) * size - 1  OBVIOUS
  <2>2. j \in Nat /\ j * size \in Nat /\ (j + 1) * size = j * size + size /\ j * size = size * j
    BY <1>2
  <2>3. x \in Nat /\ x \in Int /\ size * j <= x /\ x < size * j + size /\ j \in Int
    BY <1>2, <2>1, <2>2
  <2>4. x \div size = j  BY <1>2, <2>3, DivUnique
  <2>5. Passes(x)
    OBVIOUS
  <2>6. x \in Window(a)  BY <1>1, <1>2, <2>3, <2>5, InWindow
  <2> QED BY <2>4, <2>6
<1>5. ASSUME NEW x \in Y
      PROVE  x \in X
  <2>1. x \in Nat /\ Passes(x)  BY <1>1, <1>2, InWindow
  <2>2. PICK j : j = x \div size /\ j \in tiles /\ j \in Nat  OBVIOUS
  <2>3. size * j <= x /\ x < size * j + size
    <3>1. x \in Int  BY <2>1
    <3> QED BY <1>2, <2>2, <3>1, DivBounds
  <2>4. j * size = size * j /\ (j + 1) * size = size * j + size /\ size * j \in Nat
    BY <1>2, <2>2
  <2>5. x \in j * size..(j + 1) * size - 1  BY <1>2, <2>1, <2>3, <2>4
  <2> HIDE DEF Passes
  <2> QED BY <2>1, <2>2, <2>5
<1>6. X = Y  BY <1>4, <1>5
<1>7. ASSUME NEW x \in Y
      PROVE  key(x) = <<rows[i].id, x>>
  <2>1. x \in Nat /\ x < max_seq_prefix_len(p) /\ x < p.len  BY <1>1, TilesHold
  <2>2. p.row = i - 1 /\ p.kv \in 0..att.hkv - 1 /\ p.len = rows[i].ctx + rows[i].q
    BY DEF IsProgram
  <2>3. cache[Slot(i - 1, p.kv, x)] = <<rows[i].id, x>>  BY <2>1, <2>2 DEF Holds
  <2> QED BY <2>1, <2>2, <2>3
<1> HIDE DEF X, Y, key
<1>8. {<<p.segm, p.kv, pos, key(pos)>> : pos \in X} = TermsAt(p.segm, p.kv, rows[i].id, Y)
  BY <1>6, <1>7 DEF TermsAt
<1> QED BY <1>1, <1>3, <1>8 DEF Y, WindowIn

-----------------------------------------------------------------------------
(* What a grid stores. *)

(* Some of the stores W are to cell c, and all of these store X. *)
AllStore(W, c, X, N) ==
  /\ N \in Int /\ \E w \in W : w.cell = c
  /\ \A w \in W : w.cell = c => w.sum = X /\ w.by \in 0..N

(* Then the last of them does not matter. *)
LEMMA AfterIs ==
  ASSUME NEW W, NEW old, NEW late, NEW c, c \in DOMAIN old, NEW X, NEW N, AllStore(W, c, X, N)
  PROVE  After(W, old, late)[c] = X
<1> DEFINE mine == {w \in W : w.cell = c}
           last(w) == \A x \in mine : IF late THEN x.by <= w.by ELSE w.by <= x.by
<1>1. mine # {} /\ N \in Int /\ \A w \in mine : w.sum = X /\ w.by \in 0..N  BY DEF AllStore
<1>2. After(W, old, late)[c] = IF mine = {} THEN old[c] ELSE (CHOOSE w \in mine : last(w)).sum
  BY Zenon DEF After
<1> HIDE DEF mine
<1>3. \E w \in mine : last(w)
  <2>1. CASE late
    <3> DEFINE T == {N - w.by : w \in mine}
    <3>1. T \subseteq Nat /\ T # {}
      <4>1. \A w \in mine : N - w.by \in Nat
        <5> SUFFICES ASSUME NEW w \in mine PROVE N - w.by \in Nat
          OBVIOUS
        <5>1. w.by \in 0..N  BY <1>1
        <5> QED BY <1>1, <5>1
      <4> QED BY <1>1, <4>1
    <3>2. PICK k \in T : \A y \in T : k <= y
      <4> HIDE DEF T
      <4> QED BY <3>1, NatLeast
    <3>3. PICK w \in mine : k = N - w.by  OBVIOUS
    <3>4. ASSUME NEW x \in mine
          PROVE  x.by <= w.by
      <4>1. N - w.by <= N - x.by  BY <3>2, <3>3
      <4>2. x.by \in 0..N /\ w.by \in 0..N  BY <1>1
      <4> QED BY <1>1, <4>1, <4>2
    <3> QED BY <2>1, <3>4
  <2>2. CASE ~ late
    <3> DEFINE T == {w.by : w \in mine}
    <3>1. T \subseteq Nat /\ T # {}  BY <1>1
    <3>2. PICK k \in T : \A y \in T : k <= y
      <4> HIDE DEF T
      <4> QED BY <3>1, NatLeast
    <3>3. PICK w \in mine : k = w.by  OBVIOUS
    <3>4. \A x \in mine : w.by <= x.by  BY <3>2, <3>3
    <3> QED BY <2>2, <3>4
  <2> QED BY <2>1, <2>2
<1>4. (CHOOSE w \in mine : last(w)) \in mine
  <2> HIDE DEF last
  <2> QED BY <1>3
<1>5. (CHOOSE w \in mine : last(w)).sum = X  BY <1>1, <1>4, Zenon
<1> QED BY <1>1, <1>2, <1>5

(* What the programs PS, each with its tiles, store. *)
Stores(PS, tl, size) == UNION {Sums(p, tl[p], size) : p \in PS}

(* They are all the programs that have token t of row i in segment s, and each *)
(* adds up the same keys for it, those at Y; row i's keys are in the cache, and *)
(* the token's cell of head h is in the buffer the grid stores to. *)
Storers(n, segments, PS, tl, size, i, t, h, s, Y, old) ==
  /\ RowsType(n, rows) /\ Fits(n) /\ size \in Nat /\ size > 0
  /\ i \in 1..n /\ t \in Nat /\ t < rows[i].q /\ h \in Heads /\ s \in segments
  /\ Holds(i, rows[i].ctx + rows[i].q)
  /\ <<query_start_loc(i - 1) + t, h, s>> \in DOMAIN old
  /\ PS \in SUBSET Grid(segments) /\ \A p \in PS : tl[p] \subseteq Nat
  /\ \A p \in Grid(segments) : IsProgram(p, i, segments) /\ p.segm = s => p \in PS
  /\ \A p \in PS : \A m \in Lanes(p) :
       IsProgram(p, i, segments) /\ p.segm = s /\ QueryPos(p, m) = t
         => WindowIn(rows[i].ctx + t, size, tl[p]) = Y

(* The cell of a token and a head in a segment holds the keys of its query *)
(* that are in the segment's tiles, once all programs that have it are through. *)
LEMMA GridStores ==
  ASSUME NEW n, NEW segments, NEW PS, NEW tl, NEW size, NEW i, NEW t, NEW h, NEW s, NEW Y,
         NEW old, NEW late, NEW nq, NEW bm, NEW bq, Shape(nq, bm, bq),
         Storers(n, segments, PS, tl, size, i, t, h, s, Y, old)
  PROVE  After(Stores(PS, tl, size), old, late)[<<query_start_loc(i - 1) + t, h, s>>]
           = TermsAt(s, h \div nq, rows[i].id, Y)
<1> DEFINE W == Stores(PS, tl, size)
<1> /\ RowsType(n, rows) /\ Fits(n) /\ size \in Nat /\ size > 0
    /\ i \in 1..n /\ t \in Nat /\ t < rows[i].q /\ h \in Heads /\ s \in segments
    /\ Holds(i, rows[i].ctx + rows[i].q)
    /\ <<query_start_loc(i - 1) + t, h, s>> \in DOMAIN old
  BY DEF Storers
<1>0. /\ W = UNION {Sums(p, tl[p], size) : p \in PS}
      /\ PS \in SUBSET Grid(segments) /\ \A p \in PS : tl[p] \subseteq Nat
      /\ \A p \in Grid(segments) : IsProgram(p, i, segments) /\ p.segm = s => p \in PS
      /\ \A p \in PS : \A m \in Lanes(p) :
           IsProgram(p, i, segments) /\ p.segm = s /\ QueryPos(p, m) = t
             => WindowIn(rows[i].ctx + t, size, tl[p]) = Y
  BY DEF Storers, Stores
<1> HIDE DEF W
<1>1. PICK c : c = <<query_start_loc(i - 1) + t, h, s>>  OBVIOUS
<1>2. PICK X : X = TermsAt(s, h \div nq, rows[i].id, Y)  OBVIOUS
<1>3. n \in Nat /\ nq \in Nat \ {0} /\ h \in Nat /\ h < nq * att.hkv /\ att.hkv \in Nat
  <2>1. nq \in Nat /\ nq > 0 /\ att.hkv \in Nat /\ att.hq = nq * att.hkv  BY DEF Shape
  <2>2. n \in Nat  BY DEF RowsType
  <2>3. nq * att.hkv \in Nat /\ h \in 0..nq * att.hkv - 1  BY <2>1 DEF Heads
  <2> QED BY <2>1, <2>2, <2>3
<1>4. h \div nq \in 0..att.hkv - 1
  <2>1. h \div nq \in Nat /\ h \div nq < att.hkv
    <3>1. h \in Int /\ att.hkv \in Int  BY <1>3
    <3> QED BY <1>3, <3>1, DivNat, DivLess
  <2> QED BY <1>3, <2>1
<1>5. \E w \in W : w.cell = c
  <2>1. PICK p \in Grid(segments) : /\ IsProgram(p, i, segments) /\ p.kv = h \div nq /\ p.segm = s
                                    /\ p.first <= t /\ t < p.first + bq
    BY <1>4, GridCovers
  <2>2. p \in PS  BY <1>0, <2>1
  <2>3. PICK m \in Lanes(p) : QueryPos(p, m) = t /\ QueryHead(p, m) = h  BY <2>1, LaneFor
  <2> DEFINE w == [cell |-> <<p.start + QueryPos(p, m), QueryHead(p, m), p.segm>>, by |-> p.block,
                   sum |-> LaneSum(p, m, tl[p], size)]
  <2>4. w \in Sums(p, tl[p], size)  BY DEF Sums
  <2>5. p.start = query_start_loc(i - 1)  BY <2>1 DEF IsProgram
  <2>6. w.cell = c  BY <1>1, <2>1, <2>3, <2>5
  <2> HIDE DEF w
  <2> QED BY <1>0, <2>2, <2>4, <2>6
<1>6. PICK N : N = launch.tokens \div BLOCK_Q + launch.seqs - 1 /\ N \in Int
  <2>1. launch.tokens \in Nat /\ launch.seqs \in Nat /\ BLOCK_Q \in Nat \ {0}
    BY DEF Fits, Shape
  <2> QED BY <2>1, DivNat
<1>7. ASSUME NEW w \in W, w.cell = c
      PROVE  w.sum = X /\ w.by \in 0..N
  <2>1. PICK p \in PS : w \in Sums(p, tl[p], size)  BY <1>0
  <2>2. PICK m \in Lanes(p) :
             w = [cell |-> <<p.start + QueryPos(p, m), QueryHead(p, m), p.segm>>, by |-> p.block,
                  sum |-> LaneSum(p, m, tl[p], size)]
    BY <2>1 DEF Sums
  <2>3. PICK j \in 1..n : IsProgram(p, j, segments)
    <3>1. p \in Grid(segments)  BY <1>0
    <3> QED BY <3>1, GridRow
  <2>4. /\ QueryPos(p, m) \in Nat /\ QueryPos(p, m) < rows[j].q
        /\ QueryHead(p, m) \in Heads /\ QueryHead(p, m) \div nq = p.kv
    BY <2>3, LaneHas
  <2>5. w.cell = <<p.start + QueryPos(p, m), QueryHead(p, m), p.segm>> /\ w.by = p.block
        /\ w.sum = LaneSum(p, m, tl[p], size)
    BY <2>2
  <2>6. p.start = query_start_loc(j - 1)  BY <2>3 DEF IsProgram
  <2>7. /\ query_start_loc(j - 1) + QueryPos(p, m) = query_start_loc(i - 1) + t
        /\ QueryHead(p, m) = h /\ p.segm = s
    BY <1>1, <1>7, <2>5, <2>6
  <2>8. j = i /\ QueryPos(p, m) = t
    <3>1. PICK u : u = QueryPos(p, m)  OBVIOUS
    <3>2. /\ RowsType(n, rows) /\ j \in 1..n /\ i \in 1..n /\ u \in Nat /\ u < rows[j].q
          /\ t \in Nat /\ t < rows[i].q /\ query_start_loc(j - 1) + u = query_start_loc(i - 1) + t
      BY <2>4, <2>7, <3>1
    <3>3. j = i /\ u = t  BY <3>2, OneRow
    <3> QED BY <3>1, <3>3
  <2>9. IsProgram(p, i, segments) /\ p.ctx = rows[i].ctx  BY <2>3, <2>8 DEF IsProgram
  <2>10. LaneSum(p, m, tl[p], size)
           = TermsAt(p.segm, p.kv, rows[i].id, WindowIn(p.ctx + QueryPos(p, m), size, tl[p]))
    <3>1. PICK tiles : tiles = tl[p] /\ tiles \subseteq Nat  BY <1>0
    <3> QED BY <2>9, <3>1, LaneAdds
  <2>11. WindowIn(p.ctx + QueryPos(p, m), size, tl[p]) = Y  BY <1>0, <2>7, <2>8, <2>9
  <2>12. w.sum = X  BY <1>2, <2>4, <2>5, <2>7, <2>10, <2>11
  <2>13. w.by \in 0..N
    <3>1. p.block \in 0..launch.tokens \div BLOCK_Q + launch.seqs - 1  BY <2>3 DEF IsProgram
    <3> QED BY <1>6, <2>5, <3>1
  <2> QED BY <2>12, <2>13
<1>8. c \in DOMAIN old  BY <1>1
<1>9. After(W, old, late)[c] = X
  <2>1. AllStore(W, c, X, N)  BY <1>5, <1>6, <1>7 DEF AllStore
  <2> QED BY <1>8, <2>1, AfterIs
<1> QED BY <1>1, <1>2, <1>9 DEF W

(* What the output holds for a token: its keys, each for its KV head, in some *)
(* segment. *)
OutRight(n, o) ==
  \A i \in 1..n, h \in Heads : \A t \in Nat : t < rows[i].q =>
    \E g : o[<<query_start_loc(i - 1) + t, h, 0>>]
             = {<<g[pos], h \div num_queries_per_kv, pos, <<rows[i].id, pos>>>> :
                  pos \in Window(rows[i].ctx + t)}

(* A token's place is one of the launch. *)
LEMMA TokenBelow ==
  ASSUME NEW n, RowsType(n, rows), NEW i \in 1..n, NEW t \in Nat, t < rows[i].q
  PROVE  query_start_loc(i - 1) + t \in Nat /\ query_start_loc(i - 1) + t < query_start_loc(n)
<1>1. i - 1 \in Nat /\ i \in Nat /\ n \in Nat /\ i <= n  BY DEF RowsType
<1>2. query_start_loc(i) <= query_start_loc(n)  BY <1>1, StartsOrder
<1>3. query_start_loc(i) = query_start_loc(i - 1) + rows[i].q /\ query_start_loc(i - 1) \in Nat
      /\ query_start_loc(n) \in Nat /\ rows[i].q \in Nat
  BY <1>1, StartsAdd DEF RowsType
<1> QED BY <1>2, <1>3

(* The tiles of a program are tiles. *)
LEMMA TilesAreNat ==
  ASSUME NEW n, RowsType(n, rows), Fits(n), NEW nq, NEW bm, NEW bq, Shape(nq, bm, bq),
         NEW size \in Nat, size > 0, NEW segments, NEW p \in Grid(segments)
  PROVE  Tiles(p, size) \subseteq Nat
<1>1. PICK j \in 1..n : IsProgram(p, j, segments)  BY GridRow
<1>2. \E m \in Lanes(p) : TRUE
  <2>1. PICK t0, h0 : t0 = p.first /\ h0 = p.kv * nq  OBVIOUS
  <2>2. nq \in Nat /\ nq \in Nat \ {0} /\ nq > 0 /\ bq \in Nat /\ bq > 0 /\ att.hq = nq * att.hkv
        /\ att.hkv \in Nat
    BY DEF Shape
  <2>3. p.kv \in Nat /\ p.kv < att.hkv /\ t0 \in Nat /\ t0 < rows[j].q
    BY <1>1, <2>1, <2>2 DEF IsProgram
  <2>4. h0 \in Nat /\ h0 < att.hq /\ h0 = nq * p.kv
    <3>1. nq * p.kv < nq * att.hkv /\ nq * p.kv \in Nat /\ nq * p.kv = p.kv * nq
      BY <2>2, <2>3, TimesOrder
    <3> QED BY <2>1, <2>2, <3>1
  <2>5. h0 \div nq = p.kv
    <3>1. h0 \in Int /\ p.kv \in Int /\ nq * p.kv <= h0 /\ h0 < nq * p.kv + nq
      BY <2>2, <2>3, <2>4
    <3> QED BY <2>2, <3>1, DivUnique
  <2>6. h0 \in Heads  BY <2>2, <2>4 DEF Heads
  <2>7. p.first <= t0 /\ t0 < p.first + bq  BY <2>1, <2>2, <2>3
  <2> QED BY <1>1, <2>3, <2>5, <2>6, <2>7, LaneFor
<1>3. PICK m \in Lanes(p) : TRUE  BY <1>2
<1> QED BY <1>1, <1>3, TilesHold

(* The 2D kernel writes the output. *)
LEMMA Writes2D ==
  ASSUME NEW n, RowsType(n, rows), Fits(n), att \in AttnConfigs, NEW late,
         \A i \in 1..n : Holds(i, rows[i].ctx + rows[i].q),
         \A k \in Nat : k < query_start_loc(n) => \A h \in Heads : <<k, h, 0>> \in DOMAIN out
  PROVE  OutRight(n, After(UNION {Sums(p, Tiles(p, att.tile), att.tile) : p \in Grid({0})}, out, late))
<1>1. PICK nq, bm, bq : Shape(nq, bm, bq)  BY ShapeExists
<1>2. PICK size : size = att.tile /\ size \in Nat /\ size > 0  BY <1>1 DEF Shape
<1> DEFINE PS == Grid({0})
           tl == [p \in PS |-> Tiles(p, size)]
           W == Stores(PS, tl, size)
<1>3. W = UNION {Sums(p, Tiles(p, att.tile), att.tile) : p \in Grid({0})}
  <2>1. \A p \in PS : Sums(p, tl[p], size) = Sums(p, Tiles(p, att.tile), att.tile)  BY <1>2
  <2> QED BY <2>1 DEF Stores
<1>4. \A p \in PS : tl[p] = Tiles(p, size)
  OBVIOUS
<1> HIDE DEF W, PS, tl
<1>5. ASSUME NEW i \in 1..n, NEW h \in Heads, NEW t \in Nat, t < rows[i].q
      PROVE  \E g : After(W, out, late)[<<query_start_loc(i - 1) + t, h, 0>>]
             = {<<g[pos], h \div num_queries_per_kv, pos, <<rows[i].id, pos>>>> :
                  pos \in Window(rows[i].ctx + t)}
  <2>1. ASSUME NEW p \in PS, NEW m \in Lanes(p), IsProgram(p, i, {0}), QueryPos(p, m) = t
        PROVE  WindowIn(rows[i].ctx + t, size, tl[p]) = Window(rows[i].ctx + t)
    <3>1. p.ctx = rows[i].ctx  BY <2>1 DEF IsProgram
    <3>2. \A x \in Window(p.ctx + QueryPos(p, m)) : x \div size \in Tiles(p, size)
      BY <1>1, <1>2, <2>1, TilesHold
    <3> QED BY <1>4, <2>1, <3>1, <3>2 DEF WindowIn
  <2>2. \A p \in PS : tl[p] \subseteq Nat  BY <1>1, <1>2, <1>4, TilesAreNat DEF PS
  <2>3. <<query_start_loc(i - 1) + t, h, 0>> \in DOMAIN out  BY <1>5, TokenBelow
  <2>4. PICK Y : Y = Window(rows[i].ctx + t)  OBVIOUS
  <2>5. Storers(n, {0}, PS, tl, size, i, t, h, 0, Y, out)
    <3>1. PS \in SUBSET Grid({0}) /\ \A p \in PS : tl[p] \subseteq Nat  BY <2>2 DEF PS
    <3>2. \A p \in PS : \A m \in Lanes(p) :
            IsProgram(p, i, {0}) /\ p.segm = 0 /\ QueryPos(p, m) = t
              => WindowIn(rows[i].ctx + t, size, tl[p]) = Y
      BY <2>1, <2>4
    <3>3. \A p \in Grid({0}) : IsProgram(p, i, {0}) /\ p.segm = 0 => p \in PS  BY DEF PS
    <3>4. RowsType(n, rows) /\ Fits(n) /\ size \in Nat /\ size > 0 /\ 0 \in {0}
          /\ Holds(i, rows[i].ctx + rows[i].q)
      BY <1>2
    <3> QED BY <1>5, <2>3, <3>1, <3>2, <3>3, <3>4 DEF Storers
  <2>6. After(W, out, late)[<<query_start_loc(i - 1) + t, h, 0>>]
           = TermsAt(0, h \div nq, rows[i].id, Y)
    BY <1>1, <2>5, GridStores DEF W
  <2> DEFINE g == [pos \in Y |-> 0]
  <2>7. num_queries_per_kv = nq  BY <1>1 DEF Shape
  <2>8. After(W, out, late)[<<query_start_loc(i - 1) + t, h, 0>>]
           = {<<g[pos], h \div nq, pos, <<rows[i].id, pos>>>> : pos \in Y}
    BY <2>6 DEF TermsAt
  <2> HIDE DEF g
  <2> QED BY <2>4, <2>7, <2>8
<1>6. OutRight(n, After(W, out, late))  BY <1>5 DEF OutRight
<1> QED BY <1>3, <1>6

-----------------------------------------------------------------------------
(* The segments of the 3D kernel and what reduce_segments makes of them. *)

LEMMA CeilType ==
  ASSUME NEW a \in Nat, NEW b \in Nat \ {0}
  PROVE  /\ cdiv_fn(a, b) \in Nat
         /\ \A x \in Int : x < cdiv_fn(a, b) <=> b * x < a
<1>1. a + b - 1 \in Nat /\ a + b - 1 \in Int
  OBVIOUS
<1>2. cdiv_fn(a, b) = (a + b - 1) \div b  BY DEF cdiv_fn
<1>3. cdiv_fn(a, b) \in Nat  BY <1>1, <1>2, DivNat
<1>4. ASSUME NEW x \in Int
      PROVE  x < cdiv_fn(a, b) <=> b * x < a
  <2>1. x + 1 \in Int
    OBVIOUS
  <2>2. x + 1 <= (a + b - 1) \div b <=> b * (x + 1) <= a + b - 1  BY <1>1, <2>1, DivLess
  <2>3. PICK y, z : y = b * x /\ y \in Int /\ z = cdiv_fn(a, b) /\ z \in Int  BY <1>3
  <2>4. b * (x + 1) = y + b  BY <2>3
  <2>5. x + 1 <= z <=> y + b <= a + b - 1  BY <1>2, <2>2, <2>3, <2>4
  <2>6. x < z <=> y < a  BY <2>3, <2>5
  <2> QED BY <2>3, <2>6
<1> QED BY <1>3, <1>4

(* The numbers of the segments of a row: m keys, of which c tiles of size d go *)
(* to each segment. *)
Row(i, m, c, d) ==
  /\ m = rows[i].ctx + rows[i].q /\ c = tiles_per_segment(m) /\ d = att.decode
  /\ m \in Nat /\ m > 0 /\ c \in Nat /\ c > 0 /\ d \in Nat /\ d > 0
  /\ \A x \in Int : x < c <=> (NUM_PAR_SOFTMAX_SEGMENTS * d) * x < m

LEMMA RowExists ==
  ASSUME NEW n, RowsType(n, rows), NEW i \in 1..n, NEW t \in Nat, t < rows[i].q, att \in AttnConfigs
  PROVE  \E m, c, d : Row(i, m, c, d)
<1>1. PICK m, d, e : m = rows[i].ctx + rows[i].q /\ d = att.decode /\ e = NUM_PAR_SOFTMAX_SEGMENTS * d
  OBVIOUS
<1>2. m \in Nat /\ m > 0
  <2>1. rows[i].ctx \in Nat /\ rows[i].q \in Nat  BY DEF RowsType
  <2> QED BY <1>1, <2>1
<1>3. d \in Nat /\ d > 0
  <2>1. PICK nq, bm, bq : Shape(nq, bm, bq)  BY ShapeExists
  <2> QED BY <1>1, <2>1 DEF Shape
<1>4. e \in Nat \ {0}
  <2>1. NUM_PAR_SOFTMAX_SEGMENTS \in Nat \ {0}  BY AttnAssumption
  <2> QED BY <1>1, <1>3, <2>1
<1>5. PICK c : c = cdiv_fn(m, e) /\ c \in Nat /\ \A x \in Int : x < c <=> e * x < m
  BY <1>2, <1>4, CeilType
<1>6. c > 0
  <2>1. 0 \in Int /\ e * 0 = 0  BY <1>4
  <2>2. 0 < c  BY <1>2, <1>5, <2>1
  <2> QED BY <1>5, <2>2
<1>7. c = tiles_per_segment(m)  BY <1>1, <1>5 DEF tiles_per_segment
<1>8. Row(i, m, c, d)  BY <1>1, <1>2, <1>3, <1>5, <1>6, <1>7 DEF Row
<1> QED BY <1>8

(* A segment of a row that has keys, and the positions of its tiles. *)
Active(i, s) ==
  s * tiles_per_segment(rows[i].ctx + rows[i].q) * att.decode < rows[i].ctx + rows[i].q
SegmentOf(i, x) == (x \div att.decode) \div tiles_per_segment(rows[i].ctx + rows[i].q)

(* Each key of a row is in one segment, and that one is active. *)
LEMMA OneSegment ==
  ASSUME NEW i, NEW m, NEW c, NEW d, Row(i, m, c, d), NEW x \in Nat
  PROVE  /\ \A s \in Nat : x \div d \in s * c..(s + 1) * c - 1 <=> SegmentOf(i, x) = s
         /\ x < m => SegmentOf(i, x) \in Segments /\ Active(i, SegmentOf(i, x))
<1>1. /\ m \in Nat /\ c \in Nat \ {0} /\ c \in Nat /\ c > 0 /\ d \in Nat \ {0} /\ d \in Nat /\ d > 0
  BY DEF Row
<1>2. PICK y, s0 : y = x \div d /\ y \in Nat /\ s0 = y \div c /\ s0 \in Nat
  <2>1. x \div d \in Nat  BY <1>1, DivNat
  <2>2. (x \div d) \div c \in Nat  BY <1>1, <2>1, DivNat
  <2> QED BY <2>1, <2>2
<1>3. SegmentOf(i, x) = s0  BY <1>2 DEF SegmentOf, Row
<1>4. ASSUME NEW s \in Nat
      PROVE  y \in s * c..(s + 1) * c - 1 <=> s0 = s
  <2>1. PICK z : z = c * s /\ z \in Nat  BY <1>1
  <2>2. s * c = z /\ (s + 1) * c = z + c  BY <1>1, <2>1
  <2>3. ASSUME y \in s * c..(s + 1) * c - 1
        PROVE  s0 = s
    <3>1. c * s <= y /\ y < c * s + c /\ y \in Int /\ s \in Int
      BY <1>1, <1>2, <2>1, <2>2, <2>3
    <3> QED BY <1>1, <1>2, <3>1, DivUnique
  <2>4. ASSUME s0 = s
        PROVE  y \in s * c..(s + 1) * c - 1
    <3>1. c * (y \div c) <= y /\ y < c * (y \div c) + c  BY <1>1, <1>2, DivBounds
    <3>2. z <= y /\ y < z + c  BY <1>2, <2>1, <2>4, <3>1
    <3> QED BY <1>1, <1>2, <2>1, <2>2, <3>2
  <2> QED BY <2>3, <2>4
<1>5. ASSUME x < m
      PROVE  s0 \in Segments /\ Active(i, s0)
  <2>1. PICK N : N = NUM_PAR_SOFTMAX_SEGMENTS /\ N \in Nat /\ N > 0  BY AttnAssumption
  <2>2. PICK k : k = N * d /\ k \in Nat  BY <1>1, <2>1
  <2>3. ~ (k * c < m)
    <3>1. c \in Int /\ ~ (c < c)  BY <1>1
    <3> QED BY <2>1, <2>2, <3>1 DEF Row
  <2>4. d * y <= x /\ y \in Int
    <3>1. x \in Int
      OBVIOUS
    <3> QED BY <1>1, <1>2, <3>1, DivBounds
  <2>5. c * s0 <= y /\ s0 \in Int  BY <1>1, <1>2, <2>4, DivBounds
  <2>6. d * (c * s0) <= d * y /\ c * s0 \in Int
    <3>1. c * s0 \in Int  BY <1>1, <1>2
    <3> QED BY <1>1, <2>4, <2>5, <3>1, TimesOrder
  <2>7. d * (c * s0) <= x /\ d * (c * s0) \in Int /\ d * y \in Int
    <3>1. d * (c * s0) \in Int /\ d * y \in Int  BY <1>1, <1>2, <2>6
    <3> QED BY <2>4, <2>6, <3>1
  <2>8. s0 < N
    <3> SUFFICES ASSUME ~ (s0 < N) PROVE FALSE
      OBVIOUS
    <3>1. N <= s0 /\ N \in Int  BY <1>2, <2>1
    <3>2. PICK a : a = c * d /\ a \in Nat \ {0}  BY <1>1
    <3>3. a * N <= a * s0  BY <2>5, <3>1, <3>2, TimesOrder
    <3>4. a * N = k * c  BY <1>1, <2>1, <2>2, <3>2
    <3>5. a * s0 = d * (c * s0)  BY <1>1, <1>2, <3>2
    <3>6. m <= k * c /\ k * c \in Int  BY <1>1, <2>2, <2>3
    <3>7. PICK u, v : u = k * c /\ v = d * (c * s0) /\ u \in Int /\ v \in Int  BY <2>7, <3>6
    <3>8. m <= u /\ u <= v /\ v <= x  BY <2>7, <3>3, <3>4, <3>5, <3>6, <3>7
    <3> QED BY <1>1, <1>5, <3>7, <3>8
  <2>9. s0 \in Segments  BY <1>2, <2>1, <2>8 DEF Segments
  <2>10. s0 * c * d < m
    <3>1. s0 * c * d = d * (c * s0)  BY <1>1, <1>2
    <3> QED BY <1>1, <1>5, <2>7, <3>1
  <2>11. Active(i, s0)  BY <2>10 DEF Active, Row
  <2> QED BY <2>9, <2>11
<1> QED BY <1>2, <1>3, <1>4, <1>5

-----------------------------------------------------------------------------
(* The 3D kernel. *)

(* The positions of a query's keys in a segment, and what the cells of the *)
(* active segments must hold. *)
KeysIn(i, t, s) == {x \in Window(rows[i].ctx + t) : SegmentOf(i, x) = s}
SegmentsRight(n, sg) ==
  \A i \in 1..n, h \in Heads, s \in Segments : \A t \in Nat : t < rows[i].q /\ Active(i, s) =>
    sg[<<query_start_loc(i - 1) + t, h, s>>]
      = TermsAt(s, h \div num_queries_per_kv, rows[i].id, KeysIn(i, t, s))

(* What the grid of the 3D kernel stores. *)
ActivePrograms ==
  {x \in Grid(Segments) : x.segm * tiles_per_segment(x.len) * att.decode < x.len}

LEMMA Writes3D ==
  ASSUME NEW n, RowsType(n, rows), Fits(n), att \in AttnConfigs, NEW late,
         \A i \in 1..n : Holds(i, rows[i].ctx + rows[i].q),
         \A k \in Nat : k < query_start_loc(n) =>
           \A h \in Heads, s \in Segments : <<k, h, s>> \in DOMAIN segm
  PROVE  SegmentsRight(n, After(UNION {Sums(p, SegmentTiles(p), att.decode) : p \in ActivePrograms},
                                segm, late))
<1>1. PICK nq, bm, bq : Shape(nq, bm, bq)  BY ShapeExists
<1>2. PICK size : size = att.decode /\ size \in Nat /\ size > 0  BY <1>1 DEF Shape
<1> DEFINE PS == ActivePrograms
           tl == [p \in PS |-> SegmentTiles(p)]
           W == Stores(PS, tl, size)
<1>3. W = UNION {Sums(p, SegmentTiles(p), att.decode) : p \in PS}
  <2>1. \A p \in PS : Sums(p, tl[p], size) = Sums(p, SegmentTiles(p), att.decode)  BY <1>2
  <2> QED BY <2>1 DEF Stores
<1>4. \A p \in PS : tl[p] = SegmentTiles(p)
  OBVIOUS
<1>5. \A p \in PS : p \in Grid(Segments)  BY DEF ActivePrograms
<1>6. \A p \in Grid(Segments) :
        p.segm * tiles_per_segment(p.len) * att.decode < p.len => p \in PS
  BY DEF ActivePrograms
<1> HIDE DEF W, PS, tl
<1>7. ASSUME NEW i \in 1..n, NEW h \in Heads, NEW s \in Segments, NEW t \in Nat, t < rows[i].q,
             Active(i, s)
      PROVE  After(W, segm, late)[<<query_start_loc(i - 1) + t, h, s>>]
               = TermsAt(s, h \div num_queries_per_kv, rows[i].id, KeysIn(i, t, s))
  <2>1. PICK m, c, d : Row(i, m, c, d)  BY <1>7, RowExists
  <2>2. d = size  BY <1>2, <2>1 DEF Row
  <2>3. PICK Y : Y = KeysIn(i, t, s)  OBVIOUS
  <2>4. ASSUME NEW p \in PS, NEW l \in Lanes(p), IsProgram(p, i, Segments), p.segm = s,
               QueryPos(p, l) = t
        PROVE  WindowIn(rows[i].ctx + t, size, tl[p]) = Y
    <3>1. p.ctx = rows[i].ctx /\ p.len = m  BY <2>1, <2>4 DEF IsProgram, Row
    <3>2. \A x \in Window(rows[i].ctx + t) : x \in Nat /\ x \div size \in Tiles(p, size)
      BY <1>1, <1>2, <2>4, <3>1, TilesHold
    <3>3. tl[p] = Tiles(p, size) \cap (s * c..(s + 1) * c - 1)
      <4>1. tiles_per_segment(p.len) = c  BY <2>1, <3>1 DEF Row
      <4> QED BY <1>2, <1>4, <2>4, <4>1 DEF SegmentTiles
    <3>4. \A x \in Window(rows[i].ctx + t) :
            x \div size \in s * c..(s + 1) * c - 1 <=> SegmentOf(i, x) = s
      <4>1. s \in Nat  BY DEF Segments
      <4> QED BY <2>1, <2>2, <3>2, <4>1, OneSegment
    <3> QED BY <2>3, <3>2, <3>3, <3>4 DEF WindowIn, KeysIn
  <2>5. \A p \in PS : tl[p] \subseteq Nat
    <3> SUFFICES ASSUME NEW p \in PS PROVE tl[p] \subseteq Nat
      OBVIOUS
    <3>1. Tiles(p, size) \subseteq Nat  BY <1>1, <1>2, <1>5, TilesAreNat
    <3> QED BY <1>2, <1>4, <3>1 DEF SegmentTiles
  <2>6. <<query_start_loc(i - 1) + t, h, s>> \in DOMAIN segm  BY <1>7, TokenBelow
  <2>7. ASSUME NEW p \in Grid(Segments), IsProgram(p, i, Segments), p.segm = s
        PROVE  p \in PS
    <3>1. p.len = rows[i].ctx + rows[i].q  BY <2>7 DEF IsProgram
    <3>2. s * tiles_per_segment(p.len) * att.decode < p.len  BY <1>7, <3>1 DEF Active
    <3> QED BY <1>6, <2>7, <3>2
  <2>8. Storers(n, Segments, PS, tl, size, i, t, h, s, Y, segm)
    <3>1. PS \in SUBSET Grid(Segments) /\ \A p \in PS : tl[p] \subseteq Nat  BY <1>5, <2>5
    <3>2. \A p \in PS : \A l \in Lanes(p) :
            IsProgram(p, i, Segments) /\ p.segm = s /\ QueryPos(p, l) = t
              => WindowIn(rows[i].ctx + t, size, tl[p]) = Y
      BY <2>4
    <3>3. \A p \in Grid(Segments) : IsProgram(p, i, Segments) /\ p.segm = s => p \in PS
      BY <2>7
    <3>4. RowsType(n, rows) /\ Fits(n) /\ size \in Nat /\ size > 0
          /\ Holds(i, rows[i].ctx + rows[i].q)
      BY <1>2
    <3> QED BY <1>7, <2>6, <3>1, <3>2, <3>3, <3>4 DEF Storers
  <2>9. After(W, segm, late)[<<query_start_loc(i - 1) + t, h, s>>]
          = TermsAt(s, h \div nq, rows[i].id, Y)
    BY <1>1, <2>8, GridStores DEF W
  <2>10. num_queries_per_kv = nq  BY <1>1 DEF Shape
  <2> QED BY <2>3, <2>9, <2>10
<1>8. SegmentsRight(n, After(W, segm, late))  BY <1>7 DEF SegmentsRight
<1> QED BY <1>3, <1>8 DEF PS

(* What reduce_segments writes, where it divides by zero with g in its place. *)
Reduced(g) ==
  [c \in DOMAIN out |->
     IF c[1] >= launch.tokens THEN out[c]
     ELSE UNION {IF <<c[1], c[2], s>> \in DOMAIN segm THEN segm[<<c[1], c[2], s>>] ELSE {Stale} :
                   s \in ActiveSegments(c[1], g)}]

LEMMA Reduces ==
  ASSUME NEW n, RowsType(n, rows), Fits(n), att \in AttnConfigs, NEW garbage,
         SegmentsRight(n, segm),
         \A k \in Nat : k < query_start_loc(n) =>
           \A h \in Heads : /\ <<k, h, 0>> \in DOMAIN out
                            /\ \A s \in Segments : <<k, h, s>> \in DOMAIN segm
  PROVE  OutRight(n, Reduced(garbage))
<1>1. ASSUME NEW i \in 1..n, NEW h \in Heads, NEW t \in Nat, t < rows[i].q
      PROVE  \E g : Reduced(garbage)[<<query_start_loc(i - 1) + t, h, 0>>]
               = {<<g[pos], h \div num_queries_per_kv, pos, <<rows[i].id, pos>>>> :
                    pos \in Window(rows[i].ctx + t)}
  <2>1. PICK m, c, d : Row(i, m, c, d)  BY <1>1, RowExists
  <2>2. PICK k : k = query_start_loc(i - 1) + t /\ k \in Nat /\ k < query_start_loc(n)
    BY <1>1, TokenBelow
  <2>3. ~ (k >= launch.tokens)
    <3>1. PICK a, b : a = launch.tokens /\ b = query_start_loc(n)  OBVIOUS
    <3>2. n \in Nat  BY DEF RowsType
    <3>3. a \in Nat /\ b \in Nat /\ b <= a  BY <3>1, <3>2, StartsAdd DEF Fits
    <3> QED BY <2>2, <3>1, <3>3
  <2>4. find_seq_idx(k, FALSE) = i - 1  BY <1>1, <2>2, FoundToken
  <2>5. seq_lens(i - 1) = m
    <3>1. i - 1 \in Nat /\ i - 1 < n /\ (i - 1) + 1 = i  BY DEF RowsType
    <3> QED BY <2>1, <3>1, RowNumbers DEF Row
  <2>6. \A s \in Segments : s \in ActiveSegments(k, garbage) <=> Active(i, s)
    <3>1. c * d \in Nat \ {0} /\ m \in Nat /\ c \in Nat /\ d \in Nat  BY <2>1 DEF Row
    <3>2. ActiveSegments(k, garbage) = {s \in Segments : s < cdiv_fn(m, c * d)}
      <4>1. tiles_per_segment(m) * att.decode = c * d /\ c * d # 0  BY <2>1, <3>1 DEF Row
      <4> QED BY <2>4, <2>5, <4>1 DEF ActiveSegments
    <3>3. ASSUME NEW s \in Segments
          PROVE  s < cdiv_fn(m, c * d) <=> Active(i, s)
      <4>1. s \in Int  BY DEF Segments
      <4>2. s < cdiv_fn(m, c * d) <=> (c * d) * s < m  BY <3>1, <4>1, CeilType
      <4>3. (c * d) * s = s * c * d  BY <3>1, <4>1
      <4>4. Active(i, s) <=> s * c * d < m  BY <2>1 DEF Active, Row
      <4> QED BY <4>2, <4>3, <4>4
    <3> QED BY <3>2, <3>3
  <2>7. PICK kv, S : kv = h \div num_queries_per_kv
                     /\ S = {s \in Segments : Active(i, s)}
    OBVIOUS
  <2>8. Reduced(garbage)[<<k, h, 0>>] = UNION {TermsAt(s, kv, rows[i].id, KeysIn(i, t, s)) : s \in S}
    <3>1. ActiveSegments(k, garbage) = S  BY <2>6, <2>7 DEF ActiveSegments
    <3>2. <<k, h, 0>> \in DOMAIN out /\ \A s \in S : <<k, h, s>> \in DOMAIN segm
      BY <2>2, <2>7
    <3>3. \A s \in S : segm[<<k, h, s>>] = TermsAt(s, kv, rows[i].id, KeysIn(i, t, s))
      BY <1>1, <2>2, <2>7 DEF SegmentsRight
    <3>4. PICK cell : cell = <<k, h, 0>> /\ cell[1] = k /\ cell[2] = h /\ cell \in DOMAIN out
      BY <3>2
    <3> DEFINE L(s) == IF <<k, h, s>> \in DOMAIN segm THEN segm[<<k, h, s>>] ELSE {Stale}
               R(s) == TermsAt(s, kv, rows[i].id, KeysIn(i, t, s))
    <3>5. Reduced(garbage)[cell] = UNION {L(s) : s \in S}  BY <2>3, <3>1, <3>4 DEF Reduced
    <3>6. \A s \in S : L(s) = R(s)  BY <3>2, <3>3
    <3>7. {L(s) : s \in S} = {R(s) : s \in S}
      <4> HIDE DEF L, R
      <4> QED BY <3>6
    <3> QED BY <3>4, <3>5, <3>7
  <2> DEFINE g == [pos \in Nat |-> SegmentOf(i, pos)]
             Y == Window(rows[i].ctx + t)
             Z == {<<g[pos], kv, pos, <<rows[i].id, pos>>>> : pos \in Y}
  <2>9. \A x \in Y : x \in Nat /\ x < m /\ g[x] = SegmentOf(i, x)
    <3>1. PICK a, q, r : a = rows[i].ctx /\ q = rows[i].q /\ r = a + t /\ a \in Nat /\ q \in Nat
                         /\ r \in Nat /\ m = a + q /\ t < q
      BY <1>1, <2>1 DEF RowsType, Row
    <3>2. att.window \in Nat
      <4>1. PICK nq, bm, bq : Shape(nq, bm, bq)  BY ShapeExists
      <4> QED BY <4>1 DEF Shape
    <3>3. \A x \in Window(r) : x \in Nat /\ x <= r  BY <3>1, <3>2, InWindow
    <3> QED BY <3>1, <3>3
  <2>10. \A x \in Y : SegmentOf(i, x) \in S  BY <2>1, <2>7, <2>9, OneSegment
  <2>11. \A s : KeysIn(i, t, s) = {x \in Y : SegmentOf(i, x) = s}  BY DEF KeysIn
  <2> HIDE DEF g, Y
  <2>12. UNION {TermsAt(s, kv, rows[i].id, KeysIn(i, t, s)) : s \in S} = Z
    <3>1. ASSUME NEW z, z \in Z
          PROVE  \E s \in S : z \in TermsAt(s, kv, rows[i].id, KeysIn(i, t, s))
      <4>1. PICK x \in Y : z = <<g[x], kv, x, <<rows[i].id, x>>>>  BY <3>1
      <4>2. PICK s \in S : s = SegmentOf(i, x) /\ s = g[x]  BY <2>9, <2>10
      <4>3. x \in KeysIn(i, t, s)  BY <2>11, <4>2
      <4>4. z \in TermsAt(s, kv, rows[i].id, KeysIn(i, t, s))
        BY <4>1, <4>2, <4>3 DEF TermsAt
      <4> QED BY <4>4
    <3>2. ASSUME NEW s \in S, NEW z, z \in TermsAt(s, kv, rows[i].id, KeysIn(i, t, s))
          PROVE  z \in Z
      <4>1. PICK x \in KeysIn(i, t, s) : z = <<s, kv, x, <<rows[i].id, x>>>>
        BY <3>2 DEF TermsAt
      <4>2. x \in Y /\ SegmentOf(i, x) = s  BY <2>11
      <4>3. g[x] = s  BY <2>9, <4>2
      <4> QED BY <4>1, <4>2, <4>3
    <3> HIDE DEF Z
    <3> QED BY <3>1, <3>2
  <2> QED BY <2>2, <2>7, <2>8, <2>12 DEF Y
<1> QED BY <1>1 DEF OutRight

-----------------------------------------------------------------------------
(* The least and the greatest of a set, and its size. *)

LEMMA NatMin ==
  ASSUME NEW S, S \subseteq Nat, S # {}
  PROVE  Min(S) \in S /\ \A x \in S : Min(S) <= x
<1>1. \E x \in S : \A y \in S : x <= y  BY NatLeast
<1> QED BY <1>1 DEF Min

LEMMA NatMax ==
  ASSUME NEW S, S \subseteq Nat, S # {}, IsFiniteSet(S)
  PROVE  Max(S) \in S /\ \A x \in S : x <= Max(S)
<1> DEFINE v == [x \in S |-> x]
<1>1. \A x \in S : v[x] \in Nat /\ v[x] = x
  OBVIOUS
<1> HIDE DEF v
<1>2. PICK f : Totals(f, v, S)  BY <1>1, MapSumTotals
<1>3. PICK N : N = f[S] /\ N \in Nat  BY <1>2 DEF Totals
<1>4. \A x \in S : x <= N
  <2> SUFFICES ASSUME NEW x \in S PROVE x <= N
    OBVIOUS
  <2>1. f[S] = f[S \ {x}] + v[x] /\ f[S \ {x}] \in Nat  BY <1>2 DEF Totals
  <2> QED BY <1>1, <1>3, <2>1
<1> DEFINE T == {N - x : x \in S}
<1>5. T \subseteq Nat /\ T # {}
  <2>1. \A x \in S : N - x \in Nat  BY <1>3, <1>4
  <2> QED BY <2>1
<1>6. PICK k \in T : \A y \in T : k <= y
  <2> HIDE DEF T
  <2> QED BY <1>5, NatLeast
<1>7. PICK m \in S : k = N - m  OBVIOUS
<1>8. \A x \in S : m >= x
  <2> SUFFICES ASSUME NEW x \in S PROVE m >= x
    OBVIOUS
  <2>1. N - m <= N - x  BY <1>6, <1>7
  <2> QED BY <1>3, <2>1
<1>9. \E x \in S : \A y \in S : x >= y  BY <1>8
<1>10. Max(S) \in S /\ \A x \in S : Max(S) >= x  BY <1>9 DEF Max
<1> QED BY <1>10

(* A set of distinct values is as large as what they are the values of. *)
LEMMA ImageSize ==
  ASSUME NEW S, IsFiniteSet(S), NEW f, \A x, y \in S : f[x] = f[y] => x = y,
         NEW T, T = {f[x] : x \in S}
  PROVE  IsFiniteSet(T) /\ Cardinality(T) = Cardinality(S)
<1> DEFINE g == [x \in S |-> f[x]]
<1>1. g \in [S -> T] /\ \A x \in S : g[x] = f[x]
  OBVIOUS
<1> HIDE DEF g
<1>2. g \in Injection(S, T)  BY <1>1 DEF Injection, IsInjective
<1>3. g \in Surjection(S, T)  BY <1>1 DEF Surjection
<1>4. ExistsBijection(S, T)  BY <1>2, <1>3 DEF ExistsBijection, Bijection
<1> QED BY <1>4, FS_Bijection

(* What a correct output says of a token. *)
LEMMA SeesKeys ==
  ASSUME NEW n, RowsType(n, rows), att \in AttnConfigs, OutRight(n, out),
         NEW i \in 1..n, NEW h \in Heads, NEW t \in Nat, t < rows[i].q, NEW id, id = rows[i].id,
         NEW a, a = rows[i].ctx + t,
         NEW sum, sum = out[<<query_start_loc(i - 1) + t, h, 0>>]
  PROVE  /\ {<<x[3], x[4]>> : x \in sum} = KeysOf(id, a)
         /\ Cardinality(sum) = Cardinality(KeysOf(id, a))
         /\ \A x \in sum : x[2] = h \div num_queries_per_kv
<1>1. PICK Y : Y = Window(a) /\ IsFiniteSet(Y)
  <2>1. a \in Nat
    <3>1. rows[i].ctx \in Nat  BY DEF RowsType
    <3> QED BY <3>1
  <2>2. att.window \in Nat
    <3>1. PICK nq, bm, bq : Shape(nq, bm, bq)  BY ShapeExists
    <3> QED BY <3>1 DEF Shape
  <2>3. PICK l \in Int : Window(a) = l..a  BY <2>1, <2>2 DEF Window, Most
  <2>4. a \in Int  BY <2>1
  <2>5. IsFiniteSet(l..a)  BY <2>4, FS_Interval, Zenon
  <2> QED BY <2>3, <2>5, Zenon
<1>2. PICK kv : kv = h \div num_queries_per_kv  OBVIOUS
<1>3. PICK g : sum = {<<g[pos], kv, pos, <<id, pos>>>> : pos \in Y}
  BY <1>1, <1>2 DEF OutRight
<1>4. KeysOf(id, a) = {<<p, <<id, p>>>> : p \in Y}  BY <1>1 DEF KeysOf, Window
<1>5. {<<x[3], x[4]>> : x \in sum} = KeysOf(id, a)
  <2>1. ASSUME NEW x \in sum
        PROVE  <<x[3], x[4]>> \in KeysOf(id, a)
    <3>1. PICK p \in Y : x = <<g[p], kv, p, <<id, p>>>>  BY <1>3
    <3>2. x[3] = p /\ x[4] = <<id, p>>  BY <3>1
    <3> QED BY <1>4, <3>2
  <2>2. ASSUME NEW y \in KeysOf(id, a)
        PROVE  \E x \in sum : y = <<x[3], x[4]>>
    <3>1. PICK p \in Y : y = <<p, <<id, p>>>>  BY <1>4
    <3>2. PICK x \in sum : x = <<g[p], kv, p, <<id, p>>>>  BY <1>3
    <3>3. x[3] = p /\ x[4] = <<id, p>>  BY <3>2
    <3> QED BY <3>1, <3>3
  <2> QED BY <2>1, <2>2
<1>6. Cardinality(sum) = Cardinality(Y)
  <2> DEFINE f == [p \in Y |-> <<g[p], kv, p, <<id, p>>>>]
  <2>1. sum = {f[x] : x \in Y}  BY <1>3
  <2>2. \A x, y \in Y : f[x] = f[y] => x = y
    OBVIOUS
  <2> HIDE DEF f
  <2> QED BY <1>1, <2>1, <2>2, ImageSize
<1>7. Cardinality(KeysOf(id, a)) = Cardinality(Y)
  <2> DEFINE f == [p \in Y |-> <<p, <<id, p>>>>]
  <2>1. KeysOf(id, a) = {f[x] : x \in Y}  BY <1>4
  <2>2. \A x, y \in Y : f[x] = f[y] => x = y
    OBVIOUS
  <2> HIDE DEF f
  <2> QED BY <1>1, <2>1, <2>2, ImageSize
<1>8. \A x \in sum : x[2] = kv  BY <1>3
<1> QED BY <1>2, <1>5, <1>6, <1>7, <1>8

-----------------------------------------------------------------------------
(* The cache. *)

(* Two keys of a head never have one slot. *)
LEMMA OneSlot ==
  ASSUME NEW i \in Nat, NEW j \in Nat, NEW x \in Nat, x < MaxLen, NEW y \in Nat, y < MaxLen,
         NEW kv, NEW kw, Slot(i, kv, x) = Slot(j, kw, y)
  PROVE  i = j /\ x = y
<1>1. PICK B, S, a, b : B = Blocks /\ S = BlockSize /\ a = x \div S /\ b = y \div S  OBVIOUS
<1>2. S \in Nat \ {0} /\ MaxLen \in Nat \ {0}  BY <1>1, AttnAssumption
<1>3. B \in Nat /\ \A z \in Int : z < B <=> S * z < MaxLen
  BY <1>1, <1>2, CeilType DEF Blocks
<1>4. x \in Int /\ y \in Int
  OBVIOUS
<1>5. a \in Nat /\ b \in Nat /\ S * a <= x /\ S * b <= y
  <2>1. a \in Nat /\ b \in Nat  BY <1>1, <1>2, DivNat
  <2>2. S * a <= x /\ S * b <= y  BY <1>1, <1>2, <1>4, DivBounds
  <2> QED BY <2>1, <2>2
<1>6. a < B /\ b < B
  <2>1. S * a \in Int /\ S * b \in Int /\ a \in Int /\ b \in Int  BY <1>2, <1>5
  <2>2. S * a < MaxLen /\ S * b < MaxLen  BY <1>2, <1>5, <2>1
  <2> QED BY <1>3, <2>1, <2>2
<1>7. i * B + a = j * B + b /\ x % S = y % S  BY <1>1 DEF Slot
<1>8. i = j
  <2>1. B \in Nat \ {0}  BY <1>3, <1>5, <1>6
  <2>2. PICK c : c = i * B + a /\ c \in Int  BY <1>3, <1>5
  <2>3. B * i <= c /\ c < B * i + B  BY <1>3, <1>5, <1>6, <2>2
  <2>4. B * j <= c /\ c < B * j + B  BY <1>3, <1>5, <1>6, <1>7, <2>2
  <2>5. c \div B = i
    <3>1. i \in Int
      OBVIOUS
    <3> QED BY <2>1, <2>2, <2>3, <3>1, DivUnique
  <2>6. c \div B = j
    <3>1. j \in Int
      OBVIOUS
    <3> QED BY <2>1, <2>2, <2>4, <3>1, DivUnique
  <2> QED BY <2>5, <2>6
<1>9. a = b
  <2>1. i * B \in Nat /\ i * B = j * B  BY <1>3, <1>8
  <2> QED BY <1>5, <1>7, <2>1
<1>10. x % S = x - S * a /\ y % S = y - S * b  BY <1>1, <1>2, <1>4, DivMod
<1>11. S * a \in Nat /\ S * a = S * b  BY <1>2, <1>5, <1>9
<1>12. x - S * a = y - S * a  BY <1>7, <1>10, <1>11
<1>13. x = y
  <2> PICK w : w = S * a /\ w \in Nat
    BY <1>11
  <2> QED BY <1>12
<1> QED BY <1>8, <1>13

(* And it is in the cache. *)
LEMMA SlotThere ==
  ASSUME NEW i \in Nat, i < MaxSeqs, NEW x \in Nat, x < MaxLen, NEW kv \in 0..att.hkv - 1
  PROVE  Slot(i, kv, x) \in Slots
<1>1. PICK B, S, a, M : B = Blocks /\ S = BlockSize /\ a = x \div S /\ M = MaxSeqs  OBVIOUS
<1>2. S \in Nat \ {0} /\ MaxLen \in Nat \ {0} /\ M \in Nat  BY <1>1, AttnAssumption
<1>3. B \in Nat /\ \A z \in Int : z < B <=> S * z < MaxLen
  BY <1>1, <1>2, CeilType DEF Blocks
<1>4. x \in Int
  OBVIOUS
<1>5. a \in Nat /\ S * a <= x  BY <1>1, <1>2, <1>4, DivNat, DivBounds
<1>6. a < B
  <2>1. S * a \in Int /\ a \in Int  BY <1>2, <1>5
  <2>2. S * a < MaxLen  BY <1>2, <1>5, <2>1
  <2> QED BY <1>3, <2>1, <2>2
<1>7. i * B + a \in 0..M * B - 1
  <2>1. PICK c, e : c = i * B /\ e = M * B /\ c \in Nat /\ e \in Nat  BY <1>2, <1>3
  <2>2. c + B <= e
    <3>1. B \in Nat \ {0} /\ i + 1 <= M /\ i + 1 \in Int /\ M \in Int
      BY <1>1, <1>2, <1>3, <1>5, <1>6
    <3>2. B * (i + 1) <= B * M  BY <3>1, TimesOrder
    <3>3. B * (i + 1) = c + B /\ B * M = e  BY <1>2, <1>3, <2>1
    <3> QED BY <3>2, <3>3
  <2> QED BY <1>3, <1>5, <1>6, <2>1, <2>2
<1>8. x % S \in 0..S - 1
  <2>1. x % S \in Nat /\ x % S < S  BY <1>2, <1>4, DivType
  <2> QED BY <1>2, <2>1
<1> QED BY <1>1, <1>7, <1>8 DEF Slot, Slots

(* A write leaves the keys of a row that it does not write, and writes the *)
(* others. *)
AsWritten(old, from, to, i, x, s) ==
  Written(old, from, to)[s] = IF from[i] <= x /\ x < to[i] THEN <<rows[i].id, x>> ELSE old[s]
LEMMA WrittenIs ==
  ASSUME NEW n \in Nat, DOMAIN rows = 1..n, NEW old, NEW from, NEW to,
         NEW i \in 1..n, NEW x \in Nat, x < MaxLen, NEW kv, Slot(i - 1, kv, x) \in DOMAIN old
  PROVE  AsWritten(old, from, to, i, x, Slot(i - 1, kv, x))
<1> SUFFICES Written(old, from, to)[Slot(i - 1, kv, x)]
               = IF from[i] <= x /\ x < to[i] THEN <<rows[i].id, x>> ELSE old[Slot(i - 1, kv, x)]
  BY Zenon DEF AsWritten
<1>1. PICK s : s = Slot(i - 1, kv, x) /\ s[2] = kv  BY DEF Slot
<1> DEFINE new == {w \in (DOMAIN rows) \X (0..MaxLen - 1) :
                     from[w[1]] <= w[2] /\ w[2] < to[w[1]] /\ s = Slot(w[1] - 1, s[2], w[2])}
           keys == {<<rows[w[1]].id, w[2]>> : w \in new}
<1>2. Written(old, from, to)[s] = IF new = {} THEN old[s] ELSE CHOOSE key \in keys : TRUE
  BY <1>1, Zenon DEF Written
<1>3. ASSUME NEW w \in new
      PROVE  w = <<i, x>>
  <2>1. PICK j, y : w = <<j, y>> /\ j \in 1..n /\ y \in 0..MaxLen - 1 /\ s = Slot(j - 1, kv, y)
    BY <1>1
  <2>2. MaxLen \in Nat  BY AttnAssumption
  <2>3. /\ j - 1 \in Nat /\ i - 1 \in Nat /\ y \in Nat /\ y < MaxLen
        /\ Slot(i - 1, kv, x) = Slot(j - 1, kv, y)
    BY <1>1, <2>1, <2>2
  <2>4. i - 1 = j - 1 /\ x = y  BY <2>3, OneSlot
  <2> QED BY <2>1, <2>4
<1>4. CASE from[i] <= x /\ x < to[i]
  <2>1. <<i, x>> \in new
    <3>1. x \in 0..MaxLen - 1  BY AttnAssumption
    <3> QED BY <1>1, <1>4, <3>1
  <2>2. new = {<<i, x>>}
    <3> HIDE DEF new
    <3> QED BY <1>3, <2>1
  <2>3. keys = {<<rows[i].id, x>>}
    <3> HIDE DEF new
    <3> QED BY <2>2
  <2>4. (CHOOSE key \in keys : TRUE) = <<rows[i].id, x>>  BY <2>3
  <2> HIDE DEF new, keys
  <2> QED BY <1>1, <1>2, <1>4, <2>2, <2>4
<1>5. CASE ~ (from[i] <= x /\ x < to[i])
  <2>1. new = {}
    <3> SUFFICES ASSUME NEW w \in new PROVE FALSE
      OBVIOUS
    <3>1. w = <<i, x>> /\ w[1] = i /\ w[2] = x  BY <1>3
    <3>2. from[w[1]] <= w[2] /\ w[2] < to[w[1]]
      OBVIOUS
    <3> QED BY <1>5, <3>1, <3>2
  <2> HIDE DEF new, keys
  <2> QED BY <1>1, <1>2, <1>5, <2>1
<1> QED BY <1>4, <1>5

-----------------------------------------------------------------------------
(* What the kernels are launched with, and the buffers. *)

LEMMA SizesType ==
  ASSUME att \in AttnConfigs
  PROVE  att.sizes \subseteq Nat \ {0} /\ IsFiniteSet(att.sizes) /\ att.q \in Nat /\ att.q > 0
         /\ att.hkv \in Nat /\ att.hkv > 0 /\ (att.graphs # "none" => att.sizes # {})
<1>1. att \in AttnConfig /\ IsFiniteSet(att.sizes) /\ (att.graphs # "none" => att.sizes # {})
  BY AttnAssumption
<1> QED BY <1>1 DEF AttnConfig

(* The launch covers the batch, and no row has more queries than it says. *)
LEMMA LaunchedFits ==
  ASSUME NEW n, RowsType(n, rows), att \in AttnConfigs, NEW l, l = Launched
  PROVE  /\ l.seqs \in Nat /\ n <= l.seqs
         /\ l.tokens \in Nat /\ query_start_loc(n) <= l.tokens
         /\ l.max_query_len \in Nat /\ \A i \in 1..n : rows[i].q <= l.max_query_len
<1>1. PICK tokens, longest, Q : /\ tokens = query_start_loc(Len(rows)) /\ longest = Max(Q)
                                /\ Q = {rows[i].q : i \in DOMAIN rows}
  OBVIOUS
<1> DEFINE uniform == longest = att.q /\ tokens = longest * Len(rows)
           graphs == {x \in att.sizes :
                       /\ x >= tokens
                       /\ att.graphs = "all" \/ (att.graphs = "decode" /\ uniform
                                                  /\ x % att.q = 0 /\ x <= MaxSeqs * att.q)}
           size == Min(graphs)
<1>2. l = IF graphs = {} THEN [tokens |-> tokens, seqs |-> Len(rows), max_query_len |-> longest]
          ELSE IF att.graphs = "all"
               THEN [tokens |-> size, seqs |-> Least(size, MaxSeqs), max_query_len |-> size]
               ELSE [tokens |-> size, seqs |-> size \div att.q, max_query_len |-> att.q]
  BY <1>1, Zenon DEF Launched
<1>3. n \in Nat /\ n > 0 /\ Len(rows) = n /\ DOMAIN rows = 1..n /\ MaxSeqs \in Nat /\ n <= MaxSeqs
      /\ \A i \in 1..n : rows[i].q \in Nat
  BY AttnAssumption DEF RowsType
<1>4. tokens = query_start_loc(n) /\ tokens \in Nat /\ n <= tokens
  BY <1>1, <1>3, StartsAdd, EnoughTokens
<1>5. longest \in Nat /\ \A i \in 1..n : rows[i].q <= longest
  <2>1. Q \subseteq Nat /\ Q # {}  BY <1>1, <1>3
  <2>2. IsFiniteSet(Q)
    <3> DEFINE q(i) == rows[i].q
    <3>2. \A x \in Q : x <= tokens
      <4> SUFFICES ASSUME NEW i \in 1..n PROVE rows[i].q <= tokens
        BY <1>1, <1>3
      <4>1. i - 1 \in Nat /\ i \in Nat /\ i <= n  BY <1>3
      <4>2. query_start_loc(i) <= query_start_loc(n)  BY <1>3, <4>1, StartsOrder
      <4>3. query_start_loc(i) = query_start_loc(i - 1) + rows[i].q /\ query_start_loc(i - 1) \in Nat
        BY <4>1, StartsAdd
      <4> QED BY <1>3, <1>4, <4>2, <4>3
    <3>3. Q \in SUBSET Nat  BY <2>1
    <3> QED BY <1>4, <3>2, <3>3, FS_BoundedSetOfNaturals
  <2>3. Max(Q) \in Q /\ \A x \in Q : x <= Max(Q)  BY <2>1, <2>2, NatMax
  <2> QED BY <1>1, <1>3, <2>1, <2>3
<1>6. CASE graphs = {}
  <2>1. l = [tokens |-> tokens, seqs |-> n, max_query_len |-> longest]  BY <1>2, <1>3, <1>6
  <2> HIDE DEF graphs, size, uniform
  <2> QED BY <1>3, <1>4, <1>5, <2>1
<1>7. CASE graphs # {}
  <2>1. size \in graphs
    <3>1. graphs \subseteq Nat  BY SizesType
    <3> HIDE DEF graphs
    <3> QED BY <1>7, <3>1, NatMin
  <2>2. PICK sz : sz = size /\ sz \in Nat /\ sz >= tokens
                  /\ (att.graphs # "all" => uniform /\ sz % att.q = 0)
    BY <2>1, SizesType
  <2> HIDE DEF graphs, size
  <2>3. CASE att.graphs = "all"
    <3>1. l = [tokens |-> sz, seqs |-> Least(sz, MaxSeqs), max_query_len |-> sz]
      BY <1>2, <1>7, <2>2, <2>3
    <3>2. Least(sz, MaxSeqs) \in Nat /\ n <= Least(sz, MaxSeqs)
      BY <1>3, <1>4, <2>2 DEF Least
    <3>3. \A i \in 1..n : rows[i].q <= sz
      <4> SUFFICES ASSUME NEW i \in 1..n PROVE rows[i].q <= sz
        OBVIOUS
      <4>1. i - 1 \in Nat /\ i \in Nat /\ i <= n  BY <1>3
      <4>2. query_start_loc(i) <= query_start_loc(n)  BY <1>3, <4>1, StartsOrder
      <4>3. query_start_loc(i) = query_start_loc(i - 1) + rows[i].q /\ query_start_loc(i - 1) \in Nat
        BY <4>1, StartsAdd
      <4> QED BY <1>3, <1>4, <2>2, <4>2, <4>3
    <3> QED BY <1>4, <2>2, <3>1, <3>2, <3>3
  <2>4. CASE att.graphs # "all"
    <3>1. PICK q : q = att.q /\ q \in Nat \ {0}  BY SizesType
    <3>2. l = [tokens |-> sz, seqs |-> sz \div q, max_query_len |-> q]
      BY <1>2, <1>7, <2>2, <2>4, <3>1
    <3>3. longest = q /\ tokens = q * n  BY <1>1, <1>3, <2>2, <2>4, <3>1
    <3>4. sz \div q \in Nat /\ n <= sz \div q
      <4>1. sz \in Int /\ n \in Int /\ q * n <= sz  BY <1>3, <1>4, <2>2, <3>3
      <4>2. n <= sz \div q  BY <3>1, <4>1, DivLess
      <4> QED BY <2>2, <3>1, <4>2, DivNat
    <3> QED BY <1>4, <1>5, <2>2, <3>1, <3>2, <3>3, <3>4
  <2> QED BY <2>3, <2>4
<1> QED BY <1>6, <1>7

(* Where every row has one token there are as many tokens as rows. *)
LEMMA FewTokens ==
  ASSUME NEW n, RowsType(n, rows), \A i \in 1..n : rows[i].q <= 1
  PROVE  query_start_loc(n) <= n
<1>0. n \in Nat  BY DEF RowsType
<1> DEFINE T == {i \in Nat : i <= n /\ ~ (query_start_loc(i) <= i)}
<1>1. T = {}
  <2> SUFFICES ASSUME T # {} PROVE FALSE
    OBVIOUS
  <2>1. PICK i \in T : \A y \in T : i <= y
    <3>1. T \subseteq Nat
      OBVIOUS
    <3> HIDE DEF T
    <3> QED BY <3>1, NatLeast
  <2>2. i \in Nat /\ i <= n /\ ~ (query_start_loc(i) <= i)  BY <2>1
  <2>3. i \in 1..n /\ i - 1 \in Nat /\ ~ (i <= i - 1) /\ i - 1 <= n
    <3>1. query_start_loc(0) = 0  BY StartsAdd
    <3> QED BY <1>0, <2>2, <3>1
  <2>4. i - 1 \notin T  BY <2>1, <2>3
  <2>5. query_start_loc(i - 1) <= i - 1 /\ query_start_loc(i - 1) \in Nat
    BY <2>3, <2>4, StartsAdd
  <2> HIDE DEF T
  <2>6. query_start_loc(i) = query_start_loc(i - 1) + rows[i].q /\ rows[i].q \in Nat
    BY <2>3, StartsAdd DEF RowsType
  <2> QED BY <2>2, <2>3, <2>5, <2>6
<1> QED BY <1>0, <1>1

LEMMA ThresholdType ==
  ASSUME att \in AttnConfigs
  PROVE  seq_threshold_3D \in Nat
<1> DEFINE t == MIN_LAUNCH_GRID_SIZE_2D \div att.hkv
<1>1. t \in Nat
  <2>1. MIN_LAUNCH_GRID_SIZE_2D \in Nat /\ att.hkv \in Nat \ {0}
    BY AttnAssumption, SizesType
  <2> QED BY <2>1, DivNat
<1> DEFINE apart(s) == Most(s, t) - Least(s, t)
           nearest(s) == \A x \in att.sizes : apart(s) < apart(x) \/ (apart(s) = apart(x) /\ s <= x)
<1>2. seq_threshold_3D = IF att.graphs = "none" THEN t ELSE CHOOSE s \in att.sizes : nearest(s)
  BY Zenon DEF seq_threshold_3D
<1> HIDE DEF t
<1>3. CASE att.graphs = "none"
  BY <1>1, <1>2, <1>3
<1>4. CASE att.graphs # "none"
  <2>1. att.sizes # {} /\ att.sizes \subseteq Nat  BY <1>4, SizesType
  <2>2. \A s \in att.sizes : apart(s) \in Nat  BY <1>1, <2>1 DEF Most, Least
  <2> DEFINE D == {apart(s) : s \in att.sizes}
  <2>3. PICK d \in D : \A y \in D : d <= y
    <3>1. D \subseteq Nat /\ D # {}  BY <2>1, <2>2
    <3> HIDE DEF D
    <3> QED BY <3>1, NatLeast
  <2> HIDE DEF apart
  <2> DEFINE T == {s \in att.sizes : apart(s) = d}
  <2>4. PICK s \in T : \A y \in T : s <= y
    <3>1. T \subseteq Nat /\ T # {}  BY <2>1, <2>3
    <3> HIDE DEF T
    <3> QED BY <3>1, NatLeast
  <2>5. s \in att.sizes /\ nearest(s)
    <3>1. s \in att.sizes /\ apart(s) = d /\ d \in Nat  BY <2>2, <2>4
    <3>2. ASSUME NEW x \in att.sizes
          PROVE  d < apart(x) \/ (d = apart(x) /\ s <= x)
      <4>1. d <= apart(x) /\ apart(x) \in Nat  BY <2>2, <2>3
      <4>2. CASE d = apart(x)
        BY <2>4, <4>2
      <4>3. CASE d # apart(x)
        BY <3>1, <4>1, <4>3
      <4> QED BY <4>2, <4>3
    <3> QED BY <3>1, <3>2
  <2> HIDE DEF nearest
  <2>6. (CHOOSE x \in att.sizes : nearest(x)) \in att.sizes  BY <2>5
  <2> QED BY <1>2, <1>4, <2>1, <2>6
<1> QED BY <1>3, <1>4

(* The output has a place for every token. *)
LEMMA OutHas ==
  ASSUME att \in AttnConfigs, NEW k \in Nat, k < MaxTokens, NEW h \in Heads
  PROVE  <<k, h, 0>> \in OutCells
<1>1. PICK S : S = {MaxTokens} \cup att.sizes  OBVIOUS
<1>2. S \subseteq Nat /\ MaxTokens \in S /\ IsFiniteSet(S) /\ MaxTokens \in Nat
  <2>1. MaxTokens \in Nat /\ IsFiniteSet({MaxTokens})  BY AttnAssumption, FS_Singleton
  <2> QED BY <1>1, <2>1, SizesType, FS_Union
<1>3. Max(S) \in S /\ MaxTokens <= Max(S)  BY <1>2, NatMax
<1>4. k \in 0..Max(S) - 1
  <2>1. PICK a, b : a = MaxTokens /\ b = Max(S) /\ a \in Nat /\ b \in Nat /\ a <= b
    BY <1>2, <1>3
  <2>2. k \in 0..b - 1  BY <2>1
  <2> QED BY <2>1, <2>2
<1> QED BY <1>1, <1>4 DEF OutCells

(* And the segments too, where the 3D kernel runs. *)
LEMMA SegmentsHave ==
  ASSUME NEW n, RowsType(n, rows), att \in AttnConfigs, Fits(n), ~ Use2D,
         launch.max_query_len \in Nat, \A i \in 1..n : rows[i].q <= launch.max_query_len,
         NEW k \in Nat, k < query_start_loc(n), NEW h \in Heads, NEW s \in Segments
  PROVE  <<k, h, s>> \in SegmentCells
<1>1. PICK m, r, th : m = launch.max_query_len /\ r = launch.seqs /\ th = seq_threshold_3D  OBVIOUS
<1>2. m \in Nat /\ r \in Nat /\ n <= r /\ th \in Nat /\ m <= 1 /\ r <= th /\ n \in Nat
  BY <1>1, ThresholdType DEF Fits, Use2D, RowsType
<1>3. \A i \in 1..n : rows[i].q <= 1
  <2>1. \A i \in 1..n : rows[i].q <= m /\ rows[i].q \in Nat  BY <1>1 DEF RowsType
  <2> QED BY <1>2, <2>1
<1>4. query_start_loc(n) <= n /\ query_start_loc(n) \in Nat
  BY <1>2, <1>3, FewTokens, StartsAdd
<1>5. k \in 0..th - 1  BY <1>2, <1>4
<1> QED BY <1>1, <1>5 DEF SegmentCells

-----------------------------------------------------------------------------
(* What a step that leaves the batch alone leaves. *)
Loc(w, i) == AddUpQ(w, 1..Least(i, Len(w)))

LEMMA StartsStay ==
  ASSUME rows' = rows
  PROVE  \A i : query_start_loc(i)' = query_start_loc(i)
<1>1. \A i : query_start_loc(i) = Loc(rows, i)  BY Zenon DEF query_start_loc, Loc, AddUpQ
<1>2. \A i : query_start_loc(i)' = Loc(rows', i)
  BY Zenon DEF query_start_loc, Loc, AddUpQ, MapThenSumSet, MapThenFoldSet
<1> QED BY <1>1, <1>2

LEMMA BatchStays ==
  ASSUME rows' = rows, att' = att, NEW n, NEW o
  PROVE  /\ OutRight(n, o)' <=> OutRight(n, o)
         /\ SegmentsRight(n, o)' <=> SegmentsRight(n, o)
<1>1. \A i : query_start_loc(i)' = query_start_loc(i)  BY StartsStay
<1>2. Heads' = Heads /\ num_queries_per_kv' = num_queries_per_kv
  BY DEF Heads, num_queries_per_kv
<1>3. \A a : Window(a)' = Window(a)  BY DEF Window
<1>4. OutRight(n, o)' <=> OutRight(n, o)  BY <1>1, <1>2, <1>3 DEF OutRight
<1>5. /\ \A i, x : SegmentOf(i, x)' = SegmentOf(i, x)
      /\ \A i, s : Active(i, s)' <=> Active(i, s)
  BY DEF SegmentOf, Active, tiles_per_segment
<1>6. \A i, t, s : KeysIn(i, t, s)' = KeysIn(i, t, s)  BY <1>3, <1>5 DEF KeysIn
<1>7. \A s, kv, id, Y : TermsAt(s, kv, id, Y)' = TermsAt(s, kv, id, Y)  BY DEF TermsAt
<1>8. SegmentsRight(n, o)' <=> SegmentsRight(n, o)
  BY <1>1, <1>2, <1>5, <1>6, <1>7 DEF SegmentsRight, Segments
<1> QED BY <1>4, <1>8

LEMMA LaunchStays ==
  ASSUME rows' = rows, att' = att, launch' = launch, NEW n
  PROVE  (Fits(n)' <=> Fits(n)) /\ (Use2D' <=> Use2D)
<1>1. \A i : query_start_loc(i)' = query_start_loc(i)  BY StartsStay
<1>2. seq_threshold_3D' = seq_threshold_3D  BY DEF seq_threshold_3D
<1> QED BY <1>1, <1>2 DEF Fits, Use2D

LEMMA CellsStay ==
  ASSUME att' = att
  PROVE  Slots' = Slots /\ SegmentCells' = SegmentCells /\ OutCells' = OutCells
<1>1. seq_threshold_3D' = seq_threshold_3D  BY DEF seq_threshold_3D
<1> QED BY <1>1 DEF Slots, SegmentCells, OutCells, Segments, Heads, Blocks

LEMMA CacheStays ==
  ASSUME rows' = rows, att' = att, cache' = cache, NEW i, NEW e
  PROVE  Holds(i, e)' <=> Holds(i, e)
BY DEF Holds, Slot, Blocks

-----------------------------------------------------------------------------
(* The invariant. *)

(* The batch: the rows, and their tokens fit. *)
Batch(n, w) == RowsType(n, w) /\ AddUpQ(w, 1..n) <= MaxTokens

(* What the layer knows at each place: the keys of the contexts are in the *)
(* cache, from the update on those of the new tokens too; the launch covers *)
(* the batch; the segments and then the output are right. *)
AttnIInv ==
  /\ att \in AttnConfigs
  /\ \E n : /\ Batch(n, rows)
            /\ \A i \in 1..n : Holds(i, rows[i].ctx + IF at = "cache" THEN 0 ELSE rows[i].q)
            /\ at \in {"attend", "reduce"} =>
                 /\ Fits(n) /\ launch.max_query_len \in Nat
                 /\ \A i \in 1..n : rows[i].q <= launch.max_query_len
            /\ at = "reduce" => ~ Use2D /\ SegmentsRight(n, segm)
            /\ at = "done" => OutRight(n, out)
  /\ at \in {"cache", "attend", "reduce", "done"}
  /\ DOMAIN cache = Slots /\ DOMAIN segm = SegmentCells /\ DOMAIN out = OutCells

(* The keys a write puts into the cache are there, and those before them stay. *)
Writes(n, old, from, to, i, kv, x) ==
  /\ RowsType(n, rows) /\ DOMAIN old = Slots /\ i \in 1..n /\ kv \in 0..att.hkv - 1
  /\ from[i] \in Nat /\ to[i] \in Nat /\ to[i] <= rows[i].ctx + rows[i].q
  /\ x \in Nat /\ x < to[i]
  /\ x < from[i] => old[Slot(i - 1, kv, x)] = <<rows[i].id, x>>

LEMMA WriteHolds ==
  ASSUME NEW n, NEW old, NEW from, NEW to, NEW i, NEW kv, NEW x, Writes(n, old, from, to, i, kv, x)
  PROVE  Written(old, from, to)[Slot(i - 1, kv, x)] = <<rows[i].id, x>>
<1> /\ RowsType(n, rows) /\ DOMAIN old = Slots /\ i \in 1..n /\ kv \in 0..att.hkv - 1
    /\ from[i] \in Nat /\ to[i] \in Nat /\ to[i] <= rows[i].ctx + rows[i].q
    /\ x \in Nat /\ x < to[i]
    /\ x < from[i] => old[Slot(i - 1, kv, x)] = <<rows[i].id, x>>
  BY DEF Writes
<1>1. n \in Nat /\ DOMAIN rows = 1..n /\ n <= MaxSeqs /\ MaxSeqs \in Nat
  BY AttnAssumption DEF RowsType
<1>2. x < MaxLen
  <2>1. rows[i].ctx \in Nat /\ rows[i].q \in Nat /\ rows[i].ctx + rows[i].q <= MaxLen /\ MaxLen \in Nat
    BY AttnAssumption DEF RowsType
  <2> QED BY <2>1
<1>3. i - 1 \in Nat /\ i - 1 < MaxSeqs  BY <1>1
<1>4. Slot(i - 1, kv, x) \in DOMAIN old  BY <1>2, <1>3, SlotThere
<1>5. Written(old, from, to)[Slot(i - 1, kv, x)]
        = IF from[i] <= x /\ x < to[i] THEN <<rows[i].id, x>> ELSE old[Slot(i - 1, kv, x)]
  <2>1. AsWritten(old, from, to, i, x, Slot(i - 1, kv, x))  BY <1>1, <1>2, <1>4, WrittenIs
  <2> QED BY <2>1, Zenon DEF AsWritten
<1>6. x < from[i] \/ from[i] <= x
  OBVIOUS
<1> QED BY <1>5, <1>6

(* The tokens a step gives its rows fit. *)
LEMMA QueriesFit ==
  ASSUME NEW n \in Nat, NEW q \in Queries(1..n), NEW w, \A i \in 1..n : w[i].q = q[i]
  PROVE  AddUpQ(w, 1..n) <= MaxTokens /\ \A i \in 1..n : q[i] \in Nat /\ q[i] > 0
<1>1. PICK S : S = 1..n /\ IsFiniteSet(S)  BY FS_Interval
<1>2. q \in [S -> 1..MaxTokens] /\ AddUp(q, S) <= MaxTokens
  BY <1>1, Zenon DEF Queries, AddUp
<1>3. \A i \in S : q[i] \in Nat /\ q[i] > 0  BY <1>2, AttnAssumption
<1>4. PICK f : Totals(f, q, S) /\ AddUp(q, S) = f[S]  BY <1>1, <1>3, MapSumTotals
<1>5. PICK h : Totals(h, q, S) /\ AddUpQ(w, S) = h[S]
  <2>1. \A x \in S : q[x] \in Nat /\ w[x].q = q[x]  BY <1>1, <1>3
  <2> QED BY <1>1, <2>1, MapSumField
<1>6. f[S] = h[S]  BY <1>1, <1>4, <1>5, TotalsAgree, SMTT(60)
<1> QED BY <1>1, <1>2, <1>3, <1>4, <1>5, <1>6

(* A sequence given by its elements. *)
LEMMA RowsLength ==
  ASSUME NEW n \in Nat, NEW w, w \in [1..n -> [id : Nat, ctx : Nat, q : Nat]]
  PROVE  Len(w) = n /\ DOMAIN w = 1..n
<1>1. PICK R : R = [id : Nat, ctx : Nat, q : Nat] /\ w \in [1..n -> R]
  OBVIOUS
<1>2. w \in Seq(R)  BY <1>1, SeqDef, Zenon
<1>3. DOMAIN w = 1..n  BY <1>1
<1> QED BY <1>2, <1>3

LEMMA AttnStarts ==
  ASSUME AttnInit
  PROVE  AttnIInv
<1>1. att \in AttnConfigs /\ at = "cache"  BY DEF AttnInit
<1>0. PICK n \in 1..MaxSeqs : \E q \in Queries(1..n), ctx \in [1..n -> Contexts] :
         /\ \A i \in 1..n : ctx[i] + q[i] <= MaxLen
         /\ rows = [i \in 1..n |-> [id |-> i, ctx |-> ctx[i], q |-> q[i]]]
  BY DEF AttnInit
<1>2. PICK q \in Queries(1..n), ctx \in [1..n -> Contexts] :
         /\ \A i \in 1..n : ctx[i] + q[i] <= MaxLen
         /\ rows = [i \in 1..n |-> [id |-> i, ctx |-> ctx[i], q |-> q[i]]]
  BY <1>0
<1>3. n \in Nat /\ n > 0 /\ n <= MaxSeqs /\ Contexts \subseteq Nat /\ MaxSeqs \in Nat
  BY AttnAssumption
<1>4. \A i \in 1..n : rows[i].q = q[i] /\ rows[i].ctx = ctx[i] /\ ctx[i] \in Nat
  BY <1>2, <1>3
<1>5. AddUpQ(rows, 1..n) <= MaxTokens /\ \A i \in 1..n : q[i] \in Nat /\ q[i] > 0
  BY <1>3, <1>4, QueriesFit
<1>6. Len(rows) = n /\ DOMAIN rows = 1..n
  <2>1. rows \in [1..n -> [id : Nat, ctx : Nat, q : Nat]]
    <3>1. \A i \in 1..n : [id |-> i, ctx |-> ctx[i], q |-> q[i]] \in [id : Nat, ctx : Nat, q : Nat]
      BY <1>4, <1>5
    <3> QED BY <1>2, <3>1
  <2> QED BY <1>3, <2>1, RowsLength
<1>7. RowsType(n, rows)  BY <1>2, <1>3, <1>4, <1>5, <1>6 DEF RowsType
<1>8. DOMAIN cache = Slots /\ DOMAIN segm = SegmentCells /\ DOMAIN out = OutCells
  BY DEF AttnInit, Written
<1>9. ASSUME NEW i \in 1..n
      PROVE  Holds(i, rows[i].ctx + 0)
  <2> DEFINE from == [j \in DOMAIN rows |-> 0]
             to == [j \in DOMAIN rows |-> rows[j].ctx]
             old == [s \in Slots |-> <<"stale">>]
  <2>1. cache = Written(old, from, to) /\ DOMAIN old = Slots  BY DEF AttnInit
  <2>2. from[i] = 0 /\ to[i] = rows[i].ctx /\ rows[i].ctx \in Nat /\ rows[i].q \in Nat
    BY <1>4, <1>5, <1>6
  <2> HIDE DEF from, to, old
  <2>3. ASSUME NEW kv \in 0..att.hkv - 1, NEW x \in Nat, x < rows[i].ctx
        PROVE  cache[Slot(i - 1, kv, x)] = <<rows[i].id, x>>
    <3>1. from[i] \in Nat /\ to[i] \in Nat /\ to[i] <= rows[i].ctx + rows[i].q /\ x < to[i]
      BY <2>2, <2>3
    <3>2. x < from[i] => old[Slot(i - 1, kv, x)] = <<rows[i].id, x>>  BY <2>2, <2>3
    <3>3. Written(old, from, to)[Slot(i - 1, kv, x)] = <<rows[i].id, x>>
      <4>1. Writes(n, old, from, to, i, kv, x)  BY <1>7, <2>1, <3>1, <3>2 DEF Writes
      <4> QED BY <4>1, WriteHolds
    <3> QED BY <2>1, <3>3
  <2>4. rows[i].ctx + 0 = rows[i].ctx  BY <2>2
  <2> QED BY <2>3, <2>4 DEF Holds
<1>10. Batch(n, rows)  BY <1>5, <1>7 DEF Batch
<1> QED BY <1>1, <1>8, <1>9, <1>10 DEF AttnIInv

(* What the invariant says of the batch. *)
LEMMA OfBatch ==
  ASSUME NEW n, Batch(n, rows)
  PROVE  /\ RowsType(n, rows) /\ n = Len(rows) /\ n \in Nat /\ DOMAIN rows = 1..n
         /\ query_start_loc(n) \in Nat /\ query_start_loc(n) <= MaxTokens
<1>1. RowsType(n, rows) /\ AddUpQ(rows, 1..n) <= MaxTokens  BY DEF Batch
<1>2. n = Len(rows) /\ n \in Nat /\ DOMAIN rows = 1..n  BY <1>1 DEF RowsType
<1> QED BY <1>1, <1>2, StartsAdd

LEMMA UpdateCacheKeeps ==
  ASSUME AttnIInv, UpdateCache
  PROVE  AttnIInv'
<1>1. att \in AttnConfigs /\ at = "cache" /\ at' = "attend" /\ rows' = rows /\ att' = att
      /\ segm' = segm /\ out' = out /\ launch' = Launched
  BY DEF AttnIInv, UpdateCache
<1>2. PICK n : Batch(n, rows) /\ \A i \in 1..n : Holds(i, rows[i].ctx + 0)
  BY <1>1 DEF AttnIInv
<1>3. RowsType(n, rows) /\ DOMAIN rows = 1..n  BY <1>2, OfBatch
<1> DEFINE from == [i \in DOMAIN rows |-> rows[i].ctx]
           to == [i \in DOMAIN rows |-> rows[i].ctx + rows[i].q]
<1>4. cache' = Written(cache, from, to) /\ DOMAIN cache = Slots
  BY DEF UpdateCache, AttnIInv
<1>5. \A i \in 1..n : /\ from[i] = rows[i].ctx /\ to[i] = rows[i].ctx + rows[i].q
                      /\ rows[i].ctx \in Nat /\ rows[i].q \in Nat
  BY <1>3 DEF RowsType
<1>6. DOMAIN cache' = Slots  BY <1>4 DEF Written
<1> HIDE DEF from, to
<1>7. ASSUME NEW i \in 1..n, NEW kv \in 0..att.hkv - 1, NEW x \in Nat, x < rows[i].ctx + rows[i].q
      PROVE  cache'[Slot(i - 1, kv, x)] = <<rows[i].id, x>>
  <2>1. PICK c, q : c = rows[i].ctx /\ q = rows[i].q /\ c \in Nat /\ q \in Nat  BY <1>5
  <2>2. from[i] = c /\ to[i] = c + q  BY <1>5, <2>1
  <2>3. from[i] \in Nat /\ to[i] \in Nat /\ to[i] <= rows[i].ctx + rows[i].q /\ x < to[i]
    BY <1>7, <2>1, <2>2
  <2>4. x < from[i] => cache[Slot(i - 1, kv, x)] = <<rows[i].id, x>>
    <3> SUFFICES ASSUME x < from[i] PROVE cache[Slot(i - 1, kv, x)] = <<rows[i].id, x>>
      OBVIOUS
    <3>1. Holds(i, c + 0) /\ x < c + 0  BY <1>2, <2>1, <2>2
    <3> QED BY <3>1 DEF Holds
  <2>5. Written(cache, from, to)[Slot(i - 1, kv, x)] = <<rows[i].id, x>>
    <3>1. Writes(n, cache, from, to, i, kv, x)  BY <1>3, <1>4, <2>3, <2>4 DEF Writes
    <3> QED BY <3>1, WriteHolds
  <2> QED BY <1>4, <2>5
<1>8. \A i \in 1..n : Holds(i, rows[i].ctx + rows[i].q)'
  BY <1>1, <1>7 DEF Holds, Slot, Blocks
<1>9. PICK l : l = launch'  OBVIOUS
<1>10. /\ l.seqs \in Nat /\ n <= l.seqs /\ l.tokens \in Nat /\ query_start_loc(n) <= l.tokens
       /\ l.max_query_len \in Nat /\ \A i \in 1..n : rows[i].q <= l.max_query_len
  BY <1>1, <1>3, <1>9, LaunchedFits
<1>11. Fits(n)'
  <2>1. query_start_loc(n)' = query_start_loc(n)  BY <1>1, StartsStay
  <2> QED BY <1>9, <1>10, <2>1 DEF Fits
<1>12. Batch(n, rows)'  BY <1>1, <1>2 DEF Batch, RowsType
<1>13. Slots' = Slots /\ SegmentCells' = SegmentCells /\ OutCells' = OutCells
  BY <1>1, CellsStay
<1>14. DOMAIN cache' = Slots' /\ DOMAIN segm' = SegmentCells' /\ DOMAIN out' = OutCells'
  BY <1>1, <1>6, <1>13 DEF AttnIInv
<1>15. launch'.max_query_len \in Nat /\ \A i \in 1..n : rows'[i].q <= launch'.max_query_len
  BY <1>1, <1>9, <1>10
<1>16. \A i \in 1..n : Holds(i, rows[i].ctx + IF at = "cache" THEN 0 ELSE rows[i].q)'
  BY <1>1, <1>8
<1> QED BY <1>1, <1>11, <1>12, <1>14, <1>15, <1>16 DEF AttnIInv

(* A step that leaves the batch, its configuration and the cache keeps what *)
(* the cache holds. *)
LEMMA BatchHeld ==
  ASSUME AttnIInv, att' = att, rows' = rows, cache' = cache, at # "cache", at' # "cache",
         NEW n, Batch(n, rows), \A i \in 1..n : Holds(i, rows[i].ctx + rows[i].q)
  PROVE  /\ Batch(n, rows)' /\ att' \in AttnConfigs /\ DOMAIN cache' = Slots'
         /\ \A i \in 1..n : Holds(i, rows[i].ctx + IF at = "cache" THEN 0 ELSE rows[i].q)'
<1>1. Batch(n, rows)'  BY DEF Batch, RowsType
<1>2. att' \in AttnConfigs /\ DOMAIN cache' = Slots'  BY CellsStay DEF AttnIInv
<1>3. ASSUME NEW i \in 1..n
      PROVE  Holds(i, rows[i].ctx + IF at = "cache" THEN 0 ELSE rows[i].q)'
  <2>1. PICK e : e = rows[i].ctx + rows[i].q /\ Holds(i, e)  OBVIOUS
  <2>2. Holds(i, e)'  BY <2>1, CacheStays
  <2>3. (rows[i].ctx + IF at = "cache" THEN 0 ELSE rows[i].q)' = e  BY <2>1
  <2> QED BY <2>2, <2>3 DEF Holds
<1> QED BY <1>1, <1>2, <1>3

(* What the invariant says while the kernels run. *)
LEMMA Running ==
  ASSUME AttnIInv, at \in {"attend", "reduce"}
  PROVE  \E n : /\ Batch(n, rows) /\ RowsType(n, rows) /\ Fits(n) /\ att \in AttnConfigs
                /\ \A i \in 1..n : Holds(i, rows[i].ctx + rows[i].q)
                /\ launch.max_query_len \in Nat /\ \A i \in 1..n : rows[i].q <= launch.max_query_len
                /\ \A k \in Nat : k < query_start_loc(n) => \A h \in Heads : <<k, h, 0>> \in DOMAIN out
                /\ ~ Use2D => \A k \in Nat : k < query_start_loc(n) =>
                                \A h \in Heads, s \in Segments : <<k, h, s>> \in DOMAIN segm
                /\ at = "reduce" => ~ Use2D /\ SegmentsRight(n, segm)
<1>1. PICK n : /\ Batch(n, rows) /\ Fits(n) /\ launch.max_query_len \in Nat
               /\ \A i \in 1..n : Holds(i, rows[i].ctx + rows[i].q)
               /\ \A i \in 1..n : rows[i].q <= launch.max_query_len
               /\ at = "reduce" => ~ Use2D /\ SegmentsRight(n, segm)
  BY DEF AttnIInv
<1>2. RowsType(n, rows) /\ query_start_loc(n) \in Nat /\ query_start_loc(n) <= MaxTokens
  BY <1>1, OfBatch
<1>3. att \in AttnConfigs /\ DOMAIN segm = SegmentCells /\ DOMAIN out = OutCells
  BY DEF AttnIInv
<1>4. ASSUME NEW k \in Nat, k < query_start_loc(n), NEW h \in Heads
      PROVE  <<k, h, 0>> \in DOMAIN out
  <2>1. k < MaxTokens
    <3>1. PICK a, b : a = query_start_loc(n) /\ b = MaxTokens /\ a \in Nat /\ b \in Nat /\ a <= b
      BY <1>2, AttnAssumption
    <3> QED BY <1>4, <3>1
  <2> QED BY <1>3, <2>1, OutHas
<1>5. ASSUME ~ Use2D, NEW k \in Nat, k < query_start_loc(n), NEW h \in Heads, NEW s \in Segments
      PROVE  <<k, h, s>> \in DOMAIN segm
  BY <1>1, <1>2, <1>3, <1>5, SegmentsHave
<1> QED BY <1>1, <1>2, <1>3, <1>4, <1>5

LEMMA Launch2DKeeps ==
  ASSUME AttnIInv, Launch2D
  PROVE  AttnIInv'
<1>1. at = "attend" /\ at' = "done" /\ rows' = rows /\ att' = att /\ cache' = cache
      /\ segm' = segm
  BY DEF Launch2D
<1>2. PICK n : /\ Batch(n, rows) /\ RowsType(n, rows) /\ Fits(n) /\ att \in AttnConfigs
               /\ \A i \in 1..n : Holds(i, rows[i].ctx + rows[i].q)
               /\ \A k \in Nat : k < query_start_loc(n) => \A h \in Heads : <<k, h, 0>> \in DOMAIN out
  BY <1>1, Running
<1>3. PICK late \in BOOLEAN :
        out' = After(UNION {Sums(p, Tiles(p, att.tile), att.tile) : p \in Grid({0})}, out, late)
  BY DEF Launch2D
<1>4. PICK o : o = out' /\ OutRight(n, o)  BY <1>2, <1>3, Writes2D
<1>5. OutRight(n, out)'
  <2>1. OutRight(n, o)'  BY <1>1, <1>4, BatchStays
  <2> QED BY <1>4, <2>1 DEF OutRight
<1>6. DOMAIN out' = DOMAIN out  BY <1>3 DEF After
<1>7. DOMAIN segm' = SegmentCells' /\ DOMAIN out' = OutCells'
  BY <1>1, <1>6, CellsStay DEF AttnIInv
<1>8. /\ Batch(n, rows)' /\ att' \in AttnConfigs /\ DOMAIN cache' = Slots'
      /\ \A i \in 1..n : Holds(i, rows[i].ctx + IF at = "cache" THEN 0 ELSE rows[i].q)'
  BY <1>1, <1>2, BatchHeld
<1> QED BY <1>1, <1>5, <1>7, <1>8 DEF AttnIInv

LEMMA Launch3DKeeps ==
  ASSUME AttnIInv, Launch3D
  PROVE  AttnIInv'
<1>1. at = "attend" /\ at' = "reduce" /\ rows' = rows /\ att' = att /\ cache' = cache
      /\ out' = out /\ launch' = launch /\ ~ Use2D
  BY DEF Launch3D
<1>2. PICK n : /\ Batch(n, rows) /\ RowsType(n, rows) /\ Fits(n) /\ att \in AttnConfigs
               /\ \A i \in 1..n : Holds(i, rows[i].ctx + rows[i].q)
               /\ launch.max_query_len \in Nat /\ \A i \in 1..n : rows[i].q <= launch.max_query_len
               /\ \A k \in Nat : k < query_start_loc(n) =>
                    \A h \in Heads, s \in Segments : <<k, h, s>> \in DOMAIN segm
  BY <1>1, Running
<1>3. PICK late \in BOOLEAN :
        segm' = After(UNION {Sums(p, SegmentTiles(p), att.decode) : p \in ActivePrograms}, segm, late)
  BY DEF Launch3D, ActivePrograms
<1>4. PICK o : o = segm' /\ SegmentsRight(n, o)  BY <1>2, <1>3, Writes3D
<1>5. SegmentsRight(n, segm)'
  <2>1. SegmentsRight(n, o)'  BY <1>1, <1>4, BatchStays
  <2> QED BY <1>4, <2>1 DEF SegmentsRight
<1>6. DOMAIN segm' = DOMAIN segm  BY <1>3 DEF After
<1>7. DOMAIN segm' = SegmentCells' /\ DOMAIN out' = OutCells'
  BY <1>1, <1>6, CellsStay DEF AttnIInv
<1>8. /\ Batch(n, rows)' /\ att' \in AttnConfigs /\ DOMAIN cache' = Slots'
      /\ \A i \in 1..n : Holds(i, rows[i].ctx + IF at = "cache" THEN 0 ELSE rows[i].q)'
  BY <1>1, <1>2, BatchHeld
<1>9. Fits(n)' /\ ~ Use2D'  BY <1>1, <1>2, LaunchStays
<1>10. launch'.max_query_len \in Nat /\ \A i \in 1..n : rows'[i].q <= launch'.max_query_len
  BY <1>1, <1>2
<1> QED BY <1>1, <1>5, <1>7, <1>8, <1>9, <1>10 DEF AttnIInv

LEMMA ReduceKeeps ==
  ASSUME AttnIInv, Reduce
  PROVE  AttnIInv'
<1>1. at = "reduce" /\ at' = "done" /\ rows' = rows /\ att' = att /\ cache' = cache
      /\ segm' = segm
  BY DEF Reduce
<1>2. PICK n : /\ Batch(n, rows) /\ RowsType(n, rows) /\ Fits(n) /\ att \in AttnConfigs
               /\ \A i \in 1..n : Holds(i, rows[i].ctx + rows[i].q)
               /\ \A k \in Nat : k < query_start_loc(n) => \A h \in Heads : <<k, h, 0>> \in DOMAIN out
               /\ \A k \in Nat : k < query_start_loc(n) =>
                    \A h \in Heads, s \in Segments : <<k, h, s>> \in DOMAIN segm
               /\ SegmentsRight(n, segm)
  BY <1>1, Running
<1>3. PICK garbage : out' = Reduced(garbage)  BY Zenon DEF Reduce, Reduced
<1>4. PICK o : o = out' /\ OutRight(n, o)  BY <1>2, <1>3, Reduces
<1>5. OutRight(n, out)'
  <2>1. OutRight(n, o)'  BY <1>1, <1>4, BatchStays
  <2> QED BY <1>4, <2>1 DEF OutRight
<1>6. DOMAIN out' = DOMAIN out  BY <1>3 DEF Reduced
<1>7. DOMAIN segm' = SegmentCells' /\ DOMAIN out' = OutCells'
  BY <1>1, <1>6, CellsStay DEF AttnIInv
<1>8. /\ Batch(n, rows)' /\ att' \in AttnConfigs /\ DOMAIN cache' = Slots'
      /\ \A i \in 1..n : Holds(i, rows[i].ctx + IF at = "cache" THEN 0 ELSE rows[i].q)'
  BY <1>1, <1>2, BatchHeld
<1> QED BY <1>1, <1>5, <1>7, <1>8 DEF AttnIInv

LEMMA NextStepKeeps ==
  ASSUME AttnIInv, turn \in Nat, NextStep
  PROVE  AttnIInv'
<1>1. at = "done" /\ at' = "cache" /\ att' = att /\ cache' = cache /\ segm' = segm
      /\ DOMAIN out' = DOMAIN out
  BY DEF NextStep
<1>2. PICK n : Batch(n, rows) /\ \A i \in 1..n : Holds(i, rows[i].ctx + rows[i].q)
  BY <1>1 DEF AttnIInv
<1>3. RowsType(n, rows) /\ DOMAIN rows = 1..n /\ n \in Nat /\ n > 0 /\ n <= MaxSeqs
  BY <1>2, OfBatch DEF RowsType
<1>0. PICK fresh \in SUBSET DOMAIN rows, q \in Queries(DOMAIN rows) :
        /\ rows' = [i \in DOMAIN rows |->
             IF i \in fresh THEN [id |-> (turn + 1) * MaxSeqs + i, ctx |-> 0, q |-> q[i]]
             ELSE [id |-> rows[i].id, ctx |-> rows[i].ctx + rows[i].q, q |-> q[i]]]
        /\ \A i \in DOMAIN rows : rows'[i].ctx + q[i] <= MaxLen
  BY Zenon DEF NextStep
<1>4. /\ fresh \in SUBSET (1..n) /\ q \in Queries(1..n)
      /\ rows' = [i \in 1..n |->
           IF i \in fresh THEN [id |-> (turn + 1) * MaxSeqs + i, ctx |-> 0, q |-> q[i]]
           ELSE [id |-> rows[i].id, ctx |-> rows[i].ctx + rows[i].q, q |-> q[i]]]
      /\ \A i \in 1..n : rows'[i].ctx + q[i] <= MaxLen
  BY <1>0, <1>3
<1>5. PICK w : w = rows'  OBVIOUS
<1>6. \A i \in 1..n :
        /\ w[i].q = q[i]
        /\ i \notin fresh => w[i].id = rows[i].id
        /\ w[i].ctx = IF i \in fresh THEN 0 ELSE rows[i].ctx + rows[i].q
        /\ w[i].ctx \in Nat /\ w[i].ctx + q[i] <= MaxLen
  BY <1>3, <1>4, <1>5 DEF RowsType
<1>7. AddUpQ(w, 1..n) <= MaxTokens /\ \A i \in 1..n : q[i] \in Nat /\ q[i] > 0
  BY <1>3, <1>6, QueriesFit
<1>8. Len(w) = n /\ DOMAIN w = 1..n
  <2> DEFINE S == {w[i] : i \in 1..n}
  <2>1. w \in [1..n -> S]  BY <1>4, <1>5
  <2>2. w \in Seq(S)
    <3> HIDE DEF S
    <3> QED BY <1>3, <2>1, SeqDef
  <2>3. DOMAIN w = 1..n  BY <1>4, <1>5
  <2> HIDE DEF S
  <2>4. DOMAIN w = 1..Len(w) /\ Len(w) \in Nat  BY <2>2
  <2> QED BY <1>3, <2>3, <2>4
<1>9. Batch(n, w)  BY <1>3, <1>6, <1>7, <1>8 DEF Batch, RowsType
<1>10. Batch(n, rows)'  BY <1>5, <1>9 DEF Batch, RowsType
<1>11. ASSUME NEW i \in 1..n
       PROVE  Holds(i, rows[i].ctx + IF at = "cache" THEN 0 ELSE rows[i].q)'
  <2>1. PICK c : c = w[i].ctx /\ c \in Nat /\ c + 0 = c  BY <1>6
  <2>2. ASSUME NEW kv \in 0..att.hkv - 1, NEW x \in Nat, x < c
        PROVE  cache[Slot(i - 1, kv, x)] = <<w[i].id, x>>
    <3>1. CASE i \in fresh
      BY <1>6, <2>1, <2>2, <3>1
    <3>2. CASE i \notin fresh
      <4>1. c = rows[i].ctx + rows[i].q /\ w[i].id = rows[i].id  BY <1>6, <2>1, <3>2
      <4>2. Holds(i, c)  BY <1>2, <4>1
      <4> QED BY <2>2, <4>1, <4>2 DEF Holds
    <3> QED BY <3>1, <3>2
  <2>3. (rows[i].ctx + IF at = "cache" THEN 0 ELSE rows[i].q)' = c  BY <1>1, <1>5, <2>1
  <2>4. \A kv, x : Slot(i - 1, kv, x)' = Slot(i - 1, kv, x)  BY DEF Slot, Blocks
  <2> QED BY <1>1, <1>5, <2>2, <2>3, <2>4 DEF Holds
<1>12. DOMAIN segm' = SegmentCells' /\ DOMAIN out' = OutCells' /\ DOMAIN cache' = Slots'
       /\ att' \in AttnConfigs
  BY <1>1, CellsStay DEF AttnIInv
<1> QED BY <1>1, <1>10, <1>11, <1>12 DEF AttnIInv

LEMMA StutterKeeps ==
  ASSUME AttnIInv, UNCHANGED attnVars
  PROVE  AttnIInv'
<1>1. att' = att /\ rows' = rows /\ cache' = cache /\ segm' = segm /\ out' = out /\ launch' = launch
      /\ at' = at /\ turn' = turn
  BY DEF attnVars
<1>2. PICK n : /\ Batch(n, rows)
               /\ \A i \in 1..n : Holds(i, rows[i].ctx + IF at = "cache" THEN 0 ELSE rows[i].q)
               /\ at \in {"attend", "reduce"} =>
                    /\ Fits(n) /\ launch.max_query_len \in Nat
                    /\ \A i \in 1..n : rows[i].q <= launch.max_query_len
               /\ at = "reduce" => ~ Use2D /\ SegmentsRight(n, segm)
               /\ at = "done" => OutRight(n, out)
  BY DEF AttnIInv
<1>3. Batch(n, rows)'  BY <1>1, <1>2 DEF Batch, RowsType
<1>4. (Fits(n)' <=> Fits(n)) /\ (Use2D' <=> Use2D)  BY <1>1, LaunchStays
<1>5. (SegmentsRight(n, segm)' <=> SegmentsRight(n, segm)) /\ (OutRight(n, out)' <=> OutRight(n, out))
  <2>1. PICK s, o : s = segm /\ o = out  OBVIOUS
  <2>2. (SegmentsRight(n, s)' <=> SegmentsRight(n, s)) /\ (OutRight(n, o)' <=> OutRight(n, o))
    BY <1>1, BatchStays
  <2>3. SegmentsRight(n, segm)' <=> SegmentsRight(n, s)'  BY <1>1, <2>1 DEF SegmentsRight
  <2>4. OutRight(n, out)' <=> OutRight(n, o)'  BY <1>1, <2>1 DEF OutRight
  <2> QED BY <2>1, <2>2, <2>3, <2>4
<1>6. ASSUME NEW i \in 1..n
      PROVE  Holds(i, rows[i].ctx + IF at = "cache" THEN 0 ELSE rows[i].q)'
  <2>1. PICK e : e = rows[i].ctx + (IF at = "cache" THEN 0 ELSE rows[i].q) /\ Holds(i, e)
    BY <1>2
  <2>2. Holds(i, e)'  BY <1>1, <2>1, CacheStays
  <2>3. (rows[i].ctx + IF at = "cache" THEN 0 ELSE rows[i].q)' = e  BY <1>1, <2>1
  <2> QED BY <2>2, <2>3 DEF Holds
<1>7. DOMAIN segm' = SegmentCells' /\ DOMAIN out' = OutCells' /\ DOMAIN cache' = Slots'
      /\ att' \in AttnConfigs /\ at' \in {"cache", "attend", "reduce", "done"}
  BY <1>1, CellsStay DEF AttnIInv
<1>8. at' \in {"attend", "reduce"} =>
        /\ Fits(n)' /\ launch'.max_query_len \in Nat
        /\ \A i \in 1..n : rows'[i].q <= launch'.max_query_len
  BY <1>1, <1>2, <1>4
<1>9. (at' = "reduce" => ~ Use2D' /\ SegmentsRight(n, segm)') /\ (at' = "done" => OutRight(n, out)')
  BY <1>1, <1>2, <1>4, <1>5
<1> QED BY <1>3, <1>6, <1>7, <1>8, <1>9 DEF AttnIInv

(* The specification of the attention layer. *)
AttnSpec == AttnInit /\ [][AttnNext]_attnVars

(* Whatever the batches, the graphs and what is left in the buffers, the *)
(* output of every token is the sum over its own keys, each once, read from its *)
(* own blocks (kernel_unified_attention_2d and _3d, reduce_segments). *)
THEOREM KeysAreSeen == AttnSpec => []TokensSeeTheirKeys
<1> DEFINE IInv == AttnIInv /\ turn \in Nat
<1>1. AttnInit => IInv
  <2>1. AttnInit => turn \in Nat  BY DEF AttnInit
  <2> QED BY <2>1, AttnStarts
<1>2. IInv /\ [AttnNext]_attnVars => IInv'
  <2> SUFFICES ASSUME AttnIInv, turn \in Nat, [AttnNext]_attnVars
               PROVE  AttnIInv' /\ turn' \in Nat
    OBVIOUS
  <2>1. CASE UpdateCache
    <3>1. turn' = turn  BY <2>1 DEF UpdateCache
    <3> QED BY <2>1, <3>1, UpdateCacheKeeps
  <2>2. CASE Launch2D
    <3>1. turn' = turn  BY <2>2 DEF Launch2D
    <3> QED BY <2>2, <3>1, Launch2DKeeps
  <2>3. CASE Launch3D
    <3>1. turn' = turn  BY <2>3 DEF Launch3D
    <3> QED BY <2>3, <3>1, Launch3DKeeps
  <2>4. CASE Reduce
    <3>1. turn' = turn  BY <2>4 DEF Reduce
    <3> QED BY <2>4, <3>1, ReduceKeeps
  <2>5. CASE NextStep
    <3>1. turn' = turn + 1  BY <2>5 DEF NextStep
    <3> QED BY <2>5, <3>1, NextStepKeeps
  <2>6. CASE Ended \/ UNCHANGED attnVars
    <3>1. UNCHANGED attnVars  BY <2>6 DEF Ended
    <3>2. turn' = turn  BY <3>1 DEF attnVars
    <3> QED BY <3>1, <3>2, StutterKeeps
  <2> QED BY <2>1, <2>2, <2>3, <2>4, <2>5, <2>6 DEF AttnNext
<1>3. IInv => TokensSeeTheirKeys
  <2> SUFFICES ASSUME AttnIInv, at = "done"
               PROVE  \A i \in DOMAIN rows, h \in Heads : \A t \in 0..rows[i].q - 1 :
                        LET sum == out[<<query_start_loc(i - 1) + t, h, 0>>]
                        IN  /\ {<<x[3], x[4]>> : x \in sum} = KeysOf(rows[i].id, rows[i].ctx + t)
                            /\ Cardinality(sum) = Cardinality(KeysOf(rows[i].id, rows[i].ctx + t))
                            /\ \A x \in sum : x[2] = h \div num_queries_per_kv
    BY Zenon DEF TokensSeeTheirKeys
  <2>1. PICK n : Batch(n, rows) /\ OutRight(n, out) /\ att \in AttnConfigs  BY DEF AttnIInv
  <2>2. RowsType(n, rows) /\ DOMAIN rows = 1..n  BY <2>1, OfBatch
  <2> SUFFICES ASSUME NEW i \in 1..n, NEW h \in Heads, NEW t \in 0..rows[i].q - 1
               PROVE  LET sum == out[<<query_start_loc(i - 1) + t, h, 0>>]
                      IN  /\ {<<x[3], x[4]>> : x \in sum} = KeysOf(rows[i].id, rows[i].ctx + t)
                          /\ Cardinality(sum) = Cardinality(KeysOf(rows[i].id, rows[i].ctx + t))
                          /\ \A x \in sum : x[2] = h \div num_queries_per_kv
    BY <2>2
  <2>3. t \in Nat /\ t < rows[i].q  BY <2>2 DEF RowsType
  <2>4. PICK id, a, sum : id = rows[i].id /\ a = rows[i].ctx + t
                          /\ sum = out[<<query_start_loc(i - 1) + t, h, 0>>]
    OBVIOUS
  <2>5. /\ {<<x[3], x[4]>> : x \in sum} = KeysOf(id, a)
        /\ Cardinality(sum) = Cardinality(KeysOf(id, a))
        /\ \A x \in sum : x[2] = h \div num_queries_per_kv
    BY <2>1, <2>2, <2>3, <2>4, SeesKeys
  <2> QED BY <2>4, <2>5
<1> QED BY <1>1, <1>2, <1>3, PTL DEF AttnSpec

-----------------------------------------------------------------------------
(* A sum as the sequence of its terms. *)

(* u lists the elements of X, each once. *)
Lists(u, X) ==
  \E n \in Nat : /\ u \in [1..n -> X]
                 /\ \A i, j \in 1..n : u[i] = u[j] => i = j
                 /\ \A x \in X : \E i \in 1..n : u[i] = x

LEMMA ListSize ==
  ASSUME NEW S, IsFiniteSet(S), NEW f, \A x, y \in S : f[x] = f[y] => x = y,
         NEW X, X = {f[x] : x \in S}
  PROVE  Cardinality(X) = Cardinality(S)
<1> DEFINE g == [x \in S |-> f[x]]
<1>1. g \in [S -> X] /\ \A x \in S : g[x] = f[x]
  OBVIOUS
<1> HIDE DEF g
<1>2. g \in Injection(S, X)  BY <1>1 DEF Injection, IsInjective
<1>3. g \in Surjection(S, X)  BY <1>1 DEF Surjection
<1>4. ExistsBijection(S, X)  BY <1>2, <1>3 DEF ExistsBijection, Bijection
<1> QED BY <1>4, FS_Bijection

LEMMA FunctionSeq ==
  ASSUME NEW n \in Nat, NEW X, NEW u \in [1..n -> X]
  PROVE  u \in Seq(X) /\ Len(u) = n
<1>1. u \in Seq(X)  BY SeqDef
<1>2. Len(u) \in Nat /\ DOMAIN u = 1..Len(u) /\ DOMAIN u = 1..n  BY <1>1
<1> QED BY <1>1, <1>2

LEMMA ListsSum ==
  ASSUME NEW u, NEW X, Lists(u, X)
  PROVE  SumOf(u, X)
<1>1. PICK n \in Nat : /\ u \in [1..n -> X]
                       /\ \A i, j \in 1..n : u[i] = u[j] => i = j
                       /\ \A x \in X : \E i \in 1..n : u[i] = x
  BY DEF Lists
<1>2. u \in Seq(X) /\ Len(u) = n  BY <1>1, FunctionSeq
<1>3. X = {u[i] : i \in 1..n}  BY <1>1
<1>4. ToSet(u) = X  BY <1>1, <1>3 DEF ToSet
<1>5. IsFiniteSet(1..n) /\ Cardinality(1..n) = n  BY FS_Interval
<1>6. Cardinality(X) = n  BY <1>1, <1>3, <1>5, ListSize
<1> QED BY <1>2, <1>4, <1>6 DEF SumOf

LEMMA ListsJoin ==
  ASSUME NEW u, NEW X, Lists(u, X), NEW v, NEW Y, Lists(v, Y), X \cap Y = {}
  PROVE  Lists(u \o v, X \cup Y)
<1>1. PICK n \in Nat : /\ u \in [1..n -> X]
                       /\ \A i, j \in 1..n : u[i] = u[j] => i = j
                       /\ \A x \in X : \E i \in 1..n : u[i] = x
  BY DEF Lists
<1>2. PICK m \in Nat : /\ v \in [1..m -> Y]
                       /\ \A i, j \in 1..m : v[i] = v[j] => i = j
                       /\ \A x \in Y : \E i \in 1..m : v[i] = x
  BY DEF Lists
<1>3. u \in Seq(X \cup Y) /\ Len(u) = n /\ v \in Seq(X \cup Y) /\ Len(v) = m
  <2>1. u \in [1..n -> X \cup Y] /\ v \in [1..m -> X \cup Y]  BY <1>1, <1>2
  <2> QED BY <2>1, FunctionSeq
<1>4. PICK w : w = u \o v  OBVIOUS
<1>5. /\ w \in Seq(X \cup Y) /\ Len(w) = n + m
      /\ \A i \in 1..(n + m) : w[i] = IF i <= n THEN u[i] ELSE v[i - n]
  BY <1>3, <1>4, ConcatProperties
<1>6. w \in [1..(n + m) -> X \cup Y] /\ n + m \in Nat  BY <1>5
<1>7. /\ \A i \in 1..n : i \in 1..(n + m) /\ w[i] = u[i]
      /\ \A i \in 1..m : n + i \in 1..(n + m) /\ w[n + i] = v[i]
  <2>1. \A i \in 1..n : i \in 1..(n + m) /\ i <= n
    OBVIOUS
  <2>2. \A i \in 1..m : n + i \in 1..(n + m) /\ ~ (n + i <= n) /\ (n + i) - n = i
    OBVIOUS
  <2> QED BY <1>5, <2>1, <2>2
<1>8. \A i \in 1..(n + m) : i \in 1..n \/ (i - n \in 1..m /\ ~ (i <= n))
  OBVIOUS
<1>9. ASSUME NEW i \in 1..(n + m), NEW j \in 1..(n + m), w[i] = w[j]
      PROVE  i = j
  <2>1. CASE i \in 1..n /\ j \in 1..n
    BY <1>1, <1>7, <1>9, <2>1
  <2>2. CASE i \in 1..n /\ j \notin 1..n
    <3>1. w[i] \in X /\ w[j] \in Y
      <4>1. w[i] = u[i] /\ u[i] \in X  BY <1>1, <1>7, <2>2
      <4>2. j - n \in 1..m /\ w[j] = v[j - n]  BY <1>5, <1>8, <2>2
      <4> QED BY <1>2, <4>1, <4>2
    <3> QED BY <1>9, <3>1
  <2>3. CASE i \notin 1..n /\ j \in 1..n
    <3>1. w[j] \in X /\ w[i] \in Y
      <4>1. w[j] = u[j] /\ u[j] \in X  BY <1>1, <1>7, <2>3
      <4>2. i - n \in 1..m /\ w[i] = v[i - n]  BY <1>5, <1>8, <2>3
      <4> QED BY <1>2, <4>1, <4>2
    <3> QED BY <1>9, <3>1
  <2>4. CASE i \notin 1..n /\ j \notin 1..n
    <3>1. i - n \in 1..m /\ w[i] = v[i - n] /\ j - n \in 1..m /\ w[j] = v[j - n]
      BY <1>5, <1>8, <2>4
    <3>2. i - n = j - n  BY <1>2, <1>9, <3>1
    <3> QED BY <3>2
  <2> QED BY <2>1, <2>2, <2>3, <2>4
<1>10. ASSUME NEW x \in X \cup Y
       PROVE  \E i \in 1..(n + m) : w[i] = x
  <2>1. CASE x \in X
    <3>1. PICK i \in 1..n : u[i] = x  BY <1>1, <2>1
    <3> QED BY <1>7, <3>1
  <2>2. CASE x \in Y
    <3>1. PICK i \in 1..m : v[i] = x  BY <1>2, <2>2
    <3>2. n + i \in 1..(n + m) /\ w[n + i] = x  BY <1>7, <3>1
    <3> QED BY <3>2
  <2> QED BY <2>1, <2>2
<1>11. PICK k, Z : k = n + m /\ Z = X \cup Y  OBVIOUS
<1>12. /\ k \in Nat /\ w \in [1..k -> Z]
       /\ \A i, j \in 1..k : w[i] = w[j] => i = j
       /\ \A x \in Z : \E i \in 1..k : w[i] = x
  BY <1>6, <1>9, <1>10, <1>11
<1>13. Lists(w, Z)  BY <1>12 DEF Lists
<1> QED BY <1>4, <1>11, <1>13

LEMMA ListsNothing == Lists(<<>>, {})
<1>1. 0 \in Nat /\ <<>> \in [1..0 -> {}] /\ 1..0 = {}
  OBVIOUS
<1> QED BY <1>1 DEF Lists

(* The recursion of an all-reduce, rank by rank in the order g. *)
Joining(f, loc, S, g) ==
  f = [t \in SUBSET S |-> IF t = {} THEN <<>> ELSE f[t \ {g[t]}] \o loc[g[t]]]

LEMMA JoinsExist ==
  ASSUME NEW S, IsFiniteSet(S), NEW loc, NEW g, Picks(g, S)
  PROVE  \E f : Joining(f, loc, S, g)
<1>1. PICK f : Unfolds(f, TRUE, loc, S, g)  BY UnfoldingExists
<1> QED BY <1>1 DEF Unfolds, Empty, With, Joining

(* Where every rank lists its own terms, and no two ranks the same. *)
AllTerms(terms, S) == UNION {terms[r] : r \in S}
AllList(loc, terms, S) ==
  /\ \A r \in S : Lists(loc[r], terms[r])
  /\ \A r, s \in S : r # s => terms[r] \cap terms[s] = {}

LEMMA JoiningLists ==
  ASSUME NEW S, IsFiniteSet(S), NEW loc, NEW terms, AllList(loc, terms, S), NEW g, Picks(g, S),
         NEW f, Joining(f, loc, S, g)
  PROVE  \A t \in SUBSET S : Lists(f[t], AllTerms(terms, t))
<1> DEFINE Good(t) == Lists(f[t], AllTerms(terms, t))
           T == {m \in Nat : \E t \in SUBSET S : Cardinality(t) = m /\ ~ Good(t)}
<1>1. \A t \in SUBSET S : f[t] = IF t = {} THEN <<>> ELSE f[t \ {g[t]}] \o loc[g[t]]
  BY DEF Joining
<1>2. T = {}
  <2> SUFFICES ASSUME T # {} PROVE FALSE
    OBVIOUS
  <2>1. PICK m \in T : \A y \in T : m <= y
    <3>1. T \subseteq Nat
      OBVIOUS
    <3> HIDE DEF T
    <3> QED BY <3>1, NatLeast
  <2>2. PICK t \in SUBSET S : Cardinality(t) = m /\ ~ Good(t)  OBVIOUS
  <2>3. CASE t = {}
    <3>1. f[t] = <<>> /\ AllTerms(terms, t) = {}  BY <1>1, <2>3 DEF AllTerms
    <3> QED BY <2>2, <3>1, ListsNothing
  <2>4. CASE t # {}
    <3>1. PICK x : x = g[t] /\ x \in t  BY <2>4 DEF Picks
    <3>2. PICK s : s = t \ {x} /\ s \in SUBSET S  BY <3>1
    <3>3. Cardinality(s) = m - 1 /\ m - 1 \in Nat  BY <2>2, <3>1, <3>2, SmallerSet
    <3>4. Good(s)
      <4>1. m - 1 \notin T
        <5>1. ~ (m <= m - 1)  BY <3>3
        <5> HIDE DEF T
        <5> QED BY <2>1, <5>1
      <4> QED BY <3>2, <3>3, <4>1
    <3>5. f[t] = f[s] \o loc[x]  BY <1>1, <2>4, <3>1, <3>2
    <3>6. PICK X, Y : X = AllTerms(terms, s) /\ Y = terms[x]  OBVIOUS
    <3>7. Lists(f[s], X) /\ Lists(loc[x], Y) /\ X \cap Y = {}
      BY <3>1, <3>2, <3>4, <3>6 DEF AllList, AllTerms
    <3>8. AllTerms(terms, t) = X \cup Y  BY <3>1, <3>2, <3>6 DEF AllTerms
    <3>9. Good(t)  BY <3>5, <3>7, <3>8, ListsJoin
    <3> QED BY <2>2, <3>9
  <2> QED BY <2>3, <2>4
<1>3. ASSUME NEW t \in SUBSET S
      PROVE  Good(t)
  <2>1. Cardinality(t) \in Nat  BY FS_Subset, FS_CardinalityType
  <2> QED BY <1>2, <2>1
<1> QED BY <1>3

(* The all-reduce lists the terms of all ranks. *)
LEMMA AllReduceLists ==
  ASSUME NEW S, IsFiniteSet(S), NEW loc, NEW terms, AllList(loc, terms, S)
  PROVE  Lists(all_reduce(loc, S), AllTerms(terms, S))
<1> DEFINE one(t) == CHOOSE x \in t : TRUE
           g == [t \in SUBSET S |-> one(t)]
           IsJoin(f) == f = [t \in SUBSET S |-> IF t = {} THEN <<>> ELSE f[t \ {one(t)}] \o loc[one(t)]]
           f == CHOOSE f : IsJoin(f)
<1>1. all_reduce(loc, S)
        = MapThenFoldSet(LAMBDA r, sum : sum \o loc[r], <<>>, LAMBDA x : x,
                         LAMBDA s : CHOOSE x \in s : TRUE, S)
  BY DEF all_reduce, FoldSet
<1>2. MapThenFoldSet(LAMBDA r, sum : sum \o loc[r], <<>>, LAMBDA x : x,
                     LAMBDA s : CHOOSE x \in s : TRUE, S) = f[S]
  BY Zenon DEF MapThenFoldSet
<1>3. Picks(g, S)  BY DEF Picks
<1> HIDE DEF one
<1>4. \A h : IsJoin(h) <=> Joining(h, loc, S, g)  BY <1>3 DEF Picks, Joining
<1>5. \E h : Joining(h, loc, S, g)  BY <1>3, JoinsExist
<1> HIDE DEF IsJoin
<1>6. Joining(f, loc, S, g)  BY <1>4, <1>5
<1> HIDE DEF f
<1>7. \A t \in SUBSET S : Lists(f[t], AllTerms(terms, t))  BY <1>3, <1>6, JoiningLists
<1>8. S \in SUBSET S
  OBVIOUS
<1>9. Lists(f[S], AllTerms(terms, S))  BY <1>7, <1>8
<1> QED BY <1>1, <1>2, <1>9

-----------------------------------------------------------------------------
(* How the dimensions of a layer are cut. *)

(* x is y, some times. *)
Multiple(x, y) == \E n \in Nat \ {0} : x = y * n

LEMMA MultipleIs ==
  ASSUME NEW x \in Nat \ {0}, NEW y \in Nat \ {0}
  PROVE  /\ x % y = 0 => Multiple(x, y)
         /\ Multiple(x, y) => /\ x \div y \in Nat \ {0} /\ x = y * (x \div y) /\ x % y = 0
                              /\ \A n \in Nat : x = y * n => x \div y = n
<1>1. ASSUME x % y = 0
      PROVE  Multiple(x, y)
  <2>1. PICK q : q = x \div y /\ q \in Nat  BY DivNat
  <2>2. x \in Int
    OBVIOUS
  <2>3. x = y * q
    <3>1. x % y = x - y * q  BY <2>1, <2>2, DivMod
    <3>2. y * q \in Nat  BY <2>1
    <3> QED BY <1>1, <3>1, <3>2
  <2>4. q # 0  BY <2>3
  <2> QED BY <2>1, <2>3, <2>4 DEF Multiple
<1>2. ASSUME NEW n \in Nat, x = y * n
      PROVE  x \div y = n
  <2>1. x \in Int /\ n \in Int /\ y * n <= x /\ x < y * n + y  BY <1>2
  <2> QED BY <2>1, DivUnique
<1>3. ASSUME Multiple(x, y)
      PROVE  x \div y \in Nat \ {0} /\ x = y * (x \div y) /\ x % y = 0
  <2>1. PICK n \in Nat \ {0} : x = y * n  BY <1>3 DEF Multiple
  <2>2. x \div y = n  BY <1>2, <2>1
  <2>3. x % y = x - y * n
    <3>1. x \in Int
      OBVIOUS
    <3> QED BY <2>2, <3>1, DivMod
  <2> QED BY <2>1, <2>2, <2>3
<1> QED BY <1>1, <1>2, <1>3

LEMMA MultipleOf ==
  ASSUME NEW x, NEW y, NEW z, Multiple(x, y), Multiple(y, z), z \in Nat
  PROVE  Multiple(x, z)
<1>1. PICK a \in Nat \ {0} : x = y * a  BY DEF Multiple
<1>2. PICK b \in Nat \ {0} : y = z * b  BY DEF Multiple
<1>3. b * a \in Nat \ {0} /\ x = z * (b * a)  BY <1>1, <1>2
<1> QED BY <1>3 DEF Multiple

(* What the constructors assert of a configuration. *)
LEMMA ConfigIs ==
  ASSUME conf \in Configs
  PROVE  /\ conf.tp \in Nat \ {0} /\ conf.heads \in Nat \ {0} /\ conf.kv \in Nat \ {0}
         /\ conf.keys \in Nat \ {0} /\ conf.values \in Nat \ {0} /\ conf.inter \in Nat \ {0}
         /\ Multiple(conf.heads, conf.tp) /\ Multiple(conf.keys, conf.tp)
         /\ Multiple(conf.values, conf.keys) /\ Multiple(conf.inter, conf.tp)
         /\ Multiple(conf.heads, conf.kv) /\ Multiple(conf.values, conf.tp)
         /\ conf.quant => ~ conf.moe /\ ~ conf.interleave
         /\ conf.interleave => ~ conf.moe
<1>1. /\ conf \in Config
      /\ {conf.heads % conf.tp, conf.keys % conf.tp, conf.values % conf.keys, conf.inter % conf.tp,
          conf.heads % conf.kv} = {0}
      /\ conf.quant => ~ conf.moe
      /\ conf.interleave => ~ conf.quant /\ ~ conf.moe
  BY ShardAssumption
<1>2. /\ conf.tp \in Nat \ {0} /\ conf.heads \in Nat \ {0} /\ conf.kv \in Nat \ {0}
      /\ conf.keys \in Nat \ {0} /\ conf.values \in Nat \ {0} /\ conf.inter \in Nat \ {0}
  BY <1>1 DEF Config
<1>3. conf.heads % conf.tp = 0 /\ conf.keys % conf.tp = 0 /\ conf.values % conf.keys = 0
      /\ conf.inter % conf.tp = 0 /\ conf.heads % conf.kv = 0
  BY <1>1
<1>4. /\ Multiple(conf.heads, conf.tp) /\ Multiple(conf.keys, conf.tp)
      /\ Multiple(conf.values, conf.keys) /\ Multiple(conf.inter, conf.tp)
      /\ Multiple(conf.heads, conf.kv)
  BY <1>2, <1>3, MultipleIs
<1>5. Multiple(conf.values, conf.tp)  BY <1>2, <1>4, MultipleOf
<1> QED BY <1>1, <1>2, <1>4, <1>5

(* Key and value heads: some on each rank, or each on some ranks. *)
LEMMA ReplicasAre ==
  ASSUME conf \in Configs
  PROVE  /\ Replicas \in Nat \ {0}
         /\ (Replicas = 1 /\ Multiple(conf.kv, conf.tp)) \/ conf.tp = conf.kv * Replicas
<1>1. PICK t, v : t = conf.tp /\ v = conf.kv /\ t \in Nat \ {0} /\ v \in Nat \ {0}
  BY ConfigIs
<1>2. v % t = 0 \/ t % v = 0  BY <1>1, ShardAssumption
<1>3. Replicas = IF t >= v THEN t \div v ELSE 1  BY <1>1 DEF Replicas
<1>4. CASE t > v
  <2>1. v \div t = 0
    <3>1. v \in Int /\ 0 \in Int /\ t * 0 <= v /\ v < t * 0 + t  BY <1>1, <1>4
    <3> QED BY <1>1, <3>1, DivUnique
  <2>2. v % t = v
    <3>1. v \in Int  BY <1>1
    <3>2. v % t = v - t * (v \div t)  BY <1>1, <3>1, DivMod
    <3> QED BY <1>1, <2>1, <3>2
  <2>3. t % v = 0  BY <1>1, <1>2, <2>2
  <2>4. t \div v \in Nat \ {0} /\ t = v * (t \div v)  BY <1>1, <2>3, MultipleIs
  <2>5. Replicas = t \div v  BY <1>1, <1>3, <1>4
  <2> QED BY <1>1, <2>4, <2>5
<1>5. CASE t = v
  <2>1. t \div v = 1
    <3>1. t \in Int /\ 1 \in Int /\ v * 1 <= t /\ t < v * 1 + v  BY <1>1, <1>5
    <3> QED BY <1>1, <3>1, DivUnique
  <2>2. Replicas = 1 /\ t = v * 1  BY <1>1, <1>3, <1>5, <2>1
  <2> QED BY <1>1, <2>2
<1>6. CASE t < v
  <2>1. t \div v = 0
    <3>1. t \in Int /\ 0 \in Int /\ v * 0 <= t /\ t < v * 0 + v  BY <1>1, <1>6
    <3> QED BY <1>1, <3>1, DivUnique
  <2>2. t % v = t
    <3>1. t \in Int  BY <1>1
    <3>2. t % v = t - v * (t \div v)  BY <1>1, <3>1, DivMod
    <3> QED BY <1>1, <2>1, <3>2
  <2>3. Multiple(v, t)  BY <1>1, <1>2, <2>2, MultipleIs
  <2>4. Replicas = 1  BY <1>1, <1>3, <1>6
  <2> QED BY <1>1, <2>3, <2>4
<1> QED BY <1>1, <1>4, <1>5, <1>6

(* The layers that are cut over four ranks, the number of ranks a layer is cut *)
(* over, and the place of a rank among them. *)
InFours(m) == \/ m \in {"w13", "w2"} /\ tp4x2
              \/ m \in {"gate_up", "down"} /\ conf.moe /\ tp4x2_shared
Over(m) == IF InFours(m) THEN 4 ELSE conf.tp
RankIn(m, r) == IF InFours(m) THEN r % 4 ELSE r

AllLayers == {"in_proj", "conv1d", "state", "out_proj", "gate_up", "down", "w13", "w2", "qkv", "o_proj"}

LEMMA LayersAre == Layers \subseteq AllLayers
BY DEF Layers, Program, DenseProgram, SharedProgram, RoutedProgram, ToSet, AllLayers

LEMMA OverIs ==
  ASSUME conf \in Configs, NEW m, NEW r \in World
  PROVE  Over(m) \in Nat \ {0} /\ RankIn(m, r) \in Nat /\ RankIn(m, r) < Over(m)
         /\ (InFours(m) => conf.tp = 8)
<1>1. PICK t : t = conf.tp /\ t \in Nat \ {0} /\ r \in 0..t - 1  BY ConfigIs DEF World
<1>2. r % 4 \in Nat /\ r % 4 < 4  BY <1>1, DivType
<1>3. InFours(m) => conf.tp = 8  BY DEF InFours, tp4x2, tp4x2_shared
<1> QED BY <1>1, <1>2, <1>3 DEF Over, RankIn

(* The shards of a layer. *)
LEMMA ShardsAre ==
  ASSUME NEW m \in AllLayers
  PROVE  /\ Len(Shards(m)) \in {1, 2, 3, 6}
         /\ DOMAIN Shards(m) = 1..Len(Shards(m))
         /\ \A i, j \in 1..Len(Shards(m)) : Shards(m)[i] = Shards(m)[j] => i = j
<1>1. PICK u : u = Shards(m)  OBVIOUS
<1>2. CASE m = "in_proj"
  <2>1. u = <<"q", "k", "v", "z", "b", "a">>  BY <1>1, <1>2 DEF Shards
  <2>2. Len(u) = 6 /\ DOMAIN u = 1..6  BY <2>1
  <2>3. \A i, j \in 1..6 : u[i] = u[j] => i = j  BY <2>1
  <2> QED BY <1>1, <2>2, <2>3
<1>3. CASE m \in {"conv1d", "qkv"}
  <2>1. u \in {<<"q", "k", "v">>, <<"Q", "K", "V">>}  BY <1>1, <1>3 DEF Shards
  <2>2. Len(u) = 3 /\ DOMAIN u = 1..3  BY <2>1
  <2>3. \A i, j \in 1..3 : u[i] = u[j] => i = j  BY <2>1
  <2> QED BY <1>1, <2>2, <2>3
<1>4. CASE m \in {"gate_up", "w13"}
  <2>1. u = <<"gate", "up">>  BY <1>1, <1>4 DEF Shards
  <2>2. Len(u) = 2 /\ DOMAIN u = 1..2  BY <2>1
  <2>3. \A i, j \in 1..2 : u[i] = u[j] => i = j  BY <2>1
  <2> QED BY <1>1, <2>2, <2>3
<1>5. CASE m \notin {"in_proj", "conv1d", "qkv", "gate_up", "w13"}
  <2>1. u \in {<<"A_log">>, <<"in">>}  BY <1>1, <1>5 DEF Shards
  <2>2. Len(u) = 1 /\ DOMAIN u = 1..1  BY <2>1
  <2> QED BY <1>1, <2>2
<1> QED BY <1>2, <1>3, <1>4, <1>5

(* Every output dimension is cut evenly. *)
LEMMA CutsEvenly ==
  ASSUME conf \in Configs, NEW m \in AllLayers, NEW s
  PROVE  Total(m, s) \in Nat \ {0} /\ output_size(m, s) \in Nat \ {0} /\ Multiple(output_size(m, s), Over(m))
<1>1. Total(m, s) \in {conf.keys, conf.values, conf.heads, conf.kv, conf.inter}
  BY DEF Total
<1>2. Total(m, s) \in Nat \ {0}  BY <1>1, ConfigIs
<1>3. CASE m = "qkv" /\ s # "Q"
  <2>1. PICK t, v, p : t = conf.tp /\ v = conf.kv /\ p = Replicas /\ t \in Nat \ {0} /\ v \in Nat \ {0}
                       /\ p \in Nat \ {0}
    BY ConfigIs, ReplicasAre
  <2>2. output_size(m, s) = v * p /\ v * p \in Nat \ {0}  BY <1>3, <2>1 DEF output_size
  <2>3. Over(m) = t  BY <1>3, <2>1 DEF Over, InFours
  <2>4. Multiple(v * p, t)
    <3>1. CASE p = 1 /\ Multiple(v, t)
      <4>1. v * p = v  BY <2>1, <3>1
      <4> QED BY <3>1, <4>1
    <3>2. CASE t = v * p
      <4>1. v * p = t * 1  BY <2>1, <3>2
      <4> QED BY <4>1 DEF Multiple
    <3> QED BY <2>1, <3>1, <3>2, ReplicasAre
  <2> QED BY <1>2, <2>2, <2>3, <2>4
<1>4. CASE ~ (m = "qkv" /\ s # "Q")
  <2>1. output_size(m, s) = Total(m, s)  BY <1>4 DEF output_size
  <2>2. CASE InFours(m)
    <3>1. Total(m, s) = conf.inter /\ Over(m) = 4 /\ conf.tp = 8
      BY <2>2 DEF InFours, Total, Over, tp4x2, tp4x2_shared
    <3>2. Multiple(8, 4)
      <4>1. 8 = 4 * 2
        OBVIOUS
      <4> QED BY <4>1 DEF Multiple
    <3>3. Multiple(conf.inter, 8)  BY <3>1, ConfigIs
    <3>4. Multiple(conf.inter, 4)  BY <3>2, <3>3, MultipleOf
    <3> QED BY <1>2, <2>1, <3>1, <3>4
  <2>3. CASE ~ InFours(m)
    <3>1. Over(m) = conf.tp  BY <2>3 DEF Over
    <3>2. Total(m, s) \in {conf.keys, conf.values, conf.heads, conf.inter}
      BY <1>4 DEF Total
    <3>3. Multiple(Total(m, s), conf.tp)  BY <3>2, ConfigIs
    <3> QED BY <1>2, <2>1, <3>1, <3>3
  <2> QED BY <2>2, <2>3
<1> QED BY <1>3, <1>4

-----------------------------------------------------------------------------
(* How much of a shard a rank keeps, and where. *)

(* Every layer is built, and cut as it should be. *)
LayersCut == conf \in Configs /\ DOMAIN tp = Layers /\ OnlyTheExpertsAreCutInFour

(* The rows that a rank keeps of a shard. *)
Size(m, s) == output_size(m, s) \div Over(m)
Height(m, k) == Size(m, Shards(m)[k])

(* The rows before those of the k-th shard. *)
Start(m, k) ==
  (IF k > 1 THEN Height(m, 1) ELSE 0) + (IF k > 2 THEN Height(m, 2) ELSE 0)
    + (IF k > 3 THEN Height(m, 3) ELSE 0) + (IF k > 4 THEN Height(m, 4) ELSE 0)
    + (IF k > 5 THEN Height(m, 5) ELSE 0) + (IF k > 6 THEN Height(m, 6) ELSE 0)

LEMMA LayerCut ==
  ASSUME LayersCut, NEW m \in Layers, NEW r \in World
  PROVE  tp[m][r].size = Over(m) /\ tp[m][r].rank = RankIn(m, r)
<1>1. tp[m] = IF InFours(m) THEN Fours ELSE Whole
  BY DEF LayersCut, OnlyTheExpertsAreCutInFour, InFours
<1> QED BY <1>1 DEF Over, RankIn, Fours, Whole

LEMMA SizesAre ==
  ASSUME LayersCut, NEW m \in Layers, NEW s
  PROVE  /\ Size(m, s) \in Nat \ {0} /\ output_size(m, s) = Over(m) * Size(m, s)
         /\ \A r \in World : shard_size(m, s, r) = Size(m, s)
<1>1. conf \in Configs /\ m \in AllLayers  BY LayersAre DEF LayersCut
<1>2. /\ output_size(m, s) \in Nat \ {0} /\ Multiple(output_size(m, s), Over(m))
  BY <1>1, CutsEvenly
<1>3. Over(m) \in Nat \ {0}  BY <1>1, ConfigIs DEF Over
<1>4. Size(m, s) \in Nat \ {0} /\ output_size(m, s) = Over(m) * Size(m, s)
  BY <1>2, <1>3, MultipleIs DEF Size
<1>5. ASSUME NEW r \in World
      PROVE  shard_size(m, s, r) = Size(m, s)
  BY LayerCut DEF shard_size, Size
<1> QED BY <1>4, <1>5

(* The total of the first numbers. *)
LEMMA FirstTotals ==
  ASSUME NEW k \in 1..7, NEW v, \A i \in 1..k - 1 : v[i] \in Nat, NEW f, Totals(f, v, 1..k - 1)
  PROVE  f[1..k - 1] = (IF k > 1 THEN v[1] ELSE 0) + (IF k > 2 THEN v[2] ELSE 0)
                         + (IF k > 3 THEN v[3] ELSE 0) + (IF k > 4 THEN v[4] ELSE 0)
                         + (IF k > 5 THEN v[5] ELSE 0) + (IF k > 6 THEN v[6] ELSE 0)
<1>1. ASSUME NEW j \in 1..6, j < k
      PROVE  f[1..j] = f[1..j - 1] + v[j] /\ f[1..j - 1] \in Nat /\ v[j] \in Nat
  <2>1. 1..j \in SUBSET (1..k - 1) /\ 1..j - 1 \in SUBSET (1..k - 1) /\ j \in 1..j
        /\ (1..j) \ {j} = 1..j - 1
    BY <1>1
  <2>2. f[1..j] = f[(1..j) \ {j}] + v[j]  BY <2>1 DEF Totals
  <2>3. f[1..j - 1] \in Nat  BY <2>1 DEF Totals
  <2>4. j \in 1..k - 1  BY <1>1
  <2> QED BY <2>1, <2>2, <2>3, <2>4
<1>2. f[1..0] = 0
  <2>1. 1..0 = {} /\ 1..0 \in SUBSET (1..k - 1)
    OBVIOUS
  <2> QED BY <2>1 DEF Totals
<1> DEFINE F(j) == f[1..j]
<1>3. F(0) = 0  BY <1>2
<1>4. \A j \in 1..6 : j < k => F(j) = F(j - 1) + v[j] /\ F(j - 1) \in Nat /\ v[j] \in Nat
  BY <1>1
<1> HIDE DEF F
<1>5. /\ 1 < k => F(1) = v[1] /\ v[1] \in Nat
      /\ 2 < k => F(2) = F(1) + v[2] /\ v[2] \in Nat
      /\ 3 < k => F(3) = F(2) + v[3] /\ v[3] \in Nat
      /\ 4 < k => F(4) = F(3) + v[4] /\ v[4] \in Nat
      /\ 5 < k => F(5) = F(4) + v[5] /\ v[5] \in Nat
      /\ 6 < k => F(6) = F(5) + v[6] /\ v[6] \in Nat
  BY <1>3, <1>4
<1>6. F(k - 1) = (IF k > 1 THEN v[1] ELSE 0) + (IF k > 2 THEN v[2] ELSE 0)
                         + (IF k > 3 THEN v[3] ELSE 0) + (IF k > 4 THEN v[4] ELSE 0)
                         + (IF k > 5 THEN v[5] ELSE 0) + (IF k > 6 THEN v[6] ELSE 0)
  <2>1. k = 1 \/ k = 2 \/ k = 3 \/ k = 4 \/ k = 5 \/ k = 6 \/ k = 7
    OBVIOUS
  <2>2. CASE k = 1
    BY <1>3, <2>2
  <2>3. CASE k = 2
    BY <1>5, <2>3
  <2>4. CASE k = 3
    BY <1>5, <2>4
  <2>5. CASE k = 4
    BY <1>5, <2>5
  <2>6. CASE k = 5
    BY <1>5, <2>6
  <2>7. CASE k = 6
    BY <1>5, <2>7
  <2>8. CASE k = 7
    BY <1>5, <2>8
  <2> QED BY <2>1, <2>2, <2>3, <2>4, <2>5, <2>6, <2>7, <2>8
<1> QED BY <1>6 DEF F

LEMMA OffsetIs ==
  ASSUME LayersCut, NEW m \in Layers, NEW r \in World, NEW k \in 1..7
  PROVE  offset(m, k, r) = Start(m, k)
<1> DEFINE one(t) == CHOOSE x \in t : TRUE
           S == 1..k - 1
           v == [i \in S |-> Height(m, i)]
           w(i) == shard_size(m, Shards(m)[i], r)
           g == [t \in SUBSET S |-> one(t)]
           IsSum(f) == f = [t \in SUBSET S |-> IF t = {} THEN 0 ELSE w(one(t)) + f[t \ {one(t)}]]
           f == CHOOSE f : IsSum(f)
<1>1. offset(m, k, r)
        = MapThenFoldSet(LAMBDA x, y : x + y, 0, LAMBDA i : w(i), LAMBDA s : CHOOSE x \in s : TRUE, S)
  BY DEF MapThenSumSet, offset
<1>2. MapThenFoldSet(LAMBDA x, y : x + y, 0, LAMBDA i : w(i), LAMBDA s : CHOOSE x \in s : TRUE, S) = f[S]
  BY Zenon DEF MapThenFoldSet
<1>3. Picks(g, S)  BY DEF Picks
<1>4. \A i \in S : v[i] = w(i) /\ v[i] \in Nat  BY SizesAre DEF Height
<1> HIDE DEF one, w, v
<1>5. \A h : IsSum(h) <=> Adding(h, v, S, g)  BY <1>3, <1>4 DEF Picks, Adding
<1>6. IsFiniteSet(S)  BY FS_Interval
<1>7. \E h : Adding(h, v, S, g)  BY <1>3, <1>6, SumsExist
<1> HIDE DEF IsSum
<1>8. Adding(f, v, S, g)  BY <1>5, <1>7
<1> HIDE DEF f, g
<1>9. Totals(f, v, S)  BY <1>3, <1>4, <1>6, <1>8, AddingTotals
<1>10. f[1..k - 1] = (IF k > 1 THEN v[1] ELSE 0) + (IF k > 2 THEN v[2] ELSE 0)
                         + (IF k > 3 THEN v[3] ELSE 0) + (IF k > 4 THEN v[4] ELSE 0)
                         + (IF k > 5 THEN v[5] ELSE 0) + (IF k > 6 THEN v[6] ELSE 0)
  BY <1>4, <1>9, FirstTotals
<1>11. /\ k > 1 => v[1] = Height(m, 1)
       /\ k > 2 => v[2] = Height(m, 2)
       /\ k > 3 => v[3] = Height(m, 3)
       /\ k > 4 => v[4] = Height(m, 4)
       /\ k > 5 => v[5] = Height(m, 5)
       /\ k > 6 => v[6] = Height(m, 6)
  BY DEF v
<1>12. f[S] = Start(m, k)  BY <1>10, <1>11 DEF Start
<1> QED BY <1>1, <1>2, <1>12

(* The shards lie one after the other. *)
LEMMA StartsFollow ==
  ASSUME LayersCut, NEW m \in Layers
  PROVE  /\ Start(m, 1) = 0
         /\ \A k \in 1..6 : Height(m, k) \in Nat \ {0} /\ Start(m, k + 1) = Start(m, k) + Height(m, k)
         /\ \A k \in 1..7 : Start(m, k) \in Nat
<1>1. \A k \in 1..6 : Height(m, k) \in Nat \ {0}  BY SizesAre DEF Height
<1>2. PICK a, b, c, d, e, g : /\ a = Height(m, 1) /\ b = Height(m, 2) /\ c = Height(m, 3)
                              /\ d = Height(m, 4) /\ e = Height(m, 5) /\ g = Height(m, 6)
                              /\ a \in Nat /\ b \in Nat /\ c \in Nat /\ d \in Nat /\ e \in Nat /\ g \in Nat
  BY <1>1
<1>3. /\ Start(m, 1) = 0 /\ Start(m, 2) = a /\ Start(m, 3) = a + b /\ Start(m, 4) = a + b + c
      /\ Start(m, 5) = a + b + c + d /\ Start(m, 6) = a + b + c + d + e
      /\ Start(m, 7) = a + b + c + d + e + g
  BY <1>2 DEF Start
<1>4. ASSUME NEW k \in 1..6
      PROVE  Start(m, k + 1) = Start(m, k) + Height(m, k)
  <2>1. k = 1 \/ k = 2 \/ k = 3 \/ k = 4 \/ k = 5 \/ k = 6
    OBVIOUS
  <2> QED BY <1>2, <1>3, <2>1
<1>5. ASSUME NEW k \in 1..7
      PROVE  Start(m, k) \in Nat
  <2>1. k = 1 \/ k = 2 \/ k = 3 \/ k = 4 \/ k = 5 \/ k = 6 \/ k = 7
    OBVIOUS
  <2> QED BY <1>2, <1>3, <2>1
<1> QED BY <1>1, <1>3, <1>4, <1>5

LEMMA StartsGrow ==
  ASSUME LayersCut, NEW m \in Layers, NEW k \in 1..7, NEW l \in 1..7, k < l
  PROVE  Start(m, k) + Height(m, k) <= Start(m, l)
<1>1. PICK a, b, c, d, e, g : /\ a = Height(m, 1) /\ b = Height(m, 2) /\ c = Height(m, 3)
                              /\ d = Height(m, 4) /\ e = Height(m, 5) /\ g = Height(m, 6)
                              /\ a \in Nat /\ b \in Nat /\ c \in Nat /\ d \in Nat /\ e \in Nat /\ g \in Nat
  BY StartsFollow
<1>2. /\ Start(m, 1) = 0 /\ Start(m, 2) = a /\ Start(m, 3) = a + b /\ Start(m, 4) = a + b + c
      /\ Start(m, 5) = a + b + c + d /\ Start(m, 6) = a + b + c + d + e
      /\ Start(m, 7) = a + b + c + d + e + g
  BY <1>1 DEF Start
<1>3. k = 1 \/ k = 2 \/ k = 3 \/ k = 4 \/ k = 5 \/ k = 6
  OBVIOUS
<1>4. l = 2 \/ l = 3 \/ l = 4 \/ l = 5 \/ l = 6 \/ l = 7
  OBVIOUS
<1> QED BY <1>1, <1>2, <1>3, <1>4

Spot(m, k, i) == IF m = "gate_up" /\ conf.interleave THEN 2 * (i - 1) + k ELSE Start(m, k) + i
Width(m) == Start(m, Len(Shards(m)) + 1)

LEMMA ShardCount ==
  ASSUME LayersCut, NEW m \in Layers
  PROVE  /\ Len(Shards(m)) \in 1..6 /\ DOMAIN Shards(m) = 1..Len(Shards(m)) /\ Width(m) \in Nat
         /\ Len(Shards(m)) + 1 \in 1..7
<1>1. m \in AllLayers  BY LayersAre
<1>2. Len(Shards(m)) \in {1, 2, 3, 6} /\ DOMAIN Shards(m) = 1..Len(Shards(m))
  BY <1>1, ShardsAre
<1>3. PICK n : n = Len(Shards(m)) /\ n \in {1, 2, 3, 6}  BY <1>2
<1>4. n \in 1..6 /\ n + 1 \in 1..7
  <2>1. n = 1 \/ n = 2 \/ n = 3 \/ n = 6  BY <1>3
  <2> HIDE <1>3
  <2> QED BY <2>1
<1>5. Width(m) = Start(m, n + 1)  BY <1>3 DEF Width
<1>6. Start(m, n + 1) \in Nat  BY <1>4, StartsFollow
<1> QED BY <1>2, <1>3, <1>4, <1>5, <1>6

LEMMA PlaceIs ==
  ASSUME LayersCut, NEW m \in Layers, NEW r \in World
  PROVE  /\ width(m, r) = Width(m)
         /\ \A k \in 1..Len(Shards(m)), i \in Nat : Place(m, k, i, r) = Spot(m, k, i)
<1>1. \A k \in 1..7 : offset(m, k, r) = Start(m, k)  BY OffsetIs
<1>2. width(m, r) = Width(m)  BY <1>1, ShardCount DEF width, Width
<1>3. ASSUME NEW k \in 1..Len(Shards(m)), NEW i \in Nat
      PROVE  Place(m, k, i, r) = Spot(m, k, i)
  <2>1. k \in 1..7  BY ShardCount
  <2> QED BY <1>1, <2>1 DEF Place, Spot
<1> QED BY <1>2, <1>3

(* Gate and up have as many rows. *)
LEMMA PairsAreEven ==
  ASSUME LayersCut, NEW m \in Layers, m \in {"gate_up", "w13"}
  PROVE  /\ Len(Shards(m)) = 2 /\ Height(m, 1) = Height(m, 2) /\ Width(m) = Height(m, 1) + Height(m, 1)
         /\ Height(m, 1) = conf.inter \div Over(m) /\ Height(m, 1) \in Nat \ {0}
         /\ Shards(m)[1] = "gate" /\ Shards(m)[2] = "up"
<1>1. Shards(m) = <<"gate", "up">>  BY DEF Shards
<1>2. Len(Shards(m)) = 2 /\ Shards(m)[1] = "gate" /\ Shards(m)[2] = "up"  BY <1>1
<1>3. output_size(m, "gate") = conf.inter /\ output_size(m, "up") = conf.inter
  BY DEF output_size, Total
<1>4. Height(m, 1) = conf.inter \div Over(m) /\ Height(m, 2) = conf.inter \div Over(m)
  BY <1>2, <1>3 DEF Height, Size
<1>5. Start(m, 1) = 0 /\ Start(m, 2) = Start(m, 1) + Height(m, 1) /\ Start(m, 3) = Start(m, 2) + Height(m, 2)
      /\ Height(m, 1) \in Nat \ {0}
  <2>1. 1 \in 1..6 /\ 2 \in 1..6 /\ 1 + 1 = 2 /\ 2 + 1 = 3
    OBVIOUS
  <2> QED BY <2>1, StartsFollow
<1>6. Width(m) = Start(m, 3)  BY <1>2 DEF Width
<1> QED BY <1>2, <1>4, <1>5, <1>6

(* Every row of a shard has a place, and no other row has it. *)
LEMMA SpotsDiffer ==
  ASSUME LayersCut, NEW m \in Layers,
         NEW k \in 1..Len(Shards(m)), NEW i \in 1..Height(m, k),
         NEW l \in 1..Len(Shards(m)), NEW j \in 1..Height(m, l)
  PROVE  Spot(m, k, i) \in 1..Width(m) /\ (Spot(m, k, i) = Spot(m, l, j) => k = l /\ i = j)
<1>1. k \in 1..6 /\ l \in 1..6 /\ k \in 1..7 /\ l \in 1..7  BY ShardCount
<1>2. i \in Nat \ {0} /\ j \in Nat \ {0} /\ i <= Height(m, k) /\ j <= Height(m, l)
      /\ Height(m, k) \in Nat /\ Height(m, l) \in Nat
  <2>1. Height(m, k) \in Nat /\ Height(m, l) \in Nat  BY <1>1, StartsFollow
  <2> QED BY <2>1
<1>3. CASE m = "gate_up" /\ conf.interleave
  <2>1. Spot(m, k, i) = 2 * (i - 1) + k /\ Spot(m, l, j) = 2 * (j - 1) + l  BY <1>3 DEF Spot
  <2>2. PICK h : h = Height(m, 1) /\ h \in Nat /\ Width(m) = h + h  BY <1>3, PairsAreEven
  <2>3. k \in 1..2 /\ l \in 1..2 /\ Height(m, k) = h /\ Height(m, l) = h
    <3>1. Len(Shards(m)) = 2 /\ Height(m, 1) = h /\ Height(m, 2) = h
      BY <1>3, <2>2, PairsAreEven
    <3>2. k \in 1..2 /\ l \in 1..2  BY <3>1
    <3>3. (k = 1 \/ k = 2) /\ (l = 1 \/ l = 2)  BY <3>2
    <3> QED BY <3>1, <3>2, <3>3
  <2>4. 2 * (i - 1) + k \in 1..(h + h) /\ (2 * (i - 1) + k = 2 * (j - 1) + l => k = l /\ i = j)
    <3>1. i \in 1..h /\ j \in 1..h  BY <1>2, <2>3
    <3>2. (k = 1 \/ k = 2) /\ (l = 1 \/ l = 2)  BY <2>3
    <3> QED BY <2>2, <3>1, <3>2
  <2> QED BY <2>1, <2>2, <2>4
<1>4. CASE ~ (m = "gate_up" /\ conf.interleave)
  <2>1. Spot(m, k, i) = Start(m, k) + i /\ Spot(m, l, j) = Start(m, l) + j  BY <1>4 DEF Spot
  <2>2. PICK a, b : a = Start(m, k) /\ b = Start(m, l) /\ a \in Nat /\ b \in Nat
    BY <1>1, StartsFollow
  <2>3. PICK p, q : p = Height(m, k) /\ q = Height(m, l) /\ p \in Nat /\ q \in Nat  BY <1>2
  <2>4. (k < l => a + p <= b) /\ (l < k => b + q <= a)  BY <1>1, <2>2, <2>3, StartsGrow
  <2>5. a + p <= Width(m)
    <3>1. Len(Shards(m)) + 1 \in 1..7 /\ k < Len(Shards(m)) + 1  BY ShardCount
    <3> QED BY <1>1, <2>2, <2>3, <3>1, StartsGrow DEF Width
  <2>6. Width(m) \in Nat  BY ShardCount
  <2>7. a + i \in 1..Width(m)
    <3>1. PICK W : W = Width(m) /\ W \in Nat /\ a + p <= W  BY <2>5, <2>6
    <3>2. i \in Nat \ {0} /\ i <= p /\ p \in Nat /\ a \in Nat  BY <1>2, <2>2, <2>3
    <3>3. a + i \in 1..W  BY <3>1, <3>2
    <3> QED BY <3>1, <3>3
  <2>8. a + i = b + j => k = l /\ i = j
    <3>1. k < l => a + i < b + j  BY <1>2, <2>2, <2>3, <2>4
    <3>2. l < k => b + j < a + i  BY <1>2, <2>2, <2>3, <2>4
    <3>3. k = l => a = b  BY <2>2
    <3>4. k < l \/ l < k \/ k = l  BY <1>1
    <3>5. k = l => (a + i = b + j => i = j)  BY <1>2, <2>2, <3>3
    <3>6. k < l \/ l < k => a + i # b + j  BY <1>2, <2>2, <3>1, <3>2
    <3> QED BY <3>4, <3>5, <3>6
  <2> QED BY <2>1, <2>2, <2>7, <2>8
<1> QED BY <1>3, <1>4

-----------------------------------------------------------------------------
(* What a rank keeps of a tensor. *)

(* The conversion undoes the tiling of the file, which for one value head to a *)
(* key head is no tiling. *)
Untiled(a, b, x, y) == x < a * b /\ y = (x % b) * a + x \div b

LEMMA TiledBack ==
  ASSUME NEW a \in Nat \ {0}, NEW b \in Nat \ {0}, NEW x \in Nat, NEW y, Untiled(a, b, x, y)
  PROVE  y \in Nat /\ y < a * b /\ (y % a) * b + y \div a = x
<1>0. x < a * b /\ y = (x % b) * a + x \div b  BY DEF Untiled
<1>1. PICK q : q = x \div b /\ q \in Nat  BY DivNat
<1>2. PICK c : c = x % b /\ c \in Nat /\ c < b
  <2>1. x \in Int
    OBVIOUS
  <2> QED BY <2>1, DivType
<1>3. x = b * q + c
  <2>1. x \in Int
    OBVIOUS
  <2>2. c = x - b * q  BY <1>1, <1>2, <2>1, DivMod
  <2>3. b * q \in Nat  BY <1>1
  <2> QED BY <1>2, <2>2, <2>3
<1>4. q < a
  <2>1. ~ (q >= a)
    <3> SUFFICES ASSUME q >= a PROVE FALSE
      OBVIOUS
    <3>1. b * a <= b * q
      <4>1. a \in Int /\ q \in Int /\ a <= q  BY <1>1
      <4> QED BY <4>1, TimesOrder
    <3>2. b * a = a * b /\ b * a \in Nat /\ b * q \in Nat  BY <1>1
    <3> QED BY <1>0, <1>2, <1>3, <3>1, <3>2
  <2> QED BY <1>1, <2>1
<1>5. y = a * c + q  BY <1>0, <1>1, <1>2
<1>6. y \div a = c
  <2>1. y \in Int /\ c \in Int /\ a * c <= y /\ y < a * c + a
    <3>1. a * c \in Nat  BY <1>2
    <3> QED BY <1>1, <1>2, <1>4, <1>5, <3>1
  <2> QED BY <2>1, DivUnique
<1>7. y % a = q
  <2>1. y \in Int
    <3>1. a * c \in Nat  BY <1>2
    <3> QED BY <1>1, <1>5, <3>1
  <2>2. y % a = y - a * c  BY <1>6, <2>1, DivMod
  <2>3. a * c \in Nat  BY <1>2
  <2> QED BY <1>1, <1>5, <2>2, <2>3
<1>8. y \in Nat /\ y < a * b
  <2>1. a * c + a <= a * b
    <3>1. c + 1 \in Int /\ b \in Int /\ c + 1 <= b  BY <1>2
    <3>2. a * (c + 1) <= a * b  BY <3>1, TimesOrder
    <3>3. a * (c + 1) = a * c + a  BY <1>2
    <3> QED BY <3>2, <3>3
  <2>2. a * c \in Nat /\ a * b \in Nat  BY <1>2
  <2> QED BY <1>1, <1>4, <1>5, <2>1, <2>2
<1>9. (y % a) * b + y \div a = x
  <2>1. (y % a) * b + y \div a = q * b + c  BY <1>6, <1>7
  <2>2. q * b = b * q  BY <1>1
  <2> QED BY <1>3, <2>1, <2>2
<1> QED BY <1>8, <1>9

LEMMA Cancel ==
  ASSUME NEW a \in Nat \ {0}, NEW b \in Nat, NEW c \in Nat, a * b = a * c
  PROVE  b = c
<1>1. b \in Int /\ c \in Int /\ a * b <= a * c /\ a * c <= a * b
  OBVIOUS
<1>2. b <= c /\ c <= b  BY <1>1, TimesOrder
<1> QED BY <1>2

(* The head that a tensor has at place j of a shard when it is cut. *)
FileHead(m, s, j) == IF conf.gguf /\ PerValueHead(m, s) THEN Tiled(j) ELSE j
HeadIn(m, s, j) ==
  IF conf.gguf /\ Recognised(m, s) THEN FileHead(m, s, HeadInverse(j)) ELSE FileHead(m, s, j)

(* What the conversions and the tiling count with. *)
LEMMA HeadCounts ==
  ASSUME conf \in Configs
  PROVE  /\ GgufKeys \in Nat \ {0} /\ GgufGroup \in Nat \ {0} /\ GgufHeads = GgufKeys * GgufGroup
         /\ conf.keys \in Nat \ {0} /\ PerKey \in Nat \ {0} /\ conf.values = conf.keys * PerKey
         /\ 2 * conf.keys + conf.values = 2 * GgufKeys + GgufHeads => conf.values = GgufHeads
<1>1. /\ GgufHeads \in Nat \ {0} /\ GgufGroup \in Nat \ {0} /\ GgufHeads % GgufGroup = 0
      /\ 2 * conf.keys + conf.values = 2 * GgufKeys + GgufHeads => conf.values = GgufHeads
  BY ShardAssumption DEF GgufKeys
<1>2. PICK x, y : x = conf.values /\ y = conf.keys  OBVIOUS
<1>3. Multiple(x, y) /\ x \in Nat \ {0} /\ y \in Nat \ {0}  BY <1>2, ConfigIs
<1>4. x \div y \in Nat \ {0} /\ x = y * (x \div y)  BY <1>3, MultipleIs
<1>5. GgufKeys \in Nat \ {0} /\ GgufHeads = GgufGroup * GgufKeys
  BY <1>1, MultipleIs DEF GgufKeys
<1> QED BY <1>1, <1>2, <1>3, <1>4, <1>5 DEF PerKey

LEMMA RecognisedIs ==
  ASSUME conf \in Configs, NEW m, NEW s, Recognised(m, s)
  PROVE  conf.values = GgufHeads /\ Total(m, s) = GgufHeads /\ PerValueHead(m, s)
<1>1. PerValueHead(m, s) /\ conf.values = GgufHeads  BY HeadCounts DEF Recognised
<1>2. Total(m, s) = conf.values  BY <1>1 DEF PerValueHead, Total
<1> QED BY <1>1, <1>2

LEMMA HeadNat ==
  ASSUME conf \in Configs, NEW m, NEW s, NEW j \in Nat
  PROVE  HeadIn(m, s, j) \in Nat
<1>1. ASSUME NEW x \in Nat, NEW a \in Nat \ {0}, NEW b \in Nat \ {0}
      PROVE  (x % a) * b + x \div a \in Nat
  <2>1. x \in Int /\ x % a \in Nat /\ x \div a \in Nat  BY DivType, DivNat
  <2>2. PICK y, z : y = x % a /\ z = x \div a /\ y \in Nat /\ z \in Nat  BY <2>1
  <2>3. y * b + z \in Nat  BY <2>2
  <2> QED BY <2>2, <2>3
<1>2. \A x \in Nat : Tiled(x) \in Nat  BY <1>1, HeadCounts DEF Tiled
<1>3. \A x \in Nat : FileHead(m, s, x) \in Nat  BY <1>2 DEF FileHead
<1>4. HeadInverse(j) \in Nat  BY <1>1, HeadCounts DEF HeadInverse
<1> QED BY <1>3, <1>4 DEF HeadIn

LEMMA ConvertedIs ==
  ASSUME LayersCut, NEW m \in Layers, NEW s
  PROVE  Converted(m, s) = [i \in 1..Total(m, s) |-> <<s, HeadIn(m, s, i - 1)>>]
<1>1. conf \in Configs  BY DEF LayersCut
<1>2. PICK n : n = Total(m, s) /\ n \in Nat
  <2>1. m \in AllLayers  BY LayersAre
  <2> QED BY <1>1, <2>1, CutsEvenly
<1>3. PICK given : given = InFile(m, s)  OBVIOUS
<1>4. given = [i \in 1..n |-> <<s, FileHead(m, s, i - 1)>>]
  BY <1>2, <1>3 DEF InFile, FileHead
<1>5. CASE ~ (conf.gguf /\ Recognised(m, s))
  <2>1. Converted(m, s) = given  BY <1>3, <1>5 DEF Converted
  <2>2. \A j : HeadIn(m, s, j) = FileHead(m, s, j)  BY <1>5 DEF HeadIn
  <2> QED BY <1>2, <1>4, <2>1, <2>2
<1>6. CASE conf.gguf /\ Recognised(m, s)
  <2>1. Converted(m, s) = [i \in DOMAIN given |-> given[HeadInverse(i - 1) + 1]]
    BY <1>3, <1>6 DEF Converted
  <2>2. DOMAIN given = 1..n  BY <1>4
  <2>3. ASSUME NEW i \in 1..n
        PROVE  given[HeadInverse(i - 1) + 1] = <<s, HeadIn(m, s, i - 1)>>
    <3>1. PICK a, b, x : /\ a = GgufKeys /\ b = GgufGroup /\ a \in Nat \ {0} /\ b \in Nat \ {0}
                         /\ n = a * b /\ x = i - 1 /\ x \in Nat /\ x < a * b
      BY <1>1, <1>2, <1>6, HeadCounts, RecognisedIs
    <3>2. PICK y : y = (x % b) * a + x \div b  OBVIOUS
    <3>3. y \in Nat /\ y < a * b
      <4>1. Untiled(a, b, x, y)  BY <3>1, <3>2 DEF Untiled
      <4> QED BY <3>1, <4>1, TiledBack
    <3>4. HeadInverse(i - 1) = y  BY <3>1, <3>2 DEF HeadInverse
    <3>5. y + 1 \in 1..n /\ (y + 1) - 1 = y  BY <1>2, <3>1, <3>3
    <3>6. given[y + 1] = <<s, FileHead(m, s, y)>>  BY <1>4, <3>5
    <3>7. HeadIn(m, s, i - 1) = FileHead(m, s, y)  BY <1>6, <3>4 DEF HeadIn
    <3> QED BY <3>4, <3>6, <3>7
  <2> QED BY <1>2, <2>1, <2>2, <2>3
<1> QED BY <1>5, <1>6

(* The heads are in order when a tensor is cut, where no value heads are tiled, *)
(* and in the files the conversions are right for. *)
LEMMA HeadsInOrder ==
  ASSUME conf \in Configs, NEW m, NEW s, NEW j \in Nat, j < Total(m, s),
         Convertible \/ ~ PerValueHead(m, s)
  PROVE  HeadIn(m, s, j) = j
<1>1. PICK a, b, v : /\ a = conf.keys /\ v = conf.values /\ b = PerKey /\ a \in Nat \ {0} /\ b \in Nat \ {0}
                     /\ v = a * b
  BY HeadCounts
<1>2. CASE ~ (conf.gguf /\ PerValueHead(m, s))
  BY <1>2 DEF HeadIn, FileHead, Recognised
<1>3. CASE conf.gguf /\ PerValueHead(m, s)
  <2>1. j < v  BY <1>1, <1>3 DEF PerValueHead, Total
  <2>2. CASE conf.keys = GgufKeys /\ conf.values = GgufHeads /\ ~ conf.quant
    <3>1. Recognised(m, s)  BY <1>3, <2>2 DEF Recognised
    <3>2. b = GgufGroup
      <4>1. a * b = a * GgufGroup /\ GgufGroup \in Nat \ {0}  BY <1>1, <2>2, HeadCounts
      <4> QED BY <1>1, <4>1, Cancel
    <3>3. PICK y : y = (j % b) * a + j \div b  OBVIOUS
    <3>4. y \in Nat /\ (y % a) * b + y \div a = j
      <4>1. Untiled(a, b, j, y)  BY <1>1, <2>1, <3>3 DEF Untiled
      <4> QED BY <1>1, <4>1, TiledBack
    <3>5. HeadInverse(j) = y  BY <1>1, <2>2, <3>2, <3>3 DEF HeadInverse
    <3>6. FileHead(m, s, y) = j  BY <1>1, <1>3, <3>4 DEF FileHead, Tiled
    <3> QED BY <1>3, <3>1, <3>5, <3>6 DEF HeadIn
  <2>3. CASE conf.keys = conf.values /\ conf.values # GgufHeads
    <3>1. ~ Recognised(m, s)  BY <2>3, RecognisedIs
    <3>2. b = 1
      <4>1. CASE b >= 2
        <5>1. a * 2 <= a * b
          <6>1. 2 \in Int /\ b \in Int /\ 2 <= b  BY <1>1, <4>1
          <6> QED BY <1>1, <6>1, TimesOrder
        <5>2. a * b = a  BY <1>1, <2>3
        <5> QED BY <1>1, <5>1, <5>2
      <4> QED BY <1>1, <4>1
    <3>3. j \div a = 0
      <4>1. j \in Int /\ 0 \in Int /\ a * 0 <= j /\ j < a * 0 + a  BY <1>1, <2>1, <2>3
      <4> QED BY <1>1, <4>1, DivUnique
    <3>4. j % a = j
      <4>1. j \in Int
        OBVIOUS
      <4>2. j % a = j - a * (j \div a)  BY <1>1, <4>1, DivMod
      <4> QED BY <1>1, <3>3, <4>2
    <3>5. Tiled(j) = j * b + 0  BY <1>1, <3>3, <3>4 DEF Tiled
    <3>6. Tiled(j) = j  BY <3>2, <3>5
    <3> QED BY <1>3, <3>1, <3>6 DEF HeadIn, FileHead
  <2> QED BY <1>3, <2>2, <2>3 DEF Convertible
<1> QED BY <1>2, <1>3

(* The place of a rank among those that keep different parts of a shard, and *)
(* the first head it keeps. *)
Turn(m, s, r) == IF m = "qkv" /\ s # "Q" THEN RankIn(m, r) \div Replicas ELSE RankIn(m, r)
First(m, s, r) == Turn(m, s, r) * Size(m, s)

LEMMA TurnIs ==
  ASSUME LayersCut, NEW m \in Layers, NEW s, NEW r \in World
  PROVE  /\ shard_rank(m, s, r) = Turn(m, s, r) /\ Turn(m, s, r) \in Nat /\ First(m, s, r) \in Nat
         /\ First(m, s, r) + Size(m, s) <= Total(m, s)
<1>1. conf \in Configs  BY DEF LayersCut
<1>2. shard_rank(m, s, r) = Turn(m, s, r)  BY LayerCut DEF shard_rank, Turn
<1>3. PICK n, w, p, t : /\ n = Size(m, s) /\ w = Over(m) /\ p = RankIn(m, r) /\ t = Total(m, s)
                        /\ n \in Nat \ {0} /\ w \in Nat \ {0} /\ p \in Nat /\ p < w
                        /\ output_size(m, s) = w * n
  BY <1>1, SizesAre, OverIs
<1>4. CASE ~ (m = "qkv" /\ s # "Q")
  <2>1. Turn(m, s, r) = p /\ t = w * n  BY <1>3, <1>4 DEF Turn, output_size
  <2>2. p * n + n <= w * n /\ p * n \in Nat
    <3>1. p + 1 \in Int /\ w \in Int /\ p + 1 <= w  BY <1>3
    <3>2. n * (p + 1) <= n * w  BY <1>3, <3>1, TimesOrder
    <3>3. n * (p + 1) = p * n + n /\ n * w = w * n /\ p * n \in Nat  BY <1>3
    <3> QED BY <3>2, <3>3
  <2> QED BY <1>2, <1>3, <2>1, <2>2 DEF First
<1>5. CASE m = "qkv" /\ s # "Q"
  <2>1. PICK v, c : v = conf.kv /\ c = Replicas /\ v \in Nat \ {0} /\ c \in Nat \ {0} /\ t = v
                    /\ w = conf.tp
    <3>1. Total(m, s) = conf.kv  BY <1>5 DEF Total
    <3>2. Over(m) = conf.tp  BY <1>5 DEF Over, InFours
    <3> QED BY <1>1, <1>3, <3>1, <3>2, ConfigIs, ReplicasAre
  <2>2. w * n = v * c  BY <1>3, <1>5, <2>1 DEF output_size
  <2>3. Turn(m, s, r) = p \div c /\ p \div c \in Nat
    <3>1. p \div c \in Nat  BY <1>3, <2>1, DivNat
    <3> QED BY <1>3, <1>5, <2>1, <3>1 DEF Turn
  <2>4. (p \div c) * n + n <= v /\ (p \div c) * n \in Nat
    <3>1. CASE c = 1
      <4>1. p \div c = p
        <5>1. p \in Int /\ 1 * p <= p /\ p < 1 * p + 1  BY <1>3
        <5> QED BY <2>1, <3>1, <5>1, DivUnique
      <4>2. w * n = v  BY <2>1, <2>2, <3>1
      <4>3. n * (p + 1) <= n * w
        <5>1. p + 1 \in Int /\ w \in Int /\ p + 1 <= w  BY <1>3
        <5> QED BY <1>3, <5>1, TimesOrder
      <4>4. n * (p + 1) = p * n + n /\ n * w = w * n /\ p * n \in Nat  BY <1>3
      <4> QED BY <4>1, <4>2, <4>3, <4>4
    <3>2. CASE w = v * c
      <4>1. n = 1
        <5>1. CASE n >= 2
          <6>1. w * 2 <= w * n
            <7>1. 2 \in Int /\ n \in Int /\ 2 <= n  BY <1>3, <5>1
            <7> QED BY <1>3, <7>1, TimesOrder
          <6>2. w * n = w  BY <2>2, <3>2
          <6> QED BY <1>3, <6>1, <6>2
        <5> QED BY <1>3, <5>1
      <4>2. p \div c < v
        <5>1. p < c * v /\ p \in Int /\ v \in Int  BY <1>3, <2>1, <3>2
        <5> QED BY <2>1, <5>1, DivLess
      <4>3. PICK q : q = p \div c /\ q \in Nat  BY <2>3
      <4>4. q * n = q  BY <4>1, <4>3
      <4> QED BY <2>1, <4>1, <4>2, <4>3, <4>4
    <3> QED BY <1>1, <2>1, <3>1, <3>2, ReplicasAre
  <2> QED BY <1>2, <1>3, <2>1, <2>3, <2>4 DEF First
<1> QED BY <1>4, <1>5

(* So a rank keeps of each shard the places that are its own, and the heads *)
(* that are there. *)
ShardRows(m, k, r) ==
  [i \in 1..Height(m, k) |-> <<Shards(m)[k], HeadIn(m, Shards(m)[k], First(m, Shards(m)[k], r) + i - 1)>>]

LEMMA KeptPartIs ==
  ASSUME LayersCut, NEW m \in Layers, NEW k \in 1..Len(Shards(m)), NEW r \in World
  PROVE  Part(m, Shards(m)[k], Converted(m, Shards(m)[k]), r) = ShardRows(m, k, r)
<1>1. PICK s : s = Shards(m)[k]  OBVIOUS
<1>2. PICK n, f, t : /\ n = Size(m, s) /\ f = First(m, s, r) /\ t = Total(m, s)
                     /\ n \in Nat \ {0} /\ f \in Nat /\ f + n <= t
  BY SizesAre, TurnIs
<1>3. shard_size(m, s, r) = n /\ shard_rank(m, s, r) * n = f
  BY <1>2, SizesAre, TurnIs DEF First
<1>4. t \in Nat
  <2>1. m \in AllLayers /\ conf \in Configs  BY LayersAre DEF LayersCut
  <2> QED BY <1>2, <2>1, CutsEvenly
<1>17. n \in Nat \ {0} /\ f \in Nat /\ t \in Nat /\ f + n <= t  BY <1>2, <1>4
<1>5. PICK w : w = Converted(m, s)  OBVIOUS
<1>6. w = [i \in 1..t |-> <<s, HeadIn(m, s, i - 1)>>]  BY <1>2, <1>5, ConvertedIs
<1>7. Part(m, s, w, r) = SubSeq(w, f + 1, f + n)  BY <1>3 DEF Part
<1>8. PICK X : X = {w[i] : i \in 1..t}  OBVIOUS
<1>10. PICK u : u = SubSeq(w, f + 1, f + n)  OBVIOUS
<1>11. u \in Seq(X) /\ Len(u) = n /\ \A i \in 1..n : u[i] = w[f + 1 + i - 1]
  <2>1. PICK a, b : a = f + 1 /\ b = f + n /\ a \in Int /\ b \in Int /\ a <= b /\ b - a + 1 = n
    BY <1>2
  <2>2. \A i \in a..b : i \in 1..t  BY <1>17, <2>1
  <2>3. \A i \in a..b : w[i] \in X  BY <1>8, <2>2
  <2>4. u = SubSeq(w, a, b)  BY <1>10, <2>1
  <2>5. u \in Seq(X) /\ Len(u) = n /\ \A i \in 1..n : u[i] = w[a + i - 1]
    <3>1. CutOut(X, w, a, b, n, u)  BY <2>1, <2>3, <2>4, SubSeqIs
    <3> QED BY <3>1, Zenon DEF CutOut
  <2> QED BY <2>1, <2>5
<1>12. DOMAIN u = 1..n  BY <1>11
<1>13. \A i \in 1..n : u[i] = <<s, HeadIn(m, s, f + i - 1)>>
  <2> SUFFICES ASSUME NEW i \in 1..n PROVE u[i] = <<s, HeadIn(m, s, f + i - 1)>>
    OBVIOUS
  <2>1. PICK j : j = f + 1 + i - 1  OBVIOUS
  <2>2. j \in 1..t /\ j - 1 = f + i - 1  BY <1>17, <2>1
  <2>3. u[i] = w[j]  BY <1>11, <2>1
  <2>4. w[j] = <<s, HeadIn(m, s, j - 1)>>  BY <1>6, <2>2
  <2> QED BY <2>2, <2>3, <2>4
<1>14. ShardRows(m, k, r) = [i \in 1..n |-> <<s, HeadIn(m, s, f + i - 1)>>]
  BY <1>1, <1>2 DEF ShardRows, Height
<1>15. u = [i \in DOMAIN u |-> u[i]]  BY <1>11
<1>16. u = [i \in 1..n |-> <<s, HeadIn(m, s, f + i - 1)>>]  BY <1>12, <1>13, <1>15
<1> QED BY <1>1, <1>5, <1>7, <1>10, <1>14, <1>16

LEMMA RowsInOrder ==
  ASSUME LayersCut, NEW m \in Layers, NEW k \in 1..Len(Shards(m)), NEW r \in World,
         Convertible \/ ~ PerValueHead(m, Shards(m)[k])
  PROVE  ShardRows(m, k, r) = [i \in 1..Height(m, k) |-> <<Shards(m)[k], First(m, Shards(m)[k], r) + i - 1>>]
<1>1. PICK s, n, f, t : /\ s = Shards(m)[k] /\ n = Height(m, k) /\ f = First(m, s, r) /\ t = Total(m, s)
                        /\ n \in Nat \ {0} /\ f \in Nat /\ f + n <= t
  BY SizesAre, TurnIs DEF Height
<1>2. t \in Nat /\ conf \in Configs
  <2>1. m \in AllLayers /\ conf \in Configs  BY LayersAre DEF LayersCut
  <2> QED BY <1>1, <2>1, CutsEvenly
<1>3. ASSUME NEW i \in 1..n
      PROVE  HeadIn(m, s, f + i - 1) = f + i - 1
  <2>1. PICK j : j = f + i - 1  OBVIOUS
  <2>2. j \in Nat /\ j < t
    <3>1. n \in Nat /\ f \in Nat /\ f + n <= t /\ t \in Nat  BY <1>1, <1>2
    <3> QED BY <2>1, <3>1
  <2> QED BY <1>1, <1>2, <2>1, <2>2, HeadsInOrder
<1> QED BY <1>1, <1>3 DEF ShardRows

-----------------------------------------------------------------------------
(* What a parameter holds. *)

StoredShard(p, m, k, r) == \A i \in 1..Height(m, k) : p[Spot(m, k, i)] = ShardRows(m, k, r)[i]
Record(m, k, r) == [shard |-> k, rows |-> ShardRows(m, k, r)]

(* The parameter p of layer m on rank r holds the shards K. *)
HasShards(p, m, K, r) ==
  IF Contained(m)
    THEN Lists(p, {Record(m, k, r) : k \in K})
    ELSE /\ DOMAIN p = 1..Width(m) /\ p = [j \in DOMAIN p |-> p[j]]
         /\ \A k \in K : StoredShard(p, m, k, r)

LEMMA OneListed == ASSUME NEW x PROVE Lists(<<x>>, {x})
<1>1. <<x>> \in [1..1 -> {x}] /\ 1 \in Nat /\ <<x>>[1] = x
  OBVIOUS
<1>2. \A i, j \in 1..1 : i = j
  OBVIOUS
<1>3. \A y \in {x} : <<x>>[1] = y /\ 1 \in 1..1
  OBVIOUS
<1> QED BY <1>1, <1>2, <1>3 DEF Lists

LEMMA ListsAppend ==
  ASSUME NEW u, NEW X, Lists(u, X), NEW x, x \notin X
  PROVE  Lists(Append(u, x), X \cup {x})
<1>1. X \cap {x} = {}
  OBVIOUS
<1>2. Lists(u \o <<x>>, X \cup {x})  BY <1>1, OneListed, ListsJoin
<1>3. Append(u, x) = u \o <<x>>
  <2>1. PICK n \in Nat : u \in [1..n -> X]  BY DEF Lists
  <2>2. u \in Seq(X \cup {x}) /\ <<x>> \in Seq(X \cup {x})
    <3>1. u \in [1..n -> X \cup {x}]  BY <2>1
    <3>2. u \in Seq(X \cup {x})  BY <3>1, FunctionSeq
    <3> QED BY <3>2
  <2> QED BY <2>2
<1> QED BY <1>2, <1>3

LEMMA StoreIs ==
  ASSUME LayersCut, NEW m \in Layers, NEW k \in 1..Len(Shards(m)), NEW r \in World,
         NEW K \in SUBSET (1..Len(Shards(m))), k \notin K, NEW p, HasShards(p, m, K, r)
  PROVE  HasShards(Store(m, k, ShardRows(m, k, r), p, r), m, K \cup {k}, r)
<1>1. CASE Contained(m)
  <2>1. Lists(p, {Record(m, l, r) : l \in K})  BY <1>1 DEF HasShards
  <2>2. PICK X, x : X = {Record(m, l, r) : l \in K} /\ x = Record(m, k, r)  OBVIOUS
  <2>3. x \notin X
    <3>1. \A l \in K : Record(m, l, r).shard = l  BY DEF Record
    <3>2. Record(m, k, r).shard = k  BY DEF Record
    <3> QED BY <2>2, <3>1, <3>2
  <2>4. Lists(Append(p, x), X \cup {x})  BY <2>1, <2>2, <2>3, ListsAppend
  <2>5. X \cup {x} = {Record(m, l, r) : l \in K \cup {k}}  BY <2>2
  <2>6. Store(m, k, ShardRows(m, k, r), p, r) = Append(p, x)
    BY <1>1, <2>2 DEF Store, Record
  <2> QED BY <1>1, <2>4, <2>5, <2>6 DEF HasShards
<1>2. CASE ~ Contained(m)
  <2>1. DOMAIN p = 1..Width(m) /\ \A l \in K : StoredShard(p, m, l, r)
    BY <1>2 DEF HasShards
  <2>2. PICK part : part = ShardRows(m, k, r)  OBVIOUS
  <2>3. DOMAIN part = 1..Height(m, k)  BY <2>2 DEF ShardRows
  <2> DEFINE lands(j) == {i \in DOMAIN part : Place(m, k, i, r) = j}
             q == [j \in DOMAIN p |-> IF lands(j) = {} THEN p[j] ELSE part[CHOOSE i \in lands(j) : TRUE]]
  <2>4. Store(m, k, part, p, r) = q  BY <1>2 DEF Store
  <2>5. \A i \in 1..Height(m, k) : i \in Nat
    <3>1. Height(m, k) \in Nat
      <4>1. k \in 1..6  BY ShardCount
      <4> QED BY <4>1, StartsFollow
    <3> QED BY <3>1
  <2>6. \A j : lands(j) = {i \in 1..Height(m, k) : Spot(m, k, i) = j}
    BY <2>3, <2>5, PlaceIs
  <2>7. StoredShard(q, m, k, r)
    <3> SUFFICES ASSUME NEW i \in 1..Height(m, k) PROVE q[Spot(m, k, i)] = part[i]
      BY <2>2 DEF StoredShard
    <3>1. PICK j : j = Spot(m, k, i)  OBVIOUS
    <3>2. j \in 1..Width(m)  BY <3>1, SpotsDiffer
    <3>3. lands(j) = {i}
      <4>1. \A h \in 1..Height(m, k) : Spot(m, k, h) = j => h = i  BY <3>1, SpotsDiffer
      <4> QED BY <2>6, <3>1, <4>1
    <3>4. q[j] = IF lands(j) = {} THEN p[j] ELSE part[CHOOSE h \in lands(j) : TRUE]
      BY <2>1, <3>2
    <3>5. (CHOOSE h \in lands(j) : TRUE) = i /\ lands(j) # {}  BY <3>3
    <3> HIDE DEF q, lands
    <3> QED BY <3>1, <3>4, <3>5
  <2>8. ASSUME NEW l \in K
        PROVE  StoredShard(q, m, l, r)
    <3> SUFFICES ASSUME NEW i \in 1..Height(m, l) PROVE q[Spot(m, l, i)] = ShardRows(m, l, r)[i]
      BY DEF StoredShard
    <3>1. PICK j : j = Spot(m, l, i)  OBVIOUS
    <3>2. l \in 1..Len(Shards(m)) /\ l # k
      OBVIOUS
    <3>3. j \in 1..Width(m)  BY <3>1, <3>2, SpotsDiffer
    <3>4. lands(j) = {}
      <4>1. \A h \in 1..Height(m, k) : Spot(m, k, h) # j  BY <3>1, <3>2, SpotsDiffer
      <4> QED BY <2>6, <4>1
    <3>5. q[j] = p[j]  BY <2>1, <3>3, <3>4
    <3>6. p[j] = ShardRows(m, l, r)[i]  BY <2>1, <3>1 DEF StoredShard
    <3> HIDE DEF q, lands
    <3> QED BY <3>1, <3>5, <3>6
  <2>9. DOMAIN q = 1..Width(m) /\ q = [j \in DOMAIN q |-> q[j]]  BY <2>1
  <2> HIDE DEF q
  <2>10. HasShards(q, m, K \cup {k}, r)  BY <1>2, <2>7, <2>8, <2>9 DEF HasShards
  <2> QED BY <2>2, <2>4, <2>10
<1> QED BY <1>1, <1>2

(* The tensors of a layer. *)
ShardsOf(m, t) == {k \in 1..Len(Shards(m)) : \E i \in DOMAIN t : t[i] = Shards(m)[k]}

LEMMA TensorsAre ==
  ASSUME NEW m \in AllLayers
  PROVE  /\ \A t \in Tensors(m) :
              /\ Len(t) \in {1, 3} /\ DOMAIN t = 1..Len(t)
              /\ \A i, j \in DOMAIN t : t[i] = t[j] => i = j
              /\ \A i \in DOMAIN t : \E k \in 1..Len(Shards(m)) : Shards(m)[k] = t[i]
         /\ \A k \in 1..Len(Shards(m)) : \E t \in Tensors(m) : k \in ShardsOf(m, t)
         /\ \A t, u \in Tensors(m) : t # u => ShardsOf(m, t) \cap ShardsOf(m, u) = {}
<1>1. CASE m = "in_proj"
  <2>1. PICK u : u = Shards(m) /\ u = <<"q", "k", "v", "z", "b", "a">>  BY <1>1 DEF Shards
  <2>2. PICK a, b, c, d : a = <<"q", "k", "v">> /\ b = <<"z">> /\ c = <<"b">> /\ d = <<"a">>  OBVIOUS
  <2>3. Tensors(m) = {a, b, c, d}  BY <1>1, <2>2 DEF Tensors
  <2>4. /\ Len(u) = 6 /\ u[1] = "q" /\ u[2] = "k" /\ u[3] = "v" /\ u[4] = "z" /\ u[5] = "b" /\ u[6] = "a"
        /\ Len(a) = 3 /\ DOMAIN a = 1..3 /\ a[1] = "q" /\ a[2] = "k" /\ a[3] = "v"
        /\ Len(b) = 1 /\ DOMAIN b = 1..1 /\ b[1] = "z"
        /\ Len(c) = 1 /\ DOMAIN c = 1..1 /\ c[1] = "b"
        /\ Len(d) = 1 /\ DOMAIN d = 1..1 /\ d[1] = "a"
    BY <2>1, <2>2
  <2>5. \A i \in 1..3 : i = 1 \/ i = 2 \/ i = 3
    OBVIOUS
  <2>6. \A i \in 1..1 : i = 1
    OBVIOUS
  <2>7. 1 \in 1..1 /\ 1 \in 1..3 /\ 2 \in 1..3 /\ 3 \in 1..3 /\ 1 \in 1..6 /\ 2 \in 1..6 /\ 3 \in 1..6
        /\ 4 \in 1..6 /\ 5 \in 1..6 /\ 6 \in 1..6
    OBVIOUS
  <2>8. \A k \in 1..6 : k = 1 \/ k = 2 \/ k = 3 \/ k = 4 \/ k = 5 \/ k = 6
    OBVIOUS
  <2>9. /\ ShardsOf(m, a) = {1, 2, 3} /\ ShardsOf(m, b) = {4} /\ ShardsOf(m, c) = {5} /\ ShardsOf(m, d) = {6}
    <3>1. ShardsOf(m, a) = {1, 2, 3}  BY <2>1, <2>4, <2>5, <2>7, <2>8 DEF ShardsOf
    <3>2. ShardsOf(m, b) = {4}  BY <2>1, <2>4, <2>6, <2>7, <2>8 DEF ShardsOf
    <3>3. ShardsOf(m, c) = {5}  BY <2>1, <2>4, <2>6, <2>7, <2>8 DEF ShardsOf
    <3>4. ShardsOf(m, d) = {6}  BY <2>1, <2>4, <2>6, <2>7, <2>8 DEF ShardsOf
    <3> QED BY <3>1, <3>2, <3>3, <3>4
  <2>10. \A t \in {a, b, c, d} :
              /\ Len(t) \in {1, 3} /\ DOMAIN t = 1..Len(t)
              /\ \A i, j \in DOMAIN t : t[i] = t[j] => i = j
    BY <2>4, <2>5, <2>6
  <2>11. \A t \in {a, b, c, d} : \A i \in DOMAIN t : \E k \in 1..6 : u[k] = t[i]
    BY <2>4, <2>5, <2>6, <2>7
  <2>12. \A k \in 1..6 : \E t \in {a, b, c, d} : k \in ShardsOf(m, t)  BY <2>8, <2>9
  <2>13. \A t, w \in {a, b, c, d} : t # w => ShardsOf(m, t) \cap ShardsOf(m, w) = {}
    BY <2>9
  <2> QED BY <2>1, <2>3, <2>4, <2>10, <2>11, <2>12, <2>13
<1>2. CASE m = "conv1d"
  <2>1. PICK u : u = Shards(m) /\ u = <<"q", "k", "v">> /\ Tensors(m) = {u}
    BY <1>2 DEF Shards, Tensors
  <2>2. Len(u) = 3 /\ DOMAIN u = 1..3 /\ \A i, j \in 1..3 : u[i] = u[j] => i = j  BY <2>1
  <2>3. ShardsOf(m, u) = 1..3  BY <2>1, <2>2 DEF ShardsOf
  <2> QED BY <2>1, <2>2, <2>3
<1>3. CASE m \notin {"in_proj", "conv1d"}
  <2>1. PICK u, n : u = Shards(m) /\ n = Len(u) /\ DOMAIN u = 1..n
                    /\ \A i, j \in 1..n : u[i] = u[j] => i = j
    BY ShardsAre
  <2>2. Tensors(m) = {<<s>> : s \in ToSet(u)}  BY <1>3, <2>1 DEF Tensors
  <2>3. Tensors(m) = {<<u[k]>> : k \in 1..n}  BY <2>1, <2>2 DEF ToSet
  <2>4. \A k \in 1..n : Len(<<u[k]>>) = 1 /\ DOMAIN <<u[k]>> = 1..1 /\ <<u[k]>>[1] = u[k]
    OBVIOUS
  <2>5. \A i \in 1..1 : i = 1
    OBVIOUS
  <2>6. \A k \in 1..n : ShardsOf(m, <<u[k]>>) = {k}
    <3> SUFFICES ASSUME NEW k \in 1..n PROVE ShardsOf(m, <<u[k]>>) = {k}
      OBVIOUS
    <3>1. PICK t : t = <<u[k]>> /\ DOMAIN t = 1..1 /\ t[1] = u[k]  BY <2>4
    <3>2. \A l \in 1..n : (\E i \in DOMAIN t : t[i] = u[l]) <=> l = k  BY <2>1, <2>5, <3>1
    <3> QED BY <2>1, <3>1, <3>2 DEF ShardsOf
  <2>7. ASSUME NEW t \in Tensors(m)
        PROVE  /\ Len(t) \in {1, 3} /\ DOMAIN t = 1..Len(t)
               /\ \A i, j \in DOMAIN t : t[i] = t[j] => i = j
               /\ \A i \in DOMAIN t : \E k \in 1..n : u[k] = t[i]
    <3>1. PICK k \in 1..n : t = <<u[k]>>  BY <2>3
    <3>2. Len(t) = 1 /\ DOMAIN t = 1..1 /\ t[1] = u[k]  BY <2>4, <3>1
    <3> QED BY <2>5, <3>2
  <2>8. \A k \in 1..n : \E t \in Tensors(m) : k \in ShardsOf(m, t)  BY <2>3, <2>6
  <2>9. ASSUME NEW t \in Tensors(m), NEW w \in Tensors(m), t # w
        PROVE  ShardsOf(m, t) \cap ShardsOf(m, w) = {}
    <3>1. PICK k \in 1..n : t = <<u[k]>>  BY <2>3
    <3>2. PICK l \in 1..n : w = <<u[l]>>  BY <2>3
    <3>3. k # l  BY <2>9, <3>1, <3>2
    <3>4. ShardsOf(m, t) = {k} /\ ShardsOf(m, w) = {l}  BY <2>6, <3>1, <3>2
    <3> QED BY <3>3, <3>4
  <2> QED BY <2>1, <2>7, <2>8, <2>9
<1> QED BY <1>1, <1>2, <1>3

-----------------------------------------------------------------------------
(* A tensor is loaded shard by shard. *)

Index(m, s) == CHOOSE i \in DOMAIN Shards(m) : Shards(m)[i] = s
StoreShard(m, r, p, s) == Store(m, Index(m, s), Part(m, s, Converted(m, s), r), p, r)
Loading(f, m, r, p, t, g) ==
  f = [u \in SUBSET DOMAIN t |-> IF u = {} THEN p ELSE StoreShard(m, r, f[u \ {g[u]}], t[g[u]])]

LEMMA LoadingExists ==
  ASSUME NEW m, NEW r, NEW p, NEW t, IsFiniteSet(DOMAIN t), NEW g, Picks(g, DOMAIN t)
  PROVE  \E f : Loading(f, m, r, p, t, g)
<1> DEFINE S == DOMAIN t
           Up(n) == {u \in SUBSET S : Cardinality(u) <= n}
           Some(n) == \E f : f = [u \in Up(n) |->
                                    IF u = {} THEN p ELSE StoreShard(m, r, f[u \ {g[u]}], t[g[u]])]
           T == {n \in Nat : ~ Some(n)}
<1>0. Cardinality({}) = 0 /\ \A u \in SUBSET S : Cardinality(u) \in Nat
  BY FS_EmptySet, FS_Subset, FS_CardinalityType
<1>1. T = {}
  <2> SUFFICES ASSUME T # {} PROVE FALSE
    OBVIOUS
  <2>1. PICK n \in T : \A y \in T : n <= y
    <3>1. T \subseteq Nat
      OBVIOUS
    <3> HIDE DEF T
    <3> QED BY <3>1, NatLeast
  <2>2. n \in Nat
    OBVIOUS
  <2>3. CASE n = 0
    <3>1. \A u \in Up(0) : u = {}
      <4> SUFFICES ASSUME NEW u \in Up(0), NEW x \in u PROVE FALSE
        OBVIOUS
      <4>1. Cardinality(u) - 1 \in Nat /\ Cardinality(u) <= 0 /\ Cardinality(u) \in Nat
        BY SmallerSet
      <4> QED BY <4>1
    <3> DEFINE h == [u \in Up(0) |-> p]
    <3>2. h = [u \in Up(0) |-> IF u = {} THEN p ELSE StoreShard(m, r, h[u \ {g[u]}], t[g[u]])]
      BY <3>1
    <3>3. Some(0)  BY <3>2
    <3> QED BY <2>3, <3>3
  <2>4. CASE n # 0
    <3>1. n - 1 \in Nat /\ ~ (n <= n - 1)  BY <2>2, <2>4
    <3>2. Some(n - 1)  BY <2>1, <3>1
    <3>3. PICK f : f = [u \in Up(n - 1) |->
                          IF u = {} THEN p ELSE StoreShard(m, r, f[u \ {g[u]}], t[g[u]])]
      BY <3>2
    <3> DEFINE h == [u \in Up(n) |-> IF u = {} THEN p ELSE StoreShard(m, r, f[u \ {g[u]}], t[g[u]])]
    <3>4. \A u \in Up(n - 1) : u \in Up(n) /\ f[u] = h[u]
      <4>1. \A u \in Up(n - 1) : u \in Up(n)  BY <1>0, <2>2
      <4> QED BY <3>3, <4>1
    <3>5. ASSUME NEW u \in Up(n), u # {}
          PROVE  u \ {g[u]} \in Up(n - 1)
      <4>1. g[u] \in u  BY <3>5 DEF Picks
      <4>2. u \ {g[u]} \in SUBSET S /\ Cardinality(u \ {g[u]}) = Cardinality(u) - 1
            /\ Cardinality(u) \in Nat
        BY <4>1, SmallerSet
      <4> QED BY <2>2, <4>2
    <3>6. \A u \in Up(n) : h[u] = IF u = {} THEN p ELSE StoreShard(m, r, h[u \ {g[u]}], t[g[u]])
      BY <3>4, <3>5
    <3>7. h = [u \in Up(n) |-> IF u = {} THEN p ELSE StoreShard(m, r, h[u \ {g[u]}], t[g[u]])]
      BY <3>6
    <3>8. Some(n)  BY <3>7
    <3> QED BY <3>8
  <2> QED BY <2>3, <2>4
<1>2. Some(Cardinality(S))  BY <1>0, <1>1
<1>3. Up(Cardinality(S)) = SUBSET S  BY FS_Subset
<1> QED BY <1>2, <1>3 DEF Loading

(* The greatest place of a set of them. *)
LEMMA MaxIs ==
  ASSUME NEW n \in Nat, NEW u \in SUBSET (1..n), u # {}
  PROVE  Max(u) \in u /\ \A y \in u : Max(u) >= y
<1> DEFINE T == {n - x : x \in u}
<1>1. T \subseteq Nat /\ T # {}
  OBVIOUS
<1>2. PICK a \in T : \A b \in T : a <= b
  <2> HIDE DEF T
  <2> QED BY <1>1, NatLeast
<1>3. PICK x \in u : a = n - x  BY <1>2
<1>4. \A y \in u : x >= y
  <2> SUFFICES ASSUME NEW y \in u PROVE x >= y
    OBVIOUS
  <2>1. n - x <= n - y  BY <1>2, <1>3
  <2> QED BY <2>1
<1>5. \E z \in u : \A y \in u : z >= y  BY <1>4
<1> QED BY <1>5 DEF Max

LEMMA MaxPrefix ==
  ASSUME NEW n \in Nat, NEW j \in 1..n
  PROVE  Max(1..j) = j /\ (1..j) \ {j} = 1..j - 1
<1>1. 1..j \in SUBSET (1..n) /\ 1..j # {} /\ j \in 1..j
  OBVIOUS
<1>2. Max(1..j) \in 1..j /\ Max(1..j) >= j  BY <1>1, MaxIs
<1>3. (1..j) \ {j} = 1..j - 1
  OBVIOUS
<1> QED BY <1>2, <1>3

LoadsInOrder(m, t, r, n) ==
  \E f, g : /\ Loading(f, m, r, param[m][r], t, g) /\ Loaders(m, t)[r] = f[DOMAIN t]
           /\ \A j \in 1..n : g[1..j] = j
LEMMA LoadersAre ==
  ASSUME NEW m, NEW t, NEW n \in Nat, DOMAIN t = 1..n, NEW r \in World
  PROVE  LoadsInOrder(m, t, r, n)
<1> DEFINE p == param[m][r]
           S == DOMAIN t
           g == [u \in SUBSET S |-> Max(u)]
           IsLoad(f) == f = [u \in SUBSET S |->
                              IF u = {} THEN p ELSE StoreShard(m, r, f[u \ {Max(u)}], t[Max(u)])]
           f == CHOOSE f : IsLoad(f)
<1>1. Loaders(m, t)[r] = FoldLeft(LAMBDA x, s : StoreShard(m, r, x, s), p, t)
  BY DEF Loaders, StoreShard, Index
<1>2. FoldLeft(LAMBDA x, s : StoreShard(m, r, x, s), p, t)
        = MapThenFoldSet(LAMBDA x, y : StoreShard(m, r, y, x), p, LAMBDA i : t[i], LAMBDA s : Max(s), S)
  BY DEF FoldLeft
<1>3. MapThenFoldSet(LAMBDA x, y : StoreShard(m, r, y, x), p, LAMBDA i : t[i], LAMBDA s : Max(s), S) = f[S]
  BY Zenon DEF MapThenFoldSet
<1>4. Picks(g, S)  BY MaxIs DEF Picks
<1>5. \A h : IsLoad(h) <=> Loading(h, m, r, p, t, g)  BY DEF Loading
<1>6. IsFiniteSet(S)  BY FS_Interval
<1>7. \E h : Loading(h, m, r, p, t, g)  BY <1>4, <1>6, LoadingExists
<1>8. \A j \in 1..n : g[1..j] = j
  <2> SUFFICES ASSUME NEW j \in 1..n PROVE g[1..j] = j
    OBVIOUS
  <2>1. 1..j \in SUBSET S
    OBVIOUS
  <2> QED BY <2>1, MaxPrefix
<1> HIDE DEF IsLoad, g
<1>9. Loading(f, m, r, p, t, g)  BY <1>5, <1>7
<1> HIDE DEF f
<1> QED BY <1>1, <1>2, <1>3, <1>8, <1>9 DEF LoadsInOrder

LEMMA IndexIs ==
  ASSUME NEW m \in AllLayers, NEW k \in 1..Len(Shards(m))
  PROVE  Index(m, Shards(m)[k]) = k
BY ShardsAre DEF Index

(* So a tensor adds its shards to those a parameter has. *)
LEMMA LoadersAdd ==
  ASSUME LayersCut, NEW m \in Layers, NEW t \in Tensors(m), NEW r \in World,
         NEW K \in SUBSET (1..Len(Shards(m))), K \cap ShardsOf(m, t) = {}, HasShards(param[m][r], m, K, r)
  PROVE  HasShards(Loaders(m, t)[r], m, K \cup ShardsOf(m, t), r)
<1>1. m \in AllLayers  BY LayersAre
<1>2. PICK n : n = Len(t) /\ n \in Nat /\ DOMAIN t = 1..n  BY <1>1, TensorsAre
<1>3. /\ \A i, j \in 1..n : t[i] = t[j] => i = j
      /\ \A i \in 1..n : \E k \in 1..Len(Shards(m)) : Shards(m)[k] = t[i]
  BY <1>1, <1>2, TensorsAre
<1>4. PICK p : p = param[m][r]  OBVIOUS
<1>5. PICK f, g : /\ Loading(f, m, r, p, t, g) /\ Loaders(m, t)[r] = f[DOMAIN t]
                  /\ \A j \in 1..n : g[1..j] = j
  <2>1. PICK f, g : /\ Loading(f, m, r, param[m][r], t, g) /\ Loaders(m, t)[r] = f[DOMAIN t]
                    /\ \A j \in 1..n : g[1..j] = j
    <3>1. LoadsInOrder(m, t, r, n)  BY <1>2, LoadersAre
    <3> QED BY <3>1, Zenon DEF LoadsInOrder
  <2> QED BY <1>4, <2>1
<1>6. \A u \in SUBSET (1..n) :
        f[u] = IF u = {} THEN p ELSE StoreShard(m, r, f[u \ {g[u]}], t[g[u]])
  BY <1>2, <1>5 DEF Loading
<1> DEFINE Sh(j) == {k \in 1..Len(Shards(m)) : \E i \in 1..j : t[i] = Shards(m)[k]}
           Good(j) == HasShards(f[1..j], m, K \cup Sh(j), r)
           T == {j \in Nat : j \in 0..n /\ ~ Good(j)}
<1>7. T = {}
  <2> SUFFICES ASSUME T # {} PROVE FALSE
    OBVIOUS
  <2>1. PICK j \in T : \A y \in T : j <= y
    <3>1. T \subseteq Nat
      OBVIOUS
    <3> HIDE DEF T
    <3> QED BY <3>1, NatLeast
  <2>2. j \in Nat /\ j \in 0..n /\ ~ Good(j)  BY <2>1
  <2>3. CASE j = 0
    <3>1. 1..0 = {}
      OBVIOUS
    <3>2. f[1..0] = p
      <4>1. {} \in SUBSET (1..n)
        OBVIOUS
      <4> QED BY <1>6, <3>1, <4>1
    <3>3. Sh(0) = {}  BY <3>1
    <3>4. Good(0)  BY <1>4, <3>2, <3>3
    <3> QED BY <2>2, <2>3, <3>4
  <2>4. CASE j # 0
    <3>1. j - 1 \in Nat /\ j - 1 \in 0..n /\ ~ (j <= j - 1) /\ j \in 1..n
      BY <1>2, <2>2, <2>4
    <3>2. Good(j - 1)  BY <2>1, <3>1
    <3>3. f[1..j] = StoreShard(m, r, f[1..j - 1], t[j])
      <4>1. 1..j \in SUBSET (1..n) /\ 1..j # {} /\ (1..j) \ {j} = 1..j - 1  BY <1>2, <3>1
      <4>2. g[1..j] = j  BY <1>5, <3>1
      <4> QED BY <1>6, <4>1, <4>2
    <3>4. PICK k \in 1..Len(Shards(m)) : Shards(m)[k] = t[j]  BY <1>3, <3>1
    <3>5. StoreShard(m, r, f[1..j - 1], t[j]) = Store(m, k, ShardRows(m, k, r), f[1..j - 1], r)
      <4>1. Index(m, t[j]) = k  BY <1>1, <3>4, IndexIs
      <4>2. Part(m, t[j], Converted(m, t[j]), r) = ShardRows(m, k, r)  BY <3>4, KeptPartIs
      <4> QED BY <4>1, <4>2 DEF StoreShard
    <3>6. \A l \in 1..Len(Shards(m)) : Shards(m)[l] = Shards(m)[k] => l = k
      BY <1>1, ShardsAre
    <3>7. k \notin K
      <4>1. k \in ShardsOf(m, t)  BY <1>2, <3>1, <3>4 DEF ShardsOf
      <4> QED BY <4>1
    <3>8. k \notin Sh(j - 1)
      <4> SUFFICES ASSUME NEW i \in 1..j - 1, t[i] = Shards(m)[k] PROVE FALSE
        OBVIOUS
      <4>1. i \in 1..n /\ i # j  BY <1>2, <3>1
      <4> QED BY <1>3, <3>1, <3>4, <4>1
    <3>9. Sh(j) = Sh(j - 1) \cup {k}
      <4>1. \A i \in 1..j : i = j \/ i \in 1..j - 1  BY <3>1
      <4>2. \A i \in 1..j - 1 : i \in 1..j  BY <3>1
      <4>3. j \in 1..j  BY <3>1
      <4>4. ASSUME NEW l \in 1..Len(Shards(m))
            PROVE  (\E i \in 1..j : t[i] = Shards(m)[l])
                     <=> (\E i \in 1..j - 1 : t[i] = Shards(m)[l]) \/ l = k
        BY <3>4, <3>6, <4>1, <4>2, <4>3
      <4> QED BY <4>4
    <3>10. PICK L, q : L = K \cup Sh(j - 1) /\ q = f[1..j - 1]  OBVIOUS
    <3>11. L \in SUBSET (1..Len(Shards(m))) /\ k \notin L /\ HasShards(q, m, L, r)
      BY <3>2, <3>7, <3>8, <3>10
    <3>12. HasShards(Store(m, k, ShardRows(m, k, r), q, r), m, L \cup {k}, r)
      BY <3>11, StoreIs
    <3>13. L \cup {k} = K \cup Sh(j)  BY <3>9, <3>10
    <3>14. Good(j)  BY <3>3, <3>5, <3>10, <3>12, <3>13
    <3> QED BY <2>2, <3>14
  <2> QED BY <2>3, <2>4
<1>8. Good(n)
  <2>1. n \in Nat /\ n \in 0..n  BY <1>2
  <2> HIDE DEF Good
  <2>2. n \notin T  BY <1>7
  <2> QED BY <2>1, <2>2
<1>9. Sh(n) = ShardsOf(m, t)  BY <1>2 DEF ShardsOf
<1> QED BY <1>2, <1>5, <1>8, <1>9

-----------------------------------------------------------------------------
(* How the layers are cut.  The functions that linear.py asks for its rank are *)
(* replaced while the shared expert is built, and at no other time. *)

(* The getters are replaced from the statement after "enter" up to "leave". *)
PatchedInTheContext ==
  patched <=> conf.moe /\ conf.shared /\ tp4x2_shared /\ statement \in 6..8

ShardIInv ==
  /\ conf \in Configs
  /\ statement \in Nat \ {0}
  /\ PatchedInTheContext
  /\ OnlyTheExpertsAreCutInFour

(* Where the statements are that the invariant is about. *)
LEMMA Positions ==
  ASSUME ShardIInv, statement <= Len(Program)
  PROVE  /\ Program[statement] = "enter" => statement = 5 /\ (conf.moe => conf.shared)
         /\ Program[statement] = "leave" => statement = 8
         /\ Program[statement] \in {"gate_up", "down"} /\ conf.moe
              => statement \in 6..7 /\ conf.shared
         /\ statement \in 6..7 /\ conf.shared => Program[statement] \in {"gate_up", "down"}
         /\ statement = 5 /\ conf.shared => Program[statement] = "enter"
         /\ statement = 8 /\ conf.shared => Program[statement] = "leave"
  <1>1. conf \in Config  BY ShardAssumption DEF ShardIInv
  <1>2. conf.moe \in BOOLEAN /\ conf.shared \in BOOLEAN /\ statement \in Nat \ {0}
    BY <1>1 DEF Config, ShardIInv
  <1>3. CASE ~ conf.moe
    <2>1. Program = DenseProgram  BY <1>3 DEF Program
    <2>2. Len(DenseProgram) = 10  BY DEF DenseProgram
    <2>3. statement \in 1..10  BY <2>1, <2>2, <1>2
    <2> QED
      BY <2>1, <2>3, <1>2, <1>3 DEF DenseProgram
  <1>4. CASE conf.moe /\ conf.shared
    <2>1. Program = SharedProgram  BY <1>4 DEF Program
    <2>2. Len(SharedProgram) = 12  BY DEF SharedProgram
    <2>3. statement \in 1..12  BY <2>1, <2>2, <1>2
    <2> QED
      BY <2>1, <2>3, <1>2, <1>4 DEF SharedProgram
  <1>5. CASE conf.moe /\ ~ conf.shared
    <2>1. Program = RoutedProgram  BY <1>5 DEF Program
    <2>2. Len(RoutedProgram) = 8  BY DEF RoutedProgram
    <2>3. statement \in 1..8  BY <2>1, <2>2, <1>2
    <2> QED
      BY <2>1, <2>3, <1>2, <1>5 DEF RoutedProgram
  <1> QED
    BY <1>2, <1>3, <1>4, <1>5

(* A statement that cuts no layer leaves the layers cut as they were. *)
LEMMA LayersStay ==
  ASSUME ShardIInv, UNCHANGED <<conf, tp>>
  PROVE  OnlyTheExpertsAreCutInFour'
  BY DEF ShardIInv, OnlyTheExpertsAreCutInFour, Fours, Whole, World, tp4x2, tp4x2_shared

LEMMA Initially == ShardInit => ShardIInv
  <1> SUFFICES ASSUME ShardInit PROVE ShardIInv
    OBVIOUS
  <1>1. conf \in Config /\ statement = 1 /\ ~ patched /\ tp = << >>
    BY ShardAssumption DEF ShardInit
  <1>2. DOMAIN tp = {}  BY <1>1
  <1> QED
    BY <1>1, <1>2 DEF ShardInit, ShardIInv, PatchedInTheContext, OnlyTheExpertsAreCutInFour

LEMMA EnterStep == ShardIInv /\ EnterContext => ShardIInv'
  <1> SUFFICES ASSUME ShardIInv, EnterContext PROVE ShardIInv'
    OBVIOUS
  <1>1. statement = 5 /\ (conf.moe => conf.shared) /\ statement' = 6
    BY Positions DEF EnterContext
  <1>2. patched' = (conf.moe /\ tp4x2_shared) /\ UNCHANGED <<conf, tp>>  BY DEF EnterContext
  <1>3. PatchedInTheContext'
    <2>1. conf' = conf /\ statement' \in 6..8  BY <1>1, <1>2
    <2>2. tp4x2_shared' <=> tp4x2_shared  BY <2>1 DEF tp4x2, tp4x2_shared
    <2>3. patched' <=> conf.moe /\ tp4x2_shared  BY <1>2
    <2> QED
      BY <1>1, <2>1, <2>2, <2>3, Zenon DEF PatchedInTheContext
  <1> QED
    BY <1>1, <1>2, <1>3, LayersStay DEF ShardIInv

LEMMA LeaveStep == ShardIInv /\ LeaveContext => ShardIInv'
  <1> SUFFICES ASSUME ShardIInv, LeaveContext PROVE ShardIInv'
    OBVIOUS
  <1>1. statement = 8 /\ statement' = 9 /\ ~ patched' /\ UNCHANGED <<conf, tp>>
    BY Positions DEF LeaveContext
  <1>2. PatchedInTheContext'  BY <1>1 DEF PatchedInTheContext
  <1> QED
    BY <1>1, <1>2, LayersStay DEF ShardIInv

LEMMA BuildStep == ShardIInv /\ Build => ShardIInv'
  <1> SUFFICES ASSUME ShardIInv, Build PROVE ShardIInv'
    OBVIOUS
  <1> DEFINE m == Program[statement]
             cut == IF m \in {"w13", "w2"} THEN IF tp4x2 THEN Fours ELSE Whole ELSE View
  <1>1. /\ statement <= Len(Program) /\ m \in Layers
        /\ tp' = [n \in DOMAIN tp \cup {m} |-> IF n = m THEN cut ELSE tp[n]]
        /\ statement' = statement + 1 /\ UNCHANGED <<conf, patched>>
    BY DEF Build
  <1>2. statement \in Nat \ {0} /\ m # "enter" /\ m # "leave"  BY <1>1 DEF ShardIInv, Layers
  <1>3. /\ m \in {"gate_up", "down"} /\ conf.moe => statement \in 6..7 /\ conf.shared
        /\ statement \in 6..7 /\ conf.shared => m \in {"gate_up", "down"}
        /\ ~ (statement \in {5, 8} /\ conf.shared)
    BY <1>1, <1>2, Positions
  <1>4. PatchedInTheContext'
    <2>1. statement + 1 \in 6..8 /\ conf.shared <=> statement \in 6..8 /\ conf.shared
      BY <1>2, <1>3
    <2> QED
      BY <1>1, <2>1 DEF ShardIInv, PatchedInTheContext, tp4x2, tp4x2_shared
  <1>5. patched <=> m \in {"gate_up", "down"} /\ conf.moe /\ tp4x2_shared
    BY <1>2, <1>3 DEF ShardIInv, PatchedInTheContext
  <1>6. cut = IF \/ m \in {"w13", "w2"} /\ tp4x2
                 \/ m \in {"gate_up", "down"} /\ conf.moe /\ tp4x2_shared
                THEN Fours ELSE Whole
    BY <1>5 DEF View
  <1>7. OnlyTheExpertsAreCutInFour'
    <2> SUFFICES ASSUME NEW n \in DOMAIN tp'
                 PROVE  tp'[n] = IF \/ n \in {"w13", "w2"} /\ tp4x2
                                    \/ n \in {"gate_up", "down"} /\ conf.moe /\ tp4x2_shared
                                   THEN Fours ELSE Whole
      BY <1>1 DEF OnlyTheExpertsAreCutInFour, Fours, Whole, World, tp4x2, tp4x2_shared
    <2>1. CASE n = m
      BY <1>1, <1>6, <2>1
    <2>2. CASE n # m
      <3>1. n \in DOMAIN tp /\ tp'[n] = tp[n]  BY <1>1, <2>2
      <3> QED
        BY <3>1 DEF ShardIInv, OnlyTheExpertsAreCutInFour
    <2> QED
      BY <2>1, <2>2
  <1> QED
    BY <1>1, <1>2, <1>4, <1>7 DEF ShardIInv

LEMMA LoadSteps ==
  ASSUME ShardIInv, BeginLoad \/ LoadWeight \/ Forward \/ UNCHANGED shardVars
  PROVE  ShardIInv'
  <1>1. /\ UNCHANGED <<conf, patched, tp>>
        /\ \/ statement' = statement
           \/ statement = Len(Program) + 1 /\ statement' = statement + 1
    BY DEF BeginLoad, LoadWeight, Forward, shardVars
  <1>2. OnlyTheExpertsAreCutInFour'  BY <1>1, LayersStay
  <1>4. conf.moe /\ conf.shared => Len(Program) = 12  BY DEF Program, SharedProgram
  <1>5. statement' \in 6..8 /\ conf.moe /\ conf.shared
          <=> statement \in 6..8 /\ conf.moe /\ conf.shared
    <2>1. CASE statement' = statement
      BY <2>1
    <2>2. CASE statement = Len(Program) + 1 /\ statement' = statement + 1 /\ conf.moe /\ conf.shared
      <3>1. Len(Program) = 12  BY <1>4, <2>2
      <3>2. statement = 13 /\ statement' = 14  BY <2>2, <3>1
      <3> QED
        BY <3>2
    <2>3. CASE ~ (conf.moe /\ conf.shared)
      BY <2>3
    <2> QED
      BY <1>1, <2>1, <2>2, <2>3
  <1>6. conf' = conf /\ patched' = patched /\ (tp4x2_shared' <=> tp4x2_shared)
    BY <1>1 DEF tp4x2, tp4x2_shared
  <1>7. PatchedInTheContext'  BY <1>5, <1>6, Zenon DEF ShardIInv, PatchedInTheContext
  <1> QED
    BY <1>1, <1>2, <1>7 DEF ShardIInv

(* Whatever the sizes and the switches, and in whatever order the tensors come: *)
(* the getters that the shared expert's context replaces are seen by no layer *)
(* but the shared expert's (_qwen36_moe_tp4x2_linear_context). *)
THEOREM TheContextDoesNotLeak == ShardSpec => []OnlyTheExpertsAreCutInFour
  <1>1. ShardIInv /\ [ShardNext]_shardVars => ShardIInv'
    BY EnterStep, LeaveStep, BuildStep, LoadSteps DEF ShardNext
  <1>2. ShardIInv => OnlyTheExpertsAreCutInFour  BY DEF ShardIInv
  <1> QED
    BY Initially, <1>1, <1>2, PTL DEF ShardSpec

-----------------------------------------------------------------------------
(* Loading the weights. *)

AllTensors == UNION {{<<m, t>> : t \in Tensors(m)} : m \in Layers}

(* The shards of which the file has sent every tensor. *)
Arrived(m) ==
  {k \in 1..Len(Shards(m)) : \A t \in Tensors(m) : k \in ShardsOf(m, t) => <<m, t>> \notin coming}

LayersBuilt ==
  /\ statement <= Len(Program) + 2
  /\ DOMAIN tp = {m \in Layers : \E i \in 1..Len(Program) : i < statement /\ Program[i] = m}

WeightsArrive ==
  statement = Len(Program) + 2 =>
    /\ coming \subseteq AllTensors
    /\ param = [m \in Layers |-> [r \in World |-> param[m][r]]]
    /\ \A m \in Layers, r \in World : HasShards(param[m][r], m, Arrived(m), r)

WeightIInv == ShardIInv /\ LayersBuilt /\ WeightsArrive

LEMMA ProgramIs ==
  Len(Program) \in {8, 10, 12} /\ Layers = {Program[i] : i \in 1..Len(Program)} \ {"enter", "leave"}
<1>1. Layers = {Program[i] : i \in 1..Len(Program)} \ {"enter", "leave"}
  <2>1. PICK p : p = Program  OBVIOUS
  <2>2. p \in {DenseProgram, SharedProgram, RoutedProgram}  BY <2>1 DEF Program
  <2>3. DOMAIN p = 1..Len(p)  BY <2>2 DEF DenseProgram, SharedProgram, RoutedProgram
  <2> QED BY <2>1, <2>3 DEF Layers, ToSet
<1>2. Len(DenseProgram) = 10 /\ Len(SharedProgram) = 12 /\ Len(RoutedProgram) = 8
  BY DEF DenseProgram, SharedProgram, RoutedProgram
<1> QED BY <1>1, <1>2 DEF Program

LEMMA AllBuilt ==
  ASSUME ShardIInv, LayersBuilt, statement > Len(Program)
  PROVE  LayersCut
<1>1. PICK n : n = Len(Program) /\ n \in Nat  BY ProgramIs
<1>2. \A i \in 1..n : i < statement
  <2>1. statement \in Nat  BY DEF ShardIInv
  <2> QED BY <1>1, <2>1
<1>3. Layers = {Program[i] : i \in 1..n} \ {"enter", "leave"}  BY <1>1, ProgramIs
<1>4. DOMAIN tp = Layers  BY <1>1, <1>2, <1>3 DEF LayersBuilt
<1> QED BY <1>4 DEF LayersCut, ShardIInv

(* What a layer is does not depend on anything but the configuration. *)
LEMMA SizesStay ==
  ASSUME conf' = conf
  PROVE  /\ \A m, s : Size(m, s)' = Size(m, s)
         /\ \A m, r : RankIn(m, r)' = RankIn(m, r)
         /\ Replicas' = Replicas
         /\ \A m : Contained(m)' <=> Contained(m)
<1>1. Replicas' = Replicas  BY DEF Replicas
<1>2. \A m : InFours(m)' <=> InFours(m)  BY DEF InFours, tp4x2, tp4x2_shared
<1>3. \A m : Over(m)' = Over(m)  BY <1>2 DEF Over
<1>4. \A m, r : RankIn(m, r)' = RankIn(m, r)  BY <1>2 DEF RankIn
<1>5. \A m, s : Total(m, s)' = Total(m, s)  BY DEF Total
<1>6. \A m, s : output_size(m, s)' = output_size(m, s)  BY <1>1, <1>5 DEF output_size
<1>7. \A m, s : Size(m, s)' = Size(m, s)  BY <1>3, <1>6 DEF Size
<1>8. \A m : Contained(m)' <=> Contained(m)  BY DEF Contained
<1> QED BY <1>1, <1>4, <1>7, <1>8

LEMMA RowsStay ==
  ASSUME conf' = conf
  PROVE  /\ \A m, k : Height(m, k)' = Height(m, k)
         /\ \A m, k : Start(m, k)' = Start(m, k)
         /\ \A m : Width(m)' = Width(m)
         /\ \A m, k, i : Spot(m, k, i)' = Spot(m, k, i)
         /\ \A m, k, r : ShardRows(m, k, r)' = ShardRows(m, k, r)
         /\ \A m, k, r : Record(m, k, r)' = Record(m, k, r)
<1>1. \A m, k : Height(m, k)' = Height(m, k)  BY SizesStay DEF Height
<1>2. \A m, k : Start(m, k)' = Start(m, k)  BY <1>1 DEF Start
<1>3. \A m : Width(m)' = Width(m)  BY <1>2 DEF Width
<1>4. \A m, k, i : Spot(m, k, i)' = Spot(m, k, i)  BY <1>2 DEF Spot
<1>5. \A m, s, r : Turn(m, s, r)' = Turn(m, s, r)  BY SizesStay DEF Turn
<1>6. \A m, s, r : First(m, s, r)' = First(m, s, r)  BY <1>5, SizesStay DEF First
<1>9. \A m, s, j : HeadIn(m, s, j)' = HeadIn(m, s, j)
  BY DEF HeadIn, FileHead, Recognised, PerValueHead, Tiled, PerKey, HeadInverse, GgufKeys
<1>7. \A m, k, r : ShardRows(m, k, r)' = ShardRows(m, k, r)
  <2>1. \A m, k, r, i : HeadIn(m, Shards(m)[k], First(m, Shards(m)[k], r) + i - 1)'
                          = HeadIn(m, Shards(m)[k], First(m, Shards(m)[k], r) + i - 1)
    BY <1>6, <1>9 DEF Shards
  <2>2. \A m : Shards(m)' = Shards(m)  BY DEF Shards
  <2> QED BY <1>1, <2>1, <2>2 DEF ShardRows
<1>8. \A m, k, r : Record(m, k, r)' = Record(m, k, r)  BY <1>7 DEF Record
<1> QED BY <1>1, <1>2, <1>3, <1>4, <1>7, <1>8

LEMMA HoldingStays ==
  ASSUME conf' = conf, NEW x, NEW m, NEW K, NEW r, HasShards(x, m, K, r)
  PROVE  HasShards(x, m, K, r)'
<1>1. CASE Contained(m)
  <2>1. {Record(m, k, r) : k \in K}' = {Record(m, k, r) : k \in K}  BY RowsStay
  <2>2. Contained(m)'  BY <1>1, SizesStay
  <2>3. Lists(x, {Record(m, k, r) : k \in K})  BY <1>1 DEF HasShards
  <2> QED BY <2>1, <2>2, <2>3 DEF HasShards
<1>2. CASE ~ Contained(m)
  <2>1. ~ Contained(m)'  BY <1>2, SizesStay
  <2>2. /\ DOMAIN x = 1..Width(m) /\ x = [j \in DOMAIN x |-> x[j]]
        /\ \A k \in K : StoredShard(x, m, k, r)
    BY <1>2 DEF HasShards
  <2>3. \A k \in K : StoredShard(x, m, k, r)'  BY <2>2, RowsStay DEF StoredShard
  <2>4. DOMAIN x = 1..(Width(m)') /\ x = [j \in DOMAIN x |-> x[j]]  BY <2>2, RowsStay
  <2> QED BY <2>1, <2>3, <2>4 DEF HasShards
<1> QED BY <1>1, <1>2

LEMMA ProgramStays ==
  ASSUME conf' = conf
  PROVE  Program' = Program /\ Layers' = Layers /\ World' = World /\ AllTensors' = AllTensors
<1>1. Program' = Program  BY DEF Program
<1>2. Layers' = Layers  BY <1>1 DEF Layers
<1> QED BY <1>1, <1>2 DEF World, AllTensors

LEMMA StatementIs ==
  ASSUME ShardIInv
  PROVE  statement \in Nat /\ Len(Program) \in Nat
BY ProgramIs DEF ShardIInv

LEMMA WeightsInitially == ShardInit => WeightIInv
<1> SUFFICES ASSUME ShardInit PROVE WeightIInv
  OBVIOUS
<1>1. ShardIInv  BY Initially
<1>2. PICK n : n = Len(Program) /\ n \in {8, 10, 12}  BY ProgramIs
<1>3. statement = 1 /\ tp = << >>  BY DEF ShardInit
<1>4. WeightsArrive  BY <1>2, <1>3 DEF WeightsArrive
<1>5. LayersBuilt
  <2>1. statement <= n + 2  BY <1>2, <1>3
  <2>2. \A i \in 1..n : ~ (i < statement)  BY <1>3
  <2>3. DOMAIN tp = {}  BY <1>3
  <2> QED BY <1>2, <2>1, <2>2, <2>3 DEF LayersBuilt
<1> QED BY <1>1, <1>4, <1>5 DEF WeightIInv

(* The statements of the program build the layers one by one. *)
LEMMA WeightsBuild ==
  ASSUME WeightIInv, EnterContext \/ LeaveContext \/ Build
  PROVE  LayersBuilt' /\ WeightsArrive'
<1>1. PICK n, c : n = Len(Program) /\ c = statement /\ n \in Nat /\ c \in Nat /\ c <= n
  BY StatementIs DEF WeightIInv, EnterContext, LeaveContext, Build
<1>2. statement' = c + 1 /\ conf' = conf  BY <1>1 DEF EnterContext, LeaveContext, Build
<1>3. Program' = Program /\ Layers' = Layers /\ Len(Program)' = n
  BY <1>1, <1>2, ProgramStays
<1>4. WeightsArrive'
  <2>1. c + 1 # n + 2  BY <1>1
  <2> QED BY <1>2, <1>3, <2>1 DEF WeightsArrive
<1>5. \A i \in 1..n : i < c + 1 <=> i < c \/ i = c  BY <1>1
<1>6. DOMAIN tp = {m \in Layers : \E i \in 1..n : i < c /\ Program[i] = m}
  BY <1>1 DEF WeightIInv, LayersBuilt
<1>7. DOMAIN tp' = {m \in Layers : \E i \in 1..n : i < c + 1 /\ Program[i] = m}
  <2>1. c \in 1..n  BY <1>1 DEF WeightIInv, ShardIInv
  <2>2. CASE Build
    <3>1. DOMAIN tp' = DOMAIN tp \cup {Program[c]} /\ Program[c] \in Layers
      BY <1>1, <2>2 DEF Build
    <3> QED BY <1>5, <1>6, <2>1, <3>1
  <2>3. CASE EnterContext \/ LeaveContext
    <3>1. tp' = tp /\ Program[c] \in {"enter", "leave"}
      BY <1>1, <2>3 DEF EnterContext, LeaveContext
    <3>2. Program[c] \notin Layers  BY <3>1 DEF Layers
    <3> QED BY <1>5, <1>6, <3>1, <3>2
  <2> QED BY <2>2, <2>3
<1>8. statement' <= n + 2  BY <1>1, <1>2
<1> QED BY <1>2, <1>3, <1>4, <1>7, <1>8 DEF LayersBuilt

(* When loading begins no shard has arrived. *)
LEMMA WeightsBegin ==
  ASSUME WeightIInv, BeginLoad
  PROVE  LayersBuilt' /\ WeightsArrive'
<1>1. PICK n : n = Len(Program) /\ n \in Nat /\ statement = n + 1
  BY ProgramIs DEF BeginLoad
<1>2. /\ statement' = n + 2 /\ conf' = conf /\ tp' = tp
      /\ coming' = UNION {{<<m, t>> : t \in Tensors(m)} : m \in Layers}
      /\ param' = [m \in Layers |-> [r \in World |->
                     IF Contained(m) THEN <<>> ELSE [i \in 1..width(m, r) |-> <<"empty", 0>>]]]
  BY <1>1 DEF BeginLoad
<1>3. /\ Program' = Program /\ Layers' = Layers /\ World' = World /\ AllTensors' = AllTensors
      /\ Len(Program)' = n
  BY <1>1, <1>2, ProgramStays
<1>4. LayersBuilt'
  <2>1. DOMAIN tp = {m \in Layers : \E i \in 1..n : i < n + 1 /\ Program[i] = m}
    BY <1>1 DEF WeightIInv, LayersBuilt
  <2>2. \A i \in 1..n : i < n + 1 /\ i < n + 2  BY <1>1
  <2>3. DOMAIN tp' = {m \in Layers : \E i \in 1..n : i < n + 2 /\ Program[i] = m}
    BY <1>2, <2>1, <2>2
  <2>4. n + 2 <= n + 2  BY <1>1
  <2> QED BY <1>2, <1>3, <2>3, <2>4 DEF LayersBuilt
<1>5. LayersCut
  <2>1. statement > Len(Program)  BY <1>1
  <2> QED BY <2>1, AllBuilt DEF WeightIInv
<1>6. ASSUME NEW m \in Layers, NEW r \in World
      PROVE  HasShards(param[m][r], m, Arrived(m), r)'
  <2>1. m \in AllLayers  BY LayersAre
  <2>2. Arrived(m)' = {}
    <3> SUFFICES ASSUME NEW k \in 1..Len(Shards(m)),
                        \A t \in Tensors(m) : k \in ShardsOf(m, t) => <<m, t>> \notin coming'
                 PROVE  FALSE
      BY DEF Arrived
    <3>1. PICK t \in Tensors(m) : k \in ShardsOf(m, t)  BY <2>1, TensorsAre
    <3>2. <<m, t>> \in coming'  BY <1>2
    <3> QED BY <3>1, <3>2
  <2>3. PICK x : x = param'[m][r]  OBVIOUS
  <2>4. x = IF Contained(m) THEN <<>> ELSE [i \in 1..width(m, r) |-> <<"empty", 0>>]
    BY <1>2, <2>3
  <2>5. HasShards(x, m, {}, r)
    <3>1. {Record(m, k, r) : k \in {}} = {}
      OBVIOUS
    <3>2. Contained(m) => Lists(x, {Record(m, k, r) : k \in {}})
      BY <2>4, <3>1, ListsNothing
    <3>3. ~ Contained(m) => DOMAIN x = 1..Width(m) /\ x = [j \in DOMAIN x |-> x[j]]
      BY <1>5, <2>4, PlaceIs
    <3> QED BY <3>2, <3>3 DEF HasShards
  <2>6. HasShards(x, m, {}, r)'  BY <1>2, <2>5, HoldingStays
  <2> QED BY <2>2, <2>3, <2>6
<1>7. WeightsArrive'
  <2>1. coming' \subseteq AllTensors  BY <1>2 DEF AllTensors
  <2>2. param' = [m \in Layers |-> [r \in World |-> param'[m][r]]]  BY <1>2
  <2> QED BY <1>3, <1>6, <2>1, <2>2 DEF WeightsArrive
<1> QED BY <1>4, <1>7

(* A tensor adds its shards, to its own layer only. *)
LEMMA WeightsLoad ==
  ASSUME WeightIInv, LoadWeight
  PROVE  LayersBuilt' /\ WeightsArrive'
<1>1. coming # {} /\ statement = Len(Program) + 2
      /\ conf' = conf /\ tp' = tp /\ statement' = statement
  BY DEF LoadWeight
<1>2. /\ Program' = Program /\ Layers' = Layers /\ World' = World /\ AllTensors' = AllTensors
      /\ Len(Program)' = Len(Program)
  BY <1>1, ProgramStays
<1>3. LayersBuilt'  BY <1>1, <1>2 DEF WeightIInv, LayersBuilt
<1>4. LayersCut
  <2>1. statement > Len(Program)  BY <1>1, ProgramIs
  <2> QED BY <2>1, AllBuilt DEF WeightIInv
<1>5. /\ coming \subseteq AllTensors
      /\ param = [m \in Layers |-> [r \in World |-> param[m][r]]]
      /\ \A m \in Layers, r \in World : HasShards(param[m][r], m, Arrived(m), r)
  BY <1>1 DEF WeightIInv, WeightsArrive
<1>6. \E m \in Layers : \E t \in Tensors(m) :
        /\ <<m, t>> \in coming
        /\ param' = [param EXCEPT ![m] = Loaders(m, t)] /\ coming' = coming \ {<<m, t>>}
  <2>1. PICK m : m = CHOOSE x \in Layers : \E e \in coming : e[1] = x  OBVIOUS
  <2>2. PICK t \in {e[2] : e \in {f \in coming : f[1] = m}} :
          param' = [param EXCEPT ![m] = Loaders(m, t)] /\ coming' = coming \ {<<m, t>>}
    BY <2>1 DEF LoadWeight
  <2>3. PICK e \in coming : e[1] = m /\ e[2] = t  OBVIOUS
  <2>4. PICK a \in Layers : e \in {<<a, b>> : b \in Tensors(a)}
    BY <1>5, <2>3 DEF AllTensors
  <2>5. PICK b \in Tensors(a) : e = <<a, b>>  BY <2>4
  <2>6. m = a /\ t = b /\ e = <<m, t>>  BY <2>3, <2>5
  <2>7. m \in Layers /\ t \in Tensors(m) /\ <<m, t>> \in coming  BY <2>3, <2>4, <2>5, <2>6
  <2> QED BY <2>2, <2>7
<1>7. PICK m \in Layers : \E t \in Tensors(m) :
        /\ <<m, t>> \in coming
        /\ param' = [param EXCEPT ![m] = Loaders(m, t)] /\ coming' = coming \ {<<m, t>>}
  BY <1>6
<1>8. PICK t \in Tensors(m) :
        /\ <<m, t>> \in coming
        /\ param' = [param EXCEPT ![m] = Loaders(m, t)] /\ coming' = coming \ {<<m, t>>}
  BY <1>7
<1>9. m \in AllLayers  BY LayersAre
<1>10. PICK K : K = Arrived(m)  OBVIOUS
<1>11. K \in SUBSET (1..Len(Shards(m))) /\ K \cap ShardsOf(m, t) = {}
  BY <1>8, <1>10 DEF Arrived
<1>12. Arrived(m)' = K \cup ShardsOf(m, t)
  <2>1. \A u \in Tensors(m) : <<m, u>> \in coming' <=> <<m, u>> \in coming /\ u # t  BY <1>8
  <2>2. ASSUME NEW k \in 1..Len(Shards(m)), k \in ShardsOf(m, t)
        PROVE  k \in Arrived(m)'
    <3>1. \A u \in Tensors(m) : k \in ShardsOf(m, u) => u = t  BY <1>9, <2>2, TensorsAre
    <3>2. \A u \in Tensors(m) : k \in ShardsOf(m, u) => <<m, u>> \notin coming'
      BY <2>1, <3>1
    <3> QED BY <3>2 DEF Arrived
  <2>3. ASSUME NEW k \in 1..Len(Shards(m)), k \notin ShardsOf(m, t)
        PROVE  k \in Arrived(m)' <=> k \in Arrived(m)
    <3>1. \A u \in Tensors(m) : k \in ShardsOf(m, u) => u # t  BY <2>3
    <3>2. (\A u \in Tensors(m) : k \in ShardsOf(m, u) => <<m, u>> \notin coming')
            <=> (\A u \in Tensors(m) : k \in ShardsOf(m, u) => <<m, u>> \notin coming)
      BY <2>1, <3>1
    <3> QED BY <3>2 DEF Arrived
  <2>4. Arrived(m)' \subseteq 1..Len(Shards(m)) /\ ShardsOf(m, t) \subseteq 1..Len(Shards(m))
        /\ Arrived(m) \subseteq 1..Len(Shards(m))
    BY DEF Arrived, ShardsOf
  <2> QED BY <1>10, <2>2, <2>3, <2>4
<1>13. \A l \in Layers : l # m => Arrived(l)' = Arrived(l)
  <2> SUFFICES ASSUME NEW l \in Layers, l # m PROVE Arrived(l)' = Arrived(l)
    OBVIOUS
  <2>1. \A u \in Tensors(l) : <<l, u>> \in coming' <=> <<l, u>> \in coming  BY <1>8
  <2> QED BY <2>1 DEF Arrived
<1>14. \A l \in Layers, r \in World :
         param'[l][r] = IF l = m THEN Loaders(m, t)[r] ELSE param[l][r]
  <2> SUFFICES ASSUME NEW l \in Layers, NEW r \in World
               PROVE  param'[l][r] = IF l = m THEN Loaders(m, t)[r] ELSE param[l][r]
    OBVIOUS
  <2>1. l \in DOMAIN param  BY <1>5
  <2> QED BY <1>8, <2>1
<1>15. ASSUME NEW l \in Layers, NEW r \in World
       PROVE  HasShards(param[l][r], l, Arrived(l), r)'
  <2>1. PICK x : x = param'[l][r]  OBVIOUS
  <2>2. PICK A : A = Arrived(l)'  OBVIOUS
  <2>3. HasShards(x, l, A, r)
    <3>1. CASE l = m
      <4>1. HasShards(param[m][r], m, K, r)  BY <1>5, <1>10
      <4>2. HasShards(Loaders(m, t)[r], m, K \cup ShardsOf(m, t), r)
        BY <1>4, <1>8, <1>11, <4>1, LoadersAdd
      <4> QED BY <1>12, <1>14, <2>1, <2>2, <3>1, <4>2
    <3>2. CASE l # m
      BY <1>5, <1>13, <1>14, <2>1, <2>2, <3>2
    <3> QED BY <3>1, <3>2
  <2>4. HasShards(x, l, A, r)'  BY <1>1, <2>3, HoldingStays
  <2> QED BY <2>1, <2>2, <2>4
<1>16. WeightsArrive'
  <2>1. coming' \subseteq AllTensors  BY <1>5, <1>8
  <2>2. param' = [l \in Layers |-> [r \in World |-> param'[l][r]]]
    <3>1. Loaders(m, t) = [r \in World |-> Loaders(m, t)[r]]  BY DEF Loaders
    <3>2. DOMAIN param' = Layers /\ param' = [l \in Layers |-> IF l = m THEN Loaders(m, t) ELSE param[l]]
      BY <1>5, <1>8
    <3>3. \A l \in Layers : param[l] = [r \in World |-> param[l][r]]  BY <1>5
    <3>4. \A l \in Layers : param'[l] = [r \in World |-> param'[l][r]]  BY <3>1, <3>2, <3>3
    <3> QED BY <3>2, <3>4
  <2> QED BY <1>2, <1>15, <2>1, <2>2 DEF WeightsArrive
<1> QED BY <1>3, <1>16

LEMMA WeightsStay ==
  ASSUME WeightIInv, Forward \/ UNCHANGED shardVars
  PROVE  LayersBuilt' /\ WeightsArrive'
<1>1. UNCHANGED shardVars  BY DEF Forward
<1>2. conf' = conf /\ statement' = statement /\ tp' = tp /\ coming' = coming /\ param' = param
  BY <1>1 DEF shardVars
<1>3. /\ Program' = Program /\ Layers' = Layers /\ World' = World /\ AllTensors' = AllTensors
  BY <1>2, ProgramStays
<1>4. LayersBuilt'  BY <1>2, <1>3 DEF WeightIInv, LayersBuilt
<1>5. WeightsArrive'
  <2> SUFFICES ASSUME statement = Len(Program) + 2, NEW m \in Layers, NEW r \in World
               PROVE  HasShards(param[m][r], m, Arrived(m), r)'
    BY <1>2, <1>3 DEF WeightIInv, WeightsArrive
  <2>1. PICK x, A : x = param[m][r] /\ A = Arrived(m)  OBVIOUS
  <2>2. HasShards(x, m, A, r)  BY <2>1 DEF WeightIInv, WeightsArrive
  <2>3. HasShards(x, m, A, r)'  BY <1>2, <2>2, HoldingStays
  <2>4. Arrived(m)' = A  BY <1>2, <2>1 DEF Arrived
  <2> QED BY <1>2, <2>1, <2>3, <2>4
<1> QED BY <1>4, <1>5

LEMMA WeightsNext == WeightIInv /\ [ShardNext]_shardVars => WeightIInv'
<1> SUFFICES ASSUME WeightIInv, [ShardNext]_shardVars PROVE WeightIInv'
  OBVIOUS
<1>1. ShardIInv'  BY EnterStep, LeaveStep, BuildStep, LoadSteps DEF ShardNext, WeightIInv
<1>2. LayersBuilt' /\ WeightsArrive'
  BY WeightsBuild, WeightsBegin, WeightsLoad, WeightsStay DEF ShardNext
<1> QED BY <1>1, <1>2 DEF WeightIInv

-----------------------------------------------------------------------------
(* The weights as the forward pass reads them. *)

LEMMA AllArrived ==
  ASSUME WeightIInv, Loaded
  PROVE  LayersCut /\ \A m \in Layers, r \in World : HasShards(param[m][r], m, 1..Len(Shards(m)), r)
<1>1. statement = Len(Program) + 2 /\ coming = {}  BY DEF Loaded
<1>2. statement > Len(Program)  BY <1>1, ProgramIs
<1>3. LayersCut  BY <1>2, AllBuilt DEF WeightIInv
<1>4. \A m : Arrived(m) = 1..Len(Shards(m))  BY <1>1 DEF Arrived
<1> QED BY <1>1, <1>3, <1>4 DEF WeightIInv, WeightsArrive

Cells(m) == {<<Shards(m)[k], h>> : k \in 1..Len(Shards(m)), h \in Int}

(* The weight w has the first n shards of layer m, one after the other. *)
Laid(w, m, r, n) ==
  /\ w \in Seq(Cells(m)) /\ Len(w) = Start(m, n + 1)
  /\ \A k \in 1..n : \A i \in 1..Height(m, k) : w[Start(m, k) + i] = ShardRows(m, k, r)[i]

LEMMA RowsAre ==
  ASSUME LayersCut, NEW m \in Layers, NEW k \in 1..Len(Shards(m)), NEW r \in World
  PROVE  /\ Height(m, k) \in Nat \ {0} /\ ShardRows(m, k, r) \in Seq(Cells(m))
         /\ Len(ShardRows(m, k, r)) = Height(m, k)
         /\ \A i \in 1..Height(m, k) : ShardRows(m, k, r)[i] \in Cells(m)
<1>1. PICK n, f : n = Height(m, k) /\ f = First(m, Shards(m)[k], r) /\ n \in Nat \ {0} /\ f \in Nat
  <2>1. k \in 1..6  BY ShardCount
  <2>2. Height(m, k) \in Nat \ {0}  BY <2>1, StartsFollow
  <2> QED BY <2>2, TurnIs
<1>2. ShardRows(m, k, r) = [i \in 1..n |-> <<Shards(m)[k], HeadIn(m, Shards(m)[k], f + i - 1)>>]
  BY <1>1 DEF ShardRows
<1>3. PICK u : u = ShardRows(m, k, r)  OBVIOUS
<1>4. \A i \in 1..n : u[i] \in Cells(m)
  <2> SUFFICES ASSUME NEW i \in 1..n PROVE u[i] \in Cells(m)
    OBVIOUS
  <2>1. PICK h : h = HeadIn(m, Shards(m)[k], f + i - 1)  OBVIOUS
  <2>2. h \in Int
    <3>1. f + i - 1 \in Nat  BY <1>1
    <3>2. conf \in Configs  BY DEF LayersCut
    <3> QED BY <2>1, <3>1, <3>2, HeadNat
  <2>3. u[i] = <<Shards(m)[k], h>>  BY <1>2, <1>3, <2>1
  <2> QED BY <2>2, <2>3 DEF Cells
<1>5. u \in [1..n -> Cells(m)]
  <2>1. u = [i \in 1..n |-> u[i]]  BY <1>2, <1>3
  <2> QED BY <1>4, <2>1
<1>6. u \in Seq(Cells(m)) /\ Len(u) = n  BY <1>1, <1>5, FunctionSeq
<1> QED BY <1>1, <1>3, <1>4, <1>6

LEMMA LaidMore ==
  ASSUME LayersCut, NEW m \in Layers, NEW r \in World, NEW n \in Nat, n + 1 \in 1..Len(Shards(m)),
         NEW w, Laid(w, m, r, n)
  PROVE  Laid(w \o ShardRows(m, n + 1, r), m, r, n + 1)
<1>1. PICK k : k = n + 1  OBVIOUS
<1>2. k \in 1..6 /\ k \in 1..Len(Shards(m)) /\ k + 1 \in 1..7 /\ k \in 1..7
  BY <1>1, ShardCount
<1>3. PICK u : u = ShardRows(m, k, r)  OBVIOUS
<1>4. PICK a, b, c : a = Start(m, k) /\ b = Height(m, k) /\ c = Start(m, k + 1) /\ a \in Nat /\ b \in Nat /\ c = a + b
  BY <1>2, StartsFollow
<1>5. u \in Seq(Cells(m)) /\ Len(u) = b  BY <1>2, <1>3, <1>4, RowsAre
<1>6. w \in Seq(Cells(m)) /\ Len(w) = a  BY <1>1, <1>4 DEF Laid
<1>7. PICK v : v = w \o u  OBVIOUS
<1>8. v \in Seq(Cells(m)) /\ Len(v) = c /\ \A i \in 1..c : v[i] = IF i <= a THEN w[i] ELSE u[i - a]
  <2>1. /\ v \in Seq(Cells(m)) /\ Len(v) = Len(w) + Len(u)
        /\ \A i \in 1..Len(w) + Len(u) : v[i] = IF i <= Len(w) THEN w[i] ELSE u[i - Len(w)]
    BY <1>5, <1>6, <1>7, ConcatProperties
  <2> QED BY <1>4, <1>5, <1>6, <2>1
<1>9. ASSUME NEW l \in 1..k, NEW i \in 1..Height(m, l)
      PROVE  v[Start(m, l) + i] = ShardRows(m, l, r)[i]
  <2>1. CASE l = k
    <3>1. i \in 1..b /\ a + i \in 1..c /\ ~ (a + i <= a) /\ (a + i) - a = i  BY <1>4, <2>1
    <3>2. v[a + i] = u[i]  BY <1>8, <3>1
    <3> QED BY <1>3, <1>4, <2>1, <3>2
  <2>2. CASE l # k
    <3>1. l \in 1..n /\ l < k /\ l \in 1..7 /\ l \in 1..6  BY <1>1, <1>2, <2>2
    <3>2. w[Start(m, l) + i] = ShardRows(m, l, r)[i]  BY <3>1 DEF Laid
    <3>3. PICK d, e : d = Start(m, l) /\ e = Height(m, l) /\ d \in Nat /\ e \in Nat
      BY <3>1, StartsFollow
    <3>4. d + e <= a  BY <1>2, <1>4, <3>1, <3>3, StartsGrow
    <3>5. d + i \in 1..c /\ d + i <= a
      <4>1. i \in 1..e  BY <3>3
      <4>2. a \in Nat /\ b \in Nat /\ c = a + b  BY <1>4
      <4> QED BY <3>3, <3>4, <4>1, <4>2
    <3>6. v[d + i] = w[d + i]  BY <1>8, <3>5
    <3> QED BY <3>2, <3>3, <3>6
  <2> QED BY <2>1, <2>2
<1>10. Laid(v, m, r, k)  BY <1>4, <1>8, <1>9 DEF Laid
<1> QED BY <1>1, <1>3, <1>7, <1>10

(* FlattenSeq recurs over the sequence: the recursion has a solution. *)
Flat(f, s, n) == f = [i \in 1..n |-> IF i = 1 THEN s[i] ELSE f[i - 1] \o s[i]]

LEMMA FlatExists ==
  ASSUME NEW s, NEW n \in Nat
  PROVE  \E f : Flat(f, s, n)
<1> DEFINE T == {m \in Nat : ~ \E f : Flat(f, s, m)}
<1>1. T = {}
  <2> SUFFICES ASSUME T # {} PROVE FALSE
    OBVIOUS
  <2>1. PICK m \in T : \A y \in T : m <= y
    <3>1. T \subseteq Nat
      OBVIOUS
    <3> HIDE DEF T
    <3> QED BY <3>1, NatLeast
  <2>2. m \in Nat /\ ~ \E f : Flat(f, s, m)  BY <2>1
  <2>3. m # 0
    <3>1. Flat([i \in 1..0 |-> s[i]], s, 0)  BY DEF Flat
    <3> QED BY <2>2, <3>1
  <2>4. m - 1 \in Nat /\ ~ (m <= m - 1)  BY <2>2, <2>3
  <2>5. PICK f : Flat(f, s, m - 1)  BY <2>1, <2>4
  <2> DEFINE h == [i \in 1..m |-> IF i = 1 THEN s[i] ELSE f[i - 1] \o s[i]]
  <2>6. ASSUME NEW i \in 1..(m - 1)
        PROVE  h[i] = f[i]
    <3>1. i \in 1..m  BY <2>2
    <3> QED BY <2>5, <3>1 DEF Flat
  <2>7. \A i \in 1..m : h[i] = IF i = 1 THEN s[i] ELSE h[i - 1] \o s[i]
    <3> SUFFICES ASSUME NEW i \in 1..m, i # 1 PROVE h[i] = h[i - 1] \o s[i]
      OBVIOUS
    <3>1. i - 1 \in 1..(m - 1)  BY <2>2
    <3>2. h[i] = f[i - 1] \o s[i]
      OBVIOUS
    <3> QED BY <2>6, <3>1, <3>2
  <2>8. Flat(h, s, m)  BY <2>7 DEF Flat
  <2> QED BY <2>2, <2>8
<1> QED BY <1>1

LEMMA FlatIsLaid ==
  ASSUME LayersCut, NEW m \in Layers, NEW r \in World, NEW s,
         Len(s) = Len(Shards(m)), \A k \in 1..Len(Shards(m)) : s[k] = ShardRows(m, k, r)
  PROVE  Laid(FlattenSeq(s), m, r, Len(Shards(m)))
<1>1. PICK n : n = Len(Shards(m)) /\ n \in 1..6  BY ShardCount
<1>2. PICK f : Flat(f, s, n) /\ FlattenSeq(s) = f[n]
  <2>1. FlattenSeq(s) = (CHOOSE f : Flat(f, s, n))[n]  BY <1>1 DEF FlattenSeq, Flat
  <2>2. \E f : Flat(f, s, n)
    <3>1. n \in Nat  BY <1>1
    <3> QED BY <3>1, FlatExists
  <2> QED BY <2>1, <2>2
<1>3. \A k \in 1..n : f[k] = IF k = 1 THEN s[k] ELSE f[k - 1] \o s[k]  BY <1>2 DEF Flat
<1> DEFINE T == {k \in Nat : k \in 1..n /\ ~ Laid(f[k], m, r, k)}
<1>4. T = {}
  <2> SUFFICES ASSUME T # {} PROVE FALSE
    OBVIOUS
  <2>1. PICK k \in T : \A y \in T : k <= y
    <3>1. T \subseteq Nat
      OBVIOUS
    <3> HIDE DEF T
    <3> QED BY <3>1, NatLeast
  <2>2. k \in 1..n /\ ~ Laid(f[k], m, r, k)  BY <2>1
  <2>3. PICK l : l = k - 1 /\ l \in Nat /\ k = l + 1  BY <1>1, <2>2
  <2>4. CASE l = 0
    <3>1. PICK u : u = ShardRows(m, 1, r)  OBVIOUS
    <3>2. 1 \in 1..n /\ 1 \in 1..6 /\ 1 + 1 = 2  BY <1>1
    <3>3. f[1] = u  BY <1>1, <1>3, <3>1, <3>2
    <3>4. u \in Seq(Cells(m)) /\ Len(u) = Height(m, 1) /\ Height(m, 1) \in Nat
      BY <1>1, <3>1, <3>2, RowsAre
    <3>5. Start(m, 1) = 0 /\ Start(m, 2) = Height(m, 1)  BY <3>2, <3>4, StartsFollow
    <3>6. \A j \in 1..1 : \A i \in 1..Height(m, j) : u[Start(m, j) + i] = ShardRows(m, j, r)[i]
      <4> SUFFICES ASSUME NEW i \in 1..Height(m, 1) PROVE u[Start(m, 1) + i] = ShardRows(m, 1, r)[i]
        OBVIOUS
      <4>1. Start(m, 1) + i = i  BY <3>4, <3>5
      <4> QED BY <3>1, <4>1
    <3>7. Laid(u, m, r, 1)  BY <3>2, <3>4, <3>5, <3>6 DEF Laid
    <3> QED BY <2>2, <2>3, <2>4, <3>3, <3>7
  <2>5. CASE l # 0
    <3>1. l \in 1..n /\ ~ (k <= l) /\ k # 1  BY <1>1, <2>2, <2>3, <2>5
    <3>2. Laid(f[l], m, r, l)  BY <2>1, <2>3, <3>1
    <3>3. f[k] = f[l] \o s[k]  BY <1>3, <2>2, <2>3, <3>1
    <3>4. s[k] = ShardRows(m, l + 1, r) /\ l + 1 \in 1..Len(Shards(m))  BY <1>1, <2>2, <2>3
    <3>5. Laid(f[k], m, r, k)  BY <2>3, <3>2, <3>3, <3>4, LaidMore
    <3> QED BY <2>2, <3>5
  <2> QED BY <2>4, <2>5
<1>5. n \in 1..n /\ n \in Nat  BY <1>1
<1>6. Laid(f[n], m, r, n)  BY <1>4, <1>5
<1> QED BY <1>1, <1>2, <1>6

(* Shards kept as they came are put in logical order. *)
OfShard(p, k) == CHOOSE e \in ToSet(p) : e.shard = k
InOrder(p, m, r, n) ==
  /\ DOMAIN p = 1..n
  /\ \A k \in 1..n : LogicalOrder(p)[k] = k /\ OfShard(p, k) = Record(m, k, r)

LEMMA LogicalIs ==
  ASSUME NEW m, NEW r, NEW n \in Nat, NEW p, Lists(p, {Record(m, k, r) : k \in 1..n})
  PROVE  InOrder(p, m, r, n)
<1>1. PICK X : X = {Record(m, k, r) : k \in 1..n}  OBVIOUS
<1>2. \A k \in 1..n : Record(m, k, r).shard = k  BY DEF Record
<1>3. Lists(p, X)  BY <1>1
<1>4. PICK l \in Nat : /\ p \in [1..l -> X]
                       /\ \A x \in X : \E i \in 1..l : p[i] = x
  BY <1>3 DEF Lists
<1>5. Cardinality(X) = n
  <2> DEFINE g == [k \in 1..n |-> Record(m, k, r)]
  <2>1. X = {g[k] : k \in 1..n} /\ \A i, j \in 1..n : g[i] = g[j] => i = j  BY <1>1, <1>2
  <2>2. IsFiniteSet(1..n) /\ Cardinality(1..n) = n  BY FS_Interval
  <2> HIDE DEF g
  <2> QED BY <2>1, <2>2, ListSize
<1>6. Len(p) = Cardinality(X) /\ ToSet(p) = X  BY <1>3, ListsSum DEF SumOf
<1>7. l = n
  <2>1. Len(p) = l  BY <1>4, FunctionSeq
  <2> QED BY <1>5, <1>6, <2>1
<1>8. DOMAIN p = 1..n  BY <1>4, <1>7
<1> DEFINE came == {p[i].shard : i \in DOMAIN p}
<1>9. came = 1..n
  <2>1. \A i \in 1..n : \E k \in 1..n : p[i] = Record(m, k, r)  BY <1>1, <1>4, <1>7
  <2>2. \A k \in 1..n : \E i \in 1..n : p[i] = Record(m, k, r)  BY <1>1, <1>4, <1>7
  <2>3. ASSUME NEW k \in 1..n PROVE k \in came
    <3>1. PICK i \in 1..n : p[i] = Record(m, k, r)  BY <2>2
    <3>2. p[i].shard = k /\ i \in DOMAIN p  BY <1>2, <1>8, <3>1
    <3> QED BY <3>2
  <2>4. ASSUME NEW i \in DOMAIN p PROVE p[i].shard \in 1..n
    <3>1. PICK k \in 1..n : p[i] = Record(m, k, r)  BY <1>8, <2>1
    <3> QED BY <1>2, <3>1
  <2> QED BY <2>3, <2>4
<1> HIDE DEF came
<1>10. \A k \in 1..n : Cardinality({l2 \in came : l2 <= k}) = k
  <2> SUFFICES ASSUME NEW k \in 1..n PROVE Cardinality({l2 \in came : l2 <= k}) = k
    OBVIOUS
  <2>1. {l2 \in came : l2 <= k} = 1..k  BY <1>9
  <2>2. k \in Nat
    OBVIOUS
  <2>3. Cardinality(1..k) = k  BY <2>2, FS_Interval
  <2> QED BY <2>1, <2>3
<1>11. ASSUME NEW k \in 1..n
       PROVE  LogicalOrder(p)[k] = k
  <2>1. LogicalOrder(p) = [j \in DOMAIN p |-> CHOOSE i \in came : Cardinality({l2 \in came : l2 <= i}) = j]
    BY DEF LogicalOrder, came
  <2>2. LogicalOrder(p)[k] = CHOOSE i \in came : Cardinality({l2 \in came : l2 <= i}) = k
    BY <1>8, <2>1
  <2>3. \A i \in came : Cardinality({l2 \in came : l2 <= i}) = k <=> i = k  BY <1>9, <1>10
  <2>4. k \in came  BY <1>9
  <2> QED BY <2>2, <2>3, <2>4
<1>12. ASSUME NEW k \in 1..n
       PROVE  OfShard(p, k) = Record(m, k, r)
  <2>1. Record(m, k, r) \in ToSet(p) /\ Record(m, k, r).shard = k  BY <1>1, <1>2, <1>6
  <2>2. \A e \in ToSet(p) : e.shard = k => e = Record(m, k, r)  BY <1>1, <1>2, <1>6
  <2> QED BY <2>1, <2>2 DEF OfShard
<1> QED BY <1>8, <1>11, <1>12 DEF InOrder

WeightRight(w, m, r) ==
  /\ DOMAIN w = 1..Width(m) /\ w = [j \in DOMAIN w |-> w[j]]
  /\ \A k \in 1..Len(Shards(m)) : StoredShard(w, m, k, r)

LEMMA WeightIs ==
  ASSUME LayersCut, NEW m \in Layers, NEW r \in World,
         HasShards(param[m][r], m, 1..Len(Shards(m)), r)
  PROVE  WeightRight(Weight(m, r), m, r)
<1>1. CASE ~ Contained(m)
  <2>1. Weight(m, r) = param[m][r]  BY <1>1 DEF Weight
  <2> QED BY <1>1, <2>1 DEF HasShards, WeightRight
<1>2. CASE Contained(m)
  <2>1. PICK p, n : p = param[m][r] /\ n = Len(Shards(m)) /\ n \in Nat
    <3>1. Len(Shards(m)) \in Nat  BY ShardCount
    <3> QED BY <3>1
  <2>2. Lists(p, {Record(m, k, r) : k \in 1..n})  BY <1>2, <2>1 DEF HasShards
  <2>3. /\ DOMAIN p = 1..n
        /\ \A k \in 1..n : LogicalOrder(p)[k] = k /\ OfShard(p, k) = Record(m, k, r)
    <3>1. InOrder(p, m, r, n)  BY <2>1, <2>2, LogicalIs
    <3> QED BY <3>1 DEF InOrder
  <2>4. PICK s : s = [k \in DOMAIN p |-> OfShard(p, LogicalOrder(p)[k]).rows]  OBVIOUS
  <2>5. Weight(m, r) = FlattenSeq(s)  BY <1>2, <2>1, <2>4 DEF Weight, OfShard
  <2>6. \A k \in 1..n : s[k] = ShardRows(m, k, r)
    <3> SUFFICES ASSUME NEW k \in 1..n PROVE s[k] = ShardRows(m, k, r)
      OBVIOUS
    <3>1. s[k] = OfShard(p, LogicalOrder(p)[k]).rows  BY <2>3, <2>4
    <3>2. LogicalOrder(p)[k] = k  BY <2>3
    <3>3. OfShard(p, k) = Record(m, k, r)  BY <2>3
    <3>4. s[k] = Record(m, k, r).rows  BY <3>1, <3>2, <3>3
    <3> QED BY <3>4 DEF Record
  <2>7. Len(s) = n
    <3>1. s \in [1..n -> {s[k] : k \in 1..n}]  BY <2>3, <2>4
    <3> QED BY <2>1, <3>1, FunctionSeq
  <2>8. PICK w : w = FlattenSeq(s)  OBVIOUS
  <2>9. Laid(w, m, r, n)  BY <2>1, <2>6, <2>7, <2>8, FlatIsLaid
  <2>10. w \in Seq(Cells(m)) /\ Len(w) = Width(m)  BY <2>1, <2>9 DEF Laid, Width
  <2>11. DOMAIN w = 1..Width(m) /\ w = [j \in DOMAIN w |-> w[j]]  BY <2>10
  <2>12. ~ conf.interleave  BY <1>2, ConfigIs DEF LayersCut, Contained
  <2>13. \A k \in 1..n : StoredShard(w, m, k, r)
    <3>1. \A k, i : Spot(m, k, i) = Start(m, k) + i  BY <2>12 DEF Spot
    <3> QED BY <2>9, <3>1 DEF Laid, StoredShard
  <2> QED BY <2>1, <2>5, <2>8, <2>11, <2>13 DEF WeightRight
<1> QED BY <1>1, <1>2

(* Where gate and up are not interleaved a block is what the rank kept of the *)
(* shard. *)
LEMMA BlockIs ==
  ASSUME LayersCut, NEW m \in Layers, NEW r \in World, WeightRight(Weight(m, r), m, r),
         ~ (m = "gate_up" /\ conf.interleave), NEW k \in 1..Len(Shards(m))
  PROVE  Block(m, k, r) = ShardRows(m, k, r)
<1>1. PICK w : w = Weight(m, r)  OBVIOUS
<1>2. k \in 1..6 /\ k \in 1..7 /\ k + 1 \in 1..7  BY ShardCount
<1>3. PICK a, b : a = Start(m, k) /\ b = Height(m, k) /\ Start(m, k + 1) = a + b /\ a \in Nat /\ b \in Nat \ {0}
  BY <1>2, StartsFollow
<1>4. offset(m, k, r) = a /\ offset(m, k + 1, r) = a + b  BY <1>2, <1>3, OffsetIs
<1>5. PICK u : u = SubSeq(w, a + 1, a + b)  OBVIOUS
<1>6. Block(m, k, r) = u  BY <1>1, <1>4, <1>5 DEF Block
<1>7. \A i \in 1..b : w[a + i] = ShardRows(m, k, r)[i]
  <2>1. \A i : Spot(m, k, i) = a + i  BY <1>3 DEF Spot
  <2> QED BY <1>1, <1>3, <2>1 DEF WeightRight, StoredShard
<1>8. PICK v : v = ShardRows(m, k, r)  OBVIOUS
<1>9. v \in Seq(Cells(m)) /\ Len(v) = b /\ \A i \in 1..b : v[i] \in Cells(m)
  BY <1>3, <1>8, RowsAre
<1>10. PICK c, d : c = a + 1 /\ d = a + b /\ c \in Int /\ d \in Int /\ c <= d /\ d - c + 1 = b
  BY <1>3
<1>11. \A i \in c..d : w[i] \in Cells(m)
  <2> SUFFICES ASSUME NEW i \in c..d PROVE w[i] \in Cells(m)
    OBVIOUS
  <2>1. PICK j : j = i - a /\ j \in 1..b /\ a + j = i
    <3>1. i \in a + 1..a + b /\ a \in Nat /\ b \in Nat  BY <1>3, <1>10
    <3>2. i - a \in 1..b /\ a + (i - a) = i  BY <3>1
    <3> QED BY <3>2
  <2>2. w[i] = v[j]  BY <1>7, <1>8, <2>1
  <2> QED BY <1>9, <2>1, <2>2
<1>12. u = SubSeq(w, c, d)  BY <1>5, <1>10
<1>13. u \in Seq(Cells(m)) /\ Len(u) = b /\ \A i \in 1..b : u[i] = w[c + i - 1]
  <2>1. CutOut(Cells(m), w, c, d, b, u)  BY <1>10, <1>11, <1>12, SubSeqIs
  <2> QED BY <2>1, Zenon DEF CutOut
<1>14. \A i \in 1..b : u[i] = v[i]
  <2> SUFFICES ASSUME NEW i \in 1..b PROVE u[i] = v[i]
    OBVIOUS
  <2>1. c + i - 1 = a + i  BY <1>3, <1>10
  <2> QED BY <1>7, <1>8, <1>13, <2>1
<1>15. u = v  BY <1>3, <1>9, <1>13, <1>14
<1> QED BY <1>6, <1>8, <1>15

-----------------------------------------------------------------------------
(* What the ranks compute, put together. *)

(* The ranks of S compute the n terms each of T that are their turn. *)
SharedOut(loc, S, turns, t, n, T) ==
  /\ \A r \in S : turns[r] \in 0..t - 1 /\ loc[r] = [j \in 1..n |-> T[turns[r] * n + j - 1]]
  /\ \A r, s \in S : turns[r] = turns[s] => r = s
  /\ \A i \in 0..t - 1 : \E r \in S : turns[r] = i
  /\ \A h, g \in 0..t * n - 1 : T[h] = T[g] => h = g

LEMMA OneShare ==
  ASSUME NEW t \in Nat \ {0}, NEW n \in Nat \ {0}, NEW a \in 0..t - 1, NEW j \in 1..n
  PROVE  /\ a * n + j - 1 \in 0..t * n - 1 /\ (a * n + j - 1) \div n = a
         /\ a * n + j - 1 - a * n + 1 = j
<1>1. PICK h, m, w : h = a * n + j - 1 /\ m = a * n /\ w = t * n  OBVIOUS
<1>2. m \in Nat /\ w \in Nat /\ m + n <= w
  <2>1. a + 1 \in Int /\ t \in Int /\ a + 1 <= t
    OBVIOUS
  <2>2. n * (a + 1) <= n * t  BY <2>1, TimesOrder
  <2>3. n * (a + 1) = a * n + n /\ n * t = t * n /\ a * n \in Nat /\ t * n \in Nat
    OBVIOUS
  <2> QED BY <1>1, <2>2, <2>3
<1>3. h = m + j - 1 /\ h \in 0..w - 1 /\ h - m + 1 = j  BY <1>1, <1>2
<1>4. h \div n = a
  <2>1. n * a = m  BY <1>1
  <2>2. h \in Int /\ a \in Int /\ n * a <= h /\ h < n * a + n  BY <1>2, <1>3, <2>1
  <2> QED BY <2>2, DivUnique
<1> QED BY <1>1, <1>3, <1>4

LEMMA ShareOf ==
  ASSUME NEW t \in Nat \ {0}, NEW n \in Nat \ {0}, NEW h \in 0..t * n - 1
  PROVE  \E a \in 0..t - 1 : \E j \in 1..n : h = a * n + j - 1
<1>1. PICK a, c : a = h \div n /\ c = h % n  OBVIOUS
<1>2. h \in Nat /\ h < n * t
  OBVIOUS
<1>3. a \in Nat /\ a < t
  <2>1. a \in Nat  BY <1>1, <1>2, DivNat
  <2>2. h \in Int /\ t \in Int  BY <1>2
  <2>3. h \div n < t  BY <1>2, <2>2, DivLess
  <2> QED BY <1>1, <2>1, <2>3
<1>4. c \in Nat /\ c < n /\ c = h - n * a
  <2>1. h \in Int  BY <1>2
  <2> QED BY <1>1, <2>1, DivType, DivMod
<1>5. PICK m : m = a * n /\ m = n * a /\ m \in Nat  BY <1>3
<1>6. c + 1 \in 1..n /\ h = m + (c + 1) - 1  BY <1>2, <1>4, <1>5
<1>7. a \in 0..t - 1  BY <1>3
<1> QED BY <1>5, <1>6, <1>7

TheTerms(T, n) == {T[h] : h \in 0..n - 1}

LEMMA SharesListed ==
  ASSUME NEW S, IsFiniteSet(S), NEW loc, NEW turns, NEW t \in Nat \ {0}, NEW n \in Nat \ {0}, NEW T,
         SharedOut(loc, S, turns, t, n, T)
  PROVE  Lists(all_reduce(loc, S), TheTerms(T, t * n))
<1> DEFINE terms == [r \in S |-> {T[turns[r] * n + j - 1] : j \in 1..n}]
<1>1. /\ \A r \in S : turns[r] \in 0..t - 1 /\ loc[r] = [j \in 1..n |-> T[turns[r] * n + j - 1]]
      /\ \A r, s \in S : turns[r] = turns[s] => r = s
      /\ \A i \in 0..t - 1 : \E r \in S : turns[r] = i
      /\ \A h, g \in 0..t * n - 1 : T[h] = T[g] => h = g
  BY DEF SharedOut
<1>2. ASSUME NEW r \in S
      PROVE  Lists(loc[r], terms[r])
  <2>1. PICK a \in 0..t - 1 : a = turns[r]  BY <1>1
  <2>2. loc[r] = [j \in 1..n |-> T[a * n + j - 1]] /\ terms[r] = {T[a * n + j - 1] : j \in 1..n}
    <3>1. loc[r] = [j \in 1..n |-> T[turns[r] * n + j - 1]]  BY <1>1
    <3>2. terms[r] = {T[turns[r] * n + j - 1] : j \in 1..n}
      OBVIOUS
    <3> HIDE DEF terms
    <3> QED BY <2>1, <3>1, <3>2
  <2>3. PICK u, X : u = loc[r] /\ X = terms[r]  OBVIOUS
  <2>4. u \in [1..n -> X] /\ \A x \in X : \E i \in 1..n : u[i] = x  BY <2>2, <2>3
  <2>5. ASSUME NEW i \in 1..n, NEW j \in 1..n, u[i] = u[j]
        PROVE  i = j
    <3>1. PICK h, g : h = a * n + i - 1 /\ g = a * n + j - 1  OBVIOUS
    <3>2. h \in 0..t * n - 1 /\ g \in 0..t * n - 1  BY <3>1, OneShare
    <3>3. T[h] = T[g]  BY <2>2, <2>3, <2>5, <3>1
    <3>4. h = g  BY <1>1, <3>2, <3>3
    <3>5. h - a * n + 1 = i /\ g - a * n + 1 = j  BY <3>1, OneShare
    <3> QED BY <3>4, <3>5
  <2> QED BY <2>3, <2>4, <2>5 DEF Lists
<1>3. ASSUME NEW r \in S, NEW s \in S, r # s, NEW x \in terms[r], x \in terms[s]
      PROVE  FALSE
  <2>1. PICK a \in 0..t - 1, b \in 0..t - 1 : a = turns[r] /\ b = turns[s]  BY <1>1
  <2>2. PICK i \in 1..n : x = T[a * n + i - 1]  BY <2>1
  <2>3. PICK j \in 1..n : x = T[b * n + j - 1]  BY <1>3, <2>1
  <2>4. PICK h, g : h = a * n + i - 1 /\ g = b * n + j - 1  OBVIOUS
  <2>5. h \in 0..t * n - 1 /\ g \in 0..t * n - 1 /\ h \div n = a /\ g \div n = b
    BY <2>4, OneShare
  <2>6. h = g  BY <1>1, <2>2, <2>3, <2>4, <2>5
  <2>7. a = b  BY <2>5, <2>6
  <2> QED BY <1>1, <1>3, <2>1, <2>7
<1>4. AllList(loc, terms, S)  BY <1>2, <1>3 DEF AllList
<1>5. AllTerms(terms, S) = {T[h] : h \in 0..t * n - 1}
  <2>1. ASSUME NEW r \in S, NEW j \in 1..n
        PROVE  turns[r] * n + j - 1 \in 0..t * n - 1
    <3>1. PICK a \in 0..t - 1 : a = turns[r]  BY <1>1
    <3> QED BY <3>1, OneShare
  <2>2. ASSUME NEW h \in 0..t * n - 1
        PROVE  \E r \in S : \E j \in 1..n : h = turns[r] * n + j - 1
    <3>1. PICK a \in 0..t - 1 : \E j \in 1..n : h = a * n + j - 1  BY ShareOf
    <3>2. PICK r \in S : turns[r] = a  BY <1>1
    <3> QED BY <3>1, <3>2
  <2>3. AllTerms(terms, S) \subseteq {T[h] : h \in 0..t * n - 1}  BY <2>1 DEF AllTerms
  <2>4. ASSUME NEW h \in 0..t * n - 1
        PROVE  T[h] \in AllTerms(terms, S)
    <3>1. PICK r \in S : \E j \in 1..n : h = turns[r] * n + j - 1  BY <2>2
    <3>2. T[h] \in terms[r]  BY <3>1
    <3> QED BY <3>2 DEF AllTerms
  <2> QED BY <2>3, <2>4
<1> HIDE DEF terms
<1>6. Lists(all_reduce(loc, S), AllTerms(terms, S))  BY <1>4, AllReduceLists
<1> QED BY <1>5, <1>6 DEF TheTerms

(* All ranks, each in its turn. *)
LEMMA WorldLists ==
  ASSUME LayersCut, NEW loc, NEW n \in Nat \ {0}, NEW T,
         \A r \in World : loc[r] = [j \in 1..n |-> T[r * n + j - 1]],
         \A h, g \in 0..conf.tp * n - 1 : T[h] = T[g] => h = g
  PROVE  Lists(all_reduce(loc, World), TheTerms(T, conf.tp * n))
<1>1. PICK t : t = conf.tp /\ t \in Nat \ {0} /\ World = 0..t - 1
  BY ConfigIs DEF LayersCut, World
<1> DEFINE turns == [r \in World |-> r]
<1>2. SharedOut(loc, World, turns, t, n, T)  BY <1>1 DEF SharedOut
<1>3. IsFiniteSet(World)
  <2>1. t - 1 \in Int  BY <1>1
  <2>2. IsFiniteSet(0..t - 1)  BY <2>1, FS_Interval
  <2> QED BY <1>1, <2>2
<1> HIDE DEF turns
<1>4. Lists(all_reduce(loc, World), TheTerms(T, t * n))  BY <1>1, <1>2, <1>3, SharesListed
<1> QED BY <1>1, <1>4

(* t ranks, v key heads with c ranks each, n query and k key heads on a rank, *)
(* g query heads to a key head. *)
Grouped(t, v, c, n, k, g) ==
  /\ t \in Nat \ {0} /\ v \in Nat \ {0} /\ c \in Nat \ {0} /\ n \in Nat \ {0} /\ k \in Nat \ {0}
  /\ g \in Nat \ {0}
  /\ t * n = v * g /\ v * c = t * k /\ (c = 1 \/ t = v * c)

LEMMA GroupsMeet ==
  ASSUME NEW t, NEW v, NEW c, NEW n, NEW k, NEW g, Grouped(t, v, c, n, k, g),
         NEW r \in 0..t - 1, NEW j \in 1..n
  PROVE  /\ (j - 1) \div (n \div k) + 1 \in 1..k
         /\ (r \div c) * k + (j - 1) \div (n \div k) = (r * n + j - 1) \div g
<1>1. /\ t \in Nat \ {0} /\ v \in Nat \ {0} /\ c \in Nat \ {0} /\ n \in Nat \ {0} /\ k \in Nat \ {0}
      /\ g \in Nat \ {0}
      /\ t * n = v * g /\ v * c = t * k /\ (c = 1 \/ t = v * c)
  BY DEF Grouped
<1>2. r \in Nat /\ j - 1 \in Nat /\ j - 1 < n  BY <1>1
<1>3. CASE c = 1
  <2>1. v = t * k  BY <1>1, <1>3
  <2>2. PICK kg : kg = k * g /\ kg \in Nat  BY <1>1
  <2>3. t * n = t * kg
    <3>1. t * kg = (t * k) * g  BY <1>1, <2>2
    <3> QED BY <1>1, <2>1, <3>1
  <2>4. n = kg  BY <1>1, <2>2, <2>3, Cancel
  <2>5. n \div k = g
    <3>1. n = k * g /\ n \in Nat \ {0}  BY <1>1, <2>2, <2>4
    <3>2. n \in Int /\ g \in Int /\ k * g <= n /\ n < k * g + k  BY <1>1, <3>1
    <3> QED BY <1>1, <3>2, DivUnique
  <2>6. PICK e : e = (j - 1) \div g /\ e \in Nat  BY <1>1, <1>2, DivNat
  <2>7. g * e <= j - 1 /\ j - 1 < g * e + g
    <3>1. j - 1 \in Int  BY <1>2
    <3> QED BY <1>1, <2>6, <3>1, DivBounds
  <2>8. e < k
    <3>1. j - 1 \in Int /\ k \in Int /\ j - 1 < g * k
      <4>1. g * k = k * g  BY <1>1
      <4> QED BY <1>1, <1>2, <2>2, <2>4, <4>1
    <3>2. (j - 1) \div g < k  BY <1>1, <3>1, DivLess
    <3> QED BY <2>6, <3>2
  <2>9. r \div c = r
    <3>1. r \in Int /\ 1 \in Nat \ {0} /\ 1 * r <= r /\ r < 1 * r + 1  BY <1>2
    <3>2. r \div 1 = r  BY <3>1, DivUnique
    <3> QED BY <1>3, <3>2
  <2>10. (r * n + j - 1) \div g = r * k + e
    <3>1. PICK rk, rn : rk = r * k /\ rn = r * n /\ rk \in Nat /\ rn \in Nat  BY <1>1, <1>2
    <3>2. g * rk = rn
      <4>1. g * (r * k) = r * (k * g)  BY <1>1, <1>2
      <4> QED BY <2>2, <2>4, <3>1, <4>1
    <3>3. PICK ge : ge = g * e /\ ge \in Nat  BY <1>1, <2>6
    <3>4. g * (rk + e) = rn + ge
      <4>1. g * (rk + e) = g * rk + g * e  BY <1>1, <2>6, <3>1
      <4> QED BY <3>2, <3>3, <4>1
    <3>5. PICK h : h = rn + j - 1  OBVIOUS
    <3>6. h \in Int /\ rk + e \in Int /\ g * (rk + e) <= h /\ h < g * (rk + e) + g
      BY <1>1, <1>2, <2>6, <2>7, <3>1, <3>3, <3>4, <3>5
    <3>7. h \div g = rk + e  BY <1>1, <3>6, DivUnique
    <3> QED BY <3>1, <3>5, <3>7
  <2>11. e + 1 \in 1..k  BY <1>1, <2>6, <2>8
  <2> QED BY <2>5, <2>6, <2>9, <2>10, <2>11
<1>4. CASE t = v * c
  <2>1. k = 1
    <3>1. t * k = t * 1  BY <1>1, <1>4
    <3> QED BY <1>1, <3>1, Cancel
  <2>2. n \div k = n
    <3>1. n \in Int /\ 1 \in Nat \ {0} /\ 1 * n <= n /\ n < 1 * n + 1  BY <1>1
    <3>2. n \div 1 = n  BY <3>1, DivUnique
    <3> QED BY <2>1, <3>2
  <2>3. (j - 1) \div n = 0
    <3>1. j - 1 \in Int /\ 0 \in Int /\ n * 0 <= j - 1 /\ j - 1 < n * 0 + n  BY <1>1, <1>2
    <3> QED BY <1>1, <3>1, DivUnique
  <2>4. g = c * n
    <3>1. PICK cn : cn = c * n /\ cn \in Nat  BY <1>1
    <3>2. v * g = v * cn
      <4>1. v * (c * n) = (v * c) * n  BY <1>1
      <4> QED BY <1>1, <1>4, <3>1, <4>1
    <3> QED BY <1>1, <3>1, <3>2, Cancel
  <2>5. PICK a : a = r \div c /\ a \in Nat  BY <1>1, <1>2, DivNat
  <2>6. c * a <= r /\ r < c * a + c
    <3>1. r \in Int  BY <1>2
    <3> QED BY <1>1, <2>5, <3>1, DivBounds
  <2>7. (r * n + j - 1) \div g = a
    <3>1. PICK rn, ga, ca : rn = r * n /\ ga = g * a /\ ca = c * a /\ rn \in Nat /\ ga \in Nat /\ ca \in Nat
      <4>1. r * n \in Nat  BY <1>1, <1>2
      <4>2. a \in Nat /\ g \in Nat /\ c \in Nat  BY <1>1, <2>5
      <4>3. g * a \in Nat /\ c * a \in Nat  BY <4>2
      <4> QED BY <4>1, <4>3
    <3>2. ga = n * ca
      <4>1. (c * n) * a = n * (c * a)  BY <1>1, <2>5
      <4> QED BY <2>4, <3>1, <4>1
    <3>3. ga <= rn
      <4>1. n * ca <= n * r
        <5>1. ca \in Int /\ r \in Int /\ ca <= r  BY <1>2, <2>6, <3>1
        <5> QED BY <1>1, <5>1, TimesOrder
      <4>2. n * r = r * n  BY <1>1, <1>2
      <4> QED BY <3>1, <3>2, <4>1, <4>2
    <3>4. rn + n <= ga + g
      <4>1. n * (r + 1) <= n * (ca + c)
        <5>1. r + 1 \in Int /\ ca + c \in Int /\ r + 1 <= ca + c  BY <1>1, <1>2, <2>6, <3>1
        <5> QED BY <1>1, <5>1, TimesOrder
      <4>2. n * (r + 1) = r * n + n /\ n * (ca + c) = n * ca + c * n  BY <1>1, <1>2, <3>1
      <4> QED BY <2>4, <3>1, <3>2, <4>1, <4>2
    <3>5. PICK h : h = rn + j - 1  OBVIOUS
    <3>6. h \in Int /\ a \in Int /\ g * a <= h /\ h < g * a + g
      BY <1>1, <1>2, <2>5, <3>1, <3>3, <3>4, <3>5
    <3>7. h \div g = a  BY <1>1, <3>6, DivUnique
    <3> QED BY <3>1, <3>5, <3>7
  <2>8. a * k + 0 = a  BY <2>1, <2>5
  <2>9. (j - 1) \div (n \div k) = 0  BY <2>2, <2>3
  <2>10. 0 + 1 \in 1..k  BY <2>1
  <2> QED BY <2>5, <2>7, <2>8, <2>9, <2>10
<1> QED BY <1>1, <1>3, <1>4

Ready == LayersCut /\ \A m \in Layers, r \in World : WeightRight(Weight(m, r), m, r)

LEMMA ReadyWhenLoaded ==
  ASSUME WeightIInv, Loaded
  PROVE  Ready
BY AllArrived, WeightIs DEF Ready

LEMMA MixersAreLayers ==
  {"in_proj", "conv1d", "state", "out_proj", "qkv", "o_proj"} \subseteq Layers
<1>1. PICK p : p = Program  OBVIOUS
<1>2. p \in {DenseProgram, SharedProgram, RoutedProgram}  BY <1>1 DEF Program
<1>3. {"in_proj", "conv1d", "state", "out_proj", "qkv", "o_proj"} \subseteq ToSet(p)
  BY <1>2 DEF DenseProgram, SharedProgram, RoutedProgram, ToSet
<1> QED BY <1>1, <1>3 DEF Layers

(* A layer with one shard has its rows in order. *)
LEMMA SingleIs ==
  ASSUME Ready, NEW m \in Layers, m \notin {"gate_up"}, NEW r \in World, NEW j \in 1..Height(m, 1)
  PROVE  Weight(m, r)[j] = ShardRows(m, 1, r)[j]
<1>1. LayersCut /\ WeightRight(Weight(m, r), m, r)  BY DEF Ready
<1>2. 1 \in 1..Len(Shards(m)) /\ 1 \in 1..6
  <2>1. PICK n : n = Len(Shards(m)) /\ n \in 1..6  BY <1>1, ShardCount
  <2> QED BY <2>1
<1>3. Start(m, 1) = 0 /\ Height(m, 1) \in Nat  BY <1>1, <1>2, StartsFollow
<1>4. Spot(m, 1, j) = j
  <2>1. Spot(m, 1, j) = Start(m, 1) + j  BY DEF Spot
  <2> QED BY <1>3, <2>1
<1> QED BY <1>1, <1>2, <1>4 DEF WeightRight, StoredShard

(* The first head a rank keeps of a layer that all ranks share. *)
LEMMA FirstOf ==
  ASSUME LayersCut, NEW m \in Layers, ~ InFours(m), NEW s, ~ (m = "qkv" /\ s # "Q"), NEW r \in World
  PROVE  First(m, s, r) = r * Size(m, s) /\ Total(m, s) = conf.tp * Size(m, s)
<1>1. Turn(m, s, r) = r  BY DEF Turn, RankIn
<1>2. output_size(m, s) = Total(m, s) /\ Over(m) = conf.tp  BY DEF output_size, Over
<1> QED BY <1>1, <1>2, SizesAre DEF First

AttentionTerms ==
  [h \in 0..conf.heads - 1 |->
     << <<"Q", h>>, <<"K", h \div (conf.heads \div conf.kv)>>,
        <<"V", h \div (conf.heads \div conf.kv)>>, <<"in", h>> >>]

LEMMA QkvIs ==
  ASSUME LayersCut
  PROVE  /\ Shards("qkv") = <<"Q", "K", "V">> /\ Len(Shards("qkv")) = 3
         /\ Shards("qkv")[1] = "Q" /\ Shards("qkv")[2] = "K" /\ Shards("qkv")[3] = "V"
         /\ Shards("o_proj") = <<"in">> /\ Len(Shards("o_proj")) = 1 /\ Shards("o_proj")[1] = "in"
         /\ Height("o_proj", 1) = Height("qkv", 1) /\ Height("qkv", 3) = Height("qkv", 2)
         /\ ~ InFours("qkv") /\ ~ InFours("o_proj")
<1>1. /\ Shards("qkv") = <<"Q", "K", "V">> /\ Len(Shards("qkv")) = 3
      /\ Shards("qkv")[1] = "Q" /\ Shards("qkv")[2] = "K" /\ Shards("qkv")[3] = "V"
      /\ Shards("o_proj") = <<"in">> /\ Len(Shards("o_proj")) = 1 /\ Shards("o_proj")[1] = "in"
  BY DEF Shards
<1>2. ~ InFours("qkv") /\ ~ InFours("o_proj")  BY DEF InFours
<1>3. Over("qkv") = conf.tp /\ Over("o_proj") = conf.tp  BY <1>2 DEF Over
<1>4. /\ output_size("qkv", "Q") = conf.heads /\ output_size("o_proj", "in") = conf.heads
      /\ output_size("qkv", "K") = output_size("qkv", "V")
  BY DEF output_size, Total
<1>5. Height("o_proj", 1) = Height("qkv", 1) /\ Height("qkv", 3) = Height("qkv", 2)
  BY <1>1, <1>3, <1>4 DEF Height, Size
<1> QED BY <1>1, <1>2, <1>5

LEMMA HeadsAreGrouped ==
  ASSUME LayersCut
  PROVE  /\ Grouped(conf.tp, conf.kv, Replicas, Height("qkv", 1), Height("qkv", 2), conf.heads \div conf.kv)
         /\ conf.heads = conf.tp * Height("qkv", 1)
<1>1. conf \in Configs /\ "qkv" \in Layers  BY MixersAreLayers DEF LayersCut
<1>2. PICK t, v, c, n, k, w : /\ t = conf.tp /\ v = conf.kv /\ c = Replicas /\ n = Height("qkv", 1)
                              /\ k = Height("qkv", 2) /\ w = conf.heads
  OBVIOUS
<1>3. /\ t \in Nat \ {0} /\ v \in Nat \ {0} /\ c \in Nat \ {0} /\ w \in Nat \ {0} /\ Multiple(w, v)
      /\ ((c = 1 /\ Multiple(v, t)) \/ t = v * c)
  BY <1>1, <1>2, ConfigIs, ReplicasAre
<1>4. Over("qkv") = t /\ n = Size("qkv", "Q") /\ k = Size("qkv", "K")
  BY <1>2, QkvIs DEF Over, Height
<1>5. output_size("qkv", "Q") = w /\ output_size("qkv", "K") = v * c
  BY <1>2 DEF output_size, Total
<1>6. n \in Nat \ {0} /\ k \in Nat \ {0} /\ w = t * n /\ v * c = t * k
  BY <1>1, <1>4, <1>5, SizesAre
<1>7. PICK g : g = w \div v /\ g \in Nat \ {0} /\ w = v * g  BY <1>3, MultipleIs
<1>8. Grouped(t, v, c, n, k, g)  BY <1>3, <1>6, <1>7 DEF Grouped
<1> QED BY <1>2, <1>6, <1>7, <1>8

LEMMA AttentionIs ==
  ASSUME Ready, NEW r \in World
  PROVE  LET n == Height("qkv", 1) IN
         Attention(r) = [j \in 1..n |-> AttentionTerms[r * n + j - 1]]
<1>1. LayersCut /\ "qkv" \in Layers /\ "o_proj" \in Layers  BY MixersAreLayers DEF Ready
<1>2. PICK q, k, v, o : /\ q = Block("qkv", 1, r) /\ k = Block("qkv", 2, r) /\ v = Block("qkv", 3, r)
                        /\ o = Weight("o_proj", r)
  OBVIOUS
<1>3. Attention(r) = [j \in DOMAIN q |->
                        << q[j], k[(j - 1) \div (Len(q) \div Len(k)) + 1],
                           v[(j - 1) \div (Len(q) \div Len(k)) + 1], o[j] >>]
  BY <1>2, Zenon DEF Attention
<1>4. PICK t, w, c, n, kk, g : /\ t = conf.tp /\ w = conf.kv /\ c = Replicas /\ n = Height("qkv", 1)
                               /\ kk = Height("qkv", 2) /\ g = conf.heads \div conf.kv
  OBVIOUS
<1>5. Grouped(t, w, c, n, kk, g) /\ conf.heads = t * n  BY <1>1, <1>4, HeadsAreGrouped
<1>6. t \in Nat \ {0} /\ n \in Nat \ {0} /\ kk \in Nat \ {0}  BY <1>5 DEF Grouped
<1>7. 1 \in 1..Len(Shards("qkv")) /\ 2 \in 1..Len(Shards("qkv")) /\ 3 \in 1..Len(Shards("qkv"))
  <2>1. PICK x : x = Len(Shards("qkv")) /\ x = 3  BY <1>1, QkvIs
  <2>2. 1 \in 1..x /\ 2 \in 1..x /\ 3 \in 1..x  BY <2>1
  <2> QED BY <2>1, <2>2
<1>8. q = ShardRows("qkv", 1, r) /\ k = ShardRows("qkv", 2, r) /\ v = ShardRows("qkv", 3, r)
  BY <1>1, <1>2, <1>7, BlockIs DEF Ready
<1>9. DOMAIN q = 1..n /\ Len(q) = n /\ Len(k) = kk
  <2>1. Len(q) = n /\ Len(k) = kk  BY <1>1, <1>4, <1>7, <1>8, RowsAre
  <2>2. DOMAIN q = 1..n  BY <1>4, <1>8 DEF ShardRows
  <2> QED BY <2>1, <2>2
<1>10. /\ First("qkv", "Q", r) = r * n /\ First("o_proj", "in", r) = r * n
       /\ First("qkv", "K", r) = (r \div c) * kk /\ First("qkv", "V", r) = (r \div c) * kk
  <2>1. Size("qkv", "Q") = n /\ Size("o_proj", "in") = n /\ Size("qkv", "K") = kk /\ Size("qkv", "V") = kk
    BY <1>1, <1>4, QkvIs DEF Height
  <2>2. First("qkv", "Q", r) = r * n /\ First("o_proj", "in", r) = r * n
    BY <1>1, <2>1, FirstOf, QkvIs
  <2>3. Turn("qkv", "K", r) = r \div c /\ Turn("qkv", "V", r) = r \div c
    BY <1>1, <1>4, QkvIs DEF Turn, RankIn
  <2> QED BY <2>1, <2>2, <2>3 DEF First
<1>13. /\ ShardRows("qkv", 1, r) = [i \in 1..n |-> <<"Q", First("qkv", "Q", r) + i - 1>>]
       /\ ShardRows("qkv", 2, r) = [i \in 1..kk |-> <<"K", First("qkv", "K", r) + i - 1>>]
       /\ ShardRows("qkv", 3, r) = [i \in 1..kk |-> <<"V", First("qkv", "V", r) + i - 1>>]
       /\ ShardRows("o_proj", 1, r) = [i \in 1..n |-> <<"in", First("o_proj", "in", r) + i - 1>>]
  <2>1. \A s : ~ PerValueHead("qkv", s) /\ ~ PerValueHead("o_proj", s)  BY DEF PerValueHead
  <2>2. "qkv" \in Layers /\ "o_proj" \in Layers  BY QkvIs, MixersAreLayers
  <2>3. 1 \in 1..Len(Shards("o_proj"))
    <3>1. Len(Shards("o_proj")) = 1  BY <1>1, QkvIs, Zenon
    <3> QED BY <3>1
  <2> QED BY <1>1, <1>4, <1>7, <2>1, <2>2, <2>3, QkvIs, RowsInOrder
<1>11. /\ \A j \in 1..n : q[j] = <<"Q", r * n + j - 1>> /\ o[j] = <<"in", r * n + j - 1>>
       /\ \A j \in 1..kk : k[j] = <<"K", (r \div c) * kk + j - 1>> /\ v[j] = <<"V", (r \div c) * kk + j - 1>>
  <2>1. \A j \in 1..n : o[j] = ShardRows("o_proj", 1, r)[j]
    BY <1>1, <1>2, <1>4, QkvIs, SingleIs
  <2>2. \A j \in 1..n : ShardRows("o_proj", 1, r)[j] = <<"in", First("o_proj", "in", r) + j - 1>>
    BY <1>13
  <2>3. \A j \in 1..n : q[j] = <<"Q", First("qkv", "Q", r) + j - 1>>  BY <1>8, <1>13
  <2>4. \A j \in 1..kk : k[j] = <<"K", First("qkv", "K", r) + j - 1>>  BY <1>8, <1>13
  <2>5. \A j \in 1..kk : v[j] = <<"V", First("qkv", "V", r) + j - 1>>  BY <1>8, <1>13
  <2> QED BY <1>10, <2>1, <2>2, <2>3, <2>4, <2>5
<1>12. ASSUME NEW j \in 1..n
       PROVE  << q[j], k[(j - 1) \div (Len(q) \div Len(k)) + 1],
                 v[(j - 1) \div (Len(q) \div Len(k)) + 1], o[j] >> = AttentionTerms[r * n + j - 1]
  <2>1. r \in 0..t - 1  BY <1>4 DEF World
  <2>2. PICK h : h = r * n + j - 1 /\ h \in 0..t * n - 1  BY <1>6, <2>1, OneShare
  <2>3. PICK i : i = (j - 1) \div (n \div kk) + 1  OBVIOUS
  <2>4. i \in 1..kk /\ (r \div c) * kk + (j - 1) \div (n \div kk) = h \div g
    BY <1>5, <2>1, <2>2, <2>3, GroupsMeet
  <2>5. (r \div c) * kk + i - 1 = h \div g
    <3>1. PICK a, b : a = (j - 1) \div (n \div kk) /\ b = (r \div c) * kk  OBVIOUS
    <3>2. i = a + 1 /\ b + a = h \div g  BY <2>3, <2>4, <3>1
    <3>3. a \in Int /\ b \in Int
      <4>2. b \in Nat  BY <1>1, <1>10, <3>1, TurnIs
      <4>3. a \in Int
        <5>1. n \div kk \in Nat \ {0}
          <6>1. CASE c = 1
            <7>1. kk <= n
              <8>1. t * n = w * g /\ w * c = t * kk /\ g \in Nat \ {0} /\ w \in Nat \ {0}
                BY <1>5 DEF Grouped
              <8>2. w = t * kk  BY <6>1, <8>1
              <8>3. w * 1 <= w * g
                <9>1. 1 \in Int /\ g \in Int /\ 1 <= g  BY <8>1
                <9> QED BY <8>1, <9>1, TimesOrder
              <8>4. t * kk <= t * n  BY <8>1, <8>2, <8>3
              <8>5. kk \in Int /\ n \in Int  BY <1>6
              <8> QED BY <1>6, <8>4, <8>5, TimesOrder
            <7>2. n \in Int /\ 1 \in Int /\ kk * 1 <= n  BY <1>6, <7>1
            <7>3. 1 <= n \div kk  BY <1>6, <7>2, DivLess
            <7> QED BY <1>6, <7>3, DivNat
          <6>2. CASE t = w * c
            <7>1. kk = 1
              <8>1. t * kk = t * 1  BY <1>5, <1>6, <6>2 DEF Grouped
              <8> QED BY <1>6, <8>1, Cancel
            <7>2. n \in Int /\ 1 \in Int /\ kk * 1 <= n  BY <1>6, <7>1
            <7>3. 1 <= n \div kk  BY <1>6, <7>2, DivLess
            <7> QED BY <1>6, <7>3, DivNat
          <6> QED BY <1>5, <6>1, <6>2 DEF Grouped
        <5>2. PICK d : d = n \div kk /\ d \in Nat \ {0}  BY <5>1
        <5>3. j - 1 \in Int
          OBVIOUS
        <5>4. (j - 1) \div d \in Int  BY <5>2, <5>3, DivType
        <5> QED BY <3>1, <5>2, <5>4
      <4> QED BY <4>2, <4>3
    <3>4. b + i - 1 = b + a  BY <3>2, <3>3
    <3> QED BY <3>1, <3>2, <3>4
  <2>6. k[i] = <<"K", h \div g>> /\ v[i] = <<"V", h \div g>>  BY <1>11, <2>4, <2>5
  <2>7. q[j] = <<"Q", h>> /\ o[j] = <<"in", h>>  BY <1>11, <2>2
  <2>8. AttentionTerms[h] = << <<"Q", h>>, <<"K", h \div g>>, <<"V", h \div g>>, <<"in", h>> >>
    BY <1>4, <1>5, <2>2 DEF AttentionTerms
  <2>9. (j - 1) \div (Len(q) \div Len(k)) + 1 = i  BY <1>9, <2>3
  <2> QED BY <2>2, <2>6, <2>7, <2>8, <2>9
<1>14. Attention(r) = [j \in 1..n |-> AttentionTerms[r * n + j - 1]]  BY <1>3, <1>9, <1>12
<1> QED BY <1>4, <1>14

LEMMA AttentionWhenLoaded == WeightIInv => AttentionIsExact
<1> SUFFICES ASSUME WeightIInv, Loaded
             PROVE  SumOf(all_reduce([r \in World |-> Attention(r)], World),
                          {LET g == h \div (conf.heads \div conf.kv)
                           IN << <<"Q", h>>, <<"K", g>>, <<"V", g>>, <<"in", h>> >> : h \in 0..conf.heads - 1})
  BY DEF AttentionIsExact
<1>1. Ready /\ LayersCut  BY ReadyWhenLoaded DEF Ready
<1>2. PICK n : n = Height("qkv", 1) /\ n \in Nat \ {0} /\ conf.heads = conf.tp * n
  BY <1>1, HeadsAreGrouped DEF Grouped
<1>3. PICK loc, T : loc = [r \in World |-> Attention(r)] /\ T = AttentionTerms  OBVIOUS
<1>4. \A r \in World : loc[r] = [j \in 1..n |-> T[r * n + j - 1]]
  BY <1>1, <1>2, <1>3, AttentionIs
<1>5. \A h, g \in 0..conf.tp * n - 1 : T[h] = T[g] => h = g
  BY <1>2, <1>3 DEF AttentionTerms
<1>6. Lists(all_reduce(loc, World), TheTerms(T, conf.tp * n))
  BY <1>1, <1>2, <1>4, <1>5, WorldLists
<1>7. TheTerms(T, conf.tp * n)
        = {LET g == h \div (conf.heads \div conf.kv)
           IN << <<"Q", h>>, <<"K", g>>, <<"V", g>>, <<"in", h>> >> : h \in 0..conf.heads - 1}
  BY <1>2, <1>3 DEF TheTerms, AttentionTerms
<1> QED BY <1>3, <1>6, <1>7, ListsSum

(* The gated delta net: the key and the value heads of a rank. *)
KeyHeads == conf.keys \div conf.tp
ValueHeads == conf.values \div conf.tp
DeltaLayers == {"in_proj", "conv1d", "state", "out_proj"}

LEMMA DeltaSizes ==
  ASSUME LayersCut, NEW m \in DeltaLayers, NEW s
  PROVE  /\ m \in Layers /\ ~ InFours(m) /\ m # "gate_up" /\ m # "qkv"
         /\ m # "out_proj" /\ s \in {"q", "k"} => Size(m, s) = KeyHeads
         /\ m = "out_proj" \/ s \notin {"q", "k"} => Size(m, s) = ValueHeads
<1>1. m \in Layers /\ m # "gate_up" /\ m # "qkv"  BY MixersAreLayers DEF DeltaLayers
<1>2. ~ InFours(m)  BY DEF InFours, DeltaLayers
<1>3. Over(m) = conf.tp /\ output_size(m, s) = Total(m, s)
  BY <1>1, <1>2 DEF Over, output_size
<1>4. Size(m, s) = Total(m, s) \div conf.tp  BY <1>3 DEF Size
<1>5. m # "out_proj" /\ s \in {"q", "k"} => Total(m, s) = conf.keys
  BY DEF Total, DeltaLayers
<1>6. m = "out_proj" \/ s \notin {"q", "k"} => Total(m, s) = conf.values
  BY DEF Total, DeltaLayers
<1> QED BY <1>1, <1>2, <1>4, <1>5, <1>6 DEF KeyHeads, ValueHeads

LEMMA DeltaCounts ==
  ASSUME LayersCut
  PROVE  /\ KeyHeads \in Nat \ {0} /\ ValueHeads \in Nat \ {0} /\ PerKey \in Nat \ {0}
         /\ conf.values = conf.tp * ValueHeads /\ ValueHeads \div KeyHeads = PerKey
         /\ Grouped(conf.tp, conf.keys, 1, ValueHeads, KeyHeads, PerKey)
<1>1. PICK t, v, w : /\ t = conf.tp /\ v = conf.keys /\ w = conf.values
                     /\ t \in Nat \ {0} /\ v \in Nat \ {0} /\ w \in Nat \ {0}
                     /\ Multiple(v, t) /\ Multiple(w, t) /\ Multiple(w, v)
  BY ConfigIs DEF LayersCut
<1>2. PICK n, k, g : n = w \div t /\ k = v \div t /\ g = w \div v  OBVIOUS
<1>3. n \in Nat \ {0} /\ k \in Nat \ {0} /\ g \in Nat \ {0} /\ w = t * n /\ v = t * k /\ w = v * g
  BY <1>1, <1>2, MultipleIs
<1>4. Grouped(t, v, 1, n, k, g)  BY <1>1, <1>3 DEF Grouped
<1>5. n = k * g
  <2>1. PICK kg : kg = k * g /\ kg \in Nat  BY <1>3
  <2>2. t * kg = (t * k) * g  BY <1>1, <1>3, <2>1
  <2>3. t * n = t * kg  BY <1>3, <2>2
  <2> QED BY <1>1, <1>3, <2>1, <2>3, Cancel
<1>6. n \div k = g
  <2>1. n \in Int /\ g \in Int /\ k * g <= n /\ n < k * g + k  BY <1>3, <1>5
  <2> QED BY <1>3, <2>1, DivUnique
<1> QED BY <1>1, <1>2, <1>3, <1>4, <1>6 DEF KeyHeads, ValueHeads, PerKey

(* Rank r holds, of a shard, its n heads. *)
HeadsOf(b, s, n, r) == \A j \in 1..n : b[j] = <<s, r * n + j - 1>>

LEMMA RowsAreHeads ==
  ASSUME LayersCut, NEW m \in DeltaLayers, NEW k \in 1..Len(Shards(m)), Convertible, NEW r \in World,
         NEW n, n = Height(m, k), NEW s, s = Shards(m)[k]
  PROVE  HeadsOf(ShardRows(m, k, r), s, n, r) /\ DOMAIN ShardRows(m, k, r) = 1..n
<1>1. m \in Layers /\ ~ InFours(m) /\ m # "qkv"  BY DeltaSizes
<1>2. First(m, s, r) = r * n
  <2>1. n = Size(m, s)  BY DEF Height
  <2> QED BY <1>1, <2>1, FirstOf
<1>3. ShardRows(m, k, r) = [i \in 1..n |-> <<s, First(m, s, r) + i - 1>>]
  BY <1>1, RowsInOrder
<1> QED BY <1>2, <1>3 DEF HeadsOf

LEMMA BlockHeads ==
  ASSUME Ready, NEW m \in DeltaLayers, NEW k \in 1..Len(Shards(m)), Convertible, NEW r \in World,
         NEW n, n = Height(m, k), NEW s, s = Shards(m)[k]
  PROVE  HeadsOf(Block(m, k, r), s, n, r) /\ DOMAIN Block(m, k, r) = 1..n
<1>1. m \in Layers /\ m # "gate_up" /\ LayersCut  BY DeltaSizes DEF Ready
<1>2. Block(m, k, r) = ShardRows(m, k, r)  BY <1>1, BlockIs DEF Ready
<1> QED BY <1>1, <1>2, RowsAreHeads

LEMMA SingleHeads ==
  ASSUME Ready, NEW m \in DeltaLayers, Convertible, NEW r \in World,
         NEW n, n = Height(m, 1), NEW s, s = Shards(m)[1]
  PROVE  HeadsOf(Weight(m, r), s, n, r)
<1>1. m \in Layers /\ m \notin {"gate_up"} /\ LayersCut  BY DeltaSizes DEF Ready
<1>2. 1 \in 1..Len(Shards(m))
  <2>1. PICK x : x = Len(Shards(m)) /\ x \in 1..6  BY <1>1, ShardCount
  <2>2. 1 \in 1..x  BY <2>1
  <2> QED BY <2>1, <2>2
<1>3. HeadsOf(ShardRows(m, 1, r), s, n, r)  BY <1>1, <1>2, RowsAreHeads
<1>4. \A j \in 1..n : Weight(m, r)[j] = ShardRows(m, 1, r)[j]  BY <1>1, SingleIs
<1> QED BY <1>3, <1>4 DEF HeadsOf

LEMMA DeltaShards ==
  /\ Shards("in_proj") = <<"q", "k", "v", "z", "b", "a">> /\ Shards("conv1d") = <<"q", "k", "v">>
  /\ Shards("state") = <<"A_log">> /\ Shards("out_proj") = <<"in">>
  /\ \A k \in 1..6 : k \in 1..Len(Shards("in_proj"))
  /\ \A k \in 1..3 : k \in 1..Len(Shards("conv1d"))
<1>1. /\ Shards("in_proj") = <<"q", "k", "v", "z", "b", "a">> /\ Shards("conv1d") = <<"q", "k", "v">>
      /\ Shards("state") = <<"A_log">> /\ Shards("out_proj") = <<"in">>
  BY DEF Shards
<1>2. PICK x, y : x = Len(Shards("in_proj")) /\ y = Len(Shards("conv1d")) /\ x = 6 /\ y = 3
  BY <1>1
<1> QED BY <1>1, <1>2

(* What the blocks of a rank are. *)
DeltaBlocks(r) ==
  /\ HeadsOf(Block("in_proj", 1, r), "q", KeyHeads, r)
  /\ HeadsOf(Block("in_proj", 2, r), "k", KeyHeads, r)
  /\ HeadsOf(Block("in_proj", 3, r), "v", ValueHeads, r)
  /\ DOMAIN Block("in_proj", 3, r) = 1..ValueHeads
  /\ HeadsOf(Block("in_proj", 4, r), "z", ValueHeads, r)
  /\ HeadsOf(Block("in_proj", 5, r), "b", ValueHeads, r)
  /\ HeadsOf(Block("in_proj", 6, r), "a", ValueHeads, r)
  /\ HeadsOf(Block("conv1d", 1, r), "q", KeyHeads, r)
  /\ HeadsOf(Block("conv1d", 2, r), "k", KeyHeads, r)
  /\ HeadsOf(Block("conv1d", 3, r), "v", ValueHeads, r)
  /\ HeadsOf(Weight("state", r), "A_log", ValueHeads, r)
  /\ HeadsOf(Weight("out_proj", r), "in", ValueHeads, r)

LEMMA DeltaBlocksAre ==
  ASSUME Ready, Convertible, NEW r \in World
  PROVE  DeltaBlocks(r)
<1>1. LayersCut /\ "in_proj" \in DeltaLayers /\ "conv1d" \in DeltaLayers /\ "state" \in DeltaLayers
      /\ "out_proj" \in DeltaLayers
  BY DEF Ready, DeltaLayers
<1>2. /\ \A k \in 1..6 : k \in 1..Len(Shards("in_proj"))
      /\ \A k \in 1..3 : k \in 1..Len(Shards("conv1d"))
  BY DeltaShards
<1>3. /\ Shards("in_proj")[1] = "q" /\ Shards("in_proj")[2] = "k" /\ Shards("in_proj")[3] = "v"
      /\ Shards("in_proj")[4] = "z" /\ Shards("in_proj")[5] = "b" /\ Shards("in_proj")[6] = "a"
      /\ Shards("conv1d")[1] = "q" /\ Shards("conv1d")[2] = "k" /\ Shards("conv1d")[3] = "v"
      /\ Shards("state")[1] = "A_log" /\ Shards("out_proj")[1] = "in"
  BY DeltaShards
<1>4. /\ Height("in_proj", 1) = KeyHeads /\ Height("in_proj", 2) = KeyHeads
      /\ Height("conv1d", 1) = KeyHeads /\ Height("conv1d", 2) = KeyHeads
  BY <1>1, <1>3, DeltaSizes DEF Height
<1>5. /\ Height("in_proj", 3) = ValueHeads /\ Height("in_proj", 4) = ValueHeads
      /\ Height("in_proj", 5) = ValueHeads /\ Height("in_proj", 6) = ValueHeads
      /\ Height("conv1d", 3) = ValueHeads /\ Height("state", 1) = ValueHeads
      /\ Height("out_proj", 1) = ValueHeads
  BY <1>1, <1>3, DeltaSizes DEF Height
<1>6. /\ HeadsOf(Block("in_proj", 1, r), "q", KeyHeads, r)
      /\ HeadsOf(Block("in_proj", 2, r), "k", KeyHeads, r)
      /\ HeadsOf(Block("conv1d", 1, r), "q", KeyHeads, r)
      /\ HeadsOf(Block("conv1d", 2, r), "k", KeyHeads, r)
  BY <1>1, <1>2, <1>3, <1>4, BlockHeads
<1>7. /\ HeadsOf(Block("in_proj", 3, r), "v", ValueHeads, r)
      /\ DOMAIN Block("in_proj", 3, r) = 1..ValueHeads
      /\ HeadsOf(Block("in_proj", 4, r), "z", ValueHeads, r)
      /\ HeadsOf(Block("in_proj", 5, r), "b", ValueHeads, r)
      /\ HeadsOf(Block("in_proj", 6, r), "a", ValueHeads, r)
      /\ HeadsOf(Block("conv1d", 3, r), "v", ValueHeads, r)
  BY <1>1, <1>2, <1>3, <1>5, BlockHeads
<1>8. HeadsOf(Weight("state", r), "A_log", ValueHeads, r) /\ HeadsOf(Weight("out_proj", r), "in", ValueHeads, r)
  BY <1>1, <1>3, <1>5, SingleHeads
<1> QED BY <1>6, <1>7, <1>8 DEF DeltaBlocks

DeltaTerm(i, k) ==
  << <<"q", k>>, <<"q", k>>, <<"k", k>>, <<"k", k>>, <<"v", i>>, <<"v", i>>,
     <<"z", i>>, <<"b", i>>, <<"a", i>>, <<"A_log", i>>, <<"in", i>> >>
DeltaTerms == [i \in 0..conf.values - 1 |-> DeltaTerm(i, i \div PerKey)]

LEMMA DeltaNetIs ==
  ASSUME Ready, Convertible, NEW r \in World
  PROVE  DeltaNet(r) = [j \in 1..ValueHeads |-> DeltaTerms[r * ValueHeads + j - 1]]
<1>1. LayersCut /\ DeltaBlocks(r)  BY DeltaBlocksAre DEF Ready
<1>2. PICK q, k, v, z, b, a, x, y, w, d, o :
        /\ q = Block("in_proj", 1, r) /\ k = Block("in_proj", 2, r) /\ v = Block("in_proj", 3, r)
        /\ z = Block("in_proj", 4, r) /\ b = Block("in_proj", 5, r) /\ a = Block("in_proj", 6, r)
        /\ x = Block("conv1d", 1, r) /\ y = Block("conv1d", 2, r) /\ w = Block("conv1d", 3, r)
        /\ d = Weight("state", r) /\ o = Weight("out_proj", r)
  OBVIOUS
<1>3. DeltaNet(r) =
        [j \in DOMAIN v |-> <<q[(j - 1) \div PerKey + 1], x[(j - 1) \div PerKey + 1],
                              k[(j - 1) \div PerKey + 1], y[(j - 1) \div PerKey + 1],
                              v[j], w[j], z[j], b[j], a[j], d[j], o[j]>>]
  BY <1>2, Zenon DEF DeltaNet
<1>4. PICK t, u, n, c, g : t = conf.tp /\ u = conf.keys /\ n = ValueHeads /\ c = KeyHeads /\ g = PerKey
  OBVIOUS
<1>5. /\ n \in Nat \ {0} /\ c \in Nat \ {0} /\ g \in Nat \ {0} /\ n \div c = g /\ conf.values = t * n
      /\ Grouped(t, u, 1, n, c, g)
  BY <1>1, <1>4, DeltaCounts
<1>6. t \in Nat \ {0} /\ r \in 0..t - 1  BY <1>4, <1>5 DEF Grouped, World
<1>7. /\ HeadsOf(q, "q", c, r) /\ HeadsOf(x, "q", c, r) /\ HeadsOf(k, "k", c, r) /\ HeadsOf(y, "k", c, r)
      /\ HeadsOf(v, "v", n, r) /\ HeadsOf(w, "v", n, r) /\ HeadsOf(z, "z", n, r) /\ HeadsOf(b, "b", n, r)
      /\ HeadsOf(a, "a", n, r) /\ HeadsOf(d, "A_log", n, r) /\ HeadsOf(o, "in", n, r)
      /\ DOMAIN v = 1..n
  BY <1>1, <1>2, <1>4 DEF DeltaBlocks
<1>8. ASSUME NEW j \in 1..n
      PROVE  <<q[(j - 1) \div PerKey + 1], x[(j - 1) \div PerKey + 1],
               k[(j - 1) \div PerKey + 1], y[(j - 1) \div PerKey + 1],
               v[j], w[j], z[j], b[j], a[j], d[j], o[j]>> = DeltaTerms[r * ValueHeads + j - 1]
  <2>1. PICK h : h = r * n + j - 1 /\ h \in 0..t * n - 1  BY <1>5, <1>6, OneShare
  <2>2. PICK e : e = (j - 1) \div g /\ e \in Nat
    <3>1. j - 1 \in Nat
      OBVIOUS
    <3> QED BY <1>5, <3>1, DivNat
  <2>3. e + 1 \in 1..c /\ r * c + e = h \div g
    <3>1. (j - 1) \div (n \div c) + 1 \in 1..c
          /\ (r \div 1) * c + (j - 1) \div (n \div c) = (r * n + j - 1) \div g
      <4>1. PICK l : l = 1  OBVIOUS
      <4>2. Grouped(t, u, l, n, c, g)  BY <1>5, <4>1
      <4>3. (j - 1) \div (n \div c) + 1 \in 1..c
            /\ (r \div l) * c + (j - 1) \div (n \div c) = (r * n + j - 1) \div g
        BY <1>6, <4>2, GroupsMeet
      <4> QED BY <4>1, <4>3
    <3>2. r \div 1 = r
      <4>1. r \in Int /\ 1 \in Nat \ {0} /\ 1 * r <= r /\ r < 1 * r + 1  BY <1>6
      <4> QED BY <4>1, DivUnique
    <3> QED BY <1>5, <2>1, <2>2, <3>1, <3>2
  <2>4. r * c + (e + 1) - 1 = h \div g
    <3>1. PICK rc : rc = r * c /\ rc \in Nat  BY <1>5, <1>6
    <3>2. rc + (e + 1) - 1 = rc + e  BY <2>2, <3>1
    <3> QED BY <2>3, <3>1, <3>2
  <2>5. PICK i : i = e + 1 /\ i \in 1..c /\ r * c + i - 1 = h \div g  BY <2>3, <2>4
  <2>6. q[i] = <<"q", h \div g>> /\ x[i] = <<"q", h \div g>> /\ k[i] = <<"k", h \div g>> /\ y[i] = <<"k", h \div g>>
    BY <1>7, <2>5 DEF HeadsOf
  <2>7. /\ v[j] = <<"v", h>> /\ w[j] = <<"v", h>> /\ z[j] = <<"z", h>> /\ b[j] = <<"b", h>>
        /\ a[j] = <<"a", h>> /\ d[j] = <<"A_log", h>> /\ o[j] = <<"in", h>>
    BY <1>7, <2>1 DEF HeadsOf
  <2>8. DeltaTerms[h] = DeltaTerm(h, h \div g)  BY <1>4, <1>5, <2>1 DEF DeltaTerms
  <2>9. (j - 1) \div PerKey + 1 = i  BY <1>4, <2>2, <2>5
  <2>10. <<q[i], x[i], k[i], y[i], v[j], w[j], z[j], b[j], a[j], d[j], o[j]>> = DeltaTerm(h, h \div g)
    BY <2>6, <2>7 DEF DeltaTerm
  <2> QED BY <1>4, <2>1, <2>8, <2>9, <2>10
<1> QED BY <1>3, <1>4, <1>7, <1>8

LEMMA DeltaNetWhenLoaded == WeightIInv => DeltaNetIsExact
<1> SUFFICES ASSUME WeightIInv, Loaded, Convertible
             PROVE  SumOf(all_reduce([r \in World |-> DeltaNet(r)], World),
                          {LET k == i \div PerKey IN
                            << <<"q", k>>, <<"q", k>>, <<"k", k>>, <<"k", k>>, <<"v", i>>, <<"v", i>>,
                               <<"z", i>>, <<"b", i>>, <<"a", i>>, <<"A_log", i>>, <<"in", i>> >> :
                            i \in 0..conf.values - 1})
  BY DEF DeltaNetIsExact
<1>1. Ready /\ LayersCut  BY ReadyWhenLoaded DEF Ready
<1>2. PICK n : n = ValueHeads /\ n \in Nat \ {0} /\ conf.values = conf.tp * n
  BY <1>1, DeltaCounts
<1>3. PICK loc, T : loc = [r \in World |-> DeltaNet(r)] /\ T = DeltaTerms  OBVIOUS
<1>4. \A r \in World : loc[r] = [j \in 1..n |-> T[r * n + j - 1]]
  BY <1>1, <1>2, <1>3, DeltaNetIs
<1>5. \A h, g \in 0..conf.tp * n - 1 : T[h] = T[g] => h = g
  <2>1. \A h \in 0..conf.tp * n - 1 : T[h] = DeltaTerm(h, h \div PerKey)
    BY <1>2, <1>3 DEF DeltaTerms
  <2>2. \A h, g, k, l : DeltaTerm(h, k) = DeltaTerm(g, l) => h = g  BY DEF DeltaTerm
  <2> QED BY <2>1, <2>2
<1>6. Lists(all_reduce(loc, World), TheTerms(T, conf.tp * n))
  BY <1>1, <1>2, <1>4, <1>5, WorldLists
<1>7. TheTerms(T, conf.tp * n)
        = {LET k == i \div PerKey IN
            << <<"q", k>>, <<"q", k>>, <<"k", k>>, <<"k", k>>, <<"v", i>>, <<"v", i>>,
               <<"z", i>>, <<"b", i>>, <<"a", i>>, <<"A_log", i>>, <<"in", i>> >> :
            i \in 0..conf.values - 1}
  BY <1>2, <1>3 DEF TheTerms, DeltaTerms, DeltaTerm
<1> QED BY <1>3, <1>6, <1>7, ListsSum

(* The MLP, the shared expert and the experts. *)
GatedLayers == {"gate_up", "w13"} \cap Layers
DownOf(m) == IF m = "gate_up" THEN "down" ELSE "w2"
GroupOf(m, r) == IF InFours(m) THEN FourOf(r) ELSE World

LEMMA GatedLayersAre ==
  /\ "gate_up" \in Layers => "down" \in Layers /\ (~ conf.moe \/ conf.shared)
  /\ "w13" \in Layers => "w2" \in Layers /\ conf.moe
<1>1. PICK p : p = Program  OBVIOUS
<1>2. Layers = ToSet(p) \ {"enter", "leave"}  BY <1>1 DEF Layers
<1>3. CASE ~ conf.moe
  <2>1. p = DenseProgram  BY <1>1, <1>3 DEF Program
  <2>2. "down" \in ToSet(p) /\ "w13" \notin ToSet(p)  BY <2>1 DEF DenseProgram, ToSet
  <2> QED BY <1>2, <1>3, <2>2
<1>4. CASE conf.moe /\ conf.shared
  <2>1. p = SharedProgram  BY <1>1, <1>4 DEF Program
  <2>2. "down" \in ToSet(p) /\ "w2" \in ToSet(p)  BY <2>1 DEF SharedProgram, ToSet
  <2> QED BY <1>2, <1>4, <2>2
<1>5. CASE conf.moe /\ ~ conf.shared
  <2>1. p = RoutedProgram  BY <1>1, <1>5 DEF Program
  <2>2. "gate_up" \notin ToSet(p) /\ "w2" \in ToSet(p)  BY <2>1 DEF RoutedProgram, ToSet
  <2> QED BY <1>2, <1>5, <2>2
<1> QED BY <1>3, <1>4, <1>5

LEMMA GroupsAre ==
  ASSUME NEW r \in World
  PROVE  /\ "gate_up" \in Layers => ReducedOver(r).shared = GroupOf("gate_up", r)
         /\ "w13" \in Layers => ReducedOver(r).routed = GroupOf("w13", r)
         /\ ReducedOver(r).shared \in {FourOf(r), World} /\ ReducedOver(r).routed \in {FourOf(r), World}
<1>1. PICK g : g = ReducedOver(r)  OBVIOUS
<1>2. g = IF conf.moe /\ tp4x2 /\ (tp4x2_fuse \/ ~ conf.shared)
            THEN [shared |-> FourOf(r), routed |-> FourOf(r)]
          ELSE IF conf.moe /\ tp4x2
            THEN [shared |-> IF tp4x2_shared THEN FourOf(r) ELSE World, routed |-> FourOf(r)]
          ELSE [shared |-> World, routed |-> World]
  BY <1>1 DEF ReducedOver
<1>3. (tp4x2_fuse => tp4x2_shared) /\ (tp4x2_shared => tp4x2)
  BY DEF tp4x2_fuse, tp4x2_shared
<1>4. (InFours("gate_up") <=> conf.moe /\ tp4x2_shared) /\ (InFours("w13") <=> tp4x2)
  BY DEF InFours
<1>5. "gate_up" \in Layers => g.shared = GroupOf("gate_up", r)
  BY <1>2, <1>3, <1>4, GatedLayersAre DEF GroupOf
<1>6. "w13" \in Layers => g.routed = GroupOf("w13", r)
  BY <1>2, <1>3, <1>4, GatedLayersAre DEF GroupOf
<1>7. g.shared \in {FourOf(r), World} /\ g.routed \in {FourOf(r), World}  BY <1>2
<1> QED BY <1>1, <1>5, <1>6, <1>7

(* In a group every rank has its turn. *)
LEMMA FoursTakeTurns ==
  ASSUME NEW r \in 0..7
  PROVE  /\ \A x, y \in 0..7 : x \div 4 = y \div 4 /\ x % 4 = y % 4 => x = y
         /\ \A i \in 0..3 : \E x \in 0..7 : x \div 4 = r \div 4 /\ x % 4 = i
<1>1. ASSUME NEW x \in 0..7
      PROVE  x = 4 * (x \div 4) + (x % 4) /\ x % 4 \in 0..3 /\ x \div 4 \in 0..1
  <2>1. PICK a, b : a = x \div 4 /\ b = x % 4  OBVIOUS
  <2>2. x \in Int /\ 4 \in Nat \ {0} /\ x \in Nat
    OBVIOUS
  <2>3. b \in Nat /\ b < 4 /\ b = x - 4 * a /\ a \in Nat
    BY <2>1, <2>2, DivType, DivMod, DivNat
  <2>4. a \in 0..1 /\ x = 4 * a + b  BY <2>3
  <2> QED BY <2>1, <2>3, <2>4
<1>2. \A x, y \in 0..7 : x \div 4 = y \div 4 /\ x % 4 = y % 4 => x = y
  <2> SUFFICES ASSUME NEW x \in 0..7, NEW y \in 0..7, x \div 4 = y \div 4, x % 4 = y % 4
               PROVE  x = y
    OBVIOUS
  <2>1. x = 4 * (x \div 4) + (x % 4) /\ y = 4 * (y \div 4) + (y % 4)  BY <1>1
  <2> QED BY <2>1
<1>3. ASSUME NEW i \in 0..3
      PROVE  \E x \in 0..7 : x \div 4 = r \div 4 /\ x % 4 = i
  <2>1. PICK a : a = r \div 4 /\ a \in 0..1  BY <1>1
  <2>2. PICK x : x = 4 * a + i /\ x \in 0..7  BY <2>1
  <2>3. x \div 4 = a /\ x % 4 = i  BY <2>1, <2>2
  <2> QED BY <2>1, <2>2, <2>3
<1> QED BY <1>2, <1>3

TakeTurns(S, turns, t) ==
  /\ S \subseteq World /\ IsFiniteSet(S)
  /\ \A x \in S : turns[x] \in 0..t - 1
  /\ \A x, y \in S : turns[x] = turns[y] => x = y
  /\ \A i \in 0..t - 1 : \E x \in S : turns[x] = i

LEMMA GroupTurns ==
  ASSUME conf \in Configs, NEW m, NEW r \in World
  PROVE  TakeTurns(GroupOf(m, r), [x \in GroupOf(m, r) |-> RankIn(m, x)], Over(m))
<1>1. PICK S, t, turns : S = GroupOf(m, r) /\ t = Over(m) /\ turns = [x \in S |-> RankIn(m, x)]  OBVIOUS
<1>2. PICK n : n = conf.tp /\ n \in Nat \ {0} /\ World = 0..n - 1  BY ConfigIs DEF World
<1>3. IsFiniteSet(World)  BY <1>2, FS_Interval
<1>4. CASE InFours(m)
  <2>1. n = 8 /\ t = 4  BY <1>1, <1>2, <1>4, OverIs DEF Over
  <2>2. World = 0..7  BY <1>2, <2>1
  <2>3. S = {x \in 0..7 : x \div 4 = r \div 4} /\ turns = [x \in S |-> x % 4]
    BY <1>1, <1>4, <2>2 DEF GroupOf, FourOf, RankIn
  <2>4. /\ \A x, y \in 0..7 : x \div 4 = y \div 4 /\ x % 4 = y % 4 => x = y
        /\ \A i \in 0..3 : \E x \in 0..7 : x \div 4 = r \div 4 /\ x % 4 = i
    BY <2>2, FoursTakeTurns
  <2>5. \A x \in S : turns[x] \in 0..t - 1  BY <2>1, <2>3
  <2>6. \A x, y \in S : turns[x] = turns[y] => x = y
    <3>1. \A x \in S : turns[x] = x % 4 /\ x \in 0..7 /\ x \div 4 = r \div 4  BY <2>3
    <3> QED BY <2>4, <3>1
  <2>7. \A i \in 0..t - 1 : \E x \in S : turns[x] = i
    <3>1. \A i \in 0..3 : \E x \in S : turns[x] = i  BY <2>3, <2>4
    <3> QED BY <2>1, <3>1
  <2>8. S \subseteq World /\ IsFiniteSet(S)
    <3>1. S \subseteq World  BY <2>2, <2>3
    <3> QED BY <1>3, <3>1, FS_Subset
  <2> QED BY <1>1, <2>5, <2>6, <2>7, <2>8 DEF TakeTurns
<1>5. CASE ~ InFours(m)
  <2>1. S = World /\ t = n /\ turns = [x \in S |-> x]
    BY <1>1, <1>2, <1>5 DEF GroupOf, Over, RankIn
  <2> QED BY <1>1, <1>2, <1>3, <2>1 DEF TakeTurns
<1> QED BY <1>4, <1>5

GatedTerms(m) == [h \in 0..conf.inter - 1 |-> <<m, <<"gate", h>>, <<"up", h>>, <<"in", h>>>>]

LEMMA DownIs ==
  ASSUME LayersCut, NEW m \in GatedLayers, NEW r \in World
  PROVE  /\ m \in Layers /\ m \in {"gate_up", "w13"} /\ m # "qkv" /\ DownOf(m) \in Layers
         /\ DownOf(m) \notin {"gate_up"} /\ DownOf(m) # "qkv"
         /\ Over(DownOf(m)) = Over(m) /\ RankIn(DownOf(m), r) = RankIn(m, r)
         /\ Shards(DownOf(m))[1] = "in" /\ Height(DownOf(m), 1) = Height(m, 1)
         /\ conf.inter = Over(m) * Height(m, 1)
<1>1. m \in Layers /\ m \in {"gate_up", "w13"} /\ m # "qkv"  BY DEF GatedLayers
<1>2. DownOf(m) \in Layers /\ DownOf(m) \notin {"gate_up"} /\ DownOf(m) # "qkv"
  BY <1>1, GatedLayersAre DEF DownOf
<1>3. InFours(DownOf(m)) <=> InFours(m)  BY <1>1 DEF DownOf, InFours
<1>4. Over(DownOf(m)) = Over(m) /\ RankIn(DownOf(m), r) = RankIn(m, r)
  BY <1>3 DEF Over, RankIn
<1>5. Shards(DownOf(m))[1] = "in"
  <2>1. Shards(DownOf(m)) = <<"in">>  BY <1>1 DEF Shards, DownOf
  <2> QED BY <2>1
<1>6. output_size(DownOf(m), "in") = conf.inter /\ output_size(m, "gate") = conf.inter
  BY <1>1 DEF output_size, Total, DownOf
<1>7. Shards(m)[1] = "gate"  BY <1>1, PairsAreEven
<1>8. Height(m, 1) = conf.inter \div Over(m) /\ Height(DownOf(m), 1) = conf.inter \div Over(m)
  BY <1>4, <1>5, <1>6, <1>7 DEF Height, Size
<1>9. conf.inter = Over(m) * Height(m, 1)  BY <1>1, <1>6, <1>7, SizesAre DEF Height
<1> QED BY <1>1, <1>2, <1>4, <1>5, <1>8, <1>9

(* What a rank has of a gated layer. *)
GatedRows(m, r, n, a) ==
  LET w == Weight(m, r)
      o == Weight(DownOf(m), r)
      apart == ~ (m = "gate_up" /\ conf.interleave)
  IN /\ Len(w) = n + n
     /\ \A j \in 1..n : /\ (IF apart THEN w[j] ELSE w[2 * j - 1]) = <<"gate", a * n + j - 1>>
                        /\ (IF apart THEN w[n + j] ELSE w[2 * j]) = <<"up", a * n + j - 1>>
                        /\ o[j] = <<"in", a * n + j - 1>>

LEMMA GatedRowsAre ==
  ASSUME Ready, NEW m \in GatedLayers, NEW r \in World
  PROVE  GatedRows(m, r, Height(m, 1), RankIn(m, r))
<1>1. LayersCut /\ m \in Layers /\ m \in {"gate_up", "w13"} /\ WeightRight(Weight(m, r), m, r)
  BY DownIs DEF Ready
<1>2. PICK w, o, d, n, a : /\ w = Weight(m, r) /\ d = DownOf(m) /\ o = Weight(d, r) /\ n = Height(m, 1)
                           /\ a = RankIn(m, r)
  OBVIOUS
<1>3. /\ d \in Layers /\ d \notin {"gate_up"} /\ d # "qkv" /\ RankIn(d, r) = a /\ Shards(d)[1] = "in"
      /\ Height(d, 1) = n
  BY <1>1, <1>2, DownIs
<1>4. /\ Len(Shards(m)) = 2 /\ Height(m, 2) = n /\ Width(m) = n + n /\ n \in Nat \ {0}
      /\ Shards(m)[1] = "gate" /\ Shards(m)[2] = "up"
  BY <1>1, <1>2, PairsAreEven
<1>5. Size(m, "gate") = n /\ Size(m, "up") = n /\ Size(d, "in") = n
  BY <1>2, <1>3, <1>4 DEF Height
<1>6. First(m, "gate", r) = a * n /\ First(m, "up", r) = a * n /\ First(d, "in", r) = a * n
  BY <1>1, <1>2, <1>3, <1>5 DEF First, Turn
<1>7. /\ ShardRows(m, 1, r) = [i \in 1..n |-> <<"gate", a * n + i - 1>>]
      /\ ShardRows(m, 2, r) = [i \in 1..n |-> <<"up", a * n + i - 1>>]
      /\ ShardRows(d, 1, r) = [i \in 1..n |-> <<"in", a * n + i - 1>>]
  <2>1. \A s : ~ PerValueHead(m, s) /\ ~ PerValueHead(d, s)
    BY <1>1, <1>2 DEF PerValueHead, DownOf
  <2>2. 1 \in 1..Len(Shards(m)) /\ 2 \in 1..Len(Shards(m)) /\ 1 \in 1..Len(Shards(d)) /\ d \in Layers
    <3>1. PICK x : x = Len(Shards(d)) /\ x \in 1..6  BY <1>1, <1>3, ShardCount
    <3>2. 1 \in 1..x  BY <3>1
    <3>3. PICK y : y = Len(Shards(m)) /\ 1 \in 1..y /\ 2 \in 1..y  BY <1>4
    <3> QED BY <1>3, <3>1, <3>2, <3>3
  <2>3. /\ ShardRows(m, 1, r) = [i \in 1..Height(m, 1) |-> <<Shards(m)[1], First(m, Shards(m)[1], r) + i - 1>>]
        /\ ShardRows(m, 2, r) = [i \in 1..Height(m, 2) |-> <<Shards(m)[2], First(m, Shards(m)[2], r) + i - 1>>]
        /\ ShardRows(d, 1, r) = [i \in 1..Height(d, 1) |-> <<Shards(d)[1], First(d, Shards(d)[1], r) + i - 1>>]
    BY <1>1, <2>1, <2>2, RowsInOrder
  <2> QED BY <1>2, <1>3, <1>4, <1>6, <2>3
<1>8. \A j \in 1..n : o[j] = <<"in", a * n + j - 1>>
  <2>1. \A j \in 1..n : o[j] = ShardRows(d, 1, r)[j]  BY <1>2, <1>3, SingleIs
  <2> QED BY <1>7, <2>1
<1>9. Len(w) = n + n
  <2>1. DOMAIN w = 1..n + n /\ w = [j \in DOMAIN w |-> w[j]]
    BY <1>1, <1>2, <1>4 DEF WeightRight
  <2>2. w \in [1..n + n -> {w[j] : j \in 1..n + n}] /\ n + n \in Nat  BY <1>4, <2>1
  <2> QED BY <2>2, FunctionSeq
<1>10. \A i \in 1..n : w[Spot(m, 1, i)] = <<"gate", a * n + i - 1>> /\ w[Spot(m, 2, i)] = <<"up", a * n + i - 1>>
  <2>1. StoredShard(w, m, 1, r) /\ StoredShard(w, m, 2, r)
    <3>1. PICK x : x = Len(Shards(m)) /\ 1 \in 1..x /\ 2 \in 1..x  BY <1>4
    <3> QED BY <1>1, <1>2, <3>1 DEF WeightRight
  <2>2. \A i \in 1..n : w[Spot(m, 1, i)] = ShardRows(m, 1, r)[i] /\ w[Spot(m, 2, i)] = ShardRows(m, 2, r)[i]
    BY <1>2, <1>4, <2>1 DEF StoredShard
  <2> QED BY <1>7, <2>2
<1>11. CASE m = "gate_up" /\ conf.interleave
  <2>1. \A i \in 1..n : Spot(m, 1, i) = 2 * i - 1 /\ Spot(m, 2, i) = 2 * i
    <3> SUFFICES ASSUME NEW i \in 1..n PROVE Spot(m, 1, i) = 2 * i - 1 /\ Spot(m, 2, i) = 2 * i
      OBVIOUS
    <3>1. Spot(m, 1, i) = 2 * (i - 1) + 1 /\ Spot(m, 2, i) = 2 * (i - 1) + 2
      BY <1>11 DEF Spot
    <3> QED BY <3>1
  <2> QED BY <1>2, <1>8, <1>9, <1>10, <1>11, <2>1 DEF GatedRows
<1>12. CASE ~ (m = "gate_up" /\ conf.interleave)
  <2>1. \A i \in 1..n : Spot(m, 1, i) = i /\ Spot(m, 2, i) = n + i
    <3> SUFFICES ASSUME NEW i \in 1..n PROVE Spot(m, 1, i) = i /\ Spot(m, 2, i) = n + i
      OBVIOUS
    <3>1. Spot(m, 1, i) = Start(m, 1) + i /\ Spot(m, 2, i) = Start(m, 2) + i
      BY <1>12 DEF Spot
    <3>2. Start(m, 1) = 0 /\ Start(m, 2) = n
      <4>1. Start(m, 1) = 0 /\ Start(m, 1 + 1) = Start(m, 1) + Height(m, 1)
        BY <1>1, StartsFollow
      <4> QED BY <1>2, <1>4, <4>1
    <3> QED BY <1>4, <3>1, <3>2
  <2> QED BY <1>2, <1>8, <1>9, <1>10, <1>12, <2>1 DEF GatedRows
<1> QED BY <1>11, <1>12

LEMMA GatedIs ==
  ASSUME Ready, NEW m \in GatedLayers, NEW r \in World
  PROVE  Gated(m, DownOf(m), r)
           = [j \in 1..Height(m, 1) |-> GatedTerms(m)[RankIn(m, r) * Height(m, 1) + j - 1]]
<1>1. LayersCut /\ conf \in Configs /\ m \in Layers /\ m \in {"gate_up", "w13"}
  BY DownIs DEF Ready, LayersCut
<1>2. PICK w, o, n, a, t : /\ w = Weight(m, r) /\ o = Weight(DownOf(m), r) /\ n = Height(m, 1)
                           /\ a = RankIn(m, r) /\ t = Over(m)
  OBVIOUS
<1>3. PICK apart \in BOOLEAN : apart = ~ (m = "gate_up" /\ conf.interleave)  OBVIOUS
<1>4. /\ Len(w) = n + n
      /\ \A j \in 1..n : /\ (IF apart THEN w[j] ELSE w[2 * j - 1]) = <<"gate", a * n + j - 1>>
                         /\ (IF apart THEN w[n + j] ELSE w[2 * j]) = <<"up", a * n + j - 1>>
                         /\ o[j] = <<"in", a * n + j - 1>>
  <2>1. GatedRows(m, r, n, a)  BY <1>2, GatedRowsAre
  <2> QED BY <1>2, <1>3, <2>1 DEF GatedRows
<1>5. n \in Nat \ {0} /\ conf.inter = t * n /\ t \in Nat \ {0} /\ a \in 0..t - 1
  BY <1>1, <1>2, PairsAreEven, DownIs, OverIs
<1>6. Len(w) \div 2 = n  BY <1>4, <1>5
<1>7. Gated(m, DownOf(m), r)
        = [j \in 1..Len(w) \div 2 |-> <<m, IF m = "gate_up" /\ conf.interleave THEN w[2 * j - 1] ELSE w[j],
                 IF m = "gate_up" /\ conf.interleave THEN w[2 * j] ELSE w[Len(w) \div 2 + j], o[j]>>]
  BY <1>2, Zenon DEF Gated
<1>8. ASSUME NEW j \in 1..n
      PROVE  <<m, IF m = "gate_up" /\ conf.interleave THEN w[2 * j - 1] ELSE w[j],
                 IF m = "gate_up" /\ conf.interleave THEN w[2 * j] ELSE w[n + j], o[j]>>
               = GatedTerms(m)[a * n + j - 1]
  <2>1. PICK h : h = a * n + j - 1 /\ h \in 0..t * n - 1  BY <1>5, OneShare
  <2>2. GatedTerms(m)[h] = <<m, <<"gate", h>>, <<"up", h>>, <<"in", h>>>>
    BY <1>5, <2>1 DEF GatedTerms
  <2> QED BY <1>3, <1>4, <2>1, <2>2
<1> QED BY <1>2, <1>6, <1>7, <1>8

LEMMA GatedListed ==
  ASSUME Ready, NEW m \in GatedLayers, NEW r \in World, NEW loc,
         \A x \in World : loc[x] = Gated(m, DownOf(m), x)
  PROVE  Lists(all_reduce(loc, GroupOf(m, r)), TheTerms(GatedTerms(m), conf.inter))
<1>1. LayersCut /\ conf \in Configs /\ m \in Layers /\ m \in {"gate_up", "w13"}
  BY DownIs DEF Ready, LayersCut
<1>2. PICK S, t, turns : S = GroupOf(m, r) /\ t = Over(m) /\ turns = [x \in S |-> RankIn(m, x)]  OBVIOUS
<1>3. /\ S \subseteq World /\ IsFiniteSet(S)
      /\ \A x \in S : turns[x] \in 0..t - 1
      /\ \A x, y \in S : turns[x] = turns[y] => x = y
      /\ \A i \in 0..t - 1 : \E x \in S : turns[x] = i
  <2>1. TakeTurns(S, turns, t)  BY <1>1, <1>2, GroupTurns
  <2> QED BY <2>1 DEF TakeTurns
<1>4. PICK n, T : n = Height(m, 1) /\ T = GatedTerms(m)  OBVIOUS
<1>5. n \in Nat \ {0} /\ conf.inter = t * n /\ t \in Nat \ {0}
  BY <1>1, <1>2, <1>4, PairsAreEven, DownIs, OverIs
<1>6. \A x \in S : loc[x] = [j \in 1..n |-> T[turns[x] * n + j - 1]]
  <2> SUFFICES ASSUME NEW x \in S PROVE loc[x] = [j \in 1..n |-> T[turns[x] * n + j - 1]]
    OBVIOUS
  <2>1. x \in World /\ turns[x] = RankIn(m, x)  BY <1>2, <1>3
  <2>2. loc[x] = [j \in 1..n |-> T[RankIn(m, x) * n + j - 1]]
    <3>1. loc[x] = Gated(m, DownOf(m), x)  BY <2>1
    <3>2. Gated(m, DownOf(m), x) = [j \in 1..n |-> T[RankIn(m, x) * n + j - 1]]
      BY <1>4, <2>1, GatedIs
    <3> QED BY <3>1, <3>2, Zenon
  <2> QED BY <2>1, <2>2
<1>7. \A h, g \in 0..t * n - 1 : T[h] = T[g] => h = g  BY <1>4, <1>5 DEF GatedTerms
<1>8. SharedOut(loc, S, turns, t, n, T)  BY <1>3, <1>6, <1>7 DEF SharedOut
<1>9. Lists(all_reduce(loc, S), TheTerms(T, t * n))  BY <1>3, <1>5, <1>8, SharesListed
<1> QED BY <1>2, <1>4, <1>5, <1>9

LEMMA NothingListed ==
  ASSUME NEW S, IsFiniteSet(S), NEW loc, \A x \in S : loc[x] = <<>>
  PROVE  Lists(all_reduce(loc, S), {})
<1> DEFINE terms == [x \in S |-> {}]
<1>1. AllList(loc, terms, S) /\ AllTerms(terms, S) = {}
  BY ListsNothing DEF AllList, AllTerms
<1> HIDE DEF terms
<1>2. Lists(all_reduce(loc, S), AllTerms(terms, S))  BY <1>1, AllReduceLists
<1> QED BY <1>1, <1>2

(* The columns of a gated layer, or none where the model has none. *)
Columns(m) == IF m \in Layers THEN TheTerms(GatedTerms(m), conf.inter) ELSE {}

LEMMA ColumnsAre ==
  /\ Columns("gate_up") \cap Columns("w13") = {}
  /\ Columns("gate_up") \cup Columns("w13")
       = AllColumns
<1>1. \A m : Columns(m) = {x \in {<<m, <<"gate", i>>, <<"up", i>>, <<"in", i>> >> : i \in 0..conf.inter - 1} : m \in Layers}
  BY DEF Columns, TheTerms, GatedTerms
<1>2. Columns("gate_up") \cap Columns("w13") = {}
  <2> SUFFICES ASSUME NEW x \in Columns("gate_up"), x \in Columns("w13") PROVE FALSE
    OBVIOUS
  <2>1. x[1] = "gate_up" /\ x[1] = "w13"  BY <1>1
  <2> QED BY <2>1
<1> QED BY <1>1, <1>2 DEF AllColumns

LEMMA FeedForwardWhenLoaded == WeightIInv => FeedForwardIsExact
<1> SUFFICES ASSUME WeightIInv, Loaded, NEW r \in World
             PROVE  SumOf(FeedForward[r], AllColumns)
  BY DEF FeedForwardIsExact
<1>1. Ready /\ LayersCut /\ conf \in Configs  BY ReadyWhenLoaded DEF Ready, LayersCut
<1>2. PICK a, b : a = [x \in World |-> shared_expert(x)] /\ b = [x \in World |-> routed_experts(x)]
  OBVIOUS
<1>3. PICK S, U : S = ReducedOver(r).shared /\ U = ReducedOver(r).routed  OBVIOUS
<1>4. FeedForward[r] = all_reduce(a, S) \o all_reduce(b, U)
  BY <1>2, <1>3, Zenon DEF FeedForward
<1>5. S \in {FourOf(r), World} /\ U \in {FourOf(r), World}  BY <1>3, GroupsAre
<1>6. IsFiniteSet(World) /\ FourOf(r) \subseteq World
  <2>1. PICK n : n = conf.tp /\ n \in Nat \ {0} /\ World = 0..n - 1
    BY <1>1, ConfigIs DEF World
  <2>2. IsFiniteSet(World)  BY <2>1, FS_Interval
  <2> QED BY <2>2 DEF FourOf
<1>7. IsFiniteSet(S) /\ IsFiniteSet(U) /\ S \subseteq World /\ U \subseteq World
  BY <1>5, <1>6, FS_Subset
<1>8. Lists(all_reduce(a, S), Columns("gate_up"))
  <2>1. CASE "gate_up" \in Layers
    <3>1. PICK m \in GatedLayers : m = "gate_up" /\ S = GroupOf(m, r) /\ DownOf(m) = "down"
      BY <1>3, <2>1, GroupsAre DEF GatedLayers, DownOf
    <3>2. \A x \in World : a[x] = Gated(m, DownOf(m), x)
      BY <1>2, <2>1, <3>1 DEF shared_expert
    <3>3. Lists(all_reduce(a, GroupOf(m, r)), TheTerms(GatedTerms(m), conf.inter))
      BY <1>1, <3>2, GatedListed
    <3> QED BY <2>1, <3>1, <3>3 DEF Columns
  <2>2. CASE "gate_up" \notin Layers
    <3>1. \A x \in S : a[x] = <<>>  BY <1>2, <1>7, <2>2 DEF shared_expert
    <3>2. Lists(all_reduce(a, S), {})  BY <1>7, <3>1, NothingListed
    <3> QED BY <2>2, <3>2 DEF Columns
  <2> QED BY <2>1, <2>2
<1>9. Lists(all_reduce(b, U), Columns("w13"))
  <2>1. CASE "w13" \in Layers
    <3>1. PICK m \in GatedLayers : m = "w13" /\ U = GroupOf(m, r) /\ DownOf(m) = "w2"
      BY <1>3, <2>1, GroupsAre DEF GatedLayers, DownOf
    <3>2. \A x \in World : b[x] = Gated(m, DownOf(m), x)
      BY <1>2, <2>1, <3>1 DEF routed_experts
    <3>3. Lists(all_reduce(b, GroupOf(m, r)), TheTerms(GatedTerms(m), conf.inter))
      BY <1>1, <3>2, GatedListed
    <3> QED BY <2>1, <3>1, <3>3 DEF Columns
  <2>2. CASE "w13" \notin Layers
    <3>1. \A x \in U : b[x] = <<>>  BY <1>2, <1>7, <2>2 DEF routed_experts
    <3>2. Lists(all_reduce(b, U), {})  BY <1>7, <3>1, NothingListed
    <3> QED BY <2>2, <3>2 DEF Columns
  <2> QED BY <2>1, <2>2
<1>10. Lists(all_reduce(a, S) \o all_reduce(b, U), Columns("gate_up") \cup Columns("w13"))
  BY <1>8, <1>9, ColumnsAre, ListsJoin
<1> QED BY <1>4, <1>10, ColumnsAre, ListsSum

LEMMA WeightsAlways == ShardSpec => []WeightIInv
BY WeightsInitially, WeightsNext, PTL DEF ShardSpec

(* Once the file is loaded, in whatever order, the ranks' attention outputs sum *)
(* up to every query head once, with the key and value head of its group and *)
(* its own columns of o_proj: for every number of ranks, heads and replicas *)
(* that the constructors accept. *)
THEOREM AttentionAddsUp == ShardSpec => []AttentionIsExact
BY WeightsAlways, AttentionWhenLoaded, PTL

(* And those of the gated delta net to every value head once, with the key *)
(* head of its group, for the files the conversions are right for: those in *)
(* plain order, those with the conversions' own numbers of heads that are not *)
(* quantised, and those of one value head to a key head that they do not take *)
(* for their own. *)
THEOREM DeltaNetAddsUp == ShardSpec => []DeltaNetIsExact
BY WeightsAlways, DeltaNetWhenLoaded, PTL

(* And every rank ends with every column of the MLP, or of the shared expert *)
(* and the experts, exactly once, whichever of the TP4X2 switches are set. *)
THEOREM FeedForwardAddsUp == ShardSpec => []FeedForwardIsExact
BY WeightsAlways, FeedForwardWhenLoaded, PTL

-----------------------------------------------------------------------------
(* The grid of the grouped product. *)

LEMMA CdivIs ==
  ASSUME NEW x \in Nat, NEW y \in Nat \ {0}
  PROVE  /\ cdiv(x, y) \in Nat /\ y * cdiv(x, y) <= x + (y - 1)
         /\ \A i \in Nat : i < cdiv(x, y) <=> y * i < x
<1>1. PICK a, d : a = x + y - 1 /\ a \in Nat /\ d = a \div y  OBVIOUS
<1>2. cdiv(x, y) = d  BY <1>1 DEF cdiv
<1>3. d \in Nat  BY <1>1, DivNat
<1>4. y * d <= a
  <2>1. a \in Int  BY <1>1
  <2> QED BY <1>1, <2>1, DivBounds
<1>5. ASSUME NEW i \in Nat
      PROVE  i < d <=> y * i < x
  <2>1. a \in Int /\ i + 1 \in Int  BY <1>1
  <2>2. i + 1 <= d <=> y * (i + 1) <= a  BY <1>1, <2>1, DivLess
  <2>3. PICK z : z = y * i /\ y * (i + 1) = z + y /\ z \in Nat  OBVIOUS
  <2> QED BY <1>1, <1>3, <2>2, <2>3
<1> QED BY <1>1, <1>2, <1>3, <1>4, <1>5

(* The last group of rows is smaller. *)
GroupSize(g, mm, gg) == Smaller(mm - g * gg, gg)
RowBlock(pid, mm, nn, gg) ==
  (pid \div (gg * nn)) * gg + ((pid % (gg * nn)) % GroupSize(pid \div (gg * nn), mm, gg))
ColumnBlock(pid, mm, nn, gg) == (pid % (gg * nn)) \div GroupSize(pid \div (gg * nn), mm, gg)

LEMMA PidIn ==
  ASSUME NEW mm \in Nat \ {0}, NEW nn \in Nat \ {0}, NEW gg \in Nat \ {0}, NEW pid \in 0..mm * nn - 1
  PROVE  RowBlock(pid, mm, nn, gg) \in Nat /\ ColumnBlock(pid, mm, nn, gg) \in Nat
<1>1. PICK w, a, q : w = gg * nn /\ w \in Nat \ {0} /\ a = pid \div w /\ q = pid % w  OBVIOUS
<1>2. pid \in Nat /\ pid \in Int /\ pid < mm * nn
  OBVIOUS
<1>3. a \in Nat /\ q \in Nat /\ w * a <= pid  BY <1>1, <1>2, DivNat, DivType, DivBounds
<1>4. PICK b : b = a * gg /\ b \in Nat  BY <1>3
<1>5. b < mm
  <2>1. w * a = nn * b /\ mm * nn = nn * mm  BY <1>1, <1>3, <1>4
  <2>2. nn * b < nn * mm
    <3>1. PICK x, y, z : x = w * a /\ y = nn * b /\ z = nn * mm /\ z = mm * nn  BY <2>1
    <3>2. x \in Nat /\ z \in Nat  BY <1>1, <1>3, <3>1
    <3> QED BY <1>2, <1>3, <2>1, <3>1, <3>2
  <2>3. b \in Int /\ mm \in Int  BY <1>4
  <2> QED BY <2>2, <2>3, TimesOrder
<1>6. PICK s : s = GroupSize(a, mm, gg) /\ s \in Nat \ {0}
  BY <1>4, <1>5 DEF GroupSize, Smaller
<1>7. q % s \in Nat /\ q \div s \in Nat
  <2>1. q \in Int  BY <1>3
  <2> QED BY <1>3, <1>6, <2>1, DivType, DivNat
<1>8. RowBlock(pid, mm, nn, gg) = b + (q % s) /\ ColumnBlock(pid, mm, nn, gg) = q \div s
  BY <1>1, <1>4, <1>6 DEF RowBlock, ColumnBlock
<1>9. PICK e : e = q % s /\ e \in Nat  BY <1>7
<1>10. b + e \in Nat  BY <1>4, <1>9
<1> QED BY <1>7, <1>8, <1>9, <1>10

Reached(mm, nn, gg, i, j) ==
  \E pid \in 0..mm * nn - 1 : RowBlock(pid, mm, nn, gg) = i /\ ColumnBlock(pid, mm, nn, gg) = j

LEMMA PidOnto ==
  ASSUME NEW mm \in Nat \ {0}, NEW nn \in Nat \ {0}, NEW gg \in Nat \ {0},
         NEW i \in 0..mm - 1, NEW j \in 0..nn - 1
  PROVE  Reached(mm, nn, gg, i, j)
<1>1. PICK a, e : a = i \div gg /\ e = i % gg  OBVIOUS
<1>2. i \in Nat /\ i \in Int /\ i < mm /\ j \in Nat /\ j < nn
  OBVIOUS
<1>3. a \in Nat /\ e \in Nat /\ e < gg /\ e = i - gg * a
  BY <1>1, <1>2, DivNat, DivType, DivMod
<1>4. PICK b : b = a * gg /\ b = gg * a /\ b \in Nat  BY <1>3
<1>5. i = b + e  BY <1>2, <1>3, <1>4
<1>6. PICK s : s = GroupSize(a, mm, gg) /\ s \in Nat \ {0} /\ e < s /\ s <= gg /\ b + s <= mm
  BY <1>2, <1>3, <1>4, <1>5 DEF GroupSize, Smaller
<1>7. PICK q, w : q = j * s + e /\ w = gg * nn /\ w \in Nat \ {0}  OBVIOUS
<1>8. PICK u, v : u = j * s /\ u \in Nat /\ v = nn * s /\ v \in Nat  BY <1>2, <1>6
<1>9. u + s <= v
  <2>1. s * (j + 1) <= s * nn
    <3>1. j + 1 \in Int /\ nn \in Int /\ j + 1 <= nn  BY <1>2
    <3> QED BY <1>6, <3>1, TimesOrder
  <2>2. s * (j + 1) = j * s + s /\ s * nn = nn * s  BY <1>2, <1>6
  <2> QED BY <1>8, <2>1, <2>2
<1>10. v <= w
  <2>1. nn * s <= nn * gg
    <3>1. s \in Int /\ gg \in Int /\ s <= gg  BY <1>6
    <3> QED BY <3>1, TimesOrder
  <2>2. nn * gg = gg * nn
    OBVIOUS
  <2> QED BY <1>7, <1>8, <2>1, <2>2
<1>11. q \in Nat /\ q < v /\ q < w  BY <1>3, <1>6, <1>7, <1>8, <1>9, <1>10
<1>12. PICK d, pid : d = a * w /\ d = w * a /\ d \in Nat /\ pid = d + q  BY <1>3, <1>7
<1>13. pid \div w = a
  <2>1. pid \in Int /\ a \in Int /\ w * a <= pid /\ pid < w * a + w
    BY <1>3, <1>7, <1>11, <1>12
  <2> QED BY <1>7, <2>1, DivUnique
<1>14. pid % w = q
  <2>1. pid \in Int  BY <1>11, <1>12
  <2>2. pid % w = pid - w * (pid \div w)  BY <1>7, <2>1, DivMod
  <2> QED BY <1>11, <1>12, <1>13, <2>2
<1>15. q \div s = j
  <2>1. s * j = u  BY <1>2, <1>6, <1>8
  <2>2. q \in Int /\ j \in Int /\ s * j <= q /\ q < s * j + s
    BY <1>2, <1>3, <1>6, <1>7, <1>8, <2>1
  <2> QED BY <1>6, <2>2, DivUnique
<1>16. q % s = e
  <2>1. q \in Int  BY <1>11
  <2>2. q % s = q - s * (q \div s)  BY <1>6, <2>1, DivMod
  <2>3. s * j = u  BY <1>2, <1>6, <1>8
  <2> QED BY <1>3, <1>7, <1>8, <1>15, <2>2, <2>3
<1>17. RowBlock(pid, mm, nn, gg) = i /\ ColumnBlock(pid, mm, nn, gg) = j
  BY <1>4, <1>5, <1>6, <1>7, <1>13, <1>14, <1>15, <1>16 DEF RowBlock, ColumnBlock
<1>18. pid \in 0..mm * nn - 1
  <2>1. PICK x : x = mm * nn /\ x \in Nat  OBVIOUS
  <2>2. d + v <= x
    <3>1. nn * (b + s) <= nn * mm
      <4>1. b + s \in Int /\ mm \in Int /\ b + s <= mm  BY <1>4, <1>6
      <4> QED BY <4>1, TimesOrder
    <3>2. nn * (b + s) = nn * b + nn * s  BY <1>4, <1>6
    <3>3. nn * b = d  BY <1>3, <1>4, <1>7, <1>12
    <3>4. nn * mm = mm * nn
      OBVIOUS
    <3> QED BY <1>8, <2>1, <3>1, <3>2, <3>3, <3>4
  <2>3. pid \in Nat /\ pid < x  BY <1>8, <1>11, <1>12, <2>1, <2>2
  <2> QED BY <2>1, <2>3
<1> QED BY <1>17, <1>18 DEF Reached

-----------------------------------------------------------------------------
(* The routes of a chunk. *)

Numel == tokens_in_chunk * top_k
Mine(r) == LocalIndex(Routed(r)) # -1
Stored(r) == Mine(r) \/ moe.path # "impl"
Token(r) == begin_chunk_idx + r \div top_k + 1
Longest == Smaller(num_tokens, chunk_size)
Counted == moe \in MoeConfigs /\ RoutesCounted
Live == Counted /\ chunk \in Nat /\ begin_chunk_idx < num_tokens

MoeFacts ==
  /\ num_tokens \in Nat \ {0} /\ top_k \in Nat \ {0} /\ chunk_size \in Nat \ {0}
  /\ moe.n \in Nat \ {0} /\ moe.k \in Nat \ {0} /\ moe.n % 2 = 0 /\ num_experts \in Nat \ {0}
  /\ moe.BLOCK_SIZE_N \in Nat \ {0} /\ moe.GROUP_SIZE_M \in Nat \ {0}
  /\ moe.path \in {"impl", "experts", "fp8"}
  /\ moe.local \in Seq(Nat) /\ (~ moe.mapped => moe.local = [e \in 1..num_experts |-> e - 1])
  /\ \A t \in 1..num_tokens : \A s \in 1..top_k : moe.ids[t][s] \in 0..num_experts - 1
  /\ \A t \in 1..num_tokens : moe.block[t] \in Nat \ {0}

LEMMA MoeIs ==
  ASSUME Counted
  PROVE  MoeFacts
<1>1. PICK c : c = moe  OBVIOUS
<1>2. c \in MoeConfig /\ CHUNK_SIZE \in Nat \ {0}  BY <1>1, MoeAssumption DEF Counted
<1>3. /\ c.ids \in Seq(Seq(Nat)) /\ c.n \in Nat \ {0} /\ c.k \in Nat \ {0} /\ c.experts \in Nat \ {0}
      /\ c.BLOCK_SIZE_N \in Nat \ {0} /\ c.GROUP_SIZE_M \in Nat \ {0} /\ c.path \in {"impl", "experts", "fp8"}
      /\ c.local \in Seq(Nat) /\ c.block \in Seq(Nat \ {0})
  BY <1>2 DEF MoeConfig
<1>4. /\ 0 < Len(c.ids) /\ Len(c.ids) <= Len(c.block) /\ c.n % 2 = 0
      /\ \A t \in DOMAIN c.ids :
           /\ 0 < Len(c.ids[1]) /\ Len(c.ids[t]) = Len(c.ids[1])
           /\ ToSet(c.ids[t]) \subseteq 0..c.experts - 1
      /\ ~c.mapped => c.local = [e \in 1..c.experts |-> e - 1]
  BY <1>1, MoeAssumption DEF Counted
<1>5. PICK n : n = Len(c.ids) /\ n \in Nat \ {0} /\ DOMAIN c.ids = 1..n
  <2>1. PICK u : u = c.ids /\ u \in Seq(Seq(Nat))  BY <1>3
  <2>2. Len(u) \in Nat /\ DOMAIN u = 1..Len(u) /\ 0 < Len(u)  BY <1>4, <2>1
  <2> QED BY <2>1, <2>2
<1>6. \A t \in 1..n : c.ids[t] \in Seq(Nat)  BY <1>3, <1>5
<1>7. PICK m : m = Len(c.ids[1]) /\ m \in Nat \ {0}
  <2>1. 1 \in 1..n  BY <1>5
  <2>2. PICK u : u = c.ids[1] /\ u \in Seq(Nat)  BY <1>6, <2>1
  <2>3. 0 < Len(u) /\ Len(u) \in Nat  BY <1>4, <1>5, <2>1, <2>2
  <2> QED BY <2>2, <2>3
<1>8. \A t \in 1..n : \A s \in 1..m : c.ids[t][s] \in 0..c.experts - 1
  <2> SUFFICES ASSUME NEW t \in 1..n, NEW s \in 1..m PROVE c.ids[t][s] \in 0..c.experts - 1
    OBVIOUS
  <2>1. PICK u : u = c.ids[t] /\ u \in Seq(Nat) /\ Len(u) = m /\ ToSet(u) \subseteq 0..c.experts - 1
    BY <1>4, <1>5, <1>6, <1>7
  <2>2. u[s] \in ToSet(u)  BY <2>1 DEF ToSet
  <2> QED BY <2>1, <2>2
<1>9. \A t \in 1..n : c.block[t] \in Nat \ {0}
  <2>1. PICK u : u = c.block /\ u \in Seq(Nat \ {0}) /\ n <= Len(u)  BY <1>3, <1>4, <1>5
  <2>2. Len(u) \in Nat /\ \A t \in 1..Len(u) : u[t] \in Nat \ {0}  BY <2>1
  <2> QED BY <1>5, <2>1, <2>2
<1>10. num_tokens = n /\ top_k = m  BY <1>1, <1>5, <1>7 DEF num_tokens, top_k
<1>11. chunk_size \in Nat \ {0}  BY <1>2, <1>5, <1>10 DEF chunk_size
<1>12. PICK E : E = num_experts /\ E \in Nat /\ (~ c.mapped => E = c.experts)
  <2>1. CASE c.path = "fp8"
    <3>1. PICK u : u = c.local /\ u \in Seq(Nat)  BY <1>3
    <3>2. Len(u) \in Nat /\ num_experts = Len(u)  BY <1>1, <2>1, <3>1 DEF num_experts
    <3>3. ~ c.mapped => Len(u) = c.experts
      <4> SUFFICES ASSUME ~ c.mapped PROVE Len(u) = c.experts
        OBVIOUS
      <4>1. PICK x : x = c.experts /\ x \in Nat /\ u = [e \in 1..x |-> e - 1]
        BY <1>3, <1>4, <3>1
      <4>2. DOMAIN u = 1..x  BY <4>1
      <4> QED BY <3>1, <4>1, <4>2
    <3> QED BY <3>2, <3>3
  <2>2. CASE c.path # "fp8"
    BY <1>1, <1>3, <2>2 DEF num_experts
  <2> QED BY <2>1, <2>2
<1>13. \A t \in 1..n : \A s \in 1..m : c.ids[t][s] \in 0..E - 1
  <2> SUFFICES ASSUME NEW t \in 1..n, NEW s \in 1..m PROVE c.ids[t][s] \in 0..E - 1
    OBVIOUS
  <2>1. PICK e : e = c.ids[t][s] /\ e \in Nat
    <3>1. PICK x : x = c.experts /\ x \in Nat  BY <1>3
    <3>2. PICK e : e = c.ids[t][s] /\ e \in 0..x - 1  BY <1>8, <3>1, Zenon
    <3> QED BY <3>1, <3>2
  <2>2. e < E  BY <1>1, <1>10, <1>12, <2>1 DEF Counted, RoutesCounted
  <2> QED BY <1>12, <2>1, <2>2
<1>14. E \in Nat \ {0}
  <2>1. 1 \in 1..n /\ 1 \in 1..m  BY <1>5, <1>7
  <2>2. PICK e : e = c.ids[1][1] /\ e \in 0..E - 1  BY <1>13, <2>1
  <2> QED BY <1>12, <2>2
<1>15. ~ c.mapped => c.local = [e \in 1..E |-> e - 1]  BY <1>4, <1>12
<1> QED BY <1>1, <1>3, <1>4, <1>5, <1>7, <1>9, <1>10, <1>11, <1>12, <1>13, <1>14, <1>15 DEF MoeFacts

LEMMA LocalIs ==
  ASSUME Counted, NEW e \in 0..num_experts - 1
  PROVE  /\ LocalIndex(e) \in Int
         /\ ~ moe.mapped => LocalIndex(e) = e
         /\ LocalIndex(e) # -1 => moe.local[LocalIndex(e) + 1] = e
<1>1. PICK l, n : l = moe.local /\ n = Len(l) /\ l \in Seq(Nat) /\ n \in Nat /\ DOMAIN l = 1..n
  <2>1. PICK u : u = moe.local /\ u \in Seq(Nat)  BY MoeIs DEF MoeFacts
  <2> QED BY <2>1
<1>2. CASE \E i \in DOMAIN l : l[i] = e
  <2>1. PICK i : i = CHOOSE j \in DOMAIN l : l[j] = e  OBVIOUS
  <2>2. i \in 1..n /\ l[i] = e  BY Zenon, <1>1, <1>2, <2>1
  <2>3. LocalIndex(e) = i - 1  BY <1>1, <1>2, <2>1 DEF LocalIndex
  <2>4. LocalIndex(e) + 1 = i /\ LocalIndex(e) \in Int  BY <2>2, <2>3
  <2>5. ~ moe.mapped => i - 1 = e
    <3>1. SUFFICES ASSUME ~ moe.mapped PROVE i - 1 = e  OBVIOUS
    <3>2. l = [x \in 1..num_experts |-> x - 1]  BY <1>1, <3>1, MoeIs DEF MoeFacts
    <3>3. i \in 1..num_experts  BY <1>1, <2>2, <3>2
    <3> QED BY <2>2, <3>2, <3>3
  <2> QED BY <1>1, <2>2, <2>3, <2>4, <2>5
<1>3. CASE ~ \E i \in DOMAIN l : l[i] = e
  <2>1. LocalIndex(e) = -1  BY <1>1, <1>3 DEF LocalIndex
  <2>2. moe.mapped
    <3>1. SUFFICES ASSUME ~ moe.mapped PROVE FALSE  OBVIOUS
    <3>2. l = [x \in 1..num_experts |-> x - 1]  BY <1>1, <3>1, MoeIs DEF MoeFacts
    <3>3. num_experts \in Nat  BY MoeIs DEF MoeFacts
    <3>4. e + 1 \in 1..num_experts /\ (e + 1) - 1 = e  BY <3>3
    <3>5. l[e + 1] = e /\ e + 1 \in DOMAIN l  BY <3>2, <3>4
    <3> QED BY <1>3, <3>5
  <2> QED BY <2>1, <2>2
<1> QED BY <1>2, <1>3

ChunkFacts ==
  /\ tokens_in_chunk \in 1..num_tokens /\ tokens_in_chunk <= Longest
  /\ begin_chunk_idx \in Nat /\ begin_chunk_idx + tokens_in_chunk <= num_tokens
  /\ begin_chunk_idx + tokens_in_chunk = num_tokens \/ begin_chunk_idx + tokens_in_chunk = (chunk + 1) * chunk_size
  /\ (chunk + 1) * chunk_size = begin_chunk_idx + chunk_size
  /\ (moe.path # "impl" => chunk = 0 /\ tokens_in_chunk = num_tokens)
  /\ BLOCK_SIZE_M \in Nat \ {0} /\ Numel \in Nat \ {0} /\ Routes = 0..Numel - 1

LEMMA ChunkIs ==
  ASSUME Live
  PROVE  ChunkFacts
<1>1. PICK n, k, z : n = num_tokens /\ k = top_k /\ z = chunk_size /\ n \in Nat \ {0} /\ k \in Nat \ {0} /\ z \in Nat \ {0}
  BY MoeIs DEF MoeFacts, Live
<1>2. PICK b : b = begin_chunk_idx /\ b = chunk * z /\ b \in Nat /\ b < n
  BY <1>1 DEF begin_chunk_idx, Live
<1>3. (chunk + 1) * chunk_size = b + z  BY <1>1, <1>2 DEF Live
<1>4. PICK w : w = tokens_in_chunk /\ w = Smaller(b + z, n) - b
  BY <1>1, <1>2, <1>3 DEF tokens_in_chunk
<1>5. w \in 1..n /\ w <= Longest /\ b + w <= n /\ (b + w = n \/ b + w = b + z)
  BY <1>1, <1>2, <1>4 DEF Smaller, Longest
<1>6. BLOCK_SIZE_M \in Nat \ {0}
  BY <1>1, <1>4, <1>5, MoeIs DEF BLOCK_SIZE_M, Live, MoeFacts
<1>7. Numel \in Nat \ {0}
  <2>1. w \in Nat \ {0}  BY <1>1, <1>5
  <2>2. w * k \in Nat \ {0}  BY <1>1, <2>1
  <2> QED BY <1>1, <1>4, <2>2 DEF Numel
<1>8. Routes = 0..Numel - 1  BY DEF Routes, Numel
<1>9. moe.path # "impl" => chunk = 0 /\ w = n
  <2>1. SUFFICES ASSUME moe.path # "impl" PROVE chunk = 0 /\ w = n  OBVIOUS
  <2>2. z = n  BY <1>1, <2>1 DEF chunk_size
  <2>3. chunk = 0
    <3>1. z * chunk = chunk * z /\ chunk \in Int /\ 1 \in Int /\ z * 1 = z /\ chunk \in Nat
      BY <1>1 DEF Live
    <3>2. chunk < 1 <=> z * chunk < z * 1  BY <1>1, <3>1, TimesOrder
    <3> QED BY <1>2, <2>2, <3>1, <3>2
  <2> QED BY <1>1, <1>2, <1>4, <2>2, <2>3 DEF Smaller
<1> QED BY <1>1, <1>2, <1>3, <1>4, <1>5, <1>6, <1>7, <1>8, <1>9 DEF ChunkFacts

LEMMA RouteIs ==
  ASSUME Live, NEW r \in Routes
  PROVE  /\ r \in Nat /\ r < Numel /\ r \div top_k \in 0..tokens_in_chunk - 1 /\ r % top_k \in 0..top_k - 1
         /\ Token(r) \in 1..num_tokens /\ begin_chunk_idx < Token(r) /\ Token(r) <= begin_chunk_idx + tokens_in_chunk
         /\ Routed(r) = moe.ids[Token(r)][(r % top_k) + 1]
         /\ Routed(r) \in 0..num_experts - 1 /\ LocalIndex(Routed(r)) \in Int
<1>1. PICK n, k, w, b : n = num_tokens /\ k = top_k /\ w = tokens_in_chunk /\ b = begin_chunk_idx
  OBVIOUS
<1>2. n \in Nat \ {0} /\ k \in Nat \ {0} /\ w \in 1..n /\ b \in Nat /\ b + w <= n /\ r \in 0..w * k - 1
  BY <1>1, MoeIs, ChunkIs DEF MoeFacts, ChunkFacts, Live, Routes
<1>3. r \in Nat /\ r \in Int /\ r < w * k /\ w \in Int /\ w * k = k * w
  <2>1. w * k \in Nat  BY <1>2
  <2> QED BY <1>2, <2>1
<1>4. r \div k \in Nat /\ r % k \in 0..k - 1  BY <1>2, <1>3, DivNat, DivType
<1>5. r \div k < w  BY <1>2, <1>3, DivLess
<1>6. PICK q, t : q = r \div k /\ t = Token(r) /\ t = b + q + 1 /\ q \in Nat
  BY <1>1, <1>4 DEF Token
<1>7. q \in 0..w - 1 /\ t \in 1..n /\ b < t /\ t <= b + w  BY <1>2, <1>5, <1>6
<1>8. Routed(r) = moe.ids[t][(r % k) + 1]  BY <1>1, <1>6 DEF Routed, Token
<1>9. (r % k) + 1 \in 1..k  BY <1>2, <1>4
<1>10. Routed(r) \in 0..num_experts - 1
  <2>1. \A x \in 1..n : \A s \in 1..k : moe.ids[x][s] \in 0..num_experts - 1
    BY <1>1, MoeIs DEF MoeFacts, Live
  <2> QED BY <1>7, <1>8, <1>9, <2>1, Zenon
<1>11. LocalIndex(Routed(r)) \in Int  BY <1>10, LocalIs DEF Live
<1> QED BY <1>1, <1>3, <1>4, <1>6, <1>7, <1>8, <1>10, <1>11 DEF Numel

(* Every slot of every token of the chunk is a route. *)
LEMMA RouteOf ==
  ASSUME Live, NEW t \in 0..tokens_in_chunk - 1, NEW s \in 0..top_k - 1
  PROVE  /\ t * top_k + s \in Routes /\ (t * top_k + s) \div top_k = t /\ (t * top_k + s) % top_k = s
         /\ Token(t * top_k + s) = begin_chunk_idx + t + 1
<1>1. PICK k, w : k = top_k /\ w = tokens_in_chunk /\ k \in Nat \ {0} /\ w \in Nat \ {0}
  <2>1. PICK n : n = num_tokens /\ n \in Nat \ {0} /\ top_k \in Nat \ {0} /\ tokens_in_chunk \in 1..n
    BY MoeIs, ChunkIs DEF MoeFacts, ChunkFacts, Live
  <2> QED BY <2>1
<1>2. PICK j : j = s + 1 /\ j \in 1..k /\ j - 1 = s  BY <1>1
<1>3. t \in 0..w - 1 /\ t \in Nat /\ s \in Nat  BY <1>1
<1>4. t * k + j - 1 \in 0..w * k - 1 /\ (t * k + j - 1) \div k = t
  BY <1>1, <1>2, <1>3, OneShare
<1>5. PICK r : r = t * k + j - 1 /\ r \in Nat /\ r = t * k + s /\ r - t * k = s
  <2>1. PICK x : x = t * k /\ x \in Nat  BY <1>1, <1>3
  <2> QED BY <1>2, <1>3, <2>1
<1>6. r % k = s
  <2>0. r \in Int  BY <1>5
  <2>1. r % k = r - k * (r \div k)  BY <1>1, <2>0, DivMod
  <2>2. k * t = t * k  BY <1>1, <1>3
  <2> QED BY <1>4, <1>5, <2>1, <2>2
<1>7. Token(r) = begin_chunk_idx + t + 1  BY <1>1, <1>4, <1>5 DEF Token
<1> QED BY <1>1, <1>4, <1>5, <1>6, <1>7 DEF Routes

-----------------------------------------------------------------------------
(* The cells a grouped product stores. *)

TableSound ==
  \A m \in Nat : m * BLOCK_SIZE_M < table.num_tokens_post_padded =>
    \A r \in RowsOf(m, Numel) : r \in Routes /\ table.expert_ids[m + 1] = LocalIndex(Routed(r))

TableCovers(em) ==
  /\ em \in Nat
  /\ \A r \in Routes : Stored(r) =>
       \E m \in Nat : /\ m * BLOCK_SIZE_M < table.num_tokens_post_padded
                      /\ r \in RowsOf(m, Numel) /\ m < cdiv(em, BLOCK_SIZE_M)

TableRight ==
  TableSound /\ TableCovers(EM(tokens_in_chunk, top_k)) /\ TableCovers(EM(Numel, 1))

CellOf(r, c) == <<r, LocalIndex(Routed(r)), c>>
CellsRight(cells, columns) ==
  /\ \A x \in cells : \E r \in Routes : \E c \in 0..columns - 1 : x = CellOf(r, c)
  /\ \A r \in Routes : Stored(r) => \A c \in 0..columns - 1 : CellOf(r, c) \in cells

ColumnsOf(n, columns) == {x \in n * moe.BLOCK_SIZE_N..(n + 1) * moe.BLOCK_SIZE_N - 1 : x < columns}
StoredBy(p, columns, valid) ==
  UNION {{<<r, table.expert_ids[p.m + 1], c>> : c \in ColumnsOf(p.n, columns)} : r \in RowsOf(p.m, valid)}
Programs(em, columns) ==
  {p \in {Pid(pid, em, columns) : pid \in 0..cdiv(em, BLOCK_SIZE_M) * cdiv(columns, moe.BLOCK_SIZE_N) - 1} :
     p.m * BLOCK_SIZE_M < table.num_tokens_post_padded}

LEMMA ProductsAre ==
  ASSUME NEW high, NEW k, NEW columns
  PROVE  /\ \A x \in Products(high, k, columns) :
              \E p \in Programs(EM(high, k), columns) : x \in StoredBy(p, columns, high * k)
         /\ \A p \in Programs(EM(high, k), columns) :
              \A x \in StoredBy(p, columns, high * k) : x \in Products(high, k, columns)
<1>1. PICK P : P = Programs(EM(high, k), columns)  OBVIOUS
<1>2. Products(high, k, columns) = 
        UNION {{<<r, table.expert_ids[p.m + 1], c>> : r \in RowsOf(p.m, high * k), c \in ColumnsOf(p.n, columns)} : p \in P}
  BY <1>1 DEF Products, Programs, ColumnsOf
<1>3. ASSUME NEW p
      PROVE  {<<r, table.expert_ids[p.m + 1], c>> : r \in RowsOf(p.m, high * k), c \in ColumnsOf(p.n, columns)}
             = StoredBy(p, columns, high * k)
  BY SMT DEF StoredBy
<1> QED BY <1>1, <1>2, <1>3

LEMMA PidIs ==
  ASSUME NEW pid, NEW em, NEW columns
  PROVE  Pid(pid, em, columns) =
           [m |-> RowBlock(pid, cdiv(em, BLOCK_SIZE_M), cdiv(columns, moe.BLOCK_SIZE_N), moe.GROUP_SIZE_M),
            n |-> ColumnBlock(pid, cdiv(em, BLOCK_SIZE_M), cdiv(columns, moe.BLOCK_SIZE_N), moe.GROUP_SIZE_M)]
BY Zenon DEF Pid, RowBlock, ColumnBlock, GroupSize

LEMMA ColumnsShared ==
  ASSUME NEW b \in Nat \ {0}, b = moe.BLOCK_SIZE_N, NEW columns \in Nat \ {0}
  PROVE  /\ \A n \in Nat : \A c \in ColumnsOf(n, columns) : c \in 0..columns - 1
         /\ \A c \in 0..columns - 1 : \E n \in 0..cdiv(columns, b) - 1 : c \in ColumnsOf(n, columns)
<1>1. ASSUME NEW n \in Nat, NEW c \in ColumnsOf(n, columns)
      PROVE  c \in 0..columns - 1
  <2>1. PICK x, y : x = n * b /\ y = (n + 1) * b /\ x \in Nat /\ y \in Nat  OBVIOUS
  <2>2. c \in x..y - 1 /\ c < columns  BY <2>1 DEF ColumnsOf
  <2> QED BY <2>1, <2>2
<1>2. ASSUME NEW c \in 0..columns - 1
      PROVE  \E n \in 0..cdiv(columns, b) - 1 : c \in ColumnsOf(n, columns)
  <2>1. c \in Nat /\ c \in Int /\ c < columns
    OBVIOUS
  <2>2. PICK n : n = c \div b /\ n \in Nat  BY <2>1, DivNat
  <2>3. b * n <= c /\ c < b * n + b  BY <2>1, <2>2, DivBounds
  <2>4. PICK x : x = n * b /\ x = b * n /\ (n + 1) * b = x + b /\ x \in Nat  BY <2>2
  <2>5. c \in n * b..(n + 1) * b - 1  BY <2>1, <2>3, <2>4
  <2>6. c \in ColumnsOf(n, columns)  BY <2>1, <2>5 DEF ColumnsOf
  <2>7. cdiv(columns, b) \in Nat /\ (n < cdiv(columns, b) <=> b * n < columns)
    BY <2>2, CdivIs
  <2>8. n \in 0..cdiv(columns, b) - 1
    <3>1. b * n < columns  BY <2>1, <2>3, <2>4
    <3> QED BY <2>2, <2>7, <3>1
  <2> QED BY <2>6, <2>8
<1> QED BY <1>1, <1>2

LEMMA ProductsRight ==
  ASSUME Live, TableSound, NEW high, NEW k, high * k = Numel, TableCovers(EM(high, k)),
         NEW columns \in Nat \ {0}
  PROVE  CellsRight(Products(high, k, columns), columns)
<1>1. PICK em, B, G, BN : em = EM(high, k) /\ B = BLOCK_SIZE_M /\ G = moe.GROUP_SIZE_M /\ BN = moe.BLOCK_SIZE_N
  OBVIOUS
<1>2. em \in Nat /\ B \in Nat \ {0} /\ G \in Nat \ {0} /\ BN \in Nat \ {0}
  BY <1>1, MoeIs, ChunkIs DEF Live, MoeFacts, ChunkFacts, TableCovers
<1>3. PICK M, N : M = cdiv(em, B) /\ N = cdiv(columns, BN) /\ M \in Nat /\ N \in Nat \ {0}
  <2>1. cdiv(em, B) \in Nat  BY <1>2, CdivIs
  <2>2. 0 \in Nat /\ BN * 0 = 0  BY <1>2
  <2>3. cdiv(columns, BN) \in Nat /\ (0 < cdiv(columns, BN) <=> BN * 0 < columns)
    BY <1>2, <2>2, CdivIs
  <2> QED BY <2>1, <2>2, <2>3
<1>4. PICK P : P = Programs(em, columns)  OBVIOUS
<1>5. \A p : p \in P <=> \E pid \in 0..M * N - 1 :
               p = [m |-> RowBlock(pid, M, N, G), n |-> ColumnBlock(pid, M, N, G)]
               /\ p.m * B < table.num_tokens_post_padded
  BY <1>1, <1>3, <1>4, PidIs DEF Programs
<1>6. \A x \in Products(high, k, columns) : \E p \in P : x \in StoredBy(p, columns, Numel)
  BY <1>1, <1>4, ProductsAre
<1>7. \A p \in P : \A x \in StoredBy(p, columns, Numel) : x \in Products(high, k, columns)
  BY <1>1, <1>4, ProductsAre
<1>8. ASSUME NEW x \in Products(high, k, columns)
      PROVE  \E r \in Routes : \E c \in 0..columns - 1 : x = CellOf(r, c)
  <2>1. PICK p \in P : x \in StoredBy(p, columns, Numel)  BY <1>6
  <2>2. PICK pid \in 0..M * N - 1 : p = [m |-> RowBlock(pid, M, N, G), n |-> ColumnBlock(pid, M, N, G)]
                                    /\ p.m * B < table.num_tokens_post_padded
    BY <1>5, <2>1
  <2>3. M \in Nat \ {0}
    <3>1. SUFFICES ASSUME M = 0 PROVE FALSE  BY <1>3
    <3>2. M * N = 0  BY <1>3, <3>1
    <3> QED BY <2>2, <3>2
  <2>4. p.m \in Nat /\ p.n \in Nat  BY <1>2, <1>3, <2>2, <2>3, PidIn
  <2>5. PICK r \in RowsOf(p.m, Numel) : \E c \in ColumnsOf(p.n, columns) : x = <<r, table.expert_ids[p.m + 1], c>>
    BY <2>1 DEF StoredBy
  <2>6. PICK c \in ColumnsOf(p.n, columns) : x = <<r, table.expert_ids[p.m + 1], c>>
    BY <2>5
  <2>7. r \in Routes /\ table.expert_ids[p.m + 1] = LocalIndex(Routed(r))
    BY <1>1, <2>2, <2>4, <2>5 DEF TableSound
  <2>8. c \in 0..columns - 1  BY <1>1, <1>2, <2>4, <2>6, ColumnsShared
  <2> QED BY <2>6, <2>7, <2>8 DEF CellOf
<1>9. ASSUME NEW r \in Routes, Stored(r), NEW c \in 0..columns - 1
      PROVE  CellOf(r, c) \in Products(high, k, columns)
  <2>1. PICK m \in Nat : m * B < table.num_tokens_post_padded /\ r \in RowsOf(m, Numel) /\ m < M
    BY <1>1, <1>3, <1>9 DEF TableCovers
  <2>2. PICK n \in 0..N - 1 : c \in ColumnsOf(n, columns)
    BY <1>1, <1>2, <1>3, ColumnsShared
  <2>3. M \in Nat \ {0} /\ m \in 0..M - 1  BY <1>3, <2>1
  <2>4. PICK pid \in 0..M * N - 1 : RowBlock(pid, M, N, G) = m /\ ColumnBlock(pid, M, N, G) = n
    <3>1. M \in Nat \ {0} /\ N \in Nat \ {0} /\ G \in Nat \ {0} /\ m \in 0..M - 1 /\ n \in 0..N - 1
      BY <1>2, <1>3, <2>2, <2>3
    <3>2. Reached(M, N, G, m, n)  BY <3>1, PidOnto
    <3> QED BY <3>2 DEF Reached
  <2>5. PICK p : p = [m |-> RowBlock(pid, M, N, G), n |-> ColumnBlock(pid, M, N, G)] /\ p.m = m /\ p.n = n
    <3>1. PICK p : p = [m |-> RowBlock(pid, M, N, G), n |-> ColumnBlock(pid, M, N, G)]  OBVIOUS
    <3>2. p.m = RowBlock(pid, M, N, G) /\ p.n = ColumnBlock(pid, M, N, G)  BY <3>1
    <3> QED BY <2>4, <3>1, <3>2
  <2>6. p \in P  BY <1>5, <2>1, <2>5
  <2>7. table.expert_ids[p.m + 1] = LocalIndex(Routed(r))
    BY <1>1, <2>1, <2>5 DEF TableSound
  <2>8. CellOf(r, c) = <<r, table.expert_ids[p.m + 1], c>>  BY <2>7 DEF CellOf
  <2>9. CellOf(r, c) \in StoredBy(p, columns, Numel)  BY <2>1, <2>2, <2>5, <2>8 DEF StoredBy
  <2> QED BY <1>7, <2>6, <2>9
<1> QED BY <1>8, <1>9 DEF CellsRight

-----------------------------------------------------------------------------
(* What the memory holds after a grouped product. *)

LEMMA OneCell ==
  ASSUME NEW r \in Nat, NEW q \in Nat, NEW columns \in Nat \ {0},
         NEW c \in 0..columns - 1, NEW d \in 0..columns - 1, q * columns + d = r * columns + c
  PROVE  q = r /\ d = c
<1>1. PICK u, v : u = r * columns /\ u = columns * r /\ v = q * columns /\ v = columns * q /\ u \in Nat /\ v \in Nat
  OBVIOUS
<1>2. PICK a : a = u + c /\ a = v + d /\ a \in Int  BY <1>1
<1>3. columns * r <= a /\ a < columns * r + columns /\ columns * q <= a /\ a < columns * q + columns
  BY <1>1, <1>2
<1>4. r \in Int /\ q \in Int
  OBVIOUS
<1>5. a \div columns = r /\ a \div columns = q  BY <1>2, <1>3, <1>4, DivUnique
<1>6. q = r  BY <1>5
<1>7. u = v  BY <1>1, <1>6
<1> QED BY <1>1, <1>2, <1>6, <1>7

ProductAt(r, c, operand, weights) == <<operand[r], Routed(r), weights, c>>
StoresRight(after, memory, columns, operand, weights) ==
  /\ DOMAIN after = DOMAIN memory
  /\ \A r \in Routes : \A c \in 0..columns - 1 : r * columns + c \in DOMAIN memory =>
       /\ Mine(r) => after[r * columns + c] = ProductAt(r, c, operand, weights)
       /\ ~ Mine(r) /\ moe.path # "impl" => after[r * columns + c] = Zero
       /\ ~ Mine(r) => after[r * columns + c] \in {memory[r * columns + c], Zero}

CellsAt(cells, columns, i) == {x \in cells : x[1] * columns + x[3] = i}
StoredAt(old, cells, operand, weights) ==
  LET cell == CHOOSE x \in cells : TRUE
  IN  IF cells = {} THEN old ELSE IF cell[2] = -1 THEN Zero
      ELSE <<operand[cell[1]], moe.local[cell[2] + 1], weights, cell[3]>>

LEMMA MultipliedIs ==
  ASSUME NEW memory, NEW cells, NEW columns, NEW operand, NEW weights
  PROVE  Multiplied(memory, cells, columns, operand, weights) =
           [i \in DOMAIN memory |-> StoredAt(memory[i], CellsAt(cells, columns, i), operand, weights)]
BY Zenon DEF Multiplied, StoredAt, CellsAt

LEMMA ChooseOnly ==
  ASSUME NEW x, NEW S, S = {x}
  PROVE  (CHOOSE y \in S : TRUE) = x
OBVIOUS

LEMMA MultipliedRight ==
  ASSUME Live, NEW memory, NEW cells, NEW columns \in Nat \ {0}, CellsRight(cells, columns),
         NEW operand, NEW weights
  PROVE  StoresRight(Multiplied(memory, cells, columns, operand, weights), memory, columns, operand, weights)
<1>1. PICK after : after = Multiplied(memory, cells, columns, operand, weights)  OBVIOUS
<1>2. after = [i \in DOMAIN memory |-> StoredAt(memory[i], CellsAt(cells, columns, i), operand, weights)]
  BY <1>1, MultipliedIs
<1>3. ASSUME NEW r \in Routes, NEW c \in 0..columns - 1, r * columns + c \in DOMAIN memory
      PROVE  /\ Mine(r) => after[r * columns + c] = ProductAt(r, c, operand, weights)
             /\ ~ Mine(r) /\ moe.path # "impl" => after[r * columns + c] = Zero
             /\ ~ Mine(r) => after[r * columns + c] \in {memory[r * columns + c], Zero}
  <2>1. PICK i, here, e : i = r * columns + c /\ here = CellsAt(cells, columns, i) /\ e = LocalIndex(Routed(r))
    OBVIOUS
  <2>2. after[i] = StoredAt(memory[i], here, operand, weights)  BY <1>2, <1>3, <2>1
  <2>3. here \subseteq {CellOf(r, c)}
    <3> SUFFICES ASSUME NEW x \in here PROVE x = CellOf(r, c)
      OBVIOUS
    <3>1. x \in cells /\ x[1] * columns + x[3] = i  BY <2>1 DEF CellsAt
    <3>2. PICK q \in Routes : \E d \in 0..columns - 1 : x = CellOf(q, d)
      BY <3>1 DEF CellsRight
    <3>3. PICK d \in 0..columns - 1 : x = CellOf(q, d)  BY <3>2
    <3>4. x[1] = q /\ x[3] = d  BY <3>3 DEF CellOf
    <3>5. q \in Nat /\ r \in Nat  BY RouteIs
    <3>6. q * columns + d = r * columns + c  BY <2>1, <3>1, <3>4
    <3>7. q = r /\ d = c  BY <3>5, <3>6, OneCell
    <3> QED BY <3>3, <3>7
  <2>4. Stored(r) => here = {CellOf(r, c)}
    <3>1. SUFFICES ASSUME Stored(r) PROVE CellOf(r, c) \in here  BY <2>3
    <3>2. CellOf(r, c) \in cells  BY <3>1 DEF CellsRight
    <3>3. CellOf(r, c)[1] = r /\ CellOf(r, c)[3] = c  BY DEF CellOf
    <3> QED BY <2>1, <3>2, <3>3 DEF CellsAt
  <2>5. CASE here = {}
    <3>1. ~ Stored(r)  BY <2>4, <2>5
    <3>2. ~ Mine(r) /\ moe.path = "impl"  BY <3>1 DEF Stored
    <3>3. after[i] = memory[i]  BY <2>2, <2>5 DEF StoredAt
    <3> QED BY <2>1, <3>2, <3>3
  <2>6. CASE here # {}
    <3>1. here = {CellOf(r, c)}  BY <2>3, <2>6
    <3>2. PICK x : x = CHOOSE y \in here : TRUE  OBVIOUS
    <3>3. x = CellOf(r, c)  BY <3>1, <3>2, ChooseOnly
    <3>4. x[1] = r /\ x[2] = e /\ x[3] = c  BY <2>1, <3>3 DEF CellOf
    <3>5. after[i] = IF x[2] = -1 THEN Zero ELSE <<operand[x[1]], moe.local[x[2] + 1], weights, x[3]>>
      BY Zenon, <2>2, <2>6, <3>2 DEF StoredAt
    <3>6. after[i] = IF e = -1 THEN Zero ELSE <<operand[r], moe.local[e + 1], weights, c>>
      BY <3>4, <3>5
    <3>7. CASE e = -1
      <4>1. ~ Mine(r)  BY <2>1, <3>7 DEF Mine
      <4>2. after[i] = Zero  BY <3>6, <3>7
      <4> QED BY <2>1, <4>1, <4>2
    <3>8. CASE e # -1
      <4>1. Mine(r)  BY <2>1, <3>8 DEF Mine
      <4>2. Routed(r) \in 0..num_experts - 1  BY RouteIs
      <4>3. moe.local[e + 1] = Routed(r)  BY <2>1, <3>8, <4>2, LocalIs DEF Live
      <4>4. after[i] = ProductAt(r, c, operand, weights)  BY <3>6, <3>8, <4>3 DEF ProductAt
      <4> QED BY <2>1, <4>1, <4>4
    <3> QED BY <3>7, <3>8
  <2> QED BY <2>5, <2>6
<1>4. DOMAIN after = DOMAIN memory  BY <1>2
<1> QED BY <1>1, <1>3, <1>4 DEF StoresRight

-----------------------------------------------------------------------------
(* The blocks of one expert. *)

SetListed(f, S, n) ==
  n \in Nat /\ f \in [1..n -> S] /\ \A x \in S : \E j \in 1..n : f[j] = x

LEMMA SetIsListed ==
  ASSUME NEW S, IsFiniteSet(S)
  PROVE  SetListed(SetToSeq(S), S, Cardinality(S))
<1>1. PICK n : n = Cardinality(S) /\ n \in Nat /\ ExistsBijection(1..n, S)
  BY FS_CardinalityType
<1>2. \E g \in [1..n -> S] : IsInjective(g)
  <2>1. PICK g : g \in Bijection(1..n, S)  BY <1>1 DEF ExistsBijection
  <2>2. g \in Injection(1..n, S)  BY <2>1 DEF Bijection
  <2> QED BY <2>2 DEF Injection
<1>3. PICK f : f = SetToSeq(S)  OBVIOUS
<1>4. f \in [1..n -> S] /\ IsInjective(f)  BY Zenon, <1>1, <1>2, <1>3 DEF SetToSeq
<1>5. f \in Injection(1..n, S)  BY <1>4 DEF Injection
<1>6. IsFiniteSet(1..n) /\ Cardinality(1..n) = n
  <2>1. 1 \in Int /\ n \in Int  BY <1>1
  <2>2. IsFiniteSet(1..n) /\ Cardinality(1..n) = IF 1 > n THEN 0 ELSE n - 1 + 1
    BY <2>1, FS_Interval
  <2> QED BY <1>1, <2>2
<1>7. f \in Surjection(1..n, S)  BY <1>1, <1>5, <1>6, FS_Injection
<1>8. \A x \in S : \E j \in 1..n : f[j] = x  BY <1>7 DEF Surjection
<1> QED BY <1>1, <1>3, <1>4, <1>8 DEF SetListed

RoutesTo(e) == {r \in Routes : Routed(r) = e}
BlocksFor(ignore, e) ==
  IF ignore /\ LocalIndex(e) = -1 THEN 0 ELSE cdiv(Len(SetToSeq(RoutesTo(e))), BLOCK_SIZE_M)
FilledFor(ignore, e) ==
  [j \in 1..BlocksFor(ignore, e) * BLOCK_SIZE_M |->
     IF j <= Len(SetToSeq(RoutesTo(e))) THEN SetToSeq(RoutesTo(e))[j] ELSE Numel]
NamedFor(ignore, e) == [j \in 1..BlocksFor(ignore, e) |-> LocalIndex(e)]

ExpertFilled(u, k, e) ==
  /\ k \in Nat /\ u \in Seq(Nat) /\ Len(u) = k * BLOCK_SIZE_M
  /\ k <= Cardinality(RoutesTo(e)) /\ k * BLOCK_SIZE_M <= Cardinality(RoutesTo(e)) + (BLOCK_SIZE_M - 1)
  /\ \A x \in 1..k * BLOCK_SIZE_M : u[x] < Numel => u[x] \in Routes /\ Routed(u[x]) = e
  /\ \A r \in RoutesTo(e) : Stored(r) => \E x \in 1..k * BLOCK_SIZE_M : u[x] = r

LEMMA RoutesFinite ==
  ASSUME Live
  PROVE  /\ IsFiniteSet(Routes) /\ Cardinality(Routes) = Numel
         /\ \A S \in SUBSET Routes : IsFiniteSet(S) /\ Cardinality(S) \in Nat
<1>1. PICK n : n = Numel /\ n \in Nat \ {0} /\ Routes = 0..n - 1  BY ChunkIs DEF ChunkFacts
<1>2. 0 \in Int /\ n - 1 \in Int /\ ~ (0 > n - 1) /\ n - 1 - 0 + 1 = n  BY <1>1
<1>3. PICK z, y : z = 0 /\ y = n - 1 /\ z \in Int /\ y \in Int  BY <1>2
<1>4. IsFiniteSet(z..y) /\ Cardinality(z..y) = IF z > y THEN 0 ELSE y - z + 1
  BY <1>3, FS_Interval
<1>5. IsFiniteSet(Routes) /\ Cardinality(Routes) = n  BY <1>1, <1>2, <1>3, <1>4
<1>6. \A S \in SUBSET Routes : IsFiniteSet(S)  BY <1>5, FS_Subset
<1>7. \A S \in SUBSET Routes : Cardinality(S) \in Nat  BY <1>6, FS_CardinalityType
<1> QED BY <1>1, <1>5, <1>6, <1>7

LEMMA FilledRight ==
  ASSUME Live, NEW e \in 0..num_experts - 1, NEW ignore, ignore = (moe.path = "impl")
  PROVE  ExpertFilled(FilledFor(ignore, e), BlocksFor(ignore, e), e)
<1>1. PICK S, n, f, k, B : S = RoutesTo(e) /\ n = Cardinality(S) /\ f = SetToSeq(S) /\ k = BlocksFor(ignore, e) /\ B = BLOCK_SIZE_M
  OBVIOUS
<1>2. S \in SUBSET Routes  BY <1>1 DEF RoutesTo
<1>3. SetListed(f, S, n) /\ B \in Nat \ {0}
  BY <1>1, <1>2, RoutesFinite, SetIsListed, ChunkIs DEF ChunkFacts
<1>4. n \in Nat /\ f \in [1..n -> S] /\ \A r \in S : \E j \in 1..n : f[j] = r
  BY <1>3 DEF SetListed
<1>5. Len(f) = n  BY <1>4, FunctionSeq
<1>6. k = IF ignore /\ LocalIndex(e) = -1 THEN 0 ELSE cdiv(n, B)
  BY <1>1, <1>5 DEF BlocksFor
<1>7. k \in Nat /\ k <= n /\ B * k <= n + (B - 1) /\ (~ (ignore /\ LocalIndex(e) = -1) => n <= B * k)
  <2>1. PICK d : d = cdiv(n, B) /\ d \in Nat /\ B * d <= n + (B - 1) /\ \A i \in Nat : i < d <=> B * i < n
    BY <1>3, <1>4, CdivIs
  <2>2. d <= n
    <3>1. SUFFICES ASSUME n < d PROVE FALSE  BY <1>4, <2>1
    <3>2. B * n < n  BY <1>4, <2>1, <3>1
    <3>4. B * 1 = B /\ 1 \in Int /\ B \in Int /\ 1 <= B /\ n \in Int /\ n * B = B * n /\ n * 1 = n
      BY <1>3, <1>4
    <3>5. CASE n = 0
      BY <1>3, <3>2, <3>5
    <3>6. CASE n # 0
      <4>1. n \in Nat \ {0}  BY <1>4, <3>6
      <4>2. n * 1 <= n * B  BY <3>4, <4>1, TimesOrder
      <4>3. PICK x : x = B * n /\ x \in Nat  BY <1>3, <1>4
      <4> QED BY <1>4, <3>2, <3>4, <4>2, <4>3
    <3> QED BY <3>5, <3>6
  <2>3. n <= B * d
    <3>1. PICK x : x = B * d /\ x \in Nat  BY <1>3, <2>1
    <3>2. d < d <=> B * d < n  BY <2>1
    <3>3. ~ (d < d)  BY <2>1
    <3> QED BY <1>4, <3>1, <3>2, <3>3
  <2>4. CASE ignore /\ LocalIndex(e) = -1
    <3>1. k = 0 /\ B * 0 = 0  BY <1>3, <1>6, <2>4
    <3> QED BY <1>3, <1>4, <2>4, <3>1
  <2>5. CASE ~ (ignore /\ LocalIndex(e) = -1)
    <3>1. k = d  BY <1>6, <2>1, <2>5
    <3> QED BY <2>1, <2>2, <2>3, <3>1
  <2> QED BY <2>4, <2>5
<1>8. PICK w : w = k * B /\ w = B * k /\ w \in Nat  BY <1>3, <1>7
<1>9. PICK u : u = FilledFor(ignore, e) /\ u = [j \in 1..w |-> IF j <= n THEN f[j] ELSE Numel]
  BY <1>1, <1>5, <1>8 DEF FilledFor
<1>10. Routes \subseteq Nat /\ Numel \in Nat  BY ChunkIs DEF ChunkFacts
<1>11. \A x \in 1..w : x <= n => u[x] = f[x] /\ f[x] \in S
  <2> SUFFICES ASSUME NEW x \in 1..w, x <= n PROVE u[x] = f[x] /\ f[x] \in S
    OBVIOUS
  <2>1. x \in 1..n  BY <1>4, <1>8
  <2>2. f[x] \in S  BY <1>4, <2>1
  <2> QED BY <1>9, <2>2
<1>12. \A x \in 1..w : ~ (x <= n) => u[x] = Numel  BY <1>9
<1>13. u \in Seq(Nat) /\ Len(u) = w
  <2>1. \A x \in 1..w : u[x] \in Nat  BY <1>2, <1>10, <1>11, <1>12
  <2>2. u = [x \in 1..w |-> u[x]]  BY <1>9
  <2>3. u \in [1..w -> Nat]  BY <2>1, <2>2
  <2> QED BY <1>8, <2>3, FunctionSeq
<1>14. ASSUME NEW x \in 1..w, u[x] < Numel
       PROVE  u[x] \in Routes /\ Routed(u[x]) = e
  <2>1. x <= n  BY <1>10, <1>12, <1>14
  <2>2. u[x] \in S  BY <1>11, <2>1
  <2> QED BY <1>1, <2>2 DEF RoutesTo
<1>15. ASSUME NEW r \in S, Stored(r)
       PROVE  \E x \in 1..w : u[x] = r
  <2>1. Routed(r) = e  BY <1>1 DEF RoutesTo
  <2>2. ~ (ignore /\ LocalIndex(e) = -1)  BY <1>15, <2>1 DEF Stored, Mine
  <2>3. n <= w  BY <1>7, <1>8, <2>2
  <2>4. PICK j \in 1..n : f[j] = r  BY <1>4
  <2>5. j \in 1..w /\ j <= n  BY <1>4, <1>8, <2>3
  <2> QED BY <1>11, <2>4, <2>5
<1>16. ExpertFilled(u, k, e)  BY <1>1, <1>7, <1>8, <1>13, <1>14, <1>15 DEF ExpertFilled
<1> QED BY <1>1, <1>9, <1>16

-----------------------------------------------------------------------------
(* The blocks of all experts, one after the other. *)

RoutesBelow(i) == {r \in Routes : Routed(r) < i}

(* The table F of rows and the names G of its blocks are those of the experts below i. *)
Prefixed(F, G, i) ==
  /\ F \in Seq(Nat) /\ G \in Seq(Int) /\ Len(F) = Len(G) * BLOCK_SIZE_M
  /\ \A m \in 0..Len(G) - 1 : \A j \in 1..BLOCK_SIZE_M : F[m * BLOCK_SIZE_M + j] < Numel =>
       /\ F[m * BLOCK_SIZE_M + j] \in Routes
       /\ G[m + 1] = LocalIndex(Routed(F[m * BLOCK_SIZE_M + j]))
  /\ \A r \in RoutesBelow(i) : Stored(r) =>
       \E m \in 0..Len(G) - 1 : \E j \in 1..BLOCK_SIZE_M : F[m * BLOCK_SIZE_M + j] = r
  /\ Len(G) <= Cardinality(RoutesBelow(i))
  /\ Len(F) <= Cardinality(RoutesBelow(i)) + i * (BLOCK_SIZE_M - 1)

LEMMA BelowGrows ==
  ASSUME Live, NEW i \in 0..num_experts - 1
  PROVE  /\ RoutesBelow(i + 1) = RoutesBelow(i) \cup RoutesTo(i)
         /\ Cardinality(RoutesBelow(i)) \in Nat /\ Cardinality(RoutesTo(i)) \in Nat
         /\ Cardinality(RoutesBelow(i + 1)) = Cardinality(RoutesBelow(i)) + Cardinality(RoutesTo(i))
<1>1. PICK S, T : S = RoutesBelow(i) /\ T = RoutesTo(i)  OBVIOUS
<1>2. \A r \in Routes : Routed(r) \in Int  BY RouteIs
<1>3. S \in SUBSET Routes /\ T \in SUBSET Routes  BY <1>1 DEF RoutesBelow, RoutesTo
<1>4. RoutesBelow(i + 1) = S \cup T
  <2>1. \A r \in Routes : Routed(r) < i + 1 <=> Routed(r) < i \/ Routed(r) = i  BY <1>2
  <2> QED BY <1>1, <2>1 DEF RoutesBelow, RoutesTo
<1>5. S \cap T = {}
  <2>1. \A r \in Routes : ~ (Routed(r) < i /\ Routed(r) = i)  BY <1>2
  <2> QED BY <1>1, <2>1 DEF RoutesBelow, RoutesTo
<1>6. IsFiniteSet(S) /\ IsFiniteSet(T) /\ Cardinality(S) \in Nat /\ Cardinality(T) \in Nat
  BY <1>3, RoutesFinite
<1>7. Cardinality(S \cup T) = Cardinality(S) + Cardinality(T) - Cardinality(S \cap T)
  BY <1>6, FS_Union
<1>8. Cardinality(S \cap T) = 0  BY <1>5, FS_EmptySet
<1>9. PICK x, y, z : x = Cardinality(S) /\ y = Cardinality(T) /\ z = Cardinality(S \cup T) /\ x \in Nat /\ y \in Nat /\ z = x + y
  <2>1. Cardinality(S) + Cardinality(T) - 0 = Cardinality(S) + Cardinality(T)  BY <1>6
  <2> QED BY <1>6, <1>7, <1>8, <2>1
<1> QED BY <1>1, <1>4, <1>9

LEMMA PrefixFirst ==
  ASSUME Live
  PROVE  Prefixed(<<>>, <<>>, 0)
<1>1. RoutesBelow(0) = {}
  <2>1. \A r \in Routes : ~ (Routed(r) < 0)  BY RouteIs
  <2> QED BY <2>1 DEF RoutesBelow
<1>2. Cardinality(RoutesBelow(0)) = 0  BY <1>1, FS_EmptySet
<1>3. PICK B : B = BLOCK_SIZE_M /\ B \in Nat \ {0}  BY ChunkIs DEF ChunkFacts
<1>4. 0 * B = 0 /\ 0 * (B - 1) = 0 /\ Len(<<>>) = 0  BY <1>3
<1>5. 0..0 - 1 = {}
  OBVIOUS
<1>6. <<>> \in Seq(Nat) /\ <<>> \in Seq(Int)
  OBVIOUS
<1> QED BY <1>1, <1>2, <1>3, <1>4, <1>5, <1>6 DEF Prefixed

LEMMA PrefixMore ==
  ASSUME Live, NEW i \in 0..num_experts - 1, NEW F, NEW G, Prefixed(F, G, i),
         NEW u, NEW k, ExpertFilled(u, k, i), NEW v, v = [j \in 1..k |-> LocalIndex(i)]
  PROVE  Prefixed(F \o u, G \o v, i + 1)
<1>1. PICK B, g : B = BLOCK_SIZE_M /\ g = Len(G)  OBVIOUS
<1>2. PICK c, d : c = Cardinality(RoutesBelow(i)) /\ d = Cardinality(RoutesTo(i))  OBVIOUS
<1>3. /\ B \in Nat \ {0} /\ F \in Seq(Nat) /\ G \in Seq(Int) /\ Len(F) = g * B
      /\ g <= c /\ Len(F) <= c + i * (B - 1)
  BY <1>1, <1>2, ChunkIs DEF ChunkFacts, Prefixed
<1>4. g \in Nat  BY <1>1, <1>3
<1>5. k \in Nat /\ u \in Seq(Nat) /\ Len(u) = k * B /\ k <= d /\ k * B <= d + (B - 1)
  BY <1>1, <1>2 DEF ExpertFilled
<1>6. PICK a, b : a = g * B /\ b = k * B /\ a \in Nat /\ b \in Nat /\ (g + k) * B = a + b
  BY <1>3, <1>4, <1>5
<1>0. B \in Nat \ {0} /\ g \in Nat /\ k \in Nat /\ a \in Nat /\ b \in Nat
  BY <1>3, <1>4, <1>5, <1>6
<1>7. LocalIndex(i) \in Int  BY LocalIs DEF Live
<1>8. v \in Seq(Int) /\ Len(v) = k
  <2>1. v \in [1..k -> Int]  BY <1>7
  <2> QED BY <1>5, <2>1, FunctionSeq
<1>9. PICK X, Y : X = F \o u /\ Y = G \o v  OBVIOUS
<1>10. X \in Seq(Nat) /\ Len(X) = a + b /\ \A x \in 1..a + b : X[x] = IF x <= a THEN F[x] ELSE u[x - a]
  <2>1. Len(F) = a /\ Len(u) = b  BY <1>3, <1>5, <1>6
  <2>2. X \in Seq(Nat) /\ Len(X) = Len(F) + Len(u) /\ \A x \in 1..Len(F) + Len(u) : X[x] = IF x <= Len(F) THEN F[x] ELSE u[x - Len(F)]
    BY <1>3, <1>5, <1>9, ConcatProperties
  <2> QED BY <2>1, <2>2
<1>11. Y \in Seq(Int) /\ Len(Y) = g + k /\ \A x \in 1..g + k : Y[x] = IF x <= g THEN G[x] ELSE v[x - g]
  <2>1. Y \in Seq(Int) /\ Len(Y) = Len(G) + Len(v) /\ \A x \in 1..Len(G) + Len(v) : Y[x] = IF x <= Len(G) THEN G[x] ELSE v[x - Len(G)]
    <3>1. G \in Seq(Int) /\ v \in Seq(Int) /\ Y = G \o v  BY <1>3, <1>8, <1>9
    <3> QED BY <3>1, ConcatProperties
  <2> QED BY <1>1, <1>8, <2>1
<1>12. ASSUME NEW m \in 0..g - 1, NEW j \in 1..B
       PROVE  m * B + j \in 1..a + b /\ m * B + j <= a
  <2>1. PICK x : x = m * B /\ x = B * m /\ x \in Nat /\ B * (m + 1) = x + B  BY <1>3, <1>4
  <2>2. B * (m + 1) <= B * g
    <3>1. m + 1 \in Int /\ g \in Int /\ m + 1 <= g  BY <1>4
    <3> QED BY <1>3, <3>1, TimesOrder
  <2>3. B * g = a  BY <1>3, <1>4, <1>6
  <2>4. x + B <= a  BY <2>1, <2>2, <2>3
  <2>5. x + j <= a /\ x + j \in Nat /\ 1 <= x + j /\ a <= a + b /\ a + b \in Nat
    <3>1. x \in Nat /\ j \in Nat /\ 1 <= j /\ j <= B  BY <1>0, <2>1
    <3> QED BY <1>0, <2>4, <3>1
  <2>6. PICK y : y = x + j /\ y = m * B + j  BY <2>1
  <2>7. y \in 1..a + b /\ y <= a  BY <1>0, <2>5, <2>6
  <2> QED BY <2>6, <2>7
<1>13. ASSUME NEW m \in g..g + k - 1, NEW j \in 1..B
       PROVE  /\ m * B + j \in 1..a + b /\ ~ (m * B + j <= a)
              /\ (m * B + j) - a = (m - g) * B + j /\ (m - g) * B + j \in 1..b
  <2>1. PICK n : n = m - g /\ n \in Nat /\ m = g + n /\ n + 1 <= k  BY <1>4, <1>5
  <2>2. PICK x : x = n * B /\ x = B * n /\ x \in Nat /\ B * (n + 1) = x + B /\ m * B = a + x
    BY <1>3, <1>4, <1>6, <2>1
  <2>3. B * (n + 1) <= B * k
    <3>1. n + 1 \in Int /\ k \in Int  BY <1>5, <2>1
    <3> QED BY <1>3, <2>1, <3>1, TimesOrder
  <2>4. B * k = b  BY <1>3, <1>5, <1>6
  <2>5. x + B <= b  BY <2>2, <2>3, <2>4
  <2>6. PICK y : y = x + j /\ y \in 1..b /\ a + y = m * B + j
    <3>1. x \in Nat /\ j \in Nat /\ 1 <= j /\ j <= B /\ m * B = a + x  BY <1>0, <2>2
    <3>2. PICK y : y = x + j  OBVIOUS
    <3>3. y \in 1..b /\ a + y = (a + x) + j  BY <1>0, <2>5, <3>1, <3>2
    <3> QED BY <3>1, <3>2, <3>3
  <2>7. a + y \in 1..a + b /\ ~ (a + y <= a) /\ (a + y) - a = y
    <3>1. y \in 1..b  BY <2>6
    <3> QED BY <1>0, <3>1
  <2> QED BY <2>1, <2>2, <2>6, <2>7
<1>14. ASSUME NEW m \in 0..g + k - 1, NEW j \in 1..B, X[m * B + j] < Numel
       PROVE  X[m * B + j] \in Routes /\ Y[m + 1] = LocalIndex(Routed(X[m * B + j]))
  <2>1. CASE m < g
    <3>1. m \in 0..g - 1 /\ m + 1 \in 1..g + k /\ m + 1 <= g  BY <1>4, <1>5, <2>1
    <3>2. PICK x : x = m * B + j /\ x \in 1..a + b /\ x <= a  BY <1>12, <3>1
    <3>3. X[x] = F[x] /\ Y[m + 1] = G[m + 1]  BY <1>10, <1>11, <3>1, <3>2
    <3>4. F[x] < Numel => F[x] \in Routes /\ G[m + 1] = LocalIndex(Routed(F[x]))
      BY <1>1, <3>1, <3>2 DEF Prefixed
    <3> QED BY <1>14, <3>2, <3>3, <3>4
  <2>2. CASE ~ (m < g)
    <3>1. m \in g..g + k - 1 /\ m + 1 \in 1..g + k /\ ~ (m + 1 <= g) /\ m + 1 - g \in 1..k
      BY <1>4, <1>5, <2>2
    <3>2. PICK x, y : x = m * B + j /\ x \in 1..a + b /\ ~ (x <= a) /\ y = x - a /\ y \in 1..b
      BY <1>13, <3>1
    <3>3. X[x] = u[y]  BY <1>10, <3>2
    <3>4. Y[m + 1] = LocalIndex(i)
      <4>1. PICK z : z = m + 1 /\ z \in 1..g + k /\ ~ (z <= g) /\ z - g \in 1..k
        BY <1>0, <3>1
      <4>2. Y[z] = v[z - g]  BY <1>11, <4>1
      <4>3. v[z - g] = LocalIndex(i)  BY <4>1
      <4> QED BY <4>1, <4>2, <4>3
    <3>5. u[y] < Numel => u[y] \in Routes /\ Routed(u[y]) = i
      BY <1>1, <1>6, <3>2 DEF ExpertFilled
    <3> QED BY <1>14, <3>2, <3>3, <3>4, <3>5
  <2> QED BY <2>1, <2>2
<1>15. ASSUME NEW r \in RoutesBelow(i + 1), Stored(r)
       PROVE  \E m \in 0..g + k - 1 : \E j \in 1..B : X[m * B + j] = r
  <2>1. r \in RoutesBelow(i) \/ r \in RoutesTo(i)  BY BelowGrows
  <2>2. CASE r \in RoutesBelow(i)
    <3>1. PICK m \in 0..g - 1 : \E j \in 1..B : F[m * B + j] = r
      BY <1>1, <1>15, <2>2 DEF Prefixed
    <3>2. PICK j \in 1..B : F[m * B + j] = r  BY <3>1
    <3>3. X[m * B + j] = r  BY <1>10, <1>12, <3>2
    <3>4. m \in 0..g + k - 1  BY <1>4, <1>5
    <3> QED BY <3>3, <3>4
  <2>3. CASE r \in RoutesTo(i)
    <3>1. PICK x \in 1..b : u[x] = r  BY <1>1, <1>6, <1>15, <2>3 DEF ExpertFilled
    <3>2. PICK w : w = x - 1 /\ w \in Nat /\ w \in Int /\ w < b  BY <1>6
    <3>3. PICK n : n = w \div B /\ n \in Nat  BY <1>3, <3>2, DivNat
    <3>4. B * n <= w /\ w < B * n + B  BY <1>3, <3>2, <3>3, DivBounds
    <3>5. n < k
      <4>1. B * k = b /\ k \in Int  BY <1>3, <1>5, <1>6
      <4> QED BY <1>3, <3>2, <3>3, <4>1, DivLess
    <3>6. PICK y, j, m : y = n * B /\ y = B * n /\ y \in Nat /\ j = x - y /\ m = g + n
      BY <1>3, <3>3
    <3>7. j \in 1..B /\ m \in g..g + k - 1 /\ m - g = n /\ m \in 0..g + k - 1
      <4>1. y <= w /\ w < y + B  BY <3>4, <3>6
      <4>2. j \in 1..B  BY <1>0, <3>1, <3>2, <3>6, <4>1
      <4>3. n \in Nat /\ n < k /\ m = g + n  BY <3>3, <3>5, <3>6
      <4> QED BY <1>0, <4>2, <4>3
    <3>8. PICK z : z = m * B + j /\ z \in 1..a + b /\ ~ (z <= a) /\ z - a = y + j
      BY <1>13, <3>6, <3>7
    <3>9. y + j = x  BY <1>6, <3>6
    <3>10. X[z] = r  BY <1>10, <3>1, <3>8, <3>9
    <3> QED BY <3>7, <3>8, <3>10
  <2> QED BY <2>1, <2>2, <2>3
<1>16. g + k <= Cardinality(RoutesBelow(i + 1)) /\ a + b <= Cardinality(RoutesBelow(i + 1)) + (i + 1) * (B - 1)
  <2>1. c \in Nat /\ d \in Nat /\ Cardinality(RoutesBelow(i + 1)) = c + d
    BY <1>2, BelowGrows
  <2>2. PICK x : x = i * (B - 1) /\ x \in Nat /\ (i + 1) * (B - 1) = x + (B - 1)
    <3>1. PICK y : y = B - 1 /\ y \in Nat /\ i \in Nat  BY <1>3
    <3>2. i * y \in Nat /\ (i + 1) * y = i * y + y  BY <3>1
    <3> QED BY <3>1, <3>2
  <2>3. a <= c + x /\ b <= d + (B - 1)  BY <1>3, <1>5, <1>6, <2>2
  <2> QED BY <1>3, <1>4, <1>5, <1>6, <2>1, <2>2, <2>3
<1>17. Len(Y) = g + k /\ Len(X) = (g + k) * B  BY <1>6, <1>10, <1>11
<1>18. Prefixed(X, Y, i + 1)
  <2>0. Len(Y) = g + k  BY <1>17
  <2>1. X \in Seq(Nat) /\ Y \in Seq(Int) /\ Len(Y) = g + k /\ Len(X) = Len(Y) * B
    BY <1>10, <1>11, <1>17
  <2>2. Len(Y) <= Cardinality(RoutesBelow(i + 1)) /\ Len(X) <= Cardinality(RoutesBelow(i + 1)) + (i + 1) * (B - 1)
    BY <1>10, <1>16, <2>1
  <2>3. \A m \in 0..Len(Y) - 1 : \A j \in 1..B : X[m * B + j] < Numel =>
          X[m * B + j] \in Routes /\ Y[m + 1] = LocalIndex(Routed(X[m * B + j]))
    <3> SUFFICES ASSUME NEW m \in 0..Len(Y) - 1, NEW j \in 1..B, X[m * B + j] < Numel
                 PROVE  X[m * B + j] \in Routes /\ Y[m + 1] = LocalIndex(Routed(X[m * B + j]))
      OBVIOUS
    <3>1. m \in 0..g + k - 1  BY <1>0, <2>0
    <3> QED BY <1>14, <3>1
  <2>4. \A r \in RoutesBelow(i + 1) : Stored(r) => \E m \in 0..Len(Y) - 1 : \E j \in 1..B : X[m * B + j] = r
    <3>1. 0..Len(Y) - 1 = 0..g + k - 1  BY <1>0, <2>0
    <3> QED BY <1>15, <3>1
  <2> QED BY ZenonT(60), <1>1, <2>1, <2>2, <2>3, <2>4 DEF Prefixed
<1> QED BY <1>9, <1>18

-----------------------------------------------------------------------------
(* The table leads every route to its expert. *)

TableSize ==
  IF Numel < num_experts
  THEN Smaller(Numel + num_experts * (BLOCK_SIZE_M - 1), Numel * BLOCK_SIZE_M)
  ELSE Numel + num_experts * (BLOCK_SIZE_M - 1)
AllFilled(ignore) == [e \in 1..num_experts |-> FilledFor(ignore, e - 1)]
AllNamed(ignore) == [e \in 1..num_experts |-> NamedFor(ignore, e - 1)]

SortedAs(F, G) ==
  [sorted_token_ids |-> [j \in 1..TableSize |-> IF j <= Len(F) THEN F[j] ELSE Numel],
   expert_ids |-> G, num_tokens_post_padded |-> Len(F)]

LEMMA AlignedIs ==
  ASSUME NEW ignore
  PROVE  Aligned(ignore) = SortedAs(FlattenSeq(AllFilled(ignore)), FlattenSeq(AllNamed(ignore)))
BY Zenon DEF Aligned, SortedAs, AllFilled, AllNamed, FilledFor, NamedFor, BlocksFor, RoutesTo, TableSize, Numel

Flattens(f, s, n) == Flat(f, s, n) /\ FlattenSeq(s) = f[n]

LEMMA FlattenIs ==
  ASSUME NEW n \in Nat \ {0}, NEW s, Len(s) = n
  PROVE  \E f : Flattens(f, s, n)
<1>1. Len(s) # 0
  OBVIOUS
<1>2. FlattenSeq(s) = (CHOOSE f : Flat(f, s, n))[n]  BY <1>1 DEF FlattenSeq, Flat
<1>3. PICK f : f = CHOOSE g : Flat(g, s, n)  OBVIOUS
<1>4. \E g : Flat(g, s, n)  BY FlatExists
<1>5. Flat(f, s, n)  BY <1>3, <1>4
<1> QED BY <1>2, <1>3, <1>5 DEF Flattens

StepByStep(f, s, n) ==
  FlattenSeq(s) = f[n] /\ f[1] = s[1] /\ \A i \in 1..n - 1 : f[i + 1] = f[i] \o s[i + 1]

LEMMA FlatSteps ==
  ASSUME NEW n \in Nat \ {0}, NEW s, NEW f, Flattens(f, s, n)
  PROVE  StepByStep(f, s, n)
<1>1. \A i \in 1..n : f[i] = IF i = 1 THEN s[i] ELSE f[i - 1] \o s[i]  BY DEF Flattens, Flat
<1>2. f[1] = s[1]
  <2>1. PICK z : z = 1 /\ z \in 1..n  OBVIOUS
  <2> QED BY <1>1, <2>1
<1>3. ASSUME NEW i \in 1..n - 1
      PROVE  f[i + 1] = f[i] \o s[i + 1]
  <2>1. PICK z : z = i + 1 /\ z \in 1..n /\ z # 1 /\ z - 1 = i  OBVIOUS
  <2> QED BY <1>1, <2>1
<1> QED BY <1>2, <1>3 DEF Flattens, StepByStep

LEMMA AlignedPrefixed ==
  ASSUME Live, NEW ignore, ignore = (moe.path = "impl")
  PROVE  Prefixed(FlattenSeq(AllFilled(ignore)), FlattenSeq(AllNamed(ignore)), num_experts)
<1>1. PICK n, s, t : n = num_experts /\ n \in Nat \ {0} /\ s = AllFilled(ignore) /\ t = AllNamed(ignore)
  BY MoeIs DEF Live, MoeFacts
<1>2. \A i \in 0..n - 1 : ExpertFilled(FilledFor(ignore, i), BlocksFor(ignore, i), i)
  BY <1>1, FilledRight
<1>3. \A i \in 0..n - 1 : LocalIndex(i) \in Int  BY <1>1, LocalIs DEF Live
<1>4. ASSUME NEW i \in 0..n - 1
      PROVE  s[i + 1] = FilledFor(ignore, i) /\ t[i + 1] = NamedFor(ignore, i) /\ s[i + 1] \in Seq(Nat) /\ t[i + 1] \in Seq(Int)
  <2>1. i + 1 \in 1..n /\ (i + 1) - 1 = i  BY <1>1
  <2>2. s[i + 1] = FilledFor(ignore, i) /\ t[i + 1] = NamedFor(ignore, i)
    BY <1>1, <2>1 DEF AllFilled, AllNamed
  <2>3. FilledFor(ignore, i) \in Seq(Nat) /\ BlocksFor(ignore, i) \in Nat
    BY <1>2 DEF ExpertFilled
  <2>4. PICK k : k = BlocksFor(ignore, i) /\ k \in Nat  BY <2>3
  <2>5. NamedFor(ignore, i) \in [1..k -> Int]  BY <1>3, <2>4 DEF NamedFor
  <2>6. NamedFor(ignore, i) \in Seq(Int)  BY <2>4, <2>5, FunctionSeq
  <2> QED BY <2>2, <2>3, <2>6
<1>5. \A i \in 1..n : s[i] \in Seq(Nat) /\ t[i] \in Seq(Int)
  <2> SUFFICES ASSUME NEW i \in 1..n PROVE s[i] \in Seq(Nat) /\ t[i] \in Seq(Int)
    OBVIOUS
  <2>1. PICK j : j = i - 1 /\ j \in 0..n - 1 /\ j + 1 = i  BY <1>1
  <2> QED BY <1>4, <2>1
<1>6. Len(s) = n /\ Len(t) = n
  <2>1. s = [i \in 1..n |-> s[i]] /\ t = [i \in 1..n |-> t[i]]
    BY <1>1 DEF AllFilled, AllNamed
  <2>2. s \in [1..n -> Seq(Nat)] /\ t \in [1..n -> Seq(Int)]  BY <1>5, <2>1
  <2> QED BY <1>1, <2>2, FunctionSeq
<1>7. PICK f : Flattens(f, s, n)  BY <1>1, <1>6, FlattenIs
<1>8. PICK h : Flattens(h, t, n)  BY <1>1, <1>6, FlattenIs
<1>9. FlattenSeq(s) = f[n] /\ f[1] = s[1] /\ \A i \in 1..n - 1 : f[i + 1] = f[i] \o s[i + 1]
  <2>1. StepByStep(f, s, n)  BY <1>1, <1>7, FlatSteps
  <2> QED BY <2>1 DEF StepByStep
<1>10. FlattenSeq(t) = h[n] /\ h[1] = t[1] /\ \A i \in 1..n - 1 : h[i + 1] = h[i] \o t[i + 1]
  <2>1. StepByStep(h, t, n)  BY <1>1, <1>8, FlatSteps
  <2> QED BY <2>1 DEF StepByStep
<1>11. ASSUME NEW i \in 0..n - 1, NEW F, NEW G, Prefixed(F, G, i)
       PROVE  Prefixed(F \o s[i + 1], G \o t[i + 1], i + 1)
  <2>1. PICK u, k, v : u = FilledFor(ignore, i) /\ k = BlocksFor(ignore, i) /\ v = NamedFor(ignore, i)
    OBVIOUS
  <2>2. ExpertFilled(u, k, i)  BY <1>2, <2>1
  <2>3. v = [j \in 1..k |-> LocalIndex(i)]  BY <2>1 DEF NamedFor
  <2>4. i \in 0..num_experts - 1  BY <1>1
  <2>5. Prefixed(F \o u, G \o v, i + 1)  BY <1>11, <2>2, <2>3, <2>4, PrefixMore
  <2>6. s[i + 1] = u /\ t[i + 1] = v  BY <1>4, <2>1
  <2> QED BY <2>5, <2>6
<1> DEFINE T == {i \in Nat : i \in 1..n /\ ~ Prefixed(f[i], h[i], i)}
<1>12. T = {}
  <2> SUFFICES ASSUME T # {} PROVE FALSE
    OBVIOUS
  <2>1. PICK i \in T : \A y \in T : i <= y
    <3>1. T \subseteq Nat
      OBVIOUS
    <3> HIDE DEF T
    <3> QED BY <3>1, NatLeast
  <2>2. i \in 1..n /\ ~ Prefixed(f[i], h[i], i)  BY <2>1
  <2>3. PICK j : j = i - 1 /\ j \in 0..n - 1 /\ i = j + 1  BY <1>1, <2>2
  <2>4. CASE j = 0
    <3>1. i = 1 /\ 0 \in 0..n - 1 /\ 0 + 1 = 1  BY <1>1, <2>3, <2>4
    <3>2. PICK z : z = 0 /\ z \in 0..n - 1 /\ z + 1 = 1  BY <3>1
    <3>3. Prefixed(<<>>, <<>>, z)  BY <3>2, PrefixFirst
    <3>4. Prefixed(<<>> \o s[1], <<>> \o t[1], 1)  BY <1>11, <3>2, <3>3
    <3>5. s[1] \in Seq(Nat) /\ t[1] \in Seq(Int)  BY <1>1, <1>5
    <3>6. <<>> \o s[1] = s[1] /\ <<>> \o t[1] = t[1]  BY <3>5, ConcatEmptySeq
    <3>7. Prefixed(f[1], h[1], 1)  BY <1>9, <1>10, <3>4, <3>6
    <3> QED BY <2>2, <3>1, <3>7
  <2>5. CASE j # 0
    <3>1. j \in 1..n /\ j \in 1..n - 1 /\ j \in Nat /\ ~ (i <= j)  BY <1>1, <2>3, <2>5
    <3>2. Prefixed(f[j], h[j], j)  BY <2>1, <3>1
    <3>3. Prefixed(f[j] \o s[j + 1], h[j] \o t[j + 1], j + 1)  BY <1>11, <2>3, <3>2
    <3>4. f[j + 1] = f[j] \o s[j + 1] /\ h[j + 1] = h[j] \o t[j + 1]  BY <1>9, <1>10, <3>1
    <3> QED BY <2>2, <2>3, <3>3, <3>4
  <2> QED BY <2>4, <2>5
<1>13. n \in 1..n /\ n \in Nat  BY <1>1
<1>14. Prefixed(f[n], h[n], n)  BY <1>12, <1>13
<1> QED BY <1>1, <1>9, <1>10, <1>14

LEMMA TableFits ==
  ASSUME Live, NEW F, NEW G, Prefixed(F, G, num_experts)
  PROVE  /\ TableSize \in Nat \ {0} /\ Len(F) \in Nat /\ Len(F) <= TableSize /\ Len(F) <= Numel * BLOCK_SIZE_M
         /\ RoutesBelow(num_experts) = Routes
<1>1. PICK n, B, E : n = Numel /\ B = BLOCK_SIZE_M /\ E = num_experts /\ n \in Nat \ {0} /\ B \in Nat \ {0} /\ E \in Nat \ {0}
  BY ChunkIs, MoeIs DEF Live, ChunkFacts, MoeFacts
<1>2. RoutesBelow(E) = Routes
  <2>1. \A r \in Routes : Routed(r) < E
    <3> SUFFICES ASSUME NEW r \in Routes PROVE Routed(r) < E
      OBVIOUS
    <3>1. Routed(r) \in 0..E - 1  BY <1>1, RouteIs
    <3> QED BY <1>1, <3>1
  <2> QED BY <2>1 DEF RoutesBelow
<1>3. Cardinality(RoutesBelow(E)) = n  BY <1>1, <1>2, RoutesFinite
<1>4. F \in Seq(Nat) /\ G \in Seq(Int) /\ Len(F) = Len(G) * B /\ Len(G) <= n /\ Len(F) <= n + E * (B - 1)
  BY <1>1, <1>3 DEF Prefixed
<1>5. PICK f, g : f = Len(F) /\ g = Len(G) /\ f \in Nat /\ g \in Nat  BY <1>4
<1>6. PICK x, y : x = E * (B - 1) /\ x \in Nat /\ y = n * B /\ y \in Nat  BY <1>1
<1>7. f <= n + x /\ g <= n /\ f = B * g
  <2>1. Len(G) * B = B * Len(G)  BY <1>1, <1>5
  <2> QED BY <1>4, <1>5, <1>6, <2>1
<1>8. f <= y /\ n <= y
  <2>1. B * g <= B * n
    <3>1. g \in Int /\ n \in Int  BY <1>1, <1>5
    <3> QED BY <1>1, <1>7, <3>1, TimesOrder
  <2>2. n * 1 <= n * B
    <3>1. 1 \in Int /\ B \in Int /\ 1 <= B  BY <1>1
    <3> QED BY <1>1, <3>1, TimesOrder
  <2>3. B * n = y /\ n * 1 = n  BY <1>1, <1>6
  <2> QED BY <1>6, <1>7, <2>1, <2>2, <2>3
<1>9. TableSize = IF n < E THEN Smaller(n + x, y) ELSE n + x  BY <1>1, <1>6 DEF TableSize
<1>10. TableSize \in Nat \ {0} /\ f <= TableSize
  BY <1>1, <1>5, <1>6, <1>7, <1>8, <1>9 DEF Smaller
<1> QED BY <1>1, <1>2, <1>5, <1>6, <1>8, <1>10

SortedTable(F, G) == table = SortedAs(F, G)

LEMMA SortedSize ==
  ASSUME Live, NEW F, NEW G, Prefixed(F, G, num_experts), SortedTable(F, G)
  PROVE  table.sorted_token_ids # <<>> /\ Len(table.sorted_token_ids) = TableSize
<1>1. PICK s, n, p : s = table.sorted_token_ids /\ n = TableSize /\ n \in Nat \ {0} /\ p = Numel /\ p \in Nat
  BY TableFits, ChunkIs DEF ChunkFacts
<1>2. s = [j \in 1..n |-> IF j <= Len(F) THEN F[j] ELSE p]
  BY <1>1 DEF SortedTable, SortedAs
<1>3. F \in Seq(Nat)  BY DEF Prefixed
<1>4. \A j \in 1..n : s[j] \in Nat
  <2> SUFFICES ASSUME NEW j \in 1..n PROVE s[j] \in Nat
    OBVIOUS
  <2>1. j <= Len(F) => F[j] \in Nat  BY <1>3
  <2> QED BY <1>1, <1>2, <2>1
<1>5. s \in [1..n -> Nat]
  <2>1. s = [j \in 1..n |-> s[j]]  BY <1>2
  <2> QED BY <1>4, <2>1
<1>6. Len(s) = n  BY <1>1, <1>5, FunctionSeq
<1>7. s # <<>>
  <2>1. Len(<<>>) = 0
    OBVIOUS
  <2> QED BY <1>1, <1>6, <2>1
<1> QED BY <1>1, <1>6, <1>7

LEMMA GridReaches ==
  ASSUME Live, NEW F, NEW G, Prefixed(F, G, num_experts), SortedTable(F, G),
         NEW high, NEW k, high * k = Numel
  PROVE  EM(high, k) \in Nat /\ Len(F) <= EM(high, k)
<1>1. PICK n, f, y : n = TableSize /\ f = Len(F) /\ y = Numel * BLOCK_SIZE_M /\ n \in Nat /\ f \in Nat /\ f <= n /\ f <= y
  BY TableFits
<1>2. y \in Nat
  <2>1. Numel \in Nat /\ BLOCK_SIZE_M \in Nat  BY ChunkIs DEF ChunkFacts
  <2> QED BY <1>1, <2>1
<1>3. EM(high, k) = IF high < BLOCK_SIZE_M THEN Smaller(n, y) ELSE n
  BY <1>1, SortedSize DEF EM
<1> QED BY <1>1, <1>2, <1>3 DEF Smaller

LEMMA SortedRows ==
  ASSUME Live, NEW F, NEW G, Prefixed(F, G, num_experts), SortedTable(F, G),
         NEW m \in 0..Len(G) - 1
  PROVE  /\ \A r \in RowsOf(m, Numel) : \E j \in 1..BLOCK_SIZE_M : r = F[m * BLOCK_SIZE_M + j] /\ r \in Routes
         /\ \A j \in 1..BLOCK_SIZE_M : F[m * BLOCK_SIZE_M + j] \in Routes => F[m * BLOCK_SIZE_M + j] \in RowsOf(m, Numel)
         /\ m * BLOCK_SIZE_M < Len(F)
<1>1. PICK B, n, f, g : B = BLOCK_SIZE_M /\ n = TableSize /\ f = Len(F) /\ g = Len(G) /\ B \in Nat \ {0} /\ n \in Nat /\ f \in Nat /\ f <= n
  BY TableFits, ChunkIs DEF ChunkFacts
<1>2. G \in Seq(Int) /\ f = g * B  BY <1>1 DEF Prefixed
<1>3. g \in Nat  BY <1>1, <1>2
<1>4. PICK x : x = m * B /\ x = B * m /\ x \in Nat /\ B * (m + 1) = x + B  BY <1>1
<1>5. x + B <= f
  <2>1. B * (m + 1) <= B * g
    <3>1. m + 1 \in Int /\ g \in Int /\ m + 1 <= g  BY <1>1, <1>3
    <3> QED BY <1>1, <3>1, TimesOrder
  <2>2. B * g = f  BY <1>1, <1>2, <1>3
  <2> QED BY <1>4, <2>1, <2>2
<1>6. \A j \in 1..B : x + j \in 1..n /\ x + j <= f  BY <1>1, <1>4, <1>5
<1>7. PICK s : s = table.sorted_token_ids /\ s = [j \in 1..n |-> IF j <= f THEN F[j] ELSE Numel]
  BY <1>1 DEF SortedTable, SortedAs
<1>8. \A j \in 1..B : s[x + j] = F[x + j]  BY <1>6, <1>7
<1>9. RowsOf(m, Numel) = {s[x + j] : j \in 1..B} \cap Routes
  <2>1. table.sorted_token_ids # <<>>  BY SortedSize
  <2>2. Routes = 0..Numel - 1  BY ChunkIs DEF ChunkFacts
  <2>3. RowsOf(m, Numel) = {table.sorted_token_ids[m * BLOCK_SIZE_M + j] : j \in 1..BLOCK_SIZE_M} \cap 0..Numel - 1
    BY <2>1, Zenon DEF RowsOf
  <2>4. s = table.sorted_token_ids /\ B = BLOCK_SIZE_M /\ m * B = x  BY <1>1, <1>4, <1>7
  <2> QED BY <2>2, <2>3, <2>4
<1>10. \A r \in RowsOf(m, Numel) : \E j \in 1..B : r = F[x + j] /\ r \in Routes
  BY <1>8, <1>9
<1>11. \A j \in 1..B : F[x + j] \in Routes => F[x + j] \in RowsOf(m, Numel)  BY <1>8, <1>9
<1>12. x < f  BY <1>1, <1>4, <1>5
<1> QED BY <1>1, <1>4, <1>10, <1>11, <1>12

LEMMA SortedCovers ==
  ASSUME Live, NEW F, NEW G, Prefixed(F, G, num_experts), SortedTable(F, G),
         NEW high, NEW k, high * k = Numel
  PROVE  TableCovers(EM(high, k))
<1>1. PICK em, B : em = EM(high, k) /\ B = BLOCK_SIZE_M /\ em \in Nat /\ B \in Nat \ {0} /\ Len(F) <= em /\ Len(F) \in Nat
  BY GridReaches, TableFits, ChunkIs DEF ChunkFacts
<1>2. ASSUME NEW r \in Routes, Stored(r)
      PROVE  \E m \in Nat : m * B < table.num_tokens_post_padded /\ r \in RowsOf(m, Numel) /\ m < cdiv(em, B)
  <2>1. r \in RoutesBelow(num_experts)  BY TableFits
  <2>2. PICK m \in 0..Len(G) - 1 : \E j \in 1..B : F[m * B + j] = r
    BY <1>1, <1>2, <2>1 DEF Prefixed
  <2>3. PICK j \in 1..B : F[m * B + j] = r  BY <2>2
  <2>4. r \in RowsOf(m, Numel) /\ m * B < Len(F)  BY <1>1, <2>3, SortedRows
  <2>5. m \in Nat
    OBVIOUS
  <2>6. m < cdiv(em, B)
    <3>1. m < cdiv(em, B) <=> B * m < em  BY <1>1, <2>5, CdivIs
    <3>2. PICK x : x = m * B /\ x = B * m /\ x \in Nat  BY <1>1, <2>5
    <3> QED BY <1>1, <2>4, <3>1, <3>2
  <2>7. table.num_tokens_post_padded = Len(F)  BY DEF SortedTable, SortedAs
  <2> QED BY <2>4, <2>5, <2>6, <2>7
<1> QED BY <1>1, <1>2 DEF TableCovers

LEMMA SortedSound ==
  ASSUME Live, NEW F, NEW G, Prefixed(F, G, num_experts), SortedTable(F, G)
  PROVE  TableSound
<1>1. PICK B, g : B = BLOCK_SIZE_M /\ B \in Nat \ {0} /\ g = Len(G)
  BY ChunkIs DEF ChunkFacts
<1>2. ASSUME NEW m \in Nat, m * B < table.num_tokens_post_padded, NEW r \in RowsOf(m, Numel)
      PROVE  r \in Routes /\ table.expert_ids[m + 1] = LocalIndex(Routed(r))
  <2>1. table.num_tokens_post_padded = Len(F) /\ table.expert_ids = G
    BY DEF SortedTable, SortedAs
  <2>2. G \in Seq(Int) /\ Len(F) = g * B  BY <1>1 DEF Prefixed
  <2>3. g \in Nat  BY <1>1, <2>2
  <2>4. m \in 0..g - 1
    <3>1. m \in Int /\ g \in Int /\ m * B = B * m /\ g * B = B * g  BY <1>1, <2>3
    <3>2. m < g <=> B * m < B * g  BY <1>1, <3>1, TimesOrder
    <3> QED BY <1>2, <2>1, <2>2, <2>3, <3>1, <3>2
  <2>5. PICK j \in 1..B : r = F[m * B + j] /\ r \in Routes  BY <1>1, <2>4, SortedRows
  <2>6. F[m * B + j] < Numel  BY <2>5, RouteIs
  <2>7. G[m + 1] = LocalIndex(Routed(F[m * B + j]))  BY <1>1, <2>4, <2>6 DEF Prefixed
  <2> QED BY <2>1, <2>5, <2>7
<1> QED BY <1>1, <1>2 DEF TableSound

RowsMeet(high, k) == high * k = Numel
LEMMA BothMeet ==
  ASSUME Live
  PROVE  RowsMeet(tokens_in_chunk, top_k) /\ RowsMeet(Numel, 1)
<1>1. Numel * 1 = Numel  BY ChunkIs DEF ChunkFacts
<1> QED BY <1>1 DEF RowsMeet, Numel

LEMMA AlignedRight ==
  ASSUME Live, NEW ignore, ignore = (moe.path = "impl"), table = Aligned(ignore)
  PROVE  TableRight
<1>1. PICK F, G : F = FlattenSeq(AllFilled(ignore)) /\ G = FlattenSeq(AllNamed(ignore))  OBVIOUS
<1>2. Prefixed(F, G, num_experts)  BY <1>1, AlignedPrefixed
<1>3. SortedTable(F, G)  BY <1>1, AlignedIs DEF SortedTable
<1>4. TableSound  BY <1>2, <1>3, SortedSound
<1>5. ASSUME NEW high, NEW k, RowsMeet(high, k)
      PROVE  TableCovers(EM(high, k))
  <2>1. high * k = Numel  BY <1>5 DEF RowsMeet
  <2> QED BY <1>2, <1>3, <2>1, SortedCovers
<1>6. TableCovers(EM(tokens_in_chunk, top_k)) /\ TableCovers(EM(Numel, 1))
  BY <1>5, BothMeet
<1> QED BY <1>4, <1>6 DEF TableRight

LEMMA UnsortedCovers ==
  ASSUME Live, table = Unsorted, NEW high, NEW k, RowsMeet(high, k)
  PROVE  TableCovers(EM(high, k))
<1>1. PICK n, B, w, l, t : n = Numel /\ B = BLOCK_SIZE_M /\ w = tokens_in_chunk /\ l = num_tokens /\ t = top_k
  OBVIOUS
<1>2. n \in Nat \ {0} /\ B \in Nat \ {0} /\ l \in Nat \ {0} /\ t \in Nat \ {0} /\ w \in 1..l /\ Routes = 0..n - 1
  BY <1>1, ChunkIs, MoeIs DEF Live, ChunkFacts, MoeFacts
<1>3. n = w * t  BY <1>1 DEF Numel
<1>4. PICK y, z : y = n * B /\ y = B * n /\ y \in Nat /\ z = l * t * B /\ z \in Nat  BY <1>2
<1>5. y <= z
  <2>1. t * w <= t * l
    <3>1. w \in Int /\ l \in Int /\ w <= l  BY <1>2
    <3> QED BY <1>2, <3>1, TimesOrder
  <2>2. PICK x : x = l * t /\ x = t * l /\ x \in Nat /\ t * w = w * t /\ n <= x
    <3>1. l * t \in Nat /\ l * t = t * l /\ t * w = w * t  BY <1>2
    <3> QED BY <1>3, <2>1, <3>1
  <2>3. B * n <= B * x
    <3>1. n \in Int /\ x \in Int  BY <1>2, <2>2
    <3> QED BY <1>2, <2>2, <3>1, TimesOrder
  <2>4. z = B * x
    <3>1. x * B = B * x  BY <1>2, <2>2
    <3> QED BY <1>4, <2>2, <3>1
  <2> QED BY <1>4, <2>3, <2>4
<1>6. table.sorted_token_ids = <<>> /\ table.num_tokens_post_padded = z
  BY <1>1, <1>4 DEF Unsorted
<1>7. EM(high, k) = y
  <2>1. high * k = n  BY <1>1 DEF RowsMeet
  <2>2. EM(high, k) = (high * k) * B  BY <1>1, <1>6 DEF EM
  <2> QED BY <1>4, <2>1, <2>2
<1>8. ASSUME NEW r \in Routes
      PROVE  r \in Nat /\ r * B < table.num_tokens_post_padded /\ r \in RowsOf(r, n) /\ r < cdiv(y, B)
  <2>1. r \in 0..n - 1 /\ r \in Nat /\ r \in Int /\ n \in Int /\ r < n  BY <1>2
  <2>2. B * r < B * n  BY <1>2, <2>1, TimesOrder
  <2>3. PICK x : x = r * B /\ x = B * r /\ x \in Nat  BY <1>2, <2>1
  <2>4. x < y /\ x < z  BY <1>4, <1>5, <2>2, <2>3
  <2>5. r < cdiv(y, B)
    <3>1. r < cdiv(y, B) <=> B * r < y  BY <1>2, <1>4, <2>1, CdivIs
    <3> QED BY <2>3, <2>4, <3>1
  <2>6. RowsOf(r, n) = {r} \cap 0..n - 1  BY <1>6 DEF RowsOf
  <2> QED BY <1>6, <2>1, <2>3, <2>4, <2>5, <2>6
<1> QED BY <1>1, <1>4, <1>7, <1>8 DEF TableCovers

LEMMA UnsortedRight ==
  ASSUME Live, naive_block_assignment, table = Unsorted
  PROVE  TableRight
<1>1. TableCovers(EM(tokens_in_chunk, top_k)) /\ TableCovers(EM(Numel, 1))
  BY BothMeet, UnsortedCovers
<1>2. table.sorted_token_ids = <<>> /\ table.expert_ids = [j \in 1..Numel |-> Routed(j - 1)]
  BY DEF Unsorted, Numel
<1>3. Routes = 0..Numel - 1 /\ Numel \in Nat  BY ChunkIs DEF ChunkFacts
<1>4. ASSUME NEW m \in Nat, NEW r \in RowsOf(m, Numel)
      PROVE  r \in Routes /\ table.expert_ids[m + 1] = LocalIndex(Routed(r))
  <2>1. r = m /\ m \in Routes  BY <1>2, <1>3, <1>4 DEF RowsOf
  <2>2. PICK z : z = m + 1 /\ z \in 1..Numel /\ z - 1 = m  BY <1>3, <2>1
  <2>3. table.expert_ids[z] = Routed(m)  BY <1>2, <2>2
  <2>4. Routed(m) \in 0..num_experts - 1  BY <2>1, RouteIs
  <2>5. LocalIndex(Routed(m)) = Routed(m)  BY <2>4, LocalIs DEF Live, naive_block_assignment
  <2> QED BY <2>1, <2>2, <2>3, <2>5
<1>5. TableSound  BY <1>4 DEF TableSound
<1> QED BY <1>1, <1>5 DEF TableRight

TableMade == table = IF naive_block_assignment THEN Unsorted ELSE Aligned(moe.path = "impl")

LEMMA TableIsRight ==
  ASSUME Live, TableMade
  PROVE  TableRight
<1>1. CASE naive_block_assignment
  <2>1. table = Unsorted  BY <1>1 DEF TableMade
  <2> QED BY <1>1, <2>1, UnsortedRight
<1>2. CASE ~ naive_block_assignment
  <2>1. PICK ignore : ignore = (moe.path = "impl")  OBVIOUS
  <2>2. table = Aligned(ignore)  BY <1>2, <2>1 DEF TableMade
  <2> QED BY <2>1, <2>2, AlignedRight
<1> QED BY <1>1, <1>2

-----------------------------------------------------------------------------
(* What the memory holds after every stage of a chunk. *)

Wider == IF moe.n > moe.k THEN moe.n ELSE moe.k
CacheRows == 0..Longest * top_k - 1
CacheCells == 0..Longest * top_k * Wider - 1

Given(t) == <<"hidden", t>>
Final(t, e, c) ==
  IF LocalIndex(e) = -1 THEN Zero ELSE <<Activated(Given(t), e, AtFirst), e, AtSecond, c>>

AfterW1(memory) ==
  \A r \in Routes : \A c \in 0..moe.n - 1 :
    Mine(r) => memory[r * moe.n + c] = <<Given(Token(r)), Routed(r), AtFirst, c>>
AfterActivation(high) ==
  \A r \in Routes : Mine(r) => high[r] = Activated(Given(Token(r)), Routed(r), AtFirst)
AfterW2(memory) ==
  \A r \in Routes : \A c \in 0..moe.k - 1 : memory[r * moe.k + c] = Final(Token(r), Routed(r), c)

Untouched == \A t \in 1..num_tokens : t > begin_chunk_idx => hidden[t] = Given(t)

LEMMA CellsFit ==
  ASSUME Live, NEW r \in Routes
  PROVE  /\ r \in CacheRows
         /\ \A c \in 0..moe.n - 1 : r * moe.n + c \in CacheCells
         /\ \A c \in 0..moe.k - 1 : r * moe.k + c \in CacheCells /\ r * moe.k + c < Numel * moe.k
<1>1. PICK n, k, w, q, l, t : n = moe.n /\ k = moe.k /\ w = Wider /\ q = Numel /\ l = Longest * top_k /\ t = top_k
  OBVIOUS
<1>2. n \in Nat \ {0} /\ k \in Nat \ {0} /\ q \in Nat \ {0} /\ t \in Nat \ {0} /\ r \in 0..q - 1
  BY <1>1, MoeIs, ChunkIs DEF Live, MoeFacts, ChunkFacts
<1>3. w \in Nat \ {0} /\ n <= w /\ k <= w  BY <1>1, <1>2 DEF Wider
<1>4. l \in Nat /\ q <= l
  <2>1. PICK a, b : a = tokens_in_chunk /\ b = Longest /\ a \in Int /\ b \in Nat /\ a <= b
    <3>1. tokens_in_chunk \in 1..num_tokens /\ tokens_in_chunk <= Longest /\ num_tokens \in Nat \ {0} /\ chunk_size \in Nat \ {0}
      BY MoeIs, ChunkIs DEF Live, MoeFacts, ChunkFacts
    <3>2. Longest \in Nat  BY <3>1 DEF Longest, Smaller
    <3> QED BY <3>1, <3>2
  <2>2. t * a <= t * b
    <3>1. a \in Int /\ b \in Int /\ a <= b  BY <2>1
    <3> QED BY <1>2, <3>1, TimesOrder
  <2>3. l = t * b /\ q = t * a  BY <1>1, <1>2, <2>1 DEF Numel
  <2>4. t * b \in Nat  BY <1>2, <2>1
  <2> QED BY <2>2, <2>3, <2>4
<1>5. ASSUME NEW m \in Nat \ {0}, m <= w, NEW c \in 0..m - 1
      PROVE  r * m + c \in 0..l * w - 1 /\ r * m + c < q * m
  <2>1. PICK x : x = r * m /\ x = m * r /\ x \in Nat /\ m * (r + 1) = x + m  BY <1>2
  <2>2. m * (r + 1) <= m * q
    <3>1. r + 1 \in Int /\ q \in Int /\ r + 1 <= q  BY <1>2
    <3> QED BY <3>1, TimesOrder
  <2>3. PICK y : y = m * q /\ y = q * m /\ y \in Nat  BY <1>2
  <2>4. q * m <= q * w
    <3>1. m \in Int /\ w \in Int  BY <1>3
    <3> QED BY <1>2, <1>5, <3>1, TimesOrder
  <2>5. w * q <= w * l
    <3>1. q \in Int /\ l \in Int  BY <1>2, <1>4
    <3> QED BY <1>3, <1>4, <3>1, TimesOrder
  <2>6. PICK z : z = l * w /\ z = w * l /\ z \in Nat /\ y <= z
    <3>1. l * w = w * l /\ l * w \in Nat /\ q * w = w * q /\ q * w \in Nat
      BY <1>2, <1>3, <1>4
    <3> QED BY <2>3, <2>4, <2>5, <3>1
  <2>7. x + m <= y  BY <2>1, <2>2, <2>3
  <2>8. PICK i : i = x + c /\ i \in Nat /\ i < y  BY <2>1, <2>3, <2>7
  <2>9. i \in 0..z - 1  BY <2>3, <2>6, <2>8
  <2> QED BY <2>1, <2>3, <2>6, <2>8, <2>9
<1>6. r \in 0..l - 1  BY <1>2, <1>4
<1>7. CacheRows = 0..l - 1 /\ CacheCells = 0..l * w - 1  BY <1>1 DEF CacheRows, CacheCells
<1>8. n <= w /\ k <= w /\ n \in Nat \ {0} /\ k \in Nat \ {0}  BY <1>2, <1>3
<1>9. \A c \in 0..n - 1 : r * n + c \in CacheCells  BY <1>5, <1>7, <1>8
<1>10. \A c \in 0..k - 1 : r * k + c \in CacheCells /\ r * k + c < q * k
  BY <1>5, <1>7, <1>8
<1> QED BY <1>1, <1>6, <1>7, <1>9, <1>10

LEMMA W1Right ==
  ASSUME Live, TableMade, Untouched, DOMAIN cache13 = CacheCells, NEW after,
         after = Multiplied(cache13, Products(tokens_in_chunk, top_k, moe.n), moe.n,
                           [r \in Routes |-> hidden[begin_chunk_idx + r \div top_k + 1]], AtFirst)
  PROVE  DOMAIN after = CacheCells /\ AfterW1(after)
<1>1. PICK cells, operand, n, w : cells = Products(tokens_in_chunk, top_k, moe.n) /\ n = moe.n /\ n \in Nat \ {0} /\ w = AtFirst
                               /\ operand = [r \in Routes |-> hidden[begin_chunk_idx + r \div top_k + 1]]
  BY MoeIs DEF Live, MoeFacts
<1>2. TableSound /\ TableCovers(EM(tokens_in_chunk, top_k))  BY TableIsRight DEF TableRight
<1>3. CellsRight(cells, n)
  <2>1. tokens_in_chunk * top_k = Numel  BY DEF Numel
  <2> QED BY <1>1, <1>2, <2>1, ProductsRight
<1>4. StoresRight(after, cache13, n, operand, w)  BY <1>1, <1>3, MultipliedRight
<1>5. ASSUME NEW r \in Routes, Mine(r), NEW c \in 0..n - 1
      PROVE  after[r * n + c] = <<Given(Token(r)), Routed(r), w, c>>
  <2>1. r * n + c \in DOMAIN cache13  BY <1>1, CellsFit
  <2>2. after[r * n + c] = ProductAt(r, c, operand, w)  BY <1>4, <1>5, <2>1 DEF StoresRight
  <2>3. operand[r] = hidden[Token(r)]  BY <1>1 DEF Token
  <2>4. Token(r) \in 1..num_tokens /\ Token(r) > begin_chunk_idx
    <3>1. Token(r) \in 1..num_tokens /\ begin_chunk_idx < Token(r)  BY RouteIs
    <3> QED BY <3>1
  <2>5. hidden[Token(r)] = Given(Token(r))  BY <2>4 DEF Untouched
  <2> QED BY <2>2, <2>3, <2>5 DEF ProductAt
<1>6. DOMAIN after = CacheCells  BY <1>4 DEF StoresRight
<1> QED BY <1>1, <1>5, <1>6 DEF AfterW1

LEMMA ActivationRight ==
  ASSUME Live, AfterW1(cache13), DOMAIN cache2 = CacheRows, NEW high,
         high = [r \in DOMAIN cache2 |->
       IF r \in Routes THEN [c \in 0..moe.n \div 2 - 1 |->
                               <<cache13[r * moe.n + c], cache13[r * moe.n + c + moe.n \div 2]>>]
       ELSE cache2[r]]
  PROVE  DOMAIN high = CacheRows /\ AfterActivation(high)
<1>1. PICK n, h, w : n = moe.n /\ h = n \div 2 /\ n \in Nat \ {0} /\ w = AtFirst
  BY MoeIs DEF Live, MoeFacts
<1>2. h \in Nat /\ h + h <= n  BY <1>1
<1>3. ASSUME NEW r \in Routes, Mine(r)
      PROVE  high[r] = Activated(Given(Token(r)), Routed(r), w)
  <2>1. r \in DOMAIN cache2  BY CellsFit
  <2>2. high[r] = [c \in 0..h - 1 |-> <<cache13[r * n + c], cache13[r * n + c + h]>>]
    BY <1>1, <2>1
  <2>3. PICK x, e : x = Given(Token(r)) /\ e = Routed(r)  OBVIOUS
  <2>4. \A c \in 0..n - 1 : cache13[r * n + c] = <<x, e, w, c>>
    BY <1>1, <1>3, <2>3 DEF AfterW1
  <2>5. ASSUME NEW c \in 0..h - 1
        PROVE  cache13[r * n + c] = <<x, e, w, c>> /\ cache13[r * n + c + h] = <<x, e, w, c + h>>
    <3>1. c \in 0..n - 1  BY <1>1, <1>2
    <3>2. PICK d : d = c + h /\ d \in 0..n - 1  BY <1>1, <1>2
    <3>3. r * n + d = r * n + c + h
      <4>1. PICK y : y = r * n /\ y \in Nat
        <5>1. r \in Nat  BY RouteIs
        <5> QED BY <1>1, <5>1
      <4> QED BY <1>2, <3>2, <4>1
    <3> QED BY <2>4, <3>1, <3>2, <3>3
  <2>6. high[r] = [c \in 0..h - 1 |-> <<<<x, e, w, c>>, <<x, e, w, c + h>> >>]
    BY <2>2, <2>5
  <2>7. Activated(x, e, w) = [c \in 0..h - 1 |-> <<<<x, e, w, c>>, <<x, e, w, c + h>> >>]
    BY <1>1 DEF Activated
  <2> QED BY <2>3, <2>6, <2>7
<1>4. DOMAIN high = CacheRows
  OBVIOUS
<1> QED BY <1>1, <1>3, <1>4 DEF AfterActivation

LEMMA W2Right ==
  ASSUME Live, TableMade, AfterActivation(cache2), DOMAIN cache13 = CacheCells, NEW after,
         after = Multiplied(Cleared, Products(tokens_in_chunk * top_k, 1, moe.k), moe.k, cache2, AtSecond)
  PROVE  DOMAIN after = CacheCells /\ AfterW2(after)
<1>1. PICK cells, k, w, clear : cells = Products(tokens_in_chunk * top_k, 1, moe.k) /\ k = moe.k /\ k \in Nat \ {0} /\ w = AtSecond
                                /\ clear = Cleared
  BY MoeIs DEF Live, MoeFacts
<1>2. TableSound /\ TableCovers(EM(Numel, 1))  BY TableIsRight DEF TableRight
<1>3. CellsRight(cells, k)
  <2>1. Numel * 1 = Numel  BY BothMeet DEF RowsMeet
  <2>2. cells = Products(Numel, 1, k)  BY <1>1 DEF Numel
  <2> QED BY <1>1, <1>2, <2>1, <2>2, ProductsRight
<1>4. StoresRight(after, clear, k, cache2, w)  BY <1>1, <1>3, MultipliedRight
<1>5. DOMAIN clear = CacheCells  BY <1>1 DEF Cleared
<1>6. ASSUME NEW r \in Routes, NEW c \in 0..k - 1
      PROVE  after[r * k + c] = Final(Token(r), Routed(r), c)
  <2>1. PICK i : i = r * k + c /\ i \in CacheCells /\ i < Numel * k  BY <1>1, CellsFit
  <2>2. /\ Mine(r) => after[i] = ProductAt(r, c, cache2, w)
        /\ ~ Mine(r) /\ moe.path # "impl" => after[i] = Zero
        /\ ~ Mine(r) => after[i] \in {clear[i], Zero}
    BY <1>4, <1>5, <2>1 DEF StoresRight
  <2>3. CASE Mine(r)
    <3>1. cache2[r] = Activated(Given(Token(r)), Routed(r), AtFirst)
      BY <2>3 DEF AfterActivation
    <3>2. after[i] = <<Activated(Given(Token(r)), Routed(r), AtFirst), Routed(r), w, c>>
      BY <2>2, <2>3, <3>1 DEF ProductAt
    <3>3. LocalIndex(Routed(r)) # -1  BY <2>3 DEF Mine
    <3> QED BY <1>1, <2>1, <3>2, <3>3 DEF Final
  <2>4. CASE ~ Mine(r)
    <3>1. LocalIndex(Routed(r)) = -1  BY <2>4 DEF Mine
    <3>2. Final(Token(r), Routed(r), c) = Zero  BY <3>1 DEF Final
    <3>3. moe.path = "impl" => clear[i] = Zero
      <4>1. SUFFICES ASSUME moe.path = "impl" PROVE clear[i] = Zero  OBVIOUS
      <4>2. Routed(r) \in 0..num_experts - 1  BY RouteIs
      <4>3. ~ moe.mapped => LocalIndex(Routed(r)) = Routed(r)  BY <4>2, LocalIs DEF Live
      <4>4. moe.mapped  BY <3>1, <4>2, <4>3
      <4>5. i \in DOMAIN cache13 /\ i < tokens_in_chunk * top_k * moe.k
        BY <1>1, <2>1 DEF Numel
      <4> QED BY <1>1, <4>1, <4>4, <4>5 DEF Cleared
    <3> QED BY <2>1, <2>2, <2>4, <3>2, <3>3
  <2> QED BY <2>3, <2>4
<1>7. DOMAIN after = CacheCells  BY <1>4, <1>5 DEF StoresRight
<1> QED BY <1>1, <1>6, <1>7 DEF AfterW2

Right(t, c) == {<<s - 1, Final(t, moe.ids[t][s], c)>> : s \in 1..top_k}

LEMMA SumIsRight ==
  ASSUME Live, AfterW2(cache13), NEW t \in 0..tokens_in_chunk - 1, NEW c \in 0..moe.k - 1
  PROVE  {<<s, cache13[(t * top_k + s) * moe.k + c]>> : s \in 0..top_k - 1} = Right(begin_chunk_idx + t + 1, c)
<1>1. PICK k, u : k = top_k /\ k \in Nat \ {0} /\ u = begin_chunk_idx + t + 1
  BY MoeIs DEF Live, MoeFacts
<1>2. ASSUME NEW s \in 0..k - 1
      PROVE  cache13[(t * k + s) * moe.k + c] = Final(u, moe.ids[u][s + 1], c)
  <2>1. PICK r : r = t * k + s /\ r \in Routes /\ r % k = s /\ Token(r) = u
    BY <1>1, RouteOf
  <2>2. Routed(r) = moe.ids[u][s + 1]  BY <1>1, <2>1, RouteIs
  <2>3. cache13[r * moe.k + c] = Final(u, moe.ids[u][s + 1], c)  BY <2>1, <2>2 DEF AfterW2
  <2> QED BY <2>1, <2>3
<1>3. PICK X, Y : X = {<<s, cache13[(t * k + s) * moe.k + c]>> : s \in 0..k - 1} /\ Y = Right(u, c)
  OBVIOUS
<1>4. ASSUME NEW x \in X
      PROVE  x \in Y
  <2>1. PICK s \in 0..k - 1 : x = <<s, cache13[(t * k + s) * moe.k + c]>>  BY <1>3
  <2>2. PICK j : j = s + 1 /\ j \in 1..k /\ j - 1 = s  BY <1>1
  <2>3. x = <<j - 1, Final(u, moe.ids[u][j], c)>>  BY <1>2, <2>1, <2>2
  <2> QED BY <1>1, <1>3, <2>2, <2>3 DEF Right
<1>5. ASSUME NEW x \in Y
      PROVE  x \in X
  <2>1. PICK j \in 1..k : x = <<j - 1, Final(u, moe.ids[u][j], c)>>  BY <1>1, <1>3 DEF Right
  <2>2. PICK s : s = j - 1 /\ s \in 0..k - 1 /\ s + 1 = j  BY <1>1
  <2>3. x = <<s, cache13[(t * k + s) * moe.k + c]>>  BY <1>2, <2>1, <2>2
  <2> QED BY <1>3, <2>2, <2>3
<1>6. X = Y  BY <1>4, <1>5
<1> QED BY <1>1, <1>3, <1>6

LEMMA MoeKept ==
  ASSUME moe' = moe
  PROVE  /\ num_tokens' = num_tokens /\ top_k' = top_k /\ chunk_size' = chunk_size
         /\ AtFirst' = AtFirst /\ AtSecond' = AtSecond /\ CacheRows' = CacheRows /\ CacheCells' = CacheCells
         /\ \A e : LocalIndex(e)' = LocalIndex(e)
         /\ \A t, e, c : Final(t, e, c)' = Final(t, e, c)
         /\ \A t, c : Right(t, c)' = Right(t, c)
         /\ num_experts' = num_experts /\ (Counted => Counted')
<1>1. num_tokens' = num_tokens /\ top_k' = top_k /\ chunk_size' = chunk_size
  BY DEF num_tokens, top_k, chunk_size
<1>2. CacheRows' = CacheRows /\ CacheCells' = CacheCells
  BY <1>1 DEF CacheRows, CacheCells, Longest, Wider, Smaller
<1>3. AtFirst' = AtFirst /\ AtSecond' = AtSecond  BY DEF AtFirst, AtSecond
<1>4. \A e : LocalIndex(e)' = LocalIndex(e)  BY DEF LocalIndex
<1>5. ASSUME NEW t, NEW e, NEW c
      PROVE  Final(t, e, c)' = Final(t, e, c)
  <2>1. PICK x : x = Activated(Given(t), e, AtFirst)  OBVIOUS
  <2>2. Activated(Given(t), e, AtFirst)' = x  BY <1>3, <2>1 DEF Activated, Given
  <2> QED BY <1>3, <1>4, <2>1, <2>2 DEF Final, Zero
<1>6. \A t, c : Right(t, c)' = Right(t, c)  BY <1>1, <1>5 DEF Right
<1>7. num_experts' = num_experts  BY DEF num_experts
<1>8. Counted => Counted'  BY <1>1, <1>7 DEF Counted, RoutesCounted
<1> QED BY <1>1, <1>2, <1>3, <1>4, <1>5, <1>6, <1>7, <1>8

(* What a chunk is computed from stays until its sum. *)
SameChunk ==
  /\ num_tokens' = num_tokens /\ top_k' = top_k /\ chunk_size' = chunk_size
  /\ begin_chunk_idx' = begin_chunk_idx /\ tokens_in_chunk' = tokens_in_chunk /\ BLOCK_SIZE_M' = BLOCK_SIZE_M
  /\ Routes' = Routes /\ Numel' = Numel /\ CacheRows' = CacheRows /\ CacheCells' = CacheCells
  /\ AtFirst' = AtFirst /\ AtSecond' = AtSecond /\ TableSize' = TableSize
SameRoutes ==
  /\ \A r : Routed(r)' = Routed(r) /\ Token(r)' = Token(r)
  /\ \A e : LocalIndex(e)' = LocalIndex(e)
  /\ \A r : Mine(r)' <=> Mine(r)

LEMMA ChunkKept ==
  ASSUME moe' = moe, chunk' = chunk
  PROVE  SameChunk /\ SameRoutes
<1>1. num_tokens' = num_tokens /\ top_k' = top_k /\ chunk_size' = chunk_size /\ \A e : LocalIndex(e)' = LocalIndex(e)
  BY MoeKept
<1>2. begin_chunk_idx' = begin_chunk_idx  BY <1>1 DEF begin_chunk_idx
<1>3. tokens_in_chunk' = tokens_in_chunk  BY <1>1, <1>2 DEF tokens_in_chunk, Smaller
<1>4. BLOCK_SIZE_M' = BLOCK_SIZE_M  BY <1>3 DEF BLOCK_SIZE_M
<1>5. Routes' = Routes /\ Numel' = Numel  BY <1>1, <1>3 DEF Routes, Numel
<1>6. TableSize' = TableSize  BY <1>4, <1>5, MoeKept DEF TableSize, Smaller
<1>7. SameChunk  BY <1>1, <1>2, <1>3, <1>4, <1>5, <1>6, MoeKept DEF SameChunk
<1>8. \A r : Routed(r)' = Routed(r) /\ Token(r)' = Token(r)  BY <1>1, <1>2 DEF Routed, Token
<1>9. \A r : Mine(r)' <=> Mine(r)  BY <1>1, <1>8 DEF Mine
<1> QED BY <1>1, <1>7, <1>8, <1>9 DEF SameRoutes

LEMMA BlocksKept ==
  ASSUME moe' = moe, chunk' = chunk, NEW ignore, NEW e
  PROVE  FilledFor(ignore, e)' = FilledFor(ignore, e) /\ NamedFor(ignore, e)' = NamedFor(ignore, e)
<1>1. SameChunk /\ SameRoutes  BY ChunkKept
<1>2. PICK S, l, B, n : S = SetToSeq(RoutesTo(e)) /\ l = LocalIndex(e) /\ B = BLOCK_SIZE_M /\ n = Numel
  OBVIOUS
<1>3. RoutesTo(e)' = RoutesTo(e)
  <2>1. Routes' = Routes /\ \A r : Routed(r)' = Routed(r)  BY <1>1 DEF SameChunk, SameRoutes
  <2> QED BY <2>1 DEF RoutesTo
<1>4. SetToSeq(RoutesTo(e))' = S /\ LocalIndex(e)' = l /\ BLOCK_SIZE_M' = B /\ Numel' = n
  BY <1>1, <1>2, <1>3 DEF SameChunk, SameRoutes
<1>5. PICK k : k = BlocksFor(ignore, e)  OBVIOUS
<1>6. k = IF ignore /\ l = -1 THEN 0 ELSE cdiv(Len(S), B)  BY <1>2, <1>5 DEF BlocksFor
<1>7. BlocksFor(ignore, e)' = IF ignore /\ l = -1 THEN 0 ELSE cdiv(Len(S), B)
  BY <1>4 DEF BlocksFor, cdiv
<1>8. BlocksFor(ignore, e)' = k  BY <1>6, <1>7
<1>9. FilledFor(ignore, e) = [j \in 1..k * B |-> IF j <= Len(S) THEN S[j] ELSE n]
  BY <1>2, <1>5 DEF FilledFor
<1>10. FilledFor(ignore, e)' = [j \in 1..k * B |-> IF j <= Len(S) THEN S[j] ELSE n]
  BY <1>4, <1>8 DEF FilledFor
<1>11. NamedFor(ignore, e) = [j \in 1..k |-> l]  BY <1>2, <1>5 DEF NamedFor
<1>12. NamedFor(ignore, e)' = [j \in 1..k |-> l]  BY <1>4, <1>8 DEF NamedFor
<1> QED BY <1>9, <1>10, <1>11, <1>12

LEMMA TableKept ==
  ASSUME moe' = moe, chunk' = chunk
  PROVE  /\ Unsorted' = Unsorted /\ naive_block_assignment' = naive_block_assignment
         /\ \A ignore : Aligned(ignore)' = Aligned(ignore)
<1>1. SameChunk /\ SameRoutes  BY ChunkKept
<1>2. Unsorted' = Unsorted
  <2>1. PICK n : n = tokens_in_chunk * top_k  OBVIOUS
  <2>2. tokens_in_chunk' * top_k' = n  BY <1>1, <2>1 DEF SameChunk
  <2>3. \A r : Routed(r)' = Routed(r)  BY <1>1 DEF SameRoutes
  <2>4. [j \in 1..n |-> Routed(j - 1)'] = [j \in 1..n |-> Routed(j - 1)]  BY <2>3
  <2>5. PICK p : p = num_tokens * top_k * BLOCK_SIZE_M  OBVIOUS
  <2>6. num_tokens' * top_k' * BLOCK_SIZE_M' = p  BY <1>1, <2>5 DEF SameChunk
  <2>7. Unsorted = [sorted_token_ids |-> <<>>, expert_ids |-> [j \in 1..n |-> Routed(j - 1)], num_tokens_post_padded |-> p]
    BY <2>1, <2>5 DEF Unsorted
  <2>8. Unsorted' = [sorted_token_ids |-> <<>>, expert_ids |-> [j \in 1..n |-> Routed(j - 1)'], num_tokens_post_padded |-> p]
    BY <2>2, <2>6 DEF Unsorted
  <2> QED BY <2>4, <2>7, <2>8
<1>3. naive_block_assignment' = naive_block_assignment
  BY <1>1 DEF naive_block_assignment, SameChunk
<1>4. ASSUME NEW ignore
      PROVE  Aligned(ignore)' = Aligned(ignore)
  <2>1. PICK E, F, G, n, z : E = num_experts /\ F = FlattenSeq(AllFilled(ignore)) /\ G = FlattenSeq(AllNamed(ignore))
                             /\ n = Numel /\ z = TableSize
    OBVIOUS
  <2>2. AllFilled(ignore)' = AllFilled(ignore)
    <3>1. \A e : FilledFor(ignore, e)' = FilledFor(ignore, e)  BY BlocksKept
    <3> QED BY <3>1, MoeKept DEF AllFilled
  <2>3. AllNamed(ignore)' = AllNamed(ignore)
    <3>1. \A e : NamedFor(ignore, e)' = NamedFor(ignore, e)  BY BlocksKept
    <3> QED BY <3>1, MoeKept DEF AllNamed
  <2>4. Aligned(ignore) = SortedAs(F, G)  BY <2>1, AlignedIs
  <2>5. Aligned(ignore)' = SortedAs(FlattenSeq(AllFilled(ignore)), FlattenSeq(AllNamed(ignore)))'
    BY Zenon DEF Aligned, SortedAs, AllFilled, AllNamed, FilledFor, NamedFor, BlocksFor, RoutesTo, TableSize, Numel
  <2>6. FlattenSeq(AllFilled(ignore))' = F /\ FlattenSeq(AllNamed(ignore))' = G /\ Numel' = n /\ TableSize' = z
    BY <1>1, <2>1, <2>2, <2>3 DEF SameChunk
  <2>7. SortedAs(F, G) = [sorted_token_ids |-> [j \in 1..z |-> IF j <= Len(F) THEN F[j] ELSE n],
                          expert_ids |-> G, num_tokens_post_padded |-> Len(F)]
    BY <2>1 DEF SortedAs
  <2>8. SortedAs(FlattenSeq(AllFilled(ignore)), FlattenSeq(AllNamed(ignore)))' =
          [sorted_token_ids |-> [j \in 1..z |-> IF j <= Len(F) THEN F[j] ELSE n],
           expert_ids |-> G, num_tokens_post_padded |-> Len(F)]
    BY <2>6 DEF SortedAs
  <2> QED BY <2>4, <2>5, <2>7, <2>8
<1> QED BY <1>2, <1>3, <1>4

-----------------------------------------------------------------------------
(* The inductive invariant. *)

MoeType ==
  /\ Counted /\ chunk \in Nat /\ pc \in {"chunk", "w1", "act", "w2", "sum", "done"}
  /\ DOMAIN hidden = 1..num_tokens /\ DOMAIN result = 1..num_tokens
  /\ DOMAIN cache13 = CacheCells /\ DOMAIN cache2 = CacheRows

(* The chunks before this one are summed up, its inputs and those of the chunks after it are untouched. *)
Progress ==
  /\ pc # "done" => begin_chunk_idx < num_tokens /\ Untouched
  /\ \A t \in 1..num_tokens : pc = "done" \/ t <= begin_chunk_idx =>
       \A c \in 0..moe.k - 1 : result[t][c] = Right(t, c)

Stages ==
  /\ pc \in {"w1", "act", "w2"} => TableMade
  /\ pc = "act" => AfterW1(cache13)
  /\ pc = "w2" => AfterActivation(cache2)
  /\ pc = "sum" => AfterW2(cache13)

MoeIInv == MoeType /\ Progress /\ Stages

MoeSpec == MoeInit /\ [][MoeNext]_moeVars

LEMMA StillLive ==
  ASSUME MoeIInv, pc # "done"
  PROVE  Live /\ Untouched
BY DEF MoeIInv, MoeType, Progress, Live

LEMMA MoeStarts ==
  ASSUME MoeInit, RoutesCounted
  PROVE  MoeIInv
<1>1. Counted /\ chunk = 0 /\ pc = "chunk"  BY DEF MoeInit, Counted
<1>2. num_tokens \in Nat \ {0} /\ chunk_size \in Nat \ {0} /\ top_k \in Nat \ {0}
  BY <1>1, MoeIs DEF MoeFacts
<1>3. begin_chunk_idx = 0  BY <1>1, <1>2 DEF begin_chunk_idx
<1>4. /\ DOMAIN hidden = 1..num_tokens /\ DOMAIN result = 1..num_tokens
      /\ DOMAIN cache13 = CacheCells /\ DOMAIN cache2 = CacheRows
  <2>1. DOMAIN hidden = 1..num_tokens /\ DOMAIN result = 1..num_tokens  BY DEF MoeInit
  <2>2. DOMAIN cache13 = CacheCells /\ DOMAIN cache2 = CacheRows
    BY DEF MoeInit, CacheCells, CacheRows, Longest, Wider
  <2> QED BY <2>1, <2>2
<1>5. MoeType  BY <1>1, <1>4 DEF MoeType
<1>6. Untouched
  <2>1. hidden = [t \in 1..num_tokens |-> <<"hidden", t>>]  BY DEF MoeInit
  <2> QED BY <2>1 DEF Untouched, Given
<1>7. begin_chunk_idx < num_tokens /\ \A t \in 1..num_tokens : ~ (t <= begin_chunk_idx)
  BY <1>2, <1>3
<1>8. Progress  BY <1>1, <1>6, <1>7 DEF Progress
<1>9. Stages  BY <1>1 DEF Stages
<1> QED BY <1>5, <1>8, <1>9 DEF MoeIInv

(* The parts of the invariant that only look at what a step leaves alone. *)
LEMMA TypeKept ==
  ASSUME MoeIInv, moe' = moe, chunk' = chunk, hidden' = hidden, result' = result,
         pc # "done", pc' \in {"chunk", "w1", "act", "w2", "sum"},
         DOMAIN cache13' = CacheCells, DOMAIN cache2' = CacheRows
  PROVE  MoeType' /\ Progress'
<1>1. SameChunk  BY ChunkKept
<1>2. MoeType'  BY <1>1, MoeKept DEF MoeIInv, MoeType, SameChunk
<1>3. begin_chunk_idx' < num_tokens' /\ Untouched'
  <2>1. begin_chunk_idx < num_tokens /\ Untouched  BY DEF MoeIInv, Progress
  <2> QED BY <1>1, <2>1 DEF Untouched, Given, SameChunk
<1>4. ASSUME NEW t \in 1..num_tokens, t <= begin_chunk_idx, NEW c \in 0..moe.k - 1
      PROVE  result'[t][c] = Right(t, c)'
  <2>1. result[t][c] = Right(t, c)  BY <1>4 DEF MoeIInv, Progress
  <2> QED BY <2>1, MoeKept
<1>5. Progress'
  <2>1. num_tokens' = num_tokens /\ begin_chunk_idx' = begin_chunk_idx /\ pc' # "done"
    BY <1>1 DEF SameChunk
  <2>2. \A t \in 1..num_tokens' : pc' = "done" \/ t <= begin_chunk_idx' =>
          \A c \in 0..moe'.k - 1 : result'[t][c] = Right(t, c)'
    BY <1>4, <2>1
  <2> QED BY <1>3, <2>2 DEF Progress
<1> QED BY <1>2, <1>5

LEMMA AlignKeeps ==
  ASSUME MoeIInv, Align
  PROVE  MoeIInv'
<1>1. /\ moe' = moe /\ chunk' = chunk /\ hidden' = hidden /\ result' = result /\ cache13' = cache13 /\ cache2' = cache2
      /\ pc = "chunk" /\ pc' = "w1"
      /\ table' = IF naive_block_assignment THEN Unsorted ELSE Aligned(moe.path = "impl")
  BY DEF Align
<1>2. MoeType' /\ Progress'  BY <1>1, TypeKept DEF MoeIInv, MoeType
<1>3. TableMade'
  <2>1. PICK ignore : ignore = (moe.path = "impl")  OBVIOUS
  <2>2. Unsorted' = Unsorted /\ naive_block_assignment' = naive_block_assignment /\ Aligned(ignore)' = Aligned(ignore)
    BY <1>1, TableKept
  <2>3. Aligned(moe.path = "impl")' = Aligned(ignore)  BY <1>1, <2>1, <2>2
  <2>4. table' = IF naive_block_assignment THEN Unsorted ELSE Aligned(ignore)  BY <1>1, <2>1
  <2> QED BY <2>2, <2>3, <2>4 DEF TableMade
<1>4. Stages'  BY <1>1, <1>3 DEF Stages
<1> QED BY <1>2, <1>4 DEF MoeIInv

LEMMA MadeStays ==
  ASSUME TableMade, moe' = moe, chunk' = chunk, table' = table
  PROVE  TableMade'
<1>1. PICK ignore : ignore = (moe.path = "impl")  OBVIOUS
<1>2. Unsorted' = Unsorted /\ naive_block_assignment' = naive_block_assignment /\ Aligned(ignore)' = Aligned(ignore)
  BY TableKept
<1>3. Aligned(moe.path = "impl")' = Aligned(ignore)  BY <1>1, <1>2
<1>4. table = IF naive_block_assignment THEN Unsorted ELSE Aligned(ignore)
  BY <1>1 DEF TableMade
<1> QED BY <1>2, <1>3, <1>4 DEF TableMade

LEMMA W1Stays ==
  ASSUME moe' = moe, chunk' = chunk, NEW m, m = cache13', AfterW1(m)
  PROVE  AfterW1(cache13)'
<1>1. AtFirst' = AtFirst /\ Routes' = Routes  BY ChunkKept DEF SameChunk
<1>2. \A r : Routed(r)' = Routed(r) /\ Token(r)' = Token(r) /\ (Mine(r)' <=> Mine(r))
  BY ChunkKept DEF SameRoutes
<1>3. ASSUME NEW r \in Routes, NEW c \in 0..moe.n - 1, Mine(r)'
      PROVE  cache13'[r * moe'.n + c] = <<Given(Token(r))', Routed(r)', AtFirst', c>>
  <2>1. m[r * moe.n + c] = <<Given(Token(r)), Routed(r), AtFirst, c>>
    BY <1>2, <1>3 DEF AfterW1
  <2>2. Given(Token(r))' = Given(Token(r))  BY <1>2 DEF Given
  <2> QED BY <1>1, <1>2, <2>1, <2>2
<1> QED BY <1>1, <1>3 DEF AfterW1

LEMMA ActivationStays ==
  ASSUME moe' = moe, chunk' = chunk, NEW m, m = cache2', AfterActivation(m)
  PROVE  AfterActivation(cache2)'
<1>1. AtFirst' = AtFirst /\ Routes' = Routes  BY ChunkKept DEF SameChunk
<1>2. \A r : Routed(r)' = Routed(r) /\ Token(r)' = Token(r) /\ (Mine(r)' <=> Mine(r))
  BY ChunkKept DEF SameRoutes
<1>3. ASSUME NEW r \in Routes, Mine(r)'
      PROVE  cache2'[r] = Activated(Given(Token(r)), Routed(r), AtFirst)'
  <2>1. PICK x, e, w : x = Given(Token(r)) /\ e = Routed(r) /\ w = AtFirst  OBVIOUS
  <2>2. m[r] = Activated(x, e, w)  BY <1>2, <1>3, <2>1 DEF AfterActivation
  <2>3. Given(Token(r))' = x /\ Routed(r)' = e /\ AtFirst' = w
    BY <1>1, <1>2, <2>1 DEF Given
  <2>4. Activated(Given(Token(r)), Routed(r), AtFirst)' = Activated(x, e, w)
    BY <2>3 DEF Activated
  <2> QED BY <1>2, <2>2, <2>4
<1> QED BY <1>1, <1>3 DEF AfterActivation

LEMMA W2Stays ==
  ASSUME moe' = moe, chunk' = chunk, NEW m, m = cache13', AfterW2(m)
  PROVE  AfterW2(cache13)'
<1>1. Routes' = Routes /\ \A r : Routed(r)' = Routed(r) /\ Token(r)' = Token(r)
  BY ChunkKept DEF SameChunk, SameRoutes
<1>2. ASSUME NEW r \in Routes, NEW c \in 0..moe.k - 1
      PROVE  cache13'[r * moe'.k + c] = Final(Token(r), Routed(r), c)'
  <2>1. PICK t, e : t = Token(r) /\ e = Routed(r)  OBVIOUS
  <2>2. m[r * moe.k + c] = Final(t, e, c)  BY <2>1 DEF AfterW2
  <2>3. Final(Token(r), Routed(r), c)' = Final(t, e, c)'  BY <1>1, <2>1 DEF Final
  <2> QED BY <2>2, <2>3, MoeKept
<1> QED BY <1>1, <1>2 DEF AfterW2

LEMMA MultiplyW1Keeps ==
  ASSUME MoeIInv, MultiplyW1
  PROVE  MoeIInv'
<1>1. /\ moe' = moe /\ chunk' = chunk /\ hidden' = hidden /\ result' = result /\ table' = table /\ cache2' = cache2
      /\ pc = "w1" /\ pc' = "act"
  BY DEF MultiplyW1
<1>2. PICK m : m = cache13'  OBVIOUS
<1>3. m = Multiplied(cache13, Products(tokens_in_chunk, top_k, moe.n), moe.n,
                     [r \in Routes |-> hidden[begin_chunk_idx + r \div top_k + 1]], AtFirst)
  BY <1>2 DEF MultiplyW1
<1>4. Live /\ Untouched /\ TableMade /\ DOMAIN cache13 = CacheCells /\ DOMAIN cache2 = CacheRows
  BY <1>1, StillLive DEF MoeIInv, Stages, MoeType
<1>5. DOMAIN m = CacheCells /\ AfterW1(m)  BY <1>3, <1>4, W1Right
<1>6. MoeType' /\ Progress'  BY <1>1, <1>2, <1>4, <1>5, TypeKept
<1>7. AfterW1(cache13)'  BY <1>1, <1>2, <1>5, W1Stays
<1>8. TableMade'  BY <1>1, <1>4, MadeStays
<1>9. Stages'  BY <1>1, <1>7, <1>8 DEF Stages
<1> QED BY <1>6, <1>9 DEF MoeIInv

LEMMA ActivateKeeps ==
  ASSUME MoeIInv, Activate
  PROVE  MoeIInv'
<1>1. /\ moe' = moe /\ chunk' = chunk /\ hidden' = hidden /\ result' = result /\ table' = table /\ cache13' = cache13
      /\ pc = "act" /\ pc' = "w2"
  BY DEF Activate
<1>2. PICK m : m = cache2'  OBVIOUS
<1>3. m = [r \in DOMAIN cache2 |->
       IF r \in Routes THEN [c \in 0..moe.n \div 2 - 1 |->
                               <<cache13[r * moe.n + c], cache13[r * moe.n + c + moe.n \div 2]>>]
       ELSE cache2[r]]
  BY <1>2 DEF Activate
<1>4. Live /\ TableMade /\ AfterW1(cache13) /\ DOMAIN cache13 = CacheCells /\ DOMAIN cache2 = CacheRows
  BY <1>1, StillLive DEF MoeIInv, Stages, MoeType
<1>5. DOMAIN m = CacheRows /\ AfterActivation(m)  BY <1>3, <1>4, ActivationRight
<1>6. MoeType' /\ Progress'  BY <1>1, <1>2, <1>4, <1>5, TypeKept
<1>7. AfterActivation(cache2)'  BY <1>1, <1>2, <1>5, ActivationStays
<1>8. TableMade'  BY <1>1, <1>4, MadeStays
<1>9. Stages'  BY <1>1, <1>7, <1>8 DEF Stages
<1> QED BY <1>6, <1>9 DEF MoeIInv

LEMMA MultiplyW2Keeps ==
  ASSUME MoeIInv, MultiplyW2
  PROVE  MoeIInv'
<1>1. /\ moe' = moe /\ chunk' = chunk /\ hidden' = hidden /\ result' = result /\ table' = table /\ cache2' = cache2
      /\ pc = "w2" /\ pc' = "sum"
  BY DEF MultiplyW2
<1>2. PICK m : m = cache13'  OBVIOUS
<1>3. m = Multiplied(Cleared, Products(tokens_in_chunk * top_k, 1, moe.k), moe.k, cache2, AtSecond)
  BY <1>2 DEF MultiplyW2
<1>4. Live /\ TableMade /\ AfterActivation(cache2) /\ DOMAIN cache13 = CacheCells /\ DOMAIN cache2 = CacheRows
  BY <1>1, StillLive DEF MoeIInv, Stages, MoeType
<1>5. DOMAIN m = CacheCells /\ AfterW2(m)  BY <1>3, <1>4, W2Right
<1>6. MoeType' /\ Progress'  BY <1>1, <1>2, <1>4, <1>5, TypeKept
<1>7. AfterW2(cache13)'  BY <1>1, <1>2, <1>5, W2Stays
<1>8. Stages'  BY <1>1, <1>7 DEF Stages
<1> QED BY <1>6, <1>8 DEF MoeIInv

LEMMA SumKeeps ==
  ASSUME MoeIInv, SumExperts
  PROVE  MoeIInv'
<1>1. /\ moe' = moe /\ chunk' = chunk + 1 /\ table' = table /\ cache13' = cache13 /\ cache2' = cache2 /\ pc = "sum"
      /\ pc' = IF chunk' <= num_tokens \div chunk_size /\ chunk' * chunk_size < num_tokens THEN "chunk" ELSE "done"
  BY DEF SumExperts
<1>2. PICK n, z, b, w : n = num_tokens /\ z = chunk_size /\ b = begin_chunk_idx /\ w = tokens_in_chunk
  OBVIOUS
<1>3. Live /\ Untouched /\ AfterW2(cache13)  BY <1>1, StillLive DEF MoeIInv, Stages
<1>4. n \in Nat \ {0} /\ z \in Nat \ {0} /\ b \in Nat /\ w \in 1..n /\ b + w <= n
      /\ (b + w = n \/ b + w = (chunk + 1) * z) /\ (chunk + 1) * z = b + z /\ chunk \in Nat /\ w <= z
  <2>1. n \in Nat \ {0} /\ z \in Nat \ {0} /\ chunk \in Nat
    BY <1>2, <1>3, MoeIs DEF Live, MoeFacts
  <2>2. b \in Nat /\ w \in 1..n /\ b + w <= n /\ (b + w = n \/ b + w = (chunk + 1) * z) /\ (chunk + 1) * z = b + z
    BY <1>2, <1>3, ChunkIs DEF ChunkFacts
  <2>3. w <= Longest  BY <1>2, <1>3, ChunkIs DEF ChunkFacts
  <2>4. Longest <= z /\ Longest \in Nat  BY <1>2, <2>1 DEF Longest, Smaller
  <2>5. w <= z  BY <2>1, <2>2, <2>3, <2>4
  <2> QED BY <2>1, <2>2, <2>5
<1>5. PICK d : d = (chunk + 1) * z /\ d = b + z /\ d \in Nat /\ (b + w = n \/ b + w = d)
  BY <1>4
<1>6. num_tokens' = n /\ chunk_size' = z /\ \A t, c : Right(t, c)' = Right(t, c)
  BY <1>1, <1>2, MoeKept
<1>7. begin_chunk_idx' = d  BY <1>1, <1>5, <1>6 DEF begin_chunk_idx
<1>8. (pc' = "chunk" /\ d < n) \/ (pc' = "done" /\ b + w = n)
  <2>1. pc' = IF chunk + 1 <= n \div z /\ d < n THEN "chunk" ELSE "done"
    BY <1>1, <1>2, <1>5
  <2>2. d < n => chunk + 1 <= n \div z
    <3>1. chunk + 1 \in Int /\ n \in Int /\ z * (chunk + 1) = d  BY <1>4, <1>5
    <3>2. chunk + 1 <= n \div z <=> z * (chunk + 1) <= n  BY <1>4, <3>1, DivLess
    <3> QED BY <1>4, <1>5, <3>1, <3>2
  <2>3. ~ (d < n) => b + w = n
    <3>1. b + w <= n /\ b + w \in Nat  BY <1>4
    <3> QED BY <1>4, <1>5, <3>1
  <2> QED BY <2>1, <2>2, <2>3
<1>9. PICK mine : mine = b + 1..b + w  OBVIOUS
<1>10. result' = [t \in DOMAIN result |-> IF t \notin mine THEN result[t]
                   ELSE [c \in 0..moe.k - 1 |->
                          {<<s, cache13[((t - b - 1) * top_k + s) * moe.k + c]>> : s \in 0..top_k - 1}]]
  BY <1>2, <1>9 DEF SumExperts
<1>11. hidden' = [t \in DOMAIN hidden |-> IF moe.inplace /\ t \in mine THEN Garbage ELSE hidden[t]]
  BY <1>2, <1>9 DEF SumExperts
<1>12. MoeType'
  <2>1. DOMAIN hidden = 1..n /\ DOMAIN result = 1..n /\ DOMAIN cache13 = CacheCells /\ DOMAIN cache2 = CacheRows
        /\ Counted
    BY <1>2 DEF MoeIInv, MoeType
  <2>2. DOMAIN hidden' = 1..n /\ DOMAIN result' = 1..n  BY <1>10, <1>11, <2>1
  <2>3. CacheRows' = CacheRows /\ CacheCells' = CacheCells  BY <1>1, MoeKept
  <2>4. chunk' \in Nat  BY <1>1, <1>4
  <2>5. pc' \in {"chunk", "w1", "act", "w2", "sum", "done"}  BY <1>8
  <2> QED BY <1>1, <1>6, <2>1, <2>2, <2>3, <2>4, <2>5, MoeKept DEF MoeType
<1>13. ASSUME NEW t \in 1..n, t <= b + w, NEW c \in 0..moe.k - 1
       PROVE  result'[t][c] = Right(t, c)
  <2>1. t \in DOMAIN result  BY <1>2 DEF MoeIInv, MoeType
  <2>2. CASE t \in mine
    <3>1. PICK q : q = t - b - 1 /\ q \in 0..w - 1 /\ b + q + 1 = t  BY <1>4, <1>9, <2>2
    <3>2. result'[t] = [x \in 0..moe.k - 1 |-> {<<s, cache13[(q * top_k + s) * moe.k + x]>> : s \in 0..top_k - 1}]
      BY <1>10, <2>1, <2>2, <3>1
    <3>3. result'[t][c] = {<<s, cache13[(q * top_k + s) * moe.k + c]>> : s \in 0..top_k - 1}
      BY <3>2
    <3>4. {<<s, cache13[(q * top_k + s) * moe.k + c]>> : s \in 0..top_k - 1} = Right(begin_chunk_idx + q + 1, c)
      BY <1>2, <1>3, <3>1, SumIsRight
    <3> QED BY <1>2, <3>1, <3>3, <3>4
  <2>3. CASE t \notin mine
    <3>1. result'[t] = result[t]  BY <1>10, <2>1, <2>3
    <3>2. t <= b  BY <1>4, <1>9, <1>13, <2>3
    <3>3. result[t][c] = Right(t, c)  BY <1>2, <3>2 DEF MoeIInv, Progress
    <3> QED BY <3>1, <3>3
  <2> QED BY <2>2, <2>3
<1>14. ASSUME pc' # "done", NEW t \in 1..n, t > d
       PROVE  hidden'[t] = Given(t)
  <2>1. b + w = d  BY <1>4, <1>5, <1>8, <1>14
  <2>2. t \notin mine /\ t > b  BY <1>4, <1>5, <1>9, <1>14, <2>1
  <2>3. t \in DOMAIN hidden  BY <1>2 DEF MoeIInv, MoeType
  <2>4. hidden'[t] = hidden[t]  BY <1>11, <2>2, <2>3
  <2>5. hidden[t] = Given(t)  BY <1>2, <1>3, <2>2 DEF Untouched
  <2> QED BY <2>4, <2>5
<1>15. \A t \in 1..n : pc' = "done" \/ t <= d => t <= b + w  BY <1>4, <1>5, <1>8
<1>16. Progress'
  <2>1. pc' # "done" => begin_chunk_idx' < num_tokens' /\ Untouched'
    <3>1. SUFFICES ASSUME pc' # "done" PROVE begin_chunk_idx' < num_tokens' /\ Untouched'  OBVIOUS
    <3>2. d < n  BY <1>8, <3>1
    <3>3. \A t \in 1..n : t > d => hidden'[t] = Given(t)  BY <1>14, <3>1
    <3> QED BY <1>6, <1>7, <3>2, <3>3 DEF Untouched, Given
  <2>2. \A t \in 1..n : pc' = "done" \/ t <= d => \A c \in 0..moe.k - 1 : result'[t][c] = Right(t, c)
    BY <1>13, <1>15
  <2> QED BY <1>1, <1>6, <1>7, <2>1, <2>2 DEF Progress
<1>17. Stages'  BY <1>8 DEF Stages
<1> QED BY <1>12, <1>16, <1>17 DEF MoeIInv

LEMMA FastPathKeeps ==
  ASSUME MoeIInv, FastPath
  PROVE  MoeIInv'
<1>1. /\ moe' = moe /\ chunk' = chunk /\ hidden' = hidden /\ table' = table /\ cache13' = cache13 /\ cache2' = cache2
      /\ pc = "chunk" /\ pc' = "done" /\ moe.path = "experts" /\ ~ moe.onInput /\ ~ moe.mapped
      /\ result' = [t \in 1..num_tokens |-> [c \in 0..moe.k - 1 |->
           {<<s - 1, <<Activated(hidden[t], moe.ids[t][s], 0), moe.ids[t][s], 1, c>> >> : s \in 1..top_k}]]
  BY DEF FastPath, TakesFastPath
<1>2. Live /\ Untouched  BY <1>1, StillLive
<1>3. chunk = 0 /\ begin_chunk_idx = 0
  <2>1. chunk = 0 /\ chunk_size \in Nat
    BY <1>1, <1>2, ChunkIs, MoeIs DEF Live, ChunkFacts, MoeFacts
  <2> QED BY <2>1 DEF begin_chunk_idx
<1>4. AtFirst = 0 /\ AtSecond = 1  BY <1>1 DEF AtFirst, AtSecond
<1>5. ASSUME NEW t \in 1..num_tokens, NEW c \in 0..moe.k - 1
      PROVE  result'[t][c] = Right(t, c)
  <2>1. hidden[t] = Given(t)
    <3>1. num_tokens \in Nat  BY <1>2, MoeIs DEF Live, MoeFacts
    <3>2. t > begin_chunk_idx  BY <1>3, <3>1
    <3> QED BY <1>2, <3>2 DEF Untouched
  <2>2. result'[t][c] = {<<s - 1, <<Activated(Given(t), moe.ids[t][s], 0), moe.ids[t][s], 1, c>> >> : s \in 1..top_k}
    BY <1>1, <2>1
  <2>3. ASSUME NEW s \in 1..top_k
        PROVE  Final(t, moe.ids[t][s], c) = <<Activated(Given(t), moe.ids[t][s], 0), moe.ids[t][s], 1, c>>
    <3>1. PICK e : e = moe.ids[t][s] /\ e \in 0..num_experts - 1
      BY <1>2, MoeIs DEF Live, MoeFacts
    <3>2. LocalIndex(e) = e  BY <1>1, <1>2, <3>1, LocalIs DEF Live
    <3>3. e # -1  BY <3>1
    <3> QED BY <1>4, <3>1, <3>2, <3>3 DEF Final
  <2> QED BY <2>2, <2>3 DEF Right
<1>6. num_tokens' = num_tokens /\ CacheRows' = CacheRows /\ CacheCells' = CacheCells /\ \A t, c : Right(t, c)' = Right(t, c)
  BY <1>1, MoeKept
<1>7. MoeType'
  <2>1. DOMAIN result' = 1..num_tokens  BY <1>1
  <2> QED BY <1>1, <1>6, <2>1, MoeKept DEF MoeIInv, MoeType
<1>8. Progress'  BY <1>1, <1>5, <1>6 DEF Progress
<1>9. Stages'  BY <1>1 DEF Stages
<1> QED BY <1>7, <1>8, <1>9 DEF MoeIInv

LEMMA NothingChanges ==
  ASSUME MoeIInv, UNCHANGED moeVars
  PROVE  MoeIInv'
<1>1. /\ moe' = moe /\ chunk' = chunk /\ hidden' = hidden /\ result' = result /\ table' = table
      /\ cache13' = cache13 /\ cache2' = cache2 /\ pc' = pc
  BY DEF moeVars
<1>2. MoeType  BY DEF MoeIInv
<1>3. MoeType' /\ Progress'
  <2>1. CASE pc # "done"
    <3>1. DOMAIN cache13' = CacheCells /\ DOMAIN cache2' = CacheRows /\ pc' \in {"chunk", "w1", "act", "w2", "sum"}
      BY <1>1, <1>2, <2>1 DEF MoeType
    <3> QED BY <1>1, <2>1, <3>1, TypeKept
  <2>2. CASE pc = "done"
    <3>1. num_tokens' = num_tokens /\ CacheRows' = CacheRows /\ CacheCells' = CacheCells
          /\ \A t, c : Right(t, c)' = Right(t, c)
      BY <1>1, MoeKept
    <3>2. MoeType'  BY <1>1, <1>2, <3>1, MoeKept DEF MoeType
    <3>3. \A t \in 1..num_tokens : \A c \in 0..moe.k - 1 : result[t][c] = Right(t, c)
      BY <2>2 DEF MoeIInv, Progress
    <3>4. Progress'  BY <1>1, <2>2, <3>1, <3>3 DEF Progress
    <3> QED BY <3>2, <3>4
  <2> QED BY <2>1, <2>2
<1>4. pc' \in {"w1", "act", "w2"} => TableMade'  BY <1>1, MadeStays DEF MoeIInv, Stages
<1>5. pc' = "act" => AfterW1(cache13)'
  <2>1. PICK m : m = cache13' /\ m = cache13  BY <1>1
  <2> QED BY <1>1, <2>1, W1Stays DEF MoeIInv, Stages
<1>6. pc' = "w2" => AfterActivation(cache2)'
  <2>1. PICK m : m = cache2' /\ m = cache2  BY <1>1
  <2> QED BY <1>1, <2>1, ActivationStays DEF MoeIInv, Stages
<1>7. pc' = "sum" => AfterW2(cache13)'
  <2>1. PICK m : m = cache13' /\ m = cache13  BY <1>1
  <2> QED BY <1>1, <2>1, W2Stays DEF MoeIInv, Stages
<1>8. Stages'  BY <1>4, <1>5, <1>6, <1>7 DEF Stages
<1> QED BY <1>3, <1>8 DEF MoeIInv

LEMMA MoeInvariant == MoeSpec => [](RoutesCounted => MoeIInv)
<1>1. MoeInit => (RoutesCounted => MoeIInv)  BY MoeStarts
<1>2. (RoutesCounted => MoeIInv) /\ [MoeNext]_moeVars => (RoutesCounted => MoeIInv)'
  <2> SUFFICES ASSUME RoutesCounted => MoeIInv, [MoeNext]_moeVars, RoutesCounted' PROVE MoeIInv'
    OBVIOUS
  <2>0. MoeIInv
    <3>1. moe' = moe
      BY DEF MoeNext, Finished, moeVars, FastPath, Align, MultiplyW1, Activate, MultiplyW2, SumExperts
    <3> QED BY <3>1 DEF RoutesCounted, num_tokens, top_k, num_experts
  <2>1. CASE FastPath
    BY <2>0, <2>1, FastPathKeeps
  <2>2. CASE Align
    BY <2>0, <2>2, AlignKeeps
  <2>3. CASE MultiplyW1
    BY <2>0, <2>3, MultiplyW1Keeps
  <2>4. CASE Activate
    BY <2>0, <2>4, ActivateKeeps
  <2>5. CASE MultiplyW2
    BY <2>0, <2>5, MultiplyW2Keeps
  <2>6. CASE SumExperts
    BY <2>0, <2>6, SumKeeps
  <2>7. CASE UNCHANGED moeVars
    BY <2>0, <2>7, NothingChanges
  <2> QED BY <2>1, <2>2, <2>3, <2>4, <2>5, <2>6, <2>7 DEF MoeNext, Finished
<1> QED BY <1>1, <1>2, PTL DEF MoeSpec

(* Whatever the batch, the blocks, the groups of programs, the chunks and the *)
(* experts of the rank, on every path whose table counts the experts routed to *)
(* (all but the FP8 branch with an expert map, where it counts this rank's *)
(* only): when the layer is done, a token's output is the sum *)
(* over its own experts, each once and with its weight once, and zero for those *)
(* of other ranks (moe_align_block_size, fused_moe_kernel, fused_experts_impl, *)
(* TritonExperts.apply and the fast path). *)
THEOREM ExpertsAddUp == MoeSpec => []ExpertsAreExact
<1>1. (RoutesCounted => MoeIInv) => ExpertsAreExact
  <2> SUFFICES ASSUME MoeIInv, pc = "done" PROVE ExpertsAreExact
    BY DEF ExpertsAreExact
  <2> DEFINE owed == IF moe.onInput /\ moe.path # "impl" THEN 0 ELSE 1
             early == IF moe.onInput THEN owed ELSE 0
  <2>2. early = AtFirst /\ owed - early = AtSecond  BY DEF AtFirst, AtSecond
  <2>3. \A t \in 1..num_tokens : \A c \in 0..moe.k - 1 : result[t][c] = Right(t, c)
    BY DEF MoeIInv, Progress
  <2>4. \A t \in 1..num_tokens : \A c \in 0..moe.k - 1 :
          Right(t, c) = {<<s - 1, LET e == moe.ids[t][s]
                                  IN  IF LocalIndex(e) = -1 THEN Zero
                                      ELSE <<Activated(<<"hidden", t>>, e, early), e, owed - early, c>> >> :
                           s \in 1..top_k}
    BY <2>2 DEF Right, Final, Given
  <2> QED BY <2>3, <2>4 DEF ExpertsAreExact
<1> QED BY <1>1, MoeInvariant, PTL
=============================================================================
