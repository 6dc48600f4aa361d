------------------------- MODULE BuildGenerationProofs -------------------------
(***************************************************************************)
(* Proofs about BuildGeneration, for all catalogues, requests and bounds.  *)
(*                                                                         *)
(* Totals, the pruning of the pools and the builds presented are computed  *)
(* by folds.  What they compute is proved by induction over finite sets    *)
(* and numbers, in the form of sets that hold what is to be shown of       *)
(* every subset, or number; the rest is the invariant of the job at work   *)
(* (JobFine) and of what was saved (GenerationFine).                       *)
(***************************************************************************)
EXTENDS BuildGeneration, FiniteSetTheorems, WellFoundedInduction, TLAPS

-----------------------------------------------------------------------------
(* Induction *)

\* A set of numbers has a least one.
LEMMA LeastNatural ==
    ASSUME NEW S \in SUBSET Nat, S # {}
    PROVE  \E n \in S : \A m \in S : n <= m
<1>1. PICK R : R = {ss \in Nat \X Nat : ss[1] < ss[2]}
  OBVIOUS
<1>2. IsWellFoundedOn(R, Nat)
  BY <1>1, NatLessThanWellFounded DEF OpToRel
<1>3. PICK n \in S : \A m \in S : ~ (<<m, n>> \in R)
  BY <1>2, WFMin
<1>4. \A m \in S : ~ (m < n)
  BY <1>1, <1>3
<1> QED
  BY <1>4

\* Induction over the numbers.
LEMMA Counting ==
    ASSUME NEW T, 0 \in T, \A n \in Nat : n \in T => n + 1 \in T
    PROVE  Nat \subseteq T
<1> SUFFICES ASSUME Nat \ T # {} PROVE FALSE
  OBVIOUS
<1>1. PICK n \in Nat \ T : \A m \in Nat \ T : n <= m
  BY LeastNatural
<1>2. n - 1 \in Nat /\ n - 1 \notin Nat \ T
  BY <1>1
<1> QED
  BY <1>2

\* Induction over the subsets of a finite set.
LEMMA Gathering ==
    ASSUME NEW S, IsFiniteSet(S), NEW T, {} \in T,
           \A A \in SUBSET S : A # {} /\ (\A x \in A : A \ {x} \in T) => A \in T
    PROVE  SUBSET S \subseteq T
<1> DEFINE Upto == {n \in Nat : \A A \in SUBSET S : Cardinality(A) = n => A \in T}
<1>1. \A A \in SUBSET S : IsFiniteSet(A) /\ Cardinality(A) \in Nat
  BY FS_Subset, FS_CardinalityType
<1>2. 0 \in Upto
  BY <1>1, FS_EmptySet
<1>3. ASSUME NEW n \in Nat, n \in Upto PROVE n + 1 \in Upto
  <2> SUFFICES ASSUME NEW A \in SUBSET S, Cardinality(A) = n + 1 PROVE A \in T
    OBVIOUS
  <2>1. A # {}
    BY <1>1, FS_EmptySet
  <2>2. ASSUME NEW x \in A PROVE Cardinality(A \ {x}) = n
    <3>1. Cardinality(A \ {x}) = (IF x \in A THEN Cardinality(A) - 1 ELSE Cardinality(A))
      BY <1>1, FS_RemoveElement
    <3> QED
      BY <3>1
  <2>3. \A x \in A : A \ {x} \in T
    BY <1>3, <2>2
  <2> QED
    BY <2>1, <2>3
<1>4. Nat \subseteq Upto
  <2> HIDE DEF Upto
  <2> QED
    BY <1>2, <1>3, Counting
<1> QED
  BY <1>1, <1>4

\* g folds the elements of each subset of S, taken in the order pick says.
Folds(S, base, pick, step, g) ==
    /\ g[{}] = base
    /\ \A A \in SUBSET S : A # {} => g[A] = step[<<pick[A], g[A \ {pick[A]}]>>]

\* The folds of the community modules are defined by recursion over the subsets of
\* a finite set; there is such a function.
LEMMA FoldExists ==
    ASSUME NEW S, IsFiniteSet(S), NEW V, NEW base \in V, NEW pick,
           \A A \in SUBSET S : A # {} => pick[A] \in A,
           NEW step \in [S \X V -> V]
    PROVE  \E g \in [SUBSET S -> V] : Folds(S, base, pick, step, g)
<1> DEFINE Upto(n) == {A \in SUBSET S : Cardinality(A) <= n}
           Fold(n, g) == \A A \in Upto(n) :
                g[A] = IF A = {} THEN base ELSE step[<<pick[A], g[A \ {pick[A]}]>>]
           T == {n \in Nat : \E g \in [Upto(n) -> V] : Fold(n, g)}
<1>1. \A A \in SUBSET S : IsFiniteSet(A) /\ Cardinality(A) \in Nat
  BY FS_Subset, FS_CardinalityType
<1>2. 0 \in T
  <2>1. PICK g : g = [A \in Upto(0) |-> base]
    OBVIOUS
  <2>2. \A A \in Upto(0) : A = {}
    BY <1>1, FS_EmptySet
  <2>3. g \in [Upto(0) -> V] /\ Fold(0, g)
    BY <2>1, <2>2
  <2> HIDE DEF Upto, Fold
  <2> QED
    BY <2>3
<1>3. ASSUME NEW n \in Nat, n \in T PROVE n + 1 \in T
  <2>1. PICK g \in [Upto(n) -> V] : Fold(n, g)
    BY <1>3
  <2>2. PICK h : h = [A \in Upto(n + 1) |->
                        IF A = {} THEN base ELSE step[<<pick[A], g[A \ {pick[A]}]>>]]
    OBVIOUS
  <2>3. \A A \in Upto(n + 1) : A # {} => A \ {pick[A]} \in Upto(n)
    <3> SUFFICES ASSUME NEW A \in Upto(n + 1), A # {} PROVE A \ {pick[A]} \in Upto(n)
      OBVIOUS
    <3>1. Cardinality(A \ {pick[A]}) =
            (IF pick[A] \in A THEN Cardinality(A) - 1 ELSE Cardinality(A))
      BY <1>1, FS_RemoveElement
    <3> QED
      BY <1>1, <3>1
  <2>4. \A A \in Upto(n) : h[A] = g[A]
    BY <1>1, <2>1, <2>2
  <2>5. h \in [Upto(n + 1) -> V]
    <3> SUFFICES ASSUME NEW A \in Upto(n + 1), A # {}
                 PROVE  step[<<pick[A], g[A \ {pick[A]}]>>] \in V
      BY <2>2
    <3>1. g[A \ {pick[A]}] \in V
      BY <2>3
    <3> QED
      BY <3>1
  <2>6. Fold(n + 1, h)
    BY <2>2, <2>3, <2>4
  <2> HIDE DEF Upto, Fold
  <2> QED
    BY <2>5, <2>6
<1>4. Nat \subseteq T
  <2> HIDE DEF T
  <2> QED
    BY <1>2, <1>3, Counting
<1>5. PICK g \in [Upto(Cardinality(S)) -> V] : Fold(Cardinality(S), g)
  BY <1>1, <1>4
<1>6. Upto(Cardinality(S)) = SUBSET S
  BY FS_Subset
<1>7. g \in [SUBSET S -> V] /\ Folds(S, base, pick, step, g)
  BY <1>5, <1>6 DEF Folds
<1> QED
  BY <1>7

-----------------------------------------------------------------------------
(* Sums *)

\* sum[A] adds up w over A, in whatever order.
Adds(w, S, sum) ==
    /\ sum \in [SUBSET S -> Int]
    /\ sum[{}] = 0
    /\ \A A \in SUBSET S : \A x \in A : sum[A] = w[x] + sum[A \ {x}]

\* SumFunction adds up, and the order in which it does so is no matter.
LEMMA SumLaw ==
    ASSUME NEW S, IsFiniteSet(S), NEW w \in [S -> Int]
    PROVE  \E sum : Adds(w, S, sum) /\ SumFunction(w) = sum[S]
<1> DEFINE body(g) == [A \in SUBSET S |-> IF A = {} THEN 0
                          ELSE w[CHOOSE x \in A : TRUE] + g[A \ {CHOOSE x \in A : TRUE}]]
<1>1. PICK pick : pick = [A \in SUBSET S |-> CHOOSE x \in A : TRUE]
  OBVIOUS
<1>2. PICK step : step = [xv \in S \X Int |-> w[xv[1]] + xv[2]]
  OBVIOUS
<1>3. /\ \A A \in SUBSET S : A # {} => pick[A] \in A
      /\ step \in [S \X Int -> Int]
  BY <1>1, <1>2
<1>4. PICK g \in [SUBSET S -> Int] : Folds(S, 0, pick, step, g)
  <2>1. PICK V, zero : V = Int /\ zero = 0
    OBVIOUS
  <2>2. step \in [S \X V -> V] /\ zero \in V
    BY <1>3, <2>1
  <2>3. PICK g \in [SUBSET S -> V] : Folds(S, zero, pick, step, g)
    BY <1>3, <2>2, FoldExists
  <2> QED
    BY <2>1, <2>3
<1>5. g = body(g)
  <2> SUFFICES ASSUME NEW A \in SUBSET S, A # {}
               PROVE  g[A] = w[CHOOSE x \in A : TRUE] + g[A \ {CHOOSE x \in A : TRUE}]
    BY <1>4 DEF Folds
  <2>1. PICK x \in A : x = pick[A] /\ x = (CHOOSE y \in A : TRUE)
    BY <1>1
  <2>2. g[A] = step[<<x, g[A \ {x}]>>]
    BY <1>4, <2>1 DEF Folds
  <2>3. g[A \ {x}] \in Int
    OBVIOUS
  <2> QED
    BY <1>2, <2>1, <2>2, <2>3
<1>6. PICK sum : sum = CHOOSE h : h = body(h)
  OBVIOUS
<1>7. sum = body(sum)
  <2> HIDE DEF body
  <2> QED
    BY <1>5, <1>6
<1>8. SumFunction(w) = sum[S]
  <2>1. DOMAIN w = S
    OBVIOUS
  <2> QED
    BY <1>6, <2>1 DEF SumFunction, SumFunctionOnSet, FoldFunctionOnSet, MapThenFoldSet
<1>9. /\ sum[{}] = 0
      /\ \A A \in SUBSET S : A # {} =>
           \E x \in A : sum[A] = w[x] + sum[A \ {x}]
  BY <1>7
<1>10. sum \in [SUBSET S -> Int]
  <2>1. PICK T : T = {A \in SUBSET S : sum[A] \in Int}
    OBVIOUS
  <2>2. {} \in T
    BY <1>9, <2>1
  <2>3. ASSUME NEW A \in SUBSET S, A # {}, \A x \in A : A \ {x} \in T PROVE A \in T
    <3>1. PICK x \in A : sum[A] = w[x] + sum[A \ {x}]
      BY <1>9, <2>3
    <3>2. sum[A \ {x}] \in Int /\ w[x] \in Int
      BY <2>1, <2>3
    <3> QED
      BY <2>1, <3>1, <3>2
  <2>4. SUBSET S \subseteq T
    BY <2>2, <2>3, Gathering
  <2> QED
    BY <1>7, <2>1, <2>4
<1>11. \A A \in SUBSET S : \A x \in A : sum[A] = w[x] + sum[A \ {x}]
  <2>1. PICK T : T = {A \in SUBSET S : \A x \in A : sum[A] = w[x] + sum[A \ {x}]}
    OBVIOUS
  <2>2. {} \in T
    BY <2>1
  <2>3. ASSUME NEW A \in SUBSET S, A # {}, \A x \in A : A \ {x} \in T PROVE A \in T
    <3> SUFFICES ASSUME NEW x \in A PROVE sum[A] = w[x] + sum[A \ {x}]
      BY <2>1
    <3>1. PICK y \in A : sum[A] = w[y] + sum[A \ {y}]
      BY <1>9
    <3>2. CASE x # y
      <4>1. sum[A \ {y}] = w[x] + sum[(A \ {y}) \ {x}]
        BY <2>1, <2>3, <3>2
      <4>2. sum[A \ {x}] = w[y] + sum[(A \ {x}) \ {y}]
        BY <2>1, <2>3, <3>2
      <4>3. (A \ {y}) \ {x} = (A \ {x}) \ {y}
        OBVIOUS
      <4>4. w[x] \in Int /\ w[y] \in Int /\ sum[(A \ {x}) \ {y}] \in Int
        BY <1>10
      <4>5. PICK rest \in Int : /\ rest = sum[(A \ {y}) \ {x}]
                                 /\ rest = sum[(A \ {x}) \ {y}]
        BY <4>3, <4>4
      <4>6. sum[A] = w[y] + (w[x] + rest) /\ sum[A \ {x}] = w[y] + rest
        BY <3>1, <4>1, <4>2, <4>5
      <4> QED
        BY <4>4, <4>6
    <3> QED
      BY <3>1, <3>2
  <2>4. SUBSET S \subseteq T
    BY <2>2, <2>3, Gathering
  <2> QED
    BY <2>1, <2>4
<1> QED
  BY <1>8, <1>9, <1>10, <1>11 DEF Adds

\* Equal terms have equal sums.
LEMMA SumAgrees ==
    ASSUME NEW S, IsFiniteSet(S), NEW v, NEW w, NEW sv, NEW sw, Adds(v, S, sv), Adds(w, S, sw),
           NEW R \in SUBSET S, \A x \in R : v[x] = w[x]
    PROVE  sv[R] = sw[R]
<1>1. PICK T : T = {A \in SUBSET R : sv[A] = sw[A]}
  OBVIOUS
<1>2. {} \in T
  BY <1>1 DEF Adds
<1>3. ASSUME NEW A \in SUBSET R, A # {}, \A x \in A : A \ {x} \in T PROVE A \in T
  <2>1. PICK x : x \in A
    BY <1>3
  <2>2. sv[A] = v[x] + sv[A \ {x}] /\ sw[A] = w[x] + sw[A \ {x}]
    BY <2>1 DEF Adds
  <2> QED
    BY <1>1, <1>3, <2>1, <2>2
<1>4. SUBSET R \subseteq T
  BY <1>2, <1>3, FS_Subset, Gathering
<1> QED
  BY <1>1, <1>4

\* Smaller terms have smaller sums.
LEMMA SumMonotone ==
    ASSUME NEW S, IsFiniteSet(S), NEW v \in [S -> Int], NEW w \in [S -> Int],
           \A x \in S : v[x] <= w[x]
    PROVE  SumFunction(v) <= SumFunction(w)
<1>1. PICK sv : Adds(v, S, sv) /\ SumFunction(v) = sv[S]
  BY SumLaw
<1>2. PICK sw : Adds(w, S, sw) /\ SumFunction(w) = sw[S]
  BY SumLaw
<1>3. PICK T : T = {A \in SUBSET S : sv[A] <= sw[A]}
  OBVIOUS
<1>4. {} \in T
  BY <1>1, <1>2, <1>3 DEF Adds
<1>5. ASSUME NEW A \in SUBSET S, A # {}, \A x \in A : A \ {x} \in T PROVE A \in T
  <2>1. PICK x : x \in A
    BY <1>5
  <2>2. /\ sv[A] = v[x] + sv[A \ {x}] /\ sw[A] = w[x] + sw[A \ {x}]
        /\ sv[A \ {x}] \in Int /\ sw[A \ {x}] \in Int
        /\ v[x] \in Int /\ w[x] \in Int /\ v[x] <= w[x]
    BY <1>1, <1>2, <2>1 DEF Adds
  <2>3. sv[A \ {x}] <= sw[A \ {x}]
    BY <1>3, <1>5, <2>1
  <2>4. sv[A] <= sw[A]
    BY <2>2, <2>3
  <2> QED
    BY <1>3, <2>4
<1>6. SUBSET S \subseteq T
  BY <1>4, <1>5, Gathering
<1>7. sv[S] <= sw[S]
  BY <1>3, <1>6
<1> QED
  BY <1>1, <1>2, <1>7

\* Natural terms have natural sums.
LEMMA SumNat ==
    ASSUME NEW S, IsFiniteSet(S), NEW w \in [S -> Nat]
    PROVE  SumFunction(w) \in Nat
<1>1. w \in [S -> Int]
  OBVIOUS
<1>2. PICK sum : Adds(w, S, sum) /\ SumFunction(w) = sum[S]
  BY <1>1, SumLaw
<1>3. PICK T : T = {A \in SUBSET S : sum[A] \in Nat}
  OBVIOUS
<1>4. {} \in T
  BY <1>2, <1>3 DEF Adds
<1>5. ASSUME NEW A \in SUBSET S, A # {}, \A x \in A : A \ {x} \in T PROVE A \in T
  <2>1. PICK x : x \in A
    BY <1>5
  <2>2. sum[A] = w[x] + sum[A \ {x}] /\ sum[A \ {x}] \in Nat /\ w[x] \in Nat
    BY <1>2, <1>3, <1>5, <2>1 DEF Adds
  <2> QED
    BY <1>3, <2>2
<1>6. SUBSET S \subseteq T
  BY <1>4, <1>5, Gathering
<1> QED
  BY <1>2, <1>3, <1>6

\* One term changes.
LEMMA SumChanged ==
    ASSUME NEW S, IsFiniteSet(S), NEW v \in [S -> Int], NEW w \in [S -> Int],
           NEW x \in S, \A y \in S \ {x} : v[y] = w[y]
    PROVE  SumFunction(w) = SumFunction(v) + w[x] - v[x]
<1>1. PICK sv : Adds(v, S, sv) /\ SumFunction(v) = sv[S]
  BY SumLaw
<1>2. PICK sw : Adds(w, S, sw) /\ SumFunction(w) = sw[S]
  BY SumLaw
<1>3. sv[S \ {x}] = sw[S \ {x}]
  BY <1>1, <1>2, SumAgrees
<1>4. sv[S] = v[x] + sv[S \ {x}] /\ sw[S] = w[x] + sw[S \ {x}]
      /\ sv[S \ {x}] \in Int /\ v[x] \in Int /\ w[x] \in Int
  BY <1>1, <1>2 DEF Adds
<1> QED
  BY <1>1, <1>2, <1>3, <1>4

\* The terms are named otherwise.
LEMMA SumRenamed ==
    ASSUME NEW S, IsFiniteSet(S), NEW s, \A x, y \in S : s[x] = s[y] => x = y,
           NEW R, R = {s[x] : x \in S}, IsFiniteSet(R),
           NEW v \in [S -> Int], NEW w \in [R -> Int], \A x \in S : v[x] = w[s[x]]
    PROVE  SumFunction(v) = SumFunction(w)
<1>1. PICK sv : Adds(v, S, sv) /\ SumFunction(v) = sv[S]
  BY SumLaw
<1>2. PICK sw : Adds(w, R, sw) /\ SumFunction(w) = sw[R]
  BY SumLaw
<1>3. PICK T : T = {A \in SUBSET S : sv[A] = sw[{s[x] : x \in A}]}
  OBVIOUS
<1>4. {} \in T
  <2>1. {s[x] : x \in {}} = {}
    OBVIOUS
  <2> QED
    BY <1>1, <1>2, <1>3, <2>1 DEF Adds
<1>5. ASSUME NEW A \in SUBSET S, A # {}, \A x \in A : A \ {x} \in T PROVE A \in T
  <2>1. PICK x : x \in A
    BY <1>5
  <2>2. PICK B, C : B = {s[y] : y \in A} /\ C = {s[y] : y \in A \ {x}}
    OBVIOUS
  <2>3. B \in SUBSET R /\ s[x] \in B /\ C = B \ {s[x]}
    BY <2>1, <2>2
  <2>4. sw[B] = w[s[x]] + sw[C]
    <3>1. \A D \in SUBSET R : \A y \in D : sw[D] = w[y] + sw[D \ {y}]
      BY <1>2 DEF Adds
    <3> QED
      BY <2>3, <3>1
  <2>5. sv[A] = v[x] + sv[A \ {x}]
    BY <1>1, <2>1 DEF Adds
  <2>6. sv[A \ {x}] = sw[C]
    BY <1>3, <1>5, <2>1, <2>2
  <2> QED
    BY <1>3, <2>1, <2>2, <2>4, <2>5, <2>6
<1>6. SUBSET S \subseteq T
  BY <1>4, <1>5, Gathering
<1> QED
  BY <1>1, <1>2, <1>3, <1>6

-----------------------------------------------------------------------------
(* Pruning *)

Families == [Categories -> SUBSET Products]

\* The families within pools that keep all of X.
Between(X, pools) ==
    {f \in Families : \A c \in Categories : X[c] \subseteq f[c] /\ f[c] \subseteq pools[c]}

\* Every part of X goes with one of every other category.
Supported(cat, X) ==
    \A a, b \in Categories : \A p \in X[a] : \E q \in X[b] : ~Clashing(cat, p, q)

\* A pair of categories loses nothing that is supported.
LEMMA ReviseWithin ==
    ASSUME NEW cat, NEW pools, NEW X, Supported(cat, X),
           NEW f \in Between(X, pools), NEW pair \in Categories \X Categories
    PROVE  Revise(cat, f, pair) \in Between(X, pools)
<1>1. PICK a \in Categories, b \in Categories : pair[1] = a /\ pair[2] = b
  OBVIOUS
<1>2. PICK left : left = {p \in f[a] : \E q \in f[b] : ~Clashing(cat, p, q)}
  OBVIOUS
<1>3. PICK right : right = {q \in f[b] : \E p \in left : ~Clashing(cat, p, q)}
  OBVIOUS
<1>4. Revise(cat, f, pair) = [f EXCEPT ![a] = left, ![b] = right]
  BY <1>1, <1>2, <1>3 DEF Revise
<1>5. X[a] \subseteq left
  BY <1>2 DEF Supported, Between
<1>6. X[b] \subseteq right
  <2> SUFFICES ASSUME NEW q \in X[b] PROVE q \in right
    OBVIOUS
  <2>1. PICK p \in X[a] : ~Clashing(cat, q, p)
    BY DEF Supported
  <2>2. ~Clashing(cat, p, q)
    <3>1. {p, q} = {q, p}
      OBVIOUS
    <3> QED
      BY <2>1, <3>1 DEF Clashing
  <2> QED
    BY <1>3, <1>5, <2>1, <2>2 DEF Between
<1>7. left \subseteq f[a] /\ right \subseteq f[b]
  BY <1>2, <1>3
<1> QED
  BY <1>4, <1>5, <1>6, <1>7 DEF Between, Families

LEMMA PairListIs ==
    /\ IsFiniteSet(DOMAIN PairList)
    /\ DOMAIN PairList \subseteq Int
    /\ \A i \in DOMAIN PairList : PairList[i] \in Categories \X Categories
<1>1. PairList \in Seq(Categories \X Categories)
  BY GatesAssumption DEF GatesAssumption
<1>2. DOMAIN PairList = 1..Len(PairList) /\ Len(PairList) \in Nat
  BY <1>1
<1>3. IsFiniteSet(1..Len(PairList))
  BY <1>2, FS_Interval
<1> QED
  BY <1>1, <1>2, <1>3

\* A finite set of integers has its greatest element.
LEMMA MaxIs ==
    ASSUME NEW A \in SUBSET Int, IsFiniteSet(A), A # {}
    PROVE  Max(A) \in A /\ \A x \in A : x <= Max(A)
<1>1. PICK T : T = {B \in SUBSET A : B # {} => \E m \in B : \A x \in B : m >= x}
  OBVIOUS
<1>2. {} \in T
  BY <1>1
<1>3. ASSUME NEW B \in SUBSET A, B # {}, \A x \in B : B \ {x} \in T PROVE B \in T
  <2>1. PICK x \in B : TRUE
    BY <1>3
  <2>2. CASE B \ {x} = {}
    <3>1. \A y \in B : x >= y
      BY <2>2
    <3> QED
      BY <1>1, <3>1
  <2>3. CASE B \ {x} # {}
    <3>1. PICK m \in B \ {x} : \A y \in B \ {x} : m >= y
      BY <1>1, <1>3, <2>3
    <3>2. CASE m >= x
      BY <1>1, <3>1, <3>2
    <3>3. CASE x >= m
      <4>1. \A y \in B : x >= y
        BY <3>1, <3>3
      <4> QED
        BY <1>1, <4>1
    <3> QED
      BY <3>2, <3>3
  <2> QED
    BY <2>2, <2>3
<1>4. A \in T
  BY <1>2, <1>3, Gathering
<1>5. \E m \in A : \A x \in A : m >= x
  BY <1>1, <1>4
<1> QED
  BY <1>5 DEF Max

LEMMA SweepWithin ==
    ASSUME NEW cat, NEW pools, NEW X, Supported(cat, X), NEW f \in Between(X, pools)
    PROVE  Sweep(cat, f) \in Between(X, pools)
<1> DEFINE body(g) == [A \in SUBSET DOMAIN PairList |-> IF A = {} THEN f
                          ELSE Revise(cat, g[A \ {Max(A)}], PairList[Max(A)])]
<1>1. PICK S : S = DOMAIN PairList
  OBVIOUS
<1>2. /\ IsFiniteSet(S)
      /\ \A A \in SUBSET S : A # {} => Max(A) \in A
      /\ \A i \in S : PairList[i] \in Categories \X Categories
  <2>1. \A A \in SUBSET S : A \in SUBSET Int /\ IsFiniteSet(A)
    BY <1>1, PairListIs, FS_Subset
  <2> QED
    BY <1>1, <2>1, PairListIs, MaxIs
<1>3. PICK V : V = Between(X, pools)
  OBVIOUS
<1>4. PICK step : step = [iv \in S \X V |-> Revise(cat, iv[2], PairList[iv[1]])]
  OBVIOUS
<1>5. step \in [S \X V -> V]
  <2> SUFFICES ASSUME NEW i \in S, NEW v \in V PROVE Revise(cat, v, PairList[i]) \in V
    BY <1>4
  <2> QED
    BY <1>2, <1>3, ReviseWithin
<1>6. PICK pick : pick = [A \in SUBSET S |-> Max(A)]
  OBVIOUS
<1>7. PICK g \in [SUBSET S -> V] : Folds(S, f, pick, step, g)
  <2>1. \A A \in SUBSET S : A # {} => pick[A] \in A
    BY <1>2, <1>6
  <2>2. f \in V
    BY <1>3
  <2> QED
    BY <1>2, <1>5, <2>1, <2>2, FoldExists
<1>8. g = body(g)
  <2> SUFFICES ASSUME NEW A \in SUBSET S, A # {}
               PROVE  g[A] = Revise(cat, g[A \ {Max(A)}], PairList[Max(A)])
    BY <1>1, <1>7 DEF Folds
  <2>1. PICK i \in A : i = Max(A)
    BY <1>2
  <2>2. g[A] = step[<<i, g[A \ {i}]>>]
    BY <1>6, <1>7, <2>1 DEF Folds
  <2>3. g[A \ {i}] \in V
    BY <1>7
  <2>4. step[<<i, g[A \ {i}]>>] = Revise(cat, g[A \ {i}], PairList[i])
    BY <1>4, <2>3
  <2> QED
    BY <2>1, <2>2, <2>4
<1>9. PICK h : h = CHOOSE k : k = body(k)
  OBVIOUS
<1>10. h = body(h)
  <2> HIDE DEF body
  <2> QED
    BY <1>8, <1>9
<1>11. Sweep(cat, f) = h[S]
  BY <1>1, <1>9 DEF Sweep, FoldLeft, MapThenFoldSet
<1>12. PICK T : T = {A \in SUBSET S : h[A] \in V}
  OBVIOUS
<1>13. {} \in T
  BY <1>1, <1>3, <1>10, <1>12
<1>14. ASSUME NEW A \in SUBSET S, A # {}, \A i \in A : A \ {i} \in T PROVE A \in T
  <2>1. PICK i \in A : i = Max(A)
    BY <1>2, <1>14
  <2>2. h[A] = Revise(cat, h[A \ {i}], PairList[i])
    BY <1>1, <1>10, <1>14, <2>1
  <2>3. h[A \ {i}] \in Between(X, pools)
    BY <1>3, <1>12, <1>14
  <2>4. h[A] \in Between(X, pools)
    BY <1>2, <2>2, <2>3, ReviseWithin
  <2> QED
    BY <1>3, <1>12, <2>4
<1>15. SUBSET S \subseteq T
  <2>1. IsFiniteSet(S)
    BY <1>2
  <2>2. \A A \in SUBSET S : A # {} /\ (\A i \in A : A \ {i} \in T) => A \in T
    BY <1>14
  <2> QED
    BY <1>13, <2>1, <2>2, Gathering
<1> QED
  BY <1>3, <1>11, <1>12, <1>15

\* g applies step to base again and again.
Iterates(N, base, step, g) ==
    \A n \in 0..N : g[n] = IF n = 0 THEN base ELSE step[g[n - 1]]

\* Sweeps follow each other: there is the sequence of what they leave.
LEMMA IterationExists ==
    ASSUME NEW V, NEW base \in V, NEW step \in [V -> V], NEW N \in Nat
    PROVE  \E g \in [0..N -> V] : Iterates(N, base, step, g)
<1> DEFINE T == {m \in Nat : \E g \in [0..m -> V] : Iterates(m, base, step, g)}
<1>1. 0 \in T
  <2>1. PICK g : g = [n \in 0..0 |-> base]
    OBVIOUS
  <2>2. g \in [0..0 -> V] /\ Iterates(0, base, step, g)
    BY <2>1 DEF Iterates
  <2> QED
    BY <2>2
<1>2. ASSUME NEW m \in Nat, m \in T PROVE m + 1 \in T
  <2>1. PICK g \in [0..m -> V] : Iterates(m, base, step, g)
    BY <1>2
  <2>2. PICK h : h = [n \in 0..(m + 1) |-> IF n = m + 1 THEN step[g[m]] ELSE g[n]]
    OBVIOUS
  <2>3. h \in [0..(m + 1) -> V]
    BY <2>2
  <2>4. Iterates(m + 1, base, step, h)
    BY <2>1, <2>2 DEF Iterates
  <2> QED
    BY <2>3, <2>4
<1>3. Nat \subseteq T
  <2> HIDE DEF T
  <2> QED
    BY <1>1, <1>2, Counting
<1> QED
  BY <1>3

\* Pruning only takes from the pools, and never a part that is supported.
LEMMA PruneWithin ==
    ASSUME NEW cat, NEW pools \in Families, NEW X \in Families, Supported(cat, X),
           \A c \in Categories : X[c] \subseteq pools[c]
    PROVE  Prune(cat, pools) \in Between(X, pools)
<1> DEFINE body(g) == [n \in 0..Cardinality(Products) |->
                          IF n = 0 THEN pools ELSE Sweep(cat, g[n - 1])]
<1>1. PICK N \in Nat : N = Cardinality(Products)
  BY GatesAssumption, FS_CardinalityType DEF GatesAssumption
<1>2. PICK V : V = Between(X, pools)
  OBVIOUS
<1>3. pools \in V
  BY <1>2 DEF Between
<1>4. PICK step : step = [v \in V |-> Sweep(cat, v)]
  OBVIOUS
<1>5. step \in [V -> V]
  BY <1>2, <1>4, SweepWithin
<1>6. PICK g \in [0..N -> V] : Iterates(N, pools, step, g)
  BY <1>3, <1>5, IterationExists
<1>7. g = body(g)
  <2> SUFFICES ASSUME NEW n \in 0..N, n # 0 PROVE g[n] = Sweep(cat, g[n - 1])
    BY <1>1, <1>6 DEF Iterates
  <2>1. n - 1 \in 0..N
    OBVIOUS
  <2> QED
    BY <1>4, <1>6, <2>1 DEF Iterates
<1>8. PICK h : h = CHOOSE k : k = body(k)
  OBVIOUS
<1>9. h = body(h)
  <2> HIDE DEF body
  <2> QED
    BY <1>7, <1>8
<1>10. Prune(cat, pools) = h[N]
  BY <1>1, <1>8 DEF Prune
<1>11. PICK T : T = {n \in Nat : n <= N => h[n] \in V}
  OBVIOUS
<1>12. 0 \in T
  BY <1>1, <1>3, <1>9, <1>11
<1>13. ASSUME NEW n \in Nat, n \in T PROVE n + 1 \in T
  <2> SUFFICES ASSUME n + 1 <= N PROVE h[n + 1] \in V
    BY <1>11
  <2>1. h[n + 1] = Sweep(cat, h[n])
    BY <1>1, <1>9
  <2>2. h[n] \in V
    BY <1>11, <1>13
  <2> QED
    BY <1>2, <2>1, <2>2, SweepWithin
<1>14. Nat \subseteq T
  BY <1>12, <1>13, Counting
<1> QED
  BY <1>2, <1>10, <1>11, <1>14

-----------------------------------------------------------------------------
(* The invariant *)

\* What a call was asked: the parts that cost nothing are parts to keep, and all of
\* them where the kept parts are left out of the budget.
Asked(g) ==
    /\ g.shop \in 1..Len(Catalogues)
    /\ g.request \in RequestShape
    /\ Len(g.request.profiles) # 0
    /\ g.noCost \subseteq g.request.existing
    /\ g.owned \subseteq Products
    /\ g.excludeLocked \in BOOLEAN
    /\ g.excludeLocked => g.noCost = g.request.existing

\* A replacement keeps the parts it should of a generation that was saved before it.
Derived(g, st) ==
    g.origin # None =>
        /\ g.origin.generation \in 1..Len(st)
        /\ g.origin.build \in 1..Len(st[g.origin.generation].builds)
        /\ g.origin.category \in Categories
        /\ g.origin.product \in InCategory(g.origin.category)
        /\ LET from == st[g.origin.generation]
               parts == from.builds[g.origin.build].parts
               new == [parts EXCEPT ![g.origin.category] = g.origin.product]
           IN /\ g.noCost \subseteq from.noCost \cap Parts(parts)
              /\ g.request.existing = Locked(from, new, g.origin.product, g.origin.mode)

\* The pools hold what may be retrieved, or is kept.
Retrieved(g, pools) ==
    \A c \in Categories :
        pools[c] \subseteq IF c \in Retained(g.request) THEN g.request.existing \cap InCategory(c)
                           ELSE Retrievable(Catalogues[g.shop], g.request, c)

Holds(pools, s) == \A c \in Categories : s[c] \in pools[c]

\* What the loop has found so far can be shown, in the order of the profiles.
SolutionsFine(j) ==
    /\ Len(j.sols) <= Requested(j) /\ Len(j.sols) <= Len(j.records)
    /\ \A i \in 1..Len(j.sols) :
         /\ j.sols[i].profile = j.request.profiles[i]
         /\ Acceptable(Task(j, j.pools), j.sols[i].parts)
         /\ Compatible(Catalogues[j.shop], j.sols[i].parts, j.request.existing)
         /\ \A k \in 1..i-1 : Apart(j, j.sols[i].parts, j.sols[k].parts)

\* A record for each profile tried; what is forbidden was rightly rejected.
ProgressFine(j) ==
    /\ Len(j.records) <= Requested(j)
    /\ j.rejections <= MaxRejections
    /\ \A s \in j.forbidden : ~Sound(j, s)
    /\ ~j.done => /\ Len(j.records) = Len(j.sols)
                  /\ Len(j.sols) < Requested(j)
                  /\ j.rejections < MaxRejections

\* Where the pools are whole, "OPTIMAL" is true of each solution, and there is none
\* where the loop ended with none, short of running out of time or of patience.
RecordsTrue(j) ==
    /\ \A s \in Selections : Sound(j, s) => Holds(j.pools, s)
    /\ \A i \in 1..Len(j.sols) : j.records[i] = "OPTIMAL" =>
         \A s \in Selections :
            Sound(j, s) /\ (\A k \in 1..i-1 : Apart(j, s, j.sols[k].parts))
                => Objective(j.sols[i].profile, s) <= Objective(j.sols[i].profile, j.sols[i].parts)
    /\ j.done /\ j.sols = <<>> /\ j.rejections < MaxRejections
         => j.records = <<"UNKNOWN">> \/ \A s \in Selections : ~Sound(j, s)

JobShape ==
    [request : RequestShape, noCost : SUBSET Products, owned : SUBSET Products,
     shop : 1..Len(Catalogues), excludeLocked : BOOLEAN,
     origin : [generation : Nat, build : Nat, category : Categories, product : Products,
               mode : Modes] \cup {None},
     cut : BOOLEAN, rejections : Nat, pools : Families,
     sols : Seq([profile : Profiles, parts : Selections]), records : Seq(Statuses),
     forbidden : SUBSET Selections, done : BOOLEAN]

JobFine(j) ==
    /\ j \in JobShape
    /\ Asked(j)
    /\ LocksAccepted(Catalogues[j.shop], j.request)
    /\ Retrieved(j, j.pools)
    /\ SolutionsFine(j)
    /\ ProgressFine(j)
    /\ ~j.cut => RecordsTrue(j)

\* The parts of the properties that say something of one generation.
ShapeKept(g) ==
    /\ g.status \in Statuses
    /\ g.builds \in Seq(BuildShape)
    /\ g.rejections <= MaxRejections

SoundBuilds(g) ==
    /\ \A b \in 1..Len(g.builds) : /\ Sound(g, g.builds[b].parts)
                                   /\ g.builds[b].total = Bill(g, g.builds[b].parts)
    /\ \A b, d \in 1..Len(g.builds) : b < d => Apart(g, g.builds[b].parts, g.builds[d].parts)

TrueStatus(g) ==
    /\ g.status = "INFEASIBLE" /\ ~g.cut /\ g.rejections < MaxRejections
         => \A s \in Selections : ~Sound(g, s)
    /\ g.status = "OPTIMAL" /\ ~g.cut =>
         /\ Len(g.builds) = Requested(g)
         /\ \A b \in 1..Len(g.builds) : \A s \in Selections :
              Sound(g, s) /\ (\A d \in 1..b-1 : Apart(g, s, g.builds[d].parts))
                 => Objective(g.builds[b].profile, s)
                      <= Objective(g.builds[b].profile, g.builds[b].parts)
    /\ g.builds # <<>> => g.status \in {"OPTIMAL", "FEASIBLE"}
    /\ ~g.ran => g.status = "INFEASIBLE"

\* Every gate lets parts through, on g's catalogue with c's part paid for.
Passes(g, parts, old) ==
    LET cat == Catalogues[g.shop]
        request == [g.request EXCEPT !.existing = Parts(parts)]
        task == [cat |-> cat, request |-> request, excludeLocked |-> FALSE,
                 noCost |-> g.noCost \ {old}, pools |-> [c \in Categories |-> {parts[c]}]]
    IN /\ LocksAccepted(cat, request)
       /\ ~Hopeless(task)
       /\ Model(task, <<>>, {}) = {parts}
       /\ Compatible(cat, parts, request.existing)

OffersTaken(g) ==
    \A b \in 1..Len(g.builds) : \A offer \in g.builds[b].offers :
        LET s == g.builds[b].parts
            parts == [s EXCEPT ![offer.category] = offer.product]
        IN parts \notin Catalogues[g.shop].weak => Passes(g, parts, s[offer.category])

GenerationFine(g) ==
    /\ Asked(g)
    /\ ShapeKept(g)
    /\ SoundBuilds(g)
    /\ TrueStatus(g)
    /\ OffersTaken(g)

-----------------------------------------------------------------------------
(* Selections, and what they cost *)

\* The parts of a selection tell their categories.
LEMMA PartsAre ==
    ASSUME NEW s \in Selections
    PROVE  /\ \A c \in Categories : s[c] \in Products /\ CategoryOf[s[c]] = c /\ s[c] \in Parts(s)
           /\ \A p \in Parts(s) : p \in Products /\ CategoryOf[p] \in Categories /\ p = s[CategoryOf[p]]
           /\ \A c, d \in Categories : s[c] = s[d] => c = d
           /\ Parts(s) = {s[c] : c \in Categories}
           /\ s = [c \in Categories |-> s[c]]
BY DEF Selections, Parts

\* The least of a set of numbers.
LEMMA MinIs ==
    ASSUME NEW A \in SUBSET Nat, A # {}
    PROVE  Min(A) \in A /\ \A x \in A : Min(A) <= x
<1>1. \E n \in A : \A m \in A : n <= m
  BY LeastNatural
<1> QED
  BY <1>1 DEF Min

\* What a part costs in a call, whichever way the kept parts are left out.
Cost(g, p) ==
    IF p \in g.noCost \/ p \notin Catalogues[g.shop].listed THEN 0 ELSE Catalogues[g.shop].price[p]

LEMMA SnapshotIs ==
    ASSUME NEW g, Asked(g)
    PROVE  /\ Catalogues[g.shop] \in CatalogueShape
           /\ Catalogues[g.shop].active \subseteq Catalogues[g.shop].known
           /\ g.request.existing \subseteq Products /\ g.request.budget \in Nat
           /\ g.request.profiles \in Seq(Profiles) /\ Requested(g) \in Nat \ {0}
           /\ Len(g.request.profiles) \in Nat \ {0}
<1>1. PICK i \in 1..Len(Catalogues) : i = g.shop
  BY DEF Asked
<1>2. Catalogues[i] \in CatalogueShape /\ Catalogues[i].active \subseteq Catalogues[i].known
  BY GenerationAssumption DEF GenerationAssumption
<1>3. PICK r \in RequestShape : r = g.request
  BY DEF Asked
<1>4. r.existing \subseteq Products /\ r.budget \in Nat /\ r.profiles \in Seq(Profiles)
  BY DEF RequestShape
<1>5. Len(r.profiles) \in Nat \ {0}
  BY <1>3, <1>4 DEF Asked
<1> QED
  BY <1>1, <1>2, <1>3, <1>4, <1>5 DEF Requested

LEMMA CostIs ==
    ASSUME NEW g, Asked(g), NEW p \in Products
    PROVE  /\ Cost(g, p) \in Nat
           /\ \A pools : AcquisitionPrice(Task(g, pools), p) = Cost(g, p)
<1>1. Catalogues[g.shop].price[p] \in Nat
  BY SnapshotIs DEF CatalogueShape
<1>2. Cost(g, p) \in Nat
  BY <1>1 DEF Cost
<1>3. ASSUME NEW pools PROVE AcquisitionPrice(Task(g, pools), p) = Cost(g, p)
  <2>1. PICK t : t = Task(g, pools)
    OBVIOUS
  <2>2. /\ t.cat = Catalogues[g.shop] /\ t.request = g.request
        /\ t.noCost = g.noCost /\ t.excludeLocked = g.excludeLocked
    BY <2>1 DEF Task
  <2>3. CASE g.excludeLocked
    BY <2>1, <2>2, <2>3 DEF AcquisitionPrice, CandidatePrice, Cost, Asked
  <2>4. CASE ~g.excludeLocked
    BY <2>1, <2>2, <2>4 DEF AcquisitionPrice, CandidatePrice, Cost
  <2> QED
    BY <2>3, <2>4
<1> QED
  BY <1>2, <1>3

\* The sum over the categories is the bill of the parts.
LEMMA TotalIs ==
    ASSUME NEW g, Asked(g), NEW s \in Selections
    PROVE  /\ Bill(g, s) \in Nat
           /\ Bill(g, s) = SumFunction([c \in Categories |-> Cost(g, s[c])])
           /\ \A pools : Total(Task(g, pools), s) = Bill(g, s)
<1>1. IsFiniteSet(Categories)
  BY GatesAssumption DEF GatesAssumption
<1>2. PICK v : v = [c \in Categories |-> Cost(g, s[c])]
  OBVIOUS
<1>3. PICK w : w = [p \in Parts(s) |-> Cost(g, p)]
  OBVIOUS
<1>4. IsFiniteSet(Parts(s))
  <2>1. Parts(s) \subseteq Products
    BY PartsAre
  <2> QED
    BY <2>1, FS_Subset, GatesAssumption DEF GatesAssumption
<1>5. v \in [Categories -> Nat] /\ w \in [Parts(s) -> Nat]
  BY <1>2, <1>3, CostIs, PartsAre
<1>6. SumFunction(v) \in Nat
  BY <1>1, <1>5, SumNat
<1>7. SumFunction(v) = SumFunction(w)
  <2>1. PICK R : R = Parts(s)
    OBVIOUS
  <2>2. v \in [Categories -> Int] /\ w \in [R -> Int]
    BY <1>5, <2>1
  <2>3. R = {s[c] : c \in Categories} /\ \A c, d \in Categories : s[c] = s[d] => c = d
    BY <2>1, PartsAre
  <2>4. \A c \in Categories : v[c] = w[s[c]]
    BY <1>2, <1>3, PartsAre
  <2>5. IsFiniteSet(R)
    BY <1>4, <2>1
  <2> QED
    BY <1>1, <2>2, <2>3, <2>4, <2>5, SumRenamed
<1>8. Bill(g, s) = SumFunction(w)
  BY <1>3 DEF Bill, Cost
<1>9. ASSUME NEW pools PROVE Total(Task(g, pools), s) = SumFunction(v)
  <2>1. [c \in Categories |-> AcquisitionPrice(Task(g, pools), s[c])] = v
    BY <1>2, CostIs, PartsAre
  <2> QED
    BY <2>1 DEF Total
<1> QED
  BY <1>2, <1>6, <1>7, <1>8, <1>9

-----------------------------------------------------------------------------
(* The gates: what gets through them is sound, and what is sound gets through *)

\* What is kept is in every selection that keeps it.
LEMMA KeptIs ==
    ASSUME NEW g, Asked(g), NEW s \in Selections, g.request.existing \subseteq Parts(s),
           NEW c \in Retained(g.request)
    PROVE  c \in Categories /\ s[c] \in g.request.existing
<1>1. PICK p \in g.request.existing : c = CategoryOf[p]
  BY DEF Retained
<1> QED
  BY <1>1, PartsAre

LEMMA GatesAreSound ==
    ASSUME NEW g, Asked(g), LocksAccepted(Catalogues[g.shop], g.request),
           NEW pools, Retrieved(g, pools), NEW s \in Selections,
           Acceptable(Task(g, pools), s), Compatible(Catalogues[g.shop], s, g.request.existing)
    PROVE  Sound(g, s)
<1>1. PICK t : t = Task(g, pools)
  OBVIOUS
<1>2. /\ t.cat = Catalogues[g.shop] /\ t.request = g.request /\ t.pools = pools
  BY <1>1 DEF Task
<1>3. ASSUME NEW c \in Categories \ Retained(g.request)
      PROVE  s[c] \in Retrievable(Catalogues[g.shop], g.request, c)
  <2>1. Eligible(t, s[c]) /\ CategoryOf[s[c]] = c
    BY <1>1, PartsAre DEF Acceptable
  <2>2. s[c] \in pools[c]
    BY <1>2, <2>1 DEF Eligible
  <2> QED
    BY <2>2 DEF Retrieved
<1>4. Bill(g, s) <= g.request.budget
  <2>1. Total(t, s) <= g.request.budget
    BY <1>1, <1>2 DEF Acceptable
  <2> QED
    BY <1>1, <2>1, TotalIs
<1>5. s \notin Catalogues[g.shop].weak
  BY <1>1, <1>2 DEF Acceptable
<1> QED
  BY <1>3, <1>4, <1>5 DEF Sound, LocksAccepted

\* Every part of a sound build is a candidate where the pools hold it.
LEMMA SoundEligible ==
    ASSUME NEW g, Asked(g), NEW pools, NEW s \in Selections, Sound(g, s), Holds(pools, s),
           NEW c \in Categories
    PROVE  Eligible(Task(g, pools), s[c])
<1>1. PICK t : t = Task(g, pools)
  OBVIOUS
<1>2. /\ t.cat = Catalogues[g.shop] /\ t.request = g.request /\ t.pools = pools
  BY <1>1 DEF Task
<1>3. s[c] \in pools[c] /\ CategoryOf[s[c]] = c
  BY PartsAre DEF Holds
<1>4. CASE c \in Retained(g.request)
  <2>1. g.request.existing \subseteq Parts(s)
    BY DEF Sound, Compatible
  <2>2. s[c] \in g.request.existing
    BY <1>4, <2>1, KeptIs
  <2>3. s[c] \notin g.request.barred
    BY <2>2 DEF Sound
  <2> QED
    BY <1>1, <1>2, <1>3, <2>2, <2>3 DEF Eligible
<1>5. CASE c \notin Retained(g.request)
  <2>1. s[c] \in Retrievable(Catalogues[g.shop], g.request, c)
    BY <1>5 DEF Sound
  <2> QED
    BY <1>1, <1>2, <1>3, <2>1 DEF Eligible, Retrievable
<1> QED
  BY <1>4, <1>5

LEMMA SoundPasses ==
    ASSUME NEW g, Asked(g), NEW pools, NEW s \in Selections, Sound(g, s), Holds(pools, s)
    PROVE  Acceptable(Task(g, pools), s)
<1>1. PICK t : t = Task(g, pools)
  OBVIOUS
<1>2. /\ t.cat = Catalogues[g.shop] /\ t.request = g.request /\ t.pools = pools
  BY <1>1 DEF Task
<1>3. \A p \in Parts(s) : Eligible(t, p)
  <2> SUFFICES ASSUME NEW p \in Parts(s) PROVE Eligible(t, p)
    OBVIOUS
  <2>1. PICK c \in Categories : p = s[c]
    BY PartsAre
  <2> QED
    BY <1>1, <2>1, SoundEligible
<1>4. Total(t, s) <= t.request.budget
  BY <1>1, <1>2, TotalIs DEF Sound
<1>5. \A i \in 1..Len(PairList) : ~Clashing(t.cat, s[PairList[i][1]], s[PairList[i][2]])
  <2> SUFFICES ASSUME NEW i \in 1..Len(PairList)
               PROVE  ~Clashing(t.cat, s[PairList[i][1]], s[PairList[i][2]])
    OBVIOUS
  <2>1. PICK a \in Categories, b \in Categories : a = PairList[i][1] /\ b = PairList[i][2]
    <3>1. PairList[i] \in Categories \X Categories
      BY GatesAssumption DEF GatesAssumption
    <3> QED
      BY <3>1
  <2>2. s[a] \in Parts(s) /\ s[b] \in Parts(s)
    BY PartsAre
  <2> QED
    BY <1>2, <2>1, <2>2 DEF Sound, Compatible
<1> QED
  BY <1>1, <1>2, <1>3, <1>4, <1>5 DEF Acceptable, Sound, Compatible

\* The cheapest candidates cost no more than a sound build.
LEMMA SoundHasHope ==
    ASSUME NEW g, Asked(g), NEW pools, NEW s \in Selections, Sound(g, s), Holds(pools, s)
    PROVE  ~Hopeless(Task(g, pools))
<1>1. PICK t : t = Task(g, pools)
  OBVIOUS
<1>2. PICK least : least = [c \in Categories |->
          Min({AcquisitionPrice(t, p) : p \in Candidates(t) \cap InCategory(c)})]
  OBVIOUS
<1>3. PICK v : v = [c \in Categories |-> Cost(g, s[c])]
  OBVIOUS
<1>4. ASSUME NEW c \in Categories
      PROVE  /\ Candidates(t) \cap InCategory(c) # {}
             /\ least[c] \in Nat /\ v[c] \in Nat /\ least[c] <= v[c]
  <2>1. s[c] \in Candidates(t) \cap InCategory(c)
    BY <1>1, SoundEligible, PartsAre DEF Candidates, InCategory
  <2>2. PICK A : A = {AcquisitionPrice(t, p) : p \in Candidates(t) \cap InCategory(c)}
    OBVIOUS
  <2>3. v[c] \in A
    BY <1>1, <1>3, <2>1, <2>2, CostIs, PartsAre
  <2>4. A \subseteq Nat
    BY <1>1, <2>2, CostIs DEF InCategory
  <2>5. Min(A) \in A /\ Min(A) <= v[c]
    BY <2>3, <2>4, MinIs
  <2>6. least[c] = Min(A)
    BY <1>2, <2>2
  <2> QED
    BY <2>1, <2>3, <2>4, <2>5, <2>6
<1>5. SumFunction(least) <= SumFunction(v)
  <2>1. \A c \in Categories : least[c] \in Int /\ v[c] \in Int
    BY <1>4
  <2>2. least = [c \in Categories |-> least[c]] /\ v = [c \in Categories |-> v[c]]
    BY <1>2, <1>3
  <2>3. least \in [Categories -> Int] /\ v \in [Categories -> Int]
    BY <2>1, <2>2
  <2> QED
    BY <1>4, <2>3, SumMonotone, GatesAssumption DEF GatesAssumption
<1>6. SumFunction(v) = Bill(g, s) /\ Bill(g, s) \in Nat
  BY <1>3, TotalIs
<1>7. Bill(g, s) <= g.request.budget /\ g.request.budget \in Nat
  BY SnapshotIs DEF Sound
<1>8. SumFunction(least) \in Nat
  BY <1>2, <1>4, SumNat, GatesAssumption DEF GatesAssumption
<1>9. t.request = g.request
  BY <1>1 DEF Task
<1>10. ~ (SumFunction(least) > t.request.budget)
  BY <1>5, <1>6, <1>7, <1>8, <1>9
<1>11. \A c \in Categories : Candidates(t) \cap InCategory(c) # {}
  BY <1>4
<1> QED
  BY <1>1, <1>2, <1>10, <1>11, Zenon DEF Hopeless

-----------------------------------------------------------------------------
(* The pools *)

LEMMA PoolsFromWithin ==
    ASSUME NEW P, \A c \in Categories : P[c] \subseteq SUBSET Products,
           NEW choice \in PoolsFrom(P)
    PROVE  choice \in Families /\ \A c \in Categories : choice[c] \in P[c]
<1>1. choice = [c \in Categories |-> choice[c]] /\ \A c \in Categories : choice[c] \in P[c]
  BY DEF PoolsFrom
<1>2. \A c \in Categories : choice[c] \in SUBSET Products
  BY <1>1
<1> QED
  BY <1>1, <1>2 DEF Families

LEMMA CutsWithin ==
    ASSUME NEW S, NEW n, NEW C \in Cuts(S, n)
    PROVE  C \subseteq S
BY DEF Cuts, kSubset

LEMMA RetrievalsWithin ==
    ASSUME NEW g, Asked(g), NEW pools \in Retrievals(Catalogues[g.shop], g.request)
    PROVE  /\ pools \in Families
           /\ Retrieved(g, pools)
           /\ \A c \in Retained(g.request) \cap Categories :
                pools[c] = g.request.existing \cap InCategory(c)
<1>1. PICK cat : cat = Catalogues[g.shop]
  OBVIOUS
<1>2. PICK P : P = [c \in Categories |->
          IF c \in Retained(g.request) THEN {g.request.existing \cap InCategory(c)}
          ELSE Cuts(Retrievable(cat, g.request, c), 3 * PoolLimit)]
  OBVIOUS
<1>3. pools \in PoolsFrom(P)
  BY <1>1, <1>2 DEF Retrievals
<1>4. ASSUME NEW c \in Categories, NEW C \in P[c]
      PROVE  C \subseteq IF c \in Retained(g.request) THEN g.request.existing \cap InCategory(c)
                         ELSE Retrievable(cat, g.request, c)
  BY <1>2, <1>4, CutsWithin
<1>5. \A c \in Categories : P[c] \subseteq SUBSET Products
  <2> SUFFICES ASSUME NEW c \in Categories, NEW C \in P[c] PROVE C \subseteq Products
    OBVIOUS
  <2> QED
    BY <1>4 DEF InCategory, Retrievable
<1>6. pools \in Families /\ \A c \in Categories : pools[c] \in P[c]
  BY <1>3, <1>5, PoolsFromWithin
<1>7. Retrieved(g, pools)
  BY <1>1, <1>4, <1>6 DEF Retrieved
<1>8. \A c \in Retained(g.request) \cap Categories :
        pools[c] = g.request.existing \cap InCategory(c)
  BY <1>2, <1>6
<1> QED
  BY <1>6, <1>7, <1>8

LEMMA ShortlistsWithin ==
    ASSUME NEW pools \in Families, NEW pool \in Shortlists(pools)
    PROVE  pool \in Families /\ \A c \in Categories : pool[c] \subseteq pools[c]
<1>1. PICK P : P = [c \in Categories |-> Cuts(pools[c], PoolLimit)]
  OBVIOUS
<1>2. pool \in PoolsFrom(P)
  BY <1>1 DEF Shortlists
<1>3. ASSUME NEW c \in Categories, NEW C \in P[c] PROVE C \subseteq pools[c]
  BY <1>1, <1>3, CutsWithin
<1>4. \A c \in Categories : P[c] \subseteq SUBSET Products
  BY <1>3 DEF Families
<1> QED
  BY <1>2, <1>3, <1>4, PoolsFromWithin

\* Pruning takes from the pools, and never a part of a sound build they hold.
LEMMA PruneTakes ==
    ASSUME NEW cat, NEW pools \in Families
    PROVE  /\ Prune(cat, pools) \in Families
           /\ \A c \in Categories : Prune(cat, pools)[c] \subseteq pools[c]
<1>1. PICK X \in Families : \A c \in Categories : X[c] = {}
  <2>1. PICK X : X = [c \in Categories |-> {}]
    OBVIOUS
  <2> QED
    BY <2>1 DEF Families
<1>2. Supported(cat, X)
  BY <1>1 DEF Supported
<1>3. Prune(cat, pools) \in Between(X, pools)
  BY <1>1, <1>2, PruneWithin
<1> QED
  BY <1>3 DEF Between

LEMMA PruneSpares ==
    ASSUME NEW g, NEW s \in Selections, Sound(g, s), NEW pools \in Families, Holds(pools, s)
    PROVE  Holds(Prune(Catalogues[g.shop], pools), s)
<1>1. PICK cat : cat = Catalogues[g.shop]
  OBVIOUS
<1>2. PICK X : X = [c \in Categories |-> {s[c]}]
  OBVIOUS
<1>3. X \in Families
  <2>1. \A c \in Categories : s[c] \in Products
    BY PartsAre
  <2> QED
    BY <1>2, <2>1 DEF Families
<1>4. Supported(cat, X)
  <2>1. \A a, b \in Categories : ~Clashing(cat, s[a], s[b])
    BY <1>1, PartsAre DEF Sound, Compatible
  <2> QED
    BY <1>2, <2>1 DEF Supported
<1>5. \A c \in Categories : X[c] \subseteq pools[c]
  BY <1>2 DEF Holds
<1>6. Prune(cat, pools) \in Between(X, pools)
  BY <1>3, <1>4, <1>5, PruneWithin
<1> QED
  BY <1>1, <1>2, <1>6 DEF Between, Holds

LEMMA RetrievalHolds ==
    ASSUME NEW g, Asked(g), NEW s \in Selections, Sound(g, s),
           NEW pools \in Retrievals(Catalogues[g.shop], g.request),
           \A c \in Categories \ Retained(g.request) :
                pools[c] = Retrievable(Catalogues[g.shop], g.request, c)
    PROVE  Holds(pools, s)
<1> SUFFICES ASSUME NEW c \in Categories PROVE s[c] \in pools[c]
  BY DEF Holds
<1>1. CASE c \in Retained(g.request)
  <2>1. g.request.existing \subseteq Parts(s)
    BY DEF Sound, Compatible
  <2>2. s[c] \in g.request.existing \cap InCategory(c)
    BY <1>1, <2>1, KeptIs, PartsAre DEF InCategory
  <2> QED
    BY <1>1, <2>2, RetrievalsWithin
<1>2. CASE c \notin Retained(g.request)
  BY <1>2 DEF Sound
<1> QED
  BY <1>1, <1>2

-----------------------------------------------------------------------------
(* An offer *)

LEMMA OfferPasses ==
    ASSUME NEW g, Asked(g), LocksAccepted(Catalogues[g.shop], g.request),
           NEW pools \in Families, Retrieved(g, pools),
           NEW build, build.parts \in Selections, Sound(g, build.parts),
           build.total = Bill(g, build.parts),
           NEW offer \in Offers(Task(g, pools), build),
           [build.parts EXCEPT ![offer.category] = offer.product] \notin Catalogues[g.shop].weak
    PROVE  Passes(g, [build.parts EXCEPT ![offer.category] = offer.product],
                  build.parts[offer.category])
<1>1. PICK s \in Selections : s = build.parts
  OBVIOUS
<1>2. PICK c \in Categories, p \in Products : c = offer.category /\ p = offer.product
  BY DEF Offers
<1>3. PICK new : new = [s EXCEPT ![c] = p]
  OBVIOUS
<1>4. PICK cat : cat = Catalogues[g.shop]
  OBVIOUS
<1>5. /\ p \in pools[c] /\ p \notin Parts(s)
      /\ s[c] \notin g.noCost
      /\ TotalAfter(Task(g, pools), build, c, p) <= g.request.budget
      /\ Compatible(cat, new, {})
  BY <1>1, <1>2, <1>3, <1>4 DEF Offers, Task
<1>6. c \notin Retained(g.request) /\ p \in Retrievable(cat, g.request, c)
  <2>1. g.request.existing \subseteq Parts(s)
    BY <1>1 DEF Sound, Compatible
  <2> QED
    BY <1>4, <1>5, <2>1 DEF Retrieved
<1>7. new \in Selections
  <2>1. CategoryOf[p] = c
    BY <1>6 DEF Retrievable, InCategory
  <2> QED
    BY <1>3, <2>1 DEF Selections
<1>8. /\ new[c] = p
      /\ \A d \in Categories \ {c} : new[d] = s[d]
  BY <1>3, PartsAre
<1>9. PICK request : request = [g.request EXCEPT !.existing = Parts(new)]
  OBVIOUS
<1>10. /\ request \in RequestShape /\ request.existing = Parts(new)
       /\ request.barred = g.request.barred /\ request.budget = g.request.budget
  <2>1. Parts(new) \subseteq Products
    BY <1>7, PartsAre
  <2>2. g.request \in RequestShape
    BY DEF Asked
  <2> QED
    BY <1>9, <2>1, <2>2 DEF RequestShape
<1>11. PICK all : all = [d \in Categories |-> {new[d]}]
  OBVIOUS
<1>12. PICK task : task = [cat |-> cat, request |-> request, excludeLocked |-> FALSE,
                           noCost |-> g.noCost \ {s[c]}, pools |-> all]
  OBVIOUS
<1>13. /\ task.cat = cat /\ task.request = request /\ task.excludeLocked = FALSE
       /\ task.noCost = g.noCost /\ task.pools = all
  BY <1>5, <1>12
<1>14. LocksAccepted(cat, request)
  <2>1. Parts(new) \subseteq cat.known
    <3>1. Parts(new) \subseteq cat.active
      BY <1>5 DEF Compatible
    <3> QED
      BY <1>4, <3>1, SnapshotIs
  <2>2. ASSUME NEW d \in Categories PROVE new[d] \notin g.request.barred
    <3>1. CASE d = c
      BY <1>6, <1>8, <3>1 DEF Retrievable
    <3>2. CASE d # c /\ d \in Retained(g.request)
      <4>1. g.request.existing \subseteq Parts(s)
        BY <1>1 DEF Sound, Compatible
      <4>2. s[d] \in g.request.existing
        BY <3>2, <4>1, KeptIs
      <4> QED
        BY <1>1, <1>8, <3>2, <4>2 DEF Sound
    <3>3. CASE d # c /\ d \notin Retained(g.request)
      <4>1. s[d] \in Retrievable(cat, g.request, d)
        BY <1>1, <1>4, <3>3 DEF Sound
      <4> QED
        BY <1>8, <3>3, <4>1 DEF Retrievable
    <3> QED
      BY <3>1, <3>2, <3>3
  <2>3. Parts(new) \cap g.request.barred = {}
    BY <1>7, <2>2, PartsAre
  <2> QED
    BY <1>10, <2>1, <2>3 DEF LocksAccepted
<1>15. ASSUME NEW d \in Categories
       PROVE  /\ AcquisitionPrice(task, new[d]) = Cost(g, new[d])
              /\ Eligible(task, new[d])
              /\ Candidates(task) \cap InCategory(d) = {new[d]}
  <2>1. new[d] \in Products /\ CategoryOf[new[d]] = d /\ new[d] \in Parts(new)
    BY <1>7, PartsAre
  <2>2. AcquisitionPrice(task, new[d]) = Cost(g, new[d])
    BY <1>4, <1>13 DEF AcquisitionPrice, CandidatePrice, Cost
  <2>3. Eligible(task, new[d])
    BY <1>10, <1>11, <1>13, <1>14, <2>1 DEF Eligible, LocksAccepted
  <2>4. \A q \in Products : CategoryOf[q] = d /\ Eligible(task, q) => q = new[d]
    BY <1>11, <1>13 DEF Eligible
  <2> QED
    BY <2>1, <2>2, <2>3, <2>4 DEF Candidates, InCategory
<1>16. PICK v : v = [d \in Categories |-> Cost(g, s[d])]
  OBVIOUS
<1>17. PICK w : w = [d \in Categories |-> Cost(g, new[d])]
  OBVIOUS
<1>18. Total(task, new) = SumFunction(w) /\ SumFunction(w) <= g.request.budget
       /\ SumFunction(w) \in Nat
  <2>1. Total(task, new) = SumFunction(w)
    <3>1. [d \in Categories |-> AcquisitionPrice(task, new[d])] = w
      BY <1>15, <1>17
    <3> QED
      BY <3>1 DEF Total
  <2>2. v \in [Categories -> Int] /\ w \in [Categories -> Int]
    <3>1. \A d \in Categories : Cost(g, s[d]) \in Nat /\ Cost(g, new[d]) \in Nat
      BY <1>7, CostIs, PartsAre
    <3> QED
      BY <1>16, <1>17, <3>1
  <2>3. SumFunction(w) = SumFunction(v) + w[c] - v[c]
    <3>1. \A d \in Categories \ {c} : v[d] = w[d]
      BY <1>8, <1>16, <1>17
    <3>2. IsFiniteSet(Categories)
      BY GatesAssumption DEF GatesAssumption
    <3>3. PICK S : S = Categories
      OBVIOUS
    <3>4. /\ IsFiniteSet(S) /\ v \in [S -> Int] /\ w \in [S -> Int] /\ c \in S
          /\ \A d \in S \ {c} : v[d] = w[d]
      BY <2>2, <3>1, <3>2, <3>3
    <3> QED
      BY <3>4, SumChanged
  <2>4. SumFunction(v) = build.total
    BY <1>1, <1>16, TotalIs
  <2>5. w[c] = IF p \in cat.listed THEN cat.price[p] ELSE 0
    <3>1. p \notin g.noCost
      BY <1>1, <1>5 DEF Asked, Sound, Compatible
    <3> QED
      BY <1>4, <1>8, <1>17, <3>1 DEF Cost
  <2>6. v[c] = CandidatePrice(Task(g, pools), s[c])
    BY <1>4, <1>5, <1>16 DEF Cost, CandidatePrice, Task
  <2>7. TotalAfter(Task(g, pools), build, c, p) = build.total + w[c] - v[c]
    BY <1>1, <1>4, <2>5, <2>6 DEF TotalAfter, Task
  <2>8. SumFunction(w) <= g.request.budget
    BY <1>5, <2>3, <2>4, <2>7
  <2>9. SumFunction(w) \in Nat
    BY <1>7, <1>17, TotalIs
  <2> QED
    BY <2>1, <2>8, <2>9
<1>19. Acceptable(task, new)
  <2>1. \A q \in Parts(new) : Eligible(task, q)
    <3> SUFFICES ASSUME NEW q \in Parts(new) PROVE Eligible(task, q)
      OBVIOUS
    <3>1. PICK d \in Categories : q = new[d]
      BY <1>7, PartsAre
    <3> QED
      BY <1>15, <3>1
  <2>2. ASSUME NEW i \in 1..Len(PairList)
        PROVE  ~Clashing(task.cat, new[PairList[i][1]], new[PairList[i][2]])
    <3>1. PairList[i] \in Categories \X Categories
      BY GatesAssumption DEF GatesAssumption
    <3>2. PICK a \in Categories, b \in Categories : a = PairList[i][1] /\ b = PairList[i][2]
      BY <3>1
    <3>3. new[a] \in Parts(new) /\ new[b] \in Parts(new)
      BY <1>7, PartsAre
    <3> QED
      BY <1>5, <1>13, <3>2, <3>3 DEF Compatible
  <2>3. task.request.existing \subseteq Parts(new) /\ Total(task, new) <= task.request.budget
    BY <1>10, <1>13, <1>18
  <2>4. new \notin task.cat.weak
    BY <1>1, <1>2, <1>3, <1>4, <1>13
  <2> QED
    BY <2>1, <2>2, <2>3, <2>4 DEF Acceptable
<1>20. ~Hopeless(task)
  <2>1. PICK least : least = [d \in Categories |->
            Min({AcquisitionPrice(task, q) : q \in Candidates(task) \cap InCategory(d)})]
    OBVIOUS
  <2>2. least = w
    <3> SUFFICES ASSUME NEW d \in Categories
                 PROVE  Min({AcquisitionPrice(task, q) : q \in Candidates(task) \cap InCategory(d)})
                          = Cost(g, new[d])
      BY <1>17, <2>1
    <3>1. PICK A : A = {AcquisitionPrice(task, q) : q \in Candidates(task) \cap InCategory(d)}
      OBVIOUS
    <3>2. A = {Cost(g, new[d])}
      BY <1>15, <3>1
    <3>3. Cost(g, new[d]) \in Nat
      BY <1>7, CostIs, PartsAre
    <3>4. Min(A) \in A
      BY <3>2, <3>3, MinIs
    <3> QED
      BY <3>1, <3>2, <3>4
  <2>3. ~ (SumFunction(least) > task.request.budget)
    <3>1. g.request.budget \in Nat
      BY SnapshotIs
    <3> QED
      BY <1>10, <1>13, <1>18, <2>2, <3>1
  <2>4. \A d \in Categories : Candidates(task) \cap InCategory(d) # {}
    BY <1>15
  <2> QED
    BY <2>1, <2>3, <2>4, Zenon DEF Hopeless
<1>21. Model(task, <<>>, {}) = {new}
  <2>1. new \in Model(task, <<>>, {})
    BY <1>7, <1>19 DEF Model
  <2>2. ASSUME NEW z \in Model(task, <<>>, {}) PROVE z = new
    <3>1. z \in Selections /\ Parts(new) \subseteq Parts(z)
      BY <1>10, <1>13 DEF Model, Acceptable
    <3>2. \A d \in Categories : z[d] = new[d]
      BY <1>7, <3>1, PartsAre
    <3>3. z = [d \in Categories |-> z[d]] /\ new = [d \in Categories |-> new[d]]
      BY <1>7, <3>1, PartsAre
    <3> QED
      BY <3>2, <3>3
  <2> QED
    BY <2>1, <2>2
<1>22. Compatible(cat, new, request.existing)
  BY <1>5, <1>10 DEF Compatible
<1> QED
  BY <1>1, <1>2, <1>3, <1>4, <1>9, <1>11, <1>12, <1>14, <1>20, <1>21, <1>22, Zenon DEF Passes

-----------------------------------------------------------------------------
(* What is presented *)

Shown(t, sol) ==
    [profile |-> sol.profile, parts |-> sol.parts, total |-> Total(t, sol.parts),
     offers |-> Offers(t, [profile |-> sol.profile, parts |-> sol.parts,
                           total |-> Total(t, sol.parts)])]

AddTo(t, builds, sol) ==
    IF ~Presentable(t, builds, sol) THEN builds ELSE Append(builds, Shown(t, sol))

\* Solutions that are compatible and apart are all presented, in their order.
LEMMA AllPresented ==
    ASSUME NEW t, NEW sols, NEW n \in Nat, n = Len(sols), DOMAIN sols = 1..n,
           \A i \in 1..n : Compatible(t.cat, sols[i].parts, t.request.existing),
           \A i \in 1..n : \A k \in 1..i-1 :
                Differences(t, sols[i].parts, sols[k].parts) >= MinDifference
    PROVE  Presented(t, sols) = [i \in 1..n |-> Shown(t, sols[i])]
<1> DEFINE body(g) == [A \in SUBSET DOMAIN sols |-> IF A = {} THEN <<>>
                          ELSE AddTo(t, g[A \ {Max(A)}], sols[Max(A)])]
<1>1. PICK S : S = DOMAIN sols
  OBVIOUS
<1>2. IsFiniteSet(S) /\ S = 1..n /\ \A A \in SUBSET S : A # {} => Max(A) \in A
  <2>1. IsFiniteSet(S)
    BY <1>1, FS_Interval
  <2>2. \A A \in SUBSET S : A \in SUBSET Int /\ IsFiniteSet(A)
    BY <1>1, <2>1, FS_Subset
  <2> QED
    BY <1>1, <2>1, <2>2, MaxIs
<1>3. PICK W : W = {Shown(t, sols[i]) : i \in S}
  OBVIOUS
<1>4. PICK V, none : V = Seq(W) /\ none = <<>>
  OBVIOUS
<1>5. PICK step : step = [iv \in S \X V |-> AddTo(t, iv[2], sols[iv[1]])]
  OBVIOUS
<1>6. step \in [S \X V -> V] /\ none \in V
  <2> SUFFICES ASSUME NEW i \in S, NEW v \in V PROVE AddTo(t, v, sols[i]) \in V
    BY <1>4, <1>5
  <2>1. Shown(t, sols[i]) \in W
    BY <1>3
  <2> QED
    BY <1>4, <2>1 DEF AddTo
<1>7. PICK pick : pick = [A \in SUBSET S |-> Max(A)]
  OBVIOUS
<1>8. PICK g \in [SUBSET S -> V] : Folds(S, none, pick, step, g)
  <2>1. \A A \in SUBSET S : A # {} => pick[A] \in A
    BY <1>2, <1>7
  <2>2. IsFiniteSet(S)
    BY <1>2
  <2> QED
    BY <1>6, <2>1, <2>2, FoldExists
<1>9. g = body(g)
  <2> SUFFICES ASSUME NEW A \in SUBSET S, A # {}
               PROVE  g[A] = AddTo(t, g[A \ {Max(A)}], sols[Max(A)])
    BY <1>1, <1>4, <1>8 DEF Folds
  <2>1. PICK i \in A : i = Max(A)
    BY <1>2
  <2>2. g[A] = step[<<i, g[A \ {i}]>>]
    BY <1>7, <1>8, <2>1 DEF Folds
  <2>3. g[A \ {i}] \in V
    BY <1>8
  <2>4. step[<<i, g[A \ {i}]>>] = AddTo(t, g[A \ {i}], sols[i])
    BY <1>5, <2>3
  <2> QED
    BY <2>1, <2>2, <2>4
<1>10. PICK h : h = CHOOSE k : k = body(k)
  OBVIOUS
<1>11. h = body(h)
  <2> HIDE DEF body
  <2> QED
    BY <1>9, <1>10
<1>12. Presented(t, sols) = h[S]
  BY <1>1, <1>10 DEF Presented, FoldLeft, MapThenFoldSet, AddTo, Shown
<1>13. PICK T : T = {m \in Nat : m <= n => h[1..m] = [i \in 1..m |-> Shown(t, sols[i])]}
  OBVIOUS
<1>14. 0 \in T
  <2>1. h[{}] = <<>>
    BY <1>1, <1>11
  <2>2. 1..0 = {} /\ <<>> = [i \in 1..0 |-> Shown(t, sols[i])]
    OBVIOUS
  <2> QED
    BY <1>13, <2>1, <2>2
<1>15. ASSUME NEW m \in Nat, m \in T PROVE m + 1 \in T
  <2> SUFFICES ASSUME m + 1 <= n
               PROVE  h[1..(m + 1)] = [i \in 1..(m + 1) |-> Shown(t, sols[i])]
    BY <1>13
  <2>1. PICK A \in SUBSET S : A = 1..(m + 1) /\ A # {} /\ m + 1 \in A /\ A \ {m + 1} = 1..m
    BY <1>2
  <2>2. Max(A) = m + 1
    <3>1. A \in SUBSET Int /\ IsFiniteSet(A)
      BY <1>2, <2>1, FS_Subset
    <3>2. Max(A) \in A /\ \A x \in A : x <= Max(A)
      BY <2>1, <3>1, MaxIs
    <3> QED
      BY <2>1, <3>2
  <2>3. PICK builds : builds = [i \in 1..m |-> Shown(t, sols[i])]
    OBVIOUS
  <2>4. h[A] = AddTo(t, builds, sols[m + 1])
    <3>1. h[A] = AddTo(t, h[A \ {m + 1}], sols[m + 1])
      <4>1. A \in SUBSET DOMAIN sols
        BY <1>1
      <4> QED
        BY <1>11, <2>1, <2>2, <4>1
    <3>2. h[1..m] = builds
      BY <1>13, <1>15, <2>3
    <3>3. A \ {m + 1} = 1..m
      BY <2>1
    <3> QED
      BY <3>1, <3>2, <3>3
  <2>5. Len(builds) = m /\ \A i \in 1..m : builds[i].parts = sols[i].parts
    BY <2>3 DEF Shown
  <2>6. Presentable(t, builds, sols[m + 1])
    <3>1. m + 1 \in 1..n
      OBVIOUS
    <3>2. \A i \in 1..m : i \in 1..(m + 1) - 1
      OBVIOUS
    <3> QED
      BY <2>5, <3>1, <3>2 DEF Presentable
  <2>7. h[A] = Append(builds, Shown(t, sols[m + 1]))
    BY <2>4, <2>6 DEF AddTo
  <2>8. Append(builds, Shown(t, sols[m + 1])) = [i \in 1..(m + 1) |-> Shown(t, sols[i])]
    <3>1. PICK U : U = {Shown(t, sols[i]) : i \in 1..(m + 1)}
      OBVIOUS
    <3>2. builds \in Seq(U) /\ Shown(t, sols[m + 1]) \in U
      <4>1. \A i \in 1..(m + 1) : Shown(t, sols[i]) \in U
        BY <3>1
      <4>2. m + 1 \in 1..(m + 1) /\ \A i \in 1..m : i \in 1..(m + 1)
        OBVIOUS
      <4>3. builds \in [1..m -> U]
        BY <2>3, <4>1, <4>2
      <4> QED
        BY <4>1, <4>2, <4>3
    <3> QED
      BY <2>3, <2>5, <3>2
  <2> QED
    BY <2>1, <2>7, <2>8
<1>16. Nat \subseteq T
  BY <1>14, <1>15, Counting
<1> QED
  BY <1>2, <1>12, <1>13, <1>16

-----------------------------------------------------------------------------
(* The call and what is saved of it *)

\* The same call, asked of the same catalogue.
SameCall(g, j) ==
    /\ g.shop = j.shop /\ g.request = j.request
    /\ g.noCost = j.noCost /\ g.owned = j.owned /\ g.excludeLocked = j.excludeLocked

LEMMA SameCallSame ==
    ASSUME NEW g, NEW j, SameCall(g, j), Asked(j)
    PROVE  /\ Asked(g)
           /\ Requested(g) = Requested(j)
           /\ \A s \in Selections : Bill(g, s) = Bill(j, s) /\ (Sound(g, s) <=> Sound(j, s))
           /\ \A s, t : Apart(g, s, t) <=> Apart(j, s, t)
           /\ \A pools : Task(g, pools) = Task(j, pools)
           /\ \A pools : Retrieved(g, pools) <=> Retrieved(j, pools)
           /\ \A parts, old : Passes(g, parts, old) <=> Passes(j, parts, old)
<1>1. Asked(g)
  BY DEF Asked, SameCall
<1>2. \A s \in Selections : Bill(g, s) = Bill(j, s)
  <2> SUFFICES ASSUME NEW s \in Selections PROVE Bill(g, s) = Bill(j, s)
    OBVIOUS
  <2>1. [c \in Categories |-> Cost(g, s[c])] = [c \in Categories |-> Cost(j, s[c])]
    BY DEF Cost, SameCall
  <2> QED
    BY <1>1, <2>1, TotalIs
<1>3. \A s \in Selections : Sound(g, s) <=> Sound(j, s)
  BY <1>2 DEF Sound, SameCall
<1>4. \A s, t : Apart(g, s, t) <=> Apart(j, s, t)
  BY DEF Apart, SameCall
<1>5. \A pools : Task(g, pools) = Task(j, pools)
  BY DEF Task, SameCall
<1>6. \A pools : Retrieved(g, pools) <=> Retrieved(j, pools)
  BY DEF Retrieved, SameCall
<1>7. \A parts, old : Passes(g, parts, old) <=> Passes(j, parts, old)
  BY Zenon DEF Passes, SameCall
<1> QED
  BY <1>1, <1>2, <1>3, <1>4, <1>5, <1>6, <1>7 DEF Requested, SameCall

\* Two builds are as far apart as the solver's model has them.
LEMMA ApartIs ==
    ASSUME NEW g, Asked(g), NEW pools, NEW s, NEW t
    PROVE  /\ Apart(g, s, t) <=> Differences(Task(g, pools), s, t) >= MinDifference
           /\ Apart(g, s, t) <=> Differences(Task(g, pools), s, t) >= Distance
           /\ Apart(g, s, t) <=> Apart(g, t, s)
<1>1. Unlocked(Task(g, pools)) = Categories \ Retained(g.request)
  BY DEF Unlocked, Task
<1>2. PICK n : n = Cardinality({c \in Categories \ Retained(g.request) : s[c] # t[c]})
  OBVIOUS
<1>3. Differences(Task(g, pools), s, t) = n
  BY <1>1, <1>2, Zenon DEF Differences
<1>4. Apart(g, s, t) <=> n >= MinDifference
  BY <1>2 DEF Apart
<1>5. {c \in Categories \ Retained(g.request) : s[c] # t[c]}
        = {c \in Categories \ Retained(g.request) : t[c] # s[c]}
  OBVIOUS
<1>6. Apart(g, t, s) <=> n >= MinDifference
  BY <1>2, <1>5 DEF Apart
<1>7. MinDifference = Distance
  BY GenerationAssumption DEF GenerationAssumption
<1> QED
  BY <1>3, <1>4, <1>6, <1>7

GenerationShape ==
    [request : RequestShape, noCost : SUBSET Products, owned : SUBSET Products,
     shop : 1..Len(Catalogues), excludeLocked : BOOLEAN,
     origin : [generation : Nat, build : Nat, category : Categories, product : Products,
               mode : Modes] \cup {None},
     cut : BOOLEAN, rejections : Nat, ran : BOOLEAN, status : Statuses,
     builds : Seq(BuildShape)]

Inv ==
    /\ shop \in 1..Len(Catalogues)
    /\ restarts \in 0..MaxRestarts
    /\ store \in Seq(GenerationShape) /\ Len(store) <= MaxGenerations
    /\ \A i \in 1..Len(store) : GenerationFine(store[i]) /\ Derived(store[i], store)
    /\ job # None => JobFine(job) /\ Derived(job, store) /\ Len(store) < MaxGenerations

JobKinds == [profile : Profiles, parts : Selections]

\* The fields of a job at work.
LEMMA JobTyped ==
    ASSUME NEW j \in JobShape
    PROVE  /\ j.sols \in Seq(JobKinds) /\ Len(j.sols) \in Nat
           /\ \A i \in 1..Len(j.sols) : /\ j.sols[i].profile \in Profiles
                                        /\ j.sols[i].parts \in Selections
           /\ j.records \in Seq(Statuses) /\ Len(j.records) \in Nat
           /\ j.pools \in Families /\ j.pools # None
           /\ j.rejections \in Nat /\ j.done \in BOOLEAN /\ j.cut \in BOOLEAN
           /\ j.forbidden \subseteq Selections
<1>1. /\ j.sols \in Seq(JobKinds) /\ j.records \in Seq(Statuses)
      /\ j.pools \in Families
      /\ j.rejections \in Nat /\ j.done \in BOOLEAN /\ j.cut \in BOOLEAN
      /\ j.forbidden \subseteq Selections
  BY DEF JobShape, JobKinds
<1>2. \A i \in 1..Len(j.sols) : j.sols[i] \in JobKinds
  BY <1>1
<1>3. \A i \in 1..Len(j.sols) : j.sols[i].profile \in Profiles /\ j.sols[i].parts \in Selections
  BY <1>2 DEF JobKinds
<1>4. j.pools # None
  BY <1>1, GenerationAssumption DEF GenerationAssumption, Families
<1> QED
  BY <1>1, <1>3, <1>4

\* The solutions of a job are sound, and apart from each other.
LEMMA SolutionsSound ==
    ASSUME NEW j, JobFine(j)
    PROVE  \A i \in 1..Len(j.sols) : Sound(j, j.sols[i].parts)
BY JobTyped, GatesAreSound DEF JobFine, SolutionsFine

LEMMA SolutionsPresented ==
    ASSUME NEW j, JobFine(j)
    PROVE  Presented(Task(j, j.pools), j.sols)
             = [i \in 1..Len(j.sols) |-> Shown(Task(j, j.pools), j.sols[i])]
<1>1. PICK t : t = Task(j, j.pools)
  OBVIOUS
<1>2. t.cat = Catalogues[j.shop] /\ t.request = j.request
  BY <1>1 DEF Task
<1>3. PICK n \in Nat : n = Len(j.sols)
  BY JobTyped DEF JobFine
<1>4. DOMAIN j.sols = 1..n
  BY <1>3, JobTyped DEF JobFine
<1>5. \A i \in 1..n : Compatible(t.cat, j.sols[i].parts, t.request.existing)
  BY <1>2, <1>3 DEF JobFine, SolutionsFine
<1>6. \A i \in 1..n : \A k \in 1..i-1 :
        Differences(t, j.sols[i].parts, j.sols[k].parts) >= MinDifference
  BY <1>1, <1>3, ApartIs DEF JobFine, SolutionsFine
<1>7. PICK sols : sols = j.sols
  OBVIOUS
<1>8. n = Len(sols) /\ DOMAIN sols = 1..n
  BY <1>3, <1>4, <1>7
<1>9. \A i \in 1..n : Compatible(t.cat, sols[i].parts, t.request.existing)
  BY <1>5, <1>7
<1>10. \A i \in 1..n : \A k \in 1..i-1 :
         Differences(t, sols[i].parts, sols[k].parts) >= MinDifference
  BY <1>6, <1>7
<1>11. Presented(t, sols) = [i \in 1..n |-> Shown(t, sols[i])]
  <2> HIDE <1>7
  <2> QED
    BY <1>8, <1>9, <1>10, AllPresented, Zenon
<1> QED
  BY <1>1, <1>3, <1>7, <1>11

\* The fields of a build shown.
LEMMA ShownIs ==
    ASSUME NEW j, JobFine(j), NEW i \in 1..Len(j.sols),
           NEW b, b = Shown(Task(j, j.pools), j.sols[i])
    PROVE  /\ b \in BuildShape
           /\ b.profile = j.sols[i].profile /\ b.parts = j.sols[i].parts
           /\ b.total = Bill(j, b.parts)
           /\ \A offer \in b.offers :
                [b.parts EXCEPT ![offer.category] = offer.product] \notin Catalogues[j.shop].weak
                  => Passes(j, [b.parts EXCEPT ![offer.category] = offer.product],
                            b.parts[offer.category])
<1>1. PICK t : t = Task(j, j.pools)
  OBVIOUS
<1>2. PICK s \in Selections, pr \in Profiles : s = j.sols[i].parts /\ pr = j.sols[i].profile
  BY JobTyped DEF JobFine
<1>3. PICK build : build = [profile |-> pr, parts |-> s, total |-> Total(t, s)]
  OBVIOUS
<1>4. b = [profile |-> pr, parts |-> s, total |-> Total(t, s), offers |-> Offers(t, build)]
  BY <1>1, <1>2, <1>3 DEF Shown
<1>5. Total(t, s) = Bill(j, s) /\ Bill(j, s) \in Nat
  BY <1>1, TotalIs DEF JobFine
<1>6. Offers(t, build) \subseteq [category : Categories, product : Products]
  BY DEF Offers
<1>7. b \in BuildShape
  BY <1>4, <1>5, <1>6 DEF BuildShape
<1>8. Sound(j, s)
  BY <1>2, SolutionsSound
<1>9. /\ Asked(j) /\ LocksAccepted(Catalogues[j.shop], j.request)
      /\ j.pools \in Families /\ Retrieved(j, j.pools)
  BY JobTyped DEF JobFine
<1>10. build.parts = s /\ build.total = Bill(j, s)
  BY <1>3, <1>5
<1>11. \A offer \in Offers(Task(j, j.pools), build) :
          [build.parts EXCEPT ![offer.category] = offer.product] \notin Catalogues[j.shop].weak
            => Passes(j, [build.parts EXCEPT ![offer.category] = offer.product],
                      build.parts[offer.category])
  BY <1>8, <1>9, <1>10, OfferPasses
<1>12. b.parts = build.parts /\ b.offers = Offers(Task(j, j.pools), build)
  BY <1>1, <1>4, <1>10
<1> QED
  BY <1>2, <1>4, <1>5, <1>7, <1>11, <1>12

\* The status of the whole.
LEMMA StatusIs ==
    ASSUME NEW j, JobFine(j), j.done
    PROVE  /\ ResultStatus(j) \in Statuses
           /\ j.sols # <<>> => ResultStatus(j) \in {"OPTIMAL", "FEASIBLE"}
           /\ ResultStatus(j) = "INFEASIBLE" => j.sols = <<>> /\ j.records # <<"UNKNOWN">>
           /\ ResultStatus(j) = "OPTIMAL" =>
                /\ Len(j.sols) = Requested(j)
                /\ \A i \in 1..Len(j.sols) : j.records[i] = "OPTIMAL"
<1>1. j.records \in Seq(Statuses) /\ Len(j.sols) \in Nat
  BY JobTyped DEF JobFine
<1>2. PICK last : last = IF j.records = <<>> THEN "INFEASIBLE" ELSE j.records[Len(j.records)]
  OBVIOUS
<1>3. last \in Statuses
  BY <1>1, <1>2 DEF Statuses
<1>4. ResultStatus(j) =
        IF j.sols = <<>> THEN IF last = "OPTIMAL" THEN "INFEASIBLE" ELSE last
        ELSE IF Len(j.sols) = Requested(j) /\ ToSet(j.records) = {"OPTIMAL"} THEN "OPTIMAL"
        ELSE "FEASIBLE"
  BY <1>2 DEF ResultStatus, Last
<1>5. j.records = <<"UNKNOWN">> => last = "UNKNOWN"
  BY <1>2
<1>6. ASSUME ToSet(j.records) = {"OPTIMAL"}, NEW i \in 1..Len(j.sols)
      PROVE  j.records[i] = "OPTIMAL"
  <2>1. i \in DOMAIN j.records
    BY <1>1 DEF JobFine, SolutionsFine
  <2> QED
    BY <1>6, <2>1 DEF ToSet
<1> QED
  BY <1>3, <1>4, <1>5, <1>6 DEF Statuses

-----------------------------------------------------------------------------
(* Saving *)

LEMMA SavedFine ==
    ASSUME NEW j, JobFine(j), j.done,
           NEW g, g = Generation(j, ResultStatus(j), Presented(Task(j, j.pools), j.sols))
    PROVE  /\ g \in GenerationShape /\ GenerationFine(g)
           /\ g.origin = j.origin /\ g.noCost = j.noCost /\ g.request = j.request
<1>1. PICK builds, st, n : /\ builds = Presented(Task(j, j.pools), j.sols)
                           /\ st = ResultStatus(j) /\ n = Len(j.sols)
  OBVIOUS
<1>2. PICK ran \in BOOLEAN : ran = (j.pools # None)
  BY Zenon
<1>3. ran = TRUE
  BY <1>2, JobTyped DEF JobFine
<1>4. g = [request |-> j.request, noCost |-> j.noCost, owned |-> j.owned, shop |-> j.shop,
           excludeLocked |-> j.excludeLocked, origin |-> j.origin, cut |-> j.cut,
           rejections |-> j.rejections, ran |-> ran, status |-> st, builds |-> builds]
  BY <1>1, <1>2, Zenon DEF Generation
<1>5. /\ SameCall(g, j) /\ g.origin = j.origin /\ g.cut = j.cut /\ g.rejections = j.rejections
      /\ g.ran = TRUE /\ g.status = st /\ g.builds = builds
  BY <1>3, <1>4 DEF SameCall
<1>6. Asked(j) /\ j \in JobShape
  BY DEF JobFine
<1>7. builds = [i \in 1..n |-> Shown(Task(j, j.pools), j.sols[i])] /\ n \in Nat
  BY <1>1, <1>6, SolutionsPresented, JobTyped
<1>8. \A i \in 1..n : /\ builds[i] \in BuildShape
                      /\ builds[i].profile = j.sols[i].profile
                      /\ builds[i].parts = j.sols[i].parts
                      /\ builds[i].total = Bill(j, builds[i].parts)
                      /\ builds[i].parts \in Selections
  BY <1>1, <1>6, <1>7, ShownIs, JobTyped
<1>9. builds \in Seq(BuildShape) /\ Len(builds) = n
  BY <1>7, <1>8
<1>10. st \in Statuses
  BY <1>1, StatusIs
<1>11. g \in GenerationShape
  <2>1. /\ j.request \in RequestShape /\ j.noCost \in SUBSET Products /\ j.owned \in SUBSET Products
        /\ j.shop \in 1..Len(Catalogues) /\ j.excludeLocked \in BOOLEAN
        /\ j.origin \in [generation : Nat, build : Nat, category : Categories,
                         product : Products, mode : Modes] \cup {None}
        /\ j.cut \in BOOLEAN /\ j.rejections \in Nat
    BY <1>6 DEF JobShape
  <2> QED
    BY <1>4, <1>9, <1>10, <2>1 DEF GenerationShape
<1>12. ShapeKept(g)
  BY <1>5, <1>9, <1>10 DEF ShapeKept, JobFine, ProgressFine
<1>13. SoundBuilds(g)
  <2>1. ASSUME NEW b \in 1..n
        PROVE  Sound(g, builds[b].parts) /\ builds[b].total = Bill(g, builds[b].parts)
    BY <1>1, <1>5, <1>6, <1>8, SolutionsSound, SameCallSame
  <2>2. ASSUME NEW b \in 1..n, NEW d \in 1..n, b < d
        PROVE  Apart(g, builds[b].parts, builds[d].parts)
    <3>1. b \in 1..d-1
      BY <1>7, <2>2
    <3>2. Apart(j, j.sols[d].parts, j.sols[b].parts)
      BY <1>1, <3>1 DEF JobFine, SolutionsFine
    <3> QED
      BY <1>5, <1>6, <1>8, <3>2, ApartIs, SameCallSame
  <2> QED
    BY <1>5, <1>9, <2>1, <2>2 DEF SoundBuilds
<1>14. TrueStatus(g)
  <2>1. ASSUME st = "INFEASIBLE", ~j.cut, j.rejections < MaxRejections
        PROVE  \A s \in Selections : ~Sound(g, s)
    <3>1. j.sols = <<>> /\ j.records # <<"UNKNOWN">>
      BY <1>1, <2>1, StatusIs
    <3>2. \A s \in Selections : ~Sound(j, s)
      BY <2>1, <3>1 DEF JobFine, RecordsTrue
    <3> QED
      BY <1>5, <1>6, <3>2, SameCallSame
  <2>2. ASSUME st = "OPTIMAL" PROVE n = Requested(g)
    <3>1. n = Requested(j)
      BY <1>1, <2>2, StatusIs
    <3>2. Requested(g) = Requested(j)
      BY <1>5, <1>6, SameCallSame
    <3> QED
      BY <3>1, <3>2
  <2>3. ASSUME st = "OPTIMAL", ~j.cut, NEW b \in 1..n, NEW s \in Selections,
               Sound(g, s), \A d \in 1..b-1 : Apart(g, s, builds[d].parts)
        PROVE  Objective(builds[b].profile, s) <= Objective(builds[b].profile, builds[b].parts)
    <3>1. j.records[b] = "OPTIMAL"
      BY <1>1, <2>3, StatusIs
    <3>2. Sound(j, s)
      BY <1>5, <1>6, <2>3, SameCallSame
    <3>3. \A d \in 1..b-1 : Apart(j, s, j.sols[d].parts)
      <4>1. \A d \in 1..b-1 : d \in 1..n
        BY <1>7
      <4> QED
        BY <1>5, <1>6, <1>8, <2>3, <4>1, SameCallSame
    <3>4. Objective(j.sols[b].profile, s) <= Objective(j.sols[b].profile, j.sols[b].parts)
      BY <1>1, <2>3, <3>1, <3>2, <3>3 DEF JobFine, RecordsTrue
    <3> QED
      BY <1>8, <3>4
  <2>4. ASSUME builds # <<>> PROVE st \in {"OPTIMAL", "FEASIBLE"}
    <3>1. j.sols # <<>>
      BY <1>1, <1>7, <2>4
    <3> QED
      BY <1>1, <3>1, StatusIs
  <2> QED
    BY <1>5, <1>9, <2>1, <2>2, <2>3, <2>4 DEF TrueStatus
<1>15. OffersTaken(g)
  <2> SUFFICES ASSUME NEW b \in 1..n, NEW offer \in builds[b].offers,
                      [builds[b].parts EXCEPT ![offer.category] = offer.product]
                          \notin Catalogues[g.shop].weak
               PROVE  Passes(g, [builds[b].parts EXCEPT ![offer.category] = offer.product],
                             builds[b].parts[offer.category])
    BY <1>5, <1>9 DEF OffersTaken
  <2>1. builds[b] = Shown(Task(j, j.pools), j.sols[b])
    BY <1>7
  <2>2. Catalogues[g.shop] = Catalogues[j.shop]
    BY <1>5 DEF SameCall
  <2>3. Passes(j, [builds[b].parts EXCEPT ![offer.category] = offer.product],
               builds[b].parts[offer.category])
    BY <1>1, <2>1, <2>2, ShownIs
  <2> QED
    BY <1>5, <1>6, <2>3, SameCallSame
<1>16. Asked(g)
  BY <1>5, <1>6, SameCallSame
<1> QED
  BY <1>5, <1>11, <1>12, <1>13, <1>14, <1>15, <1>16 DEF GenerationFine, SameCall

-----------------------------------------------------------------------------
(* Solving *)

\* r is q, of length n, with e after it.
Longer(r, q, e, n) ==
    /\ Len(r) = n + 1 /\ r[n + 1] = e /\ r # <<>>
    /\ \A i \in 1..n : r[i] = q[i]

LEMMA Appended ==
    ASSUME NEW S, NEW q \in Seq(S), NEW e \in S, NEW n \in Nat, n = Len(q)
    PROVE  Longer(Append(q, e), q, e, n)
BY DEF Longer

\* The loop has gone on with the same call and the same pools.
SameJob(j, k) ==
    /\ SameCall(k, j) /\ k.pools = j.pools /\ k.cut = j.cut /\ k.origin = j.origin

Earlier(j) == [i \in 1..Len(j.sols) |-> j.sols[i].parts]

\* Nothing that is sound is out of the solver's reach where the pools are whole.
LEMMA SoundInModel ==
    ASSUME NEW j, JobFine(j), ~j.cut, NEW s \in Selections, Sound(j, s),
           \A k \in 1..Len(j.sols) : Apart(j, s, j.sols[k].parts)
    PROVE  s \in Model(Task(j, j.pools), Earlier(j), j.forbidden)
<1>1. PICK t : t = Task(j, j.pools)
  OBVIOUS
<1>2. Asked(j) /\ j \in JobShape /\ Holds(j.pools, s)
  BY DEF JobFine, RecordsTrue
<1>3. Acceptable(t, s)
  BY <1>1, <1>2, SoundPasses
<1>4. s \notin j.forbidden
  BY DEF JobFine, ProgressFine
<1>5. PICK e : e = Earlier(j)
  OBVIOUS
<1>6. PICK n \in Nat : n = Len(j.sols)
  BY <1>2, JobTyped
<1>7. Len(e) = n /\ \A i \in 1..n : e[i] = j.sols[i].parts
  BY <1>5, <1>6 DEF Earlier
<1>8. \A i \in 1..Len(e) : Differences(t, s, e[i]) >= Distance
  BY <1>1, <1>2, <1>6, <1>7, ApartIs
<1> QED
  BY <1>1, <1>3, <1>4, <1>5, <1>8 DEF Model

\* What the model holds passes, and is apart from the solutions.
LEMMA InModel ==
    ASSUME NEW j, JobFine(j), NEW s \in Model(Task(j, j.pools), Earlier(j), j.forbidden)
    PROVE  /\ s \in Selections
           /\ Acceptable(Task(j, j.pools), s)
           /\ \A k \in 1..Len(j.sols) : Apart(j, s, j.sols[k].parts)
<1>1. PICK n \in Nat : n = Len(j.sols)
  BY JobTyped DEF JobFine
<1>2. PICK e : e = Earlier(j)
  OBVIOUS
<1>3. Len(e) = n /\ \A i \in 1..n : e[i] = j.sols[i].parts
  BY <1>1, <1>2 DEF Earlier
<1>4. \A i \in 1..Len(e) : Differences(Task(j, j.pools), s, e[i]) >= Distance
  BY <1>2 DEF Model
<1>5. \A k \in 1..n : Apart(j, s, j.sols[k].parts)
  BY <1>3, <1>4, ApartIs DEF JobFine
<1> QED
  BY <1>1, <1>5 DEF Model

LEMMA SameJobSame ==
    ASSUME NEW j, NEW k, JobFine(j), SameJob(j, k), k \in JobShape
    PROVE  /\ Asked(k) /\ LocksAccepted(Catalogues[k.shop], k.request)
           /\ Retrieved(k, k.pools) /\ Task(k, k.pools) = Task(j, j.pools)
           /\ Requested(k) = Requested(j) /\ k.request = j.request
           /\ Catalogues[k.shop] = Catalogues[j.shop]
           /\ \A s \in Selections : Sound(k, s) <=> Sound(j, s)
           /\ \A s, t : Apart(k, s, t) <=> Apart(j, s, t)
           /\ ~j.cut => \A s \in Selections : Sound(k, s) => Holds(k.pools, s)
<1>1. SameCall(k, j) /\ Asked(j) /\ k.pools = j.pools
  BY DEF SameJob, JobFine
<1>2. /\ Asked(k) /\ Requested(k) = Requested(j)
      /\ \A s \in Selections : Sound(k, s) <=> Sound(j, s)
      /\ \A s, t : Apart(k, s, t) <=> Apart(j, s, t)
      /\ Task(k, k.pools) = Task(j, j.pools)
      /\ Retrieved(k, k.pools) <=> Retrieved(j, j.pools)
  BY <1>1, SameCallSame
<1>3. k.request = j.request /\ k.shop = j.shop
  BY <1>1 DEF SameCall
<1>4. ~j.cut => \A s \in Selections : Sound(k, s) => Holds(k.pools, s)
  BY <1>1, <1>2 DEF JobFine, RecordsTrue
<1> QED
  BY <1>2, <1>3, <1>4 DEF JobFine

\* A step of the loop that finds nothing, or rejects what it finds.
LEMMA StandingFine ==
    ASSUME NEW j, NEW k, JobFine(j), SameJob(j, k), k \in JobShape, ~j.done,
           k.sols = j.sols,
           \/ k.records = j.records
           \/ \E status \in Statuses : k.records = Append(j.records, status) /\ k.done,
           k.rejections <= MaxRejections,
           ~k.done => k.rejections < MaxRejections,
           \A s \in k.forbidden : ~Sound(j, s),
           ~k.cut /\ k.done /\ k.sols = <<>> /\ k.rejections < MaxRejections
                => k.records = <<"UNKNOWN">> \/ \A s \in Selections : ~Sound(j, s)
    PROVE  JobFine(k)
<1>1. PICK n \in Nat : n = Len(j.sols) /\ n = Len(j.records) /\ n = Len(k.sols)
  BY JobTyped DEF JobFine, ProgressFine
<1>2. n < Requested(j) /\ Requested(j) \in Nat
  BY <1>1, SnapshotIs DEF JobFine, ProgressFine
<1>3. /\ Len(k.records) \in Nat
      /\ n <= Len(k.records) /\ Len(k.records) <= n + 1
      /\ \A i \in 1..n : k.records[i] = j.records[i]
      /\ ~k.done => Len(k.records) = n
  <2>1. j.records \in Seq(Statuses)
    BY JobTyped DEF JobFine
  <2>2. CASE k.records = j.records
    <3>1. Len(k.records) = n
      BY <1>1, <2>2
    <3>2. \A i \in 1..n : k.records[i] = j.records[i]
      BY <2>2
    <3> QED
      BY <3>1, <3>2
  <2>3. CASE \E status \in Statuses : k.records = Append(j.records, status) /\ k.done
    <3>1. PICK status \in Statuses : k.records = Append(j.records, status) /\ k.done
      BY <2>3
    <3>2. Longer(k.records, j.records, status, n)
      BY <1>1, <2>1, <3>1, Appended
    <3> QED
      BY <3>1, <3>2 DEF Longer
  <2> QED
    BY <2>2, <2>3
<1>4. SolutionsFine(k)
  <2>1. /\ Task(k, k.pools) = Task(j, j.pools) /\ Requested(k) = Requested(j)
        /\ k.request = j.request /\ Catalogues[k.shop] = Catalogues[j.shop]
        /\ \A s, t : Apart(k, s, t) <=> Apart(j, s, t)
    BY SameJobSame
  <2> QED
    BY <1>1, <1>2, <1>3, <2>1 DEF SolutionsFine, JobFine
<1>5. ProgressFine(k)
  <2>1. Requested(k) = Requested(j) /\ \A s \in Selections : Sound(k, s) <=> Sound(j, s)
    BY SameJobSame
  <2>2. \A s \in k.forbidden : ~Sound(k, s)
    BY <2>1, JobTyped
  <2> QED
    BY <1>1, <1>2, <1>3, <2>1, <2>2 DEF ProgressFine
<1>6. ~k.cut => RecordsTrue(k)
  <2> SUFFICES ASSUME ~k.cut PROVE RecordsTrue(k)
    OBVIOUS
  <2>1. /\ \A s \in Selections : Sound(k, s) <=> Sound(j, s)
        /\ \A s, t : Apart(k, s, t) <=> Apart(j, s, t)
        /\ \A s \in Selections : Sound(k, s) => Holds(k.pools, s)
    BY SameJobSame DEF SameJob
  <2>2. RecordsTrue(j)
    BY DEF JobFine, SameJob
  <2>3. ASSUME NEW i \in 1..Len(k.sols), k.records[i] = "OPTIMAL", NEW s \in Selections,
               Sound(k, s), \A d \in 1..i-1 : Apart(k, s, k.sols[d].parts)
        PROVE  Objective(k.sols[i].profile, s) <= Objective(k.sols[i].profile, k.sols[i].parts)
    <3>1. i \in 1..Len(j.sols) /\ j.records[i] = "OPTIMAL"
      BY <1>1, <1>3, <2>3
    <3>2. \A d \in 1..i-1 : Apart(j, s, j.sols[d].parts)
      BY <2>1, <2>3
    <3>3. Objective(j.sols[i].profile, s) <= Objective(j.sols[i].profile, j.sols[i].parts)
      BY <2>1, <2>2, <2>3, <3>1, <3>2 DEF RecordsTrue
    <3> QED
      BY <3>3
  <2> QED
    BY <2>1, <2>3 DEF RecordsTrue
<1> QED
  BY <1>4, <1>5, <1>6, SameJobSame DEF JobFine

\* A step of the loop that accepts what it finds.
LEMMA AcceptedFine ==
    ASSUME NEW j, NEW k, JobFine(j), SameJob(j, k), k \in JobShape, ~j.done,
           NEW s \in Model(Task(j, j.pools), Earlier(j), j.forbidden),
           Compatible(Catalogues[j.shop], s, j.request.existing),
           NEW status \in Statuses,
           status = "OPTIMAL" =>
                \A t \in Model(Task(j, j.pools), Earlier(j), j.forbidden) :
                    Objective(j.request.profiles[Len(j.sols) + 1], t)
                      <= Objective(j.request.profiles[Len(j.sols) + 1], s),
           k.sols = Append(j.sols, [profile |-> j.request.profiles[Len(j.sols) + 1], parts |-> s]),
           k.records = Append(j.records, status), k.forbidden = {},
           k.rejections = j.rejections,
           Len(j.sols) + 1 = Requested(j) => k.done
    PROVE  JobFine(k)
<1>1. PICK n \in Nat : n = Len(j.sols) /\ n = Len(j.records)
  BY JobTyped DEF JobFine, ProgressFine
<1>2. PICK pr : pr = j.request.profiles[n + 1]
  OBVIOUS
<1>3. n < Requested(j) /\ Requested(j) \in Nat
  BY <1>1, SnapshotIs DEF JobFine, ProgressFine
<1>4. PICK sol : sol = [profile |-> pr, parts |-> s]
  OBVIOUS
<1>5. s \in Selections /\ sol \in JobKinds
  <2>1. j.request.profiles \in Seq(Profiles) /\ n + 1 \in 1..Len(j.request.profiles)
    BY <1>3, SnapshotIs DEF JobFine, Requested
  <2>2. pr \in Profiles
    BY <1>2, <2>1
  <2>3. s \in Selections
    BY InModel
  <2> QED
    BY <1>4, <2>2, <2>3 DEF JobKinds
<1>6. /\ Len(k.sols) = n + 1 /\ Len(k.records) = n + 1
      /\ k.sols[n + 1].profile = pr /\ k.sols[n + 1].parts = s
      /\ k.records[n + 1] = status /\ k.sols # <<>>
      /\ \A i \in 1..n : k.sols[i] = j.sols[i] /\ k.records[i] = j.records[i]
  <2>1. k.sols = Append(j.sols, sol) /\ k.records = Append(j.records, status)
    BY <1>1, <1>2, <1>4
  <2>2. j.sols \in Seq(JobKinds) /\ j.records \in Seq(Statuses)
    BY JobTyped DEF JobFine
  <2>3. Longer(k.sols, j.sols, sol, n)
    BY <1>1, <1>5, <2>1, <2>2, Appended
  <2>4. Longer(k.records, j.records, status, n)
    BY <1>1, <2>1, <2>2, Appended
  <2> QED
    BY <1>4, <2>3, <2>4 DEF Longer
<1>7. /\ Task(k, k.pools) = Task(j, j.pools) /\ Requested(k) = Requested(j)
      /\ k.request = j.request /\ Catalogues[k.shop] = Catalogues[j.shop]
      /\ \A p, q : Apart(k, p, q) <=> Apart(j, p, q)
      /\ \A p \in Selections : Sound(k, p) <=> Sound(j, p)
  BY SameJobSame
<1>8. SolutionsFine(k)
  <2>1. ASSUME NEW i \in 1..(n + 1)
        PROVE  /\ k.sols[i].profile = k.request.profiles[i]
               /\ Acceptable(Task(k, k.pools), k.sols[i].parts)
               /\ Compatible(Catalogues[k.shop], k.sols[i].parts, k.request.existing)
               /\ \A d \in 1..i-1 : Apart(k, k.sols[i].parts, k.sols[d].parts)
    <3>1. CASE i \in 1..n
      <4>1. \A d \in 1..i-1 : d \in 1..n
        BY <3>1
      <4>2. k.sols[i] = j.sols[i] /\ \A d \in 1..i-1 : k.sols[d] = j.sols[d]
        BY <1>6, <3>1, <4>1
      <4> QED
        BY <1>1, <1>7, <3>1, <4>2 DEF JobFine, SolutionsFine
    <3>2. CASE i = n + 1
      <4>1. /\ Acceptable(Task(j, j.pools), s)
            /\ \A d \in 1..n : Apart(j, s, j.sols[d].parts)
        BY <1>1, InModel
      <4>2. \A d \in 1..i-1 : d \in 1..n
        BY <3>2
      <4> QED
        BY <1>2, <1>6, <1>7, <3>2, <4>1, <4>2
    <3>3. i \in 1..n \/ i = n + 1
      OBVIOUS
    <3> QED
      BY <3>1, <3>2, <3>3
  <2> QED
    BY <1>3, <1>6, <1>7, <2>1 DEF SolutionsFine
<1>9. ProgressFine(k)
  <2>1. j.rejections < MaxRejections /\ j.rejections <= MaxRejections
    BY DEF JobFine, ProgressFine
  <2> QED
    BY <1>1, <1>3, <1>6, <1>7, <2>1 DEF ProgressFine
<1>10. ~k.cut => RecordsTrue(k)
  <2> SUFFICES ASSUME ~k.cut PROVE RecordsTrue(k)
    OBVIOUS
  <2>1. ~j.cut /\ RecordsTrue(j)
    BY DEF JobFine, SameJob
  <2>2. \A p \in Selections : Sound(k, p) => Holds(k.pools, p)
    BY <2>1, SameJobSame
  <2>3. ASSUME NEW i \in 1..(n + 1), k.records[i] = "OPTIMAL", NEW p \in Selections,
               Sound(k, p), \A d \in 1..i-1 : Apart(k, p, k.sols[d].parts)
        PROVE  Objective(k.sols[i].profile, p) <= Objective(k.sols[i].profile, k.sols[i].parts)
    <3>1. \A d \in 1..i-1 : d \in 1..n /\ Apart(j, p, j.sols[d].parts)
      BY <1>6, <1>7, <2>3
    <3>2. CASE i \in 1..n
      <4>1. k.sols[i] = j.sols[i] /\ j.records[i] = "OPTIMAL"
        BY <1>6, <2>3, <3>2
      <4> QED
        BY <1>1, <1>7, <2>1, <2>3, <3>1, <3>2, <4>1 DEF RecordsTrue
    <3>3. CASE i = n + 1
      <4>1. \A d \in 1..n : Apart(j, p, j.sols[d].parts)
        BY <3>1, <3>3
      <4>2. p \in Model(Task(j, j.pools), Earlier(j), j.forbidden)
        BY <1>1, <1>7, <2>1, <2>3, <4>1, SoundInModel
      <4>3. status = "OPTIMAL"
        BY <1>6, <2>3, <3>3
      <4>4. Objective(pr, p) <= Objective(pr, s)
        BY <1>1, <1>2, <4>2, <4>3
      <4> QED
        BY <1>6, <3>3, <4>4
    <3>4. i \in 1..n \/ i = n + 1
      OBVIOUS
    <3> QED
      BY <3>2, <3>3, <3>4
  <2>4. k.sols # <<>>
    BY <1>6
  <2> QED
    BY <1>6, <2>2, <2>3, <2>4 DEF RecordsTrue
<1> QED
  BY <1>8, <1>9, <1>10, SameJobSame DEF JobFine

\* The job as the loop leaves it.
With(j, sols, records, forbidden, rejections, done) ==
    [request |-> j.request, noCost |-> j.noCost, owned |-> j.owned, shop |-> j.shop,
     excludeLocked |-> j.excludeLocked, origin |-> j.origin, cut |-> j.cut,
     rejections |-> rejections, pools |-> j.pools, sols |-> sols, records |-> records,
     forbidden |-> forbidden, done |-> done]

\* k is j after a step of the loop.
Becomes(j, k, sols, records, forbidden, rejections, done) ==
    /\ k \in JobShape /\ SameJob(j, k)
    /\ k.sols = sols /\ k.records = records /\ k.forbidden = forbidden
    /\ k.rejections = rejections /\ k.done = done

LEMMA WithIs ==
    ASSUME NEW j \in JobShape, NEW sols \in Seq(JobKinds), NEW records \in Seq(Statuses),
           NEW forbidden \in SUBSET Selections, NEW rejections \in Nat, NEW done \in BOOLEAN
    PROVE  Becomes(j, With(j, sols, records, forbidden, rejections, done),
                   sols, records, forbidden, rejections, done)
<1>1. PICK k : k = With(j, sols, records, forbidden, rejections, done)
  OBVIOUS
<1>2. k \in JobShape
  BY <1>1 DEF JobShape, JobKinds, With
<1>3. SameJob(j, k)
  BY <1>1 DEF SameJob, SameCall, With
<1>4. /\ k.sols = sols /\ k.records = records /\ k.forbidden = forbidden
      /\ k.rejections = rejections /\ k.done = done
  BY <1>1 DEF With
<1> QED
  BY <1>1, <1>2, <1>3, <1>4 DEF Becomes

LEMMA JobIs ==
    ASSUME NEW j \in JobShape
    PROVE  j = With(j, j.sols, j.records, j.forbidden, j.rejections, j.done)
BY DEF JobShape, With

\* What is known of a job that the loop has not done with.
Standing(j) ==
    /\ j \in JobShape /\ j.records \in Seq(Statuses) /\ j.sols \in Seq(JobKinds)
    /\ j.forbidden \in SUBSET Selections /\ j.rejections \in Nat
    /\ j.rejections < MaxRejections /\ MaxRejections \in Nat
    /\ \A s \in j.forbidden : ~Sound(j, s)
    /\ j.sols = <<>> => j.records = <<>>

LEMMA StandsStill ==
    ASSUME NEW j, JobFine(j), ~j.done
    PROVE  Standing(j)
<1>1. j \in JobShape
  BY DEF JobFine
<1>2. Len(j.records) = Len(j.sols)
  BY DEF JobFine, ProgressFine
<1>3. j.sols = <<>> => j.records = <<>>
  BY <1>1, <1>2, JobTyped
<1> QED
  BY <1>1, <1>3, JobTyped, GenerationAssumption
     DEF Standing, JobFine, ProgressFine, GenerationAssumption

LEMMA HopelessFine ==
    ASSUME NEW j, JobFine(j), ~j.done, Hopeless(Task(j, j.pools)),
           NEW k, k = With(j, j.sols, j.records, j.forbidden, j.rejections, TRUE)
    PROVE  JobFine(k) /\ SameJob(j, k)
<1>1. Standing(j)
  BY StandsStill
<1>2. PICK p \in Seq(JobKinds), q \in Seq(Statuses), f \in SUBSET Selections, r \in Nat :
        p = j.sols /\ q = j.records /\ f = j.forbidden /\ r = j.rejections
  BY <1>1 DEF Standing
<1>3. j \in JobShape /\ k = With(j, p, q, f, r, TRUE)
  BY <1>1, <1>2 DEF Standing
<1>4. /\ k \in JobShape /\ SameJob(j, k) /\ k.sols = p /\ k.records = q
      /\ k.forbidden = f /\ k.rejections = r /\ k.done = TRUE
  <2>1. Becomes(j, k, p, q, f, r, TRUE)
    BY <1>3, WithIs
  <2> QED
    BY <2>1 DEF Becomes
<1>5. ASSUME ~k.cut, NEW s \in Selections PROVE ~Sound(j, s)
  BY <1>4, <1>5, SoundHasHope DEF SameJob, JobFine, RecordsTrue
<1>6. k.rejections <= MaxRejections /\ k.done
  <2>1. r <= MaxRejections
    BY <1>1, <1>2 DEF Standing
  <2> QED
    BY <1>4, <2>1
<1>7. \A s \in k.forbidden : ~Sound(j, s)
  BY <1>1, <1>2, <1>4 DEF Standing
<1>8. k.sols = j.sols /\ k.records = j.records
  BY <1>2, <1>4
<1> QED
  BY <1>4, <1>5, <1>6, <1>7, <1>8, StandingFine

LEMMA NotFoundFine ==
    ASSUME NEW j, JobFine(j), ~j.done, NEW status,
           \/ status = "UNKNOWN"
           \/ status = "INFEASIBLE" /\ Model(Task(j, j.pools), Earlier(j), j.forbidden) = {},
           NEW k,
           k = With(j, j.sols, Append(j.records, status), j.forbidden, j.rejections, TRUE)
    PROVE  JobFine(k) /\ SameJob(j, k)
<1>1. Standing(j) /\ status \in Statuses
  BY StandsStill DEF Statuses
<1>2. PICK p \in Seq(JobKinds), q \in Seq(Statuses), f \in SUBSET Selections, r \in Nat :
        p = j.sols /\ q = j.records /\ f = j.forbidden /\ r = j.rejections
  BY <1>1 DEF Standing
<1>3. PICK records \in Seq(Statuses) : records = Append(q, status)
  <2>1. Append(q, status) \in Seq(Statuses)
    BY <1>1
  <2> QED
    BY <2>1
<1>4. j \in JobShape /\ k = With(j, p, records, f, r, TRUE)
  BY <1>1, <1>2, <1>3 DEF Standing
<1>5. /\ k \in JobShape /\ SameJob(j, k) /\ k.sols = p /\ k.records = records
      /\ k.forbidden = f /\ k.rejections = r /\ k.done = TRUE
  <2>1. Becomes(j, k, p, records, f, r, TRUE)
    BY <1>4, WithIs
  <2> QED
    BY <2>1 DEF Becomes
<1>6. ASSUME ~k.cut, k.sols = <<>>, k.records # <<"UNKNOWN">>, NEW s \in Selections
      PROVE  ~Sound(j, s)
  <2>1. status # "UNKNOWN"
    <3>1. q = <<>>
      BY <1>1, <1>2, <1>5, <1>6 DEF Standing
    <3>2. Append(<<>>, "UNKNOWN") = <<"UNKNOWN">>
      OBVIOUS
    <3> QED
      BY <1>3, <1>5, <1>6, <3>1, <3>2, Zenon
  <2>2. Model(Task(j, j.pools), Earlier(j), j.forbidden) = {}
    BY <2>1
  <2>3. \A d \in 1..Len(j.sols) : Apart(j, s, j.sols[d].parts)
    BY <1>2, <1>5, <1>6
  <2>4. ~j.cut
    BY <1>5, <1>6 DEF SameJob
  <2> QED
    BY <2>2, <2>3, <2>4, SoundInModel
<1>7. k.rejections <= MaxRejections /\ k.done
  <2>1. r <= MaxRejections
    BY <1>1, <1>2 DEF Standing
  <2> QED
    BY <1>5, <2>1
<1>8. \A s \in k.forbidden : ~Sound(j, s)
  BY <1>1, <1>2, <1>5 DEF Standing
<1>9. k.sols = j.sols /\ k.records = Append(j.records, status)
  BY <1>2, <1>3, <1>5
<1> QED
  BY <1>1, <1>5, <1>6, <1>7, <1>8, <1>9, StandingFine

LEMMA RejectedFine ==
    ASSUME NEW j, JobFine(j), ~j.done,
           NEW s \in Model(Task(j, j.pools), Earlier(j), j.forbidden),
           ~Compatible(Catalogues[j.shop], s, j.request.existing),
           NEW status \in Statuses, NEW last \in BOOLEAN,
           last <=> j.rejections + 1 >= MaxRejections,
           NEW k, k = With(j, j.sols, IF last THEN Append(j.records, status) ELSE j.records,
                           j.forbidden \cup {s}, j.rejections + 1, last)
    PROVE  JobFine(k) /\ SameJob(j, k)
<1>1. s \in Selections /\ ~Sound(j, s) /\ Standing(j)
  BY InModel, StandsStill DEF Sound
<1>2. PICK p \in Seq(JobKinds), q \in Seq(Statuses), f \in SUBSET Selections, r \in Nat :
        p = j.sols /\ q = j.records /\ f = j.forbidden /\ r = j.rejections
  BY <1>1 DEF Standing
<1>3. PICK records \in Seq(Statuses) : records = IF last THEN Append(q, status) ELSE q
  <2>1. Append(q, status) \in Seq(Statuses)
    OBVIOUS
  <2> QED
    BY <2>1
<1>4. PICK forbidden \in SUBSET Selections : forbidden = f \cup {s}
  BY <1>1
<1>5. PICK rejections \in Nat : rejections = r + 1
  OBVIOUS
<1>6. j \in JobShape /\ k = With(j, p, records, forbidden, rejections, last)
  BY <1>1, <1>2, <1>3, <1>4, <1>5 DEF Standing
<1>7. /\ k \in JobShape /\ SameJob(j, k) /\ k.sols = p /\ k.records = records
      /\ k.forbidden = forbidden /\ k.rejections = rejections /\ k.done = last
  <2>1. Becomes(j, k, p, records, forbidden, rejections, last)
    BY <1>6, WithIs
  <2> QED
    BY <2>1 DEF Becomes
<1>8. rejections <= MaxRejections /\ (~last => rejections < MaxRejections)
      /\ (last => ~(rejections < MaxRejections))
  BY <1>1, <1>2, <1>5 DEF Standing
<1>9. \/ k.records = j.records
      \/ \E st \in Statuses : k.records = Append(j.records, st) /\ k.done
  BY <1>2, <1>3, <1>7
<1>10. \A z \in k.forbidden : ~Sound(j, z)
  BY <1>1, <1>2, <1>4, <1>7 DEF Standing
<1>11. k.sols = j.sols
  BY <1>2, <1>7
<1> QED
  BY <1>7, <1>8, <1>9, <1>10, <1>11, StandingFine

LEMMA FoundFine ==
    ASSUME NEW j, JobFine(j), ~j.done,
           NEW s \in Model(Task(j, j.pools), Earlier(j), j.forbidden),
           Compatible(Catalogues[j.shop], s, j.request.existing),
           NEW pr, pr = j.request.profiles[Len(j.sols) + 1],
           NEW status \in Statuses,
           status = "OPTIMAL" =>
                \A t \in Model(Task(j, j.pools), Earlier(j), j.forbidden) :
                    Objective(pr, t) <= Objective(pr, s),
           NEW done \in BOOLEAN, Len(j.sols) + 1 = Requested(j) => done,
           NEW k, k = With(j, Append(j.sols, [profile |-> pr, parts |-> s]),
                           Append(j.records, status), {}, j.rejections, done)
    PROVE  JobFine(k) /\ SameJob(j, k)
<1>1. s \in Selections /\ Standing(j)
  BY InModel, StandsStill
<1>2. [profile |-> pr, parts |-> s] \in JobKinds
  <2>1. Len(j.sols) < Requested(j) /\ Len(j.sols) \in Nat
    BY JobTyped DEF JobFine, ProgressFine
  <2>2. j.request.profiles \in Seq(Profiles) /\ Requested(j) = Len(j.request.profiles)
        /\ Requested(j) \in Nat
    BY SnapshotIs DEF JobFine, Requested
  <2>3. Len(j.sols) + 1 \in 1..Len(j.request.profiles)
    BY <2>1, <2>2
  <2>4. pr \in Profiles
    BY <2>2, <2>3
  <2> QED
    BY <1>1, <2>4 DEF JobKinds
<1>3. PICK p \in Seq(JobKinds), q \in Seq(Statuses), r \in Nat :
        p = j.sols /\ q = j.records /\ r = j.rejections
  BY <1>1 DEF Standing
<1>4. PICK sols \in Seq(JobKinds) : sols = Append(p, [profile |-> pr, parts |-> s])
  <2>1. Append(p, [profile |-> pr, parts |-> s]) \in Seq(JobKinds)
    BY <1>2
  <2> QED
    BY <2>1
<1>5. PICK records \in Seq(Statuses) : records = Append(q, status)
  <2>1. Append(q, status) \in Seq(Statuses)
    OBVIOUS
  <2> QED
    BY <2>1
<1>6. j \in JobShape /\ k = With(j, sols, records, {}, r, done)
  BY <1>1, <1>3, <1>4, <1>5 DEF Standing
<1>7. /\ k \in JobShape /\ SameJob(j, k) /\ k.sols = sols /\ k.records = records
      /\ k.forbidden = {} /\ k.rejections = r /\ k.done = done
  <2>1. Becomes(j, k, sols, records, {}, r, done)
    BY <1>6, WithIs
  <2> QED
    BY <2>1 DEF Becomes
<1>8. JobFine(k)
  <2>1. /\ k.sols = Append(j.sols, [profile |-> pr, parts |-> s])
        /\ k.records = Append(j.records, status) /\ k.rejections = j.rejections
    BY <1>3, <1>4, <1>5, <1>7
  <2> QED
    BY <1>7, <2>1, AcceptedFine
<1> QED
  BY <1>7, <1>8

LEMMA SolveStep ==
    ASSUME Inv, Solve
    PROVE  JobFine(job') /\ SameJob(job, job')
<1>1. PICK j : j = job
  OBVIOUS
<1>2. PICK k : k = job'
  OBVIOUS
<1>3. JobFine(j) /\ ~j.done
  BY <1>1 DEF Inv, Solve
<1>4. PICK t : t = JobTask
  OBVIOUS
<1>5. t = Task(j, j.pools) /\ t.cat = Catalogues[j.shop]
  BY <1>1, <1>4 DEF JobTask, Task
<1>6. PICK model : model = Model(t, Earlier(j), j.forbidden)
  OBVIOUS
<1>7. PICK pr : pr = j.request.profiles[Len(j.sols) + 1]
  OBVIOUS
<1>15. j = With(j, j.sols, j.records, j.forbidden, j.rejections, j.done)
  BY <1>3, JobIs DEF JobFine
<1>8. \/ Hopeless(t) /\ job' = [job EXCEPT !.done = TRUE]
      \/ \E s \in Best(pr, model) : Found(pr, "OPTIMAL", s)
      \/ \E s \in model : Found(pr, "FEASIBLE", s)
      \/ model = {} /\ NotFound("INFEASIBLE")
      \/ NotFound("UNKNOWN")
  BY <1>1, <1>4, <1>6, <1>7, Zenon DEF Solve, Earlier
<1>9. CASE Hopeless(t) /\ job' = [job EXCEPT !.done = TRUE]
  <2>1. k = [j EXCEPT !.done = TRUE]
    BY <1>1, <1>2, <1>9
  <2>2. k = With(j, j.sols, j.records, j.forbidden, j.rejections, TRUE)
    BY <1>15, <2>1 DEF With
  <2> QED
    BY <1>1, <1>2, <1>3, <1>5, <1>9, <2>2, HopelessFine
<1>10. ASSUME NEW s \in model, NEW status \in Statuses, Found(pr, status, s),
              status = "OPTIMAL" => \A z \in model : Objective(pr, z) <= Objective(pr, s)
       PROVE  JobFine(k) /\ SameJob(j, k)
  <2>1. Acceptable(t, s)
    BY <1>3, <1>5, <1>6, InModel
  <2>2. CASE Compatible(t.cat, s, j.request.existing)
    <3>1. PICK done \in BOOLEAN : done = (\/ Len(j.sols) + 1 = Requested(j)
                                          \/ Cardinality(Unlocked(t)) < Distance)
      BY Zenon
    <3>2. k = [j EXCEPT !.sols = Append(@, [profile |-> pr, parts |-> s]),
                        !.records = Append(@, status), !.forbidden = {}, !.done = done]
      BY <1>1, <1>2, <1>4, <1>10, <2>1, <2>2, <3>1, Zenon DEF Found
    <3>3. k = With(j, Append(j.sols, [profile |-> pr, parts |-> s]),
                   Append(j.records, status), {}, j.rejections, done)
      BY <1>15, <3>2 DEF With
    <3> QED
      BY <1>3, <1>5, <1>6, <1>7, <1>10, <2>2, <3>1, <3>3, FoundFine
  <2>3. CASE ~Compatible(t.cat, s, j.request.existing)
    <3>1. PICK last : last = (j.rejections + 1 >= MaxRejections)
      OBVIOUS
    <3>4. last \in BOOLEAN
      BY <3>1
    <3>2. k = [j EXCEPT !.rejections = @ + 1, !.forbidden = @ \cup {s}, !.done = last,
                        !.records = IF last THEN Append(@, status) ELSE @]
      BY <1>1, <1>2, <1>4, <1>10, <2>3, <3>1, Zenon DEF Found
    <3>3. k = With(j, j.sols, IF last THEN Append(j.records, status) ELSE j.records,
                   j.forbidden \cup {s}, j.rejections + 1, last)
      BY <1>15, <3>2 DEF With
    <3> QED
      BY <1>3, <1>5, <1>6, <1>10, <2>3, <3>1, <3>3, <3>4, RejectedFine
  <2> QED
    BY <2>2, <2>3
<1>11. CASE \E s \in Best(pr, model) : Found(pr, "OPTIMAL", s)
  <2>1. PICK s \in Best(pr, model) : Found(pr, "OPTIMAL", s)
    BY <1>11
  <2>2. s \in model /\ \A z \in model : Objective(pr, z) <= Objective(pr, s)
    BY DEF Best
  <2> QED
    BY <1>1, <1>2, <1>10, <2>1, <2>2 DEF Statuses
<1>12. CASE \E s \in model : Found(pr, "FEASIBLE", s)
  BY <1>1, <1>2, <1>10, <1>12 DEF Statuses
<1>13. CASE model = {} /\ NotFound("INFEASIBLE")
  <2>1. k = [j EXCEPT !.records = Append(@, "INFEASIBLE"), !.done = TRUE]
    BY <1>1, <1>2, <1>13 DEF NotFound
  <2>2. k = With(j, j.sols, Append(j.records, "INFEASIBLE"), j.forbidden, j.rejections, TRUE)
    BY <1>15, <2>1 DEF With
  <2> QED
    BY <1>1, <1>2, <1>3, <1>5, <1>6, <1>13, <2>2, NotFoundFine
<1>14. CASE NotFound("UNKNOWN")
  <2>1. k = [j EXCEPT !.records = Append(@, "UNKNOWN"), !.done = TRUE]
    BY <1>1, <1>2, <1>14 DEF NotFound
  <2>2. k = With(j, j.sols, Append(j.records, "UNKNOWN"), j.forbidden, j.rejections, TRUE)
    BY <1>15, <2>1 DEF With
  <2> QED
    BY <1>1, <1>2, <1>3, <2>2, NotFoundFine
<1> QED
  BY <1>1, <1>2, <1>8, <1>9, <1>11, <1>12, <1>13, <1>14

-----------------------------------------------------------------------------
(* Preparing *)

Origins == [generation : Nat, build : Nat, category : Categories, product : Products,
            mode : Modes] \cup {None}

\* A call as it comes in.
Call(request, noCost, owned, sh, excludeLocked, origin, cut, pools) ==
    [request |-> request, noCost |-> noCost, owned |-> owned, shop |-> sh,
     excludeLocked |-> excludeLocked, origin |-> origin, cut |-> cut, rejections |-> 0,
     pools |-> pools, sols |-> <<>>, records |-> <<>>, forbidden |-> {}, done |-> FALSE]

\* A call answered without solving.
LEMMA UnsolvedFine ==
    ASSUME NEW r \in RequestShape, NEW n \in SUBSET Products, NEW o \in SUBSET Products,
           NEW sh \in 1..Len(Catalogues), NEW e \in BOOLEAN, NEW org \in Origins,
           NEW cut \in BOOLEAN, NEW new, new = Call(r, n, o, sh, e, org, cut, None),
           Asked(new), ~cut => \A s \in Selections : ~Sound(new, s),
           NEW g, g = Generation(new, "INFEASIBLE", <<>>)
    PROVE  /\ g \in GenerationShape /\ GenerationFine(g)
           /\ g.origin = org /\ g.noCost = n /\ g.request = r
<1>1. PICK ran : ran = (None # None)
  OBVIOUS
<1>2. ran = FALSE
  BY <1>1
<1>3. /\ new.request = r /\ new.noCost = n /\ new.owned = o /\ new.shop = sh
      /\ new.excludeLocked = e /\ new.origin = org /\ new.cut = cut /\ new.rejections = 0
      /\ new.pools = None
  BY DEF Call
<1>4. g = [request |-> r, noCost |-> n, owned |-> o, shop |-> sh,
           excludeLocked |-> e, origin |-> org, cut |-> cut,
           rejections |-> 0, ran |-> ran, status |-> "INFEASIBLE", builds |-> <<>>]
  BY <1>1, <1>3, Zenon DEF Generation
<1>5. /\ SameCall(g, new) /\ g.origin = org /\ g.cut = cut /\ g.rejections = 0
      /\ g.ran = FALSE /\ g.status = "INFEASIBLE" /\ g.builds = <<>>
      /\ g.noCost = n /\ g.request = r
  BY <1>2, <1>3, <1>4 DEF SameCall
<1>6. <<>> \in Seq(BuildShape) /\ "INFEASIBLE" \in Statuses
  BY DEF Statuses
<1>7. g \in GenerationShape
  <2>1. org \in [generation : Nat, build : Nat, category : Categories, product : Products,
                  mode : Modes] \cup {None}
    BY DEF Origins
  <2>2. PICK zero \in Nat : zero = 0
    OBVIOUS
  <2>3. PICK f \in BOOLEAN : f = ran
    BY <1>2
  <2>5. PICK st \in Statuses, none \in Seq(BuildShape) : st = "INFEASIBLE" /\ none = <<>>
    BY <1>6
  <2>4. g = [request |-> r, noCost |-> n, owned |-> o, shop |-> sh,
             excludeLocked |-> e, origin |-> org, cut |-> cut,
             rejections |-> zero, ran |-> f, status |-> st, builds |-> none]
    BY <1>4, <2>2, <2>3, <2>5, Zenon
  <2> QED
    BY <2>1, <2>4 DEF GenerationShape
<1>8. ShapeKept(g)
  <2>1. 0 <= MaxRejections
    BY GenerationAssumption DEF GenerationAssumption
  <2> QED
    BY <1>5, <1>6, <2>1 DEF ShapeKept
<1>9. SoundBuilds(g) /\ OffersTaken(g)
  BY <1>5 DEF SoundBuilds, OffersTaken
<1>10. TrueStatus(g)
  <2>1. ~g.cut => \A s \in Selections : ~Sound(g, s)
    BY <1>5, SameCallSame
  <2> QED
    BY <1>5, <2>1 DEF TrueStatus
<1>11. Asked(g)
  BY <1>5, SameCallSame
<1> QED
  BY <1>5, <1>7, <1>8, <1>9, <1>10, <1>11 DEF GenerationFine

\* A call that goes to the solver.
LEMMA StartedFine ==
    ASSUME NEW r \in RequestShape, NEW n \in SUBSET Products, NEW o \in SUBSET Products,
           NEW sh \in 1..Len(Catalogues), NEW e \in BOOLEAN, NEW org \in Origins,
           NEW cut \in BOOLEAN, NEW pool \in Families,
           NEW j, j = Call(r, n, o, sh, e, org, cut, pool),
           Asked(j), LocksAccepted(Catalogues[sh], r), Retrieved(j, pool),
           ~cut => \A s \in Selections : Sound(j, s) => Holds(pool, s)
    PROVE  JobFine(j) /\ j.origin = org /\ j.noCost = n /\ j.request = r
<1>1. /\ j.request = r /\ j.noCost = n /\ j.owned = o /\ j.shop = sh
      /\ j.excludeLocked = e /\ j.origin = org /\ j.cut = cut /\ j.rejections = 0
      /\ j.pools = pool /\ j.sols = <<>> /\ j.records = <<>> /\ j.forbidden = {}
      /\ j.done = FALSE
  BY DEF Call
<1>2. j \in JobShape
  <2>1. <<>> \in Seq([profile : Profiles, parts : Selections]) /\ <<>> \in Seq(Statuses)
    OBVIOUS
  <2> QED
    BY <2>1 DEF JobShape, Call, Origins
<1>3. Len(j.sols) = 0 /\ Len(j.records) = 0
  BY <1>1
<1>4. Requested(j) \in Nat \ {0} /\ MaxRejections \in Nat \ {0}
  BY SnapshotIs, GenerationAssumption DEF GenerationAssumption
<1>5. SolutionsFine(j)
  BY <1>3, <1>4 DEF SolutionsFine
<1>6. ProgressFine(j)
  BY <1>1, <1>3, <1>4 DEF ProgressFine
<1>7. ~j.cut => RecordsTrue(j)
  BY <1>1, <1>3 DEF RecordsTrue
<1> QED
  BY <1>1, <1>2, <1>5, <1>6, <1>7 DEF JobFine

LEMMA CallsSame ==
    ASSUME NEW r, NEW n, NEW o, NEW sh, NEW e, NEW org, NEW cut, NEW cut2, NEW pool, NEW pool2
    PROVE  SameCall(Call(r, n, o, sh, e, org, cut, pool), Call(r, n, o, sh, e, org, cut2, pool2))
BY DEF SameCall, Call

\* Either the call is at work, or its answer is saved.
Started(org, n, r) == JobFine(job') /\ job'.origin = org /\ job'.noCost = n /\ job'.request = r

Answered(org, n, r) ==
    \E g \in GenerationShape : /\ GenerationFine(g)
                               /\ g.origin = org /\ g.noCost = n /\ g.request = r
                               /\ store' = Append(store, g)

LEMMA PrepareStep ==
    ASSUME NEW r \in RequestShape, NEW n \in SUBSET Products, NEW o \in SUBSET Products,
           shop \in 1..Len(Catalogues), NEW e \in BOOLEAN, NEW org \in Origins,
           Asked(NewJob(r, n, o, e, org)), Prepare(NewJob(r, n, o, e, org))
    PROVE  \/ UNCHANGED store /\ Started(org, n, r)
           \/ UNCHANGED job /\ Answered(org, n, r)
<1>1. PICK cat, new : cat = Cat /\ new = NewJob(r, n, o, e, org)
  OBVIOUS
<1>2. cat = Catalogues[shop]
  BY <1>1 DEF Cat
<1>3. new = Call(r, n, o, shop, e, org, FALSE, None) /\ new.request = r /\ new.shop = shop
  BY <1>1 DEF NewJob, Call
<1>4. Asked(new) /\ Prepare(new)
  BY <1>1
<1>10. new = [request |-> r, noCost |-> n, owned |-> o, shop |-> shop,
              excludeLocked |-> e, origin |-> org, cut |-> FALSE, rejections |-> 0,
              pools |-> None, sols |-> <<>>, records |-> <<>>, forbidden |-> {}, done |-> FALSE]
  BY <1>3 DEF Call
<1>8. ASSUME NEW cut PROVE [new EXCEPT !.cut = cut] = Call(r, n, o, shop, e, org, cut, None)
  <2>1. PICK k : k = [new EXCEPT !.cut = cut]
    OBVIOUS
  <2>2. k = Call(r, n, o, shop, e, org, cut, None)
    BY <1>10, <2>1 DEF Call
  <2> QED
    BY <2>1, <2>2
<1>9. ASSUME NEW cut, NEW pool
      PROVE  [new EXCEPT !.pools = pool, !.cut = cut] = Call(r, n, o, shop, e, org, cut, pool)
  <2>1. PICK k : k = [new EXCEPT !.pools = pool, !.cut = cut]
    OBVIOUS
  <2>2. k = Call(r, n, o, shop, e, org, cut, pool)
    BY <1>10, <2>1 DEF Call
  <2> QED
    BY <2>1, <2>2
<1>5. ASSUME NEW cut \in BOOLEAN, ~cut => \A s \in Selections : ~Sound(new, s),
             store' = Append(store, Generation(Call(r, n, o, shop, e, org, cut, None),
                                               "INFEASIBLE", <<>>))
      PROVE  Answered(org, n, r)
  <2>1. PICK was : was = Call(r, n, o, shop, e, org, cut, None)
    OBVIOUS
  <2>3. SameCall(was, new)
    BY <1>3, <2>1, CallsSame
  <2>4. Asked(was) /\ (~cut => \A s \in Selections : ~Sound(was, s))
    BY <1>4, <1>5, <2>3, SameCallSame
  <2>5. PICK g : g = Generation(was, "INFEASIBLE", <<>>)
    OBVIOUS
  <2>6. /\ g \in GenerationShape /\ GenerationFine(g)
        /\ g.origin = org /\ g.noCost = n /\ g.request = r
    BY <2>1, <2>4, <2>5, UnsolvedFine
  <2>7. store' = Append(store, g)
    BY <1>5, <2>1, <2>5
  <2> QED
    BY <2>6, <2>7 DEF Answered
<1>6. CASE ~LocksAccepted(cat, r)
  <2>1. /\ store' = Append(store, Generation(Call(r, n, o, shop, e, org, FALSE, None),
                                             "INFEASIBLE", <<>>))
        /\ UNCHANGED job
    <3>1. ~LocksAccepted(Cat, new.request)
      BY <1>1, <1>3, <1>6
    <3>2. /\ store' = Append(store, Generation([new EXCEPT !.cut = FALSE], "INFEASIBLE", <<>>))
          /\ UNCHANGED job
      BY <1>4, <3>1, Zenon DEF Prepare
    <3> QED
      BY <1>8, <3>2, Zenon
  <2>2. \A s \in Selections : ~Sound(new, s)
    BY <1>2, <1>3, <1>6 DEF Sound, LocksAccepted
  <2> QED
    BY <1>5, <2>1, <2>2
<1>7. CASE LocksAccepted(cat, r)
  <2>1. PICK pools \in Retrievals(Cat, new.request) :
          LET short == \E c \in Categories \ Retained(new.request) :
                           pools[c] # Retrievable(Cat, new.request, c)
              pruned == Prune(Cat, pools)
          IN \/ /\ \E c \in Categories : {} \in {pools[c], pruned[c]}
                /\ store' = Append(store, Generation([new EXCEPT !.cut = short], "INFEASIBLE", <<>>))
                /\ UNCHANGED job
             \/ /\ \E pool \in Shortlists(pruned) :
                     job' = [new EXCEPT !.pools = pool, !.cut = short \/ pool # pruned]
                /\ UNCHANGED store
    <3>1. LocksAccepted(Cat, new.request)
      BY <1>1, <1>3, <1>7
    <3> QED
      BY <1>4, <3>1, Zenon DEF Prepare
  <2>2. PICK short : short = (\E c \in Categories \ Retained(new.request) :
                                 pools[c] # Retrievable(Cat, new.request, c))
    OBVIOUS
  <2>3. PICK pruned : pruned = Prune(Cat, pools)
    OBVIOUS
  <2>4. short \in BOOLEAN
    BY <2>2
  <2>5. pools \in Families /\ Retrieved(new, pools)
    BY <1>1, <1>2, <1>3, <1>4, RetrievalsWithin
  <2>6. pruned \in Families /\ \A c \in Categories : pruned[c] \subseteq pools[c]
    BY <2>3, <2>5, PruneTakes
  <2>7. ASSUME ~short, NEW s \in Selections, Sound(new, s)
        PROVE  Holds(pools, s) /\ Holds(pruned, s)
    <3>1. \A c \in Categories \ Retained(new.request) :
            pools[c] = Retrievable(Catalogues[new.shop], new.request, c)
      BY <1>1, <1>2, <1>3, <2>2, <2>7
    <3>2. pools \in Retrievals(Catalogues[new.shop], new.request)
      BY <1>1, <1>2, <1>3
    <3>3. Holds(pools, s)
      BY <1>4, <2>7, <3>1, <3>2, RetrievalHolds
    <3>4. Holds(Prune(Catalogues[new.shop], pools), s)
      BY <2>5, <2>7, <3>3, PruneSpares
    <3> QED
      BY <1>1, <1>2, <1>3, <2>3, <3>3, <3>4
  <2>8. ASSUME \E c \in Categories : {} \in {pools[c], pruned[c]},
               store' = Append(store, Generation(Call(r, n, o, shop, e, org, short, None),
                                                 "INFEASIBLE", <<>>)),
               UNCHANGED job
        PROVE  UNCHANGED job /\ Answered(org, n, r)
    <3>1. ~short => \A s \in Selections : ~Sound(new, s)
      BY <2>7, <2>8 DEF Holds
    <3> QED
      BY <1>5, <2>4, <2>8, <3>1
  <2>9. ASSUME NEW pool \in Shortlists(pruned),
               NEW cut, cut = (short \/ pool # pruned),
               job' = Call(r, n, o, shop, e, org, cut, pool)
        PROVE  Started(org, n, r)
    <3>2. cut \in BOOLEAN
      BY <2>9
    <3>3. PICK j : j = Call(r, n, o, shop, e, org, cut, pool)
      OBVIOUS
    <3>4. job' = j
      BY <2>9, <3>3
    <3>5. pool \in Families /\ \A c \in Categories : pool[c] \subseteq pruned[c]
      BY <2>6, ShortlistsWithin
    <3>6. SameCall(j, new)
      BY <1>3, <3>3, CallsSame
    <3>7. Asked(j) /\ Retrieved(j, pool)
      <4>1. Retrieved(new, pool)
        BY <2>5, <2>6, <3>5 DEF Retrieved
      <4> QED
        BY <1>4, <3>6, <4>1, SameCallSame
    <3>8. ~cut => \A s \in Selections : Sound(j, s) => Holds(pool, s)
      BY <1>4, <2>7, <2>9, <3>6, SameCallSame
    <3>9. JobFine(j) /\ j.origin = org /\ j.noCost = n /\ j.request = r
      BY <1>2, <1>7, <3>2, <3>3, <3>5, <3>7, <3>8, StartedFine
    <3> QED
      BY <3>4, <3>9 DEF Started
  <2>10. \/ /\ \E c \in Categories : {} \in {pools[c], pruned[c]}
            /\ store' = Append(store, Generation([new EXCEPT !.cut = short], "INFEASIBLE", <<>>))
            /\ UNCHANGED job
         \/ /\ \E pool \in Shortlists(pruned) :
                 job' = [new EXCEPT !.pools = pool, !.cut = short \/ pool # pruned]
            /\ UNCHANGED store
    BY <2>1, <2>2, <2>3, Zenon
  <2>11. CASE /\ \E c \in Categories : {} \in {pools[c], pruned[c]}
              /\ store' = Append(store, Generation([new EXCEPT !.cut = short], "INFEASIBLE", <<>>))
              /\ UNCHANGED job
    <3>1. store' = Append(store, Generation(Call(r, n, o, shop, e, org, short, None),
                                            "INFEASIBLE", <<>>))
      BY <1>8, <2>11, Zenon
    <3> QED
      BY <2>8, <2>11, <3>1, Zenon
  <2>12. CASE /\ \E pool \in Shortlists(pruned) :
                   job' = [new EXCEPT !.pools = pool, !.cut = short \/ pool # pruned]
              /\ UNCHANGED store
    <3>1. PICK pool \in Shortlists(pruned) :
            job' = [new EXCEPT !.pools = pool, !.cut = short \/ pool # pruned]
      BY <2>12, Zenon
    <3>2. PICK cut : cut = (short \/ pool # pruned)
      OBVIOUS
    <3>3. job' = Call(r, n, o, shop, e, org, cut, pool)
      BY <1>9, <3>1, <3>2, Zenon
    <3> QED
      BY <2>9, <2>12, <3>2, <3>3, Zenon
  <2> QED
    BY <2>10, <2>11, <2>12, Zenon
<1> QED
  BY <1>6, <1>7

-----------------------------------------------------------------------------
(* The steps *)

\* What a replacement keeps does not depend on what is saved later.
LEMMA DerivedGrows ==
    ASSUME NEW st \in Seq(GenerationShape), NEW g \in GenerationShape, NEW x, Derived(x, st),
           NEW y, y.origin = x.origin, y.noCost = x.noCost, y.request = x.request
    PROVE  Derived(y, st) /\ Derived(y, Append(st, g))
<1>1. PICK n \in Nat : n = Len(st)
  OBVIOUS
<1>2. Longer(Append(st, g), st, g, n)
  BY <1>1, Appended
<1>3. Derived(y, st)
  BY DEF Derived
<1>4. Derived(y, Append(st, g))
  <2> SUFFICES ASSUME y.origin # None PROVE Derived(y, Append(st, g))
    BY DEF Derived
  <2>1. PICK i \in 1..n : i = y.origin.generation
    BY <1>1, <1>3 DEF Derived
  <2>2. Append(st, g)[i] = st[i] /\ i \in 1..Len(Append(st, g))
    BY <1>2 DEF Longer
  <2> QED
    BY <1>3, <2>1, <2>2 DEF Derived
<1> QED
  BY <1>3, <1>4

\* One more generation is saved.
LEMMA SavingKeeps ==
    ASSUME Inv, NEW g \in GenerationShape, GenerationFine(g), Derived(g, store),
           Len(store) < MaxGenerations, store' = Append(store, g)
    PROVE  /\ store' \in Seq(GenerationShape) /\ Len(store') <= MaxGenerations
           /\ \A i \in 1..Len(store') : GenerationFine(store'[i]) /\ Derived(store'[i], store')
<1>1. PICK st \in Seq(GenerationShape), n \in Nat : st = store /\ n = Len(st)
  BY DEF Inv
<1>2. PICK new : new = Append(st, g)
  OBVIOUS
<1>3. Longer(new, st, g, n) /\ new \in Seq(GenerationShape)
  BY <1>1, <1>2, Appended
<1>4. ASSUME NEW i \in 1..(n + 1) PROVE GenerationFine(new[i]) /\ Derived(new[i], new)
  <2>1. CASE i \in 1..n
    <3>1. new[i] = st[i] /\ GenerationFine(st[i]) /\ Derived(st[i], st)
      BY <1>1, <1>3, <2>1 DEF Longer, Inv
    <3> QED
      BY <1>2, <3>1, DerivedGrows
  <2>2. CASE i = n + 1
    <3>1. new[i] = g
      BY <1>3, <2>2 DEF Longer
    <3>2. Derived(g, Append(st, g))
      BY <1>1, DerivedGrows
    <3> QED
      BY <1>2, <3>1, <3>2
  <2>3. i \in 1..n \/ i = n + 1
    OBVIOUS
  <2> QED
    BY <2>1, <2>2, <2>3
<1>5. Len(new) = n + 1
  BY <1>3 DEF Longer
<1>6. n + 1 <= MaxGenerations
  BY <1>1, GenerationAssumption DEF GenerationAssumption
<1>7. store' = new
  BY <1>1, <1>2
<1> QED
  BY <1>3, <1>4, <1>5, <1>6, <1>7

\* A call that was prepared keeps the invariant.
LEMMA PreparedKeeps ==
    ASSUME Inv, job = None, Len(store) < MaxGenerations, UNCHANGED <<shop, restarts>>,
           NEW org, NEW n, NEW r,
           NEW call, call.origin = org, call.noCost = n, call.request = r, Derived(call, store),
           \/ UNCHANGED store /\ Started(org, n, r)
           \/ UNCHANGED job /\ Answered(org, n, r)
    PROVE  Inv'
<1>1. shop' \in 1..Len(Catalogues) /\ restarts' \in 0..MaxRestarts
  BY DEF Inv
<1>2. CASE UNCHANGED store /\ Started(org, n, r)
  <2>1. PICK j : j = job'
    OBVIOUS
  <2>2. JobFine(j) /\ j.origin = call.origin /\ j.noCost = call.noCost /\ j.request = call.request
    BY <1>2, <2>1 DEF Started
  <2>3. Derived(j, store)
    BY <2>2 DEF Derived
  <2> QED
    BY <1>1, <1>2, <2>1, <2>2, <2>3 DEF Inv
<1>3. CASE UNCHANGED job /\ Answered(org, n, r)
  <2>1. PICK g \in GenerationShape : /\ GenerationFine(g)
                                     /\ g.origin = org /\ g.noCost = n /\ g.request = r
                                     /\ store' = Append(store, g)
    BY <1>3 DEF Answered
  <2>2. Derived(g, store)
    BY <2>1 DEF Derived
  <2>3. /\ store' \in Seq(GenerationShape) /\ Len(store') <= MaxGenerations
        /\ \A i \in 1..Len(store') : GenerationFine(store'[i]) /\ Derived(store'[i], store')
    BY <2>1, <2>2, SavingKeeps
  <2> QED
    BY <1>1, <1>3, <2>3 DEF Inv
<1> QED
  BY <1>2, <1>3

LEMMA GenerateStep ==
    ASSUME Inv, NEW request \in Requests, Generate(request)
    PROVE  Inv'
<1>1. /\ request \in RequestShape /\ Len(request.profiles) \in 1..5
  BY GenerationAssumption DEF GenerationAssumption
<1>2. request.existing \in SUBSET Products /\ request.included \subseteq Products
  BY <1>1 DEF RequestShape
<1>3. PICK all : all = (request.included = {})
  OBVIOUS
<1>4. all \in BOOLEAN
  BY <1>3
<1>5. PICK n \in SUBSET Products : n = request.existing \ request.included
  BY <1>2
<1>6. PICK new : new = NewJob(request, n, request.existing, all, None)
  OBVIOUS
<1>7. Prepare(new)
  BY <1>3, <1>5, <1>6, Zenon DEF Generate
<1>8. /\ new.request = request /\ new.noCost = n /\ new.owned = request.existing
      /\ new.excludeLocked = all /\ new.origin = None /\ new.shop = shop
  BY <1>6 DEF NewJob
<1>9. Asked(new)
  <2>1. Len(request.profiles) # 0
    BY <1>1
  <2>2. shop \in 1..Len(Catalogues)
    BY DEF Inv
  <2>3. all => n = request.existing
    BY <1>3, <1>5
  <2>4. n \subseteq request.existing
    BY <1>5
  <2> QED
    BY <1>1, <1>2, <1>4, <1>8, <2>1, <2>2, <2>3, <2>4 DEF Asked
<1>10. None \in Origins
  BY DEF Origins
<1>11. \/ UNCHANGED store /\ Started(None, n, request)
       \/ UNCHANGED job /\ Answered(None, n, request)
  BY <1>1, <1>2, <1>4, <1>6, <1>7, <1>9, <1>10, PrepareStep DEF Inv
<1>12. Derived(new, store)
  BY <1>8 DEF Derived
<1> QED
  BY <1>8, <1>11, <1>12, PreparedKeeps DEF Generate

LEMMA ReplaceStep ==
    ASSUME Inv, NEW i \in 1..Len(store), NEW b \in 1..Len(store[i].builds),
           NEW c \in Categories, NEW p \in InCategory(c), NEW mode \in Modes,
           Replace(i, b, c, p, mode)
    PROVE  Inv'
<1>1. PICK g \in GenerationShape : g = store[i]
  BY DEF Inv
<1>2. GenerationFine(g)
  BY <1>1 DEF Inv
<1>3. g.builds \in Seq(BuildShape) /\ g.request \in RequestShape
  BY DEF GenerationShape
<1>4. PICK build \in BuildShape : build = g.builds[b]
  BY <1>1, <1>3
<1>5. PICK s \in Selections, pr \in Profiles : s = build.parts /\ pr = build.profile
  BY DEF BuildShape
<1>6. PICK parts : parts = [s EXCEPT ![c] = p]
  OBVIOUS
<1>7. parts \in Selections /\ parts[c] = p /\ \A d \in Categories \ {c} : parts[d] = s[d]
  <2>1. p \in Products /\ CategoryOf[p] = c
    BY DEF InCategory
  <2> QED
    BY <1>6, <2>1 DEF Selections
<1>8. PICK old : old = s[c]
  OBVIOUS
<1>9. PICK existing : existing = Locked(g, parts, p, mode)
  OBVIOUS
<1>10. existing \in SUBSET Products
  <2>1. Parts(parts) \subseteq Products
    BY <1>7, PartsAre
  <2> QED
    BY <1>9, <2>1 DEF Locked
<1>11. PICK r : r = [g.request EXCEPT !.existing = existing, !.included = {},
                                      !.profiles = <<pr>>]
  OBVIOUS
<1>12. r \in RequestShape /\ r.existing = existing /\ Len(r.profiles) = 1
  <2>1. <<pr>> \in Seq(Profiles) /\ Len(<<pr>>) = 1
    OBVIOUS
  <2>2. PICK q \in RequestShape : q = g.request
    BY <1>3
  <2>3. r = [q EXCEPT !.existing = existing, !.included = {}, !.profiles = <<pr>>]
    BY <1>11, <2>2
  <2> QED
    BY <1>10, <2>1, <2>3 DEF RequestShape
<1>13. Asked(g) /\ g.request.existing \subseteq Parts(s)
  BY <1>1, <1>2, <1>4, <1>5 DEF GenerationFine, SoundBuilds, Sound, Compatible
<1>14. PICK n, o : n = g.noCost \ {old} /\ o = g.owned \ {old}
  OBVIOUS
<1>15. n \subseteq g.noCost \cap Parts(s) /\ n \in SUBSET Products /\ o \in SUBSET Products
  BY <1>13, <1>14, SnapshotIs DEF Asked
<1>16. n \subseteq existing
  <2> SUFFICES ASSUME NEW q \in n PROVE q \in existing
    OBVIOUS
  <2>1. q \in g.noCost /\ q \in Parts(s) /\ q # old
    BY <1>14, <1>15
  <2>2. PICK d \in Categories : q = s[d]
    BY <2>1, PartsAre
  <2>3. d # c
    BY <1>8, <2>1, <2>2
  <2>4. q \in Parts(parts)
    BY <1>7, <2>2, <2>3, PartsAre
  <2> QED
    BY <1>9, <2>1, <2>4 DEF Locked
<1>17. PICK org : org = [generation |-> i, build |-> b, category |-> c, product |-> p,
                         mode |-> mode]
  OBVIOUS
<1>18. org \in Origins
  <2>1. i \in Nat /\ b \in Nat /\ p \in Products
    BY DEF InCategory
  <2> QED
    BY <1>17, <2>1 DEF Origins
<1>19. PICK new : new = NewJob(r, n, o, FALSE, org)
  OBVIOUS
<1>20. Prepare(new)
  <2>1. Prepare(NewJob([g.request EXCEPT !.existing = Locked(g, parts, p, mode), !.included = {},
                                         !.profiles = <<build.profile>>],
                       g.noCost \ {build.parts[c]}, g.owned \ {build.parts[c]}, FALSE,
                       [generation |-> i, build |-> b, category |-> c, product |-> p,
                        mode |-> mode]))
    BY <1>1, <1>4, <1>5, <1>6, Zenon DEF Replace
  <2> QED
    BY <1>5, <1>8, <1>9, <1>11, <1>14, <1>17, <1>19, <2>1, Zenon
<1>21. /\ new.request = r /\ new.noCost = n /\ new.owned = o
       /\ new.excludeLocked = FALSE /\ new.origin = org /\ new.shop = shop
  BY <1>19 DEF NewJob
<1>22. Asked(new)
  <2>1. shop \in 1..Len(Catalogues)
    BY DEF Inv
  <2>2. Len(r.profiles) # 0
    BY <1>12
  <2>3. /\ new.shop \in 1..Len(Catalogues) /\ new.request \in RequestShape
        /\ Len(new.request.profiles) # 0 /\ new.noCost \subseteq new.request.existing
        /\ new.owned \subseteq Products /\ new.excludeLocked = FALSE
    BY <1>12, <1>15, <1>16, <1>21, <2>1, <2>2, Zenon
  <2> QED
    BY <2>3 DEF Asked
<1>23. \/ UNCHANGED store /\ Started(org, n, r)
       \/ UNCHANGED job /\ Answered(org, n, r)
  BY <1>12, <1>15, <1>18, <1>19, <1>20, <1>22, PrepareStep DEF Inv
<1>24. Derived(new, store)
  <2>1. org.generation = i /\ org.build = b /\ org.category = c /\ org.product = p
        /\ org.mode = mode
    BY <1>17
  <2>2. n \subseteq g.noCost \cap Parts(s) /\ r.existing = Locked(g, parts, p, mode)
    BY <1>9, <1>12, <1>15
  <2> QED
    BY <1>1, <1>4, <1>5, <1>6, <1>21, <2>1, <2>2 DEF Derived
<1> QED
  BY <1>21, <1>23, <1>24, PreparedKeeps DEF Replace

LEMMA SolveKeeps ==
    ASSUME Inv, Solve
    PROVE  Inv'
<1>1. PICK k : k = job'
  OBVIOUS
<1>2. JobFine(k) /\ SameJob(job, k)
  BY <1>1, SolveStep
<1>3. k.origin = job.origin /\ k.noCost = job.noCost /\ k.request = job.request
  BY <1>2 DEF SameJob, SameCall
<1>4. Derived(job, store) /\ Len(store) < MaxGenerations /\ UNCHANGED <<shop, store, restarts>>
  BY DEF Inv, Solve
<1>5. Derived(k, store)
  BY <1>3, <1>4 DEF Derived
<1> QED
  BY <1>1, <1>2, <1>4, <1>5 DEF Inv

LEMMA SaveKeeps ==
    ASSUME Inv, Save
    PROVE  Inv'
<1>1. PICK j : j = job
  OBVIOUS
<1>2. JobFine(j) /\ j.done /\ Derived(j, store) /\ Len(store) < MaxGenerations
  BY <1>1 DEF Inv, Save
<1>3. PICK g : g = Generation(j, ResultStatus(j), Presented(Task(j, j.pools), j.sols))
  OBVIOUS
<1>4. store' = Append(store, g) /\ job' = None /\ UNCHANGED <<shop, restarts>>
  BY <1>1, <1>3 DEF Save, JobTask
<1>5. /\ g \in GenerationShape /\ GenerationFine(g)
      /\ g.origin = j.origin /\ g.noCost = j.noCost /\ g.request = j.request
  BY <1>2, <1>3, SavedFine
<1>6. Derived(g, store)
  BY <1>2, <1>5 DEF Derived
<1>7. /\ store' \in Seq(GenerationShape) /\ Len(store') <= MaxGenerations
      /\ \A i \in 1..Len(store') : GenerationFine(store'[i]) /\ Derived(store'[i], store')
  BY <1>2, <1>4, <1>5, <1>6, SavingKeeps
<1> QED
  BY <1>4, <1>7 DEF Inv

LEMMA RestartKeeps ==
    ASSUME Inv, NEW i \in 1..Len(Catalogues), Restart(i)
    PROVE  Inv'
<1>1. restarts' \in 0..MaxRestarts
  BY GenerationAssumption DEF Inv, Restart, GenerationAssumption
<1> QED
  BY <1>1 DEF Inv, Restart

-----------------------------------------------------------------------------
(* What holds always *)

LEMMA InitInv ==
    ASSUME Init
    PROVE  Inv
<1>1. <<>> \in Seq(GenerationShape) /\ Len(<<>>) = 0
  OBVIOUS
<1>2. 0 <= MaxGenerations /\ 0 \in 0..MaxRestarts
  BY GenerationAssumption DEF GenerationAssumption
<1> QED
  BY <1>1, <1>2 DEF Init, Inv

LEMMA StepInv ==
    ASSUME Inv, [Next]_vars
    PROVE  Inv'
<1>1. CASE \E request \in Requests : Generate(request)
  BY <1>1, GenerateStep
<1>2. CASE \E i \in 1..Len(store) : \E b \in 1..Len(store[i].builds) : \E c \in Categories :
             \E p \in InCategory(c) : \E mode \in Modes : Replace(i, b, c, p, mode)
  BY <1>2, ReplaceStep
<1>3. CASE Solve
  BY <1>3, SolveKeeps
<1>4. CASE Save
  BY <1>4, SaveKeeps
<1>5. CASE \E i \in 1..Len(Catalogues) : Restart(i)
  BY <1>5, RestartKeeps
<1>6. CASE UNCHANGED vars
  BY <1>6 DEF Inv, vars
<1> QED
  BY <1>1, <1>2, <1>3, <1>4, <1>5, <1>6 DEF Next

(* The call at work and every generation saved are fine at all times, over any *)
(* number of calls, replacements and restarts: what the properties below are   *)
(* read off.                                                                   *)
THEOREM Invariance == Spec => []Inv
<1>1. Init => Inv
  BY InitInv
<1>2. Inv /\ [Next]_vars => Inv'
  BY StepInv
<1> QED
  BY <1>1, <1>2, PTL DEF Spec

(* The call at work and the saved generations have their shapes, a call has at *)
(* most one solution and one record for a profile, and the rejections stay     *)
(* within max_validator_rejections (optimizer/engine.py's loop).               *)
THEOREM TypesHold == Spec => []TypeOK
<1>1. ASSUME Inv PROVE TypeOK
  <2>1. ASSUME NEW i \in 1..Len(store)
        PROVE  /\ store[i].status \in Statuses
               /\ store[i].noCost \subseteq Products /\ store[i].owned \subseteq Products
               /\ store[i].builds \in Seq(BuildShape)
               /\ store[i].rejections <= MaxRejections
    <3>1. GenerationFine(store[i])
      BY <1>1, <2>1 DEF Inv
    <3>2. Asked(store[i]) /\ ShapeKept(store[i])
      BY <3>1 DEF GenerationFine
    <3>3. store[i].noCost \subseteq Products /\ store[i].owned \subseteq Products
      BY <3>2, SnapshotIs DEF Asked
    <3> QED
      BY <3>2, <3>3 DEF ShapeKept
  <2>2. ASSUME job # None
        PROVE  /\ Len(job.sols) <= Requested(job)
               /\ Len(job.records) <= Requested(job)
               /\ job.rejections <= MaxRejections
               /\ ToSet(job.records) \subseteq Statuses
    <3>1. JobFine(job)
      BY <1>1, <2>2 DEF Inv
    <3>2. Len(job.sols) <= Requested(job) /\ Len(job.records) <= Requested(job)
          /\ job.rejections <= MaxRejections
      BY <3>1 DEF JobFine, SolutionsFine, ProgressFine
    <3>3. PICK q \in Seq(Statuses) : q = job.records
      BY <3>1 DEF JobFine, JobShape
    <3>4. \A k \in DOMAIN q : q[k] \in Statuses
      OBVIOUS
    <3> QED
      BY <3>2, <3>3, <3>4 DEF ToSet
  <2> QED
    BY <1>1, <2>1, <2>2 DEF Inv, TypeOK
<1> QED
  BY <1>1, Invariance, PTL

(* Every build of every generation saved is complete, compatible with the      *)
(* parts kept, within budget by the catalogue's own prices, meets the filters, *)
(* and differs from the others, whatever retrieval, pruning, ranking and the   *)
(* solver chose (application/services.py generate and replace).                *)
THEOREM BuildsStaySound == Spec => []BuildsSound
<1>1. ASSUME Inv PROVE BuildsSound
  <2>1. \A i \in 1..Len(store) : SoundBuilds(store[i])
    BY <1>1 DEF Inv, GenerationFine
  <2> QED
    BY <2>1 DEF BuildsSound, SoundBuilds
<1> QED
  BY <1>1, Invariance, PTL

(* The status saved is the truth: "infeasible" and "optimal" are said of the   *)
(* whole catalogue unless a pool was cut short or the rejections ran out, and  *)
(* there are builds only under a conclusive status (optimizer/engine.py and    *)
(* core_service.py _assert_conclusive).                                        *)
THEOREM StatusStaysHonest == Spec => []HonestStatus
<1>1. ASSUME Inv PROVE HonestStatus
  <2>1. \A i \in 1..Len(store) : TrueStatus(store[i])
    BY <1>1 DEF Inv, GenerationFine
  <2> QED
    BY <2>1 DEF HonestStatus, TrueStatus
<1> QED
  BY <1>1, Invariance, PTL

(* A replacement has its new part in every build and keeps what it locked, and *)
(* the user's own parts, as they were in the build replaced; nothing becomes   *)
(* free of cost (application/services.py ReplaceComponentService.replace).     *)
THEOREM ReplacementsKeep == Spec => []ReplacementKept
<1>1. ASSUME Inv PROVE ReplacementKept
  <2> SUFFICES ASSUME NEW i \in 1..Len(store), store[i].origin # None
               PROVE  LET g == store[i]
                          from == store[g.origin.generation]
                          build == from.builds[g.origin.build]
                          mine == from.noCost \cup from.owned
                      IN /\ g.noCost \subseteq from.noCost \cap Parts(build.parts)
                         /\ \A b \in 1..Len(g.builds) : \A c \in Categories :
                              LET part == g.builds[b].parts[c]
                              IN IF c = g.origin.category THEN part = g.origin.product
                                 ELSE g.origin.mode = "lock_other_components"
                                        \/ build.parts[c] \in mine
                                          => part = build.parts[c]
    BY Zenon DEF ReplacementKept
  <2>1. PICK g \in GenerationShape : g = store[i]
    BY <1>1 DEF Inv
  <2>2. GenerationFine(g) /\ Derived(g, store)
    BY <1>1, <2>1 DEF Inv
  <2>3. PICK n, a, p, mode :
            /\ n \in 1..Len(store) /\ a \in Categories
            /\ n = g.origin.generation /\ a = g.origin.category /\ p = g.origin.product
            /\ mode = g.origin.mode /\ p \in InCategory(a)
    BY <2>1, <2>2 DEF Derived
  <2>4. PICK from \in GenerationShape : from = store[n]
    BY <1>1, <2>3 DEF Inv
  <2>5. PICK build \in BuildShape : build = from.builds[g.origin.build]
    <3>1. from.builds \in Seq(BuildShape)
      BY DEF GenerationShape
    <3>2. g.origin.build \in 1..Len(from.builds)
      BY <2>1, <2>2, <2>3, <2>4 DEF Derived
    <3> QED
      BY <3>1, <3>2
  <2>6. PICK s \in Selections : s = build.parts
    BY DEF BuildShape
  <2>7. PICK new : new = [s EXCEPT ![a] = p]
    OBVIOUS
  <2>8. new \in Selections /\ new[a] = p /\ \A c \in Categories \ {a} : new[c] = s[c]
    <3>1. p \in Products /\ CategoryOf[p] = a
      BY <2>3 DEF InCategory
    <3> QED
      BY <2>3, <2>7, <3>1 DEF Selections
  <2>9. /\ g.noCost \subseteq from.noCost \cap Parts(s)
        /\ g.request.existing = Locked(from, new, p, mode)
    BY <2>1, <2>2, <2>3, <2>4, <2>5, <2>6, <2>7 DEF Derived
  <2>10. ASSUME NEW b \in 1..Len(g.builds), NEW c \in Categories
         PROVE  IF c = a THEN g.builds[b].parts[c] = p
                ELSE mode = "lock_other_components" \/ s[c] \in from.noCost \cup from.owned
                       => g.builds[b].parts[c] = s[c]
    <3>1. PICK z \in Selections : z = g.builds[b].parts
      <4>1. g.builds[b] \in BuildShape
        BY DEF GenerationShape
      <4> QED
        BY <4>1 DEF BuildShape
    <3>2. g.request.existing \subseteq Parts(z)
      BY <2>2, <3>1 DEF GenerationFine, SoundBuilds, Sound, Compatible
    <3>3. ASSUME new[c] \in g.request.existing PROVE z[c] = new[c]
      <4>1. new[c] \in Parts(z)
        BY <3>2, <3>3
      <4>2. CategoryOf[new[c]] = c
        BY <2>8, PartsAre
      <4> QED
        BY <4>1, <4>2, PartsAre
    <3>4. new[c] \in Parts(new)
      BY <2>8, PartsAre
    <3>5. CASE c = a
      <4>1. new[c] \in g.request.existing
        BY <2>8, <2>9, <3>4, <3>5 DEF Locked
      <4> QED
        BY <2>8, <3>1, <3>3, <3>5, <4>1
    <3>6. CASE c # a /\ (mode = "lock_other_components" \/ s[c] \in from.noCost \cup from.owned)
      <4>1. new[c] = s[c]
        BY <2>8, <3>6
      <4>2. new[c] \in g.request.existing
        BY <2>9, <3>4, <3>6, <4>1 DEF Locked
      <4> QED
        BY <3>1, <3>3, <3>6, <4>1, <4>2
    <3> QED
      BY <3>5, <3>6
  <2>11. /\ store[i] = g /\ store[g.origin.generation] = from
         /\ from.builds[g.origin.build] = build /\ build.parts = s
    BY <2>1, <2>3, <2>4, <2>5, <2>6
  <2>12. /\ g.origin.category = a /\ g.origin.product = p /\ g.origin.mode = mode
    BY <2>3
  <2>13. /\ g.noCost \subseteq from.noCost \cap Parts(s)
         /\ \A b \in 1..Len(g.builds) : \A c \in Categories :
              IF c = a THEN g.builds[b].parts[c] = p
              ELSE mode = "lock_other_components" \/ s[c] \in from.noCost \cup from.owned
                     => g.builds[b].parts[c] = s[c]
    BY <2>9, <2>10
  <2> QED
    BY <2>11, <2>12, <2>13
<1> QED
  BY <1>1, Invariance, PTL

(* An alternative that was offered can be taken: replacing it with the other   *)
(* parts locked passes every gate on the same catalogue, but for the solver's  *)
(* own power and connector rules (application/services.py's alternatives).     *)
THEOREM OffersStayTrue == Spec => []OffersHold
<1>1. ASSUME Inv PROVE OffersHold
  <2>1. \A i \in 1..Len(store) : OffersTaken(store[i])
    BY <1>1 DEF Inv, GenerationFine
  <2> QED
    BY <2>1, Zenon DEF OffersHold, OffersTaken, Passes
<1> QED
  BY <1>1, Invariance, PTL

==============================================================================
