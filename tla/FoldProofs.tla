----------------------------- MODULE FoldProofs -----------------------------
(***************************************************************************)
(* Folds over finite sets.  The induction principle is stated about a set  *)
(* of subsets, so that it can be cited without an operator as a parameter. *)
(***************************************************************************)
EXTENDS FiniteSetsExt, FiniteSetTheorems, TLAPS

\* Induction over the subsets of a finite set.
LEMMA SubsetInduction ==
  ASSUME NEW S, IsFiniteSet(S), NEW Good,
         \A s \in SUBSET S : (\A x \in s : s \ {x} \in Good) => s \in Good
  PROVE  SUBSET S \subseteq Good
<1> DEFINE missing == (SUBSET S) \ Good
           smaller == StrictSubsetOrdering(S)
<1> SUFFICES ASSUME missing # {} PROVE FALSE
  OBVIOUS
<1>1. IsWellFoundedOn(smaller, FiniteSubsetsOf(S)) /\ missing \subseteq FiniteSubsetsOf(S)
  BY FS_StrictSubsetOrderingWellFounded, FS_Subset DEF FiniteSubsetsOf
<1>2. PICK s \in missing : \A t \in missing : <<t, s>> \notin smaller
  <2> HIDE DEF missing, smaller
  <2> QED BY <1>1, WFMin
<1>3. \A x \in s : <<s \ {x}, s>> \in smaller
  BY DEF StrictSubsetOrdering
<1>4. \A x \in s : s \ {x} \in Good
  <2> HIDE DEF smaller
  <2> QED BY <1>2, <1>3
<1> QED BY <1>4

(***************************************************************************)
(* What a fold computes over the subsets of a set: element by element, in  *)
(* the order c chooses, each by its function G[x].                         *)
(***************************************************************************)
Folds(g, S, base, G, c) ==
  \A s \in SUBSET S : g[s] = IF s = {} THEN base ELSE G[c[s]][g[s \ {c[s]}]]

Chooses(c, S) == \A s \in SUBSET S : s # {} => c[s] \in s

LEMMA FoldsAgree ==
  ASSUME NEW S, IsFiniteSet(S), NEW base, NEW G, NEW c, Chooses(c, S),
         NEW g, NEW h, Folds(g, S, base, G, c), Folds(h, S, base, G, c)
  PROVE  \A s \in SUBSET S : g[s] = h[s]
<1> DEFINE Good == {s \in SUBSET S : g[s] = h[s]}
<1>1. ASSUME NEW s \in SUBSET S, \A x \in s : s \ {x} \in Good
      PROVE  s \in Good
  <2>1. CASE s = {}
    BY <2>1 DEF Folds
  <2>2. CASE s # {}
    <3>1. c[s] \in s
      BY <2>2 DEF Chooses
    <3>2. g[s \ {c[s]}] = h[s \ {c[s]}]
      BY <1>1, <3>1
    <3> QED BY <2>2, <3>2 DEF Folds
  <2> QED BY <2>1, <2>2
<1>2. SUBSET S \subseteq Good
  <2> HIDE DEF Good
  <2> QED BY <1>1, SubsetInduction
<1> QED BY <1>2

LEMMA FoldsPart ==
  ASSUME NEW S, NEW T \in SUBSET S, NEW base, NEW G, NEW c, NEW g,
         Folds(g, S, base, G, c)
  PROVE  Folds(g, T, base, G, c)
BY DEF Folds

LEMMA FoldExists ==
  ASSUME NEW S, IsFiniteSet(S), NEW base, NEW G, NEW c, Chooses(c, S)
  PROVE  \E g : g = [s \in SUBSET S |-> g[s]] /\ Folds(g, S, base, G, c)
<1> DEFINE Good == {s \in SUBSET S : \E g : Folds(g, s, base, G, c)}
           part(s) == CHOOSE g : Folds(g, s, base, G, c)
<1>1. ASSUME NEW s \in SUBSET S, \A x \in s : s \ {x} \in Good
      PROVE  \E g : g = [t \in SUBSET s |-> g[t]] /\ Folds(g, s, base, G, c)
  <2> DEFINE g == [t \in SUBSET s |->
                     IF t = {} THEN base
                     ELSE G[c[t]][part(t \ {c[t]})[t \ {c[t]}]]]
  <2>0. /\ g = [t \in SUBSET s |-> g[t]]
        /\ \A t \in SUBSET s : g[t] = IF t = {} THEN base
                                      ELSE G[c[t]][part(t \ {c[t]})[t \ {c[t]}]]
    OBVIOUS
  <2>1. ASSUME NEW t \in SUBSET s, t # s
        PROVE  Folds(part(t), t, base, G, c)
    <3>1. PICK x \in s : t \subseteq s \ {x}
      BY <2>1
    <3>2. PICK h : Folds(h, s \ {x}, base, G, c)
      BY <1>1
    <3>3. Folds(h, t, base, G, c)
      BY <3>1, <3>2, FoldsPart
    <3> QED BY <3>3
  <2> HIDE DEF g, part
  <2>2. ASSUME NEW t \in SUBSET s, t # s
        PROVE  g[t] = part(t)[t]
    <3>1. CASE t = {}
      BY <2>0, <2>1, <2>2, <3>1 DEF Folds
    <3>2. CASE t # {}
      <4> DEFINE u == t \ {c[t]}
      <4>1. c[t] \in t /\ u \in SUBSET t /\ u # s
        BY <2>2, <3>2 DEF Chooses
      <4>2. part(t)[t] = G[c[t]][part(t)[u]]
        BY <2>1, <2>2, <3>2 DEF Folds
      <4>3. Folds(part(t), u, base, G, c) /\ Folds(part(u), u, base, G, c)
        BY <2>1, <2>2, <4>1, FoldsPart
      <4>4. part(t)[u] = part(u)[u]
        <5>1. IsFiniteSet(u) /\ Chooses(c, u)
          BY FS_Subset, <4>1 DEF Chooses
        <5> QED BY <4>3, <5>1, FoldsAgree
      <4> QED BY <2>0, <3>2, <4>2, <4>4
    <3> QED BY <3>1, <3>2
  <2>3. Folds(g, s, base, G, c)
    <3> SUFFICES ASSUME NEW t \in SUBSET s, t # {}
                 PROVE  g[t] = G[c[t]][g[t \ {c[t]}]]
      BY <2>0 DEF Folds
    <3>1. c[t] \in t /\ t \ {c[t]} \in SUBSET s /\ t \ {c[t]} # s
      BY DEF Chooses
    <3> QED BY <2>0, <2>2, <3>1
  <2> QED BY <2>0, <2>3
<1>2. SUBSET S \subseteq Good
  <2> HIDE DEF Good
  <2>1. ASSUME NEW s \in SUBSET S, \A x \in s : s \ {x} \in Good
        PROVE  s \in Good
    BY <1>1, <2>1 DEF Good
  <2> QED BY <2>1, SubsetInduction
<1> QED BY <1>1, <1>2

LEMMA FoldType ==
  ASSUME NEW S, IsFiniteSet(S), NEW V, NEW base \in V, NEW G \in [S -> [V -> V]], NEW c,
         Chooses(c, S), NEW g, Folds(g, S, base, G, c)
  PROVE  \A s \in SUBSET S : g[s] \in V
<1> DEFINE Good == {s \in SUBSET S : g[s] \in V}
<1>1. ASSUME NEW s \in SUBSET S, \A x \in s : s \ {x} \in Good
      PROVE  s \in Good
  <2>1. s # {} => c[s] \in s /\ c[s] \in S /\ g[s \ {c[s]}] \in V
    BY <1>1 DEF Chooses
  <2>2. s # {} => G[c[s]] \in [V -> V]
    BY <2>1
  <2> QED BY <2>1, <2>2 DEF Folds
<1>2. SUBSET S \subseteq Good
  <2> HIDE DEF Good
  <2> QED BY <1>1, SubsetInduction
<1> QED BY <1>2

-----------------------------------------------------------------------------
(* Folds over a sequence: the set of its positions, the last one first.    *)

LEMMA MaxIsLargest ==
  ASSUME NEW S \in SUBSET Int, IsFiniteSet(S)
  PROVE  \A s \in SUBSET S : s # {} => Max(s) \in s /\ \A y \in s : Max(s) >= y
<1> DEFINE Good == {s \in SUBSET S : s # {} => \E x \in s : \A y \in s : x >= y}
<1>1. ASSUME NEW s \in SUBSET S, \A x \in s : s \ {x} \in Good
      PROVE  s \in Good
  <2> SUFFICES ASSUME NEW x \in s PROVE \E z \in s : \A y \in s : z >= y
    OBVIOUS
  <2>1. CASE s \ {x} = {}
    BY <2>1
  <2>2. CASE s \ {x} # {}
    <3>1. PICK z \in s \ {x} : \A y \in s \ {x} : z >= y
      BY <1>1, <2>2
    <3>2. CASE z >= x
      BY <3>1, <3>2
    <3>3. CASE x >= z
      <4>1. \A y \in s : x >= y
        BY <3>1, <3>3
      <4> QED BY <4>1
    <3> QED BY <3>1, <3>2, <3>3
  <2> QED BY <2>1, <2>2
<1>2. SUBSET S \subseteq Good
  <2> HIDE DEF Good
  <2> QED BY <1>1, SubsetInduction
<1> QED BY <1>2 DEF Max

InOrder(g, S, base, G) ==
  \A s \in SUBSET S : g[s] = IF s = {} THEN base ELSE G[Max(s)][g[s \ {Max(s)}]]

\* The choice of the largest, as the folds above take it.
Latest(S) == [s \in SUBSET S |-> Max(s)]

LEMMA LatestChooses ==
  ASSUME NEW n \in Nat
  PROVE  /\ IsFiniteSet(1 .. n)
         /\ Chooses(Latest(1 .. n), 1 .. n)
         /\ \A g, base, G : InOrder(g, 1 .. n, base, G) <=> Folds(g, 1 .. n, base, G, Latest(1 .. n))
<1>1. IsFiniteSet(1 .. n)
  BY FS_Interval
<1>2. 1 .. n \in SUBSET Int
  OBVIOUS
<1>3. Chooses(Latest(1 .. n), 1 .. n)
  BY <1>1, <1>2, MaxIsLargest DEF Chooses, Latest
<1> QED BY <1>1, <1>3 DEF InOrder, Folds, Latest

LEMMA LatestIsIn ==
  ASSUME NEW n \in Nat
  PROVE  \A s \in SUBSET (1 .. n) : s # {} => Max(s) \in s
BY LatestChooses DEF Chooses, Latest

LEMMA InOrderExists ==
  ASSUME NEW n \in Nat, NEW V, NEW base \in V, NEW G \in [1 .. n -> [V -> V]]
  PROVE  \E g : /\ g = [s \in SUBSET (1 .. n) |-> g[s]]
               /\ InOrder(g, 1 .. n, base, G)
               /\ \A s \in SUBSET (1 .. n) : g[s] \in V
<1> DEFINE S == 1 .. n
<1>1. IsFiniteSet(S) /\ Chooses(Latest(S), S)
  BY LatestChooses
<1>2. PICK g : g = [s \in SUBSET S |-> g[s]] /\ Folds(g, S, base, G, Latest(S))
  BY <1>1, FoldExists
<1>3. \A s \in SUBSET S : g[s] \in V
  <2> HIDE DEF S
  <2> QED BY <1>1, <1>2, FoldType DEF S
<1> QED BY <1>2, <1>3, LatestChooses

\* A recursion that follows G as long as its values are in V is the fold.
LEMMA InOrderTyped ==
  ASSUME NEW n \in Nat, NEW V, NEW base \in V, NEW G \in [1 .. n -> [V -> V]],
         NEW g, g[{}] = base,
         \A s \in SUBSET (1 .. n) : s # {} /\ g[s \ {Max(s)}] \in V =>
           g[s] = G[Max(s)][g[s \ {Max(s)}]]
  PROVE  InOrder(g, 1 .. n, base, G)
<1> DEFINE S == 1 .. n
           Good == {s \in SUBSET S : g[s] \in V}
<1>1. ASSUME NEW s \in SUBSET S, \A x \in s : s \ {x} \in Good
      PROVE  s \in Good
  <2>1. CASE s = {}
    BY <2>1
  <2>2. CASE s # {}
    <3>1. Max(s) \in s /\ G[Max(s)] \in [V -> V]
      BY <2>2, LatestIsIn
    <3>2. g[s \ {Max(s)}] \in V
      BY <1>1, <3>1
    <3> QED BY <2>2, <3>1, <3>2
  <2> QED BY <2>1, <2>2
<1>2. IsFiniteSet(S)
  BY LatestChooses
<1>3. SUBSET S \subseteq Good
  <2> HIDE DEF Good, S
  <2> QED BY <1>1, <1>2, SubsetInduction
<1>4. \A s \in SUBSET S : s \ {Max(s)} \in SUBSET S
  OBVIOUS
<1> QED BY <1>3, <1>4 DEF InOrder

\* A fold over one element more applies that element's function last.
Continues(n, V, base, G, H, g, h) ==
  /\ n \in Nat /\ base \in V /\ G \in [1 .. n -> [V -> V]]
  /\ \A i \in 1 .. n : H[i] = G[i]
  /\ InOrder(g, 1 .. n, base, G) /\ InOrder(h, 1 .. (n + 1), base, H)

LEMMA InOrderAppend ==
  ASSUME NEW n, NEW V, NEW base, NEW G, NEW H, NEW g, NEW h,
         Continues(n, V, base, G, H, g, h)
  PROVE  g[1 .. n] \in V /\ h[1 .. (n + 1)] = H[n + 1][g[1 .. n]]
<1> n \in Nat /\ base \in V /\ G \in [1 .. n -> [V -> V]]
  BY DEF Continues
<1> /\ \A i \in 1 .. n : H[i] = G[i]
    /\ InOrder(g, 1 .. n, base, G) /\ InOrder(h, 1 .. (n + 1), base, H)
  BY DEF Continues
<1>0. 1 .. n \in SUBSET (1 .. (n + 1)) /\ n + 1 \in Nat
  OBVIOUS
<1>1. g[1 .. n] \in V
  BY LatestChooses, FoldType
<1>2. InOrder(h, 1 .. n, base, G)
  <2> SUFFICES ASSUME NEW s \in SUBSET (1 .. n)
               PROVE  h[s] = IF s = {} THEN base ELSE G[Max(s)][h[s \ {Max(s)}]]
    BY DEF InOrder
  <2>1. s # {} => Max(s) \in 1 .. n
    BY LatestChooses DEF Chooses, Latest
  <2> QED BY <1>0, <2>1 DEF InOrder
<1>3. h[1 .. n] = g[1 .. n]
  <2>1. /\ Folds(h, 1 .. n, base, G, Latest(1 .. n))
        /\ Folds(g, 1 .. n, base, G, Latest(1 .. n))
    BY <1>2, LatestChooses
  <2>2. IsFiniteSet(1 .. n) /\ Chooses(Latest(1 .. n), 1 .. n)
    BY LatestChooses
  <2>3. \A s \in SUBSET (1 .. n) : h[s] = g[s]
    <3> DEFINE S == 1 .. n
               c == Latest(S)
    <3> HIDE DEF S, c
    <3>1. IsFiniteSet(S) /\ Chooses(c, S) /\ Folds(h, S, base, G, c) /\ Folds(g, S, base, G, c)
      BY <2>1, <2>2 DEF S, c
    <3>2. \A s \in SUBSET S : h[s] = g[s]
      BY <3>1, FoldsAgree
    <3> QED BY <3>2 DEF S
  <2> QED BY <2>3
<1>4. Max(1 .. (n + 1)) = n + 1
  <2>1. 1 .. (n + 1) \in SUBSET Int /\ IsFiniteSet(1 .. (n + 1)) /\ n + 1 \in 1 .. (n + 1)
    BY FS_Interval
  <2>2. Max(1 .. (n + 1)) \in 1 .. (n + 1) /\ Max(1 .. (n + 1)) >= n + 1
    BY <2>1, MaxIsLargest
  <2> QED BY <2>2
<1>5. (1 .. (n + 1)) \ {n + 1} = 1 .. n /\ 1 .. (n + 1) # {}
  OBVIOUS
<1>6. h[1 .. (n + 1)] = H[n + 1][h[1 .. n]]
  <2> DEFINE T == 1 .. (n + 1)
  <2>1. T \in SUBSET T /\ T # {} /\ Max(T) = n + 1 /\ T \ {n + 1} = 1 .. n
    BY <1>4, <1>5
  <2>2. InOrder(h, T, base, H)
    BY DEF Continues
  <2> HIDE DEF T
  <2>3. h[T] = H[Max(T)][h[T \ {Max(T)}]]
    BY <2>1, <2>2 DEF InOrder
  <2> QED BY <2>1, <2>3 DEF T
<1> QED BY <1>1, <1>3, <1>6

-----------------------------------------------------------------------------
(* Sums.                                                                   *)

Numbers(f, S) == \A x \in S : f[x] \in Nat

\* The fold under the sum, and its recursion equation.
Sums(g, f, S) ==
  \A s \in SUBSET S : g[s] = IF s = {} THEN 0
                             ELSE f[CHOOSE x \in s : TRUE] + g[s \ {CHOOSE x \in s : TRUE}]

LEMMA SumEquation ==
  ASSUME NEW S, IsFiniteSet(S), NEW f, Numbers(f, S)
  PROVE  \E g : Sums(g, f, S) /\ SumFunctionOnSet(f, S) = g[S]
<1> DEFINE c == [s \in SUBSET S |-> CHOOSE x \in s : TRUE]
           G == [x \in S |-> [v \in Nat |-> f[x] + v]]
           Step(g) == [s \in SUBSET S |-> IF s = {} THEN 0
                            ELSE f[CHOOSE x \in s : TRUE] + g[s \ {CHOOSE x \in s : TRUE}]]
           iter == CHOOSE g : g = Step(g)
<1>1. Chooses(c, S) /\ G \in [S -> [Nat -> Nat]]
  BY DEF Chooses, Numbers
<1>2. PICK g : g = [s \in SUBSET S |-> g[s]] /\ Folds(g, S, 0, G, c)
  <2> HIDE DEF c, G
  <2> QED BY <1>1, FoldExists
<1>3. \A s \in SUBSET S : g[s] \in Nat
  <2> HIDE DEF c, G
  <2> QED BY <1>1, <1>2, FoldType
<1>4. Sums(g, f, S)
  BY <1>1, <1>2, <1>3 DEF Folds, Chooses, Sums
<1>5. g = Step(g)
  BY <1>2, <1>4 DEF Sums
<1>6. iter = Step(iter)
  <2> HIDE DEF Step
  <2> QED BY <1>5
<1>7. SumFunctionOnSet(f, S) = iter[S]
  BY DEF SumFunctionOnSet, FoldFunctionOnSet, MapThenFoldSet
<1>8. Sums(iter, f, S)
  <2> HIDE DEF iter
  <2> QED BY <1>6 DEF Sums
<1> QED BY <1>7, <1>8

LEMMA SumTypes ==
  ASSUME NEW S, IsFiniteSet(S), NEW f, Numbers(f, S), NEW g, Sums(g, f, S)
  PROVE  \A s \in SUBSET S : g[s] \in Nat
<1> DEFINE Good == {s \in SUBSET S : g[s] \in Nat}
<1>1. ASSUME NEW s \in SUBSET S, \A x \in s : s \ {x} \in Good
      PROVE  s \in Good
  <2>1. CASE s = {}
    <3>1. g[s] = 0
      BY <2>1 DEF Sums
    <3> QED BY <3>1
  <2>2. CASE s # {}
    <3>1. PICK x \in s : g[s] = f[x] + g[s \ {x}]
      BY <2>2 DEF Sums
    <3>2. f[x] \in Nat /\ g[s \ {x}] \in Nat
      BY <1>1 DEF Numbers
    <3> QED BY <3>1, <3>2
  <2> QED BY <2>1, <2>2
<1>2. SUBSET S \subseteq Good
  <2> HIDE DEF Good
  <2> QED BY <1>1, SubsetInduction
<1> QED BY <1>2

\* The order in which a sum takes its terms does not matter.
LEMMA SumSplits ==
  ASSUME NEW S, IsFiniteSet(S), NEW f, Numbers(f, S), NEW g, Sums(g, f, S)
  PROVE  \A s \in SUBSET S : \A x \in s : g[s] = f[x] + g[s \ {x}]
<1> DEFINE Good == {s \in SUBSET S : \A x \in s : g[s] = f[x] + g[s \ {x}]}
<1>1. ASSUME NEW s \in SUBSET S, \A x \in s : s \ {x} \in Good, NEW x \in s
      PROVE  g[s] = f[x] + g[s \ {x}]
  <2>1. PICK c \in s : g[s] = f[c] + g[s \ {c}]
    BY DEF Sums
  <2>2. CASE x = c
    BY <2>1, <2>2
  <2>3. CASE x # c
    <3> DEFINE rest == (s \ {x}) \ {c}
    <3>1. rest = (s \ {c}) \ {x} /\ rest \in SUBSET S
      OBVIOUS
    <3>2. g[s \ {c}] = f[x] + g[rest] /\ g[s \ {x}] = f[c] + g[rest]
      BY <1>1, <2>3, <3>1
    <3>3. f[x] \in Nat /\ f[c] \in Nat /\ g[rest] \in Nat
      BY <3>1, SumTypes DEF Numbers
    <3> HIDE DEF rest
    <3> QED BY <2>1, <3>2, <3>3
  <2> QED BY <2>2, <2>3
<1>2. SUBSET S \subseteq Good
  <2>1. \A s \in SUBSET S : (\A x \in s : s \ {x} \in Good) => s \in Good
    BY <1>1
  <2> HIDE DEF Good
  <2> QED BY <2>1, SubsetInduction
<1> QED BY <1>2

\* Two functions with the same values have the same sum.
LEMMA SumsAgree ==
  ASSUME NEW S, IsFiniteSet(S), NEW f, NEW h, \A x \in S : f[x] = h[x],
         NEW g, Sums(g, f, S), NEW k, Sums(k, h, S)
  PROVE  \A s \in SUBSET S : g[s] = k[s]
<1> DEFINE Good == {s \in SUBSET S : g[s] = k[s]}
<1>1. ASSUME NEW s \in SUBSET S, \A x \in s : s \ {x} \in Good
      PROVE  s \in Good
  <2>1. CASE s = {}
    BY <2>1 DEF Sums
  <2>2. CASE s # {}
    <3>1. PICK x \in s : g[s] = f[x] + g[s \ {x}] /\ k[s] = h[x] + k[s \ {x}]
      BY <2>2 DEF Sums
    <3> QED BY <1>1, <3>1
  <2> QED BY <2>1, <2>2
<1>2. SUBSET S \subseteq Good
  <2> HIDE DEF Good
  <2> QED BY <1>1, SubsetInduction
<1> QED BY <1>2

LEMMA SumNat ==
  ASSUME NEW S, IsFiniteSet(S), NEW f, Numbers(f, S)
  PROVE  SumFunctionOnSet(f, S) \in Nat
<1>1. PICK g : Sums(g, f, S) /\ SumFunctionOnSet(f, S) = g[S]
  BY SumEquation
<1> QED BY <1>1, SumTypes

LEMMA SumEmpty ==
  ASSUME NEW f
  PROVE  SumFunctionOnSet(f, {}) = 0
<1>1. PICK g : Sums(g, f, {}) /\ SumFunctionOnSet(f, {}) = g[{}]
  BY FS_EmptySet, SumEquation DEF Numbers
<1> QED BY <1>1 DEF Sums

LEMMA SumSame ==
  ASSUME NEW S, IsFiniteSet(S), NEW f, NEW h, Numbers(f, S), \A x \in S : f[x] = h[x]
  PROVE  SumFunctionOnSet(f, S) = SumFunctionOnSet(h, S)
<1>1. PICK g : Sums(g, f, S) /\ SumFunctionOnSet(f, S) = g[S]
  BY SumEquation
<1>2. PICK k : Sums(k, h, S) /\ SumFunctionOnSet(h, S) = k[S]
  BY SumEquation DEF Numbers
<1> QED BY <1>1, <1>2, SumsAgree

\* One term more.
LEMMA SumRemove ==
  ASSUME NEW S, IsFiniteSet(S), NEW f, Numbers(f, S), NEW x \in S
  PROVE  /\ SumFunctionOnSet(f, S) \in Nat
         /\ SumFunctionOnSet(f, S) = f[x] + SumFunctionOnSet(f, S \ {x})
<1> DEFINE T == S \ {x}
<1>1. IsFiniteSet(T) /\ Numbers(f, T) /\ T \in SUBSET S
  BY FS_RemoveElement DEF Numbers
<1>2. PICK g : Sums(g, f, S) /\ SumFunctionOnSet(f, S) = g[S]
  BY SumEquation
<1>3. PICK k : Sums(k, f, T) /\ SumFunctionOnSet(f, T) = k[T]
  BY <1>1, SumEquation
<1>4. Sums(g, f, T)
  BY <1>2 DEF Sums
<1>5. g[T] = k[T]
  BY <1>1, <1>3, <1>4, SumsAgree
<1> QED BY <1>2, <1>3, <1>5, SumSplits, SumTypes

\* A sum over less is no larger.
LEMMA SumGrows ==
  ASSUME NEW S, IsFiniteSet(S), NEW f, Numbers(f, S), NEW T \in SUBSET S
  PROVE  /\ SumFunctionOnSet(f, T) \in Nat
         /\ SumFunctionOnSet(f, T) <= SumFunctionOnSet(f, S)
<1> DEFINE Good == {s \in SUBSET S : T \subseteq s =>
                      /\ SumFunctionOnSet(f, T) \in Nat
                      /\ SumFunctionOnSet(f, T) <= SumFunctionOnSet(f, s)}
<1>0. SumFunctionOnSet(f, T) \in Nat
  <2>1. IsFiniteSet(T) /\ Numbers(f, T)
    BY FS_Subset DEF Numbers
  <2> QED BY <2>1, SumNat
<1>1. ASSUME NEW s \in SUBSET S, \A x \in s : s \ {x} \in Good
      PROVE  s \in Good
  <2>1. SUFFICES ASSUME T \subseteq s, T # s PROVE SumFunctionOnSet(f, T) <= SumFunctionOnSet(f, s)
    BY <1>0
  <2>2. PICK x \in s : x \notin T
    BY <2>1
  <2>3. IsFiniteSet(s) /\ Numbers(f, s)
    BY FS_Subset DEF Numbers
  <2>4. SumFunctionOnSet(f, s) = f[x] + SumFunctionOnSet(f, s \ {x})
    BY <2>3, SumRemove
  <2>5. f[x] \in Nat /\ SumFunctionOnSet(f, s \ {x}) \in Nat
    <3>1. IsFiniteSet(s \ {x}) /\ Numbers(f, s \ {x})
      BY <2>3, FS_RemoveElement DEF Numbers
    <3>2. SumFunctionOnSet(f, s \ {x}) \in Nat
      BY <3>1, SumNat
    <3> QED BY <2>3, <3>2 DEF Numbers
  <2>6. SumFunctionOnSet(f, T) <= SumFunctionOnSet(f, s \ {x})
    BY <1>1, <2>1, <2>2
  <2> QED BY <1>0, <2>4, <2>5, <2>6
<1>2. SUBSET S \subseteq Good
  <2> HIDE DEF Good
  <2> QED BY <1>1, SubsetInduction
<1> QED BY <1>0, <1>2
=============================================================================
