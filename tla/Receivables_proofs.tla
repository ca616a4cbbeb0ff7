------------------------- MODULE Receivables_proofs -------------------------
(***************************************************************************)
(* Proofs about Receivables for every set of notes, payments and requests, *)
(* every degree of concurrency and every number of crashes.                *)
(*                                                                         *)
(* SettledWithinGross and SettledIsVouched are not inductive: a commit     *)
(* writes a value computed from a settledAmount read long before. The      *)
(* invariant therefore says of that stale value that it still leaves room  *)
(* for the amount and that the ledger has it already.                      *)
(*                                                                         *)
(* A payment is charged by the request that created it, so a capture that  *)
(* a request has seen stands when it posts. Served one at a time, a        *)
(* receipt posted for a payment is either named by it or about to be.      *)
(*                                                                         *)
(* An installment is written with an absolute settledAmount that may be    *)
(* stale, but was fit for a row of that key, and a row keeps its amount    *)
(* wherever it is copied to: no row is credited beyond it. Served one at a *)
(* time, the rows a request has in hand are those which make the plan show *)
(* what its note has settled, row by row from the oldest.                  *)
(***************************************************************************)
EXTENDS MCReceivables, FiniteSetTheorems, TLAPS

-----------------------------------------------------------------------------
(* Sums over finite sets                                                    *)
(* The induction theorems of the library take a predicate; here a minimal   *)
(* subset for which a fact fails is ruled out instead.                      *)

\* What SumFunctionOnSet unfolds to: a recursive function over the subsets.
Pick(s) == CHOOSE x \in s : TRUE
IsFold(f, S, g) == g = [s \in SUBSET S |-> IF s = {} THEN 0 ELSE f[Pick(s)] + g[s \ {Pick(s)}]]
Fold(f, S) == CHOOSE g : IsFold(f, S, g)

\* A nonempty set of subsets of a finite set has a minimal member.
LEMMA SubsetMinimum ==
    ASSUME NEW S, IsFiniteSet(S), NEW B, B \subseteq SUBSET S, B # {}
    PROVE  \E T \in B : \A U \in B : U \subseteq T => U = T
<1>1. \E T \in B : \A U \in B : ~ (<<U, T>> \in StrictSubsetOrdering(S))
  BY FS_StrictSubsetOrderingWellFounded, FS_FiniteSubsetsOfFinite, WFMin
<1> QED BY <1>1 DEF StrictSubsetOrdering

\* The recursion has one solution at most, ...
LEMMA FoldUnique ==
    ASSUME NEW f, NEW S, IsFiniteSet(S), NEW g, NEW h, IsFold(f, S, g), IsFold(f, S, h)
    PROVE  g = h
<1> DEFINE B == {s \in SUBSET S : g[s] # h[s]}
<1>1. SUFFICES ASSUME B # {} PROVE FALSE
  BY DEF IsFold
<1>2. PICK T \in B : \A U \in B : U \subseteq T => U = T
  <2>1. B \subseteq SUBSET S
    OBVIOUS
  <2> HIDE DEF B
  <2> QED BY <1>1, <2>1, SubsetMinimum
<1>3. T # {} /\ Pick(T) \in T
  BY <1>2 DEF IsFold, Pick
<1>4. g[T \ {Pick(T)}] = h[T \ {Pick(T)}]
  BY <1>2, <1>3
<1>5. /\ g[T] = f[Pick(T)] + g[T \ {Pick(T)}]
      /\ h[T] = f[Pick(T)] + h[T \ {Pick(T)}]
  BY <1>2, <1>3 DEF IsFold
<1> QED BY <1>2, <1>4, <1>5

\* ... a solution over a set is one over its subsets, ...
LEMMA FoldRestricted ==
    ASSUME NEW f, NEW S, IsFiniteSet(S), NEW T \in SUBSET S, NEW g, IsFold(f, S, g)
    PROVE  IsFold(f, T, Fold(f, T)) /\ Fold(f, T)[T] = g[T]
<1> DEFINE h == [s \in SUBSET T |-> g[s]]
<1>1. IsFold(f, T, h)
  <2>1. \A s \in SUBSET T : h[s] = IF s = {} THEN 0 ELSE f[Pick(s)] + h[s \ {Pick(s)}]
    BY DEF IsFold
  <2> QED BY <2>1 DEF IsFold
<1>2. IsFold(f, T, Fold(f, T))
  BY <1>1 DEF Fold
<1>3. Fold(f, T) = h
  BY <1>1, <1>2, FoldUnique, FS_Subset
<1> QED BY <1>2, <1>3

\* ... and over a finite set there is one.
LEMMA FoldExists ==
    ASSUME NEW f, NEW S, IsFiniteSet(S)
    PROVE  IsFold(f, S, Fold(f, S))
<1> DEFINE B == {T \in SUBSET S : ~ IsFold(f, T, Fold(f, T))}
<1>1. SUFFICES ASSUME B # {} PROVE FALSE
  OBVIOUS
<1>2. PICK T \in B : \A U \in B : U \subseteq T => U = T
  <2>1. B \subseteq SUBSET S
    OBVIOUS
  <2> HIDE DEF B
  <2> QED BY <1>1, <2>1, SubsetMinimum
<1> DEFINE g == [s \in SUBSET T |-> IF s = {} THEN 0
                      ELSE f[Pick(s)] + Fold(f, s \ {Pick(s)})[s \ {Pick(s)}]]
<1>3. ASSUME NEW u \in SUBSET T, u # T
      PROVE  g[u] = Fold(f, u)[u]
  <2>1. IsFold(f, u, Fold(f, u)) /\ IsFiniteSet(u)
    BY <1>2, <1>3, FS_Subset
  <2>2. CASE u = {}
    BY <2>1, <2>2 DEF IsFold
  <2>3. CASE u # {}
    <3>1. Fold(f, u)[u] = f[Pick(u)] + Fold(f, u)[u \ {Pick(u)}]
      BY <2>1, <2>3 DEF IsFold
    <3>2. Fold(f, u \ {Pick(u)})[u \ {Pick(u)}] = Fold(f, u)[u \ {Pick(u)}]
      BY <2>1, FoldRestricted
    <3> QED BY <2>3, <3>1, <3>2
  <2> QED BY <2>2, <2>3
<1>4. ASSUME NEW s \in SUBSET T
      PROVE  g[s] = IF s = {} THEN 0 ELSE f[Pick(s)] + g[s \ {Pick(s)}]
  <2>1. CASE s = {}
    BY <2>1
  <2>2. CASE s # {}
    <3>1. Pick(s) \in s
      BY <2>2 DEF Pick
    <3>2. g[s \ {Pick(s)}] = Fold(f, s \ {Pick(s)})[s \ {Pick(s)}]
      BY <1>3, <3>1
    <3> QED BY <2>2, <3>2
  <2> QED BY <2>1, <2>2
<1>5. IsFold(f, T, g)
  BY <1>4 DEF IsFold
<1> QED BY <1>2, <1>5 DEF Fold

\* So a sum over a finite set is computed one member at a time.
LEMMA SumStep ==
    ASSUME NEW f, NEW S, IsFiniteSet(S)
    PROVE  /\ S = {} => SumFunctionOnSet(f, S) = 0
           /\ S # {} => /\ Pick(S) \in S
                        /\ SumFunctionOnSet(f, S) = f[Pick(S)] + SumFunctionOnSet(f, S \ {Pick(S)})
<1>1. \A T : SumFunctionOnSet(f, T) = Fold(f, T)[T]
  BY DEF SumFunctionOnSet, FoldFunctionOnSet, MapThenFoldSet, Fold, IsFold, Pick
<1>2. IsFold(f, S, Fold(f, S))
  BY FoldExists
<1>3. CASE S = {}
  BY <1>1, <1>2, <1>3 DEF IsFold
<1>4. CASE S # {}
  <2>1. Pick(S) \in S
    BY <1>4 DEF Pick
  <2>2. Fold(f, S)[S] = f[Pick(S)] + Fold(f, S)[S \ {Pick(S)}]
    BY <1>2, <1>4 DEF IsFold
  <2>3. Fold(f, S)[S \ {Pick(S)}] = Fold(f, S \ {Pick(S)})[S \ {Pick(S)}]
    BY <1>2, FoldRestricted
  <2> QED BY <1>1, <1>4, <2>1, <2>2, <2>3
<1> QED BY <1>3, <1>4

\* A sum of integers is an integer.
LEMMA SumType ==
    ASSUME NEW f, NEW S, IsFiniteSet(S), \A x \in S : f[x] \in Int
    PROVE  SumFunctionOnSet(f, S) \in Int
<1> DEFINE B == {T \in SUBSET S : SumFunctionOnSet(f, T) \notin Int}
<1>1. SUFFICES ASSUME B # {} PROVE FALSE
  OBVIOUS
<1>2. PICK T \in B : \A U \in B : U \subseteq T => U = T
  <2>1. B \subseteq SUBSET S
    OBVIOUS
  <2> HIDE DEF B
  <2> QED BY <1>1, <2>1, SubsetMinimum
<1>3. T # {} /\ Pick(T) \in T /\ SumFunctionOnSet(f, T) = f[Pick(T)] + SumFunctionOnSet(f, T \ {Pick(T)})
  BY <1>2, SumStep, FS_Subset
<1> QED BY <1>2, <1>3

\* Any member of the set may be the one that is added last.
LEMMA SumTakes ==
    ASSUME NEW f, NEW S, IsFiniteSet(S), \A x \in S : f[x] \in Int, NEW a \in S
    PROVE  SumFunctionOnSet(f, S) = f[a] + SumFunctionOnSet(f, S \ {a})
<1> DEFINE Sum(T) == SumFunctionOnSet(f, T)
           B == {T \in SUBSET S : \E b \in T : Sum(T) # f[b] + Sum(T \ {b})}
<1>1. SUFFICES ASSUME B # {} PROVE FALSE
  OBVIOUS
<1>2. PICK T \in B : \A U \in B : U \subseteq T => U = T
  <2>1. B \subseteq SUBSET S
    OBVIOUS
  <2> HIDE DEF B
  <2> QED BY <1>1, <2>1, SubsetMinimum
<1>3. PICK b \in T : Sum(T) # f[b] + Sum(T \ {b})
  OBVIOUS
<1> DEFINE p == Pick(T)
           R == T \ {b, p}
<1>4. /\ IsFiniteSet(T) /\ IsFiniteSet(R)
  BY <1>2, FS_Subset
<1>5. p \in T /\ Sum(T) = f[p] + Sum(T \ {p})
  BY <1>2, <1>3, <1>4, SumStep
<1>6. p # b
  BY <1>3, <1>5
<1>7. f[p] \in Int /\ f[b] \in Int /\ Sum(R) \in Int
  BY <1>2, <1>4, <1>5, SumType
<1>8. Sum(T \ {p}) = f[b] + Sum((T \ {p}) \ {b})
  BY <1>2, <1>3, <1>5, <1>6
<1>9. Sum(T \ {b}) = f[p] + Sum((T \ {b}) \ {p})
  BY <1>2, <1>3, <1>5, <1>6
<1>10. (T \ {p}) \ {b} = R /\ (T \ {b}) \ {p} = R
  OBVIOUS
<1>11. Sum(T \ {p}) = f[b] + Sum(R) /\ Sum(T \ {b}) = f[p] + Sum(R)
  BY <1>8, <1>9, <1>10
<1> HIDE DEF Sum, R, p
<1> QED BY <1>3, <1>5, <1>7, <1>11

\* ... or the one that is new.
LEMMA SumInsert ==
    ASSUME NEW f, NEW S, IsFiniteSet(S), \A x \in S : f[x] \in Int,
           NEW T \in SUBSET S, NEW a \in S \ T
    PROVE  /\ SumFunctionOnSet(f, T \union {a}) = f[a] + SumFunctionOnSet(f, T)
           /\ SumFunctionOnSet(f, T) \in Int
<1>1. IsFiniteSet(T) /\ IsFiniteSet(T \union {a}) /\ (T \union {a}) \ {a} = T
  BY FS_Subset, FS_AddElement
<1>2. SumFunctionOnSet(f, T \union {a}) = f[a] + SumFunctionOnSet(f, (T \union {a}) \ {a})
  <2>1. \A x \in T \union {a} : f[x] \in Int
    OBVIOUS
  <2> QED BY <1>1, <2>1, SumTakes
<1> QED BY <1>1, <1>2, SumType

\* Nothing adds up to nothing.
LEMMA SumEmpty == \A f : SumFunctionOnSet(f, {}) = 0
BY SumStep, FS_EmptySet

\* Induction over a finite set, for the set of its subsets a fact holds of.
LEMMA SubsetInduction ==
    ASSUME NEW S, IsFiniteSet(S), NEW Good, {} \in Good,
           \A T \in SUBSET S : \A a \in S \ T : T \in Good => T \union {a} \in Good
    PROVE  S \in Good
<1> DEFINE B == {T \in SUBSET S : T \notin Good}
<1>1. SUFFICES ASSUME B # {} PROVE FALSE
  OBVIOUS
<1>2. PICK T \in B : \A U \in B : U \subseteq T => U = T
  <2>1. B \subseteq SUBSET S
    OBVIOUS
  <2> HIDE DEF B
  <2> QED BY <1>1, <2>1, SubsetMinimum
<1>3. PICK a : a \in T
  BY <1>2
<1>4. T \ {a} \in Good /\ (T \ {a}) \union {a} = T /\ T \ {a} \in SUBSET S /\ a \in S \ (T \ {a})
  BY <1>2, <1>3
<1> QED BY <1>2, <1>4

\* A sum depends on the values in the set only.
LEMMA SumSame ==
    ASSUME NEW f, NEW g, NEW S, IsFiniteSet(S), \A x \in S : f[x] \in Int /\ g[x] = f[x]
    PROVE  SumFunctionOnSet(g, S) = SumFunctionOnSet(f, S)
<1> DEFINE Good == {T \in SUBSET S : SumFunctionOnSet(g, T) = SumFunctionOnSet(f, T)}
<1>1. {} \in Good
  BY SumEmpty
<1>2. ASSUME NEW T \in SUBSET S, NEW a \in S \ T, T \in Good PROVE T \union {a} \in Good
  BY <1>2, SumInsert
<1> HIDE DEF Good
<1>3. S \in Good
  BY <1>1, <1>2, SubsetInduction
<1> QED BY <1>3 DEF Good

\* Two sums are added member by member.
LEMMA SumPlus ==
    ASSUME NEW f, NEW g, NEW h, NEW S, IsFiniteSet(S),
           \A x \in S : f[x] \in Int /\ g[x] \in Int /\ h[x] = f[x] + g[x]
    PROVE  SumFunctionOnSet(h, S) = SumFunctionOnSet(f, S) + SumFunctionOnSet(g, S)
<1> DEFINE Sum(k, T) == SumFunctionOnSet(k, T)
           Good == {T \in SUBSET S : Sum(h, T) = Sum(f, T) + Sum(g, T)}
<1>1. {} \in Good
  BY SumEmpty
<1>2. ASSUME NEW T \in SUBSET S, NEW a \in S \ T, T \in Good PROVE T \union {a} \in Good
  <2>0. \A x \in S : h[x] \in Int
    OBVIOUS
  <2>a. Sum(h, T \union {a}) = h[a] + Sum(h, T)
    BY <2>0, SumInsert
  <2>1. /\ Sum(f, T \union {a}) = f[a] + Sum(f, T) /\ Sum(f, T) \in Int
        /\ Sum(g, T \union {a}) = g[a] + Sum(g, T) /\ Sum(g, T) \in Int
    BY SumInsert
  <2>2. Sum(h, T) = Sum(f, T) + Sum(g, T) /\ f[a] \in Int /\ g[a] \in Int /\ h[a] = f[a] + g[a]
    BY <1>2
  <2> HIDE DEF Sum
  <2>3. Sum(h, T \union {a}) = Sum(f, T \union {a}) + Sum(g, T \union {a})
    BY <2>a, <2>1, <2>2
  <2> QED BY <2>3
<1> HIDE DEF Good
<1>3. S \in Good
  BY <1>1, <1>2, SubsetInduction
<1> QED BY <1>3 DEF Good

\* A sum is not above another whose values are not below its own.
LEMMA SumAtMost ==
    ASSUME NEW f, NEW g, NEW S, IsFiniteSet(S),
           \A x \in S : f[x] \in Int /\ g[x] \in Int /\ f[x] <= g[x]
    PROVE  SumFunctionOnSet(f, S) <= SumFunctionOnSet(g, S)
<1> DEFINE Sum(k, T) == SumFunctionOnSet(k, T)
           Good == {T \in SUBSET S : Sum(f, T) <= Sum(g, T)}
<1>1. {} \in Good
  BY SumEmpty
<1>2. ASSUME NEW T \in SUBSET S, NEW a \in S \ T, T \in Good PROVE T \union {a} \in Good
  <2>1. /\ Sum(f, T \union {a}) = f[a] + Sum(f, T) /\ Sum(f, T) \in Int
        /\ Sum(g, T \union {a}) = g[a] + Sum(g, T) /\ Sum(g, T) \in Int
    BY SumInsert
  <2>2. Sum(f, T) <= Sum(g, T) /\ f[a] \in Int /\ g[a] \in Int /\ f[a] <= g[a]
    BY <1>2
  <2> HIDE DEF Sum
  <2>3. Sum(f, T \union {a}) <= Sum(g, T \union {a})
    BY <2>1, <2>2
  <2> QED BY <2>3
<1> HIDE DEF Good
<1>3. S \in Good
  BY <1>1, <1>2, SubsetInduction
<1> QED BY <1>3 DEF Good

\* A sum over a set is one over its image under a map that is one to one.
LEMMA SumOfImage ==
    ASSUME NEW S, IsFiniteSet(S), NEW F, \A x, y \in S : F[x] = F[y] => x = y,
           NEW g, \A x \in S : g[F[x]] \in Int
    PROVE  /\ IsFiniteSet({F[x] : x \in S})
           /\ SumFunctionOnSet(g, {F[x] : x \in S}) = SumFunctionOnSet([x \in S |-> g[F[x]]], S)
<1> DEFINE h == [x \in S |-> g[F[x]]]
           Img(T) == {F[x] : x \in T}
           Good == {T \in SUBSET S : /\ IsFiniteSet(Img(T))
                                     /\ SumFunctionOnSet(g, Img(T)) = SumFunctionOnSet(h, T)}
<1>1. {} \in Good
  <2>1. Img({}) = {}
    OBVIOUS
  <2> QED BY <2>1, SumEmpty, FS_EmptySet
<1>2. ASSUME NEW T \in SUBSET S, NEW a \in S \ T, T \in Good PROVE T \union {a} \in Good
  <2>1. Img(T \union {a}) = Img(T) \union {F[a]} /\ F[a] \notin Img(T)
    OBVIOUS
  <2>2. IsFiniteSet(Img(T)) /\ SumFunctionOnSet(g, Img(T)) = SumFunctionOnSet(h, T)
    BY <1>2
  <2>3. IsFiniteSet(Img(T \union {a})) /\ \A y \in Img(T \union {a}) : g[y] \in Int
    <3> DEFINE J == Img(T)
    <3>1. IsFiniteSet(J)
      BY <2>2
    <3> HIDE DEF J
    <3>2. IsFiniteSet(J \union {F[a]})
      BY <3>1, FS_AddElement
    <3>3. \A y \in Img(T \union {a}) : g[y] \in Int
      OBVIOUS
    <3> QED BY <2>1, <3>2, <3>3 DEF J
  <2>4. \A x \in S : h[x] \in Int
    OBVIOUS
  <2>5. SumFunctionOnSet(h, T \union {a}) = h[a] + SumFunctionOnSet(h, T)
    BY <2>4, SumInsert
  <2> DEFINE U == Img(T \union {a})
             V == Img(T)
  <2>6. V \in SUBSET U /\ F[a] \in U \ V /\ U = V \union {F[a]}
    BY <2>1
  <2> HIDE DEF U, V
  <2>7. SumFunctionOnSet(g, U) = g[F[a]] + SumFunctionOnSet(g, V)
    BY <2>3, <2>6, SumInsert DEF U
  <2>8. SumFunctionOnSet(g, U) = SumFunctionOnSet(h, T \union {a})
    BY <2>2, <2>5, <2>7 DEF V
  <2> QED BY <2>3, <2>8 DEF U
<1> HIDE DEF Good
<1>3. S \in Good
  BY <1>1, <1>2, SubsetInduction
<1> QED BY <1>3 DEF Good

\* A sum of naturals is one.
LEMMA SumNat ==
    ASSUME NEW f, NEW S, IsFiniteSet(S), \A x \in S : f[x] \in Nat
    PROVE  SumFunctionOnSet(f, S) \in Nat
<1> DEFINE Good == {T \in SUBSET S : SumFunctionOnSet(f, T) \in Nat}
<1>1. {} \in Good
  BY SumEmpty
<1>2. ASSUME NEW T \in SUBSET S, NEW a \in S \ T, T \in Good PROVE T \union {a} \in Good
  BY <1>2, SumInsert
<1> HIDE DEF Good
<1>3. S \in Good
  BY <1>1, <1>2, SubsetInduction
<1> QED BY <1>3 DEF Good

\* Equal amounts are multiplied by their number.
LEMMA SumOfEqual ==
    ASSUME NEW f, NEW S, IsFiniteSet(S), NEW c \in Int, \A x \in S : f[x] = c
    PROVE  SumFunctionOnSet(f, S) = Cardinality(S) * c
<1> DEFINE Good == {T \in SUBSET S : SumFunctionOnSet(f, T) = Cardinality(T) * c}
<1>1. {} \in Good
  BY SumEmpty, FS_EmptySet
<1>2. ASSUME NEW T \in SUBSET S, NEW a \in S \ T, T \in Good PROVE T \union {a} \in Good
  <2>1. /\ Cardinality(T \union {a}) = Cardinality(T) + 1 /\ Cardinality(T) \in Nat
    BY FS_Subset, FS_AddElement, FS_CardinalityType
  <2>2. SumFunctionOnSet(f, T \union {a}) = c + SumFunctionOnSet(f, T)
    BY SumInsert
  <2>3. SumFunctionOnSet(f, T) = Cardinality(T) * c
    BY <1>2
  <2> DEFINE k == Cardinality(T)
  <2> HIDE DEF k
  <2>4. \A i \in Nat : c + i * c = (i + 1) * c
    OBVIOUS
  <2>5. c + k * c = (k + 1) * c
    BY <2>1, <2>4 DEF k
  <2> QED BY <2>1, <2>2, <2>3, <2>5 DEF k
<1> HIDE DEF Good
<1>3. S \in Good
  BY <1>1, <1>2, SubsetInduction
<1> QED BY <1>3 DEF Good

\* Members that count for nothing may be left out.
LEMMA SumPadded ==
    ASSUME NEW f, NEW g, NEW S, IsFiniteSet(S), NEW R \in SUBSET S,
           \A x \in R : f[x] \in Int /\ g[x] = f[x],
           \A x \in S \ R : g[x] = 0
    PROVE  SumFunctionOnSet(g, S) = SumFunctionOnSet(f, R)
<1> DEFINE Sum(k, T) == SumFunctionOnSet(k, T)
           Good == {T \in SUBSET S : Sum(g, T) = Sum(f, T \intersect R)}
<1>1. {} \in Good /\ S \intersect R = R
  BY SumEmpty
<1>2. ASSUME NEW T \in SUBSET S, NEW a \in S \ T, T \in Good PROVE T \union {a} \in Good
  <2>1. Sum(g, T \union {a}) = g[a] + Sum(g, T) /\ Sum(g, T) \in Int
    BY SumInsert
  <2>2. CASE a \in R
    <3>1. (T \union {a}) \intersect R = (T \intersect R) \union {a} /\ a \in R \ (T \intersect R)
      BY <2>2
    <3>2. Sum(f, (T \intersect R) \union {a}) = f[a] + Sum(f, T \intersect R)
      BY <3>1, SumInsert, FS_Subset
    <3> QED BY <1>2, <2>1, <2>2, <3>1, <3>2
  <2>3. CASE a \notin R
    <3>1. (T \union {a}) \intersect R = T \intersect R /\ g[a] = 0
      BY <2>3
    <3>2. Sum(g, T \union {a}) = Sum(g, T)
      <4> HIDE DEF Sum
      <4> QED BY <2>1, <3>1
    <3> QED BY <1>2, <3>1, <3>2
  <2> QED BY <2>2, <2>3
<1> HIDE DEF Good
<1>3. S \in Good
  BY <1>1, <1>2, SubsetInduction
<1> QED BY <1>1, <1>3 DEF Good

-----------------------------------------------------------------------------
(* What the waterfall does to the rows of a plan                            *)

Fits(x) == x.settled > 0 => x.settled <= x.amount

\* Rows of which there are finitely many, that keys tell apart, and none of which
\* is credited beyond its amount.
RowsOK(rows) ==
    /\ rows \in SUBSET Row /\ IsFiniteSet(rows)
    /\ \A x, y \in rows : Key(x) = Key(y) => x = y
    /\ \A x \in rows : Fits(x)

FromOldest(rows) == \A x, y \in rows : Older(x, y) /\ y.settled > 0 => Open(x) = 0

OpenOf(rows) == SumFunction([x \in rows |-> Open(x)])

\* What the rows can hold; the last row of a quick schedule may be negative.
Room(rows) == SumFunction([x \in rows |-> IF x.amount > 0 THEN x.amount ELSE 0])

Raise(rows, x, money) == [x EXCEPT !.settled = @ + Share(rows, x, money)]
Poured(rows, money) == {Raise(rows, x, money) : x \in rows}

\* The rows are ordered by age, the batch telling apart what is due at one time.
LEMMA AgesDiffer ==
    ASSUME NEW rows, RowsOK(rows)
    PROVE  /\ \A x, y \in rows : ~ (Older(x, y) /\ Older(y, x))
           /\ \A x, y \in rows : x # y => Older(x, y) \/ Older(y, x)
           /\ \A x, y, z \in rows : Older(x, y) /\ Older(y, z) => Older(x, z)
<1>1. \A x \in rows : x.batch \in Nat /\ x.seq \in Nat /\ x.due \in Nat
  BY RequestsAssumption DEF RowsOK, Row
<1>2. \A x, y \in rows : x.batch = y.batch /\ x.seq = y.seq => x = y
  BY DEF RowsOK, Key
<1> QED BY <1>1, <1>2 DEF Older

\* Among some rows there is a newest one, ...
LEMMA NewestExists ==
    ASSUME NEW rows, RowsOK(rows), rows # {}
    PROVE  \E y \in rows : \A x \in rows \ {y} : Older(x, y)
<1> DEFINE Good == {T \in SUBSET rows : T # {} => \E y \in T : \A x \in T \ {y} : Older(x, y)}
<1>1. {} \in Good
  OBVIOUS
<1>2. ASSUME NEW T \in SUBSET rows, NEW a \in rows \ T, T \in Good PROVE T \union {a} \in Good
  <2>1. CASE T = {}
    BY <2>1
  <2>2. CASE T # {}
    <3>1. PICK y \in T : \A x \in T \ {y} : Older(x, y)
      BY <1>2, <2>2
    <3>2. CASE Older(a, y)
      BY <3>1, <3>2
    <3>3. CASE ~ Older(a, y)
      <4>1. Older(y, a) /\ \A x \in T : Older(x, a)
        BY <3>1, <3>3, AgesDiffer
      <4> QED BY <4>1
    <3> QED BY <3>2, <3>3
  <2> QED BY <2>1, <2>2
<1> HIDE DEF Good
<1>3. IsFiniteSet(rows)
  BY DEF RowsOK
<1>4. rows \in Good
  BY <1>1, <1>2, <1>3, SubsetInduction
<1> QED BY <1>4 DEF Good

\* ... and an oldest one.
LEMMA OldestExists ==
    ASSUME NEW rows, RowsOK(rows), rows # {}
    PROVE  \E y \in rows : \A x \in rows \ {y} : Older(y, x)
<1> DEFINE Good == {T \in SUBSET rows : T # {} => \E y \in T : \A x \in T \ {y} : Older(y, x)}
<1>1. {} \in Good
  OBVIOUS
<1>2. ASSUME NEW T \in SUBSET rows, NEW a \in rows \ T, T \in Good PROVE T \union {a} \in Good
  <2>1. CASE T = {}
    BY <2>1
  <2>2. CASE T # {}
    <3>1. PICK y \in T : \A x \in T \ {y} : Older(y, x)
      BY <1>2, <2>2
    <3>2. CASE Older(y, a)
      BY <3>1, <3>2
    <3>3. CASE ~ Older(y, a)
      <4>1. Older(a, y) /\ \A x \in T : Older(a, x)
        BY <3>1, <3>3, AgesDiffer
      <4> QED BY <4>1
    <3> QED BY <3>2, <3>3
  <2> QED BY <2>1, <2>2
<1> HIDE DEF Good
<1>3. IsFiniteSet(rows)
  BY DEF RowsOK
<1>4. rows \in Good
  BY <1>1, <1>2, <1>3, SubsetInduction
<1> QED BY <1>4 DEF Good

\* Some of the rows of a plan are as good as all of them.
LEMMA PartIsOK ==
    ASSUME NEW rows, RowsOK(rows), NEW T \in SUBSET rows
    PROVE  RowsOK(T)
BY FS_Subset DEF RowsOK

\* What rows are open for is a natural number, and adds up.
LEMMA OpenType ==
    ASSUME NEW rows, RowsOK(rows)
    PROVE  /\ \A x \in rows : Open(x) \in Nat
           /\ OpenOf(rows) \in Nat
           /\ OpenOf(rows) = SumFunctionOnSet([x \in rows |-> Open(x)], rows)
<1>1. \A x \in rows : Open(x) \in Nat
  BY DEF RowsOK, Row, Open
<1>2. SumFunctionOnSet([x \in rows |-> Open(x)], rows) \in Nat
  BY <1>1, SumNat DEF RowsOK
<1> QED BY <1>1, <1>2 DEF OpenOf, SumFunction

\* A row takes no more than it is open for.
LEMMA ShareFits ==
    ASSUME NEW rows, RowsOK(rows), NEW money \in Nat, NEW x \in rows
    PROVE  /\ Share(rows, x, money) \in Nat
           /\ Share(rows, x, money) <= Open(x)
           /\ Share(rows, x, money) =
                  LET left == money - OpenOf({y \in rows : Older(y, x)})
                  IN  IF left > 0 THEN Smaller(left, Open(x)) ELSE 0
<1> DEFINE older == {y \in rows : Older(y, x)}
<1>1. OpenOf(older) \in Nat /\ Open(x) \in Nat
  BY PartIsOK, OpenType
<1>2. Share(rows, x, money) =
          LET left == money - OpenOf(older) IN IF left > 0 THEN Smaller(left, Open(x)) ELSE 0
  BY DEF Share, OpenOf
<1> HIDE DEF older
<1>3. Share(rows, x, money) \in Nat /\ Share(rows, x, money) <= Open(x)
  BY <1>1, <1>2 DEF Smaller
<1> QED BY <1>2, <1>3 DEF older

\* The shares add up to the money, or to all that the rows are open for.
LEMMA SharesAddUp ==
    ASSUME NEW rows, RowsOK(rows), NEW money \in Nat
    PROVE  SumFunctionOnSet([x \in rows |-> Share(rows, x, money)], rows) = Smaller(money, OpenOf(rows))
<1> DEFINE F(T) == [x \in T |-> Share(T, x, money)]
           Good == {T \in SUBSET rows : SumFunctionOnSet(F(T), T) = Smaller(money, OpenOf(T))}
           B == {T \in SUBSET rows : T \notin Good}
<1>1. SUFFICES ASSUME B # {} PROVE FALSE
  OBVIOUS
<1>2. PICK T \in B : \A U \in B : U \subseteq T => U = T
  <2>1. B \subseteq SUBSET rows /\ IsFiniteSet(rows)
    BY DEF RowsOK
  <2> HIDE DEF B
  <2> QED BY <1>1, <2>1, SubsetMinimum
<1>3. RowsOK(T)
  BY <1>2, PartIsOK
<1>4. T # {}
  <2>1. SumFunctionOnSet(F({}), {}) = 0 /\ OpenOf({}) = 0
    BY SumEmpty DEF OpenOf, SumFunction
  <2>2. {} \in Good
    BY <2>1 DEF Smaller
  <2> QED BY <1>2, <2>2
<1>5. PICK y \in T : \A x \in T \ {y} : Older(x, y)
  BY <1>3, <1>4, NewestExists
<1> DEFINE R == T \ {y}
<1>6. R \in SUBSET T /\ R # T /\ R \in Good /\ R \in SUBSET rows /\ RowsOK(R) /\ IsFiniteSet(T) /\ IsFiniteSet(R)
  BY <1>2, <1>3, <1>5, PartIsOK DEF RowsOK
<1>7. \A x \in T : ~ Older(y, x)
  BY <1>3, <1>5, AgesDiffer
<1>8. {x \in T : Older(x, y)} = R
  BY <1>5, <1>7
<1>9. ASSUME NEW x \in R PROVE Share(T, x, money) = Share(R, x, money)
  <2>1. {z \in T : Older(z, x)} = {z \in R : Older(z, x)}
    BY <1>7
  <2> QED BY <2>1 DEF Share
<1> DEFINE f == F(T)
           g == [x \in T |-> Open(x)]
<1>10. /\ \A x \in T : f[x] \in Nat /\ f[x] = Share(T, x, money)
       /\ \A x \in T : g[x] \in Nat /\ g[x] = Open(x)
  BY <1>3, ShareFits, OpenType
<1>11. \A x \in R : f[x] = F(R)[x] /\ g[x] = [z \in R |-> Open(z)][x]
  BY <1>9
<1>12. SumFunctionOnSet(F(R), R) = Smaller(money, OpenOf(R))
  BY <1>6
<1>13. SumFunctionOnSet(F(T), T) # Smaller(money, OpenOf(T))
  BY <1>2
<1> HIDE DEF Good, B, R, f, g, F
<1>14. /\ SumFunctionOnSet(f, T) = f[y] + SumFunctionOnSet(f, R)
       /\ SumFunctionOnSet(g, T) = g[y] + SumFunctionOnSet(g, R)
  BY <1>6, <1>10, SumTakes DEF R
<1>15. SumFunctionOnSet(f, R) = SumFunctionOnSet(F(R), R)
  BY <1>6, <1>10, <1>11, SumSame
<1>16. SumFunctionOnSet(g, R) = OpenOf(R)
  <2>1. SumFunctionOnSet(g, R) = SumFunctionOnSet([z \in R |-> Open(z)], R)
    BY <1>6, <1>10, <1>11, SumSame
  <2> QED BY <1>6, <2>1, OpenType
<1>17. SumFunctionOnSet(g, T) = OpenOf(T)
  BY <1>3, OpenType DEF g
<1>18. f[y] = LET left == money - OpenOf(R) IN IF left > 0 THEN Smaller(left, Open(y)) ELSE 0
  BY <1>3, <1>5, <1>8, <1>10, ShareFits
<1>19. OpenOf(R) \in Nat /\ Open(y) \in Nat /\ g[y] = Open(y)
  BY <1>3, <1>5, <1>6, <1>10, OpenType
<1>20. SumFunctionOnSet(f, T) = f[y] + Smaller(money, OpenOf(R)) /\ OpenOf(T) = Open(y) + OpenOf(R)
  BY <1>12, <1>14, <1>15, <1>16, <1>17, <1>19
<1>21. SumFunctionOnSet(f, T) = Smaller(money, OpenOf(T))
  BY <1>18, <1>19, <1>20 DEF Smaller
<1> QED BY <1>13, <1>21 DEF f

\* What a row becomes when it takes its share.
LEMMA RaisedRow ==
    ASSUME NEW rows, RowsOK(rows), NEW money \in Nat, NEW x \in rows
    PROVE  LET z == Raise(rows, x, money)
           IN  /\ z \in Row /\ Fits(z)
               /\ z.batch = x.batch /\ z.seq = x.seq /\ z.due = x.due /\ z.amount = x.amount
               /\ z.settled = x.settled + Share(rows, x, money)
               /\ Open(z) = Open(x) - Share(rows, x, money)
               /\ Key(z) = Key(x)
               /\ Share(rows, x, money) = 0 => z = x
<1> DEFINE s == Share(rows, x, money)
           z == Raise(rows, x, money)
<1>1. s \in Nat /\ s <= Open(x)
  BY ShareFits
<1>2. x \in Row /\ Fits(x)
  BY DEF RowsOK
<1> HIDE DEF s
<1>3. z = [x EXCEPT !.settled = @ + s]
  BY DEF Raise, s
<1> HIDE DEF z
<1>4. /\ z \in Row /\ z.batch = x.batch /\ z.seq = x.seq /\ z.due = x.due /\ z.amount = x.amount
      /\ z.settled = x.settled + s /\ x.settled \in Nat /\ x.amount \in Int
      /\ s = 0 => z = x
  BY <1>1, <1>2, <1>3 DEF Row
<1>5. Fits(z) /\ Open(z) = Open(x) - s
  BY <1>1, <1>2, <1>4 DEF Fits, Open
<1>6. Key(z) = Key(x)
  BY <1>4 DEF Key
<1> QED BY <1>4, <1>5, <1>6 DEF s, z

\* The rows it writes are the ones that take something.
LEMMA WaterfallRows ==
    ASSUME NEW rows, RowsOK(rows), NEW money \in Nat
    PROVE  Waterfall(rows, money)
               = {Raise(rows, x, money) : x \in {y \in rows : Share(rows, y, money) > 0}}
BY DEF Waterfall, Raise

\* Pouring money over rows leaves them, and what it writes, well-formed.
LEMMA PouredIsOK ==
    ASSUME NEW rows, RowsOK(rows), NEW money \in Nat
    PROVE  RowsOK(Poured(rows, money)) /\ RowsOK(Waterfall(rows, money))
<1> DEFINE F == [x \in rows |-> Raise(rows, x, money)]
           P == Poured(rows, money)
<1>1. P = {F[x] : x \in rows}
  BY DEF Poured
<1>2. F \in Surjection(rows, P)
  BY <1>1 DEF Surjection
<1>3. IsFiniteSet(P)
  BY <1>2, FS_Surjection DEF RowsOK
<1>4. \A x \in rows : F[x] \in Row /\ Fits(F[x]) /\ Key(F[x]) = Key(x)
  BY RaisedRow
<1> HIDE DEF F
<1>5. \A x, y \in rows : Key(F[x]) = Key(F[y]) => x = y
  BY <1>4 DEF RowsOK
<1>6. RowsOK(P)
  <2> HIDE DEF P
  <2> QED BY <1>1, <1>3, <1>4, <1>5 DEF RowsOK
<1>7. Waterfall(rows, money) \in SUBSET P
  BY WaterfallRows DEF Poured
<1> QED BY <1>6, <1>7, PartIsOK

\* Writing what the waterfall writes is pouring the money over the rows.
LEMMA OverwriteIsPoured ==
    ASSUME NEW rows, RowsOK(rows), NEW money \in Nat
    PROVE  Overwrite(rows, Waterfall(rows, money)) = Poured(rows, money)
<1> DEFINE W == Waterfall(rows, money)
           R(x) == Raise(rows, x, money)
           S(x) == Share(rows, x, money)
<1>1. W = {R(x) : x \in {y \in rows : S(y) > 0}} /\ Poured(rows, money) = {R(x) : x \in rows}
  BY WaterfallRows DEF Poured
<1>2. \A x \in rows : Key(R(x)) = Key(x) /\ S(x) \in Nat /\ (S(x) = 0 => R(x) = x)
  BY RaisedRow, ShareFits
<1>3. \A x, y \in rows : Key(x) = Key(y) => x = y
  BY DEF RowsOK
<1> HIDE DEF W, R, S
<1>4. Keys(W) = {Key(x) : x \in {y \in rows : S(y) > 0}}
  BY <1>1, <1>2 DEF Keys
<1>5. \A x \in rows : Key(x) \notin Keys(W) <=> S(x) = 0
  BY <1>2, <1>3, <1>4
<1>6. Without(rows, Keys(W)) = {x \in rows : S(x) = 0}
  BY <1>5 DEF Without
<1>7. Without(rows, Keys(W)) \union W = {R(x) : x \in rows}
  <2>1. ASSUME NEW x \in rows PROVE R(x) \in Without(rows, Keys(W)) \union W
    BY <1>1, <1>2, <1>6
  <2>2. ASSUME NEW z \in Without(rows, Keys(W)) \union W PROVE z \in {R(x) : x \in rows}
    BY <1>1, <1>2, <1>6
  <2> QED BY <2>1, <2>2
<1> QED BY <1>1, <1>7 DEF Overwrite, W

\* Money still reaches the oldest rows first.
LEMMA PouredFromOldest ==
    ASSUME NEW rows, RowsOK(rows), FromOldest(rows), NEW money \in Nat
    PROVE  FromOldest(Poured(rows, money))
<1> DEFINE R(x) == Raise(rows, x, money)
           S(x) == Share(rows, x, money)
<1>1. SUFFICES ASSUME NEW x \in rows, NEW y \in rows, Older(R(x), R(y)), R(y).settled > 0
               PROVE  Open(R(x)) = 0
  BY DEF FromOldest, Poured
<1>2. /\ R(x).batch = x.batch /\ R(x).seq = x.seq /\ R(x).due = x.due
      /\ R(y).batch = y.batch /\ R(y).seq = y.seq /\ R(y).due = y.due
      /\ R(y).settled = y.settled + S(y) /\ Open(R(x)) = Open(x) - S(x)
  BY RaisedRow
<1>3. Older(x, y)
  BY <1>1, <1>2 DEF Older
<1>4. Open(x) \in Nat /\ S(x) \in Nat /\ S(x) <= Open(x) /\ S(y) \in Nat /\ y.settled \in Nat
  BY ShareFits, OpenType DEF RowsOK, Row
<1>5. CASE S(y) = 0
  <2>1. Open(x) = 0
    BY <1>1, <1>2, <1>3, <1>4, <1>5 DEF FromOldest
  <2> QED BY <1>2, <1>4, <2>1
<1>6. CASE S(y) > 0
  <2> DEFINE A == {z \in rows : Older(z, x)}
             B == {z \in rows : Older(z, y)}
  <2>1. A \in SUBSET B /\ x \in B \ A /\ A \union {x} \in SUBSET B
    BY <1>3, AgesDiffer
  <2>2. RowsOK(A) /\ RowsOK(B) /\ A \union {x} \in SUBSET rows
    BY <2>1, PartIsOK
  <2>3. money - OpenOf(B) > 0
    <3>1. S(y) = LET left == money - OpenOf(B) IN IF left > 0 THEN Smaller(left, Open(y)) ELSE 0
      BY ShareFits
    <3> HIDE DEF B, S
    <3> QED BY <1>6, <3>1
  <2>4. OpenOf(A) + Open(x) <= OpenOf(B)
    <3> DEFINE g == [z \in B |-> Open(z)]
               h == [z \in A |-> Open(z)]
               k == [z \in B |-> IF z \in A \union {x} THEN Open(z) ELSE 0]
    <3>0. \A z \in rows : Open(z) \in Nat
      BY OpenType
    <3>1. /\ \A z \in B : g[z] \in Int /\ k[z] \in Int /\ k[z] <= g[z]
          /\ \A z \in A : h[z] \in Int /\ k[z] = h[z]
          /\ k[x] = Open(x) /\ \A z \in B \ (A \union {x}) : k[z] = 0
      <4> HIDE DEF A
      <4> QED BY <2>1, <3>0
    <3>2. IsFiniteSet(A) /\ IsFiniteSet(B) /\ IsFiniteSet(A \union {x})
      BY <2>2, FS_AddElement DEF RowsOK
    <3>3. OpenOf(A) = SumFunctionOnSet(h, A) /\ OpenOf(B) = SumFunctionOnSet(g, B)
      BY <2>2, OpenType
    <3> HIDE DEF g, h, k, A, B
    <3>4. SumFunctionOnSet(k, B) = SumFunctionOnSet(k, A \union {x})
      BY <2>1, <3>1, <3>2, SumPadded
    <3>5. SumFunctionOnSet(k, A \union {x}) = k[x] + SumFunctionOnSet(k, A)
      <4>1. \A z \in B : k[z] \in Int
        BY <3>1
      <4>2. A \in SUBSET B /\ x \in B \ A
        BY <2>1
      <4> QED BY <3>2, <4>1, <4>2, SumInsert
    <3>6. SumFunctionOnSet(k, A) = SumFunctionOnSet(h, A)
      BY <3>1, <3>2, SumSame
    <3>7. SumFunctionOnSet(k, B) <= SumFunctionOnSet(g, B)
      BY <3>1, <3>2, SumAtMost
    <3>8. OpenOf(A) \in Nat
      BY <2>2, OpenType
    <3> QED BY <1>4, <3>1, <3>3, <3>4, <3>5, <3>6, <3>7, <3>8
  <2>5. OpenOf(A) \in Nat /\ OpenOf(B) \in Nat
    BY <2>2, OpenType
  <2>6. S(x) = LET left == money - OpenOf(A) IN IF left > 0 THEN Smaller(left, Open(x)) ELSE 0
    BY ShareFits
  <2> HIDE DEF A, B, S
  <2>7. money - OpenOf(A) > 0 /\ Open(x) <= money - OpenOf(A)
    BY <1>4, <2>3, <2>4, <2>5
  <2>8. S(x) = Open(x)
    BY <1>4, <2>5, <2>6, <2>7 DEF Smaller
  <2> QED BY <1>2, <1>4, <2>8 DEF S
<1> QED BY <1>4, <1>5, <1>6

\* The sums over rows, as sums over a finite set.
LEMMA TotalTypes ==
    ASSUME NEW rows, RowsOK(rows)
    PROVE  /\ Settled(rows) \in Nat /\ Settled(rows) = SumFunctionOnSet([x \in rows |-> x.settled], rows)
           /\ Total(rows) \in Int /\ Total(rows) = SumFunctionOnSet([x \in rows |-> x.amount], rows)
           /\ Room(rows) \in Nat
           /\ Room(rows) = SumFunctionOnSet([x \in rows |-> IF x.amount > 0 THEN x.amount ELSE 0], rows)
           /\ Total(rows) <= Room(rows)
<1> DEFINE s == [x \in rows |-> x.settled]
           a == [x \in rows |-> x.amount]
           m == [x \in rows |-> IF x.amount > 0 THEN x.amount ELSE 0]
<1>1. /\ IsFiniteSet(rows)
      /\ \A x \in rows : s[x] \in Nat /\ a[x] \in Int /\ m[x] \in Nat /\ m[x] \in Int /\ a[x] <= m[x]
  BY DEF RowsOK, Row
<1>2. /\ Settled(rows) = SumFunctionOnSet(s, rows) /\ Total(rows) = SumFunctionOnSet(a, rows)
      /\ Room(rows) = SumFunctionOnSet(m, rows)
  BY DEF Settled, Total, Room, SumFunction
<1> HIDE DEF s, a, m
<1>3. SumFunctionOnSet(s, rows) \in Nat /\ SumFunctionOnSet(m, rows) \in Nat
  BY <1>1, SumNat
<1>4. SumFunctionOnSet(a, rows) \in Int
  BY <1>1, SumType
<1>5. SumFunctionOnSet(a, rows) <= SumFunctionOnSet(m, rows)
  BY <1>1, SumAtMost
<1> QED BY <1>2, <1>3, <1>4, <1>5 DEF s, a, m

\* Rows are open for what they can hold and do not hold yet.
LEMMA OpenIsTheRest ==
    ASSUME NEW rows, RowsOK(rows)
    PROVE  Room(rows) = OpenOf(rows) + Settled(rows)
<1> DEFINE s == [x \in rows |-> x.settled]
           o == [x \in rows |-> Open(x)]
           m == [x \in rows |-> IF x.amount > 0 THEN x.amount ELSE 0]
<1>1. /\ IsFiniteSet(rows)
      /\ \A x \in rows : s[x] \in Int /\ o[x] \in Int /\ m[x] = o[x] + s[x]
  BY DEF RowsOK, Row, Fits, Open
<1>2. /\ Settled(rows) = SumFunctionOnSet(s, rows) /\ OpenOf(rows) = SumFunctionOnSet(o, rows)
      /\ Room(rows) = SumFunctionOnSet(m, rows)
  BY TotalTypes, OpenType
<1> HIDE DEF s, o, m
<1>3. SumFunctionOnSet(m, rows) = SumFunctionOnSet(o, rows) + SumFunctionOnSet(s, rows)
  BY <1>1, SumPlus
<1> QED BY <1>2, <1>3

\* What is poured is added to what the rows hold; nothing else changes.
LEMMA PouredAddsUp ==
    ASSUME NEW rows, RowsOK(rows), NEW money \in Nat
    PROVE  LET P == Poured(rows, money)
           IN  /\ Settled(P) = Settled(rows) + Smaller(money, OpenOf(rows))
               /\ Total(P) = Total(rows)
               /\ Room(P) = Room(rows)
<1> DEFINE P == Poured(rows, money)
           F == [x \in rows |-> Raise(rows, x, money)]
           S == [x \in rows |-> Share(rows, x, money)]
           s == [x \in rows |-> x.settled]
           a == [x \in rows |-> x.amount]
           m == [x \in rows |-> IF x.amount > 0 THEN x.amount ELSE 0]
           sp == [z \in P |-> z.settled]
           ap == [z \in P |-> z.amount]
           mp == [z \in P |-> IF z.amount > 0 THEN z.amount ELSE 0]
<1>1. RowsOK(P) /\ P = {F[x] : x \in rows} /\ IsFiniteSet(rows)
  <2>1. RowsOK(P)
    BY PouredIsOK
  <2>2. P = {F[x] : x \in rows}
    BY DEF Poured
  <2>3. IsFiniteSet(rows)
    BY DEF RowsOK
  <2> QED BY <2>1, <2>2, <2>3
<1>2. /\ Settled(P) = SumFunctionOnSet(sp, P) /\ Total(P) = SumFunctionOnSet(ap, P)
      /\ Room(P) = SumFunctionOnSet(mp, P)
  <2> HIDE DEF P
  <2> QED BY <1>1, TotalTypes
<1>3. /\ Settled(rows) = SumFunctionOnSet(s, rows) /\ Total(rows) = SumFunctionOnSet(a, rows)
      /\ Room(rows) = SumFunctionOnSet(m, rows)
  BY TotalTypes
<1>4. \A x \in rows : /\ F[x] \in P /\ Key(F[x]) = Key(x)
                      /\ F[x].settled = s[x] + S[x] /\ F[x].amount = a[x]
                      /\ s[x] \in Int /\ S[x] \in Int /\ a[x] \in Int /\ m[x] \in Int
                      /\ m[x] = IF F[x].amount > 0 THEN F[x].amount ELSE 0
  <2>1. \A x \in rows : s[x] \in Int /\ a[x] \in Int /\ m[x] \in Int
    BY DEF RowsOK, Row
  <2>2. \A x \in rows : F[x] = Raise(rows, x, money)
    OBVIOUS
  <2>3. \A x \in rows : /\ Key(F[x]) = Key(x)
                        /\ F[x].settled = s[x] + S[x] /\ F[x].amount = a[x] /\ S[x] \in Int
    <3> SUFFICES ASSUME NEW x \in rows
                 PROVE  /\ Key(F[x]) = Key(x) /\ F[x].settled = s[x] + S[x]
                        /\ F[x].amount = a[x] /\ S[x] \in Int
      OBVIOUS
    <3>1. F[x] = Raise(rows, x, money) /\ s[x] = x.settled /\ a[x] = x.amount
          /\ S[x] = Share(rows, x, money)
      OBVIOUS
    <3>2. Share(rows, x, money) \in Nat
      BY ShareFits
    <3> DEFINE z == Raise(rows, x, money)
    <3>3. /\ Key(z) = Key(x) /\ z.settled = x.settled + Share(rows, x, money)
          /\ z.amount = x.amount
      BY RaisedRow
    <3>4. F[x] = z
      BY <3>1
    <3> HIDE DEF F, s, a, S, z
    <3> QED BY <3>1, <3>2, <3>3, <3>4
  <2>4. \A x \in rows : F[x] \in P
    BY <1>1
  <2>5. \A x \in rows : m[x] = IF a[x] > 0 THEN a[x] ELSE 0
    OBVIOUS
  <2> HIDE DEF F, P, s, a, m, S
  <2> QED BY <2>1, <2>3, <2>4, <2>5
<1>5. \A x, y \in rows : F[x] = F[y] => x = y
  <2> HIDE DEF F
  <2> QED BY <1>4 DEF RowsOK
<1>6. \A x \in rows : sp[F[x]] = s[x] + S[x] /\ ap[F[x]] = a[x] /\ mp[F[x]] = m[x]
  <2>1. \A z \in P : sp[z] = z.settled /\ ap[z] = z.amount
                     /\ mp[z] = IF z.amount > 0 THEN z.amount ELSE 0
    OBVIOUS
  <2> HIDE DEF F, P, s, a, m, S, sp, ap, mp
  <2> QED BY <1>4, <2>1
<1>7. SumFunctionOnSet(S, rows) = Smaller(money, OpenOf(rows))
  BY SharesAddUp
<1> HIDE DEF F, P, S, s, a, m, sp, ap, mp
<1>8. \A x \in rows : sp[F[x]] \in Int /\ ap[F[x]] \in Int /\ mp[F[x]] \in Int
  BY <1>4, <1>6
<1>9. /\ SumFunctionOnSet(sp, P) = SumFunctionOnSet([x \in rows |-> sp[F[x]]], rows)
      /\ SumFunctionOnSet(ap, P) = SumFunctionOnSet([x \in rows |-> ap[F[x]]], rows)
      /\ SumFunctionOnSet(mp, P) = SumFunctionOnSet([x \in rows |-> mp[F[x]]], rows)
  BY <1>1, <1>5, <1>8, SumOfImage
<1>10. SumFunctionOnSet([x \in rows |-> sp[F[x]]], rows)
           = SumFunctionOnSet(s, rows) + SumFunctionOnSet(S, rows)
  <2> DEFINE h == [x \in rows |-> sp[F[x]]]
  <2>1. \A x \in rows : s[x] \in Int /\ S[x] \in Int /\ h[x] = s[x] + S[x]
    BY <1>4, <1>6
  <2> HIDE DEF h
  <2>2. SumFunctionOnSet(h, rows) = SumFunctionOnSet(s, rows) + SumFunctionOnSet(S, rows)
    BY <1>1, <2>1, SumPlus
  <2> QED BY <2>2 DEF h
<1>11. /\ SumFunctionOnSet([x \in rows |-> ap[F[x]]], rows) = SumFunctionOnSet(a, rows)
       /\ SumFunctionOnSet([x \in rows |-> mp[F[x]]], rows) = SumFunctionOnSet(m, rows)
  <2> DEFINE h == [x \in rows |-> ap[F[x]]]
             k == [x \in rows |-> mp[F[x]]]
  <2>1. \A x \in rows : a[x] \in Int /\ m[x] \in Int /\ h[x] = a[x] /\ k[x] = m[x]
    BY <1>4, <1>6
  <2> HIDE DEF h, k
  <2>2. /\ SumFunctionOnSet(h, rows) = SumFunctionOnSet(a, rows)
        /\ SumFunctionOnSet(k, rows) = SumFunctionOnSet(m, rows)
    BY <1>1, <2>1, SumSame
  <2> QED BY <2>2 DEF h, k
<1> QED BY <1>2, <1>3, <1>7, <1>9, <1>10, <1>11 DEF P

-----------------------------------------------------------------------------
(* Plans that fit their note                                                *)

\* Either no amount is negative, or the plan is for the whole note.
PlanFor(n, rows) ==
    /\ RowsOK(rows)
    /\ Room(rows) = Total(rows) \/ Total(rows) = Gross[n]

ShowsSettled(rows, money) == Settled(rows) = Smaller(money, Total(rows))

\* Pouring keeps a plan fit for its note, and in step with what is settled.
LEMMA PouredPlan ==
    ASSUME NEW n \in Notes, NEW rows, PlanFor(n, rows), NEW money \in Nat
    PROVE  /\ PlanFor(n, Poured(rows, money))
           /\ \A before \in Nat :
                  before + money <= Gross[n] /\ ShowsSettled(rows, before)
                      => ShowsSettled(Poured(rows, money), before + money)
<1> DEFINE P == Poured(rows, money)
<1>1. RowsOK(rows) /\ RowsOK(P)
  BY PouredIsOK DEF PlanFor
<1>2. /\ Settled(P) = Settled(rows) + Smaller(money, OpenOf(rows))
      /\ Total(P) = Total(rows) /\ Room(P) = Room(rows)
  BY <1>1, PouredAddsUp
<1>3. /\ Room(rows) = OpenOf(rows) + Settled(rows) /\ Settled(rows) \in Nat
      /\ OpenOf(rows) \in Nat /\ Total(rows) \in Int /\ Total(rows) <= Room(rows) /\ Room(rows) \in Nat
  BY <1>1, OpenIsTheRest, TotalTypes, OpenType
<1>4. Gross[n] \in Nat
  BY NotesAssumption
<1> HIDE DEF P
<1>5. PlanFor(n, P)
  BY <1>1, <1>2 DEF PlanFor
<1>6. ASSUME NEW before \in Nat, before + money <= Gross[n], ShowsSettled(rows, before)
      PROVE  ShowsSettled(P, before + money)
  <2>1. Settled(rows) = Smaller(before, Total(rows)) /\ (Room(rows) = Total(rows) \/ Total(rows) = Gross[n])
    BY <1>6 DEF ShowsSettled, PlanFor
  <2>2. Settled(P) = Smaller(before + money, Total(P))
    BY <1>2, <1>3, <1>4, <1>6, <2>1 DEF Smaller
  <2> QED BY <2>2 DEF ShowsSettled
<1> QED BY <1>5, <1>6 DEF P

\* Rows that have just been made for a note.
NewFor(r, n, rows) ==
    /\ PlanFor(n, rows)
    /\ \A x \in rows : x.batch = r /\ x.settled = 0

\* Rows just made are in step with a note that has settled nothing.
LEMMA NewShowsNothing ==
    ASSUME NEW n \in Notes, NEW r, NEW rows, NewFor(r, n, rows)
    PROVE  FromOldest(rows) /\ ShowsSettled(rows, 0)
<1>1. RowsOK(rows) /\ \A x \in rows : x.settled = 0
  BY DEF NewFor, PlanFor
<1>2. FromOldest(rows)
  BY <1>1 DEF FromOldest
<1>3. Settled(rows) = 0
  <2> DEFINE s == [x \in rows |-> x.settled]
  <2>1. Settled(rows) = SumFunctionOnSet(s, rows)
    BY <1>1, TotalTypes
  <2>2. \A x \in rows : s[x] = 0
    BY <1>1
  <2>3. IsFiniteSet(rows)
    BY <1>1 DEF RowsOK
  <2>4. Cardinality(rows) \in Nat
    BY <2>3, FS_CardinalityType
  <2> HIDE DEF s
  <2>5. SumFunctionOnSet(s, rows) = Cardinality(rows) * 0
    BY <2>2, <2>3, SumOfEqual
  <2> QED BY <2>1, <2>4, <2>5
<1>4. Total(rows) >= 0
  <2>1. Room(rows) \in Nat /\ Gross[n] \in Nat
    BY <1>1, TotalTypes, NotesAssumption
  <2> QED BY <2>1 DEF NewFor, PlanFor
<1>5. Total(rows) \in Int
  BY <1>1, TotalTypes
<1>6. ShowsSettled(rows, 0)
  BY <1>3, <1>4, <1>5 DEF ShowsSettled, Smaller
<1> QED BY <1>2, <1>6

\* Rows are numbered, and made, from a range of numbers that determine them.
LEMMA NumberedRows ==
    ASSUME NEW r \in Requests, NEW c \in Nat, NEW F \in [1..c -> Row],
           \A i \in 1..c : F[i].batch = r /\ F[i].settled = 0,
           \A i, j \in 1..c : F[i].seq = F[j].seq => i = j
    PROVE  /\ RowsOK({F[i] : i \in 1..c})
           /\ \A x \in {F[i] : i \in 1..c} : x.batch = r /\ x.settled = 0
           /\ Total({F[i] : i \in 1..c}) = SumFunctionOnSet([i \in 1..c |-> F[i].amount], 1..c)
<1> DEFINE rows == {F[i] : i \in 1..c}
<1>1. IsFiniteSet(1..c)
  BY FS_Interval
<1>2. \A i, j \in 1..c : F[i] = F[j] => i = j
  OBVIOUS
<1> DEFINE a == [x \in rows |-> x.amount]
<1>3. \A i \in 1..c : a[F[i]] = F[i].amount /\ a[F[i]] \in Int
  BY DEF Row
<1> HIDE DEF a
<1>4. /\ IsFiniteSet(rows)
      /\ SumFunctionOnSet(a, rows) = SumFunctionOnSet([i \in 1..c |-> a[F[i]]], 1..c)
  <2> DEFINE S == 1..c
  <2>1. /\ IsFiniteSet(S) /\ rows = {F[i] : i \in S}
        /\ \A i, j \in S : F[i] = F[j] => i = j
        /\ \A i \in S : a[F[i]] \in Int
    BY <1>1, <1>2, <1>3
  <2> HIDE DEF S
  <2>2. /\ IsFiniteSet({F[i] : i \in S})
        /\ SumFunctionOnSet(a, {F[i] : i \in S}) = SumFunctionOnSet([i \in S |-> a[F[i]]], S)
    <3> HIDE DEF rows
    <3>1. IsFiniteSet(S)
      BY <2>1
    <3>2. \A i, j \in S : F[i] = F[j] => i = j
      BY <2>1
    <3>3. \A i \in S : a[F[i]] \in Int
      BY <2>1
    <3> QED BY ONLY <3>1, <3>2, <3>3, SumOfImage
  <2> QED BY <2>1, <2>2 DEF S
<1>5. [i \in 1..c |-> a[F[i]]] = [i \in 1..c |-> F[i].amount]
  BY <1>3
<1>6. RowsOK(rows)
  <2>0. rows = {F[i] : i \in 1..c}
    OBVIOUS
  <2> HIDE DEF rows
  <2>1. rows \in SUBSET Row /\ \A x \in rows : x.settled = 0
    BY <2>0
  <2>2. \A x, y \in rows : Key(x) = Key(y) => x = y
    BY <2>0 DEF Key
  <2>3. \A x \in rows : Fits(x)
    BY <2>1 DEF Fits
  <2> QED BY <1>4, <2>1, <2>2, <2>3 DEF RowsOK
<1>7. Total(rows) = SumFunctionOnSet(a, rows)
  BY <1>6, TotalTypes DEF a
<1> QED BY <1>4, <1>5, <1>6, <1>7

\* Quick mode: the last amount makes up for the rounding of the others.
LEMMA QuickRowsFit ==
    ASSUME NEW r \in Requests, NEW n \in Notes, NEW dto \in Dtos, Accepts(Gross[n], dto),
           dto.mode = "quick"
    PROVE  NewFor(r, n, NewRows(r, n, dto))
<1>0. PICK c : c = dto.count
  OBVIOUS
<1> DEFINE p == PerMonth(Gross[n], c)
           q(i) == QuickAmount(Gross[n], c, i)
           F == [i \in 1..c |-> [batch |-> r, seq |-> i, due |-> i - 1, amount |-> q(i), settled |-> 0]]
           rows == NewRows(r, n, dto)
<1>1. c \in 2..36 /\ c \in Nat /\ Gross[n] \in Nat
  BY <1>0, NotesAssumption DEF Accepts
<1>2. p \in Int
  BY <1>1 DEF PerMonth
<1> HIDE DEF p
<1>3. \A i \in 1..c : q(i) = IF i = c THEN Gross[n] - (c - 1) * p ELSE p
  BY DEF QuickAmount, p
<1>4. (c - 1) * p \in Int
  BY <1>1, <1>2
<1>5. \A i \in 1..c : q(i) \in Int
  BY <1>1, <1>2, <1>3, <1>4
<1>6. rows = {F[i] : i \in 1..c}
  <2>1. InstallmentRows(Gross[n], dto) = {[seq |-> i, due |-> i - 1, amount |-> q(i)] : i \in 1..c}
    BY <1>0 DEF InstallmentRows, QuickRows
  <2> DEFINE I == {[seq |-> i, due |-> i - 1, amount |-> q(i)] : i \in 1..c}
             new(x) == [batch |-> r, seq |-> x.seq, due |-> x.due, amount |-> x.amount, settled |-> 0]
  <2>2. rows = {new(x) : x \in I}
    BY <2>1 DEF NewRows
  <2> HIDE DEF q, rows
  <2>3. \A i \in 1..c : new([seq |-> i, due |-> i - 1, amount |-> q(i)]) = F[i]
    OBVIOUS
  <2> QED BY <2>2, <2>3
<1> HIDE DEF q, rows
<1>7. \A i \in 1..c : F[i] \in Row /\ F[i].batch = r /\ F[i].settled = 0 /\ F[i].seq = i /\ F[i].amount = q(i)
  BY <1>1, <1>5 DEF Row
<1>f. F = [i \in 1..c |-> F[i]]
  OBVIOUS
<1> HIDE DEF F
<1>8. /\ RowsOK(rows) /\ \A x \in rows : x.batch = r /\ x.settled = 0
      /\ Total(rows) = SumFunctionOnSet([i \in 1..c |-> F[i].amount], 1..c)
  <2>1. c \in Nat
    BY <1>1
  <2>2. \A i, j \in 1..c : F[i].seq = F[j].seq => i = j
    BY <1>7
  <2>3. F \in [1..c -> Row] /\ \A i \in 1..c : F[i].batch = r /\ F[i].settled = 0
    BY <1>7, <1>f
  <2> DEFINE made == {F[i] : i \in 1..c}
  <2>4. /\ RowsOK(made) /\ \A x \in made : x.batch = r /\ x.settled = 0
        /\ Total(made) = SumFunctionOnSet([i \in 1..c |-> F[i].amount], 1..c)
    BY <2>1, <2>2, <2>3, NumberedRows
  <2> HIDE DEF made
  <2> QED BY <1>6, <2>4 DEF made
<1>9. Total(rows) = Gross[n]
  <2> DEFINE a == [i \in 1..c |-> F[i].amount]
             S == 1..(c - 1)
  <2>1. \A i \in 1..c : a[i] \in Int /\ a[i] = q(i)
    BY <1>5, <1>7
  <2>2. /\ S \in SUBSET (1..c) /\ c \in (1..c) \ S /\ 1..c = S \union {c}
        /\ IsFiniteSet(1..c) /\ IsFiniteSet(S) /\ Cardinality(S) = c - 1
    <3>1. IsFiniteSet(1..c) /\ IsFiniteSet(1..(c - 1)) /\ Cardinality(1..(c - 1)) = c - 1
      <4>1. 1 \in Int /\ c \in Int /\ c - 1 \in Int /\ ~ (1 > c - 1) /\ (c - 1) - 1 + 1 = c - 1
        BY <1>1
      <4>2. IsFiniteSet(1..c)
        BY <4>1, FS_Interval
      <4> DEFINE b == c - 1
      <4>3. b \in Int /\ ~ (1 > b) /\ b - 1 + 1 = b
        BY <4>1
      <4> HIDE DEF b
      <4>4. IsFiniteSet(1..b) /\ Cardinality(1..b) = b
        BY <4>3, FS_Interval
      <4> QED BY <4>2, <4>4 DEF b
    <3> QED BY <1>1, <3>1
  <2>3. \A i \in S : a[i] = p
    BY <1>1, <1>3, <2>1
  <2>4. a[c] = Gross[n] - (c - 1) * p
    BY <1>1, <1>3, <2>1
  <2> HIDE DEF a, S
  <2>5. SumFunctionOnSet(a, S \union {c}) = a[c] + SumFunctionOnSet(a, S)
    BY <2>1, <2>2, SumInsert
  <2>6. SumFunctionOnSet(a, S) = (c - 1) * p
    BY <1>2, <2>2, <2>3, SumOfEqual
  <2> DEFINE k == (c - 1) * p
  <2>7. k \in Int /\ a[c] = Gross[n] - k /\ SumFunctionOnSet(a, S) = k
    BY <1>4, <2>4, <2>6
  <2> HIDE DEF k
  <2>8. SumFunctionOnSet(a, 1..c) = Gross[n]
    <3>1. SumFunctionOnSet(a, 1..c) = SumFunctionOnSet(a, S \union {c})
      BY ONLY <2>2
    <3>2. SumFunctionOnSet(a, 1..c) = (Gross[n] - k) + k
      BY <2>5, <2>7, <3>1
    <3> QED BY <1>1, <2>7, <3>2
  <2> QED BY <1>8, <2>8 DEF a
<1> QED BY <1>8, <1>9 DEF NewFor, PlanFor, rows

\* Custom mode: no amount is negative, and rows are numbered by due date and order.
LEMMA CustomRowsFit ==
    ASSUME NEW r \in Requests, NEW n \in Notes, NEW dto \in Dtos, Accepts(Gross[n], dto),
           dto.mode = "custom"
    PROVE  NewFor(r, n, NewRows(r, n, dto))
<1>0. PICK d : d = dto.rows
  OBVIOUS
<1>c. PICK c : c = Len(d)
  OBVIOUS
<1> DEFINE before(j, i) == d[j].due < d[i].due \/ (d[j].due = d[i].due /\ j <= i)
           Upto(i) == {j \in 1..c : before(j, i)}
           F == [i \in 1..c |-> [batch |-> r, seq |-> Cardinality(Upto(i)), due |-> d[i].due,
                                 amount |-> d[i].amount, settled |-> 0]]
           rows == NewRows(r, n, dto)
<1>1. d \in Seq([due : Nat, amount : Int])
  BY <1>0, DtosAssumption
<1>2. c \in Nat /\ DOMAIN d = 1..c /\ \A i \in 1..c : d[i].due \in Nat /\ d[i].amount \in Int
  <2>1. c \in Nat /\ DOMAIN d = 1..c /\ \A i \in 1..c : d[i] \in [due : Nat, amount : Int]
    <3> DEFINE E == [due : Nat, amount : Int]
    <3>1. d \in Seq(E) /\ c = Len(d)
      BY <1>1, <1>c
    <3> HIDE DEF E
    <3>2. c \in Nat /\ DOMAIN d = 1..c /\ \A i \in 1..c : d[i] \in E
      BY <3>1
    <3> QED BY <3>2 DEF E
  <2> QED BY <2>1
<1>3. \A i \in 1..c : d[i].amount > 0
  BY <1>0, <1>2 DEF Accepts
<1>4. rows = {F[i] : i \in 1..c}
  <2>1. InstallmentRows(Gross[n], dto)
            = {[seq |-> Cardinality(Upto(i)), due |-> d[i].due, amount |-> d[i].amount] : i \in 1..c}
    BY <1>0, <1>2 DEF InstallmentRows, CustomRows
  <2> DEFINE item(i) == [seq |-> Cardinality(Upto(i)), due |-> d[i].due, amount |-> d[i].amount]
             new(x) == [batch |-> r, seq |-> x.seq, due |-> x.due, amount |-> x.amount, settled |-> 0]
  <2>2. rows = {new(x) : x \in {item(i) : i \in 1..c}}
    BY <2>1 DEF NewRows
  <2> HIDE DEF Upto, rows
  <2>3. \A i \in 1..c : new(item(i)) = F[i]
    OBVIOUS
  <2> HIDE DEF item, F
  <2> QED BY <2>2, <2>3
<1>5. \A i \in 1..c : /\ IsFiniteSet(Upto(i)) /\ Cardinality(Upto(i)) \in Nat \ {0} /\ i \in Upto(i)
  <2> SUFFICES ASSUME NEW i \in 1..c
               PROVE  IsFiniteSet(Upto(i)) /\ Cardinality(Upto(i)) \in Nat \ {0} /\ i \in Upto(i)
    OBVIOUS
  <2>1. IsFiniteSet(1..c) /\ Upto(i) \in SUBSET (1..c)
    BY <1>2, FS_Interval
  <2>2. i \in Upto(i)
    BY <1>2
  <2> HIDE DEF Upto
  <2>3. IsFiniteSet(Upto(i))
    BY <2>1, FS_Subset
  <2> QED BY <2>2, <2>3, FS_CardinalityType, FS_EmptySet
<1>6. ASSUME NEW i \in 1..c, NEW j \in 1..c, before(i, j), i # j
      PROVE  Cardinality(Upto(i)) # Cardinality(Upto(j))
  <2>1. Upto(i) \in SUBSET Upto(j) /\ j \notin Upto(i)
    BY <1>2, <1>6
  <2>2. IsFiniteSet(Upto(j)) /\ j \in Upto(j)
    BY <1>5
  <2> HIDE DEF Upto
  <2> QED BY <2>1, <2>2, FS_Subset
<1>7. \A i, j \in 1..c : i # j => before(i, j) \/ before(j, i)
  BY <1>2
<1>8. \A i \in 1..c : F[i] \in Row /\ F[i].batch = r /\ F[i].settled = 0
                      /\ F[i].seq = Cardinality(Upto(i)) /\ F[i].amount = d[i].amount
  <2> HIDE DEF Upto
  <2> QED BY <1>2, <1>5 DEF Row
<1>9. \A i, j \in 1..c : F[i].seq = F[j].seq => i = j
  <2> HIDE DEF F, Upto, before
  <2> QED BY <1>6, <1>7, <1>8
<1>10. RowsOK(rows) /\ \A x \in rows : x.batch = r /\ x.settled = 0
  <2>4. F = [i \in 1..c |-> F[i]]
    OBVIOUS
  <2> HIDE DEF F, rows, Upto, before
  <2>0. c \in Nat
    BY <1>2
  <2>1. F \in [1..c -> Row] /\ \A i \in 1..c : F[i].batch = r /\ F[i].settled = 0
    BY <1>8, <2>4
  <2>3. \A i, j \in 1..c : F[i].seq = F[j].seq => i = j
    BY <1>9
  <2> DEFINE made == {F[i] : i \in 1..c}
  <2>2. /\ RowsOK(made) /\ \A x \in made : x.batch = r /\ x.settled = 0
        /\ Total(made) = SumFunctionOnSet([i \in 1..c |-> F[i].amount], 1..c)
    BY <2>0, <2>1, <2>3, NumberedRows
  <2> HIDE DEF made
  <2> QED BY <1>4, <2>2 DEF made
<1>11. Room(rows) = Total(rows)
  <2>1. \A x \in rows : x.amount > 0 /\ x.amount \in Int
    <3> HIDE DEF F, rows
    <3> QED BY <1>2, <1>3, <1>4, <1>8
  <2> HIDE DEF rows
  <2>2. [x \in rows |-> IF x.amount > 0 THEN x.amount ELSE 0] = [x \in rows |-> x.amount]
    BY <2>1
  <2> QED BY <2>2 DEF Room, Total
<1> QED BY <1>10, <1>11 DEF NewFor, PlanFor

\* Whatever the body of the request, its rows fit the note.
LEMMA NewRowsFit ==
    ASSUME NEW r \in Requests, NEW n \in Notes, NEW dto \in Dtos, Accepts(Gross[n], dto)
    PROVE  NewFor(r, n, NewRows(r, n, dto))
BY DtosAssumption, QuickRowsFit, CustomRowsFit

-----------------------------------------------------------------------------
(* The ledger and the payments, however requests interleave                 *)

\* The part of TypeOK that does not depend on the sums of installments.
LedgerTypes ==
    /\ settled \in [Notes -> Nat]
    /\ posted \in [Notes -> Nat]
    /\ vouchers \in [Requests -> Voucher \union {None}]
    /\ pay \in [Payments -> PayRow]
    /\ req \in [Requests -> Request]

\* A started payment has a note, and a charge only when it is started.
PayRowsOK ==
    \A p \in Payments : /\ pay[p].status # "none" => pay[p].note \in Notes
                        /\ pay[p].charged => pay[p].status # "none"

\* A request on behalf of a payment carries a started one; one that is posting
\* for it carries the payment's note and amount.
CarriesPayment(r) ==
    /\ req[r].step \in {"charge", "retrieve", "failed", "pending", "settle", "mark"}
           => req[r].pay \in Payments
    /\ req[r].pay \in Payments => pay[req[r].pay].status # "none"
    /\ req[r].step \in {"receipt", "locked", "mark"} /\ req[r].pay # None
           => /\ req[r].note = pay[req[r].pay].note
              /\ req[r].amount = pay[req[r].pay].amount

\* What recordReceipt read still leaves room for the amount, and is vouched.
ReadIsSafe(r) ==
    req[r].step \in {"receipt", "locked"} =>
        /\ req[r].note \in Notes
        /\ req[r].already + req[r].amount <= Gross[req[r].note]
        /\ req[r].already <= posted[req[r].note]

\* A request has posted a voucher only if it is marking its payment or over,
\* and what it marks is what it posted.
PostedOnce(r) ==
    /\ vouchers[r] # None => req[r].step \in {"mark", "done"}
    /\ req[r].step = "mark" =>
           vouchers[r] = [note |-> req[r].note, amount |-> req[r].amount, pay |-> req[r].pay]

RequestsOK == \A r \in Requests : CarriesPayment(r) /\ ReadIsSafe(r) /\ PostedOnce(r)

LedgerInv ==
    /\ LedgerTypes
    /\ PayRowsOK
    /\ RequestsOK
    /\ SettledWithinGross
    /\ SettledIsVouched
    /\ PaidHasReceipt

USE NotesAssumption, RequestsAssumption, AmountsAssumption, NoneAssumption

-----------------------------------------------------------------------------
\* Init establishes the invariant.
LEMMA LedgerInit == Init => LedgerInv
  <1> SUFFICES ASSUME Init PROVE LedgerInv
    OBVIOUS
  <1> USE DEF Init, Idle, Local, NoPayment, Payment
  <1>1. LedgerTypes
    BY DEF LedgerTypes, PayRow, PayStatus, Request, Steps
  <1>2. PayRowsOK /\ PaidHasReceipt
    BY DEF PayRowsOK, PaidHasReceipt
  <1>3. RequestsOK
    BY DEF RequestsOK, CarriesPayment, ReadIsSafe, PostedOnce
  <1>4. SettledWithinGross /\ SettledIsVouched
    BY DEF SettledWithinGross, SettledIsVouched
  <1> QED BY <1>1, <1>2, <1>3, <1>4 DEF LedgerInv

\* A step that only moves one request on, to a state that is right for it, and
\* leaves the ledger and the payments alone keeps the invariant.
LEMMA MoveOn ==
  ASSUME LedgerInv,
         NEW r \in Requests, NEW local \in Request,
         req' = [req EXCEPT ![r] = local],
         UNCHANGED <<settled, posted, vouchers, pay>>,
         (CarriesPayment(r) /\ ReadIsSafe(r) /\ PostedOnce(r))'
  PROVE  LedgerInv'
  <1> USE DEF LedgerInv
  <1>1. LedgerTypes'
    BY DEF LedgerTypes
  <1>2. \A q \in Requests \ {r} : req'[q] = req[q]
    BY DEF LedgerTypes
  <1>3. ASSUME NEW q \in Requests
        PROVE  (CarriesPayment(q) /\ ReadIsSafe(q) /\ PostedOnce(q))'
    <2>1. CASE q = r
      BY <2>1
    <2>2. CASE q # r
      BY <1>2, <2>2 DEF RequestsOK, CarriesPayment, ReadIsSafe, PostedOnce
    <2> QED BY <2>1, <2>2
  <1>4. RequestsOK'
    BY <1>3 DEF RequestsOK
  <1>5. (PayRowsOK /\ SettledWithinGross /\ SettledIsVouched /\ PaidHasReceipt)'
    BY DEF PayRowsOK, SettledWithinGross, SettledIsVouched, PaidHasReceipt
  <1> QED BY <1>1, <1>4, <1>5

\* A step that leaves every variable of the invariant alone keeps it.
LEMMA LedgerStutter ==
  ASSUME LedgerInv, UNCHANGED <<settled, posted, vouchers, pay, req>>
  PROVE  LedgerInv'
  BY DEF LedgerInv, LedgerTypes, PayRowsOK, RequestsOK, CarriesPayment, ReadIsSafe,
         PostedOnce, SettledWithinGross, SettledIsVouched, PaidHasReceipt

\* A request that is over has nothing left to say.
LEMMA FinishKeepsInv ==
  ASSUME LedgerInv, NEW r \in Requests, req[r].step # "idle",
         req' = [req EXCEPT ![r] = Over],
         UNCHANGED <<settled, posted, vouchers, pay>>
  PROVE  LedgerInv'
  <1>1. Over \in Request
    BY DEF Over, Local, Request, Steps
  <1>2. req'[r] = Over
    BY DEF LedgerInv, LedgerTypes
  <1>3. (CarriesPayment(r) /\ ReadIsSafe(r) /\ PostedOnce(r))'
    BY <1>2 DEF Over, Local, CarriesPayment, ReadIsSafe, PostedOnce
  <1> QED BY <1>1, <1>3, MoveOn

\* A request that goes on to another step with the same local variables.
LEMMA GotoKeepsInv ==
  ASSUME LedgerInv, NEW r \in Requests,
         NEW step \in {"locked", "failed", "pending", "settle", "spread", "write", "deleted"},
         Goto(r, step),
         UNCHANGED <<settled, posted, vouchers, pay>>,
         vouchers[r] = None,
         step \in {"failed", "pending", "settle"} => req[r].pay \in Payments,
         step = "locked" => req[r].step = "receipt"
  PROVE  LedgerInv'
  <1> DEFINE local == [req[r] EXCEPT !.step = step]
  <1>1. local \in Request /\ req' = [req EXCEPT ![r] = local] /\ req'[r] = local
    BY DEF LedgerInv, LedgerTypes, Request, Goto, Steps
  <1>2. CarriesPayment(r) /\ ReadIsSafe(r) /\ PostedOnce(r) /\ req[r] \in Request
    BY DEF LedgerInv, RequestsOK, LedgerTypes
  <1>a. /\ req'[r].step = step /\ req'[r].note = req[r].note /\ req'[r].pay = req[r].pay
        /\ req'[r].amount = req[r].amount /\ req'[r].already = req[r].already
    BY <1>1, <1>2 DEF Request
  <1> HIDE DEF local
  <1>3. CarriesPayment(r)'
    BY <1>a, <1>2 DEF CarriesPayment, Request
  <1>4. ReadIsSafe(r)'
    BY <1>a, <1>2 DEF ReadIsSafe
  <1>5. PostedOnce(r)'
    BY <1>a, <1>2 DEF PostedOnce
  <1> QED BY <1>1, <1>3, <1>4, <1>5, MoveOn

-----------------------------------------------------------------------------
\* A request begins: whatever it has read is right for it when it reads it.
LEMMA StartKeepsInv ==
  ASSUME LedgerInv, NEW r \in Requests, Start(r)
  PROVE  LedgerInv'
  <1> USE DEF Begin, CanStart
  <1>a. vouchers[r] = None /\ LedgerTypes /\ PayRowsOK
    BY DEF LedgerInv, RequestsOK, PostedOnce, Start, RecordReceipt, CreateCharge, Confirm,
           Webhook, GenerateInstallments, ReplaceInstallments, ReadForPlan
  <1>1. ASSUME NEW n \in Notes, NEW a \in Amounts, RecordReceipt(r, n, a)
        PROVE  LedgerInv'
    <2> DEFINE local == ReadNote(n, a, None)
    <2>1. local = [step |-> "receipt", note |-> n, pay |-> None, amount |-> a, already |-> settled[n]]
      BY DEF ReadNote, Local
    <2> HIDE DEF local
    <2>2. local \in Request
      BY <1>a, <2>1 DEF Request, Steps, LedgerTypes
    <2>3. req' = [req EXCEPT ![r] = local] /\ req'[r] = local
      BY <1>1, <1>a DEF RecordReceipt, LedgerTypes, local
    <2>4. ReadIsSafe(r)'
      <3>1. a <= Gross[n] - settled[n] /\ settled[n] <= posted[n]
        BY <1>1 DEF RecordReceipt, MayReceive, Outstanding, LedgerInv, SettledIsVouched
      <3> QED BY <1>1, <1>a, <2>1, <2>3, <3>1 DEF ReadIsSafe, LedgerTypes, RecordReceipt
    <2>5. (CarriesPayment(r) /\ PostedOnce(r))'
      BY <1>1, <1>a, <2>1, <2>3 DEF CarriesPayment, PostedOnce, RecordReceipt
    <2>6. UNCHANGED <<settled, posted, vouchers, pay>>
      BY <1>1 DEF RecordReceipt
    <2> QED BY <2>2, <2>3, <2>4, <2>5, <2>6, MoveOn
  <1>2. ASSUME NEW p \in Payments, Confirm(r, p) \/ Webhook(r, p)
        PROVE  LedgerInv'
    <2>1. PICK step \in {"retrieve", "settle"} :
              req' = [req EXCEPT ![r] = Local(step, None, p, 0, 0)]
      BY <1>2 DEF Confirm, Webhook
    <2> DEFINE local == Local(step, None, p, 0, 0)
    <2>2. local = [step |-> step, note |-> None, pay |-> p, amount |-> 0, already |-> 0]
      BY DEF Local
    <2> HIDE DEF local
    <2>3. local \in Request
      BY <2>2 DEF Request, Steps
    <2>4. req'[r] = local /\ UNCHANGED <<settled, posted, vouchers, pay>> /\ pay[p].charged
      BY <1>2, <1>a, <2>1 DEF LedgerTypes, Confirm, Webhook, local
    <2>5. (CarriesPayment(r) /\ ReadIsSafe(r) /\ PostedOnce(r))'
      BY <1>a, <2>2, <2>4 DEF CarriesPayment, ReadIsSafe, PostedOnce, PayRowsOK
    <2> QED BY <2>1, <2>3, <2>4, <2>5, MoveOn DEF local
  <1>3. ASSUME NEW n \in Notes, NEW dto \in Dtos,
               GenerateInstallments(r, n, dto) \/ ReplaceInstallments(r, n, dto)
        PROVE  LedgerInv'
    <2>1. PICK step \in {"insert", "replace"} :
              req' = [req EXCEPT ![r] = Local(step, n, None, 0, settled[n])]
      BY <1>3 DEF GenerateInstallments, ReplaceInstallments, ReadForPlan
    <2> DEFINE local == Local(step, n, None, 0, settled[n])
    <2>2. local = [step |-> step, note |-> n, pay |-> None, amount |-> 0, already |-> settled[n]]
      BY DEF Local
    <2> HIDE DEF local
    <2>3. local \in Request
      BY <1>a, <2>2 DEF Request, Steps, LedgerTypes
    <2>4. req'[r] = local /\ UNCHANGED <<settled, posted, vouchers, pay>>
      BY <1>3, <1>a, <2>1 DEF LedgerTypes, GenerateInstallments, ReplaceInstallments, local
    <2>5. (CarriesPayment(r) /\ ReadIsSafe(r) /\ PostedOnce(r))'
      BY <1>a, <2>2, <2>4 DEF CarriesPayment, ReadIsSafe, PostedOnce
    <2> QED BY <2>1, <2>3, <2>4, <2>5, MoveOn DEF local
  <1>4. ASSUME NEW p \in Payments, NEW n \in Notes, NEW a \in Amounts, CreateCharge(r, p, n, a)
        PROVE  LedgerInv'
    <2> DEFINE row == [status |-> "PENDING", charged |-> FALSE, note |-> n, amount |-> a, receipt |-> None]
               local == [step |-> "charge", note |-> None, pay |-> p, amount |-> 0, already |-> 0]
    <2>1. /\ pay[p].status = "none"
          /\ pay' = [pay EXCEPT ![p] = row]
          /\ req' = [req EXCEPT ![r] = local]
          /\ UNCHANGED <<settled, posted, vouchers>>
      BY <1>4 DEF CreateCharge, NoPayment, Payment, Local
    <2>2. LedgerTypes'
      BY <1>a, <2>1 DEF LedgerTypes, PayRow, PayStatus, Request, Steps
    <2>3. PayRowsOK' /\ PaidHasReceipt'
      BY <1>a, <2>1 DEF LedgerTypes, PayRowsOK, PaidHasReceipt, LedgerInv
    <2>4. ASSUME NEW q \in Requests
          PROVE  (CarriesPayment(q) /\ ReadIsSafe(q) /\ PostedOnce(q))'
      <3>1. CASE q = r
        BY <1>a, <2>1, <3>1 DEF LedgerTypes, CarriesPayment, ReadIsSafe, PostedOnce
      <3>2. CASE q # r
        <4>1. req'[q] = req[q] /\ CarriesPayment(q) /\ ReadIsSafe(q) /\ PostedOnce(q)
          BY <1>a, <2>1, <3>2 DEF LedgerTypes, LedgerInv, RequestsOK
        <4>2. req[q].pay \in Payments => req[q].pay # p /\ pay'[req[q].pay] = pay[req[q].pay]
          BY <1>a, <2>1, <4>1 DEF CarriesPayment, LedgerTypes
        <4>3. req[q].pay \in Payments \union {None}
          BY <1>a DEF LedgerTypes, Request
        <4> QED BY <2>1, <4>1, <4>2, <4>3 DEF CarriesPayment, ReadIsSafe, PostedOnce
      <3> QED BY <3>1, <3>2
    <2>5. (SettledWithinGross /\ SettledIsVouched)'
      BY <2>1 DEF LedgerInv, SettledWithinGross, SettledIsVouched
    <2> QED BY <2>2, <2>3, <2>4, <2>5 DEF LedgerInv, RequestsOK
  <1> QED BY <1>1, <1>2, <1>3, <1>4 DEF Start


-----------------------------------------------------------------------------
\* recordReceipt's commit: the one step that moves money.
LEMMA CommitReceiptKeepsInv ==
  ASSUME LedgerInv, NEW r \in Requests, CommitReceipt(r)
  PROVE  LedgerInv'
  <1> DEFINE l == req[r]
             n == req[r].note
             v == [note |-> n, amount |-> l.amount, pay |-> l.pay]
  <1>1. At(r, "locked") /\ UNCHANGED pay
    BY DEF CommitReceipt
  <1>2. CASE ~ Keys(todo[r]) \subseteq Keys(plan[n])
    <2>1. UNCHANGED <<settled, posted, vouchers, pay>> /\ req' = [req EXCEPT ![r] = Over]
      BY <1>2 DEF CommitReceipt, Finish
    <2> QED BY <1>1, <2>1, FinishKeepsInv DEF At
  <1>3. CASE Keys(todo[r]) \subseteq Keys(plan[n])
    <2>1. /\ settled' = [settled EXCEPT ![n] = l.already + l.amount]
          /\ posted' = [posted EXCEPT ![n] = @ + l.amount]
          /\ vouchers' = [vouchers EXCEPT ![r] = v]
      BY <1>3 DEF CommitReceipt
    <2>2. PICK local \in Request :
              /\ req' = [req EXCEPT ![r] = local]
              /\ \/ local = Over
                 \/ /\ l.pay # None /\ local.step = "mark"
                    /\ local.note = l.note /\ local.amount = l.amount /\ local.pay = l.pay
      <3>1. CASE l.pay = None
        <4>1. req' = [req EXCEPT ![r] = Over] /\ Over \in Request
          BY <1>3, <3>1 DEF CommitReceipt, Finish, Over, Local, Request, Steps
        <4> QED BY <4>1
      <3>2. CASE l.pay # None
        <4> DEFINE local == [req[r] EXCEPT !.step = "mark"]
        <4>1. req' = [req EXCEPT ![r] = local]
          BY <1>3, <3>2 DEF CommitReceipt, Goto, LedgerInv, LedgerTypes
        <4>2. /\ local \in Request /\ local.step = "mark"
              /\ local.note = l.note /\ local.amount = l.amount /\ local.pay = l.pay
          BY DEF LedgerInv, LedgerTypes, Request, Steps
        <4> QED BY <3>2, <4>1, <4>2
      <3> QED BY <3>1, <3>2
    <2>3. LedgerTypes /\ CarriesPayment(r) /\ ReadIsSafe(r) /\ PostedOnce(r)
      BY DEF LedgerInv, RequestsOK
    <2>4. /\ n \in Notes /\ l.amount \in Nat /\ l.already \in Nat
          /\ l.already + l.amount <= Gross[n] /\ l.already <= posted[n]
          /\ l.pay \in Payments \union {None} /\ vouchers[r] = None
      BY <1>1, <2>3 DEF At, ReadIsSafe, PostedOnce, LedgerTypes, Request
    <2>5. LedgerTypes'
      <3>1. v \in Voucher
        BY <2>4 DEF Voucher
      <3> QED BY <1>1, <2>1, <2>2, <2>3, <2>4, <3>1 DEF LedgerTypes
    <2>6. (SettledWithinGross /\ SettledIsVouched)'
      BY <2>1, <2>3, <2>4 DEF LedgerInv, LedgerTypes, SettledWithinGross, SettledIsVouched
    <2>7. PayRowsOK'
      BY <1>1 DEF LedgerInv, PayRowsOK
    <2>8. PaidHasReceipt'
      <3> SUFFICES ASSUME NEW p \in Payments, pay[p].status = "PAID"
                   PROVE  LET paid == pay[p].receipt
                          IN  /\ paid # None
                              /\ vouchers'[paid] = [note |-> pay[p].note, amount |-> pay[p].amount, pay |-> p]
        BY <1>1 DEF PaidHasReceipt
      <3> DEFINE paid == pay[p].receipt
      <3>1. /\ paid # None
            /\ vouchers[paid] = [note |-> pay[p].note, amount |-> pay[p].amount, pay |-> p]
        BY DEF LedgerInv, PaidHasReceipt
      <3>2. /\ pay[p] \in PayRow /\ pay[p].note \in Notes /\ pay[p].amount \in Nat
            /\ paid \in Requests
        BY <2>3, <3>1 DEF LedgerInv, LedgerTypes, PayRowsOK, PayRow
      <3>3. vouchers[paid] \in Voucher
        BY <3>1, <3>2 DEF Voucher
      <3>4. paid # r
        BY <2>4, <3>3
      <3> QED BY <2>1, <2>3, <3>1, <3>2, <3>4 DEF LedgerTypes
    <2>9. ASSUME NEW q \in Requests
          PROVE  (CarriesPayment(q) /\ ReadIsSafe(q) /\ PostedOnce(q))'
      <3>1. CASE q = r
        <4>1. vouchers'[r] = v /\ req'[r] = local
          BY <2>1, <2>2, <2>3 DEF LedgerTypes
        <4>2. CASE local = Over
          BY <3>1, <4>1, <4>2 DEF Over, Local, CarriesPayment, ReadIsSafe, PostedOnce
        <4>3. CASE local # Over
          <5>1. l.pay \in Payments /\ l.step = "locked"
            BY <1>1, <2>2, <2>4, <4>3 DEF At
          <5> QED BY <1>1, <2>2, <2>3, <3>1, <4>1, <4>3, <5>1 DEF CarriesPayment, ReadIsSafe, PostedOnce
        <4> QED BY <4>2, <4>3
      <3>2. CASE q # r
        <4>1. /\ req'[q] = req[q] /\ vouchers'[q] = vouchers[q]
              /\ CarriesPayment(q) /\ ReadIsSafe(q) /\ PostedOnce(q)
          BY <2>1, <2>2, <2>3, <3>2 DEF LedgerInv, LedgerTypes, RequestsOK
        <4>2. ReadIsSafe(q)'
          BY <2>1, <2>3, <2>4, <4>1 DEF ReadIsSafe, LedgerTypes, Request
        <4> QED BY <1>1, <4>1, <4>2 DEF CarriesPayment, PostedOnce
      <3> QED BY <3>1, <3>2
    <2> QED BY <2>5, <2>6, <2>7, <2>8, <2>9 DEF LedgerInv, RequestsOK
  <1> QED BY <1>2, <1>3

\* The steps that write a payment row: RegisterCharge, WriteStatus, MarkPaid.
LEMMA PaymentStepKeepsInv ==
  ASSUME LedgerInv, NEW r \in Requests, RegisterCharge(r) \/ WriteStatus(r) \/ MarkPaid(r)
  PROVE  LedgerInv'
  <1> DEFINE p == req[r].pay
  <1>1. LedgerTypes /\ PayRowsOK /\ CarriesPayment(r) /\ PostedOnce(r) /\ PaidHasReceipt
    BY DEF LedgerInv, RequestsOK
  <1>2. /\ p \in Payments /\ pay[p].status # "none" /\ pay[p].note \in Notes
        /\ req[r].step \in {"charge", "failed", "pending", "mark"}
    BY <1>1 DEF RegisterCharge, WriteStatus, MarkPaid, At, CarriesPayment, PayRowsOK
  <1>3. /\ req' = [req EXCEPT ![r] = Over]
        /\ UNCHANGED <<settled, posted, vouchers>>
    BY DEF RegisterCharge, WriteStatus, MarkPaid, Finish
  <1>4. PICK row \in PayRow :
            /\ pay' = [pay EXCEPT ![p] = row]
            /\ row.note = pay[p].note /\ row.amount = pay[p].amount /\ row.status # "none"
            /\ row.status = "PAID" =>
                   \/ req[r].step = "mark" /\ row.receipt = r
                   \/ pay[p].status = "PAID" /\ row.receipt = pay[p].receipt
    <2>1. pay[p] \in PayRow
      BY <1>1, <1>2 DEF LedgerTypes
    <2>2. CASE RegisterCharge(r)
      <3> DEFINE row == [pay[p] EXCEPT !.charged = TRUE]
      <3>1. pay' = [pay EXCEPT ![p] = row]
        BY <2>2 DEF RegisterCharge
      <3>2. /\ row \in PayRow /\ row.note = pay[p].note /\ row.amount = pay[p].amount
            /\ row.status = pay[p].status /\ row.receipt = pay[p].receipt
        BY <2>1 DEF PayRow
      <3> QED BY <1>2, <3>1, <3>2
    <2>3. CASE WriteStatus(r)
      <3>1. PICK s \in {"FAILED", "PENDING"} : pay' = [pay EXCEPT ![p].status = s]
        BY <2>3 DEF WriteStatus
      <3> DEFINE row == [pay[p] EXCEPT !.status = s]
      <3>2. /\ row \in PayRow /\ row.note = pay[p].note /\ row.amount = pay[p].amount
            /\ row.status = s
        BY <2>1 DEF PayRow, PayStatus
      <3> QED BY <3>1, <3>2
    <2>4. CASE MarkPaid(r)
      <3> DEFINE row == Payment("PAID", pay[p].charged, pay[p].note, pay[p].amount, r)
      <3>1. pay' = [pay EXCEPT ![p] = row] /\ req[r].step = "mark"
        BY <1>1, <2>4 DEF MarkPaid, At, LedgerTypes
      <3>2. /\ row \in PayRow /\ row.note = pay[p].note /\ row.amount = pay[p].amount
            /\ row.status = "PAID" /\ row.receipt = r
        BY <2>1 DEF Payment, PayRow, PayStatus
      <3> QED BY <3>1, <3>2
    <2> QED BY <2>2, <2>3, <2>4
  <1>5. LedgerTypes'
    <2>1. Over \in Request
      BY DEF Over, Local, Request, Steps
    <2> QED BY <1>1, <1>3, <1>4, <2>1 DEF LedgerTypes
  <1>6. PayRowsOK' /\ \A q \in Payments \ {p} : pay'[q] = pay[q]
    BY <1>1, <1>2, <1>4 DEF LedgerTypes, PayRowsOK
  <1>7. PaidHasReceipt'
    <2> SUFFICES ASSUME NEW q \in Payments, pay'[q].status = "PAID"
                 PROVE  /\ pay'[q].receipt # None
                        /\ vouchers[pay'[q].receipt] =
                              [note |-> pay'[q].note, amount |-> pay'[q].amount, pay |-> q]
      BY <1>3 DEF PaidHasReceipt
    <2>1. CASE q # p
      BY <1>1, <1>6, <2>1 DEF PaidHasReceipt
    <2>2. CASE q = p
      <3>1. pay'[p] = row
        BY <1>1, <1>2, <1>4 DEF LedgerTypes
      <3>2. CASE req[r].step = "mark" /\ row.receipt = r
        BY <1>1, <1>2, <1>4, <2>2, <3>1, <3>2 DEF PostedOnce, CarriesPayment
      <3>3. CASE pay[p].status = "PAID" /\ row.receipt = pay[p].receipt
        BY <1>1, <1>2, <1>4, <2>2, <3>1, <3>3 DEF PaidHasReceipt
      <3> QED BY <1>4, <2>2, <3>1, <3>2, <3>3
    <2> QED BY <2>1, <2>2
  <1>8. ASSUME NEW q \in Requests
        PROVE  (CarriesPayment(q) /\ ReadIsSafe(q) /\ PostedOnce(q))'
    <2>1. CASE q = r
      <3>1. req'[r] = Over
        BY <1>1, <1>3 DEF LedgerTypes
      <3> QED BY <2>1, <3>1 DEF Over, Local, CarriesPayment, ReadIsSafe, PostedOnce
    <2>2. CASE q # r
      <3>1. req'[q] = req[q] /\ CarriesPayment(q) /\ ReadIsSafe(q) /\ PostedOnce(q)
        BY <1>1, <1>3, <2>2 DEF LedgerInv, LedgerTypes, RequestsOK
      <3>2. \A o \in Payments : /\ pay'[o].note = pay[o].note
                                /\ pay'[o].amount = pay[o].amount
                                /\ pay[o].status # "none" => pay'[o].status # "none"
        BY <1>1, <1>2, <1>4, <1>6 DEF LedgerTypes
      <3>3. req[q].pay \in Payments \union {None}
        BY <1>1 DEF LedgerTypes, Request
      <3> QED BY <1>3, <3>1, <3>2, <3>3 DEF CarriesPayment, ReadIsSafe, PostedOnce
    <2> QED BY <2>1, <2>2
  <1>9. (SettledWithinGross /\ SettledIsVouched)'
    BY <1>3 DEF LedgerInv, SettledWithinGross, SettledIsVouched
  <1> QED BY <1>5, <1>6, <1>7, <1>8, <1>9 DEF LedgerInv, RequestsOK

\* Every other step moves a request on, or touches nothing of the invariant.
LEMMA ContinueKeepsInv ==
  ASSUME LedgerInv, NEW r \in Requests, Continue(r)
  PROVE  LedgerInv'
  <1>0. /\ LedgerTypes /\ PayRowsOK /\ CarriesPayment(r) /\ PostedOnce(r) /\ ReadIsSafe(r)
        /\ SettledIsVouched /\ req[r] \in Request
    BY DEF LedgerInv, RequestsOK, LedgerTypes
  <1>1. CASE LockNote(r)
    <2>1. At(r, "receipt") /\ Goto(r, "locked") /\ UNCHANGED <<settled, posted, vouchers, pay>>
      BY <1>1 DEF LockNote
    <2> QED BY <1>0, <2>1, GotoKeepsInv DEF At, PostedOnce
  <1>2. CASE CommitReceipt(r)
    BY <1>2, CommitReceiptKeepsInv
  <1>3. CASE RegisterCharge(r) \/ WriteStatus(r) \/ MarkPaid(r)
    BY <1>3, PaymentStepKeepsInv
  <1>4. CASE RetrieveCharge(r)
    <2>1. PICK step \in {"settle", "failed", "pending"} : Goto(r, step)
      BY <1>4 DEF RetrieveCharge
    <2>2. At(r, "retrieve") /\ UNCHANGED <<settled, posted, vouchers, pay>>
      BY <1>4 DEF RetrieveCharge
    <2> QED BY <1>0, <2>1, <2>2, GotoKeepsInv DEF At, PostedOnce, CarriesPayment
  <1>5. CASE Settle(r)
    <2> DEFINE p == req[r].pay
    <2>1. At(r, "settle") /\ UNCHANGED <<settled, posted, vouchers, pay>>
      BY <1>5 DEF Settle
    <2>2. p \in Payments /\ vouchers[r] = None /\ pay[p] \in PayRow /\ pay[p].note \in Notes
          /\ pay[p].status # "none" /\ pay[p].amount \in Nat
      BY <1>0, <2>1 DEF At, CarriesPayment, PostedOnce, LedgerTypes, PayRowsOK, PayRow
    <2>3. CASE ~ MayReceive(pay[p].note, pay[p].amount)
      <3>1. req' = [req EXCEPT ![r] = Over]
        BY <1>5, <2>3 DEF Settle, Finish
      <3> QED BY <2>1, <3>1, FinishKeepsInv DEF At
    <2>4. CASE MayReceive(pay[p].note, pay[p].amount)
      <3> DEFINE local == ReadNote(pay[p].note, pay[p].amount, p)
      <3>1. local = [step |-> "receipt", note |-> pay[p].note, pay |-> p,
                     amount |-> pay[p].amount, already |-> settled[pay[p].note]]
        BY DEF ReadNote, Local
      <3>2. req' = [req EXCEPT ![r] = local]
        BY <1>5, <2>4 DEF Settle
      <3> HIDE DEF local
      <3>3. local \in Request /\ req'[r] = local
        BY <1>0, <2>2, <3>1, <3>2 DEF LedgerTypes, Request, Steps
      <3>4. /\ pay[p].amount <= Gross[pay[p].note] - settled[pay[p].note]
            /\ settled[pay[p].note] <= posted[pay[p].note]
        BY <1>0, <2>2, <2>4 DEF MayReceive, Outstanding, SettledIsVouched
      <3>5. ReadIsSafe(r)'
        BY <1>0, <2>1, <2>2, <3>1, <3>3, <3>4 DEF ReadIsSafe, LedgerTypes
      <3>6. (CarriesPayment(r) /\ PostedOnce(r))'
        BY <2>1, <2>2, <3>1, <3>3 DEF CarriesPayment, PostedOnce
      <3> QED BY <2>1, <3>2, <3>3, <3>5, <3>6, MoveOn
    <2> QED BY <2>3, <2>4
  <1>6. CASE InsertRows(r) \/ ReadRows(r) \/ WriteRow(r) \/ DeleteRows(r) \/ CommitReplace(r)
    <2>1. /\ UNCHANGED <<settled, posted, vouchers, pay>>
          /\ req[r].step \in {"insert", "spread", "write", "replace", "deleted"}
      BY <1>6 DEF InsertRows, ReadRows, WriteRow, DeleteRows, CommitReplace, At
    <2>2. \/ req' = [req EXCEPT ![r] = Over]
          \/ \E step \in {"spread", "write", "deleted"} : Goto(r, step)
          \/ UNCHANGED req
      BY <1>6 DEF InsertRows, ReadRows, WriteRow, DeleteRows, CommitReplace, Finish
    <2>3. vouchers[r] = None
      BY <1>0, <2>1 DEF PostedOnce
    <2> QED BY <2>1, <2>2, <2>3, FinishKeepsInv, GotoKeepsInv, LedgerStutter
  <1> QED BY <1>1, <1>2, <1>3, <1>4, <1>5, <1>6 DEF Continue

\* Every step keeps the invariant.
LEMMA LedgerNext == LedgerInv /\ [Next]_vars => LedgerInv'
  <1> SUFFICES ASSUME LedgerInv, [Next]_vars PROVE LedgerInv'
    OBVIOUS
  <1>1. ASSUME NEW r \in Requests, Start(r) PROVE LedgerInv'
    BY <1>1, StartKeepsInv
  <1>2. ASSUME NEW r \in Requests, Continue(r) PROVE LedgerInv'
    BY <1>2, ContinueKeepsInv
  <1>3. ASSUME NEW r \in Requests, Crash(r) PROVE LedgerInv'
    <2>1. /\ req[r].step # "idle" /\ req' = [req EXCEPT ![r] = Over]
          /\ UNCHANGED <<settled, posted, vouchers, pay>>
      BY <1>3 DEF Crash, InFlight, Finish
    <2> QED BY <2>1, FinishKeepsInv
  <1>4. ASSUME NEW p \in Payments, ClientPays(p) PROVE LedgerInv'
    BY <1>4, LedgerStutter DEF ClientPays
  <1>5. CASE UNCHANGED vars
    BY <1>5, LedgerStutter DEF vars
  <1> QED BY <1>1, <1>2, <1>3, <1>4, <1>5 DEF Next

\* The invariant holds in every behaviour of the API.
THEOREM LedgerSafe == Spec => []LedgerInv
  <1> QED BY LedgerInit, LedgerNext, PTL DEF Spec

\* No note is recorded as settled beyond its gross amount.
THEOREM SettledNeverExceedsGross == Spec => []SettledWithinGross
  <1>1. LedgerInv => SettledWithinGross
    BY DEF LedgerInv
  <1> QED BY <1>1, LedgerSafe, PTL

\* Every settled halala is backed by a posted voucher.
THEOREM SettledIsAlwaysVouched == Spec => []SettledIsVouched
  <1>1. LedgerInv => SettledIsVouched
    BY DEF LedgerInv
  <1> QED BY <1>1, LedgerSafe, PTL

\* A PAID payment names the voucher that was posted for it.
THEOREM PaidAlwaysHasReceipt == Spec => []PaidHasReceipt
  <1>1. LedgerInv => PaidHasReceipt
    BY DEF LedgerInv
  <1> QED BY <1>1, LedgerSafe, PTL

\* The two together: a note never shows more as settled than it is over, nor more
\* than vouchers were posted for it (recordReceipt, settle).
THEOREM SettledAlwaysSound == Spec => []SettledIsSound
  <1>1. LedgerInv => SettledIsSound
    BY DEF LedgerInv, SettledIsSound
  <1> QED BY <1>1, LedgerSafe, PTL
-----------------------------------------------------------------------------
(* Served one at a time, receipts implement the abstract receivable         *)

Ledger == INSTANCE Receivable WITH
    owed <- [n \in Notes |-> Outstanding(n)], collected <- posted

Alone == \A q, r \in InFlight : q = r

\* A receipt on its way to its commit is of something, and has read what is there.
ReadIsCurrent(r) ==
    req[r].step \in {"receipt", "locked"} =>
        req[r].amount > 0 /\ req[r].already = settled[req[r].note]

PaysSomething(p) == pay[p].status # "none" => pay[p].amount > 0

SerialInv ==
    /\ LedgerInv
    /\ Alone
    /\ \A r \in Requests : ReadIsCurrent(r)
    /\ \A p \in Payments : PaysSomething(p)
    /\ settled = posted

\* What a step of one request may do: go on with what is still current, and move
\* money only at a receipt's commit.
Moves(r) ==
    /\ \E local \in Request :
           /\ req' = [req EXCEPT ![r] = local]
           /\ local.step \in {"receipt", "locked"} =>
                  /\ UNCHANGED settled
                  /\ local.amount > 0 /\ local.already = settled[local.note]
    /\ \/ UNCHANGED <<settled, posted>>
       \/ LET n == req[r].note IN
          /\ At(r, "locked")
          /\ settled' = [settled EXCEPT ![n] = req[r].already + req[r].amount]
          /\ posted' = [posted EXCEPT ![n] = @ + req[r].amount]
    /\ \A p \in Payments : PaysSomething(p)'

\* A request that starts finds no other in flight.
LEMMA StartsAlone ==
  ASSUME MaxInFlight = 1, Alone, NEW r \in Requests, CanStart(r)
  PROVE  InFlight = {}
  <1>1. ASSUME NEW q \in InFlight PROVE FALSE
    <2>1. InFlight = {q}
      BY <1>1 DEF Alone
    <2>2. Cardinality(InFlight) = 1
      BY <2>1, FS_Singleton
    <2> QED BY <2>2 DEF CanStart
  <1> QED BY <1>1

\* A request that starts has read what the note has settled at that moment.
LEMMA StartMoves ==
  ASSUME SerialInv, NEW r \in Requests, Start(r)
  PROVE  Moves(r)
  <1>0. LedgerTypes /\ (\A p \in Payments : PaysSomething(p)) /\ PayRowsOK
    BY DEF SerialInv, LedgerInv
  <1>1. ASSUME NEW n \in Notes, NEW a \in Amounts, RecordReceipt(r, n, a)
        PROVE  Moves(r)
    <2> DEFINE local == [step |-> "receipt", note |-> n, pay |-> None, amount |-> a, already |-> settled[n]]
    <2>1. /\ req' = [req EXCEPT ![r] = local] /\ local \in Request
          /\ UNCHANGED <<settled, posted, pay>> /\ local.amount > 0
      BY <1>0, <1>1 DEF RecordReceipt, Begin, ReadNote, Local, Request, Steps, LedgerTypes
    <2> QED BY <1>0, <2>1 DEF Moves, PaysSomething
  <1>2. ASSUME NEW p \in Payments, Confirm(r, p) \/ Webhook(r, p)
        PROVE  Moves(r)
    <2>1. PICK step \in {"retrieve", "settle"} :
              req' = [req EXCEPT ![r] = Local(step, None, p, 0, 0)]
      BY <1>2 DEF Confirm, Webhook, Begin
    <2>2. Local(step, None, p, 0, 0) \in Request /\ Local(step, None, p, 0, 0).step = step
      BY DEF Local, Request, Steps
    <2>3. UNCHANGED <<settled, posted, pay>>
      BY <1>2 DEF Confirm, Webhook
    <2> QED BY <1>0, <2>1, <2>2, <2>3 DEF Moves, PaysSomething
  <1>3. ASSUME NEW n \in Notes, NEW dto \in Dtos,
               GenerateInstallments(r, n, dto) \/ ReplaceInstallments(r, n, dto)
        PROVE  Moves(r)
    <2>1. PICK step \in {"insert", "replace"} :
              req' = [req EXCEPT ![r] = Local(step, n, None, 0, settled[n])]
      BY <1>3 DEF GenerateInstallments, ReplaceInstallments, ReadForPlan, Begin
    <2>2. /\ Local(step, n, None, 0, settled[n]) \in Request
          /\ Local(step, n, None, 0, settled[n]).step = step
      BY <1>0 DEF Local, Request, Steps, LedgerTypes
    <2>3. UNCHANGED <<settled, posted, pay>>
      BY <1>3 DEF GenerateInstallments, ReplaceInstallments
    <2> QED BY <1>0, <2>1, <2>2, <2>3 DEF Moves, PaysSomething
  <1>4. ASSUME NEW p \in Payments, NEW n \in Notes, NEW a \in Amounts, CreateCharge(r, p, n, a)
        PROVE  Moves(r)
    <2> DEFINE row == [status |-> "PENDING", charged |-> FALSE, note |-> n, amount |-> a, receipt |-> None]
               local == [step |-> "charge", note |-> None, pay |-> p, amount |-> 0, already |-> 0]
    <2>1. /\ pay' = [pay EXCEPT ![p] = row] /\ req' = [req EXCEPT ![r] = local]
          /\ local \in Request /\ UNCHANGED <<settled, posted>> /\ a > 0
      BY <1>4 DEF CreateCharge, Payment, Local, Begin, Request, Steps
    <2>2. \A q \in Payments : PaysSomething(q)'
      BY <1>0, <2>1 DEF PaysSomething, LedgerTypes
    <2> QED BY <2>1, <2>2 DEF Moves
  <1> QED BY <1>1, <1>2, <1>3, <1>4 DEF Start

\* A request that ends, having left money and amounts alone.
LEMMA FinishMoves ==
  ASSUME SerialInv, NEW r \in Requests, req' = [req EXCEPT ![r] = Over],
         UNCHANGED <<settled, posted>>, \A p \in Payments : PaysSomething(p)'
  PROVE  Moves(r)
  <1>1. Over \in Request /\ Over.step = "done"
    BY DEF Over, Local, Request, Steps
  <1> QED BY <1>1 DEF Moves

\* A request that goes on carries what was current, and is alone to move money.
LEMMA ContinueMoves ==
  ASSUME SerialInv, NEW r \in Requests, Continue(r)
  PROVE  Moves(r)
  <1>0. /\ LedgerTypes /\ PayRowsOK /\ CarriesPayment(r) /\ ReadIsSafe(r) /\ ReadIsCurrent(r)
        /\ \A p \in Payments : PaysSomething(p)
    BY DEF SerialInv, LedgerInv, RequestsOK
  <1>1. ASSUME NEW step \in Steps, Goto(r, step), UNCHANGED <<settled, posted, pay>>,
               step \in {"receipt", "locked"} => req[r].step \in {"receipt", "locked"}
        PROVE  Moves(r)
    <2> DEFINE local == [req[r] EXCEPT !.step = step]
    <2>1. req[r] \in Request
      BY <1>0 DEF LedgerTypes
    <2>2. /\ local \in Request /\ local.step = step /\ local.amount = req[r].amount
          /\ local.note = req[r].note /\ local.already = req[r].already
          /\ req' = [req EXCEPT ![r] = local]
      BY <1>1, <2>1 DEF Request, Goto
    <2> HIDE DEF local
    <2> QED BY <1>0, <1>1, <2>2 DEF Moves, ReadIsCurrent, PaysSomething
  <1>2. CASE LockNote(r)
    BY <1>1, <1>2 DEF LockNote, At, Steps
  <1>3. CASE CommitReceipt(r)
    <2>1. At(r, "locked") /\ UNCHANGED pay
      BY <1>3 DEF CommitReceipt
    <2>2. CASE ~ Keys(todo[r]) \subseteq Keys(plan[req[r].note])
      <3>1. req' = [req EXCEPT ![r] = Over] /\ UNCHANGED <<settled, posted>>
        BY <1>3, <2>2 DEF CommitReceipt, Finish
      <3> QED BY <1>0, <2>1, <3>1, FinishMoves DEF PaysSomething
    <2>3. CASE Keys(todo[r]) \subseteq Keys(plan[req[r].note])
      <3>1. /\ settled' = [settled EXCEPT ![req[r].note] = req[r].already + req[r].amount]
            /\ posted' = [posted EXCEPT ![req[r].note] = @ + req[r].amount]
            /\ req' = [req EXCEPT ![r] = Over] \/ Goto(r, "mark")
        BY <1>3, <2>3 DEF CommitReceipt, Finish
      <3>2. PICK local \in Request : req' = [req EXCEPT ![r] = local] /\ local.step \in {"done", "mark"}
        <4>1. Over \in Request /\ Over.step = "done"
          BY DEF Over, Local, Request, Steps
        <4>2. CASE Goto(r, "mark")
          <5> DEFINE local == [req[r] EXCEPT !.step = "mark"]
          <5>1. local \in Request /\ local.step = "mark" /\ req' = [req EXCEPT ![r] = local]
            BY <1>0, <4>2 DEF Goto, LedgerTypes, Request, Steps
          <5> QED BY <5>1
        <4> QED BY <3>1, <4>1, <4>2
      <3> QED BY <1>0, <2>1, <3>1, <3>2 DEF Moves, PaysSomething
    <2> QED BY <2>2, <2>3
  <1>4. CASE RegisterCharge(r) \/ WriteStatus(r) \/ MarkPaid(r)
    <2> DEFINE p == req[r].pay
    <2>1. /\ p \in Payments /\ req' = [req EXCEPT ![r] = Over] /\ UNCHANGED <<settled, posted>>
          /\ pay[p].status # "none"
      BY <1>0, <1>4 DEF RegisterCharge, WriteStatus, MarkPaid, Finish, At, CarriesPayment
    <2>2. \A q \in Payments : pay'[q].amount = pay[q].amount /\ (q # p => pay'[q] = pay[q])
      <3>1. pay \in [Payments -> PayRow] /\ pay[p] \in PayRow
        BY <1>0, <2>1 DEF LedgerTypes
      <3>2. CASE RegisterCharge(r)
        BY <2>1, <3>1, <3>2 DEF RegisterCharge, PayRow
      <3>3. CASE WriteStatus(r)
        <4>1. PICK s \in {"FAILED", "PENDING"} : pay' = [pay EXCEPT ![p].status = s]
          BY <3>3 DEF WriteStatus
        <4> QED BY <2>1, <3>1, <4>1 DEF PayRow
      <3>4. CASE MarkPaid(r)
        BY <2>1, <3>1, <3>4 DEF MarkPaid, Payment
      <3> QED BY <1>4, <3>2, <3>3, <3>4
    <2>3. pay[p].amount > 0
      BY <1>0, <2>1 DEF PaysSomething
    <2>4. ASSUME NEW q \in Payments PROVE PaysSomething(q)'
      <3>1. pay[q].status # "none" => pay[q].amount > 0
        BY <1>0 DEF PaysSomething
      <3>2. pay'[q].amount = pay[q].amount /\ (q # p => pay'[q] = pay[q])
        BY <2>2
      <3> QED BY <2>3, <3>1, <3>2 DEF PaysSomething
    <2> QED BY <2>1, <2>4, FinishMoves
  <1>5. CASE RetrieveCharge(r)
    BY <1>1, <1>5 DEF RetrieveCharge, At, Steps
  <1>6. CASE Settle(r)
    <2> DEFINE p == req[r].pay
               local == [step |-> "receipt", note |-> pay[p].note, pay |-> p,
                         amount |-> pay[p].amount, already |-> settled[pay[p].note]]
    <2>1. p \in Payments /\ pay[p].status # "none" /\ UNCHANGED <<settled, posted, pay>>
      BY <1>0, <1>6 DEF Settle, At, CarriesPayment
    <2>2. pay[p] \in PayRow /\ pay[p].note \in Notes /\ pay[p].amount > 0
      BY <1>0, <2>1 DEF LedgerTypes, PayRowsOK, PaysSomething
    <2>3. local \in Request
      BY <1>0, <2>1, <2>2 DEF LedgerTypes, PayRow, Request, Steps
    <2>4. req' = [req EXCEPT ![r] = Over] \/ req' = [req EXCEPT ![r] = local]
      BY <1>6 DEF Settle, Finish, ReadNote, Local
    <2>5. \A q \in Payments : PaysSomething(q)'
      BY <1>0, <2>1 DEF PaysSomething
    <2>6. CASE req' = [req EXCEPT ![r] = local]
      BY <2>1, <2>2, <2>3, <2>5, <2>6 DEF Moves
    <2> QED BY <2>1, <2>4, <2>5, <2>6, FinishMoves
  <1>7. CASE InsertRows(r) \/ ReadRows(r) \/ WriteRow(r) \/ DeleteRows(r) \/ CommitReplace(r)
    <2>1. /\ UNCHANGED <<settled, posted, pay>>
          /\ req[r].step \in {"insert", "spread", "write", "replace", "deleted"}
      BY <1>7 DEF InsertRows, ReadRows, WriteRow, DeleteRows, CommitReplace, At
    <2>2. \/ req' = [req EXCEPT ![r] = Over]
          \/ \E step \in {"spread", "write", "deleted"} : Goto(r, step)
          \/ UNCHANGED req
      BY <1>7 DEF InsertRows, ReadRows, WriteRow, DeleteRows, CommitReplace, Finish
    <2>3. \A q \in Payments : PaysSomething(q)'
      BY <1>0, <2>1 DEF PaysSomething
    <2>4. CASE UNCHANGED req
      <3>1. req' = [req EXCEPT ![r] = req[r]] /\ req[r] \in Request
        BY <1>0, <2>4 DEF LedgerTypes
      <3> QED BY <2>1, <2>3, <3>1 DEF Moves
    <2>5. CASE \E step \in {"spread", "write", "deleted"} : Goto(r, step)
      BY <1>1, <2>1, <2>5 DEF Steps
    <2> QED BY <2>1, <2>2, <2>3, <2>4, <2>5, FinishMoves
  <1> QED BY <1>2, <1>3, <1>4, <1>5, <1>6, <1>7 DEF Continue

\* Such a step keeps the serial invariant and is a step, or a stutter, of the
\* abstract receivable, if the request is alone.
LEMMA MovesKeepSerial ==
  ASSUME SerialInv, LedgerInv', NEW r \in Requests, InFlight \subseteq {r}, Moves(r)
  PROVE  SerialInv' /\ [Ledger!Next]_<<[n \in Notes |-> Outstanding(n)], posted>>
  <1>0. /\ LedgerTypes /\ ReadIsSafe(r) /\ ReadIsCurrent(r) /\ settled = posted
        /\ settled' \in [Notes -> Nat] /\ posted' \in [Notes -> Nat]
    BY DEF SerialInv, LedgerInv, RequestsOK, LedgerTypes
  <1>1. PICK local \in Request :
            /\ req' = [req EXCEPT ![r] = local]
            /\ local.step \in {"receipt", "locked"} =>
                   /\ UNCHANGED settled
                   /\ local.amount > 0 /\ local.already = settled[local.note]
    BY DEF Moves
  <1>2. req'[r] = local /\ \A q \in Requests \ {r} : req'[q] = req[q]
    BY <1>0, <1>1 DEF LedgerTypes
  <1>3. Alone'
    <2>1. InFlight' \subseteq {r}
      BY <1>2 DEF InFlight
    <2> QED BY <2>1 DEF Alone
  <1>4. ASSUME NEW q \in Requests PROVE ReadIsCurrent(q)'
    <2>1. CASE q = r
      BY <1>1, <1>2, <2>1 DEF ReadIsCurrent
    <2>2. CASE q # r
      <3>1. req'[q].step \in {"idle", "done"}
        BY <1>2, <2>2 DEF InFlight
      <3> QED BY <3>1 DEF ReadIsCurrent
    <2> QED BY <2>1, <2>2
  <1>5. CASE UNCHANGED <<settled, posted>>
    <2>1. [n \in Notes |-> Outstanding(n)]' = [n \in Notes |-> Outstanding(n)]
      BY <1>5 DEF Outstanding
    <2>2. SerialInv'
      BY <1>0, <1>3, <1>4, <1>5 DEF SerialInv, Moves
    <2> QED BY <1>5, <2>1, <2>2
  <1>6. CASE ~ UNCHANGED <<settled, posted>>
    <2> DEFINE m == req[r].note
               a == req[r].amount
    <2>1. /\ req[r].step = "locked"
          /\ settled' = [settled EXCEPT ![m] = req[r].already + a]
          /\ posted' = [posted EXCEPT ![m] = @ + a]
      BY <1>6 DEF Moves, At
    <2>2. /\ m \in Notes /\ a \in Nat /\ a > 0 /\ req[r].already = settled[m]
          /\ settled[m] + a <= Gross[m]
      BY <1>0, <2>1 DEF ReadIsSafe, ReadIsCurrent, LedgerTypes, Request
    <2>3. settled' = posted' /\ SerialInv'
      <3>1. settled' = posted'
        BY <1>0, <2>1, <2>2 DEF LedgerTypes
      <3> QED BY <1>3, <1>4, <3>1 DEF SerialInv, Moves
    <2>4. a \in 1..[n \in Notes |-> Outstanding(n)][m]
      BY <1>0, <2>2 DEF Outstanding, LedgerTypes
    <2>5. [n \in Notes |-> Outstanding(n)]' =
              [[n \in Notes |-> Outstanding(n)] EXCEPT ![m] = @ - a]
      BY <1>0, <2>1, <2>2 DEF Outstanding, LedgerTypes
    <2>6. Ledger!Collect(m)
      BY <2>1, <2>4, <2>5 DEF Ledger!Collect
    <2> QED BY <2>2, <2>3, <2>6 DEF Ledger!Next
  <1> QED BY <1>5, <1>6

\* A request that takes its step alone keeps the serial invariant, and its step is
\* one of the abstract receivable, or a stutter.
LEMMA StepImplements ==
  ASSUME SerialInv, LedgerInv', NEW r \in Requests, Start(r) \/ Continue(r) \/ Crash(r),
         InFlight \subseteq {r}
  PROVE  SerialInv' /\ [Ledger!Next]_<<[n \in Notes |-> Outstanding(n)], posted>>
  <1>1. Moves(r)
    <2>1. CASE Crash(r)
      <3>1. req' = [req EXCEPT ![r] = Over] /\ UNCHANGED <<settled, posted, pay>>
        BY <2>1 DEF Crash, Finish
      <3> QED BY <3>1, FinishMoves DEF SerialInv, PaysSomething
    <2> QED BY <2>1, StartMoves, ContinueMoves
  <1> QED BY <1>1, MovesKeepSerial

\* A step that leaves the requests, the notes and the payments alone is a stutter.
LEMMA StutterImplements ==
  ASSUME SerialInv, LedgerInv', UNCHANGED <<settled, posted, pay, req>>
  PROVE  SerialInv' /\ [Ledger!Next]_<<[n \in Notes |-> Outstanding(n)], posted>>
  <1>1. [n \in Notes |-> Outstanding(n)]' = [n \in Notes |-> Outstanding(n)]
    BY DEF Outstanding
  <1>2. SerialInv'
    BY DEF SerialInv, Alone, InFlight, ReadIsCurrent, PaysSomething
  <1> QED BY <1>1, <1>2

\* Nothing has been collected to begin with.
LEMMA SerialInit == Init => SerialInv /\ Ledger!Init
  <1> SUFFICES ASSUME Init PROVE SerialInv /\ Ledger!Init
    OBVIOUS
  <1>1. Alone /\ (\A r \in Requests : ReadIsCurrent(r)) /\ (\A p \in Payments : PaysSomething(p))
    BY DEF Init, Idle, Local, NoPayment, Payment, Alone, InFlight, ReadIsCurrent, PaysSomething
  <1>2. [n \in Notes |-> Outstanding(n)] = Gross
    BY DEF Init, Outstanding
  <1> QED BY <1>1, <1>2, LedgerInit DEF Init, SerialInv, Ledger!Init

\* Served one at a time, every behaviour of the requests is one of the abstract
\* receivable: what is owed only goes down, by exactly what is collected
\* (recordReceipt, settle), whatever crashes and payments come between.
THEOREM SerialReceiptsImplementReceivable ==
  ASSUME MaxInFlight = 1
  PROVE  Spec => Ledger!Spec
  <1>1. SerialInv /\ [Next]_vars
            => SerialInv' /\ [Ledger!Next]_<<[n \in Notes |-> Outstanding(n)], posted>>
    <2> SUFFICES ASSUME SerialInv, [Next]_vars
                 PROVE  SerialInv' /\ [Ledger!Next]_<<[n \in Notes |-> Outstanding(n)], posted>>
      OBVIOUS
    <2>0. LedgerInv' /\ Alone
      BY LedgerNext DEF SerialInv
    <2>1. ASSUME NEW r \in Requests, Start(r) \/ Continue(r) \/ Crash(r)
          PROVE  InFlight \subseteq {r}
      <3>1. CASE Start(r)
        <4>1. CanStart(r)
          BY <3>1 DEF Start, RecordReceipt, CreateCharge, Confirm, Webhook,
                      GenerateInstallments, ReplaceInstallments, ReadForPlan, Begin
        <4> QED BY <2>0, <4>1, StartsAlone
      <3>2. CASE Continue(r)
        <4>1. r \in InFlight
          BY <3>2 DEF Continue, LockNote, CommitReceipt, RegisterCharge, RetrieveCharge,
                      WriteStatus, Settle, MarkPaid, InsertRows, ReadRows, WriteRow,
                      DeleteRows, CommitReplace, At, InFlight
        <4> QED BY <2>0, <4>1 DEF Alone
      <3>3. CASE Crash(r)
        BY <2>0, <3>3 DEF Crash, Alone
      <3> QED BY <2>1, <3>1, <3>2, <3>3
    <2>2. ASSUME NEW p \in Payments, ClientPays(p)
          PROVE  UNCHANGED <<settled, posted, pay, req>>
      BY <2>2 DEF ClientPays
    <2> QED BY <2>0, <2>1, <2>2, StepImplements, StutterImplements DEF Next, vars
  <1> QED BY SerialInit, <1>1, PTL DEF Spec, Ledger!Spec
-----------------------------------------------------------------------------
(* What the gateway has captured is receipted, and once                     *)

PostingSteps == {"settle", "receipt", "locked", "mark"}
PaySteps == {"retrieve", "failed", "pending"} \union PostingSteps

\* A charge is made at the gateway by the request that created its payment, and
\* by no other.
ChargedOnce ==
    /\ gateway \in [Payments -> {"none", "INITIATED", "CAPTURED", "DECLINED"}]
    /\ \A p \in Payments : gateway[p] # "none" => pay[p].charged
    /\ \A r \in Requests : At(r, "charge") => ~ pay[req[r].pay].charged
    /\ \A q, r \in Requests :
           At(q, "charge") /\ At(r, "charge") /\ req[q].pay = req[r].pay => q = r

\* Whoever settles a payment has seen its charge captured.
PostsCaptured ==
    \A r \in Requests : req[r].step \in PostingSteps /\ req[r].pay # None
                            => gateway[req[r].pay] = "CAPTURED"

CaptureInv == ChargedOnce /\ PostsCaptured /\ ReceiptIsCaptured

\* A request that only goes on, not to a charge, and posts for what is captured.
LEMMA MoveKeepsCaptures ==
  ASSUME LedgerInv, CaptureInv, NEW r \in Requests, NEW local,
         req' = [req EXCEPT ![r] = local], local.step # "charge",
         local.step \in PostingSteps /\ local.pay # None => gateway[local.pay] = "CAPTURED",
         UNCHANGED <<gateway, vouchers>>, \A p \in Payments : pay'[p].charged = pay[p].charged
  PROVE  CaptureInv'
  <1>1. req'[r] = local /\ \A q \in Requests : q # r => req'[q] = req[q]
    BY DEF LedgerInv, LedgerTypes
  <1>2. \A q \in Requests : At(q, "charge") => req[q].pay \in Payments
    BY DEF LedgerInv, RequestsOK, CarriesPayment, At
  <1>3. \A q \in Requests : At(q, "charge")' => q # r /\ At(q, "charge") /\ req'[q] = req[q]
    BY <1>1 DEF At
  <1>4. ChargedOnce'
    BY <1>2, <1>3 DEF CaptureInv, ChargedOnce
  <1>5. PostsCaptured'
    BY <1>1 DEF CaptureInv, PostsCaptured
  <1>6. ReceiptIsCaptured'
    BY DEF CaptureInv, ReceiptIsCaptured
  <1> QED BY <1>4, <1>5, <1>6 DEF CaptureInv

\* A request that ends, and leaves the gateway and the vouchers alone.
LEMMA FinishKeepsCaptures ==
  ASSUME LedgerInv, CaptureInv, NEW r \in Requests, req' = [req EXCEPT ![r] = Over],
         UNCHANGED <<gateway, vouchers>>, \A p \in Payments : pay'[p].charged = pay[p].charged
  PROVE  CaptureInv'
  <1>1. Over.step # "charge" /\ Over.step \notin PostingSteps
    BY DEF Over, Local, PostingSteps
  <1> QED BY <1>1, MoveKeepsCaptures

\* A payment is created for a charge nobody else makes.
LEMMA StartKeepsCaptures ==
  ASSUME LedgerInv, CaptureInv, NEW r \in Requests, Start(r)
  PROVE  CaptureInv'
  <1> USE DEF Begin
  <1>1. ASSUME NEW n \in Notes, NEW a \in Amounts, RecordReceipt(r, n, a)
        PROVE  CaptureInv'
    <2> DEFINE local == ReadNote(n, a, None)
    <2>1. local.step = "receipt" /\ local.pay = None
      BY DEF ReadNote, Local
    <2>2. req' = [req EXCEPT ![r] = local] /\ UNCHANGED <<gateway, vouchers, pay>>
      BY <1>1 DEF RecordReceipt
    <2> HIDE DEF local
    <2> QED BY <2>1, <2>2, MoveKeepsCaptures
  <1>2. ASSUME NEW p \in Payments, Confirm(r, p) \/ Webhook(r, p)
        PROVE  CaptureInv'
    <2>1. PICK step \in {"retrieve", "settle"} :
              /\ req' = [req EXCEPT ![r] = Local(step, None, p, 0, 0)]
              /\ step = "settle" => gateway[p] = "CAPTURED"
      BY <1>2 DEF Confirm, Webhook
    <2> DEFINE local == Local(step, None, p, 0, 0)
    <2>2. local.step = step /\ local.pay = p
      BY DEF Local
    <2>3. req' = [req EXCEPT ![r] = local] /\ UNCHANGED <<gateway, vouchers, pay>>
      BY <1>2, <2>1 DEF Confirm, Webhook
    <2> HIDE DEF local
    <2> QED BY <2>1, <2>2, <2>3, MoveKeepsCaptures DEF PostingSteps
  <1>3. ASSUME NEW n \in Notes, NEW dto \in Dtos,
               GenerateInstallments(r, n, dto) \/ ReplaceInstallments(r, n, dto)
        PROVE  CaptureInv'
    <2>1. PICK step \in {"insert", "replace"} :
              req' = [req EXCEPT ![r] = Local(step, n, None, 0, settled[n])]
      BY <1>3 DEF GenerateInstallments, ReplaceInstallments, ReadForPlan
    <2> DEFINE local == Local(step, n, None, 0, settled[n])
    <2>2. local.step = step
      BY DEF Local
    <2>3. req' = [req EXCEPT ![r] = local] /\ UNCHANGED <<gateway, vouchers, pay>>
      BY <1>3, <2>1 DEF GenerateInstallments, ReplaceInstallments
    <2> HIDE DEF local
    <2> QED BY <2>1, <2>2, <2>3, MoveKeepsCaptures DEF PostingSteps
  <1>4. ASSUME NEW p \in Payments, NEW n \in Notes, NEW a \in Amounts, CreateCharge(r, p, n, a)
        PROVE  CaptureInv'
    <2> DEFINE row == Payment("PENDING", FALSE, n, a, None)
               local == Local("charge", None, p, 0, 0)
    <2>1. /\ pay[p].status = "none" /\ pay[p].charged = FALSE
          /\ pay' = [pay EXCEPT ![p] = row] /\ req' = [req EXCEPT ![r] = local]
          /\ UNCHANGED <<gateway, vouchers>>
      BY <1>4 DEF CreateCharge, NoPayment, Payment
    <2>2. row.charged = FALSE /\ local.step = "charge" /\ local.pay = p
      BY DEF Payment, Local
    <2> HIDE DEF row, local
    <2>3. /\ pay'[p] = row /\ \A x \in Payments : x # p => pay'[x] = pay[x]
          /\ req'[r] = local /\ \A q \in Requests : q # r => req'[q] = req[q]
      BY <2>1 DEF LedgerInv, LedgerTypes
    <2>4. \A q \in Requests : At(q, "charge") => req[q].pay \in Payments /\ req[q].pay # p
      BY <2>1 DEF LedgerInv, RequestsOK, CarriesPayment, At
    <2>5. \A x \in Payments : pay'[x].charged = pay[x].charged
      BY <2>1, <2>2, <2>3
    <2>6. \A q \in Requests : At(q, "charge")' =>
              /\ ~ pay'[req'[q].pay].charged
              /\ q # r => At(q, "charge") /\ req'[q] = req[q]
      BY <2>2, <2>3, <2>4 DEF CaptureInv, ChargedOnce, At
    <2>7. \A q, s \in Requests :
              At(q, "charge")' /\ At(s, "charge")' /\ req'[q].pay = req'[s].pay => q = s
      <3> SUFFICES ASSUME NEW q \in Requests, NEW s \in Requests, At(q, "charge")',
                          At(s, "charge")', req'[q].pay = req'[s].pay, q # s
                   PROVE  FALSE
        OBVIOUS
      <3>1. CASE q = r \/ s = r
        BY <2>2, <2>3, <2>4, <2>6, <3>1
      <3>2. CASE q # r /\ s # r
        BY <2>6, <3>2 DEF CaptureInv, ChargedOnce
      <3> QED BY <3>1, <3>2
    <2>8. ChargedOnce'
      BY <2>1, <2>5, <2>6, <2>7 DEF CaptureInv, ChargedOnce
    <2>9. PostsCaptured'
      <3>1. ASSUME NEW q \in Requests, req'[q].step \in PostingSteps
            PROVE  req'[q] = req[q]
        BY <2>2, <2>3, <3>1 DEF PostingSteps
      <3> QED BY <2>1, <3>1 DEF CaptureInv, PostsCaptured
    <2>10. ReceiptIsCaptured'
      BY <2>1 DEF CaptureInv, ReceiptIsCaptured
    <2> QED BY <2>8, <2>9, <2>10 DEF CaptureInv
  <1> QED BY <1>1, <1>2, <1>3, <1>4 DEF Start

\* A voucher is posted for a payment whose charge is captured.
LEMMA CommitKeepsCaptures ==
  ASSUME LedgerInv, CaptureInv, NEW r \in Requests, CommitReceipt(r)
  PROVE  CaptureInv'
  <1> DEFINE l == req[r]
  <1>1. At(r, "locked") /\ UNCHANGED <<pay, gateway>>
    BY DEF CommitReceipt
  <1>2. l.pay # None => gateway[l.pay] = "CAPTURED"
    BY <1>1 DEF CaptureInv, PostsCaptured, PostingSteps, At
  <1>3. PICK local : /\ req' = [req EXCEPT ![r] = local] /\ local.step \in {"mark", "done"}
                     /\ local.step = "mark" => local.pay = l.pay
    <2>1. Over.step = "done" BY DEF Over, Local
    <2>2. CASE Goto(r, "mark")
      <3> DEFINE local == [l EXCEPT !.step = "mark"]
      <3>1. local.step = "mark" /\ local.pay = l.pay /\ req' = [req EXCEPT ![r] = local]
        BY <2>2 DEF Goto, LedgerInv, LedgerTypes, Request
      <3> QED BY <3>1
    <2> QED BY <2>1, <2>2 DEF CommitReceipt, Finish
  <1>4. \/ UNCHANGED vouchers
        \/ vouchers' = [vouchers EXCEPT ![r] = [note |-> l.note, amount |-> l.amount, pay |-> l.pay]]
    BY DEF CommitReceipt
  <1>5. req'[r] = local /\ \A q \in Requests : q # r => req'[q] = req[q]
    BY <1>3 DEF LedgerInv, LedgerTypes
  <1>6. \A q \in Requests : At(q, "charge")' => At(q, "charge") /\ req'[q] = req[q]
    BY <1>3, <1>5 DEF At
  <1>7. ChargedOnce'
    BY <1>1, <1>6 DEF CaptureInv, ChargedOnce
  <1>8. PostsCaptured'
    <2>1. ASSUME NEW q \in Requests, req'[q].step \in PostingSteps, req'[q].pay # None
          PROVE  gateway[req'[q].pay] = "CAPTURED"
      <3>1. CASE q = r
        BY <1>2, <1>3, <1>5, <2>1, <3>1 DEF PostingSteps
      <3>2. CASE q # r
        BY <1>5, <2>1, <3>2 DEF CaptureInv, PostsCaptured
      <3> QED BY <3>1, <3>2
    <2> QED BY <1>1, <2>1 DEF PostsCaptured
  <1>9. ReceiptIsCaptured'
    BY <1>1, <1>2, <1>4 DEF CaptureInv, ReceiptIsCaptured, LedgerInv, LedgerTypes
  <1> QED BY <1>7, <1>8, <1>9 DEF CaptureInv

\* The charge is registered at the gateway, where there was none.
LEMMA RegisterKeepsCaptures ==
  ASSUME LedgerInv, CaptureInv, NEW r \in Requests, RegisterCharge(r)
  PROVE  CaptureInv'
  <1> DEFINE p == req[r].pay
  <1>1. /\ At(r, "charge") /\ req' = [req EXCEPT ![r] = Over]
        /\ gateway' = [gateway EXCEPT ![p] = "INITIATED"]
        /\ pay' = [pay EXCEPT ![p].charged = TRUE] /\ UNCHANGED vouchers
    BY DEF RegisterCharge, Finish
  <1>2. p \in Payments /\ pay \in [Payments -> PayRow]
    BY <1>1 DEF LedgerInv, LedgerTypes, RequestsOK, CarriesPayment, At
  <1>3. gateway[p] = "none" /\ gateway \in [Payments -> {"none", "INITIATED", "CAPTURED", "DECLINED"}]
    BY <1>1, <1>2 DEF CaptureInv, ChargedOnce
  <1>4. /\ pay'[p].charged /\ \A x \in Payments : x # p => pay'[x] = pay[x]
        /\ \A x \in Payments : gateway[x] = "CAPTURED" => gateway'[x] = "CAPTURED"
        /\ \A x \in Payments : x # p => gateway'[x] = gateway[x]
    BY <1>1, <1>2, <1>3 DEF PayRow
  <1>5. Over.step = "done"
    BY DEF Over, Local
  <1>6. req'[r] = Over /\ \A q \in Requests : q # r => req'[q] = req[q]
    BY <1>1 DEF LedgerInv, LedgerTypes
  <1>7. \A q \in Requests : At(q, "charge")' =>
            /\ q # r /\ At(q, "charge") /\ req'[q] = req[q]
            /\ req[q].pay \in Payments /\ req[q].pay # p
    BY <1>1, <1>5, <1>6 DEF CaptureInv, ChargedOnce, LedgerInv, RequestsOK, CarriesPayment, At
  <1>8. ChargedOnce'
    <2>1. gateway' \in [Payments -> {"none", "INITIATED", "CAPTURED", "DECLINED"}]
      BY <1>1, <1>3
    <2>2. \A x \in Payments : gateway'[x] # "none" => pay'[x].charged
      BY <1>4 DEF CaptureInv, ChargedOnce
    <2> QED BY <1>4, <1>7, <2>1, <2>2 DEF CaptureInv, ChargedOnce
  <1>9. PostsCaptured'
    <2>1. ASSUME NEW q \in Requests, req'[q].step \in PostingSteps, req'[q].pay # None
          PROVE  gateway'[req'[q].pay] = "CAPTURED"
      <3>1. q # r /\ req'[q] = req[q]
        BY <1>5, <1>6, <2>1 DEF PostingSteps
      <3>2. gateway[req[q].pay] = "CAPTURED" /\ req[q].pay \in Payments
        BY <2>1, <3>1 DEF CaptureInv, PostsCaptured, LedgerInv, LedgerTypes, Request
      <3> QED BY <1>4, <3>1, <3>2
    <2> QED BY <2>1 DEF PostsCaptured
  <1>10. ReceiptIsCaptured'
    <2>1. \A q \in Requests : vouchers[q] # None /\ vouchers[q].pay # None
                                  => vouchers[q].pay \in Payments
      BY DEF LedgerInv, LedgerTypes, Voucher
    <2> QED BY <1>1, <1>4, <2>1 DEF CaptureInv, ReceiptIsCaptured
  <1> QED BY <1>8, <1>9, <1>10 DEF CaptureInv

\* A request that goes on.
LEMMA ContinueKeepsCaptures ==
  ASSUME LedgerInv, CaptureInv, NEW r \in Requests, Continue(r)
  PROVE  CaptureInv'
  <1>0. req[r] \in Request /\ pay \in [Payments -> PayRow] /\ CarriesPayment(r)
    BY DEF LedgerInv, LedgerTypes, RequestsOK
  <1>1. ASSUME NEW step, step # "charge", Goto(r, step), UNCHANGED <<gateway, vouchers, pay>>,
               step \in PostingSteps /\ req[r].pay # None => gateway[req[r].pay] = "CAPTURED"
        PROVE  CaptureInv'
    <2> DEFINE local == [req[r] EXCEPT !.step = step]
    <2>1. local.step = step /\ local.pay = req[r].pay /\ req' = [req EXCEPT ![r] = local]
      BY <1>0, <1>1 DEF Request, Goto
    <2> HIDE DEF local
    <2> QED BY <1>1, <2>1, MoveKeepsCaptures
  <1>2. CASE LockNote(r)
    <2>1. At(r, "receipt") /\ Goto(r, "locked") /\ UNCHANGED <<gateway, vouchers, pay>>
      BY <1>2 DEF LockNote
    <2>2. req[r].pay # None => gateway[req[r].pay] = "CAPTURED"
      BY <2>1 DEF At, CaptureInv, PostsCaptured, PostingSteps
    <2> QED BY <1>1, <2>1, <2>2
  <1>3. CASE RetrieveCharge(r)
    <2>1. PICK step \in {"settle", "failed", "pending"} :
              Goto(r, step) /\ (step = "settle" => gateway[req[r].pay] = "CAPTURED")
      BY <1>3 DEF RetrieveCharge
    <2>2. UNCHANGED <<gateway, vouchers, pay>>
      BY <1>3 DEF RetrieveCharge
    <2> QED BY <1>1, <2>1, <2>2 DEF PostingSteps
  <1>4. CASE Settle(r)
    <2> DEFINE row == pay[req[r].pay]
               local == ReadNote(row.note, row.amount, req[r].pay)
    <2>1. At(r, "settle") /\ UNCHANGED <<gateway, vouchers, pay>>
      BY <1>4 DEF Settle
    <2>2. req' = [req EXCEPT ![r] = local] \/ req' = [req EXCEPT ![r] = Over]
      BY <1>4 DEF Settle, Finish
    <2>3. local.step = "receipt" /\ local.pay = req[r].pay
      BY DEF ReadNote, Local
    <2>4. req[r].pay # None => gateway[req[r].pay] = "CAPTURED"
      BY <2>1 DEF At, CaptureInv, PostsCaptured, PostingSteps
    <2> HIDE DEF local
    <2> QED BY <2>1, <2>2, <2>3, <2>4, MoveKeepsCaptures, FinishKeepsCaptures
  <1>5. CASE WriteStatus(r) \/ MarkPaid(r)
    <2> DEFINE p == req[r].pay
    <2>1. /\ p \in Payments /\ req' = [req EXCEPT ![r] = Over] /\ UNCHANGED <<gateway, vouchers>>
      BY <1>0, <1>5 DEF WriteStatus, MarkPaid, Finish, At, CarriesPayment
    <2>2. ASSUME NEW x \in Payments PROVE pay'[x].charged = pay[x].charged
      <3>1. CASE WriteStatus(r)
        <4>1. PICK s \in {"FAILED", "PENDING"} : pay' = [pay EXCEPT ![p].status = s]
          BY <3>1 DEF WriteStatus
        <4> QED BY <1>0, <2>1, <4>1 DEF PayRow
      <3>2. CASE MarkPaid(r)
        BY <1>0, <2>1, <3>2 DEF MarkPaid, Payment
      <3> QED BY <1>5, <3>1, <3>2
    <2> QED BY <2>1, <2>2, FinishKeepsCaptures
  <1>6. CASE InsertRows(r) \/ ReadRows(r) \/ WriteRow(r) \/ DeleteRows(r) \/ CommitReplace(r)
    <2>1. /\ UNCHANGED <<gateway, vouchers, pay>>
          /\ req[r].step \in {"insert", "spread", "write", "replace", "deleted"}
      BY <1>6 DEF InsertRows, ReadRows, WriteRow, DeleteRows, CommitReplace, At
    <2>2. \/ req' = [req EXCEPT ![r] = Over]
          \/ \E step \in {"spread", "write", "deleted"} : Goto(r, step)
          \/ req' = [req EXCEPT ![r] = req[r]]
      BY <1>6 DEF InsertRows, ReadRows, WriteRow, DeleteRows, CommitReplace, Finish,
                  LedgerInv, LedgerTypes
    <2> QED BY <1>1, <2>1, <2>2, MoveKeepsCaptures, FinishKeepsCaptures DEF PostingSteps
  <1> QED BY <1>2, <1>3, <1>4, <1>5, <1>6, CommitKeepsCaptures, RegisterKeepsCaptures DEF Continue

\* Every step keeps the invariant.
LEMMA CapturesNext == LedgerInv /\ CaptureInv /\ [Next]_vars => CaptureInv'
  <1> SUFFICES ASSUME LedgerInv, CaptureInv, [Next]_vars PROVE CaptureInv'
    OBVIOUS
  <1>1. ASSUME NEW r \in Requests, Crash(r) PROVE CaptureInv'
    BY <1>1, FinishKeepsCaptures DEF Crash, Finish
  <1>2. ASSUME NEW p \in Payments, ClientPays(p) PROVE CaptureInv'
    <2>1. /\ UNCHANGED <<vouchers, pay, req>> /\ gateway[p] = "INITIATED"
          /\ \E o \in {"CAPTURED", "DECLINED"} : gateway' = [gateway EXCEPT ![p] = o]
      BY <1>2 DEF ClientPays
    <2>2. gateway \in [Payments -> {"none", "INITIATED", "CAPTURED", "DECLINED"}]
      BY DEF CaptureInv, ChargedOnce
    <2>3. \A x : gateway[x] = "CAPTURED" /\ x \in Payments => gateway'[x] = "CAPTURED"
      BY <2>1, <2>2
    <2>4. \A q \in Requests :
              /\ req[q].pay \in Payments \union {None}
              /\ vouchers[q] # None /\ vouchers[q].pay # None => vouchers[q].pay \in Payments
      BY DEF LedgerInv, LedgerTypes, Voucher, Request
    <2>5. ChargedOnce'
      BY <2>1, <2>2 DEF CaptureInv, ChargedOnce, At
    <2>6. PostsCaptured'
      BY <2>1, <2>3, <2>4 DEF CaptureInv, PostsCaptured
    <2>7. ReceiptIsCaptured'
      BY <2>1, <2>3, <2>4 DEF CaptureInv, ReceiptIsCaptured
    <2> QED BY <2>5, <2>6, <2>7 DEF CaptureInv
  <1>3. CASE UNCHANGED vars
    BY <1>3 DEF vars, CaptureInv, ChargedOnce, PostsCaptured, ReceiptIsCaptured, At
  <1> QED BY <1>1, <1>2, <1>3, StartKeepsCaptures, ContinueKeepsCaptures DEF Next

\* Nothing is posted to begin with.
LEMMA CapturesInit == Init => CaptureInv
  BY DEF Init, Idle, Local, NoPayment, Payment, CaptureInv, ChargedOnce, PostsCaptured,
         ReceiptIsCaptured, PostingSteps, At

\* However confirmations and webhooks interleave or die, no receipt is posted for
\* a payment the gateway has not captured (confirm, webhook, settle).
THEOREM ReceiptsAlwaysCaptured == Spec => []ReceiptIsCaptured
  <1>1. Init => LedgerInv /\ CaptureInv
    BY LedgerInit, CapturesInit
  <1>2. LedgerInv /\ CaptureInv /\ [Next]_vars => (LedgerInv /\ CaptureInv)'
    BY LedgerNext, CapturesNext
  <1>3. CaptureInv => ReceiptIsCaptured
    BY DEF CaptureInv
  <1> QED BY <1>1, <1>2, <1>3, PTL DEF Spec
\* A voucher posted for a payment is the one the payment names, or is about to be.
ReceiptKept(q) ==
    vouchers[q] # None /\ vouchers[q].pay # None =>
        LET row == pay[vouchers[q].pay] IN (row.status = "PAID" /\ row.receipt = q) \/ At(q, "mark")

\* A request about a payment has not been overtaken by another that marked it.
NotYetPaid(r) ==
    req[r].step \in PaySteps /\ req[r].pay # None => pay[req[r].pay].status # "PAID"

ReceiptsKept == \A r \in Requests : ReceiptKept(r) /\ NotYetPaid(r)

SerialCaptures == Alone /\ (crashes = 0 => ReceiptsKept)

PaidStays ==
    \A p \in Payments : pay[p].status = "PAID"
                            => pay'[p].status = "PAID" /\ pay'[p].receipt = pay[p].receipt

Rests(q) == req[q].step \in {"idle", "done"}

\* A set with one element at most that grows by one, and is still that small.
LEMMA AtMostOneMore ==
  ASSUME NEW S, \A a, b \in S : a = b, NEW x, NEW T \in SUBSET (S \union {x}), Cardinality(T) <= 1
  PROVE  \A a, b \in T : a = b
  <1> SUFFICES ASSUME NEW a \in T, NEW b \in T, a # b
               PROVE  FALSE
    OBVIOUS
  <1>1. T = {a} \union {b}
    OBVIOUS
  <1>3. T = {b} \union {a} /\ a \notin {b} /\ IsFiniteSet({b}) /\ Cardinality({b}) = 1
    BY <1>1, FS_Singleton
  <1>4. Cardinality(T) = Cardinality({b}) + 1
    BY <1>3, FS_AddElement
  <1> QED BY <1>3, <1>4

\* A step of one request that leaves what is marked PAID marked, and that is
\* right about the request's own voucher and payment.
LEMMA MoveKeepsReceipts ==
  ASSUME LedgerInv, ReceiptsKept, NEW r \in Requests, NEW local,
         req' = [req EXCEPT ![r] = local],
         \A q \in Requests : q # r => Rests(q) /\ vouchers'[q] = vouchers[q],
         PaidStays, ReceiptKept(r)', NotYetPaid(r)'
  PROVE  ReceiptsKept'
  <1>1. \A q \in Requests : q # r => req'[q] = req[q]
    BY DEF LedgerInv, LedgerTypes
  <1>2. ASSUME NEW q \in Requests, q # r
        PROVE  ReceiptKept(q)' /\ NotYetPaid(q)'
    <2>1. Rests(q) /\ req'[q] = req[q] /\ vouchers'[q] = vouchers[q]
      BY <1>1, <1>2
    <2>2. vouchers[q] # None /\ vouchers[q].pay # None => vouchers[q].pay \in Payments
      BY DEF LedgerInv, LedgerTypes, Voucher
    <2>3. NotYetPaid(q)'
      BY <2>1 DEF Rests, NotYetPaid, PaySteps, PostingSteps
    <2>4. ReceiptKept(q)
      BY DEF ReceiptsKept
    <2>5. ReceiptKept(q)'
      BY <2>1, <2>2, <2>4 DEF Rests, ReceiptKept, At, PaidStays
    <2> QED BY <2>3, <2>5
  <1> QED BY <1>2 DEF ReceiptsKept

\* The same, for a request that posts no voucher in the step.
LEMMA QuietMoveKeepsReceipts ==
  ASSUME LedgerInv, ReceiptsKept, NEW r \in Requests, NEW local,
         req' = [req EXCEPT ![r] = local], \A q \in Requests : q # r => Rests(q),
         UNCHANGED vouchers, PaidStays, ~ At(r, "mark"),
         local.step \in PaySteps /\ local.pay # None => pay'[local.pay].status # "PAID"
  PROVE  ReceiptsKept'
  <1>1. req'[r] = local
    BY DEF LedgerInv, LedgerTypes
  <1>2. NotYetPaid(r)'
    BY <1>1 DEF NotYetPaid
  <1>3. vouchers[r] # None /\ vouchers[r].pay # None => vouchers[r].pay \in Payments
    BY DEF LedgerInv, LedgerTypes, Voucher
  <1>4. ReceiptKept(r)
    BY DEF ReceiptsKept
  <1>5. ReceiptKept(r)'
    BY <1>3, <1>4 DEF ReceiptKept, At, PaidStays
  <1> QED BY <1>2, <1>5, MoveKeepsReceipts

\* A request that ends without having posted anything.
LEMMA FinishKeepsReceipts ==
  ASSUME LedgerInv, ReceiptsKept, NEW r \in Requests, req' = [req EXCEPT ![r] = Over],
         \A q \in Requests : q # r => Rests(q),
         UNCHANGED vouchers, PaidStays, ~ At(r, "mark")
  PROVE  ReceiptsKept'
  <1>1. Over.step \notin PaySteps
    BY DEF Over, Local, PaySteps, PostingSteps
  <1> QED BY <1>1, QuietMoveKeepsReceipts

\* A request starts on a payment that is not PAID.
LEMMA StartKeepsReceipts ==
  ASSUME LedgerInv, ReceiptsKept, NEW r \in Requests, Start(r),
         \A q \in Requests : q # r => Rests(q)
  PROVE  ReceiptsKept'
  <1> USE DEF Begin, CanStart
  <1>1. ASSUME NEW n \in Notes, NEW a \in Amounts, RecordReceipt(r, n, a)
        PROVE  ReceiptsKept'
    <2> DEFINE local == ReadNote(n, a, None)
    <2>1. local.pay = None
      BY DEF ReadNote, Local
    <2>2. /\ req' = [req EXCEPT ![r] = local] /\ UNCHANGED <<vouchers, pay>>
          /\ ~ At(r, "mark") /\ PaidStays
      BY <1>1 DEF RecordReceipt, At, PaidStays
    <2> HIDE DEF local
    <2> QED BY <2>1, <2>2, QuietMoveKeepsReceipts
  <1>2. ASSUME NEW p \in Payments, Confirm(r, p) \/ Webhook(r, p)
        PROVE  ReceiptsKept'
    <2>1. PICK step \in {"retrieve", "settle"} :
              req' = [req EXCEPT ![r] = Local(step, None, p, 0, 0)]
      BY <1>2 DEF Confirm, Webhook
    <2> DEFINE local == Local(step, None, p, 0, 0)
    <2>2. local.pay = p
      BY DEF Local
    <2>3. /\ req' = [req EXCEPT ![r] = local] /\ UNCHANGED <<vouchers, pay>>
          /\ ~ At(r, "mark") /\ PaidStays /\ pay[p].status # "PAID"
      BY <1>2, <2>1 DEF Confirm, Webhook, At, PaidStays
    <2> HIDE DEF local
    <2> QED BY <2>2, <2>3, QuietMoveKeepsReceipts
  <1>3. ASSUME NEW n \in Notes, NEW dto \in Dtos,
               GenerateInstallments(r, n, dto) \/ ReplaceInstallments(r, n, dto)
        PROVE  ReceiptsKept'
    <2>1. PICK step \in {"insert", "replace"} :
              req' = [req EXCEPT ![r] = Local(step, n, None, 0, settled[n])]
      BY <1>3 DEF GenerateInstallments, ReplaceInstallments, ReadForPlan
    <2> DEFINE local == Local(step, n, None, 0, settled[n])
    <2>2. local.pay = None
      BY DEF Local
    <2>3. /\ req' = [req EXCEPT ![r] = local] /\ UNCHANGED <<vouchers, pay>>
          /\ ~ At(r, "mark") /\ PaidStays
      BY <1>3, <2>1 DEF GenerateInstallments, ReplaceInstallments, ReadForPlan, At, PaidStays
    <2> HIDE DEF local
    <2> QED BY <2>2, <2>3, QuietMoveKeepsReceipts
  <1>4. ASSUME NEW p \in Payments, NEW n \in Notes, NEW a \in Amounts, CreateCharge(r, p, n, a)
        PROVE  ReceiptsKept'
    <2> DEFINE local == Local("charge", None, p, 0, 0)
               row == Payment("PENDING", FALSE, n, a, None)
    <2>1. /\ req' = [req EXCEPT ![r] = local] /\ UNCHANGED vouchers /\ ~ At(r, "mark")
          /\ pay[p].status = "none" /\ pay' = [pay EXCEPT ![p] = row]
      BY <1>4 DEF CreateCharge, NoPayment, Payment, At
    <2>2. local.step = "charge"
      BY DEF Local
    <2>3. PaidStays
      BY <2>1 DEF PaidStays, LedgerInv, LedgerTypes
    <2> HIDE DEF local, row
    <2> QED BY <2>1, <2>2, <2>3, QuietMoveKeepsReceipts DEF PaySteps, PostingSteps
  <1> QED BY <1>1, <1>2, <1>3, <1>4 DEF Start

\* The voucher is posted for a payment without one, and marked next.
LEMMA CommitKeepsReceipts ==
  ASSUME LedgerInv, ReceiptsKept, NEW r \in Requests, CommitReceipt(r),
         \A q \in Requests : q # r => Rests(q)
  PROVE  ReceiptsKept'
  <1> DEFINE l == req[r]
             v == [note |-> l.note, amount |-> l.amount, pay |-> l.pay]
  <1>1. At(r, "locked") /\ UNCHANGED pay /\ PaidStays /\ ~ At(r, "mark")
    BY DEF CommitReceipt, PaidStays, At
  <1>2. CASE ~ Keys(todo[r]) \subseteq Keys(plan[l.note])
    BY <1>1, <1>2, FinishKeepsReceipts DEF CommitReceipt, Finish
  <1>3. CASE Keys(todo[r]) \subseteq Keys(plan[l.note])
    <2>1. vouchers' = [vouchers EXCEPT ![r] = v]
      BY <1>3 DEF CommitReceipt
    <2>2. \A q \in Requests : q # r => Rests(q) /\ vouchers'[q] = vouchers[q]
      BY <2>1 DEF LedgerInv, LedgerTypes
    <2>3. vouchers'[r] = v
      BY <2>1 DEF LedgerInv, LedgerTypes
    <2>4. CASE l.pay = None
      <3>1. req' = [req EXCEPT ![r] = Over]
        BY <1>3, <2>4 DEF CommitReceipt, Finish
      <3>2. req'[r] = Over
        BY <3>1 DEF LedgerInv, LedgerTypes
      <3>3. NotYetPaid(r)'
        BY <3>2 DEF NotYetPaid, Over, Local, PaySteps, PostingSteps
      <3>4. ReceiptKept(r)'
        BY <2>3, <2>4 DEF ReceiptKept
      <3> QED BY <1>1, <2>2, <3>1, <3>3, <3>4, MoveKeepsReceipts
    <2>5. CASE l.pay # None
      <3> DEFINE local == [l EXCEPT !.step = "mark"]
      <3>1. req' = [req EXCEPT ![r] = local]
        BY <1>3, <2>5 DEF CommitReceipt, Goto, LedgerInv, LedgerTypes
      <3>2. local.step = "mark" /\ local.pay = l.pay
        BY DEF LedgerInv, LedgerTypes, Request
      <3> HIDE DEF local
      <3>3. req'[r] = local
        BY <3>1 DEF LedgerInv, LedgerTypes
      <3>4. pay[l.pay].status # "PAID"
        BY <1>1, <2>5 DEF ReceiptsKept, NotYetPaid, At, PaySteps, PostingSteps
      <3>5. NotYetPaid(r)' /\ ReceiptKept(r)'
        BY <1>1, <3>2, <3>3, <3>4 DEF NotYetPaid, ReceiptKept, At
      <3> QED BY <1>1, <2>2, <3>1, <3>5, MoveKeepsReceipts
    <2> QED BY <2>4, <2>5
  <1> QED BY <1>2, <1>3

\* A payment's row is written by a request that found it unpaid.
LEMMA PaymentStepKeepsReceipts ==
  ASSUME LedgerInv, ReceiptsKept, NEW r \in Requests,
         RegisterCharge(r) \/ WriteStatus(r) \/ MarkPaid(r),
         \A q \in Requests : q # r => Rests(q)
  PROVE  ReceiptsKept'
  <1> DEFINE p == req[r].pay
  <1>1. /\ p \in Payments /\ req' = [req EXCEPT ![r] = Over] /\ UNCHANGED vouchers
        /\ pay \in [Payments -> PayRow] /\ CarriesPayment(r) /\ PostedOnce(r)
    BY DEF RegisterCharge, WriteStatus, MarkPaid, Finish, At, CarriesPayment,
           LedgerInv, LedgerTypes, RequestsOK
  <1>2. CASE RegisterCharge(r)
    <2>1. pay' = [pay EXCEPT ![p].charged = TRUE] /\ ~ At(r, "mark")
      BY <1>2 DEF RegisterCharge, At
    <2>2. PaidStays
      BY <1>1, <2>1 DEF PaidStays, PayRow
    <2> QED BY <1>1, <2>1, <2>2, FinishKeepsReceipts
  <1>3. CASE WriteStatus(r)
    <2>1. PICK s \in {"FAILED", "PENDING"} : pay' = [pay EXCEPT ![p].status = s] /\ ~ At(r, "mark")
      BY <1>3 DEF WriteStatus, At
    <2>2. pay[p].status # "PAID"
      BY <1>1, <1>3 DEF WriteStatus, At, ReceiptsKept, NotYetPaid, PaySteps
    <2>3. PaidStays
      BY <1>1, <2>1, <2>2 DEF PaidStays
    <2> QED BY <1>1, <2>1, <2>3, FinishKeepsReceipts
  <1>4. CASE MarkPaid(r)
    <2>1. /\ At(r, "mark") /\ pay[p].status # "PAID"
          /\ pay' = [pay EXCEPT ![p] = Payment("PAID", @.charged, @.note, @.amount, r)]
      BY <1>1, <1>4 DEF MarkPaid, At, ReceiptsKept, NotYetPaid, PaySteps, PostingSteps
    <2>2. pay'[p].status = "PAID" /\ pay'[p].receipt = r
      BY <1>1, <2>1 DEF Payment
    <2>3. PaidStays
      BY <1>1, <2>1 DEF PaidStays
    <2>4. vouchers[r].pay = p
      BY <1>1, <2>1 DEF PostedOnce, At
    <2>5. ReceiptKept(r)'
      BY <1>1, <2>2, <2>4 DEF ReceiptKept
    <2>6. req'[r] = Over
      BY <1>1 DEF LedgerInv, LedgerTypes
    <2>7. NotYetPaid(r)'
      BY <2>6 DEF NotYetPaid, Over, Local, PaySteps, PostingSteps
    <2> QED BY <1>1, <2>3, <2>5, <2>7, MoveKeepsReceipts
  <1> QED BY <1>2, <1>3, <1>4

\* A request that goes on stays with a payment it found unpaid.
LEMMA ContinueKeepsReceipts ==
  ASSUME LedgerInv, ReceiptsKept, NEW r \in Requests, Continue(r),
         \A q \in Requests : q # r => Rests(q)
  PROVE  ReceiptsKept'
  <1>0. req[r] \in Request /\ NotYetPaid(r)
    BY DEF LedgerInv, LedgerTypes, ReceiptsKept
  <1>1. ASSUME NEW step, Goto(r, step), UNCHANGED <<vouchers, pay>>, ~ At(r, "mark"),
               step \in PaySteps => req[r].step \in PaySteps
        PROVE  ReceiptsKept'
    <2> DEFINE local == [req[r] EXCEPT !.step = step]
    <2>1. local.step = step /\ local.pay = req[r].pay /\ req' = [req EXCEPT ![r] = local]
      BY <1>0, <1>1 DEF Request, Goto
    <2>2. PaidStays
      BY <1>1 DEF PaidStays
    <2> HIDE DEF local
    <2> QED BY <1>0, <1>1, <2>1, <2>2, QuietMoveKeepsReceipts DEF NotYetPaid
  <1>2. CASE LockNote(r)
    <2>1. At(r, "receipt") /\ Goto(r, "locked") /\ UNCHANGED <<vouchers, pay>>
      BY <1>2 DEF LockNote
    <2> QED BY <1>1, <2>1 DEF At, PaySteps, PostingSteps
  <1>3. CASE RetrieveCharge(r)
    <2>1. At(r, "retrieve") /\ (\E step : Goto(r, step)) /\ UNCHANGED <<vouchers, pay>>
      BY <1>3 DEF RetrieveCharge
    <2> QED BY <1>1, <2>1 DEF At, PaySteps
  <1>4. CASE Settle(r)
    <2> DEFINE row == pay[req[r].pay]
               local == ReadNote(row.note, row.amount, req[r].pay)
    <2>1. At(r, "settle") /\ UNCHANGED <<vouchers, pay>> /\ ~ At(r, "mark") /\ PaidStays
      BY <1>4 DEF Settle, At, PaidStays
    <2>2. req' = [req EXCEPT ![r] = local] \/ req' = [req EXCEPT ![r] = Over]
      BY <1>4 DEF Settle, Finish
    <2>3. local.pay = req[r].pay
      BY DEF ReadNote, Local
    <2>4. req[r].pay # None => pay[req[r].pay].status # "PAID"
      BY <1>0, <2>1 DEF NotYetPaid, At, PaySteps, PostingSteps
    <2> HIDE DEF local
    <2> QED BY <2>1, <2>2, <2>3, <2>4, QuietMoveKeepsReceipts, FinishKeepsReceipts
  <1>5. CASE InsertRows(r) \/ ReadRows(r) \/ WriteRow(r) \/ DeleteRows(r) \/ CommitReplace(r)
    <2>1. /\ UNCHANGED <<vouchers, pay>> /\ PaidStays /\ ~ At(r, "mark")
          /\ req[r].step \in {"insert", "spread", "write", "replace", "deleted"}
      BY <1>5 DEF InsertRows, ReadRows, WriteRow, DeleteRows, CommitReplace, At, PaidStays
    <2>2. \/ req' = [req EXCEPT ![r] = Over]
          \/ \E step \in {"spread", "write", "deleted"} : Goto(r, step)
          \/ req' = [req EXCEPT ![r] = req[r]]
      BY <1>5 DEF InsertRows, ReadRows, WriteRow, DeleteRows, CommitReplace, Finish,
                  LedgerInv, LedgerTypes
    <2>3. req[r].step \notin PaySteps /\ \A step \in {"spread", "write", "deleted"} : step \notin PaySteps
      BY <2>1 DEF PaySteps, PostingSteps
    <2> QED BY <1>1, <2>1, <2>2, <2>3, QuietMoveKeepsReceipts, FinishKeepsReceipts
  <1> QED BY <1>2, <1>3, <1>4, <1>5, CommitKeepsReceipts, PaymentStepKeepsReceipts DEF Continue

\* A request that starts is in flight.
LEMMA StartIsInFlight ==
  ASSUME LedgerInv, NEW r \in Requests, Start(r)
  PROVE  r \in InFlight'
  <1>1. ASSUME NEW local, Begin(r, local), local.step \notin {"idle", "done"}
        PROVE  r \in InFlight'
    <2>1. req'[r] = local
      BY <1>1 DEF Begin, LedgerInv, LedgerTypes
    <2> QED BY <1>1, <2>1 DEF InFlight
  <1>2. ASSUME NEW n \in Notes, NEW a \in Amounts, RecordReceipt(r, n, a)
        PROVE  r \in InFlight'
    <2>1. ReadNote(n, a, None).step = "receipt"
      BY DEF ReadNote, Local
    <2> QED BY <1>1, <1>2, <2>1 DEF RecordReceipt
  <1>3. ASSUME NEW p \in Payments, NEW n \in Notes, NEW a \in Amounts, CreateCharge(r, p, n, a)
        PROVE  r \in InFlight'
    <2>1. Local("charge", None, p, 0, 0).step = "charge"
      BY DEF Local
    <2> QED BY <1>1, <1>3, <2>1 DEF CreateCharge
  <1>4. ASSUME NEW p \in Payments, Confirm(r, p) \/ Webhook(r, p)
        PROVE  r \in InFlight'
    <2>1. \A step : Local(step, None, p, 0, 0).step = step
      BY DEF Local
    <2> QED BY <1>1, <1>4, <2>1 DEF Confirm, Webhook
  <1>5. ASSUME NEW n \in Notes, NEW dto \in Dtos,
               GenerateInstallments(r, n, dto) \/ ReplaceInstallments(r, n, dto)
        PROVE  r \in InFlight'
    <2>1. \A step : Local(step, n, None, 0, settled[n]).step = step
      BY DEF Local
    <2> QED BY <1>1, <1>5, <2>1 DEF GenerateInstallments, ReplaceInstallments, ReadForPlan
  <1> QED BY <1>2, <1>3, <1>4, <1>5 DEF Start

\* Only a crash counts as one.
LEMMA CrashesCount ==
  ASSUME Next
  PROVE  UNCHANGED crashes \/ (crashes' = crashes + 1 /\ \E r \in Requests : Crash(r))
  <1>1. ASSUME NEW r \in Requests, Start(r) PROVE UNCHANGED crashes
    BY <1>1 DEF Start, RecordReceipt, CreateCharge, Confirm, Webhook, GenerateInstallments,
                ReplaceInstallments
  <1>2. ASSUME NEW r \in Requests, Continue(r) PROVE UNCHANGED crashes
    <2>1. CASE LockNote(r) \/ CommitReceipt(r)
      BY <2>1 DEF LockNote, CommitReceipt
    <2>2. CASE RegisterCharge(r) \/ RetrieveCharge(r) \/ WriteStatus(r) \/ Settle(r) \/ MarkPaid(r)
      BY <2>2 DEF RegisterCharge, RetrieveCharge, WriteStatus, Settle, MarkPaid
    <2>3. CASE InsertRows(r) \/ ReadRows(r) \/ WriteRow(r) \/ DeleteRows(r) \/ CommitReplace(r)
      BY <2>3 DEF InsertRows, ReadRows, WriteRow, DeleteRows, CommitReplace
    <2> QED BY <1>2, <2>1, <2>2, <2>3 DEF Continue
  <1>3. ASSUME NEW p \in Payments, ClientPays(p) PROVE UNCHANGED crashes
    BY <1>3 DEF ClientPays
  <1> QED BY <1>1, <1>2, <1>3 DEF Next, Crash

\* Requests served one at a time, to the end of a step and after it.
LEMMA ServedAlone ==
  ASSUME LedgerInv, Serial, Alone, NEW r \in Requests, Start(r) \/ Continue(r) \/ Crash(r),
         UNCHANGED load, Within'
  PROVE  /\ Alone'
         /\ \A q \in Requests : q # r => Rests(q)
  <1>0. \A q \in Requests : q # r => req'[q] = req[q]
    BY DEF Start, RecordReceipt, CreateCharge, Confirm, Webhook, GenerateInstallments,
           ReplaceInstallments, ReadForPlan, Begin, Continue, LockNote, CommitReceipt,
           RegisterCharge, RetrieveCharge, WriteStatus, Settle, MarkPaid, InsertRows, ReadRows,
           WriteRow, DeleteRows, CommitReplace, Crash, Goto, Finish, LedgerInv, LedgerTypes
  <1>1. Alone'
    <2>1. InFlight' \in SUBSET (InFlight \union {r})
      BY <1>0 DEF InFlight
    <2>2. Cardinality(InFlight') <= 1
      BY DEF Within, Serial
    <2> QED BY <2>1, <2>2, AtMostOneMore DEF Alone
  <1>2. ASSUME NEW q \in Requests, q # r
        PROVE  Rests(q)
    <2>1. CASE Start(r)
      <3>2. r \in InFlight'
        BY <2>1, StartIsInFlight
      <3>3. q \notin InFlight'
        BY <1>1, <1>2, <3>2 DEF Alone
      <3> QED BY <1>0, <1>2, <3>3 DEF InFlight, Rests
    <2>2. CASE Continue(r) \/ Crash(r)
      <3>1. r \in InFlight
        BY <2>2 DEF Crash, Continue, LockNote, CommitReceipt, RegisterCharge, RetrieveCharge,
                    WriteStatus, Settle, MarkPaid, InsertRows, ReadRows, WriteRow,
                    DeleteRows, CommitReplace, At, InFlight
      <3> QED BY <1>2, <3>1 DEF Alone, InFlight, Rests
    <2> QED BY <2>1, <2>2
  <1> QED BY <1>1, <1>2

\* Served one at a time and without a death, what is captured is receipted once.
LEMMA SerialCapturesNext ==
  ASSUME LedgerInv, Serial, SerialCaptures, crashes \in Nat, MCNext
  PROVE  SerialCaptures'
  <1>1. ASSUME NEW r \in Requests, Start(r) \/ Continue(r) \/ Crash(r)
        PROVE  SerialCaptures'
    <2>1. Alone' /\ \A q \in Requests : q # r => Rests(q)
      BY <1>1, ServedAlone DEF SerialCaptures, MCNext
    <2>2. ASSUME crashes' = 0 PROVE ReceiptsKept'
      <3>1. crashes = 0 /\ ~ Crash(r)
        BY <2>2, CrashesCount DEF MCNext, Crash
      <3>2. ReceiptsKept
        BY <3>1 DEF SerialCaptures
      <3> QED BY <1>1, <2>1, <3>1, <3>2, StartKeepsReceipts, ContinueKeepsReceipts
    <2> QED BY <2>1, <2>2 DEF SerialCaptures
  <1>2. ASSUME NEW p \in Payments, ClientPays(p)
        PROVE  SerialCaptures'
    <2>1. UNCHANGED <<vouchers, pay, req, crashes>>
      BY <1>2 DEF ClientPays
    <2> QED BY <2>1 DEF SerialCaptures, Alone, InFlight, ReceiptsKept, ReceiptKept, NotYetPaid, At
  <1> QED BY <1>1, <1>2 DEF MCNext, Next

\* Two vouchers for one payment would both be the one it names.
LEMMA KeptReceiptsAreOne ==
  ASSUME LedgerInv, SerialCaptures
  PROVE  OneReceiptPerPayment
  <1> SUFFICES ASSUME crashes = 0, NEW q \in Requests, NEW r \in Requests, vouchers[q] # None,
                      vouchers[q] = vouchers[r], vouchers[q].pay # None
               PROVE  q = r
    BY DEF OneReceiptPerPayment
  <1>1. ReceiptKept(q) /\ ReceiptKept(r) /\ NotYetPaid(q) /\ NotYetPaid(r)
        /\ PostedOnce(q) /\ PostedOnce(r)
    BY DEF SerialCaptures, ReceiptsKept, LedgerInv, RequestsOK
  <1>2. CASE At(q, "mark") /\ At(r, "mark")
    BY <1>2 DEF SerialCaptures, Alone, InFlight, At
  <1>3. CASE ~ At(q, "mark") /\ ~ At(r, "mark")
    BY <1>1, <1>3 DEF ReceiptKept
  <1>4. ASSUME NEW x \in {q, r}, NEW y \in {q, r}, At(x, "mark"), ~ At(y, "mark")
        PROVE  FALSE
    <2>1. pay[vouchers[y].pay].status = "PAID"
      BY <1>1, <1>4 DEF ReceiptKept
    <2>2. req[x].pay = vouchers[x].pay
      BY <1>1, <1>4 DEF PostedOnce, At
    <2> QED BY <1>1, <1>4, <2>1, <2>2 DEF NotYetPaid, At, PaySteps, PostingSteps
  <1> QED BY <1>2, <1>3, <1>4

\* No receipt is posted for what the gateway has not captured, and, served one at
\* a time and without a death, no captured payment is receipted twice, confirmed
\* and delivered as often as one likes (confirm, webhook, settle).
THEOREM CapturedAlwaysReceiptedOnce == MCSpec => []CapturedIsReceiptedOnce
  <1> DEFINE I == LedgerInv /\ CaptureInv /\ crashes \in Nat /\ (Serial => SerialCaptures)
  <1>1. MCInit => I
    <2> SUFFICES ASSUME MCInit PROVE I
      OBVIOUS
    <2>1. LedgerInv /\ CaptureInv
      BY LedgerInit, CapturesInit DEF MCInit
    <2>2. SerialCaptures
      BY DEF MCInit, Init, Idle, Local, SerialCaptures, Alone, InFlight, ReceiptsKept,
             ReceiptKept, NotYetPaid, PaySteps, PostingSteps
    <2> QED BY <2>1, <2>2 DEF MCInit, Init
  <1>2. I /\ [MCNext]_MCVars => I'
    <2> SUFFICES ASSUME I, [MCNext]_MCVars PROVE I'
      OBVIOUS
    <2>1. LedgerInv' /\ CaptureInv'
      BY LedgerNext, CapturesNext DEF MCNext, MCVars
    <2>2. crashes' \in Nat
      BY CrashesCount DEF MCNext, MCVars, vars
    <2>3. ASSUME Serial' PROVE SerialCaptures'
      <3>1. Serial /\ SerialCaptures
        BY <2>3 DEF MCNext, MCVars, Serial
      <3>2. CASE MCNext
        BY <3>1, <3>2, SerialCapturesNext
      <3>3. CASE UNCHANGED MCVars
        BY <3>1, <3>3 DEF MCVars, vars, SerialCaptures, Alone, InFlight, ReceiptsKept,
                          ReceiptKept, NotYetPaid, At
      <3> QED BY <3>2, <3>3
    <2> QED BY <2>1, <2>2, <2>3
  <1>3. I => CapturedIsReceiptedOnce
    BY KeptReceiptsAreOne DEF CaptureInv, CapturedIsReceiptedOnce
  <1> QED BY <1>1, <1>2, <1>3, PTL DEF MCSpec

\* Under a load of one request at a time, a step is one of the abstract receivable.
LEMMA LoadImplements ==
  ASSUME LedgerInv, Serial, SerialInv, [MCNext]_MCVars
  PROVE  SerialInv' /\ [Ledger!Next]_<<[n \in Notes |-> Outstanding(n)], posted>>
  <1>1. LedgerInv'
    BY LedgerNext DEF MCNext, MCVars
  <1>2. ASSUME NEW r \in Requests, Start(r) \/ Continue(r) \/ Crash(r), MCNext
        PROVE  SerialInv' /\ [Ledger!Next]_<<[n \in Notes |-> Outstanding(n)], posted>>
    <2>1. \A q \in Requests : q # r => Rests(q)
      BY <1>2, ServedAlone DEF SerialInv, MCNext
    <2>2. InFlight \subseteq {r}
      BY <2>1 DEF InFlight, Rests
    <2> QED BY <1>1, <1>2, <2>2, StepImplements
  <1>3. ASSUME NEW p \in Payments, ClientPays(p)
        PROVE  UNCHANGED <<settled, posted, pay, req>>
    BY <1>3 DEF ClientPays
  <1>4. CASE UNCHANGED MCVars
    BY <1>1, <1>4, StutterImplements DEF MCVars, vars
  <1> QED BY <1>1, <1>2, <1>3, <1>4, StutterImplements DEF MCNext, Next

\* Under any load: where requests are served one at a time, every behaviour of the
\* API is one of the abstract receivable (recordReceipt, settle); where they are
\* not, nothing is claimed.
THEOREM SerialLoadsImplementReceivable == MCSpec => SerialImplementsReceivable
  <1> DEFINE I == LedgerInv /\ (Serial => SerialInv)
             o == [n \in Notes |-> IF Serial THEN Outstanding(n) ELSE Gross[n]]
             c == [n \in Notes |-> IF Serial THEN posted[n] ELSE 0]
  <1>1. ASSUME I, Serial PROVE o = [n \in Notes |-> Outstanding(n)] /\ c = posted
    BY <1>1 DEF LedgerInv, LedgerTypes
  <1>2. MCInit => I /\ SerialAbstract!Init
    <2> SUFFICES ASSUME MCInit PROVE I /\ SerialAbstract!Init
      OBVIOUS
    <2>1. LedgerInv /\ SerialInv /\ Ledger!Init
      BY SerialInit, LedgerInit DEF MCInit
    <2>2. CASE Serial
      BY <2>1, <2>2, <1>1 DEF SerialAbstract!Init, Ledger!Init
    <2>3. CASE ~ Serial
      <3>1. o = Gross
        BY <2>3, <2>1 DEF LedgerInv, LedgerTypes
      <3> QED BY <2>1, <2>3, <3>1 DEF SerialAbstract!Init
    <2> QED BY <2>2, <2>3
  <1>3. I /\ [MCNext]_MCVars => I' /\ [SerialAbstract!Next]_<<o, c>>
    <2> SUFFICES ASSUME I, [MCNext]_MCVars PROVE I' /\ [SerialAbstract!Next]_<<o, c>>
      OBVIOUS
    <2>1. LedgerInv' /\ (Serial' <=> Serial)
      BY LedgerNext DEF MCNext, MCVars, Serial
    <2>2. CASE Serial
      <3>1. SerialInv' /\ [Ledger!Next]_<<[n \in Notes |-> Outstanding(n)], posted>>
        BY <2>2, LoadImplements
      <3>2. /\ o = [n \in Notes |-> Outstanding(n)] /\ c = posted
            /\ o' = [n \in Notes |-> Outstanding(n)]' /\ c' = posted'
        BY <2>1, <2>2 DEF LedgerInv, LedgerTypes
      <3>3. ASSUME NEW n \in Notes, Ledger!Collect(n) PROVE SerialAbstract!Collect(n)
        <4> HIDE DEF o, c
        <4>1. PICK a \in 1..o[n] : o' = [o EXCEPT ![n] = @ - a] /\ c' = [c EXCEPT ![n] = @ + a]
          BY <3>2, <3>3 DEF Ledger!Collect
        <4> USE DEF o, c
        <4> QED BY <4>1 DEF SerialAbstract!Collect
      <3>4. Ledger!Next => SerialAbstract!Next
        BY <3>3 DEF Ledger!Next, SerialAbstract!Next
      <3> QED BY <2>1, <3>1, <3>2, <3>4
    <2>3. CASE ~ Serial
      BY <2>1, <2>3
    <2> QED BY <2>2, <2>3
  <1> QED BY <1>2, <1>3, PTL DEF MCSpec, SerialImplementsReceivable, SerialAbstract!Spec

-----------------------------------------------------------------------------
(* The rows of all plans, however requests interleave                       *)

SameRow(x, y) == x.batch = y.batch /\ x.seq = y.seq /\ x.due = y.due /\ x.amount = y.amount

Somewhere(x) == (\E n \in Notes : x \in plan[n]) \/ (\E r \in Requests : x \in todo[r])

\* No row of the batch a request is going to insert is in a plan, or in the hands
\* of another request.
Unseen(r) ==
    /\ \A n \in Notes : \A x \in plan[n] : x.batch # r
    /\ \A q \in Requests : q # r => \A x \in todo[q] : x.batch # r

PlanSteps == {"locked", "insert", "spread", "write", "replace", "deleted"}

TodoOK(r) ==
    /\ RowsOK(todo[r])
    /\ At(r, "idle") => todo[r] = {}
    /\ At(r, "write") => todo[r] # {}
    /\ req[r].step \in {"insert", "replace"} => \A x \in todo[r] : x.batch = r
    /\ req[r].step \in {"idle", "insert", "replace", "deleted"} => Unseen(r)
    /\ req[r].step \in PlanSteps => req[r].note \in Notes

\* A row keeps its key, its due date and its amount wherever it is copied to.
PlanInv ==
    /\ plan \in [Notes -> SUBSET Row] /\ todo \in [Requests -> SUBSET Row]
    /\ \A n \in Notes : RowsOK(plan[n])
    /\ \A r \in Requests : TodoOK(r)
    /\ \A x, y \in Row : Somewhere(x) /\ Somewhere(y) /\ Key(x) = Key(y) => SameRow(x, y)

\* Rows that a step of a request writes or reads are those of plans, or its own.
LEMMA RowsMove ==
    ASSUME PlanInv, LedgerInv, NEW r \in Requests, NEW local, req' = [req EXCEPT ![r] = local],
           NEW T, todo' = [todo EXCEPT ![r] = T], RowsOK(T),
           plan' \in [Notes -> SUBSET Row], \A n \in Notes : RowsOK(plan'[n]),
           \A n \in Notes : \A x \in plan'[n] :
               \E y \in Row : SameRow(x, y) /\ ((\E m \in Notes : y \in plan[m]) \/ y \in todo[r]),
           \A x \in T :
               \E y \in Row : SameRow(x, y) /\ ((\E m \in Notes : y \in plan[m]) \/ y \in todo[r]),
           local.step \notin {"idle", "insert", "replace"},
           local.step = "write" => T # {},
           local.step = "deleted" => At(r, "replace") /\ UNCHANGED plan,
           local.step \in PlanSteps => local.note \in Notes
    PROVE  PlanInv'
<1>1. /\ req'[r] = local /\ todo'[r] = T
      /\ \A q \in Requests : q # r => req'[q] = req[q] /\ todo'[q] = todo[q]
  BY DEF LedgerInv, LedgerTypes, PlanInv
<1>2. todo' \in [Requests -> SUBSET Row]
  BY DEF PlanInv, RowsOK
<1>3. \A x \in Row : Somewhere(x)' => \E y \in Row : SameRow(x, y) /\ Somewhere(y)
  <2> SUFFICES ASSUME NEW x \in Row, Somewhere(x)'
               PROVE  \E y \in Row : SameRow(x, y) /\ Somewhere(y)
    OBVIOUS
  <2>1. CASE \E n \in Notes : x \in plan'[n]
    BY <2>1 DEF Somewhere
  <2>2. CASE x \in T
    BY <2>2 DEF Somewhere
  <2>3. CASE \E q \in Requests : q # r /\ x \in todo[q]
    BY <2>3 DEF Somewhere, SameRow
  <2> QED BY <1>1, <2>1, <2>2, <2>3 DEF Somewhere
<1>4. ASSUME NEW x \in Row, NEW y \in Row, Somewhere(x)', Somewhere(y)', Key(x) = Key(y)
      PROVE  SameRow(x, y)
  <2>1. PICK u \in Row : SameRow(x, u) /\ Somewhere(u)
    BY <1>3, <1>4
  <2>2. PICK w \in Row : SameRow(y, w) /\ Somewhere(w)
    BY <1>3, <1>4
  <2>3. Key(u) = Key(w)
    BY <1>4, <2>1, <2>2 DEF Key, SameRow
  <2>4. SameRow(u, w)
    BY <2>1, <2>2, <2>3 DEF PlanInv
  <2> QED BY <2>1, <2>2, <2>4 DEF SameRow
<1>5. ASSUME NEW q \in Requests, q # r PROVE TodoOK(q)'
  <2>1. TodoOK(q) /\ req'[q] = req[q] /\ todo'[q] = todo[q]
    BY <1>1, <1>5 DEF PlanInv
  <2>2. Unseen(q) => Unseen(q)'
    <3> SUFFICES ASSUME Unseen(q) PROVE Unseen(q)'
      OBVIOUS
    <3>1. \A y \in Row : (\E m \in Notes : y \in plan[m]) \/ y \in todo[r] => y.batch # q
      BY <1>5 DEF Unseen
    <3>2. \A n \in Notes : \A x \in plan'[n] : x.batch # q
      BY <3>1 DEF SameRow
    <3>3. \A x \in T : x.batch # q
      BY <3>1 DEF SameRow
    <3> QED BY <1>1, <3>2, <3>3 DEF Unseen
  <2> QED BY <2>1, <2>2 DEF TodoOK, At
<1>6. TodoOK(r)'
  <2>1. local.step = "deleted" => Unseen(r)'
    BY <1>1 DEF PlanInv, TodoOK, Unseen, At
  <2> QED BY <1>1, <2>1 DEF TodoOK, At
<1> QED BY <1>2, <1>4, <1>5, <1>6 DEF PlanInv

\* Steps that leave plans and the rows in hand alone, or drop the latter.
LEMMA RowsRest ==
    ASSUME PlanInv, LedgerInv, NEW r \in Requests, NEW local, req' = [req EXCEPT ![r] = local],
           UNCHANGED plan, UNCHANGED todo \/ todo' = [todo EXCEPT ![r] = {}],
           local.step \notin {"idle", "insert", "write", "replace", "deleted"},
           local.step \in PlanSteps => local.note \in Notes
    PROVE  PlanInv'
<1> DEFINE T == todo'[r]
<1>1. todo' = [todo EXCEPT ![r] = T] /\ T \in SUBSET todo[r]
  BY DEF PlanInv
<1>2. RowsOK(T)
  BY <1>1, PartIsOK DEF PlanInv, TodoOK
<1>3. \A n \in Notes : RowsOK(plan'[n]) /\ plan'[n] = plan[n] /\ plan[n] \in SUBSET Row
  BY DEF PlanInv
<1>4. todo[r] \in SUBSET Row
  BY DEF PlanInv
<1> HIDE DEF T
<1>5. /\ \A n \in Notes : \A x \in plan'[n] :
             \E y \in Row : SameRow(x, y) /\ ((\E m \in Notes : y \in plan[m]) \/ y \in todo[r])
      /\ \A x \in T :
             \E y \in Row : SameRow(x, y) /\ ((\E m \in Notes : y \in plan[m]) \/ y \in todo[r])
  BY <1>1, <1>3, <1>4 DEF SameRow
<1>6. plan' \in [Notes -> SUBSET Row]
  BY DEF PlanInv
<1> QED BY <1>1, <1>2, <1>3, <1>5, <1>6, RowsMove

\* Overwriting rows leaves them well-formed.
LEMMA OverwriteIsOK ==
    ASSUME NEW A, NEW B, RowsOK(A), RowsOK(B)
    PROVE  RowsOK(Overwrite(A, B)) /\ Overwrite(A, B) \in SUBSET (A \union B)
<1>1. Overwrite(A, B) \in SUBSET (A \union B)
  BY DEF Overwrite, Without
<1>2. IsFiniteSet(A \union B)
  BY FS_Union DEF RowsOK
<1>3. IsFiniteSet(Overwrite(A, B))
  BY <1>1, <1>2, FS_Subset
<1>4. \A x, y \in Overwrite(A, B) : Key(x) = Key(y) => x = y
  BY DEF RowsOK, Overwrite, Without, Keys
<1> QED BY <1>1, <1>3, <1>4 DEF RowsOK

\* Rows of different batches may be put together.
LEMMA UnionIsOK ==
    ASSUME NEW A, NEW B, RowsOK(A), RowsOK(B), \A x \in A, y \in B : x.batch # y.batch
    PROVE  RowsOK(A \union B)
<1>1. IsFiniteSet(A \union B)
  BY FS_Union DEF RowsOK
<1>2. \A x, y \in A \union B : Key(x) = Key(y) => x = y
  BY DEF RowsOK, Key
<1> QED BY <1>1, <1>2 DEF RowsOK

\* Writing one row's settledAmount is overwriting it.
LEMMA WriteIsOverwrite ==
    ASSUME NEW A, RowsOK(A), NEW row \in Row, Key(row) \in Keys(A),
           \A x \in A : Key(x) = Key(row) => SameRow(x, row)
    PROVE  {IF Key(x) = Key(row) THEN [x EXCEPT !.settled = row.settled] ELSE x : x \in A}
               = Overwrite(A, {row})
<1>1. \A x \in A : Key(x) = Key(row) => [x EXCEPT !.settled = row.settled] = row
  BY DEF RowsOK, Row, SameRow
<1> DEFINE W(x) == IF Key(x) = Key(row) THEN [x EXCEPT !.settled = row.settled] ELSE x
<1>2. \A x \in A : W(x) = IF Key(x) = Key(row) THEN row ELSE x
  BY <1>1
<1>3. Keys({row}) = {Key(row)} /\ \E x \in A : Key(x) = Key(row)
  BY DEF Keys
<1> HIDE DEF W
<1>4. {W(x) : x \in A} = Without(A, Keys({row})) \union {row}
  BY <1>2, <1>3 DEF Without
<1> QED BY <1>4 DEF Overwrite, W

\* What the waterfall writes are versions of the rows it has read.
LEMMA WaterfallSources ==
    ASSUME NEW rows, RowsOK(rows), NEW money \in Nat
    PROVE  /\ \A z \in Waterfall(rows, money) : z.settled > 0 /\ \E x \in rows : SameRow(z, x)
           /\ \A z \in Poured(rows, money) : \E x \in rows : SameRow(z, x)
<1>1. \A x \in rows : SameRow(Raise(rows, x, money), x)
  BY RaisedRow DEF SameRow
<1>2. \A x \in rows : Share(rows, x, money) > 0 => Raise(rows, x, money).settled > 0
  <2> SUFFICES ASSUME NEW x \in rows, Share(rows, x, money) > 0
               PROVE  Raise(rows, x, money).settled > 0
    OBVIOUS
  <2>1. x.settled \in Nat /\ Share(rows, x, money) \in Nat
    BY ShareFits DEF RowsOK, Row
  <2>2. Raise(rows, x, money).settled = x.settled + Share(rows, x, money)
    BY RaisedRow
  <2> QED BY <2>1, <2>2
<1> QED BY <1>1, <1>2, WaterfallRows DEF Poured

\* Steps that write the rows of one plan, from those it has and those in hand.
LEMMA PlanWritten ==
    ASSUME PlanInv, LedgerInv, NEW r \in Requests, NEW local, req' = [req EXCEPT ![r] = local],
           NEW n \in Notes, NEW R, RowsOK(R), plan' = [plan EXCEPT ![n] = R],
           \A x \in R : \E y \in plan[n] \union todo[r] : SameRow(x, y),
           NEW T \in SUBSET todo[r], todo' = [todo EXCEPT ![r] = T],
           local.step \notin {"idle", "insert", "replace", "deleted"},
           local.step = "write" => T # {},
           local.step \in PlanSteps => local.note \in Notes
    PROVE  PlanInv'
<1>1. RowsOK(T)
  BY PartIsOK DEF PlanInv, TodoOK
<1>2. /\ todo[r] \in SUBSET Row
      /\ \A m \in Notes : plan[m] \in SUBSET Row /\ plan'[m] = IF m = n THEN R ELSE plan[m]
  BY DEF PlanInv
<1>3. plan' \in [Notes -> SUBSET Row] /\ \A m \in Notes : RowsOK(plan'[m])
  BY DEF PlanInv, RowsOK
<1>4. ASSUME NEW m \in Notes, NEW x \in plan'[m]
      PROVE  \E y \in Row : SameRow(x, y) /\ ((\E k \in Notes : y \in plan[k]) \/ y \in todo[r])
  <2>1. CASE m = n
    <3>1. PICK y \in plan[n] \union todo[r] : SameRow(x, y)
      BY <1>2, <1>4, <2>1
    <3> QED BY <1>2, <3>1
  <2>2. CASE m # n
    <3>1. x \in plan[m] /\ x \in Row /\ SameRow(x, x)
      BY <1>2, <1>4, <2>2 DEF SameRow
    <3> QED BY <3>1
  <2> QED BY <2>1, <2>2
<1>5. ASSUME NEW x \in T
      PROVE  \E y \in Row : SameRow(x, y) /\ ((\E k \in Notes : y \in plan[k]) \/ y \in todo[r])
  <2>1. x \in Row /\ SameRow(x, x) /\ x \in todo[r]
    BY <1>2 DEF SameRow
  <2> QED BY <2>1
<1> QED BY <1>1, <1>3, <1>4, <1>5, RowsMove

\* A request for a plan takes rows in hand whose batch is not seen yet.
LEMMA PlanAskedKeepsRows ==
    ASSUME PlanInv, LedgerInv, NEW r \in Requests, NEW n \in Notes, NEW dto \in Dtos,
           GenerateInstallments(r, n, dto) \/ ReplaceInstallments(r, n, dto)
    PROVE  PlanInv'
<1> DEFINE N == NewRows(r, n, dto)
<1>1. PICK step \in {"insert", "replace"} :
          /\ req' = [req EXCEPT ![r] = Local(step, n, None, 0, settled[n])]
          /\ todo' = [todo EXCEPT ![r] = N]
          /\ UNCHANGED plan /\ At(r, "idle") /\ Accepts(Gross[n], dto)
  BY DEF GenerateInstallments, ReplaceInstallments, ReadForPlan, Begin, CanStart, Take, At
<1>2. RowsOK(N) /\ \A x \in N : x.batch = r
  BY <1>1, NewRowsFit DEF NewFor, PlanFor
<1> HIDE DEF N
<1>3. todo[r] = {} /\ Unseen(r)
  BY <1>1 DEF PlanInv, TodoOK, At
<1>4. /\ req'[r].step = step /\ req'[r].note = n /\ todo'[r] = N
      /\ \A q \in Requests : q # r => req'[q] = req[q] /\ todo'[q] = todo[q]
      /\ todo' \in [Requests -> SUBSET Row]
  BY <1>1, <1>2 DEF LedgerInv, LedgerTypes, PlanInv, RowsOK, Local
<1>5. ASSUME NEW x \in Row, NEW y \in Row, Somewhere(x)', Somewhere(y)', Key(x) = Key(y)
      PROVE  SameRow(x, y)
  <2>1. x.batch = y.batch
    BY <1>5 DEF Key
  <2>2. \A z \in {x, y} : z \in N \/ (Somewhere(z) /\ z.batch # r)
    BY <1>1, <1>3, <1>4, <1>5 DEF Somewhere, Unseen
  <2>3. CASE x \in N
    <3>1. y \in N
      BY <1>2, <2>1, <2>2, <2>3
    <3> QED BY <1>2, <1>5, <2>3, <3>1 DEF RowsOK, SameRow
  <2>4. CASE x \notin N
    <3>1. y \notin N
      BY <1>2, <2>1, <2>2, <2>4
    <3> QED BY <1>5, <2>2, <2>4, <3>1 DEF PlanInv
  <2> QED BY <2>3, <2>4
<1>6. ASSUME NEW q \in Requests PROVE TodoOK(q)'
  <2>1. CASE q = r
    <3>1. Unseen(r)'
      BY <1>1, <1>3, <1>4 DEF Unseen
    <3> QED BY <1>2, <1>4, <2>1, <3>1 DEF TodoOK, At
  <2>2. CASE q # r
    <3>1. Unseen(q) => Unseen(q)'
      BY <1>1, <1>2, <1>4, <2>2 DEF Unseen
    <3> QED BY <1>4, <2>2, <3>1 DEF TodoOK, At, PlanInv
  <2> QED BY <2>1, <2>2
<1> QED BY <1>1, <1>4, <1>5, <1>6 DEF PlanInv

\* Any request that starts.
LEMMA StartKeepsRows ==
    ASSUME PlanInv, LedgerInv, NEW r \in Requests, Start(r)
    PROVE  PlanInv'
<1>1. CASE \E n \in Notes, dto \in Dtos :
               GenerateInstallments(r, n, dto) \/ ReplaceInstallments(r, n, dto)
  BY <1>1, PlanAskedKeepsRows
<1>2. CASE ~ \E n \in Notes, dto \in Dtos :
                 GenerateInstallments(r, n, dto) \/ ReplaceInstallments(r, n, dto)
  <2>1. PICK local : /\ req' = [req EXCEPT ![r] = local]
                     /\ local.step \in {"receipt", "charge", "retrieve", "settle"}
                     /\ UNCHANGED <<plan, todo>>
    BY <1>2 DEF Start, RecordReceipt, CreateCharge, Confirm, Webhook, Begin, ReadNote, Local
  <2> QED BY <2>1, RowsRest DEF PlanSteps
<1> QED BY <1>1, <1>2

\* Steps that move a request on within its local variables.
LEMMA MovedLocal ==
    ASSUME LedgerInv, NEW r \in Requests, NEW step, Goto(r, step)
    PROVE  \E local : /\ req' = [req EXCEPT ![r] = local]
                      /\ local.step = step /\ local.note = req[r].note
                      /\ local.already = req[r].already /\ local.amount = req[r].amount
                      /\ local.pay = req[r].pay
<1> DEFINE local == [req[r] EXCEPT !.step = step]
<1>1. req' = [req EXCEPT ![r] = local]
  BY DEF Goto, LedgerInv, LedgerTypes
<1>2. /\ local.step = step /\ local.note = req[r].note /\ local.already = req[r].already
      /\ local.amount = req[r].amount /\ local.pay = req[r].pay
  BY DEF LedgerInv, LedgerTypes, Request
<1> HIDE DEF local
<1> QED BY <1>1, <1>2

\* A request that is over drops the rows it has in hand.
LEMMA FinishKeepsRows ==
    ASSUME PlanInv, LedgerInv, NEW r \in Requests, Finish(r), UNCHANGED plan
    PROVE  PlanInv'
<1>1. Over.step = "done"
  BY DEF Over, Local
<1> QED BY <1>1, RowsRest DEF Finish, Take, PlanSteps

\* A receipt takes in hand versions of the rows of its note.
LEMMA LockNoteKeepsRows ==
    ASSUME PlanInv, LedgerInv, NEW r \in Requests, LockNote(r)
    PROVE  PlanInv'
<1> DEFINE n == req[r].note
           T == Waterfall(plan[n], req[r].amount)
<1>1. PICK local : req' = [req EXCEPT ![r] = local] /\ local.step = "locked" /\ local.note = n
  BY MovedLocal DEF LockNote
<1>2. n \in Notes /\ req[r].amount \in Nat /\ plan' = plan /\ todo' = [todo EXCEPT ![r] = T]
  BY DEF LockNote, At, LedgerInv, RequestsOK, ReadIsSafe, LedgerTypes, Request, Take
<1>3. RowsOK(plan[n]) /\ \A m \in Notes : RowsOK(plan[m]) /\ plan[m] \in SUBSET Row
  BY <1>2 DEF PlanInv
<1>4. RowsOK(T) /\ \A z \in T : \E x \in plan[n] : SameRow(z, x)
  BY <1>2, <1>3, PouredIsOK, WaterfallSources
<1> HIDE DEF T, n
<1>5. /\ \A m \in Notes : \A x \in plan'[m] :
             \E y \in Row : SameRow(x, y) /\ ((\E k \in Notes : y \in plan[k]) \/ y \in todo[r])
      /\ \A x \in T :
             \E y \in Row : SameRow(x, y) /\ ((\E k \in Notes : y \in plan[k]) \/ y \in todo[r])
  BY <1>2, <1>3, <1>4 DEF SameRow
<1>6. plan' \in [Notes -> SUBSET Row] /\ \A m \in Notes : RowsOK(plan'[m])
  BY <1>2, <1>3 DEF PlanInv
<1> QED BY <1>1, <1>2, <1>4, <1>5, <1>6, RowsMove

\* A receipt overwrites rows, also those another request has written since.
LEMMA CommitReceiptKeepsRows ==
    ASSUME PlanInv, LedgerInv, NEW r \in Requests, CommitReceipt(r)
    PROVE  PlanInv'
<1> DEFINE n == req[r].note
           R == Overwrite(plan[n], todo[r])
<1>1. CASE ~ Keys(todo[r]) \subseteq Keys(plan[n])
  BY <1>1, FinishKeepsRows DEF CommitReceipt
<1>2. CASE Keys(todo[r]) \subseteq Keys(plan[n])
  <2>1. n \in Notes /\ RowsOK(plan[n]) /\ RowsOK(todo[r])
    BY DEF CommitReceipt, At, LedgerInv, RequestsOK, ReadIsSafe, PlanInv, TodoOK
  <2>2. RowsOK(R) /\ R \in SUBSET (plan[n] \union todo[r])
    BY <2>1, OverwriteIsOK
  <2>3. plan' = [plan EXCEPT ![n] = R] /\ todo' = [todo EXCEPT ![r] = {}]
    BY <1>2 DEF CommitReceipt, Finish, Take
  <2>4. PICK local : req' = [req EXCEPT ![r] = local] /\ local.step \in {"done", "mark"}
    <3>1. CASE req[r].pay = None
      <4>1. req' = [req EXCEPT ![r] = Over] /\ Over.step = "done"
        BY <1>2, <3>1 DEF CommitReceipt, Finish, Over, Local
      <4> QED BY <4>1
    <3>2. CASE req[r].pay # None
      <4>1. Goto(r, "mark")
        BY <1>2, <3>2 DEF CommitReceipt
      <4> QED BY <4>1, MovedLocal
    <3> QED BY <3>1, <3>2
  <2> HIDE DEF R, n
  <2>5. \A x \in R : \E y \in plan[n] \union todo[r] : SameRow(x, y)
    BY <2>2 DEF SameRow
  <2> QED BY <2>1, <2>2, <2>3, <2>4, <2>5, PlanWritten DEF PlanSteps
<1> QED BY <1>1, <1>2

\* A new plan's rows join what other plans for the note have put there.
LEMMA InsertRowsKeepsRows ==
    ASSUME PlanInv, LedgerInv, NEW r \in Requests, InsertRows(r)
    PROVE  PlanInv'
<1> DEFINE n == req[r].note
           R == plan[n] \union todo[r]
<1>1. /\ n \in Notes /\ RowsOK(plan[n]) /\ RowsOK(todo[r])
      /\ Unseen(r) /\ \A x \in todo[r] : x.batch = r
  BY DEF InsertRows, At, PlanInv, TodoOK, PlanSteps
<1>2. RowsOK(R)
  <2>1. \A x \in plan[n], y \in todo[r] : x.batch # y.batch
    BY <1>1 DEF Unseen
  <2> QED BY <1>1, <2>1, UnionIsOK
<1>3. plan' = [plan EXCEPT ![n] = R] /\ todo' = [todo EXCEPT ![r] = {}]
  BY DEF InsertRows, Finish, Take
<1>4. PICK local : /\ req' = [req EXCEPT ![r] = local] /\ local.step \in {"done", "spread"}
                   /\ local.step = "spread" => local.note = n
  <2>1. CASE req[r].already > 0
    <3>1. Goto(r, "spread")
      BY <2>1 DEF InsertRows
    <3> QED BY <3>1, MovedLocal
  <2>2. CASE ~ req[r].already > 0
    <3>1. req' = [req EXCEPT ![r] = Over] /\ Over.step = "done"
      BY <2>2 DEF InsertRows, Finish, Over, Local
    <3> QED BY <3>1
  <2> QED BY <2>1, <2>2
<1>5. \A x \in R : \E y \in plan[n] \union todo[r] : SameRow(x, y)
  BY DEF SameRow
<1> HIDE DEF R, n
<1> QED BY <1>1, <1>2, <1>3, <1>4, <1>5, PlanWritten DEF PlanSteps

\* generateInstallments reads back whatever rows there are.
LEMMA ReadRowsKeepsRows ==
    ASSUME PlanInv, LedgerInv, NEW r \in Requests, ReadRows(r)
    PROVE  PlanInv'
<1> DEFINE n == req[r].note
           T == Waterfall(plan[n], req[r].already)
<1>1. CASE T = {}
  BY <1>1, FinishKeepsRows DEF ReadRows
<1>2. CASE T # {}
  <2>1. PICK local : req' = [req EXCEPT ![r] = local] /\ local.step = "write" /\ local.note = n
    BY <1>2, MovedLocal DEF ReadRows
  <2>2. n \in Notes /\ req[r].already \in Nat /\ plan' = plan /\ todo' = [todo EXCEPT ![r] = T]
    BY <1>2 DEF ReadRows, At, PlanInv, TodoOK, PlanSteps, LedgerInv, LedgerTypes, Request, Take
  <2>3. RowsOK(plan[n]) /\ \A m \in Notes : RowsOK(plan[m]) /\ plan[m] \in SUBSET Row
    BY <2>2 DEF PlanInv
  <2>4. RowsOK(T) /\ \A z \in T : \E x \in plan[n] : SameRow(z, x)
    BY <2>2, <2>3, PouredIsOK, WaterfallSources
  <2> HIDE DEF T, n
  <2>5. /\ \A m \in Notes : \A x \in plan'[m] :
               \E y \in Row : SameRow(x, y) /\ ((\E k \in Notes : y \in plan[k]) \/ y \in todo[r])
        /\ \A x \in T :
               \E y \in Row : SameRow(x, y) /\ ((\E k \in Notes : y \in plan[k]) \/ y \in todo[r])
    BY <2>2, <2>3, <2>4 DEF SameRow
  <2>6. plan' \in [Notes -> SUBSET Row] /\ \A m \in Notes : RowsOK(plan'[m])
    BY <2>2, <2>3 DEF PlanInv
  <2> QED BY <1>2, <2>1, <2>2, <2>4, <2>5, <2>6, RowsMove
<1> QED BY <1>1, <1>2

\* What writing a row does: the row is the oldest in hand, and is overwritten.
LEMMA WrittenRow ==
    ASSUME PlanInv, LedgerInv, NEW r \in Requests, WriteRow(r)
    PROVE  /\ req[r].note \in Notes
           /\ \E row \in todo[r] :
                 /\ \A y \in todo[r] \ {row} : Older(row, y)
                 /\ \/ /\ Key(row) \in Keys(plan[req[r].note])
                       /\ plan' = [plan EXCEPT ![req[r].note] = Overwrite(@, {row})]
                       /\ \/ todo[r] = {row} /\ Finish(r)
                          \/ todo[r] # {row} /\ Take(r, todo[r] \ {row}) /\ UNCHANGED req
                    \/ /\ Key(row) \notin Keys(plan[req[r].note])
                       /\ Finish(r) /\ UNCHANGED plan
<1> DEFINE n == req[r].note
           row == CHOOSE x \in todo[r] : \A y \in todo[r] \ {x} : Older(x, y)
<1>1. n \in Notes /\ RowsOK(todo[r]) /\ todo[r] # {} /\ RowsOK(plan[n])
  BY DEF WriteRow, At, PlanInv, TodoOK, PlanSteps
<1>2. row \in todo[r] /\ \A y \in todo[r] \ {row} : Older(row, y)
  BY <1>1, OldestExists
<1> DEFINE W == {IF Key(x) = Key(row) THEN [x EXCEPT !.settled = row.settled] ELSE x : x \in plan[n]}
<1>3. CASE Key(row) \in Keys(plan[n])
  <2>1. W = Overwrite(plan[n], {row})
    <3> HIDE DEF row
    <3>1. \A x \in plan[n] : Key(x) = Key(row) => SameRow(x, row)
      BY <1>1, <1>2 DEF PlanInv, Somewhere, RowsOK
    <3>2. row \in Row
      BY <1>1, <1>2 DEF RowsOK
    <3> QED BY <1>1, <1>3, <3>1, <3>2, WriteIsOverwrite
  <2>2. /\ plan' = [plan EXCEPT ![n] = W]
        /\ IF todo[r] \ {row} = {} THEN Finish(r) ELSE Take(r, todo[r] \ {row}) /\ UNCHANGED req
    BY <1>3 DEF WriteRow
  <2> HIDE DEF W, row
  <2>3. plan' = [plan EXCEPT ![n] = Overwrite(@, {row})]
    BY <2>1, <2>2
  <2>4. todo[r] \ {row} = {} <=> todo[r] = {row}
    BY <1>2
  <2> QED BY <1>1, <1>2, <1>3, <2>2, <2>3, <2>4
<1>4. CASE Key(row) \notin Keys(plan[n])
  <2>1. Finish(r) /\ UNCHANGED plan
    BY <1>4 DEF WriteRow
  <2> HIDE DEF row
  <2> QED BY <1>1, <1>2, <1>4, <2>1
<1> QED BY <1>3, <1>4

\* The row written may have been settled further since, but not re-dated.
LEMMA WriteRowKeepsRows ==
    ASSUME PlanInv, LedgerInv, NEW r \in Requests, WriteRow(r)
    PROVE  PlanInv'
<1> DEFINE n == req[r].note
<1>1. PICK row \in todo[r] :
                 \/ /\ Key(row) \in Keys(plan[n])
                    /\ plan' = [plan EXCEPT ![n] = Overwrite(@, {row})]
                    /\ \/ todo[r] = {row} /\ Finish(r)
                       \/ todo[r] # {row} /\ Take(r, todo[r] \ {row}) /\ UNCHANGED req
                 \/ Finish(r) /\ UNCHANGED plan
  BY WrittenRow
<1>2. CASE Finish(r) /\ UNCHANGED plan
  BY <1>2, FinishKeepsRows
<1>3. CASE /\ plan' = [plan EXCEPT ![n] = Overwrite(@, {row})]
           /\ \/ todo[r] = {row} /\ Finish(r)
              \/ todo[r] # {row} /\ Take(r, todo[r] \ {row}) /\ UNCHANGED req
  <2> DEFINE R == Overwrite(plan[n], {row})
  <2>1. n \in Notes /\ RowsOK(plan[n]) /\ RowsOK(todo[r]) /\ At(r, "write")
    BY WrittenRow DEF WriteRow, PlanInv, TodoOK
  <2>2. RowsOK({row})
    BY <2>1, PartIsOK
  <2>3. RowsOK(R) /\ R \in SUBSET (plan[n] \union {row})
    <3> DEFINE A == plan[n]
               T == {row}
    <3>1. RowsOK(A) /\ RowsOK(T)
      BY <2>1, <2>2
    <3> HIDE DEF A, T
    <3>2. RowsOK(Overwrite(A, T)) /\ Overwrite(A, T) \in SUBSET (A \union T)
      BY <3>1, OverwriteIsOK
    <3> QED BY <3>2 DEF A, T
  <2>4. plan' = [plan EXCEPT ![n] = R]
    BY <1>3
  <2> HIDE DEF R
  <2>5. \A x \in R : \E y \in plan[n] \union todo[r] : SameRow(x, y)
    BY <2>3 DEF SameRow
  <2>6. CASE todo[r] = {row} /\ Finish(r)
    <3>1. req' = [req EXCEPT ![r] = Over] /\ Over.step = "done" /\ todo' = [todo EXCEPT ![r] = {}]
      BY <2>6 DEF Finish, Over, Local, Take
    <3> HIDE DEF n
    <3> QED BY <2>1, <2>3, <2>4, <2>5, <3>1, PlanWritten DEF PlanSteps
  <2>7. CASE todo[r] # {row} /\ Take(r, todo[r] \ {row}) /\ UNCHANGED req
    <3> DEFINE T == todo[r] \ {row}
    <3>1. req' = [req EXCEPT ![r] = req[r]] /\ todo' = [todo EXCEPT ![r] = T]
          /\ T \in SUBSET todo[r] /\ T # {}
      BY <2>7 DEF Take, LedgerInv, LedgerTypes
    <3>2. req[r].step = "write" /\ req[r].note = n
      BY <2>1 DEF At
    <3> HIDE DEF n, T
    <3> QED BY <2>1, <2>3, <2>4, <2>5, <3>1, <3>2, PlanWritten
  <2> QED BY <1>3, <2>6, <2>7
<1> QED BY <1>1, <1>2, <1>3

\* The rows a replacement deletes are in its hands, with the fresh ones.
LEMMA DeleteRowsKeepsRows ==
    ASSUME PlanInv, LedgerInv, NEW r \in Requests, DeleteRows(r)
    PROVE  PlanInv'
<1> DEFINE n == req[r].note
           T == todo[r] \union plan[n]
<1>1. /\ At(r, "replace") /\ n \in Notes /\ RowsOK(plan[n]) /\ RowsOK(todo[r])
      /\ Unseen(r) /\ \A x \in todo[r] : x.batch = r
  BY DEF DeleteRows, At, PlanInv, TodoOK, PlanSteps
<1>2. RowsOK(T)
  <2>1. \A x \in todo[r], y \in plan[n] : x.batch # y.batch
    BY <1>1 DEF Unseen
  <2> QED BY <1>1, <2>1, UnionIsOK
<1>3. plan' = plan /\ todo' = [todo EXCEPT ![r] = T]
  BY DEF DeleteRows, Take
<1>4. PICK local : req' = [req EXCEPT ![r] = local] /\ local.step = "deleted" /\ local.note = n
  BY MovedLocal DEF DeleteRows
<1>5. todo[r] \in SUBSET Row /\ \A m \in Notes : RowsOK(plan[m]) /\ plan[m] \in SUBSET Row
  BY DEF PlanInv
<1>6. /\ \A m \in Notes : \A x \in plan'[m] :
             \E y \in Row : SameRow(x, y) /\ ((\E k \in Notes : y \in plan[k]) \/ y \in todo[r])
      /\ \A x \in T :
             \E y \in Row : SameRow(x, y) /\ ((\E k \in Notes : y \in plan[k]) \/ y \in todo[r])
  BY <1>1, <1>3, <1>5 DEF SameRow
<1>7. plan' \in [Notes -> SUBSET Row] /\ \A m \in Notes : RowsOK(plan'[m])
  BY <1>3, <1>5 DEF PlanInv
<1> HIDE DEF T, n
<1> QED BY <1>1, <1>2, <1>3, <1>4, <1>6, <1>7, RowsMove

\* A replacement spreads over its own rows and those it has not seen.
LEMMA CommitReplaceKeepsRows ==
    ASSUME PlanInv, LedgerInv, NEW r \in Requests, CommitReplace(r)
    PROVE  PlanInv'
<1> DEFINE n == req[r].note
           fresh == {x \in todo[r] : x.batch = r}
           kept == Without(plan[n], Keys(todo[r] \ fresh))
           rows == kept \union fresh
           R == Overwrite(rows, Waterfall(rows, req[r].already))
<1>1. /\ n \in Notes /\ RowsOK(plan[n]) /\ RowsOK(todo[r]) /\ Unseen(r)
      /\ req[r].already \in Nat
  BY DEF CommitReplace, At, PlanInv, TodoOK, PlanSteps, LedgerInv, LedgerTypes, Request
<1>2. RowsOK(rows) /\ rows \in SUBSET (plan[n] \union todo[r])
  <2>1. kept \in SUBSET plan[n] /\ fresh \in SUBSET todo[r]
    BY DEF Without
  <2>2. RowsOK(kept) /\ RowsOK(fresh)
    BY <1>1, <2>1, PartIsOK
  <2>3. \A x \in kept, y \in fresh : x.batch # y.batch
    BY <1>1, <2>1 DEF Unseen
  <2> HIDE DEF kept, fresh
  <2> QED BY <2>1, <2>2, <2>3, UnionIsOK
<1>3. plan' = [plan EXCEPT ![n] = R] /\ Finish(r)
  BY DEF CommitReplace
<1> HIDE DEF rows
<1>4. R = Poured(rows, req[r].already) /\ RowsOK(R) /\ \A z \in R : \E x \in rows : SameRow(z, x)
  <2>1. R = Poured(rows, req[r].already)
    BY <1>1, <1>2, OverwriteIsPoured
  <2> HIDE DEF R
  <2> QED BY <1>1, <1>2, <2>1, PouredIsOK, WaterfallSources
<1>5. req' = [req EXCEPT ![r] = Over] /\ Over.step = "done" /\ todo' = [todo EXCEPT ![r] = {}]
  BY <1>3 DEF Finish, Over, Local, Take
<1> HIDE DEF R, n
<1>6. \A x \in R : \E y \in plan[n] \union todo[r] : SameRow(x, y)
  BY <1>2, <1>4
<1> QED BY <1>1, <1>3, <1>4, <1>5, <1>6, PlanWritten DEF PlanSteps

\* Every step of a request under way, or its death.
LEMMA ContinueKeepsRows ==
    ASSUME PlanInv, LedgerInv, NEW r \in Requests, Continue(r) \/ Crash(r)
    PROVE  PlanInv'
<1>1. CASE LockNote(r) \/ CommitReceipt(r) \/ InsertRows(r) \/ ReadRows(r) \/ WriteRow(r)
           \/ DeleteRows(r) \/ CommitReplace(r)
  BY <1>1, LockNoteKeepsRows, CommitReceiptKeepsRows, InsertRowsKeepsRows, ReadRowsKeepsRows,
     WriteRowKeepsRows, DeleteRowsKeepsRows, CommitReplaceKeepsRows
<1>2. CASE RegisterCharge(r) \/ WriteStatus(r) \/ MarkPaid(r) \/ Crash(r)
  BY <1>2, FinishKeepsRows DEF RegisterCharge, WriteStatus, MarkPaid, Crash
<1>3. CASE RetrieveCharge(r)
  <2>1. PICK step \in {"settle", "failed", "pending"} : Goto(r, step) /\ UNCHANGED <<plan, todo>>
    BY <1>3 DEF RetrieveCharge
  <2>2. PICK local : req' = [req EXCEPT ![r] = local] /\ local.step = step
    BY <2>1, MovedLocal
  <2> QED BY <2>1, <2>2, RowsRest DEF PlanSteps
<1>4. CASE Settle(r)
  <2>1. CASE MayReceive(pay[req[r].pay].note, pay[req[r].pay].amount)
    <3>1. PICK local : req' = [req EXCEPT ![r] = local] /\ local.step = "receipt"
                       /\ UNCHANGED <<plan, todo>>
      BY <1>4, <2>1 DEF Settle, ReadNote, Local
    <3> QED BY <3>1, RowsRest DEF PlanSteps
  <2>2. CASE ~ MayReceive(pay[req[r].pay].note, pay[req[r].pay].amount)
    BY <1>4, <2>2, FinishKeepsRows DEF Settle
  <2> QED BY <2>1, <2>2
<1> QED BY <1>1, <1>2, <1>3, <1>4 DEF Continue

\* There are no rows to begin with, ...
LEMMA RowsInit == Init => PlanInv
<1> SUFFICES ASSUME Init PROVE PlanInv
  OBVIOUS
<1>1. /\ \A n \in Notes : plan[n] = {}
      /\ \A r \in Requests : todo[r] = {}
      /\ plan \in [Notes -> SUBSET Row] /\ todo \in [Requests -> SUBSET Row]
      /\ \A r \in Requests : req[r].step = "idle"
  BY DEF Init, Idle, Local
<1>2. RowsOK({})
  BY FS_EmptySet DEF RowsOK
<1>3. \A r \in Requests : TodoOK(r)
  BY <1>1, <1>2 DEF TodoOK, Unseen, At, PlanSteps
<1>4. \A x \in Row : ~ Somewhere(x)
  BY <1>1 DEF Somewhere
<1> QED BY <1>1, <1>2, <1>3, <1>4 DEF PlanInv

\* ... and every step keeps them well-formed.
LEMMA RowsNext == PlanInv /\ LedgerInv /\ [Next]_vars => PlanInv'
<1> SUFFICES ASSUME PlanInv, LedgerInv, [Next]_vars PROVE PlanInv'
  OBVIOUS
<1>1. ASSUME NEW r \in Requests, Start(r) \/ Continue(r) \/ Crash(r) PROVE PlanInv'
  BY <1>1, StartKeepsRows, ContinueKeepsRows
<1>2. CASE UNCHANGED <<plan, todo, req>>
  BY <1>2 DEF PlanInv, TodoOK, Unseen, Somewhere, At, RowsOK
<1>3. ASSUME NEW p \in Payments, ClientPays(p) PROVE PlanInv'
  <2>1. UNCHANGED <<plan, todo, req>>
    BY <1>3 DEF ClientPays
  <2> QED BY <1>2, <2>1
<1> QED BY <1>1, <1>2, <1>3 DEF Next, vars

\* However receipts, plans and their replacements interleave, and whatever dies,
\* no installment is credited beyond its amount (RowsWithinAmount): a row keeps its
\* amount wherever it is copied to, and what is written to it was fit for it.
THEOREM RowsAlwaysWithinAmount == Spec => []RowsWithinAmount
<1> DEFINE I == LedgerInv /\ PlanInv
<1>1. Init => I
  BY LedgerInit, RowsInit
<1>2. I /\ [Next]_vars => I'
  BY LedgerNext, RowsNext
<1>3. I => RowsWithinAmount
  BY DEF PlanInv, RowsOK, Fits, RowsWithinAmount
<1> QED BY <1>1, <1>2, <1>3, PTL DEF Spec

-----------------------------------------------------------------------------
(* Plans written row by row, when requests are served one at a time          *)

\* Rows with the same keys and amounts add up to the same.
LEMMA SameAmounts ==
    ASSUME NEW A, NEW B, RowsOK(A), RowsOK(B), Keys(A) = Keys(B),
           \A x \in A, y \in B : Key(x) = Key(y) => x.amount = y.amount
    PROVE  Total(A) = Total(B) /\ Room(A) = Room(B)
<1> DEFINE F == [x \in A |-> CHOOSE y \in B : Key(y) = Key(x)]
           a == [x \in A |-> x.amount]
           b == [x \in B |-> x.amount]
           m == [x \in A |-> IF x.amount > 0 THEN x.amount ELSE 0]
           k == [x \in B |-> IF x.amount > 0 THEN x.amount ELSE 0]
<1>1. \A x \in A : F[x] \in B /\ Key(F[x]) = Key(x)
  BY DEF Keys
<1>2. \A x, y \in A : F[x] = F[y] => x = y
  <2> HIDE DEF F
  <2> QED BY <1>1 DEF RowsOK
<1>3. B = {F[x] : x \in A}
  <2> HIDE DEF F
  <2>1. ASSUME NEW y \in B PROVE y \in {F[x] : x \in A}
    <3>1. PICK x \in A : Key(x) = Key(y)
      BY DEF Keys
    <3>2. F[x] = y
      BY <1>1, <3>1 DEF RowsOK
    <3> QED BY <3>2
  <2> QED BY <1>1, <2>1
<1>4. /\ Total(A) = SumFunctionOnSet(a, A) /\ Total(B) = SumFunctionOnSet(b, B)
      /\ Room(A) = SumFunctionOnSet(m, A) /\ Room(B) = SumFunctionOnSet(k, B)
  BY TotalTypes
<1>5. /\ \A x \in A : a[x] \in Int /\ m[x] \in Int /\ a[x] = x.amount
                      /\ m[x] = IF x.amount > 0 THEN x.amount ELSE 0
      /\ \A x \in B : b[x] = x.amount /\ k[x] = IF x.amount > 0 THEN x.amount ELSE 0
  BY DEF RowsOK, Row
<1>6. IsFiniteSet(A)
  BY DEF RowsOK
<1> HIDE DEF F, a, b, m, k
<1>7. \A x \in A : b[F[x]] = a[x] /\ k[F[x]] = m[x] /\ b[F[x]] \in Int /\ k[F[x]] \in Int
  BY <1>1, <1>5
<1>8. /\ SumFunctionOnSet(b, B) = SumFunctionOnSet([x \in A |-> b[F[x]]], A)
      /\ SumFunctionOnSet(k, B) = SumFunctionOnSet([x \in A |-> k[F[x]]], A)
  BY <1>2, <1>3, <1>6, <1>7, SumOfImage
<1>9. /\ SumFunctionOnSet([x \in A |-> b[F[x]]], A) = SumFunctionOnSet(a, A)
      /\ SumFunctionOnSet([x \in A |-> k[F[x]]], A) = SumFunctionOnSet(m, A)
  <2> DEFINE f == [x \in A |-> b[F[x]]]
             h == [x \in A |-> k[F[x]]]
  <2>1. \A x \in A : a[x] \in Int /\ m[x] \in Int /\ f[x] = a[x] /\ h[x] = m[x]
    BY <1>5, <1>7
  <2> HIDE DEF f, h
  <2>2. SumFunctionOnSet(f, A) = SumFunctionOnSet(a, A) /\ SumFunctionOnSet(h, A) = SumFunctionOnSet(m, A)
    BY <1>6, <2>1, SumSame
  <2> QED BY <2>2 DEF f, h
<1> QED BY <1>4, <1>8, <1>9

\* Rows of T are versions of rows of A.
Versions(T, A) ==
    /\ RowsOK(A) /\ RowsOK(T) /\ Keys(T) \subseteq Keys(A)
    /\ \A x \in A, y \in T : Key(x) = Key(y) => SameRow(x, y)

\* Overwriting rows with versions of them changes no amount.
LEMMA OverwriteKeepsAmounts ==
    ASSUME NEW A, NEW T, Versions(T, A)
    PROVE  LET O == Overwrite(A, T)
           IN  /\ RowsOK(O) /\ Keys(O) = Keys(A)
               /\ \A x \in A, y \in O : Key(x) = Key(y) => SameRow(x, y)
               /\ Total(O) = Total(A) /\ Room(O) = Room(A)
<1> DEFINE O == Overwrite(A, T)
<1>1. RowsOK(A) /\ RowsOK(T) /\ RowsOK(O)
  BY OverwriteIsOK DEF Versions
<1>2. Keys(O) = Keys(A)
  BY DEF Versions, Overwrite, Without, Keys
<1>3. \A x \in A, y \in O : Key(x) = Key(y) => SameRow(x, y)
  <2>1. \A y \in O : y \in A \/ y \in T
    BY DEF Overwrite, Without
  <2>2. \A x, y \in A : Key(x) = Key(y) => SameRow(x, y)
    BY <1>1 DEF RowsOK, SameRow
  <2> QED BY <2>1, <2>2 DEF Versions
<1> HIDE DEF O
<1>4. Total(O) = Total(A) /\ Room(O) = Room(A)
  BY <1>1, <1>2, <1>3, SameAmounts DEF SameRow
<1> QED BY <1>1, <1>2, <1>3, <1>4 DEF O

\* Writing the oldest of the rows in hand, and then the others, writes them all;
\* in between, money has still reached the oldest rows only.
LEMMA OneRowAtATime ==
    ASSUME NEW A, NEW T, Versions(T, A), NEW row \in T,
           \A y \in T \ {row} : Older(row, y), \A y \in T : y.settled > 0,
           FromOldest(A), FromOldest(Overwrite(A, T))
    PROVE  LET B == Overwrite(A, {row})
           IN  /\ RowsOK(B) /\ Total(B) = Total(A) /\ Room(B) = Room(A)
               /\ FromOldest(B)
               /\ Overwrite(B, T \ {row}) = Overwrite(A, T)
               /\ Keys(T \ {row}) \subseteq Keys(B)
<1> DEFINE B == Overwrite(A, {row})
           W == Overwrite(A, T)
<1>1. RowsOK(A) /\ RowsOK(T) /\ RowsOK({row}) /\ Keys({row}) = {Key(row)} /\ Key(row) \in Keys(A)
  BY PartIsOK DEF Versions, Keys
<1>2. Versions({row}, A)
  BY <1>1 DEF Versions
<1>3. RowsOK(B) /\ Total(B) = Total(A) /\ Room(B) = Room(A) /\ Keys(B) = Keys(A)
  BY <1>2, OverwriteKeepsAmounts
<1>4. B = {x \in A : Key(x) # Key(row)} \union {row}
  BY <1>1 DEF Overwrite, Without
<1>5. Keys(T \ {row}) = Keys(T) \ {Key(row)}
  BY <1>1 DEF RowsOK, Keys
<1>6. Overwrite(B, T \ {row}) = W
  <2>1. W = {x \in A : Key(x) \notin Keys(T)} \union T
    BY DEF Overwrite, Without
  <2>2. Overwrite(B, T \ {row}) = {x \in B : Key(x) \notin Keys(T \ {row})} \union (T \ {row})
    BY DEF Overwrite, Without
  <2>3. Key(row) \in Keys(T)
    BY DEF Keys
  <2> HIDE DEF B, W
  <2> QED BY <1>4, <1>5, <2>1, <2>2, <2>3
<1>7. Keys(T \ {row}) \subseteq Keys(B)
  BY <1>3, <1>5 DEF Versions
<1>8. FromOldest(B)
  <2>1. \A x \in A : Key(x) \in Keys(T) => \E z \in T : Key(z) = Key(x) /\ SameRow(x, z)
    BY DEF Versions, Keys
  <2>2. \A x \in A : Key(x) \notin Keys(T) => x \in W
    BY DEF Overwrite, Without
  <2>3. T \subseteq W
    BY DEF Overwrite
  <2>4. ASSUME NEW x \in A, Key(x) # Key(row), Older(x, row) PROVE Open(x) = 0
    <3>1. CASE Key(x) \in Keys(T)
      <4>1. PICK z \in T : Key(z) = Key(x) /\ SameRow(x, z)
        BY <2>1, <3>1
      <4>2. z # row /\ Older(z, row)
        BY <2>4, <4>1 DEF SameRow, Older
      <4> QED BY <1>1, <4>2, AgesDiffer
    <3>2. CASE Key(x) \notin Keys(T)
      BY <2>2, <2>3, <2>4, <3>2 DEF FromOldest
    <3> QED BY <3>1, <3>2
  <2>5. ASSUME NEW y \in A, Key(y) # Key(row), Older(row, y), y.settled > 0 PROVE Open(row) = 0
    <3>1. CASE Key(y) \in Keys(T)
      <4>1. PICK z \in T : Key(z) = Key(y) /\ SameRow(y, z)
        BY <2>1, <3>1
      <4>2. Older(row, z)
        BY <2>5, <4>1 DEF SameRow, Older
      <4> QED BY <2>3, <4>2 DEF FromOldest
    <3>2. CASE Key(y) \notin Keys(T)
      BY <2>2, <2>3, <2>5, <3>2 DEF FromOldest
    <3> QED BY <3>1, <3>2
  <2>6. ~ Older(row, row)
    BY <1>1, AgesDiffer
  <2> SUFFICES ASSUME NEW x \in B, NEW y \in B, Older(x, y), y.settled > 0
               PROVE  Open(x) = 0
    BY DEF FromOldest
  <2>7. /\ x = row \/ (x \in A /\ Key(x) # Key(row))
        /\ y = row \/ (y \in A /\ Key(y) # Key(row))
    BY <1>4
  <2> HIDE DEF B, W
  <2> QED BY <2>4, <2>5, <2>6, <2>7 DEF FromOldest
<1> QED BY <1>3, <1>6, <1>7, <1>8

-----------------------------------------------------------------------------
(* Plans and notes agree when requests are served one at a time              *)

NoteSteps == {"receipt"} \union PlanSteps

\* What the request that is served has read, and is about to write, is right:
\* what the note had settled is what it has settled, a receipt's installments are
\* those its amount is poured over, the rows of a new plan show nothing yet, and
\* those still to be written make the plan show what the note has settled.
RightSoFar(r) ==
    LET n == req[r].note
        all == Overwrite(plan[n], todo[r])
        fresh == {x \in todo[r] : x.batch = r}
    IN
    /\ req[r].step \in NoteSteps => n \in Notes /\ req[r].already = settled[n]
    /\ At(r, "locked") => todo[r] = Waterfall(plan[n], req[r].amount)
    /\ At(r, "insert") => plan[n] = {} /\ NewFor(r, n, todo[r])
    /\ At(r, "spread") => NewFor(r, n, plan[n])
    /\ At(r, "write") => /\ Versions(todo[r], plan[n]) /\ \A x \in todo[r] : x.settled > 0
                         /\ FromOldest(all) /\ ShowsSettled(all, settled[n])
    /\ At(r, "replace") => NewFor(r, n, todo[r])
    /\ At(r, "deleted") => NewFor(r, n, fresh) /\ todo[r] \ fresh = plan[n]

PlanKept(n) == PlanFor(n, plan[n]) /\ FromOldest(plan[n])

\* The plan shows what its note has settled, or is being made to.
PlanShown(n) ==
    \/ ShowsSettled(plan[n], settled[n])
    \/ \E r \in Requests : req[r].step \in {"spread", "write"} /\ req[r].note = n

SerialPlans ==
    /\ Alone
    /\ \A n \in Notes : PlanKept(n)
    /\ \A r \in Requests : RightSoFar(r)
    /\ crashes = 0 => \A n \in Notes : PlanShown(n)

\* What one step of the request that is served has to show.
LEMMA PlansMove ==
    ASSUME LedgerInv, SerialPlans, NEW r \in Requests, \A q \in Requests : q # r => Rests(q), Alone',
           NEW local, req' = [req EXCEPT ![r] = local],
           \A n \in Notes : PlanKept(n)', RightSoFar(r)',
           crashes' = 0 => \A n \in Notes : \/ ShowsSettled(plan'[n], settled'[n])
                                            \/ local.step \in {"spread", "write"} /\ local.note = n
    PROVE  SerialPlans'
<1>1. req'[r] = local /\ \A q \in Requests : q # r => req'[q] = req[q]
  BY DEF LedgerInv, LedgerTypes
<1>2. ASSUME NEW q \in Requests, q # r PROVE RightSoFar(q)'
  <2>1. req'[q].step \in {"idle", "done"}
    BY <1>1, <1>2 DEF Rests
  <2> QED BY <2>1 DEF RightSoFar, At, NoteSteps, PlanSteps
<1>3. crashes' = 0 => \A n \in Notes : PlanShown(n)'
  BY <1>1 DEF PlanShown
<1> QED BY <1>2, <1>3 DEF SerialPlans

\* Steps that have nothing to do with plans.
LEMMA PlansRest ==
    ASSUME LedgerInv, SerialPlans, NEW r \in Requests, \A q \in Requests : q # r => Rests(q), Alone',
           NEW local, req' = [req EXCEPT ![r] = local], local.step \notin NoteSteps,
           UNCHANGED <<plan, settled>>,
           crashes' = 0 => crashes = 0 /\ req[r].step \notin {"spread", "write"}
    PROVE  SerialPlans'
<1>1. req'[r] = local
  BY DEF LedgerInv, LedgerTypes
<1>2. RightSoFar(r)'
  BY <1>1 DEF RightSoFar, At, NoteSteps, PlanSteps
<1>3. \A n \in Notes : PlanKept(n)'
  BY DEF SerialPlans, PlanKept
<1>4. ASSUME crashes' = 0, NEW n \in Notes PROVE ShowsSettled(plan'[n], settled'[n])
  <2>1. PlanShown(n) /\ req[r].step \notin {"spread", "write"}
    BY <1>4 DEF SerialPlans
  <2>2. \A q \in Requests : req[q].step \notin {"spread", "write"}
    BY <2>1 DEF Rests
  <2> QED BY <2>1, <2>2 DEF PlanShown
<1> QED BY <1>2, <1>3, <1>4, PlansMove

\* A request that is over, with nothing left to write.
LEMMA PlansFinish ==
    ASSUME LedgerInv, SerialPlans, NEW r \in Requests, \A q \in Requests : q # r => Rests(q), Alone',
           Finish(r), UNCHANGED <<plan, settled>>,
           crashes' = 0 => crashes = 0 /\ req[r].step \notin {"spread", "write"}
    PROVE  SerialPlans'
<1>1. req' = [req EXCEPT ![r] = Over] /\ Over.step = "done"
  BY DEF Finish, Over, Local
<1> QED BY <1>1, PlansRest DEF NoteSteps, PlanSteps

\* Steps that take the request on, with the plans and notes as they are.
LEMMA PlansGoOn ==
    ASSUME LedgerInv, SerialPlans, NEW r \in Requests, \A q \in Requests : q # r => Rests(q), Alone',
           NEW local, req' = [req EXCEPT ![r] = local],
           UNCHANGED <<plan, settled, crashes>>, RightSoFar(r)',
           req[r].step \notin {"spread", "write"}
    PROVE  SerialPlans'
<1>1. \A n \in Notes : PlanKept(n)'
  BY DEF SerialPlans, PlanKept
<1>2. ASSUME crashes' = 0, NEW n \in Notes PROVE ShowsSettled(plan'[n], settled'[n])
  <2>1. PlanShown(n)
    BY <1>2 DEF SerialPlans
  <2>2. \A q \in Requests : req[q].step \notin {"spread", "write"}
    BY DEF Rests
  <2> QED BY <2>1, <2>2 DEF PlanShown
<1> QED BY <1>1, <1>2, PlansMove

\* Steps that replace one note's plan, and end the request's work on it.
LEMMA PlansChange ==
    ASSUME LedgerInv, PlanInv, SerialPlans, NEW r \in Requests,
           \A q \in Requests : q # r => Rests(q), Alone',
           NEW local, req' = [req EXCEPT ![r] = local],
           NEW n \in Notes, req[r].step \in {"spread", "write"} => req[r].note = n,
           NEW R, plan' = [plan EXCEPT ![n] = R], PlanFor(n, R), FromOldest(R),
           \A m \in Notes \ {n} : settled'[m] = settled[m], UNCHANGED crashes,
           RightSoFar(r)',
           crashes = 0 => \/ ShowsSettled(R, settled'[n])
                          \/ local.step \in {"spread", "write"} /\ local.note = n
    PROVE  SerialPlans'
<1>1. \A m \in Notes : plan'[m] = IF m = n THEN R ELSE plan[m]
  BY DEF PlanInv
<1>2. \A m \in Notes : PlanKept(m)'
  BY <1>1 DEF SerialPlans, PlanKept
<1>3. ASSUME crashes' = 0, NEW m \in Notes
      PROVE  \/ ShowsSettled(plan'[m], settled'[m])
             \/ local.step \in {"spread", "write"} /\ local.note = m
  <2>1. CASE m = n
    BY <1>1, <1>3, <2>1
  <2>2. CASE m # n
    <3>1. PlanShown(m)
      BY <1>3 DEF SerialPlans
    <3>2. \A q \in Requests : ~ (req[q].step \in {"spread", "write"} /\ req[q].note = m)
      BY <2>2 DEF Rests
    <3> QED BY <1>1, <2>2, <3>1, <3>2 DEF PlanShown
  <2> QED BY <2>1, <2>2
<1> QED BY <1>2, <1>3, PlansMove

-----------------------------------------------------------------------------
\* A request that starts reads what is right when it reads it.
LEMMA StartKeepsPlans ==
    ASSUME LedgerInv, PlanInv, SerialPlans, NEW r \in Requests,
           \A q \in Requests : q # r => Rests(q), Alone', Start(r)
    PROVE  SerialPlans'
<1>1. At(r, "idle") /\ UNCHANGED <<plan, settled, crashes>>
  BY DEF Start, RecordReceipt, CreateCharge, Confirm, Webhook, GenerateInstallments,
         ReplaceInstallments, ReadForPlan, Begin, CanStart, At
<1>2. CASE \E n \in Notes, a \in Amounts : RecordReceipt(r, n, a)
  <2>1. PICK n \in Notes, a \in Amounts : req' = [req EXCEPT ![r] = ReadNote(n, a, None)]
    BY <1>2 DEF RecordReceipt, Begin
  <2> DEFINE local == ReadNote(n, a, None)
  <2>2. local.step = "receipt" /\ local.note = n /\ local.already = settled[n]
    BY DEF ReadNote, Local
  <2> HIDE DEF local
  <2>3. req' = [req EXCEPT ![r] = local] /\ req'[r] = local
    BY <2>1 DEF local, LedgerInv, LedgerTypes
  <2>4. RightSoFar(r)'
    BY <1>1, <2>2, <2>3 DEF RightSoFar, At
  <2> QED BY <1>1, <2>3, <2>4, PlansGoOn DEF At
<1>3. CASE \/ \E p \in Payments, n \in Notes, a \in Amounts : CreateCharge(r, p, n, a)
           \/ \E p \in Payments : Confirm(r, p) \/ Webhook(r, p)
  <2>1. PICK local : req' = [req EXCEPT ![r] = local] /\ local.step \in {"charge", "retrieve", "settle"}
    <3>1. PICK p \in Payments, step \in {"charge", "retrieve", "settle"} :
              req' = [req EXCEPT ![r] = Local(step, None, p, 0, 0)]
      BY <1>3 DEF CreateCharge, Confirm, Webhook, Begin
    <3>2. Local(step, None, p, 0, 0).step = step
      BY DEF Local
    <3> QED BY <3>1, <3>2
  <2> QED BY <1>1, <2>1, PlansRest DEF At, NoteSteps, PlanSteps
<1>4. ASSUME NEW n \in Notes, NEW dto \in Dtos,
             GenerateInstallments(r, n, dto) \/ ReplaceInstallments(r, n, dto)
      PROVE  SerialPlans'
  <2> DEFINE N == NewRows(r, n, dto)
  <2>1. PICK step \in {"insert", "replace"} :
            /\ req' = [req EXCEPT ![r] = Local(step, n, None, 0, settled[n])]
            /\ todo' = [todo EXCEPT ![r] = N]
            /\ Accepts(Gross[n], dto)
            /\ step = "insert" => plan[n] = {}
    BY <1>4 DEF GenerateInstallments, ReplaceInstallments, ReadForPlan, Begin, Take
  <2>2. NewFor(r, n, N)
    BY <2>1, NewRowsFit
  <2> DEFINE local == Local(step, n, None, 0, settled[n])
  <2>3. local.step = step /\ local.note = n /\ local.already = settled[n]
    BY DEF Local
  <2> HIDE DEF local, N
  <2>4. req' = [req EXCEPT ![r] = local] /\ req'[r] = local /\ todo'[r] = N
    BY <2>1 DEF local, LedgerInv, LedgerTypes, PlanInv
  <2>5. RightSoFar(r)'
    BY <1>1, <2>1, <2>2, <2>3, <2>4 DEF RightSoFar, At
  <2> QED BY <1>1, <2>4, <2>5, PlansGoOn DEF At
<1> QED BY <1>2, <1>3, <1>4 DEF Start

\* Nothing has changed since a receipt read its note.
LEMMA LockNoteKeepsPlans ==
    ASSUME LedgerInv, PlanInv, SerialPlans, NEW r \in Requests,
           \A q \in Requests : q # r => Rests(q), Alone', LockNote(r)
    PROVE  SerialPlans'
<1> DEFINE n == req[r].note
<1>1. PICK local : /\ req' = [req EXCEPT ![r] = local]
                   /\ local.step = "locked" /\ local.note = n
                   /\ local.already = req[r].already /\ local.amount = req[r].amount
  BY MovedLocal DEF LockNote
<1>2. /\ req'[r] = local /\ todo'[r] = Waterfall(plan[n], req[r].amount)
      /\ UNCHANGED <<plan, settled, crashes>> /\ req[r].step = "receipt"
  BY <1>1 DEF LockNote, Take, At, LedgerInv, LedgerTypes, PlanInv
<1>3. n \in Notes /\ req[r].already = settled[n]
  BY <1>2 DEF SerialPlans, RightSoFar, NoteSteps
<1>4. RightSoFar(r)'
  BY <1>1, <1>2, <1>3 DEF RightSoFar, At
<1> QED BY <1>1, <1>2, <1>4, PlansGoOn

\* A receipt pours its amount over the plan and settles it on the note.
LEMMA CommitReceiptKeepsPlans ==
    ASSUME LedgerInv, PlanInv, SerialPlans, NEW r \in Requests,
           \A q \in Requests : q # r => Rests(q), Alone', CommitReceipt(r)
    PROVE  SerialPlans'
<1> DEFINE n == req[r].note
           a == req[r].amount
           R == Overwrite(plan[n], todo[r])
<1>1. req[r].step = "locked" /\ UNCHANGED crashes
  BY DEF CommitReceipt, At
<1>2. /\ n \in Notes /\ a \in Nat /\ settled[n] \in Nat /\ req[r].already = settled[n]
      /\ settled[n] + a <= Gross[n] /\ todo[r] = Waterfall(plan[n], a)
      /\ PlanFor(n, plan[n]) /\ RowsOK(plan[n]) /\ FromOldest(plan[n])
  <2>1. RightSoFar(r) /\ ReadIsSafe(r) /\ req[r] \in Request
    BY DEF SerialPlans, LedgerInv, RequestsOK, LedgerTypes
  <2>2. n \in Notes /\ req[r].already = settled[n] /\ todo[r] = Waterfall(plan[n], a)
    BY <1>1, <2>1 DEF RightSoFar, NoteSteps, PlanSteps, At
  <2>3. a \in Nat /\ settled[n] + a <= Gross[n]
    BY <1>1, <2>1, <2>2 DEF ReadIsSafe, Request
  <2> HIDE DEF n, a
  <2>4. settled[n] \in Nat /\ PlanFor(n, plan[n]) /\ RowsOK(plan[n]) /\ FromOldest(plan[n])
    BY <2>2 DEF LedgerInv, LedgerTypes, SerialPlans, PlanKept, PlanFor
  <2> QED BY <2>2, <2>3, <2>4
<1>3. CASE ~ Keys(todo[r]) \subseteq Keys(plan[n])
  BY <1>1, <1>3, PlansFinish DEF CommitReceipt
<1>4. CASE Keys(todo[r]) \subseteq Keys(plan[n])
  <2>1. /\ settled' = [settled EXCEPT ![n] = req[r].already + a]
        /\ plan' = [plan EXCEPT ![n] = R]
    BY <1>4 DEF CommitReceipt
  <2>2. PICK local : req' = [req EXCEPT ![r] = local] /\ local.step \in {"done", "mark"}
    <3>1. CASE req[r].pay = None
      <4>1. req' = [req EXCEPT ![r] = Over] /\ Over.step = "done"
        BY <1>4, <3>1 DEF CommitReceipt, Finish, Over, Local
      <4> QED BY <4>1
    <3>2. CASE req[r].pay # None
      <4>1. Goto(r, "mark")
        BY <1>4, <3>2 DEF CommitReceipt
      <4> QED BY <4>1, MovedLocal
    <3> QED BY <3>1, <3>2
  <2>3. R = Poured(plan[n], a)
    BY <1>2, OverwriteIsPoured
  <2>4. settled'[n] = settled[n] + a /\ \A m \in Notes \ {n} : settled'[m] = settled[m]
    BY <1>2, <2>1 DEF LedgerInv, LedgerTypes
  <2> HIDE DEF R, n, a
  <2>5. PlanFor(n, R) /\ FromOldest(R)
    BY <1>2, <2>3, PouredPlan, PouredFromOldest
  <2>6. crashes = 0 => ShowsSettled(R, settled'[n])
    <3> SUFFICES ASSUME crashes = 0 PROVE ShowsSettled(R, settled'[n])
      OBVIOUS
    <3>1. PlanShown(n)
      BY <1>2 DEF SerialPlans
    <3>2. ShowsSettled(plan[n], settled[n])
      BY <1>1, <3>1 DEF PlanShown, Rests
    <3> QED BY <1>2, <2>3, <2>4, <3>2, PouredPlan
  <2>7. RightSoFar(r)'
    <3>1. req'[r] = local
      BY <2>2 DEF LedgerInv, LedgerTypes
    <3> QED BY <2>2, <3>1 DEF RightSoFar, At, NoteSteps, PlanSteps
  <2> QED BY <1>1, <1>2, <2>1, <2>2, <2>4, <2>5, <2>6, <2>7, PlansChange
<1> QED BY <1>3, <1>4

\* A new plan shows nothing, which is right unless the note has something settled.
LEMMA InsertRowsKeepsPlans ==
    ASSUME LedgerInv, PlanInv, SerialPlans, NEW r \in Requests,
           \A q \in Requests : q # r => Rests(q), Alone', InsertRows(r)
    PROVE  SerialPlans'
<1> DEFINE n == req[r].note
           R == plan[n] \union todo[r]
<1>1. req[r].step = "insert" /\ UNCHANGED <<settled, crashes>> /\ plan' = [plan EXCEPT ![n] = R]
  BY DEF InsertRows, At
<1>2. /\ n \in Notes /\ req[r].already = settled[n] /\ settled[n] \in Nat
      /\ R = todo[r] /\ NewFor(r, n, R)
  <2>1. RightSoFar(r)
    BY DEF SerialPlans
  <2>2. n \in Notes /\ req[r].already = settled[n] /\ plan[n] = {} /\ NewFor(r, n, todo[r])
    BY <1>1, <2>1 DEF RightSoFar, NoteSteps, PlanSteps, At
  <2>3. R = todo[r]
    BY <2>2
  <2> QED BY <2>2, <2>3 DEF LedgerInv, LedgerTypes
<1>3. FromOldest(R) /\ ShowsSettled(R, 0) /\ PlanFor(n, R)
  BY <1>2, NewShowsNothing DEF NewFor
<1>4. plan'[n] = R
  BY <1>1, <1>2 DEF PlanInv
<1> HIDE DEF R
<1>5. CASE req[r].already > 0
  <2>1. PICK local : /\ req' = [req EXCEPT ![r] = local]
                     /\ local.step = "spread" /\ local.note = n /\ local.already = req[r].already
    <3>1. Goto(r, "spread")
      BY <1>5 DEF InsertRows
    <3> QED BY <3>1, MovedLocal
  <2>2. req'[r] = local
    BY <2>1 DEF LedgerInv, LedgerTypes
  <2> HIDE DEF n
  <2>3. RightSoFar(r)'
    BY <1>1, <1>2, <1>4, <2>1, <2>2 DEF RightSoFar, At
  <2> QED BY <1>1, <1>2, <1>3, <2>1, <2>3, PlansChange
<1>6. CASE ~ req[r].already > 0
  <2>1. req' = [req EXCEPT ![r] = Over] /\ Over.step = "done" /\ settled[n] = 0
    BY <1>2, <1>6 DEF InsertRows, Finish, Over, Local
  <2>2. req'[r] = Over
    BY <2>1 DEF LedgerInv, LedgerTypes
  <2>3. RightSoFar(r)'
    BY <2>1, <2>2 DEF RightSoFar, At, NoteSteps, PlanSteps
  <2> HIDE DEF n
  <2> QED BY <1>1, <1>2, <1>3, <2>1, <2>3, PlansChange
<1> QED BY <1>5, <1>6

\* The rows to write make the new plan show what the note has settled.
LEMMA ReadRowsKeepsPlans ==
    ASSUME LedgerInv, PlanInv, SerialPlans, NEW r \in Requests,
           \A q \in Requests : q # r => Rests(q), Alone', ReadRows(r)
    PROVE  SerialPlans'
<1> DEFINE n == req[r].note
           a == req[r].already
           T == Waterfall(plan[n], a)
           P == Poured(plan[n], a)
<1>1. req[r].step = "spread" /\ UNCHANGED <<settled, crashes, plan>>
  BY DEF ReadRows, At
<1>2. /\ n \in Notes /\ a = settled[n] /\ a \in Nat /\ a <= Gross[n] /\ NewFor(r, n, plan[n])
      /\ RowsOK(plan[n])
  <2>1. RightSoFar(r) /\ PlanInv
    BY DEF SerialPlans
  <2>2. n \in Notes /\ a = settled[n] /\ NewFor(r, n, plan[n])
    BY <1>1, <2>1 DEF RightSoFar, NoteSteps, PlanSteps, At
  <2> HIDE DEF a, n
  <2>3. RowsOK(plan[n])
    BY <2>1, <2>2 DEF PlanInv
  <2>4. settled[n] \in Nat /\ settled[n] <= Gross[n]
    BY <2>2 DEF LedgerInv, LedgerTypes, SettledWithinGross
  <2> QED BY <2>2, <2>3, <2>4
<1>3. Overwrite(plan[n], T) = P /\ RowsOK(T)
  BY <1>2, OverwriteIsPoured, PouredIsOK
<1>4. FromOldest(P) /\ ShowsSettled(P, settled[n])
  <2>1. FromOldest(plan[n]) /\ ShowsSettled(plan[n], 0) /\ PlanFor(n, plan[n])
    BY <1>2, NewShowsNothing DEF NewFor
  <2>2. ShowsSettled(P, 0 + a)
    BY <1>2, <2>1, PouredPlan
  <2> HIDE DEF P
  <2> QED BY <1>2, <2>1, <2>2, PouredFromOldest DEF P
<1>5. Versions(T, plan[n]) /\ \A x \in T : x.settled > 0
  <2>1. \A z \in T : z.settled > 0 /\ \E x \in plan[n] : SameRow(z, x)
    BY <1>2, WaterfallSources
  <2> HIDE DEF T
  <2>2. Keys(T) \subseteq Keys(plan[n])
    BY <2>1 DEF Keys, Key, SameRow
  <2>3. \A x \in plan[n], y \in T : Key(x) = Key(y) => SameRow(x, y)
    BY <1>2, <2>1 DEF RowsOK, Key, SameRow
  <2> QED BY <1>2, <1>3, <2>1, <2>2, <2>3 DEF Versions
<1>6. CASE T = {}
  <2>1. Overwrite(plan[n], T) = plan[n]
    BY <1>6 DEF Overwrite, Without, Keys
  <2>2. Finish(r)
    BY <1>6 DEF ReadRows
  <2>3. req' = [req EXCEPT ![r] = Over] /\ Over.step = "done"
    BY <2>2 DEF Finish, Over, Local
  <2>4. req'[r] = Over
    BY <2>3 DEF LedgerInv, LedgerTypes
  <2>5. RightSoFar(r)'
    BY <2>3, <2>4 DEF RightSoFar, At, NoteSteps, PlanSteps
  <2>6. plan' = [plan EXCEPT ![n] = plan[n]] /\ FromOldest(plan[n]) /\ ShowsSettled(plan[n], settled'[n])
    BY <1>1, <1>2, <1>3, <1>4, <2>1 DEF PlanInv
  <2> HIDE DEF n, a, T, P
  <2>7. PlanFor(n, plan[n]) /\ \A m \in Notes \ {n} : settled'[m] = settled[m]
    BY <1>1, <1>2 DEF NewFor
  <2> DEFINE R == plan[n]
  <2>8. /\ plan' = [plan EXCEPT ![n] = R] /\ FromOldest(R) /\ ShowsSettled(R, settled'[n])
        /\ PlanFor(n, R)
    BY <2>6, <2>7
  <2>9. req[r].note = n
    BY DEF n
  <2> HIDE DEF R
  <2> QED BY <1>1, <1>2, <2>3, <2>5, <2>7, <2>8, <2>9, PlansChange
<1>7. CASE T # {}
  <2>1. PICK local : /\ req' = [req EXCEPT ![r] = local]
                     /\ local.step = "write" /\ local.note = n /\ local.already = a
    <3>1. Goto(r, "write")
      BY <1>7 DEF ReadRows
    <3> QED BY <3>1, MovedLocal
  <2>2. req'[r] = local /\ todo'[r] = T
    BY <1>7, <2>1 DEF LedgerInv, LedgerTypes, PlanInv, ReadRows, Take
  <2> HIDE DEF n, a, T, P
  <2>3. RightSoFar(r)'
    BY <1>1, <1>2, <1>3, <1>4, <1>5, <2>1, <2>2 DEF RightSoFar, At
  <2> DEFINE R == plan[n]
  <2>4. plan' = [plan EXCEPT ![n] = R] /\ PlanFor(n, R) /\ FromOldest(R)
    BY <1>1, <1>2, NewShowsNothing DEF PlanInv, NewFor
  <2>9. req[r].note = n
    BY DEF n
  <2> HIDE DEF R
  <2> QED BY <1>1, <1>2, <2>1, <2>3, <2>4, <2>9, PlansChange
<1> QED BY <1>6, <1>7

\* Each row written brings the plan closer to what it is to show.
LEMMA WriteRowKeepsPlans ==
    ASSUME LedgerInv, PlanInv, PlanInv', SerialPlans, NEW r \in Requests,
           \A q \in Requests : q # r => Rests(q), Alone', WriteRow(r)
    PROVE  SerialPlans'
<1> DEFINE n == req[r].note
           T == todo[r]
           W == Overwrite(plan[n], T)
<1>1. req[r].step = "write" /\ UNCHANGED <<settled, crashes>>
  BY DEF WriteRow, At
<1>2. /\ n \in Notes /\ req[r].already = settled[n] /\ RowsOK(plan[n]) /\ FromOldest(plan[n])
      /\ PlanFor(n, plan[n]) /\ Versions(T, plan[n]) /\ \A x \in T : x.settled > 0
      /\ FromOldest(W) /\ ShowsSettled(W, settled[n])
  BY <1>1 DEF SerialPlans, RightSoFar, NoteSteps, PlanSteps, At, PlanInv, PlanKept
<1>3. PICK row \in T :
         /\ \A y \in T \ {row} : Older(row, y)
         /\ \/ /\ Key(row) \in Keys(plan[n])
               /\ plan' = [plan EXCEPT ![n] = Overwrite(@, {row})]
               /\ \/ T = {row} /\ Finish(r)
                  \/ T # {row} /\ Take(r, T \ {row}) /\ UNCHANGED req
            \/ Key(row) \notin Keys(plan[n])
  BY WrittenRow
<1>4. Key(row) \in Keys(plan[n])
  BY <1>2 DEF Versions, Keys
<1> DEFINE B == Overwrite(plan[n], {row})
<1>5. /\ RowsOK(B) /\ Total(B) = Total(plan[n]) /\ Room(B) = Room(plan[n]) /\ FromOldest(B)
      /\ Overwrite(B, T \ {row}) = W /\ Keys(T \ {row}) \subseteq Keys(B)
  <2> HIDE DEF T
  <2> QED BY <1>2, <1>3, OneRowAtATime DEF W
<1>6. PlanFor(n, B)
  BY <1>2, <1>5 DEF PlanFor
<1>7. plan' = [plan EXCEPT ![n] = B] /\ plan'[n] = B
  BY <1>2, <1>3, <1>4 DEF PlanInv
<1>8. req[r].note = n
  OBVIOUS
<1>9. CASE T = {row} /\ Finish(r)
  <2>1. req' = [req EXCEPT ![r] = Over] /\ Over.step = "done"
    BY <1>9 DEF Finish, Over, Local
  <2>2. req'[r] = Over
    BY <2>1 DEF LedgerInv, LedgerTypes
  <2>3. RightSoFar(r)'
    BY <2>1, <2>2 DEF RightSoFar, At, NoteSteps, PlanSteps
  <2>4. B = W
    BY <1>9
  <2> HIDE DEF n, T, W, B
  <2> QED BY <1>1, <1>2, <1>5, <1>6, <1>7, <1>8, <2>1, <2>3, <2>4, PlansChange
<1>10. CASE T # {row} /\ Take(r, T \ {row}) /\ UNCHANGED req
  <2>1. req' = [req EXCEPT ![r] = req[r]] /\ todo'[r] = T \ {row}
    BY <1>10 DEF LedgerInv, LedgerTypes, PlanInv, Take
  <2>2. Versions(T \ {row}, B)
    <3>1. RowsOK(T \ {row})
      BY <1>2, PartIsOK DEF Versions
    <3>2. \A x \in B, y \in T : Key(x) = Key(y) => SameRow(x, y)
      <4>1. \A x \in B : x \in plan[n] \/ x \in T
        BY <1>3 DEF Overwrite, Without
      <4>2. \A x, y \in T : Key(x) = Key(y) => SameRow(x, y)
        BY <1>2 DEF Versions, RowsOK, SameRow
      <4> QED BY <1>2, <4>1, <4>2 DEF Versions
    <3> HIDE DEF T, B
    <3> QED BY <1>5, <3>1, <3>2 DEF Versions
  <2> HIDE DEF n, T, W, B
  <2>3. RightSoFar(r)'
    BY <1>1, <1>2, <1>5, <1>7, <1>8, <1>10, <2>1, <2>2 DEF RightSoFar, At
  <2>4. req[r].step \in {"spread", "write"} /\ req[r].note = n
    BY <1>1, <1>8
  <2> DEFINE local == req[r]
  <2>5. req' = [req EXCEPT ![r] = local] /\ local.step \in {"spread", "write"} /\ local.note = n
    BY <2>1, <2>4
  <2> HIDE DEF local
  <2> QED BY <1>1, <1>2, <1>5, <1>6, <1>7, <1>8, <2>3, <2>5, PlansChange
<1> QED BY <1>3, <1>4, <1>9, <1>10

\* A replacement deletes the whole plan.
LEMMA DeleteRowsKeepsPlans ==
    ASSUME LedgerInv, PlanInv, SerialPlans, NEW r \in Requests,
           \A q \in Requests : q # r => Rests(q), Alone', DeleteRows(r)
    PROVE  SerialPlans'
<1> DEFINE n == req[r].note
           T == todo[r] \union plan[n]
<1>1. req[r].step = "replace" /\ UNCHANGED <<settled, crashes, plan>>
  BY DEF DeleteRows, At
<1>2. n \in Notes /\ req[r].already = settled[n] /\ NewFor(r, n, todo[r]) /\ Unseen(r)
  BY <1>1 DEF SerialPlans, RightSoFar, NoteSteps, PlanSteps, At, PlanInv, TodoOK
<1>3. PICK local : /\ req' = [req EXCEPT ![r] = local]
                   /\ local.step = "deleted" /\ local.note = n /\ local.already = req[r].already
  BY MovedLocal DEF DeleteRows
<1>4. req'[r] = local /\ todo'[r] = T
  BY <1>3 DEF LedgerInv, LedgerTypes, PlanInv, DeleteRows, Take
<1>5. {x \in T : x.batch = r} = todo[r] /\ T \ todo[r] = plan[n]
  BY <1>2 DEF NewFor, Unseen
<1> HIDE DEF n, T
<1>6. RightSoFar(r)'
  BY <1>1, <1>2, <1>3, <1>4, <1>5 DEF RightSoFar, At
<1> QED BY <1>1, <1>3, <1>6, PlansGoOn

\* The fresh rows are the plan now, with all the note has settled on them.
LEMMA CommitReplaceKeepsPlans ==
    ASSUME LedgerInv, PlanInv, SerialPlans, NEW r \in Requests,
           \A q \in Requests : q # r => Rests(q), Alone', CommitReplace(r)
    PROVE  SerialPlans'
<1> DEFINE n == req[r].note
           a == req[r].already
           fresh == {x \in todo[r] : x.batch = r}
           kept == Without(plan[n], Keys(todo[r] \ fresh))
           rows == kept \union fresh
           R == Overwrite(rows, Waterfall(rows, a))
<1>1. req[r].step = "deleted" /\ UNCHANGED <<settled, crashes>> /\ Finish(r)
      /\ plan' = [plan EXCEPT ![n] = R]
  BY DEF CommitReplace, At
<1>2. /\ n \in Notes /\ a = settled[n] /\ a \in Nat /\ a <= Gross[n]
      /\ NewFor(r, n, fresh) /\ todo[r] \ fresh = plan[n]
  <2>1. RightSoFar(r)
    BY DEF SerialPlans
  <2>2. /\ n \in Notes /\ a = settled[n]
        /\ NewFor(r, n, fresh) /\ todo[r] \ fresh = plan[n]
    BY <1>1, <2>1 DEF RightSoFar, NoteSteps, PlanSteps, At
  <2> HIDE DEF a, n, fresh
  <2>3. settled[n] \in Nat /\ settled[n] <= Gross[n]
    BY <2>2 DEF LedgerInv, LedgerTypes, SettledWithinGross
  <2> QED BY <2>2, <2>3
<1>3. rows = fresh
  <2>1. kept = {}
    BY <1>2 DEF Without, Keys
  <2> QED BY <2>1
<1> HIDE DEF rows, kept, fresh
<1>4. RowsOK(rows) /\ PlanFor(n, rows) /\ FromOldest(rows) /\ ShowsSettled(rows, 0)
  BY <1>2, <1>3, NewShowsNothing DEF NewFor, PlanFor
<1>5. R = Poured(rows, a)
  BY <1>2, <1>4, OverwriteIsPoured
<1> HIDE DEF R
<1>6. PlanFor(n, R) /\ FromOldest(R) /\ ShowsSettled(R, settled'[n])
  <2>1. ShowsSettled(R, 0 + a) /\ 0 + a = a
    BY <1>2, <1>4, <1>5, PouredPlan
  <2> QED BY <1>1, <1>2, <1>4, <1>5, <2>1, PouredPlan, PouredFromOldest
<1>7. req' = [req EXCEPT ![r] = Over] /\ Over.step = "done"
  BY <1>1 DEF Finish, Over, Local
<1>8. req'[r] = Over
  BY <1>7 DEF LedgerInv, LedgerTypes
<1>9. RightSoFar(r)'
  BY <1>7, <1>8 DEF RightSoFar, At, NoteSteps, PlanSteps
<1> HIDE DEF n, a
<1> QED BY <1>1, <1>2, <1>6, <1>7, <1>9, PlansChange

\* One step of the request that is served.
LEMMA ServedKeepsPlans ==
    ASSUME LedgerInv, PlanInv, PlanInv', SerialPlans, crashes \in Nat, NEW r \in Requests,
           \A q \in Requests : q # r => Rests(q), Alone', Start(r) \/ Continue(r) \/ Crash(r)
    PROVE  SerialPlans'
<1>1. CASE Start(r)
  BY <1>1, StartKeepsPlans
<1>2. CASE LockNote(r) \/ CommitReceipt(r) \/ InsertRows(r) \/ ReadRows(r) \/ WriteRow(r)
           \/ DeleteRows(r) \/ CommitReplace(r)
  BY <1>2, LockNoteKeepsPlans, CommitReceiptKeepsPlans, InsertRowsKeepsPlans, ReadRowsKeepsPlans,
     WriteRowKeepsPlans, DeleteRowsKeepsPlans, CommitReplaceKeepsPlans
<1>3. CASE RegisterCharge(r) \/ WriteStatus(r) \/ MarkPaid(r)
  <2>1. Finish(r) /\ UNCHANGED <<plan, settled, crashes>> /\ req[r].step \notin {"spread", "write"}
    BY <1>3 DEF RegisterCharge, WriteStatus, MarkPaid, At
  <2> QED BY <2>1, PlansFinish
<1>4. CASE Crash(r)
  <2>1. Finish(r) /\ UNCHANGED <<plan, settled>> /\ crashes' # 0
    BY <1>4 DEF Crash
  <2> QED BY <2>1, PlansFinish
<1>5. CASE RetrieveCharge(r)
  <2>1. PICK step \in {"settle", "failed", "pending"} : Goto(r, step)
    BY <1>5 DEF RetrieveCharge
  <2>2. PICK local : req' = [req EXCEPT ![r] = local] /\ local.step = step
    BY <2>1, MovedLocal
  <2>3. UNCHANGED <<plan, settled, crashes>> /\ req[r].step = "retrieve"
    BY <1>5 DEF RetrieveCharge, At
  <2> QED BY <2>1, <2>2, <2>3, PlansRest DEF NoteSteps, PlanSteps
<1>6. CASE Settle(r)
  <2> DEFINE n == pay[req[r].pay].note
             a == pay[req[r].pay].amount
  <2>1. UNCHANGED <<plan, settled, crashes>> /\ req[r].step = "settle"
    BY <1>6 DEF Settle, At
  <2>2. CASE MayReceive(n, a)
    <3>1. req' = [req EXCEPT ![r] = ReadNote(n, a, req[r].pay)]
      BY <1>6, <2>2 DEF Settle
    <3>2. n \in Notes
      BY <2>1 DEF LedgerInv, RequestsOK, CarriesPayment, PayRowsOK
    <3> HIDE DEF n, a
    <3> DEFINE local == ReadNote(n, a, req[r].pay)
    <3>3. local.step = "receipt" /\ local.note = n /\ local.already = settled[n]
      BY DEF ReadNote, Local
    <3> HIDE DEF local
    <3>4. req' = [req EXCEPT ![r] = local] /\ req'[r] = local
      BY <3>1 DEF local, LedgerInv, LedgerTypes
    <3>5. RightSoFar(r)'
      BY <2>1, <3>2, <3>3, <3>4 DEF RightSoFar, At
    <3> QED BY <2>1, <3>4, <3>5, PlansGoOn
  <2>3. CASE ~ MayReceive(n, a)
    <3>1. Finish(r)
      BY <1>6, <2>3 DEF Settle
    <3> QED BY <2>1, <3>1, PlansFinish
  <2> QED BY <2>2, <2>3
<1> QED BY <1>1, <1>2, <1>3, <1>4, <1>5, <1>6 DEF Continue

\* Every step when requests are served one at a time.
LEMMA SerialPlansNext ==
    ASSUME LedgerInv, PlanInv, PlanInv', Serial, SerialPlans, crashes \in Nat, MCNext
    PROVE  SerialPlans'
<1>1. ASSUME NEW r \in Requests, Start(r) \/ Continue(r) \/ Crash(r)
      PROVE  SerialPlans'
  <2>1. Alone' /\ \A q \in Requests : q # r => Rests(q)
    BY <1>1, ServedAlone DEF SerialPlans, MCNext
  <2> QED BY <1>1, <2>1, ServedKeepsPlans
<1>2. ASSUME NEW p \in Payments, ClientPays(p)
      PROVE  SerialPlans'
  <2>1. UNCHANGED <<settled, plan, req, todo, crashes>>
    BY <1>2 DEF ClientPays
  <2> QED BY <2>1 DEF SerialPlans, Alone, InFlight, PlanKept, RightSoFar, PlanShown, At
<1> QED BY <1>1, <1>2 DEF MCNext, Next

\* The empty plan shows whatever has been settled: there is nothing to show it on.
LEMMA NoPlanIsShown ==
    ASSUME NEW n \in Notes
    PROVE  PlanFor(n, {}) /\ FromOldest({}) /\ ShowsSettled({}, 0)
<1>1. RowsOK({})
  BY FS_EmptySet DEF RowsOK
<1>2. Room({}) = 0 /\ Total({}) = 0 /\ Settled({}) = 0
  BY SumEmpty DEF Room, Total, Settled, SumFunction
<1> QED BY <1>1, <1>2 DEF PlanFor, FromOldest, ShowsSettled, Smaller

\* There are no plans to begin with.
LEMMA SerialPlansInit == Init => SerialPlans
<1> SUFFICES ASSUME Init PROVE SerialPlans
  OBVIOUS
<1>1. \A n \in Notes : plan[n] = {} /\ settled[n] = 0
  BY DEF Init
<1>2. \A r \in Requests : req[r].step = "idle"
  BY DEF Init, Idle, Local
<1>3. \A n \in Notes : PlanKept(n) /\ PlanShown(n)
  BY <1>1, NoPlanIsShown DEF PlanKept, PlanShown
<1>4. \A r \in Requests : RightSoFar(r)
  BY <1>2 DEF RightSoFar, At, NoteSteps, PlanSteps
<1> QED BY <1>2, <1>3, <1>4 DEF SerialPlans, Alone, InFlight

\* No installment is ever credited beyond its amount; served one at a time, money
\* reaches the oldest installments first, and while no request has died plan and
\* note agree between requests, however receipts, plans and replacements alternate
\* (recordReceipt, generateInstallments, replaceInstallments).
THEOREM PlanAlwaysSound == MCSpec => []PlanIsSound
<1> DEFINE I == LedgerInv /\ PlanInv /\ crashes \in Nat /\ (Serial => SerialPlans)
<1>1. MCInit => I
  <2> SUFFICES ASSUME MCInit PROVE I
    OBVIOUS
  <2>1. LedgerInv /\ PlanInv /\ SerialPlans
    BY LedgerInit, RowsInit, SerialPlansInit DEF MCInit
  <2> QED BY <2>1 DEF MCInit, Init
<1>2. I /\ [MCNext]_MCVars => I'
  <2> SUFFICES ASSUME I, [MCNext]_MCVars PROVE I'
    OBVIOUS
  <2>1. LedgerInv' /\ PlanInv'
    BY LedgerNext, RowsNext DEF MCNext, MCVars
  <2>2. crashes' \in Nat
    BY CrashesCount DEF MCNext, MCVars, vars
  <2>3. ASSUME Serial' PROVE SerialPlans'
    <3>1. Serial /\ SerialPlans
      BY <2>3 DEF MCNext, MCVars, Serial
    <3>2. CASE MCNext
      BY <2>1, <3>1, <3>2, SerialPlansNext
    <3>3. CASE UNCHANGED MCVars
      BY <3>1, <3>3 DEF MCVars, vars, SerialPlans, Alone, InFlight, PlanKept, RightSoFar,
                        PlanShown, At
    <3> QED BY <3>2, <3>3
  <2> QED BY <2>1, <2>2, <2>3
<1>3. I => PlanIsSound
  <2> SUFFICES ASSUME I PROVE PlanIsSound
    OBVIOUS
  <2>1. RowsWithinAmount
    BY DEF PlanInv, RowsOK, Fits, RowsWithinAmount
  <2>2. ASSUME Serial PROVE OldestFirst /\ PlanFollowsNote
    <3>1. SerialPlans
      BY <2>2
    <3>2. OldestFirst
      BY <3>1 DEF SerialPlans, PlanKept, FromOldest, OldestFirst
    <3>3. ASSUME crashes = 0, InFlight = {}, NEW n \in Notes
          PROVE  Settled(plan[n]) = Smaller(settled[n], Total(plan[n]))
      <4>1. PlanShown(n) /\ \A r \in Requests : req[r].step \notin {"spread", "write"}
        BY <3>1, <3>3 DEF SerialPlans, InFlight
      <4> QED BY <4>1 DEF PlanShown, ShowsSettled
    <3> QED BY <3>2, <3>3 DEF PlanFollowsNote
  <2> QED BY <2>1, <2>2 DEF PlanIsSound
<1> QED BY <1>1, <1>2, <1>3, PTL DEF MCSpec
=============================================================================
