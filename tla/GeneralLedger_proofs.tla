-------------------------- MODULE GeneralLedger_proofs --------------------------
(***************************************************************************)
(* What holds of GeneralLedger for any number of calls, however they       *)
(* interleave and die.                                                     *)
(*                                                                         *)
(* A voucher, once there, keeps its type and its reference: edits change   *)
(* its lines and approval its status. So a posted run and a matched bank   *)
(* line keep what they name. The invariant adds that a call has no voucher *)
(* before it writes one, and what it read that cannot change meanwhile.    *)
(* Uniqueness of months and account codes rests on the unique indexes      *)
(* alone: what a call read of them before it writes is of no use.          *)
(*                                                                         *)
(* The statements add up because every voucher does, up to a halala by     *)
(* hand, and sums over vouchers and over accounts may be taken in either   *)
(* order. Served one at a time, what a call has read of numbers, runs and  *)
(* bank lines is still so when it writes, though bank lines are imported   *)
(* and set aside meanwhile, each by one statement: they take nothing it    *)
(* counts on.                                                              *)
(***************************************************************************)
EXTENDS MCGeneralLedger, FiniteSetTheorems, TLAPS

-----------------------------------------------------------------------------
(* Sums over finite sets                                                    *)
(* The induction theorems of the library take a predicate; here a minimal   *)
(* subset for which a fact fails is ruled out instead.                      *)

\* What SumFunctionOnSet unfolds to: a recursive function over the subsets.
Pick(s) == CHOOSE x \in s : TRUE
IsFold(f, S, g) == g = [s \in SUBSET S |-> IF s = {} THEN 0 ELSE f[Pick(s)] + g[s \ {Pick(s)}]]
Fold(f, S) == CHOOSE g : IsFold(f, S, g)

\* A nonempty set of subsets of a finite set has a minimal member.
LEMMA SubsetMinimum ==
    ASSUME NEW S, IsFiniteSet(S), NEW B, B \subseteq SUBSET S, B # {}
    PROVE  \E T \in B : \A U \in B : U \subseteq T => U = T
<1>1. \E T \in B : \A U \in B : ~ (<<U, T>> \in StrictSubsetOrdering(S))
  BY FS_StrictSubsetOrderingWellFounded, FS_FiniteSubsetsOfFinite, WFMin
<1> QED BY <1>1 DEF StrictSubsetOrdering

\* The recursion has one solution at most, ...
LEMMA FoldUnique ==
    ASSUME NEW f, NEW S, IsFiniteSet(S), NEW g, NEW h, IsFold(f, S, g), IsFold(f, S, h)
    PROVE  g = h
<1> DEFINE B == {s \in SUBSET S : g[s] # h[s]}
<1>1. SUFFICES ASSUME B # {} PROVE FALSE
  BY DEF IsFold
<1>2. PICK T \in B : \A U \in B : U \subseteq T => U = T
  <2>1. B \subseteq SUBSET S
    OBVIOUS
  <2> HIDE DEF B
  <2> QED BY <1>1, <2>1, SubsetMinimum
<1>3. T # {} /\ Pick(T) \in T
  BY <1>2 DEF IsFold, Pick
<1>4. g[T \ {Pick(T)}] = h[T \ {Pick(T)}]
  BY <1>2, <1>3
<1>5. /\ g[T] = f[Pick(T)] + g[T \ {Pick(T)}]
      /\ h[T] = f[Pick(T)] + h[T \ {Pick(T)}]
  BY <1>2, <1>3 DEF IsFold
<1> QED BY <1>2, <1>4, <1>5

\* ... a solution over a set is one over its subsets, ...
LEMMA FoldRestricted ==
    ASSUME NEW f, NEW S, IsFiniteSet(S), NEW T \in SUBSET S, NEW g, IsFold(f, S, g)
    PROVE  IsFold(f, T, Fold(f, T)) /\ Fold(f, T)[T] = g[T]
<1> DEFINE h == [s \in SUBSET T |-> g[s]]
<1>1. IsFold(f, T, h)
  <2>1. \A s \in SUBSET T : h[s] = IF s = {} THEN 0 ELSE f[Pick(s)] + h[s \ {Pick(s)}]
    BY DEF IsFold
  <2> QED BY <2>1 DEF IsFold
<1>2. IsFold(f, T, Fold(f, T))
  BY <1>1 DEF Fold
<1>3. Fold(f, T) = h
  BY <1>1, <1>2, FoldUnique, FS_Subset
<1> QED BY <1>2, <1>3

\* ... and over a finite set there is one.
LEMMA FoldExists ==
    ASSUME NEW f, NEW S, IsFiniteSet(S)
    PROVE  IsFold(f, S, Fold(f, S))
<1> DEFINE B == {T \in SUBSET S : ~ IsFold(f, T, Fold(f, T))}
<1>1. SUFFICES ASSUME B # {} PROVE FALSE
  OBVIOUS
<1>2. PICK T \in B : \A U \in B : U \subseteq T => U = T
  <2>1. B \subseteq SUBSET S
    OBVIOUS
  <2> HIDE DEF B
  <2> QED BY <1>1, <2>1, SubsetMinimum
<1> DEFINE g == [s \in SUBSET T |-> IF s = {} THEN 0
                      ELSE f[Pick(s)] + Fold(f, s \ {Pick(s)})[s \ {Pick(s)}]]
<1>3. ASSUME NEW u \in SUBSET T, u # T
      PROVE  g[u] = Fold(f, u)[u]
  <2>1. IsFold(f, u, Fold(f, u)) /\ IsFiniteSet(u)
    BY <1>2, <1>3, FS_Subset
  <2>2. CASE u = {}
    BY <2>1, <2>2 DEF IsFold
  <2>3. CASE u # {}
    <3>1. Fold(f, u)[u] = f[Pick(u)] + Fold(f, u)[u \ {Pick(u)}]
      BY <2>1, <2>3 DEF IsFold
    <3>2. Fold(f, u \ {Pick(u)})[u \ {Pick(u)}] = Fold(f, u)[u \ {Pick(u)}]
      BY <2>1, FoldRestricted
    <3> QED BY <2>3, <3>1, <3>2
  <2> QED BY <2>2, <2>3
<1>4. ASSUME NEW s \in SUBSET T
      PROVE  g[s] = IF s = {} THEN 0 ELSE f[Pick(s)] + g[s \ {Pick(s)}]
  <2>1. CASE s = {}
    BY <2>1
  <2>2. CASE s # {}
    <3>1. Pick(s) \in s
      BY <2>2 DEF Pick
    <3>2. g[s \ {Pick(s)}] = Fold(f, s \ {Pick(s)})[s \ {Pick(s)}]
      BY <1>3, <3>1
    <3> QED BY <2>2, <3>2
  <2> QED BY <2>1, <2>2
<1>5. IsFold(f, T, g)
  BY <1>4 DEF IsFold
<1> QED BY <1>2, <1>5 DEF Fold

\* So a sum over a finite set is computed one member at a time.
LEMMA SumStep ==
    ASSUME NEW f, NEW S, IsFiniteSet(S)
    PROVE  /\ S = {} => SumFunctionOnSet(f, S) = 0
           /\ S # {} => /\ Pick(S) \in S
                        /\ SumFunctionOnSet(f, S) = f[Pick(S)] + SumFunctionOnSet(f, S \ {Pick(S)})
<1>1. \A T : SumFunctionOnSet(f, T) = Fold(f, T)[T]
  BY DEF SumFunctionOnSet, FoldFunctionOnSet, MapThenFoldSet, Fold, IsFold, Pick
<1>2. IsFold(f, S, Fold(f, S))
  BY FoldExists
<1>3. CASE S = {}
  BY <1>1, <1>2, <1>3 DEF IsFold
<1>4. CASE S # {}
  <2>1. Pick(S) \in S
    BY <1>4 DEF Pick
  <2>2. Fold(f, S)[S] = f[Pick(S)] + Fold(f, S)[S \ {Pick(S)}]
    BY <1>2, <1>4 DEF IsFold
  <2>3. Fold(f, S)[S \ {Pick(S)}] = Fold(f, S \ {Pick(S)})[S \ {Pick(S)}]
    BY <1>2, FoldRestricted
  <2> QED BY <1>1, <1>4, <2>1, <2>2, <2>3
<1> QED BY <1>3, <1>4

\* A sum of integers is an integer.
LEMMA SumType ==
    ASSUME NEW f, NEW S, IsFiniteSet(S), \A x \in S : f[x] \in Int
    PROVE  SumFunctionOnSet(f, S) \in Int
<1> DEFINE B == {T \in SUBSET S : SumFunctionOnSet(f, T) \notin Int}
<1>1. SUFFICES ASSUME B # {} PROVE FALSE
  OBVIOUS
<1>2. PICK T \in B : \A U \in B : U \subseteq T => U = T
  <2>1. B \subseteq SUBSET S
    OBVIOUS
  <2> HIDE DEF B
  <2> QED BY <1>1, <2>1, SubsetMinimum
<1>3. T # {} /\ Pick(T) \in T /\ SumFunctionOnSet(f, T) = f[Pick(T)] + SumFunctionOnSet(f, T \ {Pick(T)})
  BY <1>2, SumStep, FS_Subset
<1> QED BY <1>2, <1>3

\* Any member of the set may be the one that is added last.
LEMMA SumTakes ==
    ASSUME NEW f, NEW S, IsFiniteSet(S), \A x \in S : f[x] \in Int, NEW a \in S
    PROVE  SumFunctionOnSet(f, S) = f[a] + SumFunctionOnSet(f, S \ {a})
<1> DEFINE Sum(T) == SumFunctionOnSet(f, T)
           B == {T \in SUBSET S : \E b \in T : Sum(T) # f[b] + Sum(T \ {b})}
<1>1. SUFFICES ASSUME B # {} PROVE FALSE
  OBVIOUS
<1>2. PICK T \in B : \A U \in B : U \subseteq T => U = T
  <2>1. B \subseteq SUBSET S
    OBVIOUS
  <2> HIDE DEF B
  <2> QED BY <1>1, <2>1, SubsetMinimum
<1>3. PICK b \in T : Sum(T) # f[b] + Sum(T \ {b})
  OBVIOUS
<1> DEFINE p == Pick(T)
           R == T \ {b, p}
<1>4. /\ IsFiniteSet(T) /\ IsFiniteSet(R)
  BY <1>2, FS_Subset
<1>5. p \in T /\ Sum(T) = f[p] + Sum(T \ {p})
  BY <1>2, <1>3, <1>4, SumStep
<1>6. p # b
  BY <1>3, <1>5
<1>7. f[p] \in Int /\ f[b] \in Int /\ Sum(R) \in Int
  BY <1>2, <1>4, <1>5, SumType
<1>8. Sum(T \ {p}) = f[b] + Sum((T \ {p}) \ {b})
  BY <1>2, <1>3, <1>5, <1>6
<1>9. Sum(T \ {b}) = f[p] + Sum((T \ {b}) \ {p})
  BY <1>2, <1>3, <1>5, <1>6
<1>10. (T \ {p}) \ {b} = R /\ (T \ {b}) \ {p} = R
  OBVIOUS
<1>11. Sum(T \ {p}) = f[b] + Sum(R) /\ Sum(T \ {b}) = f[p] + Sum(R)
  BY <1>8, <1>9, <1>10
<1> HIDE DEF Sum, R, p
<1> QED BY <1>3, <1>5, <1>7, <1>11

\* ... or the one that is new.
LEMMA SumInsert ==
    ASSUME NEW f, NEW S, IsFiniteSet(S), \A x \in S : f[x] \in Int,
           NEW T \in SUBSET S, NEW a \in S \ T
    PROVE  /\ SumFunctionOnSet(f, T \union {a}) = f[a] + SumFunctionOnSet(f, T)
           /\ SumFunctionOnSet(f, T) \in Int
<1>1. IsFiniteSet(T) /\ IsFiniteSet(T \union {a}) /\ (T \union {a}) \ {a} = T
  BY FS_Subset, FS_AddElement
<1>2. SumFunctionOnSet(f, T \union {a}) = f[a] + SumFunctionOnSet(f, (T \union {a}) \ {a})
  <2>1. \A x \in T \union {a} : f[x] \in Int
    OBVIOUS
  <2> QED BY <1>1, <2>1, SumTakes
<1> QED BY <1>1, <1>2, SumType

LEMMA SumEmpty == \A f : SumFunctionOnSet(f, {}) = 0
BY SumStep, FS_EmptySet

\* Induction over a finite set, for the set of its subsets a fact holds of.
LEMMA SubsetInduction ==
    ASSUME NEW S, IsFiniteSet(S), NEW Good, {} \in Good,
           \A T \in SUBSET S : \A a \in S \ T : T \in Good => T \union {a} \in Good
    PROVE  S \in Good
<1> DEFINE B == {T \in SUBSET S : T \notin Good}
<1>1. SUFFICES ASSUME B # {} PROVE FALSE
  OBVIOUS
<1>2. PICK T \in B : \A U \in B : U \subseteq T => U = T
  <2>1. B \subseteq SUBSET S
    OBVIOUS
  <2> HIDE DEF B
  <2> QED BY <1>1, <2>1, SubsetMinimum
<1>3. PICK a : a \in T
  BY <1>2
<1>4. T \ {a} \in Good /\ (T \ {a}) \union {a} = T /\ T \ {a} \in SUBSET S /\ a \in S \ (T \ {a})
  BY <1>2, <1>3
<1> QED BY <1>2, <1>4

\* A sum depends on the values in the set only.
LEMMA SumSame ==
    ASSUME NEW f, NEW g, NEW S, IsFiniteSet(S), \A x \in S : f[x] \in Int /\ g[x] = f[x]
    PROVE  SumFunctionOnSet(g, S) = SumFunctionOnSet(f, S)
<1> DEFINE Good == {T \in SUBSET S : SumFunctionOnSet(g, T) = SumFunctionOnSet(f, T)}
<1>1. {} \in Good
  BY SumEmpty
<1>2. ASSUME NEW T \in SUBSET S, NEW a \in S \ T, T \in Good PROVE T \union {a} \in Good
  BY <1>2, SumInsert
<1> HIDE DEF Good
<1>3. S \in Good
  BY <1>1, <1>2, SubsetInduction
<1> QED BY <1>3 DEF Good

\* Two sums are added member by member.
LEMMA SumPlus ==
    ASSUME NEW f, NEW g, NEW h, NEW S, IsFiniteSet(S),
           \A x \in S : f[x] \in Int /\ g[x] \in Int /\ h[x] = f[x] + g[x]
    PROVE  SumFunctionOnSet(h, S) = SumFunctionOnSet(f, S) + SumFunctionOnSet(g, S)
<1> DEFINE Sum(k, T) == SumFunctionOnSet(k, T)
           Good == {T \in SUBSET S : Sum(h, T) = Sum(f, T) + Sum(g, T)}
<1>1. {} \in Good
  BY SumEmpty
<1>2. ASSUME NEW T \in SUBSET S, NEW a \in S \ T, T \in Good PROVE T \union {a} \in Good
  <2>0. \A x \in S : h[x] \in Int
    OBVIOUS
  <2>a. Sum(h, T \union {a}) = h[a] + Sum(h, T)
    BY <2>0, SumInsert
  <2>1. /\ Sum(f, T \union {a}) = f[a] + Sum(f, T) /\ Sum(f, T) \in Int
        /\ Sum(g, T \union {a}) = g[a] + Sum(g, T) /\ Sum(g, T) \in Int
    BY SumInsert
  <2>2. Sum(h, T) = Sum(f, T) + Sum(g, T) /\ f[a] \in Int /\ g[a] \in Int /\ h[a] = f[a] + g[a]
    BY <1>2
  <2> HIDE DEF Sum
  <2>3. Sum(h, T \union {a}) = Sum(f, T \union {a}) + Sum(g, T \union {a})
    BY <2>a, <2>1, <2>2
  <2> QED BY <2>3
<1> HIDE DEF Good
<1>3. S \in Good
  BY <1>1, <1>2, SubsetInduction
<1> QED BY <1>3 DEF Good

\* Members that count for nothing may be left out.
LEMMA SumPadded ==
    ASSUME NEW f, NEW g, NEW S, IsFiniteSet(S), NEW R \in SUBSET S,
           \A x \in R : f[x] \in Int /\ g[x] = f[x],
           \A x \in S \ R : g[x] = 0
    PROVE  SumFunctionOnSet(g, S) = SumFunctionOnSet(f, R)
<1> DEFINE Sum(k, T) == SumFunctionOnSet(k, T)
           Good == {T \in SUBSET S : Sum(g, T) = Sum(f, T \intersect R)}
<1>1. {} \in Good /\ S \intersect R = R
  BY SumEmpty
<1>2. ASSUME NEW T \in SUBSET S, NEW a \in S \ T, T \in Good PROVE T \union {a} \in Good
  <2>1. Sum(g, T \union {a}) = g[a] + Sum(g, T) /\ Sum(g, T) \in Int
    BY SumInsert
  <2>2. CASE a \in R
    <3>1. (T \union {a}) \intersect R = (T \intersect R) \union {a} /\ a \in R \ (T \intersect R)
      BY <2>2
    <3>2. Sum(f, (T \intersect R) \union {a}) = f[a] + Sum(f, T \intersect R)
      BY <3>1, SumInsert, FS_Subset
    <3> QED BY <1>2, <2>1, <2>2, <3>1, <3>2
  <2>3. CASE a \notin R
    <3>1. (T \union {a}) \intersect R = T \intersect R /\ g[a] = 0
      BY <2>3
    <3>2. Sum(g, T \union {a}) = Sum(g, T)
      <4> HIDE DEF Sum
      <4> QED BY <2>1, <3>1
    <3> QED BY <1>2, <3>1, <3>2
  <2> QED BY <2>2, <2>3
<1> HIDE DEF Good
<1>3. S \in Good
  BY <1>1, <1>2, SubsetInduction
<1> QED BY <1>1, <1>3 DEF Good

\* ... so a sum over some members is one over all of them, the others counting
\* for nothing.
LEMMA SumSpread ==
    ASSUME NEW S, IsFiniteSet(S), NEW R \in SUBSET S, NEW f, NEW g, DOMAIN f = R,
           \A x \in R : f[x] \in Int /\ g[x] = f[x],
           \A x \in S \ R : g[x] = 0
    PROVE  /\ SumFunction(f) = SumFunctionOnSet(g, S)
           /\ SumFunction(f) \in Int
<1>1. SumFunction(f) = SumFunctionOnSet(f, R)
  BY DEF SumFunction
<1>2. SumFunctionOnSet(g, S) = SumFunctionOnSet(f, R)
  BY SumPadded
<1>3. SumFunctionOnSet(f, R) \in Int
  BY SumType, FS_Subset
<1> QED BY <1>1, <1>2, <1>3

\* A sum of halalas is no larger than the number of members that have one.
LEMMA SumWithin ==
    ASSUME NEW f, NEW S, IsFiniteSet(S), NEW R \in SUBSET S,
           \A x \in S : f[x] \in -1..1, \A x \in S \ R : f[x] = 0
    PROVE  /\ SumFunctionOnSet(f, S) \in Int
           /\ SumFunctionOnSet(f, S) \in (0 - Cardinality(R))..Cardinality(R)
<1> DEFINE Sum(T) == SumFunctionOnSet(f, T)
           Good == {T \in SUBSET R : Sum(T) \in (0 - Cardinality(T))..Cardinality(T)}
<1>1. IsFiniteSet(R) /\ \A x \in S : f[x] \in Int
  BY FS_Subset
<1>2. {} \in Good
  BY SumEmpty, FS_EmptySet
<1>3. ASSUME NEW T \in SUBSET R, NEW a \in R \ T, T \in Good PROVE T \union {a} \in Good
  <2>1. Sum(T \union {a}) = f[a] + Sum(T) /\ Sum(T) \in Int
    BY <1>1, SumInsert
  <2>2. IsFiniteSet(T) /\ Cardinality(T) \in Nat
    BY <1>1, FS_Subset, FS_CardinalityType
  <2>3. Cardinality(T \union {a}) = Cardinality(T) + 1
    BY <2>2, FS_AddElement
  <2>4. Sum(T) \in (0 - Cardinality(T))..Cardinality(T) /\ f[a] \in -1..1
    BY <1>3
  <2> HIDE DEF Sum
  <2>5. Sum(T \union {a}) \in (0 - Cardinality(T \union {a}))..Cardinality(T \union {a})
    BY <2>1, <2>2, <2>3, <2>4
  <2> QED BY <2>5
<1> HIDE DEF Good
<1>4. R \in Good
  BY <1>1, <1>2, <1>3, SubsetInduction
<1>5. Sum(R) \in (0 - Cardinality(R))..Cardinality(R)
  BY <1>4 DEF Good
<1>6. Sum(S) = Sum(R)
  BY <1>1, SumPadded
<1>7. Sum(S) \in Int
  BY <1>1, SumType
<1> QED BY <1>5, <1>6, <1>7

\* The sum over one member, and over two.
LEMMA SumOfOne ==
    ASSUME NEW f, NEW a, f[a] \in Int
    PROVE  SumFunctionOnSet(f, {a}) = f[a]
<1>1. IsFiniteSet({a}) /\ {a} \ {a} = {}
  BY FS_Singleton
<1>2. SumFunctionOnSet(f, {a}) = f[a] + SumFunctionOnSet(f, {a} \ {a})
  BY <1>1, SumTakes
<1>3. SumFunctionOnSet(f, {a} \ {a}) = 0
  BY <1>1, SumEmpty
<1> QED BY <1>2, <1>3

LEMMA SumOfTwo ==
    ASSUME NEW f, NEW a, NEW b, a # b, f[a] \in Int, f[b] \in Int
    PROVE  SumFunctionOnSet(f, {a, b}) = f[a] + f[b]
<1>0. IsFiniteSet({b} \union {a}) /\ {a, b} = {b} \union {a}
  <2>1. IsFiniteSet({b})
    BY FS_Singleton
  <2> QED BY <2>1, FS_AddElement
<1>1. IsFiniteSet({a, b}) /\ {a, b} \ {a} = {b}
  BY <1>0
<1>2. SumFunctionOnSet(f, {a, b}) = f[a] + SumFunctionOnSet(f, {a, b} \ {a})
  BY <1>1, SumTakes
<1>3. SumFunctionOnSet(f, {a, b} \ {a}) = f[b]
  BY <1>1, SumOfOne
<1> QED BY <1>2, <1>3

LEMMA SumOfThree ==
    ASSUME NEW f, NEW a, NEW b, NEW c, a # b, a # c, b # c, f[a] \in Int, f[b] \in Int, f[c] \in Int
    PROVE  SumFunctionOnSet(f, {a, b, c}) = f[a] + f[b] + f[c]
<1>0. IsFiniteSet(({c} \union {b}) \union {a}) /\ {a, b, c} = ({c} \union {b}) \union {a}
  <2>1. IsFiniteSet({c})
    BY FS_Singleton
  <2>2. IsFiniteSet({c} \union {b})
    BY <2>1, FS_AddElement
  <2> QED BY <2>2, FS_AddElement
<1>1. IsFiniteSet({a, b, c}) /\ {a, b, c} \ {a} = {b, c}
  BY <1>0
<1>2. SumFunctionOnSet(f, {a, b, c}) = f[a] + SumFunctionOnSet(f, {a, b, c} \ {a})
  BY <1>1, SumTakes
<1>3. SumFunctionOnSet(f, {a, b, c} \ {a}) = f[b] + f[c]
  BY <1>1, SumOfTwo
<1> QED BY <1>2, <1>3

-----------------------------------------------------------------------------
(* The invariant                                                             *)

Steps == {"idle", "done", "create", "edit", "approve", "run", "line", "post", "remove", "match",
          "issue", "count", "issued"}

Cash(v) == vouchers[v] # None /\ vouchers[v].type \in {"RCV", "PYV"}

\* What a call c with the local variables l may count on.
LocalOK(c, l) ==
    /\ l.step \in Steps
    /\ l.step # "done" => vouchers[c] = None
    /\ l.step \in {"create", "post", "issue", "count", "issued"} => l.number \in Nat
    /\ l.step \in {"create", "edit"} => l.lines \in Entries
    /\ l.step = "create" => l.of \in VoucherTypes /\ l.to \in {"draft", "posted"}
    /\ l.step \in {"edit", "approve", "line", "post", "remove"} => l.of \in Calls
    /\ l.step \in {"edit", "approve"} => vouchers[l.of] # None
    /\ l.step = "run" => l.of \in Periods
    /\ l.step \in {"line", "post"} => l.to \in Int
    /\ l.step = "match" => l.of \in TxnIds /\ txns[l.of] # None /\ l.to \in Calls /\ Cash(l.to)
    /\ l.step \in {"issue", "count", "issued"} => l.of \in Clients
    /\ l.step = "issued" => l.to \in Nat

Inv ==
    /\ TypeOK
    /\ call = [c \in Calls |-> call[c]]
    /\ \A c \in Calls : LocalOK(c, call[c])
    /\ RunIsVouched
    /\ OneRunPerPeriod
    /\ CodesAreDistinct
    /\ MatchedIsCash

USE CallsAssumption, KindsAssumption, LinesAssumption, NetsAssumption, BoundsAssumption, NoneAssumption

-----------------------------------------------------------------------------
(* Helpers of the specification                                             *)

LEMMA AccountNames == Accounts = {"cash", "clients", "client", "trust", "capital", "income", "salaries"}
BY DEF Accounts, AccountType

\* A number is one more than a count of rows, and there are finitely many.
LEMMA NumbersAreNaturals ==
    ASSUME NEW row, DOMAIN row \subseteq Calls
    PROVE  NextSeq(row) \in Nat
<1>1. IsFiniteSet(Entered(row))
  BY FS_Subset DEF Entered
<1> QED BY <1>1, FS_CardinalityType DEF NextSeq

LEMMA LinesAreEntries ==
    ASSUME NEW l \in Lines
    PROVE  l \in Entries
BY DEF Entries

LEMMA SalariesAreEntries ==
    ASSUME NEW n \in Int
    PROVE  [salaries |-> n, cash |-> 0 - n] \in Entries
<1>1. {"salaries", "cash"} \in SUBSET Accounts
  BY AccountNames
<1>2. [salaries |-> n, cash |-> 0 - n] \in [{"salaries", "cash"} -> Int]
  OBVIOUS
<1> QED BY <1>1, <1>2 DEF Entries

LEMMA PremiumIsEntries == Premium \in Entries
<1>1. {"clients", "trust", "income"} \in SUBSET Accounts
  BY AccountNames
<1>2. Premium \in [{"clients", "trust", "income"} -> Int]
  BY DEF Premium
<1> QED BY <1>1, <1>2 DEF Entries

LEMMA VoucherIsARow ==
    ASSUME NEW number \in Nat, NEW type \in VoucherTypes, NEW status \in {"draft", "posted"},
           NEW auto \in BOOLEAN, NEW reference \in Calls \union Clients \union {None}, NEW lines \in Entries
    PROVE  Voucher(number, type, status, auto, reference, lines) \in VoucherRow
BY DEF Voucher, VoucherRow

-----------------------------------------------------------------------------
(* Frames                                                                   *)

\* What a step of the call c does to the rows others count on.
RowsMove(c) ==
    /\ \A d \in Calls \ {c} : vouchers[d] = None => vouchers'[d] = None
    /\ \A v \in Calls : vouchers[v] # None =>
           /\ vouchers'[v] # None
           /\ vouchers'[v].type = vouchers[v].type /\ vouchers'[v].reference = vouchers[v].reference
    /\ \A t \in TxnIds : txns[t] # None => txns'[t] # None

LEMMA LocalStays ==
    ASSUME NEW c \in Calls, NEW d \in Calls \ {c}, NEW l, LocalOK(d, l), RowsMove(c)
    PROVE  LocalOK(d, l)'
BY DEF LocalOK, RowsMove, Cash

\* One call moves.
LEMMA StepKeeps ==
    ASSUME Inv, NEW c \in Calls, NEW l, call' = [call EXCEPT ![c] = l], LocalOK(c, l)', RowsMove(c),
           TypeOK', RunIsVouched', OneRunPerPeriod', CodesAreDistinct', MatchedIsCash'
    PROVE  Inv'
<1>1. /\ call' = [d \in Calls |-> call'[d]]
      /\ call'[c] = l
      /\ \A d \in Calls : d # c => call'[d] = call[d]
  BY DEF Inv
<1>2. ASSUME NEW d \in Calls PROVE LocalOK(d, call[d])'
  <2>1. CASE d = c
    BY <1>1, <2>1
  <2>2. CASE d # c
    <3>1. PICK k : k = call[d] /\ k = call'[d] /\ LocalOK(d, k)
      BY <1>1, <2>2 DEF Inv
    <3>2. LocalOK(d, k)'
      BY <2>2, <3>1, LocalStays
    <3> QED BY <3>1, <3>2
  <2> QED BY <2>1, <2>2
<1> QED BY <1>1, <1>2 DEF Inv

LEMMA OverIsOK == Over.step = "done" /\ \A c : LocalOK(c, Over)'
BY DEF Over, Local, LocalOK, Steps

\* A call ends: what is left to show are the tables.
LEMMA FinishKeeps ==
    ASSUME Inv, NEW c \in Calls, Finish(c), RowsMove(c),
           vouchers' \in [Calls -> VoucherRow \union {None}], runs' \in [Calls -> RunRow \union {None}],
           txns' \in [TxnIds -> TxnRow \union {None}], accounts' \in [Calls -> AccountRow \union {None}],
           RunIsVouched', OneRunPerPeriod', CodesAreDistinct', MatchedIsCash'
    PROVE  Inv'
<1>1. call' = [call EXCEPT ![c] = Over] /\ crashes' = crashes
  BY DEF Finish
<1>2. TypeOK'
  BY <1>1 DEF Inv, TypeOK
<1>3. LocalOK(c, Over)'
  BY OverIsOK
<1> QED BY <1>1, <1>2, <1>3, StepKeeps

\* What is posted and what is matched rests on vouchers, which stay.
LEMMA VouchedStays ==
    ASSUME Inv, NEW c \in Calls, RowsMove(c), UNCHANGED <<runs, txns>>,
           vouchers' \in [Calls -> VoucherRow \union {None}]
    PROVE  RunIsVouched' /\ OneRunPerPeriod' /\ MatchedIsCash'
<1>1. RunIsVouched'
  BY DEF Inv, TypeOK, RowsMove, RunIsVouched, Entered
<1>2. OneRunPerPeriod'
  BY DEF Inv, OneRunPerPeriod, Entered
<1>3. MatchedIsCash'
  BY DEF Inv, TypeOK, RowsMove, MatchedIsCash, Entered
<1> QED BY <1>1, <1>2, <1>3

-----------------------------------------------------------------------------
(* Calls that begin, and steps that write nothing                           *)

LEMMA InitHolds == Init => Inv
<1> SUFFICES ASSUME Init PROVE Inv
  OBVIOUS
<1>1. TypeOK
  BY DEF Init, TypeOK
<1>2. call = [c \in Calls |-> Idle] /\ Idle.step = "idle"
  BY DEF Init, Idle, Local
<1>3. \A c \in Calls : LocalOK(c, call[c])
  BY <1>2 DEF Init, LocalOK, Steps
<1>4. RunIsVouched /\ OneRunPerPeriod /\ CodesAreDistinct /\ MatchedIsCash
  BY DEF Init, RunIsVouched, OneRunPerPeriod, CodesAreDistinct, MatchedIsCash, Entered
<1> QED BY <1>1, <1>2, <1>3, <1>4 DEF Inv

LEMMA QuietStepKeeps ==
    ASSUME Inv, NEW c \in Calls, NEW l, call' = [call EXCEPT ![c] = l], LocalOK(c, l),
           UNCHANGED rows, crashes' \in 0..MaxCrashes
    PROVE  Inv'
<1>1. UNCHANGED <<vouchers, runs, txns, accounts>>
  BY DEF rows
<1>2. LocalOK(c, l)' /\ RowsMove(c)
  BY <1>1 DEF LocalOK, RowsMove, Cash
<1>3. TypeOK'
  BY <1>1 DEF Inv, TypeOK
<1>4. RunIsVouched' /\ OneRunPerPeriod' /\ CodesAreDistinct' /\ MatchedIsCash'
  BY <1>1 DEF Inv, RunIsVouched, OneRunPerPeriod, CodesAreDistinct, MatchedIsCash, Entered
<1> QED BY <1>2, <1>3, <1>4, StepKeeps

LEMMA BeginKeeps ==
    ASSUME Inv, NEW c \in Calls, NEW l, Begin(c, l), vouchers[c] = None => LocalOK(c, l)
    PROVE  Inv'
<1>1. call' = [call EXCEPT ![c] = l] /\ UNCHANGED rows /\ crashes' = crashes /\ call[c].step = "idle"
  BY DEF Begin, Arrive
<1>2. vouchers[c] = None
  BY <1>1 DEF Inv, LocalOK
<1>3. crashes' \in 0..MaxCrashes
  BY <1>1 DEF Inv, TypeOK
<1> QED BY <1>1, <1>2, <1>3, QuietStepKeeps

LEMMA FailKeeps ==
    ASSUME Inv, NEW c \in Calls, Fail(c)
    PROVE  Inv'
<1>1. call' = [call EXCEPT ![c] = Over] /\ UNCHANGED rows /\ crashes' = crashes
  BY DEF Fail, Finish
<1>2. LocalOK(c, Over)
  BY DEF Over, Local, LocalOK, Steps
<1>3. crashes' \in 0..MaxCrashes
  BY <1>1 DEF Inv, TypeOK
<1> QED BY <1>1, <1>2, <1>3, QuietStepKeeps

LEMMA CrashKeeps ==
    ASSUME Inv, NEW c \in Calls, Crash(c)
    PROVE  Inv'
<1>1. /\ call' = [call EXCEPT ![c] = Over] /\ UNCHANGED rows
      /\ crashes' = crashes + 1 /\ crashes < MaxCrashes
  BY DEF Crash
<1>2. LocalOK(c, Over)
  BY DEF Over, Local, LocalOK, Steps
<1>3. crashes' \in 0..MaxCrashes
  BY <1>1 DEF Inv, TypeOK
<1> QED BY <1>1, <1>2, <1>3, QuietStepKeeps

\* The number a new voucher draws.
LEMMA DrawnIsNatural == Inv => NextSeq(vouchers) \in Nat /\ NextSeq(accounts) \in Nat
<1> SUFFICES ASSUME Inv PROVE NextSeq(vouchers) \in Nat /\ NextSeq(accounts) \in Nat
  OBVIOUS
<1>1. DOMAIN vouchers \subseteq Calls /\ DOMAIN accounts \subseteq Calls
  BY DEF Inv, TypeOK
<1> QED BY <1>1, NumbersAreNaturals

LEMMA StartVoucherKeeps ==
    ASSUME Inv, NEW c \in Calls, StartVoucher(c)
    PROVE  Inv'
<1>1. NextSeq(vouchers) \in Nat
  BY DrawnIsNatural
<1>2. ASSUME NEW lines \in Lines, CreateJournal(c, lines) PROVE Inv'
  <2> DEFINE l == Local("create", "JRV", "posted", NextSeq(vouchers), lines)
  <2>1. Begin(c, l)
    BY <1>2 DEF CreateJournal
  <2>2. vouchers[c] = None => LocalOK(c, l)
    BY <1>1, LinesAreEntries DEF Local, LocalOK, Steps, VoucherTypes
  <2> HIDE DEF l
  <2> QED BY <2>1, <2>2, BeginKeeps
<1>3. ASSUME NEW type \in Kinds, NEW lines \in Lines, CreateManualVoucher(c, type, lines) PROVE Inv'
  <2> DEFINE l == Local("create", type, "draft", NextSeq(vouchers), lines)
  <2>1. Begin(c, l)
    BY <1>3 DEF CreateManualVoucher
  <2>2. vouchers[c] = None => LocalOK(c, l)
    BY <1>1, LinesAreEntries DEF Local, LocalOK, Steps
  <2> HIDE DEF l
  <2> QED BY <2>1, <2>2, BeginKeeps
<1>4. ASSUME NEW v \in Calls, NEW lines \in Lines, UpdateManualVoucher(c, v, lines) PROVE Inv'
  <2> DEFINE l == Local("edit", v, None, 0, lines)
  <2>1. Begin(c, l) /\ vouchers[v] # None
    BY <1>4 DEF UpdateManualVoucher
  <2>2. vouchers[c] = None => LocalOK(c, l)
    BY <2>1, LinesAreEntries DEF Local, LocalOK, Steps
  <2> HIDE DEF l
  <2> QED BY <2>1, <2>2, BeginKeeps
<1>5. ASSUME NEW v \in Calls, ApproveVoucher(c, v) PROVE Inv'
  <2> DEFINE l == Local("approve", v, None, 0, None)
  <2>1. Begin(c, l) /\ vouchers[v] # None
    BY <1>5 DEF ApproveVoucher
  <2>2. vouchers[c] = None => LocalOK(c, l)
    BY <2>1 DEF Local, LocalOK, Steps
  <2> HIDE DEF l
  <2> QED BY <2>1, <2>2, BeginKeeps
<1>6. ASSUME NEW client \in Clients, ApprovePolicy(c, client) PROVE Inv'
  <2> DEFINE l == Local("issue", client, None, NextSeq(vouchers), None)
  <2>1. Begin(c, l)
    BY <1>6 DEF ApprovePolicy
  <2>2. vouchers[c] = None => LocalOK(c, l)
    BY <1>1 DEF Local, LocalOK, Steps
  <2> HIDE DEF l
  <2> QED BY <2>1, <2>2, BeginKeeps
<1> QED BY <1>2, <1>3, <1>4, <1>5, <1>6 DEF StartVoucher

LEMMA StartPayrollKeeps ==
    ASSUME Inv, NEW c \in Calls, StartPayroll(c)
    PROVE  Inv'
<1>1. NextSeq(vouchers) \in Nat
  BY DrawnIsNatural
<1>2. ASSUME NEW period \in Periods, CreateRun(c, period) PROVE Inv'
  <2> DEFINE l == Local("run", period, None, 0, None)
  <2>1. Begin(c, l)
    BY <1>2 DEF CreateRun
  <2>2. vouchers[c] = None => LocalOK(c, l)
    BY DEF Local, LocalOK, Steps
  <2> HIDE DEF l
  <2> QED BY <2>1, <2>2, BeginKeeps
<1>3. ASSUME NEW r \in Calls, NEW net \in Nets, UpdateLine(c, r, net) PROVE Inv'
  <2> DEFINE l == Local("line", r, net, 0, None)
  <2>1. Begin(c, l)
    BY <1>3 DEF UpdateLine
  <2>2. vouchers[c] = None => LocalOK(c, l)
    BY DEF Local, LocalOK, Steps
  <2> HIDE DEF l
  <2> QED BY <2>1, <2>2, BeginKeeps
<1>4. ASSUME NEW r \in Calls, PostRun(c, r) PROVE Inv'
  <2> DEFINE l == Local("post", r, runs[r].net, NextSeq(vouchers), None)
  <2>1. Begin(c, l) /\ runs[r] # None
    BY <1>4 DEF PostRun, Draft
  <2>2. runs[r].net \in Int
    BY <2>1 DEF Inv, TypeOK, RunRow
  <2>3. vouchers[c] = None => LocalOK(c, l)
    BY <1>1, <2>2 DEF Local, LocalOK, Steps
  <2> HIDE DEF l
  <2> QED BY <2>1, <2>3, BeginKeeps
<1>5. ASSUME NEW r \in Calls, RemoveRun(c, r) PROVE Inv'
  <2> DEFINE l == Local("remove", r, None, 0, None)
  <2>1. Begin(c, l)
    BY <1>5 DEF RemoveRun
  <2>2. vouchers[c] = None => LocalOK(c, l)
    BY DEF Local, LocalOK, Steps
  <2> HIDE DEF l
  <2> QED BY <2>1, <2>2, BeginKeeps
<1> QED BY <1>2, <1>3, <1>4, <1>5 DEF StartPayroll

-----------------------------------------------------------------------------
(* The steps on vouchers                                                    *)

\* A call in flight has no voucher yet.
LEMMA NoVoucherYet ==
    ASSUME Inv, NEW c \in Calls, call[c].step # "done"
    PROVE  vouchers[c] = None
BY DEF Inv, LocalOK

\* A call posts its voucher.
LEMMA PostKeepsRows ==
    ASSUME Inv, NEW c \in Calls, vouchers[c] = None, NEW voucher \in VoucherRow,
           vouchers' = [vouchers EXCEPT ![c] = voucher], \A t \in TxnIds : txns[t] # None => txns'[t] # None
    PROVE  /\ RowsMove(c) /\ vouchers' \in [Calls -> VoucherRow \union {None}]
           /\ vouchers'[c] = voucher /\ voucher # None
           /\ \A v \in Calls : vouchers[v] # None => vouchers'[v] = vouchers[v]
<1>1. vouchers \in [Calls -> VoucherRow \union {None}]
  BY DEF Inv, TypeOK
<1>2. /\ vouchers' \in [Calls -> VoucherRow \union {None}]
      /\ vouchers'[c] = voucher /\ \A d \in Calls \ {c} : vouchers'[d] = vouchers[d]
  BY <1>1
<1>3. voucher # None
  BY DEF VoucherRow
<1> QED BY <1>2, <1>3 DEF RowsMove

LEMMA CommitVoucherKeeps ==
    ASSUME Inv, NEW c \in Calls, CommitVoucher(c)
    PROVE  Inv'
<1> DEFINE l == call[c]
<1> DEFINE voucher == Voucher(l.number, l.of, l.to, FALSE, None, l.lines)
<1>1. LocalOK(c, l) /\ l.step = "create"
  BY DEF Inv, CommitVoucher, At
<1>2. /\ vouchers' = [vouchers EXCEPT ![c] = voucher] /\ Finish(c)
      /\ UNCHANGED <<runs, txns, accounts>>
  BY DEF CommitVoucher
<1>3. voucher \in VoucherRow
  BY <1>1, VoucherIsARow DEF LocalOK
<1>4. vouchers[c] = None
  BY <1>1, NoVoucherYet
<1> HIDE DEF voucher, l
<1>5. RowsMove(c) /\ vouchers' \in [Calls -> VoucherRow \union {None}]
  BY <1>2, <1>3, <1>4, PostKeepsRows
<1>6. RunIsVouched' /\ OneRunPerPeriod' /\ MatchedIsCash'
  BY <1>2, <1>5, VouchedStays
<1>7. CodesAreDistinct'
  BY <1>2 DEF Inv, CodesAreDistinct, Entered
<1>8. /\ runs' \in [Calls -> RunRow \union {None}] /\ txns' \in [TxnIds -> TxnRow \union {None}]
      /\ accounts' \in [Calls -> AccountRow \union {None}]
  BY <1>2 DEF Inv, TypeOK
<1> QED BY <1>2, <1>5, <1>6, <1>7, <1>8, FinishKeeps

\* A voucher's lines or its status are written over.
LEMMA RewriteKeeps ==
    ASSUME Inv, NEW c \in Calls, NEW v \in Calls, NEW voucher \in VoucherRow, vouchers[v] # None,
           voucher.type = vouchers[v].type, voucher.reference = vouchers[v].reference,
           vouchers' = [vouchers EXCEPT ![v] = voucher], Finish(c), UNCHANGED <<runs, txns, accounts>>
    PROVE  Inv'
<1>1. vouchers \in [Calls -> VoucherRow \union {None}]
  BY DEF Inv, TypeOK
<1>2. voucher # None
  BY DEF VoucherRow
<1>3. /\ vouchers' \in [Calls -> VoucherRow \union {None}]
      /\ vouchers'[v] = voucher /\ \A d \in Calls \ {v} : vouchers'[d] = vouchers[d]
  BY <1>1
<1>4. RowsMove(c)
  BY <1>2, <1>3 DEF RowsMove
<1>5. RunIsVouched' /\ OneRunPerPeriod' /\ MatchedIsCash'
  BY <1>3, <1>4, VouchedStays
<1>6. CodesAreDistinct'
  BY DEF Inv, CodesAreDistinct, Entered
<1>7. /\ runs' \in [Calls -> RunRow \union {None}] /\ txns' \in [TxnIds -> TxnRow \union {None}]
      /\ accounts' \in [Calls -> AccountRow \union {None}]
  BY DEF Inv, TypeOK
<1> QED BY <1>3, <1>4, <1>5, <1>6, <1>7, FinishKeeps

LEMMA CommitUpdateKeeps ==
    ASSUME Inv, NEW c \in Calls, CommitUpdate(c)
    PROVE  Inv'
<1> DEFINE l == call[c]
<1> DEFINE voucher == [vouchers[l.of] EXCEPT !.lines = l.lines]
<1>1. LocalOK(c, l) /\ l.step = "edit"
  BY DEF Inv, CommitUpdate, At
<1>2. l.of \in Calls /\ vouchers[l.of] # None /\ l.lines \in Entries
  BY <1>1 DEF LocalOK
<1>3. vouchers[l.of] \in VoucherRow
  BY <1>2 DEF Inv, TypeOK
<1>4. /\ voucher \in VoucherRow
      /\ voucher.type = vouchers[l.of].type /\ voucher.reference = vouchers[l.of].reference
  BY <1>2, <1>3 DEF VoucherRow
<1>5. /\ vouchers' = [vouchers EXCEPT ![l.of] = voucher] /\ Finish(c)
      /\ UNCHANGED <<runs, txns, accounts>>
  BY DEF CommitUpdate
<1> HIDE DEF voucher, l
<1> QED BY <1>2, <1>4, <1>5, RewriteKeeps

LEMMA CommitApprovalKeeps ==
    ASSUME Inv, NEW c \in Calls, CommitApproval(c)
    PROVE  Inv'
<1> DEFINE l == call[c]
<1> DEFINE voucher == [vouchers[l.of] EXCEPT !.status = "posted"]
<1>1. LocalOK(c, l) /\ l.step = "approve"
  BY DEF Inv, CommitApproval, At
<1>2. l.of \in Calls /\ vouchers[l.of] # None
  BY <1>1 DEF LocalOK
<1>3. vouchers[l.of] \in VoucherRow
  BY <1>2 DEF Inv, TypeOK
<1>4. /\ voucher \in VoucherRow
      /\ voucher.type = vouchers[l.of].type /\ voucher.reference = vouchers[l.of].reference
  BY <1>3 DEF VoucherRow
<1>5. /\ vouchers' = [vouchers EXCEPT ![l.of] = voucher] /\ Finish(c)
      /\ UNCHANGED <<runs, txns, accounts>>
  BY DEF CommitApproval
<1> HIDE DEF voucher, l
<1> QED BY <1>2, <1>4, <1>5, RewriteKeeps

-----------------------------------------------------------------------------
(* The steps on payroll runs                                                *)

\* A run is written, together with a voucher of the call or without.
LEMMA RunWrittenKeeps ==
    ASSUME Inv, NEW c \in Calls, NEW r \in Calls, NEW run \in RunRow \union {None},
           runs' = [runs EXCEPT ![r] = run], Finish(c), RowsMove(c), UNCHANGED <<txns, accounts>>,
           vouchers' \in [Calls -> VoucherRow \union {None}],
           run # None => (runs[r] # None /\ run.period = runs[r].period) \/ ~ PeriodTaken(run.period),
           run # None /\ run.status = "posted" =>
               run.voucher \in Calls /\ vouchers'[run.voucher] # None /\ vouchers'[run.voucher].reference = r
    PROVE  Inv'
<1>1. /\ runs \in [Calls -> RunRow \union {None}]
      /\ vouchers \in [Calls -> VoucherRow \union {None}]
  BY DEF Inv, TypeOK
<1>2. /\ runs' \in [Calls -> RunRow \union {None}]
      /\ runs'[r] = run /\ \A s \in Calls : s # r => runs'[s] = runs[s]
  BY <1>1
<1>3. ASSUME NEW s \in Calls, runs'[s] # None, runs'[s].status = "posted"
      PROVE  runs'[s].voucher \in Calls /\ vouchers'[runs'[s].voucher] # None /\ vouchers'[runs'[s].voucher].reference = s
  <2>1. CASE s = r
    BY <1>2, <1>3, <2>1
  <2>2. CASE s # r
    <3>1. runs[s] # None /\ runs[s].status = "posted" /\ runs'[s] = runs[s]
      BY <1>2, <1>3, <2>2
    <3>2. /\ runs[s].voucher \in Calls /\ vouchers[runs[s].voucher] # None
          /\ vouchers[runs[s].voucher].reference = s
      BY <1>1, <3>1 DEF Inv, RunIsVouched, Entered
    <3> QED BY <3>1, <3>2 DEF RowsMove
  <2> QED BY <2>1, <2>2
<1>4. RunIsVouched'
  BY <1>2, <1>3 DEF RunIsVouched, Entered
<1>5. ASSUME NEW s \in Calls, NEW t \in Calls, runs'[s] # None, runs'[t] # None,
             runs'[s].period = runs'[t].period
      PROVE  s = t
  <2>1. \A u, w \in Calls : runs[u] # None /\ runs[w] # None /\ runs[u].period = runs[w].period => u = w
    BY <1>1 DEF Inv, OneRunPerPeriod, Entered
  <2>2. \A u \in Calls : u # r /\ runs[u] # None /\ run # None => runs[u].period # run.period
    BY <1>1, <2>1 DEF PeriodTaken, Entered
  <2> QED BY <1>2, <1>5, <2>1, <2>2
<1>6. OneRunPerPeriod'
  BY <1>2, <1>5 DEF OneRunPerPeriod, Entered
<1>7. MatchedIsCash'
  BY <1>1 DEF Inv, TypeOK, RowsMove, MatchedIsCash, Entered
<1>8. CodesAreDistinct'
  BY DEF Inv, CodesAreDistinct, Entered
<1>9. txns' \in [TxnIds -> TxnRow \union {None}] /\ accounts' \in [Calls -> AccountRow \union {None}]
  BY DEF Inv, TypeOK
<1> QED BY <1>2, <1>4, <1>6, <1>7, <1>8, <1>9, FinishKeeps

LEMMA NothingElseMoves ==
    ASSUME Inv, NEW c \in Calls, UNCHANGED <<vouchers, txns>>
    PROVE  RowsMove(c) /\ vouchers' \in [Calls -> VoucherRow \union {None}]
BY DEF Inv, TypeOK, RowsMove

LEMMA CommitRunKeeps ==
    ASSUME Inv, NEW c \in Calls, CommitRun(c)
    PROVE  Inv'
<1> DEFINE period == call[c].of
<1> DEFINE run == Run(period, "draft", 0, None)
<1>1. CASE PeriodTaken(period)
  BY <1>1, FailKeeps DEF CommitRun
<1>2. CASE ~ PeriodTaken(period)
  <2>1. period \in Periods
    BY DEF Inv, LocalOK, CommitRun, At
  <2>2. run \in RunRow /\ run.period = period /\ run.status = "draft"
    BY <2>1 DEF Run, RunRow
  <2>3. runs' = [runs EXCEPT ![c] = run] /\ Finish(c) /\ UNCHANGED <<vouchers, txns, accounts>>
    BY <1>2 DEF CommitRun
  <2>4. RowsMove(c) /\ vouchers' \in [Calls -> VoucherRow \union {None}]
    BY <2>3, NothingElseMoves
  <2> HIDE DEF run, period
  <2> QED BY <1>2, <2>2, <2>3, <2>4, RunWrittenKeeps
<1> QED BY <1>1, <1>2

LEMMA CommitLineKeeps ==
    ASSUME Inv, NEW c \in Calls, CommitLine(c)
    PROVE  Inv'
<1> DEFINE l == call[c]
<1> DEFINE run == [runs[l.of] EXCEPT !.net = l.to]
<1>1. l.of \in Calls /\ l.to \in Int
  BY DEF Inv, LocalOK, CommitLine, At
<1>2. CASE runs[l.of] = None
  BY <1>2, FailKeeps DEF CommitLine
<1>3. CASE runs[l.of] # None
  <2>1. runs[l.of] \in RunRow
    BY <1>1, <1>3 DEF Inv, TypeOK
  <2>2. /\ run \in RunRow /\ run.period = runs[l.of].period
        /\ run.status = runs[l.of].status /\ run.voucher = runs[l.of].voucher
    BY <1>1, <2>1 DEF RunRow
  <2>3. runs' = [runs EXCEPT ![l.of] = run] /\ Finish(c) /\ UNCHANGED <<vouchers, txns, accounts>>
    BY <1>3 DEF CommitLine
  <2>4. RowsMove(c) /\ vouchers' \in [Calls -> VoucherRow \union {None}]
    BY <2>3, NothingElseMoves
  <2>5. runs[l.of].status = "posted" =>
            /\ runs[l.of].voucher \in Calls /\ vouchers[runs[l.of].voucher] # None
            /\ vouchers[runs[l.of].voucher].reference = l.of
    BY <1>1, <1>3 DEF Inv, TypeOK, RunIsVouched, Entered
  <2> HIDE DEF run, l
  <2>6. run.status = "posted" =>
            run.voucher \in Calls /\ vouchers'[run.voucher] # None /\ vouchers'[run.voucher].reference = l.of
    BY <2>2, <2>3, <2>5
  <2> QED BY <1>1, <1>3, <2>2, <2>3, <2>4, <2>6, RunWrittenKeeps
<1> QED BY <1>2, <1>3

LEMMA CommitRemoveKeeps ==
    ASSUME Inv, NEW c \in Calls, CommitRemove(c)
    PROVE  Inv'
<1> DEFINE r == call[c].of
<1>1. r \in Calls
  BY DEF Inv, LocalOK, CommitRemove, At
<1>2. runs' = [runs EXCEPT ![r] = None] /\ Finish(c) /\ UNCHANGED <<vouchers, txns, accounts>>
  BY DEF CommitRemove
<1>3. RowsMove(c) /\ vouchers' \in [Calls -> VoucherRow \union {None}]
  BY <1>2, NothingElseMoves
<1> HIDE DEF r
<1> QED BY <1>1, <1>2, <1>3, RunWrittenKeeps

LEMMA CommitPostKeeps ==
    ASSUME Inv, NEW c \in Calls, CommitPost(c)
    PROVE  Inv'
<1> DEFINE l == call[c]
<1> DEFINE r == l.of
<1> DEFINE run == Run(runs[r].period, "posted", runs[r].net, c)
<1>1. LocalOK(c, l) /\ l.step = "post"
  BY DEF Inv, CommitPost, At
<1>2. r \in Calls /\ l.to \in Int /\ l.number \in Nat
  BY <1>1 DEF LocalOK
<1>3. CASE runs[r] = None
  BY <1>3, FailKeeps DEF CommitPost
<1>4. CASE runs[r] # None
  <2>1. vouchers[c] = None
    BY <1>1, NoVoucherYet
  <2>2. [salaries |-> l.to, cash |-> 0 - l.to] \in Entries
    BY <1>2, SalariesAreEntries
  <2>3. Salaries(c) \in VoucherRow /\ Salaries(c).reference = r
    <3>1. Salaries(c) = Voucher(l.number, "JRV", "posted", TRUE, r, [salaries |-> l.to, cash |-> 0 - l.to])
      BY DEF Salaries
    <3>2. PICK lines \in Entries : lines = [salaries |-> l.to, cash |-> 0 - l.to]
      BY <2>2
    <3>3. Salaries(c) = Voucher(l.number, "JRV", "posted", TRUE, r, lines)
      BY <3>1, <3>2
    <3> HIDE DEF l, r
    <3>4. Voucher(l.number, "JRV", "posted", TRUE, r, lines) \in VoucherRow
      BY <1>2, VoucherIsARow DEF VoucherTypes
    <3> QED BY <3>3, <3>4 DEF Voucher
  <2>4. runs[r] \in RunRow
    BY <1>2, <1>4 DEF Inv, TypeOK
  <2>5. run \in RunRow /\ run.period = runs[r].period /\ run.voucher = c
    BY <2>4 DEF Run, RunRow
  <2>6. /\ vouchers' = [vouchers EXCEPT ![c] = Salaries(c)] /\ runs' = [runs EXCEPT ![r] = run]
        /\ Finish(c) /\ UNCHANGED <<txns, accounts>>
    BY <1>4 DEF CommitPost
  <2>7. PICK voucher \in VoucherRow : voucher = Salaries(c)
    BY <2>3
  <2>8. /\ RowsMove(c) /\ vouchers' \in [Calls -> VoucherRow \union {None}]
        /\ vouchers'[c] = voucher /\ voucher # None
    BY <2>1, <2>6, <2>7, PostKeepsRows
  <2>9. vouchers'[c].reference = r
    BY <2>3, <2>7, <2>8
  <2> HIDE DEF run, r, l
  <2> QED BY <1>2, <1>4, <2>5, <2>6, <2>8, <2>9, RunWrittenKeeps
<1> QED BY <1>3, <1>4

-----------------------------------------------------------------------------
(* The steps on bank transactions                                           *)

\* The bank lines are written; what is matched in them names a cash voucher.
LEMMA TxnsWrittenKeep ==
    ASSUME Inv, NEW c \in Calls, call' = [call EXCEPT ![c] = Over], UNCHANGED <<vouchers, runs, accounts, crashes>>,
           txns' \in [TxnIds -> TxnRow \union {None}], \A t \in TxnIds : txns[t] # None => txns'[t] # None,
           \A t \in TxnIds : txns'[t] # None /\ txns'[t].status = "matched" =>
               \/ txns[t] # None /\ txns[t].status = "matched" /\ txns'[t].voucher = txns[t].voucher
               \/ txns'[t].voucher \in Calls /\ Cash(txns'[t].voucher)
    PROVE  Inv'
<1>1. Finish(c) /\ RowsMove(c)
  BY DEF Finish, RowsMove
<1>2. MatchedIsCash'
  <2>1. \A t \in TxnIds : txns[t] # None /\ txns[t].status = "matched" =>
            txns[t].voucher \in Calls /\ Cash(txns[t].voucher)
    BY DEF Inv, TypeOK, MatchedIsCash, Entered, Cash
  <2>2. \A t \in TxnIds : txns'[t] # None /\ txns'[t].status = "matched" =>
            txns'[t].voucher \in Calls /\ Cash(txns'[t].voucher)
    BY <2>1
  <2> QED BY <2>2 DEF Inv, TypeOK, MatchedIsCash, Entered, Cash
<1>3. RunIsVouched' /\ OneRunPerPeriod' /\ CodesAreDistinct'
  BY DEF Inv, RunIsVouched, OneRunPerPeriod, CodesAreDistinct, Entered
<1>4. /\ runs' \in [Calls -> RunRow \union {None}] /\ vouchers' \in [Calls -> VoucherRow \union {None}]
      /\ accounts' \in [Calls -> AccountRow \union {None}]
  BY DEF Inv, TypeOK
<1> QED BY <1>1, <1>2, <1>3, <1>4, FinishKeeps

LEMMA StartBankKeeps ==
    ASSUME Inv, NEW c \in Calls, StartBank(c)
    PROVE  Inv'
<1>1. txns \in [TxnIds -> TxnRow \union {None}]
  BY DEF Inv, TypeOK
<1>2. ASSUME NEW b \in BankAccounts, ImportTransactions(c, b) PROVE Inv'
  <2>1. call' = [call EXCEPT ![c] = Over] /\ UNCHANGED <<vouchers, runs, accounts, crashes>>
    BY <1>2 DEF ImportTransactions, Arrive
  <2> DEFINE row == Txn(b, "unmatched", None)
  <2>2. txns' = [t \in TxnIds |-> IF t[1] = c THEN row ELSE txns[t]]
    BY <1>2 DEF ImportTransactions
  <2>3. row \in TxnRow /\ row.status = "unmatched"
    BY DEF Txn, TxnRow
  <2>4. row # None
    BY <2>3
  <2> HIDE DEF row
  <2>5. \A t \in TxnIds : txns'[t] = row \/ txns'[t] = txns[t]
    BY <2>2
  <2>6. txns' \in [TxnIds -> TxnRow \union {None}]
    <3>1. txns' = [t \in TxnIds |-> txns'[t]]
      BY <2>2
    <3> QED BY <1>1, <2>3, <2>5, <3>1
  <2> QED BY <2>1, <2>3, <2>4, <2>5, <2>6, TxnsWrittenKeep
<1>3. ASSUME NEW t \in TxnIds, NEW v \in Calls, Match(c, t, v) PROVE Inv'
  <2> DEFINE l == Local("match", t, v, 0, None)
  <2>1. Begin(c, l) /\ txns[t] # None /\ Cash(v)
    BY <1>3 DEF Match, Cash
  <2>2. vouchers[c] = None => LocalOK(c, l)
    BY <2>1 DEF Local, LocalOK, Steps
  <2> HIDE DEF l
  <2> QED BY <2>1, <2>2, BeginKeeps
<1>4. ASSUME NEW t \in TxnIds, NEW status \in {"unmatched", "ignored"}, SetStatus(c, t, status) PROVE Inv'
  <2> DEFINE row == Txn(txns[t].account, status, IF status = "unmatched" THEN None ELSE txns[t].voucher)
  <2>1. /\ call' = [call EXCEPT ![c] = Over] /\ UNCHANGED <<vouchers, runs, accounts, crashes>>
        /\ txns[t] # None /\ txns' = [txns EXCEPT ![t] = row]
    BY <1>4 DEF SetStatus, Arrive
  <2>2. txns[t] \in TxnRow
    BY <1>1, <2>1
  <2>3. row \in TxnRow /\ row.status # "matched"
    BY <2>2 DEF Txn, TxnRow
  <2>4. row # None
    BY <2>3
  <2> HIDE DEF row
  <2>5. /\ txns' \in [TxnIds -> TxnRow \union {None}]
        /\ txns'[t] = row /\ \A u \in TxnIds : u # t => txns'[u] = txns[u]
    BY <1>1, <2>1, <2>3
  <2> QED BY <2>1, <2>3, <2>4, <2>5, TxnsWrittenKeep
<1> QED BY <1>2, <1>3, <1>4 DEF StartBank

LEMMA CommitMatchKeeps ==
    ASSUME Inv, NEW c \in Calls, CommitMatch(c)
    PROVE  Inv'
<1> DEFINE l == call[c]
<1> DEFINE row == Txn(txns[l.of].account, "matched", l.to)
<1>1. l.of \in TxnIds /\ txns[l.of] # None /\ l.to \in Calls /\ Cash(l.to)
  BY DEF Inv, LocalOK, CommitMatch, At
<1>2. txns \in [TxnIds -> TxnRow \union {None}]
  BY DEF Inv, TypeOK
<1>3. txns[l.of] \in TxnRow
  BY <1>1, <1>2
<1>4. row \in TxnRow /\ row.voucher = l.to
  BY <1>1, <1>3 DEF Txn, TxnRow
<1>5. row # None
  BY <1>4
<1>6. /\ txns' = [txns EXCEPT ![l.of] = row] /\ call' = [call EXCEPT ![c] = Over]
      /\ UNCHANGED <<vouchers, runs, accounts, crashes>>
  BY DEF CommitMatch, Finish
<1> HIDE DEF row, l
<1>7. /\ txns' \in [TxnIds -> TxnRow \union {None}]
      /\ txns'[l.of] = row /\ \A t \in TxnIds : t # l.of => txns'[t] = txns[t]
  BY <1>1, <1>2, <1>4, <1>6
<1> QED BY <1>1, <1>4, <1>5, <1>6, <1>7, TxnsWrittenKeep

-----------------------------------------------------------------------------
(* The steps of an approval that opens an account                           *)

LEMMA LookupKeeps ==
    ASSUME Inv, NEW c \in Calls, FindAccount(c) \/ CountAccounts(c)
    PROVE  Inv'
<1>1. UNCHANGED rows /\ crashes' \in 0..MaxCrashes
  BY DEF FindAccount, CountAccounts, Inv, TypeOK
<1>2. CASE FindAccount(c)
  <2>1. PICK step \in {"count", "issued"} :
            call' = [call EXCEPT ![c] = Local(step, call[c].of, 0, call[c].number, None)]
    BY <1>2 DEF FindAccount
  <2>2. LocalOK(c, call[c]) /\ call[c].step = "issue"
    BY <1>2 DEF Inv, FindAccount, At
  <2> DEFINE l == Local(step, call[c].of, 0, call[c].number, None)
  <2>3. LocalOK(c, l)
    BY <2>2 DEF Local, LocalOK, Steps
  <2> HIDE DEF l
  <2>4. call' = [call EXCEPT ![c] = l]
    BY <2>1 DEF l
  <2> QED BY <1>1, <2>3, <2>4, QuietStepKeeps
<1>3. CASE CountAccounts(c)
  <2> DEFINE l == Local("issued", call[c].of, NextSeq(accounts), call[c].number, None)
  <2>1. LocalOK(c, call[c]) /\ call[c].step = "count" /\ call' = [call EXCEPT ![c] = l]
    BY <1>3 DEF Inv, CountAccounts, At
  <2>2. NextSeq(accounts) \in Nat
    BY DrawnIsNatural
  <2>3. LocalOK(c, l)
    BY <2>1, <2>2 DEF Local, LocalOK, Steps
  <2> HIDE DEF l
  <2> QED BY <1>1, <2>1, <2>3, QuietStepKeeps
<1> QED BY <1>2, <1>3

\* The account is there under a new code, or the whole approval is rolled back.
LEMMA CommitIssueKeeps ==
    ASSUME Inv, NEW c \in Calls, CommitIssue(c)
    PROVE  Inv'
<1> DEFINE l == call[c]
<1> DEFINE voucher == Voucher(l.number, "JRV", "posted", TRUE, l.of, Premium)
<1> DEFINE account == [client |-> l.of, code |-> l.to]
<1> DEFINE taken == l.to # 0 /\ \E a \in Entered(accounts) : accounts[a].code = l.to
<1>1. LocalOK(c, l) /\ l.step = "issued"
  BY DEF Inv, CommitIssue, At
<1>2. l.of \in Clients /\ l.to \in Nat /\ l.number \in Nat /\ vouchers[c] = None
  BY <1>1, NoVoucherYet DEF LocalOK
<1>3. CASE taken
  BY <1>3, FailKeeps DEF CommitIssue
<1>4. CASE ~ taken
  <2>1. voucher \in VoucherRow
    BY <1>2, PremiumIsEntries, VoucherIsARow DEF VoucherTypes
  <2>2. account \in AccountRow /\ account.code = l.to
    BY <1>2 DEF AccountRow
  <2>3. /\ vouchers' = [vouchers EXCEPT ![c] = voucher] /\ Finish(c) /\ UNCHANGED <<runs, txns>>
        /\ accounts' = accounts \/ (l.to # 0 /\ accounts' = [accounts EXCEPT ![c] = account])
    BY <1>4 DEF CommitIssue, IssueVoucher
  <2>4. l.to # 0 => \A a \in Entered(accounts) : accounts[a].code # l.to
    BY <1>4
  <2> HIDE DEF voucher, account, taken, l
  <2>5. RowsMove(c) /\ vouchers' \in [Calls -> VoucherRow \union {None}]
    BY <1>2, <2>1, <2>3, PostKeepsRows
  <2>6. RunIsVouched' /\ OneRunPerPeriod' /\ MatchedIsCash'
    BY <2>3, <2>5, VouchedStays
  <2>7. accounts \in [Calls -> AccountRow \union {None}] /\ CodesAreDistinct
    BY DEF Inv, TypeOK
  <2>8. CodesAreDistinct' /\ accounts' \in [Calls -> AccountRow \union {None}]
    <3>1. CASE accounts' = accounts
      BY <2>7, <3>1 DEF CodesAreDistinct, Entered
    <3>2. CASE l.to # 0 /\ accounts' = [accounts EXCEPT ![c] = account]
      <4>1. /\ accounts' \in [Calls -> AccountRow \union {None}]
            /\ accounts'[c] = account /\ \A d \in Calls : d # c => accounts'[d] = accounts[d]
        BY <2>2, <2>7, <3>2
      <4>2. \A a, b \in Calls : accounts[a] # None /\ accounts[b] # None /\ accounts[a].code = accounts[b].code => a = b
        BY <2>7 DEF CodesAreDistinct, Entered
      <4>3. \A a \in Calls : accounts[a] # None => accounts[a].code # account.code
        BY <2>2, <2>4, <2>7, <3>2 DEF Entered
      <4>4. \A a, b \in Calls :
                accounts'[a] # None /\ accounts'[b] # None /\ accounts'[a].code = accounts'[b].code => a = b
        BY <4>1, <4>2, <4>3
      <4> QED BY <4>1, <4>4 DEF CodesAreDistinct, Entered
    <3> QED BY <2>3, <3>1, <3>2
  <2>9. runs' \in [Calls -> RunRow \union {None}] /\ txns' \in [TxnIds -> TxnRow \union {None}]
    BY <2>3 DEF Inv, TypeOK
  <2> QED BY <2>3, <2>5, <2>6, <2>8, <2>9, FinishKeeps
<1> QED BY <1>3, <1>4

-----------------------------------------------------------------------------
LEMMA NextKeeps == Inv /\ [Next]_vars => Inv'
<1> SUFFICES ASSUME Inv, [Next]_vars PROVE Inv'
  OBVIOUS
<1>1. ASSUME NEW c \in Calls, StartVoucher(c) \/ StartPayroll(c) \/ StartBank(c) \/ Crash(c) PROVE Inv'
  BY <1>1, StartVoucherKeeps, StartPayrollKeeps, StartBankKeeps, CrashKeeps
<1>2. ASSUME NEW c \in Calls, Continue(c) PROVE Inv'
  BY <1>2, CommitVoucherKeeps, CommitUpdateKeeps, CommitApprovalKeeps, CommitRunKeeps, CommitLineKeeps,
     CommitPostKeeps, CommitRemoveKeeps, CommitMatchKeeps, LookupKeeps, CommitIssueKeeps DEF Continue
<1>3. CASE UNCHANGED vars
  BY <1>3 DEF vars, rows, Inv, TypeOK, RunIsVouched, OneRunPerPeriod, CodesAreDistinct, MatchedIsCash,
     Entered, LocalOK, Cash
<1> QED BY <1>1, <1>2, <1>3 DEF Next

\* The invariant holds in every behaviour of the API.
THEOREM BooksSafe == Spec => []Inv
<1> QED BY InitHolds, NextKeeps, PTL DEF Spec

\* The columns of vouchers, payroll runs, bank transactions and accounts hold what
\* they are declared to hold.
THEOREM BooksTyped == Spec => []TypeOK
<1>1. Inv => TypeOK
  BY DEF Inv
<1> QED BY <1>1, BooksSafe, PTL

\* However approvals that open a client's account interleave, no code of the chart
\* is given twice.
THEOREM CodesAlwaysDistinct == Spec => []CodesAreDistinct
<1>1. Inv => CodesAreDistinct
  BY DEF Inv
<1> QED BY <1>1, BooksSafe, PTL

\* However matching, importing and editing interleave, a matched bank line names a
\* receipt or a payment that is there.
THEOREM MatchedAlwaysCash == Spec => []MatchedIsCash
<1>1. Inv => MatchedIsCash
  BY DEF Inv
<1> QED BY <1>1, BooksSafe, PTL

-----------------------------------------------------------------------------
(* The statements                                                            *)

\* Sides that differ by a halala at most, and by nothing in what the application
\* posts itself.
Even(row) ==
    /\ Difference(row.lines) \in -1..1
    /\ row.auto = TRUE => Difference(row.lines) = 0

\* A call that writes lines has compared their sides, and edits no voucher that the
\* application posted.
LinesOK(l) ==
    /\ l.step \in {"create", "edit"} => Difference(l.lines) \in -1..1
    /\ l.step = "edit" => vouchers[l.of].auto = FALSE

EvenInv ==
    /\ \A v \in Entered(vouchers) : Even(vouchers[v])
    /\ \A c \in Calls : LinesOK(call[c])

\* One call moves; a voucher that is there stays by hand or not, and is even.
LEMMA EvenMoves ==
    ASSUME Inv, EvenInv, NEW c \in Calls, NEW l, call' = [call EXCEPT ![c] = l], LinesOK(l)',
           DOMAIN vouchers' = Calls,
           \A v \in Calls : vouchers[v] # None => vouchers'[v] # None /\ vouchers'[v].auto = vouchers[v].auto,
           \A v \in Calls : vouchers'[v] # None => vouchers'[v] = vouchers[v] \/ Even(vouchers'[v])
    PROVE  EvenInv'
<1>1. /\ call'[c] = l /\ \A d \in Calls : d # c => call'[d] = call[d]
      /\ DOMAIN vouchers = Calls
  BY DEF Inv, TypeOK
<1>2. ASSUME NEW d \in Calls PROVE LinesOK(call[d])'
  <2>1. CASE d = c
    BY <1>1, <2>1
  <2>2. CASE d # c
    <3>1. PICK k : k = call[d] /\ k = call'[d] /\ LinesOK(k) /\ LocalOK(d, k)
      BY <1>1, <2>2 DEF Inv, EvenInv
    <3>2. LinesOK(k)'
      BY <3>1 DEF LinesOK, LocalOK
    <3> QED BY <3>1, <3>2
  <2> QED BY <2>1, <2>2
<1>3. ASSUME NEW v \in Calls, vouchers'[v] # None PROVE Even(vouchers'[v])
  BY <1>1, <1>3 DEF EvenInv, Entered
<1> QED BY <1>1, <1>2, <1>3 DEF EvenInv, Entered, Even

\* Steps that write no voucher.
LEMMA EvenRests ==
    ASSUME Inv, EvenInv, NEW c \in Calls, NEW l, call' = [call EXCEPT ![c] = l], LinesOK(l),
           UNCHANGED vouchers
    PROVE  EvenInv'
<1>1. LinesOK(l)' /\ DOMAIN vouchers' = Calls
  BY DEF LinesOK, Inv, TypeOK
<1> QED BY <1>1, EvenMoves

LEMMA OverIsEven == LinesOK(Over) /\ LinesOK(Over)'
BY DEF Over, Local, LinesOK

LEMMA StartKeepsEven ==
    ASSUME Inv, EvenInv, NEW c \in Calls, StartVoucher(c) \/ StartPayroll(c) \/ StartBank(c)
    PROVE  EvenInv'
<1>1. UNCHANGED vouchers
  BY DEF StartVoucher, StartPayroll, StartBank, CreateJournal, CreateManualVoucher, UpdateManualVoucher,
         ApproveVoucher, ApprovePolicy, CreateRun, UpdateLine, PostRun, RemoveRun, ImportTransactions,
         Match, SetStatus, Begin, rows
<1>2. ASSUME NEW step, NEW of, NEW to, NEW number, NEW lines,
             call' = [call EXCEPT ![c] = Local(step, of, to, number, lines)],
             step \in {"create", "edit"} => Difference(lines) \in -1..1,
             step = "edit" => vouchers[of].auto = FALSE
      PROVE  EvenInv'
  <2>1. LinesOK(Local(step, of, to, number, lines))
    BY <1>2 DEF LinesOK, Local
  <2> QED BY <1>1, <1>2, <2>1, EvenRests
<1>3. CASE StartVoucher(c)
  <2>1. ASSUME NEW lines \in Lines, CreateJournal(c, lines) PROVE EvenInv'
    BY <1>2, <2>1 DEF CreateJournal, Begin, Arrive, Resolves
  <2>2. ASSUME NEW type \in Kinds, NEW lines \in Lines, CreateManualVoucher(c, type, lines) PROVE EvenInv'
    BY <1>2, <2>2 DEF CreateManualVoucher, Begin, Arrive, Resolves
  <2>3. ASSUME NEW v \in Calls, NEW lines \in Lines, UpdateManualVoucher(c, v, lines) PROVE EvenInv'
    <3>1. vouchers[v].auto = FALSE
      <4>1. vouchers[v] \in VoucherRow /\ ~ vouchers[v].auto
        BY <2>3 DEF UpdateManualVoucher, Inv, TypeOK
      <4> QED BY <4>1 DEF VoucherRow
    <3> QED BY <1>2, <2>3, <3>1 DEF UpdateManualVoucher, Begin, Arrive, Resolves
  <2>4. ASSUME NEW v \in Calls, ApproveVoucher(c, v) PROVE EvenInv'
    BY <1>2, <2>4 DEF ApproveVoucher, Begin, Arrive
  <2>5. ASSUME NEW client \in Clients, ApprovePolicy(c, client) PROVE EvenInv'
    BY <1>2, <2>5 DEF ApprovePolicy, Begin, Arrive
  <2> QED BY <1>3, <2>1, <2>2, <2>3, <2>4, <2>5 DEF StartVoucher
<1>4. CASE StartPayroll(c)
  <2>1. ASSUME NEW period \in Periods, CreateRun(c, period) PROVE EvenInv'
    BY <1>2, <2>1 DEF CreateRun, Begin, Arrive
  <2>2. ASSUME NEW r \in Calls, NEW net \in Nets, UpdateLine(c, r, net) PROVE EvenInv'
    BY <1>2, <2>2 DEF UpdateLine, Begin, Arrive
  <2>3. ASSUME NEW r \in Calls, PostRun(c, r) PROVE EvenInv'
    BY <1>2, <2>3 DEF PostRun, Begin, Arrive
  <2>4. ASSUME NEW r \in Calls, RemoveRun(c, r) PROVE EvenInv'
    BY <1>2, <2>4 DEF RemoveRun, Begin, Arrive
  <2> QED BY <1>4, <2>1, <2>2, <2>3, <2>4 DEF StartPayroll
<1>5. CASE StartBank(c)
  <2>1. ASSUME NEW t \in TxnIds, NEW v \in Calls, Match(c, t, v) PROVE EvenInv'
    BY <1>2, <2>1 DEF Match, Begin, Arrive
  <2>2. ASSUME ~ \E t \in TxnIds, v \in Calls : Match(c, t, v) PROVE call' = [call EXCEPT ![c] = Over]
    BY <1>5, <2>2 DEF StartBank, ImportTransactions, SetStatus, Arrive
  <2> QED BY <1>1, <2>1, <2>2, EvenRests, OverIsEven
<1> QED BY <1>3, <1>4, <1>5

\* The sum over three names of accounts, and over two.
LEMMA PostedByTheApplication ==
    /\ Difference(Premium) = 0
    /\ \A n \in Int : Difference([salaries |-> n, cash |-> 0 - n]) = 0
<1>1. Difference(Premium) = 0
  <2>1. PICK f : f = Premium
    OBVIOUS
  <2>2. DOMAIN f = {"clients", "trust", "income"} /\ f["clients"] = 3 /\ f["trust"] = -2 /\ f["income"] = -1
    BY <2>1 DEF Premium
  <2>3. SumFunctionOnSet(f, {"clients", "trust", "income"}) = f["clients"] + f["trust"] + f["income"]
    BY <2>2, SumOfThree
  <2> QED BY <2>1, <2>2, <2>3 DEF Difference, SumFunction
<1>2. ASSUME NEW n \in Int PROVE Difference([salaries |-> n, cash |-> 0 - n]) = 0
  <2>1. PICK f : f = [salaries |-> n, cash |-> 0 - n]
    OBVIOUS
  <2>2. DOMAIN f = {"salaries", "cash"} /\ f["salaries"] = n /\ f["cash"] = 0 - n
    BY <2>1
  <2>3. SumFunctionOnSet(f, {"salaries", "cash"}) = f["salaries"] + f["cash"]
    BY <2>2, SumOfTwo
  <2> QED BY <2>1, <2>2, <2>3 DEF Difference, SumFunction
<1> QED BY <1>1, <1>2

\* A voucher is written: a new one, or one that was there over its own.
LEMMA WrittenKeepsEven ==
    ASSUME Inv, EvenInv, NEW c \in Calls, NEW v \in Calls, NEW row,
           Finish(c), vouchers' = [vouchers EXCEPT ![v] = row], row # None, Even(row),
           vouchers[v] # None => row.auto = vouchers[v].auto
    PROVE  EvenInv'
<1>1. /\ DOMAIN vouchers' = Calls /\ vouchers'[v] = row
      /\ \A w \in Calls : w # v => vouchers'[w] = vouchers[w]
  BY DEF Inv, TypeOK
<1>2. call' = [call EXCEPT ![c] = Over]
  BY DEF Finish
<1>3. \A w \in Calls : vouchers[w] # None => vouchers'[w] # None /\ vouchers'[w].auto = vouchers[w].auto
  BY <1>1
<1>4. \A w \in Calls : vouchers'[w] # None => vouchers'[w] = vouchers[w] \/ Even(vouchers'[w])
  BY <1>1
<1> QED BY <1>1, <1>2, <1>3, <1>4, OverIsEven, EvenMoves

LEMMA ContinueKeepsEven ==
    ASSUME Inv, EvenInv, NEW c \in Calls, Continue(c)
    PROVE  EvenInv'
<1>1. LinesOK(call[c]) /\ LocalOK(c, call[c]) /\ DOMAIN vouchers = Calls
  BY DEF Inv, TypeOK, EvenInv
<1>2. CASE Finish(c) /\ UNCHANGED vouchers
  BY <1>2, EvenRests, OverIsEven DEF Finish
<1>3. ASSUME NEW step \in {"count", "issued"}, NEW of, NEW to, NEW number,
             call' = [call EXCEPT ![c] = Local(step, of, to, number, None)], UNCHANGED vouchers
      PROVE  EvenInv'
  <2>1. LinesOK(Local(step, of, to, number, None))
    BY DEF LinesOK, Local
  <2> QED BY <1>3, <2>1, EvenRests
<1>4. CASE FindAccount(c) \/ CountAccounts(c)
  <2>1. UNCHANGED vouchers
    BY <1>4 DEF FindAccount, CountAccounts, rows
  <2> QED BY <1>3, <1>4, <2>1 DEF FindAccount, CountAccounts
<1>5. CASE CommitRun(c) \/ CommitLine(c) \/ CommitRemove(c) \/ CommitMatch(c)
  BY <1>2, <1>5 DEF CommitRun, CommitLine, CommitRemove, CommitMatch, Fail, rows
<1>6. CASE CommitVoucher(c)
  <2> DEFINE l == call[c]
             row == Voucher(l.number, l.of, l.to, FALSE, None, l.lines)
  <2>1. Finish(c) /\ vouchers' = [vouchers EXCEPT ![c] = row] /\ l.step = "create" /\ vouchers[c] = None
    BY <1>1, <1>6 DEF CommitVoucher, At, LocalOK
  <2>2. row \in VoucherRow
    BY <1>1, <2>1, VoucherIsARow DEF LocalOK
  <2>3. row # None /\ row.auto = FALSE /\ Even(row)
    BY <1>1, <2>1, <2>2 DEF LinesOK, Even, Voucher
  <2> HIDE DEF row
  <2> QED BY <2>1, <2>3, WrittenKeepsEven
<1>7. CASE CommitUpdate(c)
  <2> DEFINE l == call[c]
             row == [vouchers[l.of] EXCEPT !.lines = l.lines]
  <2>1. /\ Finish(c) /\ vouchers' = [vouchers EXCEPT ![l.of] = row] /\ l.step = "edit"
        /\ l.of \in Calls /\ vouchers[l.of] # None /\ vouchers[l.of].auto = FALSE
        /\ Difference(l.lines) \in -1..1 /\ l.lines \in Entries
    BY <1>1, <1>7 DEF CommitUpdate, At, LocalOK, LinesOK
  <2>2. vouchers[l.of] \in VoucherRow
    BY <2>1 DEF Inv, TypeOK
  <2>3. row \in VoucherRow /\ row.auto = FALSE /\ row.lines = l.lines
    BY <2>1, <2>2 DEF VoucherRow
  <2>4. row # None /\ Even(row)
    BY <2>1, <2>3 DEF Even
  <2> HIDE DEF row, l
  <2> QED BY <2>1, <2>3, <2>4, WrittenKeepsEven
<1>8. CASE CommitApproval(c)
  <2> DEFINE l == call[c]
             row == [vouchers[l.of] EXCEPT !.status = "posted"]
  <2>1. /\ Finish(c) /\ vouchers' = [vouchers EXCEPT ![l.of] = row]
        /\ l.of \in Calls /\ vouchers[l.of] # None
    BY <1>1, <1>8 DEF CommitApproval, At, LocalOK
  <2>2. vouchers[l.of] \in VoucherRow /\ Even(vouchers[l.of])
    BY <1>1, <2>1 DEF Inv, TypeOK, EvenInv, Entered
  <2>3. row \in VoucherRow /\ row.auto = vouchers[l.of].auto /\ row.lines = vouchers[l.of].lines
    BY <2>2 DEF VoucherRow
  <2>4. row # None /\ Even(row)
    BY <2>2, <2>3 DEF Even
  <2> HIDE DEF row, l
  <2> QED BY <2>1, <2>3, <2>4, WrittenKeepsEven
<1>9. CASE CommitPost(c)
  <2>1. CASE Fail(c)
    BY <1>2, <2>1 DEF Fail, rows
  <2>2. CASE ~ Fail(c)
    <3>1. /\ Finish(c) /\ vouchers' = [vouchers EXCEPT ![c] = Salaries(c)]
          /\ call[c].step = "post"
      BY <1>9, <2>2 DEF CommitPost, At
    <3>2. vouchers[c] = None /\ call[c].to \in Int /\ call[c].number \in Nat /\ call[c].of \in Calls
      BY <1>1, <3>1 DEF LocalOK
    <3>3. PICK row, lines : row = Salaries(c) /\ lines = [salaries |-> call[c].to, cash |-> 0 - call[c].to]
      OBVIOUS
    <3>4. row = Voucher(call[c].number, "JRV", "posted", TRUE, call[c].of, lines)
      BY <3>3 DEF Salaries
    <3>5. lines \in Entries /\ Difference(lines) = 0
      BY <3>2, <3>3, SalariesAreEntries, PostedByTheApplication
    <3>6. row \in VoucherRow
      BY <3>2, <3>4, <3>5, VoucherIsARow DEF VoucherTypes
    <3>7. row # None /\ row.lines = lines
      BY <3>4, <3>6 DEF Voucher
    <3>8. Even(row)
      BY <3>5, <3>7 DEF Even
    <3> QED BY <3>1, <3>2, <3>3, <3>7, <3>8, WrittenKeepsEven
  <2> QED BY <2>1, <2>2
<1>10. CASE CommitIssue(c)
  <2>1. CASE Fail(c)
    BY <1>2, <2>1 DEF Fail, rows
  <2>2. CASE ~ Fail(c)
    <3> DEFINE row == Voucher(call[c].number, "JRV", "posted", TRUE, call[c].of, Premium)
    <3>1. /\ Finish(c) /\ vouchers' = [vouchers EXCEPT ![c] = row]
          /\ call[c].step = "issued"
      BY <1>10, <2>2 DEF CommitIssue, IssueVoucher, At
    <3>2. vouchers[c] = None /\ call[c].number \in Nat /\ call[c].of \in Clients
      BY <1>1, <3>1 DEF LocalOK
    <3>3. row \in VoucherRow
      BY <3>2, PremiumIsEntries, VoucherIsARow DEF VoucherTypes
    <3>4. row # None /\ row.lines = Premium
      BY <3>3 DEF Voucher
    <3> HIDE DEF row
    <3>5. Even(row)
      BY <3>4, PostedByTheApplication DEF Even
    <3> QED BY <3>1, <3>2, <3>4, <3>5, WrittenKeepsEven
  <2> QED BY <2>1, <2>2
<1> QED BY <1>4, <1>5, <1>6, <1>7, <1>8, <1>9, <1>10 DEF Continue

LEMMA EvenInit == Init => EvenInv
<1> SUFFICES ASSUME Init PROVE EvenInv
  OBVIOUS
<1>1. Entered(vouchers) = {}
  BY DEF Init, Entered
<1>2. call = [c \in Calls |-> Idle] /\ LinesOK(Idle)
  BY DEF Init, Idle, Local, LinesOK
<1> QED BY <1>1, <1>2 DEF EvenInv

LEMMA EvenNext == Inv /\ EvenInv /\ [Next]_vars => EvenInv'
<1> SUFFICES ASSUME Inv, EvenInv, [Next]_vars PROVE EvenInv'
  OBVIOUS
<1>1. ASSUME NEW c \in Calls, Crash(c) PROVE EvenInv'
  BY <1>1, EvenRests, OverIsEven DEF Crash, rows
<1>2. CASE UNCHANGED vars
  BY <1>2 DEF vars, rows, EvenInv, Even, LinesOK, Entered
<1> QED BY <1>1, <1>2, StartKeepsEven, ContinueKeepsEven DEF Next

\* What a voucher moves in an account is a number, and its sides are the sum of what
\* it moves in all seven.
Moved(v) == Difference(vouchers[v].lines)

LEMMA AccountsAreFew == IsFiniteSet(Accounts)
<1> DEFINE T == (({"cash"} \union {"clients"}) \union {"client"}) \union {"trust"}
           A == (T \union {"capital"}) \union {"income"}
<1>1. Accounts = A \union {"salaries"}
  BY AccountNames
<1>2. IsFiniteSet({"cash"} \union {"clients"})
  <2>1. IsFiniteSet({"cash"})
    BY FS_Singleton
  <2> QED BY <2>1, FS_AddElement
<1>3. IsFiniteSet(({"cash"} \union {"clients"}) \union {"client"})
  BY <1>2, FS_AddElement
<1>4. IsFiniteSet(T)
  BY <1>3, FS_AddElement
<1>5. IsFiniteSet(A)
  <2>1. IsFiniteSet(T \union {"capital"})
    BY <1>4, FS_AddElement
  <2> QED BY <2>1, FS_AddElement
<1>6. IsFiniteSet(A \union {"salaries"})
  BY <1>5, FS_AddElement
<1> QED BY <1>1, <1>6

LEMMA SumOfAccounts ==
    ASSUME NEW f, \A a \in Accounts : f[a] \in Int
    PROVE  SumFunctionOnSet(f, Accounts) = f["cash"] + f["clients"] + f["client"] + f["trust"]
                                           + f["capital"] + f["income"] + f["salaries"]
<1> DEFINE Sum(S) == SumFunctionOnSet(f, S)
           R1 == Accounts \ {"cash"}
           R2 == R1 \ {"clients"}
           R3 == R2 \ {"client"}
           R4 == R3 \ {"trust"}
           T3 == {"capital", "income", "salaries"}
<1>1. /\ f["cash"] \in Int /\ f["clients"] \in Int /\ f["client"] \in Int /\ f["trust"] \in Int
      /\ f["capital"] \in Int /\ f["income"] \in Int /\ f["salaries"] \in Int
  BY AccountNames
<1>2. IsFiniteSet(Accounts)
  BY AccountsAreFew
<1>3. IsFiniteSet(R1) /\ IsFiniteSet(R2) /\ IsFiniteSet(R3)
  BY <1>2, FS_Subset
<1>4. "cash" \in Accounts /\ "clients" \in R1 /\ "client" \in R2 /\ "trust" \in R3
  BY AccountNames
<1>5. R4 = T3
  BY AccountNames
<1>6. \A a \in R1 : f[a] \in Int
  OBVIOUS
<1>7. (\A a \in R2 : f[a] \in Int) /\ (\A a \in R3 : f[a] \in Int)
  OBVIOUS
<1> HIDE DEF Sum
<1>8. Sum(Accounts) = f["cash"] + Sum(R1)
  BY <1>2, <1>4, SumTakes DEF Sum
<1> HIDE DEF R1
<1>9. Sum(R1) = f["clients"] + Sum(R2)
  BY <1>3, <1>4, <1>6, SumTakes DEF Sum
<1> HIDE DEF R2
<1>10. Sum(R2) = f["client"] + Sum(R3)
  BY <1>3, <1>4, <1>7, SumTakes DEF Sum
<1> HIDE DEF R3
<1>11. Sum(R3) = f["trust"] + Sum(R4)
  BY <1>3, <1>4, <1>7, SumTakes DEF Sum
<1>12. Sum(T3) = f["capital"] + f["income"] + f["salaries"]
  BY <1>1, SumOfThree DEF Sum
<1> HIDE DEF R4, T3
<1>13. Sum(R4) = f["capital"] + f["income"] + f["salaries"]
  BY <1>5, <1>12
<1>14. Sum(Accounts) = f["cash"] + f["clients"] + f["client"] + f["trust"]
                       + f["capital"] + f["income"] + f["salaries"]
  BY <1>1, <1>8, <1>9, <1>10, <1>11, <1>13
<1> QED BY <1>14 DEF Sum

LEMMA SidesOfAVoucher ==
    ASSUME Inv, NEW v \in Entered(vouchers)
    PROVE  /\ \A a \in Accounts : On(a, v) \in Int
           /\ Moved(v) = On("cash", v) + On("clients", v) + On("client", v) + On("trust", v)
                         + On("capital", v) + On("income", v) + On("salaries", v)
           /\ Moved(v) \in Int
<1>1. vouchers[v].lines \in Entries
  BY DEF Inv, TypeOK, Entered, VoucherRow
<1>2. PICK lines : lines = vouchers[v].lines /\ DOMAIN lines \subseteq Accounts
                   /\ \A a \in DOMAIN lines : lines[a] \in Int
  BY <1>1 DEF Entries
<1> DEFINE g == [a \in Accounts |-> On(a, v)]
<1>3. /\ \A a \in Accounts : g[a] = On(a, v) /\ g[a] \in Int
      /\ \A a \in DOMAIN lines : g[a] = lines[a]
      /\ \A a \in Accounts \ DOMAIN lines : g[a] = 0
  BY <1>2 DEF On
<1>4. IsFiniteSet(Accounts)
  BY AccountsAreFew
<1> HIDE DEF g
<1>a. PICK R : R = DOMAIN lines
  OBVIOUS
<1>b. /\ R \in SUBSET Accounts /\ DOMAIN lines = R
      /\ \A a \in R : lines[a] \in Int /\ g[a] = lines[a]
      /\ \A a \in Accounts \ R : g[a] = 0
  BY <1>2, <1>3, <1>a
<1>5. SumFunction(lines) = SumFunctionOnSet(g, Accounts) /\ SumFunction(lines) \in Int
  BY <1>4, <1>b, SumSpread
<1>6. SumFunctionOnSet(g, Accounts) = g["cash"] + g["clients"] + g["client"] + g["trust"]
                                      + g["capital"] + g["income"] + g["salaries"]
  BY <1>3, SumOfAccounts
<1>7. /\ g["cash"] = On("cash", v) /\ g["clients"] = On("clients", v)
      /\ g["client"] = On("client", v) /\ g["trust"] = On("trust", v)
      /\ g["capital"] = On("capital", v) /\ g["income"] = On("income", v) /\ g["salaries"] = On("salaries", v)
  BY <1>3, AccountNames
<1>8. Moved(v) = SumFunction(lines)
  BY <1>2 DEF Moved, Difference
<1> QED BY <1>3, <1>5, <1>6, <1>7, <1>8

\* The accounts of a type.
LEMMA Types ==
    /\ {b \in Accounts : AccountType[b] = "asset"} = {"cash", "clients", "client"}
    /\ {b \in Accounts : AccountType[b] = "liability"} = {"trust"}
    /\ {b \in Accounts : AccountType[b] = "equity"} = {"capital"}
    /\ {b \in Accounts : AccountType[b] = "revenue"} = {"income"}
    /\ {b \in Accounts : AccountType[b] = "expense"} = {"salaries"}
BY AccountNames DEF AccountType

LEMMA BalanceOfOne ==
    ASSUME NEW type, NEW a \in Accounts, {b \in Accounts : AccountType[b] = type} = {a}, Balance(a) \in Int
    PROVE  OfType(type) = Balance(a)
<1>1. PICK f : f = [b \in {a} |-> Balance(b)]
  OBVIOUS
<1>2. DOMAIN f = {a} /\ f[a] = Balance(a)
  BY <1>1
<1>3. SumFunctionOnSet(f, {a}) = f[a]
  BY <1>2, SumOfOne
<1> QED BY <1>1, <1>2, <1>3 DEF OfType, SumFunction

LEMMA BalanceOfAssets ==
    ASSUME Balance("cash") \in Int, Balance("clients") \in Int, Balance("client") \in Int
    PROVE  OfType("asset") = Balance("cash") + Balance("clients") + Balance("client")
<1>1. PICK f : f = [b \in {"cash", "clients", "client"} |-> Balance(b)]
  OBVIOUS
<1>2. /\ DOMAIN f = {"cash", "clients", "client"}
      /\ f["cash"] = Balance("cash") /\ f["clients"] = Balance("clients") /\ f["client"] = Balance("client")
  BY <1>1
<1>3. SumFunctionOnSet(f, {"cash", "clients", "client"}) = f["cash"] + f["clients"] + f["client"]
  BY <1>2, SumOfThree
<1> QED BY <1>1, <1>2, <1>3, Types DEF OfType, SumFunction

\* Summed by account and then by voucher, or by voucher and then by account: the two
\* sides of the balance sheet differ by what the sides of the vouchers differ.
LEMMA SidesOfTheBooks ==
    ASSUME Inv
    PROVE  LET d == [v \in Entered(vouchers) |-> Moved(v)]
           IN  OfType("asset") - LiabilitiesAndEquity = SumFunctionOnSet(d, Entered(vouchers))
<1> DEFINE V == Entered(vouchers)
           o(a) == [v \in V |-> On(a, v)]
           d == [v \in V |-> Moved(v)]
           Sum(f) == SumFunctionOnSet(f, V)
<1>1. IsFiniteSet(V)
  BY FS_Subset DEF Inv, TypeOK, Entered
<1>2. ASSUME NEW a \in Accounts PROVE Balance(a) = Sum(o(a)) /\ Balance(a) \in Int
  <2>1. PICK f : f = o(a)
    OBVIOUS
  <2>2. DOMAIN f = V /\ \A v \in V : f[v] \in Int
    BY <2>1, SidesOfAVoucher
  <2>3. SumFunctionOnSet(f, V) \in Int
    BY <1>1, <2>2, SumType
  <2> QED BY <2>1, <2>2, <2>3 DEF Balance, SumFunction
<1>3. PICK fa, fb, fk, fc, fd, fe, ff :
          /\ fa = o("cash") /\ fb = o("clients") /\ fk = o("client") /\ fc = o("trust")
          /\ fd = o("capital") /\ fe = o("income") /\ ff = o("salaries")
  OBVIOUS
<1>4. PICK g1, g2, g3, g4, g5, g6 :
          /\ g1 = [v \in V |-> fa[v] + fb[v]] /\ g2 = [v \in V |-> g1[v] + fk[v]]
          /\ g3 = [v \in V |-> g2[v] + fc[v]] /\ g4 = [v \in V |-> g3[v] + fd[v]]
          /\ g5 = [v \in V |-> g4[v] + fe[v]] /\ g6 = [v \in V |-> g5[v] + ff[v]]
  OBVIOUS
<1>5. \A v \in V : /\ fa[v] \in Int /\ fb[v] \in Int /\ fk[v] \in Int /\ fc[v] \in Int
                   /\ fd[v] \in Int /\ fe[v] \in Int /\ ff[v] \in Int
  BY <1>3, SidesOfAVoucher, AccountNames
<1>6. \A v \in V : /\ g1[v] = fa[v] + fb[v] /\ g2[v] = g1[v] + fk[v] /\ g3[v] = g2[v] + fc[v]
                   /\ g4[v] = g3[v] + fd[v] /\ g5[v] = g4[v] + fe[v] /\ g6[v] = g5[v] + ff[v]
  BY <1>4
<1>7. \A v \in V : /\ g1[v] \in Int /\ g2[v] \in Int /\ g3[v] \in Int /\ g4[v] \in Int
                   /\ g5[v] \in Int /\ g6[v] \in Int
  BY <1>5, <1>6
<1>8. \A v \in V : d[v] \in Int /\ g6[v] = d[v]
  <2> TAKE v \in V
  <2>1. /\ fa[v] = On("cash", v) /\ fb[v] = On("clients", v) /\ fk[v] = On("client", v)
        /\ fc[v] = On("trust", v) /\ fd[v] = On("capital", v) /\ fe[v] = On("income", v)
        /\ ff[v] = On("salaries", v)
    BY <1>3
  <2>2. /\ Moved(v) = On("cash", v) + On("clients", v) + On("client", v) + On("trust", v)
                      + On("capital", v) + On("income", v) + On("salaries", v)
        /\ Moved(v) \in Int
    BY SidesOfAVoucher
  <2>3. d[v] = Moved(v)
    OBVIOUS
  <2>4. g6[v] = fa[v] + fb[v] + fk[v] + fc[v] + fd[v] + fe[v] + ff[v]
    BY <1>5, <1>6
  <2> QED BY <2>1, <2>2, <2>3, <2>4
<1> HIDE DEF V, d
<1>9. SumFunctionOnSet(g1, V) = SumFunctionOnSet(fa, V) + SumFunctionOnSet(fb, V)
  BY <1>1, <1>5, <1>6, SumPlus
<1>10. SumFunctionOnSet(g2, V) = SumFunctionOnSet(g1, V) + SumFunctionOnSet(fk, V)
  BY <1>1, <1>5, <1>6, <1>7, SumPlus
<1>11. SumFunctionOnSet(g3, V) = SumFunctionOnSet(g2, V) + SumFunctionOnSet(fc, V)
  BY <1>1, <1>5, <1>6, <1>7, SumPlus
<1>12. SumFunctionOnSet(g4, V) = SumFunctionOnSet(g3, V) + SumFunctionOnSet(fd, V)
  BY <1>1, <1>5, <1>6, <1>7, SumPlus
<1>13. SumFunctionOnSet(g5, V) = SumFunctionOnSet(g4, V) + SumFunctionOnSet(fe, V)
  BY <1>1, <1>5, <1>6, <1>7, SumPlus
<1>14. SumFunctionOnSet(g6, V) = SumFunctionOnSet(g5, V) + SumFunctionOnSet(ff, V)
  BY <1>1, <1>5, <1>6, <1>7, SumPlus
<1>15. SumFunctionOnSet(g6, V) = SumFunctionOnSet(d, V)
  BY <1>1, <1>8, SumSame
<1>16. /\ Balance("cash") = SumFunctionOnSet(fa, V) /\ Balance("clients") = SumFunctionOnSet(fb, V)
       /\ Balance("client") = SumFunctionOnSet(fk, V) /\ Balance("trust") = SumFunctionOnSet(fc, V)
       /\ Balance("capital") = SumFunctionOnSet(fd, V) /\ Balance("income") = SumFunctionOnSet(fe, V)
       /\ Balance("salaries") = SumFunctionOnSet(ff, V)
  BY <1>2, <1>3, AccountNames
<1>17. /\ Balance("cash") \in Int /\ Balance("clients") \in Int /\ Balance("client") \in Int
       /\ Balance("trust") \in Int /\ Balance("capital") \in Int /\ Balance("income") \in Int
       /\ Balance("salaries") \in Int
  BY <1>2, AccountNames
<1>18. /\ OfType("asset") = Balance("cash") + Balance("clients") + Balance("client")
       /\ OfType("liability") = Balance("trust") /\ OfType("equity") = Balance("capital")
       /\ OfType("revenue") = Balance("income") /\ OfType("expense") = Balance("salaries")
  BY <1>17, BalanceOfOne, BalanceOfAssets, Types, AccountNames
<1>19. OfType("asset") - LiabilitiesAndEquity
          = Balance("cash") + Balance("clients") + Balance("client") + Balance("trust")
            + Balance("capital") + Balance("income") + Balance("salaries")
  BY <1>17, <1>18 DEF LiabilitiesAndEquity, NetIncome
<1>20. OfType("asset") - LiabilitiesAndEquity = SumFunctionOnSet(d, V)
  BY <1>9, <1>10, <1>11, <1>12, <1>13, <1>14, <1>15, <1>16, <1>17, <1>19
<1> QED BY <1>20 DEF d, V

LEMMA EvenBooksBalance == Inv /\ EvenInv => BooksBalance
<1> SUFFICES ASSUME Inv, EvenInv PROVE BooksBalance
  OBVIOUS
<1> DEFINE V == Entered(vouchers)
           R == {v \in V : ~ vouchers[v].auto}
<1>1. IsFiniteSet(V)
  BY FS_Subset DEF Inv, TypeOK, Entered
<1>2. PICK d : d = [v \in V |-> Moved(v)]
  OBVIOUS
<1>3. \A v \in V : d[v] \in -1..1
  BY <1>2 DEF EvenInv, Even, Moved
<1>4. ASSUME NEW v \in V \ R PROVE d[v] = 0
  <2>1. vouchers[v].auto = TRUE
    BY <1>4 DEF Inv, TypeOK, Entered, VoucherRow
  <2> QED BY <1>2, <2>1 DEF EvenInv, Even, Moved
<1>5. OfType("asset") - LiabilitiesAndEquity = SumFunctionOnSet(d, V)
  BY <1>2, SidesOfTheBooks
<1>6. R \in SUBSET V
  OBVIOUS
<1>7. ByHand(V) = Cardinality(R)
  BY DEF ByHand
<1> HIDE DEF V, R
<1>8. SumFunctionOnSet(d, V) \in (0 - Cardinality(R))..Cardinality(R)
  BY <1>1, <1>3, <1>4, <1>6, SumWithin
<1>9. OfType("asset") - LiabilitiesAndEquity \in (0 - ByHand(V))..ByHand(V)
  BY <1>5, <1>7, <1>8
<1> QED BY <1>9 DEF BooksBalance, V

\* Vouchers that do not move cash add nothing to its balance; of the others the cash
\* flow statement takes the other accounts.
LEMMA EvenCashReconciles == Inv /\ EvenInv => CashReconciles
<1> SUFFICES ASSUME Inv, EvenInv PROVE CashReconciles
  OBVIOUS
<1> DEFINE V == Entered(vouchers)
           M == CashMoves
           R == {v \in M : ~ vouchers[v].auto}
<1>1. IsFiniteSet(V) /\ IsFiniteSet(M) /\ M \in SUBSET V /\ R \in SUBSET M
  BY FS_Subset DEF Inv, TypeOK, Entered, CashMoves
<1>2. PICK f, fm, g, h : /\ f = [v \in V |-> On("cash", v)] /\ fm = [v \in M |-> On("cash", v)]
                         /\ g = [v \in M |-> 0 - Moved(v)]
                         /\ h = [v \in M |-> On("cash", v) - Difference(vouchers[v].lines)]
  OBVIOUS
<1>3. \A v \in V : On("cash", v) \in Int /\ Moved(v) \in -1..1
  BY SidesOfAVoucher, AccountNames DEF EvenInv, Even, Moved
<1>4. /\ DOMAIN f = V /\ DOMAIN h = M
      /\ \A v \in M : /\ f[v] = fm[v] /\ fm[v] \in Int /\ g[v] \in -1..1 /\ g[v] \in Int
                      /\ h[v] = fm[v] + g[v]
      /\ \A v \in V \ M : f[v] = 0
  <2>1. \A v \in V \ M : On("cash", v) = 0
    BY DEF CashMoves
  <2> QED BY <1>1, <1>2, <1>3, <2>1 DEF Moved
<1>5. ASSUME NEW v \in M \ R PROVE g[v] = 0
  <2>1. vouchers[v].auto = TRUE
    BY <1>5 DEF Inv, TypeOK, Entered, VoucherRow, CashMoves
  <2> QED BY <1>1, <1>2, <1>5, <2>1 DEF EvenInv, Even, Moved
<1>6. ByHand(M) = Cardinality(R) /\ M = {v \in V : On("cash", v) # 0}
  BY DEF ByHand, CashMoves
<1>7. Balance("cash") = SumFunctionOnSet(f, V) /\ NetChange = SumFunctionOnSet(h, M)
  BY <1>2, <1>4 DEF Balance, NetChange, SumFunction
<1> HIDE DEF V, M, R
<1>8. SumFunctionOnSet(f, V) = SumFunctionOnSet(fm, M)
  BY <1>1, <1>4, SumPadded
<1>9. SumFunctionOnSet(h, M) = SumFunctionOnSet(fm, M) + SumFunctionOnSet(g, M)
  BY <1>1, <1>4, SumPlus
<1>10. SumFunctionOnSet(fm, M) \in Int
  BY <1>1, <1>4, SumType
<1>11. /\ SumFunctionOnSet(g, M) \in Int
       /\ SumFunctionOnSet(g, M) \in (0 - Cardinality(R))..Cardinality(R)
  BY <1>1, <1>4, <1>5, SumWithin
<1>12. NetChange - Balance("cash") = SumFunctionOnSet(g, M)
  BY <1>7, <1>8, <1>9, <1>10, <1>11
<1>13. NetChange - Balance("cash") \in (0 - ByHand(M))..ByHand(M)
  BY <1>6, <1>11, <1>12
<1> QED BY <1>6, <1>13 DEF CashReconciles, V

\* However drafts are edited and approved, payrolls and approvals post and calls die:
\* the balance sheet balances and the cash flow statement ends at the balance of cash,
\* but for a halala for each voucher entered by hand.
THEOREM StatementsAlwaysAgree == Spec => []StatementsAgree
<1>1. Init => Inv /\ EvenInv
  BY InitHolds, EvenInit
<1>2. Inv /\ EvenInv /\ [Next]_vars => (Inv /\ EvenInv)'
  BY NextKeeps, EvenNext
<1>3. Inv /\ EvenInv => StatementsAgree
  BY EvenBooksBalance, EvenCashReconciles DEF StatementsAgree
<1> QED BY <1>1, <1>2, <1>3, PTL DEF Spec

-----------------------------------------------------------------------------
(* Calls served one at a time                                                *)

\* A call that has not ended has written nothing of its own.
OwnRows ==
    \A c \in Calls : call[c].step # "done" =>
        /\ runs[c] = None /\ accounts[c] = None
        /\ \A t \in TxnIds : t[1] = c => txns[t] = None

NoAccount(client) == \A a \in Calls : accounts[a] # None => accounts[a].client # client
Undrafted(r) == runs[r] # None => runs[r].status = "draft"
Taken(b, v) == \E t \in TxnIds : txns[t] # None /\ txns[t] = Txn(b, "matched", v)

\* What a call served alone has read is still so when it writes.
SerialOK(l) ==
    /\ l.step \in {"create", "post", "issue", "count", "issued"} => l.number = NextSeq(vouchers)
    /\ l.step = "edit" => vouchers[l.of].auto = FALSE
    /\ l.step \in {"line", "remove", "post"} => Undrafted(l.of)
    /\ l.step = "post" => runs[l.of] # None /\ runs[l.of].net = l.to
    /\ l.step = "match" => ~ Taken(txns[l.of].account, l.to)
    /\ l.step = "count" => NoAccount(l.of)
    /\ l.step = "issued" => l.to = 0 \/ (l.to = NextSeq(accounts) /\ NoAccount(l.of))

Resting(c) == call[c].step \in {"idle", "done"}

OneAtATime == \A c, d \in Calls : c # d => Resting(c) \/ Resting(d)

VouchersGapless == {vouchers[v].number : v \in Entered(vouchers)} = 1..Cardinality(Entered(vouchers))
AccountsGapless == {accounts[a].code : a \in Entered(accounts)} = 1..Cardinality(Entered(accounts))

OneAccountEach ==
    \A a, b \in Entered(accounts) : accounts[a].client = accounts[b].client => a = b

MatchedOnce ==
    \A t, u \in Entered(txns) :
        /\ txns[t].status = "matched" /\ txns[u].status = "matched"
        /\ txns[t].account = txns[u].account /\ txns[t].voucher = txns[u].voucher
        => t = u

Tables ==
    /\ VouchersGapless
    /\ AccountsGapless
    /\ OneAccountEach
    /\ MatchedOnce
    /\ RunMatchesVoucher

SerialInv ==
    /\ OneAtATime
    /\ \A c \in Calls : SerialOK(call[c])
    /\ Tables

\* The next member of a set of rows that are numbered one by one.
LEMMA NextNumber ==
    ASSUME NEW S, IsFiniteSet(S), NEW c, c \notin S, NEW N, N = 1..Cardinality(S)
    PROVE  N \union {Cardinality(S) + 1} = 1..Cardinality(S \union {c})
<1>1. Cardinality(S) \in Nat /\ Cardinality(S \union {c}) = Cardinality(S) + 1
  BY FS_AddElement, FS_CardinalityType
<1> QED BY <1>1

LEMMA RowsAreFew ==
    ASSUME Inv
    PROVE  /\ IsFiniteSet(Entered(vouchers)) /\ Entered(vouchers) \subseteq Calls
           /\ IsFiniteSet(Entered(accounts)) /\ Entered(accounts) \subseteq Calls
BY FS_Subset DEF Inv, TypeOK, Entered

\* A voucher is added under the next number.
LEMMA VoucherAdded ==
    ASSUME Inv, VouchersGapless, NEW c \in Calls, NEW row, row # None, vouchers[c] = None,
           vouchers' = [vouchers EXCEPT ![c] = row], row.number = NextSeq(vouchers)
    PROVE  VouchersGapless'
<1>1. /\ IsFiniteSet(Entered(vouchers)) /\ c \notin Entered(vouchers)
      /\ Entered(vouchers) \subseteq Calls
  BY RowsAreFew DEF Entered
<1>2. DOMAIN vouchers = Calls /\ DOMAIN vouchers' = Calls
  BY DEF Inv, TypeOK
<1>3. /\ Entered(vouchers)' = Entered(vouchers) \union {c} /\ vouchers'[c] = row
      /\ \A v \in Entered(vouchers) : vouchers'[v] = vouchers[v]
  BY <1>1, <1>2 DEF Entered
<1>4. PICK S, N : /\ S = Entered(vouchers) /\ N = {vouchers[v].number : v \in S}
                  /\ IsFiniteSet(S) /\ c \notin S
  BY <1>1
<1>5. N = 1..Cardinality(S)
  BY <1>4 DEF VouchersGapless
<1>6. {vouchers'[v].number : v \in S \union {c}} = N \union {vouchers'[c].number}
  BY <1>3, <1>4
<1>7. vouchers'[c].number = Cardinality(S) + 1
  BY <1>3, <1>4 DEF NextSeq
<1>8. N \union {Cardinality(S) + 1} = 1..Cardinality(S \union {c})
  BY <1>4, <1>5, NextNumber
<1> QED BY <1>3, <1>4, <1>6, <1>7, <1>8 DEF VouchersGapless

LEMMA AccountAdded ==
    ASSUME Inv, AccountsGapless, NEW c \in Calls, NEW row, row # None, accounts[c] = None,
           accounts' = [accounts EXCEPT ![c] = row], row.code = NextSeq(accounts)
    PROVE  AccountsGapless'
<1>1. /\ IsFiniteSet(Entered(accounts)) /\ c \notin Entered(accounts)
      /\ Entered(accounts) \subseteq Calls
  BY RowsAreFew DEF Entered
<1>2. DOMAIN accounts = Calls /\ DOMAIN accounts' = Calls
  BY DEF Inv, TypeOK
<1>3. /\ Entered(accounts)' = Entered(accounts) \union {c} /\ accounts'[c] = row
      /\ \A v \in Entered(accounts) : accounts'[v] = accounts[v]
  BY <1>1, <1>2 DEF Entered
<1>4. PICK S, N : /\ S = Entered(accounts) /\ N = {accounts[v].code : v \in S}
                  /\ IsFiniteSet(S) /\ c \notin S
  BY <1>1
<1>5. N = 1..Cardinality(S)
  BY <1>4 DEF AccountsGapless
<1>6. {accounts'[v].code : v \in S \union {c}} = N \union {accounts'[c].code}
  BY <1>3, <1>4
<1>7. accounts'[c].code = Cardinality(S) + 1
  BY <1>3, <1>4 DEF NextSeq
<1>8. N \union {Cardinality(S) + 1} = 1..Cardinality(S \union {c})
  BY <1>4, <1>5, NextNumber
<1> QED BY <1>3, <1>4, <1>6, <1>7, <1>8 DEF AccountsGapless

\* A voucher that is there keeps its number.
LEMMA VouchersRewritten ==
    ASSUME Inv, VouchersGapless, NEW v \in Calls, NEW row, row # None, vouchers[v] # None,
           vouchers' = [vouchers EXCEPT ![v] = row], row.number = vouchers[v].number
    PROVE  VouchersGapless'
<1>1. DOMAIN vouchers = Calls /\ DOMAIN vouchers' = Calls
  BY DEF Inv, TypeOK
<1>2. /\ Entered(vouchers)' = Entered(vouchers)
      /\ \A w \in Entered(vouchers) : vouchers'[w].number = vouchers[w].number
  BY <1>1 DEF Entered
<1>3. {vouchers'[w].number : w \in Entered(vouchers)} = {vouchers[w].number : w \in Entered(vouchers)}
  BY <1>2
<1> QED BY <1>2, <1>3 DEF VouchersGapless

\* What a step of the call c does to the rows of calls that have not ended.
OwnMoves(c) ==
    /\ \A d \in Calls \ {c} : runs[d] = None => runs'[d] = None
    /\ \A d \in Calls \ {c} : accounts[d] = None => accounts'[d] = None
    /\ \A t \in TxnIds : t[1] # c /\ txns[t] = None => txns'[t] = None

LEMMA OwnStep ==
    ASSUME OwnRows, NEW c \in Calls, OwnMoves(c), \A d \in Calls : d # c => call'[d] = call[d],
           call'[c].step = "done" \/ (call[c].step # "done" /\ UNCHANGED <<runs, txns, accounts>>)
    PROVE  OwnRows'
<1> SUFFICES ASSUME NEW d \in Calls, call'[d].step # "done"
             PROVE  /\ runs'[d] = None /\ accounts'[d] = None
                    /\ \A t \in TxnIds : t[1] = d => txns'[t] = None
  BY DEF OwnRows
<1>1. CASE d = c
  BY <1>1 DEF OwnRows
<1>2. CASE d # c
  BY <1>2 DEF OwnRows, OwnMoves
<1> QED BY <1>1, <1>2

\* A call arrives, or goes on: the others are where they were.
LEMMA OthersRest ==
    ASSUME Inv, NEW c \in Calls,
           StartVoucher(c) \/ StartPayroll(c) \/ StartBank(c) \/ Continue(c) \/ Crash(c)
    PROVE  \E l : /\ call' = [call EXCEPT ![c] = l] /\ call'[c] = l
                  /\ \A d \in Calls : d # c => call'[d] = call[d]
<1>1. \E l : call' = [call EXCEPT ![c] = l]
  <2>1. CASE StartVoucher(c) \/ StartPayroll(c) \/ StartBank(c)
    BY <2>1 DEF StartVoucher, StartPayroll, StartBank, CreateJournal, CreateManualVoucher,
         UpdateManualVoucher, ApproveVoucher, ApprovePolicy, CreateRun, UpdateLine, PostRun, RemoveRun,
         ImportTransactions, Match, SetStatus, Begin, Arrive
  <2>2. CASE FindAccount(c) \/ CountAccounts(c) \/ Crash(c)
    BY <2>2 DEF FindAccount, CountAccounts, Crash
  <2>3. CASE Finish(c)
    BY <2>3 DEF Finish
  <2>4. Continue(c) => Finish(c) \/ FindAccount(c) \/ CountAccounts(c)
    BY DEF Continue, CommitVoucher, CommitUpdate, CommitApproval, CommitRun, CommitLine, CommitPost,
           CommitRemove, CommitMatch, CommitIssue, Fail
  <2> QED BY <2>1, <2>2, <2>3, <2>4
<1> QED BY <1>1 DEF Inv

\* The steps that write no row.
QuietStep(c) ==
    \/ StartVoucher(c) \/ StartPayroll(c)
    \/ \E t \in TxnIds, v \in Calls : Match(c, t, v)
    \/ FindAccount(c) \/ CountAccounts(c) \/ (Fail(c) /\ ~ Resting(c)) \/ Crash(c)

LEMMA QuietRows ==
    ASSUME NEW c \in Calls, QuietStep(c)
    PROVE  UNCHANGED <<vouchers, runs, txns, accounts>>
<1>1. CASE StartVoucher(c)
  BY <1>1 DEF StartVoucher, CreateJournal, CreateManualVoucher, UpdateManualVoucher, ApproveVoucher,
              ApprovePolicy, Begin, rows
<1>2. CASE StartPayroll(c)
  BY <1>2 DEF StartPayroll, CreateRun, UpdateLine, PostRun, RemoveRun, Begin, rows
<1>3. CASE FindAccount(c) \/ CountAccounts(c) \/ Fail(c) \/ Crash(c) \/ \E t \in TxnIds, v \in Calls : Match(c, t, v)
  BY <1>3 DEF FindAccount, CountAccounts, Fail, Crash, Match, Begin, rows
<1> QED BY <1>1, <1>2, <1>3 DEF QuietStep

\* What a step that writes does.
ImportStep(c) ==
    /\ call[c].step = "idle" /\ call' = [call EXCEPT ![c] = Over] /\ UNCHANGED <<vouchers, runs, accounts>>
    /\ \E b \in BankAccounts :
        txns' = [t \in TxnIds |-> IF t[1] = c THEN Txn(b, "unmatched", None) ELSE txns[t]]

StatusStep(c) ==
    /\ call[c].step = "idle" /\ call' = [call EXCEPT ![c] = Over] /\ UNCHANGED <<vouchers, runs, accounts>>
    /\ \E t \in TxnIds, status \in {"unmatched", "ignored"} :
        /\ txns[t] # None
        /\ txns' = [txns EXCEPT ![t] =
               Txn(txns[t].account, status, IF status = "unmatched" THEN None ELSE txns[t].voucher)]

LEMMA BankSteps ==
    ASSUME NEW c \in Calls, StartBank(c)
    PROVE  ImportStep(c) \/ StatusStep(c) \/ \E t \in TxnIds, v \in Calls : Match(c, t, v)
<1>1. ASSUME NEW b \in BankAccounts, ImportTransactions(c, b) PROVE ImportStep(c)
  BY <1>1 DEF ImportStep, ImportTransactions, Arrive
<1>2. ASSUME NEW t \in TxnIds, NEW status \in {"unmatched", "ignored"}, SetStatus(c, t, status)
      PROVE  StatusStep(c)
  BY <1>2 DEF StatusStep, SetStatus, Arrive
<1> QED BY <1>1, <1>2 DEF StartBank

WritingStep(c) ==
    \/ CommitVoucher(c) \/ CommitUpdate(c) \/ CommitApproval(c) \/ CommitMatch(c) \/ CommitRemove(c)
    \/ (CommitRun(c) \/ CommitLine(c) \/ CommitPost(c) \/ CommitIssue(c)) /\ ~ Fail(c)

\* Every step is one of these.
LEMMA StepsAre ==
    ASSUME NEW c \in Calls, StartVoucher(c) \/ StartPayroll(c) \/ StartBank(c) \/ Continue(c) \/ Crash(c)
    PROVE  QuietStep(c) \/ ImportStep(c) \/ StatusStep(c) \/ WritingStep(c)
<1>1. CommitRun(c) \/ CommitLine(c) \/ CommitPost(c) \/ CommitIssue(c) => ~ Resting(c)
  BY DEF CommitRun, CommitLine, CommitPost, CommitIssue, At, Resting
<1> QED BY <1>1, BankSteps DEF QuietStep, WritingStep, Continue

LEMMA WritersFinish ==
    ASSUME NEW c \in Calls, WritingStep(c)
    PROVE  Finish(c) /\ ~ Resting(c)
<1>1. Finish(c)
  BY DEF WritingStep, CommitVoucher, CommitUpdate, CommitApproval, CommitMatch, CommitRemove,
         CommitRun, CommitLine, CommitPost, CommitIssue
<1>2. ~ Resting(c)
  BY DEF WritingStep, CommitVoucher, CommitUpdate, CommitApproval, CommitMatch, CommitRemove,
         CommitRun, CommitLine, CommitPost, CommitIssue, At, Resting
<1> QED BY <1>1, <1>2

LEMMA QuietIsNotOver ==
    ASSUME NEW c \in Calls, QuietStep(c)
    PROVE  call[c].step # "done"
<1>1. CASE StartVoucher(c)
  BY <1>1 DEF StartVoucher, CreateJournal, CreateManualVoucher, UpdateManualVoucher, ApproveVoucher,
              ApprovePolicy, Begin, Arrive
<1>2. CASE StartPayroll(c)
  BY <1>2 DEF StartPayroll, CreateRun, UpdateLine, PostRun, RemoveRun, Begin, Arrive
<1> QED BY <1>1, <1>2 DEF QuietStep, FindAccount, CountAccounts, Crash, Match, Begin, Arrive, At, Resting, InFlight

\* What the steps that write a row leave as it is.
LEMMA WritersOwn ==
    ASSUME Inv, NEW c \in Calls, WritingStep(c)
    PROVE  OwnMoves(c)
<1>1. /\ DOMAIN vouchers = Calls /\ DOMAIN runs = Calls /\ DOMAIN accounts = Calls /\ DOMAIN txns = TxnIds
      /\ LocalOK(c, call[c])
  BY DEF Inv, TypeOK
<1>2. CASE CommitVoucher(c) \/ CommitUpdate(c) \/ CommitApproval(c)
  BY <1>2 DEF CommitVoucher, CommitUpdate, CommitApproval, OwnMoves
<1>3. CASE CommitMatch(c)
  <2>1. /\ UNCHANGED <<runs, accounts>> /\ txns[call[c].of] # None
        /\ \A t \in TxnIds : t # call[c].of => txns'[t] = txns[t]
    BY <1>1, <1>3 DEF CommitMatch, LocalOK, At
  <2> QED BY <2>1 DEF OwnMoves
<1>4. CASE CommitRemove(c)
  <2>1. UNCHANGED <<txns, accounts>> /\ \A d \in Calls : runs'[d] = None \/ runs'[d] = runs[d]
    BY <1>1, <1>4 DEF CommitRemove
  <2> QED BY <2>1 DEF OwnMoves
<1>5. CASE CommitRun(c) /\ ~ Fail(c)
  <2>1. UNCHANGED <<txns, accounts>> /\ \A d \in Calls : d # c => runs'[d] = runs[d]
    BY <1>1, <1>5 DEF CommitRun
  <2> QED BY <2>1 DEF OwnMoves
<1>6. CASE (CommitLine(c) \/ CommitPost(c)) /\ ~ Fail(c)
  <2>1. /\ UNCHANGED <<txns, accounts>> /\ runs[call[c].of] # None
        /\ \A d \in Calls : d # call[c].of => runs'[d] = runs[d]
    BY <1>1, <1>6 DEF CommitLine, CommitPost
  <2> QED BY <2>1 DEF OwnMoves
<1>7. CASE CommitIssue(c) /\ ~ Fail(c)
  <2>1. UNCHANGED <<txns, runs>> /\ \A d \in Calls : d # c => accounts'[d] = accounts[d]
    BY <1>1, <1>7 DEF CommitIssue
  <2> QED BY <2>1 DEF OwnMoves
<1> QED BY <1>2, <1>3, <1>4, <1>5, <1>6, <1>7 DEF WritingStep

LEMMA BankStepsOwn ==
    ASSUME Inv, NEW c \in Calls, ImportStep(c) \/ StatusStep(c)
    PROVE  OwnMoves(c)
<1>1. UNCHANGED <<runs, accounts>>
  BY DEF ImportStep, StatusStep
<1>2. CASE ImportStep(c)
  BY <1>1, <1>2 DEF ImportStep, OwnMoves
<1>3. CASE StatusStep(c)
  <2>1. PICK t \in TxnIds : txns[t] # None /\ \A u \in TxnIds : u # t => txns'[u] = txns[u]
    BY <1>3 DEF StatusStep, Inv, TypeOK
  <2> QED BY <1>1, <2>1 DEF OwnMoves
<1> QED BY <1>2, <1>3

LEMMA OwnNext == Inv /\ OwnRows /\ [Next]_vars => OwnRows'
<1> SUFFICES ASSUME Inv, OwnRows, [Next]_vars PROVE OwnRows'
  OBVIOUS
<1>1. CASE UNCHANGED vars
  BY <1>1 DEF vars, rows, OwnRows
<1>2. ASSUME NEW c \in Calls,
             StartVoucher(c) \/ StartPayroll(c) \/ StartBank(c) \/ Continue(c) \/ Crash(c)
      PROVE  OwnRows'
  <2>1. PICK l : /\ call' = [call EXCEPT ![c] = l] /\ call'[c] = l
                 /\ \A d \in Calls : d # c => call'[d] = call[d]
    BY <1>2, OthersRest
  <2>2. CASE QuietStep(c)
    <3>1. UNCHANGED <<vouchers, runs, txns, accounts>> /\ call[c].step # "done"
      BY <2>2, QuietRows, QuietIsNotOver
    <3>2. OwnMoves(c)
      BY <3>1 DEF OwnMoves
    <3> QED BY <2>1, <3>1, <3>2, OwnStep
  <2>3. CASE ImportStep(c) \/ StatusStep(c) \/ WritingStep(c)
    <3>1. OwnMoves(c)
      BY <2>3, BankStepsOwn, WritersOwn
    <3>2. call'[c] = Over
      <4>1. call' = [call EXCEPT ![c] = Over]
        BY <2>3, WritersFinish DEF ImportStep, StatusStep, Finish
      <4> QED BY <4>1 DEF Inv
    <3>3. call'[c].step = "done"
      BY <3>2, OverIsOK
    <3> QED BY <2>1, <3>1, <3>3, OwnStep
  <2> QED BY <1>2, <2>2, <2>3, StepsAre
<1> QED BY <1>1, <1>2 DEF Next

LEMMA OwnInit == Init => OwnRows
BY DEF Init, OwnRows

-----------------------------------------------------------------------------
(* The posts of a payroll run                                                *)

Posting(r) == {c \in Calls : call[c].step = "post" /\ call[c].of = r}

\* The calls that have read the run r as a draft, and posted it or are about to.
\* While there is one, r exists no more or is not created again; once one has
\* posted, r is no draft, and no call joins them.
PostsOf(r) ==
    /\ Cardinality(PayrollVouchers(r) \union Posting(r)) <= MaxInFlight
    /\ PayrollVouchers(r) \union Posting(r) # {} => call[r].step = "done"
    /\ PayrollVouchers(r) # {} /\ runs[r] # None => runs[r].status = "posted"

PostsInv == \A r \in Calls : PostsOf(r)

LEMMA PostsAreFew ==
    ASSUME Inv, NEW r
    PROVE  IsFiniteSet(PayrollVouchers(r) \union Posting(r))
<1>1. PayrollVouchers(r) \union Posting(r) \in SUBSET Calls
  BY DEF Inv, TypeOK, PayrollVouchers, Posting, Entered
<1> QED BY <1>1, FS_Subset

\* A call that has ended does nothing more.
LEMMA EndedStays ==
    ASSUME Inv, NEW c \in Calls, NEW r \in Calls, call[r].step = "done",
           StartVoucher(c) \/ StartPayroll(c) \/ StartBank(c) \/ Continue(c) \/ Crash(c)
    PROVE  call'[r].step = "done"
<1>1. call[c].step # "done"
  BY StepsAre, QuietIsNotOver, WritersFinish DEF ImportStep, StatusStep, Resting
<1>2. call'[r] = call[r]
  BY <1>1, OthersRest
<1> QED BY <1>2

\* Of the steps only that of PostRun has a call post.
LEMMA OnlyPostRunPosts ==
    ASSUME Inv, NEW c \in Calls, ~ \E r \in Calls : PostRun(c, r),
           StartVoucher(c) \/ StartPayroll(c) \/ StartBank(c) \/ Continue(c) \/ Crash(c)
    PROVE  \A r : Posting(r)' \subseteq Posting(r)
<1>1. \E l : call' = [call EXCEPT ![c] = l] /\ l.step # "post"
  <2>1. CASE StartVoucher(c)
    BY <2>1 DEF StartVoucher, CreateJournal, CreateManualVoucher, UpdateManualVoucher, ApproveVoucher,
         ApprovePolicy, Begin, Arrive, Local
  <2>2. CASE StartPayroll(c)
    BY <2>2 DEF StartPayroll, CreateRun, UpdateLine, RemoveRun, Begin, Arrive, Local
  <2>3. CASE StartBank(c)
    BY <2>3 DEF StartBank, ImportTransactions, Match, SetStatus, Begin, Arrive, Local, Over
  <2>4. CASE FindAccount(c) \/ CountAccounts(c)
    <3>1. PICK step, of, to, number :
              step \in {"count", "issued"} /\ call' = [call EXCEPT ![c] = Local(step, of, to, number, None)]
      BY <2>4 DEF FindAccount, CountAccounts
    <3>2. Local(step, of, to, number, None).step = step
      BY DEF Local
    <3> QED BY <3>1, <3>2
  <2>5. CASE Finish(c) \/ Crash(c)
    <3>1. call' = [call EXCEPT ![c] = Over] /\ Over.step = "done"
      BY <2>5, OverIsOK DEF Finish, Crash
    <3> QED BY <3>1
  <2>6. Continue(c) => Finish(c) \/ FindAccount(c) \/ CountAccounts(c)
    BY DEF Continue, CommitVoucher, CommitUpdate, CommitApproval, CommitRun, CommitLine, CommitPost,
           CommitRemove, CommitMatch, CommitIssue, Fail
  <2> QED BY <2>1, <2>2, <2>3, <2>4, <2>5, <2>6
<1>2. PICK l : /\ l.step # "post" /\ call'[c] = l
               /\ \A d \in Calls : d # c => call'[d] = call[d]
  BY <1>1 DEF Inv
<1> QED BY <1>2 DEF Posting

\* What a step other than CommitPost does to the vouchers and the status of a run.
LEMMA OnlyCommitPostBooks ==
    ASSUME Inv, NEW c \in Calls, ~ CommitPost(c) \/ Fail(c),
           StartVoucher(c) \/ StartPayroll(c) \/ StartBank(c) \/ Continue(c) \/ Crash(c)
    PROVE  /\ \A r \in Calls : PayrollVouchers(r)' \subseteq PayrollVouchers(r)
           /\ \A r \in Calls : runs'[r] # None =>
                  \/ runs[r] # None /\ runs'[r].status = runs[r].status
                  \/ call[r].step = "run"
<1>1. /\ DOMAIN vouchers = Calls /\ DOMAIN runs = Calls
      /\ LocalOK(c, call[c]) /\ \A v \in Calls : vouchers[v] # None => vouchers[v] \in VoucherRow
      /\ \A r \in Calls : runs[r] # None => runs[r] \in RunRow
  BY DEF Inv, TypeOK
<1>2. CASE UNCHANGED <<vouchers, runs>>
  BY <1>2 DEF PayrollVouchers, Entered
<1>3. CASE CommitVoucher(c)
  <2> DEFINE l == call[c]
  <2>1. /\ UNCHANGED runs /\ \A v \in Calls : v # c => vouchers'[v] = vouchers[v]
        /\ vouchers'[c].auto = FALSE /\ DOMAIN vouchers' = Calls
    BY <1>1, <1>3 DEF CommitVoucher, Voucher
  <2> QED BY <1>1, <2>1 DEF PayrollVouchers, Entered
<1>4. CASE CommitUpdate(c) \/ CommitApproval(c)
  <2>1. PICK v, voucher :
            /\ v \in Calls /\ vouchers[v] # None /\ vouchers' = [vouchers EXCEPT ![v] = voucher] /\ UNCHANGED runs
            /\ voucher.auto = vouchers[v].auto /\ voucher.reference = vouchers[v].reference
    <3>1. CASE CommitUpdate(c)
      <4> DEFINE voucher == [vouchers[call[c].of] EXCEPT !.lines = call[c].lines]
      <4>1. call[c].of \in Calls /\ vouchers[call[c].of] # None
        BY <1>1, <3>1 DEF CommitUpdate, At, LocalOK
      <4>2. vouchers' = [vouchers EXCEPT ![call[c].of] = voucher] /\ UNCHANGED runs
        BY <3>1 DEF CommitUpdate
      <4>3. /\ voucher.auto = vouchers[call[c].of].auto
            /\ voucher.reference = vouchers[call[c].of].reference
        BY <1>1, <4>1 DEF VoucherRow
      <4> QED BY <4>1, <4>2, <4>3
    <3>2. CASE CommitApproval(c)
      <4> DEFINE voucher == [vouchers[call[c].of] EXCEPT !.status = "posted"]
      <4>1. call[c].of \in Calls /\ vouchers[call[c].of] # None
        BY <1>1, <3>2 DEF CommitApproval, At, LocalOK
      <4>2. vouchers' = [vouchers EXCEPT ![call[c].of] = voucher] /\ UNCHANGED runs
        BY <3>2 DEF CommitApproval
      <4>3. /\ voucher.auto = vouchers[call[c].of].auto
            /\ voucher.reference = vouchers[call[c].of].reference
        BY <1>1, <4>1 DEF VoucherRow
      <4> QED BY <4>1, <4>2, <4>3
    <3> QED BY <1>4, <3>1, <3>2
  <2>2. /\ DOMAIN vouchers' = Calls /\ vouchers'[v] = voucher
        /\ \A w \in Calls : w # v => vouchers'[w] = vouchers[w]
    BY <1>1, <2>1
  <2> QED BY <1>1, <2>1, <2>2 DEF PayrollVouchers, Entered
<1>5. CASE CommitRun(c) /\ ~ Fail(c)
  <2>1. /\ UNCHANGED vouchers /\ call[c].step = "run"
        /\ \A r \in Calls : r # c => runs'[r] = runs[r]
    BY <1>1, <1>5 DEF CommitRun, At
  <2> QED BY <2>1 DEF PayrollVouchers, Entered
<1>6. CASE CommitLine(c) /\ ~ Fail(c)
  <2> DEFINE l == call[c]
  <2>1. l.of \in Calls /\ runs[l.of] # None
    BY <1>1, <1>6 DEF CommitLine, At, LocalOK
  <2>2. /\ UNCHANGED vouchers /\ \A r \in Calls : r # l.of => runs'[r] = runs[r]
        /\ runs'[l.of] = [runs[l.of] EXCEPT !.net = l.to]
    BY <1>1, <1>6, <2>1 DEF CommitLine
  <2>3. runs'[l.of].status = runs[l.of].status
    BY <1>1, <2>1, <2>2 DEF RunRow
  <2> QED BY <2>1, <2>2, <2>3 DEF PayrollVouchers, Entered
<1>7. CASE CommitRemove(c)
  <2>1. UNCHANGED vouchers /\ \A r \in Calls : runs'[r] = None \/ runs'[r] = runs[r]
    BY <1>1, <1>7 DEF CommitRemove
  <2> QED BY <2>1 DEF PayrollVouchers, Entered
<1>8. CASE CommitIssue(c) /\ ~ Fail(c)
  <2> DEFINE l == call[c]
  <2>1. l.of \in Clients
    BY <1>1, <1>8 DEF CommitIssue, At, LocalOK
  <2>2. /\ UNCHANGED runs /\ \A v \in Calls : v # c => vouchers'[v] = vouchers[v]
        /\ vouchers'[c].reference = l.of /\ DOMAIN vouchers' = Calls
    BY <1>1, <1>8 DEF CommitIssue, IssueVoucher, Voucher
  <2>3. l.of \notin Calls
    BY <2>1, ClientsAssumption
  <2> QED BY <1>1, <2>2, <2>3 DEF PayrollVouchers, Entered
<1>9. CASE QuietStep(c) \/ ImportStep(c) \/ StatusStep(c) \/ CommitMatch(c) \/ Fail(c)
  <2>1. UNCHANGED <<vouchers, runs>>
    BY <1>9, QuietRows DEF ImportStep, StatusStep, CommitMatch, Fail, rows
  <2> QED BY <1>2, <2>1
<1> QED BY <1>3, <1>4, <1>5, <1>6, <1>7, <1>8, <1>9, StepsAre DEF WritingStep

\* A call reads the run as a draft: nobody has posted it, and those about to are in
\* flight with the call.
LEMMA PostRunKeepsPosts ==
    ASSUME Inv, OwnRows, PostsInv, NEW c \in Calls, NEW s \in Calls, PostRun(c, s)
    PROVE  PostsInv'
<1>1. /\ runs[s] # None /\ runs[s].status = "draft" /\ UNCHANGED <<vouchers, runs>>
      /\ call[c].step = "idle" /\ Cardinality(InFlight) < MaxInFlight
      /\ call' = [call EXCEPT ![c] = Local("post", s, runs[s].net, NextSeq(vouchers), None)]
  BY DEF PostRun, Draft, Begin, Arrive, rows
<1>2. PICK l : /\ l.step = "post" /\ l.of = s /\ call'[c] = l
               /\ \A d \in Calls : d # c => call'[d] = call[d]
  BY <1>1 DEF Local, Inv
<1>3. \A r : PayrollVouchers(r)' = PayrollVouchers(r)
  BY <1>1 DEF PayrollVouchers, Entered
<1>4. \A r : Posting(r)' = IF r = s THEN Posting(s) \union {c} ELSE Posting(r)
  BY <1>1, <1>2 DEF Posting
<1>5. InFlight' = InFlight \union {c} /\ c \notin InFlight /\ IsFiniteSet(InFlight)
  <2>1. InFlight \in SUBSET Calls
    BY DEF InFlight
  <2> QED BY <1>1, <1>2, <2>1, FS_Subset DEF InFlight
<1>6. IsFiniteSet(InFlight') /\ Cardinality(InFlight') <= MaxInFlight
  <2>1. PICK S : S = InFlight
    OBVIOUS
  <2>2. /\ IsFiniteSet(S \union {c}) /\ Cardinality(S \union {c}) = Cardinality(S) + 1
        /\ Cardinality(S) \in Nat
    BY <1>5, <2>1, FS_AddElement, FS_CardinalityType
  <2> QED BY <1>1, <1>5, <2>1, <2>2
<1>7. PayrollVouchers(s) = {}
  BY <1>1 DEF PostsInv, PostsOf
<1>8. call[s].step = "done" /\ s # c
  BY <1>1 DEF OwnRows
<1>9. PostsOf(s)'
  <2>1. Posting(s)' \in SUBSET InFlight'
    BY <1>1, <1>2, <1>4 DEF Posting, InFlight
  <2>2. Cardinality(Posting(s)') <= MaxInFlight
    <3>1. Cardinality(Posting(s)') <= Cardinality(InFlight') /\ IsFiniteSet(Posting(s)')
      BY <1>6, <2>1, FS_Subset
    <3>2. Cardinality(Posting(s)') \in Nat /\ Cardinality(InFlight') \in Nat
      BY <1>6, <3>1, FS_CardinalityType
    <3> QED BY <1>6, <3>1, <3>2
  <2>3. PayrollVouchers(s)' = {} /\ PayrollVouchers(s)' \union Posting(s)' = Posting(s)'
    BY <1>3, <1>7
  <2>4. call'[s].step = "done"
    BY <1>2, <1>8
  <2> QED BY <2>2, <2>3, <2>4 DEF PostsOf
<1>10. ASSUME NEW r \in Calls, r # s PROVE PostsOf(r)'
  <2>1. PayrollVouchers(r)' = PayrollVouchers(r) /\ Posting(r)' = Posting(r) /\ runs'[r] = runs[r]
    BY <1>1, <1>3, <1>4, <1>10
  <2>2. call[r].step = "done" => call'[r].step = "done"
    BY <1>1, <1>2
  <2> QED BY <2>1, <2>2 DEF PostsInv, PostsOf
<1> QED BY <1>9, <1>10 DEF PostsInv

\* The call that was about to post the run has.
LEMMA CommitPostKeepsPosts ==
    ASSUME Inv, PostsInv, NEW c \in Calls, CommitPost(c), ~ Fail(c)
    PROVE  PostsInv'
<1>1. PICK s : s = call[c].of
  OBVIOUS
<1>2. /\ s \in Calls /\ call[c].step = "post" /\ vouchers[c] = None
      /\ DOMAIN vouchers = Calls /\ DOMAIN runs = Calls
  BY <1>1, NoVoucherYet DEF Inv, TypeOK, LocalOK, CommitPost, At
<1>3. /\ runs[s] # None /\ vouchers' = [vouchers EXCEPT ![c] = Salaries(c)]
      /\ runs' = [runs EXCEPT ![s] = Run(@.period, "posted", @.net, c)] /\ Finish(c)
  BY <1>1 DEF CommitPost
<1>4. /\ \A d \in Calls : d # c => vouchers'[d] = vouchers[d]
      /\ vouchers'[c] = Salaries(c) /\ DOMAIN vouchers' = Calls
      /\ runs'[s].status = "posted" /\ \A r \in Calls : r # s => runs'[r] = runs[r]
  BY <1>2, <1>3 DEF Run
<1>5. Salaries(c).auto = TRUE /\ Salaries(c).reference = s /\ Salaries(c) # None
  <2>1. Salaries(c) \in VoucherRow
    <3>1. call[c].to \in Int /\ call[c].number \in Nat
      BY <1>2 DEF Inv, LocalOK
    <3>2. PICK lines \in Entries : lines = [salaries |-> call[c].to, cash |-> 0 - call[c].to]
      BY <3>1, SalariesAreEntries
    <3>3. Salaries(c) = Voucher(call[c].number, "JRV", "posted", TRUE, s, lines)
      BY <1>1, <3>2 DEF Salaries
    <3>4. Voucher(call[c].number, "JRV", "posted", TRUE, s, lines) \in VoucherRow
      BY <1>2, <3>1, VoucherIsARow DEF VoucherTypes
    <3> QED BY <3>3, <3>4
  <2>2. Salaries(c).auto = TRUE /\ Salaries(c).reference = s
    BY <1>1 DEF Salaries, Voucher
  <2> QED BY <2>1, <2>2 DEF VoucherRow
<1>6. /\ call'[c] = Over /\ Over.step = "done"
      /\ \A d \in Calls : d # c => call'[d] = call[d]
  BY <1>3, OverIsOK DEF Finish, Inv
<1>7. ASSUME NEW r \in Calls PROVE PostsOf(r)'
  <2>1. call[r].step = "done" => call'[r].step = "done"
    BY <1>6
  <2>2. CASE r = s
    <3>1. PayrollVouchers(r)' = PayrollVouchers(r) \union {c}
      BY <1>2, <1>4, <1>5, <2>2 DEF PayrollVouchers, Entered
    <3>2. Posting(r)' = Posting(r) \ {c} /\ c \in Posting(r)
      BY <1>1, <1>2, <1>6, <2>2 DEF Posting
    <3>3. PayrollVouchers(r)' \union Posting(r)' = PayrollVouchers(r) \union Posting(r)
      BY <3>1, <3>2
    <3> QED BY <1>4, <2>1, <2>2, <3>3 DEF PostsInv, PostsOf
  <2>3. CASE r # s
    <3>1. PayrollVouchers(r)' = PayrollVouchers(r)
      BY <1>2, <1>4, <1>5, <2>3 DEF PayrollVouchers, Entered
    <3>2. Posting(r)' = Posting(r)
      BY <1>1, <1>2, <1>6, <2>3 DEF Posting
    <3>3. runs'[r] = runs[r]
      BY <1>4, <2>3
    <3> QED BY <2>1, <3>1, <3>2, <3>3 DEF PostsInv, PostsOf
  <2> QED BY <2>2, <2>3
<1> QED BY <1>7 DEF PostsInv

\* No other step adds to the calls that have posted a run or are about to.
LEMMA OthersKeepPosts ==
    ASSUME Inv, PostsInv, NEW c \in Calls, ~ \E r \in Calls : PostRun(c, r), ~ CommitPost(c) \/ Fail(c),
           StartVoucher(c) \/ StartPayroll(c) \/ StartBank(c) \/ Continue(c) \/ Crash(c)
    PROVE  PostsInv'
<1> SUFFICES ASSUME NEW r \in Calls PROVE PostsOf(r)'
  BY DEF PostsInv
<1>1. /\ PayrollVouchers(r)' \subseteq PayrollVouchers(r) /\ Posting(r)' \subseteq Posting(r)
      /\ runs'[r] # None =>
             (runs[r] # None /\ runs'[r].status = runs[r].status) \/ call[r].step = "run"
  BY OnlyPostRunPosts, OnlyCommitPostBooks
<1>2. call[r].step = "done" => call'[r].step = "done"
  BY EndedStays
<1>3. PICK S, T : S = PayrollVouchers(r) \union Posting(r) /\ T = PayrollVouchers(r)' \union Posting(r)'
  OBVIOUS
<1>4. IsFiniteSet(S) /\ T \in SUBSET S /\ Cardinality(S) <= MaxInFlight
  BY <1>1, <1>3, PostsAreFew DEF PostsInv, PostsOf
<1>5. Cardinality(T) <= MaxInFlight
  <2>1. IsFiniteSet(T) /\ Cardinality(T) <= Cardinality(S)
    BY <1>4, FS_Subset
  <2> QED BY <1>4, <2>1, FS_CardinalityType
<1>6. PostsOf(r)
  BY DEF PostsInv
<1> QED BY <1>1, <1>2, <1>3, <1>5, <1>6 DEF PostsOf

LEMMA PostsNext == Inv /\ OwnRows /\ PostsInv /\ [Next]_vars => PostsInv'
<1> SUFFICES ASSUME Inv, OwnRows, PostsInv, [Next]_vars PROVE PostsInv'
  OBVIOUS
<1>1. CASE UNCHANGED vars
  BY <1>1 DEF vars, rows, PostsInv, PostsOf, PayrollVouchers, Posting, Entered
<1>2. ASSUME NEW c \in Calls,
             StartVoucher(c) \/ StartPayroll(c) \/ StartBank(c) \/ Continue(c) \/ Crash(c)
      PROVE  PostsInv'
  BY <1>2, PostRunKeepsPosts, CommitPostKeepsPosts, OthersKeepPosts
<1> QED BY <1>1, <1>2 DEF Next

LEMMA PostsInit == Init => PostsInv
<1> SUFFICES ASSUME Init, NEW r \in Calls PROVE PostsOf(r)
  BY DEF PostsInv
<1>1. PayrollVouchers(r) = {} /\ Posting(r) = {}
  BY DEF Init, PayrollVouchers, Posting, Entered, Idle, Local
<1>2. Cardinality({}) = 0
  BY FS_EmptySet
<1> QED BY <1>1, <1>2 DEF PostsOf

\* However post, remove, updateLine and create of PayrollService interleave, and
\* wherever a call dies: a posted run is vouched, a month has one run, and a run is
\* booked by no more calls than are served at a time.
THEOREM PayrollAlwaysVouched == Spec => []PayrollIsVouched
<1>1. Init => Inv /\ OwnRows /\ PostsInv
  BY InitHolds, OwnInit, PostsInit
<1>2. Inv /\ OwnRows /\ PostsInv /\ [Next]_vars => (Inv /\ OwnRows /\ PostsInv)'
  BY NextKeeps, OwnNext, PostsNext
<1>3. Inv /\ PostsInv => PayrollIsVouched
  <2> SUFFICES ASSUME Inv, PostsInv PROVE PayrollIsVouched
    OBVIOUS
  <2>1. ASSUME NEW r \in Calls PROVE Cardinality(PayrollVouchers(r)) <= MaxInFlight
    <3>1. PICK S, T : S = PayrollVouchers(r) \union Posting(r) /\ T = PayrollVouchers(r)
      OBVIOUS
    <3>2. IsFiniteSet(S) /\ T \in SUBSET S /\ Cardinality(S) <= MaxInFlight
      BY <3>1, PostsAreFew DEF PostsInv, PostsOf
    <3>3. IsFiniteSet(T) /\ Cardinality(T) <= Cardinality(S)
      BY <3>2, FS_Subset
    <3> QED BY <3>1, <3>2, <3>3, FS_CardinalityType
  <2>2. PostsAreBounded
    BY <2>1 DEF PostsAreBounded
  <2> QED BY <2>2 DEF Inv, PayrollIsVouched
<1> QED BY <1>1, <1>2, <1>3, PTL DEF Spec

-----------------------------------------------------------------------------
(* What a call served alone has read                                         *)

LEMMA RestingIsOK ==
    ASSUME NEW l, l.step \in {"idle", "done"}
    PROVE  SerialOK(l)
BY DEF SerialOK

\* A step that writes no row: what the call has read now, or read before.
Reads(c) == \E l : call' = [call EXCEPT ![c] = l] /\ SerialOK(l)

Right(step, of, to, number) ==
    /\ step \in {"create", "post", "issue", "count", "issued"} => number = NextSeq(vouchers)
    /\ step = "edit" => vouchers[of].auto = FALSE
    /\ step \in {"line", "remove", "post"} => Undrafted(of)
    /\ step = "post" => runs[of] # None /\ runs[of].net = to
    /\ step = "match" => ~ Taken(txns[of].account, to)
    /\ step = "count" => NoAccount(of)
    /\ step = "issued" => to = 0 \/ (to = NextSeq(accounts) /\ NoAccount(of))

LEMMA RightReads ==
    ASSUME NEW c, NEW step, NEW of, NEW to, NEW number, NEW lines, Right(step, of, to, number),
           call' = [call EXCEPT ![c] = Local(step, of, to, number, lines)]
    PROVE  Reads(c)
<1>1. SerialOK(Local(step, of, to, number, lines))
  BY DEF SerialOK, Local, Right
<1> QED BY <1>1 DEF Reads

LEMMA QuietReads ==
    ASSUME Inv, NEW c \in Calls, SerialOK(call[c]), QuietStep(c)
    PROVE  Reads(c)
<1>2. CASE Fail(c) \/ Crash(c)
  <2>1. call' = [call EXCEPT ![c] = Over]
    BY <1>2 DEF Fail, Finish, Crash
  <2>2. SerialOK(Over)
    BY OverIsOK, RestingIsOK
  <2> QED BY <2>1, <2>2 DEF Reads
<1>3. CASE StartVoucher(c)
  <2>1. ASSUME NEW lines \in Lines, CreateJournal(c, lines) PROVE Reads(c)
    <3>1. call' = [call EXCEPT ![c] = Local("create", "JRV", "posted", NextSeq(vouchers), lines)]
      BY <2>1 DEF CreateJournal, Begin, Arrive
    <3>3. Right("create", "JRV", "posted", NextSeq(vouchers))
      BY DEF Right
    <3> QED BY <3>1, <3>3, RightReads
  <2>2. ASSUME NEW type \in Kinds, NEW lines \in Lines, CreateManualVoucher(c, type, lines) PROVE Reads(c)
    <3>1. call' = [call EXCEPT ![c] = Local("create", type, "draft", NextSeq(vouchers), lines)]
      BY <2>2 DEF CreateManualVoucher, Begin, Arrive
    <3>3. Right("create", type, "draft", NextSeq(vouchers))
      BY DEF Right
    <3> QED BY <3>1, <3>3, RightReads
  <2>3. ASSUME NEW v \in Calls, NEW lines \in Lines, UpdateManualVoucher(c, v, lines) PROVE Reads(c)
    <3>1. call' = [call EXCEPT ![c] = Local("edit", v, None, 0, lines)]
      BY <2>3 DEF UpdateManualVoucher, Begin, Arrive
    <3>2. vouchers[v].auto = FALSE
      <4>1. vouchers[v] \in VoucherRow /\ ~ vouchers[v].auto
        BY <2>3 DEF UpdateManualVoucher, Inv, TypeOK
      <4> QED BY <4>1 DEF VoucherRow
    <3>3. Right("edit", v, None, 0)
      BY <3>2  DEF Right
    <3> QED BY <3>1, <3>3, RightReads
  <2>4. ASSUME NEW v \in Calls, ApproveVoucher(c, v) PROVE Reads(c)
    <3>1. call' = [call EXCEPT ![c] = Local("approve", v, None, 0, None)]
      BY <2>4 DEF ApproveVoucher, Begin, Arrive
    <3>3. Right("approve", v, None, 0)
      BY DEF Right
    <3> QED BY <3>1, <3>3, RightReads
  <2>5. ASSUME NEW client \in Clients, ApprovePolicy(c, client) PROVE Reads(c)
    <3>1. call' = [call EXCEPT ![c] = Local("issue", client, None, NextSeq(vouchers), None)]
      BY <2>5 DEF ApprovePolicy, Begin, Arrive
    <3>3. Right("issue", client, None, NextSeq(vouchers))
      BY DEF Right
    <3> QED BY <3>1, <3>3, RightReads
  <2> QED BY <1>3, <2>1, <2>2, <2>3, <2>4, <2>5 DEF StartVoucher
<1>4. CASE StartPayroll(c)
  <2>1. ASSUME NEW period \in Periods, CreateRun(c, period) PROVE Reads(c)
    <3>1. call' = [call EXCEPT ![c] = Local("run", period, None, 0, None)]
      BY <2>1 DEF CreateRun, Begin, Arrive
    <3>3. Right("run", period, None, 0)
      BY DEF Right
    <3> QED BY <3>1, <3>3, RightReads
  <2>2. ASSUME NEW r \in Calls, NEW net \in Nets, UpdateLine(c, r, net) PROVE Reads(c)
    <3>1. call' = [call EXCEPT ![c] = Local("line", r, net, 0, None)]
      BY <2>2 DEF UpdateLine, Begin, Arrive
    <3>2. Undrafted(r) /\ runs[r] # None
      BY <2>2 DEF UpdateLine, Draft, Undrafted
    <3>3. Right("line", r, net, 0)
      BY <3>2  DEF Right
    <3> QED BY <3>1, <3>3, RightReads
  <2>3. ASSUME NEW r \in Calls, PostRun(c, r) PROVE Reads(c)
    <3>1. call' = [call EXCEPT ![c] = Local("post", r, runs[r].net, NextSeq(vouchers), None)]
      BY <2>3 DEF PostRun, Begin, Arrive
    <3>2. Undrafted(r) /\ runs[r] # None
      BY <2>3 DEF PostRun, Draft, Undrafted
    <3>3. Right("post", r, runs[r].net, NextSeq(vouchers))
      BY <3>2  DEF Right
    <3> QED BY <3>1, <3>3, RightReads
  <2>4. ASSUME NEW r \in Calls, RemoveRun(c, r) PROVE Reads(c)
    <3>1. call' = [call EXCEPT ![c] = Local("remove", r, None, 0, None)]
      BY <2>4 DEF RemoveRun, Begin, Arrive
    <3>2. Undrafted(r) /\ runs[r] # None
      BY <2>4 DEF RemoveRun, Draft, Undrafted
    <3>3. Right("remove", r, None, 0)
      BY <3>2  DEF Right
    <3> QED BY <3>1, <3>3, RightReads
  <2> QED BY <1>4, <2>1, <2>2, <2>3, <2>4 DEF StartPayroll
<1>5. ASSUME NEW t \in TxnIds, NEW v \in Calls, Match(c, t, v) PROVE Reads(c)
  <2>1. ~ Taken(txns[t].account, v)
    BY <1>5 DEF Match, Taken, Entered, Inv, TypeOK
  <2>2. call' = [call EXCEPT ![c] = Local("match", t, v, 0, None)]
    BY <1>5 DEF Match, Begin, Arrive
  <2>3. Right("match", t, v, 0)
    BY <2>1 DEF Right
  <2> QED BY <2>2, <2>3, RightReads
<1>6. CASE FindAccount(c)
  <2>1. call[c].number = NextSeq(vouchers)
    BY <1>6 DEF FindAccount, At, SerialOK
  <2>2. CASE AccountsOf(call[c].of) = {}
    <3>1. NoAccount(call[c].of)
      BY <2>2 DEF AccountsOf, NoAccount, Entered, Inv, TypeOK
    <3>2. call' = [call EXCEPT ![c] = Local("count", call[c].of, 0, call[c].number, None)]
      BY <1>6, <2>2 DEF FindAccount
    <3>3. Right("count", call[c].of, 0, call[c].number)
      BY <2>1, <3>1 DEF Right
    <3> QED BY <3>2, <3>3, RightReads
  <2>3. CASE AccountsOf(call[c].of) # {}
    <3>1. call' = [call EXCEPT ![c] = Local("issued", call[c].of, 0, call[c].number, None)]
      BY <1>6, <2>3 DEF FindAccount
    <3>2. Right("issued", call[c].of, 0, call[c].number)
      BY <2>1 DEF Right
    <3> QED BY <3>1, <3>2, RightReads
  <2> QED BY <2>2, <2>3
<1>7. CASE CountAccounts(c)
  <2>1. /\ call[c].number = NextSeq(vouchers) /\ NoAccount(call[c].of)
        /\ call' = [call EXCEPT ![c] = Local("issued", call[c].of, NextSeq(accounts), call[c].number, None)]
    BY <1>7 DEF CountAccounts, At, SerialOK
  <2>2. Right("issued", call[c].of, NextSeq(accounts), call[c].number)
    BY <2>1 DEF Right
  <2> QED BY <2>1, <2>2, RightReads
<1> QED BY <1>2, <1>3, <1>4, <1>5, <1>6, <1>7 DEF QuietStep

\* Bank lines may be imported and set aside between two steps of a call: they take
\* nothing that it counts on.
LEMMA BankStepsLeave ==
    ASSUME Inv, OwnRows, NEW c \in Calls, ImportStep(c) \/ StatusStep(c), NEW d \in Calls, NEW l,
           LocalOK(d, l), SerialOK(l)
    PROVE  SerialOK(l)'
<1>1. UNCHANGED <<vouchers, runs, accounts>>
  BY DEF ImportStep, StatusStep
<1>2. ASSUME l.step = "match" PROVE ~ Taken(txns[l.of].account, l.to)'
  <2>1. l.of \in TxnIds /\ txns[l.of] # None /\ ~ Taken(txns[l.of].account, l.to)
    BY <1>2 DEF LocalOK, SerialOK
  <2>2. /\ txns'[l.of].account = txns[l.of].account
        /\ \A u \in TxnIds : txns'[u] = txns[u] \/ txns'[u].status # "matched"
    <3>1. CASE ImportStep(c)
      <4>1. PICK b \in BankAccounts :
                txns' = [t \in TxnIds |-> IF t[1] = c THEN Txn(b, "unmatched", None) ELSE txns[t]]
        BY <3>1 DEF ImportStep
      <4>2. l.of[1] # c
        BY <2>1, <3>1 DEF OwnRows, ImportStep
      <4>3. Txn(b, "unmatched", None).status = "unmatched"
        BY DEF Txn
      <4> QED BY <2>1, <4>1, <4>2, <4>3
    <3>2. CASE StatusStep(c)
      <4>0. PICK t \in TxnIds, status \in {"unmatched", "ignored"} :
                txns' = [txns EXCEPT ![t] = Txn(txns[t].account, status, IF status = "unmatched" THEN None ELSE txns[t].voucher)]
        BY <3>2 DEF StatusStep
      <4>1. PICK row : row = Txn(txns[t].account, status, IF status = "unmatched" THEN None ELSE txns[t].voucher) /\ txns' = [txns EXCEPT ![t] = row]
        BY <4>0
      <4>2. row.account = txns[t].account /\ row.status # "matched"
        BY <4>1 DEF Txn
      <4>3. txns'[t] = row /\ \A u \in TxnIds : u # t => txns'[u] = txns[u]
        BY <4>1 DEF Inv, TypeOK
      <4> QED BY <2>1, <4>2, <4>3
    <3> QED BY <3>1, <3>2
  <2>3. \A b, v : Txn(b, "matched", v).status = "matched"
    BY DEF Txn
  <2> QED BY <2>1, <2>2, <2>3 DEF Taken
<1> QED BY <1>1, <1>2 DEF SerialOK, NextSeq, Entered, Undrafted, NoAccount

-----------------------------------------------------------------------------
(* What the tables say, served one at a time                                 *)

LEMMA SameTables ==
    /\ UNCHANGED vouchers /\ VouchersGapless => VouchersGapless'
    /\ UNCHANGED accounts /\ AccountsGapless /\ OneAccountEach => AccountsGapless' /\ OneAccountEach'
    /\ UNCHANGED txns /\ MatchedOnce => MatchedOnce'
    /\ UNCHANGED <<vouchers, runs>> /\ RunMatchesVoucher => RunMatchesVoucher'
<1>1. UNCHANGED vouchers /\ VouchersGapless => VouchersGapless'
  BY DEF VouchersGapless, Entered
<1>2. UNCHANGED accounts /\ AccountsGapless /\ OneAccountEach => AccountsGapless' /\ OneAccountEach'
  BY DEF AccountsGapless, OneAccountEach, Entered
<1>3. UNCHANGED txns /\ MatchedOnce => MatchedOnce'
  BY DEF MatchedOnce, Entered
<1>4. UNCHANGED <<vouchers, runs>> /\ RunMatchesVoucher => RunMatchesVoucher'
  BY DEF RunMatchesVoucher, Entered
<1> QED BY <1>1, <1>2, <1>3, <1>4

\* A bank line that is not matched now is matched with nothing twice.
LEMMA UnmatchedKeeps ==
    ASSUME Inv, MatchedOnce, DOMAIN txns' = TxnIds,
           \A u \in TxnIds : txns'[u] = txns[u] \/ txns'[u].status # "matched"
    PROVE  MatchedOnce'
<1>1. DOMAIN txns = TxnIds
  BY DEF Inv, TypeOK
<1> SUFFICES ASSUME NEW t \in TxnIds, NEW u \in TxnIds, txns'[t] # None, txns'[u] # None,
                    txns'[t].status = "matched", txns'[u].status = "matched",
                    txns'[t].account = txns'[u].account, txns'[t].voucher = txns'[u].voucher
             PROVE  t = u
  BY DEF MatchedOnce, Entered
<1>2. txns'[t] = txns[t] /\ txns'[u] = txns[u]
  OBVIOUS
<1> QED BY <1>1, <1>2 DEF MatchedOnce, Entered

LEMMA BankStepsUnmatch ==
    ASSUME Inv, NEW c \in Calls, ImportStep(c) \/ StatusStep(c)
    PROVE  /\ DOMAIN txns' = TxnIds
           /\ \A u \in TxnIds : txns'[u] = txns[u] \/ txns'[u].status # "matched"
<1>1. CASE ImportStep(c)
  <2>1. PICK b \in BankAccounts :
            txns' = [t \in TxnIds |-> IF t[1] = c THEN Txn(b, "unmatched", None) ELSE txns[t]]
    BY <1>1 DEF ImportStep
  <2>2. Txn(b, "unmatched", None).status = "unmatched"
    BY DEF Txn
  <2> QED BY <2>1, <2>2
<1>2. CASE StatusStep(c)
  <2>0. PICK t \in TxnIds, status \in {"unmatched", "ignored"} :
            txns' = [txns EXCEPT ![t] = Txn(txns[t].account, status, IF status = "unmatched" THEN None ELSE txns[t].voucher)]
    BY <1>2 DEF StatusStep
  <2>1. PICK row : row = Txn(txns[t].account, status, IF status = "unmatched" THEN None ELSE txns[t].voucher) /\ txns' = [txns EXCEPT ![t] = row]
    BY <2>0
  <2>2. row.status # "matched"
    BY <2>1 DEF Txn
  <2> QED BY <2>1, <2>2 DEF Inv, TypeOK
<1> QED BY <1>1, <1>2

\* One voucher is written, and it is no payroll voucher or says what it said.
LEMMA RunsKeep ==
    ASSUME Inv, RunMatchesVoucher, UNCHANGED runs, NEW w \in Calls, DOMAIN vouchers' = Calls,
           \A v \in Calls : v # w => vouchers'[v] = vouchers[v],
           \/ vouchers'[w].auto = FALSE
           \/ vouchers'[w].reference \notin Calls
           \/ /\ vouchers[w] # None
              /\ vouchers'[w].auto = vouchers[w].auto
              /\ vouchers'[w].reference = vouchers[w].reference
              /\ vouchers'[w].lines = vouchers[w].lines
    PROVE  RunMatchesVoucher'
<1>1. DOMAIN vouchers = Calls
  BY DEF Inv, TypeOK
<1> SUFFICES ASSUME NEW v \in Calls, vouchers'[v] # None, vouchers'[v].auto, vouchers'[v].reference \in Calls
             PROVE  LET r == vouchers'[v].reference IN
                    /\ runs[r] # None /\ runs[r].status = "posted" /\ runs[r].voucher = v
                    /\ vouchers'[v].lines["salaries"] = runs[r].net
  BY DEF RunMatchesVoucher, Entered
<1>2. /\ vouchers[v] # None /\ vouchers[v].auto = vouchers'[v].auto
      /\ vouchers'[v].reference = vouchers[v].reference /\ vouchers'[v].lines = vouchers[v].lines
  OBVIOUS
<1> QED BY <1>1, <1>2 DEF RunMatchesVoucher, Entered

\* One run is written, of which nothing has been posted.
LEMMA VouchersKeep ==
    ASSUME Inv, RunMatchesVoucher, UNCHANGED vouchers, NEW r \in Calls, Undrafted(r),
           \A s \in Calls : s # r => runs'[s] = runs[s]
    PROVE  RunMatchesVoucher'
<1>1. DOMAIN vouchers = Calls
  BY DEF Inv, TypeOK
<1> SUFFICES ASSUME NEW v \in Calls, vouchers[v] # None, vouchers[v].auto, vouchers[v].reference \in Calls
             PROVE  LET s == vouchers[v].reference IN
                    /\ runs'[s] # None /\ runs'[s].status = "posted" /\ runs'[s].voucher = v
                    /\ vouchers[v].lines["salaries"] = runs'[s].net
  BY <1>1 DEF RunMatchesVoucher, Entered
<1>2. PICK s \in Calls : /\ s = vouchers[v].reference
                         /\ runs[s] # None /\ runs[s].status = "posted" /\ runs[s].voucher = v
                         /\ vouchers[v].lines["salaries"] = runs[s].net
  BY <1>1 DEF RunMatchesVoucher, Entered
<1>3. s # r
  BY <1>2 DEF Undrafted
<1> QED BY <1>2, <1>3

LEMMA VoucherStepsTables ==
    ASSUME Inv, Tables, NEW c \in Calls, SerialOK(call[c]),
           CommitVoucher(c) \/ CommitUpdate(c) \/ CommitApproval(c)
    PROVE  Tables'
<1>1. /\ DOMAIN vouchers = Calls /\ LocalOK(c, call[c]) /\ vouchers \in [Calls -> VoucherRow \union {None}]
  BY DEF Inv, TypeOK
<1>2. UNCHANGED <<runs, txns, accounts>>
  BY DEF CommitVoucher, CommitUpdate, CommitApproval
<1>3. CASE CommitVoucher(c)
  <2>1. PICK row : /\ row = Voucher(call[c].number, call[c].of, call[c].to, FALSE, None, call[c].lines)
                   /\ vouchers' = [vouchers EXCEPT ![c] = row]
    BY <1>3 DEF CommitVoucher
  <2>2. row \in VoucherRow /\ row # None /\ vouchers[c] = None
    <3>1. /\ call[c].number \in Nat /\ call[c].of \in VoucherTypes /\ call[c].to \in {"draft", "posted"}
          /\ call[c].lines \in Entries /\ vouchers[c] = None
      BY <1>1, <1>3 DEF CommitVoucher, At, LocalOK
    <3>2. row \in VoucherRow
      BY <2>1, <3>1, VoucherIsARow
    <3> QED BY <3>1, <3>2
  <2>3. row.number = NextSeq(vouchers) /\ row.auto = FALSE
    BY <1>3, <2>1 DEF CommitVoucher, At, SerialOK, Voucher
  <2>4. VouchersGapless'
    BY <2>1, <2>2, <2>3, VoucherAdded DEF Tables
  <2>5. RunMatchesVoucher'
    <3>1. DOMAIN vouchers' = Calls /\ vouchers'[c] = row /\ \A v \in Calls : v # c => vouchers'[v] = vouchers[v]
      BY <1>1, <2>1
    <3> QED BY <1>2, <2>3, <3>1, RunsKeep DEF Tables
  <2> QED BY <1>2, <2>4, <2>5, SameTables DEF Tables
<1>4. CASE CommitUpdate(c)
  <2>0. call[c].of \in Calls /\ vouchers[call[c].of] # None
    BY <1>1, <1>4 DEF CommitUpdate, At, LocalOK
  <2>1. PICK v, row :
            /\ v \in Calls /\ v = call[c].of /\ vouchers[v] # None
            /\ row = [vouchers[v] EXCEPT !.lines = call[c].lines] /\ vouchers' = [vouchers EXCEPT ![v] = row]
    BY <1>4, <2>0 DEF CommitUpdate
  <2>2. call[c].lines \in Entries /\ vouchers[v].auto = FALSE
    BY <1>1, <1>4, <2>1 DEF CommitUpdate, At, LocalOK, SerialOK
  <2>3. vouchers[v] \in VoucherRow
    BY <1>1, <2>1
  <2>4. row \in VoucherRow /\ row.number = vouchers[v].number /\ row.auto = vouchers[v].auto
    BY <2>1, <2>2, <2>3 DEF VoucherRow
  <2>5. row # None
    BY <2>4
  <2>6. VouchersGapless'
    BY <2>1, <2>4, <2>5, VouchersRewritten DEF Tables
  <2>7. RunMatchesVoucher'
    <3>1. /\ DOMAIN vouchers' = Calls /\ vouchers'[v].auto = FALSE
          /\ \A w \in Calls : w # v => vouchers'[w] = vouchers[w]
      BY <1>1, <2>1, <2>2, <2>4
    <3> QED BY <1>2, <2>1, <3>1, RunsKeep DEF Tables
  <2> QED BY <1>2, <2>6, <2>7, SameTables DEF Tables
<1>5. CASE CommitApproval(c)
  <2>0. call[c].of \in Calls /\ vouchers[call[c].of] # None
    BY <1>1, <1>5 DEF CommitApproval, At, LocalOK
  <2>1. PICK v, row :
            /\ v \in Calls /\ v = call[c].of /\ vouchers[v] # None
            /\ row = [vouchers[v] EXCEPT !.status = "posted"] /\ vouchers' = [vouchers EXCEPT ![v] = row]
    BY <1>5, <2>0 DEF CommitApproval
  <2>2. vouchers[v] \in VoucherRow
    BY <1>1, <2>1
  <2>3. /\ row \in VoucherRow /\ row.number = vouchers[v].number /\ row.auto = vouchers[v].auto
        /\ row.reference = vouchers[v].reference /\ row.lines = vouchers[v].lines
    BY <2>1, <2>2 DEF VoucherRow
  <2>4. row # None
    BY <2>3
  <2>5. VouchersGapless'
    BY <2>1, <2>3, <2>4, VouchersRewritten DEF Tables
  <2>6. RunMatchesVoucher'
    <3>1. DOMAIN vouchers' = Calls /\ vouchers'[v] = row /\ \A w \in Calls : w # v => vouchers'[w] = vouchers[w]
      BY <1>1, <2>1
    <3> QED BY <1>2, <2>1, <2>3, <3>1, RunsKeep DEF Tables
  <2> QED BY <1>2, <2>5, <2>6, SameTables DEF Tables
<1> QED BY <1>3, <1>4, <1>5

LEMMA PayrollStepsTables ==
    ASSUME Inv, OwnRows, Tables, NEW c \in Calls, SerialOK(call[c]), ~ Resting(c),
           CommitRun(c) \/ CommitLine(c) \/ CommitRemove(c), UNCHANGED <<vouchers, txns, accounts>>
    PROVE  Tables'
<1>1. /\ DOMAIN runs = Calls /\ LocalOK(c, call[c]) /\ call[c].step # "done"
  BY DEF Inv, TypeOK, Resting
<1>2. \E r \in Calls : Undrafted(r) /\ \A s \in Calls : s # r => runs'[s] = runs[s]
  <2>1. CASE CommitRun(c)
    <3>1. Undrafted(c)
      BY <1>1 DEF OwnRows, Undrafted
    <3>2. \A s \in Calls : s # c => runs'[s] = runs[s]
      BY <1>1, <2>1 DEF CommitRun, Fail, rows
    <3> QED BY <3>1, <3>2
  <2>2. CASE CommitLine(c)
    <3>1. call[c].of \in Calls /\ Undrafted(call[c].of)
      BY <1>1, <2>2 DEF CommitLine, At, LocalOK, SerialOK
    <3>2. \A s \in Calls : s # call[c].of => runs'[s] = runs[s]
      BY <1>1, <2>2 DEF CommitLine, Fail, rows
    <3> QED BY <3>1, <3>2
  <2>3. CASE CommitRemove(c)
    <3>1. call[c].of \in Calls /\ Undrafted(call[c].of)
      BY <1>1, <2>3 DEF CommitRemove, At, LocalOK, SerialOK
    <3>2. \A s \in Calls : s # call[c].of => runs'[s] = runs[s]
      BY <1>1, <2>3 DEF CommitRemove
    <3> QED BY <3>1, <3>2
  <2> QED BY <2>1, <2>2, <2>3
<1>3. PICK r \in Calls : Undrafted(r) /\ \A s \in Calls : s # r => runs'[s] = runs[s]
  BY <1>2
<1>4. RunMatchesVoucher'
  BY <1>3, VouchersKeep DEF Tables
<1> QED BY <1>4, SameTables DEF Tables

LEMMA PostTables ==
    ASSUME Inv, Tables, NEW c \in Calls, SerialOK(call[c]), CommitPost(c), ~ Fail(c)
    PROVE  Tables'
<1>1. /\ DOMAIN vouchers = Calls /\ DOMAIN runs = Calls /\ LocalOK(c, call[c])
      /\ At(c, "post") /\ UNCHANGED <<txns, accounts>>
  BY DEF Inv, TypeOK, CommitPost
<1>2. PICK r, row, run :
          /\ r \in Calls /\ r = call[c].of /\ runs[r] # None /\ runs[r].net = call[c].to /\ Undrafted(r)
          /\ row = Salaries(c) /\ vouchers' = [vouchers EXCEPT ![c] = row]
          /\ run = Run(runs[r].period, "posted", runs[r].net, c) /\ runs' = [runs EXCEPT ![r] = run]
  <2>1. call[c].of \in Calls /\ runs[call[c].of].net = call[c].to /\ Undrafted(call[c].of)
    BY <1>1 DEF At, LocalOK, SerialOK
  <2> QED BY <2>1 DEF CommitPost
<1>3. /\ row \in VoucherRow /\ row # None /\ vouchers[c] = None
  <2>1. vouchers[c] = None /\ call[c].number \in Nat /\ call[c].to \in Int
    BY <1>1 DEF At, LocalOK
  <2>2. [salaries |-> call[c].to, cash |-> 0 - call[c].to] \in Entries
    BY <2>1, SalariesAreEntries
  <2>3. row \in VoucherRow
    BY <1>2, <2>1, <2>2 DEF Salaries, Voucher, VoucherRow, VoucherTypes
  <2> QED BY <2>1, <2>3
<1>4. /\ row.number = NextSeq(vouchers) /\ row.reference = r
      /\ row.lines["salaries"] = runs[r].net
  BY <1>1, <1>2 DEF At, SerialOK, Salaries, Voucher
<1>5. VouchersGapless'
  BY <1>2, <1>3, <1>4, VoucherAdded DEF Tables
<1>6. RunMatchesVoucher'
  <2>1. /\ DOMAIN vouchers' = Calls /\ vouchers'[c] = row /\ runs'[r] = run
        /\ \A v \in Calls : v # c => vouchers'[v] = vouchers[v]
        /\ \A s \in Calls : s # r => runs'[s] = runs[s]
    BY <1>1, <1>2
  <2>2. run # None /\ run.status = "posted" /\ run.voucher = c /\ run.net = runs[r].net
    <3>1. run.status = "posted" /\ run.voucher = c /\ run.net = runs[r].net
      BY <1>2 DEF Run
    <3>2. runs[r] \in RunRow
      BY <1>2 DEF Inv, TypeOK
    <3>3. run \in RunRow
      BY <1>2, <3>2 DEF Run, RunRow
    <3> QED BY <3>1, <3>3
  <2> SUFFICES ASSUME NEW v \in Calls, vouchers'[v] # None, vouchers'[v].auto, vouchers'[v].reference \in Calls
               PROVE  LET s == vouchers'[v].reference IN
                      /\ runs'[s] # None /\ runs'[s].status = "posted" /\ runs'[s].voucher = v
                      /\ vouchers'[v].lines["salaries"] = runs'[s].net
    BY <2>1 DEF RunMatchesVoucher, Entered
  <2>3. CASE v = c
    BY <1>4, <2>1, <2>2, <2>3
  <2>4. CASE v # c
    <3>1. PICK s \in Calls : /\ s = vouchers[v].reference
                             /\ runs[s] # None /\ runs[s].status = "posted" /\ runs[s].voucher = v
                             /\ vouchers[v].lines["salaries"] = runs[s].net
      BY <1>1, <2>1, <2>4 DEF RunMatchesVoucher, Entered, Tables
    <3>2. s # r
      BY <1>2, <3>1 DEF Undrafted
    <3> QED BY <2>1, <2>4, <3>1, <3>2
  <2> QED BY <2>3, <2>4
<1> QED BY <1>1, <1>5, <1>6, SameTables DEF Tables

LEMMA MatchTables ==
    ASSUME Inv, Tables, NEW c \in Calls, SerialOK(call[c]), CommitMatch(c)
    PROVE  Tables'
<1>1. /\ txns \in [TxnIds -> TxnRow \union {None}] /\ LocalOK(c, call[c])
      /\ At(c, "match") /\ UNCHANGED <<vouchers, runs, accounts>>
  BY DEF Inv, TypeOK, CommitMatch
<1>2. PICK t, v, row :
          /\ t \in TxnIds /\ v \in Calls /\ txns[t] # None /\ ~ Taken(txns[t].account, v)
          /\ row = Txn(txns[t].account, "matched", v) /\ txns' = [txns EXCEPT ![t] = row]
  <2>1. /\ call[c].of \in TxnIds /\ call[c].to \in Calls /\ txns[call[c].of] # None
        /\ ~ Taken(txns[call[c].of].account, call[c].to)
    BY <1>1 DEF At, LocalOK, SerialOK
  <2> QED BY <2>1 DEF CommitMatch
<1>3. /\ DOMAIN txns' = TxnIds /\ txns'[t] = row /\ \A u \in TxnIds : u # t => txns'[u] = txns[u]
      /\ row.account = txns[t].account /\ row.voucher = v
  BY <1>1, <1>2 DEF Txn
<1>4. ASSUME NEW u \in TxnIds, txns[u] # None, txns[u].status = "matched",
             txns[u].account = txns[t].account, txns[u].voucher = v
      PROVE  FALSE
  <2>1. txns[u] = Txn(txns[t].account, "matched", v)
    BY <1>1, <1>4 DEF Txn, TxnRow
  <2> QED BY <1>2, <1>4, <2>1 DEF Taken
<1>5. MatchedOnce'
  <2> SUFFICES ASSUME NEW a \in TxnIds, NEW b \in TxnIds, txns'[a] # None, txns'[b] # None,
                      txns'[a].status = "matched", txns'[b].status = "matched",
                      txns'[a].account = txns'[b].account, txns'[a].voucher = txns'[b].voucher
               PROVE  a = b
    BY <1>3 DEF MatchedOnce, Entered
  <2>1. CASE a # t /\ b # t
    BY <1>1, <1>3, <2>1 DEF Tables, MatchedOnce, Entered
  <2>2. CASE a = t /\ b # t
    BY <1>3, <1>4, <2>2
  <2>3. CASE a # t /\ b = t
    BY <1>3, <1>4, <2>3
  <2> QED BY <2>1, <2>2, <2>3
<1> QED BY <1>1, <1>5, SameTables DEF Tables

LEMMA IssueTables ==
    ASSUME Inv, OwnRows, Tables, NEW c \in Calls, SerialOK(call[c]), CommitIssue(c), ~ Fail(c)
    PROVE  Tables'
<1>1. /\ DOMAIN vouchers = Calls /\ DOMAIN accounts = Calls /\ LocalOK(c, call[c])
      /\ At(c, "issued") /\ UNCHANGED <<runs, txns>>
  BY DEF Inv, TypeOK, CommitIssue
<1>2. /\ vouchers[c] = None /\ accounts[c] = None /\ call[c].of \in Clients /\ call[c].to \in Nat
      /\ call[c].number \in Nat /\ call[c].number = NextSeq(vouchers)
      /\ call[c].to = 0 \/ (call[c].to = NextSeq(accounts) /\ NoAccount(call[c].of))
  BY <1>1 DEF At, LocalOK, SerialOK, OwnRows
<1>3. PICK row : /\ row = Voucher(call[c].number, "JRV", "posted", TRUE, call[c].of, Premium)
                 /\ vouchers' = [vouchers EXCEPT ![c] = row]
  BY DEF CommitIssue, IssueVoucher
<1>4. row \in VoucherRow /\ row # None /\ row.number = NextSeq(vouchers) /\ row.reference = call[c].of
  <2>1. row \in VoucherRow
    BY <1>2, <1>3, PremiumIsEntries, VoucherIsARow DEF VoucherTypes
  <2> QED BY <1>2, <1>3, <2>1 DEF Voucher
<1>5. VouchersGapless'
  BY <1>2, <1>3, <1>4, VoucherAdded DEF Tables
<1>6. RunMatchesVoucher'
  <2>1. /\ DOMAIN vouchers' = Calls /\ vouchers'[c] = row
        /\ \A v \in Calls : v # c => vouchers'[v] = vouchers[v]
    BY <1>1, <1>3
  <2>2. vouchers'[c].reference \notin Calls
    BY <1>2, <1>4, <2>1, ClientsAssumption
  <2> QED BY <1>1, <2>1, <2>2, RunsKeep DEF Tables
<1>7. AccountsGapless' /\ OneAccountEach'
  <2>1. CASE call[c].to = 0
    <3>1. UNCHANGED accounts
      BY <2>1 DEF CommitIssue
    <3> QED BY <3>1, SameTables DEF Tables
  <2>2. CASE call[c].to # 0
    <3>1. PICK a : /\ a = [client |-> call[c].of, code |-> call[c].to]
                   /\ accounts' = [accounts EXCEPT ![c] = a]
      BY <2>2 DEF CommitIssue
    <3>2. a \in AccountRow /\ a # None /\ a.code = NextSeq(accounts) /\ a.client = call[c].of
      BY <1>2, <2>2, <3>1 DEF AccountRow
    <3>3. AccountsGapless'
      BY <1>2, <3>1, <3>2, AccountAdded DEF Tables
    <3>4. /\ DOMAIN accounts' = Calls /\ accounts'[c] = a
          /\ \A d \in Calls : d # c => accounts'[d] = accounts[d]
      BY <1>1, <3>1
    <3>5. \A d \in Calls : accounts[d] # None => accounts[d].client # a.client
      BY <1>2, <2>2, <3>2 DEF NoAccount
    <3>6. OneAccountEach'
      BY <1>1, <3>4, <3>5 DEF Tables, OneAccountEach, Entered
    <3> QED BY <3>3, <3>6
  <2> QED BY <2>1, <2>2
<1>8. MatchedOnce'
  BY <1>1, SameTables DEF Tables
<1> QED BY <1>5, <1>6, <1>7, <1>8 DEF Tables

LEMMA TablesKeep ==
    ASSUME Inv, OwnRows, Tables, NEW c \in Calls, SerialOK(call[c]),
           QuietStep(c) \/ ImportStep(c) \/ StatusStep(c) \/ WritingStep(c)
    PROVE  Tables'
<1>1. CASE QuietStep(c)
  <2>1. UNCHANGED <<vouchers, runs, txns, accounts>>
    BY <1>1, QuietRows
  <2> QED BY <2>1, SameTables DEF Tables
<1>2. CASE ImportStep(c) \/ StatusStep(c)
  <2>1. UNCHANGED <<vouchers, runs, accounts>>
    BY <1>2 DEF ImportStep, StatusStep
  <2>2. MatchedOnce'
    BY <1>2, BankStepsUnmatch, UnmatchedKeeps DEF Tables
  <2> QED BY <2>1, <2>2, SameTables DEF Tables
<1>3. CASE WritingStep(c)
  <2>1. ~ Resting(c)
    BY <1>3, WritersFinish
  <2>2. CASE CommitVoucher(c) \/ CommitUpdate(c) \/ CommitApproval(c)
    BY <2>2, VoucherStepsTables
  <2>3. CASE CommitRemove(c) \/ ((CommitRun(c) \/ CommitLine(c)) /\ ~ Fail(c))
    <3>1. UNCHANGED <<vouchers, txns, accounts>>
      BY <2>3 DEF CommitRemove, CommitRun, CommitLine
    <3> QED BY <2>1, <2>3, <3>1, PayrollStepsTables
  <2>4. CASE CommitPost(c) /\ ~ Fail(c)
    BY <2>4, PostTables
  <2>5. CASE CommitIssue(c) /\ ~ Fail(c)
    BY <2>5, IssueTables
  <2>6. CASE CommitMatch(c)
    BY <2>6, MatchTables
  <2> QED BY <1>3, <2>2, <2>3, <2>4, <2>5, <2>6 DEF WritingStep
<1> QED BY <1>1, <1>2, <1>3

-----------------------------------------------------------------------------
(* One call at a time                                                        *)

LEMMA FewInFlight ==
    ASSUME Cardinality(InFlight) <= 1
    PROVE  OneAtATime
<1> SUFFICES ASSUME NEW c \in Calls, NEW d \in Calls, c # d, ~ Resting(c), ~ Resting(d)
             PROVE  FALSE
  BY DEF OneAtATime
<1>1. IsFiniteSet(InFlight) /\ {c, d} \in SUBSET InFlight
  BY FS_Subset DEF InFlight, Resting
<1>2. IsFiniteSet({c}) /\ Cardinality({c}) = 1
  BY FS_Singleton
<1>3. Cardinality({c} \union {d}) = 1 + 1
  <2>1. d \notin {c}
    OBVIOUS
  <2> QED BY <1>2, <2>1, FS_AddElement
<1>4. Cardinality({c, d}) <= Cardinality(InFlight) /\ {c, d} = {c} \union {d}
  BY <1>1, FS_Subset
<1>5. Cardinality(InFlight) \in Nat
  BY <1>1, FS_CardinalityType
<1> QED BY <1>3, <1>4, <1>5

Alone == Cardinality(InFlight) <= 1 => OneAtATime

LEMMA FewAreAlone == Alone
BY FewInFlight DEF Alone

LEMMA WithinIsAlone ==
    ASSUME Serial, MCNext
    PROVE  OneAtATime'
<1>1. Alone'
  BY FewAreAlone, PTL
<1>2. load' = load /\ Cardinality(InFlight)' <= load'.atOnce /\ load.atOnce = 1
  BY DEF MCNext, Within, Serial
<1> QED BY <1>1, <1>2 DEF Alone

\* What the others have read is still so.
LEMMA OthersStaySerial ==
    ASSUME Inv, OwnRows, OneAtATime, NEW c \in Calls, NEW d \in Calls, d # c, NEW l, l = call[d],
           LocalOK(d, l), SerialOK(l),
           QuietStep(c) \/ ImportStep(c) \/ StatusStep(c) \/ WritingStep(c)
    PROVE  SerialOK(l)'
<1>1. CASE QuietStep(c)
  <2>1. UNCHANGED <<vouchers, runs, txns, accounts>>
    BY <1>1, QuietRows
  <2> QED BY <2>1 DEF SerialOK, NextSeq, Entered, Undrafted, NoAccount, Taken
<1>2. CASE ImportStep(c) \/ StatusStep(c)
  BY <1>2, BankStepsLeave
<1>3. CASE WritingStep(c)
  <2>1. l.step \in {"idle", "done"}
    BY <1>3, WritersFinish DEF OneAtATime, Resting
  <2> QED BY <2>1 DEF SerialOK
<1> QED BY <1>1, <1>2, <1>3

LEMMA SerialStep ==
    ASSUME Inv, OwnRows, SerialInv, OneAtATime', NEW c \in Calls,
           StartVoucher(c) \/ StartPayroll(c) \/ StartBank(c) \/ Continue(c) \/ Crash(c)
    PROVE  SerialInv'
<1>1. QuietStep(c) \/ ImportStep(c) \/ StatusStep(c) \/ WritingStep(c)
  BY StepsAre
<1>2. Tables'
  BY <1>1, TablesKeep DEF SerialInv
<1>3. PICK l : /\ call' = [call EXCEPT ![c] = l] /\ call'[c] = l
               /\ \A d \in Calls : d # c => call'[d] = call[d]
  BY OthersRest
<1>4. SerialOK(call[c])'
  <2>1. CASE QuietStep(c)
    <3>1. PICK k : call' = [call EXCEPT ![c] = k] /\ SerialOK(k)
      BY <2>1, QuietReads DEF Reads, SerialInv
    <3>2. call'[c] = k
      BY <3>1 DEF Inv
    <3>3. UNCHANGED <<vouchers, runs, txns, accounts>>
      BY <2>1, QuietRows
    <3>4. SerialOK(k)'
      BY <3>1, <3>3 DEF SerialOK, NextSeq, Entered, Undrafted, NoAccount, Taken
    <3> QED BY <3>2, <3>4
  <2>2. CASE ImportStep(c) \/ StatusStep(c) \/ WritingStep(c)
    <3>1. call' = [call EXCEPT ![c] = Over]
      BY <2>2, WritersFinish DEF ImportStep, StatusStep, Finish
    <3>2. call'[c] = Over
      BY <3>1 DEF Inv
    <3>3. call'[c].step = "done"
      BY <3>2, OverIsOK
    <3> QED BY <3>3 DEF SerialOK
  <2> QED BY <1>1, <2>1, <2>2
<1>5. ASSUME NEW d \in Calls, d # c PROVE SerialOK(call[d])'
  <2>1. PICK k : k = call[d] /\ k = call'[d] /\ LocalOK(d, k) /\ SerialOK(k)
    BY <1>3, <1>5 DEF Inv, SerialInv
  <2>2. SerialOK(k)'
    BY <1>1, <1>5, <2>1, OthersStaySerial DEF SerialInv
  <2> QED BY <2>1, <2>2
<1>6. ASSUME NEW d \in Calls PROVE SerialOK(call[d])'
  BY <1>4, <1>5
<1> QED BY <1>2, <1>6 DEF SerialInv

LEMMA SerialNext ==
    ASSUME Inv, OwnRows, Serial => SerialInv, [MCNext]_<<vars, load>>
    PROVE  (Serial => SerialInv)'
<1> SUFFICES ASSUME Serial' PROVE SerialInv'
  OBVIOUS
<1>1. Serial
  BY DEF Serial, MCNext
<1>2. CASE MCNext
  <2>1. OneAtATime'
    BY <1>1, <1>2, WithinIsAlone
  <2>2. PICK c \in Calls : StartVoucher(c) \/ StartPayroll(c) \/ StartBank(c) \/ Continue(c) \/ Crash(c)
    BY <1>2 DEF MCNext, Next
  <2> QED BY <1>1, <2>1, <2>2, SerialStep
<1>3. CASE UNCHANGED <<vars, load>>
  <2>1. UNCHANGED <<vouchers, runs, txns, accounts, call>>
    BY <1>3 DEF vars, rows
  <2>2. Tables'
    BY <1>1, <2>1, SameTables DEF Tables, SerialInv
  <2>3. OneAtATime'
    BY <1>1, <2>1 DEF SerialInv, OneAtATime, Resting
  <2>4. ASSUME NEW d \in Calls PROVE SerialOK(call[d])'
    BY <1>1, <2>1 DEF SerialInv, SerialOK, NextSeq, Entered, Undrafted, NoAccount, Taken
  <2> QED BY <2>2, <2>3, <2>4 DEF SerialInv
<1> QED BY <1>2, <1>3

LEMMA SerialInit ==
    ASSUME Init
    PROVE  SerialInv
<1>1. /\ Entered(vouchers) = {} /\ Entered(accounts) = {} /\ Entered(txns) = {}
  BY DEF Init, Entered
<1>2. Cardinality({}) = 0 /\ 1..0 = {}
  BY FS_EmptySet
<1>3. Tables
  BY <1>1, <1>2 DEF Tables, VouchersGapless, AccountsGapless, OneAccountEach, MatchedOnce, RunMatchesVoucher
<1>4. \A c \in Calls : call[c].step = "idle"
  BY DEF Init, Idle, Local
<1> QED BY <1>3, <1>4 DEF SerialInv, OneAtATime, Resting, SerialOK

-----------------------------------------------------------------------------
(* What follows for the properties                                           *)

\* The vouchers the matched lines name are as many as the lines.
LEMMA MatchedAddUp ==
    ASSUME Inv, MatchedOnce, NEW b \in BankAccounts
    PROVE  Cardinality(Matched(b)) + Cardinality(UnmatchedVouchers(b)) = Cardinality(CashVouchers)
<1>1. IsFiniteSet(TxnIds)
  <2>1. IsFiniteSet({1}) /\ IsFiniteSet({1} \union {2}) /\ {1, 2} = {1} \union {2}
    BY FS_Singleton, FS_AddElement
  <2> QED BY <2>1, FS_Product DEF TxnIds
<1>2. IsFiniteSet(CashVouchers)
  BY RowsAreFew, FS_Subset DEF CashVouchers
<1>3. PICK M, V, f : /\ M = Matched(b) /\ V = {txns[t].voucher : t \in M}
                     /\ f = [t \in M |-> txns[t].voucher]
  OBVIOUS
<1>4. IsFiniteSet(M)
  BY <1>1, <1>3, FS_Subset DEF Matched, Entered, Inv, TypeOK
<1>5. V \subseteq CashVouchers
  BY <1>3 DEF Inv, MatchedIsCash, Matched, CashVouchers
<1>6. \A t, u \in M : txns[t].voucher = txns[u].voucher => t = u
  BY <1>3 DEF Matched, MatchedOnce
<1>7. f \in Bijection(M, V)
  <2>1. f \in [M -> V]
    BY <1>3
  <2>2. \A t, u \in M : f[t] = f[u] => t = u
    BY <1>3, <1>6
  <2>3. \A v \in V : \E t \in M : f[t] = v
    BY <1>3
  <2> QED BY <2>1, <2>2, <2>3 DEF Bijection, Injection, Surjection, IsInjective
<1>8. IsFiniteSet(V) /\ Cardinality(V) = Cardinality(M)
  BY <1>4, <1>7, FS_Bijection DEF ExistsBijection
<1>9. Cardinality(CashVouchers \ V) = Cardinality(CashVouchers) - Cardinality(V)
  <2>1. CashVouchers \cap V = V
    BY <1>5
  <2> QED BY <1>2, <2>1, FS_Difference
<1>10. Cardinality(CashVouchers) \in Nat /\ Cardinality(V) \in Nat
  BY <1>2, <1>8, FS_CardinalityType
<1>11. UnmatchedVouchers(b) = CashVouchers \ V
  BY <1>3 DEF UnmatchedVouchers
<1> QED BY <1>3, <1>8, <1>9, <1>10, <1>11

LEMMA OneAccountOf ==
    ASSUME OneAccountEach, NEW client \in Clients
    PROVE  Cardinality(AccountsOf(client)) <= 1
<1>1. CASE AccountsOf(client) = {}
  BY <1>1, FS_EmptySet
<1>2. CASE AccountsOf(client) # {}
  <2>1. PICK a : a \in AccountsOf(client)
    BY <1>2
  <2>2. AccountsOf(client) = {a}
    BY <2>1 DEF AccountsOf, OneAccountEach
  <2> QED BY <2>2, FS_Singleton
<1> QED BY <1>1, <1>2

LEMMA SerialSafe ==
    ASSUME Inv, Serial => SerialInv
    PROVE  NumbersAreSound /\ VouchersMatch
<1>1. ASSUME Serial PROVE NumbersAreGapless /\ OneAccountPerClient
  BY <1>1, OneAccountOf
     DEF SerialInv, Tables, VouchersGapless, AccountsGapless, NumbersAreGapless, OneAccountPerClient
<1>2. ASSUME Serial PROVE ReconciliationAddsUp /\ RunMatchesVoucher
  BY <1>2, MatchedAddUp DEF SerialInv, Tables, ReconciliationAddsUp
<1> QED BY <1>1, <1>2 DEF NumbersAreSound, VouchersMatch, Inv

\* With what each call has read, if it is served alone.
SerialCallsSafe == Inv /\ OwnRows /\ (Serial => SerialInv)

\* Served alone, the calls that post, void and reconcile never leave a table or a read row out of
\* step with the others; with calls in flight together, the invariants that need no order remain.
THEOREM SerialCallsAlwaysSafe == MCSpec => []SerialCallsSafe
<1>1. MCInit => SerialCallsSafe
  BY InitHolds, OwnInit, SerialInit DEF MCInit, SerialCallsSafe
<1>2. SerialCallsSafe /\ [MCNext]_<<vars, load>> => SerialCallsSafe'
  <2> SUFFICES ASSUME SerialCallsSafe, [MCNext]_<<vars, load>> PROVE SerialCallsSafe'
    OBVIOUS
  <2>1. [Next]_vars
    BY DEF MCNext
  <2>2. Inv' /\ OwnRows'
    BY <2>1, NextKeeps, OwnNext DEF SerialCallsSafe
  <2>3. (Serial => SerialInv)'
    BY SerialNext DEF SerialCallsSafe
  <2> QED BY <2>2, <2>3 DEF SerialCallsSafe
<1> QED BY <1>1, <1>2, PTL DEF MCSpec

\* Codes of accounts are never shared, and served one at a time vouchers and accounts
\* are numbered without a gap, a client having one account, whatever calls die.
THEOREM NumbersAlwaysSound == MCSpec => []NumbersAreSound
<1>1. SerialCallsSafe => NumbersAreSound
  BY SerialSafe DEF SerialCallsSafe
<1> QED BY <1>1, SerialCallsAlwaysSafe, PTL

\* A matched bank line names a cash voucher, and served one at a time every
\* reconciliation adds up and a payroll voucher says what its run says.
THEOREM VouchersAlwaysMatch == MCSpec => []VouchersMatch
<1>1. SerialCallsSafe => VouchersMatch
  BY SerialSafe DEF SerialCallsSafe
<1> QED BY <1>1, SerialCallsAlwaysSafe, PTL
=============================================================================
