-------------------------- MODULE PolicyLedger_proofs --------------------------
(***************************************************************************)
(* What holds of PolicyLedger for any number of policies and calls,        *)
(* however calls interleave and die.                                       *)
(*                                                                         *)
(* A voucher is posted by one call and is not changed afterwards; a credit *)
(* note keeps its policy and amount. So what a step shows as done stays    *)
(* vouched for: the invariant adds what a call has read and still counts   *)
(* on, and that its own rows are not there before it writes them.          *)
(*                                                                         *)
(* The clients' account and what clients are shown to owe are two sums     *)
(* over the same rows: each step adds to both alike, or to what one of     *)
(* them does not know. Served one at a time, what a call has read of       *)
(* balances, notes and endorsements is still so when it writes.            *)
(***************************************************************************)
EXTENDS MCPolicyLedger, FiniteSetTheorems, TLAPS

-----------------------------------------------------------------------------
(* Sums over finite sets                                                    *)
(* The induction theorems of the library take a predicate; here a minimal   *)
(* subset for which a fact fails is ruled out instead.                      *)

\* What SumFunctionOnSet unfolds to: a recursive function over the subsets.
Pick(s) == CHOOSE x \in s : TRUE
IsFold(f, S, g) == g = [s \in SUBSET S |-> IF s = {} THEN 0 ELSE f[Pick(s)] + g[s \ {Pick(s)}]]
Fold(f, S) == CHOOSE g : IsFold(f, S, g)

\* A nonempty set of subsets of a finite set has a minimal member.
LEMMA SubsetMinimum ==
    ASSUME NEW S, IsFiniteSet(S), NEW B, B \subseteq SUBSET S, B # {}
    PROVE  \E T \in B : \A U \in B : U \subseteq T => U = T
<1>1. \E T \in B : \A U \in B : ~ (<<U, T>> \in StrictSubsetOrdering(S))
  BY FS_StrictSubsetOrderingWellFounded, FS_FiniteSubsetsOfFinite, WFMin
<1> QED BY <1>1 DEF StrictSubsetOrdering

\* The recursion has one solution at most, ...
LEMMA FoldUnique ==
    ASSUME NEW f, NEW S, IsFiniteSet(S), NEW g, NEW h, IsFold(f, S, g), IsFold(f, S, h)
    PROVE  g = h
<1> DEFINE B == {s \in SUBSET S : g[s] # h[s]}
<1>1. SUFFICES ASSUME B # {} PROVE FALSE
  BY DEF IsFold
<1>2. PICK T \in B : \A U \in B : U \subseteq T => U = T
  <2>1. B \subseteq SUBSET S
    OBVIOUS
  <2> HIDE DEF B
  <2> QED BY <1>1, <2>1, SubsetMinimum
<1>3. T # {} /\ Pick(T) \in T
  BY <1>2 DEF IsFold, Pick
<1>4. g[T \ {Pick(T)}] = h[T \ {Pick(T)}]
  BY <1>2, <1>3
<1>5. /\ g[T] = f[Pick(T)] + g[T \ {Pick(T)}]
      /\ h[T] = f[Pick(T)] + h[T \ {Pick(T)}]
  BY <1>2, <1>3 DEF IsFold
<1> QED BY <1>2, <1>4, <1>5

\* ... a solution over a set is one over its subsets, ...
LEMMA FoldRestricted ==
    ASSUME NEW f, NEW S, IsFiniteSet(S), NEW T \in SUBSET S, NEW g, IsFold(f, S, g)
    PROVE  IsFold(f, T, Fold(f, T)) /\ Fold(f, T)[T] = g[T]
<1> DEFINE h == [s \in SUBSET T |-> g[s]]
<1>1. IsFold(f, T, h)
  <2>1. \A s \in SUBSET T : h[s] = IF s = {} THEN 0 ELSE f[Pick(s)] + h[s \ {Pick(s)}]
    BY DEF IsFold
  <2> QED BY <2>1 DEF IsFold
<1>2. IsFold(f, T, Fold(f, T))
  BY <1>1 DEF Fold
<1>3. Fold(f, T) = h
  BY <1>1, <1>2, FoldUnique, FS_Subset
<1> QED BY <1>2, <1>3

\* ... and over a finite set there is one.
LEMMA FoldExists ==
    ASSUME NEW f, NEW S, IsFiniteSet(S)
    PROVE  IsFold(f, S, Fold(f, S))
<1> DEFINE B == {T \in SUBSET S : ~ IsFold(f, T, Fold(f, T))}
<1>1. SUFFICES ASSUME B # {} PROVE FALSE
  OBVIOUS
<1>2. PICK T \in B : \A U \in B : U \subseteq T => U = T
  <2>1. B \subseteq SUBSET S
    OBVIOUS
  <2> HIDE DEF B
  <2> QED BY <1>1, <2>1, SubsetMinimum
<1> DEFINE g == [s \in SUBSET T |-> IF s = {} THEN 0
                      ELSE f[Pick(s)] + Fold(f, s \ {Pick(s)})[s \ {Pick(s)}]]
<1>3. ASSUME NEW u \in SUBSET T, u # T
      PROVE  g[u] = Fold(f, u)[u]
  <2>1. IsFold(f, u, Fold(f, u)) /\ IsFiniteSet(u)
    BY <1>2, <1>3, FS_Subset
  <2>2. CASE u = {}
    BY <2>1, <2>2 DEF IsFold
  <2>3. CASE u # {}
    <3>1. Fold(f, u)[u] = f[Pick(u)] + Fold(f, u)[u \ {Pick(u)}]
      BY <2>1, <2>3 DEF IsFold
    <3>2. Fold(f, u \ {Pick(u)})[u \ {Pick(u)}] = Fold(f, u)[u \ {Pick(u)}]
      BY <2>1, FoldRestricted
    <3> QED BY <2>3, <3>1, <3>2
  <2> QED BY <2>2, <2>3
<1>4. ASSUME NEW s \in SUBSET T
      PROVE  g[s] = IF s = {} THEN 0 ELSE f[Pick(s)] + g[s \ {Pick(s)}]
  <2>1. CASE s = {}
    BY <2>1
  <2>2. CASE s # {}
    <3>1. Pick(s) \in s
      BY <2>2 DEF Pick
    <3>2. g[s \ {Pick(s)}] = Fold(f, s \ {Pick(s)})[s \ {Pick(s)}]
      BY <1>3, <3>1
    <3> QED BY <2>2, <3>2
  <2> QED BY <2>1, <2>2
<1>5. IsFold(f, T, g)
  BY <1>4 DEF IsFold
<1> QED BY <1>2, <1>5 DEF Fold

\* So a sum over a finite set is computed one member at a time.
LEMMA SumStep ==
    ASSUME NEW f, NEW S, IsFiniteSet(S)
    PROVE  /\ S = {} => SumFunctionOnSet(f, S) = 0
           /\ S # {} => /\ Pick(S) \in S
                        /\ SumFunctionOnSet(f, S) = f[Pick(S)] + SumFunctionOnSet(f, S \ {Pick(S)})
<1>1. \A T : SumFunctionOnSet(f, T) = Fold(f, T)[T]
  BY DEF SumFunctionOnSet, FoldFunctionOnSet, MapThenFoldSet, Fold, IsFold, Pick
<1>2. IsFold(f, S, Fold(f, S))
  BY FoldExists
<1>3. CASE S = {}
  BY <1>1, <1>2, <1>3 DEF IsFold
<1>4. CASE S # {}
  <2>1. Pick(S) \in S
    BY <1>4 DEF Pick
  <2>2. Fold(f, S)[S] = f[Pick(S)] + Fold(f, S)[S \ {Pick(S)}]
    BY <1>2, <1>4 DEF IsFold
  <2>3. Fold(f, S)[S \ {Pick(S)}] = Fold(f, S \ {Pick(S)})[S \ {Pick(S)}]
    BY <1>2, FoldRestricted
  <2> QED BY <1>1, <1>4, <2>1, <2>2, <2>3
<1> QED BY <1>3, <1>4

\* A sum of integers is an integer.
LEMMA SumType ==
    ASSUME NEW f, NEW S, IsFiniteSet(S), \A x \in S : f[x] \in Int
    PROVE  SumFunctionOnSet(f, S) \in Int
<1> DEFINE B == {T \in SUBSET S : SumFunctionOnSet(f, T) \notin Int}
<1>1. SUFFICES ASSUME B # {} PROVE FALSE
  OBVIOUS
<1>2. PICK T \in B : \A U \in B : U \subseteq T => U = T
  <2>1. B \subseteq SUBSET S
    OBVIOUS
  <2> HIDE DEF B
  <2> QED BY <1>1, <2>1, SubsetMinimum
<1>3. T # {} /\ Pick(T) \in T /\ SumFunctionOnSet(f, T) = f[Pick(T)] + SumFunctionOnSet(f, T \ {Pick(T)})
  BY <1>2, SumStep, FS_Subset
<1> QED BY <1>2, <1>3

\* Any member of the set may be the one that is added last.
LEMMA SumTakes ==
    ASSUME NEW f, NEW S, IsFiniteSet(S), \A x \in S : f[x] \in Int, NEW a \in S
    PROVE  SumFunctionOnSet(f, S) = f[a] + SumFunctionOnSet(f, S \ {a})
<1> DEFINE Sum(T) == SumFunctionOnSet(f, T)
           B == {T \in SUBSET S : \E b \in T : Sum(T) # f[b] + Sum(T \ {b})}
<1>1. SUFFICES ASSUME B # {} PROVE FALSE
  OBVIOUS
<1>2. PICK T \in B : \A U \in B : U \subseteq T => U = T
  <2>1. B \subseteq SUBSET S
    OBVIOUS
  <2> HIDE DEF B
  <2> QED BY <1>1, <2>1, SubsetMinimum
<1>3. PICK b \in T : Sum(T) # f[b] + Sum(T \ {b})
  OBVIOUS
<1> DEFINE p == Pick(T)
           R == T \ {b, p}
<1>4. /\ IsFiniteSet(T) /\ IsFiniteSet(R)
  BY <1>2, FS_Subset
<1>5. p \in T /\ Sum(T) = f[p] + Sum(T \ {p})
  BY <1>2, <1>3, <1>4, SumStep
<1>6. p # b
  BY <1>3, <1>5
<1>7. f[p] \in Int /\ f[b] \in Int /\ Sum(R) \in Int
  BY <1>2, <1>4, <1>5, SumType
<1>8. Sum(T \ {p}) = f[b] + Sum((T \ {p}) \ {b})
  BY <1>2, <1>3, <1>5, <1>6
<1>9. Sum(T \ {b}) = f[p] + Sum((T \ {b}) \ {p})
  BY <1>2, <1>3, <1>5, <1>6
<1>10. (T \ {p}) \ {b} = R /\ (T \ {b}) \ {p} = R
  OBVIOUS
<1>11. Sum(T \ {p}) = f[b] + Sum(R) /\ Sum(T \ {b}) = f[p] + Sum(R)
  BY <1>8, <1>9, <1>10
<1> HIDE DEF Sum, R, p
<1> QED BY <1>3, <1>5, <1>7, <1>11

\* ... or the one that is new.
LEMMA SumInsert ==
    ASSUME NEW f, NEW S, IsFiniteSet(S), \A x \in S : f[x] \in Int,
           NEW T \in SUBSET S, NEW a \in S \ T
    PROVE  /\ SumFunctionOnSet(f, T \union {a}) = f[a] + SumFunctionOnSet(f, T)
           /\ SumFunctionOnSet(f, T) \in Int
<1>1. IsFiniteSet(T) /\ IsFiniteSet(T \union {a}) /\ (T \union {a}) \ {a} = T
  BY FS_Subset, FS_AddElement
<1>2. SumFunctionOnSet(f, T \union {a}) = f[a] + SumFunctionOnSet(f, (T \union {a}) \ {a})
  <2>1. \A x \in T \union {a} : f[x] \in Int
    OBVIOUS
  <2> QED BY <1>1, <2>1, SumTakes
<1> QED BY <1>1, <1>2, SumType

LEMMA SumEmpty == \A f : SumFunctionOnSet(f, {}) = 0
BY SumStep, FS_EmptySet

\* Induction over a finite set, for the set of its subsets a fact holds of.
LEMMA SubsetInduction ==
    ASSUME NEW S, IsFiniteSet(S), NEW Good, {} \in Good,
           \A T \in SUBSET S : \A a \in S \ T : T \in Good => T \union {a} \in Good
    PROVE  S \in Good
<1> DEFINE B == {T \in SUBSET S : T \notin Good}
<1>1. SUFFICES ASSUME B # {} PROVE FALSE
  OBVIOUS
<1>2. PICK T \in B : \A U \in B : U \subseteq T => U = T
  <2>1. B \subseteq SUBSET S
    OBVIOUS
  <2> HIDE DEF B
  <2> QED BY <1>1, <2>1, SubsetMinimum
<1>3. PICK a : a \in T
  BY <1>2
<1>4. T \ {a} \in Good /\ (T \ {a}) \union {a} = T /\ T \ {a} \in SUBSET S /\ a \in S \ (T \ {a})
  BY <1>2, <1>3
<1> QED BY <1>2, <1>4

\* A sum depends on the values in the set only.
LEMMA SumSame ==
    ASSUME NEW f, NEW g, NEW S, IsFiniteSet(S), \A x \in S : f[x] \in Int /\ g[x] = f[x]
    PROVE  SumFunctionOnSet(g, S) = SumFunctionOnSet(f, S)
<1> DEFINE Good == {T \in SUBSET S : SumFunctionOnSet(g, T) = SumFunctionOnSet(f, T)}
<1>1. {} \in Good
  BY SumEmpty
<1>2. ASSUME NEW T \in SUBSET S, NEW a \in S \ T, T \in Good PROVE T \union {a} \in Good
  BY <1>2, SumInsert
<1> HIDE DEF Good
<1>3. S \in Good
  BY <1>1, <1>2, SubsetInduction
<1> QED BY <1>3 DEF Good

\* Two sums are added member by member.
LEMMA SumPlus ==
    ASSUME NEW f, NEW g, NEW h, NEW S, IsFiniteSet(S),
           \A x \in S : f[x] \in Int /\ g[x] \in Int /\ h[x] = f[x] + g[x]
    PROVE  SumFunctionOnSet(h, S) = SumFunctionOnSet(f, S) + SumFunctionOnSet(g, S)
<1> DEFINE Sum(k, T) == SumFunctionOnSet(k, T)
           Good == {T \in SUBSET S : Sum(h, T) = Sum(f, T) + Sum(g, T)}
<1>1. {} \in Good
  BY SumEmpty
<1>2. ASSUME NEW T \in SUBSET S, NEW a \in S \ T, T \in Good PROVE T \union {a} \in Good
  <2>0. \A x \in S : h[x] \in Int
    OBVIOUS
  <2>a. Sum(h, T \union {a}) = h[a] + Sum(h, T)
    BY <2>0, SumInsert
  <2>1. /\ Sum(f, T \union {a}) = f[a] + Sum(f, T) /\ Sum(f, T) \in Int
        /\ Sum(g, T \union {a}) = g[a] + Sum(g, T) /\ Sum(g, T) \in Int
    BY SumInsert
  <2>2. Sum(h, T) = Sum(f, T) + Sum(g, T) /\ f[a] \in Int /\ g[a] \in Int /\ h[a] = f[a] + g[a]
    BY <1>2
  <2> HIDE DEF Sum
  <2>3. Sum(h, T \union {a}) = Sum(f, T \union {a}) + Sum(g, T \union {a})
    BY <2>a, <2>1, <2>2
  <2> QED BY <2>3
<1> HIDE DEF Good
<1>3. S \in Good
  BY <1>1, <1>2, SubsetInduction
<1> QED BY <1>3 DEF Good

\* A sum is not above another whose values are not below its own.
LEMMA SumAtMost ==
    ASSUME NEW f, NEW g, NEW S, IsFiniteSet(S),
           \A x \in S : f[x] \in Int /\ g[x] \in Int /\ f[x] <= g[x]
    PROVE  SumFunctionOnSet(f, S) <= SumFunctionOnSet(g, S)
<1> DEFINE Sum(k, T) == SumFunctionOnSet(k, T)
           Good == {T \in SUBSET S : Sum(f, T) <= Sum(g, T)}
<1>1. {} \in Good
  BY SumEmpty
<1>2. ASSUME NEW T \in SUBSET S, NEW a \in S \ T, T \in Good PROVE T \union {a} \in Good
  <2>1. /\ Sum(f, T \union {a}) = f[a] + Sum(f, T) /\ Sum(f, T) \in Int
        /\ Sum(g, T \union {a}) = g[a] + Sum(g, T) /\ Sum(g, T) \in Int
    BY SumInsert
  <2>2. Sum(f, T) <= Sum(g, T) /\ f[a] \in Int /\ g[a] \in Int /\ f[a] <= g[a]
    BY <1>2
  <2> HIDE DEF Sum
  <2>3. Sum(f, T \union {a}) <= Sum(g, T \union {a})
    BY <2>1, <2>2
  <2> QED BY <2>3
<1> HIDE DEF Good
<1>3. S \in Good
  BY <1>1, <1>2, SubsetInduction
<1> QED BY <1>3 DEF Good

\* Members that count for nothing may be left out.
LEMMA SumPadded ==
    ASSUME NEW f, NEW g, NEW S, IsFiniteSet(S), NEW R \in SUBSET S,
           \A x \in R : f[x] \in Int /\ g[x] = f[x],
           \A x \in S \ R : g[x] = 0
    PROVE  SumFunctionOnSet(g, S) = SumFunctionOnSet(f, R)
<1> DEFINE Sum(k, T) == SumFunctionOnSet(k, T)
           Good == {T \in SUBSET S : Sum(g, T) = Sum(f, T \intersect R)}
<1>1. {} \in Good /\ S \intersect R = R
  BY SumEmpty
<1>2. ASSUME NEW T \in SUBSET S, NEW a \in S \ T, T \in Good PROVE T \union {a} \in Good
  <2>1. Sum(g, T \union {a}) = g[a] + Sum(g, T) /\ Sum(g, T) \in Int
    BY SumInsert
  <2>2. CASE a \in R
    <3>1. (T \union {a}) \intersect R = (T \intersect R) \union {a} /\ a \in R \ (T \intersect R)
      BY <2>2
    <3>2. Sum(f, (T \intersect R) \union {a}) = f[a] + Sum(f, T \intersect R)
      BY <3>1, SumInsert, FS_Subset
    <3> QED BY <1>2, <2>1, <2>2, <3>1, <3>2
  <2>3. CASE a \notin R
    <3>1. (T \union {a}) \intersect R = T \intersect R /\ g[a] = 0
      BY <2>3
    <3>2. Sum(g, T \union {a}) = Sum(g, T)
      <4> HIDE DEF Sum
      <4> QED BY <2>1, <3>1
    <3> QED BY <1>2, <3>1, <3>2
  <2> QED BY <2>2, <2>3
<1> HIDE DEF Good
<1>3. S \in Good
  BY <1>1, <1>2, SubsetInduction
<1> QED BY <1>1, <1>3 DEF Good

\* ... so a sum over some members is one over all of them, the others counting
\* for nothing.
LEMMA SumSpread ==
    ASSUME NEW S, IsFiniteSet(S), NEW R \in SUBSET S, NEW f, NEW g, DOMAIN f = R,
           \A x \in R : f[x] \in Int /\ g[x] = f[x],
           \A x \in S \ R : g[x] = 0
    PROVE  /\ SumFunction(f) = SumFunctionOnSet(g, S)
           /\ SumFunction(f) \in Int
<1>1. SumFunction(f) = SumFunctionOnSet(f, R)
  BY DEF SumFunction
<1>2. SumFunctionOnSet(g, S) = SumFunctionOnSet(f, R)
  BY SumPadded
<1>3. SumFunctionOnSet(f, R) \in Int
  BY SumType, FS_Subset
<1> QED BY <1>1, <1>2, <1>3

\* Pairs of values that agree member by member agree in their sums.
LEMMA SumPairs ==
    ASSUME NEW f, NEW g, NEW u, NEW w, NEW S, IsFiniteSet(S),
           \A x \in S : /\ f[x] \in Int /\ g[x] \in Int /\ u[x] \in Int /\ w[x] \in Int
                        /\ f[x] + g[x] = u[x] + w[x]
    PROVE  SumFunctionOnSet(f, S) + SumFunctionOnSet(g, S) = SumFunctionOnSet(u, S) + SumFunctionOnSet(w, S)
<1> DEFINE h == [x \in S |-> f[x] + g[x]]
<1>1. \A x \in S : h[x] = f[x] + g[x] /\ h[x] = u[x] + w[x]
  OBVIOUS
<1> HIDE DEF h
<1>2. SumFunctionOnSet(h, S) = SumFunctionOnSet(f, S) + SumFunctionOnSet(g, S)
  BY <1>1, SumPlus
<1>3. SumFunctionOnSet(h, S) = SumFunctionOnSet(u, S) + SumFunctionOnSet(w, S)
  BY <1>1, SumPlus
<1> QED BY <1>2, <1>3

\* A sum over a part is not above the sum over all, where nothing counts against.
LEMMA SumOfPart ==
    ASSUME NEW S, IsFiniteSet(S), NEW R \in SUBSET S, NEW f, NEW g, DOMAIN f = R, DOMAIN g = S,
           \A x \in S : g[x] \in Nat, \A x \in R : f[x] = g[x]
    PROVE  /\ SumFunction(f) \in Int /\ SumFunction(g) \in Int
           /\ SumFunction(f) <= SumFunction(g)
<1> DEFINE h == [x \in S |-> IF x \in R THEN g[x] ELSE 0]
<1>1. /\ \A x \in R : f[x] \in Int /\ h[x] = f[x]
      /\ \A x \in S \ R : h[x] = 0
      /\ \A x \in S : h[x] \in Int /\ g[x] \in Int /\ h[x] <= g[x]
  OBVIOUS
<1> HIDE DEF h
<1>2. SumFunction(f) = SumFunctionOnSet(h, S) /\ SumFunction(f) \in Int
  BY <1>1, SumSpread
<1>3. SumFunctionOnSet(h, S) <= SumFunctionOnSet(g, S)
  BY <1>1, SumAtMost
<1>4. SumFunction(g) = SumFunctionOnSet(g, S) /\ SumFunctionOnSet(g, S) \in Int
  BY <1>1, SumType DEF SumFunction
<1> QED BY <1>2, <1>3, <1>4

-----------------------------------------------------------------------------
(* The invariant                                                            *)

Steps == {"idle", "done", "cancel", "refund", "endorse", "commission", "settle"}

\* What a call c with the local variables l may count on.
LocalOK(c, l) ==
    /\ l.step \in Steps
    /\ l.step # "done" => vouchers[c] = None /\ credits[c] = None /\ endorsements[c] = None
    /\ l.step \in {"cancel", "endorse", "commission"} => l.policy \in Policies
    /\ l.step \in {"cancel", "commission", "settle"} => l.amount \in Nat
    /\ l.step \in {"cancel", "endorse"} => l.of \in Nat
    /\ l.step = "cancel" => l.amount <= Terms[l.policy].total /\ l.base \in Nat
    /\ l.step = "refund" => l.of \in Calls /\ credits[l.of] # None /\ l.amount = credits[l.of].amount
    /\ l.step = "endorse" => l.amount \in Int
    /\ l.step = "commission" => l.base \in Nat /\ l.base <= Terms[l.policy].kept
    /\ l.step = "settle" => l.of \in Payees

Inv ==
    /\ TypeOK
    /\ call = [c \in Calls |-> call[c]]
    /\ \A c \in Calls : LocalOK(c, call[c])
    /\ CancelledIsReversed
    /\ RefundIsVouched
    /\ CommissionWithinExpected

USE TermsAssumption, PoliciesAssumption, CallsAssumption, AmountsAssumption, DeltasAssumption, BoundsAssumption, NoneAssumption

-----------------------------------------------------------------------------
(* Helpers of the specification                                             *)

\* The part of a premium that is returned is never more than the premium.
LEMMA PartIsBounded ==
    ASSUME NEW amount \in Nat, NEW halves \in 0..2
    PROVE  Part(amount, halves) \in Nat /\ Part(amount, halves) <= amount
<1>1. CASE halves = 0
  BY <1>1 DEF Part
<1>2. CASE halves = 1
  BY <1>2 DEF Part
<1>3. CASE halves = 2
  BY <1>3 DEF Part
<1> QED BY <1>1, <1>2, <1>3

LEMMA EndorsementsAreCounted ==
    ASSUME NEW p
    PROVE  NextEndorsement(p) \in Nat
<1>1. IsFiniteSet(Endorsements(p))
  BY FS_Subset DEF Endorsements, Made
<1>2. Cardinality(Endorsements(p)) \in Nat
  BY <1>1, FS_CardinalityType
<1> QED BY <1>2 DEF NextEndorsement

\* Vouchers are rows of their table.
LEMMA VoucherIsARow ==
    ASSUME NEW type, NEW of,
           \/ type \in {"JRV", "RCV"} /\ of \in Policies
           \/ type = "refund" /\ of \in Calls
           \/ type = "PYV" /\ of \in Payees,
           NEW amount \in Nat, NEW D \in SUBSET Accounts, NEW entries \in [D -> Int]
    PROVE  Voucher(type, of, amount, entries) \in VoucherRow
BY DEF Voucher, VoucherRow, VoucherRows, Entries

-----------------------------------------------------------------------------
(* Frames                                                                   *)

\* What a step of the call c does to the rows: its own may appear, the others stay.
RowsMove(c) ==
    /\ \A d \in Calls \ {c} : /\ vouchers'[d] = vouchers[d] /\ endorsements'[d] = endorsements[d]
                              /\ credits[d] = None => credits'[d] = None
    /\ \A n \in Calls : credits[n] # None =>
           /\ credits'[n] # None /\ credits'[n].policy = credits[n].policy
           /\ credits'[n].kind = credits[n].kind /\ credits'[n].amount = credits[n].amount

LEMMA LocalStays ==
    ASSUME NEW c \in Calls, NEW d \in Calls \ {c}, NEW l, LocalOK(d, l), RowsMove(c)
    PROVE  LocalOK(d, l)'
BY DEF LocalOK, RowsMove

\* One call moves.
LEMMA StepKeeps ==
    ASSUME Inv, NEW c \in Calls, NEW l, call' = [call EXCEPT ![c] = l], LocalOK(c, l)', RowsMove(c),
           TypeOK', CancelledIsReversed', RefundIsVouched', CommissionWithinExpected'
    PROVE  Inv'
<1>1. /\ call' = [d \in Calls |-> call'[d]]
      /\ call'[c] = l
      /\ \A d \in Calls : d # c => call'[d] = call[d]
  BY DEF Inv
<1>2. ASSUME NEW d \in Calls PROVE LocalOK(d, call[d])'
  <2>1. CASE d = c
    BY <1>1, <2>1
  <2>2. CASE d # c
    <3>1. PICK k : k = call[d] /\ k = call'[d] /\ LocalOK(d, k)
      BY <1>1, <2>2 DEF Inv
    <3>2. LocalOK(d, k)'
      BY <2>2, <3>1, LocalStays
    <3> QED BY <3>1, <3>2
  <2> QED BY <2>1, <2>2
<1> QED BY <1>1, <1>2 DEF Inv

LEMMA OverIsOK == Over.step = "done" /\ \A c : LocalOK(c, Over)
BY DEF Over, Local, LocalOK, Steps

\* What a policy's cancellation leaves behind.
ReversedBy(p, c) ==
    /\ vouchers[c] # None /\ credits[c] # None /\ endorsements[c] # None
    /\ vouchers[c].type = "JRV" /\ vouchers[c].of = p
    /\ credits[c].policy = p /\ credits[c].kind = "CNP"
    /\ credits[c].amount = vouchers[c].amount /\ credits[c].amount <= Terms[p].total
    /\ endorsements[c].policy = p

RefundedBy(n, c) ==
    /\ vouchers[c] # None /\ vouchers[c].type = "refund"
    /\ vouchers[c].of = n /\ vouchers[c].amount = credits[n].amount

\* What is reversed or refunded stays so through a step of a call without a voucher.
LEMMA VouchersStay ==
    ASSUME NEW c \in Calls, vouchers[c] = None, RowsMove(c)
    PROVE  /\ \A p : \A d \in Calls : ReversedBy(p, d) => ReversedBy(p, d)'
           /\ \A n \in Calls, d \in Calls : credits[n] # None /\ RefundedBy(n, d) => RefundedBy(n, d)'
BY DEF RowsMove, ReversedBy, RefundedBy

\* ... so that a step need only account for what it changes itself.
LEMMA ShownStays ==
    ASSUME Inv, NEW c \in Calls, vouchers[c] = None, RowsMove(c),
           \A p \in Policies : policy'[p].status = "CANCELLED" =>
               policy[p].status = "CANCELLED" \/ ReversedBy(p, c)',
           \A n \in Calls : credits'[n] # None /\ credits'[n].refunded =>
               (credits[n] # None /\ credits[n].refunded) \/ RefundedBy(n, c)'
    PROVE  CancelledIsReversed' /\ RefundIsVouched'
<1>1. /\ \A p : \A d \in Calls : ReversedBy(p, d) => ReversedBy(p, d)'
      /\ \A n \in Calls, d \in Calls : credits[n] # None /\ RefundedBy(n, d) => RefundedBy(n, d)'
  BY VouchersStay
<1>2. ASSUME NEW p \in Policies, policy'[p].status = "CANCELLED" PROVE \E d \in Calls : ReversedBy(p, d)'
  <2>1. CASE policy[p].status = "CANCELLED"
    <3>1. PICK d \in Calls : ReversedBy(p, d)
      BY <2>1 DEF Inv, CancelledIsReversed, ReversedBy
    <3> QED BY <1>1, <3>1
  <2> QED BY <1>2, <2>1
<1>3. ASSUME NEW n \in Calls, credits'[n] # None, credits'[n].refunded
      PROVE  \E d \in Calls : RefundedBy(n, d)'
  <2>1. CASE credits[n] # None /\ credits[n].refunded
    <3>1. PICK d \in Calls : RefundedBy(n, d)
      BY <2>1 DEF Inv, RefundIsVouched, RefundedBy
    <3> QED BY <1>1, <2>1, <3>1
  <2> QED BY <1>3, <2>1
<1>4. CancelledIsReversed'
  BY <1>2 DEF CancelledIsReversed, ReversedBy
<1>5. RefundIsVouched'
  BY <1>3 DEF RefundIsVouched, RefundedBy
<1> QED BY <1>4, <1>5

-----------------------------------------------------------------------------
(* The steps                                                                *)

LEMMA InitHolds == Init => Inv
<1> SUFFICES ASSUME Init PROVE Inv
  OBVIOUS
<1>1. TypeOK
  BY DEF Init, TypeOK
<1>2. call = [c \in Calls |-> Idle] /\ Idle.step = "idle"
  BY DEF Init, Idle, Local
<1>3. \A c \in Calls : LocalOK(c, call[c])
  BY <1>2 DEF Init, LocalOK, Steps
<1>4. \A p \in Policies : policy[p].status = "ISSUED" /\ received[p] = 0 /\ ~ collected[p]
  BY DEF Init
<1>5. CancelledIsReversed
  BY <1>4 DEF CancelledIsReversed
<1>6. RefundIsVouched
  BY DEF Init, RefundIsVouched
<1>7. CommissionWithinExpected
  BY <1>4 DEF CommissionWithinExpected
<1> QED BY <1>1, <1>2, <1>3, <1>5, <1>6, <1>7 DEF Inv

\* A call changes nothing but itself: it is let in, or it dies.
LEMMA QuietStepKeeps ==
    ASSUME Inv, NEW c \in Calls, NEW l, call' = [call EXCEPT ![c] = l], LocalOK(c, l),
           UNCHANGED rows, crashes' \in 0..MaxCrashes
    PROVE  Inv'
<1>1. UNCHANGED <<policy, received, collected, credits, endorsements, vouchers>>
  BY DEF rows
<1>2. LocalOK(c, l)' /\ RowsMove(c)
  BY <1>1 DEF LocalOK, RowsMove
<1>3. TypeOK'
  BY <1>1 DEF Inv, TypeOK
<1>4. CancelledIsReversed' /\ RefundIsVouched' /\ CommissionWithinExpected'
  BY <1>1 DEF Inv, CancelledIsReversed, RefundIsVouched, CommissionWithinExpected
<1> QED BY <1>2, <1>3, <1>4, StepKeeps

LEMMA BeginKeeps ==
    ASSUME Inv, NEW c \in Calls, NEW l, Begin(c, l),
           vouchers[c] = None /\ credits[c] = None /\ endorsements[c] = None => LocalOK(c, l)
    PROVE  Inv'
<1>1. LocalOK(c, call[c]) /\ call[c].step = "idle"
  BY DEF Inv, Begin
<1>2. LocalOK(c, l)
  BY <1>1 DEF LocalOK
<1>3. call' = [call EXCEPT ![c] = l] /\ UNCHANGED rows /\ crashes' \in 0..MaxCrashes
  BY DEF Begin, Inv, TypeOK
<1> QED BY <1>2, <1>3, QuietStepKeeps

LEMMA StartKeeps ==
    ASSUME Inv, NEW c \in Calls, Start(c)
    PROVE  Inv'
<1>1. \A step, p, of, amount, base :
          /\ Local(step, p, of, amount, base).step = step /\ Local(step, p, of, amount, base).policy = p
          /\ Local(step, p, of, amount, base).of = of /\ Local(step, p, of, amount, base).amount = amount
          /\ Local(step, p, of, amount, base).base = base
  BY DEF Local
<1>2. ASSUME NEW p \in Policies, NEW halves \in 0..2, CancelPolicy(c, p, halves) PROVE Inv'
  <2> DEFINE k == IF policy[p].freeLook THEN 2 ELSE halves
             returned == Part(Terms[p].total, k)
             base == Part(Terms[p].kept, k)
             l == Local("cancel", p, NextEndorsement(p), returned, base)
  <2>1. k \in 0..2 /\ Terms[p].total \in Nat /\ Terms[p].kept \in Nat
    OBVIOUS
  <2>2. Begin(c, l)
    BY <1>2 DEF CancelPolicy
  <2> HIDE DEF k
  <2>3. returned \in Nat /\ returned <= Terms[p].total /\ base \in Nat /\ NextEndorsement(p) \in Nat
    BY <2>1, PartIsBounded, EndorsementsAreCounted
  <2> HIDE DEF returned, base
  <2>4. /\ l.step = "cancel" /\ l.policy = p /\ l.of = NextEndorsement(p)
        /\ l.amount = returned /\ l.base = base
    BY <1>1
  <2> HIDE DEF l
  <2>5. vouchers[c] = None /\ credits[c] = None /\ endorsements[c] = None => LocalOK(c, l)
    BY <2>3, <2>4 DEF LocalOK, Steps
  <2> QED BY <2>2, <2>5, BeginKeeps
<1>3. ASSUME NEW n \in Calls, RefundCreditNote(c, n) PROVE Inv'
  <2> DEFINE l == Local("refund", credits[n].policy, n, credits[n].amount, 0)
  <2>1. Begin(c, l) /\ credits[n] # None
    BY <1>3 DEF RefundCreditNote
  <2>2. l.step = "refund" /\ l.of = n /\ l.amount = credits[n].amount
    BY <1>1
  <2> HIDE DEF l
  <2>3. vouchers[c] = None /\ credits[c] = None /\ endorsements[c] = None => LocalOK(c, l)
    BY <2>1, <2>2 DEF LocalOK, Steps
  <2> QED BY <2>1, <2>3, BeginKeeps
<1>4. ASSUME NEW p \in Policies, NEW delta \in Deltas, AddEndorsement(c, p, delta) PROVE Inv'
  <2> DEFINE l == Local("endorse", p, NextEndorsement(p), delta, 0)
  <2>1. Begin(c, l) /\ NextEndorsement(p) \in Nat
    BY <1>4, EndorsementsAreCounted DEF AddEndorsement
  <2>2. l.step = "endorse" /\ l.policy = p /\ l.of = NextEndorsement(p) /\ l.amount = delta
    BY <1>1
  <2> HIDE DEF l
  <2>3. vouchers[c] = None /\ credits[c] = None /\ endorsements[c] = None => LocalOK(c, l)
    BY <2>1, <2>2 DEF LocalOK, Steps
  <2> QED BY <2>1, <2>3, BeginKeeps
<1>5. ASSUME NEW p \in Policies, NEW a \in Amounts, CommissionReceipt(c, p, a) PROVE Inv'
  <2> DEFINE base == received[p] + a
             l == Local("commission", p, None, a, base)
  <2>1. Begin(c, l) /\ base <= Terms[p].kept /\ base \in Nat /\ a \in Nat
    BY <1>5 DEF CommissionReceipt, Inv, TypeOK
  <2> HIDE DEF base
  <2>2. l.step = "commission" /\ l.policy = p /\ l.amount = a /\ l.base = base
    BY <1>1
  <2> HIDE DEF l
  <2>3. vouchers[c] = None /\ credits[c] = None /\ endorsements[c] = None => LocalOK(c, l)
    BY <2>1, <2>2 DEF LocalOK, Steps
  <2> QED BY <2>1, <2>3, BeginKeeps
<1>6. ASSUME NEW payee \in Payees, NEW a \in Amounts, Settle(c, payee, a) PROVE Inv'
  <2> DEFINE l == Local("settle", None, payee, a, 0)
  <2>1. Begin(c, l) /\ a \in Nat
    BY <1>6 DEF Settle
  <2>2. l.step = "settle" /\ l.of = payee /\ l.amount = a
    BY <1>1
  <2> HIDE DEF l
  <2>3. vouchers[c] = None /\ credits[c] = None /\ endorsements[c] = None => LocalOK(c, l)
    BY <2>1, <2>2 DEF LocalOK, Steps
  <2> QED BY <2>1, <2>3, BeginKeeps
<1> QED BY <1>2, <1>3, <1>4, <1>5, <1>6 DEF Start

LEMMA CrashKeeps ==
    ASSUME Inv, NEW c \in Calls, Crash(c)
    PROVE  Inv'
<1>1. call' = [call EXCEPT ![c] = Over] /\ UNCHANGED rows /\ crashes' \in 0..MaxCrashes
  BY DEF Crash, Inv, TypeOK
<1> QED BY <1>1, OverIsOK, QuietStepKeeps

\* The last step of a call.
LEMMA FinishKeeps ==
    ASSUME Inv, NEW c \in Calls, Finish(c), RowsMove(c),
           TypeOK', CancelledIsReversed', RefundIsVouched', CommissionWithinExpected'
    PROVE  Inv'
<1>1. call' = [call EXCEPT ![c] = Over]
  BY DEF Finish
<1>2. LocalOK(c, Over)'
  BY OverIsOK DEF LocalOK, Over, Local
<1> QED BY <1>1, <1>2, StepKeeps

\* What the last step of each call does to the tables, of which it is the only
\* one to write its own rows: l is what the call has read, v its voucher, n its
\* credit note and e its endorsement.
Writes(c, l, step) ==
    /\ l = call[c] /\ l.step = step /\ LocalOK(c, l)
    /\ vouchers[c] = None /\ credits[c] = None /\ endorsements[c] = None
    /\ Finish(c) /\ RowsMove(c)

Posts(c, v, type, of, amount, owes) ==
    /\ v \in VoucherRow /\ v # None
    /\ v.type = type /\ v.of = of /\ v.amount = amount /\ Entry("clients", v.entries) = owes
    /\ vouchers' = [vouchers EXCEPT ![c] = v]

CancelDoes(c, l, v, n, e) ==
    /\ Writes(c, l, "cancel")
    /\ Posts(c, v, "JRV", l.policy, l.amount, 0 - l.amount)
    /\ n \in CreditRow /\ n # None
    /\ n.policy = l.policy /\ n.kind = "CNP" /\ n.amount = l.amount /\ ~ n.refunded
    /\ credits' = [credits EXCEPT ![c] = n]
    /\ e \in EndorsementRow /\ e # None /\ e.policy = l.policy /\ e.number = l.of
    /\ endorsements' = [endorsements EXCEPT ![c] = e]
    /\ policy' = [policy EXCEPT ![l.policy] = [status |-> "CANCELLED", freeLook |-> FALSE]]
    /\ UNCHANGED <<received, collected>>

RefundDoes(c, l, v, n) ==
    /\ Writes(c, l, "refund")
    /\ Posts(c, v, "refund", l.of, l.amount, l.amount)
    /\ l.of # c
    /\ n \in CreditRow /\ n # None
    /\ n.policy = credits[l.of].policy /\ n.kind = credits[l.of].kind
    /\ n.amount = credits[l.of].amount /\ n.refunded
    /\ credits' = [credits EXCEPT ![l.of] = n]
    /\ UNCHANGED <<policy, received, collected, endorsements>>

EndorseDoes(c, l, n, e) ==
    /\ Writes(c, l, "endorse")
    /\ l.amount < 0 => n \in CreditRow /\ n # None /\ n.kind = None /\ ~ n.refunded
    /\ credits' = IF l.amount < 0 THEN [credits EXCEPT ![c] = n] ELSE credits
    /\ e \in EndorsementRow /\ e # None /\ e.policy = l.policy /\ e.number = l.of
    /\ endorsements' = [endorsements EXCEPT ![c] = e]
    /\ UNCHANGED <<policy, received, collected, vouchers>>

CommissionDoes(c, l, v) ==
    /\ Writes(c, l, "commission")
    /\ Posts(c, v, "RCV", l.policy, l.amount, 0)
    /\ received' = [received EXCEPT ![l.policy] = l.base]
    /\ collected' = [collected EXCEPT ![l.policy] = l.base = Terms[l.policy].kept]
    /\ UNCHANGED <<policy, credits, endorsements>>

SettleDoes(c, l, v) ==
    /\ Writes(c, l, "settle")
    /\ Posts(c, v, "PYV", l.of, l.amount, 0)
    /\ UNCHANGED <<policy, received, collected, credits, endorsements>>

LEMMA RowsAreRows ==
    /\ \A v \in VoucherRow : v # None
    /\ \A n \in CreditRow : n # None
    /\ \A e \in EndorsementRow : e # None
    /\ "CNP" # None
OBVIOUS

LEMMA CommitCancelDoes ==
    ASSUME Inv, NEW c \in Calls, CommitCancel(c)
    PROVE  \E l, v, n, e : CancelDoes(c, l, v, n, e)
<1> DEFINE l == call[c]
           p == l.policy
           entries == [clients |-> 0 - l.amount, trust |-> l.amount - l.base, income |-> l.base]
           v == Voucher("JRV", p, l.amount, entries)
           n == Credit(p, "CNP", l.amount, FALSE)
           e == Endorsement(p, l.of, 0 - l.amount)
           D == {"clients", "trust", "income"}
<1>1. LocalOK(c, l) /\ l.step = "cancel"
  BY DEF Inv, CommitCancel, At
<1>2. /\ vouchers[c] = None /\ credits[c] = None /\ endorsements[c] = None
      /\ p \in Policies /\ l.of \in Nat /\ l.amount \in Nat /\ l.base \in Nat
  BY <1>1 DEF LocalOK
<1>3. /\ policy' = [policy EXCEPT ![p] = [status |-> "CANCELLED", freeLook |-> FALSE]]
      /\ endorsements' = [endorsements EXCEPT ![c] = e]
      /\ credits' = [credits EXCEPT ![c] = n]
      /\ vouchers' = [vouchers EXCEPT ![c] = v]
      /\ Finish(c) /\ UNCHANGED <<received, collected>>
  BY DEF CommitCancel, Post, Reversal
<1>4. v \in VoucherRow
  <2>1. entries \in [D -> Int]
    BY <1>2
  <2>2. D \in SUBSET Accounts
    BY DEF Accounts
  <2> HIDE DEF entries, D
  <2> QED BY <1>2, <2>1, <2>2, VoucherIsARow
<1>5. n \in CreditRow /\ e \in EndorsementRow
  BY <1>2 DEF Credit, CreditRow, Endorsement, EndorsementRow
<1>6. Entry("clients", entries) = 0 - l.amount
  BY DEF Entry
<1>7. /\ v.type = "JRV" /\ v.of = p /\ v.amount = l.amount /\ v.entries = entries
      /\ n.policy = p /\ n.kind = "CNP" /\ n.amount = l.amount /\ ~ n.refunded
      /\ e.policy = p /\ e.number = l.of
  BY DEF Voucher, Credit, Endorsement
<1>8. l = call[c]
  OBVIOUS
<1> HIDE DEF entries, D, v, n, e, l
<1>9. RowsMove(c)
  BY <1>2, <1>3 DEF RowsMove, Inv, TypeOK
<1>10. Writes(c, l, "cancel")
  BY <1>1, <1>2, <1>3, <1>8, <1>9 DEF Writes
<1>11. Posts(c, v, "JRV", p, l.amount, 0 - l.amount)
  BY <1>3, <1>4, <1>6, <1>7, RowsAreRows DEF Posts
<1>12. CancelDoes(c, l, v, n, e)
  BY <1>3, <1>5, <1>7, <1>10, <1>11, RowsAreRows DEF CancelDoes
<1> QED BY <1>12

LEMMA CommitRefundDoes ==
    ASSUME Inv, NEW c \in Calls, CommitRefund(c)
    PROVE  \E l, v, n : RefundDoes(c, l, v, n)
<1> DEFINE l == call[c]
           note == l.of
           entries == [clients |-> l.amount, cash |-> 0 - l.amount]
           v == Voucher("refund", note, l.amount, entries)
           n == Credit(credits[note].policy, credits[note].kind, credits[note].amount, TRUE)
           D == {"clients", "cash"}
<1>1. LocalOK(c, l) /\ l.step = "refund"
  BY DEF Inv, CommitRefund, At
<1>2. /\ vouchers[c] = None /\ credits[c] = None /\ endorsements[c] = None
      /\ note \in Calls /\ note # c
      /\ credits[note] # None /\ l.amount = credits[note].amount
  BY <1>1 DEF LocalOK
<1>3. credits[note] \in CreditRow
  BY <1>2 DEF Inv, TypeOK
<1>4. n \in CreditRow /\ l.amount \in Nat
  BY <1>2, <1>3 DEF Credit, CreditRow
<1>5. v \in VoucherRow
  <2>1. entries \in [D -> Int]
    BY <1>4
  <2>2. D \in SUBSET Accounts
    BY DEF Accounts
  <2> HIDE DEF entries, D
  <2> QED BY <1>2, <1>4, <2>1, <2>2, VoucherIsARow
<1>6. /\ credits' = [credits EXCEPT ![note] = n]
      /\ vouchers' = [vouchers EXCEPT ![c] = v]
      /\ Finish(c) /\ UNCHANGED <<policy, received, collected, endorsements>>
  BY DEF CommitRefund, Post
<1>7. /\ v.type = "refund" /\ v.of = note /\ v.amount = l.amount /\ v.entries = entries
      /\ n.policy = credits[note].policy /\ n.kind = credits[note].kind
      /\ n.amount = credits[note].amount /\ n.refunded
  BY DEF Voucher, Credit
<1>8. Entry("clients", entries) = l.amount
  BY DEF Entry
<1>9. l = call[c] /\ note = l.of
  OBVIOUS
<1> HIDE DEF entries, D, v, n, note, l
<1>10. n # None
  BY <1>4, RowsAreRows
<1>11. /\ \A d \in Calls : d # c => vouchers'[d] = vouchers[d]
       /\ credits'[note] = n /\ \A m \in Calls : m # note => credits'[m] = credits[m]
  BY <1>2, <1>6 DEF Inv, TypeOK
<1>12. RowsMove(c)
  BY <1>2, <1>6, <1>7, <1>10, <1>11 DEF RowsMove
<1>13. Writes(c, l, "refund")
  BY <1>1, <1>2, <1>6, <1>9, <1>12 DEF Writes
<1>14. Posts(c, v, "refund", note, l.amount, l.amount)
  BY <1>5, <1>6, <1>7, <1>8, RowsAreRows DEF Posts
<1>15. RefundDoes(c, l, v, n)
  BY <1>2, <1>4, <1>6, <1>7, <1>9, <1>10, <1>13, <1>14 DEF RefundDoes
<1> QED BY <1>15

LEMMA CommitEndorsementDoes ==
    ASSUME Inv, NEW c \in Calls, CommitEndorsement(c)
    PROVE  \E l, n, e : EndorseDoes(c, l, n, e)
<1> DEFINE l == call[c]
           n == Credit(l.policy, None, 0 - l.amount, FALSE)
           e == Endorsement(l.policy, l.of, l.amount)
<1>1. LocalOK(c, l) /\ l.step = "endorse"
  BY DEF Inv, CommitEndorsement, At
<1>2. /\ vouchers[c] = None /\ credits[c] = None /\ endorsements[c] = None
      /\ l.policy \in Policies /\ l.of \in Nat /\ l.amount \in Int
  BY <1>1 DEF LocalOK
<1>3. /\ e \in EndorsementRow /\ e.policy = l.policy /\ e.number = l.of
      /\ l.amount < 0 => n \in CreditRow
      /\ n.kind = None /\ ~ n.refunded
  BY <1>2 DEF Credit, CreditRow, Endorsement, EndorsementRow
<1>4. /\ endorsements' = [endorsements EXCEPT ![c] = e]
      /\ credits' = IF l.amount < 0 THEN [credits EXCEPT ![c] = n] ELSE credits
      /\ Finish(c) /\ UNCHANGED <<policy, received, collected, vouchers>>
  BY DEF CommitEndorsement
<1>5. l = call[c]
  OBVIOUS
<1> HIDE DEF n, e, l
<1>6. RowsMove(c)
  BY <1>2, <1>4 DEF RowsMove, Inv, TypeOK
<1>7. Writes(c, l, "endorse")
  BY <1>1, <1>2, <1>4, <1>5, <1>6 DEF Writes
<1>8. EndorseDoes(c, l, n, e)
  BY <1>3, <1>4, <1>7, RowsAreRows DEF EndorseDoes
<1> QED BY <1>8

LEMMA CommitCommissionDoes ==
    ASSUME Inv, NEW c \in Calls, CommitCommission(c)
    PROVE  \E l, v : CommissionDoes(c, l, v)
<1> DEFINE l == call[c]
           p == l.policy
           entries == [cash |-> l.amount, insurers |-> 0 - l.amount]
           v == Voucher("RCV", p, l.amount, entries)
           D == {"cash", "insurers"}
<1>1. LocalOK(c, l) /\ l.step = "commission"
  BY DEF Inv, CommitCommission, At
<1>2. /\ vouchers[c] = None /\ credits[c] = None /\ endorsements[c] = None
      /\ p \in Policies /\ l.amount \in Nat
  BY <1>1 DEF LocalOK
<1>3. v \in VoucherRow
  <2>1. entries \in [D -> Int]
    BY <1>2
  <2>2. D \in SUBSET Accounts
    BY DEF Accounts
  <2> HIDE DEF entries, D
  <2> QED BY <1>2, <2>1, <2>2, VoucherIsARow
<1>4. /\ received' = [received EXCEPT ![p] = l.base]
      /\ collected' = [collected EXCEPT ![p] = l.base = Terms[p].kept]
      /\ vouchers' = [vouchers EXCEPT ![c] = v]
      /\ Finish(c) /\ UNCHANGED <<policy, credits, endorsements>>
  BY DEF CommitCommission, Post
<1>5. v.type = "RCV" /\ v.of = p /\ v.amount = l.amount /\ Entry("clients", v.entries) = 0
  BY DEF Voucher, Entry
<1>6. l = call[c]
  OBVIOUS
<1> HIDE DEF v, l
<1>7. RowsMove(c)
  BY <1>4 DEF RowsMove, Inv, TypeOK
<1>8. Writes(c, l, "commission")
  BY <1>1, <1>2, <1>4, <1>6, <1>7 DEF Writes
<1>9. Posts(c, v, "RCV", p, l.amount, 0)
  BY <1>3, <1>4, <1>5, RowsAreRows DEF Posts
<1>10. CommissionDoes(c, l, v)
  BY <1>4, <1>8, <1>9 DEF CommissionDoes
<1> QED BY <1>10

\* A settlement debits what was owed to the payee, and not the clients.
LEMMA ExpenseIsARow ==
    ASSUME NEW payee \in Payees, NEW a \in Nat
    PROVE  /\ \E D \in SUBSET Accounts : Expense(payee, a) \in [D -> Int]
           /\ Entry("clients", Expense(payee, a)) = 0
<1>1. {"trust", "cash"} \in SUBSET Accounts
  BY DEF Accounts
<1>2. {"producers", "cash"} \in SUBSET Accounts
  BY DEF Accounts
<1>3. {"staff", "cash"} \in SUBSET Accounts
  BY DEF Accounts
<1>4. /\ [trust |-> a, cash |-> 0 - a] \in [{"trust", "cash"} -> Int]
      /\ [producers |-> a, cash |-> 0 - a] \in [{"producers", "cash"} -> Int]
      /\ [staff |-> a, cash |-> 0 - a] \in [{"staff", "cash"} -> Int]
  OBVIOUS
<1>5. \/ Expense(payee, a) = [trust |-> a, cash |-> 0 - a]
      \/ Expense(payee, a) = [producers |-> a, cash |-> 0 - a]
      \/ Expense(payee, a) = [staff |-> a, cash |-> 0 - a]
  BY DEF Expense, Payees
<1>6. \E D \in SUBSET Accounts : Expense(payee, a) \in [D -> Int]
  BY <1>1, <1>2, <1>3, <1>4, <1>5
<1>7. Entry("clients", Expense(payee, a)) = 0
  BY <1>5 DEF Entry
<1> QED BY <1>6, <1>7

LEMMA CommitSettleDoes ==
    ASSUME Inv, NEW c \in Calls, CommitSettle(c)
    PROVE  \E l, v : SettleDoes(c, l, v)
<1> DEFINE l == call[c]
           entries == Expense(l.of, l.amount)
           v == Voucher("PYV", l.of, l.amount, entries)
<1>1. LocalOK(c, l) /\ l.step = "settle"
  BY DEF Inv, CommitSettle, At
<1>2. /\ vouchers[c] = None /\ credits[c] = None /\ endorsements[c] = None
      /\ l.of \in Payees /\ l.amount \in Nat
  BY <1>1 DEF LocalOK
<1>3. v.type = "PYV" /\ v.of = l.of /\ v.amount = l.amount /\ v.entries = entries
  BY DEF Voucher
<1>4. l = call[c]
  OBVIOUS
<1>5. /\ vouchers' = [vouchers EXCEPT ![c] = v]
      /\ Finish(c) /\ UNCHANGED <<policy, received, collected, credits, endorsements>>
  BY DEF CommitSettle, Post
<1>6. (\E D \in SUBSET Accounts : entries \in [D -> Int]) /\ Entry("clients", entries) = 0
  BY <1>2, ExpenseIsARow
<1>7. v \in VoucherRow
  <2> HIDE DEF entries, l
  <2> QED BY <1>2, <1>6, VoucherIsARow
<1> HIDE DEF v, l, entries
<1>8. RowsMove(c)
  BY <1>5 DEF RowsMove, Inv, TypeOK
<1>9. Writes(c, l, "settle")
  BY <1>1, <1>2, <1>4, <1>5, <1>8 DEF Writes
<1>10. Posts(c, v, "PYV", l.of, l.amount, 0)
  BY <1>3, <1>5, <1>6, <1>7, RowsAreRows DEF Posts
<1>11. SettleDoes(c, l, v)
  BY <1>5, <1>9, <1>10 DEF SettleDoes
<1> QED BY <1>11

\* The cancellation: endorsement, credit note, journal and status in one step.
LEMMA CommitCancelKeeps ==
    ASSUME Inv, NEW c \in Calls, CommitCancel(c)
    PROVE  Inv'
<1>1. PICK l, v, n, e : CancelDoes(c, l, v, n, e)
  BY CommitCancelDoes
<1>2. Writes(c, l, "cancel") /\ Posts(c, v, "JRV", l.policy, l.amount, 0 - l.amount)
  BY <1>1 DEF CancelDoes
<1>3. l.policy \in Policies /\ l.amount <= Terms[l.policy].total
  BY <1>2 DEF Writes, LocalOK
<1>4. vouchers'[c] = v /\ credits'[c] = n /\ endorsements'[c] = e
  BY <1>1, <1>2 DEF Inv, TypeOK, CancelDoes, Posts
<1>5. policy'[l.policy].status = "CANCELLED" /\ \A o \in Policies : o # l.policy => policy'[o] = policy[o]
  BY <1>1, <1>3 DEF Inv, TypeOK, CancelDoes
<1>6. ReversedBy(l.policy, c)'
  BY <1>1, <1>2, <1>3, <1>4 DEF ReversedBy, CancelDoes, Posts
<1>7. ASSUME NEW o \in Policies, policy'[o].status = "CANCELLED"
      PROVE  policy[o].status = "CANCELLED" \/ ReversedBy(o, c)'
  BY <1>5, <1>6, <1>7
<1>8. ASSUME NEW m \in Calls, credits'[m] # None, credits'[m].refunded
      PROVE  credits[m] # None /\ credits[m].refunded
  BY <1>1, <1>4, <1>8 DEF Inv, TypeOK, CancelDoes
<1>9. CancelledIsReversed' /\ RefundIsVouched'
  BY <1>2, <1>7, <1>8, ShownStays DEF Writes
<1>10. policy' \in [Policies -> [status : {"ISSUED", "CANCELLED"}, freeLook : BOOLEAN]]
  BY <1>1 DEF Inv, TypeOK, CancelDoes
<1>11. credits' \in [Calls -> CreditRow \union {None}] /\ vouchers' \in [Calls -> VoucherRow \union {None}]
  BY <1>1, <1>2 DEF Inv, TypeOK, CancelDoes, Posts
<1>12. endorsements' \in [Calls -> EndorsementRow \union {None}]
  BY <1>1 DEF Inv, TypeOK, CancelDoes
<1>13. TypeOK'
  BY <1>1, <1>2, <1>10, <1>11, <1>12 DEF Inv, TypeOK, CancelDoes, Writes, Finish
<1>14. CommissionWithinExpected'
  BY <1>1 DEF Inv, CommissionWithinExpected, CancelDoes
<1> QED BY <1>2, <1>9, <1>13, <1>14, FinishKeeps DEF Writes

\* The refund: the voucher and the note's mark in one step.
LEMMA CommitRefundKeeps ==
    ASSUME Inv, NEW c \in Calls, CommitRefund(c)
    PROVE  Inv'
<1>1. PICK l, v, n : RefundDoes(c, l, v, n)
  BY CommitRefundDoes
<1>2. Writes(c, l, "refund") /\ Posts(c, v, "refund", l.of, l.amount, l.amount)
  BY <1>1 DEF RefundDoes
<1>3. l.of \in Calls /\ credits[l.of] # None /\ l.amount = credits[l.of].amount
  BY <1>2 DEF Writes, LocalOK
<1>4. /\ vouchers'[c] = v
      /\ credits'[l.of] = n /\ \A m \in Calls : m # l.of => credits'[m] = credits[m]
  BY <1>1, <1>2, <1>3 DEF Inv, TypeOK, RefundDoes, Posts
<1>5. RefundedBy(l.of, c)'
  BY <1>1, <1>2, <1>3, <1>4 DEF RefundedBy, RefundDoes, Posts
<1>6. ASSUME NEW m \in Calls, credits'[m] # None, credits'[m].refunded
      PROVE  (credits[m] # None /\ credits[m].refunded) \/ RefundedBy(m, c)'
  BY <1>4, <1>5, <1>6
<1>7. CancelledIsReversed' /\ RefundIsVouched'
  BY <1>1, <1>2, <1>6, ShownStays DEF Writes, RefundDoes
<1>8. credits' \in [Calls -> CreditRow \union {None}] /\ vouchers' \in [Calls -> VoucherRow \union {None}]
  BY <1>1, <1>2 DEF Inv, TypeOK, RefundDoes, Posts
<1>9. TypeOK'
  BY <1>1, <1>2, <1>8 DEF Inv, TypeOK, RefundDoes, Writes, Finish
<1>10. CommissionWithinExpected'
  BY <1>1 DEF Inv, CommissionWithinExpected, RefundDoes
<1> QED BY <1>2, <1>7, <1>9, <1>10, FinishKeeps DEF Writes

LEMMA CommitEndorsementKeeps ==
    ASSUME Inv, NEW c \in Calls, CommitEndorsement(c)
    PROVE  Inv'
<1>1. PICK l, n, e : EndorseDoes(c, l, n, e)
  BY CommitEndorsementDoes
<1>2. Writes(c, l, "endorse")
  BY <1>1 DEF EndorseDoes
<1>3. ASSUME NEW m \in Calls, credits'[m] # None, credits'[m].refunded
      PROVE  credits[m] # None /\ credits[m].refunded
  BY <1>1, <1>3 DEF Inv, TypeOK, EndorseDoes
<1>4. CancelledIsReversed' /\ RefundIsVouched'
  BY <1>1, <1>2, <1>3, ShownStays DEF Writes, EndorseDoes
<1>5. credits' \in [Calls -> CreditRow \union {None}]
  BY <1>1 DEF Inv, TypeOK, EndorseDoes
<1>6. endorsements' \in [Calls -> EndorsementRow \union {None}]
  BY <1>1 DEF Inv, TypeOK, EndorseDoes
<1>7. TypeOK'
  BY <1>1, <1>2, <1>5, <1>6 DEF Inv, TypeOK, EndorseDoes, Writes, Finish
<1>8. CommissionWithinExpected'
  BY <1>1 DEF Inv, CommissionWithinExpected, EndorseDoes
<1> QED BY <1>2, <1>4, <1>7, <1>8, FinishKeeps DEF Writes

\* A call that posts a voucher and writes no credit note and no endorsement.
LEMMA PostKeeps ==
    ASSUME Inv, NEW c \in Calls, NEW l, NEW step, Writes(c, l, step),
           NEW v, NEW type, NEW of, NEW amount, NEW owes, Posts(c, v, type, of, amount, owes),
           UNCHANGED <<policy, credits, endorsements>>,
           received' \in [Policies -> Nat], collected' \in [Policies -> BOOLEAN], CommissionWithinExpected'
    PROVE  Inv'
<1>1. CancelledIsReversed' /\ RefundIsVouched'
  BY ShownStays DEF Writes
<1>2. vouchers' \in [Calls -> VoucherRow \union {None}]
  BY DEF Inv, TypeOK, Posts
<1>3. TypeOK'
  BY <1>2 DEF Inv, TypeOK, Finish, Writes
<1> QED BY <1>1, <1>3, FinishKeeps DEF Writes

LEMMA CommitCommissionKeeps ==
    ASSUME Inv, NEW c \in Calls, CommitCommission(c)
    PROVE  Inv'
<1>1. PICK l, v : CommissionDoes(c, l, v)
  BY CommitCommissionDoes
<1> DEFINE p == l.policy
           full == l.base = Terms[p].kept
<1>2. Writes(c, l, "commission") /\ Posts(c, v, "RCV", p, l.amount, 0)
  BY <1>1 DEF CommissionDoes
<1>3. p \in Policies /\ l.base \in Nat /\ l.base <= Terms[p].kept
  BY <1>2 DEF Writes, LocalOK
<1>4. /\ received' = [received EXCEPT ![p] = l.base]
      /\ collected' = [collected EXCEPT ![p] = full]
      /\ UNCHANGED <<policy, credits, endorsements>>
  BY <1>1 DEF CommissionDoes
<1>5. full \in BOOLEAN /\ (full => l.base = Terms[p].kept)
  OBVIOUS
<1> HIDE DEF full, p
<1>6. received' \in [Policies -> Nat] /\ collected' \in [Policies -> BOOLEAN]
  BY <1>3, <1>4, <1>5 DEF Inv, TypeOK
<1>7. CommissionWithinExpected'
  <2> SUFFICES ASSUME NEW o \in Policies
               PROVE  received'[o] <= Terms[o].kept /\ (collected'[o] => received'[o] = Terms[o].kept)
    BY DEF CommissionWithinExpected
  <2>1. CASE o = p
    BY <1>3, <1>4, <1>5, <2>1 DEF Inv, TypeOK
  <2>2. CASE o # p
    BY <1>4, <2>2 DEF Inv, TypeOK, CommissionWithinExpected
  <2> QED BY <2>1, <2>2
<1> QED BY <1>2, <1>4, <1>6, <1>7, PostKeeps

LEMMA CommitSettleKeeps ==
    ASSUME Inv, NEW c \in Calls, CommitSettle(c)
    PROVE  Inv'
<1>1. PICK l, v : SettleDoes(c, l, v)
  BY CommitSettleDoes
<1>2. Writes(c, l, "settle") /\ Posts(c, v, "PYV", l.of, l.amount, 0)
  BY <1>1 DEF SettleDoes
<1>3. UNCHANGED <<policy, received, collected, credits, endorsements>>
  BY <1>1 DEF SettleDoes
<1>4. CommissionWithinExpected' /\ received' \in [Policies -> Nat] /\ collected' \in [Policies -> BOOLEAN]
  BY <1>3 DEF Inv, TypeOK, CommissionWithinExpected
<1> QED BY <1>2, <1>3, <1>4, PostKeeps

\* No call moves.
LEMMA FreeLookEndsKeeps ==
    ASSUME Inv, NEW p \in Policies, FreeLookEnds(p)
    PROVE  Inv'
<1>1. /\ policy' = [policy EXCEPT ![p].freeLook = FALSE]
      /\ UNCHANGED <<received, collected, credits, endorsements, vouchers, call, crashes>>
  BY DEF FreeLookEnds
<1>2. /\ policy' \in [Policies -> [status : {"ISSUED", "CANCELLED"}, freeLook : BOOLEAN]]
      /\ \A o \in Policies : policy'[o].status = policy[o].status
  <2> DEFINE row == [policy[p] EXCEPT !.freeLook = FALSE]
  <2>1. policy \in [Policies -> [status : {"ISSUED", "CANCELLED"}, freeLook : BOOLEAN]]
    BY DEF Inv, TypeOK
  <2>2. policy[p] \in [status : {"ISSUED", "CANCELLED"}, freeLook : BOOLEAN]
    BY <2>1
  <2>3. row \in [status : {"ISSUED", "CANCELLED"}, freeLook : BOOLEAN] /\ row.status = policy[p].status
    BY <2>2
  <2>4. policy' = [policy EXCEPT ![p] = row]
    BY <1>1
  <2> HIDE DEF row
  <2> QED BY <2>1, <2>3, <2>4
<1>3. TypeOK'
  BY <1>1, <1>2 DEF Inv, TypeOK
<1>4. CancelledIsReversed' /\ RefundIsVouched' /\ CommissionWithinExpected'
  BY <1>1, <1>2 DEF Inv, CancelledIsReversed, RefundIsVouched, CommissionWithinExpected
<1>5. \A c \in Calls : LocalOK(c, call[c])'
  BY <1>1 DEF Inv, LocalOK
<1>6. call' = [c \in Calls |-> call'[c]]
  BY <1>1 DEF Inv
<1> QED BY <1>3, <1>4, <1>5, <1>6 DEF Inv

LEMMA NextKeeps == Inv /\ [Next]_vars => Inv'
<1> SUFFICES ASSUME Inv, [Next]_vars PROVE Inv'
  OBVIOUS
<1>1. ASSUME NEW c \in Calls, Start(c) \/ Crash(c) PROVE Inv'
  BY <1>1, StartKeeps, CrashKeeps
<1>2. ASSUME NEW c \in Calls, Continue(c) PROVE Inv'
  BY <1>2, CommitCancelKeeps, CommitRefundKeeps, CommitEndorsementKeeps, CommitCommissionKeeps,
     CommitSettleKeeps DEF Continue
<1>3. ASSUME NEW p \in Policies, FreeLookEnds(p) PROVE Inv'
  BY <1>3, FreeLookEndsKeeps
<1>4. CASE UNCHANGED vars
  BY <1>4 DEF vars, rows, Inv, TypeOK, CancelledIsReversed, RefundIsVouched, CommissionWithinExpected, LocalOK
<1> QED BY <1>1, <1>2, <1>3, <1>4 DEF Next

-----------------------------------------------------------------------------
\* The invariant holds in every behaviour of the API.
THEOREM LedgerSafe == Spec => []Inv
<1> QED BY InitHolds, NextKeeps, PTL DEF Spec

\* The columns hold what they are declared to hold; no credit note is negative,
\* whichever part of whatever premium is returned.
THEOREM LedgerTyped == Spec => []TypeOK
<1>1. Inv => TypeOK
  BY DEF Inv
<1> QED BY <1>1, LedgerSafe, PTL

\* A cancelled policy has endorsement, credit note and reversing journal of one
\* cancellation, over the same amount, for any number of cancellations at a time.
THEOREM CancelledAlwaysReversed == Spec => []CancelledIsReversed
<1>1. Inv => CancelledIsReversed
  BY DEF Inv
<1> QED BY <1>1, LedgerSafe, PTL

\* A credit note that is marked refunded has its payment voucher.
THEOREM RefundAlwaysVouched == Spec => []RefundIsVouched
<1>1. Inv => RefundIsVouched
  BY DEF Inv
<1> QED BY <1>1, LedgerSafe, PTL

\* A commission never shows more than is expected, whatever receipts interleave.
THEOREM CommissionNeverExceedsExpected == Spec => []CommissionWithinExpected
<1>1. Inv => CommissionWithinExpected
  BY DEF Inv
<1> QED BY <1>1, LedgerSafe, PTL

-----------------------------------------------------------------------------
(* The books                                                                *)

\* What a receipt has read and is about to write is in the books, its own
\* amount apart.
ReceiptRead(l) == l.step = "commission" => l.base <= Posted("RCV", l.policy) + l.amount

\* What a call adds to the clients' account, and to the parts of their subledger.
ClientEntry(c) == IF c \in Made(vouchers) THEN Entry("clients", vouchers[c].entries) ELSE 0
CreditOf(c) == IF c \in Made(credits) THEN credits[c].amount ELSE 0
RefundOf(c) == IF c \in Refunds THEN vouchers[c].amount ELSE 0
ReductionOf(c) == IF c \in Reductions THEN credits[c].amount ELSE 0

EntriesMatch(c) == ClientEntry(c) + CreditOf(c) = RefundOf(c) + ReductionOf(c)

BooksInv ==
    /\ \A c \in Calls : ReceiptRead(call[c]) /\ EntriesMatch(c)
    /\ CommissionIsVouched

\* The amounts of the vouchers of any kind add up to an integer.
LEMMA PostedType ==
    ASSUME TypeOK, NEW type, NEW of
    PROVE  /\ IsFiniteSet(Vouchers(type, of))
           /\ \A c \in Vouchers(type, of) : vouchers[c].amount \in Nat
           /\ Posted(type, of) \in Int
<1> DEFINE V == Vouchers(type, of)
           f == [c \in V |-> vouchers[c].amount]
<1>1. IsFiniteSet(V)
  BY FS_Subset DEF Vouchers, Made
<1>2. \A c \in V : vouchers[c].amount \in Nat
  BY DEF TypeOK, Vouchers, Made, VoucherRow, VoucherRows
<1>3. SumFunctionOnSet(f, V) \in Int
  <2>1. \A c \in V : f[c] \in Int
    BY <1>2
  <2> HIDE DEF V, f
  <2> QED BY <1>1, <2>1, SumType
<1>4. Posted(type, of) = SumFunctionOnSet(f, V)
  BY DEF Posted, SumFunction
<1> QED BY <1>1, <1>2, <1>3, <1>4

\* A voucher adds its amount to those of its kind,
LEMMA PostedGrows ==
    ASSUME TypeOK, NEW c \in Calls, vouchers[c] = None, NEW v \in VoucherRow,
           vouchers' = [vouchers EXCEPT ![c] = v], NEW type, NEW of, v.type = type, v.of = of
    PROVE  /\ Vouchers(type, of)' = Vouchers(type, of) \union {c}
           /\ Posted(type, of)' = Posted(type, of) + v.amount
<1> DEFINE V == Vouchers(type, of)
           W == Vouchers(type, of)'
           f == [d \in V |-> vouchers[d].amount]
           g == [d \in W |-> vouchers'[d].amount]
<1>0. v # None /\ v.amount \in Nat
  BY DEF VoucherRow, VoucherRows
<1>1. c \notin V /\ \A d \in V : d \in Calls /\ vouchers'[d] = vouchers[d]
  BY DEF Vouchers, Made, TypeOK
<1>2. Posted(type, of) = SumFunctionOnSet(f, V) /\ Posted(type, of)' = SumFunctionOnSet(g, W)
  BY DEF Posted, SumFunction
<1>3. IsFiniteSet(V) /\ \A d \in V : f[d] \in Int
  BY PostedType
<1>4. W = V \union {c} /\ vouchers'[c] = v
  BY <1>0 DEF Vouchers, Made, TypeOK
<1>5. g[c] = v.amount /\ \A d \in V : g[d] = f[d]
  BY <1>1, <1>4
<1>6. \A d \in W : g[d] \in Int
  BY <1>0, <1>3, <1>4, <1>5
<1>7. IsFiniteSet(W) /\ V \in SUBSET W /\ c \in W \ V
  BY <1>1, <1>3, <1>4, FS_AddElement
<1> HIDE DEF V, W, f, g
<1>8. SumFunctionOnSet(g, W) = g[c] + SumFunctionOnSet(g, V) /\ SumFunctionOnSet(g, V) \in Int
  <2>1. SumFunctionOnSet(g, V \union {c}) = g[c] + SumFunctionOnSet(g, V) /\ SumFunctionOnSet(g, V) \in Int
    BY <1>6, <1>7, SumInsert
  <2> QED BY <1>4, <2>1
<1>9. SumFunctionOnSet(g, V) = SumFunctionOnSet(f, V)
  BY <1>3, <1>5, SumSame
<1>10. Posted(type, of)' = Posted(type, of) + v.amount
  BY <1>0, <1>2, <1>5, <1>8, <1>9
<1> QED BY <1>4, <1>10 DEF V, W

\* ... and to no others.
LEMMA PostedStays ==
    ASSUME TypeOK, NEW c \in Calls, vouchers[c] = None, NEW v \in VoucherRow,
           vouchers' = [vouchers EXCEPT ![c] = v], NEW type, NEW of, v.type # type \/ v.of # of
    PROVE  Vouchers(type, of)' = Vouchers(type, of) /\ Posted(type, of)' = Posted(type, of)
<1>1. \A d \in Calls : d # c => vouchers'[d] = vouchers[d]
  BY DEF TypeOK
<1>2. vouchers'[c] = v /\ v # None
  BY DEF TypeOK, VoucherRow, VoucherRows
<1>3. Vouchers(type, of)' = Vouchers(type, of)
  BY <1>1, <1>2 DEF Vouchers, Made
<1>4. \A d \in Vouchers(type, of) : vouchers'[d] = vouchers[d]
  BY <1>1 DEF Vouchers, Made
<1>5. [d \in Vouchers(type, of)' |-> vouchers'[d].amount] = [d \in Vouchers(type, of) |-> vouchers[d].amount]
  BY <1>3, <1>4
<1> QED BY <1>3, <1>5 DEF Posted

\* The other calls' rows weigh what they weighed.
LEMMA EntriesStay ==
    ASSUME NEW c \in Calls, NEW d \in Calls \ {c}, RowsMove(c), EntriesMatch(d)
    PROVE  EntriesMatch(d)'
<1>1. vouchers'[d] = vouchers[d] /\ (credits[d] = None <=> credits'[d] = None)
  BY DEF RowsMove
<1>2. credits[d] # None => credits'[d].amount = credits[d].amount /\ credits'[d].kind = credits[d].kind
  BY DEF RowsMove
<1>3. /\ ClientEntry(d)' = ClientEntry(d) /\ RefundOf(d)' = RefundOf(d)
  BY <1>1 DEF ClientEntry, RefundOf, Refunds, Made
<1>4. CreditOf(d)' = CreditOf(d) /\ ReductionOf(d)' = ReductionOf(d)
  BY <1>1, <1>2 DEF CreditOf, ReductionOf, Reductions, Made
<1> QED BY <1>3, <1>4 DEF EntriesMatch

\* One call moves and posts nothing.
LEMMA BooksQuiet ==
    ASSUME Inv, BooksInv, NEW c \in Calls, NEW l, call' = [call EXCEPT ![c] = l], RowsMove(c),
           UNCHANGED <<received, vouchers>>, EntriesMatch(c)', ReceiptRead(l)
    PROVE  BooksInv'
<1>1. call'[c] = l /\ \A d \in Calls : d # c => call'[d] = call[d]
  BY DEF Inv
<1>2. \A type, of : Posted(type, of)' = Posted(type, of)
  BY DEF Posted, Vouchers, Made
<1>3. CommissionIsVouched'
  BY <1>2 DEF BooksInv, CommissionIsVouched
<1>4. ASSUME NEW d \in Calls PROVE (ReceiptRead(call[d]) /\ EntriesMatch(d))'
  <2>1. CASE d = c
    BY <1>1, <1>2, <2>1 DEF ReceiptRead
  <2>2. CASE d # c
    <3>1. ReceiptRead(call[d])'
      BY <1>1, <1>2, <2>2 DEF BooksInv, ReceiptRead
    <3>2. EntriesMatch(d)'
      BY <2>2, EntriesStay DEF BooksInv
    <3> QED BY <3>1, <3>2
  <2> QED BY <2>1, <2>2
<1> QED BY <1>3, <1>4 DEF BooksInv

\* One call posts a voucher, of a commission or of something else, and is over.
LEMMA BooksPosted ==
    ASSUME Inv, BooksInv, NEW c \in Calls, Finish(c), RowsMove(c), vouchers[c] = None,
           NEW v \in VoucherRow, vouchers' = [vouchers EXCEPT ![c] = v], EntriesMatch(c)',
           \/ UNCHANGED received
           \/ /\ v.type = "RCV" /\ v.of \in Policies
              /\ received' = [received EXCEPT ![v.of] = call[c].base]
              /\ call[c].base <= Posted("RCV", v.of) + v.amount
    PROVE  BooksInv'
<1>0. TypeOK /\ v.amount \in Nat
  BY DEF Inv, VoucherRow, VoucherRows
<1>1. call'[c] = Over /\ Over.step = "done" /\ \A d \in Calls : d # c => call'[d] = call[d]
  BY DEF Inv, Finish, Over, Local
<1>2. ASSUME NEW p
      PROVE  /\ Posted("RCV", p) \in Int /\ Posted("RCV", p)' \in Int
             /\ Posted("RCV", p) <= Posted("RCV", p)'
             /\ v.type = "RCV" /\ v.of = p => Posted("RCV", p)' = Posted("RCV", p) + v.amount
  <2>1. Posted("RCV", p) \in Int
    BY <1>0, PostedType
  <2>2. CASE v.type = "RCV" /\ v.of = p
    <3>1. Posted("RCV", p)' = Posted("RCV", p) + v.amount
      BY <1>0, <2>2, PostedGrows, Zenon
    <3> QED BY <1>0, <2>1, <2>2, <3>1
  <2>3. CASE ~ (v.type = "RCV" /\ v.of = p)
    <3>1. Posted("RCV", p)' = Posted("RCV", p)
      BY <1>0, <2>3, PostedStays
    <3> QED BY <2>1, <2>3, <3>1
  <2> QED BY <2>2, <2>3
<1>3. CommissionIsVouched'
  <2> SUFFICES ASSUME NEW p \in Policies PROVE received'[p] <= Posted("RCV", p)'
    BY DEF CommissionIsVouched
  <2>0. received \in [Policies -> Nat] /\ received[p] <= Posted("RCV", p)
    BY <1>0 DEF TypeOK, BooksInv, CommissionIsVouched
  <2>1. CASE received'[p] = received[p]
    BY <1>2, <2>0, <2>1
  <2>2. CASE received'[p] # received[p]
    <3>1. v.type = "RCV" /\ v.of = p /\ received'[p] = call[c].base
          /\ call[c].base <= Posted("RCV", p) + v.amount
      BY <2>0, <2>2
    <3> QED BY <1>2, <3>1
  <2> QED BY <2>1, <2>2
<1>4. ASSUME NEW d \in Calls PROVE (ReceiptRead(call[d]) /\ EntriesMatch(d))'
  <2>1. CASE d = c
    BY <1>1, <2>1 DEF ReceiptRead
  <2>2. CASE d # c
    <3>1. PICK l : l = call[d] /\ l = call'[d]
      BY <1>1, <2>2
    <3>2. ReceiptRead(l)'
      <4> SUFFICES ASSUME l.step = "commission" PROVE l.base <= Posted("RCV", l.policy)' + l.amount
        BY DEF ReceiptRead
      <4>1. l.base \in Nat /\ l.amount \in Nat /\ l.base <= Posted("RCV", l.policy) + l.amount
        BY <3>1 DEF Inv, LocalOK, BooksInv, ReceiptRead
      <4> QED BY <1>2, <4>1
    <3>3. EntriesMatch(d)'
      BY <2>2, EntriesStay DEF BooksInv
    <3> QED BY <3>1, <3>2, <3>3
  <2> QED BY <2>1, <2>2
<1> QED BY <1>3, <1>4 DEF BooksInv

\* A call is let in: it changes nothing but itself.
LEMMA StartBooks ==
    ASSUME Inv, BooksInv, NEW c \in Calls, Start(c) \/ Crash(c)
    PROVE  BooksInv'
<1>1. ASSUME NEW l, call' = [call EXCEPT ![c] = l], UNCHANGED rows, ReceiptRead(l) PROVE BooksInv'
  <2>1. UNCHANGED <<policy, received, collected, credits, endorsements, vouchers>>
    BY <1>1 DEF rows
  <2>2. RowsMove(c)
    BY <2>1 DEF RowsMove
  <2>3. EntriesMatch(c)'
    BY <2>1 DEF BooksInv, EntriesMatch, ClientEntry, CreditOf, RefundOf, ReductionOf,
       Refunds, Reductions, Made
  <2> QED BY <1>1, <2>1, <2>2, <2>3, BooksQuiet
<1>2. CASE Crash(c)
  BY <1>1, <1>2 DEF Crash, Over, Local, ReceiptRead
<1>3. CASE Start(c)
  <2>1. ASSUME NEW l, Begin(c, l), ReceiptRead(l) PROVE BooksInv'
    BY <1>1, <2>1 DEF Begin
  <2>2. \A step, p, of, amount, base :
            step # "commission" => ReceiptRead(Local(step, p, of, amount, base))
    BY DEF ReceiptRead, Local
  <2>3. ASSUME NEW p \in Policies, NEW a \in Amounts, CommissionReceipt(c, p, a) PROVE BooksInv'
    <3> DEFINE l == Local("commission", p, None, a, received[p] + a)
    <3>1. received[p] \in Nat /\ received[p] <= Posted("RCV", p) /\ a \in Nat
      BY DEF Inv, TypeOK, BooksInv, CommissionIsVouched
    <3>2. Posted("RCV", p) \in Int
      BY PostedType DEF Inv
    <3>3. l.policy = p /\ l.amount = a /\ l.base = received[p] + a
      BY DEF Local
    <3>4. Begin(c, l)
      BY <2>3 DEF CommissionReceipt
    <3> HIDE DEF l
    <3>5. ReceiptRead(l)
      BY <3>1, <3>2, <3>3 DEF ReceiptRead
    <3> QED BY <2>1, <3>4, <3>5
  <2>4. ASSUME NEW p \in Policies, NEW halves \in 0..2, CancelPolicy(c, p, halves) PROVE BooksInv'
    BY <2>1, <2>2, <2>4 DEF CancelPolicy
  <2>5. ASSUME NEW n \in Calls, RefundCreditNote(c, n) PROVE BooksInv'
    BY <2>1, <2>2, <2>5 DEF RefundCreditNote
  <2>6. ASSUME NEW p \in Policies, NEW delta \in Deltas, AddEndorsement(c, p, delta) PROVE BooksInv'
    BY <2>1, <2>2, <2>6 DEF AddEndorsement
  <2>7. ASSUME NEW payee \in Payees, NEW a \in Amounts, Settle(c, payee, a) PROVE BooksInv'
    BY <2>1, <2>2, <2>7 DEF Settle
  <2> QED BY <1>3, <2>3, <2>4, <2>5, <2>6, <2>7 DEF Start
<1> QED BY <1>2, <1>3

LEMMA ContinueBooks ==
    ASSUME Inv, BooksInv, NEW c \in Calls, Continue(c)
    PROVE  BooksInv'
<1>1. CASE CommitCancel(c)
  <2>1. PICK l, v, n, e : CancelDoes(c, l, v, n, e)
    BY <1>1, CommitCancelDoes
  <2>2. Writes(c, l, "cancel") /\ Posts(c, v, "JRV", l.policy, l.amount, 0 - l.amount)
    BY <2>1 DEF CancelDoes
  <2>3. vouchers'[c] = v /\ credits'[c] = n /\ l.amount \in Nat
    BY <2>1, <2>2 DEF Inv, TypeOK, CancelDoes, Posts, Writes, LocalOK
  <2>4. /\ ClientEntry(c)' = 0 - l.amount /\ RefundOf(c)' = 0
        /\ CreditOf(c)' = l.amount /\ ReductionOf(c)' = 0
    BY <2>1, <2>2, <2>3, RowsAreRows DEF CancelDoes, Posts, ClientEntry, CreditOf, RefundOf,
       ReductionOf, Refunds, Reductions, Made
  <2>5. EntriesMatch(c)'
    BY <2>3, <2>4 DEF EntriesMatch
  <2> QED BY <2>1, <2>2, <2>5, BooksPosted DEF CancelDoes, Writes, Posts
<1>2. CASE CommitRefund(c)
  <2>1. PICK l, v, n : RefundDoes(c, l, v, n)
    BY <1>2, CommitRefundDoes
  <2>2. Writes(c, l, "refund") /\ Posts(c, v, "refund", l.of, l.amount, l.amount)
    BY <2>1 DEF RefundDoes
  <2>3. vouchers'[c] = v /\ credits'[c] = None
    BY <2>1, <2>2 DEF Inv, TypeOK, RefundDoes, Posts, Writes
  <2>4. /\ ClientEntry(c)' = l.amount /\ RefundOf(c)' = l.amount
        /\ CreditOf(c)' = 0 /\ ReductionOf(c)' = 0
    BY <2>1, <2>2, <2>3 DEF RefundDoes, Posts, ClientEntry, CreditOf, RefundOf,
       ReductionOf, Refunds, Reductions, Made
  <2>5. l.amount \in Nat
    BY <2>2 DEF Posts, VoucherRow, VoucherRows
  <2>6. EntriesMatch(c)'
    BY <2>4, <2>5 DEF EntriesMatch
  <2> QED BY <2>1, <2>2, <2>6, BooksPosted DEF RefundDoes, Writes, Posts
<1>3. CASE CommitEndorsement(c)
  <2>1. PICK l, n, e : EndorseDoes(c, l, n, e)
    BY <1>3, CommitEndorsementDoes
  <2>2. Writes(c, l, "endorse")
    BY <2>1 DEF EndorseDoes
  <2>3. vouchers'[c] = None
    BY <2>1, <2>2 DEF EndorseDoes, Writes
  <2>4. ClientEntry(c)' = 0 /\ RefundOf(c)' = 0
    BY <2>3 DEF ClientEntry, RefundOf, Refunds, Made
  <2>5. credits'[c] = None \/ (l.amount < 0 /\ credits'[c] = n)
    BY <2>1, <2>2 DEF Inv, TypeOK, EndorseDoes, Writes
  <2>6. CreditOf(c)' = ReductionOf(c)' /\ CreditOf(c)' \in Nat
    BY <2>1, <2>5 DEF EndorseDoes, CreditOf, ReductionOf, Reductions, Made, CreditRow
  <2>7. EntriesMatch(c)'
    BY <2>4, <2>6 DEF EntriesMatch
  <2>8. call' = [call EXCEPT ![c] = Over] /\ ReceiptRead(Over) /\ RowsMove(c)
    BY <2>2 DEF Writes, Finish, ReceiptRead, Over, Local
  <2> QED BY <2>1, <2>7, <2>8, BooksQuiet DEF EndorseDoes
<1>4. ASSUME NEW l, NEW step, Writes(c, l, step), NEW v, NEW type, NEW of, NEW amount,
             Posts(c, v, type, of, amount, 0), type # "refund", UNCHANGED credits
      PROVE  EntriesMatch(c)'
  <2>1. vouchers'[c] = v /\ credits'[c] = None
    BY <1>4 DEF Inv, TypeOK, Posts, Writes
  <2>2. /\ ClientEntry(c)' = 0 /\ RefundOf(c)' = 0
        /\ CreditOf(c)' = 0 /\ ReductionOf(c)' = 0
    BY <1>4, <2>1 DEF Posts, ClientEntry, CreditOf, RefundOf, ReductionOf, Refunds, Reductions, Made
  <2> QED BY <2>2 DEF EntriesMatch
<1>5. CASE CommitCommission(c)
  <2>1. PICK l, v : CommissionDoes(c, l, v)
    BY <1>5, CommitCommissionDoes
  <2>2. Writes(c, l, "commission") /\ Posts(c, v, "RCV", l.policy, l.amount, 0)
    BY <2>1 DEF CommissionDoes
  <2>3. EntriesMatch(c)'
    BY <1>4, <2>1, <2>2 DEF CommissionDoes
  <2>4. l = call[c] /\ l.policy \in Policies /\ l.base <= Posted("RCV", l.policy) + l.amount
    BY <2>2 DEF Writes, LocalOK, BooksInv, ReceiptRead
  <2>5. /\ v.type = "RCV" /\ v.of \in Policies
        /\ received' = [received EXCEPT ![v.of] = call[c].base]
        /\ call[c].base <= Posted("RCV", v.of) + v.amount
    BY <2>1, <2>2, <2>4 DEF CommissionDoes, Posts
  <2> QED BY <2>2, <2>3, <2>5, BooksPosted DEF Writes, Posts
<1>6. CASE CommitSettle(c)
  <2>1. PICK l, v : SettleDoes(c, l, v)
    BY <1>6, CommitSettleDoes
  <2>2. Writes(c, l, "settle") /\ Posts(c, v, "PYV", l.of, l.amount, 0)
    BY <2>1 DEF SettleDoes
  <2>3. EntriesMatch(c)'
    BY <1>4, <2>1, <2>2 DEF SettleDoes
  <2> QED BY <2>1, <2>2, <2>3, BooksPosted DEF SettleDoes, Writes, Posts
<1> QED BY <1>1, <1>2, <1>3, <1>5, <1>6 DEF Continue

LEMMA BooksInit == Init => BooksInv
<1> SUFFICES ASSUME Init PROVE BooksInv
  OBVIOUS
<1>1. ASSUME NEW c \in Calls PROVE ReceiptRead(call[c]) /\ EntriesMatch(c)
  BY DEF Init, ReceiptRead, Idle, Local, EntriesMatch, ClientEntry, CreditOf, RefundOf, ReductionOf,
     Refunds, Reductions, Made
<1>2. ASSUME NEW p \in Policies PROVE received[p] <= Posted("RCV", p)
  <2>1. Vouchers("RCV", p) = {}
    BY DEF Init, Vouchers, Made
  <2>2. Posted("RCV", p) = 0
    BY <2>1, SumEmpty DEF Posted, SumFunction
  <2> QED BY <2>2 DEF Init
<1> QED BY <1>1, <1>2 DEF BooksInv, CommissionIsVouched

LEMMA BooksNext == Inv /\ BooksInv /\ [Next]_vars => BooksInv'
<1> SUFFICES ASSUME Inv, BooksInv, [Next]_vars PROVE BooksInv'
  OBVIOUS
<1>1. ASSUME UNCHANGED <<received, credits, vouchers, call>> PROVE BooksInv'
  <2>1. \A type, of : Posted(type, of)' = Posted(type, of)
    BY <1>1 DEF Posted, Vouchers, Made
  <2>2. CommissionIsVouched'
    BY <1>1, <2>1 DEF BooksInv, CommissionIsVouched
  <2>3. ASSUME NEW c \in Calls PROVE EntriesMatch(c)'
    BY <1>1 DEF BooksInv, EntriesMatch, ClientEntry, CreditOf, RefundOf, ReductionOf, Refunds, Reductions, Made
  <2>4. ASSUME NEW c \in Calls PROVE ReceiptRead(call[c])'
    BY <1>1, <2>1 DEF BooksInv, ReceiptRead
  <2> QED BY <2>2, <2>3, <2>4 DEF BooksInv
<1>2. ASSUME NEW p \in Policies, FreeLookEnds(p) PROVE BooksInv'
  BY <1>1, <1>2 DEF FreeLookEnds
<1>3. CASE UNCHANGED vars
  BY <1>1, <1>3 DEF vars, rows
<1> QED BY <1>2, <1>3, StartBooks, ContinueBooks DEF Next

\* What one call adds to the two sides agrees, so what all of them add agrees; and
\* the journal of issue debits the client what the policy bills.
LEMMA BooksReconcile ==
    ASSUME Inv, BooksInv
    PROVE  ClientsReconcile
<1> DEFINE fv == [c \in Made(vouchers) |-> Entry("clients", vouchers[c].entries)]
           fc == [c \in Made(credits) |-> credits[c].amount]
           fr == [c \in Refunds |-> vouchers[c].amount]
           fd == [c \in Reductions |-> credits[c].amount]
           fu == [c \in Bills |-> endorsements[c].delta]
           gv == [c \in Calls |-> ClientEntry(c)]
           gc == [c \in Calls |-> CreditOf(c)]
           gr == [c \in Calls |-> RefundOf(c)]
           gd == [c \in Calls |-> ReductionOf(c)]
           issued == [p \in Policies |-> Entry("clients", Issued(p))]
           billed == [p \in Policies |-> Billed(p)]
<1>1. /\ Made(vouchers) \in SUBSET Calls /\ Made(credits) \in SUBSET Calls
      /\ Refunds \in SUBSET Calls /\ Reductions \in SUBSET Calls /\ Bills \in SUBSET Calls
  BY DEF Made, Refunds, Reductions, Bills
<1>2. ASSUME NEW c \in Made(vouchers)
      PROVE  Entry("clients", vouchers[c].entries) \in Int /\ vouchers[c].amount \in Int
  <2>1. vouchers[c] \in VoucherRow
    BY DEF Inv, TypeOK, Made
  <2>2. PICK D \in SUBSET Accounts : vouchers[c].entries \in [D -> Int]
    <3>1. vouchers[c].entries \in Entries
      BY <2>1 DEF VoucherRow, VoucherRows
    <3> HIDE DEF Entries
    <3>2. \A x : x \in Entries => \E D \in SUBSET Accounts : x \in [D -> Int]
      BY DEF Entries
    <3> QED BY <3>1, <3>2
  <2>3. Entry("clients", vouchers[c].entries) \in Int
    BY <2>2 DEF Entry
  <2>4. vouchers[c].amount \in Nat
    BY <2>1 DEF VoucherRow, VoucherRows
  <2> QED BY <2>3, <2>4
<1>3. ASSUME NEW c \in Made(credits) PROVE credits[c].amount \in Int
  BY DEF Inv, TypeOK, Made, CreditRow
<1>4. ASSUME NEW c \in Bills PROVE endorsements[c].delta \in Int
  BY DEF Inv, TypeOK, Made, Bills, EndorsementRow
<1>5. SumFunction(fv) = SumFunctionOnSet(gv, Calls) /\ SumFunction(fv) \in Int
  <2>1. \A c \in Made(vouchers) : fv[c] \in Int /\ gv[c] = fv[c]
    BY <1>1, <1>2 DEF ClientEntry
  <2>2. \A c \in Calls \ Made(vouchers) : gv[c] = 0
    BY DEF ClientEntry
  <2>3. DOMAIN fv = Made(vouchers)
    OBVIOUS
  <2>4. IsFiniteSet(Calls)
    OBVIOUS
  <2> HIDE CallsAssumption DEF fv, gv
  <2> QED BY <1>1, <2>1, <2>2, <2>3, <2>4, SumSpread
<1>6. SumFunction(fc) = SumFunctionOnSet(gc, Calls) /\ SumFunction(fc) \in Int
  <2>1. \A c \in Made(credits) : fc[c] \in Int /\ gc[c] = fc[c]
    BY <1>1, <1>3 DEF CreditOf
  <2>2. \A c \in Calls \ Made(credits) : gc[c] = 0
    BY DEF CreditOf
  <2>3. DOMAIN fc = Made(credits)
    OBVIOUS
  <2>4. IsFiniteSet(Calls)
    OBVIOUS
  <2> HIDE CallsAssumption DEF fc, gc
  <2> QED BY <1>1, <2>1, <2>2, <2>3, <2>4, SumSpread
<1>7. SumFunction(fr) = SumFunctionOnSet(gr, Calls) /\ SumFunction(fr) \in Int
  <2>1. \A c \in Refunds : fr[c] \in Int /\ gr[c] = fr[c]
    BY <1>1, <1>2 DEF RefundOf, Refunds
  <2>2. \A c \in Calls \ Refunds : gr[c] = 0
    BY DEF RefundOf
  <2>3. DOMAIN fr = Refunds
    OBVIOUS
  <2>4. IsFiniteSet(Calls)
    OBVIOUS
  <2> HIDE CallsAssumption DEF fr, gr
  <2> QED BY <1>1, <2>1, <2>2, <2>3, <2>4, SumSpread
<1>8. SumFunction(fd) = SumFunctionOnSet(gd, Calls) /\ SumFunction(fd) \in Int
  <2>1. \A c \in Reductions : fd[c] \in Int /\ gd[c] = fd[c]
    BY <1>1, <1>3 DEF ReductionOf, Reductions
  <2>2. \A c \in Calls \ Reductions : gd[c] = 0
    BY DEF ReductionOf
  <2>3. DOMAIN fd = Reductions
    OBVIOUS
  <2>4. IsFiniteSet(Calls)
    OBVIOUS
  <2> HIDE CallsAssumption DEF fd, gd
  <2> QED BY <1>1, <2>1, <2>2, <2>3, <2>4, SumSpread
<1>9. SumFunction(fu) \in Int
  <2>1. \A c \in Bills : fu[c] \in Int
    BY <1>4
  <2>2. IsFiniteSet(Bills) /\ SumFunction(fu) = SumFunctionOnSet(fu, Bills)
    BY <1>1, FS_Subset DEF SumFunction
  <2> HIDE DEF fu
  <2> QED BY <2>1, <2>2, SumType
<1>10. \A c \in Calls : /\ gv[c] \in Int /\ gc[c] \in Int /\ gr[c] \in Int /\ gd[c] \in Int
                        /\ gv[c] + gc[c] = gr[c] + gd[c]
  <2>1. ASSUME NEW c \in Calls
        PROVE  ClientEntry(c) \in Int /\ CreditOf(c) \in Int /\ RefundOf(c) \in Int /\ ReductionOf(c) \in Int
    BY <1>2, <1>3 DEF ClientEntry, CreditOf, RefundOf, ReductionOf, Refunds, Reductions
  <2>2. \A c \in Calls : ClientEntry(c) + CreditOf(c) = RefundOf(c) + ReductionOf(c)
    BY DEF BooksInv, EntriesMatch
  <2> QED BY <2>1, <2>2
<1>11. SumFunctionOnSet(gv, Calls) + SumFunctionOnSet(gc, Calls)
         = SumFunctionOnSet(gr, Calls) + SumFunctionOnSet(gd, Calls)
  <2>1. IsFiniteSet(Calls)
    OBVIOUS
  <2> HIDE CallsAssumption DEF gv, gc, gr, gd
  <2> QED BY <1>10, <2>1, SumPairs
<1>12. SumFunction(issued) = SumFunction(billed) /\ SumFunction(billed) \in Int
  <2>1. \A p \in Policies : Entry("clients", Issued(p)) = Billed(p) /\ Billed(p) \in Int
    BY DEF Entry, Issued, Billed
  <2>2. issued = billed
    BY <2>1
  <2>3. \A p \in Policies : billed[p] \in Int
    BY <2>1
  <2>4. SumFunction(billed) = SumFunctionOnSet(billed, Policies)
    BY DEF SumFunction
  <2> HIDE DEF billed
  <2>5. SumFunction(billed) \in Int
    BY <2>3, <2>4, SumType
  <2> QED BY <2>2, <2>5
<1>13. /\ Balance("clients") = SumFunction(issued) + SumFunction(fv)
       /\ ClientOwes = SumFunction(billed) + SumFunction(fu) - SumFunction(fc)
       /\ Refunded = SumFunction(fr) /\ EndorsedUp = SumFunction(fu) /\ EndorsedDown = SumFunction(fd)
  BY DEF Balance, ClientOwes, Refunded, EndorsedUp, EndorsedDown, Credited
<1> HIDE DEF fv, fc, fr, fd, fu, gv, gc, gr, gd, issued, billed
<1>14. SumFunction(fv) + SumFunction(fc) = SumFunction(fr) + SumFunction(fd)
  BY <1>5, <1>6, <1>7, <1>8, <1>11
<1>15. Balance("clients") = ClientOwes + Refunded - EndorsedUp + EndorsedDown
  BY <1>5, <1>6, <1>7, <1>8, <1>9, <1>12, <1>13, <1>14
<1> QED BY <1>15 DEF ClientsReconcile

LEMMA BooksHold == Spec => [](Inv /\ BooksInv)
<1>1. Init => Inv /\ BooksInv
  BY InitHolds, BooksInit
<1>2. Inv /\ BooksInv /\ [Next]_vars => (Inv /\ BooksInv)'
  BY NextKeeps, BooksNext
<1> QED BY <1>1, <1>2, PTL DEF Spec

\* What the rows show as paid back or received is in the books, for any number of
\* refunds and receipts at a time, whichever of them die.
THEOREM ShownAlwaysVouched == Spec => []ShownIsVouched
<1>1. Inv /\ BooksInv => ShownIsVouched
  BY DEF Inv, BooksInv, ShownIsVouched
<1> QED BY <1>1, BooksHold, PTL

\* The clients' account and the clients' subledger differ by refunds and
\* endorsements only, whatever is cancelled, refunded and endorsed at a time.
THEOREM ClientsAlwaysReconcile == Spec => []ClientsReconcile
<1> QED BY BooksHold, BooksReconcile, PTL

-----------------------------------------------------------------------------
(* One call at a time                                                       *)
(* What a call has read is still so when it writes, as no other has written *)
(* in between; so the rows say what the vouchers say.                       *)

OneAtATime == \A c, d \in InFlight : c = d

\* A credit note is paid back by its vouchers when it is marked, and only then.
NoteOK(n) ==
    /\ credits[n] = None => Vouchers("refund", n) = {}
    /\ credits[n] # None => Posted("refund", n) = (IF credits[n].refunded THEN credits[n].amount ELSE 0)

\* The endorsements of a policy are numbered 1 up to their count; it is reversed
\* once, by the last of them, and is cancelled then.
PolicyOK(p) ==
    /\ Vouchers("JRV", p) # {} => policy[p].status = "CANCELLED"
    /\ \A c, d \in Vouchers("JRV", p) : c = d
    /\ \A c \in Endorsements(p) : endorsements[c].number <= Cardinality(Endorsements(p))
    /\ \A c, d \in Endorsements(p) : endorsements[c].number = endorsements[d].number => c = d
    /\ \A c \in Vouchers("JRV", p) :
          c \in Endorsements(p) /\ endorsements[c].number = Cardinality(Endorsements(p))

RowsOK ==
    /\ \A n \in Calls : NoteOK(n)
    /\ \A p \in Policies : PolicyOK(p)
    /\ CommissionMatchesVouchers

ReadOK(l) ==
    /\ l.step = "refund" => ~ credits[l.of].refunded
    /\ l.step \in {"cancel", "endorse"} =>
           policy[l.policy].status = "ISSUED" /\ l.of = Cardinality(Endorsements(l.policy)) + 1
    /\ l.step = "commission" => l.base = received[l.policy] + l.amount

SerialInv ==
    /\ OneAtATime
    /\ \A c \in Calls : ReadOK(call[c])
    /\ RowsOK

\* A set of one element at most has no two.
LEMMA AtMostOne ==
    ASSUME NEW S, IsFiniteSet(S), Cardinality(S) <= 1
    PROVE  \A a, b \in S : a = b
<1> SUFFICES ASSUME NEW a \in S, NEW b \in S, a # b PROVE FALSE
  OBVIOUS
<1> DEFINE T == {a} \union {b}
<1>1. IsFiniteSet({a}) /\ Cardinality({a}) = 1 /\ b \notin {a}
  BY FS_Singleton
<1>2. Cardinality(T) = Cardinality({a}) + 1
  BY <1>1, FS_AddElement
<1>3. T \in SUBSET S
  OBVIOUS
<1> HIDE DEF T
<1>4. Cardinality(T) <= Cardinality(S) /\ Cardinality(S) \in Nat
  BY <1>3, FS_Subset, FS_CardinalityType
<1> QED BY <1>1, <1>2, <1>4

\* When a call writes, every other one rests.
LEMMA OthersRest ==
    ASSUME Inv, OneAtATime, NEW c \in Calls, NEW l, NEW step, Writes(c, l, step), step \notin {"idle", "done"}
    PROVE  \A d \in Calls : call'[d].step \in {"idle", "done"}
<1>1. /\ call'[c] = Over /\ Over.step = "done" /\ c \in InFlight
      /\ \A d \in Calls : d # c => call'[d] = call[d]
  BY DEF Inv, Writes, Finish, InFlight, Over, Local
<1> QED BY <1>1 DEF OneAtATime, InFlight

LEMMA RestingIsOK ==
    ASSUME NEW l, l.step \in {"idle", "done"}
    PROVE  ReadOK(l) /\ ReadOK(l)'
BY DEF ReadOK

\* A credit note of which nothing is paid back, and which was not there before or
\* has not changed.
LEMMA NoteStays ==
    ASSUME TypeOK, NEW n \in Calls, NoteOK(n), Vouchers("refund", n)' = Vouchers("refund", n),
           Posted("refund", n)' = Posted("refund", n),
           credits'[n] = credits[n] \/ (credits[n] = None /\ (credits'[n] # None => ~ credits'[n].refunded))
    PROVE  NoteOK(n)'
<1>1. Vouchers("refund", n) = {} => Posted("refund", n) = 0
  BY SumEmpty DEF Posted, SumFunction
<1>2. CASE credits'[n] = credits[n]
  BY <1>2 DEF NoteOK
<1>3. CASE credits[n] = None /\ (credits'[n] # None => ~ credits'[n].refunded)
  BY <1>1, <1>3 DEF NoteOK
<1> QED BY <1>2, <1>3

LEMMA PolicyStays ==
    ASSUME NEW p \in Policies, PolicyOK(p), Vouchers("JRV", p)' = Vouchers("JRV", p),
           Endorsements(p)' = Endorsements(p), policy'[p].status = policy[p].status,
           \A c \in Endorsements(p) : endorsements'[c] = endorsements[c]
    PROVE  PolicyOK(p)'
BY DEF PolicyOK

\* An endorsement is counted on its policy and on no other.
LEMMA EndorsementsGrow ==
    ASSUME TypeOK, NEW c \in Calls, endorsements[c] = None, NEW e \in EndorsementRow,
           endorsements' = [endorsements EXCEPT ![c] = e], NEW p
    PROVE  /\ \A d \in Endorsements(p) : d # c /\ endorsements'[d] = endorsements[d]
           /\ e.policy = p => /\ Endorsements(p)' = Endorsements(p) \union {c}
                              /\ Cardinality(Endorsements(p)') = Cardinality(Endorsements(p)) + 1
           /\ e.policy # p => Endorsements(p)' = Endorsements(p)
<1>1. e # None /\ endorsements'[c] = e /\ \A d \in Calls : d # c => endorsements'[d] = endorsements[d]
  BY RowsAreRows DEF TypeOK
<1>2. \A d \in Endorsements(p) : d # c /\ d \in Calls
  BY DEF Endorsements, Made
<1>3. IsFiniteSet(Endorsements(p))
  BY FS_Subset DEF Endorsements, Made
<1>4. CASE e.policy = p
  <2>1. Endorsements(p)' = Endorsements(p) \union {c}
    BY <1>1, <1>4 DEF Endorsements, Made
  <2>2. Cardinality(Endorsements(p) \union {c}) = Cardinality(Endorsements(p)) + 1
    BY <1>2, <1>3, FS_AddElement
  <2> QED BY <1>1, <1>2, <1>4, <2>1, <2>2
<1>5. CASE e.policy # p
  <2>1. Endorsements(p)' = Endorsements(p)
    BY <1>1, <1>5 DEF Endorsements, Made
  <2> QED BY <1>1, <1>2, <1>5, <2>1
<1> QED BY <1>4, <1>5

\* A policy that is not reversed is endorsed once more, perhaps to reverse it.
LEMMA PolicyGrows ==
    ASSUME TypeOK, NEW p \in Policies, PolicyOK(p), Vouchers("JRV", p) = {},
           NEW c \in Calls, endorsements[c] = None, NEW e \in EndorsementRow,
           endorsements' = [endorsements EXCEPT ![c] = e], e.policy = p,
           e.number = Cardinality(Endorsements(p)) + 1,
           \/ Vouchers("JRV", p)' = {}
           \/ Vouchers("JRV", p)' = {c} /\ policy'[p].status = "CANCELLED"
    PROVE  PolicyOK(p)'
<1> DEFINE E == Endorsements(p)
           k == Cardinality(E)
<1>1. /\ \A d \in E : d # c /\ endorsements'[d] = endorsements[d]
      /\ E' = E \union {c} /\ Cardinality(E') = k + 1
  BY EndorsementsGrow
<1>2. endorsements'[c].number = k + 1
  BY DEF TypeOK
<1>3. /\ \A d \in E : endorsements[d].number \in Nat /\ endorsements[d].number <= k
      /\ \A d, g \in E : endorsements[d].number = endorsements[g].number => d = g
  <2>1. ASSUME NEW d \in E PROVE endorsements[d].number \in Nat
    <3>1. endorsements[d] \in EndorsementRow
      BY DEF TypeOK, Endorsements, Made
    <3> QED BY <3>1 DEF EndorsementRow
  <2> QED BY <2>1 DEF PolicyOK
<1>4. k \in Nat
  <2>1. IsFiniteSet(E)
    BY FS_Subset DEF Endorsements, Made
  <2> QED BY <2>1, FS_CardinalityType
<1> HIDE DEF k
<1>5. /\ \A d \in E' : endorsements'[d].number <= k + 1
      /\ \A d, g \in E' : endorsements'[d].number = endorsements'[g].number => d = g
  BY <1>1, <1>2, <1>3, <1>4
<1>6. Cardinality(Endorsements(p))' = k + 1
  BY <1>1
<1>7. /\ Vouchers("JRV", p)' # {} => policy'[p].status = "CANCELLED"
      /\ \A a, b \in Vouchers("JRV", p)' : a = b
      /\ \A a \in Vouchers("JRV", p)' : a \in E' /\ endorsements'[a].number = k + 1
  BY <1>1, <1>2
<1> HIDE DEF E
<1> QED BY <1>5, <1>6, <1>7 DEF PolicyOK, E

\* Let in, dying, or a window closing: the rows stay as they are.
LEMMA RowsStay ==
    ASSUME Inv, RowsOK, UNCHANGED <<received, credits, endorsements, vouchers>>,
           \A p \in Policies : policy'[p].status = policy[p].status
    PROVE  RowsOK' /\ \A l : ReadOK(l) /\ (l.step \in {"cancel", "endorse", "commission"} => l.policy \in Policies)
                                 => ReadOK(l)'
<1>1. \A type, of : Vouchers(type, of)' = Vouchers(type, of) /\ Posted(type, of)' = Posted(type, of)
  BY DEF Posted, Vouchers, Made
<1>2. \A p : Endorsements(p)' = Endorsements(p)
  BY DEF Endorsements, Made
<1>3. \A n \in Calls : NoteOK(n)'
  BY <1>1 DEF RowsOK, NoteOK
<1>4. \A p \in Policies : PolicyOK(p)'
  BY <1>1, <1>2 DEF RowsOK, PolicyOK
<1>5. CommissionMatchesVouchers'
  BY <1>1 DEF RowsOK, CommissionMatchesVouchers
<1>6. ASSUME NEW l, ReadOK(l), l.step \in {"cancel", "endorse", "commission"} => l.policy \in Policies
      PROVE  ReadOK(l)'
  BY <1>2, <1>6 DEF ReadOK
<1> QED BY <1>3, <1>4, <1>5, <1>6 DEF RowsOK

\* What posting a voucher leaves as it was, and what it adds.
LEMMA PostsOnly ==
    ASSUME Inv, NEW c \in Calls, vouchers[c] = None, NEW v, NEW type, NEW of, NEW amount, NEW owes,
           Posts(c, v, type, of, amount, owes)
    PROVE  /\ \A t, o : t # type \/ o # of => Vouchers(t, o)' = Vouchers(t, o) /\ Posted(t, o)' = Posted(t, o)
           /\ Vouchers(type, of)' = Vouchers(type, of) \union {c}
           /\ Posted(type, of)' = Posted(type, of) + amount
           /\ amount \in Nat /\ Posted(type, of) \in Int
<1>1. TypeOK /\ v \in VoucherRow /\ vouchers' = [vouchers EXCEPT ![c] = v]
      /\ v.type = type /\ v.of = of /\ v.amount = amount
  BY DEF Inv, Posts
<1>2. ASSUME NEW t, NEW o, t # type \/ o # of
      PROVE  Vouchers(t, o)' = Vouchers(t, o) /\ Posted(t, o)' = Posted(t, o)
  BY <1>1, <1>2, PostedStays
<1>3. Vouchers(type, of)' = Vouchers(type, of) \union {c} /\ Posted(type, of)' = Posted(type, of) + v.amount
  <2>1. Vouchers(type, of)' = Vouchers(type, of) \union {c}
    <3>1. /\ vouchers'[c] = v /\ v # None
          /\ \A d \in Calls : d # c => vouchers'[d] = vouchers[d]
      BY <1>1, RowsAreRows DEF TypeOK
    <3> QED BY <1>1, <3>1 DEF Vouchers, Made
  <2>2. Posted(type, of)' = Posted(type, of) + v.amount
    BY <1>1, PostedGrows, Zenon
  <2> QED BY <2>1, <2>2
<1>4. v.amount \in Nat
  BY <1>1 DEF VoucherRow, VoucherRows
<1>5. Posted(type, of) \in Int
  BY <1>1, PostedType
<1> QED BY <1>1, <1>2, <1>3, <1>4, <1>5

LEMMA CancelIsSerial ==
    ASSUME Inv, SerialInv, NEW c \in Calls, NEW l, NEW v, NEW n, NEW e, CancelDoes(c, l, v, n, e)
    PROVE  RowsOK'
<1> DEFINE p == l.policy
<1>1. Writes(c, l, "cancel") /\ Posts(c, v, "JRV", p, l.amount, 0 - l.amount) /\ TypeOK
  BY DEF CancelDoes, Inv
<1>2. /\ l.step = "cancel" /\ ReadOK(l) /\ p \in Policies
      /\ vouchers[c] = None /\ credits[c] = None /\ endorsements[c] = None
  BY <1>1 DEF Writes, SerialInv, LocalOK
<1>3. policy[p].status = "ISSUED" /\ l.of = Cardinality(Endorsements(p)) + 1
  BY <1>2 DEF ReadOK
<1>4. /\ \A t, o : t # "JRV" \/ o # p => Vouchers(t, o)' = Vouchers(t, o) /\ Posted(t, o)' = Posted(t, o)
      /\ Vouchers("JRV", p)' = Vouchers("JRV", p) \union {c}
  BY <1>1, <1>2, PostsOnly
<1>5. ASSUME NEW m \in Calls PROVE NoteOK(m)'
  <2>1. Vouchers("refund", m)' = Vouchers("refund", m) /\ Posted("refund", m)' = Posted("refund", m)
    BY <1>4
  <2>2. credits'[m] = credits[m] \/ (credits[m] = None /\ (credits'[m] # None => ~ credits'[m].refunded))
    BY <1>1, <1>2 DEF TypeOK, CancelDoes
  <2>3. NoteOK(m)
    BY DEF SerialInv, RowsOK
  <2> QED BY <1>1, <2>1, <2>2, <2>3, NoteStays
<1>6. CommissionMatchesVouchers'
  BY <1>4 DEF SerialInv, RowsOK, CommissionMatchesVouchers, CancelDoes
<1>7. policy'[p].status = "CANCELLED" /\ \A o \in Policies : o # p => policy'[o] = policy[o]
  BY <1>1, <1>2 DEF TypeOK, CancelDoes
<1>8. e \in EndorsementRow /\ endorsements' = [endorsements EXCEPT ![c] = e] /\ e.policy = p /\ e.number = l.of
  BY DEF CancelDoes
<1>9. ASSUME NEW o \in Policies PROVE PolicyOK(o)'
  <2>0. PolicyOK(o)
    BY DEF SerialInv, RowsOK
  <2>1. CASE o = p
    <3>1. Vouchers("JRV", p) = {}
      BY <1>3, <2>0, <2>1 DEF PolicyOK
    <3>2. Vouchers("JRV", p)' = {c}
      BY <1>4, <3>1
    <3> HIDE DEF p
    <3> QED BY <1>1, <1>2, <1>3, <1>7, <1>8, <2>0, <2>1, <3>1, <3>2, PolicyGrows
  <2>2. CASE o # p
    <3>1. /\ Endorsements(o)' = Endorsements(o)
          /\ \A d \in Endorsements(o) : endorsements'[d] = endorsements[d]
      BY <1>1, <1>2, <1>8, <2>2, EndorsementsGrow
    <3>2. Vouchers("JRV", o)' = Vouchers("JRV", o)
      BY <1>4, <2>2
    <3> QED BY <1>7, <2>0, <2>2, <3>1, <3>2, PolicyStays
  <2> QED BY <2>1, <2>2
<1> QED BY <1>5, <1>6, <1>9 DEF RowsOK

LEMMA EndorsementIsSerial ==
    ASSUME Inv, SerialInv, NEW c \in Calls, NEW l, NEW n, NEW e, EndorseDoes(c, l, n, e)
    PROVE  RowsOK'
<1> DEFINE p == l.policy
<1>1. Writes(c, l, "endorse") /\ TypeOK /\ UNCHANGED <<policy, received, vouchers>>
  BY DEF EndorseDoes, Inv
<1>2. /\ l.step = "endorse" /\ ReadOK(l) /\ p \in Policies
      /\ credits[c] = None /\ endorsements[c] = None
  BY <1>1 DEF Writes, SerialInv, LocalOK
<1>3. policy[p].status = "ISSUED" /\ l.of = Cardinality(Endorsements(p)) + 1
  BY <1>2 DEF ReadOK
<1>4. \A t, o : Vouchers(t, o)' = Vouchers(t, o) /\ Posted(t, o)' = Posted(t, o)
  BY <1>1 DEF Posted, Vouchers, Made
<1>5. ASSUME NEW m \in Calls PROVE NoteOK(m)'
  <2>1. Vouchers("refund", m)' = Vouchers("refund", m) /\ Posted("refund", m)' = Posted("refund", m)
    BY <1>4
  <2>2. credits'[m] = credits[m] \/ (credits[m] = None /\ (credits'[m] # None => ~ credits'[m].refunded))
    BY <1>1, <1>2 DEF TypeOK, EndorseDoes
  <2>3. NoteOK(m)
    BY DEF SerialInv, RowsOK
  <2> QED BY <1>1, <2>1, <2>2, <2>3, NoteStays
<1>6. CommissionMatchesVouchers'
  BY <1>1, <1>4 DEF SerialInv, RowsOK, CommissionMatchesVouchers
<1>7. e \in EndorsementRow /\ endorsements' = [endorsements EXCEPT ![c] = e] /\ e.policy = p /\ e.number = l.of
  BY DEF EndorseDoes
<1>8. ASSUME NEW o \in Policies PROVE PolicyOK(o)'
  <2>0. PolicyOK(o)
    BY DEF SerialInv, RowsOK
  <2>1. CASE o = p
    <3>1. Vouchers("JRV", p) = {}
      BY <1>3, <2>0, <2>1 DEF PolicyOK
    <3>2. Vouchers("JRV", p)' = {}
      BY <1>4, <3>1
    <3> HIDE DEF p
    <3> QED BY <1>1, <1>2, <1>3, <1>7, <2>0, <2>1, <3>1, <3>2, PolicyGrows
  <2>2. CASE o # p
    <3>1. /\ Endorsements(o)' = Endorsements(o)
          /\ \A d \in Endorsements(o) : endorsements'[d] = endorsements[d]
      BY <1>1, <1>2, <1>7, <2>2, EndorsementsGrow
    <3>2. Vouchers("JRV", o)' = Vouchers("JRV", o) /\ policy'[o].status = policy[o].status
      BY <1>1, <1>4
    <3> QED BY <2>0, <3>1, <3>2, PolicyStays
  <2> QED BY <2>1, <2>2
<1> QED BY <1>5, <1>6, <1>8 DEF RowsOK

\* A step that posts no reversal and endorses nothing.
LEMMA PoliciesStay ==
    ASSUME SerialInv, UNCHANGED <<policy, endorsements>>,
           \A p \in Policies : Vouchers("JRV", p)' = Vouchers("JRV", p)
    PROVE  \A p \in Policies : PolicyOK(p)'
<1> SUFFICES ASSUME NEW p \in Policies PROVE PolicyOK(p)'
  OBVIOUS
<1>1. PolicyOK(p) /\ Endorsements(p)' = Endorsements(p)
  BY DEF SerialInv, RowsOK, Endorsements, Made
<1> QED BY <1>1, PolicyStays

LEMMA RefundIsSerial ==
    ASSUME Inv, SerialInv, NEW c \in Calls, NEW l, NEW v, NEW n, RefundDoes(c, l, v, n)
    PROVE  RowsOK'
<1> DEFINE k == l.of
<1>1. /\ Writes(c, l, "refund") /\ Posts(c, v, "refund", k, l.amount, l.amount) /\ TypeOK
      /\ UNCHANGED <<policy, received, endorsements>>
  BY DEF RefundDoes, Inv
<1>2. /\ l.step = "refund" /\ ReadOK(l) /\ k \in Calls /\ credits[k] # None
      /\ vouchers[c] = None /\ l.amount = credits[k].amount
  BY <1>1 DEF Writes, SerialInv, LocalOK
<1>3. /\ \A t, o : t # "refund" \/ o # k => Vouchers(t, o)' = Vouchers(t, o) /\ Posted(t, o)' = Posted(t, o)
      /\ Posted("refund", k)' = Posted("refund", k) + l.amount /\ l.amount \in Nat
  BY <1>1, <1>2, PostsOnly
<1>4. /\ credits'[k] = n /\ n # None /\ n.refunded /\ n.amount = l.amount
      /\ \A m \in Calls : m # k => credits'[m] = credits[m]
  BY <1>1, <1>2 DEF TypeOK, RefundDoes
<1>5. ASSUME NEW m \in Calls PROVE NoteOK(m)'
  <2>0. NoteOK(m)
    BY DEF SerialInv, RowsOK
  <2>1. CASE m = k
    <3>1. Posted("refund", k) = 0
      BY <1>2, <2>0, <2>1 DEF ReadOK, NoteOK
    <3>2. Posted("refund", k)' = l.amount
      BY <1>3, <3>1
    <3> QED BY <1>4, <2>1, <3>2 DEF NoteOK
  <2>2. CASE m # k
    <3>1. Vouchers("refund", m)' = Vouchers("refund", m) /\ Posted("refund", m)' = Posted("refund", m)
      BY <1>3, <2>2
    <3> QED BY <1>1, <1>4, <2>0, <2>2, <3>1, NoteStays
  <2> QED BY <2>1, <2>2
<1>6. CommissionMatchesVouchers'
  BY <1>1, <1>3 DEF SerialInv, RowsOK, CommissionMatchesVouchers
<1>7. \A p \in Policies : PolicyOK(p)'
  BY <1>1, <1>3, PoliciesStay
<1> QED BY <1>5, <1>6, <1>7 DEF RowsOK

LEMMA CommissionIsSerial ==
    ASSUME Inv, SerialInv, NEW c \in Calls, NEW l, NEW v, CommissionDoes(c, l, v)
    PROVE  RowsOK'
<1> DEFINE p == l.policy
<1>1. /\ Writes(c, l, "commission") /\ Posts(c, v, "RCV", p, l.amount, 0) /\ TypeOK
      /\ received' = [received EXCEPT ![p] = l.base]
      /\ UNCHANGED <<policy, credits, endorsements>>
  BY DEF CommissionDoes, Inv
<1>2. /\ l.step = "commission" /\ ReadOK(l) /\ p \in Policies /\ vouchers[c] = None
  BY <1>1 DEF Writes, SerialInv, LocalOK
<1>3. /\ \A t, o : t # "RCV" \/ o # p => Vouchers(t, o)' = Vouchers(t, o) /\ Posted(t, o)' = Posted(t, o)
      /\ Posted("RCV", p)' = Posted("RCV", p) + l.amount
  BY <1>1, <1>2, PostsOnly
<1>4. ASSUME NEW m \in Calls PROVE NoteOK(m)'
  <2>1. Vouchers("refund", m)' = Vouchers("refund", m) /\ Posted("refund", m)' = Posted("refund", m)
    BY <1>3
  <2>2. NoteOK(m)
    BY DEF SerialInv, RowsOK
  <2> QED BY <1>1, <2>1, <2>2, NoteStays
<1>5. ASSUME NEW o \in Policies PROVE received'[o] = Posted("RCV", o)'
  <2>1. received[o] = Posted("RCV", o)
    BY DEF SerialInv, RowsOK, CommissionMatchesVouchers
  <2>2. CASE o = p
    BY <1>1, <1>2, <1>3, <2>1, <2>2 DEF ReadOK, TypeOK
  <2>3. CASE o # p
    BY <1>1, <1>3, <2>1, <2>3 DEF TypeOK
  <2> QED BY <2>2, <2>3
<1>6. \A o \in Policies : PolicyOK(o)'
  BY <1>1, <1>3, PoliciesStay
<1> QED BY <1>4, <1>5, <1>6 DEF RowsOK, CommissionMatchesVouchers

LEMMA SettleIsSerial ==
    ASSUME Inv, SerialInv, NEW c \in Calls, NEW l, NEW v, SettleDoes(c, l, v)
    PROVE  RowsOK'
<1>1. /\ Writes(c, l, "settle") /\ Posts(c, v, "PYV", l.of, l.amount, 0) /\ TypeOK
      /\ UNCHANGED <<policy, received, credits, endorsements>>
  BY DEF SettleDoes, Inv
<1>2. vouchers[c] = None
  BY <1>1 DEF Writes
<1>3. \A t, o : t # "PYV" \/ o # l.of => Vouchers(t, o)' = Vouchers(t, o) /\ Posted(t, o)' = Posted(t, o)
  BY <1>1, <1>2, PostsOnly
<1>4. ASSUME NEW m \in Calls PROVE NoteOK(m)'
  <2>1. Vouchers("refund", m)' = Vouchers("refund", m) /\ Posted("refund", m)' = Posted("refund", m)
    BY <1>3
  <2>2. NoteOK(m)
    BY DEF SerialInv, RowsOK
  <2> QED BY <1>1, <2>1, <2>2, NoteStays
<1>5. CommissionMatchesVouchers'
  BY <1>1, <1>3 DEF SerialInv, RowsOK, CommissionMatchesVouchers
<1>6. \A o \in Policies : PolicyOK(o)'
  BY <1>1, <1>3, PoliciesStay
<1> QED BY <1>4, <1>5, <1>6 DEF RowsOK

LEMMA ContinueIsSerial ==
    ASSUME Inv, SerialInv, NEW c \in Calls, Continue(c)
    PROVE  RowsOK' /\ \A d \in Calls : ReadOK(call[d])'
<1>1. ASSUME NEW l, NEW step, Writes(c, l, step), step \notin {"idle", "done"}
      PROVE  \A d \in Calls : ReadOK(call[d])'
  <2>1. \A d \in Calls : call'[d].step \in {"idle", "done"}
    BY <1>1, OthersRest DEF SerialInv
  <2> QED BY <2>1 DEF ReadOK
<1>2. CASE CommitCancel(c)
  <2>1. PICK l, v, n, e : CancelDoes(c, l, v, n, e)
    BY <1>2, CommitCancelDoes
  <2> QED BY <1>1, <2>1, CancelIsSerial DEF CancelDoes
<1>3. CASE CommitRefund(c)
  <2>1. PICK l, v, n : RefundDoes(c, l, v, n)
    BY <1>3, CommitRefundDoes
  <2> QED BY <1>1, <2>1, RefundIsSerial DEF RefundDoes
<1>4. CASE CommitEndorsement(c)
  <2>1. PICK l, n, e : EndorseDoes(c, l, n, e)
    BY <1>4, CommitEndorsementDoes
  <2> QED BY <1>1, <2>1, EndorsementIsSerial DEF EndorseDoes
<1>5. CASE CommitCommission(c)
  <2>1. PICK l, v : CommissionDoes(c, l, v)
    BY <1>5, CommitCommissionDoes
  <2> QED BY <1>1, <2>1, CommissionIsSerial DEF CommissionDoes
<1>6. CASE CommitSettle(c)
  <2>1. PICK l, v : SettleDoes(c, l, v)
    BY <1>6, CommitSettleDoes
  <2> QED BY <1>1, <2>1, SettleIsSerial DEF SettleDoes
<1> QED BY <1>2, <1>3, <1>4, <1>5, <1>6 DEF Continue

\* A call that is let in has just read what it is to count on.
LEMMA StartReads ==
    ASSUME Inv, NEW c \in Calls, Start(c)
    PROVE  \E l : Begin(c, l) /\ ReadOK(l)
<1>1. \A step, p, of, amount, base :
          /\ Local(step, p, of, amount, base).step = step /\ Local(step, p, of, amount, base).policy = p
          /\ Local(step, p, of, amount, base).of = of /\ Local(step, p, of, amount, base).amount = amount
          /\ Local(step, p, of, amount, base).base = base
  BY DEF Local
<1>2. ASSUME NEW p \in Policies, NEW halves \in 0..2, CancelPolicy(c, p, halves)
      PROVE  \E l : Begin(c, l) /\ ReadOK(l)
  <2> DEFINE k == IF policy[p].freeLook THEN 2 ELSE halves
             l == Local("cancel", p, NextEndorsement(p), Part(Terms[p].total, k), Part(Terms[p].kept, k))
  <2>1. Begin(c, l) /\ policy[p].status = "ISSUED"
    BY <1>2 DEF CancelPolicy
  <2>2. l.step = "cancel" /\ l.policy = p /\ l.of = NextEndorsement(p)
    BY <1>1
  <2> HIDE DEF l
  <2> QED BY <2>1, <2>2 DEF ReadOK, NextEndorsement
<1>3. ASSUME NEW n \in Calls, RefundCreditNote(c, n) PROVE \E l : Begin(c, l) /\ ReadOK(l)
  <2> DEFINE l == Local("refund", credits[n].policy, n, credits[n].amount, 0)
  <2>1. Begin(c, l) /\ ~ credits[n].refunded
    BY <1>3 DEF RefundCreditNote
  <2>2. l.step = "refund" /\ l.of = n
    BY <1>1
  <2> HIDE DEF l
  <2> QED BY <2>1, <2>2 DEF ReadOK
<1>4. ASSUME NEW p \in Policies, NEW delta \in Deltas, AddEndorsement(c, p, delta)
      PROVE  \E l : Begin(c, l) /\ ReadOK(l)
  <2> DEFINE l == Local("endorse", p, NextEndorsement(p), delta, 0)
  <2>1. Begin(c, l) /\ policy[p].status = "ISSUED"
    BY <1>4 DEF AddEndorsement
  <2>2. l.step = "endorse" /\ l.policy = p /\ l.of = NextEndorsement(p)
    BY <1>1
  <2> HIDE DEF l
  <2> QED BY <2>1, <2>2 DEF ReadOK, NextEndorsement
<1>5. ASSUME NEW p \in Policies, NEW a \in Amounts, CommissionReceipt(c, p, a)
      PROVE  \E l : Begin(c, l) /\ ReadOK(l)
  <2> DEFINE l == Local("commission", p, None, a, received[p] + a)
  <2>1. Begin(c, l)
    BY <1>5 DEF CommissionReceipt
  <2>2. l.step = "commission" /\ l.policy = p /\ l.amount = a /\ l.base = received[p] + a
    BY <1>1
  <2> HIDE DEF l
  <2> QED BY <2>1, <2>2 DEF ReadOK
<1>6. ASSUME NEW payee \in Payees, NEW a \in Amounts, Settle(c, payee, a)
      PROVE  \E l : Begin(c, l) /\ ReadOK(l)
  <2> DEFINE l == Local("settle", None, payee, a, 0)
  <2>1. Begin(c, l) /\ l.step = "settle"
    BY <1>6 DEF Settle, Local
  <2> HIDE DEF l
  <2> QED BY <2>1 DEF ReadOK
<1> QED BY <1>2, <1>3, <1>4, <1>5, <1>6 DEF Start

LEMMA QuietIsSerial ==
    ASSUME Inv, SerialInv, NEW c \in Calls, Start(c) \/ Crash(c)
    PROVE  RowsOK' /\ \A d \in Calls : ReadOK(call[d])'
<1>1. PICK l : call' = [call EXCEPT ![c] = l] /\ ReadOK(l) /\ UNCHANGED rows
  <2>1. CASE Start(c)
    BY <2>1, StartReads DEF Begin
  <2>2. CASE Crash(c)
    BY <2>2 DEF Crash, ReadOK, Over, Local
  <2> QED BY <2>1, <2>2
<1>2. UNCHANGED <<policy, received, credits, endorsements, vouchers>>
  BY <1>1 DEF rows
<1>3. RowsOK'
  BY <1>2, RowsStay DEF SerialInv
<1>4. \A k : ReadOK(k) => ReadOK(k)'
  BY <1>2 DEF ReadOK, Endorsements, Made
<1>5. ASSUME NEW d \in Calls PROVE ReadOK(call[d])'
  <2>1. CASE d = c
    <3>1. ReadOK(l)' /\ call'[d] = l
      BY <1>1, <1>4, <2>1 DEF Inv
    <3> QED BY <3>1
  <2>2. CASE d # c
    <3>1. PICK k : k = call[d] /\ k = call'[d]
      BY <1>1, <2>2 DEF Inv
    <3>2. ReadOK(k)'
      BY <1>4, <3>1 DEF SerialInv
    <3> QED BY <3>1, <3>2
  <2> QED BY <2>1, <2>2
<1> QED BY <1>3, <1>5

LEMMA NextIsSerial ==
    ASSUME Inv, SerialInv, [Next]_vars, OneAtATime'
    PROVE  SerialInv'
<1>1. ASSUME NEW p \in Policies, FreeLookEnds(p) PROVE RowsOK' /\ \A d \in Calls : ReadOK(call[d])'
  <2>1. /\ UNCHANGED <<received, credits, endorsements, vouchers, call>>
        /\ policy' = [policy EXCEPT ![p].freeLook = FALSE]
    BY <1>1 DEF FreeLookEnds
  <2>2. \A o \in Policies : policy'[o].status = policy[o].status
    BY <2>1 DEF Inv, TypeOK
  <2>3. /\ RowsOK'
        /\ \A l : ReadOK(l) /\ (l.step \in {"cancel", "endorse", "commission"} => l.policy \in Policies) => ReadOK(l)'
    BY <2>1, <2>2, RowsStay DEF SerialInv
  <2>4. ASSUME NEW d \in Calls PROVE ReadOK(call[d])'
    <3>1. PICK l : l = call[d] /\ l = call'[d]
      BY <2>1
    <3>2. ReadOK(l) /\ (l.step \in {"cancel", "endorse", "commission"} => l.policy \in Policies)
      BY <3>1 DEF Inv, LocalOK, SerialInv
    <3>3. ReadOK(l)'
      BY <2>3, <3>2
    <3> QED BY <3>1, <3>3
  <2> QED BY <2>3, <2>4
<1>2. ASSUME UNCHANGED vars PROVE RowsOK' /\ \A d \in Calls : ReadOK(call[d])'
  <2>1. UNCHANGED <<policy, received, credits, endorsements, vouchers, call>>
    BY <1>2 DEF vars, rows
  <2>2. RowsOK'
    BY <2>1, RowsStay DEF SerialInv
  <2>3. \A d \in Calls : ReadOK(call[d])'
    BY <2>1 DEF SerialInv, ReadOK, Endorsements, Made
  <2> QED BY <2>2, <2>3
<1>3. ASSUME NEW c \in Calls, Start(c) \/ Continue(c) \/ Crash(c)
      PROVE  RowsOK' /\ \A d \in Calls : ReadOK(call[d])'
  BY <1>3, QuietIsSerial, ContinueIsSerial
<1>4. RowsOK' /\ \A d \in Calls : ReadOK(call[d])'
  BY <1>1, <1>2, <1>3 DEF Next
<1> QED BY <1>4 DEF SerialInv

\* The bound of the instances lets in one call at a time.
LEMMA WithinIsSerial == Serial /\ Within => OneAtATime
<1> SUFFICES ASSUME Serial, Within PROVE OneAtATime
  OBVIOUS
<1>1. IsFiniteSet(InFlight) /\ Cardinality(InFlight) <= 1
  BY FS_Subset DEF Serial, Within, InFlight
<1> HIDE DEF InFlight
<1> QED BY <1>1, AtMostOne DEF OneAtATime

LEMMA MCImplies == MCSpec => Spec
<1>1. MCInit => Init
  BY DEF MCInit
<1>2. [MCNext]_<<vars, load>> => [Next]_vars
  BY DEF MCNext
<1> QED BY <1>1, <1>2, PTL DEF MCSpec, Spec

\* Under any load that serves one call at a time, whatever the numbers of calls
\* and policies: what a call has read holds when it writes.
THEOREM SerialCallsSafe == MCSpec => [](Serial => SerialInv)
<1>1. MCInit => (Serial => SerialInv)
  <2> SUFFICES ASSUME Init PROVE SerialInv
    BY DEF MCInit
  <2>1. \A c \in Calls : call[c].step = "idle" /\ vouchers[c] = None /\ credits[c] = None /\ endorsements[c] = None
    BY DEF Init, Idle, Local
  <2>2. InFlight = {} /\ \A type, of : Vouchers(type, of) = {} /\ Posted(type, of) = 0
    BY <2>1, SumEmpty DEF InFlight, Vouchers, Made, Posted, SumFunction
  <2>3. \A p : Endorsements(p) = {}
    BY <2>1 DEF Endorsements, Made
  <2>4. \A n \in Calls : NoteOK(n) /\ ReadOK(call[n])
    BY <2>1, <2>2 DEF NoteOK, ReadOK
  <2>5. \A p \in Policies : PolicyOK(p)
    BY <2>2, <2>3 DEF PolicyOK
  <2>6. CommissionMatchesVouchers
    BY <2>2 DEF Init, CommissionMatchesVouchers
  <2> QED BY <2>2, <2>4, <2>5, <2>6 DEF SerialInv, OneAtATime, RowsOK
<1>2. Inv /\ (Serial => SerialInv) /\ [MCNext]_<<vars, load>> => (Serial => SerialInv)'
  <2> SUFFICES ASSUME Inv, Serial => SerialInv, [MCNext]_<<vars, load>>, Serial' PROVE SerialInv'
    OBVIOUS
  <2>1. [Next]_vars /\ SerialInv
    BY DEF MCNext, Serial
  <2>2. OneAtATime'
    <3>1. CASE MCNext
      <4>1. Within'
        BY <3>1 DEF MCNext
      <4> QED BY <4>1, WithinIsSerial, PTL
    <3>2. CASE UNCHANGED <<vars, load>>
      BY <2>1, <3>2 DEF vars, SerialInv, OneAtATime, InFlight
    <3> QED BY <3>1, <3>2
  <2> QED BY <2>1, <2>2, NextIsSerial
<1> QED BY <1>1, <1>2, MCImplies, LedgerSafe, PTL DEF MCSpec

\* A credit note is refunded once, a policy is reversed once and by its last
\* endorsement, and a commission shows what its receipts add up to.
THEOREM SerialRowsAlwaysMatch == MCSpec => []SerialRowsMatchVouchers
<1>1. Inv /\ (Serial => SerialInv) => SerialRowsMatchVouchers
  <2> SUFFICES ASSUME Inv, SerialInv
               PROVE  RefundedOnce /\ CancellationIsLast /\ CommissionMatchesVouchers
    BY DEF SerialRowsMatchVouchers
  <2>1. RefundedOnce
    <3> SUFFICES ASSUME NEW n \in Calls, credits[n] # None PROVE Posted("refund", n) <= credits[n].amount
      BY DEF RefundedOnce
    <3>1. credits[n].amount \in Nat
      BY DEF Inv, TypeOK, CreditRow
    <3> QED BY <3>1 DEF SerialInv, RowsOK, NoteOK
  <2>2. CancellationIsLast
    <3> SUFFICES ASSUME NEW p \in Policies
                 PROVE  /\ Cardinality(Vouchers("JRV", p)) <= 1
                        /\ \A c, d \in Endorsements(p) : endorsements[c].number = endorsements[d].number => c = d
                        /\ \A c \in Endorsements(p), d \in Vouchers("JRV", p) :
                              endorsements[c].number <= endorsements[d].number
      BY DEF CancellationIsLast
    <3>1. PolicyOK(p)
      BY DEF SerialInv, RowsOK
    <3>2. Cardinality(Vouchers("JRV", p)) <= 1
      <4>1. CASE Vouchers("JRV", p) = {}
        <5>1. Cardinality(Vouchers("JRV", p)) = 0
          BY <4>1, FS_EmptySet
        <5> QED BY <5>1
      <4>2. CASE Vouchers("JRV", p) # {}
        <5>1. PICK c : Vouchers("JRV", p) = {c}
          BY <3>1, <4>2 DEF PolicyOK
        <5>2. Cardinality(Vouchers("JRV", p)) = 1
          BY <5>1, FS_Singleton
        <5> QED BY <5>2
      <4> QED BY <4>1, <4>2
    <3> QED BY <3>1, <3>2 DEF PolicyOK
  <2> QED BY <2>1, <2>2 DEF SerialInv, RowsOK
<1> QED BY <1>1, SerialCallsSafe, MCImplies, LedgerSafe, PTL

-----------------------------------------------------------------------------
(* What payees are paid, one call at a time                                 *)

SharesOf(payee) == SumFunction([p \in EarnedFrom(payee) |-> Share(payee, p)])

SettleOK(l) == l.step = "settle" => l.amount + Paid(l.of) <= SharesOf(l.of)

SharesInv ==
    /\ PaidWithinShares
    /\ \A c \in Calls : SettleOK(call[c])

\* No insurer owes the broker more commission than the premium it is part of.
KeptWithinTotal == \A p \in Policies : Terms[p].kept <= Terms[p].total

LEMMA ShareType ==
    ASSUME KeptWithinTotal, NEW payee, NEW p \in Policies
    PROVE  Share(payee, p) \in Nat
<1>1. /\ Terms[p].total \in Nat /\ Terms[p].kept \in Nat /\ Terms[p].kept <= Terms[p].total
      /\ Terms[p].producer \in Nat /\ Terms[p].sales \in Nat
  BY DEF KeptWithinTotal
<1>2. Terms[p].total - Terms[p].kept \in Nat
  BY <1>1
<1>3. CASE payee = "insurer"
  BY <1>2, <1>3 DEF Share
<1>4. CASE payee = "producer"
  BY <1>1, <1>4 DEF Share
<1>5. CASE payee # "insurer" /\ payee # "producer"
  BY <1>1, <1>5 DEF Share
<1> QED BY <1>3, <1>4, <1>5

\* The shares of more policies are not less.
LEMMA SharesGrow ==
    ASSUME KeptWithinTotal, NEW payee, NEW Q \in SUBSET Policies, NEW R \in SUBSET Q
    PROVE  /\ SumFunction([p \in R |-> Share(payee, p)]) \in Int
           /\ SumFunction([p \in Q |-> Share(payee, p)]) \in Int
           /\ SumFunction([p \in R |-> Share(payee, p)]) <= SumFunction([p \in Q |-> Share(payee, p)])
<1> DEFINE f == [p \in R |-> Share(payee, p)]
           g == [p \in Q |-> Share(payee, p)]
<1>1. IsFiniteSet(Q) /\ DOMAIN f = R /\ DOMAIN g = Q
  BY FS_Subset
<1>2. (\A p \in Q : g[p] \in Nat) /\ (\A p \in R : f[p] = g[p])
  BY ShareType
<1> HIDE DEF f, g
<1>3. SumFunction(f) \in Int /\ SumFunction(g) \in Int /\ SumFunction(f) <= SumFunction(g)
  BY <1>1, <1>2, SumOfPart
<1> QED BY <1>3 DEF f, g

\* What counts for a payee now has been earned.
LEMMA EarnedIsShares ==
    ASSUME Inv, SerialInv, KeptWithinTotal, NEW payee
    PROVE  Earned(payee) <= SharesOf(payee) /\ Earned(payee) \in Int /\ SharesOf(payee) \in Int
<1>1. ASSUME NEW p \in Policies, collected[p] PROVE Posted("RCV", p) = Terms[p].kept
  BY <1>1 DEF Inv, CommissionWithinExpected, SerialInv, RowsOK, CommissionMatchesVouchers
<1>2. Earning(payee) \in SUBSET EarnedFrom(payee) /\ EarnedFrom(payee) \in SUBSET Policies
  BY <1>1 DEF Earning, EarnedFrom, CountsFor
<1> QED BY <1>2, SharesGrow DEF Earned, SharesOf

\* No step takes a voucher away.
LEMMA StepPosts ==
    ASSUME Inv, [Next]_vars
    PROVE  \/ vouchers' = vouchers
           \/ \E c \in Calls : \E l, step, v, type, of, amount, owes :
                 /\ Writes(c, l, step) /\ Posts(c, v, type, of, amount, owes)
                 /\ step \notin {"idle", "done"}
                 /\ type = "PYV" => step = "settle" /\ of = l.of /\ amount = l.amount
<1>1. ASSUME NEW c \in Calls, Start(c) \/ Crash(c) PROVE vouchers' = vouchers
  BY <1>1 DEF Start, Crash, CancelPolicy, RefundCreditNote, AddEndorsement, CommissionReceipt, Settle, Begin, rows
<1>2. ASSUME NEW p \in Policies, FreeLookEnds(p) PROVE vouchers' = vouchers
  BY <1>2 DEF FreeLookEnds
<1>3. ASSUME NEW c \in Calls, Continue(c)
      PROVE  \/ vouchers' = vouchers
             \/ \E l, step, v, type, of, amount, owes :
                   /\ Writes(c, l, step) /\ Posts(c, v, type, of, amount, owes)
                   /\ step \notin {"idle", "done"}
                   /\ type = "PYV" => step = "settle" /\ of = l.of /\ amount = l.amount
  <2>1. CASE CommitCancel(c)
    <3>1. PICK l, v, n, e : CancelDoes(c, l, v, n, e)
      BY <2>1, CommitCancelDoes
    <3>2. Writes(c, l, "cancel") /\ Posts(c, v, "JRV", l.policy, l.amount, 0 - l.amount)
      BY <3>1 DEF CancelDoes
    <3> QED BY <3>2
  <2>2. CASE CommitRefund(c)
    <3>1. PICK l, v, n : RefundDoes(c, l, v, n)
      BY <2>2, CommitRefundDoes
    <3>2. Writes(c, l, "refund") /\ Posts(c, v, "refund", l.of, l.amount, l.amount)
      BY <3>1 DEF RefundDoes
    <3> QED BY <3>2
  <2>3. CASE CommitEndorsement(c)
    BY <2>3 DEF CommitEndorsement
  <2>4. CASE CommitCommission(c)
    <3>1. PICK l, v : CommissionDoes(c, l, v)
      BY <2>4, CommitCommissionDoes
    <3>2. Writes(c, l, "commission") /\ Posts(c, v, "RCV", l.policy, l.amount, 0)
      BY <3>1 DEF CommissionDoes
    <3> QED BY <3>2
  <2>5. CASE CommitSettle(c)
    <3>1. PICK l, v : SettleDoes(c, l, v)
      BY <2>5, CommitSettleDoes
    <3>2. Writes(c, l, "settle") /\ Posts(c, v, "PYV", l.of, l.amount, 0)
      BY <3>1 DEF SettleDoes
    <3> QED BY <3>2
  <2> QED BY <1>3, <2>1, <2>2, <2>3, <2>4, <2>5 DEF Continue
<1>4. CASE UNCHANGED vars
  BY <1>4 DEF vars, rows
<1> QED BY <1>1, <1>2, <1>3, <1>4 DEF Next

\* What has been earned stays earned: a commission that is in stays in, as the
\* row shows all receipts and never more than the commission.
LEMMA SharesStay ==
    ASSUME Inv, SerialInv, Inv', SerialInv', [Next]_vars, KeptWithinTotal, NEW payee
    PROVE  /\ SharesOf(payee) <= SharesOf(payee)'
           /\ SharesOf(payee) \in Int /\ SharesOf(payee)' \in Int
<1>1. ASSUME NEW p \in Policies, Posted("RCV", p) = Terms[p].kept PROVE Posted("RCV", p)' = Terms[p].kept
  <2>1. Posted("RCV", p)' = received'[p] /\ received'[p] <= Terms[p].kept /\ received'[p] \in Nat
    BY DEF SerialInv, RowsOK, CommissionMatchesVouchers, Inv, CommissionWithinExpected, TypeOK
  <2>2. Posted("RCV", p) <= Posted("RCV", p)'
    <3>0. Posted("RCV", p) \in Int
      BY PostedType DEF Inv
    <3>1. CASE vouchers' = vouchers
      <4>1. Posted("RCV", p)' = Posted("RCV", p)
        BY <3>1 DEF Posted, Vouchers, Made
      <4> QED BY <3>0, <4>1
    <3>2. CASE vouchers' # vouchers
      <4>1. PICK c, l, step, v, type, of, amount, owes :
                c \in Calls /\ Writes(c, l, step) /\ Posts(c, v, type, of, amount, owes)
        BY <3>2, StepPosts
      <4>2. vouchers[c] = None
        BY <4>1 DEF Writes
      <4>3. CASE type = "RCV" /\ of = p
        <5>1. Posted("RCV", p)' = Posted("RCV", p) + amount /\ amount \in Nat
          BY <4>1, <4>2, <4>3, PostsOnly
        <5> QED BY <3>0, <5>1
      <4>4. CASE type # "RCV" \/ of # p
        <5>1. Posted("RCV", p)' = Posted("RCV", p)
          BY <4>1, <4>2, <4>4, PostsOnly
        <5> QED BY <3>0, <5>1
      <4> QED BY <4>3, <4>4
    <3> QED BY <3>1, <3>2
  <2> QED BY <1>1, <2>1, <2>2
<1>2. /\ EarnedFrom(payee) \in SUBSET EarnedFrom(payee)'
      /\ EarnedFrom(payee)' \in SUBSET Policies
  BY <1>1 DEF EarnedFrom
<1> DEFINE R == EarnedFrom(payee)
           Q == EarnedFrom(payee)'
<1>3. /\ SharesOf(payee) = SumFunction([p \in R |-> Share(payee, p)])
      /\ SharesOf(payee)' = SumFunction([p \in Q |-> Share(payee, p)])
  BY DEF SharesOf, Share
<1> HIDE DEF R, Q
<1>4. /\ SumFunction([p \in R |-> Share(payee, p)]) \in Int
      /\ SumFunction([p \in Q |-> Share(payee, p)]) \in Int
      /\ SumFunction([p \in R |-> Share(payee, p)]) <= SumFunction([p \in Q |-> Share(payee, p)])
  BY <1>2, SharesGrow DEF R, Q
<1> QED BY <1>3, <1>4

\* A step leaves a call as it was, lets it in, or ends it.
LEMMA OneCallMoves ==
    ASSUME Inv, [Next]_vars, NEW d \in Calls
    PROVE  \/ call'[d] = call[d]
           \/ call'[d].step # "settle"
           \/ \E payee \in Payees, a \in Amounts : Settle(d, payee, a)
<1>0. \A step, p, of, amount, base : Local(step, p, of, amount, base).step = step
  BY DEF Local
<1>1. ASSUME NEW c \in Calls, NEW l, call' = [call EXCEPT ![c] = l], l.step # "settle"
      PROVE  call'[d] = call[d] \/ call'[d].step # "settle"
  BY <1>1 DEF Inv
<1>2. ASSUME NEW c \in Calls, Continue(c) \/ Crash(c) PROVE call'[d] = call[d] \/ call'[d].step # "settle"
  <2>1. call' = [call EXCEPT ![c] = Over] /\ Over.step # "settle"
    BY <1>2 DEF Continue, Crash, CommitCancel, CommitRefund, CommitEndorsement, CommitCommission,
       CommitSettle, Finish, Over, Local
  <2> QED BY <1>1, <2>1
<1>3. ASSUME NEW c \in Calls, Start(c)
      PROVE  \/ call'[d] = call[d] \/ call'[d].step # "settle"
             \/ \E payee \in Payees, a \in Amounts : Settle(d, payee, a)
  <2>1. CASE \E payee \in Payees, a \in Amounts : Settle(c, payee, a)
    <3>1. CASE d = c
      BY <2>1, <3>1
    <3>2. CASE d # c
      BY <2>1, <3>2 DEF Settle, Begin, Inv
    <3> QED BY <3>1, <3>2
  <2>2. CASE \E l : call' = [call EXCEPT ![c] = l] /\ l.step # "settle"
    BY <1>1, <2>2
  <2>3. ASSUME NEW l, Begin(c, l), l.step # "settle"
        PROVE  \E k : call' = [call EXCEPT ![c] = k] /\ k.step # "settle"
    BY <2>3 DEF Begin
  <2>4. ASSUME NEW p \in Policies, NEW halves \in 0..2, CancelPolicy(c, p, halves)
        PROVE  \E k : call' = [call EXCEPT ![c] = k] /\ k.step # "settle"
    BY <1>0, <2>3, <2>4 DEF CancelPolicy
  <2>5. ASSUME NEW n \in Calls, RefundCreditNote(c, n)
        PROVE  \E k : call' = [call EXCEPT ![c] = k] /\ k.step # "settle"
    BY <1>0, <2>3, <2>5 DEF RefundCreditNote
  <2>6. ASSUME NEW p \in Policies, NEW delta \in Deltas, AddEndorsement(c, p, delta)
        PROVE  \E k : call' = [call EXCEPT ![c] = k] /\ k.step # "settle"
    BY <1>0, <2>3, <2>6 DEF AddEndorsement
  <2>7. ASSUME NEW p \in Policies, NEW a \in Amounts, CommissionReceipt(c, p, a)
        PROVE  \E k : call' = [call EXCEPT ![c] = k] /\ k.step # "settle"
    BY <1>0, <2>3, <2>7 DEF CommissionReceipt
  <2> QED BY <1>3, <2>1, <2>2, <2>4, <2>5, <2>6, <2>7 DEF Start
<1>4. ASSUME NEW p \in Policies, FreeLookEnds(p) PROVE call'[d] = call[d]
  BY <1>4 DEF FreeLookEnds
<1>5. CASE UNCHANGED vars
  BY <1>5 DEF vars
<1> QED BY <1>2, <1>3, <1>4, <1>5 DEF Next

LEMMA NextKeepsShares ==
    ASSUME Inv, SerialInv, SharesInv, Inv', SerialInv', [Next]_vars, KeptWithinTotal
    PROVE  SharesInv'
<1>1. \A payee \in Payees : /\ Paid(payee) \in Int /\ Paid(payee) <= SharesOf(payee)
                            /\ SharesOf(payee) <= SharesOf(payee)'
                            /\ SharesOf(payee) \in Int /\ SharesOf(payee)' \in Int
  BY SharesStay, PostedType DEF SharesInv, PaidWithinShares, SharesOf, Paid, Inv
<1>2. CASE vouchers' = vouchers
  <2>1. \A payee : Paid(payee)' = Paid(payee)
    BY <1>2 DEF Paid, Posted, Vouchers, Made
  <2>2. PaidWithinShares'
    <3>1. \A payee \in Payees : Paid(payee)' <= SharesOf(payee)'
      BY <1>1, <2>1
    <3> QED BY <3>1 DEF PaidWithinShares, SharesOf
  <2>3. \A l : SettleOK(l) /\ (l.step = "settle" => l.of \in Payees /\ l.amount \in Nat) => SettleOK(l)'
    <3> SUFFICES ASSUME NEW l, l.amount + Paid(l.of) <= SharesOf(l.of), l.of \in Payees, l.amount \in Nat
                 PROVE  l.amount + Paid(l.of)' <= SharesOf(l.of)'
      BY DEF SettleOK
    <3> QED BY <1>1, <2>1
  <2>4. ASSUME NEW d \in Calls PROVE SettleOK(call[d])'
    <3>1. SettleOK(call[d]) /\ (call[d].step = "settle" => call[d].of \in Payees /\ call[d].amount \in Nat)
      BY DEF SharesInv, Inv, LocalOK
    <3>2. CASE call'[d] = call[d]
      <4>1. PICK l : l = call[d] /\ l = call'[d]
        BY <3>2
      <4>2. SettleOK(l)'
        BY <2>3, <3>1, <4>1
      <4> QED BY <4>1, <4>2
    <3>3. CASE call'[d].step # "settle"
      BY <3>3 DEF SettleOK
    <3>4. CASE \E payee \in Payees, a \in Amounts : Settle(d, payee, a)
      <4>1. PICK payee \in Payees, a \in Amounts : Settle(d, payee, a)
        BY <3>4
      <4> DEFINE l == Local("settle", None, payee, a, 0)
      <4>2. a <= Earned(payee) - Paid(payee) /\ a \in Nat /\ Begin(d, l)
        BY <4>1 DEF Settle, MayPay
      <4>3. call'[d] = l /\ l.step = "settle" /\ l.of = payee /\ l.amount = a
        BY <4>2 DEF Begin, Local, Inv
      <4> HIDE DEF l
      <4>4. SettleOK(l)
        BY <1>1, <4>2, <4>3, EarnedIsShares DEF SettleOK
      <4>5. SettleOK(l)'
        BY <2>3, <4>2, <4>3, <4>4
      <4> QED BY <4>3, <4>5
    <3> QED BY <3>2, <3>3, <3>4, OneCallMoves
  <2> QED BY <2>2, <2>4 DEF SharesInv
<1>3. CASE vouchers' # vouchers
  <2>1. PICK c, l, step, v, type, of, amount, owes :
            /\ c \in Calls /\ Writes(c, l, step) /\ Posts(c, v, type, of, amount, owes)
            /\ step \notin {"idle", "done"}
            /\ type = "PYV" => step = "settle" /\ of = l.of /\ amount = l.amount
    BY <1>3, StepPosts
  <2>2. \A d \in Calls : call'[d].step \in {"idle", "done"}
    BY <2>1, OthersRest DEF SerialInv
  <2>3. vouchers[c] = None /\ l = call[c] /\ l.step = step
    BY <2>1 DEF Writes
  <2>4. ASSUME NEW payee \in Payees PROVE Paid(payee)' <= SharesOf(payee)'
    <3>1. CASE type = "PYV" /\ of = payee
      <4>1. Paid(payee)' = Paid(payee) + amount /\ amount \in Nat
        BY <2>1, <2>3, <3>1, PostsOnly DEF Paid
      <4>2. amount + Paid(payee) <= SharesOf(payee)
        BY <2>1, <2>3, <3>1 DEF SharesInv, SettleOK
      <4> QED BY <1>1, <4>1, <4>2
    <3>2. CASE type # "PYV" \/ of # payee
      <4>1. Paid(payee)' = Paid(payee)
        BY <2>1, <2>3, <3>2, PostsOnly DEF Paid
      <4> QED BY <1>1, <4>1
    <3> QED BY <3>1, <3>2
  <2>5. PaidWithinShares'
    BY <2>4 DEF PaidWithinShares, SharesOf
  <2> QED BY <2>2, <2>5 DEF SharesInv, SettleOK
<1> QED BY <1>2, <1>3

\* No payee is paid more than its share of what was issued and earned, whatever is
\* cancelled in between, where no commission is above its premium.
THEOREM SerialAlwaysPaidWithinShares ==
    ASSUME KeptWithinTotal PROVE MCSpec => []SerialPaidWithinShares
<1>1. MCInit => (Serial => SharesInv)
  <2> SUFFICES ASSUME Init PROVE SharesInv
    BY DEF MCInit
  <2>1. \A c \in Calls : call[c].step = "idle" /\ vouchers[c] = None
    BY DEF Init, Idle, Local
  <2>2. \A payee : Paid(payee) = 0
    BY <2>1, SumEmpty DEF Paid, Posted, Vouchers, Made, SumFunction
  <2>3. ASSUME NEW payee PROVE 0 <= SharesOf(payee)
    <3>1. {} \in SUBSET EarnedFrom(payee) /\ EarnedFrom(payee) \in SUBSET Policies
      BY DEF EarnedFrom
    <3>2. SumFunction([p \in {} |-> Share(payee, p)]) <= SharesOf(payee)
      BY <3>1, SharesGrow DEF SharesOf
    <3>3. SumFunction([p \in {} |-> Share(payee, p)]) = 0
      BY SumEmpty DEF SumFunction
    <3> QED BY <3>2, <3>3
  <2>4. \A payee \in Payees : Paid(payee) <= SharesOf(payee)
    BY <2>2, <2>3
  <2>5. PaidWithinShares
    BY <2>4 DEF PaidWithinShares, SharesOf
  <2>6. \A c \in Calls : SettleOK(call[c])
    BY <2>1 DEF SettleOK
  <2> QED BY <2>5, <2>6 DEF SharesInv
<1>2. /\ Inv /\ (Serial => SerialInv) /\ (Serial => SharesInv) /\ [MCNext]_<<vars, load>>
      /\ Inv' /\ (Serial => SerialInv)'
      => (Serial => SharesInv)'
  <2> SUFFICES ASSUME Inv, Serial => SerialInv, Serial => SharesInv, [MCNext]_<<vars, load>>,
                      Inv', (Serial => SerialInv)', Serial'
               PROVE  SharesInv'
    OBVIOUS
  <2>1. [Next]_vars /\ SerialInv /\ SharesInv /\ SerialInv'
    BY DEF MCNext, Serial
  <2> QED BY <2>1, NextKeepsShares
<1>3. (Serial => SharesInv) => SerialPaidWithinShares
  BY DEF SharesInv, SerialPaidWithinShares
<1> QED BY <1>1, <1>2, <1>3, SerialCallsSafe, MCImplies, LedgerSafe, PTL DEF MCSpec
=============================================================================
