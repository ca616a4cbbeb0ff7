-------------------------- MODULE Allowances_proofs --------------------------
(***************************************************************************)
(* The wallet of Allowances for any number of calls, of operations and of  *)
(* calls at a time, also when calls die.                                   *)
(*                                                                         *)
(* A call looks at the balance when it is let in and charges later. The    *)
(* balance alone is therefore not inductive: what is, is the balance that  *)
(* is left once the calls let in have charged. The last of them was let in *)
(* when there was one operation left, and it was one of MaxInFlight.       *)
(*                                                                         *)
(* The quota needs what each call has seen of the counter and what it has  *)
(* reserved: the counter then equals the documents, what is held and what  *)
(* is still to be corrected, so a reservation that finds room does not     *)
(* exceed the quota. Sums over sets are taken apart member by member.      *)
(*                                                                         *)
(* The last section is about another component, the notices of Reminders,  *)
(* which shares no name with this one.                                     *)
(***************************************************************************)
EXTENDS MCAllowances, Reminders, FiniteSetTheorems, TLAPS

-----------------------------------------------------------------------------
(* Sums over finite sets                                                    *)
(* The induction theorems of the library take a predicate; here a minimal   *)
(* subset for which a fact fails is ruled out instead.                      *)

\* What SumFunctionOnSet unfolds to: a recursive function over the subsets.
Pick(s) == CHOOSE x \in s : TRUE
IsFold(f, S, g) == g = [s \in SUBSET S |-> IF s = {} THEN 0 ELSE f[Pick(s)] + g[s \ {Pick(s)}]]
Fold(f, S) == CHOOSE g : IsFold(f, S, g)

\* A nonempty set of subsets of a finite set has a minimal member.
LEMMA SubsetMinimum ==
    ASSUME NEW S, IsFiniteSet(S), NEW B, B \subseteq SUBSET S, B # {}
    PROVE  \E T \in B : \A U \in B : U \subseteq T => U = T
<1>1. \E T \in B : \A U \in B : ~ (<<U, T>> \in StrictSubsetOrdering(S))
  BY FS_StrictSubsetOrderingWellFounded, FS_FiniteSubsetsOfFinite, WFMin
<1> QED BY <1>1 DEF StrictSubsetOrdering

\* The recursion has one solution at most, ...
LEMMA FoldUnique ==
    ASSUME NEW f, NEW S, IsFiniteSet(S), NEW g, NEW h, IsFold(f, S, g), IsFold(f, S, h)
    PROVE  g = h
<1> DEFINE B == {s \in SUBSET S : g[s] # h[s]}
<1>1. SUFFICES ASSUME B # {} PROVE FALSE
  BY DEF IsFold
<1>2. PICK T \in B : \A U \in B : U \subseteq T => U = T
  <2>1. B \subseteq SUBSET S
    OBVIOUS
  <2> HIDE DEF B
  <2> QED BY <1>1, <2>1, SubsetMinimum
<1>3. T # {} /\ Pick(T) \in T
  BY <1>2 DEF IsFold, Pick
<1>4. g[T \ {Pick(T)}] = h[T \ {Pick(T)}]
  BY <1>2, <1>3
<1>5. /\ g[T] = f[Pick(T)] + g[T \ {Pick(T)}]
      /\ h[T] = f[Pick(T)] + h[T \ {Pick(T)}]
  BY <1>2, <1>3 DEF IsFold
<1> QED BY <1>2, <1>4, <1>5

\* ... a solution over a set is one over its subsets, ...
LEMMA FoldRestricted ==
    ASSUME NEW f, NEW S, IsFiniteSet(S), NEW T \in SUBSET S, NEW g, IsFold(f, S, g)
    PROVE  IsFold(f, T, Fold(f, T)) /\ Fold(f, T)[T] = g[T]
<1> DEFINE h == [s \in SUBSET T |-> g[s]]
<1>1. IsFold(f, T, h)
  <2>1. \A s \in SUBSET T : h[s] = IF s = {} THEN 0 ELSE f[Pick(s)] + h[s \ {Pick(s)}]
    BY DEF IsFold
  <2> QED BY <2>1 DEF IsFold
<1>2. IsFold(f, T, Fold(f, T))
  BY <1>1 DEF Fold
<1>3. Fold(f, T) = h
  BY <1>1, <1>2, FoldUnique, FS_Subset
<1> QED BY <1>2, <1>3

\* ... and over a finite set there is one.
LEMMA FoldExists ==
    ASSUME NEW f, NEW S, IsFiniteSet(S)
    PROVE  IsFold(f, S, Fold(f, S))
<1> DEFINE B == {T \in SUBSET S : ~ IsFold(f, T, Fold(f, T))}
<1>1. SUFFICES ASSUME B # {} PROVE FALSE
  OBVIOUS
<1>2. PICK T \in B : \A U \in B : U \subseteq T => U = T
  <2>1. B \subseteq SUBSET S
    OBVIOUS
  <2> HIDE DEF B
  <2> QED BY <1>1, <2>1, SubsetMinimum
<1> DEFINE g == [s \in SUBSET T |-> IF s = {} THEN 0
                      ELSE f[Pick(s)] + Fold(f, s \ {Pick(s)})[s \ {Pick(s)}]]
<1>3. ASSUME NEW u \in SUBSET T, u # T
      PROVE  g[u] = Fold(f, u)[u]
  <2>1. IsFold(f, u, Fold(f, u)) /\ IsFiniteSet(u)
    BY <1>2, <1>3, FS_Subset
  <2>2. CASE u = {}
    BY <2>1, <2>2 DEF IsFold
  <2>3. CASE u # {}
    <3>1. Fold(f, u)[u] = f[Pick(u)] + Fold(f, u)[u \ {Pick(u)}]
      BY <2>1, <2>3 DEF IsFold
    <3>2. Fold(f, u \ {Pick(u)})[u \ {Pick(u)}] = Fold(f, u)[u \ {Pick(u)}]
      BY <2>1, FoldRestricted
    <3> QED BY <2>3, <3>1, <3>2
  <2> QED BY <2>2, <2>3
<1>4. ASSUME NEW s \in SUBSET T
      PROVE  g[s] = IF s = {} THEN 0 ELSE f[Pick(s)] + g[s \ {Pick(s)}]
  <2>1. CASE s = {}
    BY <2>1
  <2>2. CASE s # {}
    <3>1. Pick(s) \in s
      BY <2>2 DEF Pick
    <3>2. g[s \ {Pick(s)}] = Fold(f, s \ {Pick(s)})[s \ {Pick(s)}]
      BY <1>3, <3>1
    <3> QED BY <2>2, <3>2
  <2> QED BY <2>1, <2>2
<1>5. IsFold(f, T, g)
  BY <1>4 DEF IsFold
<1> QED BY <1>2, <1>5 DEF Fold

\* So a sum over a finite set is computed one member at a time.
LEMMA SumStep ==
    ASSUME NEW f, NEW S, IsFiniteSet(S)
    PROVE  /\ S = {} => SumFunctionOnSet(f, S) = 0
           /\ S # {} => /\ Pick(S) \in S
                        /\ SumFunctionOnSet(f, S) = f[Pick(S)] + SumFunctionOnSet(f, S \ {Pick(S)})
<1>1. \A T : SumFunctionOnSet(f, T) = Fold(f, T)[T]
  BY DEF SumFunctionOnSet, FoldFunctionOnSet, MapThenFoldSet, Fold, IsFold, Pick
<1>2. IsFold(f, S, Fold(f, S))
  BY FoldExists
<1>3. CASE S = {}
  BY <1>1, <1>2, <1>3 DEF IsFold
<1>4. CASE S # {}
  <2>1. Pick(S) \in S
    BY <1>4 DEF Pick
  <2>2. Fold(f, S)[S] = f[Pick(S)] + Fold(f, S)[S \ {Pick(S)}]
    BY <1>2, <1>4 DEF IsFold
  <2>3. Fold(f, S)[S \ {Pick(S)}] = Fold(f, S \ {Pick(S)})[S \ {Pick(S)}]
    BY <1>2, FoldRestricted
  <2> QED BY <1>1, <1>4, <2>1, <2>2, <2>3
<1> QED BY <1>3, <1>4

\* A sum of integers is an integer.
LEMMA SumType ==
    ASSUME NEW f, NEW S, IsFiniteSet(S), \A x \in S : f[x] \in Int
    PROVE  SumFunctionOnSet(f, S) \in Int
<1> DEFINE B == {T \in SUBSET S : SumFunctionOnSet(f, T) \notin Int}
<1>1. SUFFICES ASSUME B # {} PROVE FALSE
  OBVIOUS
<1>2. PICK T \in B : \A U \in B : U \subseteq T => U = T
  <2>1. B \subseteq SUBSET S
    OBVIOUS
  <2> HIDE DEF B
  <2> QED BY <1>1, <2>1, SubsetMinimum
<1>3. T # {} /\ Pick(T) \in T /\ SumFunctionOnSet(f, T) = f[Pick(T)] + SumFunctionOnSet(f, T \ {Pick(T)})
  BY <1>2, SumStep, FS_Subset
<1> QED BY <1>2, <1>3

\* Any member of the set may be the one that is added last.
LEMMA SumTakes ==
    ASSUME NEW f, NEW S, IsFiniteSet(S), \A x \in S : f[x] \in Int, NEW a \in S
    PROVE  SumFunctionOnSet(f, S) = f[a] + SumFunctionOnSet(f, S \ {a})
<1> DEFINE Sum(T) == SumFunctionOnSet(f, T)
           B == {T \in SUBSET S : \E b \in T : Sum(T) # f[b] + Sum(T \ {b})}
<1>1. SUFFICES ASSUME B # {} PROVE FALSE
  OBVIOUS
<1>2. PICK T \in B : \A U \in B : U \subseteq T => U = T
  <2>1. B \subseteq SUBSET S
    OBVIOUS
  <2> HIDE DEF B
  <2> QED BY <1>1, <2>1, SubsetMinimum
<1>3. PICK b \in T : Sum(T) # f[b] + Sum(T \ {b})
  OBVIOUS
<1> DEFINE p == Pick(T)
           R == T \ {b, p}
<1>4. /\ IsFiniteSet(T) /\ IsFiniteSet(R)
  BY <1>2, FS_Subset
<1>5. p \in T /\ Sum(T) = f[p] + Sum(T \ {p})
  BY <1>2, <1>3, <1>4, SumStep
<1>6. p # b
  BY <1>3, <1>5
<1>7. f[p] \in Int /\ f[b] \in Int /\ Sum(R) \in Int
  BY <1>2, <1>4, <1>5, SumType
<1>8. Sum(T \ {p}) = f[b] + Sum((T \ {p}) \ {b})
  BY <1>2, <1>3, <1>5, <1>6
<1>9. Sum(T \ {b}) = f[p] + Sum((T \ {b}) \ {p})
  BY <1>2, <1>3, <1>5, <1>6
<1>10. (T \ {p}) \ {b} = R /\ (T \ {b}) \ {p} = R
  OBVIOUS
<1>11. Sum(T \ {p}) = f[b] + Sum(R) /\ Sum(T \ {b}) = f[p] + Sum(R)
  BY <1>8, <1>9, <1>10
<1> HIDE DEF Sum, R, p
<1> QED BY <1>3, <1>5, <1>7, <1>11

\* ... or the one that is new.
LEMMA SumInsert ==
    ASSUME NEW f, NEW S, IsFiniteSet(S), \A x \in S : f[x] \in Int,
           NEW T \in SUBSET S, NEW a \in S \ T
    PROVE  /\ SumFunctionOnSet(f, T \union {a}) = f[a] + SumFunctionOnSet(f, T)
           /\ SumFunctionOnSet(f, T) \in Int
<1>1. IsFiniteSet(T) /\ IsFiniteSet(T \union {a}) /\ (T \union {a}) \ {a} = T
  BY FS_Subset, FS_AddElement
<1>2. SumFunctionOnSet(f, T \union {a}) = f[a] + SumFunctionOnSet(f, (T \union {a}) \ {a})
  <2>1. \A x \in T \union {a} : f[x] \in Int
    OBVIOUS
  <2> QED BY <1>1, <2>1, SumTakes
<1> QED BY <1>1, <1>2, SumType

LEMMA SumEmpty == \A f : SumFunctionOnSet(f, {}) = 0
BY SumStep, FS_EmptySet

\* Induction over a finite set, for the set of its subsets a fact holds of.
LEMMA SubsetInduction ==
    ASSUME NEW S, IsFiniteSet(S), NEW Good, {} \in Good,
           \A T \in SUBSET S : \A a \in S \ T : T \in Good => T \union {a} \in Good
    PROVE  S \in Good
<1> DEFINE B == {T \in SUBSET S : T \notin Good}
<1>1. SUFFICES ASSUME B # {} PROVE FALSE
  OBVIOUS
<1>2. PICK T \in B : \A U \in B : U \subseteq T => U = T
  <2>1. B \subseteq SUBSET S
    OBVIOUS
  <2> HIDE DEF B
  <2> QED BY <1>1, <2>1, SubsetMinimum
<1>3. PICK a : a \in T
  BY <1>2
<1>4. T \ {a} \in Good /\ (T \ {a}) \union {a} = T /\ T \ {a} \in SUBSET S /\ a \in S \ (T \ {a})
  BY <1>2, <1>3
<1> QED BY <1>2, <1>4

\* A sum depends on the values in the set only.
LEMMA SumSame ==
    ASSUME NEW f, NEW g, NEW S, IsFiniteSet(S), \A x \in S : f[x] \in Int /\ g[x] = f[x]
    PROVE  SumFunctionOnSet(g, S) = SumFunctionOnSet(f, S)
<1> DEFINE Good == {T \in SUBSET S : SumFunctionOnSet(g, T) = SumFunctionOnSet(f, T)}
<1>1. {} \in Good
  BY SumEmpty
<1>2. ASSUME NEW T \in SUBSET S, NEW a \in S \ T, T \in Good PROVE T \union {a} \in Good
  BY <1>2, SumInsert
<1> HIDE DEF Good
<1>3. S \in Good
  BY <1>1, <1>2, SubsetInduction
<1> QED BY <1>3 DEF Good

\* Members that count for nothing may be left out.
LEMMA SumPadded ==
    ASSUME NEW f, NEW g, NEW S, IsFiniteSet(S), NEW R \in SUBSET S,
           \A x \in R : f[x] \in Int /\ g[x] = f[x],
           \A x \in S \ R : g[x] = 0
    PROVE  SumFunctionOnSet(g, S) = SumFunctionOnSet(f, R)
<1> DEFINE Sum(k, T) == SumFunctionOnSet(k, T)
           Good == {T \in SUBSET S : Sum(g, T) = Sum(f, T \intersect R)}
<1>1. {} \in Good /\ S \intersect R = R
  BY SumEmpty
<1>2. ASSUME NEW T \in SUBSET S, NEW a \in S \ T, T \in Good PROVE T \union {a} \in Good
  <2>1. Sum(g, T \union {a}) = g[a] + Sum(g, T) /\ Sum(g, T) \in Int
    BY SumInsert
  <2>2. CASE a \in R
    <3>1. (T \union {a}) \intersect R = (T \intersect R) \union {a} /\ a \in R \ (T \intersect R)
      BY <2>2
    <3>2. Sum(f, (T \intersect R) \union {a}) = f[a] + Sum(f, T \intersect R)
      BY <3>1, SumInsert, FS_Subset
    <3> QED BY <1>2, <2>1, <2>2, <3>1, <3>2
  <2>3. CASE a \notin R
    <3>1. (T \union {a}) \intersect R = T \intersect R /\ g[a] = 0
      BY <2>3
    <3>2. Sum(g, T \union {a}) = Sum(g, T)
      <4> HIDE DEF Sum
      <4> QED BY <2>1, <3>1
    <3> QED BY <1>2, <3>1, <3>2
  <2> QED BY <2>2, <2>3
<1> HIDE DEF Good
<1>3. S \in Good
  BY <1>1, <1>2, SubsetInduction
<1> QED BY <1>1, <1>3 DEF Good

\* ... so a sum over some members is one over all of them, the others counting
\* for nothing.
LEMMA SumSpread ==
    ASSUME NEW S, IsFiniteSet(S), NEW R \in SUBSET S, NEW f, NEW g, DOMAIN f = R,
           \A x \in R : f[x] \in Int /\ g[x] = f[x],
           \A x \in S \ R : g[x] = 0
    PROVE  /\ SumFunction(f) = SumFunctionOnSet(g, S)
           /\ SumFunction(f) \in Int
<1>1. SumFunction(f) = SumFunctionOnSet(f, R)
  BY DEF SumFunction
<1>2. SumFunctionOnSet(g, S) = SumFunctionOnSet(f, R)
  BY SumPadded
<1>3. SumFunctionOnSet(f, R) \in Int
  BY SumType, FS_Subset
<1> QED BY <1>1, <1>2, <1>3

\* Where two functions differ at one member, so do their sums.
LEMMA SumChanged ==
    ASSUME NEW S, IsFiniteSet(S), NEW f, NEW g, DOMAIN f = S, DOMAIN g = S, NEW a \in S,
           \A x \in S : f[x] \in Int /\ g[x] \in Int, \A x \in S : x # a => g[x] = f[x]
    PROVE  /\ SumFunction(f) \in Int /\ SumFunction(g) \in Int
           /\ SumFunction(g) = SumFunction(f) + g[a] - f[a]
<1>1. SumFunction(f) = SumFunctionOnSet(f, S) /\ SumFunction(g) = SumFunctionOnSet(g, S)
  BY DEF SumFunction
<1>2. IsFiniteSet(S \ {a})
  BY FS_Subset
<1>3. SumFunctionOnSet(g, S \ {a}) = SumFunctionOnSet(f, S \ {a})
  BY <1>2, SumSame
<1>4. SumFunctionOnSet(f, S \ {a}) \in Int
  BY <1>2, SumType
<1>5. SumFunctionOnSet(f, S) = f[a] + SumFunctionOnSet(f, S \ {a})
  BY SumTakes
<1>6. SumFunctionOnSet(g, S) = g[a] + SumFunctionOnSet(g, S \ {a})
  BY SumTakes
<1> QED BY <1>1, <1>3, <1>4, <1>5, <1>6

-----------------------------------------------------------------------------
(* The wallet                                                                *)

Charging == {c \in Calls : At(c, "charge")}

Shape(l) == l = Local(l.step, l.of, l.was, l.is)

CallsOK == /\ call = [c \in Calls |-> call[c]]
           /\ \A c \in Calls : Shape(call[c])

\* Who has charged is in the ledger, and nobody charges twice.
ChargedOnce ==
    \A c \in Calls : /\ At(c, "idle") \/ At(c, "charge") => c \notin ledger
                     /\ At(c, "check") => c \in ledger

InFlightOK == IsFiniteSet(InFlight) /\ Cardinality(InFlight) <= MaxInFlight

LeftOver == balance - Cardinality(Charging) >= 1 - MaxInFlight

WalletInv ==
    /\ CallsOK
    /\ balance \in Int
    /\ ledger \subseteq Calls /\ IsFiniteSet(ledger)
    /\ WalletIsSound
    /\ ChargedOnce
    /\ InFlightOK
    /\ LeftOver

\* One call moves: the others are where they were.
LEMMA OneMoves ==
    ASSUME CallsOK, NEW c \in Calls, NEW l, Shape(l), call' = [call EXCEPT ![c] = l]
    PROVE  /\ CallsOK'
           /\ call'[c] = l
           /\ \A d \in Calls : d # c => call'[d] = call[d]
BY DEF CallsOK, Shape

-----------------------------------------------------------------------------
(* Room for documents                                                        *)

StorageSteps == {"ensure", "baseline", "reserve", "claim", "create", "release"}

\* What a call c with the local variables l may count on.
LocalOK(c, l) ==
    /\ l.step \in StorageSteps \union Sending \union {"idle", "done", "charge", "check"}
    /\ l.was \in Int
    /\ l.step \in StorageSteps \union {"put", "read", "measure", "reconcile"} => l.is \in Sizes
    /\ l.step \in StorageSteps => l.of = c
    /\ l.step \in StorageSteps \union {"idle"} => size[c] = None
    /\ l.step \in Sending => l.of \in Documents /\ size[l.of] # None
    /\ l.step \in {"reserve", "claim", "create", "release"} => used # None

RoomTypes == TypeOK /\ size[0] # None /\ \A c \in Calls : LocalOK(c, call[c])

\* Until the counter is set up, there is the old document only.
FewDocuments == used = None => Existing = {0}

RoomInv == CallsOK /\ RoomTypes /\ FewDocuments

LEMMA RowValues ==
    /\ \A n \in Int : n # None
    /\ \A s \in Sizes : s \in Int /\ s # None
    /\ 0 \notin Calls /\ IsFiniteSet(Calls)
BY CallsAssumption, SizesAssumption, NoneAssumption

USE RowValues DEF Documents

\* What a step of the call c does to the documents and the counter.
RowsMove(c) ==
    /\ \A d \in Documents : size[d] # None => size'[d] # None
    /\ \A d \in Calls : d # c /\ size[d] = None => size'[d] = None
    /\ used # None => used' # None

LEMMA LocalStays ==
    ASSUME NEW c \in Calls, NEW d \in Calls, d # c, NEW l, LocalOK(d, l), RowsMove(c)
    PROVE  LocalOK(d, l)'
BY DEF LocalOK, RowsMove

\* One call moves.
LEMMA RoomMoves ==
    ASSUME RoomInv, NEW c \in Calls, NEW l, Shape(l), call' = [call EXCEPT ![c] = l],
           LocalOK(c, l)', RowsMove(c), TypeOK', FewDocuments'
    PROVE  RoomInv'
<1>1. CallsOK' /\ call'[c] = l /\ \A d \in Calls : d # c => call'[d] = call[d]
  BY OneMoves DEF RoomInv
<1>2. ASSUME NEW d \in Calls PROVE LocalOK(d, call[d])'
  <2>1. CASE d = c
    BY <1>1, <2>1
  <2>2. CASE d # c
    <3>1. PICK k : k = call[d] /\ k = call'[d] /\ LocalOK(d, k)
      BY <1>1, <2>2 DEF RoomInv, RoomTypes
    <3>2. LocalOK(d, k)'
      BY <2>2, <3>1, LocalStays
    <3> QED BY <3>1, <3>2
  <2> QED BY <2>1, <2>2
<1>3. size'[0] # None
  BY DEF RoomInv, RoomTypes, RowsMove
<1> QED BY <1>1, <1>2, <1>3 DEF RoomInv, RoomTypes

\* ... and neither the counter nor the size of a document.
LEMMA RoomRests ==
    ASSUME RoomInv, NEW c \in Calls, NEW l, Shape(l), call' = [call EXCEPT ![c] = l],
           LocalOK(c, l), UNCHANGED <<used, size>>, TypeOK'
    PROVE  RoomInv'
<1>1. LocalOK(c, l)' /\ RowsMove(c)
  BY DEF LocalOK, RowsMove
<1>2. FewDocuments'
  BY DEF RoomInv, FewDocuments, Existing
<1> QED BY <1>1, <1>2, RoomMoves

\* A call that goes on, and one that ends, has the shape of a call.
LEMMA LocalShapes ==
    /\ \A step, of, was, is :
           LET l == Local(step, of, was, is) IN
           Shape(l) /\ l.step = step /\ l.of = of /\ l.was = was /\ l.is = is
    /\ Shape(Over) /\ Over.step = "done" /\ Over.was = 0
BY DEF Shape, Local, Over

LEMMA StepShapes ==
    ASSUME NEW k, Shape(k), NEW step
    PROVE  LET l == [k EXCEPT !.step = step] IN
           Shape(l) /\ l.step = step /\ l.of = k.of /\ l.was = k.was /\ l.is = k.is
BY DEF Shape, Local

LEMMA OverIsOK == \A c : LocalOK(c, Over)
BY LocalShapes DEF LocalOK, Sending, StorageSteps

LEMMA AcceptKeepsRoom ==
    ASSUME RoomInv, NEW c \in Calls, Accept(c)
    PROVE  RoomInv'
<1>1. /\ At(c, "idle") /\ UNCHANGED <<storage, wallet, plan, died>>
  BY DEF Accept, Upload, Receive, Confirm, Verify, Begin
<1>2. UNCHANGED <<used, size>> /\ TypeOK'
  BY <1>1 DEF RoomInv, RoomTypes, TypeOK, storage, wallet, plan
<1>3. LocalOK(c, call[c]) /\ size \in [Documents -> Sizes \union {None}] /\ balance \in Int
  BY DEF RoomInv, RoomTypes, TypeOK
<1>4. PICK l : Shape(l) /\ Begin(c, l) /\ LocalOK(c, l)
  <2>1. ASSUME NEW s \in Sizes, Upload(c, s) PROVE \E l : Shape(l) /\ Begin(c, l) /\ LocalOK(c, l)
    <3>1. LocalOK(c, Local("ensure", c, 0, s))
      BY <1>1, <1>3, LocalShapes DEF LocalOK, StorageSteps, Sending, At
    <3> QED BY <2>1, <3>1, LocalShapes DEF Upload
  <2>2. ASSUME NEW s \in Sizes, NEW d \in Documents, Receive(c, d, s)
        PROVE  \E l : Shape(l) /\ Begin(c, l) /\ LocalOK(c, l)
    <3>1. LocalOK(c, Local("put", d, 0, s))
      BY <2>2, LocalShapes DEF LocalOK, StorageSteps, Sending, Receive
    <3> QED BY <2>2, <3>1, LocalShapes DEF Receive
  <2>3. ASSUME NEW d \in Documents, Confirm(c, d)
        PROVE  \E l : Shape(l) /\ Begin(c, l) /\ LocalOK(c, l)
    <3>0. size[d] # None
      BY <2>3 DEF Confirm
    <3>1. size[d] \in Int
      BY <1>3, <3>0
    <3>2. LocalOK(c, Local("head", d, size[d], 0))
      BY <3>0, <3>1, LocalShapes DEF LocalOK, StorageSteps, Sending
    <3> QED BY <2>3, <3>2, LocalShapes DEF Confirm
  <2>4. ASSUME Verify(c) PROVE \E l : Shape(l) /\ Begin(c, l) /\ LocalOK(c, l)
    <3>1. LocalOK(c, Local("charge", None, balance, 0))
      BY <1>3, LocalShapes DEF LocalOK, StorageSteps, Sending
    <3> QED BY <2>4, <3>1, LocalShapes DEF Verify
  <2> QED BY <2>1, <2>2, <2>3, <2>4 DEF Accept
<1> QED BY <1>2, <1>4, RoomRests DEF Begin

\* A call sets the counter up, unless another has.
LEMMA BaselineKeepsRoom ==
    ASSUME RoomInv, NEW c \in Calls, Baseline(c)
    PROVE  RoomInv' /\ used' # None /\ used' \in Int
<1>0. PICK l : l = [call[c] EXCEPT !.step = "reserve"]
  OBVIOUS
<1>1. LocalOK(c, call[c]) /\ Shape(call[c]) /\ TypeOK /\ call[c].step = "baseline"
  BY DEF RoomInv, RoomTypes, CallsOK, Baseline, At
<1>2. Shape(l) /\ l.step = "reserve" /\ l.of = call[c].of /\ l.was = call[c].was /\ l.is = call[c].is
  BY <1>0, <1>1, StepShapes
<1>3. /\ call' = [call EXCEPT ![c] = l] /\ UNCHANGED <<size, stored, balance, ledger, checks, quota, ceiling, died>>
      /\ used' = IF used = None THEN call[c].was ELSE used
  BY <1>0 DEF Baseline, Continue, wallet, plan
<1>4. used' \in Int /\ used' # None
  BY <1>1, <1>3 DEF TypeOK, LocalOK
<1>5. TypeOK'
  BY <1>1, <1>3, <1>4 DEF TypeOK
<1>6. RowsMove(c) /\ FewDocuments'
  BY <1>3, <1>4 DEF RowsMove, FewDocuments
<1>7. LocalOK(c, l)'
  BY <1>1, <1>2, <1>3, <1>4 DEF LocalOK, StorageSteps, Sending
<1> QED BY <1>2, <1>3, <1>4, <1>5, <1>6, <1>7, RoomMoves

\* The room is taken, or the call is refused.
LEMMA ReserveKeepsRoom ==
    ASSUME RoomInv, NEW c \in Calls, Reserve(c)
    PROVE  RoomInv'
<1>0. PICK l : l = [call[c] EXCEPT !.step = "create"]
  OBVIOUS
<1>1. LocalOK(c, call[c]) /\ Shape(call[c]) /\ TypeOK /\ call[c].step = "claim"
  BY DEF RoomInv, RoomTypes, CallsOK, Reserve, At
<1>2. Shape(l) /\ l.step = "create" /\ l.of = call[c].of /\ l.was = call[c].was /\ l.is = call[c].is
  BY <1>0, <1>1, StepShapes
<1>3. UNCHANGED <<size, stored, balance, ledger, checks, quota, ceiling, died>>
  BY DEF Reserve, Continue, Finish, wallet, plan
<1>4. CASE used' = used + call[c].is /\ Continue(c, l)
  <2>1. used' \in Int /\ used' # None
    BY <1>1, <1>4 DEF TypeOK, LocalOK, StorageSteps
  <2>2. TypeOK'
    BY <1>1, <1>3, <2>1 DEF TypeOK
  <2>3. RowsMove(c) /\ FewDocuments'
    BY <1>3, <2>1 DEF RowsMove, FewDocuments
  <2>4. LocalOK(c, l)'
    BY <1>1, <1>2, <1>3, <2>1 DEF LocalOK, StorageSteps, Sending
  <2> QED BY <1>2, <1>4, <2>2, <2>3, <2>4, RoomMoves DEF Continue
<1>5. CASE Finish(c) /\ UNCHANGED used
  <2>1. TypeOK'
    BY <1>1, <1>3, <1>5 DEF TypeOK
  <2> QED BY <1>3, <1>5, <2>1, LocalShapes, OverIsOK, RoomRests DEF Finish, Continue
<1> QED BY <1>0, <1>4, <1>5 DEF Reserve

\* The document is there, of the size it was announced with.
LEMMA CreateKeepsRoom ==
    ASSUME RoomInv, NEW c \in Calls, CreateDocument(c)
    PROVE  RoomInv'
<1>1. LocalOK(c, call[c]) /\ TypeOK /\ call[c].step = "create"
  BY DEF RoomInv, RoomTypes, CreateDocument, At
<1>2. /\ call' = [call EXCEPT ![c] = Over] /\ size' = [size EXCEPT ![c] = call[c].is]
      /\ UNCHANGED <<used, stored, balance, ledger, checks, quota, ceiling, died>>
  BY DEF CreateDocument, Finish, Continue, wallet, plan
<1>3. call[c].is \in Sizes /\ used # None /\ size[c] = None
  BY <1>1 DEF LocalOK, StorageSteps
<1>4. /\ size' \in [Documents -> Sizes \union {None}] /\ size'[c] = call[c].is
      /\ \A d \in Documents : d # c => size'[d] = size[d]
  BY <1>1, <1>2, <1>3 DEF TypeOK
<1>5. TypeOK'
  BY <1>1, <1>2, <1>4 DEF TypeOK
<1>6. LocalOK(c, Over)' /\ RowsMove(c) /\ FewDocuments'
  BY <1>2, <1>3, <1>4, LocalShapes DEF LocalOK, StorageSteps, Sending, RowsMove, FewDocuments
<1> QED BY <1>2, <1>5, <1>6, LocalShapes, RoomMoves

\* The room is given back.
LEMMA ReleaseKeepsRoom ==
    ASSUME RoomInv, NEW c \in Calls, Release(c)
    PROVE  RoomInv'
<1>1. LocalOK(c, call[c]) /\ TypeOK /\ call[c].step = "release"
  BY DEF RoomInv, RoomTypes, Release, At
<1>2. /\ call' = [call EXCEPT ![c] = Over] /\ used' = used - call[c].is
      /\ UNCHANGED <<size, stored, balance, ledger, checks, quota, ceiling, died>>
  BY DEF Release, Finish, Continue, wallet, plan
<1>3. used' \in Int /\ used' # None
  BY <1>1, <1>2 DEF TypeOK, LocalOK, StorageSteps
<1>4. TypeOK'
  BY <1>1, <1>2, <1>3 DEF TypeOK
<1>5. LocalOK(c, Over)' /\ RowsMove(c) /\ FewDocuments'
  BY <1>2, <1>3, LocalShapes DEF LocalOK, StorageSteps, Sending, RowsMove, FewDocuments
<1> QED BY <1>2, <1>4, <1>5, LocalShapes, RoomMoves

\* The document gets the size of its bytes.
LEMMA MeasureKeepsRoom ==
    ASSUME RoomInv, NEW c \in Calls, Measure(c)
    PROVE  RoomInv'
<1>0. PICK l, d : l = [call[c] EXCEPT !.step = "reconcile"] /\ d = call[c].of
  OBVIOUS
<1>1. LocalOK(c, call[c]) /\ Shape(call[c]) /\ TypeOK /\ call[c].step = "measure"
  BY DEF RoomInv, RoomTypes, CallsOK, Measure, At
<1>2. Shape(l) /\ l.step = "reconcile" /\ l.of = d /\ l.was = call[c].was /\ l.is = call[c].is
  BY <1>0, <1>1, StepShapes
<1>3. /\ call' = [call EXCEPT ![c] = l] /\ size' = [size EXCEPT ![d] = call[c].is]
      /\ UNCHANGED <<used, stored, balance, ledger, checks, quota, ceiling, died>>
  BY <1>0 DEF Measure, Continue, wallet, plan
<1>4. call[c].is \in Sizes /\ d \in Documents /\ size[d] # None /\ call[c].was \in Int
  BY <1>0, <1>1 DEF LocalOK, Sending
<1>5. /\ size' \in [Documents -> Sizes \union {None}] /\ size'[d] = call[c].is
      /\ \A e \in Documents : e # d => size'[e] = size[e]
  BY <1>1, <1>3, <1>4 DEF TypeOK
<1>6. call[c].is # None
  BY <1>4
<1>7. TypeOK'
  BY <1>1, <1>3, <1>5 DEF TypeOK
<1>8. LocalOK(c, l)'
  BY <1>2, <1>4, <1>5, <1>6 DEF LocalOK, StorageSteps, Sending
<1>9. RowsMove(c)
  BY <1>3, <1>4, <1>5, <1>6 DEF RowsMove
<1>10. Existing' = Existing
  BY <1>4, <1>5, <1>6 DEF Existing
<1>11. FewDocuments'
  BY <1>3, <1>10 DEF RoomInv, FewDocuments
<1> QED BY <1>2, <1>3, <1>7, <1>8, <1>9, <1>11, RoomMoves

\* The counter is corrected.
LEMMA ReconcileKeepsRoom ==
    ASSUME RoomInv, NEW c \in Calls, Reconcile(c)
    PROVE  RoomInv'
<1>1. LocalOK(c, call[c]) /\ TypeOK /\ call[c].step = "reconcile" /\ FewDocuments
  BY DEF RoomInv, RoomTypes, Reconcile, At
<1>2. /\ call' = [call EXCEPT ![c] = Over]
      /\ used' = IF used = None THEN None ELSE used + call[c].is - call[c].was
      /\ UNCHANGED <<size, stored, balance, ledger, checks, quota, ceiling, died>>
  BY DEF Reconcile, Finish, Continue, wallet, plan
<1>3. call[c].is \in Int /\ call[c].was \in Int
  BY <1>1 DEF LocalOK
<1>4. used' \in Int \union {None} /\ (used # None <=> used' # None)
  BY <1>1, <1>2, <1>3 DEF TypeOK
<1>5. TypeOK'
  BY <1>1, <1>2, <1>4 DEF TypeOK
<1>6. LocalOK(c, Over)' /\ RowsMove(c) /\ FewDocuments'
  BY <1>1, <1>2, <1>4, LocalShapes DEF LocalOK, StorageSteps, Sending, RowsMove, FewDocuments, Existing
<1> QED BY <1>2, <1>5, <1>6, LocalShapes, RoomMoves

\* Steps that write neither the counter nor the size of a document.
RestingStep(c) ==
    \/ Ensure(c) \/ ReadQuota(c) \/ CreateFails(c) \/ Put(c) \/ ReadSize(c) \/ Head(c)
    \/ Charge(c) \/ RecordCheck(c) \/ Fail(c)

\* The sum of the documents is a number.
LEMMA SizesAreNumbers ==
    ASSUME RoomInv
    PROVE  SizesOf(Existing) \in Int
<1> DEFINE f == [d \in Existing |-> size[d]]
<1>1. IsFiniteSet(Documents) /\ Existing \subseteq Documents
  BY FS_AddElement DEF Existing
<1>2. IsFiniteSet(Existing)
  BY <1>1, FS_Subset
<1>3. \A d \in Existing : f[d] \in Int
  BY DEF RoomInv, RoomTypes, TypeOK, Existing
<1>4. DOMAIN f = Existing
  OBVIOUS
<1> HIDE DEF f
<1>5. SumFunctionOnSet(f, Existing) \in Int
  BY <1>2, <1>3, SumType
<1> QED BY <1>4, <1>5 DEF SumFunction, SizesOf, f

LEMMA RestingStepKeepsRoom ==
    ASSUME RoomInv, WalletInv', NEW c \in Calls, RestingStep(c)
    PROVE  RoomInv'
<1>1. LocalOK(c, call[c]) /\ Shape(call[c]) /\ TypeOK
  BY DEF RoomInv, RoomTypes, CallsOK
<1>2. UNCHANGED <<used, size, quota, ceiling>>
  BY DEF RestingStep, Ensure, ReadQuota, CreateFails, Put, ReadSize, Head, Charge, RecordCheck, Fail,
         storage, plan
<1>3. /\ stored' \in [Documents -> Sizes \union {None}] /\ died' \subseteq Calls
      /\ checks' \subseteq Calls
  <2>1. CASE Put(c)
    <3>1. /\ call[c].of \in Documents /\ call[c].is \in Sizes
          /\ stored' = [stored EXCEPT ![call[c].of] = call[c].is]
          /\ UNCHANGED <<died, checks>>
      BY <1>1, <2>1 DEF LocalOK, StorageSteps, Sending, Put, At, Continue, wallet
    <3> QED BY <1>1, <3>1 DEF TypeOK
  <2>2. CASE ~ Put(c)
    <3>1. UNCHANGED stored /\ died' \subseteq died \union {c} /\ checks' \subseteq checks \union {c}
      BY <2>2 DEF RestingStep, Ensure, ReadQuota, CreateFails, ReadSize, Head, Charge, RecordCheck, Fail,
                  Continue, Finish, storage, wallet
    <3> QED BY <1>1, <3>1 DEF TypeOK
  <2> QED BY <2>1, <2>2
<1>4. TypeOK'
  BY <1>1, <1>2, <1>3 DEF TypeOK, WalletInv
<1>5. ASSUME NEW l, Shape(l), call' = [call EXCEPT ![c] = l], LocalOK(c, l) PROVE RoomInv'
  BY <1>2, <1>4, <1>5, RoomRests
<1>6. CASE Finish(c) \/ Fail(c)
  BY <1>5, <1>6, LocalShapes, OverIsOK DEF Finish, Continue, Fail
<1>7. CASE Ensure(c)
  <2>1. call[c].step = "ensure"
    BY <1>7 DEF Ensure, At
  <2>2. call[c].is \in Sizes /\ size[c] = None
    BY <1>1, <2>1 DEF LocalOK, StorageSteps
  <2>3. CASE used = None
    <3> DEFINE l == Local("baseline", c, SizesOf(Existing), call[c].is)
    <3>1. call' = [call EXCEPT ![c] = l]
      BY <1>7, <2>3 DEF Ensure, Continue
    <3>2. LocalOK(c, l) /\ Shape(l)
      BY <2>2, LocalShapes, SizesAreNumbers DEF LocalOK, StorageSteps, Sending
    <3> QED BY <1>5, <3>1, <3>2
  <2>4. CASE used # None
    <3> DEFINE l == Local("reserve", c, 0, call[c].is)
    <3>1. call' = [call EXCEPT ![c] = l]
      BY <1>7, <2>4 DEF Ensure, Continue
    <3>2. LocalOK(c, l) /\ Shape(l)
      BY <2>2, <2>4, LocalShapes DEF LocalOK, StorageSteps, Sending
    <3> QED BY <1>5, <3>1, <3>2
  <2> QED BY <2>3, <2>4
<1>8. CASE CreateFails(c) \/ Put(c)
  <2>1. PICK step \in {"release", "read"} :
            /\ call' = [call EXCEPT ![c] = [call[c] EXCEPT !.step = step]]
            /\ step = "release" => call[c].step = "create"
            /\ step = "read" => call[c].step = "put"
    BY <1>8 DEF CreateFails, Put, Continue, At
  <2> DEFINE l == [call[c] EXCEPT !.step = step]
  <2>2. Shape(l) /\ l.step = step /\ l.of = call[c].of /\ l.was = call[c].was /\ l.is = call[c].is
    BY <1>1, StepShapes
  <2>3. call' = [call EXCEPT ![c] = l]
    BY <2>1
  <2> HIDE DEF l
  <2>4. LocalOK(c, l)
    BY <1>1, <2>1, <2>2 DEF LocalOK, StorageSteps, Sending
  <2> QED BY <1>5, <2>2, <2>3, <2>4
<1>9. CASE ReadSize(c)
  <2> DEFINE l == Local("measure", call[c].of, size[call[c].of], call[c].is)
  <2>1. call[c].step = "read" /\ call' = [call EXCEPT ![c] = l]
    BY <1>9 DEF ReadSize, Continue, At
  <2>2. call[c].of \in Documents /\ size[call[c].of] # None /\ call[c].is \in Sizes
    BY <1>1, <2>1 DEF LocalOK, StorageSteps, Sending
  <2>3. size[call[c].of] \in Int
    BY <1>1, <2>2 DEF TypeOK
  <2>4. LocalOK(c, l) /\ Shape(l)
    BY <2>2, <2>3, LocalShapes DEF LocalOK, StorageSteps, Sending
  <2> QED BY <1>5, <2>1, <2>4
<1>10. CASE Head(c) /\ ~ Finish(c)
  <2> DEFINE l == Local("measure", call[c].of, call[c].was, stored[call[c].of])
  <2>1. call[c].step = "head" /\ call' = [call EXCEPT ![c] = l] /\ stored[call[c].of] # None
    BY <1>10 DEF Head, Continue, At
  <2>2. call[c].of \in Documents /\ size[call[c].of] # None /\ call[c].was \in Int
    BY <1>1, <2>1 DEF LocalOK, StorageSteps, Sending
  <2>3. stored[call[c].of] \in Sizes
    BY <1>1, <2>1, <2>2 DEF TypeOK
  <2>4. LocalOK(c, l) /\ Shape(l)
    BY <2>2, <2>3, LocalShapes DEF LocalOK, StorageSteps, Sending
  <2> QED BY <1>5, <2>1, <2>4
<1>11. CASE Charge(c)
  <2> DEFINE l == Local("check", None, 0, 0)
  <2>1. call' = [call EXCEPT ![c] = l]
    BY <1>11 DEF Charge, Continue
  <2>2. LocalOK(c, l) /\ Shape(l)
    BY LocalShapes DEF LocalOK, StorageSteps, Sending
  <2> QED BY <1>5, <2>1, <2>2
<1>12. CASE RecordCheck(c)
  BY <1>6, <1>12 DEF RecordCheck
<1>13. CASE ReadQuota(c)
  <2> DEFINE l == Local("claim", c, quota, call[c].is)
  <2>1. call[c].step = "reserve" /\ call' = [call EXCEPT ![c] = l]
    BY <1>13 DEF ReadQuota, Continue, At
  <2>2. call[c].is \in Sizes /\ size[c] = None /\ used # None /\ quota \in Int
    BY <1>1, <2>1, QuotaAssumption DEF LocalOK, StorageSteps, TypeOK
  <2>3. LocalOK(c, l) /\ Shape(l)
    BY <2>2, LocalShapes DEF LocalOK, StorageSteps, Sending
  <2> QED BY <1>5, <2>1, <2>3
<1> QED BY <1>6, <1>7, <1>8, <1>9, <1>10, <1>11, <1>12, <1>13 DEF RestingStep

LEMMA RoomInit == Init => RoomInv
<1> SUFFICES ASSUME Init PROVE RoomInv
  OBVIOUS
<1>1. PICK s \in Sizes : size = [d \in Documents |-> IF d = 0 THEN s ELSE None]
  BY DEF Init
<1>2. /\ used \in {None, size[0]} /\ stored = size /\ balance = Operations
      /\ ledger = {} /\ checks = {} /\ died = {} /\ call = [c \in Calls |-> Idle]
  BY DEF Init
<1>3. size[0] = s /\ s # None /\ \A c \in Calls : size[c] = None
  BY <1>1
<1>8. quota \in Quotas /\ ceiling \in Nat
  BY <1>3, QuotaAssumption, SizesAssumption DEF Init, Larger
<1>4. TypeOK
  BY <1>1, <1>2, <1>3, <1>8, QuotaAssumption DEF TypeOK
<1>5. Shape(Idle) /\ \A c \in Calls : LocalOK(c, Idle)
  BY <1>3, LocalShapes DEF Idle, LocalOK, StorageSteps, Sending
<1>6. CallsOK /\ \A c \in Calls : LocalOK(c, call[c])
  BY <1>2, <1>5 DEF CallsOK
<1>7. Existing = {0}
  BY <1>3 DEF Existing
<1> QED BY <1>3, <1>4, <1>6, <1>7 DEF RoomInv, RoomTypes, FewDocuments

\* Every step keeps the types of the rows and what calls count on.
LEMMA RoomNext == RoomInv /\ WalletInv' /\ [Next]_vars => RoomInv'
<1> SUFFICES ASSUME RoomInv, WalletInv', [Next]_vars PROVE RoomInv'
  OBVIOUS
<1>1. ASSUME NEW d \in Documents, NEW s \in Sizes, DirectPut(d, s) PROVE RoomInv'
  <2>1. /\ UNCHANGED <<used, size, balance, ledger, checks, quota, ceiling, call, died>>
        /\ stored' = [stored EXCEPT ![d] = s]
    BY <1>1 DEF DirectPut, wallet, plan
  <2>2. TypeOK'
    BY <2>1 DEF RoomInv, RoomTypes, TypeOK
  <2> QED BY <2>1, <2>2 DEF RoomInv, RoomTypes, CallsOK, LocalOK, FewDocuments, Existing
<1>2. CASE UNCHANGED vars
  BY <1>2 DEF vars, storage, wallet, plan, RoomInv, RoomTypes, TypeOK, CallsOK, LocalOK, FewDocuments,
              Existing
<1>3. ASSUME NEW q \in Quotas, ChangePlan(q) PROVE RoomInv'
  <2>1. /\ UNCHANGED <<used, size, stored, balance, ledger, checks, call, died>>
        /\ quota' = q /\ ceiling' = Larger(ceiling, q)
    BY <1>3 DEF ChangePlan, storage, wallet
  <2>2. ceiling' \in Nat /\ quota' \in Quotas
    BY <2>1, QuotaAssumption DEF RoomInv, RoomTypes, TypeOK, Larger
  <2>3. TypeOK'
    BY <2>1, <2>2 DEF RoomInv, RoomTypes, TypeOK
  <2> QED BY <2>1, <2>3 DEF RoomInv, RoomTypes, CallsOK, LocalOK, FewDocuments, Existing
<1> QED BY <1>1, <1>2, <1>3, AcceptKeepsRoom, BaselineKeepsRoom, ReserveKeepsRoom, CreateKeepsRoom,
           ReleaseKeepsRoom, MeasureKeepsRoom, ReconcileKeepsRoom, RestingStepKeepsRoom
        DEF Next, Step, RestingStep

-----------------------------------------------------------------------------
(* The quota, while files are as large as announced                          *)

\* What a call with the local variables l has read is still so.
HonestCall(l) ==
    /\ l.step \in {"baseline", "claim"} => l.was <= ceiling
    /\ l.step \in {"put", "read", "measure", "reconcile"} => l.is = size[l.of]
    /\ l.step \in {"head", "measure", "reconcile"} => l.was = size[l.of]

StoredFits == \A d \in Existing : stored[d] \in {None, size[d]}

Honest ==
    /\ WithinQuota
    /\ quota <= ceiling /\ size[0] <= ceiling
    /\ StoredFits
    /\ \A c \in Calls : HonestCall(call[c])

\* One call moves, and a document that is there keeps its size.
LEMMA HonestMoves ==
    ASSUME RoomInv, Honest, NEW c \in Calls, NEW l, Shape(l), call' = [call EXCEPT ![c] = l],
           HonestCall(l)', UNCHANGED ceiling, \A d \in Documents : size[d] # None => size'[d] = size[d]
    PROVE  \A d \in Calls : HonestCall(call[d])'
<1>1. call'[c] = l /\ \A d \in Calls : d # c => call'[d] = call[d]
  BY OneMoves DEF RoomInv
<1> SUFFICES ASSUME NEW d \in Calls PROVE HonestCall(call[d])'
  OBVIOUS
<1>2. CASE d = c
  BY <1>1, <1>2
<1>3. CASE d # c
  <2>1. PICK k : k = call[d] /\ k = call'[d] /\ LocalOK(d, k) /\ HonestCall(k)
    BY <1>1, <1>3 DEF RoomInv, RoomTypes, Honest
  <2>2. HonestCall(k)'
    BY <2>1 DEF HonestCall, LocalOK, Sending
  <2> QED BY <2>1, <2>2
<1> QED BY <1>2, <1>3

\* A single document is what there is.
LEMMA SizesOfOne ==
    ASSUME Existing = {0}, size[0] \in Int
    PROVE  SizesOf(Existing) = size[0]
<1> DEFINE f == [d \in Existing |-> size[d]]
<1>1. DOMAIN f = {0} /\ f[0] = size[0]
  OBVIOUS
<1> HIDE DEF f
<1>2. IsFiniteSet({0}) /\ {0} \ {0} = {}
  BY FS_Singleton
<1>3. SumFunctionOnSet(f, {0}) = f[0] + SumFunctionOnSet(f, {0} \ {0})
  BY <1>1, <1>2, SumTakes
<1>4. SumFunctionOnSet(f, {0} \ {0}) = 0
  BY <1>2, SumEmpty
<1>5. SumFunctionOnSet(f, {0}) = size[0]
  BY <1>1, <1>3, <1>4
<1> QED BY <1>1, <1>5 DEF SizesOf, SumFunction, f

LEMMA OneDocument ==
    ASSUME RoomInv, used = None
    PROVE  SizesOf(Existing) = size[0]
<1>1. Existing = {0} /\ size[0] \in Int
  BY DEF RoomInv, RoomTypes, TypeOK, FewDocuments
<1> QED BY <1>1, SizesOfOne

\* A step of a call keeps the quota, and what the calls have read.
LEMMA HonestStep ==
    ASSUME RoomInv, Honest, NEW c \in Calls, Accept(c) \/ Step(c) \/ Fail(c),
           \A d \in Calls : call'[d].step = "put" => call'[d].is = size'[call'[d].of]
    PROVE  /\ WithinQuota' /\ quota' <= ceiling' /\ size'[0] <= ceiling'
           /\ \A d \in Calls : HonestCall(call[d])'
<1> DEFINE Goal == /\ WithinQuota' /\ quota' <= ceiling' /\ size'[0] <= ceiling'
                   /\ \A d \in Calls : HonestCall(call[d])'
<1>0. UNCHANGED <<quota, ceiling>>
  BY DEF Accept, Upload, Receive, Confirm, Verify, Begin, Step, Ensure, Baseline, ReadQuota, Reserve,
         CreateDocument, CreateFails, Release, Put, ReadSize, Head, Measure, Reconcile, Charge,
         RecordCheck, Fail, plan
<1>1. /\ LocalOK(c, call[c]) /\ HonestCall(call[c]) /\ Shape(call[c]) /\ TypeOK
      /\ WithinQuota /\ StoredFits /\ ceiling \in Int /\ \A s \in Sizes : s >= 0
      /\ quota <= ceiling /\ size[0] <= ceiling /\ size[0] # None
  BY SizesAssumption DEF RoomInv, RoomTypes, CallsOK, Honest, TypeOK
<1>2. ASSUME NEW l, Shape(l), call' = [call EXCEPT ![c] = l], HonestCall(l)', WithinQuota',
             \A d \in Documents : size[d] # None => size'[d] = size[d]
      PROVE  Goal
  BY <1>0, <1>1, <1>2, HonestMoves
<1>3. ASSUME NEW l, Shape(l), call' = [call EXCEPT ![c] = l], HonestCall(l), UNCHANGED <<used, size>>
      PROVE  Goal
  <2>1. HonestCall(l)' /\ WithinQuota'
    BY <1>0, <1>1, <1>3 DEF HonestCall, WithinQuota
  <2> QED BY <1>2, <1>3, <2>1
<1>4. Shape(Over) /\ Over.step = "done" /\ HonestCall(Over) /\ HonestCall(Over)'
  BY LocalShapes DEF HonestCall
<1>5. ASSUME Finish(c), \A d \in Documents : size[d] # None => size'[d] = size[d], WithinQuota'
      PROVE  Goal
  BY <1>2, <1>4, <1>5 DEF Finish, Continue
<1>6. CASE Accept(c)
  <2>1. PICK l : Shape(l) /\ Begin(c, l) /\ (l.step = "put" \/ HonestCall(l))
    <3>1. ASSUME NEW s \in Sizes, Upload(c, s)
          PROVE  \E l : Shape(l) /\ Begin(c, l) /\ (l.step = "put" \/ HonestCall(l))
      BY <3>1, LocalShapes DEF Upload, HonestCall
    <3>2. ASSUME NEW s \in Sizes, NEW d \in Documents, Receive(c, d, s)
          PROVE  \E l : Shape(l) /\ Begin(c, l) /\ (l.step = "put" \/ HonestCall(l))
      BY <3>2, LocalShapes DEF Receive
    <3>3. ASSUME NEW d \in Documents, Confirm(c, d)
          PROVE  \E l : Shape(l) /\ Begin(c, l) /\ (l.step = "put" \/ HonestCall(l))
      <4>1. HonestCall(Local("head", d, size[d], 0))
        BY LocalShapes DEF HonestCall
      <4> QED BY <3>3, <4>1, LocalShapes DEF Confirm
    <3>4. ASSUME Verify(c)
          PROVE  \E l : Shape(l) /\ Begin(c, l) /\ (l.step = "put" \/ HonestCall(l))
      <4>1. HonestCall(Local("charge", None, balance, 0))
        BY LocalShapes DEF HonestCall
      <4> QED BY <3>4, <4>1, LocalShapes DEF Verify
    <3> QED BY <1>6, <3>1, <3>2, <3>3, <3>4 DEF Accept
  <2>2. call' = [call EXCEPT ![c] = l] /\ UNCHANGED <<used, size>>
    BY <2>1 DEF Begin, storage
  <2>3. CASE l.step = "put"
    <3>1. call'[c] = l
      BY <2>1, <2>2, OneMoves DEF RoomInv
    <3>2. HonestCall(l)
      BY <2>2, <2>3, <3>1 DEF HonestCall
    <3> QED BY <1>3, <2>1, <2>2, <3>2
  <2> QED BY <1>3, <2>1, <2>2, <2>3
<1>7. CASE Ensure(c)
  <2>1. CASE used = None
    <3> DEFINE l == Local("baseline", c, SizesOf(Existing), call[c].is)
    <3>1. call' = [call EXCEPT ![c] = l] /\ UNCHANGED <<used, size>>
      BY <1>7, <2>1 DEF Ensure, Continue, storage
    <3>2. SizesOf(Existing) <= ceiling
      BY <1>1, <2>1, OneDocument
    <3>3. HonestCall(l) /\ Shape(l)
      BY <3>2, LocalShapes DEF HonestCall
    <3> QED BY <1>3, <3>1, <3>3
  <2>2. CASE used # None
    <3> DEFINE l == Local("reserve", c, 0, call[c].is)
    <3>1. call' = [call EXCEPT ![c] = l] /\ UNCHANGED <<used, size>>
      BY <1>7, <2>2 DEF Ensure, Continue, storage
    <3>2. HonestCall(l) /\ Shape(l)
      BY LocalShapes DEF HonestCall
    <3> QED BY <1>3, <3>1, <3>2
  <2> QED BY <2>1, <2>2
<1>8. ASSUME NEW step \in {"reserve", "create", "release"}, WithinQuota', UNCHANGED size,
             call' = [call EXCEPT ![c] = [call[c] EXCEPT !.step = step]]
      PROVE  Goal
  <2>1. PICK l : l = [call[c] EXCEPT !.step = step]
    OBVIOUS
  <2>2. Shape(l) /\ l.step = step
    BY <1>1, <2>1, StepShapes
  <2>3. HonestCall(l)'
    BY <2>2 DEF HonestCall
  <2> QED BY <1>2, <1>8, <2>1, <2>2, <2>3
<1>9. CASE Baseline(c)
  <2>1. used' = (IF used = None THEN call[c].was ELSE used) /\ call[c].was <= ceiling
    BY <1>1, <1>9 DEF Baseline, HonestCall, At
  <2>2. WithinQuota'
    BY <1>0, <1>1, <2>1 DEF WithinQuota
  <2> QED BY <1>8, <1>9, <2>2 DEF Baseline, Continue
<1>23. CASE ReadQuota(c)
  <2> DEFINE l == Local("claim", c, quota, call[c].is)
  <2>1. call' = [call EXCEPT ![c] = l] /\ UNCHANGED <<used, size>>
    BY <1>23 DEF ReadQuota, Continue, storage
  <2>2. HonestCall(l) /\ Shape(l)
    BY <1>1, LocalShapes DEF HonestCall
  <2> QED BY <1>3, <2>1, <2>2
<1>10. CASE Reserve(c)
  <2>1. UNCHANGED size /\ call[c].was <= ceiling /\ call[c].was \in Int /\ call[c].is \in Int /\ used # None
    BY <1>1, <1>10 DEF Reserve, HonestCall, At, LocalOK, StorageSteps
  <2>2. CASE /\ used + call[c].is <= call[c].was /\ used' = used + call[c].is
             /\ Continue(c, [call[c] EXCEPT !.step = "create"])
    <3>1. WithinQuota'
      BY <1>0, <1>1, <2>1, <2>2 DEF WithinQuota, TypeOK
    <3> QED BY <1>8, <2>1, <2>2, <3>1 DEF Continue
  <2>3. CASE Finish(c) /\ UNCHANGED used
    BY <1>0, <1>1, <1>5, <2>1, <2>3 DEF WithinQuota
  <2> QED BY <1>10, <2>2, <2>3 DEF Reserve
<1>11. CASE CreateDocument(c)
  <2>1. size' = [size EXCEPT ![c] = call[c].is] /\ size[c] = None /\ UNCHANGED used /\ Finish(c)
    BY <1>1, <1>11 DEF CreateDocument, LocalOK, StorageSteps, At
  <2> QED BY <1>0, <1>1, <1>5, <2>1 DEF WithinQuota, TypeOK
<1>12. CASE CreateFails(c)
  BY <1>0, <1>1, <1>8, <1>12 DEF CreateFails, Continue, storage, WithinQuota
<1>13. CASE Release(c)
  <2>1. /\ used' = used - call[c].is /\ UNCHANGED size /\ Finish(c)
        /\ call[c].is \in Sizes /\ used # None
    BY <1>1, <1>13 DEF Release, LocalOK, StorageSteps, At
  <2>2. used \in Int /\ used <= ceiling /\ call[c].is \in Int /\ call[c].is >= 0
    BY <1>1, <2>1 DEF TypeOK, WithinQuota
  <2>3. WithinQuota'
    BY <1>0, <1>1, <2>1, <2>2 DEF WithinQuota
  <2> QED BY <1>5, <2>1, <2>3
<1>14. CASE Put(c)
  <2>1. PICK l : l = [call[c] EXCEPT !.step = "read"]
    OBVIOUS
  <2>2. Shape(l) /\ l.step = "read" /\ l.of = call[c].of /\ l.is = call[c].is
    BY <1>1, <2>1, StepShapes
  <2>3. HonestCall(l) /\ call' = [call EXCEPT ![c] = l] /\ UNCHANGED <<used, size>>
    BY <1>1, <1>14, <2>1, <2>2 DEF HonestCall, Put, At, Continue
  <2> QED BY <1>3, <2>2, <2>3
<1>15. CASE ReadSize(c)
  <2> DEFINE l == Local("measure", call[c].of, size[call[c].of], call[c].is)
  <2>1. call' = [call EXCEPT ![c] = l] /\ UNCHANGED <<used, size>> /\ call[c].is = size[call[c].of]
    BY <1>1, <1>15 DEF ReadSize, Continue, storage, At, HonestCall
  <2>2. HonestCall(l) /\ Shape(l)
    BY <2>1, LocalShapes DEF HonestCall
  <2> QED BY <1>3, <2>1, <2>2
<1>16. CASE Head(c) /\ ~ Finish(c)
  <2> DEFINE l == Local("measure", call[c].of, call[c].was, stored[call[c].of])
  <2>1. /\ call' = [call EXCEPT ![c] = l] /\ UNCHANGED <<used, size>> /\ stored[call[c].of] # None
        /\ call[c].step = "head"
    BY <1>16 DEF Head, Continue, storage, At
  <2>2. call[c].of \in Existing /\ call[c].was = size[call[c].of]
    BY <1>1, <2>1 DEF HonestCall, LocalOK, Sending, Existing
  <2>3. stored[call[c].of] = size[call[c].of]
    BY <1>1, <2>1, <2>2 DEF StoredFits
  <2>4. HonestCall(l) /\ Shape(l)
    BY <2>2, <2>3, LocalShapes DEF HonestCall
  <2> QED BY <1>3, <2>1, <2>4
<1>17. CASE Head(c) /\ Finish(c)
  BY <1>0, <1>1, <1>5, <1>17 DEF Head, storage, WithinQuota
<1>18. CASE Measure(c)
  <2>1. PICK l : l = [call[c] EXCEPT !.step = "reconcile"]
    OBVIOUS
  <2>2. /\ Shape(l) /\ l.step = "reconcile" /\ l.of = call[c].of /\ l.is = call[c].is
        /\ l.was = call[c].was
    BY <1>1, <2>1, StepShapes
  <2>3. /\ call' = [call EXCEPT ![c] = l] /\ size' = [size EXCEPT ![call[c].of] = call[c].is]
        /\ UNCHANGED used /\ call[c].is = size[call[c].of] /\ call[c].was = size[call[c].of]
    BY <1>1, <1>18, <2>1 DEF Measure, Continue, At, HonestCall
  <2>4. size' = size
    BY <1>1, <2>3 DEF TypeOK
  <2>5. HonestCall(l)
    BY <2>2, <2>3 DEF HonestCall
  <2> QED BY <1>3, <2>2, <2>3, <2>4, <2>5
<1>19. CASE Reconcile(c)
  <2>1. /\ used' = IF used = None THEN None ELSE used + call[c].is - call[c].was
        /\ UNCHANGED size /\ Finish(c) /\ call[c].is = call[c].was /\ call[c].is \in Sizes
    BY <1>1, <1>19 DEF Reconcile, At, HonestCall, LocalOK, StorageSteps
  <2>2. used' = used
    BY <1>1, <2>1 DEF TypeOK
  <2> QED BY <1>0, <1>1, <1>5, <2>1, <2>2 DEF WithinQuota
<1>20. CASE Charge(c)
  <2> DEFINE l == Local("check", None, 0, 0)
  <2>1. call' = [call EXCEPT ![c] = l] /\ UNCHANGED <<used, size>>
    BY <1>20 DEF Charge, Continue, storage
  <2>2. HonestCall(l) /\ Shape(l)
    BY LocalShapes DEF HonestCall
  <2> QED BY <1>3, <2>1, <2>2
<1>21. CASE RecordCheck(c)
  BY <1>0, <1>1, <1>5, <1>21 DEF RecordCheck, storage, WithinQuota
<1>22. CASE Fail(c)
  BY <1>1, <1>3, <1>4, <1>22 DEF Fail, storage
<1> QED BY <1>6, <1>7, <1>9, <1>10, <1>11, <1>12, <1>13, <1>14, <1>15, <1>16, <1>17, <1>18, <1>19,
           <1>20, <1>21, <1>22, <1>23 DEF Step

\* A step of the load of honest clients.
LEMMA HonestNext ==
    ASSUME RoomInv, load.honest => Honest, [MCNext]_MCVars
    PROVE  load'.honest => Honest'
<1>1. CASE UNCHANGED MCVars
  BY <1>1 DEF MCVars, vars, storage, wallet, plan, Honest, WithinQuota, StoredFits, Existing, HonestCall
<1>2. CASE MCNext
  <2> SUFFICES ASSUME load'.honest PROVE Honest'
    OBVIOUS
  <2>1. load.honest /\ Next /\ Within'
    BY <1>2 DEF MCNext
  <2>2. Honest
    BY <2>1
  <2>3. StoredFits' /\ \A c \in Calls : call'[c].step = "put" => call'[c].is = size'[call'[c].of]
    BY <2>1 DEF Within, StoredFits, At
  <2>4. ASSUME NEW d \in Documents, NEW s \in Sizes, DirectPut(d, s)
        PROVE  Honest'
    BY <2>2, <2>3, <2>4 DEF DirectPut, plan, Honest, WithinQuota, HonestCall
  <2>5. ASSUME NEW q \in Quotas, ChangePlan(q)
        PROVE  Honest'
    <3>1. /\ UNCHANGED <<used, size, stored, call>> /\ quota' = q /\ ceiling' = Larger(ceiling, q)
          /\ ceiling \in Int /\ q \in Int /\ used \in Int \union {None} /\ size[0] \in Int
      BY <2>5, QuotaAssumption DEF ChangePlan, storage, RoomInv, RoomTypes, TypeOK
    <3>2. /\ ceiling' \in Int /\ ceiling' >= ceiling /\ quota' <= ceiling'
      BY <3>1 DEF Larger
    <3>3. \A c \in Calls : call[c].was \in Int
      BY DEF RoomInv, RoomTypes, LocalOK
    <3>4. WithinQuota' /\ size'[0] <= ceiling'
      BY <2>2, <3>1, <3>2 DEF Honest, WithinQuota
    <3>5. \A c \in Calls : HonestCall(call[c])'
      BY <2>2, <3>1, <3>2, <3>3 DEF Honest, HonestCall
    <3> QED BY <2>3, <3>2, <3>4, <3>5 DEF Honest
  <2>6. ASSUME NEW c \in Calls, Accept(c) \/ Step(c) \/ Fail(c)
        PROVE  Honest'
    BY <2>2, <2>3, <2>6, HonestStep DEF Honest
  <2> QED BY <2>1, <2>4, <2>5, <2>6 DEF Next
<1> QED BY <1>1, <1>2

LEMMA HonestInit ==
    ASSUME Init
    PROVE  Honest
<1>1. RoomInv
  BY RoomInit
<1>2. /\ used \in {None, size[0]} /\ stored = size /\ call = [c \in Calls |-> Idle]
  BY DEF Init
<1>3. size[0] \in Sizes
  BY <1>1 DEF RoomInv, RoomTypes, TypeOK
<1>4. HonestCall(Idle)
  BY LocalShapes DEF Idle, HonestCall
<1>5. quota <= ceiling /\ size[0] <= ceiling
  BY <1>3, QuotaAssumption DEF Init, Larger
<1> QED BY <1>2, <1>3, <1>4, <1>5 DEF Honest, WithinQuota, StoredFits

-----------------------------------------------------------------------------
(* The counter, while calls of one document keep apart                       *)

\* What calls have yet to correct, what they hold and what documents have, with
\* zero for the others: a step changes one of each.
Correction(l) == IF l.step = "reconcile" THEN l.is - l.was ELSE 0
Hold(l) == IF l.step \in {"create", "release"} THEN l.is ELSE 0
Length(s) == IF s # None THEN s ELSE 0

Corrections == [c \in Calls |-> Correction(call[c])]
Holds == [c \in Calls |-> Hold(call[c])]
Lengths == [d \in Documents |-> Length(size[d])]

\* Calls that send bytes of different documents, and none while the counter is set up.
KeptApart ==
    /\ \A c, d \in Calls :
        c # d /\ call[c].step \in Sending /\ call[d].step \in Sending => call[c].of # call[d].of
    /\ (\E c \in Calls : call[c].step \in Sending) => \A d \in Calls : ~ At(d, "baseline")

\* The size that a call c has read is that of the document still, and so is the
\* sum that sets the counter up.
ApartCall(l) ==
    /\ l.step \in {"head", "measure"} => l.was = size[l.of]
    /\ l.step = "baseline" /\ used = None => l.was = SizesOf(Existing)

Apart ==
    /\ KeptApart
    /\ \A c \in Calls : ApartCall(call[c])
    /\ died = {} => CounterAddsUp

Numbers ==
    /\ \A c \in Calls : Correction(call[c]) \in Int /\ Hold(call[c]) \in Int
    /\ \A d \in Documents : Length(size[d]) \in Int

LEMMA AmountsAreNumbers == RoomInv => Numbers
<1> SUFFICES ASSUME RoomInv PROVE Numbers
  OBVIOUS
<1>1. ASSUME NEW c \in Calls PROVE Correction(call[c]) \in Int /\ Hold(call[c]) \in Int
  <2>1. LocalOK(c, call[c])
    BY DEF RoomInv, RoomTypes
  <2> QED BY <2>1 DEF LocalOK, StorageSteps, Correction, Hold
<1>2. ASSUME NEW d \in Documents PROVE Length(size[d]) \in Int
  BY DEF RoomInv, RoomTypes, TypeOK, Length
<1> QED BY <1>1, <1>2 DEF Numbers

\* The counter adds up with sums over all calls and documents.
Spread ==
    /\ SumFunction(Corrections) \in Int
    /\ SumFunction(Holds) \in Int
    /\ SumFunction(Lengths) \in Int
    /\ SizesOf(Existing) = SumFunction(Lengths)
    /\ CounterAddsUp <=>
        (used # None => used + SumFunction(Corrections) = SumFunction(Lengths) + SumFunction(Holds))

LEMMA CounterSpread == RoomInv => Spread
<1> SUFFICES ASSUME RoomInv PROVE Spread
  OBVIOUS
<1> DEFINE fm == [c \in Measured |-> call[c].is - call[c].was]
           fh == [c \in Holding |-> call[c].is]
           fs == [d \in Existing |-> size[d]]
<1>1. IsFiniteSet(Calls) /\ IsFiniteSet(Documents)
  BY FS_AddElement
<1>2. Measured \in SUBSET Calls /\ Holding \in SUBSET Calls /\ Existing \in SUBSET Documents
  BY DEF Measured, Holding, Existing
<1>3. /\ \A c \in Calls : Correction(call[c]) \in Int /\ Hold(call[c]) \in Int
      /\ \A d \in Documents : Length(size[d]) \in Int
  BY AmountsAreNumbers DEF Numbers
<1>4. /\ DOMAIN Corrections = Calls /\ DOMAIN Holds = Calls /\ DOMAIN Lengths = Documents
      /\ \A c \in Calls : Corrections[c] = Correction(call[c]) /\ Holds[c] = Hold(call[c])
      /\ \A d \in Documents : Lengths[d] = Length(size[d])
  BY DEF Corrections, Holds, Lengths
<1>5. /\ DOMAIN fm = Measured
      /\ \A c \in Measured : fm[c] \in Int /\ Corrections[c] = fm[c]
      /\ \A c \in Calls \ Measured : Corrections[c] = 0
  BY <1>2, <1>3, <1>4 DEF Measured, At, Correction
<1>6. /\ DOMAIN fh = Holding
      /\ \A c \in Holding : fh[c] \in Int /\ Holds[c] = fh[c]
      /\ \A c \in Calls \ Holding : Holds[c] = 0
  BY <1>2, <1>3, <1>4 DEF Holding, Hold
<1>7. /\ DOMAIN fs = Existing
      /\ \A d \in Existing : fs[d] \in Int /\ Lengths[d] = fs[d]
      /\ \A d \in Documents \ Existing : Lengths[d] = 0
  BY <1>2, <1>3, <1>4 DEF Existing, Length
<1>8. /\ SumFunction(Corrections) = SumFunctionOnSet(Corrections, Calls)
      /\ SumFunction(Holds) = SumFunctionOnSet(Holds, Calls)
      /\ SumFunction(Lengths) = SumFunctionOnSet(Lengths, Documents)
  BY <1>4 DEF SumFunction
<1> HIDE DEF fm, fh, fs, Corrections, Holds, Lengths, Documents
<1>9. SumFunction(fm) = SumFunction(Corrections) /\ SumFunction(fm) \in Int
  BY <1>1, <1>2, <1>5, <1>8, SumSpread
<1>10. SumFunction(fh) = SumFunction(Holds) /\ SumFunction(fh) \in Int
  BY <1>1, <1>2, <1>6, <1>8, SumSpread
<1>11. SumFunction(fs) = SumFunction(Lengths) /\ SumFunction(fs) \in Int
  BY <1>1, <1>2, <1>7, <1>8, SumSpread
<1>12. SizesOf(Existing) = SumFunction(fs)
  BY DEF SizesOf, fs
<1>13. CounterAddsUp <=> (used # None => used + SumFunction(fm) = SizesOf(Existing) + SumFunction(fh))
  BY DEF CounterAddsUp, fm, fh
<1> QED BY <1>9, <1>10, <1>11, <1>12, <1>13 DEF Spread

\* One call and one document change, and the counter with them.
LEMMA CounterMoves ==
    ASSUME RoomInv, RoomInv', NEW c \in Calls, NEW d \in Documents,
           \A e \in Calls : e # c => call'[e] = call[e],
           \A e \in Documents : e # d => size'[e] = size[e],
           used # None, CounterAddsUp,
           used' + Correction(call'[c]) - Correction(call[c])
               = used + Length(size'[d]) - Length(size[d]) + Hold(call'[c]) - Hold(call[c])
    PROVE  CounterAddsUp'
<1>1. IsFiniteSet(Calls) /\ IsFiniteSet(Documents)
  BY FS_AddElement
<1>2. Numbers /\ Numbers' /\ Spread /\ Spread'
  BY AmountsAreNumbers, CounterSpread, PTL
<1>3. PICK f1, g1, f2, g2, f3, g3 :
          /\ f1 = Corrections /\ g1 = Corrections' /\ f2 = Holds /\ g2 = Holds'
          /\ f3 = Lengths /\ g3 = Lengths'
  OBVIOUS
<1>4. /\ DOMAIN f1 = Calls /\ DOMAIN g1 = Calls
      /\ \A e \in Calls : f1[e] = Correction(call[e]) /\ g1[e] = Correction(call'[e])
  BY <1>3 DEF Corrections, Correction
<1>5. /\ DOMAIN f2 = Calls /\ DOMAIN g2 = Calls
      /\ \A e \in Calls : f2[e] = Hold(call[e]) /\ g2[e] = Hold(call'[e])
  BY <1>3 DEF Holds, Hold
<1>6. /\ DOMAIN f3 = Documents /\ DOMAIN g3 = Documents
      /\ \A e \in Documents : f3[e] = Length(size[e]) /\ g3[e] = Length(size'[e])
  BY <1>3 DEF Lengths, Length
<1>7. /\ \A e \in Calls : /\ Correction(call[e]) \in Int /\ Correction(call'[e]) \in Int
                          /\ Hold(call[e]) \in Int /\ Hold(call'[e]) \in Int
      /\ \A e \in Documents : Length(size[e]) \in Int /\ Length(size'[e]) \in Int
  BY <1>2 DEF Numbers, Correction, Hold, Length
<1>8. used \in Int /\ used' \in Int \union {None}
  BY DEF RoomInv, RoomTypes, TypeOK
<1> HIDE DEF Documents
<1>9. SumFunction(g1) = SumFunction(f1) + g1[c] - f1[c]
  <2>1. /\ \A e \in Calls : f1[e] \in Int /\ g1[e] \in Int
        /\ \A e \in Calls : e # c => g1[e] = f1[e]
    BY <1>4, <1>7
  <2> QED BY <1>1, <1>4, <2>1, SumChanged
<1>10. SumFunction(g2) = SumFunction(f2) + g2[c] - f2[c]
  <2>1. /\ \A e \in Calls : f2[e] \in Int /\ g2[e] \in Int
        /\ \A e \in Calls : e # c => g2[e] = f2[e]
    BY <1>5, <1>7
  <2> QED BY <1>1, <1>5, <2>1, SumChanged
<1>11. SumFunction(g3) = SumFunction(f3) + g3[d] - f3[d]
  <2>1. /\ \A e \in Documents : f3[e] \in Int /\ g3[e] \in Int
        /\ \A e \in Documents : e # d => g3[e] = f3[e]
    BY <1>6, <1>7
  <2> QED BY <1>1, <1>6, <2>1, SumChanged
<1>12. /\ SumFunction(f1) \in Int /\ SumFunction(f2) \in Int /\ SumFunction(f3) \in Int
       /\ used + SumFunction(f1) = SumFunction(f3) + SumFunction(f2)
  BY <1>2, <1>3 DEF Spread
<1>13. CounterAddsUp' <=>
          (used' # None => used' + SumFunction(g1) = SumFunction(g3) + SumFunction(g2))
  BY <1>2, <1>3 DEF Spread
<1>14. CASE used' # None
  <2>1. /\ used' \in Int
        /\ used' + g1[c] - f1[c] = used + g3[d] - f3[d] + g2[c] - f2[c]
        /\ g1[c] \in Int /\ f1[c] \in Int /\ g2[c] \in Int /\ f2[c] \in Int
        /\ g3[d] \in Int /\ f3[d] \in Int
    BY <1>4, <1>5, <1>6, <1>7, <1>8, <1>14
  <2> QED BY <1>8, <1>9, <1>10, <1>11, <1>12, <1>13, <2>1
<1> QED BY <1>13, <1>14

\* The counter and the sum stay, if no call has more or less to correct or holds
\* more or less.
LEMMA CounterRests ==
    ASSUME RoomInv, RoomInv', NEW c \in Calls, \A e \in Calls : e # c => call'[e] = call[e],
           UNCHANGED <<used, size>>, CounterAddsUp,
           Correction(call'[c]) = Correction(call[c]), Hold(call'[c]) = Hold(call[c])
    PROVE  CounterAddsUp'
<1>1. CASE used = None
  BY <1>1 DEF CounterAddsUp
<1>2. CASE used # None
  <2>1. Numbers /\ used \in Int
    BY <1>2, AmountsAreNumbers DEF RoomInv, RoomTypes, TypeOK
  <2>2. /\ Length(size'[0]) = Length(size[0]) /\ Length(size[0]) \in Int
        /\ Correction(call[c]) \in Int /\ Hold(call[c]) \in Int
    BY <2>1 DEF Numbers
  <2>3. used' + Correction(call'[c]) - Correction(call[c])
            = used + Length(size'[0]) - Length(size[0]) + Hold(call'[c]) - Hold(call[c])
    BY <2>1, <2>2
  <2> QED BY <1>2, <2>3, CounterMoves
<1> QED BY <1>1, <1>2

\* What a step of the call c does to the sizes: it creates a document, for which the
\* counter is there, or writes the one that it sends.
SizesMove(c) ==
    /\ \A e \in Documents :
        size'[e] # size[e] => size[e] = None \/ (call[c].step \in Sending /\ call[c].of = e)
    /\ used = None /\ size' # size => call[c].step \in Sending
    /\ used # None => used' # None

\* One call moves, and what the others have read stays true.
LEMMA ApartMoves ==
    ASSUME RoomInv, Apart, NEW c \in Calls, NEW l, Shape(l), call' = [call EXCEPT ![c] = l],
           ApartCall(l)', SizesMove(c)
    PROVE  \A d \in Calls : ApartCall(call[d])'
<1>1. call'[c] = l /\ \A d \in Calls : d # c => call'[d] = call[d]
  BY OneMoves DEF RoomInv
<1> SUFFICES ASSUME NEW d \in Calls PROVE ApartCall(call[d])'
  OBVIOUS
<1>2. CASE d = c
  BY <1>1, <1>2
<1>3. CASE d # c
  <2>1. PICK k : k = call[d] /\ k = call'[d] /\ LocalOK(d, k) /\ ApartCall(k)
    BY <1>1, <1>3 DEF RoomInv, RoomTypes, Apart
  <2>2. ASSUME k.step \in {"head", "measure"} PROVE k.was = size'[k.of]
    <3>1. k.of \in Documents /\ size[k.of] # None /\ k.was = size[k.of] /\ k.step \in Sending
      BY <2>1, <2>2 DEF LocalOK, ApartCall, Sending
    <3>2. ~ (call[c].step \in Sending /\ call[c].of = k.of)
      BY <1>3, <2>1, <3>1 DEF Apart, KeptApart
    <3> QED BY <3>1, <3>2 DEF SizesMove
  <2>3. ASSUME k.step = "baseline", used' = None PROVE k.was = SizesOf(Existing)'
    <3>1. used = None /\ call[c].step \notin Sending
      BY <2>1, <2>3 DEF SizesMove, Apart, KeptApart, At
    <3>2. size' = size
      BY <3>1 DEF SizesMove
    <3>3. k.was = SizesOf(Existing)
      BY <2>1, <2>3, <3>1 DEF ApartCall
    <3> QED BY <3>2, <3>3 DEF SizesOf, Existing
  <2>4. ApartCall(k)'
    BY <2>2, <2>3 DEF ApartCall
  <2> QED BY <2>1, <2>4
<1> QED BY <1>2, <1>3

\* A call of which neither the counter nor a document sees anything.
LEMMA ApartRests ==
    ASSUME RoomInv, RoomInv', Apart, NEW c \in Calls, NEW l, Shape(l), call' = [call EXCEPT ![c] = l],
           ApartCall(l), UNCHANGED <<used, size>>, died' = {} => died = {},
           Correction(l) = Correction(call[c]), Hold(l) = Hold(call[c])
    PROVE  /\ \A d \in Calls : ApartCall(call[d])'
           /\ died' = {} => CounterAddsUp'
<1>1. ApartCall(l)' /\ SizesMove(c)
  BY DEF ApartCall, SizesMove, SizesOf, Existing
<1>2. call'[c] = l /\ \A d \in Calls : d # c => call'[d] = call[d]
  BY OneMoves DEF RoomInv
<1>3. ASSUME died' = {} PROVE CounterAddsUp'
  BY <1>2, <1>3, CounterRests DEF Apart
<1> QED BY <1>1, <1>3, ApartMoves

\* The counter is set up: nobody holds room and nobody has sent anything.
LEMMA BaselineAddsUp ==
    ASSUME RoomInv, RoomInv', Apart, NEW c \in Calls, Baseline(c)
    PROVE  /\ \A d \in Calls : ApartCall(call[d])'
           /\ died' = {} => CounterAddsUp'
<1>1. LocalOK(c, call[c]) /\ Shape(call[c]) /\ ApartCall(call[c]) /\ call[c].step = "baseline"
  BY DEF RoomInv, RoomTypes, CallsOK, Apart, Baseline, At
<1>2. PICK l : l = [call[c] EXCEPT !.step = "reserve"]
  OBVIOUS
<1>3. Shape(l) /\ l.step = "reserve"
  BY <1>1, <1>2, StepShapes
<1>4. /\ call' = [call EXCEPT ![c] = l] /\ UNCHANGED <<size, died>>
      /\ used' = IF used = None THEN call[c].was ELSE used
  BY <1>2 DEF Baseline, Continue
<1>5. ApartCall(l)' /\ ApartCall(l) /\ Correction(l) = 0 /\ Hold(l) = 0
  BY <1>3 DEF ApartCall, Correction, Hold
<1>6. Correction(call[c]) = 0 /\ Hold(call[c]) = 0
  BY <1>1 DEF Correction, Hold
<1>7. CASE used # None
  BY <1>3, <1>4, <1>5, <1>6, <1>7, ApartRests
<1>8. CASE used = None
  <2>1. SizesMove(c)
    BY <1>4, <1>8 DEF SizesMove
  <2>2. call'[c] = l /\ \A d \in Calls : d # c => call'[d] = call[d]
    BY <1>3, <1>4, OneMoves DEF RoomInv
  <2>3. \A d \in Calls : call[d].step \notin Sending /\ call[d].step \notin {"create", "release"}
    BY <1>1, <1>8 DEF Apart, KeptApart, At, RoomInv, RoomTypes, LocalOK
  <2>4. Measured' = {} /\ Holding' = {}
    BY <1>3, <2>2, <2>3 DEF Measured, Holding, At, Sending
  <2>5. PICK fm, fh : /\ fm = [d \in {} |-> call'[d].is - call'[d].was] /\ fh = [d \in {} |-> call'[d].is]
    OBVIOUS
  <2>6. SumFunction(fm) = 0 /\ SumFunction(fh) = 0
    BY <2>5, SumEmpty DEF SumFunction
  <2>7. used' = SizesOf(Existing)' /\ used' \in Int
    BY <1>1, <1>4, <1>8 DEF ApartCall, LocalOK, SizesOf, Existing
  <2>8. CounterAddsUp'
    BY <2>4, <2>5, <2>6, <2>7 DEF CounterAddsUp
  <2> QED BY <1>3, <1>4, <1>5, <2>1, <2>8, ApartMoves
<1> QED BY <1>7, <1>8

\* Room is taken and given back, a document is created, measured and its difference
\* added: the counter, the documents and what calls hold move together.
LEMMA ReserveAddsUp ==
    ASSUME RoomInv, RoomInv', Apart, NEW c \in Calls, Reserve(c)
    PROVE  /\ \A d \in Calls : ApartCall(call[d])'
           /\ died' = {} => CounterAddsUp'
<1>1. LocalOK(c, call[c]) /\ Shape(call[c]) /\ TypeOK /\ call[c].step = "claim"
  BY DEF RoomInv, RoomTypes, CallsOK, Reserve, At
<1>2. used \in Int /\ used # None /\ call[c].is \in Int
  BY <1>1 DEF LocalOK, StorageSteps, TypeOK
<1>3. Correction(call[c]) = 0 /\ Hold(call[c]) = 0
  BY <1>1 DEF Correction, Hold
<1>4. CASE Finish(c) /\ UNCHANGED used
  <2>1. Shape(Over) /\ ApartCall(Over) /\ Correction(Over) = 0 /\ Hold(Over) = 0
    BY LocalShapes DEF ApartCall, Correction, Hold
  <2>2. call' = [call EXCEPT ![c] = Over] /\ UNCHANGED <<used, size, died>>
    BY <1>4 DEF Reserve, Finish, Continue
  <2> QED BY <1>3, <2>1, <2>2, ApartRests
<1>5. CASE used' = used + call[c].is /\ Continue(c, [call[c] EXCEPT !.step = "create"])
  <2>1. PICK l : l = [call[c] EXCEPT !.step = "create"]
    OBVIOUS
  <2>2. Shape(l) /\ l.step = "create" /\ l.is = call[c].is
    BY <1>1, <2>1, StepShapes
  <2>3. call' = [call EXCEPT ![c] = l] /\ UNCHANGED <<size, died>>
    BY <1>5, <2>1 DEF Reserve, Continue
  <2>4. ApartCall(l)' /\ Correction(l) = 0 /\ Hold(l) = call[c].is
    BY <2>2 DEF ApartCall, Correction, Hold
  <2>5. SizesMove(c)
    BY <1>2, <1>5, <2>3 DEF SizesMove
  <2>6. call'[c] = l /\ \A d \in Calls : d # c => call'[d] = call[d]
    BY <2>2, <2>3, OneMoves DEF RoomInv
  <2>7. ASSUME CounterAddsUp PROVE CounterAddsUp'
    <3>1. Length(size'[0]) = Length(size[0]) /\ Length(size[0]) \in Int
      BY <2>3, AmountsAreNumbers DEF Numbers
    <3>2. used' + Correction(call'[c]) - Correction(call[c])
              = used + Length(size'[0]) - Length(size[0]) + Hold(call'[c]) - Hold(call[c])
      BY <1>2, <1>3, <1>5, <2>4, <2>6, <3>1
    <3> QED BY <1>2, <2>3, <2>6, <2>7, <3>2, CounterMoves
  <2> QED BY <2>2, <2>3, <2>4, <2>5, <2>7, ApartMoves DEF Apart
<1> QED BY <1>4, <1>5 DEF Reserve

LEMMA CreateAddsUp ==
    ASSUME RoomInv, RoomInv', Apart, NEW c \in Calls, CreateDocument(c)
    PROVE  /\ \A d \in Calls : ApartCall(call[d])'
           /\ died' = {} => CounterAddsUp'
<1>1. LocalOK(c, call[c]) /\ TypeOK /\ call[c].step = "create"
  BY DEF RoomInv, RoomTypes, CreateDocument, At
<1>2. used \in Int /\ used # None /\ call[c].is \in Int /\ call[c].is # None /\ size[c] = None
  BY <1>1 DEF LocalOK, StorageSteps, TypeOK
<1>3. /\ call' = [call EXCEPT ![c] = Over] /\ size' = [size EXCEPT ![c] = call[c].is]
      /\ UNCHANGED <<used, died>>
  BY DEF CreateDocument, Finish, Continue
<1>4. size'[c] = call[c].is /\ \A d \in Documents : d # c => size'[d] = size[d]
  BY <1>1, <1>3 DEF TypeOK
<1>5. Shape(Over) /\ ApartCall(Over)' /\ Correction(Over) = 0 /\ Hold(Over) = 0
  BY LocalShapes DEF ApartCall, Correction, Hold
<1>6. /\ Correction(call[c]) = 0 /\ Hold(call[c]) = call[c].is
      /\ Length(size[c]) = 0 /\ Length(size'[c]) = call[c].is
  BY <1>1, <1>2, <1>4 DEF Correction, Hold, Length
<1>7. SizesMove(c)
  BY <1>2, <1>3, <1>4 DEF SizesMove
<1>8. call'[c] = Over /\ \A d \in Calls : d # c => call'[d] = call[d]
  BY <1>3, <1>5, OneMoves DEF RoomInv
<1>9. ASSUME CounterAddsUp PROVE CounterAddsUp'
  <2>1. used' + Correction(call'[c]) - Correction(call[c])
            = used + Length(size'[c]) - Length(size[c]) + Hold(call'[c]) - Hold(call[c])
    BY <1>2, <1>3, <1>5, <1>6, <1>8
  <2> QED BY <1>2, <1>4, <1>8, <1>9, <2>1, CounterMoves
<1> QED BY <1>3, <1>5, <1>7, <1>9, ApartMoves DEF Apart

LEMMA ReleaseAddsUp ==
    ASSUME RoomInv, RoomInv', Apart, NEW c \in Calls, Release(c)
    PROVE  /\ \A d \in Calls : ApartCall(call[d])'
           /\ died' = {} => CounterAddsUp'
<1>1. LocalOK(c, call[c]) /\ TypeOK /\ call[c].step = "release"
  BY DEF RoomInv, RoomTypes, Release, At
<1>2. used \in Int /\ used # None /\ call[c].is \in Int
  BY <1>1 DEF LocalOK, StorageSteps, TypeOK
<1>3. /\ call' = [call EXCEPT ![c] = Over] /\ used' = used - call[c].is
      /\ UNCHANGED <<size, died>>
  BY DEF Release, Finish, Continue
<1>4. Shape(Over) /\ ApartCall(Over)' /\ Correction(Over) = 0 /\ Hold(Over) = 0
  BY LocalShapes DEF ApartCall, Correction, Hold
<1>5. Correction(call[c]) = 0 /\ Hold(call[c]) = call[c].is
  BY <1>1 DEF Correction, Hold
<1>6. SizesMove(c)
  BY <1>2, <1>3 DEF SizesMove
<1>7. call'[c] = Over /\ \A d \in Calls : d # c => call'[d] = call[d]
  BY <1>3, <1>4, OneMoves DEF RoomInv
<1>8. ASSUME CounterAddsUp PROVE CounterAddsUp'
  <2>1. Length(size'[0]) = Length(size[0]) /\ Length(size[0]) \in Int
    BY <1>3, AmountsAreNumbers DEF Numbers
  <2>2. used' + Correction(call'[c]) - Correction(call[c])
            = used + Length(size'[0]) - Length(size[0]) + Hold(call'[c]) - Hold(call[c])
    BY <1>2, <1>3, <1>4, <1>5, <1>7, <2>1
  <2> QED BY <1>2, <1>3, <1>7, <1>8, <2>2, CounterMoves
<1> QED BY <1>3, <1>4, <1>6, <1>8, ApartMoves DEF Apart

LEMMA MeasureAddsUp ==
    ASSUME RoomInv, RoomInv', Apart, NEW c \in Calls, Measure(c)
    PROVE  /\ \A d \in Calls : ApartCall(call[d])'
           /\ died' = {} => CounterAddsUp'
<1>1. LocalOK(c, call[c]) /\ Shape(call[c]) /\ ApartCall(call[c]) /\ TypeOK /\ call[c].step = "measure"
  BY DEF RoomInv, RoomTypes, CallsOK, Apart, Measure, At
<1>2. PICK l, d : l = [call[c] EXCEPT !.step = "reconcile"] /\ d = call[c].of
  OBVIOUS
<1>3. Shape(l) /\ l.step = "reconcile" /\ l.of = d /\ l.was = call[c].was /\ l.is = call[c].is
  BY <1>1, <1>2, StepShapes
<1>4. /\ call' = [call EXCEPT ![c] = l] /\ size' = [size EXCEPT ![d] = call[c].is]
      /\ UNCHANGED <<used, died>>
  BY <1>2 DEF Measure, Continue
<1>5. /\ call[c].is \in Int /\ call[c].is # None /\ d \in Documents /\ size[d] # None
      /\ call[c].was \in Int /\ call[c].was = size[d] /\ call[c].step \in Sending
  BY <1>1, <1>2 DEF LocalOK, StorageSteps, Sending, ApartCall
<1>6. size'[d] = call[c].is /\ \A e \in Documents : e # d => size'[e] = size[e]
  BY <1>1, <1>4, <1>5 DEF TypeOK
<1>7. ApartCall(l)' /\ Correction(l) = call[c].is - call[c].was /\ Hold(l) = 0
  BY <1>3 DEF ApartCall, Correction, Hold
<1>8. /\ Correction(call[c]) = 0 /\ Hold(call[c]) = 0
      /\ Length(size[d]) = call[c].was /\ Length(size'[d]) = call[c].is
  BY <1>1, <1>5, <1>6 DEF Correction, Hold, Length
<1>9. SizesMove(c)
  BY <1>2, <1>4, <1>5, <1>6 DEF SizesMove
<1>10. call'[c] = l /\ \A e \in Calls : e # c => call'[e] = call[e]
  BY <1>3, <1>4, OneMoves DEF RoomInv
<1>11. ASSUME CounterAddsUp PROVE CounterAddsUp'
  <2>1. CASE used = None
    BY <1>4, <2>1 DEF CounterAddsUp
  <2>2. CASE used # None
    <3>1. used \in Int
      BY <1>1, <2>2 DEF TypeOK
    <3>2. used' + Correction(call'[c]) - Correction(call[c])
              = used + Length(size'[d]) - Length(size[d]) + Hold(call'[c]) - Hold(call[c])
      BY <1>4, <1>5, <1>7, <1>8, <1>10, <3>1
    <3> QED BY <1>5, <1>6, <1>10, <1>11, <2>2, <3>2, CounterMoves
  <2> QED BY <2>1, <2>2
<1> QED BY <1>3, <1>4, <1>7, <1>9, <1>11, ApartMoves DEF Apart

LEMMA ReconcileAddsUp ==
    ASSUME RoomInv, RoomInv', Apart, NEW c \in Calls, Reconcile(c)
    PROVE  /\ \A d \in Calls : ApartCall(call[d])'
           /\ died' = {} => CounterAddsUp'
<1>1. LocalOK(c, call[c]) /\ TypeOK /\ call[c].step = "reconcile"
  BY DEF RoomInv, RoomTypes, Reconcile, At
<1>2. call[c].is \in Int /\ call[c].was \in Int
  BY <1>1 DEF LocalOK, StorageSteps
<1>3. /\ call' = [call EXCEPT ![c] = Over]
      /\ used' = IF used = None THEN None ELSE used + call[c].is - call[c].was
      /\ UNCHANGED <<size, died>>
  BY DEF Reconcile, Finish, Continue
<1>4. Shape(Over) /\ ApartCall(Over)' /\ Correction(Over) = 0 /\ Hold(Over) = 0
  BY LocalShapes DEF ApartCall, Correction, Hold
<1>5. Correction(call[c]) = call[c].is - call[c].was /\ Hold(call[c]) = 0
  BY <1>1 DEF Correction, Hold
<1>6. SizesMove(c)
  BY <1>1, <1>2, <1>3 DEF SizesMove, TypeOK
<1>7. call'[c] = Over /\ \A d \in Calls : d # c => call'[d] = call[d]
  BY <1>3, <1>4, OneMoves DEF RoomInv
<1>8. ASSUME CounterAddsUp PROVE CounterAddsUp'
  <2>1. CASE used = None
    BY <1>3, <2>1 DEF CounterAddsUp
  <2>2. CASE used # None
    <3>1. used \in Int
      BY <1>1, <2>2 DEF TypeOK
    <3>2. Length(size'[0]) = Length(size[0]) /\ Length(size[0]) \in Int
      BY <1>3, AmountsAreNumbers DEF Numbers
    <3>3. used' + Correction(call'[c]) - Correction(call[c])
              = used + Length(size'[0]) - Length(size[0]) + Hold(call'[c]) - Hold(call[c])
      BY <1>2, <1>3, <1>4, <1>5, <1>7, <2>2, <3>1, <3>2
    <3> QED BY <1>3, <1>7, <1>8, <2>2, <3>3, CounterMoves
  <2> QED BY <2>1, <2>2
<1> QED BY <1>3, <1>4, <1>6, <1>8, ApartMoves DEF Apart

\* The steps that touch neither the counter nor the size of a document.
LEMMA RestingStepAddsUp ==
    ASSUME RoomInv, RoomInv', Apart, NEW c \in Calls, Accept(c) \/ RestingStep(c)
    PROVE  /\ \A d \in Calls : ApartCall(call[d])'
           /\ died' = {} => CounterAddsUp'
<1> DEFINE Goal == (\A d \in Calls : ApartCall(call[d])') /\ (died' = {} => CounterAddsUp')
<1>1. LocalOK(c, call[c]) /\ Shape(call[c]) /\ ApartCall(call[c])
  BY DEF RoomInv, RoomTypes, CallsOK, Apart
<1>2. UNCHANGED <<used, size>>
  BY DEF RestingStep, Ensure, ReadQuota, CreateFails, Put, ReadSize, Head, Charge, RecordCheck, Fail,
         Accept, Upload, Receive, Confirm, Verify, Begin, storage
<1>3. ASSUME NEW l, Shape(l), call' = [call EXCEPT ![c] = l], died' = died,
             ApartCall(l), Correction(l) = Correction(call[c]), Hold(l) = Hold(call[c])
      PROVE  Goal
  BY <1>2, <1>3, ApartRests
<1>4. ASSUME NEW l, call' = [call EXCEPT ![c] = l], Shape(l), died' = died, ApartCall(l),
             l.step \notin {"create", "release", "reconcile"},
             call[c].step \notin {"create", "release", "reconcile"}
      PROVE  Goal
  BY <1>3, <1>4 DEF Correction, Hold
<1>5. CASE Accept(c)
  <2>1. At(c, "idle") /\ UNCHANGED died
    BY <1>5 DEF Accept, Upload, Receive, Confirm, Verify, Begin
  <2>2. ASSUME NEW s \in Sizes, Upload(c, s) PROVE Goal
    <3> DEFINE l == Local("ensure", c, 0, s)
    <3>1. call' = [call EXCEPT ![c] = l] /\ ApartCall(l) /\ Shape(l) /\ l.step = "ensure"
      BY <2>2, LocalShapes DEF Upload, Begin, ApartCall
    <3> HIDE DEF l
    <3> QED BY <1>4, <2>1, <3>1 DEF At
  <2>3. ASSUME NEW s \in Sizes, NEW d \in Documents, Receive(c, d, s) PROVE Goal
    <3> DEFINE l == Local("put", d, 0, s)
    <3>1. call' = [call EXCEPT ![c] = l] /\ ApartCall(l) /\ Shape(l) /\ l.step = "put"
      BY <2>3, LocalShapes DEF Receive, Begin, ApartCall
    <3> HIDE DEF l
    <3> QED BY <1>4, <2>1, <3>1 DEF At
  <2>4. ASSUME NEW d \in Documents, Confirm(c, d) PROVE Goal
    <3> DEFINE l == Local("head", d, size[d], 0)
    <3>1. call' = [call EXCEPT ![c] = l] /\ ApartCall(l) /\ Shape(l) /\ l.step = "head"
      BY <2>4, LocalShapes DEF Confirm, Begin, ApartCall
    <3> HIDE DEF l
    <3> QED BY <1>4, <2>1, <3>1 DEF At
  <2>5. ASSUME Verify(c) PROVE Goal
    <3> DEFINE l == Local("charge", None, balance, 0)
    <3>1. call' = [call EXCEPT ![c] = l] /\ ApartCall(l) /\ Shape(l) /\ l.step = "charge"
      BY <2>5, LocalShapes DEF Verify, Begin, ApartCall
    <3> HIDE DEF l
    <3> QED BY <1>4, <2>1, <3>1 DEF At
  <2> QED BY <1>5, <2>2, <2>3, <2>4, <2>5 DEF Accept
<1>6. CASE Ensure(c)
  <2>1. At(c, "ensure") /\ UNCHANGED died
    BY <1>6 DEF Ensure, Continue
  <2>2. CASE used = None
    <3> DEFINE l == Local("baseline", c, SizesOf(Existing), call[c].is)
    <3>1. call' = [call EXCEPT ![c] = l] /\ ApartCall(l) /\ Shape(l) /\ l.step = "baseline"
      BY <1>6, <2>2, LocalShapes DEF Ensure, Continue, ApartCall
    <3> HIDE DEF l
    <3> QED BY <1>4, <2>1, <3>1 DEF At
  <2>3. CASE used # None
    <3> DEFINE l == Local("reserve", c, 0, call[c].is)
    <3>1. call' = [call EXCEPT ![c] = l] /\ ApartCall(l) /\ Shape(l) /\ l.step = "reserve"
      BY <1>6, <2>3, LocalShapes DEF Ensure, Continue, ApartCall
    <3> HIDE DEF l
    <3> QED BY <1>4, <2>1, <3>1 DEF At
  <2> QED BY <2>2, <2>3
<1>7. CASE CreateFails(c)
  <2>1. PICK l : l = [call[c] EXCEPT !.step = "release"]
    OBVIOUS
  <2>2. Shape(l) /\ l.step = "release" /\ l.is = call[c].is
    BY <1>1, <2>1, StepShapes
  <2>3. call' = [call EXCEPT ![c] = l] /\ UNCHANGED died /\ call[c].step = "create"
    BY <1>7, <2>1 DEF CreateFails, Continue, At
  <2>4. ApartCall(l) /\ Correction(l) = Correction(call[c]) /\ Hold(l) = Hold(call[c])
    BY <2>2, <2>3 DEF ApartCall, Correction, Hold
  <2> QED BY <1>3, <2>2, <2>3, <2>4
<1>8. CASE Put(c)
  <2>1. PICK l : l = [call[c] EXCEPT !.step = "read"]
    OBVIOUS
  <2>2. Shape(l) /\ l.step = "read"
    BY <1>1, <2>1, StepShapes
  <2>3. call' = [call EXCEPT ![c] = l] /\ UNCHANGED died /\ call[c].step = "put"
    BY <1>8, <2>1 DEF Put, Continue, At
  <2>4. ApartCall(l)
    BY <2>2 DEF ApartCall
  <2> QED BY <1>4, <2>2, <2>3, <2>4
<1>9. CASE ReadSize(c)
  <2> DEFINE l == Local("measure", call[c].of, size[call[c].of], call[c].is)
  <2>1. /\ call' = [call EXCEPT ![c] = l] /\ ApartCall(l) /\ Shape(l) /\ l.step = "measure"
        /\ UNCHANGED died /\ call[c].step = "read"
    BY <1>9, LocalShapes DEF ReadSize, Continue, ApartCall, At
  <2> HIDE DEF l
  <2> QED BY <1>4, <2>1
<1>10. CASE Finish(c) /\ call[c].step \notin {"create", "release", "reconcile"}
  <2>1. Shape(Over) /\ Over.step = "done" /\ ApartCall(Over)
    BY LocalShapes DEF ApartCall
  <2> QED BY <1>4, <1>10, <2>1 DEF Finish, Continue
<1>11. CASE Head(c) /\ ~ Finish(c)
  <2> DEFINE l == Local("measure", call[c].of, call[c].was, stored[call[c].of])
  <2>1. /\ call' = [call EXCEPT ![c] = l] /\ Shape(l) /\ l.step = "measure"
        /\ l.was = call[c].was /\ l.of = call[c].of
        /\ UNCHANGED died /\ call[c].step = "head"
    BY <1>11, LocalShapes DEF Head, Continue, At
  <2> HIDE DEF l
  <2>2. ApartCall(l)
    BY <1>1, <2>1 DEF ApartCall
  <2> QED BY <1>4, <2>1, <2>2
<1>12. CASE Charge(c)
  <2> DEFINE l == Local("check", None, 0, 0)
  <2>1. /\ call' = [call EXCEPT ![c] = l] /\ ApartCall(l) /\ Shape(l) /\ l.step = "check"
        /\ UNCHANGED died /\ call[c].step = "charge"
    BY <1>12, LocalShapes DEF Charge, Continue, ApartCall, At
  <2> HIDE DEF l
  <2> QED BY <1>4, <2>1
<1>13. CASE RecordCheck(c) \/ (Head(c) /\ Finish(c))
  BY <1>10, <1>13 DEF RecordCheck, Head, At
<1>14. CASE Fail(c)
  <2>1. died' # {} /\ call' = [call EXCEPT ![c] = Over]
    BY <1>14 DEF Fail
  <2>2. Shape(Over) /\ ApartCall(Over)' /\ SizesMove(c)
    BY <1>2, LocalShapes DEF ApartCall, SizesMove
  <2> QED BY <2>1, <2>2, ApartMoves
<1>15. CASE ReadQuota(c)
  <2> DEFINE l == Local("claim", c, quota, call[c].is)
  <2>1. /\ call' = [call EXCEPT ![c] = l] /\ ApartCall(l) /\ Shape(l) /\ l.step = "claim"
        /\ UNCHANGED died /\ call[c].step = "reserve"
    BY <1>15, LocalShapes DEF ReadQuota, Continue, ApartCall, At
  <2> HIDE DEF l
  <2> QED BY <1>4, <2>1
<1> QED BY <1>5, <1>6, <1>7, <1>8, <1>9, <1>11, <1>12, <1>13, <1>14, <1>15 DEF RestingStep

\* A step of the load whose calls keep apart.
LEMMA ApartNext ==
    ASSUME RoomInv, RoomInv', load.apart => Apart, [MCNext]_MCVars
    PROVE  load'.apart => Apart'
<1>1. CASE UNCHANGED MCVars
  <2>1. UNCHANGED <<used, size, call, died, load>>
    BY <1>1 DEF MCVars, vars, storage
  <2>2. SizesOf(Existing)' = SizesOf(Existing) /\ CounterAddsUp' = CounterAddsUp
    BY <2>1 DEF SizesOf, Existing, CounterAddsUp, Measured, Holding, At
  <2> QED BY <2>1, <2>2 DEF Apart, KeptApart, ApartCall, At
<1>2. CASE MCNext
  <2> SUFFICES ASSUME load'.apart PROVE Apart'
    OBVIOUS
  <2>1. load.apart /\ Next /\ Within'
    BY <1>2 DEF MCNext
  <2>2. Apart
    BY <2>1
  <2>3. KeptApart'
    BY <2>1 DEF Within, KeptApart
  <2>4. ASSUME (\E d \in Documents, s \in Sizes : DirectPut(d, s)) \/ (\E q \in Quotas : ChangePlan(q))
        PROVE  Apart'
    <3>1. UNCHANGED <<used, size, call, died>>
      BY <2>4 DEF DirectPut, ChangePlan, storage
    <3>2. SizesOf(Existing)' = SizesOf(Existing) /\ CounterAddsUp' = CounterAddsUp
      BY <3>1 DEF SizesOf, Existing, CounterAddsUp, Measured, Holding, At
    <3> QED BY <2>2, <2>3, <3>1, <3>2 DEF Apart, ApartCall
  <2>5. ASSUME NEW c \in Calls, Accept(c) \/ Step(c) \/ Fail(c)
        PROVE  (\A d \in Calls : ApartCall(call[d])') /\ (died' = {} => CounterAddsUp')
    BY <2>2, <2>5, BaselineAddsUp, ReserveAddsUp, CreateAddsUp, ReleaseAddsUp, MeasureAddsUp,
       ReconcileAddsUp, RestingStepAddsUp DEF Step, RestingStep
  <2>6. ASSUME NEW c \in Calls, Accept(c) \/ Step(c) \/ Fail(c) PROVE Apart'
    BY <2>3, <2>5, <2>6 DEF Apart
  <2> QED BY <2>1, <2>4, <2>6 DEF Next
<1> QED BY <1>1, <1>2

LEMMA ApartInit ==
    ASSUME Init
    PROVE  Apart
<1>1. RoomInv
  BY RoomInit
<1>2. used \in {None, size[0]} /\ call = [c \in Calls |-> Idle]
  BY DEF Init
<1>3. PICK s \in Sizes : size = [d \in Documents |-> IF d = 0 THEN s ELSE None]
  BY DEF Init
<1>4. \A c \in Calls : call[c].step = "idle"
  BY <1>2, LocalShapes DEF Idle
<1>5. KeptApart /\ \A c \in Calls : ApartCall(call[c])
  BY <1>4 DEF KeptApart, ApartCall, Sending, At
<1>6. CounterAddsUp
  <2>1. Measured = {} /\ Holding = {}
    BY <1>4 DEF Measured, Holding, At
  <2>2. PICK fm, fh : fm = [c \in {} |-> call[c].is - call[c].was] /\ fh = [c \in {} |-> call[c].is]
    OBVIOUS
  <2>3. SumFunction(fm) = 0 /\ SumFunction(fh) = 0
    BY <2>2, SumEmpty DEF SumFunction
  <2>4. size[0] \in Int
    BY <1>3
  <2>5. SizesOf(Existing) = size[0]
    <3>1. Existing = {0}
      BY <1>3 DEF Existing
    <3> QED BY <2>4, <3>1, SizesOfOne
  <2>6. used # None => used = size[0]
    BY <1>2
  <2> QED BY <2>1, <2>2, <2>3, <2>4, <2>5, <2>6 DEF CounterAddsUp
<1> QED BY <1>5, <1>6 DEF Apart

USE CallsAssumption, BoundsAssumption

-----------------------------------------------------------------------------
(* Frames                                                                   *)

\* The calls that charge are among those that are served.
LEMMA ChargingIsServed ==
    ASSUME InFlightOK
    PROVE  /\ Charging \subseteq InFlight
           /\ IsFiniteSet(Charging)
           /\ Cardinality(Charging) \in Nat
           /\ Cardinality(Charging) <= MaxInFlight
<1>1. Charging \subseteq InFlight
  BY DEF Charging, InFlight, At
<1>2. IsFiniteSet(Charging) /\ Cardinality(Charging) <= Cardinality(InFlight)
  BY <1>1, FS_Subset DEF InFlightOK
<1>3. Cardinality(Charging) \in Nat /\ Cardinality(InFlight) \in Nat
  BY <1>2, FS_CardinalityType DEF InFlightOK
<1> QED BY <1>1, <1>2, <1>3 DEF InFlightOK

\* A call that is served goes on, or comes to its end: no more are served, and
\* only its own charge is no longer to come.
LEMMA GoesOn ==
    ASSUME CallsOK, InFlightOK, NEW c \in InFlight, NEW l, Shape(l),
           call' = [call EXCEPT ![c] = l], l.step \notin {"idle", "charge"}
    PROVE  /\ InFlightOK'
           /\ Charging' = Charging \ {c}
<1>0. c \in Calls
  BY DEF InFlight
<1>1. call'[c] = l /\ \A d \in Calls : d # c => call'[d] = call[d]
  BY <1>0, OneMoves
<1>2. InFlight' \subseteq InFlight
  BY <1>0, <1>1 DEF InFlight
<1>3. IsFiniteSet(InFlight') /\ Cardinality(InFlight') <= Cardinality(InFlight)
  BY <1>2, FS_Subset DEF InFlightOK
<1>4. Cardinality(InFlight') \in Nat /\ Cardinality(InFlight) \in Nat
  BY <1>3, FS_CardinalityType DEF InFlightOK
<1>5. InFlightOK'
  BY <1>3, <1>4 DEF InFlightOK
<1>6. Charging' = Charging \ {c}
  BY <1>0, <1>1 DEF Charging, At
<1> QED BY <1>5, <1>6

\* A call is let in: one more is served, and the limit is kept.
LEMMA LetIn ==
    ASSUME CallsOK, InFlightOK, NEW c \in Calls, NEW l, Shape(l), Begin(c, l),
           l.step \notin {"idle", "done"}
    PROVE  /\ CallsOK' /\ InFlightOK'
           /\ call'[c] = l /\ \A d \in Calls : d # c => call'[d] = call[d]
           /\ l.step # "charge" => Charging' = Charging
<1>1. call' = [call EXCEPT ![c] = l] /\ At(c, "idle") /\ Cardinality(InFlight) < MaxInFlight
  BY DEF Begin
<1>2. CallsOK' /\ call'[c] = l /\ \A d \in Calls : d # c => call'[d] = call[d]
  BY <1>1, OneMoves
<1>3. InFlight' = InFlight \union {c} /\ c \notin InFlight
  BY <1>1, <1>2 DEF InFlight, At
<1>4. IsFiniteSet(InFlight') /\ Cardinality(InFlight') = Cardinality(InFlight) + 1
  BY <1>3, FS_AddElement DEF InFlightOK
<1>5. Cardinality(InFlight) \in Nat
  BY FS_CardinalityType DEF InFlightOK
<1>6. InFlightOK'
  BY <1>1, <1>4, <1>5 DEF InFlightOK
<1>7. l.step # "charge" => Charging' = Charging
  BY <1>1, <1>2 DEF Charging, At
<1> QED BY <1>2, <1>6, <1>7

\* A step that neither starts nor ends a charge leaves the wallet's story as it is.
LEMMA WalletUntouched ==
    ASSUME WalletInv, NEW c \in Calls, CallsOK', InFlightOK',
           \A d \in Calls : d # c => call'[d] = call[d],
           ~ At(c, "idle")' /\ ~ At(c, "charge")' /\ ~ At(c, "check")',
           Charging' \subseteq Charging, UNCHANGED <<balance, ledger>>,
           checks' \subseteq ledger
    PROVE  WalletInv'
<1>1. ChargedOnce'
  BY DEF WalletInv, ChargedOnce, At
<1>2. IsFiniteSet(Charging) /\ Cardinality(Charging) \in Nat
  BY ChargingIsServed DEF WalletInv
<1>3. IsFiniteSet(Charging') /\ Cardinality(Charging') <= Cardinality(Charging)
  BY <1>2, FS_Subset
<1>4. Cardinality(Charging') \in Nat
  BY <1>3, FS_CardinalityType
<1>5. LeftOver'
  BY <1>2, <1>3, <1>4 DEF WalletInv, LeftOver
<1>6. WalletIsSound'
  BY DEF WalletInv, WalletIsSound, BalanceMatchesLedger, ChecksArePaid
<1> QED BY <1>1, <1>5, <1>6 DEF WalletInv

\* Nor does a step that moves no call.
LEMMA NobodyMoves ==
    ASSUME WalletInv, UNCHANGED <<wallet, call>>
    PROVE  WalletInv'
<1>1. InFlight' = InFlight /\ Charging' = Charging
  BY DEF InFlight, Charging, At
<1> QED BY <1>1 DEF WalletInv, CallsOK, WalletIsSound, BalanceMatchesLedger, ChecksArePaid, ChargedOnce,
              InFlightOK, LeftOver, At, wallet

-----------------------------------------------------------------------------
(* The steps                                                                *)

LEMMA InitHolds == Init => WalletInv
<1> SUFFICES ASSUME Init PROVE WalletInv
  OBVIOUS
<1>1. /\ call = [c \in Calls |-> Idle] /\ balance = Operations
      /\ ledger = {} /\ checks = {}
  BY DEF Init
<1>2. CallsOK
  BY <1>1 DEF CallsOK, Shape, Idle, Local
<1>3. InFlight = {} /\ Charging = {}
  BY <1>1 DEF InFlight, Charging, At, Idle, Local
<1>4. IsFiniteSet({}) /\ Cardinality({}) = 0
  BY FS_EmptySet
<1>5. InFlightOK /\ LeftOver
  BY <1>1, <1>3, <1>4, QuotaAssumption DEF InFlightOK, LeftOver
<1>6. WalletIsSound /\ ChargedOnce
  BY <1>1, <1>4, QuotaAssumption DEF WalletIsSound, BalanceMatchesLedger, ChecksArePaid, ChargedOnce, At, Idle, Local
<1> QED BY QuotaAssumption, <1>1, <1>2, <1>4, <1>5, <1>6 DEF WalletInv

\* A call about documents is let in.
LEMMA DocumentCallKeeps ==
    ASSUME WalletInv, NEW c \in Calls, NEW l, Shape(l), Begin(c, l), l.step \in {"ensure", "put", "head"}
    PROVE  WalletInv'
<1>1. /\ CallsOK' /\ InFlightOK' /\ call'[c] = l
      /\ \A d \in Calls : d # c => call'[d] = call[d]
      /\ Charging' = Charging
  BY LetIn DEF WalletInv
<1>2. UNCHANGED <<balance, ledger, checks>>
  BY DEF Begin, wallet
<1>3. ~ At(c, "idle")' /\ ~ At(c, "charge")' /\ ~ At(c, "check")'
  BY <1>1 DEF At
<1>4. checks' \subseteq ledger
  BY <1>2 DEF WalletInv, WalletIsSound, ChecksArePaid
<1> QED BY <1>1, <1>2, <1>3, <1>4, WalletUntouched

\* A call is let in on a balance of one operation at least.
LEMMA VerifyKeeps ==
    ASSUME WalletInv, NEW c \in Calls, Verify(c)
    PROVE  WalletInv'
<1> DEFINE l == Local("charge", None, balance, 0)
<1>1. Shape(l) /\ l.step = "charge"
  BY DEF Shape, Local
<1>2. Begin(c, l) /\ balance > 0
  BY DEF Verify
<1> HIDE DEF l
<1>3. /\ CallsOK' /\ InFlightOK' /\ call'[c] = l
      /\ \A d \in Calls : d # c => call'[d] = call[d]
  BY <1>1, <1>2, LetIn DEF WalletInv
<1>4. UNCHANGED <<balance, ledger, checks>> /\ At(c, "idle")
  BY <1>2 DEF Begin, wallet
<1>5. Cardinality(Charging') \in Nat /\ Cardinality(Charging') <= MaxInFlight
  <2>1. Charging' \subseteq InFlight'
    BY DEF Charging, InFlight, At
  <2>2. IsFiniteSet(Charging') /\ Cardinality(Charging') <= Cardinality(InFlight')
    BY <1>3, <2>1, FS_Subset DEF InFlightOK
  <2>3. Cardinality(Charging') \in Nat /\ Cardinality(InFlight') \in Nat
    BY <1>3, <2>2, FS_CardinalityType DEF InFlightOK
  <2> QED BY <1>3, <2>2, <2>3 DEF InFlightOK
<1>6. LeftOver'
  BY <1>2, <1>4, <1>5 DEF LeftOver, WalletInv
<1>7. ChargedOnce'
  BY <1>1, <1>3, <1>4 DEF WalletInv, ChargedOnce, At
<1> QED BY <1>3, <1>4, <1>6, <1>7 DEF WalletInv, WalletIsSound, BalanceMatchesLedger, ChecksArePaid

\* A step of a call about documents.
LEMMA DocumentStepKeeps ==
    ASSUME WalletInv, NEW c \in Calls, NEW l, Shape(l), call' = [call EXCEPT ![c] = l],
           c \in InFlight, l.step \notin {"idle", "charge", "check"},
           UNCHANGED <<balance, ledger>>, checks' \subseteq ledger
    PROVE  WalletInv'
<1>1. CallsOK' /\ call'[c] = l /\ \A d \in Calls : d # c => call'[d] = call[d]
  BY OneMoves DEF WalletInv
<1>2. InFlightOK' /\ Charging' = Charging \ {c}
  BY GoesOn DEF WalletInv
<1>3. ~ At(c, "idle")' /\ ~ At(c, "charge")' /\ ~ At(c, "check")'
  BY <1>1 DEF At
<1> QED BY <1>1, <1>2, <1>3, WalletUntouched

\* The charge: one operation less, and one row more in the ledger.
LEMMA ChargeKeeps ==
    ASSUME WalletInv, NEW c \in Calls, Charge(c)
    PROVE  WalletInv'
<1> DEFINE l == Local("check", None, 0, 0)
<1>1. Shape(l) /\ l.step = "check"
  BY DEF Shape, Local
<1>2. /\ At(c, "charge") /\ call' = [call EXCEPT ![c] = l]
      /\ balance' = balance - 1 /\ ledger' = ledger \union {c} /\ checks' = checks
  BY DEF Charge, Continue
<1> HIDE DEF l
<1>3. c \in InFlight
  BY <1>2 DEF InFlight, At
<1>4. CallsOK' /\ call'[c] = l /\ \A d \in Calls : d # c => call'[d] = call[d]
  BY <1>1, <1>2, OneMoves DEF WalletInv
<1>5. InFlightOK' /\ Charging' = Charging \ {c}
  BY <1>1, <1>2, <1>3, GoesOn DEF WalletInv
<1>6. c \notin ledger /\ c \in Charging
  BY <1>2 DEF WalletInv, ChargedOnce, Charging
<1>7. /\ IsFiniteSet(ledger') /\ Cardinality(ledger') = Cardinality(ledger) + 1
      /\ Cardinality(ledger) \in Nat
  BY <1>2, <1>6, FS_AddElement, FS_CardinalityType DEF WalletInv
<1>8. IsFiniteSet(Charging) /\ Cardinality(Charging) \in Nat
  BY ChargingIsServed DEF WalletInv
<1>9. Cardinality(Charging') = Cardinality(Charging) - 1
  BY <1>5, <1>6, <1>8, FS_RemoveElement
<1>10. LeftOver' /\ balance' \in Int
  BY <1>2, <1>8, <1>9 DEF WalletInv, LeftOver
<1>11. WalletIsSound'
  BY <1>2, <1>7, QuotaAssumption DEF WalletInv, WalletIsSound, BalanceMatchesLedger, ChecksArePaid
<1>12. ChargedOnce'
  BY <1>1, <1>2, <1>4 DEF WalletInv, ChargedOnce, At
<1> QED BY <1>2, <1>4, <1>5, <1>7, <1>10, <1>11, <1>12 DEF WalletInv

\* The check is recorded of a call that has charged.
LEMMA RecordCheckKeeps ==
    ASSUME WalletInv, NEW c \in Calls, RecordCheck(c)
    PROVE  WalletInv'
<1>1. /\ At(c, "check") /\ call' = [call EXCEPT ![c] = Over] /\ checks' = checks \union {c}
      /\ UNCHANGED <<balance, ledger>>
  BY DEF RecordCheck, Finish, Continue
<1>2. Shape(Over) /\ Over.step = "done"
  BY DEF Shape, Over, Local
<1>3. c \in InFlight /\ c \in ledger
  BY <1>1 DEF InFlight, At, WalletInv, ChargedOnce
<1>4. checks' \subseteq ledger
  BY <1>1, <1>3 DEF WalletInv, WalletIsSound, ChecksArePaid
<1> QED BY <1>1, <1>2, <1>3, <1>4, DocumentStepKeeps

\* A call dies.
LEMMA FailKeeps ==
    ASSUME WalletInv, NEW c \in Calls, Fail(c)
    PROVE  WalletInv'
<1>1. c \in InFlight /\ call' = [call EXCEPT ![c] = Over] /\ UNCHANGED <<balance, ledger, checks>>
  BY DEF Fail, wallet
<1>2. Shape(Over) /\ Over.step = "done"
  BY DEF Shape, Over, Local
<1>3. checks' \subseteq ledger
  BY <1>1 DEF WalletInv, WalletIsSound, ChecksArePaid
<1> QED BY <1>1, <1>2, <1>3, DocumentStepKeeps

DocumentStep(c) ==
    \/ Ensure(c) \/ Baseline(c) \/ ReadQuota(c) \/ Reserve(c)
    \/ CreateDocument(c) \/ CreateFails(c) \/ Release(c)
    \/ Put(c) \/ ReadSize(c) \/ Head(c) \/ Measure(c) \/ Reconcile(c)

\* A step of a call about documents leads to another one, or to the end.
LEMMA DocumentStepMoves ==
    ASSUME CallsOK, NEW c \in Calls, DocumentStep(c)
    PROVE  /\ c \in InFlight
           /\ \E l : /\ Shape(l) /\ call' = [call EXCEPT ![c] = l]
                     /\ l.step \notin {"idle", "charge", "check"}
<1>1. call[c] = Local(call[c].step, call[c].of, call[c].was, call[c].is)
  BY DEF CallsOK, Shape
<1>2. c \in InFlight
  BY DEF DocumentStep, Ensure, Baseline, ReadQuota, Reserve, CreateDocument, CreateFails, Release, Put,
         ReadSize, Head, Measure, Reconcile, InFlight, At
<1>3. CASE Finish(c)
  <2>1. Shape(Over) /\ Over.step = "done"
    BY DEF Shape, Over, Local
  <2> QED BY <1>2, <1>3, <2>1 DEF Finish, Continue
<1>4. CASE \E l : Continue(c, l) /\ Shape(l) /\ l.step \notin {"idle", "charge", "check"}
  BY <1>2, <1>4 DEF Continue
<1>5. ASSUME NEW step \in {"baseline", "reserve", "create", "release", "read", "measure", "reconcile"}
      PROVE  LET l == [call[c] EXCEPT !.step = step] IN Shape(l) /\ l.step = step
  BY <1>1 DEF Shape, Local
<1>6. ASSUME NEW step \in {"baseline", "reserve", "claim", "measure"}, NEW of, NEW was, NEW is
      PROVE  Shape(Local(step, of, was, is)) /\ Local(step, of, was, is).step = step
  BY DEF Shape, Local
<1>7. CASE Ensure(c)
  BY <1>7, <1>4, <1>6 DEF Ensure
<1>8. CASE ReadSize(c) \/ ReadQuota(c)
  BY <1>8, <1>4, <1>6 DEF ReadSize, ReadQuota
<1>9. CASE Head(c)
  BY <1>9, <1>3, <1>4, <1>6 DEF Head
<1>10. CASE Baseline(c) \/ Reserve(c) \/ CreateFails(c) \/ Put(c) \/ Measure(c)
  BY <1>10, <1>3, <1>4, <1>5 DEF Baseline, Reserve, CreateFails, Put, Measure
<1>11. CASE CreateDocument(c) \/ Release(c) \/ Reconcile(c)
  BY <1>11, <1>3 DEF CreateDocument, Release, Reconcile
<1> QED BY <1>7, <1>8, <1>9, <1>10, <1>11 DEF DocumentStep

\* ... and does not touch the wallet.
LEMMA DocumentStepIsApart ==
    ASSUME NEW c \in Calls, DocumentStep(c)
    PROVE  UNCHANGED wallet
BY DEF DocumentStep, Ensure, Baseline, ReadQuota, Reserve, CreateDocument, CreateFails, Release, Put,
       ReadSize, Head, Measure, Reconcile

LEMMA AcceptKeeps ==
    ASSUME WalletInv, NEW c \in Calls, Accept(c)
    PROVE  WalletInv'
<1>1. \A step, of, was, is : Shape(Local(step, of, was, is)) /\ Local(step, of, was, is).step = step
  BY DEF Shape, Local
<1>2. ASSUME NEW s \in Sizes, Upload(c, s) PROVE WalletInv'
  BY <1>1, <1>2, DocumentCallKeeps DEF Upload
<1>3. ASSUME NEW s \in Sizes, NEW d \in Documents, Receive(c, d, s) PROVE WalletInv'
  BY <1>1, <1>3, DocumentCallKeeps DEF Receive
<1>4. ASSUME NEW d \in Documents, Confirm(c, d) PROVE WalletInv'
  BY <1>1, <1>4, DocumentCallKeeps DEF Confirm
<1> QED BY <1>2, <1>3, <1>4, VerifyKeeps DEF Accept

LEMMA NextKeeps == WalletInv /\ [Next]_vars => WalletInv'
<1> SUFFICES ASSUME WalletInv, [Next]_vars PROVE WalletInv'
  OBVIOUS
<1>1. ASSUME NEW c \in Calls, Accept(c) PROVE WalletInv'
  BY <1>1, AcceptKeeps
<1>2. ASSUME NEW c \in Calls, DocumentStep(c) PROVE WalletInv'
  <2>1. UNCHANGED <<balance, ledger, checks>> /\ checks' \subseteq ledger
    BY <1>2, DocumentStepIsApart DEF wallet, WalletInv, WalletIsSound, ChecksArePaid
  <2>2. PICK l : /\ Shape(l) /\ call' = [call EXCEPT ![c] = l]
                 /\ l.step \notin {"idle", "charge", "check"}
    BY <1>2, DocumentStepMoves DEF WalletInv
  <2> QED BY <1>2, <2>1, <2>2, DocumentStepMoves, DocumentStepKeeps DEF WalletInv
<1>3. ASSUME NEW c \in Calls, Charge(c) \/ RecordCheck(c) PROVE WalletInv'
  BY <1>3, ChargeKeeps, RecordCheckKeeps
<1>4. ASSUME NEW c \in Calls, Fail(c) PROVE WalletInv'
  BY <1>4, FailKeeps
<1>5. ASSUME NEW d \in Documents, NEW s \in Sizes, DirectPut(d, s) PROVE WalletInv'
  BY <1>5, NobodyMoves DEF DirectPut, wallet
<1>6. CASE UNCHANGED vars
  BY <1>6, NobodyMoves DEF vars, wallet
<1>7. ASSUME NEW q \in Quotas, ChangePlan(q) PROVE WalletInv'
  BY <1>7, NobodyMoves DEF ChangePlan, wallet
<1> QED BY <1>1, <1>2, <1>3, <1>4, <1>5, <1>6, <1>7 DEF Next, Step, DocumentStep

-----------------------------------------------------------------------------
\* The invariant holds in every behaviour of the API.
THEOREM WalletSafe == Spec => []WalletInv
<1> QED BY InitHolds, NextKeeps, PTL DEF Spec

\* For any number of checks at a time, and of deaths between the charge and the
\* record: the balance is what the ledger says, and nothing is checked for free.
THEOREM WalletAlwaysSound == Spec => []WalletIsSound
<1>1. WalletInv => WalletIsSound
  BY DEF WalletInv
<1> QED BY <1>1, WalletSafe, PTL

\* A wallet is overdrawn by one operation for each other call at a time at most.
THEOREM OverdraftAlwaysBounded == Spec => []OverdraftIsBounded
<1>1. WalletInv => OverdraftIsBounded
  <2> SUFFICES ASSUME WalletInv PROVE OverdraftIsBounded
    OBVIOUS
  <2>1. Cardinality(Charging) \in Nat
    BY ChargingIsServed DEF WalletInv
  <2> QED BY <2>1 DEF WalletInv, LeftOver, OverdraftIsBounded
<1> QED BY <1>1, WalletSafe, PTL

\* The rows have their types, and a call finds the rows that it counts on, in every
\* behaviour of the API, under any load.
THEOREM RoomSafe == Spec => [](WalletInv /\ RoomInv)
<1>1. Init => WalletInv /\ RoomInv
  BY InitHolds, RoomInit
<1>2. WalletInv /\ RoomInv /\ [Next]_vars => (WalletInv /\ RoomInv)'
  BY NextKeeps, RoomNext
<1> QED BY <1>1, <1>2, PTL DEF Spec

\* The counter is never above the largest quota so far, or what was stored before,
\* while files are as large as announced, however calls interleave, whichever die and
\* whenever the plan changes; it is the sum of the documents, but for what calls in
\* progress hold or have to correct, while calls of one document keep apart and none
\* dies. For any number of calls, documents and changes of plan.
THEOREM QuotaAlwaysSound == MCSpec => []QuotaIsSound
<1> DEFINE IInv == /\ WalletInv /\ RoomInv
                   /\ load.honest => Honest
                   /\ load.apart => Apart
<1>1. MCInit => IInv
  BY InitHolds, RoomInit, HonestInit, ApartInit DEF MCInit
<1>2. IInv /\ [MCNext]_MCVars => IInv'
  <2> SUFFICES ASSUME IInv, [MCNext]_MCVars PROVE IInv'
    OBVIOUS
  <2>1. [Next]_vars
    BY DEF MCNext, MCVars
  <2>2. WalletInv' /\ RoomInv'
    BY <2>1, NextKeeps, RoomNext
  <2>3. load'.honest => Honest'
    BY HonestNext
  <2>4. load'.apart => Apart'
    BY <2>2, ApartNext
  <2> QED BY <2>2, <2>3, <2>4
<1>3. IInv => QuotaIsSound
  BY DEF RoomInv, RoomTypes, Honest, Apart, QuotaIsSound
<1> QED BY <1>1, <1>2, <1>3, PTL DEF MCSpec
HIDE RowValues

-----------------------------------------------------------------------------
(* The notices of Reminders, for any rows and any number of sweeps          *)
(* A sweep notifies first and marks afterwards, so the count of a job is    *)
(* not bounded by what is marked. What is inductive tells two phases apart. *)
(* While a job may still be listed, each notice but those of the sweeps     *)
(* that are about to mark it has been paid for by a failure. Once it is     *)
(* marked or gone nobody lists it again, and only the sweeps that hold it   *)
(* may notify of it, each once.                                             *)

\* The sweeps that have notified of a job and not marked it, and those that
\* have listed it and are still to notify of it.
Told(j) == {w \in Sweepers : sweep[w].told = j}
Held(j) == {w \in Sweepers : j \in sweep[w].todo /\ sweep[w].told # j}

\* A job that a sweep may still list.
Fresh(j) == j[2] \in rows /\ j \notin marked

\* The notices that all sweeps together may repeat.
Allowed(f) == Cardinality(Sweepers) * f

\* While a job can be listed, each repetition is one sweep that is about to
\* mark it or one that failed. Once it cannot, those that hold it may finish.
BoundOf(j) ==
    /\ Fresh(j) => tried[j] <= Allowed(faults) + Cardinality(Told(j))
    /\ ~ Fresh(j) => tried[j] + Cardinality(Held(j)) <= Allowed(faults + 1)
BoundsOK == \A j \in Jobs : BoundOf(j)

\* A sweep marks what it has listed, and a sweep that rests holds nothing.
SweepOK ==
    \A w \in Sweepers :
        /\ sweep[w].told # Nothing => sweep[w].told \in sweep[w].todo
        /\ sweep[w].pass = 0 => sweep[w].todo = {}

\* Nobody has seen the rows of a plan that is not there yet.
UntouchedOK ==
    \A j \in Jobs : j[2] \in NextPlan \ rows =>
        /\ tried[j] = 0
        /\ \A w \in Sweepers : j \notin sweep[w].todo

\* What is marked, or about to be, has been notified of.
TriedOK ==
    /\ \A j \in marked : j[1] # "report" /\ tried[j] > 0
    /\ \A w \in Sweepers :
        sweep[w].told # Nothing /\ sweep[w].told[1] # "report" => tried[sweep[w].told] > 0

\* The inductive invariant.
NoticesInv == SweepTypes /\ SweepOK /\ UntouchedOK /\ TriedOK /\ BoundsOK

\* How many sweeps hold a job.
LEMMA Counted ==
    ASSUME IsFiniteSet(Sweepers), NEW A, NEW B, A \subseteq Sweepers, B \subseteq Sweepers
    PROVE  /\ Cardinality(Sweepers) \in Nat /\ Cardinality(A) \in Nat
           /\ Cardinality(A) <= Cardinality(Sweepers)
           /\ A \subseteq B => Cardinality(A) <= Cardinality(B)
<1>1. IsFiniteSet(A) /\ IsFiniteSet(B)
  BY FS_Subset
<1> QED BY <1>1, FS_Subset, FS_CardinalityType

\* Two groups of sweeps without a sweep in common.
LEMMA CountedApart ==
    ASSUME IsFiniteSet(Sweepers), NEW A, NEW B, A \subseteq Sweepers, B \subseteq Sweepers, A \intersect B = {}
    PROVE  Cardinality(A) + Cardinality(B) <= Cardinality(Sweepers)
<1>1. IsFiniteSet(A) /\ IsFiniteSet(B) /\ IsFiniteSet(A \union B)
  BY FS_Subset, FS_Union
<1>2. Cardinality(A \union B) = Cardinality(A) + Cardinality(B) - Cardinality({})
  BY <1>1, FS_Union
<1>3. Cardinality(A) \in Nat /\ Cardinality(B) \in Nat
  BY <1>1, FS_CardinalityType
<1>4. Cardinality(A \union B) <= Cardinality(Sweepers)
  BY FS_Subset
<1> QED BY <1>2, <1>3, <1>4, FS_EmptySet

\* A sweep goes from one group to the other.
LEMMA CountedMove ==
    ASSUME IsFiniteSet(Sweepers), NEW A, NEW B, A \subseteq Sweepers, B \subseteq Sweepers,
           NEW w \in B, w \notin A
    PROVE  /\ Cardinality(A \union {w}) = Cardinality(A) + 1
           /\ Cardinality(B \ {w}) = Cardinality(B) - 1
<1>1. IsFiniteSet(A) /\ IsFiniteSet(B)
  BY FS_Subset
<1> QED BY <1>1, FS_AddElement, FS_RemoveElement

\* What one more failure allows.
LEMMA AllowedMore ==
    ASSUME IsFiniteSet(Sweepers), NEW f \in Nat
    PROVE  /\ Allowed(f) \in Nat
           /\ Allowed(f + 1) = Allowed(f) + Cardinality(Sweepers)
<1>1. Cardinality(Sweepers) \in Nat
  BY FS_CardinalityType
<1>2. PICK n \in Nat : n = Cardinality(Sweepers)
  BY <1>1
<1>3. n * f \in Nat /\ n * (f + 1) = n * f + n
  OBVIOUS
<1> QED BY <1>2, <1>3 DEF Allowed

\* No sweep is in both groups of a job.
LEMMA HoldersTyped ==
    ASSUME NEW j
    PROVE  /\ Told(j) \subseteq Sweepers /\ Held(j) \subseteq Sweepers
           /\ Told(j)' \subseteq Sweepers /\ Held(j)' \subseteq Sweepers
           /\ Told(j) \intersect Held(j) = {}
BY DEF Told, Held

\* Every step but a notice: a job keeps its bound if it is not tried once more,
\* if no sweep comes to hold it, and if a sweep that gives it up unmarked failed.
LEMMA BoundKept ==
    ASSUME IsFiniteSet(Sweepers), NEW j \in Jobs, BoundOf(j),
           faults \in Nat, faults' \in Nat, tried[j] \in Nat, tried'[j] \in Nat,
           faults' = faults \/ faults' = faults + 1,
           tried'[j] = 0 \/ tried'[j] = tried[j],
           Fresh(j)' /\ tried'[j] # 0 => Fresh(j) /\ (Told(j) \subseteq Told(j)' \/ faults' = faults + 1),
           ~ Fresh(j)' /\ tried'[j] # 0 => Held(j)' \subseteq Held(j)
    PROVE  BoundOf(j)'
<1> DEFINE S == Cardinality(Sweepers)
           t == Cardinality(Told(j))     h == Cardinality(Held(j))
           u == Cardinality(Told(j)')    k == Cardinality(Held(j)')
           p == Allowed(faults)          q == Allowed(faults')
<1>1. /\ S \in Nat /\ t \in 0..S /\ h \in 0..S /\ u \in 0..S /\ k \in 0..S
      /\ Told(j) \subseteq Told(j)' => t <= u
      /\ Held(j)' \subseteq Held(j) => k <= h
  BY HoldersTyped, Counted
<1>2. t + h <= S
  BY HoldersTyped, CountedApart
<1>3. /\ p \in Nat /\ q \in Nat
      /\ Allowed(faults + 1) = p + S /\ Allowed(faults' + 1) = q + S
      /\ faults' = faults => q = p
      /\ faults' = faults + 1 => q = p + S
  BY AllowedMore
<1>4. /\ Fresh(j) => tried[j] <= p + t
      /\ ~ Fresh(j) => tried[j] + h <= p + S
  BY <1>3 DEF BoundOf
<1>5. Fresh(j)' => tried'[j] <= q + u
  <2> HIDE DEF S, t, h, u, k, p, q
  <2> QED BY <1>1, <1>2, <1>3, <1>4
<1>6. ~ Fresh(j)' => tried'[j] + k <= q + S
  <2> HIDE DEF S, t, h, u, k, p, q
  <2> QED BY <1>1, <1>2, <1>3, <1>4
<1>7. /\ Cardinality(Told(j))' = u /\ Cardinality(Held(j))' = k
      /\ Allowed(faults)' = q /\ Allowed(faults + 1)' = q + S
  BY <1>3 DEF Allowed
<1> HIDE DEF S, t, h, u, k, p, q
<1> QED BY <1>5, <1>6, <1>7 DEF BoundOf

-----------------------------------------------------------------------------
(* Steps of the reminders                                                   *)

Position == [pass : 0..LastPass, todo : SUBSET Jobs, told : Jobs \union {Nothing}]

\* A sweep moves: it leaves the groups it was in for those of where it goes.
LEMMA HoldersAfter ==
    ASSUME sweep \in [Sweepers -> Position], NEW w \in Sweepers, NEW at \in Position, NEW j,
           sweep' = [sweep EXCEPT ![w] = at]
    PROVE  /\ Told(j)' = IF at.told = j THEN Told(j) \union {w} ELSE Told(j) \ {w}
           /\ Held(j)' = IF j \in at.todo /\ at.told # j THEN Held(j) \union {w} ELSE Held(j) \ {w}
<1>1. \A v \in Sweepers : sweep'[v] = IF v = w THEN at ELSE sweep[v]
  OBVIOUS
<1>2. Told(j)' = {v \in Sweepers : sweep'[v].told = j}
  BY DEF Told
<1>3. Held(j)' = {v \in Sweepers : j \in sweep'[v].todo /\ sweep'[v].told # j}
  BY DEF Held
<1> QED BY <1>1, <1>2, <1>3 DEF Told, Held

\* A sweep lists, gives up or fails: it holds nothing new but what may be listed,
\* and forgets what it has notified of only if that is gone or a step failed.
LEMMA MoveKeeps ==
    ASSUME NoticesInv, NEW w \in Sweepers, NEW at \in Position,
           sweep' = [sweep EXCEPT ![w] = at], UNCHANGED <<table, tried, manual>>,
           faults' \in 0..MaxFaults, faults' = faults \/ faults' = faults + 1,
           at.told = Nothing, at.pass = 0 => at.todo = {},
           \A j \in at.todo : Fresh(j) \/ (j \in sweep[w].todo /\ j # sweep[w].told),
           sweep[w].told # Nothing /\ Fresh(sweep[w].told) => faults' = faults + 1
    PROVE  NoticesInv'
<1> USE RowsAssumption DEF NoticesInv, table
<1>1. sweep \in [Sweepers -> Position] /\ sweep' \in [Sweepers -> Position]
  BY DEF SweepTypes, Position
<1>2. \A v \in Sweepers : sweep'[v] = IF v = w THEN at ELSE sweep[v]
  BY <1>1
<1>3. SweepTypes'
  BY <1>1 DEF SweepTypes, Position
<1>4. SweepOK'
  BY <1>2 DEF SweepOK
<1>5. UntouchedOK'
  BY <1>2 DEF UntouchedOK, Fresh
<1>6. TriedOK'
  BY <1>2 DEF TriedOK
<1>7. ASSUME NEW j \in Jobs PROVE BoundOf(j)'
  <2>1. (Fresh(j)' <=> Fresh(j)) /\ at.told # j
    BY DEF Fresh
  <2>2. /\ Told(j)' = Told(j) \ {w}
        /\ Held(j)' = IF j \in at.todo THEN Held(j) \union {w} ELSE Held(j) \ {w}
    <3> HIDE DEF NoticesInv, table
    <3> QED BY <1>1, <2>1, HoldersAfter
  <2>3. Fresh(j) => Told(j) \subseteq Told(j)' \/ faults' = faults + 1
    BY <2>2 DEF Told
  <2>4. ~ Fresh(j) => Held(j)' \subseteq Held(j)
    BY <2>2 DEF Held
  <2>5. tried[j] \in Nat /\ tried'[j] \in Nat /\ faults \in Nat /\ faults' \in Nat
    BY DEF SweepTypes
  <2> QED BY <2>1, <2>3, <2>4, <2>5, BoundKept, SweepersAssumption DEF BoundsOK
<1> QED BY <1>3, <1>4, <1>5, <1>6, <1>7 DEF BoundsOK

\* Rows come, go and change while the sweeps stand still.
LEMMA RowsKeep ==
    ASSUME NoticesInv, SweepTypes', UNCHANGED <<tried, sweep, faults, marked>>,
           rows' \ rows \subseteq NextPlan, NextPlan \ rows' \subseteq NextPlan \ rows
    PROVE  NoticesInv'
<1> USE DEF NoticesInv
<1>1. SweepOK' /\ TriedOK'
  BY DEF SweepOK, TriedOK
<1>2. UntouchedOK'
  BY DEF UntouchedOK
<1>3. ASSUME NEW j \in Jobs PROVE BoundOf(j)'
  <2>1. Told(j)' = Told(j) /\ Held(j)' = Held(j)
    BY DEF Told, Held
  <2>2. Fresh(j)' => Fresh(j) \/ tried[j] = 0
    BY DEF Fresh, UntouchedOK
  <2>3. tried[j] \in Nat /\ faults \in Nat
    BY DEF SweepTypes
  <2> QED BY <2>1, <2>2, <2>3, BoundKept, SweepersAssumption DEF BoundsOK
<1> QED BY <1>1, <1>2, <1>3 DEF BoundsOK

\* Where a sweep is, and where it goes when it rests or lists a pass.
LEMMA PositionTyped ==
    ASSUME SweepTypes, NEW w \in Sweepers
    PROVE  /\ sweep[w] \in Position
           /\ sweep[w].pass \in 0..5 /\ sweep[w].todo \subseteq Jobs
           /\ sweep[w].told \in Jobs \union {Nothing}
           /\ faults \in 0..MaxFaults
           /\ Resting \in Position /\ Resting.told = Nothing /\ Resting.todo = {}
           /\ \A n \in 0..5, T \in SUBSET Jobs :
                LET p == InPass(n, T, Nothing) IN
                p \in Position /\ p.pass = n /\ p.todo = T /\ p.told = Nothing
BY DEF SweepTypes, Position, Resting, InPass, LastPass

\* A pass lists only rows that exist and are not marked.
LEMMA ListedIsFresh ==
    ASSUME NEW n
    PROVE  Listed(n) \subseteq Jobs /\ \A j \in Listed(n) : Fresh(j)
BY DEF Listed, Wanted, Fresh

\* A sweep that starts lists the tasks.
LEMMA StartKeeps ==
    ASSUME NoticesInv, NEW w \in Sweepers, Start(w)
    PROVE  NoticesInv'
<1> DEFINE at == InPass(1, Listed(1), Nothing)
<1>1. /\ sweep' = [sweep EXCEPT ![w] = at] /\ UNCHANGED <<table, tried, manual, faults>>
      /\ sweep[w].pass = 0
  BY DEF Start, Move
<1>2. sweep[w].told = Nothing
  BY <1>1, PositionTyped DEF NoticesInv, SweepOK
<1>3. /\ at \in Position /\ at.told = Nothing /\ faults \in 0..MaxFaults
      /\ at.pass = 0 => at.todo = {}
      /\ at.todo \subseteq Listed(1)
  BY PositionTyped, ListedIsFresh DEF NoticesInv
<1> HIDE DEF at
<1> QED BY <1>1, <1>2, <1>3, ListedIsFresh, MoveKeeps

\* A pass that is through gives way to the next one.
LEMMA NextPassKeeps ==
    ASSUME NoticesInv, NEW w \in Sweepers, NextPass(w)
    PROVE  NoticesInv'
<1> DEFINE n == sweep[w].pass
           at == IF n = LastPass THEN Resting ELSE InPass(n + 1, Listed(n + 1), Nothing)
<1>1. /\ sweep' = [sweep EXCEPT ![w] = at] /\ UNCHANGED <<table, tried, manual, faults>>
      /\ n > 0 /\ sweep[w].todo = {}
  BY DEF NextPass, Move
<1>2. sweep[w].told = Nothing
  BY <1>1, PositionTyped DEF NoticesInv, SweepOK
<1>3. /\ at \in Position /\ at.told = Nothing /\ faults \in 0..MaxFaults
      /\ at.pass = 0 => at.todo = {}
      /\ at.todo \subseteq Listed(n + 1)
  <2>1. CASE n = 5
    BY <2>1, PositionTyped DEF NoticesInv, LastPass
  <2>2. CASE n # 5
    <3>1. n \in 0..5 /\ n + 1 \in 0..5 /\ n + 1 # 0
      BY <2>2, <1>1, PositionTyped DEF NoticesInv
    <3>2. at = InPass(n + 1, Listed(n + 1), Nothing)
      BY <2>2 DEF LastPass
    <3> HIDE DEF n, at
    <3> QED BY <3>1, <3>2, PositionTyped, ListedIsFresh DEF NoticesInv
  <2> QED BY <2>1, <2>2
<1> HIDE DEF at, n
<1> QED BY <1>1, <1>2, <1>3, ListedIsFresh, MoveKeeps

\* What becomes of a sweep whose statement throws.
LEMMA ThrownTyped ==
    ASSUME SweepTypes, NEW w \in Sweepers, NEW j \in Jobs, sweep[w].pass > 0
    PROVE  LET at == Thrown(w, j) IN
           /\ at \in Position /\ at.told = Nothing /\ (at.pass = 0 => at.todo = {})
           /\ at.todo \subseteq sweep[w].todo \ {j}
<1>1. CASE j[1] = "report"
  BY <1>1, PositionTyped DEF Thrown, Done
<1>2. CASE j[1] # "report"
  BY <1>2, PositionTyped DEF Thrown
<1> QED BY <1>1, <1>2

\* A failure before or after a notice.
LEMMA FaultKeeps ==
    ASSUME NoticesInv, NEW w \in Sweepers, Fault(w)
    PROVE  NoticesInv'
<1> DEFINE at == IF sweep[w].told # Nothing THEN Thrown(w, sweep[w].told) ELSE Resting
<1>1. /\ sweep' = [sweep EXCEPT ![w] = at] /\ UNCHANGED <<table, tried, manual>>
      /\ faults' = faults + 1 /\ faults < MaxFaults /\ sweep[w].pass > 0
  BY DEF Fault
<1>2. faults' \in 0..MaxFaults
  BY <1>1, PositionTyped, SweepersAssumption DEF NoticesInv
<1>3. /\ at \in Position /\ at.told = Nothing /\ (at.pass = 0 => at.todo = {})
      /\ \A j \in at.todo : j \in sweep[w].todo /\ j # sweep[w].told
  <2>1. CASE sweep[w].told # Nothing
    BY <2>1, <1>1, PositionTyped, ThrownTyped DEF NoticesInv
  <2>2. CASE sweep[w].told = Nothing
    BY <2>2, PositionTyped DEF NoticesInv
  <2> QED BY <2>1, <2>2
<1> HIDE DEF at
<1> QED BY <1>1, <1>2, <1>3, MoveKeeps

\* A report that cannot be built is passed over.
LEMMA FaultOfReportKeeps ==
    ASSUME NoticesInv, NEW w \in Sweepers, FaultOfReport(w)
    PROVE  NoticesInv'
<1>1. PICK j \in sweep[w].todo : sweep' = [sweep EXCEPT ![w] = Done(w, j)]
  BY DEF FaultOfReport
<1>2. /\ UNCHANGED <<table, tried, manual>> /\ sweep[w].pass = LastPass /\ sweep[w].told = Nothing
      /\ faults' = faults + 1 /\ faults < MaxFaults
  BY DEF FaultOfReport
<1>3. faults' \in 0..MaxFaults
  BY <1>2, PositionTyped, SweepersAssumption DEF NoticesInv
<1> DEFINE at == Done(w, j)
<1>4. /\ at \in Position /\ at.told = Nothing
      /\ at.pass = 0 => at.todo = {}
      /\ \A i \in at.todo : i \in sweep[w].todo /\ i # sweep[w].told
  BY <1>2, PositionTyped, RowsAssumption DEF NoticesInv, Done, LastPass
<1>5. sweep' = [sweep EXCEPT ![w] = at]
  BY <1>1
<1> HIDE DEF at
<1> QED BY <1>2, <1>3, <1>4, <1>5, MoveKeeps

\* A notice: one more try, and one more sweep that is about to mark.
LEMMA NotifyKeeps ==
    ASSUME NoticesInv, NEW w \in Sweepers, Notify(w)
    PROVE  NoticesInv'
<1> USE DEF NoticesInv
<1>1. PICK k \in sweep[w].todo :
        /\ tried' = [tried EXCEPT ![k] = @ + 1]
        /\ sweep' = [sweep EXCEPT ![w] = [sweep[w] EXCEPT !.told = k]]
        /\ UNCHANGED <<manual, faults>>
  BY DEF Notify, Move
<1>2. UNCHANGED table /\ sweep[w].told = Nothing
  BY DEF Notify
<1>3. k \in Jobs /\ k # Nothing
  BY PositionTyped, RowsAssumption
<1> DEFINE at == [sweep[w] EXCEPT !.told = k]
<1>4. at \in Position /\ at.told = k /\ at.todo = sweep[w].todo /\ at.pass = sweep[w].pass
  BY <1>3, PositionTyped DEF Position
<1>5. sweep \in [Sweepers -> Position] /\ sweep' = [sweep EXCEPT ![w] = at]
  BY <1>1 DEF SweepTypes, Position
<1> HIDE DEF at
<1>6. /\ sweep' \in [Sweepers -> Position]
      /\ \A v \in Sweepers : sweep'[v] = IF v = w THEN at ELSE sweep[v]
  BY <1>4, <1>5
<1>7. tried \in [Jobs -> Nat]
  BY DEF SweepTypes
<1>8. /\ tried' \in [Jobs -> Nat]
      /\ \A j \in Jobs : tried'[j] = IF j = k THEN tried[j] + 1 ELSE tried[j]
  BY <1>1, <1>3, <1>7
<1>9. SweepTypes'
  BY <1>1, <1>2, <1>6, <1>8 DEF SweepTypes, Position, table
<1>10. SweepOK'
  BY <1>3, <1>4, <1>6 DEF SweepOK
<1>11. k[2] \notin NextPlan \ rows
  BY <1>3 DEF UntouchedOK
<1>12. UntouchedOK'
  BY <1>2, <1>4, <1>6, <1>8, <1>11 DEF UntouchedOK, table
<1>13. TriedOK'
  <2>1. marked \subseteq Jobs /\ marked' = marked
    BY <1>2 DEF SweepTypes, table
  <2>2. \A v \in Sweepers : sweep[v].told # Nothing => sweep[v].told \in Jobs
    BY PositionTyped
  <2> QED BY <2>1, <2>2, <1>3, <1>4, <1>6, <1>7, <1>8 DEF TriedOK
<1>14. ASSUME NEW j \in Jobs PROVE BoundOf(j)'
  <2>1. Fresh(j)' <=> Fresh(j)
    BY <1>2 DEF Fresh, table
  <2>2. CASE j # k
    <3>1. /\ Told(j)' = Told(j) \ {w}
          /\ Held(j)' = IF j \in sweep[w].todo THEN Held(j) \union {w} ELSE Held(j) \ {w}
      BY <2>2, <1>4, <1>5, HoldersAfter
    <3>2. Told(j)' = Told(j) /\ Held(j)' = Held(j)
      <4>1. sweep[w].told # j /\ w \in Sweepers
        BY <1>2, RowsAssumption
      <4>2. w \notin Told(j) /\ (w \in Held(j) <=> j \in sweep[w].todo)
        BY <4>1 DEF Told, Held
      <4> QED BY <3>1, <4>2
    <3>3. tried'[j] = tried[j] /\ tried[j] \in Nat /\ faults \in Nat /\ faults' = faults
      BY <2>2, <1>1, <1>7, <1>8 DEF SweepTypes
    <3> QED BY <2>1, <3>2, <3>3, BoundKept, SweepersAssumption DEF BoundsOK
  <2>3. CASE j = k
    <3>1. Told(j)' = Told(j) \union {w} /\ Held(j)' = Held(j) \ {w}
      BY <2>3, <1>4, <1>5, HoldersAfter
    <3>2. w \in Held(j) /\ w \notin Told(j)
      BY <2>3, <1>2, <1>3 DEF Told, Held
    <3>3. /\ Cardinality(Told(j)') = Cardinality(Told(j)) + 1
          /\ Cardinality(Held(j)') = Cardinality(Held(j)) - 1
      BY <3>1, <3>2, HoldersTyped, CountedMove, SweepersAssumption
    <3>4. /\ Cardinality(Told(j)) \in Nat /\ Cardinality(Held(j)) \in Nat
      BY HoldersTyped, Counted, SweepersAssumption
    <3>5. tried[j] \in Nat /\ tried'[j] = tried[j] + 1
      BY <2>3, <1>7, <1>8
    <3>6. Allowed(faults) \in Nat /\ Allowed(faults + 1) \in Nat
      <4>1. faults \in Nat
        BY DEF SweepTypes
      <4> QED BY <4>1, AllowedMore, SweepersAssumption
    <3>7. Allowed(faults)' = Allowed(faults) /\ Allowed(faults + 1)' = Allowed(faults + 1)
      BY <1>1 DEF Allowed
    <3>8. /\ Fresh(j)' => tried'[j] <= Allowed(faults) + Cardinality(Told(j)')
          /\ ~ Fresh(j)' => tried'[j] + Cardinality(Held(j)') <= Allowed(faults + 1)
      BY <2>1, <3>3, <3>4, <3>5, <3>6 DEF BoundsOK, BoundOf
    <3> QED BY <3>7, <3>8 DEF BoundOf
  <2> QED BY <2>2, <2>3
<1> QED BY <1>9, <1>10, <1>12, <1>13, <1>14 DEF BoundsOK

\* The row is gone: the sweep ends, or passes the report over.
LEMMA MarkGoneKeeps ==
    ASSUME NoticesInv, NEW w \in Sweepers, NEW j \in Jobs, sweep[w].told = j,
           j[2] \notin rows, Move(w, Thrown(w, j)), UNCHANGED <<table, tried>>
    PROVE  NoticesInv'
<1> DEFINE at == Thrown(w, j)
<1>1. sweep' = [sweep EXCEPT ![w] = at] /\ UNCHANGED <<table, tried, manual>> /\ faults' = faults
  BY DEF Move
<1>2. sweep[w].pass > 0 /\ faults \in 0..MaxFaults
  BY PositionTyped, RowsAssumption DEF NoticesInv, SweepOK
<1>3. /\ at \in Position /\ at.told = Nothing /\ (at.pass = 0 => at.todo = {})
      /\ \A i \in at.todo : i \in sweep[w].todo /\ i # sweep[w].told
  BY <1>2, ThrownTyped DEF NoticesInv
<1>4. ~ Fresh(sweep[w].told)
  BY DEF Fresh
<1> HIDE DEF at
<1> QED BY <1>1, <1>2, <1>3, <1>4, MoveKeeps

\* What the sweep holds once it is done with a job.
LEMMA DoneTyped ==
    ASSUME NoticesInv, NEW w \in Sweepers, NEW j \in Jobs, sweep[w].told = j
    PROVE  LET at == Done(w, j) IN
           /\ at \in Position /\ at.told = Nothing /\ at.pass = sweep[w].pass /\ at.pass # 0
           /\ at.todo = sweep[w].todo \ {j}
<1>1. sweep[w].pass # 0
  BY RowsAssumption DEF NoticesInv, SweepOK
<1> QED BY <1>1, PositionTyped DEF NoticesInv, Done

\* A reminder is marked: it cannot be listed again, and those that hold it may
\* still notify, each once.
LEMMA MarkReminderKeeps ==
    ASSUME NoticesInv, NEW w \in Sweepers, NEW k \in Jobs, sweep[w].told = k,
           k[1] # "report", Move(w, Done(w, k)), marked' = marked \union {k},
           UNCHANGED <<rows, open, date, tried>>
    PROVE  NoticesInv'
<1> USE DEF NoticesInv
<1> DEFINE at == Done(w, k)
<1>1. sweep' = [sweep EXCEPT ![w] = at] /\ manual' = manual /\ faults' = faults
  BY DEF Move
<1>2. at \in Position /\ at.told = Nothing /\ at.pass # 0 /\ at.todo = sweep[w].todo \ {k}
  BY DoneTyped
<1> HIDE DEF at
<1>3. /\ sweep \in [Sweepers -> Position] /\ sweep' \in [Sweepers -> Position]
      /\ \A v \in Sweepers : sweep'[v] = IF v = w THEN at ELSE sweep[v]
  BY <1>1, <1>2 DEF SweepTypes, Position
<1>4. SweepTypes'
  BY <1>1, <1>3 DEF SweepTypes, Position
<1>5. SweepOK'
  BY <1>2, <1>3 DEF SweepOK
<1>6. UntouchedOK'
  BY <1>2, <1>3 DEF UntouchedOK
<1>7. TriedOK'
  <2>1. tried[k] > 0
    BY RowsAssumption DEF TriedOK
  <2> QED BY <2>1, <1>2, <1>3 DEF TriedOK
<1>8. ASSUME NEW j \in Jobs PROVE BoundOf(j)'
  <2>1. Fresh(j)' => Fresh(j) /\ j # k
    BY DEF Fresh
  <2>2. /\ Told(j)' = Told(j) \ {w}
        /\ Held(j)' = IF j \in at.todo THEN Held(j) \union {w} ELSE Held(j) \ {w}
    BY <1>1, <1>2, <1>3, HoldersAfter, RowsAssumption
  <2>3. Held(j)' \subseteq Held(j) /\ (j # k => Told(j)' = Told(j))
    BY <2>2, <1>2 DEF Held, Told
  <2>4. tried[j] \in Nat /\ tried'[j] = tried[j] /\ faults \in Nat /\ faults' = faults
    BY <1>1 DEF SweepTypes
  <2> QED BY <2>1, <2>3, <2>4, BoundKept, SweepersAssumption DEF BoundsOK
<1> QED BY <1>4, <1>5, <1>6, <1>7, <1>8 DEF BoundsOK

\* A report is moved on, and counted anew.
LEMMA MarkReportKeeps ==
    ASSUME NoticesInv, NEW w \in Sweepers, NEW k \in Jobs, sweep[w].told = k,
           k[1] = "report", Move(w, Done(w, k)), date' = [date EXCEPT ![k[2]] = "later"],
           tried' = [tried EXCEPT ![k] = 0], UNCHANGED <<rows, open, marked>>
    PROVE  NoticesInv'
<1> USE DEF NoticesInv
<1> DEFINE at == Done(w, k)
<1>1. sweep' = [sweep EXCEPT ![w] = at] /\ manual' = manual /\ faults' = faults
  BY DEF Move
<1>2. at \in Position /\ at.told = Nothing /\ at.pass # 0 /\ at.todo = sweep[w].todo \ {k}
  BY DoneTyped
<1> HIDE DEF at
<1>3. /\ sweep \in [Sweepers -> Position] /\ sweep' \in [Sweepers -> Position]
      /\ \A v \in Sweepers : sweep'[v] = IF v = w THEN at ELSE sweep[v]
  BY <1>1, <1>2 DEF SweepTypes, Position
<1>4. /\ tried \in [Jobs -> Nat] /\ tried' \in [Jobs -> Nat]
      /\ \A j \in Jobs : tried'[j] = IF j = k THEN 0 ELSE tried[j]
  BY DEF SweepTypes
<1>5. SweepTypes'
  <2>1. date' \in [Rows -> {"later", "near", "due"}]
    BY DEF SweepTypes
  <2> QED BY <2>1, <1>1, <1>3, <1>4 DEF SweepTypes, Position
<1>6. SweepOK'
  BY <1>2, <1>3 DEF SweepOK
<1>7. UntouchedOK'
  BY <1>2, <1>3, <1>4 DEF UntouchedOK
<1>8. TriedOK'
  <2>1. marked \subseteq Jobs /\ \A v \in Sweepers : sweep[v].told # Nothing => sweep[v].told \in Jobs
    BY PositionTyped DEF SweepTypes
  <2> QED BY <2>1, <1>2, <1>3, <1>4 DEF TriedOK
<1>9. ASSUME NEW j \in Jobs PROVE BoundOf(j)'
  <2>1. Fresh(j)' <=> Fresh(j)
    BY DEF Fresh
  <2>2. /\ Told(j)' = Told(j) \ {w}
        /\ Held(j)' = IF j \in at.todo THEN Held(j) \union {w} ELSE Held(j) \ {w}
    BY <1>1, <1>2, <1>3, HoldersAfter, RowsAssumption
  <2>3. Held(j)' \subseteq Held(j) /\ (j # k => Told(j)' = Told(j))
    BY <2>2, <1>2 DEF Held, Told
  <2>4. /\ tried[j] \in Nat /\ tried'[j] \in Nat /\ faults \in Nat /\ faults' = faults
        /\ tried'[j] = IF j = k THEN 0 ELSE tried[j]
    BY <1>1, <1>4 DEF SweepTypes
  <2> QED BY <2>1, <2>3, <2>4, BoundKept, SweepersAssumption DEF BoundsOK
<1> QED BY <1>5, <1>6, <1>7, <1>8, <1>9 DEF BoundsOK

\* What a notice is followed by, in all its outcomes.
LEMMA MarkKeeps ==
    ASSUME NoticesInv, NEW w \in Sweepers, Mark(w)
    PROVE  NoticesInv'
<1> DEFINE j == sweep[w].told
<1>1. j \in Jobs
  BY PositionTyped DEF Mark, NoticesInv
<1>2. CASE j[2] \notin rows /\ Move(w, Thrown(w, j)) /\ UNCHANGED <<table, tried>>
  BY <1>1, <1>2, MarkGoneKeeps
<1>3. CASE /\ j[1] # "report" /\ Move(w, Done(w, j)) /\ marked' = marked \union {j}
           /\ UNCHANGED <<rows, open, date, tried>>
  BY <1>1, <1>3, MarkReminderKeeps
<1>4. CASE /\ j[1] = "report" /\ Move(w, Done(w, j)) /\ date' = [date EXCEPT ![j[2]] = "later"]
           /\ tried' = [tried EXCEPT ![j] = 0] /\ UNCHANGED <<rows, open, marked>>
  BY <1>1, <1>4, MarkReportKeeps
<1> QED BY <1>2, <1>3, <1>4 DEF Mark

\* A restart forgets all sweeps, and is itself the failure that pays for it.
LEMMA RestartKeeps ==
    ASSUME NoticesInv, Restart
    PROVE  NoticesInv'
<1> USE DEF NoticesInv, Restart, table
<1>1. /\ sweep' \in [Sweepers -> Position]
      /\ \A v \in Sweepers : sweep'[v].told = Nothing /\ sweep'[v].todo = {}
  BY PositionTyped DEF Position, Resting, InPass
<1>2. faults \in Nat /\ faults' = faults + 1 /\ faults' \in 0..MaxFaults
  BY SweepersAssumption DEF SweepTypes
<1>3. SweepTypes'
  BY <1>1, <1>2 DEF SweepTypes, Position
<1>4. SweepOK' /\ UntouchedOK' /\ TriedOK'
  BY <1>1 DEF SweepOK, UntouchedOK, TriedOK
<1>5. ASSUME NEW j \in Jobs PROVE BoundOf(j)'
  <2>1. (Fresh(j)' <=> Fresh(j)) /\ Held(j)' = {}
    BY <1>1 DEF Fresh, Held
  <2>2. tried[j] \in Nat /\ tried'[j] = tried[j]
    BY DEF SweepTypes
  <2> QED BY <2>1, <2>2, <1>2, BoundKept, SweepersAssumption DEF BoundsOK
<1> QED BY <1>3, <1>4, <1>5 DEF BoundsOK

\* The days, the desks and the manager change rows; of the sweeps, nothing.
LEMMA OthersKeep ==
    ASSUME NoticesInv,
           \/ \E x \in Rows : DayPasses(x) \/ Close(x) \/ RemoveSchedule(x) \/ RunNow(x)
           \/ ReplacePlan \/ RunDone
    PROVE  NoticesInv'
<1>1. UNCHANGED <<tried, sweep, faults, marked>>
  BY DEF DayPasses, Close, RemoveSchedule, RunNow, ReplacePlan, RunDone, Meanwhile, table
<1>2. rows \subseteq Rows /\ open \subseteq Rows /\ date \in [Rows -> {"later", "near", "due"}]
  BY DEF NoticesInv, SweepTypes
<1>3. /\ rows' \subseteq Rows /\ open' \subseteq Rows
      /\ date' \in [Rows -> {"later", "near", "due"}]
      /\ manual' \in Schedules \union {Nothing}
      /\ rows' \ rows \subseteq NextPlan /\ NextPlan \ rows' \subseteq NextPlan \ rows
  <2>0. manual \in Schedules \union {Nothing}
    BY DEF NoticesInv, SweepTypes
  <2>1. ASSUME NEW x \in Rows, DayPasses(x) PROVE <1>3
    BY <2>0, <2>1, <1>2 DEF DayPasses, Meanwhile
  <2>2. ASSUME NEW x \in Rows, Close(x) PROVE <1>3
    BY <2>0, <2>2, <1>2 DEF Close, Meanwhile
  <2>3. ASSUME NEW x \in Rows, RemoveSchedule(x) PROVE <1>3
    BY <2>0, <2>3, <1>2, RowsAssumption DEF RemoveSchedule, Meanwhile, Due
  <2>4. ASSUME NEW x \in Rows, RunNow(x) PROVE <1>3
    BY <2>0, <2>4, <1>2 DEF RunNow, table
  <2>5. CASE ReplacePlan
    BY <2>0, <2>5, <1>2, RowsAssumption DEF ReplacePlan, Meanwhile, Rows
  <2>6. CASE RunDone
    BY <2>0, <2>6, <1>2 DEF RunDone
  <2> QED BY <2>1, <2>2, <2>3, <2>4, <2>5, <2>6
<1>4. SweepTypes'
  BY <1>1, <1>3 DEF NoticesInv, SweepTypes
<1> QED BY <1>1, <1>3, <1>4, RowsKeep

\* Nothing is listed to begin with.
LEMMA NoticesInitially ==
    ASSUME SweepInit
    PROVE  NoticesInv
<1> USE DEF SweepInit
<1>1. SweepTypes
  BY SweepersAssumption DEF SweepTypes, Resting, InPass, LastPass
<1>2. SweepOK /\ UntouchedOK /\ TriedOK
  BY DEF SweepOK, UntouchedOK, TriedOK, Resting, InPass
<1>3. ASSUME NEW j \in Jobs PROVE BoundOf(j)
  <2>1. Held(j) = {}
    BY DEF Held, Resting, InPass
  <2>2. /\ Cardinality(Told(j)) \in Nat /\ Cardinality(Held(j)) = 0
        /\ Allowed(faults) \in Nat /\ Allowed(faults + 1) \in Nat
    BY <2>1, HoldersTyped, Counted, AllowedMore, FS_EmptySet, SweepersAssumption
  <2> QED BY <2>2 DEF BoundOf
<1> QED BY <1>1, <1>2, <1>3 DEF NoticesInv, BoundsOK

\* Every step keeps the invariant.
LEMMA NextKeepsNotices ==
    ASSUME NoticesInv, [SweepNext]_sweepVars
    PROVE  NoticesInv'
<1>1. CASE UNCHANGED sweepVars
  <2>1. UNCHANGED <<table, tried, sweep, manual, faults>>
    BY <1>1 DEF sweepVars
  <2>2. SweepTypes'
    BY <2>1 DEF NoticesInv, SweepTypes, table
  <2> QED BY <2>1, <2>2, RowsKeep DEF table
<1>2. CASE \E w \in Sweepers : Start(w) \/ Work(w) \/ Fault(w) \/ FaultOfReport(w)
  BY <1>2, StartKeeps, NextPassKeeps, NotifyKeeps, MarkKeeps, FaultKeeps, FaultOfReportKeeps DEF Work
<1>3. CASE \/ \E x \in Rows : DayPasses(x) \/ Close(x) \/ RemoveSchedule(x) \/ RunNow(x)
           \/ ReplacePlan \/ RunDone
  BY <1>3, OthersKeep
<1>4. CASE Restart
  BY <1>4, RestartKeeps
<1> QED BY <1>1, <1>2, <1>3, <1>4 DEF SweepNext

\* What a job has been tried is within what overlaps and failures allow.
LEMMA NoticesFollow ==
    ASSUME NoticesInv
    PROVE  NoticesAreSound
<1>1. ASSUME NEW j \in Jobs PROVE tried[j] <= Cardinality(Sweepers) * (1 + faults)
  <2>1. faults \in Nat /\ tried[j] \in Nat
    BY DEF NoticesInv, SweepTypes
  <2>2. /\ Cardinality(Sweepers) \in Nat /\ Cardinality(Held(j)) \in Nat
        /\ Cardinality(Told(j)) \in Nat /\ Cardinality(Told(j)) <= Cardinality(Sweepers)
    BY HoldersTyped, Counted, SweepersAssumption
  <2>3. Allowed(faults) \in Nat /\ Allowed(faults + 1) = Allowed(faults) + Cardinality(Sweepers)
    BY <2>1, AllowedMore, SweepersAssumption
  <2>4. tried[j] <= Allowed(faults + 1)
    BY <2>1, <2>2, <2>3 DEF NoticesInv, BoundsOK, BoundOf
  <2>5. faults + 1 = 1 + faults
    BY <2>1
  <2> QED BY <2>4, <2>5 DEF Allowed
<1> QED BY <1>1 DEF NoticesInv, NoticesAreSound, RepeatsAreBounded, MarkedWasTried, TriedOK

\* Of one and the same item the sweeps give no more notices than overlap, and as many
\* again for each failure or restart; what is marked has been notified of. For any
\* rows and sweeps, while rows are closed, replaced and deleted under them
\* (runReminders, runDueReports).
THEOREM NoticesAlwaysSound ==
    SweepSpec => []NoticesAreSound
<1>1. SweepInit => NoticesInv
  BY NoticesInitially
<1>2. NoticesInv /\ [SweepNext]_sweepVars => NoticesInv'
  BY NextKeepsNotices
<1>3. NoticesInv => NoticesAreSound
  BY NoticesFollow
<1> QED BY <1>1, <1>2, <1>3, PTL DEF SweepSpec
=============================================================================
