----------------------------- MODULE FinanceProofs -----------------------------
(***************************************************************************)
(* The money of a library.  A fund keeps within its budget, and its books  *)
(* are the price of what came and of what is still to come.  The ledger of *)
(* fees, payments, refunds and plans agrees, and a waiver stands, for any  *)
(* loans, orders, prices and amounts.                                      *)
(*                                                                         *)
(* Sums are the community modules' SumFunctionOnSet, which recurs on the   *)
(* subsets of a set.  The first part of this module shows, by counting the *)
(* units that make up the terms, that the recursion has one solution, and  *)
(* from it the few facts about sums that the books need.                   *)
(***************************************************************************)
EXTENDS Acquisitions, Fees, FiniteSetTheorems, WellFoundedInduction, TLAPS

-----------------------------------------------------------------------------
(* Sums.                                                                   *)

\* The units that make up the values f[x] of the members x of S.
Units(f, S) == {u \in S \X Nat : u[2] \in 1 .. f[u[1]]}

\* The recursion by which a sum over the subsets of S is defined.
AddsUp(sum, f, S) ==
  sum = [s \in SUBSET S |->
           IF s = {} THEN 0
           ELSE LET x == CHOOSE x \in s : TRUE IN f[x] + sum[s \ {x}]]

LEMMA SumUnfolds ==
  ASSUME NEW f, NEW S
  PROVE  SumFunctionOnSet(f, S) = (CHOOSE sum : AddsUp(sum, f, S))[S]
BY DEF SumFunctionOnSet, FoldFunctionOnSet, MapThenFoldSet, AddsUp

LEMMA LeastNumber ==
  ASSUME NEW S \in SUBSET Nat, S # {}
  PROVE  \E x \in S : \A y \in S : x <= y
<1> DEFINE R == OpToRel(<, Nat)
<1>1. IsWellFoundedOn(R, Nat)
  BY NatLessThanWellFounded
<1>2. PICK x \in S : \A y \in S : <<y, x>> \notin R
  <2> HIDE DEF R
  <2> QED BY <1>1, WFMin
<1>3. \A y \in S : <<y, x>> \in R <=> y < x
  BY DEF OpToRel
<1>4. \A y \in S : ~(y < x)
  BY <1>2, <1>3
<1> HIDE DEF R
<1> QED BY <1>4

LEMMA OneUnitSet ==
  ASSUME NEW x, NEW n \in Nat
  PROVE  IsFiniteSet({x} \X (1 .. n)) /\ Cardinality({x} \X (1 .. n)) = n
<1>1. IsFiniteSet({x}) /\ Cardinality({x}) = 1
  BY FS_Singleton
<1>2. IsFiniteSet(1 .. n) /\ Cardinality(1 .. n) = n
  BY FS_Interval
<1>3. /\ IsFiniteSet({x} \X (1 .. n))
      /\ Cardinality({x} \X (1 .. n)) = Cardinality({x}) * Cardinality(1 .. n)
  BY <1>1, <1>2, FS_Product
<1> QED BY <1>1, <1>2, <1>3

\* The units of a set with one more member.
LEMMA UnitsOfOneMore ==
  ASSUME NEW T, NEW x, x \notin T, NEW f, f[x] \in Nat, IsFiniteSet(Units(f, T))
  PROVE  /\ IsFiniteSet(Units(f, T \cup {x}))
         /\ Cardinality(Units(f, T \cup {x})) = Cardinality(Units(f, T)) + f[x]
<1> DEFINE X == {x} \X (1 .. f[x])
<1>1. IsFiniteSet(X) /\ Cardinality(X) = f[x]
  BY OneUnitSet
<1>2. Units(f, T \cup {x}) = Units(f, T) \cup X
  BY DEF Units
<1>3. Units(f, T) \cap X = {}
  BY DEF Units
<1> HIDE DEF X
<1>4. Cardinality({}) = 0
  BY FS_EmptySet
<1>5. Cardinality(Units(f, T)) \in Nat
  BY FS_CardinalityType
<1>6. /\ IsFiniteSet(Units(f, T) \cup X)
      /\ Cardinality(Units(f, T) \cup X)
           = Cardinality(Units(f, T)) + Cardinality(X) - Cardinality(Units(f, T) \cap X)
  BY <1>1, FS_Union
<1>7. Cardinality(Units(f, T) \cap X) = 0
  BY <1>3, <1>4
<1>8. Cardinality(Units(f, T) \cup X) = Cardinality(Units(f, T)) + f[x]
  BY <1>1, <1>5, <1>6, <1>7
<1> QED BY <1>2, <1>6, <1>8

LEMMA UnitsFinite ==
  ASSUME NEW S, IsFiniteSet(S), NEW f, \A x \in S : f[x] \in Nat
  PROVE  IsFiniteSet(Units(f, S))
<1> DEFINE Bad == {n \in Nat : \E T \in SUBSET S :
                     Cardinality(T) = n /\ ~IsFiniteSet(Units(f, T))}
<1>1. SUFFICES ASSUME ~IsFiniteSet(Units(f, S)) PROVE FALSE
  OBVIOUS
<1>2. Bad # {}
  BY <1>1, FS_CardinalityType
<1>3. PICK n \in Bad : \A m \in Bad : n <= m
  BY <1>2, LeastNumber
<1>4. PICK T \in SUBSET S : Cardinality(T) = n /\ ~IsFiniteSet(Units(f, T))
  BY <1>3
<1>5. T # {}
  <2>1. Units(f, {}) = {}
    BY DEF Units
  <2> QED BY <1>4, <2>1, FS_EmptySet
<1>6. PICK x \in T : TRUE
  BY <1>5
<1>7. IsFiniteSet(T)
  BY FS_Subset
<1>8. Cardinality(T \ {x}) = n - 1 /\ Cardinality(T \ {x}) \in Nat
  BY <1>4, <1>7, FS_RemoveElement, FS_CardinalityType
<1>9. IsFiniteSet(Units(f, T \ {x}))
  <2>1. n - 1 \notin Bad
    BY <1>3, <1>8
  <2> QED BY <1>8, <2>1
<1>10. (T \ {x}) \cup {x} = T
  OBVIOUS
<1> QED BY <1>4, <1>9, <1>10, UnitsOfOneMore

\* A sum of natural numbers counts units: the recursion has this solution, and
\* no other.
LEMMA SumCounts ==
  ASSUME NEW S, IsFiniteSet(S), NEW f, \A x \in S : f[x] \in Nat
  PROVE  /\ SumFunctionOnSet(f, S) = Cardinality(Units(f, S))
         /\ IsFiniteSet(Units(f, S))
<1> DEFINE count == [s \in SUBSET S |-> Cardinality(Units(f, s))]
<1>1. \A s \in SUBSET S : IsFiniteSet(s) /\ IsFiniteSet(Units(f, s))
  BY FS_Subset, UnitsFinite
<1>2. ASSUME NEW s \in SUBSET S, NEW x \in s
      PROVE  Cardinality(Units(f, s)) = f[x] + Cardinality(Units(f, s \ {x}))
  <2>1. (s \ {x}) \cup {x} = s
    OBVIOUS
  <2>2. Cardinality(Units(f, s \ {x})) \in Nat
    BY <1>1, FS_CardinalityType
  <2>3. IsFiniteSet(Units(f, s \ {x})) /\ f[x] \in Nat /\ x \notin s \ {x}
    BY <1>1
  <2>4. Cardinality(Units(f, (s \ {x}) \cup {x})) = Cardinality(Units(f, s \ {x})) + f[x]
    BY <2>3, UnitsOfOneMore
  <2>5. Cardinality(Units(f, s)) = Cardinality(Units(f, s \ {x})) + f[x]
    BY <2>1, <2>4
  <2> QED BY <2>2, <2>3, <2>5
<1>3. Cardinality(Units(f, {})) = 0
  <2>1. Units(f, {}) = {}
    BY DEF Units
  <2> QED BY <2>1, FS_EmptySet
<1>4. AddsUp(count, f, S)
  <2>1. ASSUME NEW s \in SUBSET S
        PROVE  count[s] = IF s = {} THEN 0
                          ELSE LET x == CHOOSE x \in s : TRUE IN f[x] + count[s \ {x}]
    <3>1. CASE s = {}
      BY <1>3, <3>1
    <3>2. CASE s # {}
      <4> DEFINE x == CHOOSE x \in s : TRUE
      <4>1. x \in s
        BY <3>2
      <4> HIDE DEF x
      <4>2. count[s] = f[x] + count[s \ {x}]
        BY <1>2, <4>1
      <4> QED BY <3>2, <4>2 DEF x
    <3> QED BY <3>1, <3>2
  <2> HIDE DEF count
  <2>2. count = [s \in SUBSET S |-> count[s]]
    BY DEF count
  <2> QED BY <2>1, <2>2 DEF AddsUp
<1>5. ASSUME NEW sum, AddsUp(sum, f, S)
      PROVE  sum[S] = count[S]
  <2> DEFINE Bad == {n \in Nat : \E s \in SUBSET S :
                       Cardinality(s) = n /\ sum[s] # count[s]}
  <2>1. SUFFICES ASSUME sum[S] # count[S] PROVE FALSE
    OBVIOUS
  <2>2. Bad # {}
    BY <2>1, FS_CardinalityType
  <2>3. PICK n \in Bad : \A m \in Bad : n <= m
    <3> HIDE DEF Bad
    <3>1. Bad \in SUBSET Nat
      BY DEF Bad
    <3> QED BY <2>2, <3>1, LeastNumber
  <2>4. PICK s \in SUBSET S : Cardinality(s) = n /\ sum[s] # count[s]
    BY <2>3
  <2> HIDE DEF count
  <2>5. s # {}
    BY <1>4, <1>5, <2>4 DEF AddsUp
  <2> DEFINE x == CHOOSE x \in s : TRUE
  <2>6. x \in s
    BY <2>5
  <2>7. sum[s] = f[x] + sum[s \ {x}] /\ count[s] = f[x] + count[s \ {x}]
    BY <1>4, <1>5, <2>5 DEF AddsUp
  <2> HIDE DEF x
  <2>8. Cardinality(s \ {x}) = n - 1 /\ Cardinality(s \ {x}) \in Nat
    BY <1>1, <2>4, <2>6, FS_RemoveElement, FS_CardinalityType
  <2>9. n - 1 \notin Bad
    BY <2>3, <2>8
  <2>10. sum[s \ {x}] = count[s \ {x}]
    BY <2>8, <2>9
  <2> QED BY <2>4, <2>7, <2>10
<1>6. PICK sum : sum = CHOOSE any : AddsUp(any, f, S)
  OBVIOUS
<1>7. AddsUp(sum, f, S)
  BY <1>4, <1>6
<1>8. SumFunctionOnSet(f, S) = sum[S]
  BY <1>6, SumUnfolds
<1> QED BY <1>1, <1>5, <1>7, <1>8

-----------------------------------------------------------------------------
LEMMA SumType ==
  ASSUME NEW S, IsFiniteSet(S), NEW f, \A x \in S : f[x] \in Nat
  PROVE  SumFunctionOnSet(f, S) \in Nat
BY SumCounts, FS_CardinalityType

LEMMA SumEmpty ==
  ASSUME NEW f
  PROVE  SumFunctionOnSet(f, {}) = 0
<1>1. Units(f, {}) = {}
  BY DEF Units
<1> QED BY <1>1, SumCounts, FS_EmptySet

LEMMA SumAdds ==
  ASSUME NEW S, IsFiniteSet(S), NEW f, \A x \in S : f[x] \in Nat,
         NEW x, x \notin S, f[x] \in Nat
  PROVE  SumFunctionOnSet(f, S \cup {x}) = SumFunctionOnSet(f, S) + f[x]
<1>1. IsFiniteSet(S \cup {x}) /\ \A y \in S \cup {x} : f[y] \in Nat
  BY FS_AddElement
<1>2. SumFunctionOnSet(f, S \cup {x}) = Cardinality(Units(f, S \cup {x}))
  BY <1>1, SumCounts
<1>3. SumFunctionOnSet(f, S) = Cardinality(Units(f, S)) /\ IsFiniteSet(Units(f, S))
  BY SumCounts
<1> QED BY <1>2, <1>3, UnitsOfOneMore

LEMMA SumSame ==
  ASSUME NEW S, IsFiniteSet(S), NEW f, NEW g,
         \A x \in S : f[x] \in Nat /\ g[x] = f[x]
  PROVE  SumFunctionOnSet(g, S) = SumFunctionOnSet(f, S)
<1>1. Units(g, S) = Units(f, S)
  BY DEF Units
<1> QED BY <1>1, SumCounts

LEMMA SumGrows ==
  ASSUME NEW S, IsFiniteSet(S), NEW T \in SUBSET S, NEW f, NEW g,
         \A x \in S : g[x] \in Nat, \A x \in T : f[x] \in Nat /\ f[x] <= g[x]
  PROVE  SumFunctionOnSet(f, T) <= SumFunctionOnSet(g, S)
<1>1. IsFiniteSet(T)
  BY FS_Subset
<1>2. Units(f, T) \subseteq Units(g, S)
  BY DEF Units
<1> QED BY <1>1, <1>2, SumCounts, FS_Subset

\* A sum, less one of its members.
LEMMA SumTakes ==
  ASSUME NEW S, IsFiniteSet(S), NEW f, \A x \in S : f[x] \in Nat, NEW x \in S
  PROVE  SumFunctionOnSet(f, S) = SumFunctionOnSet(f, S \ {x}) + f[x]
<1>1. IsFiniteSet(S \ {x}) /\ (S \ {x}) \cup {x} = S
  BY FS_Subset
<1>2. \A y \in S \ {x} : f[y] \in Nat
  OBVIOUS
<1>3. SumFunctionOnSet(f, (S \ {x}) \cup {x}) = SumFunctionOnSet(f, S \ {x}) + f[x]
  BY <1>1, <1>2, SumAdds
<1> QED BY <1>1, <1>3

\* A sum of which one term has changed.
LEMMA SumChanges ==
  ASSUME NEW S, IsFiniteSet(S), NEW f, NEW g, NEW x \in S,
         \A y \in S : f[y] \in Nat /\ g[y] \in Nat,
         \A y \in S \ {x} : g[y] = f[y]
  PROVE  SumFunctionOnSet(g, S) = SumFunctionOnSet(f, S) - f[x] + g[x]
<1>1. IsFiniteSet(S \ {x})
  BY FS_Subset
<1>2. SumFunctionOnSet(g, S \ {x}) = SumFunctionOnSet(f, S \ {x})
  BY <1>1, SumSame
<1>3. SumFunctionOnSet(f, S \ {x}) \in Nat
  BY <1>1, SumType
<1> QED BY <1>2, <1>3, SumTakes

LEMMA SumOfNothing ==
  ASSUME NEW S, IsFiniteSet(S), NEW f, \A x \in S : f[x] = 0
  PROVE  SumFunctionOnSet(f, S) = 0
<1>1. Units(f, S) = {}
  BY DEF Units
<1> QED BY <1>1, SumCounts, FS_EmptySet

\* Where a function is zero it adds nothing.
LEMMA SumOnSupport ==
  ASSUME NEW S, IsFiniteSet(S), NEW T \in SUBSET S, NEW f,
         \A x \in T : f[x] \in Nat, \A x \in S \ T : f[x] = 0
  PROVE  SumFunctionOnSet(f, S) = SumFunctionOnSet(f, T)
<1>1. Units(f, S) = Units(f, T)
  BY DEF Units
<1>2. IsFiniteSet(T) /\ \A x \in S : f[x] \in Nat
  BY FS_Subset
<1> QED BY <1>1, <1>2, SumCounts

\* A term of a sum is at most the sum.
LEMMA TermOfSum ==
  ASSUME NEW S, IsFiniteSet(S), NEW f, \A x \in S : f[x] \in Nat, NEW x \in S
  PROVE  f[x] <= SumFunctionOnSet(f, S)
<1>1. IsFiniteSet(S \ {x}) /\ \A y \in S \ {x} : f[y] \in Nat
  BY FS_Subset
<1>2. SumFunctionOnSet(f, S \ {x}) \in Nat
  BY <1>1, SumType
<1>3. SumFunctionOnSet(f, S) = SumFunctionOnSet(f, S \ {x}) + f[x]
  BY SumTakes
<1> QED BY <1>2, <1>3

LEMMA SumTakesWithin ==
  ASSUME NEW S, IsFiniteSet(S), NEW f, \A x \in S : f[x] \in Nat
  PROVE  \A T \in SUBSET S : \A x \in T :
            SumFunctionOnSet(f, T) = SumFunctionOnSet(f, T \ {x}) + f[x]
<1> TAKE T \in SUBSET S
<1> TAKE x \in T
<1>1. IsFiniteSet(T) /\ \A y \in T : f[y] \in Nat
  BY FS_Subset
<1> QED BY <1>1, SumTakes

\* A sum of sums.
LEMMA SumOfDifference ==
  ASSUME NEW S, IsFiniteSet(S), NEW f, NEW g, NEW h,
         \A x \in S : f[x] \in Nat /\ g[x] \in Nat /\ h[x] \in Nat /\ f[x] = g[x] + h[x]
  PROVE  SumFunctionOnSet(f, S) = SumFunctionOnSet(g, S) + SumFunctionOnSet(h, S)
<1> DEFINE Good(T) == SumFunctionOnSet(f, T) = SumFunctionOnSet(g, T) + SumFunctionOnSet(h, T)
           Bad == {n \in Nat : \E T \in SUBSET S : Cardinality(T) = n /\ ~Good(T)}
<1>1. SUFFICES ASSUME ~Good(S) PROVE FALSE
  OBVIOUS
<1> HIDE DEF Good
<1>2. Bad # {}
  BY <1>1, FS_CardinalityType
<1>3. PICK n \in Bad : \A m \in Bad : n <= m
  <2> HIDE DEF Bad
  <2>1. Bad \in SUBSET Nat
    BY DEF Bad
  <2> QED BY <1>2, <2>1, LeastNumber
<1>4. PICK T \in SUBSET S : Cardinality(T) = n /\ ~Good(T)
  BY <1>3
<1>5. T # {}
  <2>1. Good({})
    BY SumEmpty DEF Good
  <2> QED BY <1>4, <2>1
<1>6. PICK x \in T : TRUE
  BY <1>5
<1>7. IsFiniteSet(T) /\ IsFiniteSet(T \ {x})
  BY FS_Subset
<1>8. Cardinality(T \ {x}) = n - 1 /\ Cardinality(T \ {x}) \in Nat
  BY <1>4, <1>7, FS_RemoveElement, FS_CardinalityType
<1>9. Good(T \ {x})
  <2>1. n - 1 \notin Bad
    BY <1>3, <1>8
  <2> QED BY <1>8, <2>1
<1>10. \A y \in T : f[y] \in Nat /\ g[y] \in Nat /\ h[y] \in Nat /\ f[y] = g[y] + h[y]
  OBVIOUS
<1>11. /\ SumFunctionOnSet(f, T) = SumFunctionOnSet(f, T \ {x}) + f[x]
       /\ SumFunctionOnSet(g, T) = SumFunctionOnSet(g, T \ {x}) + g[x]
       /\ SumFunctionOnSet(h, T) = SumFunctionOnSet(h, T \ {x}) + h[x]
  BY <1>7, <1>10, SumTakes
<1>12. /\ SumFunctionOnSet(f, T \ {x}) \in Nat
       /\ SumFunctionOnSet(g, T \ {x}) \in Nat
       /\ SumFunctionOnSet(h, T \ {x}) \in Nat
  BY <1>7, <1>10, SumType
<1>13. Good(T)
  BY <1>9, <1>10, <1>11, <1>12 DEF Good
<1> QED BY <1>4, <1>13

\* before[x] are those of S who come before x: every part of the queue that has
\* whoever comes before its members has a last one.
InLine(S, before) ==
  /\ \A x \in S : before[x] \in SUBSET S
  /\ \A T \in SUBSET S : T # {} /\ (\A x \in T : before[x] \subseteq T)
        => \E x \in T : /\ before[x] = T \ {x}
                        /\ \A y \in T \ {x} : before[y] \subseteq T \ {x}

\* An amount that is handed out, to each what it wants of what those before it
\* leave.  In all they get the amount, or all they want.
LEMMA HandedOut ==
  ASSUME NEW S, IsFiniteSet(S), NEW amount \in Nat,
         NEW want, NEW share, NEW before, InLine(S, before),
         \A x \in S : want[x] \in Nat,
         \A x \in S : share[x] = Smaller(want[x],
                           Larger(0, amount - SumFunctionOnSet(want, before[x])))
  PROVE  /\ \A x \in S : share[x] \in 0 .. want[x]
         /\ SumFunctionOnSet(share, S) = Smaller(amount, SumFunctionOnSet(want, S))
<1>1. \A T \in SUBSET S : /\ IsFiniteSet(T) /\ \A x \in T : want[x] \in Nat
                          /\ SumFunctionOnSet(want, T) \in Nat
  BY FS_Subset, SumType
<1>2. ASSUME NEW x \in S PROVE share[x] \in 0 .. want[x]
  <2>1. PICK m \in Nat : m = SumFunctionOnSet(want, before[x])
    BY <1>1 DEF InLine
  <2> QED BY <2>1 DEF Smaller, Larger
<1>wants. \A T \in SUBSET S : \A x \in T :
         SumFunctionOnSet(want, T) = SumFunctionOnSet(want, T \ {x}) + want[x]
  <2>1. \A y \in S : want[y] \in Nat
    OBVIOUS
  <2> QED BY <2>1, SumTakesWithin
<1>shares. \A T \in SUBSET S : \A x \in T :
         SumFunctionOnSet(share, T) = SumFunctionOnSet(share, T \ {x}) + share[x]
  <2>1. \A y \in S : share[y] \in Nat
    BY <1>2
  <2> QED BY <2>1, SumTakesWithin
<1> DEFINE Closed(T) == \A x \in T : before[x] \subseteq T
           Good(T) == SumFunctionOnSet(share, T) = Smaller(amount, SumFunctionOnSet(want, T))
           Bad == {n \in Nat : \E T \in SUBSET S : Cardinality(T) = n /\ Closed(T) /\ ~Good(T)}
<1>3. Closed(S)
  BY DEF InLine
<1>4. SUFFICES ASSUME ~Good(S) PROVE FALSE
  BY <1>2
<1> HIDE DEF Good
<1>5. Bad # {}
  BY <1>3, <1>4, FS_CardinalityType
<1>6. PICK n \in Bad : \A m \in Bad : n <= m
  <2> HIDE DEF Bad
  <2>1. Bad \in SUBSET Nat
    BY DEF Bad
  <2> QED BY <1>5, <2>1, LeastNumber
<1>7. PICK T \in SUBSET S : Cardinality(T) = n /\ Closed(T) /\ ~Good(T)
  BY <1>6
<1>8. T # {}
  <2>1. SumFunctionOnSet(share, {}) = 0 /\ SumFunctionOnSet(want, {}) = 0
    BY SumEmpty
  <2>2. Good({})
    BY <2>1 DEF Good, Smaller
  <2> QED BY <1>7, <2>2
<1>9. PICK x \in T : before[x] = T \ {x} /\ \A y \in T \ {x} : before[y] \subseteq T \ {x}
  BY <1>7, <1>8 DEF InLine
<1>10. Cardinality(T \ {x}) = n - 1 /\ Cardinality(T \ {x}) \in Nat
  BY <1>1, <1>7, FS_RemoveElement, FS_CardinalityType
<1>11. Good(T \ {x})
  <2>1. n - 1 \notin Bad
    BY <1>6, <1>10
  <2> QED BY <1>9, <1>10, <2>1
<1>12. SumFunctionOnSet(want, T) = SumFunctionOnSet(want, T \ {x}) + want[x]
  BY <1>wants, Zenon
<1>13. SumFunctionOnSet(share, T) = SumFunctionOnSet(share, T \ {x}) + share[x]
  BY <1>shares, Zenon
<1>14. PICK m \in Nat : m = SumFunctionOnSet(want, T \ {x})
  BY <1>1
<1>15. PICK w \in Nat : w = want[x] /\ share[x] = Smaller(w, Larger(0, amount - m))
  BY <1>9, <1>14
<1>16. SumFunctionOnSet(share, T \ {x}) = Smaller(amount, m)
  BY <1>11, <1>14 DEF Good
<1>17. Smaller(amount, m) + Smaller(w, Larger(0, amount - m)) = Smaller(amount, m + w)
  BY DEF Smaller, Larger
<1>18. Good(T)
  BY <1>12, <1>13, <1>14, <1>15, <1>16, <1>17 DEF Good
<1> QED BY <1>7, <1>18

\* A finite set of numbers has a greatest.
LEMMA OldestFirst ==
  ASSUME NEW S \in SUBSET Nat, IsFiniteSet(S), S # {}
  PROVE  \E x \in S : \A y \in S \ {x} : y < x
<1> SUFFICES ASSUME \A x \in S : \E y \in S \ {x} : ~(y < x) PROVE FALSE
  OBVIOUS
<1> DEFINE Big == {n \in Nat : \E T \in SUBSET S : /\ T # {} /\ Cardinality(T) = n
                                  /\ \A x \in T, y \in S : y > x => y \in T}
<1>1. S \in SUBSET S /\ Cardinality(S) \in Nat
  BY FS_CardinalityType
<1>2. Cardinality(S) \in Big
  BY <1>1
<1>3. PICK n \in Big : \A m \in Big : n <= m
  <2> HIDE DEF Big
  <2>1. Big \in SUBSET Nat
    BY DEF Big
  <2> QED BY <1>2, <2>1, LeastNumber
<1>4. PICK T \in SUBSET S : /\ T # {} /\ Cardinality(T) = n
                            /\ \A x \in T, y \in S : y > x => y \in T
  BY <1>3
<1>5. PICK x \in T : \A y \in T : x <= y
  <2>1. T \in SUBSET Nat
    OBVIOUS
  <2> QED BY <1>4, <2>1, LeastNumber
<1>6. T \ {x} # {}
  <2>1. PICK y \in S \ {x} : ~(y < x)
    OBVIOUS
  <2>2. y > x
    BY <2>1
  <2> QED BY <1>4, <2>1, <2>2
<1>7. IsFiniteSet(T)
  BY FS_Subset
<1>8. Cardinality(T \ {x}) = n - 1 /\ Cardinality(T \ {x}) \in Nat
  BY <1>4, <1>7, FS_RemoveElement, FS_CardinalityType
<1>9. \A z \in T \ {x}, y \in S : y > z => y \in T \ {x}
  BY <1>4, <1>5
<1>10. n - 1 \in Big
  BY <1>6, <1>8, <1>9
<1> QED BY <1>3, <1>10

-----------------------------------------------------------------------------
(* The fund.                                                                 *)

\* Before an order is placed nothing of it comes, and what comes is on a line.
NothingTooEarly ==
  \A l \in Lines : got[l] + receiving[l] > 0 =>
     added[l] = "added" /\ orderStatus[LineOrder[l]] \in {"ordered", "received", "cancelled"}

\* As long as nothing has crossed: of a received order all has come, and what a
\* cancellation added up is what is outstanding still.
ReceivedInFull ==
  \A o \in Orders : orderStatus[o] = "received" =>
     \A l \in LinesOf(o) : got[l] = Quantity[l]

StillOutstanding ==
  \A o \in Orders : cancelling[o] # None => cancelling[o] = Releasable(o)

FundInv ==
  /\ AcquisitionsTypeOK
  /\ WithinBudget
  /\ NothingTooEarly
  /\ ~crossed => ReceivedInFull /\ StillOutstanding
  /\ FundBooks

LEMMA ProductType == \A m, n \in Nat : m * n \in Nat
OBVIOUS

LEMMA PriceType ==
  ASSUME AcquisitionsTypeOK, NEW o \in Orders
  PROVE  /\ IsFiniteSet(LinesOf(o)) /\ LinesOf(o) \in SUBSET Lines
         /\ \A l \in Lines : /\ Quantity[l] \in Nat /\ Cost[l] \in Nat
                             /\ Outstanding(l) \in 0 .. Quantity[l]
                             /\ Quantity[l] * Cost[l] \in Nat
                             /\ Outstanding(l) * Cost[l] \in Nat
                             /\ got[l] * Cost[l] \in Nat
                             /\ receiving[l] * Cost[l] \in Nat
         /\ Total(o) \in Nat /\ OutstandingCost(o) \in Nat
<1>1. IsFiniteSet(LinesOf(o)) /\ LinesOf(o) \in SUBSET Lines
  BY AcquisitionsAssumption, FS_Subset DEF LinesOf
<1>2. ASSUME NEW l \in Lines
      PROVE  /\ Quantity[l] \in Nat /\ Cost[l] \in Nat
             /\ Outstanding(l) \in 0 .. Quantity[l]
             /\ got[l] \in Nat /\ receiving[l] \in Nat
  BY AcquisitionsAssumption DEF AcquisitionsTypeOK, Outstanding
<1>3. \A l \in Lines : /\ Quantity[l] * Cost[l] \in Nat
                       /\ Outstanding(l) * Cost[l] \in Nat
                       /\ got[l] * Cost[l] \in Nat
                       /\ receiving[l] * Cost[l] \in Nat
  BY <1>2, ProductType
<1>4. Total(o) \in Nat
  BY <1>1, <1>3, SumType DEF Total
<1>5. OutstandingCost(o) \in Nat
  BY <1>1, <1>3, SumType DEF OutstandingCost
<1> QED BY <1>1, <1>2, <1>3, <1>4, <1>5

LEMMA FundInit == AcquisitionsInit => FundInv
<1> SUFFICES ASSUME AcquisitionsInit PROVE FundInv
  OBVIOUS
<1> USE DEF AcquisitionsInit
<1>1. AcquisitionsTypeOK
  <2>1. \A l \in Lines : got[l] = 0 /\ receiving[l] = 0 /\ Quantity[l] \in Nat
    BY AcquisitionsAssumption
  <2>2. /\ orderStatus \in [Orders -> OrderStatus] /\ crossed \in BOOLEAN
        /\ cancelling \in [Orders -> Nat \cup {None}]
    BY DEF OrderStatus
  <2> QED BY <2>1, <2>2 DEF AcquisitionsTypeOK
<1>2. WithinBudget /\ NothingTooEarly /\ ReceivedInFull /\ StillOutstanding
  BY AcquisitionsAssumption
  DEF WithinBudget, NothingTooEarly, ReceivedInFull, StillOutstanding
<1>3. spent = SumFunctionOnSet([l \in Lines |-> got[l] * Cost[l]], Lines)
  <2>1. \A l \in Lines : [k \in Lines |-> got[k] * Cost[k]][l] = 0
    BY AcquisitionsAssumption
  <2> QED BY <2>1, AcquisitionsAssumption, SumOfNothing
<1>4. {o \in Orders : orderStatus[o] = "ordered"} = {}
  OBVIOUS
<1>5. encumbered = SumFunctionOnSet([o \in Orders |-> OutstandingCost(o)],
                                    {o \in Orders : orderStatus[o] = "ordered"})
  BY <1>4, SumEmpty
<1> QED BY <1>1, <1>2, <1>3, <1>5 DEF FundInv, FundBooks

LEMMA FundType ==
  AcquisitionsTypeOK /\ [AcquisitionsNext]_orderVars => AcquisitionsTypeOK'
<1> SUFFICES ASSUME AcquisitionsTypeOK, [AcquisitionsNext]_orderVars
             PROVE  AcquisitionsTypeOK'
  OBVIOUS
<1> USE DEF AcquisitionsTypeOK
<1>1. ASSUME NEW o \in Orders, CreateOrder(o) PROVE AcquisitionsTypeOK'
  BY <1>1 DEF CreateOrder, OrderStatus, fundVars
<1>2. ASSUME NEW o \in Orders, PlaceOrder(o) PROVE AcquisitionsTypeOK'
  <2>1. Total(o) \in Nat
    BY PriceType
  <2> QED BY <1>2, <2>1 DEF PlaceOrder, OrderStatus
<1>3. ASSUME NEW o \in Orders, BeginCancel(o) PROVE AcquisitionsTypeOK'
  <2>1. Releasable(o) \in Nat
    BY PriceType DEF Releasable
  <2> QED BY <1>3, <2>1 DEF BeginCancel, fundVars
<1>4. ASSUME NEW o \in Orders, CancelOrder(o) PROVE AcquisitionsTypeOK'
  <2>1. Less(cancelling[o]) \in Nat
    BY <1>4 DEF CancelOrder, Less
  <2> QED BY <1>4, <2>1 DEF CancelOrder, OrderStatus
<1>5. ASSUME NEW l \in Lines, AskLine(l) \/ AddLine(l)
      PROVE  AcquisitionsTypeOK'
  <2>1. crossed' \in BOOLEAN
    BY <1>5 DEF AskLine, AddLine
  <2>2. added' \in [Lines -> {"absent", "asked", "added"}]
    BY <1>5 DEF AskLine, AddLine
  <2> QED BY <1>5, <2>1, <2>2 DEF AskLine, AddLine, fundVars
<1>9. ASSUME NEW l \in Lines, AbandonReceipt(l) PROVE AcquisitionsTypeOK'
  <2>1. /\ receiving' \in [Lines -> Nat]
        /\ \A k \in Lines : receiving'[k] <= receiving[k]
    BY <1>9 DEF AbandonReceipt
  <2>2. \A k \in Lines : Quantity[k] \in Nat /\ got'[k] = got[k]
    BY <1>9, AcquisitionsAssumption DEF AbandonReceipt
  <2> QED BY <1>9, <2>1, <2>2 DEF AbandonReceipt, fundVars
<1>6. ASSUME NEW l \in Lines, NEW n \in 1 .. Quantity[l], BeginReceipt(l, n)
      PROVE  AcquisitionsTypeOK'
  <2>1. /\ receiving' \in [Lines -> Nat]
        /\ \A k \in Lines : got[k] + receiving'[k] <= Quantity[k]
    <3>1. n \in Nat /\ receiving[l] = 0 /\ receiving' = [receiving EXCEPT ![l] = n]
      BY <1>6, AcquisitionsAssumption DEF BeginReceipt
    <3>2. \A k \in Lines : Quantity[k] \in Nat /\ got[k] \in Nat
      BY AcquisitionsAssumption
    <3>3. n \in 1 .. (Quantity[l] - got[l])
      BY <1>6 DEF BeginReceipt, Outstanding
    <3>4. got[l] + n <= Quantity[l]
      BY <3>2, <3>3
    <3> QED BY <3>1, <3>2, <3>4
  <2> QED BY <1>6, <2>1 DEF BeginReceipt, fundVars
<1>7. ASSUME NEW l \in Lines, Receive(l) PROVE AcquisitionsTypeOK'
  <2> DEFINE cost == receiving[l] * Cost[l]
  <2>1. cost \in Nat
    BY AcquisitionsAssumption, ProductType
  <2> HIDE DEF cost
  <2>2. encumbered' \in Nat /\ spent' \in Nat
    BY <1>7, <2>1 DEF Receive, Less, cost
  <2>3. /\ orderStatus' \in [Orders -> OrderStatus]
        /\ got' \in [Lines -> Nat] /\ receiving' \in [Lines -> Nat]
        /\ \A k \in Lines : got'[k] + receiving'[k] <= Quantity[k]
    BY <1>7, AcquisitionsAssumption DEF Receive, OrderStatus
  <2> QED BY <1>7, <2>2, <2>3 DEF Receive
<1>8. CASE UNCHANGED orderVars
  BY <1>8 DEF orderVars, fundVars
<1> QED BY <1>1, <1>2, <1>3, <1>4, <1>5, <1>6, <1>7, <1>8, <1>9 DEF AcquisitionsNext

LEMMA BudgetKept ==
  AcquisitionsTypeOK /\ WithinBudget /\ [AcquisitionsNext]_orderVars => WithinBudget'
<1> SUFFICES ASSUME AcquisitionsTypeOK, WithinBudget, [AcquisitionsNext]_orderVars
             PROVE  WithinBudget'
  OBVIOUS
<1>1. CASE UNCHANGED fundVars
  BY <1>1 DEF WithinBudget, fundVars
<1>2. ASSUME NEW o \in Orders, PlaceOrder(o) PROVE WithinBudget'
  <2>1. Total(o) \in Nat
    BY PriceType
  <2> QED BY <1>2, <2>1, AcquisitionsAssumption DEF PlaceOrder, WithinBudget, AcquisitionsTypeOK
<1>3. ASSUME NEW o \in Orders, CancelOrder(o) PROVE WithinBudget'
  BY <1>3, AcquisitionsAssumption DEF CancelOrder, Less, WithinBudget, AcquisitionsTypeOK
<1>4. ASSUME NEW l \in Lines, Receive(l) PROVE WithinBudget'
  <2>1. PICK cost \in Nat : cost = receiving[l] * Cost[l]
    BY AcquisitionsAssumption, ProductType DEF AcquisitionsTypeOK
  <2>2. spent + cost <= Budget /\ encumbered' = Less(cost) /\ spent' = spent + cost
    BY <1>4, <2>1 DEF Receive, Affordable
  <2> QED BY <2>2, AcquisitionsAssumption DEF Less, WithinBudget, AcquisitionsTypeOK
<1> QED
  BY <1>1, <1>2, <1>3, <1>4
  DEF AcquisitionsNext, CreateOrder, BeginCancel, AskLine, AddLine, AbandonReceipt, BeginReceipt,
      orderVars

OpenOrders == {o \in Orders : orderStatus[o] = "ordered"}

\* What an order still waits for depends on its lines and what came of them.
LEMMA SameOutstanding ==
  ASSUME AcquisitionsTypeOK, AcquisitionsTypeOK', NEW o \in Orders,
         LinesOf(o)' = LinesOf(o), \A l \in LinesOf(o) : got'[l] = got[l]
  PROVE  OutstandingCost(o)' = OutstandingCost(o)
<1> DEFINE f == [l \in Lines |-> Outstanding(l) * Cost[l]]
           g == [l \in Lines |-> (Quantity[l] - got'[l]) * Cost[l]]
<1>1. \A l \in LinesOf(o) : f[l] \in Nat /\ g[l] = f[l]
  BY PriceType DEF Outstanding
<1>2. OutstandingCost(o) = SumFunctionOnSet(f, LinesOf(o))
  BY DEF OutstandingCost
<1>3. OutstandingCost(o)' = SumFunctionOnSet(g, LinesOf(o))
  BY DEF OutstandingCost, Outstanding
<1>4. IsFiniteSet(LinesOf(o))
  BY PriceType
<1> HIDE DEF f, g
<1> QED BY <1>1, <1>2, <1>3, <1>4, SumSame

\* The books of the open orders, as a sum of numbers.
LEMMA OpenBooks ==
  ASSUME AcquisitionsTypeOK
  PROVE  /\ IsFiniteSet(Orders) /\ IsFiniteSet(OpenOrders)
         /\ \A o \in Orders : [q \in Orders |-> OutstandingCost(q)][o] = OutstandingCost(o)
         /\ \A o \in Orders : OutstandingCost(o) \in Nat
BY AcquisitionsAssumption, PriceType, FS_Subset DEF OpenOrders

LEMMA SpentStays ==
  ASSUME FundInv, spent' = spent, got' = got
  PROVE  spent' = SumFunctionOnSet([l \in Lines |-> got'[l] * Cost[l]], Lines)
BY DEF FundInv, FundBooks

\* A step that moves no money, opens and closes no order.
LEMMA QuietBooks ==
  ASSUME FundInv, AcquisitionsTypeOK', UNCHANGED <<got, fundVars>>, OpenOrders' = OpenOrders,
         ~crossed' => ~crossed /\ \A o \in OpenOrders : LinesOf(o)' = LinesOf(o)
  PROVE  FundBooks'
<1>1. spent' = SumFunctionOnSet([l \in Lines |-> got'[l] * Cost[l]], Lines)
  BY SpentStays DEF fundVars
<1>2. ASSUME ~crossed'
      PROVE  encumbered' = SumFunctionOnSet([o \in Orders |-> OutstandingCost(o)'], OpenOrders')
  <2> DEFINE f == [o \in Orders |-> OutstandingCost(o)]
             g == [o \in Orders |-> OutstandingCost(o)']
  <2>1. encumbered = SumFunctionOnSet(f, OpenOrders)
    BY <1>2 DEF FundInv, FundBooks, OpenOrders
  <2>2. \A o \in OpenOrders : OutstandingCost(o)' = OutstandingCost(o)
    BY <1>2, SameOutstanding DEF FundInv, OpenOrders
  <2>3. \A o \in OpenOrders : f[o] \in Nat /\ g[o] = f[o]
    BY <2>2, OpenBooks DEF FundInv, OpenOrders
  <2>4. IsFiniteSet(OpenOrders)
    BY OpenBooks DEF FundInv
  <2> HIDE DEF f, g
  <2>5. SumFunctionOnSet(g, OpenOrders) = SumFunctionOnSet(f, OpenOrders)
    BY <2>3, <2>4, SumSame
  <2> QED BY <2>1, <2>5 DEF g, fundVars
<1> QED BY <1>1, <1>2 DEF FundBooks, OpenOrders

LEMMA PlaceBooks ==
  ASSUME FundInv, AcquisitionsTypeOK', NEW o \in Orders, PlaceOrder(o)
  PROVE  FundBooks'
<1> USE DEF FundInv
<1>1. spent' = SumFunctionOnSet([l \in Lines |-> got'[l] * Cost[l]], Lines)
  BY SpentStays DEF PlaceOrder
<1>2. /\ o \notin OpenOrders /\ OpenOrders' = OpenOrders \cup {o}
      /\ crossed' = crossed /\ got' = got /\ encumbered' = encumbered + Total(o)
      /\ \A q \in Orders : LinesOf(q)' = LinesOf(q)
  BY DEF PlaceOrder, OpenOrders, AcquisitionsTypeOK, LinesOf
<1>3. OutstandingCost(o) = Total(o)
  <2> DEFINE f == [l \in Lines |-> Outstanding(l) * Cost[l]]
             g == [l \in Lines |-> Quantity[l] * Cost[l]]
  <2>1. ASSUME NEW l \in LinesOf(o) PROVE f[l] \in Nat /\ g[l] = f[l]
    <3>1. got[l] = 0 /\ l \in Lines
      BY DEF PlaceOrder, NothingTooEarly, LinesOf, AcquisitionsTypeOK
    <3>2. Outstanding(l) = Quantity[l] /\ Outstanding(l) * Cost[l] \in Nat
      BY <3>1, PriceType DEF Outstanding
    <3> QED BY <3>1, <3>2
  <2>2. IsFiniteSet(LinesOf(o))
    BY PriceType
  <2> HIDE DEF f, g
  <2>3. SumFunctionOnSet(g, LinesOf(o)) = SumFunctionOnSet(f, LinesOf(o))
    BY <2>1, <2>2, SumSame
  <2> QED BY <2>3 DEF f, g, OutstandingCost, Total
<1>4. ASSUME ~crossed'
      PROVE  encumbered' = SumFunctionOnSet([q \in Orders |-> OutstandingCost(q)'], OpenOrders')
  <2> DEFINE f == [q \in Orders |-> OutstandingCost(q)]
             g == [q \in Orders |-> OutstandingCost(q)']
  <2>1. encumbered = SumFunctionOnSet(f, OpenOrders)
    BY <1>2, <1>4 DEF FundBooks, OpenOrders
  <2>2. \A q \in Orders : OutstandingCost(q)' = OutstandingCost(q)
    BY <1>2, SameOutstanding
  <2>3. g = f /\ f[o] = Total(o)
    BY <1>3, <2>2
  <2>4. IsFiniteSet(OpenOrders) /\ \A q \in OpenOrders : f[q] \in Nat
    BY OpenBooks DEF OpenOrders
  <2>5. f[o] \in Nat
    BY OpenBooks
  <2> HIDE DEF f
  <2>6. SumFunctionOnSet(f, OpenOrders \cup {o}) = SumFunctionOnSet(f, OpenOrders) + f[o]
    BY <1>2, <2>4, <2>5, SumAdds
  <2> QED BY <1>2, <2>1, <2>3, <2>6
<1> QED BY <1>1, <1>4 DEF FundBooks, OpenOrders

LEMMA CancelBooks ==
  ASSUME FundInv, AcquisitionsTypeOK', NEW o \in Orders, CancelOrder(o)
  PROVE  FundBooks'
<1> USE DEF FundInv
<1>1. spent' = SumFunctionOnSet([l \in Lines |-> got'[l] * Cost[l]], Lines)
  BY SpentStays DEF CancelOrder
<1>2. /\ OpenOrders' = OpenOrders \ {o}
      /\ crossed' = crossed /\ got' = got /\ encumbered' = Less(cancelling[o])
      /\ \A q \in Orders : LinesOf(q)' = LinesOf(q)
  BY DEF CancelOrder, OpenOrders, AcquisitionsTypeOK, LinesOf
<1>4. ASSUME ~crossed'
      PROVE  encumbered' = SumFunctionOnSet([q \in Orders |-> OutstandingCost(q)'], OpenOrders')
  <2> DEFINE f == [q \in Orders |-> OutstandingCost(q)]
             g == [q \in Orders |-> OutstandingCost(q)']
  <2>1. encumbered = SumFunctionOnSet(f, OpenOrders)
    BY <1>2, <1>4 DEF FundBooks, OpenOrders
  <2>2. \A q \in Orders : OutstandingCost(q)' = OutstandingCost(q)
    BY <1>2, SameOutstanding
  <2>3. g = f
    BY <2>2
  <2>4. IsFiniteSet(OpenOrders) /\ \A q \in OpenOrders : f[q] \in Nat
    BY OpenBooks DEF OpenOrders
  <2>5. cancelling[o] = IF o \in OpenOrders THEN f[o] ELSE 0
    BY <1>2, <1>4 DEF CancelOrder, StillOutstanding, Releasable, OpenOrders
  <2>6. encumbered \in Nat
    BY DEF AcquisitionsTypeOK
  <2> HIDE DEF f
  <2>7. CASE o \in OpenOrders
    <3>1. SumFunctionOnSet(f, OpenOrders) = SumFunctionOnSet(f, OpenOrders \ {o}) + f[o]
      BY <2>4, <2>7, SumTakes
    <3>2. SumFunctionOnSet(f, OpenOrders \ {o}) \in Nat
      <4>1. IsFiniteSet(OpenOrders \ {o})
        BY <2>4, FS_Subset
      <4> QED BY <2>4, <4>1, SumType
    <3>3. f[o] \in Nat
      BY <2>4, <2>7
    <3>4. Less(f[o]) = SumFunctionOnSet(f, OpenOrders \ {o})
      BY <2>1, <2>6, <3>1, <3>2, <3>3 DEF Less
    <3> QED BY <1>2, <2>3, <2>5, <2>7, <3>4
  <2>8. CASE o \notin OpenOrders
    <3>1. OpenOrders' = OpenOrders
      BY <1>2, <2>8
    <3>2. Less(0) = encumbered
      BY <2>6 DEF Less
    <3> QED BY <1>2, <2>1, <2>3, <2>5, <2>8, <3>1, <3>2
  <2> QED BY <2>7, <2>8
<1> QED BY <1>1, <1>4 DEF FundBooks, OpenOrders

\* A receipt spends what it releases, once the order is known to be open.
LEMMA ReceiveBooks ==
  ASSUME FundInv, AcquisitionsTypeOK', NEW l \in Lines, Receive(l)
  PROVE  FundBooks' /\ (~crossed' => ReceivedInFull' /\ StillOutstanding')
<1> USE DEF FundInv
<1>1. PICK o \in Orders : o = LineOrder[l]
  BY AcquisitionsAssumption
<1>2. PICK n \in Nat : n = receiving[l]
  BY DEF AcquisitionsTypeOK
<1>3. PICK cost \in Nat : cost = n * Cost[l]
  BY <1>2, PriceType, <1>1
<1>4. /\ n > 0 /\ encumbered' = Less(cost) /\ spent' = spent + cost
      /\ got' = [got EXCEPT ![l] = @ + n]
      /\ cancelling' = cancelling /\ added' = added
      /\ crossed' = (crossed \/ orderStatus[o] = "cancelled" \/ cancelling[o] # None)
      /\ \A q \in Orders : LinesOf(q)' = LinesOf(q)
      /\ \/ /\ \A m \in LinesOf(o) : got'[m] = Quantity[m]
            /\ orderStatus' = [orderStatus EXCEPT ![o] = "received"]
         \/ orderStatus' = orderStatus
  BY <1>1, <1>2, <1>3 DEF Receive, LinesOf
<1>5. got'[l] = got[l] + n /\ \A k \in Lines \ {l} : got'[k] = got[k]
  BY <1>4 DEF AcquisitionsTypeOK
<1>6. l \in LinesOf(o) /\ orderStatus[o] \in {"ordered", "received", "cancelled"}
  <2>1. got[l] + receiving[l] > 0
    BY <1>2, <1>4 DEF AcquisitionsTypeOK
  <2> QED BY <1>1, <2>1 DEF NothingTooEarly, LinesOf
<1>7. spent' = SumFunctionOnSet([k \in Lines |-> got'[k] * Cost[k]], Lines)
  <2> DEFINE f == [k \in Lines |-> got[k] * Cost[k]]
             g == [k \in Lines |-> got'[k] * Cost[k]]
  <2>1. spent = SumFunctionOnSet(f, Lines)
    BY DEF FundBooks
  <2>2. \A k \in Lines : f[k] \in Nat /\ g[k] \in Nat
    <3>1. \A k \in Lines : got[k] \in Nat /\ got'[k] \in Nat /\ Cost[k] \in Nat
      BY AcquisitionsAssumption DEF AcquisitionsTypeOK
    <3> QED BY <3>1, ProductType
  <2>3. \A k \in Lines \ {l} : g[k] = f[k]
    BY <1>5
  <2>4. g[l] = f[l] + cost
    <3>1. got[l] \in Nat /\ Cost[l] \in Nat
      BY AcquisitionsAssumption DEF AcquisitionsTypeOK
    <3>2. (got[l] + n) * Cost[l] = got[l] * Cost[l] + n * Cost[l]
      BY <3>1
    <3> QED BY <1>3, <1>5, <3>2
  <2>5. SumFunctionOnSet(f, Lines) \in Nat
    BY <2>2, AcquisitionsAssumption, SumType
  <2> HIDE DEF f, g
  <2>6. SumFunctionOnSet(g, Lines) = SumFunctionOnSet(f, Lines) - f[l] + g[l]
    BY <2>2, <2>3, AcquisitionsAssumption, SumChanges
  <2>7. SumFunctionOnSet(g, Lines) = spent + cost
    BY <2>1, <2>2, <2>4, <2>5, <2>6
  <2> QED BY <1>4, <2>7 DEF g
<1>8. ASSUME ~crossed'
      PROVE  /\ encumbered' = SumFunctionOnSet([q \in Orders |-> OutstandingCost(q)'], OpenOrders')
             /\ ReceivedInFull' /\ StillOutstanding'
  <2>1. ~crossed /\ orderStatus[o] # "cancelled" /\ cancelling[o] = None
    BY <1>4, <1>8
  <2>2. o \in OpenOrders
    <3>1. got[l] + n <= Quantity[l] /\ got[l] \in Nat /\ Quantity[l] \in Nat
      BY <1>2, AcquisitionsAssumption DEF AcquisitionsTypeOK
    <3>2. got[l] # Quantity[l]
      BY <1>4, <3>1
    <3> QED BY <1>6, <2>1, <3>2 DEF OpenOrders, ReceivedInFull
  <2>3. \A q \in Orders \ {o} : /\ orderStatus'[q] = orderStatus[q]
                               /\ OutstandingCost(q)' = OutstandingCost(q)
    <3>1. \A q \in Orders \ {o} : \A k \in LinesOf(q) : k # l
      BY <1>1 DEF LinesOf
    <3>2. \A q \in Orders \ {o} : \A k \in LinesOf(q) : got'[k] = got[k]
      BY <1>5, <3>1 DEF LinesOf
    <3>3. \A q \in Orders \ {o} : OutstandingCost(q)' = OutstandingCost(q)
      BY <1>4, <3>2, SameOutstanding
    <3> QED BY <1>4, <3>3 DEF AcquisitionsTypeOK
  <2>4. OutstandingCost(o) = OutstandingCost(o)' + cost /\ OutstandingCost(o)' \in Nat
    <3> DEFINE f == [k \in Lines |-> Outstanding(k) * Cost[k]]
               g == [k \in Lines |-> (Quantity[k] - got'[k]) * Cost[k]]
    <3>1. \A k \in Lines : /\ Quantity[k] \in Nat /\ Cost[k] \in Nat
                           /\ Quantity[k] - got[k] \in Nat /\ Quantity[k] - got'[k] \in Nat
      BY AcquisitionsAssumption DEF AcquisitionsTypeOK
    <3>2. \A k \in Lines : f[k] \in Nat /\ g[k] \in Nat
      BY <3>1, ProductType DEF Outstanding
    <3>3. \A k \in Lines \ {l} : g[k] = f[k]
      BY <1>5 DEF Outstanding
    <3>4. f[l] = g[l] + cost
      <4>1. PICK m \in Nat : m = Quantity[l] - got'[l]
        BY <3>1
      <4>2. Quantity[l] - got[l] = m + n
        BY <1>5, <3>1, <4>1 DEF AcquisitionsTypeOK
      <4>3. (m + n) * Cost[l] = m * Cost[l] + n * Cost[l]
        BY <3>1
      <4> QED BY <1>3, <4>1, <4>2, <4>3 DEF Outstanding
    <3>5. IsFiniteSet(LinesOf(o)) /\ LinesOf(o) \in SUBSET Lines
      BY PriceType
    <3>6. OutstandingCost(o) = SumFunctionOnSet(f, LinesOf(o))
      BY DEF OutstandingCost
    <3>7. OutstandingCost(o)' = SumFunctionOnSet(g, LinesOf(o))
      BY <1>4 DEF OutstandingCost, Outstanding
    <3> HIDE DEF f, g
    <3>8. SumFunctionOnSet(g, LinesOf(o)) = SumFunctionOnSet(f, LinesOf(o)) - f[l] + g[l]
      BY <1>6, <3>2, <3>3, <3>5, SumChanges
    <3>9. SumFunctionOnSet(f, LinesOf(o)) \in Nat
      BY <3>2, <3>5, SumType
    <3>10. SumFunctionOnSet(g, LinesOf(o)) \in Nat
      BY <3>2, <3>5, SumType
    <3> QED BY <3>2, <3>4, <3>6, <3>7, <3>8, <3>9, <3>10
  <2> DEFINE f == [q \in Orders |-> OutstandingCost(q)]
             g == [q \in Orders |-> OutstandingCost(q)']
  <2>5. encumbered = SumFunctionOnSet(f, OpenOrders)
    BY <2>1 DEF FundBooks, OpenOrders
  <2>6. \A q \in Orders : f[q] \in Nat /\ g[q] \in Nat
    <3>1. \A q \in Orders : OutstandingCost(q) \in Nat
      BY OpenBooks
    <3> QED BY <2>3, <2>4, <3>1
  <2>7. f[o] = g[o] + cost /\ \A q \in OpenOrders \ {o} : g[q] = f[q]
    BY <2>3, <2>4 DEF OpenOrders
  <2> HIDE DEF f, g
  <2>8. IsFiniteSet(OpenOrders) /\ IsFiniteSet(OpenOrders \ {o}) /\ OpenOrders \subseteq Orders
    BY OpenBooks, FS_Subset DEF OpenOrders
  <2>9. PICK rest \in Nat : /\ rest = SumFunctionOnSet(g, OpenOrders \ {o})
                            /\ encumbered = rest + f[o]
    <3>1. SumFunctionOnSet(f, OpenOrders) = SumFunctionOnSet(f, OpenOrders \ {o}) + f[o]
      BY <2>2, <2>6, <2>8, SumTakes
    <3>2. SumFunctionOnSet(g, OpenOrders \ {o}) = SumFunctionOnSet(f, OpenOrders \ {o})
      BY <2>6, <2>7, <2>8, SumSame
    <3>3. SumFunctionOnSet(g, OpenOrders \ {o}) \in Nat
      BY <2>6, <2>8, SumType
    <3> QED BY <2>5, <3>1, <3>2, <3>3
  <2>10. encumbered' = rest + g[o]
    BY <1>4, <2>2, <2>6, <2>7, <2>9 DEF Less
  <2>11. CASE orderStatus' = orderStatus
    <3>1. OpenOrders' = OpenOrders
      BY <2>11 DEF OpenOrders
    <3>2. SumFunctionOnSet(g, OpenOrders) = SumFunctionOnSet(g, OpenOrders \ {o}) + g[o]
      BY <2>2, <2>6, <2>8, SumTakes
    <3>3. ReceivedInFull'
      BY <1>1, <1>4, <1>5, <2>1, <2>2, <2>11 DEF ReceivedInFull, OpenOrders, LinesOf
    <3>4. StillOutstanding'
      BY <1>4, <2>1, <2>3 DEF StillOutstanding, Releasable
    <3> QED BY <2>9, <2>10, <3>1, <3>2, <3>3, <3>4 DEF g
  <2>12. CASE /\ \A m \in LinesOf(o) : got'[m] = Quantity[m]
              /\ orderStatus' = [orderStatus EXCEPT ![o] = "received"]
    <3>1. OpenOrders' = OpenOrders \ {o}
      BY <2>12 DEF OpenOrders, AcquisitionsTypeOK
    <3>2. g[o] = 0
      <4> DEFINE h == [k \in Lines |-> (Quantity[k] - got'[k]) * Cost[k]]
      <4>1. \A k \in LinesOf(o) : h[k] = 0
        BY <2>12, AcquisitionsAssumption DEF LinesOf
      <4>2. IsFiniteSet(LinesOf(o))
        BY PriceType
      <4>3. OutstandingCost(o)' = SumFunctionOnSet(h, LinesOf(o))
        BY <1>4 DEF OutstandingCost, Outstanding
      <4> HIDE DEF h
      <4>4. OutstandingCost(o)' = 0
        BY <4>1, <4>2, <4>3, SumOfNothing
      <4> QED BY <4>4 DEF g
    <3>3. ReceivedInFull'
      <4>1. ASSUME NEW q \in Orders, orderStatus'[q] = "received", NEW k \in LinesOf(q)
            PROVE  got'[k] = Quantity[k]
        <5>1. CASE q = o
          BY <2>12, <4>1, <5>1
        <5>2. CASE q # o
          <6>1. orderStatus[q] = "received" /\ k # l /\ k \in Lines
            BY <1>1, <2>3, <4>1, <5>2 DEF LinesOf
          <6> QED BY <1>5, <2>1, <4>1, <6>1 DEF ReceivedInFull
        <5> QED BY <5>1, <5>2
      <4> QED BY <1>4, <4>1 DEF ReceivedInFull
    <3>4. StillOutstanding'
      BY <1>4, <2>1, <2>3 DEF StillOutstanding, Releasable
    <3> QED BY <2>9, <2>10, <3>1, <3>2, <3>3, <3>4 DEF g
  <2> QED BY <1>4, <2>11, <2>12
<1> QED BY <1>7, <1>8 DEF FundBooks, OpenOrders

LEMMA NotTooEarly ==
  FundInv /\ AcquisitionsTypeOK' /\ [AcquisitionsNext]_orderVars => NothingTooEarly'
<1> SUFFICES ASSUME FundInv, AcquisitionsTypeOK', [AcquisitionsNext]_orderVars,
                    NEW l \in Lines, got'[l] + receiving'[l] > 0
             PROVE  /\ added'[l] = "added"
                    /\ orderStatus'[LineOrder[l]] \in {"ordered", "received", "cancelled"}
  BY DEF NothingTooEarly
<1> USE AcquisitionsAssumption DEF FundInv, AcquisitionsTypeOK, NothingTooEarly
<1>1. ASSUME NEW o \in Orders, CreateOrder(o) \/ PlaceOrder(o) \/ BeginCancel(o) \/ CancelOrder(o)
      PROVE  /\ added'[l] = "added"
             /\ orderStatus'[LineOrder[l]] \in {"ordered", "received", "cancelled"}
  BY <1>1 DEF CreateOrder, PlaceOrder, BeginCancel, CancelOrder
<1>2. ASSUME NEW k \in Lines, AskLine(k) \/ AddLine(k)
      PROVE  /\ added'[l] = "added"
             /\ orderStatus'[LineOrder[l]] \in {"ordered", "received", "cancelled"}
  BY <1>2 DEF AskLine, AddLine
<1>3. ASSUME NEW k \in Lines, AbandonReceipt(k) \/ \E n \in 1 .. Quantity[k] : BeginReceipt(k, n)
      PROVE  /\ added'[l] = "added"
             /\ orderStatus'[LineOrder[l]] \in {"ordered", "received", "cancelled"}
  <2>1. CASE k = l /\ \E n \in 1 .. Quantity[k] : BeginReceipt(k, n)
    BY <2>1 DEF BeginReceipt
  <2>2. CASE k # l \/ AbandonReceipt(k)
    <3>1. got[l] + receiving[l] > 0 /\ added' = added /\ orderStatus' = orderStatus
      BY <1>3, <2>2 DEF BeginReceipt, AbandonReceipt
    <3> QED BY <3>1
  <2> QED BY <1>3, <2>1, <2>2
<1>4. ASSUME NEW k \in Lines, Receive(k)
      PROVE  /\ added'[l] = "added"
             /\ orderStatus'[LineOrder[l]] \in {"ordered", "received", "cancelled"}
  <2>1. got[l] + receiving[l] > 0
    BY <1>4 DEF Receive
  <2>2. orderStatus'[LineOrder[l]] \in {orderStatus[LineOrder[l]], "received"} /\ added' = added
    BY <1>4 DEF Receive
  <2> QED BY <2>1, <2>2
<1>5. CASE UNCHANGED orderVars
  BY <1>5 DEF orderVars
<1> QED BY <1>1, <1>2, <1>3, <1>4, <1>5 DEF AcquisitionsNext

LEMMA FundNext == FundInv /\ [AcquisitionsNext]_orderVars => FundInv'
<1> SUFFICES ASSUME FundInv, [AcquisitionsNext]_orderVars PROVE FundInv'
  OBVIOUS
<1>1. AcquisitionsTypeOK' /\ WithinBudget' /\ NothingTooEarly'
  BY FundType, BudgetKept, NotTooEarly DEF FundInv
<1> DEFINE Rest == FundBooks' /\ (~crossed' => ReceivedInFull' /\ StillOutstanding')
\* What is to show of an order that a step does not touch.
<1>2. ASSUME NEW o \in Orders, LinesOf(o)' = LinesOf(o), got' = got
      PROVE  OutstandingCost(o)' = OutstandingCost(o)
  BY <1>1, <1>2, SameOutstanding DEF FundInv
<1>3. ASSUME NEW o \in Orders, CreateOrder(o) PROVE Rest
  <2>1. \A q \in Orders : LinesOf(q)' = LinesOf(q)
    BY <1>3 DEF CreateOrder, LinesOf
  <2>2. FundBooks'
    <3>1. OpenOrders' = OpenOrders
      BY <1>3 DEF CreateOrder, OpenOrders, FundInv, AcquisitionsTypeOK
    <3> QED BY <1>1, <1>3, <2>1, <3>1, QuietBooks DEF CreateOrder, OpenOrders
  <2>3. \A q \in Orders : OutstandingCost(q)' = OutstandingCost(q)
    BY <1>2, <1>3, <2>1 DEF CreateOrder
  <2>4. ASSUME ~crossed' PROVE ReceivedInFull' /\ StillOutstanding'
    BY <1>3, <2>1, <2>3, <2>4
    DEF CreateOrder, ReceivedInFull, StillOutstanding, Releasable, FundInv, AcquisitionsTypeOK
  <2> QED BY <2>2, <2>4
<1>4. ASSUME NEW o \in Orders, PlaceOrder(o) PROVE Rest
  <2>1. \A q \in Orders : LinesOf(q)' = LinesOf(q)
    BY <1>4 DEF PlaceOrder, LinesOf
  <2>2. FundBooks'
    BY <1>1, <1>4, PlaceBooks
  <2>3. \A q \in Orders : OutstandingCost(q)' = OutstandingCost(q)
    BY <1>2, <1>4, <2>1 DEF PlaceOrder
  <2>4. ASSUME ~crossed' PROVE ReceivedInFull' /\ StillOutstanding'
    BY <1>4, <2>1, <2>3, <2>4
    DEF PlaceOrder, ReceivedInFull, StillOutstanding, Releasable, FundInv, AcquisitionsTypeOK
  <2> QED BY <2>2, <2>4
<1>5. ASSUME NEW o \in Orders, BeginCancel(o) PROVE Rest
  <2>1. \A q \in Orders : LinesOf(q)' = LinesOf(q)
    BY <1>5 DEF BeginCancel, LinesOf
  <2>2. FundBooks'
    <3>1. OpenOrders' = OpenOrders
      BY <1>5 DEF BeginCancel, OpenOrders
    <3> QED BY <1>1, <1>5, <2>1, <3>1, QuietBooks DEF BeginCancel, OpenOrders
  <2>3. \A q \in Orders : OutstandingCost(q)' = OutstandingCost(q)
    BY <1>2, <1>5, <2>1 DEF BeginCancel
  <2>4. ASSUME ~crossed' PROVE ReceivedInFull' /\ StillOutstanding'
    BY <1>5, <2>1, <2>3, <2>4
    DEF BeginCancel, ReceivedInFull, StillOutstanding, Releasable, FundInv, AcquisitionsTypeOK
  <2> QED BY <2>2, <2>4
<1>6. ASSUME NEW o \in Orders, CancelOrder(o) PROVE Rest
  <2>1. \A q \in Orders : LinesOf(q)' = LinesOf(q)
    BY <1>6 DEF CancelOrder, LinesOf
  <2>2. FundBooks'
    BY <1>1, <1>6, CancelBooks
  <2>3. \A q \in Orders : OutstandingCost(q)' = OutstandingCost(q)
    BY <1>2, <1>6, <2>1 DEF CancelOrder
  <2>4. ASSUME ~crossed' PROVE ReceivedInFull' /\ StillOutstanding'
    BY <1>6, <2>1, <2>3, <2>4
    DEF CancelOrder, ReceivedInFull, StillOutstanding, Releasable, FundInv, AcquisitionsTypeOK
  <2> QED BY <2>2, <2>4
<1>7. ASSUME UNCHANGED <<orderStatus, got, cancelling, fundVars, crossed>>,
             \A l \in Lines : added'[l] = "added" <=> added[l] = "added"
      PROVE  Rest
  <2>1. \A q \in Orders : LinesOf(q)' = LinesOf(q)
    BY <1>7 DEF LinesOf
  <2>2. FundBooks'
    BY <1>1, <1>7, <2>1, QuietBooks DEF OpenOrders
  <2>3. \A q \in Orders : OutstandingCost(q)' = OutstandingCost(q)
    BY <1>2, <1>7, <2>1
  <2>4. ASSUME ~crossed' PROVE ReceivedInFull' /\ StillOutstanding'
    BY <1>7, <2>1, <2>3, <2>4 DEF ReceivedInFull, StillOutstanding, Releasable, FundInv
  <2> QED BY <2>2, <2>4
<1>8. ASSUME NEW l \in Lines,
             \/ AskLine(l) \/ AbandonReceipt(l)
             \/ \E n \in 1 .. Quantity[l] : BeginReceipt(l, n)
      PROVE  Rest
  BY <1>7, <1>8
  DEF AskLine, AbandonReceipt, BeginReceipt, FundInv, AcquisitionsTypeOK
<1>9. ASSUME NEW l \in Lines, AddLine(l) PROVE Rest
  <2>1. \A q \in Orders : q # LineOrder[l] => LinesOf(q)' = LinesOf(q)
    BY <1>9 DEF AddLine, LinesOf, FundInv, AcquisitionsTypeOK
  <2>2. FundBooks'
    <3>1. OpenOrders' = OpenOrders
      BY <1>9 DEF AddLine, OpenOrders
    <3>2. ~crossed' => ~crossed /\ \A o \in OpenOrders : LinesOf(o)' = LinesOf(o)
      BY <1>9, <2>1 DEF AddLine, OpenOrders
    <3> QED BY <1>1, <1>9, <3>1, <3>2, QuietBooks DEF AddLine
  <2>3. \A q \in Orders : q # LineOrder[l] => OutstandingCost(q)' = OutstandingCost(q)
    BY <1>2, <1>9, <2>1 DEF AddLine
  <2>4. ASSUME ~crossed' PROVE ReceivedInFull' /\ StillOutstanding'
    BY <1>9, <2>1, <2>3, <2>4
    DEF AddLine, ReceivedInFull, StillOutstanding, Releasable, FundInv
  <2> QED BY <2>2, <2>4
<1>10. ASSUME NEW l \in Lines, Receive(l) PROVE Rest
  BY <1>1, <1>10, ReceiveBooks
<1> HIDE DEF Rest
<1>11. ASSUME UNCHANGED orderVars PROVE Rest
  BY <1>7, <1>11 DEF orderVars
<1>12. Rest
  BY <1>3, <1>4, <1>5, <1>6, <1>8, <1>9, <1>10, <1>11 DEF AcquisitionsNext
<1> QED BY <1>1, <1>12 DEF FundInv, Rest

\* The fund never promises or spends more than its budget: encumbering looks at
\* what is available, and a receipt, which may have nothing encumbered for it,
\* looks at the budget again.
THEOREM BudgetHolds == AcquisitionsSpec => []WithinBudget
<1>1. FundInv => WithinBudget
  BY DEF FundInv
<1> QED BY <1>1, FundInit, FundNext, PTL DEF AcquisitionsSpec

\* What was spent is the price of what came, and unless a line came late or a
\* receipt crossed a cancellation what is encumbered is what open orders wait for.
THEOREM BooksKept == AcquisitionsSpec => []FundBooks
<1>1. FundInv => FundBooks
  BY DEF FundInv
<1> QED BY <1>1, FundInit, FundNext, PTL DEF AcquisitionsSpec

\* The fields of orders, lines and the fund have their types.
THEOREM FundTyped == AcquisitionsSpec => []AcquisitionsTypeOK
<1>1. FundInv => AcquisitionsTypeOK
  BY DEF FundInv
<1> QED BY <1>1, FundInit, FundNext, PTL DEF AcquisitionsSpec

-----------------------------------------------------------------------------
(* Queues: who comes before whom when an amount is handed out.             *)

LEMMA OldestLeads ==
  ASSUME NEW S \in SUBSET Nat, IsFiniteSet(S)
  PROVE  InLine(S, [x \in S |-> {y \in S : y < x}])
<1> DEFINE before == [x \in S |-> {y \in S : y < x}]
<1>1. ASSUME NEW T \in SUBSET S, T # {}, \A x \in T : before[x] \subseteq T
      PROVE  \E x \in T : /\ before[x] = T \ {x}
                          /\ \A y \in T \ {x} : before[y] \subseteq T \ {x}
  <2>1. IsFiniteSet(T) /\ T \in SUBSET Nat
    BY FS_Subset
  <2>2. PICK x \in T : \A y \in T \ {x} : y < x
    BY <1>1, <2>1, OldestFirst
  <2>3. before[x] = T \ {x}
    <3>1. before[x] = {y \in S : y < x} /\ before[x] \subseteq T
      BY <1>1
    <3>2. \A y \in T \ {x} : y < x
      BY <2>1, <2>2
    <3>3. x \in Nat
      BY <2>1
    <3>4. ASSUME NEW y \in before[x] PROVE y \in T \ {x}
      <4>1. y \in T /\ y # x
        BY <2>1, <3>1, <3>3
      <4> QED BY <4>1
    <3>5. ASSUME NEW y \in T \ {x} PROVE y \in before[x]
      BY <3>1, <3>2
    <3> HIDE DEF before
    <3> QED BY <3>4, <3>5
  <2>4. \A y \in T \ {x} : before[y] \subseteq T \ {x}
    BY <1>1, <2>1, <2>2
  <2> QED BY <2>3, <2>4
<1>2. \A x \in S : before[x] \in SUBSET S
  OBVIOUS
<1> HIDE DEF before
<1>3. InLine(S, before)
  BY <1>1, <1>2 DEF InLine
<1> QED BY <1>3 DEF before

LEMMA NewestLeads ==
  ASSUME NEW S \in SUBSET Nat
  PROVE  InLine(S, [x \in S |-> {y \in S : y > x}])
<1> DEFINE before == [x \in S |-> {y \in S : y > x}]
<1>1. ASSUME NEW T \in SUBSET S, T # {}, \A x \in T : before[x] \subseteq T
      PROVE  \E x \in T : /\ before[x] = T \ {x}
                          /\ \A y \in T \ {x} : before[y] \subseteq T \ {x}
  <2>1. T \in SUBSET Nat
    OBVIOUS
  <2>2. PICK x \in T : \A y \in T : x <= y
    BY <1>1, <2>1, LeastNumber
  <2>3. before[x] = T \ {x}
    <3>1. before[x] = {y \in S : y > x} /\ before[x] \subseteq T
      BY <1>1
    <3>2. \A y \in T \ {x} : y > x
      BY <2>1, <2>2
    <3>3. x \in Nat
      BY <2>1
    <3>4. ASSUME NEW y \in before[x] PROVE y \in T \ {x}
      <4>1. y \in T /\ y # x
        BY <2>1, <3>1, <3>3
      <4> QED BY <4>1
    <3>5. ASSUME NEW y \in T \ {x} PROVE y \in before[x]
      BY <3>1, <3>2
    <3> HIDE DEF before
    <3> QED BY <3>4, <3>5
  <2>4. \A y \in T \ {x} : before[y] \subseteq T \ {x}
    BY <1>1, <2>1, <2>2
  <2> QED BY <2>3, <2>4
<1>2. \A x \in S : before[x] \in SUBSET S
  OBVIOUS
<1> HIDE DEF before
<1>3. InLine(S, before)
  BY <1>1, <1>2 DEF InLine
<1> QED BY <1>3 DEF before

-----------------------------------------------------------------------------
(* Fees: the invariant.                                                    *)

FeeRecord == [status : FeeStatus, type : FeeType, amount : Nat, paid : Nat,
              loan : LateLoans, patron : Patrons \cup {None}]

\* A loan has one fine at most.
OneFine == \A f, g \in FeeIds :
  fees[f].type = "overdue" /\ fees[g].type = "overdue" /\ fees[f].loan = fees[g].loan => f = g

\* Only what nobody paid is waived, and nobody pays or gets back what is waived.
WaivedUnpaid == \A f \in FeeIds : fees[f].status = "waived" => fees[f].paid = 0

\* What an assessment read as waived is waived still when it saves it.
ReadWaived == \A l \in LateLoans : Locked(l) /\ reading[l].status = "waived" =>
                 \A f \in FineOf(l) : fees[f].status = "waived"

\* A row that holds no payment has given nothing.
Unrecorded == \A y \in PaymentIds : payments[y].amount = 0 => \A f \in FeeIds : alloc[y][f] = 0

\* The ledger alone is no invariant of the steps: that a refund finds in the
\* fees what it takes back needs a payment's part in each to be no more than
\* it gave, and that it stays within the payment needs waived fees to hold none
\* of it.
FeesInv == FeesTypeOK /\ Ledger /\ OneFine /\ WaivedUnpaid /\ ReadWaived /\ Unrecorded

\* What WaivedIsFinal says of a step.
WaivedKept == \A f \in FeeIds : fees[f].status = "waived" =>
                /\ fees'[f].paid = fees[f].paid
                /\ fees'[f].status # "waived" =>
                     LET l == fees[f].loan
                     IN  /\ fees[f].type = "overdue"
                         /\ reading[l] # None /\ reading[l].status # "waived"
                         /\ reading'[l] = None

LEMMA RowsFinite ==
  /\ FeeIds \in SUBSET Nat /\ IsFiniteSet(FeeIds)
  /\ PaymentIds \in SUBSET Nat /\ IsFiniteSet(PaymentIds)
<1>1. FeeRows \in Int /\ PaymentRows \in Int /\ 1 \in Int
  BY FeesAssumption
<1>2. IsFiniteSet(1 .. FeeRows) /\ IsFiniteSet(1 .. PaymentRows)
  BY <1>1, FS_Interval
<1> QED BY <1>1, <1>2 DEF FeeIds, PaymentIds

LEMMA FeesFirst == FeesInit => FeesInv
<1> SUFFICES ASSUME FeesInit PROVE FeesInv
  OBVIOUS
<1>1. FeesTypeOK
  BY FeesAssumption, LibraryAssumption DEF FeesInit, FeesTypeOK, LoanStates, NoFee, NoPayment, NoPlan
<1>2. \A f \in FeeIds : fees[f].paid = SumFunctionOnSet([y \in PaymentIds |-> Kept(y, f)], PaymentIds)
  <2> TAKE f \in FeeIds
  <2>1. \A y \in PaymentIds : [x \in PaymentIds |-> Kept(x, f)][y] = 0
    BY DEF FeesInit, Kept
  <2>2. SumFunctionOnSet([y \in PaymentIds |-> Kept(y, f)], PaymentIds) = 0
    BY <2>1, RowsFinite, SumOfNothing
  <2> QED BY <2>2 DEF FeesInit, NoFee
<1>3. \A y \in PaymentIds : Applied(y) + payments[y].refunded <= payments[y].amount
  <2> TAKE y \in PaymentIds
  <2>1. \A f \in FeeIds : [g \in FeeIds |-> Kept(y, g)][f] = 0
    BY DEF FeesInit, Kept
  <2>2. Applied(y) = 0
    BY <2>1, RowsFinite, SumOfNothing DEF Applied, KeptOf
  <2> QED BY <2>2 DEF FeesInit, NoPayment
<1>4. \A q \in PlanIds : plans[q].paid <= plans[q].total
  BY DEF FeesInit, NoPlan
<1>5. OneFine /\ WaivedUnpaid /\ ReadWaived /\ Unrecorded
  BY DEF FeesInit, OneFine, WaivedUnpaid, ReadWaived, Unrecorded, Locked, NoFee
<1> QED BY <1>1, <1>2, <1>3, <1>4, <1>5 DEF FeesInv, Ledger

-----------------------------------------------------------------------------
(* Fines.                                                                  *)

LEMMA AccruedFee ==
  ASSUME NEW fee \in FeeRecord, NEW days \in Nat
  PROVE  LET new == Accrued(fee, days)
         IN  /\ new \in FeeRecord
             /\ new.paid = fee.paid /\ new.type = fee.type /\ new.loan = fee.loan
             /\ fee.status # "waived" => new.status # "waived"
             /\ fee.status = "waived" /\ fee.paid = 0 => new.status = "waived"
<1>1. PICK amount \in Nat : amount = Larger(fee.paid, Fine(days)) /\ amount >= fee.paid
  BY FeesAssumption DEF Larger, Fine, Smaller, FeeRecord
<1> DEFINE status == IF fee.paid >= amount /\ amount > 0 THEN "paid" ELSE fee.status
<1>2. Accrued(fee, days) = IF amount = fee.amount THEN fee
                           ELSE [fee EXCEPT !.amount = amount, !.status = status]
  BY <1>1 DEF Accrued
<1>3. status \in FeeStatus /\ (fee.status # "waived" => status # "waived")
  BY DEF FeeRecord, FeeStatus
<1>4. fee.status = "waived" /\ fee.paid = 0 => status = "waived"
  OBVIOUS
<1> HIDE DEF status
<1> QED BY <1>2, <1>3, <1>4 DEF FeeRecord

\* What an assessment of a loan leaves of the fees.
Assesses(ff, l) ==
  /\ ff \in [FeeIds -> {NoFee} \cup FeeRecord]
  /\ \A f \in FeeIds :
        /\ ff[f].paid = fees[f].paid
        /\ fees[f].status = "waived" /\ ff[f].status # "waived" =>
             /\ fees[f].type = "overdue" /\ fees[f].loan = l
             /\ Locked(l) /\ reading[l].status # "waived"
        /\ ff[f].status = "waived" => fees[f].status = "waived"
        /\ ff[f] = fees[f] \/ ff[f].loan = l
  /\ \A f, g \in FeeIds :
        ff[f].type = "overdue" /\ ff[g].type = "overdue" /\ ff[f].loan = ff[g].loan => f = g

LEMMA AssessedFees ==
  ASSUME FeesTypeOK, OneFine, ReadWaived, NEW l \in LateLoans
  PROVE  Assesses(Assessed(l), l)
<1>0. fees \in [FeeIds -> {NoFee} \cup FeeRecord] /\ late[l] \in Nat
  BY FeesAssumption DEF FeesTypeOK, FeeRecord
<1>1. CASE Locked(l)
  <2>1. PICK new : new = reading[l]
    OBVIOUS
  <2>2. new \in FeeRecord
    <3>1. reading \in [LateLoans -> {None} \cup FeeRecord]
      BY DEF FeesTypeOK, FeeRecord
    <3> QED BY <1>1, <2>1, <3>1 DEF Locked
  <2>3. Assessed(l) = [f \in FeeIds |->
                         IF f \in FineOf(l)
                         THEN [fees[f] EXCEPT !.amount = new.amount, !.status = new.status]
                         ELSE fees[f]]
    BY <1>1, <2>1 DEF Assessed
  <2>4. ASSUME NEW f \in FineOf(l)
        PROVE  /\ f \in FeeIds /\ fees[f] \in FeeRecord
               /\ fees[f].loan = l /\ fees[f].type = "overdue"
    BY <1>0 DEF FineOf, NoFee
  <2>5. ASSUME NEW f \in FeeIds
        PROVE  /\ Assessed(l)[f] \in {NoFee} \cup FeeRecord
               /\ Assessed(l)[f].paid = fees[f].paid
               /\ Assessed(l)[f].type = fees[f].type /\ Assessed(l)[f].loan = fees[f].loan
               /\ IF f \in FineOf(l) THEN Assessed(l)[f].status = new.status
                                     ELSE Assessed(l)[f] = fees[f]
    <3>1. CASE f \in FineOf(l)
      <4>1. Assessed(l)[f] = [fees[f] EXCEPT !.amount = new.amount, !.status = new.status]
        BY <2>3, <3>1
      <4> QED BY <2>2, <2>4, <3>1, <4>1 DEF FeeRecord
    <3>2. CASE f \notin FineOf(l)
      BY <1>0, <2>3, <3>2
    <3> QED BY <3>1, <3>2
  <2>6. Assessed(l) \in [FeeIds -> {NoFee} \cup FeeRecord]
    BY <2>3, <2>5
  <2>7. ASSUME NEW f \in FeeIds
        PROVE  /\ fees[f].status = "waived" /\ Assessed(l)[f].status # "waived" =>
                    /\ fees[f].type = "overdue" /\ fees[f].loan = l
                    /\ Locked(l) /\ reading[l].status # "waived"
               /\ Assessed(l)[f].status = "waived" => fees[f].status = "waived"
               /\ Assessed(l)[f] = fees[f] \/ Assessed(l)[f].loan = l
    BY <1>1, <2>1, <2>4, <2>5 DEF ReadWaived
  <2> QED BY <2>5, <2>6, <2>7 DEF OneFine, Assesses
<1>2. CASE ~Locked(l) /\ FineOf(l) # {}
  <2>1. Assessed(l) = fees
    BY <1>0, <1>2 DEF Assessed
  <2> QED BY <1>0, <2>1 DEF OneFine, Assesses
<1>3. CASE ~Locked(l) /\ FineOf(l) = {}
  <2> DEFINE new == NewFee("overdue", l, Fine(late[l]))
  <2>1. Assessed(l) = [f \in FeeIds |-> IF NextRow(f) /\ Fine(late[l]) > 0 THEN new
                                        ELSE fees[f]]
    BY <1>3 DEF Assessed
  <2>2. new \in FeeRecord /\ new.paid = 0 /\ new.status = "outstanding" /\ new.loan = l
    BY <1>0, FeesAssumption DEF NewFee, FeeRecord, FeeStatus, FeeType, Fine, Smaller
  <2> HIDE DEF new
  <2>3. ASSUME NEW f \in FeeIds, NextRow(f)
        PROVE  fees[f] = NoFee /\ \A g \in FeeIds : NextRow(g) => g = f
    <3>1. fees[f] = NoFee
      BY <1>0, <2>3 DEF NextRow, FeeRecord, FeeStatus
    <3>2. \A g \in FeeIds : NextRow(g) => g = f
      BY <2>3, RowsFinite DEF NextRow
    <3> QED BY <3>1, <3>2
  <2>4. Assessed(l) \in [FeeIds -> {NoFee} \cup FeeRecord]
    BY <1>0, <2>1, <2>2
  <2>5. ASSUME NEW f \in FeeIds
        PROVE  /\ Assessed(l)[f].paid = fees[f].paid
               /\ fees[f].status = "waived" => Assessed(l)[f].status = "waived"
               /\ Assessed(l)[f].status = "waived" => fees[f].status = "waived"
               /\ Assessed(l)[f] = fees[f] \/ (Assessed(l)[f].loan = l /\ NextRow(f))
    <3>1. CASE NextRow(f) /\ Fine(late[l]) > 0
      <4>1. Assessed(l)[f] = new
        BY <2>1, <3>1
      <4> QED BY <2>2, <2>3, <3>1, <4>1 DEF NoFee
    <3>2. CASE ~(NextRow(f) /\ Fine(late[l]) > 0)
      BY <2>1, <3>2
    <3> QED BY <3>1, <3>2
  <2>6. ASSUME NEW f \in FeeIds, NEW g \in FeeIds,
               Assessed(l)[f].type = "overdue", Assessed(l)[g].type = "overdue",
               Assessed(l)[f].loan = Assessed(l)[g].loan
        PROVE  f = g
    <3>1. \A h \in FeeIds : fees[h].type = "overdue" => fees[h].loan # l
      BY <1>3 DEF FineOf
    <3>2. CASE Assessed(l)[f] = fees[f] /\ Assessed(l)[g] = fees[g]
      BY <2>6, <3>2 DEF OneFine
    <3>3. CASE Assessed(l)[f] # fees[f]
      BY <2>3, <2>5, <2>6, <3>1, <3>3
    <3>4. CASE Assessed(l)[g] # fees[g]
      BY <2>3, <2>5, <2>6, <3>1, <3>4
    <3> QED BY <3>2, <3>3, <3>4
  <2> QED BY <2>4, <2>5, <2>6 DEF Assesses
<1> QED BY <1>1, <1>2, <1>3

\* Steps that touch neither what was paid nor the payments keep the books.
LEMMA LedgerStays ==
  ASSUME Ledger, UNCHANGED <<alloc, reversed>>,
         \A f \in FeeIds : fees'[f].paid = fees[f].paid,
         \A y \in PaymentIds : /\ payments'[y].amount = payments[y].amount
                               /\ payments'[y].refunded = payments[y].refunded,
         \A q \in PlanIds : plans'[q].paid <= plans'[q].total
  PROVE  Ledger'
<1>1. \A f \in FeeIds :
        fees'[f].paid = SumFunctionOnSet([y \in PaymentIds |-> Kept(y, f)'], PaymentIds)
  BY DEF Ledger, Kept
<1>2. \A y \in PaymentIds : Applied(y)' + payments'[y].refunded <= payments'[y].amount
  BY DEF Ledger, Applied, KeptOf, Kept
<1> QED BY <1>1, <1>2 DEF Ledger

-----------------------------------------------------------------------------
(* Steps of a loan.                                                        *)

LEMMA FeesStutter ==
  ASSUME FeesInv, UNCHANGED feesVars
  PROVE  FeesInv' /\ WaivedKept
<1> USE DEF feesVars, paymentVars
<1>1. FeesTypeOK'
  BY DEF FeesInv, FeesTypeOK
<1>2. Ledger'
  BY LedgerStays DEF FeesInv, Ledger
<1>3. OneFine' /\ WaivedUnpaid' /\ ReadWaived' /\ Unrecorded'
  BY DEF FeesInv, OneFine, WaivedUnpaid, ReadWaived, Unrecorded, Locked, FineOf
<1>4. WaivedKept
  BY DEF WaivedKept
<1> QED BY <1>1, <1>2, <1>3, <1>4 DEF FeesInv

LEMMA LoansMove ==
  ASSUME FeesInv, UNCHANGED <<reading, fees, paymentVars, plans>>,
         loanState' \in [LateLoans -> LoanStates],
         late' \in [LateLoans -> 0 .. MaxDays]
  PROVE  FeesInv' /\ WaivedKept
<1> USE DEF paymentVars
<1>1. FeesTypeOK'
  BY DEF FeesInv, FeesTypeOK
<1>2. Ledger'
  BY LedgerStays DEF FeesInv, Ledger
<1>3. OneFine' /\ WaivedUnpaid' /\ ReadWaived' /\ Unrecorded'
  BY DEF FeesInv, OneFine, WaivedUnpaid, ReadWaived, Unrecorded, Locked, FineOf
<1>4. WaivedKept
  BY DEF WaivedKept
<1> QED BY <1>1, <1>2, <1>3, <1>4 DEF FeesInv

LEMMA LoanTimes ==
  ASSUME FeesInv, NEW l \in LateLoans,
         (\E b \in BOOLEAN : CheckOut(l, b)) \/ DayPasses(l) \/ RenewLate(l) \/ ClaimReturned(l)
  PROVE  FeesInv' /\ WaivedKept
<1>1. loanState' \in [LateLoans -> LoanStates]
  BY DEF FeesInv, FeesTypeOK, LoanStates, Purposes, CheckOut, DayPasses, RenewLate, ClaimReturned, Close
<1>2. late' \in [LateLoans -> 0 .. MaxDays]
  BY FeesAssumption DEF FeesInv, FeesTypeOK, CheckOut, DayPasses, RenewLate, ClaimReturned
<1>3. UNCHANGED <<reading, fees, paymentVars, plans>>
  BY DEF CheckOut, DayPasses, RenewLate, ClaimReturned
<1> QED BY <1>1, <1>2, <1>3, LoansMove

\* A step that saves an assessment of a loan, or ends one that has none.
LEMMA AssessingKeeps ==
  ASSUME FeesInv, NEW l \in LateLoans, Assesses(fees', l),
         reading' = [reading EXCEPT ![l] = None],
         UNCHANGED <<late, paymentVars, plans>>,
         loanState' \in [LateLoans -> LoanStates]
  PROVE  FeesInv' /\ WaivedKept
<1> USE DEF paymentVars
<1>0. reading' \in [LateLoans -> {None} \cup FeeRecord] /\ reading'[l] = None
  BY DEF FeesInv, FeesTypeOK, FeeRecord
<1>1. FeesTypeOK'
  <2>1. fees' \in [FeeIds -> {NoFee} \cup FeeRecord]
    BY DEF Assesses
  <2> QED BY <1>0, <2>1 DEF FeesInv, FeesTypeOK, FeeRecord
<1>2. Ledger'
  BY LedgerStays DEF FeesInv, Ledger, Assesses
<1>3. OneFine'
  BY DEF OneFine, Assesses
<1>4. WaivedUnpaid' /\ Unrecorded'
  BY DEF FeesInv, WaivedUnpaid, Unrecorded, Assesses
<1>5. ReadWaived'
  <2> SUFFICES ASSUME NEW m \in LateLoans, reading'[m] # None, reading'[m].status = "waived",
                      NEW f \in FeeIds, fees'[f].loan = m, fees'[f].type = "overdue"
               PROVE  fees'[f].status = "waived"
    BY DEF ReadWaived, Locked, FineOf
  <2>1. m # l /\ reading'[m] = reading[m]
    BY <1>0 DEF FeesInv, FeesTypeOK
  <2>2. fees'[f] = fees[f]
    BY <2>1 DEF Assesses
  <2> QED BY <2>1, <2>2 DEF FeesInv, ReadWaived, Locked, FineOf
<1>6. WaivedKept
  BY <1>0 DEF WaivedKept, Assesses, Locked
<1> QED BY <1>1, <1>2, <1>3, <1>4, <1>5, <1>6 DEF FeesInv

LEMMA ReadingFine ==
  ASSUME FeesInv, NEW l \in LateLoans, NEW purpose \in Purposes, ReadFine(l, purpose)
  PROVE  FeesInv' /\ WaivedKept
<1> USE DEF paymentVars
<1>1. PICK f \in FineOf(l) : reading' = [reading EXCEPT ![l] = Accrued(fees[f], late[l])]
  BY DEF ReadFine
<1>2. UNCHANGED <<late, fees, paymentVars, plans>>
  BY DEF ReadFine
<1>3. f \in FeeIds /\ fees[f] \in FeeRecord /\ fees[f].type = "overdue" /\ fees[f].loan = l
  BY DEF FineOf, FeesInv, FeesTypeOK, FeeRecord, NoFee
<1>4. PICK new : new = Accrued(fees[f], late[l])
  OBVIOUS
<1>5. new \in FeeRecord /\ (fees[f].status # "waived" => new.status # "waived")
  <2>1. late[l] \in Nat
    BY FeesAssumption DEF FeesInv, FeesTypeOK
  <2> QED BY <1>3, <1>4, <2>1, AccruedFee
<1>6. reading' \in [LateLoans -> {None} \cup FeeRecord]
  BY <1>1, <1>4, <1>5 DEF FeesInv, FeesTypeOK, FeeRecord
<1>7. FeesTypeOK'
  <2>1. loanState' \in [LateLoans -> LoanStates]
    BY DEF ReadFine, FeesInv, FeesTypeOK, LoanStates
  <2> QED BY <1>2, <1>6, <2>1 DEF FeesInv, FeesTypeOK, FeeRecord
<1>8. Ledger'
  BY <1>2, LedgerStays DEF FeesInv, Ledger
<1>9. OneFine' /\ WaivedUnpaid' /\ Unrecorded'
  BY <1>2 DEF FeesInv, OneFine, WaivedUnpaid, Unrecorded
<1>10. ReadWaived'
  <2> SUFFICES ASSUME NEW m \in LateLoans, reading'[m] # None, reading'[m].status = "waived",
                      NEW g \in FineOf(m)
               PROVE  fees[g].status = "waived"
    BY <1>2 DEF ReadWaived, Locked, FineOf
  <2>1. CASE m = l
    <3>1. g = f
      BY <1>3, <2>1 DEF FeesInv, OneFine, FineOf
    <3>2. reading'[m] = new
      BY <1>1, <1>4, <2>1 DEF FeesInv, FeesTypeOK
    <3> QED BY <1>5, <3>1, <3>2
  <2>2. CASE m # l
    <3>1. reading'[m] = reading[m]
      BY <1>1, <2>2 DEF FeesInv, FeesTypeOK
    <3> QED BY <3>1 DEF FeesInv, ReadWaived, Locked
  <2> QED BY <2>1, <2>2
<1>11. WaivedKept
  BY <1>2 DEF WaivedKept
<1> QED BY <1>7, <1>8, <1>9, <1>10, <1>11 DEF FeesInv

LEMMA SavingFine ==
  ASSUME FeesInv, NEW l \in LateLoans, SaveFine(l) \/ ReturnLate(l)
  PROVE  FeesInv' /\ WaivedKept
<1>1. /\ reading' = [reading EXCEPT ![l] = None] /\ UNCHANGED <<late, paymentVars, plans>>
      /\ fees' = Assessed(l)
  BY DEF SaveFine, ReturnLate, SavesFor
<1>2. loanState' \in [LateLoans -> LoanStates]
  BY DEF SaveFine, ReturnLate, Close, FeesInv, FeesTypeOK, LoanStates
<1>3. Assesses(fees', l)
  BY <1>1, AssessedFees DEF FeesInv
<1> QED BY <1>1, <1>2, <1>3, AssessingKeeps

LEMMA ChargingItem ==
  ASSUME FeesInv, NEW l \in LateLoans, NEW f \in FeeIds, ChargeItem(l, f)
  PROVE  FeesInv' /\ WaivedKept
<1>1. /\ reading' = [reading EXCEPT ![l] = None] /\ UNCHANGED <<late, paymentVars, plans>>
      /\ loanState' \in [LateLoans -> LoanStates]
  BY DEF ChargeItem, SavesFor, Close, FeesInv, FeesTypeOK, LoanStates
<1>2. Assesses(Assessed(l), l)
  BY AssessedFees DEF FeesInv
<1>3. PICK item : item = NewFee("item", l, ItemFee)
  OBVIOUS
<1>4. item \in FeeRecord /\ item.paid = 0 /\ item.status = "outstanding" /\ item.loan = l
      /\ item.type = "item"
  BY <1>3, FeesAssumption DEF NewFee, FeeRecord, FeeStatus, FeeType
<1>5. Assessed(l)[f].status = "absent" /\ fees' = [Assessed(l) EXCEPT ![f] = item]
  BY <1>3 DEF ChargeItem
<1>6. Assessed(l)[f] = NoFee
  BY <1>2, <1>5 DEF Assesses, FeeRecord, FeeStatus
<1>7. Assesses(fees', l)
  <2>1. fees'[f] = item /\ \A g \in FeeIds \ {f} : fees'[g] = Assessed(l)[g]
    BY <1>2, <1>5 DEF Assesses
  <2>2. fees' \in [FeeIds -> {NoFee} \cup FeeRecord]
    BY <1>2, <1>4, <1>5 DEF Assesses
  <2>3. fees[f].paid = 0 /\ fees[f].status # "waived"
    <3>1. Assessed(l)[f] = fees[f]
      BY <1>2, <1>6, FeesAssumption DEF Assesses, NoFee
    <3> QED BY <1>6, <3>1 DEF NoFee
  <2>4. \A g \in FeeIds : /\ fees'[g].paid = fees[g].paid
                          /\ fees[g].status = "waived" /\ fees'[g].status # "waived" =>
                               /\ fees[g].type = "overdue" /\ fees[g].loan = l
                               /\ Locked(l) /\ reading[l].status # "waived"
                          /\ fees'[g].status = "waived" => fees[g].status = "waived"
                          /\ fees'[g] = fees[g] \/ fees'[g].loan = l
    BY <1>2, <1>4, <2>1, <2>3 DEF Assesses
  <2>5. \A g, h \in FeeIds :
          fees'[g].type = "overdue" /\ fees'[h].type = "overdue" /\ fees'[g].loan = fees'[h].loan
            => g = h
    BY <1>2, <1>4, <2>1 DEF Assesses
  <2> QED BY <2>2, <2>4, <2>5 DEF Assesses
<1> QED BY <1>1, <1>7, AssessingKeeps

-----------------------------------------------------------------------------
(* Steps of money.                                                         *)

LEMMA Waiving ==
  ASSUME FeesInv, NEW f \in FeeIds, Waive(f)
  PROVE  FeesInv' /\ WaivedKept
<1> USE DEF paymentVars
<1>1. /\ fees[f].status = "outstanding" /\ fees[f].paid = 0
      /\ fees \in [FeeIds -> {NoFee} \cup FeeRecord]
      /\ UNCHANGED <<loanState, late, reading, paymentVars, plans>>
  BY DEF Waive, FeesInv, FeesTypeOK, FeeRecord
<1>2. fees[f] \in FeeRecord
  BY <1>1 DEF NoFee
<1>3. PICK new : new = [fees[f] EXCEPT !.status = "waived"]
  OBVIOUS
<1>4. /\ new \in FeeRecord /\ new.paid = 0 /\ new.status = "waived"
      /\ new.type = fees[f].type /\ new.loan = fees[f].loan
  BY <1>1, <1>2, <1>3 DEF FeeRecord, FeeStatus
<1>5. fees' = [fees EXCEPT ![f] = new]
  BY <1>3 DEF Waive
<1>6. fees'[f] = new /\ \A g \in FeeIds \ {f} : fees'[g] = fees[g]
  BY <1>1, <1>5
<1>7. \A g \in FeeIds : /\ fees'[g].paid = fees[g].paid
                        /\ fees'[g].type = fees[g].type /\ fees'[g].loan = fees[g].loan
                        /\ fees[g].status = "waived" => fees'[g].status = "waived"
  BY <1>1, <1>4, <1>6
<1>8. FeesTypeOK'
  <2>1. fees' \in [FeeIds -> {NoFee} \cup FeeRecord]
    BY <1>1, <1>4, <1>5
  <2> QED BY <1>1, <2>1 DEF FeesInv, FeesTypeOK, FeeRecord
<1>9. Ledger'
  BY <1>1, <1>7, LedgerStays DEF FeesInv, Ledger
<1>10. OneFine' /\ Unrecorded'
  BY <1>1, <1>7 DEF FeesInv, OneFine, Unrecorded
<1>11. WaivedUnpaid'
  BY <1>4, <1>6 DEF FeesInv, WaivedUnpaid
<1>12. ReadWaived'
  BY <1>1, <1>7 DEF FeesInv, ReadWaived, Locked, FineOf
<1>13. WaivedKept
  BY <1>7 DEF WaivedKept
<1> QED BY <1>8, <1>9, <1>10, <1>11, <1>12, <1>13 DEF FeesInv

\* Steps that leave the fines and the waivers as they are.
LEMMA WaiversStay ==
  ASSUME FeesInv, UNCHANGED reading,
         \A f \in FeeIds :
            /\ fees'[f].type = fees[f].type /\ fees'[f].loan = fees[f].loan
            /\ fees[f].status = "waived" => /\ fees'[f].status = "waived"
                                            /\ fees'[f].paid = fees[f].paid
            /\ fees'[f].status = "waived" => fees[f].status = "waived"
  PROVE  OneFine' /\ WaivedUnpaid' /\ ReadWaived' /\ WaivedKept
<1>1. OneFine' /\ WaivedUnpaid' /\ WaivedKept
  BY DEF FeesInv, OneFine, WaivedUnpaid, WaivedKept
<1>2. ReadWaived'
  BY DEF FeesInv, ReadWaived, Locked, FineOf
<1> QED BY <1>1, <1>2

\* What record_payment gives to a fee.
GivenOut(p, amount, f) == IF f \in Owing(p) THEN Share(f, amount, Owing(p)) ELSE 0

LEMMA SharesOfPayment ==
  ASSUME FeesInv, NEW p, NEW amount \in Nat
  PROVE  /\ \A f \in FeeIds : /\ GivenOut(p, amount, f) \in 0 .. Short(f)
                              /\ GivenOut(p, amount, f) \in Nat
                              /\ f \notin Owing(p) => GivenOut(p, amount, f) = 0
         /\ SumFunctionOnSet([f \in FeeIds |-> GivenOut(p, amount, f)], FeeIds) <= amount
<1> DEFINE S == Owing(p)
           want == [f \in FeeIds |-> Short(f)]
           share == [f \in FeeIds |-> GivenOut(p, amount, f)]
           before == [f \in S |-> {g \in S : g < f}]
<1>1. S \in SUBSET FeeIds /\ S \in SUBSET Nat /\ IsFiniteSet(S)
  BY RowsFinite, FS_Subset DEF Owing
<1>2. \A f \in FeeIds : Short(f) \in Nat
  BY DEF FeesInv, FeesTypeOK, Short, Larger, NoFee
<1>3. InLine(S, before)
  <2> HIDE DEF S
  <2> QED BY <1>1, OldestLeads
<1>4. \A f \in S : share[f] = Smaller(want[f],
                       Larger(0, amount - SumFunctionOnSet(want, before[f])))
  <2>1. \A f \in S : before[f] = {g \in Owing(p) : g < f}
    OBVIOUS
  <2>2. \A f \in S : share[f] = Share(f, amount, Owing(p)) /\ want[f] = Short(f)
    BY <1>1 DEF GivenOut
  <2> HIDE DEF before, share
  <2>3. \A f \in S : Share(f, amount, Owing(p)) = Smaller(Short(f),
                       Larger(0, amount - SumFunctionOnSet(want, {g \in Owing(p) : g < f})))
    BY DEF Share, ShortOf
  <2> HIDE DEF want, S
  <2> QED BY <2>1, <2>2, <2>3
<1>5. \A f \in S : want[f] \in Nat
  BY <1>1, <1>2
<1>6. \A f \in FeeIds : want[f] = Short(f) /\ share[f] = GivenOut(p, amount, f)
  OBVIOUS
<1>7. \A f \in FeeIds \ S : GivenOut(p, amount, f) = 0
  BY DEF GivenOut
<1> HIDE DEF S, want, share, before
<1>8. /\ \A f \in S : share[f] \in 0 .. want[f]
      /\ SumFunctionOnSet(share, S) = Smaller(amount, SumFunctionOnSet(want, S))
  BY <1>1, <1>3, <1>4, <1>5, HandedOut
<1>9. SumFunctionOnSet(want, S) \in Nat
  BY <1>1, <1>5, SumType
<1>10. ASSUME NEW f \in FeeIds
       PROVE  GivenOut(p, amount, f) \in 0 .. Short(f) /\ GivenOut(p, amount, f) \in Nat
  <2>1. CASE f \in S
    BY <1>2, <1>6, <1>8, <2>1
  <2>2. CASE f \notin S
    BY <1>2, <1>7, <2>2
  <2> QED BY <2>1, <2>2
<1>11. SumFunctionOnSet(share, FeeIds) = SumFunctionOnSet(share, S)
  <2>1. \A f \in S : share[f] \in Nat
    BY <1>1, <1>6, <1>10
  <2>2. \A f \in FeeIds \ S : share[f] = 0
    BY <1>6, <1>7
  <2> QED BY <1>1, <2>1, <2>2, RowsFinite, SumOnSupport
<1>12. SumFunctionOnSet(share, FeeIds) <= amount
  BY <1>8, <1>9, <1>11 DEF Smaller
<1>13. \A f \in FeeIds : f \notin Owing(p) => GivenOut(p, amount, f) = 0
  BY <1>7 DEF S
<1> QED BY <1>10, <1>12, <1>13 DEF share

LEMMA PaidFee ==
  ASSUME NEW fee \in FeeRecord, NEW n \in Nat, NEW status \in FeeStatus
  PROVE  [fee EXCEPT !.paid = @ + n, !.status = status] \in FeeRecord
<1>1. fee.paid \in Nat
  BY DEF FeeRecord
<1>2. PICK paid \in Nat : paid = fee.paid + n
  BY <1>1
<1>3. [fee EXCEPT !.paid = paid, !.status = status] \in FeeRecord
  BY DEF FeeRecord
<1> QED BY <1>2, <1>3

\* A payment that is handed out to the fees it finds.
LEMMA Recording ==
  ASSUME FeesInv, NEW y \in PaymentIds, NEW p \in Patrons, NEW amount \in Nat,
         Record(y, p, amount),
         plans' \in [PlanIds -> [total : Nat, paid : Nat, patron : Patrons \cup {None}]],
         \A q \in PlanIds : plans'[q].paid <= plans'[q].total
  PROVE  FeesInv' /\ WaivedKept
<1> DEFINE share == [f \in FeeIds |-> GivenOut(p, amount, f)]
<1>0. payments[y] = NoPayment
  BY DEF Record
<1>1. /\ payments' = [payments EXCEPT ![y] = [amount |-> amount, refunded |-> 0, patron |-> p]]
      /\ alloc' = [alloc EXCEPT ![y] = share]
      /\ fees' = [f \in FeeIds |->
                    IF share[f] = 0 THEN fees[f]
                    ELSE [fees[f] EXCEPT !.paid = @ + share[f],
                            !.status = IF share[f] = Short(f) THEN "paid" ELSE @]]
      /\ UNCHANGED <<loanState, late, reading, reversed>>
  BY DEF Record, GivenOut
<1>2. /\ payments \in [PaymentIds -> [amount : Nat, refunded : Nat, patron : Patrons \cup {None}]]
      /\ alloc \in [PaymentIds -> [FeeIds -> Nat]]
      /\ reversed \in [PaymentIds -> [FeeIds -> Nat]]
      /\ fees \in [FeeIds -> {NoFee} \cup FeeRecord]
      /\ \A x \in PaymentIds, f \in FeeIds : reversed[x][f] <= alloc[x][f]
  BY DEF FeesInv, FeesTypeOK, FeeRecord
<1>3. /\ \A f \in FeeIds : /\ share[f] \in Nat
                           /\ f \notin Owing(p) => share[f] = 0
      /\ SumFunctionOnSet(share, FeeIds) <= amount
  BY SharesOfPayment
<1>4. share \in [FeeIds -> Nat]
  BY <1>3
<1> HIDE DEF share
<1>5. \A f \in FeeIds : alloc[y][f] = 0 /\ reversed[y][f] = 0
  <2>1. \A f \in FeeIds : alloc[y][f] = 0
    <3>1. payments[y].amount = 0
      BY <1>0 DEF NoPayment
    <3> QED BY <3>1 DEF FeesInv, Unrecorded
  <2>2. \A f \in FeeIds : reversed[y][f] \in Nat /\ reversed[y][f] <= alloc[y][f]
    BY <1>2
  <2> QED BY <2>1, <2>2
<1>6. /\ payments'[y] = [amount |-> amount, refunded |-> 0, patron |-> p]
      /\ \A x \in PaymentIds \ {y} : payments'[x] = payments[x]
      /\ alloc'[y] = share
      /\ \A x \in PaymentIds \ {y} : alloc'[x] = alloc[x]
      /\ reversed' = reversed
  BY <1>1, <1>2
<1>7. ASSUME NEW f \in FeeIds
      PROVE  /\ fees'[f] \in {NoFee} \cup FeeRecord
             /\ fees'[f].paid = fees[f].paid + share[f]
             /\ fees'[f].type = fees[f].type /\ fees'[f].loan = fees[f].loan
             /\ fees[f].status = "waived" => fees'[f] = fees[f]
             /\ fees'[f].status = "waived" => fees[f].status = "waived"
  <2>1. CASE share[f] = 0
    <3>1. fees'[f] = fees[f]
      BY <1>1, <2>1
    <3>2. fees[f] \in {NoFee} \cup FeeRecord
      BY <1>2
    <3>3. fees[f].paid \in Nat
      BY <3>2 DEF NoFee, FeeRecord
    <3> QED BY <2>1, <3>1, <3>2, <3>3
  <2>2. CASE share[f] # 0
    <3>1. fees[f].status = "outstanding"
      BY <1>3, <2>2 DEF Owing
    <3>2. fees[f] \in FeeRecord
      BY <1>2, <3>1 DEF NoFee
    <3>3. PICK status : status = IF share[f] = Short(f) THEN "paid" ELSE fees[f].status
      OBVIOUS
    <3>4. fees'[f] = [fees[f] EXCEPT !.paid = @ + share[f], !.status = status]
      BY <1>1, <2>2, <3>3
    <3>5. status \in {"paid", "outstanding"} /\ share[f] \in Nat
      BY <1>3, <3>1, <3>3
    <3>6. status \in FeeStatus /\ status # "waived"
      BY <3>5 DEF FeeStatus
    <3>7. fees'[f] \in FeeRecord
      <4>1. [fees[f] EXCEPT !.paid = @ + share[f], !.status = status] \in FeeRecord
        BY <3>2, <3>5, <3>6, PaidFee
      <4> QED BY <3>4, <4>1
    <3>8. /\ fees'[f].paid = fees[f].paid + share[f]
          /\ fees'[f].type = fees[f].type /\ fees'[f].loan = fees[f].loan
          /\ fees'[f].status = status
      BY <3>2, <3>4 DEF FeeRecord
    <3> QED BY <3>1, <3>6, <3>7, <3>8
  <2> QED BY <2>1, <2>2
<1>8. FeesTypeOK'
  <2>1. fees' \in [FeeIds -> {NoFee} \cup FeeRecord]
    BY <1>1, <1>7
  <2>2. payments' \in [PaymentIds -> [amount : Nat, refunded : Nat, patron : Patrons \cup {None}]]
    BY <1>1, <1>2
  <2>3. alloc' \in [PaymentIds -> [FeeIds -> Nat]]
    BY <1>1, <1>2, <1>4
  <2>4. \A x \in PaymentIds, f \in FeeIds : reversed'[x][f] <= alloc'[x][f]
    BY <1>2, <1>3, <1>5, <1>6
  <2>5. /\ loanState' \in [LateLoans -> LoanStates]
        /\ late' \in [LateLoans -> 0 .. MaxDays]
        /\ reading' \in [LateLoans -> {None} \cup FeeRecord]
        /\ reversed' \in [PaymentIds -> [FeeIds -> Nat]]
    BY <1>1, <1>2 DEF FeesInv, FeesTypeOK, FeeRecord
  <2> QED BY <2>1, <2>2, <2>3, <2>4, <2>5 DEF FeesTypeOK, FeeRecord
<1>9. ASSUME NEW f \in FeeIds
      PROVE  fees'[f].paid = SumFunctionOnSet([x \in PaymentIds |-> Kept(x, f)'], PaymentIds)
  <2> DEFINE old == [x \in PaymentIds |-> Kept(x, f)]
             new == [x \in PaymentIds |-> Kept(x, f)']
  <2>1. /\ \A x \in PaymentIds : old[x] \in Nat /\ new[x] \in Nat
        /\ \A x \in PaymentIds \ {y} : new[x] = old[x]
        /\ old[y] = 0 /\ new[y] = share[f]
    BY <1>2, <1>3, <1>5, <1>6 DEF Kept
  <2>2. fees[f].paid = SumFunctionOnSet(old, PaymentIds)
    BY DEF FeesInv, Ledger
  <2> HIDE DEF old, new
  <2>3. SumFunctionOnSet(old, PaymentIds) \in Nat
    BY <2>1, RowsFinite, SumType
  <2>4. SumFunctionOnSet(new, PaymentIds) = SumFunctionOnSet(old, PaymentIds) - old[y] + new[y]
    <3>1. IsFiniteSet(PaymentIds)
      BY RowsFinite
    <3>2. \A x \in PaymentIds : old[x] \in Nat /\ new[x] \in Nat
      BY <2>1
    <3>3. \A x \in PaymentIds \ {y} : new[x] = old[x]
      BY <2>1
    <3> QED BY <3>1, <3>2, <3>3, SumChanges
  <2>5. fees'[f].paid = SumFunctionOnSet(new, PaymentIds)
    BY <1>3, <1>7, <2>1, <2>2, <2>3, <2>4
  <2> QED BY <2>5 DEF new
<1>10. ASSUME NEW x \in PaymentIds
       PROVE  Applied(x)' + payments'[x].refunded <= payments'[x].amount
  <2>1. CASE x = y
    <3>1. \A f \in FeeIds : [g \in FeeIds |-> Kept(y, g)'][f] = share[f]
      BY <1>3, <1>5, <1>6 DEF Kept
    <3>2. SumFunctionOnSet([g \in FeeIds |-> Kept(y, g)'], FeeIds) = SumFunctionOnSet(share, FeeIds)
      <4> DEFINE new == [g \in FeeIds |-> Kept(y, g)']
      <4>1. \A f \in FeeIds : new[f] = share[f]
        BY <3>1
      <4> HIDE DEF new
      <4>2. SumFunctionOnSet(new, FeeIds) = SumFunctionOnSet(share, FeeIds)
        BY <1>3, <4>1, RowsFinite, SumSame
      <4> QED BY <4>2 DEF new
    <3>3. Applied(y)' = SumFunctionOnSet(share, FeeIds)
      BY <3>2 DEF Applied, KeptOf
    <3>4. SumFunctionOnSet(share, FeeIds) \in Nat
      BY <1>3, RowsFinite, SumType
    <3> QED BY <1>3, <1>6, <2>1, <3>3, <3>4
  <2>2. CASE x # y
    <3>1. Applied(x)' = Applied(x)
      BY <1>6, <2>2 DEF Applied, KeptOf, Kept
    <3> QED BY <1>6, <2>2, <3>1 DEF FeesInv, Ledger
  <2> QED BY <2>1, <2>2
<1>11. Ledger'
  BY <1>9, <1>10 DEF Ledger
<1>12. OneFine' /\ WaivedUnpaid' /\ ReadWaived' /\ WaivedKept
  BY <1>1, <1>7, WaiversStay
<1>13. Unrecorded'
  <2> SUFFICES ASSUME NEW x \in PaymentIds, payments'[x].amount = 0, NEW f \in FeeIds
               PROVE  alloc'[x][f] = 0
    BY DEF Unrecorded
  <2>1. CASE x = y
    <3>1. amount = 0
      BY <1>6, <2>1
    <3>2. share[f] <= SumFunctionOnSet(share, FeeIds)
      BY <1>3, RowsFinite, TermOfSum
    <3>3. SumFunctionOnSet(share, FeeIds) \in Nat
      BY <1>3, RowsFinite, SumType
    <3> QED BY <1>3, <1>6, <2>1, <3>1, <3>2, <3>3
  <2>2. CASE x # y
    BY <1>6, <2>2 DEF FeesInv, Unrecorded
  <2> QED BY <2>1, <2>2
<1> QED BY <1>8, <1>11, <1>12, <1>13 DEF FeesInv

LEMMA PayingOnline ==
  ASSUME FeesInv, NEW y \in PaymentIds, NEW p \in Patrons, NEW n \in Amounts, PayOnline(y, p, n)
  PROVE  FeesInv' /\ WaivedKept
<1>1. Record(y, p, n) /\ n \in Nat /\ UNCHANGED plans
  BY FeesAssumption DEF PayOnline
<1>2. /\ plans' \in [PlanIds -> [total : Nat, paid : Nat, patron : Patrons \cup {None}]]
      /\ \A q \in PlanIds : plans'[q].paid <= plans'[q].total
  BY <1>1 DEF FeesInv, FeesTypeOK, Ledger
<1> QED BY <1>1, <1>2, Recording

LEMMA PayingPlan ==
  ASSUME FeesInv, NEW y \in PaymentIds, NEW q \in PlanIds, NEW n \in Amounts, PayPlan(y, q, n)
  PROVE  FeesInv' /\ WaivedKept
<1> DEFINE PlanRecord == [total : Nat, paid : Nat, patron : Patrons \cup {None}]
<1>1. plans \in [PlanIds -> PlanRecord] /\ n \in Nat
      /\ \A r \in PlanIds : plans[r].paid <= plans[r].total
  BY FeesAssumption DEF FeesInv, FeesTypeOK, Ledger
<1>2. PICK due : due = Instalment(q, n)
  OBVIOUS
<1>3. /\ plans[q].patron # None
      /\ Record(y, plans[q].patron, due)
      /\ plans' = [plans EXCEPT ![q].paid = @ + due]
  BY <1>2 DEF PayPlan
<1>4. due \in Nat /\ plans[q].paid + due <= plans[q].total
  BY <1>1, <1>2 DEF Instalment, Smaller
<1>5. plans[q].patron \in Patrons
  BY <1>1, <1>3
<1>6. PICK new : new = [plans[q] EXCEPT !.paid = @ + due]
  OBVIOUS
<1>7. new \in PlanRecord /\ new.paid <= new.total
  BY <1>1, <1>4, <1>6
<1>8. plans' = [plans EXCEPT ![q] = new]
  BY <1>3, <1>6
<1>9. plans' \in [PlanIds -> PlanRecord] /\ \A r \in PlanIds : plans'[r].paid <= plans'[r].total
  <2> HIDE DEF PlanRecord
  <2> QED BY <1>1, <1>7, <1>8
<1> QED BY <1>3, <1>4, <1>5, <1>9, Recording

LEMMA PlanningPayments ==
  ASSUME FeesInv, NEW q \in PlanIds, NEW p \in Patrons, NEW n \in Amounts, CreatePlan(q, p, n)
  PROVE  FeesInv' /\ WaivedKept
<1> USE DEF paymentVars
<1>1. n \in Nat /\ UNCHANGED <<loanState, late, reading, fees, paymentVars>>
  BY FeesAssumption DEF CreatePlan
<1>2. PICK new : new = [total |-> n, paid |-> 0, patron |-> p]
  OBVIOUS
<1>3. plans' = [plans EXCEPT ![q] = new]
  BY <1>2 DEF CreatePlan
<1>4. /\ plans' \in [PlanIds -> [total : Nat, paid : Nat, patron : Patrons \cup {None}]]
      /\ \A r \in PlanIds : plans'[r].paid <= plans'[r].total
  BY <1>1, <1>2, <1>3 DEF FeesInv, FeesTypeOK, Ledger
<1>5. FeesTypeOK'
  BY <1>1, <1>4 DEF FeesInv, FeesTypeOK
<1>6. Ledger'
  BY <1>1, <1>4, LedgerStays DEF FeesInv
<1>7. OneFine' /\ WaivedUnpaid' /\ ReadWaived' /\ WaivedKept /\ Unrecorded'
  BY <1>1, WaiversStay DEF FeesInv, Unrecorded
<1> QED BY <1>5, <1>6, <1>7 DEF FeesInv

\* What refund_payment takes back from a fee.
TakenBack(y, amount, f) == IF f \in NotWaived THEN Returned(y, f, amount, NotWaived) ELSE 0

LEMMA KeptOfPayment ==
  ASSUME FeesInv, NEW y \in PaymentIds, NEW f \in FeeIds
  PROVE  /\ Kept(y, f) \in Nat /\ Kept(y, f) <= fees[f].paid
         /\ fees[f].paid \in Nat /\ alloc[y][f] \in Nat /\ reversed[y][f] \in Nat
<1>1. \A x \in PaymentIds : /\ alloc[x][f] \in Nat /\ reversed[x][f] \in Nat
                            /\ reversed[x][f] <= alloc[x][f]
  BY DEF FeesInv, FeesTypeOK
<1> DEFINE kept == [x \in PaymentIds |-> Kept(x, f)]
<1>2. \A x \in PaymentIds : kept[x] \in Nat
  BY <1>1 DEF Kept
<1>3. fees[f].paid = SumFunctionOnSet(kept, PaymentIds) /\ kept[y] = Kept(y, f)
  BY DEF FeesInv, Ledger
<1> HIDE DEF kept
<1>4. IsFiniteSet(PaymentIds)
  BY RowsFinite
<1>5. kept[y] <= SumFunctionOnSet(kept, PaymentIds)
  BY <1>2, <1>4, TermOfSum
<1>6. SumFunctionOnSet(kept, PaymentIds) \in Nat
  BY <1>2, <1>4, SumType
<1> QED BY <1>1, <1>2, <1>3, <1>5, <1>6

LEMMA SharesOfRefund ==
  ASSUME FeesInv, NEW y \in PaymentIds, NEW amount \in Nat
  PROVE  /\ \A f \in FeeIds : /\ TakenBack(y, amount, f) \in Nat
                              /\ TakenBack(y, amount, f) <= Kept(y, f)
                              /\ f \notin NotWaived => TakenBack(y, amount, f) = 0
         /\ SumFunctionOnSet([f \in FeeIds |-> TakenBack(y, amount, f)], FeeIds)
              = Smaller(amount, KeptOf(y, NotWaived))
<1> DEFINE S == NotWaived
           want == [f \in FeeIds |-> Kept(y, f)]
           share == [f \in FeeIds |-> TakenBack(y, amount, f)]
           before == [f \in S |-> {g \in S : g > f}]
<1>1. S \in SUBSET FeeIds /\ S \in SUBSET Nat /\ IsFiniteSet(S)
  BY RowsFinite, FS_Subset DEF NotWaived
<1>2. \A f \in FeeIds : Kept(y, f) \in Nat
  BY KeptOfPayment
<1>3. InLine(S, before)
  <2> HIDE DEF S
  <2> QED BY <1>1, NewestLeads
<1>4. \A f \in S : share[f] = Smaller(want[f],
                       Larger(0, amount - SumFunctionOnSet(want, before[f])))
  <2>1. \A f \in S : before[f] = {g \in NotWaived : g > f}
    OBVIOUS
  <2>2. \A f \in S : share[f] = Returned(y, f, amount, NotWaived) /\ want[f] = Kept(y, f)
    BY <1>1 DEF TakenBack
  <2> HIDE DEF before, share
  <2>3. \A f \in S : Returned(y, f, amount, NotWaived) = Smaller(Kept(y, f),
                       Larger(0, amount - SumFunctionOnSet(want, {g \in NotWaived : g > f})))
    BY DEF Returned, KeptOf
  <2> HIDE DEF want, S
  <2> QED BY <2>1, <2>2, <2>3
<1>5. \A f \in S : want[f] \in Nat
  BY <1>1, <1>2
<1>6. \A f \in FeeIds : want[f] = Kept(y, f) /\ share[f] = TakenBack(y, amount, f)
  OBVIOUS
<1>7. \A f \in FeeIds \ S : TakenBack(y, amount, f) = 0
  BY DEF TakenBack
<1>8. KeptOf(y, NotWaived) = SumFunctionOnSet(want, S)
  BY DEF KeptOf
<1> HIDE DEF S, want, share, before
<1>9. /\ \A f \in S : share[f] \in 0 .. want[f]
      /\ SumFunctionOnSet(share, S) = Smaller(amount, SumFunctionOnSet(want, S))
  BY <1>1, <1>3, <1>4, <1>5, HandedOut
<1>10. ASSUME NEW f \in FeeIds
       PROVE  TakenBack(y, amount, f) \in Nat /\ TakenBack(y, amount, f) <= Kept(y, f)
  <2>1. CASE f \in S
    BY <1>2, <1>6, <1>9, <2>1
  <2>2. CASE f \notin S
    BY <1>2, <1>7, <2>2
  <2> QED BY <2>1, <2>2
<1>11. SumFunctionOnSet(share, FeeIds) = SumFunctionOnSet(share, S)
  <2>1. \A f \in S : share[f] \in Nat
    BY <1>1, <1>6, <1>10
  <2>2. \A f \in FeeIds \ S : share[f] = 0
    BY <1>6, <1>7
  <2> QED BY <1>1, <2>1, <2>2, RowsFinite, SumOnSupport
<1>12. \A f \in FeeIds : f \notin NotWaived => TakenBack(y, amount, f) = 0
  BY <1>7 DEF S
<1> QED BY <1>8, <1>9, <1>10, <1>11, <1>12 DEF share

LEMMA RefundedFee ==
  ASSUME NEW fee \in FeeRecord, NEW n \in Nat, n <= fee.paid
  PROVE  LET new == [fee EXCEPT !.paid = Larger(0, @ - n),
                        !.status = IF @ = "paid" /\ fee.paid - n < fee.amount
                                   THEN "outstanding" ELSE @]
         IN  /\ new \in FeeRecord /\ new.paid = fee.paid - n
             /\ new.type = fee.type /\ new.loan = fee.loan
             /\ new.status = fee.status \/ (new.status = "outstanding" /\ fee.status = "paid")
<1>1. fee.paid \in Nat
  BY DEF FeeRecord
<1>2. PICK paid \in Nat : paid = Larger(0, fee.paid - n) /\ paid = fee.paid - n
  BY <1>1 DEF Larger
<1>3. PICK status : status = IF fee.status = "paid" /\ fee.paid - n < fee.amount
                             THEN "outstanding" ELSE fee.status
  OBVIOUS
<1>4. status \in FeeStatus /\ (status = fee.status \/ (status = "outstanding" /\ fee.status = "paid"))
  BY <1>3 DEF FeeRecord, FeeStatus
<1>5. PICK new : new = [fee EXCEPT !.paid = paid, !.status = status]
  OBVIOUS
<1>6. /\ new \in FeeRecord /\ new.paid = paid /\ new.status = status
      /\ new.type = fee.type /\ new.loan = fee.loan
  BY <1>4, <1>5 DEF FeeRecord
<1> QED BY <1>2, <1>3, <1>4, <1>5, <1>6

LEMMA Refunding ==
  ASSUME FeesInv, NEW y \in PaymentIds, NEW amount \in Amounts, Refund(y, amount)
  PROVE  FeesInv' /\ WaivedKept
<1> DEFINE back == [f \in FeeIds |-> TakenBack(y, amount, f)]
<1>0. amount \in Nat /\ amount <= Refundable(y)
  BY FeesAssumption DEF Refund
<1>1. /\ payments' = [payments EXCEPT ![y].refunded = @ + amount]
      /\ reversed' = [reversed EXCEPT ![y] = [f \in FeeIds |-> @[f] + back[f]]]
      /\ fees' = [f \in FeeIds |-> IF back[f] = 0 THEN fees[f] ELSE Reopened(y, f, back[f])]
      /\ UNCHANGED <<loanState, late, reading, alloc, plans>>
  BY DEF Refund, TakenBack
<1>2. /\ payments \in [PaymentIds -> [amount : Nat, refunded : Nat, patron : Patrons \cup {None}]]
      /\ alloc \in [PaymentIds -> [FeeIds -> Nat]]
      /\ reversed \in [PaymentIds -> [FeeIds -> Nat]]
      /\ fees \in [FeeIds -> {NoFee} \cup FeeRecord]
      /\ \A x \in PaymentIds, f \in FeeIds : reversed[x][f] <= alloc[x][f]
  BY DEF FeesInv, FeesTypeOK, FeeRecord
<1>3. /\ \A f \in FeeIds : /\ back[f] \in Nat /\ back[f] <= Kept(y, f)
                           /\ f \notin NotWaived => back[f] = 0
      /\ SumFunctionOnSet(back, FeeIds) = Smaller(amount, KeptOf(y, NotWaived))
  BY <1>0, SharesOfRefund
<1> HIDE DEF back
<1>4. PICK rest : rest = [f \in FeeIds |-> reversed[y][f] + back[f]]
  OBVIOUS
<1>5. \A f \in FeeIds : rest[f] \in Nat /\ rest[f] = reversed[y][f] + back[f] /\ rest[f] <= alloc[y][f]
  BY <1>3, <1>4, KeptOfPayment DEF Kept
<1>6. reversed' = [reversed EXCEPT ![y] = rest]
  BY <1>1, <1>4
<1>7. reversed'[y] = rest /\ \A x \in PaymentIds \ {y} : reversed'[x] = reversed[x]
  BY <1>2, <1>6
<1>8. PICK money : money = [payments[y] EXCEPT !.refunded = @ + amount]
  OBVIOUS
<1>9. /\ money \in [amount : Nat, refunded : Nat, patron : Patrons \cup {None}]
      /\ money.amount = payments[y].amount /\ money.refunded = payments[y].refunded + amount
  <2>1. payments[y] \in [amount : Nat, refunded : Nat, patron : Patrons \cup {None}]
    BY <1>2
  <2>2. PICK n \in Nat : n = payments[y].refunded + amount
    BY <1>0, <2>1
  <2>3. money = [payments[y] EXCEPT !.refunded = n]
    BY <1>8, <2>2
  <2> QED BY <2>1, <2>2, <2>3
<1>10. payments' = [payments EXCEPT ![y] = money]
  BY <1>1, <1>8
<1>11. payments'[y] = money /\ \A x \in PaymentIds \ {y} : payments'[x] = payments[x]
  BY <1>2, <1>10
<1>12. ASSUME NEW f \in FeeIds
       PROVE  /\ fees'[f] \in {NoFee} \cup FeeRecord
              /\ fees'[f].paid = fees[f].paid - back[f]
              /\ fees'[f].type = fees[f].type /\ fees'[f].loan = fees[f].loan
              /\ fees[f].status = "waived" => fees'[f] = fees[f]
              /\ fees'[f].status = "waived" => fees[f].status = "waived"
  <2>0. back[f] <= fees[f].paid /\ fees[f].paid \in Nat /\ back[f] \in Nat
    BY <1>3, KeptOfPayment
  <2>1. CASE back[f] = 0
    <3>1. fees'[f] = fees[f]
      BY <1>1, <2>1
    <3>2. fees[f] \in {NoFee} \cup FeeRecord
      BY <1>2
    <3> QED BY <2>0, <2>1, <3>1, <3>2
  <2>2. CASE back[f] # 0
    <3>1. fees[f] \in FeeRecord
      BY <1>2, <2>0, <2>2 DEF NoFee
    <3>2. fees[f].status # "waived"
      BY <1>3, <2>2 DEF NotWaived
    <3>3. fees'[f] = Reopened(y, f, back[f])
      BY <1>1, <2>2
    <3>4. /\ Reopened(y, f, back[f]) \in FeeRecord
          /\ Reopened(y, f, back[f]).paid = fees[f].paid - back[f]
          /\ Reopened(y, f, back[f]).type = fees[f].type
          /\ Reopened(y, f, back[f]).loan = fees[f].loan
          /\ Reopened(y, f, back[f]).status \in {fees[f].status, "outstanding"}
      BY <2>0, <3>1, RefundedFee DEF Reopened
    <3> QED BY <3>1, <3>2, <3>3, <3>4
  <2> QED BY <2>1, <2>2
<1>13. FeesTypeOK'
  <2>1. fees' \in [FeeIds -> {NoFee} \cup FeeRecord]
    BY <1>1, <1>12
  <2>2. payments' \in [PaymentIds -> [amount : Nat, refunded : Nat, patron : Patrons \cup {None}]]
    BY <1>2, <1>9, <1>10
  <2>3. reversed' \in [PaymentIds -> [FeeIds -> Nat]]
    <3>1. rest \in [FeeIds -> Nat]
      BY <1>4, <1>5
    <3> QED BY <1>2, <1>6, <3>1
  <2>4. \A x \in PaymentIds, f \in FeeIds : reversed'[x][f] <= alloc'[x][f]
    <3>1. alloc' = alloc
      BY <1>1
    <3> QED BY <1>2, <1>5, <1>7, <3>1
  <2>5. /\ loanState' \in [LateLoans -> LoanStates]
        /\ late' \in [LateLoans -> 0 .. MaxDays]
        /\ reading' \in [LateLoans -> {None} \cup FeeRecord]
        /\ alloc' \in [PaymentIds -> [FeeIds -> Nat]]
        /\ plans' \in [PlanIds -> [total : Nat, paid : Nat, patron : Patrons \cup {None}]]
    BY <1>1, <1>2 DEF FeesInv, FeesTypeOK, FeeRecord
  <2> QED BY <2>1, <2>2, <2>3, <2>4, <2>5 DEF FeesTypeOK, FeeRecord
<1>14. ASSUME NEW x \in PaymentIds, NEW f \in FeeIds
       PROVE  Kept(x, f)' = IF x = y THEN Kept(y, f) - back[f] ELSE Kept(x, f)
  <2>1. alloc' = alloc
    BY <1>1
  <2>2. CASE x = y
    <3>1. alloc[y][f] \in Nat /\ reversed[y][f] \in Nat /\ back[f] \in Nat
      BY <1>3, KeptOfPayment
    <3>2. Kept(x, f)' = alloc[y][f] - rest[f]
      BY <1>7, <2>1, <2>2 DEF Kept
    <3> QED BY <1>5, <2>2, <3>1, <3>2 DEF Kept
  <2>3. CASE x # y
    BY <1>7, <2>1, <2>3 DEF Kept
  <2> QED BY <2>2, <2>3
<1>15. ASSUME NEW f \in FeeIds
       PROVE  fees'[f].paid = SumFunctionOnSet([x \in PaymentIds |-> Kept(x, f)'], PaymentIds)
  <2> DEFINE old == [x \in PaymentIds |-> Kept(x, f)]
             new == [x \in PaymentIds |-> Kept(x, f)']
  <2>1. /\ \A x \in PaymentIds : old[x] \in Nat
        /\ \A x \in PaymentIds \ {y} : new[x] = old[x]
        /\ new[y] = old[y] - back[f] /\ old[y] = Kept(y, f)
    BY <1>14, KeptOfPayment
  <2>2. fees[f].paid = SumFunctionOnSet(old, PaymentIds)
    BY DEF FeesInv, Ledger
  <2> HIDE DEF old, new
  <2>3. IsFiniteSet(PaymentIds)
    BY RowsFinite
  <2>4. back[f] \in Nat /\ back[f] <= old[y] /\ new[y] \in Nat
    BY <1>3, <2>1
  <2>5. \A x \in PaymentIds : old[x] \in Nat /\ new[x] \in Nat
    BY <2>1, <2>4
  <2>6. \A x \in PaymentIds \ {y} : new[x] = old[x]
    BY <2>1
  <2>7. SumFunctionOnSet(old, PaymentIds) \in Nat
    BY <2>3, <2>5, SumType
  <2>8. SumFunctionOnSet(new, PaymentIds) = SumFunctionOnSet(old, PaymentIds) - old[y] + new[y]
    BY <2>3, <2>5, <2>6, SumChanges
  <2>9. fees'[f].paid = SumFunctionOnSet(new, PaymentIds)
    BY <1>12, <2>1, <2>2, <2>4, <2>5, <2>7, <2>8
  <2> QED BY <2>9 DEF new
<1>16. ASSUME NEW x \in PaymentIds
       PROVE  Applied(x)' + payments'[x].refunded <= payments'[x].amount
  <2>1. CASE x # y
    <3>1. [f \in FeeIds |-> Kept(x, f)'] = [f \in FeeIds |-> Kept(x, f)]
      BY <1>14, <2>1
    <3>2. Applied(x)' = Applied(x)
      BY <3>1 DEF Applied, KeptOf
    <3> QED BY <1>11, <2>1, <3>2 DEF FeesInv, Ledger
  <2>2. CASE x = y
    <3> DEFINE old == [f \in FeeIds |-> Kept(y, f)]
               new == [f \in FeeIds |-> Kept(y, f)']
    <3>1. Applied(y) = SumFunctionOnSet(old, FeeIds) /\ Applied(y)' = SumFunctionOnSet(new, FeeIds)
      BY DEF Applied, KeptOf
    <3>2. KeptOf(y, NotWaived) = SumFunctionOnSet(old, NotWaived)
      BY DEF KeptOf
    <3>3. \A f \in FeeIds : old[f] = Kept(y, f) /\ new[f] = Kept(y, f) - back[f]
      BY <1>14
    <3> HIDE DEF old, new
    <3>4. \A f \in FeeIds : /\ old[f] \in Nat /\ new[f] \in Nat /\ back[f] \in Nat
                            /\ old[f] = new[f] + back[f]
      BY <1>3, <3>3, KeptOfPayment
    <3>5. IsFiniteSet(FeeIds)
      BY RowsFinite
    <3>6. SumFunctionOnSet(old, FeeIds) = SumFunctionOnSet(new, FeeIds) + SumFunctionOnSet(back, FeeIds)
      BY <3>4, <3>5, SumOfDifference
    <3>7. SumFunctionOnSet(old, FeeIds) = SumFunctionOnSet(old, NotWaived)
      <4>1. \A f \in FeeIds \ NotWaived : old[f] = 0
        <5> TAKE f \in FeeIds \ NotWaived
        <5>1. fees[f].paid = 0
          BY DEF FeesInv, WaivedUnpaid, NotWaived
        <5> QED BY <3>3, <5>1, KeptOfPayment
      <4>2. NotWaived \in SUBSET FeeIds
        BY DEF NotWaived
      <4>3. \A f \in NotWaived : old[f] \in Nat
        BY <3>4, <4>2
      <4> QED BY <3>5, <4>1, <4>2, <4>3, SumOnSupport
    <3>8. PICK a \in Nat : a = SumFunctionOnSet(new, FeeIds)
      BY <3>4, <3>5, SumType
    <3>9. PICK k \in Nat : k = SumFunctionOnSet(old, FeeIds)
      BY <3>4, <3>5, SumType
    <3>10. PICK total \in Nat, gone \in Nat : total = payments[y].amount /\ gone = payments[y].refunded
      BY <1>2
    <3>11. k = a + Smaller(amount, k)
      BY <1>3, <3>2, <3>6, <3>7, <3>8, <3>9
    <3>12. k + gone <= total
      BY <3>1, <3>9, <3>10 DEF FeesInv, Ledger
    <3>13. amount <= total - gone
      <4>1. PICK m : m = KeptOf(y, NotWaived) + Unallocated(y)
        OBVIOUS
      <4>2. Refundable(y) = Smaller(m, total - gone)
        BY <3>10, <4>1 DEF Refundable
      <4>3. Unallocated(y) \in Int
        <5>1. \A f \in FeeIds : alloc[y][f] \in Nat
          BY <1>2
        <5>2. SumFunctionOnSet(alloc[y], FeeIds) \in Nat
          BY <3>5, <5>1, SumType
        <5> QED BY <3>10, <5>2 DEF Unallocated
      <4>4. m \in Int
        BY <3>2, <3>7, <3>9, <4>1, <4>3
      <4> QED BY <1>0, <4>2, <4>4 DEF Smaller
    <3>14. a + (gone + amount) <= total
      BY <1>0, <3>11, <3>12, <3>13 DEF Smaller
    <3> QED BY <1>9, <1>11, <2>2, <3>1, <3>8, <3>10, <3>14
  <2> QED BY <2>1, <2>2
<1>17. Ledger'
  <2>1. \A q \in PlanIds : plans'[q].paid <= plans'[q].total
    BY <1>1 DEF FeesInv, Ledger
  <2> QED BY <1>15, <1>16, <2>1 DEF Ledger
<1>18. OneFine' /\ WaivedUnpaid' /\ ReadWaived' /\ WaivedKept
  BY <1>1, <1>12, WaiversStay
<1>19. Unrecorded'
  <2>1. \A x \in PaymentIds : payments'[x].amount = payments[x].amount
    BY <1>9, <1>11
  <2> QED BY <1>1, <2>1 DEF FeesInv, Unrecorded
<1> QED BY <1>13, <1>17, <1>18, <1>19 DEF FeesInv

LEMMA Erasing ==
  ASSUME FeesInv, NEW p \in Patrons, ErasePayer(p)
  PROVE  FeesInv' /\ WaivedKept
<1>1. /\ fees' = [f \in FeeIds |-> IF fees[f].patron = p THEN [fees[f] EXCEPT !.patron = None]
                                   ELSE fees[f]]
      /\ payments' = [y \in PaymentIds |->
                        IF payments[y].patron = p THEN [payments[y] EXCEPT !.patron = None]
                        ELSE payments[y]]
      /\ plans' = [q \in PlanIds |-> IF plans[q].patron = p THEN [plans[q] EXCEPT !.patron = None]
                                     ELSE plans[q]]
      /\ loanState' = [l \in LateLoans |-> IF Borrower[l] = p THEN "closed" ELSE loanState[l]]
      /\ UNCHANGED <<late, reading, alloc, reversed>>
  BY DEF ErasePayer
<1> DEFINE Money == [amount : Nat, refunded : Nat, patron : Patrons \cup {None}]
           Plan == [total : Nat, paid : Nat, patron : Patrons \cup {None}]
<1>2. /\ payments \in [PaymentIds -> Money]
      /\ plans \in [PlanIds -> Plan]
      /\ fees \in [FeeIds -> {NoFee} \cup FeeRecord]
      /\ loanState \in [LateLoans -> LoanStates]
  BY DEF FeesInv, FeesTypeOK, FeeRecord
<1>3. ASSUME NEW f \in FeeIds
      PROVE  /\ fees'[f] \in {NoFee} \cup FeeRecord
             /\ fees'[f].paid = fees[f].paid /\ fees'[f].status = fees[f].status
             /\ fees'[f].type = fees[f].type /\ fees'[f].loan = fees[f].loan
  <2>1. CASE fees[f].patron = p
    <3>1. fees'[f] = [fees[f] EXCEPT !.patron = None]
      BY <1>1, <2>1
    <3>2. fees[f] \in FeeRecord
      BY <1>2, <2>1, LibraryAssumption DEF NoFee
    <3> QED BY <3>1, <3>2 DEF FeeRecord
  <2>2. CASE fees[f].patron # p
    BY <1>1, <1>2, <2>2
  <2> QED BY <2>1, <2>2
<1>4. ASSUME NEW y \in PaymentIds
      PROVE  /\ payments'[y] \in Money /\ payments'[y].amount = payments[y].amount
             /\ payments'[y].refunded = payments[y].refunded
  <2>1. payments'[y] \in {payments[y], [payments[y] EXCEPT !.patron = None]}
    BY <1>1
  <2> QED BY <1>2, <2>1
<1>5. ASSUME NEW q \in PlanIds
      PROVE  /\ plans'[q] \in Plan /\ plans'[q].total = plans[q].total
             /\ plans'[q].paid = plans[q].paid
  <2>1. plans'[q] \in {plans[q], [plans[q] EXCEPT !.patron = None]}
    BY <1>1
  <2> QED BY <1>2, <2>1
<1>6. FeesTypeOK'
  <2>1. fees' \in [FeeIds -> {NoFee} \cup FeeRecord]
    BY <1>1, <1>3
  <2>2. payments' \in [PaymentIds -> Money] /\ plans' \in [PlanIds -> Plan]
    <3> HIDE DEF Money, Plan
    <3> QED BY <1>1, <1>4, <1>5
  <2>3. loanState' \in [LateLoans -> LoanStates]
    BY <1>1, <1>2 DEF LoanStates
  <2>4. /\ late' \in [LateLoans -> 0 .. MaxDays]
        /\ reading' \in [LateLoans -> {None} \cup FeeRecord]
        /\ alloc' \in [PaymentIds -> [FeeIds -> Nat]]
        /\ reversed' \in [PaymentIds -> [FeeIds -> Nat]]
        /\ \A y \in PaymentIds, f \in FeeIds : reversed'[y][f] <= alloc'[y][f]
    BY <1>1 DEF FeesInv, FeesTypeOK, FeeRecord
  <2> QED BY <2>1, <2>2, <2>3, <2>4 DEF FeesTypeOK, FeeRecord
<1>7. Ledger'
  <2>1. \A q \in PlanIds : plans'[q].paid <= plans'[q].total
    BY <1>5 DEF FeesInv, Ledger
  <2>2. UNCHANGED <<alloc, reversed>>
    BY <1>1
  <2> QED BY <1>3, <1>4, <2>1, <2>2, LedgerStays DEF FeesInv
<1>8. OneFine' /\ WaivedUnpaid' /\ ReadWaived' /\ WaivedKept
  <2>1. UNCHANGED reading
    BY <1>1
  <2> QED BY <1>3, <2>1, WaiversStay
<1>9. Unrecorded'
  BY <1>1, <1>4 DEF FeesInv, Unrecorded
<1> QED BY <1>6, <1>7, <1>8, <1>9 DEF FeesInv

-----------------------------------------------------------------------------
LEMMA FeesStep ==
  ASSUME FeesInv, [FeesNext]_feesVars
  PROVE  FeesInv' /\ WaivedKept
<1>1. CASE UNCHANGED feesVars
  BY <1>1, FeesStutter
<1>2. ASSUME NEW l \in LateLoans,
             \/ \E b \in BOOLEAN : CheckOut(l, b)
             \/ DayPasses(l) \/ RenewLate(l)
             \/ \E purpose \in Purposes : ReadFine(l, purpose)
             \/ SaveFine(l) \/ ReturnLate(l) \/ ClaimReturned(l)
             \/ \E f \in FeeIds : ChargeItem(l, f)
      PROVE  FeesInv' /\ WaivedKept
  <2>1. CASE (\E b \in BOOLEAN : CheckOut(l, b)) \/ DayPasses(l) \/ RenewLate(l) \/ ClaimReturned(l)
    BY <2>1, LoanTimes
  <2>2. CASE \E purpose \in Purposes : ReadFine(l, purpose)
    BY <2>2, ReadingFine
  <2>3. CASE SaveFine(l) \/ ReturnLate(l)
    BY <2>3, SavingFine
  <2>4. CASE \E f \in FeeIds : ChargeItem(l, f)
    BY <2>4, ChargingItem
  <2> QED BY <1>2, <2>1, <2>2, <2>3, <2>4
<1>3. ASSUME NEW f \in FeeIds, Waive(f) PROVE FeesInv' /\ WaivedKept
  BY <1>3, Waiving
<1>4. ASSUME NEW y \in PaymentIds, NEW n \in Amounts,
             \/ \E p \in Patrons : PayOnline(y, p, n)
             \/ \E q \in PlanIds : PayPlan(y, q, n)
             \/ Refund(y, n)
      PROVE  FeesInv' /\ WaivedKept
  BY <1>4, PayingOnline, PayingPlan, Refunding
<1>5. ASSUME NEW q \in PlanIds, NEW p \in Patrons, NEW n \in Amounts, CreatePlan(q, p, n)
      PROVE  FeesInv' /\ WaivedKept
  BY <1>5, PlanningPayments
<1>6. ASSUME NEW p \in Patrons, ErasePayer(p) PROVE FeesInv' /\ WaivedKept
  BY <1>6, Erasing
<1> QED BY <1>1, <1>2, <1>3, <1>4, <1>5, <1>6 DEF FeesNext

\* The types, the ledger, one fine to a loan and unpaid waivers survive every
\* step of loans, sweeps, payments, refunds, plans and erasures.
THEOREM FeesHold == FeesSpec => []FeesInv
<1>1. FeesInv /\ [FeesNext]_feesVars => FeesInv'
  BY FeesStep
<1> QED BY FeesFirst, <1>1, PTL DEF FeesSpec

\* Loans, fees, payments, allocations and plans have their types, and no more is
\* taken back from a fee than the payment gave it.
THEOREM FeesTyped == FeesSpec => []FeesTypeOK
<1>1. FeesInv => FeesTypeOK
  BY DEF FeesInv
<1> QED BY FeesHold, <1>1, PTL

\* The books agree: record_payment, refund_payment, pay_installment and the
\* sweeps, in whatever order, keep what a fee counts as paid equal to what the
\* payments gave it and did not take back, no payment worth more than its
\* amount, and no plan above its total.
THEOREM BooksAgree == FeesSpec => []Ledger
<1>1. FeesInv => Ledger
  BY DEF FeesInv
<1> QED BY FeesHold, <1>1, PTL

\* A waived fee takes nobody's money, and only the step that ends an assessment of
\* its loan can bring it back, when the fine was read before it was waived.
THEOREM WaiversStand == FeesSpec => WaivedIsFinal
<1>1. FeesInv /\ [FeesNext]_feesVars => [WaivedKept]_feesVars
  BY FeesStep
<1>2. [WaivedKept]_feesVars =>
        [\A f \in FeeIds : fees[f].status = "waived" =>
           /\ fees'[f].paid = fees[f].paid
           /\ fees'[f].status # "waived" =>
                LET l == fees[f].loan
                IN  /\ fees[f].type = "overdue"
                    /\ reading[l] # None /\ reading[l].status # "waived"
                    /\ reading'[l] = None]_feesVars
  BY DEF WaivedKept
<1> QED BY FeesHold, <1>1, <1>2, PTL DEF FeesSpec, WaivedIsFinal
=============================================================================
