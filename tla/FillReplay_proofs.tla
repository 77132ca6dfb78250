------------------------- MODULE FillReplay_proofs -------------------------
(***************************************************************************)
(* The theorems of FillReplay, for any orders, sizes, prices and           *)
(* reporters: what the rows and observations say at every moment           *)
(* (ReplayInv), that the replay therefore books each order whole and in    *)
(* its place, that a settled history stands, and that the position book    *)
(* the executions of all orders make adds up.                              *)
(*                                                                         *)
(* The replay is made of sums over finite sets.  The first section has the *)
(* two facts about such sums that the rest uses: any element may be the    *)
(* last one added, and what is added of numbers that are not negative does *)
(* not shrink the sum.                                                     *)
(***************************************************************************)
EXTENDS FillReplay, FiniteSetTheorems, WellFoundedInduction, SequenceTheorems, TLAPS

-----------------------------------------------------------------------------
(* Sums.                                                                   *)

\* A set of numbers that is not empty has a least one.
LEMMA Least ==
  ASSUME NEW S \in SUBSET Nat, S # {}
  PROVE  \E n \in S : \A m \in S : n <= m
<1>1. IsWellFoundedOn(OpToRel(<, Nat), Nat)
  BY NatLessThanWellFounded, Zenon
<1>2. PICK n \in S : \A m \in S : ~(<<m, n>> \in OpToRel(<, Nat))
  BY <1>1, WFMin
<1>3. \A m \in S : ~(m < n)
  BY <1>2 DEF OpToRel
<1> QED
  BY <1>3

\* Induction over the numbers, for a set instead of a predicate.
LEMMA Induction ==
  ASSUME NEW S, 0 \in S, \A n \in Nat : n \in S => n + 1 \in S
  PROVE  \A n \in Nat : n \in S
<1> SUFFICES ASSUME Nat \ S # {} PROVE FALSE
  OBVIOUS
<1>1. PICK n \in Nat \ S : \A m \in Nat \ S : n <= m
  BY Least
<1>2. n # 0 /\ n - 1 \in Nat /\ n - 1 \in S
  BY <1>1
<1> QED
  BY <1>1, <1>2

\* The sum of a function, and the function of its partial sums by which it is defined.
Sum(f) == FoldFunction(+, 0, f)
Any(S) == CHOOSE x \in S : TRUE
IsPartial(f, g) ==
  g = [S \in SUBSET DOMAIN f |-> IF S = {} THEN 0 ELSE f[Any(S)] + g[S \ {Any(S)}]]
Partial(f) == CHOOSE g : IsPartial(f, g)

LEMMA SumIs ==
  ASSUME NEW f
  PROVE  Sum(f) = Partial(f)[DOMAIN f]
BY DEF Sum, Partial, IsPartial, Any, FoldFunction, FoldFunctionOnSet, MapThenFoldSet

\* A finite set without one of its elements is smaller by one.
LEMMA SmallerByOne ==
  ASSUME NEW D, IsFiniteSet(D), NEW S \in SUBSET D, NEW x \in S
  PROVE  /\ S \ {x} \in SUBSET D /\ S \ {x} # S
         /\ Cardinality(S) \in Nat /\ Cardinality(S \ {x}) \in Nat
         /\ Cardinality(S) = Cardinality(S \ {x}) + 1
<1>1. IsFiniteSet(S)
  BY FS_Subset
<1>2. Cardinality(S) \in Nat /\ Cardinality(S \ {x}) = Cardinality(S) - 1
      /\ IsFiniteSet(S \ {x})
  BY <1>1, FS_CardinalityType, FS_RemoveElement
<1>3. Cardinality(S \ {x}) \in Nat
  BY <1>2, FS_CardinalityType
<1> QED
  BY <1>2, <1>3

\* The partial sums exist.
LEMMA PartialIs ==
  ASSUME NEW f, IsFiniteSet(DOMAIN f)
  PROVE  \A S \in SUBSET DOMAIN f :
           Partial(f)[S] = IF S = {} THEN 0 ELSE f[Any(S)] + Partial(f)[S \ {Any(S)}]
<1> DEFINE D == DOMAIN f
           Upto(g, n) ==
             \A S \in SUBSET D : Cardinality(S) <= n =>
               g[S] = IF S = {} THEN 0 ELSE f[Any(S)] + g[S \ {Any(S)}]
           T == {n \in Nat : \E g : Upto(g, n)}
<1>any. \A S : S # {} => Any(S) \in S
  BY DEF Any
<1>card. \A S \in SUBSET D : Cardinality(S) \in Nat /\ (Cardinality(S) = 0 <=> S = {})
  BY FS_Subset, FS_CardinalityType, FS_EmptySet
<1>1. 0 \in T
  <2> DEFINE g == [S \in SUBSET D |-> 0]
  <2>1. Upto(g, 0)
    BY <1>card
  <2> QED
    BY <2>1
<1>2. ASSUME NEW n \in Nat, n \in T PROVE n + 1 \in T
  <2>1. PICK g : Upto(g, n)
    BY <1>2
  <2> DEFINE h == [S \in SUBSET D |-> IF Cardinality(S) <= n THEN g[S]
                                      ELSE f[Any(S)] + g[S \ {Any(S)}]]
  <2>2. ASSUME NEW S \in SUBSET D, Cardinality(S) <= n + 1
        PROVE  h[S] = IF S = {} THEN 0 ELSE f[Any(S)] + h[S \ {Any(S)}]
    <3>1. CASE S = {}
      <4>1. Cardinality(S) <= n
        BY <1>card, <3>1
      <4> QED
        BY <2>1, <3>1, <4>1
    <3>2. CASE S # {}
      <4>1. S \ {Any(S)} \in SUBSET D /\ Cardinality(S \ {Any(S)}) <= n
        BY <1>any, <2>2, <3>2, SmallerByOne
      <4>2. h[S \ {Any(S)}] = g[S \ {Any(S)}]
        BY <4>1
      <4>3. h[S] = f[Any(S)] + g[S \ {Any(S)}]
        BY <2>1, <3>2
      <4> QED
        BY <3>2, <4>2, <4>3
    <3> QED
      BY <3>1, <3>2
  <2>3. Upto(h, n + 1)
    BY <2>2
  <2> HIDE DEF h, Upto
  <2> QED
    BY <2>3
<1>3. PICK g : Upto(g, Cardinality(D))
  <2>1. Cardinality(D) \in T
    <3> HIDE DEF T
    <3> QED
      BY <1>1, <1>2, <1>card, Induction
  <2> QED
    BY <2>1
<1>4. \A S \in SUBSET D : Cardinality(S) <= Cardinality(D)
  BY FS_Subset
<1> DEFINE h == [S \in SUBSET D |-> g[S]]
<1>5. IsPartial(f, h)
  <2>1. ASSUME NEW S \in SUBSET D
        PROVE  h[S] = IF S = {} THEN 0 ELSE f[Any(S)] + h[S \ {Any(S)}]
    BY <1>3, <1>4
  <2> QED
    BY <2>1 DEF IsPartial
<1>6. IsPartial(f, Partial(f))
  BY <1>5 DEF Partial
<1> QED
  BY <1>6 DEF IsPartial

\* Partial sums of numbers are numbers, and any element may be the last one added.
LEMMA PartialSums ==
  ASSUME NEW f, IsFiniteSet(DOMAIN f), \A x \in DOMAIN f : f[x] \in Int
  PROVE  /\ Partial(f)[{}] = 0
         /\ \A S \in SUBSET DOMAIN f :
              /\ Partial(f)[S] \in Int
              /\ \A x \in S : Partial(f)[S] = f[x] + Partial(f)[S \ {x}]
<1> DEFINE D == DOMAIN f
           g == Partial(f)
           Good(S) == g[S] \in Int /\ \A x \in S : g[S] = f[x] + g[S \ {x}]
           T == {n \in Nat : \A S \in SUBSET D : Cardinality(S) <= n => Good(S)}
<1>any. \A S : S # {} => Any(S) \in S
  BY DEF Any
<1>card. \A S \in SUBSET D : Cardinality(S) \in Nat /\ (Cardinality(S) = 0 <=> S = {})
  BY FS_Subset, FS_CardinalityType, FS_EmptySet
<1>is. \A S \in SUBSET D : g[S] = IF S = {} THEN 0 ELSE f[Any(S)] + g[S \ {Any(S)}]
  BY PartialIs
<1>e. g[{}] = 0 /\ Good({})
  <2>1. {} \in SUBSET D
    OBVIOUS
  <2>2. g[{}] = 0
    BY <1>is, <2>1, Zenon
  <2> HIDE DEF g
  <2> QED
    BY <2>2
<1> HIDE DEF g
<1>1. 0 \in T
  <2>1. \A S \in SUBSET D : Cardinality(S) <= 0 => S = {}
    BY <1>card
  <2> HIDE DEF Good
  <2> QED
    BY <1>e, <2>1
<1>2. ASSUME NEW n \in Nat, n \in T PROVE n + 1 \in T
  <2> SUFFICES ASSUME NEW S \in SUBSET D, Cardinality(S) <= n + 1, S # {} PROVE Good(S)
    <3> HIDE DEF Good
    <3> QED
      BY <1>e
  <2>1. \A R \in SUBSET D : Cardinality(R) <= n => Good(R)
    BY <1>2
  <2> DEFINE a == Any(S)
             R == S \ {a}
  <2>2. a \in S /\ f[a] \in Int
    BY <1>any
  <2>3. R \in SUBSET D /\ Cardinality(R) <= n
    BY <2>2, SmallerByOne
  <2>4. g[S] = f[a] + g[R] /\ g[R] \in Int
    BY <1>is, <2>1, <2>3
  <2>5. ASSUME NEW x \in S, x # a PROVE g[S] = f[x] + g[S \ {x}]
    <3>1. /\ S \ {x} \in SUBSET D /\ Cardinality(S \ {x}) <= n
      BY SmallerByOne
    <3>2. x \in R /\ a \in S \ {x} /\ R \ {x} = (S \ {x}) \ {a}
      BY <2>2, <2>5
    <3>3. g[R] = f[x] + g[R \ {x}]
      BY <2>1, <2>3, <3>2
    <3>4. g[S \ {x}] = f[a] + g[(S \ {x}) \ {a}]
      BY <2>1, <3>1, <3>2
    <3>5. R \ {x} \in SUBSET D /\ Cardinality(R \ {x}) <= n
      <4> HIDE DEF R
      <4>1. /\ R \ {x} \in SUBSET D /\ Cardinality(R) \in Nat /\ Cardinality(R \ {x}) \in Nat
            /\ Cardinality(R) = Cardinality(R \ {x}) + 1
        BY <2>3, <3>2, SmallerByOne
      <4> QED
        BY <2>3, <4>1
    <3>6. g[R \ {x}] \in Int
      BY <2>1, <3>5
    <3>7. f[x] \in Int
      OBVIOUS
    <3>8. g[S \ {x}] = f[a] + g[R \ {x}]
      BY <3>2, <3>4
    <3> HIDE DEF a, R, D, T, Good
    <3> QED
      BY <2>2, <2>4, <3>3, <3>6, <3>7, <3>8
  <2>6. \A x \in S : g[S] = f[x] + g[S \ {x}]
    BY <2>4, <2>5
  <2>7. g[S] \in Int
    <3> HIDE DEF a, R, D, T, Good
    <3> QED
      BY <2>2, <2>4
  <2> QED
    BY <2>6, <2>7
<1>3. ASSUME NEW S \in SUBSET D PROVE Good(S)
  <2>1. Cardinality(S) \in T
    <3> HIDE DEF T
    <3> QED
      BY <1>1, <1>2, <1>card, Induction
  <2>2. Cardinality(S) <= Cardinality(S)
    BY <1>card
  <2> HIDE DEF Good
  <2> QED
    BY <2>1, <2>2
<1> QED
  BY <1>e, <1>3, <1>is DEF g

\* Functions that agree have the same partial sums.
LEMMA PartialAgrees ==
  ASSUME NEW f, NEW h, IsFiniteSet(DOMAIN f), IsFiniteSet(DOMAIN h),
         NEW D, D \subseteq DOMAIN f, D \subseteq DOMAIN h, \A x \in D : f[x] = h[x]
  PROVE  Partial(f)[D] = Partial(h)[D]
<1> DEFINE T == {n \in Nat : \A S \in SUBSET D : Cardinality(S) <= n =>
                              Partial(f)[S] = Partial(h)[S]}
<1>any. \A S : S # {} => Any(S) \in S
  BY DEF Any
<1>fin. IsFiniteSet(D)
  BY FS_Subset
<1>card. \A S \in SUBSET D : Cardinality(S) \in Nat /\ (Cardinality(S) = 0 <=> S = {})
  BY <1>fin, FS_Subset, FS_CardinalityType, FS_EmptySet
<1>f. \A S \in SUBSET D :
        Partial(f)[S] = IF S = {} THEN 0 ELSE f[Any(S)] + Partial(f)[S \ {Any(S)}]
  BY PartialIs
<1>h. \A S \in SUBSET D :
        Partial(h)[S] = IF S = {} THEN 0 ELSE h[Any(S)] + Partial(h)[S \ {Any(S)}]
  BY PartialIs
<1>e. {} \in SUBSET D /\ Partial(f)[{}] = 0 /\ Partial(h)[{}] = 0
  <2>1. {} \in SUBSET D
    OBVIOUS
  <2> QED
    BY <1>f, <1>h, <2>1, Zenon
<1>1. 0 \in T
  <2>1. \A S \in SUBSET D : Cardinality(S) <= 0 => S = {}
    BY <1>card
  <2> QED
    BY <1>e, <2>1
<1>2. ASSUME NEW n \in Nat, n \in T PROVE n + 1 \in T
  <2> SUFFICES ASSUME NEW S \in SUBSET D, Cardinality(S) <= n + 1
               PROVE  Partial(f)[S] = Partial(h)[S]
    OBVIOUS
  <2>e. CASE S = {}
    BY <1>e, <2>e
  <2>n. CASE S # {}
    <3>1. Any(S) \in S
      BY <1>any, <2>n
    <3>2. S \ {Any(S)} \in SUBSET D /\ Cardinality(S \ {Any(S)}) <= n
      BY <1>fin, <3>1, SmallerByOne
    <3>3. Partial(f)[S \ {Any(S)}] = Partial(h)[S \ {Any(S)}]
      BY <1>2, <3>2
    <3> QED
      BY <1>f, <1>h, <2>n, <3>1, <3>3
  <2> QED
    BY <2>e, <2>n
<1>3. Cardinality(D) \in T
  <2> HIDE DEF T
  <2> QED
    BY <1>1, <1>2, <1>card, Induction
<1> QED
  BY <1>3, <1>card

\* A sum of numbers is a number, and any element may be the last one added.
LEMMA SumPlus ==
  ASSUME NEW f, IsFiniteSet(DOMAIN f), \A x \in DOMAIN f : f[x] \in Int
  PROVE  /\ DOMAIN f = {} => Sum(f) = 0
         /\ Sum(f) \in Int
         /\ \A x \in DOMAIN f : Sum(f) = f[x] + Sum([y \in DOMAIN f \ {x} |-> f[y]])
<1> DEFINE D == DOMAIN f
<1>1. Sum(f) = Partial(f)[D] /\ Sum(f) \in Int /\ (D = {} => Sum(f) = 0)
  <2>1. D \in SUBSET DOMAIN f
    OBVIOUS
  <2> HIDE DEF D
  <2>2. Partial(f)[D] \in Int /\ Partial(f)[{}] = 0
    BY <2>1, PartialSums
  <2> QED
    BY <2>2, SumIs DEF D
<1>2. ASSUME NEW x \in D PROVE Sum(f) = f[x] + Sum([y \in D \ {x} |-> f[y]])
  <2> DEFINE h == [y \in D \ {x} |-> f[y]]
  <2>1. DOMAIN h = D \ {x} /\ \A y \in D \ {x} : f[y] = h[y]
    OBVIOUS
  <2>2. IsFiniteSet(D \ {x})
    BY FS_Subset
  <2>3. Partial(f)[D \ {x}] = Partial(h)[D \ {x}]
    <3>1. D \ {x} \subseteq DOMAIN f /\ D \ {x} \subseteq DOMAIN h /\ IsFiniteSet(DOMAIN h)
      BY <2>1, <2>2
    <3> HIDE DEF h
    <3> QED
      BY <2>1, <3>1, PartialAgrees
  <2>4. Sum(h) = Partial(h)[D \ {x}]
    <3> HIDE DEF h
    <3> QED
      BY <2>1, SumIs
  <2>5. Partial(f)[D] = f[x] + Partial(f)[D \ {x}]
    BY PartialSums
  <2> HIDE DEF h
  <2>6. Sum(f) = f[x] + Sum(h)
    BY <1>1, <2>3, <2>4, <2>5
  <2> QED
    BY <2>6 DEF h
<1> QED
  BY <1>1, <1>2

\* One more execution adds its contracts and its cost.
Executions == [time : Nat, order : Int, cumulative : Nat, quantity : Nat, price : Int]

LEMMA AddExecution ==
  ASSUME NEW E \in SUBSET Executions, IsFiniteSet(E), NEW e \in Executions \ E
  PROVE  /\ QuantityOf({}) = 0 /\ CostOf({}) = 0
         /\ QuantityOf(E) \in Int /\ CostOf(E) \in Int
         /\ QuantityOf(E \cup {e}) = QuantityOf(E) + e.quantity
         /\ CostOf(E \cup {e}) = CostOf(E) + e.quantity * e.price
<1> DEFINE Q(S) == [x \in S |-> x.quantity]
           C(S) == [x \in S |-> x.quantity * x.price]
<1>1. \A S : QuantityOf(S) = Sum(Q(S)) /\ CostOf(S) = Sum(C(S))
  BY DEF QuantityOf, CostOf, Sum
<1>2. \A S \in SUBSET Executions : \A x \in S : Q(S)[x] \in Int /\ C(S)[x] \in Int
  BY DEF Executions
<1>3. IsFiniteSet({}) /\ IsFiniteSet(E \cup {e}) /\ E \cup {e} \in SUBSET Executions
  BY FS_EmptySet, FS_AddElement
<1>4. \A S : DOMAIN Q(S) = S /\ DOMAIN C(S) = S
  OBVIOUS
<1>5. /\ [y \in DOMAIN Q(E \cup {e}) \ {e} |-> Q(E \cup {e})[y]] = Q(E)
      /\ [y \in DOMAIN C(E \cup {e}) \ {e} |-> C(E \cup {e})[y]] = C(E)
  OBVIOUS
<1>6. Q(E \cup {e})[e] = e.quantity /\ C(E \cup {e})[e] = e.quantity * e.price
  OBVIOUS
<1>7. e.quantity \in Int /\ e.quantity * e.price \in Int
  BY DEF Executions
<1> HIDE DEF Q, C
<1>8. Sum(Q({})) = 0 /\ Sum(C({})) = 0
  <2>1. {} \in SUBSET Executions
    OBVIOUS
  <2> QED
    BY <1>2, <1>3, <1>4, <2>1, SumPlus
<1>9. Sum(Q(E)) \in Int /\ Sum(C(E)) \in Int
  BY <1>2, <1>4, SumPlus
<1>10. e \in E \cup {e}
  OBVIOUS
<1>11. \A x \in E \cup {e} : Q(E \cup {e})[x] \in Int /\ C(E \cup {e})[x] \in Int
  BY <1>2, <1>3
<1>12. Sum(Q(E \cup {e})) = Q(E \cup {e})[e] + Sum(Q(E))
  <2> DEFINE f == Q(E \cup {e})
  <2>1. DOMAIN f = E \cup {e} /\ [y \in DOMAIN f \ {e} |-> f[y]] = Q(E)
    BY <1>4, <1>5, Zenon
  <2>2. \A x \in DOMAIN f : f[x] \in Int
    BY <1>11, <2>1
  <2> HIDE DEF f
  <2>3. \A x \in DOMAIN f : Sum(f) = f[x] + Sum([y \in DOMAIN f \ {x} |-> f[y]])
    BY <1>3, <2>1, <2>2, SumPlus
  <2>4. Sum(f) = f[e] + Sum([y \in DOMAIN f \ {e} |-> f[y]])
    BY <1>10, <2>1, <2>3, Zenon
  <2> QED
    BY <2>1, <2>4, Zenon DEF f
<1>13. Sum(C(E \cup {e})) = C(E \cup {e})[e] + Sum(C(E))
  <2> DEFINE f == C(E \cup {e})
  <2>1. DOMAIN f = E \cup {e} /\ [y \in DOMAIN f \ {e} |-> f[y]] = C(E)
    BY <1>4, <1>5, Zenon
  <2>2. \A x \in DOMAIN f : f[x] \in Int
    BY <1>11, <2>1
  <2> HIDE DEF f
  <2>3. \A x \in DOMAIN f : Sum(f) = f[x] + Sum([y \in DOMAIN f \ {x} |-> f[y]])
    BY <1>3, <2>1, <2>2, SumPlus
  <2>4. Sum(f) = f[e] + Sum([y \in DOMAIN f \ {e} |-> f[y]])
    BY <1>10, <2>1, <2>3, Zenon
  <2> QED
    BY <2>1, <2>4, Zenon DEF f
<1> QED
  BY <1>1, <1>6, <1>7, <1>8, <1>9, <1>12, <1>13

\* No execution takes contracts away.
LEMMA MoreExecutions ==
  ASSUME NEW B \in SUBSET Executions, NEW A \in SUBSET Executions, IsFiniteSet(A), B \subseteq A
  PROVE  QuantityOf(B) <= QuantityOf(A) /\ QuantityOf(A) \in Int
<1> DEFINE T == {n \in Nat : \A S \in SUBSET Executions :
                   IsFiniteSet(S) /\ B \subseteq S /\ Cardinality(S \ B) <= n =>
                     QuantityOf(B) <= QuantityOf(S)}
<1>i. \A S \in SUBSET Executions : IsFiniteSet(S) => QuantityOf(S) \in Int
  <2> SUFFICES ASSUME NEW S \in SUBSET Executions, IsFiniteSet(S) PROVE QuantityOf(S) \in Int
    OBVIOUS
  <2>1. CASE S = {}
    <3> DEFINE f == [e \in S |-> e.quantity]
    <3>1. DOMAIN f = {} /\ QuantityOf(S) = Sum(f) /\ IsFiniteSet(DOMAIN f)
      BY <2>1, FS_EmptySet DEF QuantityOf, Sum
    <3> HIDE DEF f
    <3>2. Sum(f) = 0
      BY <3>1, SumPlus
    <3> QED
      BY <3>1, <3>2
  <2>2. CASE S # {}
    <3>1. PICK x \in S : TRUE
      BY <2>2
    <3>2. S \ {x} \in SUBSET Executions /\ IsFiniteSet(S \ {x}) /\ x \in Executions \ (S \ {x})
          /\ S = (S \ {x}) \cup {x}
      BY FS_Subset
    <3>3. QuantityOf(S) = QuantityOf(S \ {x}) + x.quantity /\ QuantityOf(S \ {x}) \in Int
      BY <3>2, AddExecution
    <3>4. x.quantity \in Nat
      BY DEF Executions
    <3> QED
      BY <3>3, <3>4
  <2> QED
    BY <2>1, <2>2
<1>1. 0 \in T
  <2> SUFFICES ASSUME NEW S \in SUBSET Executions, IsFiniteSet(S), B \subseteq S,
                      Cardinality(S \ B) <= 0
               PROVE  QuantityOf(B) <= QuantityOf(S)
    OBVIOUS
  <2>1. IsFiniteSet(S \ B)
    BY FS_Subset
  <2>2. S \ B = {}
    BY <2>1, FS_CardinalityType, FS_EmptySet
  <2>3. S = B
    BY <2>2
  <2> QED
    BY <1>i, <2>3
<1>2. ASSUME NEW n \in Nat, n \in T PROVE n + 1 \in T
  <2> SUFFICES ASSUME NEW S \in SUBSET Executions, IsFiniteSet(S), B \subseteq S,
                      Cardinality(S \ B) <= n + 1, S # B
               PROVE  QuantityOf(B) <= QuantityOf(S)
    BY <1>i
  <2>1. PICK x \in S : x \notin B
    OBVIOUS
  <2>2. IsFiniteSet(S \ B) /\ x \in S \ B
    BY <2>1, FS_Subset
  <2>3. Cardinality((S \ B) \ {x}) <= n
    BY <2>2, SmallerByOne
  <2> DEFINE R == S \ {x}
  <2>4. R \in SUBSET Executions /\ IsFiniteSet(R) /\ B \subseteq R /\ R \ B = (S \ B) \ {x}
    BY <2>1, FS_Subset
  <2>5. x \in Executions \ R /\ S = R \cup {x} /\ x.quantity \in Nat
    BY DEF Executions
  <2> HIDE DEF R
  <2>6. QuantityOf(B) <= QuantityOf(R)
    BY <1>2, <2>3, <2>4
  <2>7. QuantityOf(S) = QuantityOf(R) + x.quantity
    BY <2>4, <2>5, AddExecution
  <2>8. QuantityOf(R) \in Int /\ QuantityOf(B) \in Int
    BY <1>i, <2>4, FS_Subset
  <2> HIDE DEF T
  <2> QED
    BY <2>5, <2>6, <2>7, <2>8
<1>3. IsFiniteSet(A \ B)
  BY FS_Subset
<1>4. Cardinality(A \ B) \in Nat
  BY <1>3, FS_CardinalityType
<1>5. Cardinality(A \ B) \in T
  <2> HIDE DEF T
  <2> QED
    BY <1>1, <1>2, <1>4, Induction
<1> QED
  BY <1>i, <1>4, <1>5

-----------------------------------------------------------------------------
(* What was paid.                                                          *)

\* Scale times something that grows with every contract: sizes divide it.
LEMMA PaidInScale ==
  ASSUME NEW o \in Orders
  PROVE  \E paid \in [0..Size[o] -> Nat] :
           /\ paid[0] = 0
           /\ \A q \in 0..Size[o] : Notional(o, q) = Scale * paid[q]
           /\ \A p, q \in 0..Size[o] : p < q => paid[p] < paid[q]
<1> DEFINE f(q) == [k \in 1..q |-> Price[o][k]]
           paid == [q \in 0..Size[o] |-> Sum(f(q))]
<1>1. Size[o] \in Nat \ {0} /\ \A k \in 1..Size[o] : Price[o][k] \in Nat \ {0}
  BY ReplayAssumption
<1>2. \A q \in 0..Size[o] : IsFiniteSet(DOMAIN f(q)) /\ \A k \in DOMAIN f(q) : f(q)[k] \in Nat \ {0}
  <2> SUFFICES ASSUME NEW q \in 0..Size[o]
               PROVE  IsFiniteSet(1..q) /\ \A k \in 1..q : Price[o][k] \in Nat \ {0}
    OBVIOUS
  <2>1. q \in Int /\ 1 \in Int
    BY <1>1
  <2>2. IsFiniteSet(1..q)
    BY <2>1, FS_Interval
  <2> QED
    BY <1>1, <2>2
<1>3. Sum(f(0)) = 0
  <2> DEFINE g == f(0)
  <2>1. DOMAIN g = {} /\ IsFiniteSet(DOMAIN g) /\ \A k \in DOMAIN g : g[k] \in Int
    BY <1>2, FS_EmptySet
  <2> HIDE DEF g
  <2>2. Sum(g) = 0
    BY <2>1, SumPlus
  <2> QED
    BY <2>2 DEF g
<1>4. ASSUME NEW q \in 0..(Size[o] - 1)
      PROVE  Sum(f(q + 1)) = Price[o][q + 1] + Sum(f(q))
  <2> DEFINE g == f(q + 1)
  <2>1. /\ DOMAIN g = 1..(q + 1) /\ q + 1 \in DOMAIN g
        /\ g[q + 1] = Price[o][q + 1]
        /\ [y \in DOMAIN g \ {q + 1} |-> g[y]] = f(q)
    BY <1>1
  <2>2. IsFiniteSet(DOMAIN g) /\ \A k \in DOMAIN g : g[k] \in Int
    BY <1>1, <1>2
  <2> HIDE DEF g
  <2>3. \A x \in DOMAIN g : Sum(g) = g[x] + Sum([y \in DOMAIN g \ {x} |-> g[y]])
    BY <2>2, SumPlus
  <2>4. Sum(g) = g[q + 1] + Sum([y \in DOMAIN g \ {q + 1} |-> g[y]])
    BY <2>1, <2>3, Zenon
  <2> QED
    BY <2>1, <2>4, Zenon DEF g
<1>5. \A q \in 0..Size[o] : Sum(f(q)) \in Int
  <2> SUFFICES ASSUME NEW q \in 0..Size[o] PROVE Sum(f(q)) \in Int
    OBVIOUS
  <2> DEFINE g == f(q)
  <2>1. IsFiniteSet(DOMAIN g) /\ \A k \in DOMAIN g : g[k] \in Int
    BY <1>1, <1>2
  <2> HIDE DEF g
  <2>2. Sum(g) \in Int
    BY <2>1, SumPlus
  <2> QED
    BY <2>2 DEF g
<1>6. /\ paid[0] = 0
      /\ \A q \in 0..Size[o] : paid[q] \in Int /\ Notional(o, q) = Scale * paid[q]
      /\ \A q \in 0..(Size[o] - 1) : paid[q + 1] = Price[o][q + 1] + paid[q]
  <2>1. \A q \in 0..Size[o] : paid[q] = Sum(f(q)) /\ Notional(o, q) = Scale * Sum(f(q))
    BY DEF Notional, Sum
  <2>2. \A q \in 0..(Size[o] - 1) : q \in 0..Size[o] /\ q + 1 \in 0..Size[o]
    BY <1>1
  <2>3. 0 \in 0..Size[o]
    BY <1>1
  <2> HIDE DEF paid, f
  <2> QED
    BY <1>3, <1>4, <1>5, <2>1, <2>2, <2>3
<1>7. DOMAIN paid = 0..Size[o] /\ paid = [q \in 0..Size[o] |-> paid[q]]
  OBVIOUS
<1> HIDE DEF paid, f
<1>8. \A q \in 0..(Size[o] - 1) : paid[q] < paid[q + 1]
  BY <1>1, <1>6
<1> DEFINE T == {n \in Nat : n <= Size[o] => \A m \in 0..n : m < n => paid[m] < paid[n]}
<1>9. \A n \in Nat : n \in T
  <2>1. 0 \in T
    OBVIOUS
  <2>2. ASSUME NEW n \in Nat, n \in T PROVE n + 1 \in T
    <3> SUFFICES ASSUME n + 1 <= Size[o], NEW m \in 0..(n + 1), m < n + 1 PROVE paid[m] < paid[n + 1]
      OBVIOUS
    <3>1. n \in 0..(Size[o] - 1) /\ n \in 0..Size[o] /\ n + 1 \in 0..Size[o] /\ m \in 0..n /\ m \in 0..Size[o]
      BY <1>1
    <3>2. paid[n] < paid[n + 1] /\ paid[n] \in Int /\ paid[n + 1] \in Int /\ paid[m] \in Int
      BY <1>6, <1>8, <3>1
    <3>3. m < n => paid[m] < paid[n]
      BY <2>2, <3>1
    <3> QED
      BY <3>1, <3>2, <3>3
  <2> HIDE DEF T
  <2> QED
    BY <2>1, <2>2, Induction
<1>10. \A p, q \in 0..Size[o] : p < q => paid[p] < paid[q]
  <2> SUFFICES ASSUME NEW p \in 0..Size[o], NEW q \in 0..Size[o], p < q PROVE paid[p] < paid[q]
    OBVIOUS
  <2>1. q \in Nat /\ q <= Size[o] /\ p \in 0..q
    BY <1>1
  <2>2. q \in T
    BY <1>9, <2>1
  <2> QED
    BY <2>1, <2>2
<1>11. \A q \in 0..Size[o] : paid[q] >= 0
  <2> SUFFICES ASSUME NEW q \in 0..Size[o], q # 0 PROVE paid[q] >= 0
    BY <1>6
  <2>1. 0 \in 0..Size[o] /\ 0 < q
    BY <1>1
  <2> QED
    BY <1>6, <1>10, <2>1
<1>12. paid \in [0..Size[o] -> Nat]
  <2>1. \A q \in 0..Size[o] : paid[q] \in Nat
    BY <1>6, <1>11
  <2>2. [q \in 0..Size[o] |-> paid[q]] \in [0..Size[o] -> Nat]
    BY <2>1
  <2> QED
    BY <1>7, <2>2, Zenon
<1> QED
  BY <1>6, <1>10, <1>12

\* What its multiples of any number of contracts cost divides by that number.
LEMMA Divides ==
  ASSUME NEW s \in Nat \ {0}, NEW d \in Nat \ {0}, s % d = 0, NEW k \in Int
  PROVE  d * ((s * k) \div d) = s * k /\ (s * k) \div d \in Int /\ (k > 0 => (s * k) \div d > 0)
<1> DEFINE m == s \div d
<1>1. m \in Int /\ s = d * m
  BY SMT
<1>2. m > 0
  BY <1>1
<1> DEFINE x == m * k
<1>3. x \in Int /\ s * k = d * x /\ (k > 0 => x > 0)
  <2> HIDE DEF m
  <2> QED
    BY <1>1, <1>2
<1> HIDE DEF x
<1>4. (d * x) \div d = x
  BY <1>3
<1> QED
  BY <1>3, <1>4

\* The contracts after the first p, up to q, cost something that their number divides,
\* or any other number up to the order's size.
LEMMA Exact ==
  ASSUME NEW o \in Orders, NEW p \in 0..Size[o], NEW q \in 0..Size[o], p < q, NEW d \in 1..Size[o]
  PROVE  LET cost == Notional(o, q) - Notional(o, p)
         IN  /\ Notional(o, p) \in Nat /\ Notional(o, q) \in Nat /\ (p = 0 => Notional(o, p) = 0)
             /\ d * (cost \div d) = cost
             /\ cost \div d \in Int /\ cost \div d > 0
<1>0. Size[o] \in Nat \ {0} /\ Scale \in Nat \ {0} /\ Scale % d = 0 /\ d \in Nat \ {0}
  BY ReplayAssumption
<1>1. PICK paid \in [0..Size[o] -> Nat] :
         /\ paid[0] = 0
         /\ \A k \in 0..Size[o] : Notional(o, k) = Scale * paid[k]
         /\ \A k, m \in 0..Size[o] : k < m => paid[k] < paid[m]
  BY PaidInScale
<1> DEFINE a == paid[p]
           b == paid[q]
           n == b - a
<1>2. a \in Nat /\ b \in Nat /\ a < b /\ (p = 0 => a = 0)
      /\ Notional(o, p) = Scale * a /\ Notional(o, q) = Scale * b
  BY <1>1
<1> HIDE DEF a, b
<1>3. n \in Int /\ n > 0 /\ Scale * b - Scale * a = Scale * n
  BY <1>0, <1>2
<1>4. Scale * a \in Nat /\ Scale * b \in Nat /\ (a = 0 => Scale * a = 0)
  BY <1>0, <1>2
<1> HIDE DEF n
<1>5. d * ((Scale * n) \div d) = Scale * n /\ (Scale * n) \div d \in Int /\ (Scale * n) \div d > 0
  BY <1>0, <1>3, Divides
<1> QED
  BY <1>2, <1>3, <1>4, <1>5

\* The average of the first q contracts, times q, is what they cost.
LEMMA AverageIs ==
  ASSUME NEW o \in Orders, NEW q \in 1..Size[o]
  PROVE  /\ q * Average(o, q) = Notional(o, q) /\ Notional(o, q) \in Nat /\ Notional(o, 0) = 0
         /\ Average(o, q) \in Nat /\ Average(o, q) > 0
<1>1. 0 \in 0..Size[o] /\ q \in 0..Size[o] /\ 0 < q
  BY ReplayAssumption
<1>2. /\ Notional(o, 0) = 0 /\ Notional(o, q) \in Nat
      /\ q * ((Notional(o, q) - Notional(o, 0)) \div q) = Notional(o, q) - Notional(o, 0)
      /\ (Notional(o, q) - Notional(o, 0)) \div q \in Int
      /\ (Notional(o, q) - Notional(o, 0)) \div q > 0
  BY <1>1, Exact
<1>3. Notional(o, q) - Notional(o, 0) = Notional(o, q)
  BY <1>2
<1> QED
  BY <1>2, <1>3 DEF Average

-----------------------------------------------------------------------------
(* The market.                                                             *)

Market == fills \in Seq(Orders \X Nat) /\ MarketSound

LEMMA FillsAre ==
  ASSUME Market
  PROVE  /\ Now \in Nat
         /\ \A i \in 1..Now : fills[i] = <<fills[i][1], fills[i][2]>> /\ fills[i][1] \in Orders
         /\ \A o \in Orders : Executed(o) \in 0..Size[o] /\ Executed(o) \in Int
<1>1. Now \in Nat /\ \A i \in 1..Now : fills[i] \in Orders \X Nat
  BY DEF Market, Now
<1>2. \A o \in Orders : Executed(o) \in 0..Size[o] /\ Size[o] \in Nat \ {0}
  BY ReplayAssumption DEF Market, MarketSound
<1> QED
  BY <1>1, <1>2

\* A contract has one time, and those of an order follow each other.
LEMMA Times ==
  ASSUME Market, NEW o \in Orders
  PROVE  /\ \A k \in 1..Executed(o) : ExecutedAt(o, k) \in 1..Now /\ fills[ExecutedAt(o, k)] = <<o, k>>
         /\ \A k, m \in 1..Executed(o) : k <= m => ExecutedAt(o, k) <= ExecutedAt(o, m)
<1>1. ASSUME NEW k \in 1..Executed(o)
      PROVE  ExecutedAt(o, k) \in 1..Now /\ fills[ExecutedAt(o, k)] = <<o, k>>
  <2>1. \E i \in 1..Now : fills[i] = <<o, k>>
    BY DEF Market, MarketSound
  <2> QED
    BY <2>1 DEF ExecutedAt
<1>2. ASSUME NEW k \in 1..Executed(o), NEW m \in 1..Executed(o), k <= m
      PROVE  ExecutedAt(o, k) <= ExecutedAt(o, m)
  <2> DEFINE i == ExecutedAt(o, k)
             j == ExecutedAt(o, m)
  <2>1. i \in 1..Now /\ j \in 1..Now /\ fills[i] = <<o, k>> /\ fills[j] = <<o, m>>
    BY <1>1
  <2> HIDE DEF i, j
  <2>2. fills[i][1] = o /\ fills[j][1] = o /\ fills[i][2] = k /\ fills[j][2] = m
    BY <2>1
  <2>3. j < i => m < k
    BY <2>1, <2>2 DEF Market, MarketSound
  <2>4. i <= j
    BY <1>2, <2>1, <2>3, FillsAre
  <2> QED
    BY <2>4 DEF i, j
<1> QED
  BY <1>1, <1>2

\* An execution appends a contract and moves no other.
LEMMA OneMore ==
  ASSUME Market, NEW o \in Orders, Execute(o)
  PROVE  /\ Now' = Now + 1
         /\ \A i \in 1..Now : fills'[i] = fills[i]
         /\ fills'[Now + 1] = <<o, Executed(o) + 1>>
         /\ \A p \in Orders : Executed(p)' = IF p = o THEN Executed(p) + 1 ELSE Executed(p)
         /\ Market'
         /\ \A p \in Orders : \A k \in 1..Executed(p) : ExecutedAt(p, k)' = ExecutedAt(p, k)
<1>0. Size[o] \in Nat \ {0} /\ Executed(o) \in 0..Size[o] /\ Executed(o) < Size[o] /\ Now \in Nat
  BY FillsAre, ReplayAssumption DEF Execute
<1>1. /\ Now' = Now + 1 /\ \A i \in 1..Now : fills'[i] = fills[i]
      /\ fills'[Now + 1] = <<o, Executed(o) + 1>>
      /\ fills' \in Seq(Orders \X Nat)
  <2>1. fills' = Append(fills, <<o, Executed(o) + 1>>) /\ <<o, Executed(o) + 1>> \in Orders \X Nat
    BY <1>0 DEF Execute
  <2> QED
    BY <2>1 DEF Market, Now
<1>2. ASSUME NEW p \in Orders
      PROVE  Executed(p)' = IF p = o THEN Executed(p) + 1 ELSE Executed(p)
  <2> DEFINE S == {i \in 1..Now : fills[i][1] = p}
  <2>1. IsFiniteSet(S) /\ Now + 1 \notin S
    <3>1. IsFiniteSet(1..Now)
      BY <1>0, FS_Interval
    <3> QED
      BY <1>0, <3>1, FS_Subset
  <2>2. {i \in 1..Now' : fills'[i][1] = p} = IF p = o THEN S \cup {Now + 1} ELSE S
    BY <1>0, <1>1
  <2>3. Cardinality(S \cup {Now + 1}) = Cardinality(S) + 1
    <3> HIDE DEF S
    <3> QED
      BY <2>1, FS_AddElement
  <2>4. Executed(p) = Cardinality(S) /\ Executed(p)' = Cardinality({i \in 1..Now' : fills'[i][1] = p})
    BY DEF Executed
  <2> HIDE DEF S
  <2> QED
    BY <2>2, <2>3, <2>4
<1>3. MarketSound'
  <2>1. \A p \in Orders : Executed(p)' \in 0..Size[p]
    BY <1>0, <1>2, FillsAre
  <2>2. ASSUME NEW p \in Orders, NEW i \in 1..Now', fills'[i][1] = p
        PROVE  fills'[i][2] \in 1..Executed(p)'
    <3>1. CASE i = Now + 1
      <4>1. p = o /\ fills'[i][2] = Executed(o) + 1
        BY <1>1, <2>2, <3>1
      <4>2. Executed(p)' = Executed(o) + 1
        BY <1>2, <4>1
      <4> QED
        BY <1>0, <4>1, <4>2
    <3>2. CASE i # Now + 1
      <4>1. i \in 1..Now /\ fills'[i] = fills[i]
        BY <1>0, <1>1, <3>2
      <4>2. fills[i][2] \in 1..Executed(p)
        BY <2>2, <4>1 DEF Market, MarketSound
      <4> QED
        BY <1>2, <4>1, <4>2, FillsAre
    <3> QED
      BY <3>1, <3>2
  <2>3. ASSUME NEW p \in Orders, NEW k \in 1..Executed(p)' PROVE \E i \in 1..Now' : fills'[i] = <<p, k>>
    <3>1. CASE k \in 1..Executed(p)
      <4>1. PICK i \in 1..Now : fills[i] = <<p, k>>
        BY <3>1 DEF Market, MarketSound
      <4>2. i \in 1..Now' /\ fills'[i] = fills[i]
        BY <1>0, <1>1
      <4> QED
        BY <4>1, <4>2
    <3>2. CASE k \notin 1..Executed(p)
      <4>1. p = o /\ k = Executed(o) + 1
        BY <1>0, <1>2, <3>2, FillsAre
      <4>2. Now + 1 \in 1..Now'
        BY <1>0, <1>1
      <4> QED
        BY <1>1, <4>1, <4>2
    <3> QED
      BY <3>1, <3>2
  <2>4. ASSUME NEW i \in 1..Now', NEW j \in 1..Now', i < j, fills'[i][1] = fills'[j][1]
        PROVE  fills'[i][2] < fills'[j][2]
    <3>1. i \in 1..Now /\ fills'[i] = fills[i]
      BY <1>0, <1>1, <2>4
    <3>2. CASE j \in 1..Now
      BY <1>1, <2>4, <3>1, <3>2 DEF Market, MarketSound
    <3>3. CASE j \notin 1..Now
      <4>0. j = Now + 1
        BY <1>0, <1>1, <3>3
      <4>1. fills'[j][1] = o /\ fills'[j][2] = Executed(o) + 1
        BY <1>1, <4>0
      <4>2. fills[i][2] \in 1..Executed(o)
        BY <2>4, <3>1, <4>1 DEF Market, MarketSound
      <4> QED
        BY <1>0, <3>1, <4>1, <4>2
    <3> QED
      BY <3>2, <3>3
  <2> QED
    BY <2>1, <2>2, <2>3, <2>4 DEF MarketSound
<1>4. Market'
  BY <1>1, <1>3 DEF Market
<1>5. ASSUME NEW p \in Orders, NEW k \in 1..Executed(p) PROVE ExecutedAt(p, k)' = ExecutedAt(p, k)
  <2>1. \A i \in 1..Now' : fills'[i] = <<p, k>> => i \in 1..Now
    <3>1. fills'[Now + 1] # <<p, k>>
      BY <1>0, <1>1
    <3> QED
      BY <1>0, <1>1, <3>1
  <2>2. 1..Now \subseteq 1..Now'
    BY <1>0, <1>1
  <2>3. \A i : i \in 1..Now' /\ fills'[i] = <<p, k>> <=> i \in 1..Now /\ fills[i] = <<p, k>>
    BY <1>1, <2>1, <2>2
  <2>4. ExecutedAt(p, k)' = CHOOSE i \in 1..Now' : fills'[i] = <<p, k>>
    BY DEF ExecutedAt
  <2> QED
    BY <2>3, <2>4 DEF ExecutedAt
<1> QED
  BY <1>1, <1>2, <1>4, <1>5

-----------------------------------------------------------------------------
(* The replay of one order.                                                *)

LEMMA Extremes ==
  ASSUME NEW S \in SUBSET Nat, S # {}
  PROVE  /\ Min(S) \in S /\ \A y \in S : Min(S) <= y
         /\ \A n \in Nat : (\A y \in S : y <= n) => Max(S) \in S /\ \A y \in S : y <= Max(S)
<1>1. Min(S) \in S /\ \A y \in S : Min(S) <= y
  BY Least DEF Min
<1>2. ASSUME NEW n \in Nat, \A y \in S : y <= n
      PROVE  Max(S) \in S /\ \A y \in S : y <= Max(S)
  <2> DEFINE B == {m \in Nat : \A y \in S : y <= m}
  <2>1. B \in SUBSET Nat /\ B # {}
    BY <1>2
  <2>2. PICK m \in B : \A k \in B : m <= k
    BY <2>1, Least
  <2>3. m \in S
    <3> SUFFICES ASSUME m \notin S PROVE FALSE
      OBVIOUS
    <3>1. PICK y \in S : TRUE
      OBVIOUS
    <3>2. m # 0 /\ m - 1 \in Nat
      BY <3>1
    <3>3. m - 1 \in B
      BY <3>2
    <3> QED
      BY <2>2, <3>2, <3>3
  <2>4. \E x \in S : \A y \in S : x >= y
    BY <2>3
  <2>5. Max(S) \in S /\ \A y \in S : Max(S) >= y
    BY <2>4 DEF Max
  <2> QED
    BY <2>5
<1> QED
  BY <1>1, <1>2

\* The increment at a point; the last point up to n; the increments up to n.
Increment(o, q) ==
    [time |-> VouchedAt(o, q), order |-> o, cumulative |-> q, quantity |-> Take(o, q),
     price |-> IncrementPrice(o, q)]
LastPoint(o, n) == Max({0} \cup {p \in Points(o) : p <= n})
Upto(o, n) == {Increment(o, q) : q \in {p \in Points(o) : p <= n}}

LEMMA LastPoints ==
  ASSUME NEW o \in Orders
  PROVE  /\ LastPoint(o, 0) = 0
         /\ \A n \in Nat :
              /\ LastPoint(o, n) \in 0..n /\ LastPoint(o, n) \in {0} \cup Points(o)
              /\ LastPoint(o, n + 1) = IF n + 1 \in Points(o) THEN n + 1 ELSE LastPoint(o, n)
              /\ Before(o, n + 1) = LastPoint(o, n)
<1> DEFINE S(n) == {0} \cup {p \in Points(o) : p <= n}
<1>0. Points(o) \subseteq Nat \ {0}
  BY DEF Points
<1>1. ASSUME NEW n \in Nat
      PROVE  LastPoint(o, n) \in S(n) /\ \A y \in S(n) : y <= LastPoint(o, n)
  <2>1. S(n) \in SUBSET Nat /\ S(n) # {} /\ \A y \in S(n) : y <= n
    BY <1>0
  <2>2. LastPoint(o, n) = Max(S(n))
    BY DEF LastPoint
  <2> DEFINE G == S(n)
  <2> HIDE DEF S, G
  <2>3. Max(G) \in G /\ \A y \in G : y <= Max(G)
    <3>1. G \in SUBSET Nat /\ G # {} /\ \A y \in G : y <= n
      BY <2>1 DEF G
    <3> QED
      BY <3>1, Extremes
  <2> QED
    BY <2>2, <2>3 DEF G
<1>2. \A n \in Nat : LastPoint(o, n) \in 0..n /\ LastPoint(o, n) \in {0} \cup Points(o)
  BY <1>0, <1>1
<1>3. LastPoint(o, 0) = 0
  BY <1>2
<1>4. ASSUME NEW n \in Nat
      PROVE  /\ LastPoint(o, n + 1) = IF n + 1 \in Points(o) THEN n + 1 ELSE LastPoint(o, n)
             /\ Before(o, n + 1) = LastPoint(o, n)
  <2>0. Before(o, n + 1) = LastPoint(o, n)
    <3>1. {p \in Points(o) : p < n + 1} = {p \in Points(o) : p <= n}
      BY <1>0
    <3> QED
      BY <3>1 DEF Before, LastPoint
  <2>1. CASE n + 1 \in Points(o)
    <3>1. n + 1 \in S(n + 1) /\ n + 1 \in Nat
      BY <2>1
    <3>2. LastPoint(o, n + 1) \in 0..(n + 1) /\ n + 1 <= LastPoint(o, n + 1)
      BY <1>1, <1>2, <3>1
    <3> QED
      BY <2>0, <2>1, <3>2
  <2>2. CASE n + 1 \notin Points(o)
    <3>1. {p \in Points(o) : p <= n + 1} = {p \in Points(o) : p <= n}
      BY <1>0, <2>2
    <3> QED
      BY <2>0, <2>2, <3>1 DEF LastPoint
  <2> QED
    BY <2>1, <2>2
<1> QED
  BY <1>2, <1>3, <1>4

\* What the invariant says of one order, in one place.
OrderSound(o) ==
    /\ Market /\ RowSound(o) /\ SeenSound(o)
    /\ row[o] \in OrderRow /\ row[o].executedQuantity \in 0..Size[o]
    /\ seen[o] \in [1..Size[o] -> Observation \cup {Null}]

LEMMA InvOfOrder ==
  ASSUME ReplayInv, NEW o \in Orders
  PROVE  OrderSound(o)
<1>1. row[o] \in OrderRow
  BY DEF ReplayInv, TypeOK
<1>2. row[o].executedQuantity \in 0..Size[o]
  BY <1>1, ReplayAssumption DEF ReplayInv, TypeOK, OrderRow
<1> QED
  BY <1>1, <1>2 DEF ReplayInv, TypeOK, OrderSound, Market

\* The row vouches for its watermark, and every point is below it.
LEMMA AuthorityIs ==
  ASSUME NEW o \in Orders, OrderSound(o)
  PROVE  /\ Authority(o) = row[o].executedQuantity
         /\ \A q \in Points(o) : q \in 1..row[o].executedQuantity /\ q \in 1..Executed(o)
<1> DEFINE w == row[o].executedQuantity
<1>0. w \in 0..Size[o] /\ Size[o] \in Nat \ {0} /\ w <= Executed(o) /\ Executed(o) \in 0..Size[o]
      /\ row[o].quantity = Size[o]
  BY ReplayAssumption, FillsAre DEF OrderSound, RowSound
<1>1. Authority(o) = w
  <2>1. CASE w = 0
    <3>1. row[o].filledPrice = Null
      BY <2>1 DEF OrderSound, RowSound
    <3>2. ~IsFill(row[o])
      BY <3>1 DEF IsFill
    <3> QED
      BY <2>1, <3>2 DEF Authority, Larger
  <2>2. CASE w # 0
    <3>1. row[o].filledQuantity = w \/ (row[o].filledQuantity = Null /\ w = Size[o])
      BY <2>2 DEF OrderSound, RowSound, Tells
    <3>2. Filled(row[o].quantity, row[o].filledQuantity) = w
      BY <1>0, <3>1, ReplayAssumption DEF Filled
    <3> QED
      BY <1>0, <3>2 DEF Authority, Larger
  <2> QED
    BY <2>1, <2>2
<1>2. ASSUME NEW q \in Points(o) PROVE q \in 1..w /\ q \in 1..Executed(o)
  <2>1. q \in 1..Size[o] /\ q <= w
    BY DEF Points, OrderSound, SeenSound
  <2> QED
    BY <1>0, <2>1
<1> QED
  BY <1>1, <1>2

\* An increment is what was executed since the point before it, at what it cost.
LEMMA IncrementIs ==
  ASSUME NEW o \in Orders, OrderSound(o), NEW q \in Points(o)
  PROVE  LET e == Increment(o, q)
             p == Before(o, q)
         IN  /\ e \in Executions /\ e.cumulative = q
             /\ p \in 0..(q - 1) /\ Take(o, q) = q - p
             /\ e.quantity = q - p
             /\ e.quantity * e.price = Notional(o, q) - Notional(o, p)
             /\ Notional(o, q) \in Int /\ Notional(o, p) \in Int
             /\ e.time \in ExecutedAt(o, q)..Now
             /\ \A m \in Points(o) : q <= m => e.time <= seen[o][m].time
<1> DEFINE e == Increment(o, q)
           p == Before(o, q)
           w == row[o].executedQuantity
<1>0. q \in 1..w /\ w \in 0..Size[o] /\ Size[o] \in Nat \ {0} /\ Authority(o) = w /\ q \in 1..Size[o]
  BY ReplayAssumption, AuthorityIs DEF OrderSound
<1>1. p \in 0..(q - 1) /\ p \in {0} \cup Points(o)
  <2>1. q - 1 \in Nat /\ (q - 1) + 1 = q
    BY <1>0
  <2> QED
    BY <2>1, LastPoints
<1>2. Take(o, q) = q - p
  <2> HIDE DEF p
  <2> QED
    BY <1>0, <1>1 DEF Take, Smaller, p
<1>5. \A k \in Points(o) : k * seen[o][k].avgPrice = Notional(o, k)
  <2> SUFFICES ASSUME NEW k \in Points(o) PROVE k * seen[o][k].avgPrice = Notional(o, k)
    OBVIOUS
  <2>1. k \in 1..Size[o] /\ seen[o][k].avgPrice = Average(o, k)
    BY DEF Points, OrderSound, SeenSound
  <2> QED
    BY <2>1, AverageIs
<1>6. p \in 0..Size[o] /\ q \in 0..Size[o] /\ p < q /\ q - p \in 1..Size[o]
  BY <1>0, <1>1
<1>7. (IF p = 0 THEN 0 ELSE p * seen[o][p].avgPrice) = Notional(o, p)
  <2>1. CASE p = 0
    BY <1>0, <2>1, AverageIs
  <2>2. CASE p # 0
    BY <1>1, <1>5, <2>2
  <2> QED
    BY <2>1, <2>2
<1> DEFINE cost == Notional(o, q) - Notional(o, p)
<1>8. /\ (q - p) * IncrementPrice(o, q) = cost /\ IncrementPrice(o, q) \in Int
      /\ Notional(o, q) \in Int /\ Notional(o, p) \in Int
  <2> DEFINE derived == (q * seen[o][q].avgPrice - (IF p = 0 THEN 0 ELSE p * seen[o][p].avgPrice))
                          \div (q - p)
  <2>1. derived = cost \div (q - p)
    BY <1>5, <1>7
  <2>2. (q - p) * (cost \div (q - p)) = cost /\ cost \div (q - p) > 0 /\ cost \div (q - p) \in Int
        /\ Notional(o, q) \in Int /\ Notional(o, p) \in Int
    <3> HIDE DEF p
    <3> QED
      BY <1>6, Exact
  <2>3. IncrementPrice(o, q) = IF p > 0 /\ derived <= 0 THEN seen[o][q].avgPrice ELSE derived
    BY DEF IncrementPrice
  <2> HIDE DEF derived
  <2>4. IncrementPrice(o, q) = derived
    BY <2>1, <2>2, <2>3
  <2> QED
    BY <2>1, <2>2, <2>4
<1>9. /\ VouchedAt(o, q) \in ExecutedAt(o, q)..Now /\ VouchedAt(o, q) \in Nat
      /\ \A m \in Points(o) : q <= m => VouchedAt(o, q) <= seen[o][m].time
  <2> DEFINE T == {seen[o][m].time : m \in {m \in Points(o) : m >= q}}
  <2>1. ASSUME NEW m \in Points(o), m >= q
        PROVE  seen[o][m].time \in ExecutedAt(o, q)..Now /\ ExecutedAt(o, q) \in 1..Now
    <3>1. q \in 1..Executed(o) /\ m \in 1..Executed(o) /\ q <= m
      BY <2>1, AuthorityIs
    <3>2. /\ ExecutedAt(o, q) <= ExecutedAt(o, m)
          /\ ExecutedAt(o, q) \in 1..Now /\ ExecutedAt(o, m) \in 1..Now
      BY <3>1, Times DEF OrderSound
    <3>3. seen[o][m].time \in ExecutedAt(o, m)..Now /\ Now \in Nat
      BY FillsAre DEF OrderSound, SeenSound
    <3> QED
      BY <3>2, <3>3
  <2>2. Now \in Nat /\ q >= q
    BY <1>0, FillsAre DEF OrderSound
  <2>3. T \in SUBSET Nat /\ T # {} /\ T \subseteq ExecutedAt(o, q)..Now
    BY <2>1, <2>2
  <2>4. VouchedAt(o, q) = Min(T)
    BY DEF VouchedAt
  <2>5. Min(T) \in T /\ \A y \in T : Min(T) <= y
    <3> HIDE DEF T
    <3> QED
      BY <2>3, Extremes
  <2>6. \A m \in Points(o) : q <= m => seen[o][m].time \in T
    BY <1>0, AuthorityIs
  <2> HIDE DEF T
  <2> QED
    BY <2>3, <2>4, <2>5, <2>6
<1>10. e \in Executions
  <2>1. q \in Nat /\ q - p \in Nat /\ o \in Int /\ Take(o, q) \in Nat
    BY <1>0, <1>1, <1>2, ReplayAssumption
  <2> HIDE DEF p
  <2> QED
    BY <1>8, <1>9, <2>1 DEF Increment, Executions
<1>12. e.quantity = q - p /\ e.price = IncrementPrice(o, q) /\ e.time = VouchedAt(o, q) /\ e.cumulative = q
  BY <1>2 DEF Increment
<1> QED
  BY <1>1, <1>2, <1>8, <1>9, <1>10, <1>12

\* The increments up to n are the contracts up to the last point, and their cost.
LEMMA UptoIs ==
  ASSUME NEW o \in Orders, OrderSound(o)
  PROVE  \A n \in 0..Size[o] :
           /\ IsFiniteSet(Upto(o, n)) /\ Upto(o, n) \in SUBSET Executions
           /\ QuantityOf(Upto(o, n)) = LastPoint(o, n)
           /\ CostOf(Upto(o, n)) = Notional(o, LastPoint(o, n))
<1> DEFINE P(n) == /\ IsFiniteSet(Upto(o, n)) /\ Upto(o, n) \in SUBSET Executions
                   /\ QuantityOf(Upto(o, n)) = LastPoint(o, n)
                   /\ CostOf(Upto(o, n)) = Notional(o, LastPoint(o, n))
<1>0. Points(o) \subseteq 1..Size[o] /\ Size[o] \in Nat \ {0}
  BY ReplayAssumption DEF Points
<1>1. P(0)
  <2>1. Upto(o, 0) = {}
    BY <1>0 DEF Upto
  <2>2. IsFiniteSet({}) /\ {} \in SUBSET Executions
    BY FS_EmptySet
  <2>3. [time |-> 0, order |-> 0, cumulative |-> 0, quantity |-> 0, price |-> 0] \in Executions \ {}
    BY DEF Executions
  <2>4. QuantityOf({}) = 0 /\ CostOf({}) = 0
    BY <2>2, <2>3, AddExecution
  <2>5. Notional(o, 0) = 0
    <3>1. 1 \in 1..Size[o]
      BY <1>0
    <3> QED
      BY <3>1, AverageIs
  <2> QED
    BY <2>1, <2>2, <2>4, <2>5, LastPoints
<1>2. ASSUME NEW n \in 0..(Size[o] - 1), P(n) PROVE P(n + 1)
  <2>0. n \in Nat /\ LastPoint(o, n) \in 0..n /\ Before(o, n + 1) = LastPoint(o, n)
        /\ LastPoint(o, n + 1) = IF n + 1 \in Points(o) THEN n + 1 ELSE LastPoint(o, n)
    <3>1. n \in Nat
      BY <1>0
    <3> QED
      BY <3>1, LastPoints
  <2>1. CASE n + 1 \in Points(o)
    <3> DEFINE e == Increment(o, n + 1)
    <3>1. Upto(o, n + 1) = Upto(o, n) \cup {e}
      <4>1. {p \in Points(o) : p <= n + 1} = {p \in Points(o) : p <= n} \cup {n + 1}
        BY <1>0, <2>0, <2>1
      <4> QED
        BY <4>1 DEF Upto
    <3>2. /\ e \in Executions /\ e.cumulative = n + 1
          /\ e.quantity = (n + 1) - LastPoint(o, n)
          /\ e.quantity * e.price = Notional(o, n + 1) - Notional(o, LastPoint(o, n))
          /\ Notional(o, n + 1) \in Int /\ Notional(o, LastPoint(o, n)) \in Int
      BY <2>0, <2>1, IncrementIs
    <3>3. e \notin Upto(o, n)
      <4>1. \A x \in Upto(o, n) : x.cumulative <= n
        BY DEF Upto, Increment
      <4> QED
        BY <2>0, <3>2, <4>1
    <3> HIDE DEF e
    <3>4. /\ QuantityOf(Upto(o, n) \cup {e}) = QuantityOf(Upto(o, n)) + e.quantity
          /\ CostOf(Upto(o, n) \cup {e}) = CostOf(Upto(o, n)) + e.quantity * e.price
      BY <1>2, <3>2, <3>3, AddExecution
    <3>5. IsFiniteSet(Upto(o, n) \cup {e}) /\ Upto(o, n) \cup {e} \in SUBSET Executions
      BY <1>2, <3>2, FS_AddElement
    <3>6. QuantityOf(Upto(o, n + 1)) = n + 1
      <4>1. QuantityOf(Upto(o, n + 1)) = LastPoint(o, n) + ((n + 1) - LastPoint(o, n))
        BY <1>2, <3>1, <3>2, <3>4
      <4> QED
        BY <2>0, <4>1
    <3>7. CostOf(Upto(o, n + 1)) = Notional(o, n + 1)
      <4>1. CostOf(Upto(o, n + 1))
              = Notional(o, LastPoint(o, n)) + (Notional(o, n + 1) - Notional(o, LastPoint(o, n)))
        BY <1>2, <3>1, <3>2, <3>4
      <4> QED
        BY <3>2, <4>1
    <3>8. LastPoint(o, n + 1) = n + 1
      BY <2>0, <2>1
    <3> QED
      BY <3>1, <3>5, <3>6, <3>7, <3>8
  <2>2. CASE n + 1 \notin Points(o)
    <3>1. {p \in Points(o) : p <= n + 1} = {p \in Points(o) : p <= n}
      BY <1>0, <2>0, <2>2
    <3>2. Upto(o, n + 1) = Upto(o, n)
      BY <3>1 DEF Upto
    <3> QED
      BY <1>2, <2>0, <2>2, <3>2
  <2> QED
    BY <2>1, <2>2
<1> HIDE DEF P
<1> DEFINE T == {n \in Nat : n <= Size[o] => P(n)}
<1>3. 0 \in T
  BY <1>1
<1>4. ASSUME NEW n \in Nat, n \in T PROVE n + 1 \in T
  <2> SUFFICES ASSUME n + 1 <= Size[o] PROVE P(n + 1)
    OBVIOUS
  <2>1. n \in 0..(Size[o] - 1) /\ n <= Size[o]
    BY <1>0
  <2>2. P(n)
    BY <1>4, <2>1
  <2> QED
    BY <1>2, <2>1, <2>2
<1>5. \A n \in Nat : n \in T
  <2> HIDE DEF T
  <2> QED
    BY <1>3, <1>4, Induction
<1>6. \A n \in 0..Size[o] : P(n)
  BY <1>0, <1>5
<1> QED
  BY <1>6 DEF P

LEMMA IncrementsAre ==
  ASSUME NEW o \in Orders, OrderSound(o)
  PROVE  /\ Increments(o) = {Increment(o, q) : q \in Points(o)}
         /\ Increments(o) = Upto(o, Size[o])
         /\ \A n : Upto(o, n) \subseteq Increments(o)
<1>1. \A q \in Points(o) : Take(o, q) > 0 /\ q <= Size[o]
  <2> SUFFICES ASSUME NEW q \in Points(o) PROVE Take(o, q) > 0 /\ q <= Size[o]
    OBVIOUS
  <2>1. Before(o, q) \in 0..(q - 1) /\ Take(o, q) = q - Before(o, q)
    BY IncrementIs
  <2>2. q \in 1..Size[o] /\ Size[o] \in Int
    BY ReplayAssumption DEF Points
  <2> QED
    BY <2>1, <2>2
<1>2. {p \in Points(o) : Take(o, p) > 0} = Points(o) /\ {p \in Points(o) : p <= Size[o]} = Points(o)
  BY <1>1
<1>3. Increments(o) = {Increment(o, q) : q \in Points(o)}
  BY <1>2 DEF Increments, Increment
<1>4. Upto(o, Size[o]) = {Increment(o, q) : q \in Points(o)}
  BY <1>2 DEF Upto
<1> QED
  BY <1>3, <1>4 DEF Upto

\* An execution stands for contracts of an order in a row, at what they cost.
Stretch(o, e) ==
    /\ e.order = o
    /\ \E p, q \in 0..Size[o] :
         p < q /\ e.quantity = q - p /\ e.quantity * e.price = Notional(o, q) - Notional(o, p)

\* The remainder brings the book to the watermark, at the broker's average.
LEMMA ReplayOfOrder ==
  ASSUME NEW o \in Orders, OrderSound(o)
  PROVE  LET mine == Increments(o) \cup Remainder(o)
             w == row[o].executedQuantity
         IN  /\ mine \in SUBSET Executions /\ IsFiniteSet(mine)
             /\ QuantityOf(mine) = w
             /\ CostOf(mine) = Notional(o, w)
             /\ (w \in Points(o) \/ w = 0) => Remainder(o) = {}
             /\ \A e \in mine : Stretch(o, e)
             /\ \A e, f \in mine : e.cumulative = f.cumulative => e = f
<1> DEFINE w == row[o].executedQuantity
           I == Increments(o)
           c == Covered(o)
<1>0. w \in 0..Size[o] /\ Size[o] \in Nat \ {0} /\ Authority(o) = w
  BY ReplayAssumption, AuthorityIs DEF OrderSound
<1>1. /\ I \in SUBSET Executions /\ IsFiniteSet(I) /\ QuantityOf(I) = c /\ CostOf(I) = Notional(o, c)
      /\ c = LastPoint(o, Size[o]) /\ c \in 0..Size[o] /\ c \in {0} \cup Points(o)
  <2>1. Size[o] \in 0..Size[o] /\ Size[o] \in Nat
    BY <1>0
  <2>2. I = Upto(o, Size[o])
    BY IncrementsAre
  <2>3. c = QuantityOf(I)
    BY DEF Covered
  <2>4. /\ IsFiniteSet(Upto(o, Size[o])) /\ Upto(o, Size[o]) \in SUBSET Executions
        /\ QuantityOf(Upto(o, Size[o])) = LastPoint(o, Size[o])
        /\ CostOf(Upto(o, Size[o])) = Notional(o, LastPoint(o, Size[o]))
    BY <2>1, UptoIs
  <2>5. LastPoint(o, Size[o]) \in 0..Size[o] /\ LastPoint(o, Size[o]) \in {0} \cup Points(o)
    BY <2>1, LastPoints
  <2> HIDE DEF I, c
  <2> QED
    BY <2>2, <2>3, <2>4, <2>5
<1>2. c \in 0..w
  BY <1>0, <1>1, AuthorityIs
<1>3. \A q \in Points(o) : q <= c
  <2> SUFFICES ASSUME NEW q \in Points(o) PROVE q <= c
    OBVIOUS
  <2>1. Increment(o, q) \in Upto(o, q) /\ q \in 0..Size[o] /\ q \in Nat /\ q - 1 \in Nat /\ (q - 1) + 1 = q
    BY <1>0, AuthorityIs DEF Upto
  <2>2. LastPoint(o, q) = q
    BY <2>1, LastPoints
  <2>3. QuantityOf(Upto(o, q)) = q
    BY <2>1, <2>2, UptoIs
  <2>4. Upto(o, q) \in SUBSET Executions /\ Upto(o, q) \subseteq I
    BY <2>1, UptoIs, IncrementsAre
  <2>5. QuantityOf(Upto(o, q)) <= QuantityOf(I)
    <3> HIDE DEF I
    <3> QED
      BY <1>1, <2>4, MoreExecutions
  <2> HIDE DEF I, c
  <2> QED
    BY <1>1, <2>3, <2>5
<1>i. /\ \A e \in I : Stretch(o, e) /\ e.cumulative \in Points(o)
      /\ \A e, f \in I : e.cumulative = f.cumulative => e = f
  <2>1. ASSUME NEW q \in Points(o)
        PROVE  Stretch(o, Increment(o, q)) /\ Increment(o, q).cumulative = q
    <3>1. /\ Before(o, q) \in 0..(q - 1) /\ Increment(o, q).quantity = q - Before(o, q)
          /\ Increment(o, q).quantity * Increment(o, q).price = Notional(o, q) - Notional(o, Before(o, q))
      BY IncrementIs
    <3>2. q \in 1..Size[o]
      BY DEF Points
    <3>3. Before(o, q) \in 0..Size[o] /\ q \in 0..Size[o] /\ Before(o, q) < q
      BY <1>0, <3>1, <3>2
    <3>4. Increment(o, q).order = o /\ Increment(o, q).cumulative = q
      BY DEF Increment
    <3> QED
      BY <3>1, <3>3, <3>4 DEF Stretch
  <2>2. I = {Increment(o, q) : q \in Points(o)}
    BY IncrementsAre
  <2> HIDE DEF I
  <2> QED
    BY <2>1, <2>2
<1>4. CASE w = c
  <2>1. Remainder(o) = {}
    BY <1>0, <1>2, <1>4 DEF Remainder
  <2>2. I \cup Remainder(o) = I
    BY <2>1
  <2> HIDE DEF I, c, w
  <2> QED
    BY <1>1, <1>4, <1>i, <2>1, <2>2 DEF I, w
<1>5. CASE w # c
  <2>0. w > c /\ w \in 1..Size[o] /\ c \in Int /\ w \notin Points(o)
    BY <1>0, <1>2, <1>3, <1>5
  <2>1. row[o].filledPrice = Average(o, w)
    BY <2>0 DEF OrderSound, RowSound, Tells
  <2>2. w \in 0..Size[o] /\ c \in 0..Size[o] /\ c < w /\ w - c \in 1..Size[o]
    <3> HIDE DEF c, w
    <3> QED
      BY <1>0, <1>1, <1>2, <2>0
  <2>3. w * row[o].filledPrice = Notional(o, w) /\ row[o].filledPrice \in Int
    BY <2>0, <2>1, AverageIs
  <2> DEFINE cost == Notional(o, w) - Notional(o, c)
  <2>4. /\ Notional(o, w) \in Int /\ Notional(o, c) \in Int
        /\ (w - c) * (cost \div (w - c)) = cost /\ cost \div (w - c) \in Int /\ cost \div (w - c) > 0
    <3> HIDE DEF w, c
    <3> QED
      BY <2>2, Exact
  <2>5. (w - c) * Residual(o) = cost /\ Residual(o) \in Int
    <3> DEFINE price == (w * row[o].filledPrice - CostOf(I)) \div (w - c)
    <3>1. price = cost \div (w - c)
      BY <1>1, <2>3
    <3>2. Residual(o) = IF price > 0 THEN price ELSE row[o].filledPrice
      BY <1>0 DEF Residual
    <3> HIDE DEF price
    <3>3. Residual(o) = price
      BY <2>4, <3>1, <3>2
    <3> QED
      BY <2>4, <3>1, <3>3
  <2> DEFINE at == IF row[o].filledAt = Null THEN 0 ELSE row[o].filledAt
             e == [time |-> at, order |-> o, cumulative |-> w, quantity |-> w - c, price |-> Residual(o)]
  <2>6. row[o].filledPrice # Null
    BY <2>3, ReplayAssumption
  <2>7. Remainder(o) = {e}
    BY <1>0, <2>0, <2>6 DEF Remainder
  <2>8. e \in Executions /\ e.quantity = w - c /\ e.price = Residual(o) /\ e.cumulative = w
    <3>1. at \in Nat
      BY DEF OrderSound, OrderRow
    <3>2. w \in Nat /\ w - c \in Nat /\ o \in Int
      BY <1>0, <2>0, ReplayAssumption
    <3> HIDE DEF at, w, c
    <3> QED
      BY <2>5, <3>1, <3>2 DEF Executions
  <2>9. e \notin I
    <3>1. \A x \in I : x.cumulative \in Points(o)
      BY IncrementsAre DEF Increment
    <3> HIDE DEF I, e
    <3> QED
      BY <2>0, <2>8, <3>1
  <2> HIDE DEF e, I
  <2>10. /\ QuantityOf(I \cup {e}) = QuantityOf(I) + e.quantity
         /\ CostOf(I \cup {e}) = CostOf(I) + e.quantity * e.price
    BY <1>1, <2>8, <2>9, AddExecution
  <2>11. I \cup {e} \in SUBSET Executions /\ IsFiniteSet(I \cup {e})
    BY <1>1, <2>8, FS_AddElement
  <2>12. QuantityOf(I \cup {e}) = w
    <3> HIDE DEF w, c
    <3> QED
      BY <1>0, <1>1, <2>0, <2>8, <2>10
  <2>13. CostOf(I \cup {e}) = Notional(o, w)
    <3>1. CostOf(I \cup {e}) = Notional(o, c) + cost
      BY <1>1, <2>5, <2>8, <2>10
    <3> HIDE DEF w, c
    <3> QED
      BY <2>4, <3>1
  <2>14. ~(w \in Points(o) \/ w = 0)
    BY <2>0
  <2>15. Stretch(o, e)
    <3>1. e.order = o /\ e.quantity * e.price = cost
      BY <2>5 DEF e
    <3> HIDE DEF w, c
    <3> QED
      BY <2>2, <2>8, <3>1 DEF Stretch
  <2>16. \A x, y \in I \cup {e} : x.cumulative = y.cumulative => x = y
    <3>1. e.cumulative \notin Points(o)
      BY <2>0, <2>8
    <3> QED
      BY <1>i, <3>1
  <2>17. \A x \in I \cup {e} : Stretch(o, x)
    BY <1>i, <2>15
  <2> QED
    BY <2>7, <2>11, <2>12, <2>13, <2>14, <2>16, <2>17 DEF I
<1> QED
  BY <1>4, <1>5

LEMMA InvIsReplayed ==
  ASSUME ReplayInv
  PROVE  ReplayedInFull
<1> SUFFICES ASSUME NEW o \in Orders
             PROVE  /\ row[o].executedQuantity <= Executed(o)
                    /\ QuantityOf(Increments(o) \cup Remainder(o)) = row[o].executedQuantity
                    /\ CostOf(Increments(o) \cup Remainder(o)) = Notional(o, row[o].executedQuantity)
  BY DEF ReplayedInFull
<1>1. OrderSound(o)
  BY InvOfOrder
<1>2. row[o].executedQuantity <= Executed(o)
  BY <1>1 DEF OrderSound, RowSound
<1> QED
  BY <1>1, <1>2, ReplayOfOrder

LEMMA InvIsPlaced ==
  ASSUME ReplayInv
  PROVE  PlacedWhenReported
<1> SUFFICES ASSUME NEW o \in Orders
             PROVE  /\ \A q \in Points(o) :
                         QuantityOf({e \in Increments(o) \cup Remainder(o) : e.time <= seen[o][q].time}) >= q
                    /\ \A e \in Increments(o) : e.time >= ExecutedAt(o, e.cumulative)
  BY DEF PlacedWhenReported
<1>0. OrderSound(o)
  BY InvOfOrder
<1>1. ASSUME NEW q \in Points(o)
      PROVE  QuantityOf({e \in Increments(o) \cup Remainder(o) : e.time <= seen[o][q].time}) >= q
  <2> DEFINE M == Increments(o) \cup Remainder(o)
             A == {e \in M : e.time <= seen[o][q].time}
             B == Upto(o, q)
  <2>1. q \in 0..Size[o] /\ q \in Nat /\ q - 1 \in Nat /\ (q - 1) + 1 = q
    BY DEF Points
  <2>2. QuantityOf(B) = q /\ B \in SUBSET Executions
    <3>1. LastPoint(o, q) = q
      BY <2>1, LastPoints
    <3> QED
      BY <1>0, <2>1, <3>1, UptoIs
  <2>3. M \in SUBSET Executions /\ IsFiniteSet(M)
    BY <1>0, ReplayOfOrder
  <2>4. ASSUME NEW e \in B PROVE e \in A
    <3>1. PICK p \in Points(o) : p <= q /\ e = Increment(o, p)
      BY DEF Upto
    <3>2. e.time <= seen[o][q].time
      BY <1>0, <3>1, IncrementIs
    <3>3. e \in M
      BY <1>0, IncrementsAre
    <3> QED
      BY <3>2, <3>3
  <2>5. B \subseteq A /\ A \in SUBSET Executions /\ IsFiniteSet(A)
    BY <2>3, <2>4, FS_Subset
  <2> HIDE DEF A, B, M
  <2>6. QuantityOf(B) <= QuantityOf(A) /\ QuantityOf(A) \in Int
    BY <2>2, <2>5, MoreExecutions
  <2>7. QuantityOf(A) >= q
    BY <2>1, <2>2, <2>6
  <2> QED
    BY <2>7 DEF A, M
<1>2. ASSUME NEW e \in Increments(o) PROVE e.time >= ExecutedAt(o, e.cumulative)
  <2>1. PICK q \in Points(o) : e = Increment(o, q)
    BY <1>0, IncrementsAre
  <2>2. e.cumulative = q /\ e.time \in ExecutedAt(o, q)..Now
    BY <1>0, <2>1, IncrementIs
  <2>3. ExecutedAt(o, q) \in Int
    BY <1>0, AuthorityIs, Times DEF OrderSound
  <2> QED
    BY <2>2, <2>3, FillsAre, <1>0 DEF OrderSound
<1> QED
  BY <1>1, <1>2

-----------------------------------------------------------------------------
(* The invariant.                                                          *)

LEMMA Still ==
  ASSUME UNCHANGED fills
  PROVE  /\ Now' = Now
         /\ \A o : Executed(o)' = Executed(o)
         /\ \A o, k : ExecutedAt(o, k)' = ExecutedAt(o, k)
         /\ MarketSound => MarketSound'
<1>1. Now' = Now
  BY DEF Now
<1>2. \A o : Executed(o)' = Executed(o)
  BY <1>1 DEF Executed
<1>3. \A o, k : ExecutedAt(o, k)' = ExecutedAt(o, k)
  BY <1>1 DEF ExecutedAt
<1>4. MarketSound => MarketSound'
  BY <1>1, <1>2 DEF MarketSound
<1> QED
  BY <1>1, <1>2, <1>3, <1>4

LEMMA InvInit ==
  ASSUME Init
  PROVE  ReplayInv
<1>1. Now = 0 /\ \A o \in Orders : Executed(o) = 0
  <2>1. Now = 0
    BY DEF Init, Now
  <2>2. ASSUME NEW o \in Orders PROVE Executed(o) = 0
    <3>1. {i \in 1..Now : fills[i][1] = o} = {}
      BY <2>1
    <3> QED
      BY <3>1, FS_EmptySet DEF Executed
  <2> QED
    BY <2>1, <2>2
<1>2. \A o \in Orders : Points(o) = {} /\ Size[o] \in Nat \ {0} /\ row[o] = NoFills(o)
  BY ReplayAssumption DEF Init, Points
<1>3. TypeOK
  <2>1. \A o \in Orders : NoFills(o) \in OrderRow /\ NoFills(o).executedQuantity = 0 /\ NoFills(o).filledAt = Null
    <3> SUFFICES ASSUME NEW o \in Orders
                 PROVE  NoFills(o) \in OrderRow /\ NoFills(o).executedQuantity = 0 /\ NoFills(o).filledAt = Null
      OBVIOUS
    <3>1. Size[o] \in Nat
      BY <1>2
    <3> QED
      BY <3>1 DEF NoFills, OrderRow
  <2>2. row \in [Orders -> OrderRow]
    BY <2>1 DEF Init
  <2>3. Idle \in Call
    BY DEF Idle, Call
  <2>4. call \in [Reporters -> Call]
    BY <2>3 DEF Init
  <2>5. fills \in Seq(Orders \X Nat)
    BY DEF Init
  <2>6. \A o \in Orders : seen[o] \in [1..Size[o] -> Observation \cup {Null}]
    BY DEF Init
  <2>7. closed \subseteq Orders /\ stamps \in BOOLEAN
        /\ seen = [o \in Orders |-> seen[o]]
    BY DEF Init
  <2>8. \A o \in Orders : row[o].executedQuantity <= Size[o] /\ row[o].filledAt = Null
    BY <1>2, <2>1
  <2> QED
    BY <1>2, <2>2, <2>4, <2>5, <2>6, <2>7, <2>8 DEF TypeOK
<1>4. MarketSound
  BY <1>1, <1>2 DEF MarketSound
<1>5. \A o \in Orders : RowSound(o) /\ SeenSound(o)
  <2> SUFFICES ASSUME NEW o \in Orders PROVE RowSound(o) /\ SeenSound(o)
    OBVIOUS
  <2>0. row[o] = NoFills(o) /\ Executed(o) = 0
    BY <1>1, <1>2
  <2>1. row[o].executedQuantity = 0 /\ row[o].quantity = Size[o] /\ row[o].filledPrice = Null
    BY <2>0 DEF NoFills
  <2>2. RowSound(o)
    BY <2>0, <2>1 DEF RowSound
  <2>3. SeenSound(o)
    BY <1>2 DEF SeenSound
  <2> QED
    BY <2>2, <2>3
<1>6. \A r \in Reporters : CallSound(call[r])
  BY DEF Init, CallSound
<1> QED
  BY <1>3, <1>4, <1>5, <1>6 DEF ReplayInv

LEMMA InvExecute ==
  ASSUME ReplayInv, NEW o \in Orders, Execute(o)
  PROVE  ReplayInv'
<1>0. Market
  BY DEF ReplayInv, TypeOK, Market
<1>1. /\ Now' = Now + 1 /\ Market' /\ Now \in Nat
      /\ \A p \in Orders : Executed(p)' = IF p = o THEN Executed(p) + 1 ELSE Executed(p)
      /\ \A p \in Orders : \A k \in 1..Executed(p) : ExecutedAt(p, k)' = ExecutedAt(p, k)
  BY <1>0, OneMore, FillsAre
<1>2. UNCHANGED <<closed, stamps, row, seen, call>>
  BY DEF Execute
<1>3. \A p \in Orders : Executed(p) \in Nat /\ Executed(p)' \in Nat /\ Executed(p) <= Executed(p)'
  BY <1>0, <1>1, FillsAre, ReplayAssumption
<1>4. \A p \in Orders : Points(p)' = Points(p)
  BY <1>2 DEF Points
<1>5. TypeOK'
  <2>1. 1..Now \subseteq 1..Now'
    BY <1>1
  <2> QED
    BY <1>1, <1>2, <1>4, <2>1 DEF ReplayInv, TypeOK, Market
<1>6. ASSUME NEW p \in Orders PROVE RowSound(p)' /\ SeenSound(p)'
  <2>0. OrderSound(p)
    BY InvOfOrder
  <2>1. RowSound(p)'
    <3>1. row[p].executedQuantity \in Nat /\ row[p].executedQuantity <= Executed(p)
      BY <2>0, ReplayAssumption DEF OrderSound, RowSound
    <3>2. row[p].executedQuantity <= Executed(p)'
      BY <1>3, <3>1
    <3> QED
      BY <1>2, <2>0, <3>2 DEF OrderSound, RowSound
  <2>2. ASSUME NEW q \in Points(p)
        PROVE  /\ q <= row'[p].executedQuantity
               /\ seen'[p][q].avgPrice = Average(p, q)
               /\ seen'[p][q].time \in ExecutedAt(p, q)'..Now'
    <3>1. q \in 1..Executed(p)
      BY <2>0, AuthorityIs
    <3>2. ExecutedAt(p, q)' = ExecutedAt(p, q) /\ ExecutedAt(p, q) \in Int
      BY <1>0, <1>1, <3>1, Times
    <3>3. /\ q <= row[p].executedQuantity
          /\ seen[p][q].avgPrice = Average(p, q)
          /\ seen[p][q].time \in ExecutedAt(p, q)..Now
      BY DEF ReplayInv, SeenSound
    <3> QED
      BY <1>1, <1>2, <3>2, <3>3
  <2> QED
    BY <1>4, <2>1, <2>2 DEF SeenSound
<1>7. ASSUME NEW r \in Reporters PROVE CallSound(call[r])'
  <2> SUFFICES ASSUME NEW c, c = call[r], c # Idle,
                      NEW p, p = c.report.order, NEW q, q = CumulativeOf(c.report)
               PROVE  /\ c.at \in {"advance", "observe"}
                      /\ c.report \in BrokerReport /\ q \in 1..Executed(p)'
                      /\ Tells(p, q, c.report.filledQuantity, c.report.filledPrice)
                      /\ c.executedAt \in ExecutedAt(p, q)'..Now'
                      /\ c.at = "observe" => q <= row'[p].executedQuantity
    BY <1>2 DEF CallSound
  <2>1. /\ c.at \in {"advance", "observe"}
        /\ c.report \in BrokerReport /\ p \in Orders /\ q \in 1..Executed(p)
        /\ Tells(p, q, c.report.filledQuantity, c.report.filledPrice)
        /\ c.executedAt \in ExecutedAt(p, q)..Now
        /\ c.at = "observe" => q <= row[p].executedQuantity
    BY DEF ReplayInv, CallSound, BrokerReport
  <2>2. ExecutedAt(p, q)' = ExecutedAt(p, q) /\ ExecutedAt(p, q) \in Int
    BY <1>0, <1>1, <2>1, Times
  <2>3. q \in 1..Executed(p)'
    BY <1>3, <2>1
  <2> QED
    BY <1>1, <1>2, <2>1, <2>2, <2>3
<1> QED
  BY <1>1, <1>5, <1>6, <1>7 DEF ReplayInv, Market

\* A report of q executed contracts tells of them, or of nothing.
LEMMA ReportTells ==
  ASSUME Market, stamps \in BOOLEAN, NEW o \in Orders, NEW q \in 1..Executed(o), NEW named \in BOOLEAN, NEW fault \in Faults,
         named \/ (q = Size[o] /\ fault = "none")
  PROVE  LET rep == Snapshot(o, q, named, fault)
         IN  /\ rep.order = o
             /\ rep \in BrokerReport
             /\ ~Rejected(rep) /\ IsFillEvent(rep) =>
                  /\ CumulativeOf(rep) = q
                  /\ Tells(o, q, rep.filledQuantity, rep.filledPrice)
             /\ FillTime(rep) \in ExecutedAt(o, q)..Now /\ FillTime(rep) \in 1..Now
<1> DEFINE rep == Snapshot(o, q, named, fault)
<1>0. Size[o] \in Nat \ {0} /\ q \in 1..Size[o]
  BY FillsAre, ReplayAssumption
<1>1. Average(o, q) \in Nat /\ Average(o, q) > 0
  BY <1>0, AverageIs
<1>2. ExecutedAt(o, q) \in 1..Now /\ Now \in Nat
  BY Times, FillsAre
<1>3. /\ rep.order = o /\ rep.quantity = Size[o]
      /\ rep.status = StatusAt(o, q)
      /\ rep.filledQuantity = IF fault = "overfill" THEN Size[o] + 1 ELSE IF named THEN q ELSE Null
      /\ rep.filledPrice = IF fault = "price" THEN 0 ELSE Average(o, q)
      /\ rep.filledAt = IF stamps THEN ExecutedAt(o, q) ELSE Null
  BY DEF Snapshot
<1>4. StatusAt(o, q) \in {"partially_filled", "cancelled", "filled"}
  BY DEF StatusAt
<1>5. rep \in BrokerReport
  <2>1. Size[o] \in Nat /\ Size[o] + 1 \in Nat /\ q \in Nat /\ ExecutedAt(o, q) \in Nat
    BY <1>0, <1>2
  <2>2. rep.filledQuantity \in Nat \cup {Null} /\ rep.filledPrice \in Nat /\ rep.filledAt \in Nat \cup {Null}
    BY <1>1, <1>3, <2>1
  <2>3. rep = [order |-> rep.order, status |-> rep.status, quantity |-> rep.quantity,
               filledQuantity |-> rep.filledQuantity, filledPrice |-> rep.filledPrice,
               filledAt |-> rep.filledAt]
    BY DEF Snapshot
  <2>4. rep.order \in Orders /\ rep.status \in {"partially_filled", "cancelled", "filled"} /\ rep.quantity \in Nat
    BY <1>3, <1>4, <2>1
  <2> HIDE DEF rep
  <2> QED
    BY <2>2, <2>3, <2>4 DEF BrokerReport
<1> HIDE DEF rep
<1>6. ASSUME ~Rejected(rep), IsFillEvent(rep)
      PROVE  CumulativeOf(rep) = q /\ Tells(o, q, rep.filledQuantity, rep.filledPrice)
  <2>1. fault # "overfill"
    <3>1. Size[o] + 1 # Null /\ Size[o] + 1 > Size[o]
      BY <1>0, ReplayAssumption
    <3> QED
      BY <1>3, <1>6, <3>1 DEF Rejected
  <2>2. fault # "price"
    BY <1>3, <1>6 DEF IsFillEvent
  <2>3. rep.filledPrice = Average(o, q)
    BY <1>3, <2>2
  <2>4. rep.filledQuantity = q \/ (rep.filledQuantity = Null /\ q = Size[o])
    BY <1>3, <2>1
  <2>5. Filled(rep.quantity, rep.filledQuantity) = q
    BY <1>0, <1>3, <2>4, ReplayAssumption DEF Filled
  <2> QED
    BY <1>6, <2>3, <2>4, <2>5 DEF CumulativeOf, Tells
<1>7. FillTime(rep) \in ExecutedAt(o, q)..Now /\ FillTime(rep) \in 1..Now
  <2>1. ExecutedAt(o, q) # Null
    BY <1>2, ReplayAssumption
  <2> QED
    BY <1>2, <1>3, <2>1 DEF FillTime
<1> QED
  BY <1>3, <1>5, <1>6, <1>7 DEF rep

\* Whatever a report changes of the rows, a watermark that does not fall keeps
\* the observations and the calls that are still under way sound.
LEMMA WatermarkHolds ==
  ASSUME ReplayInv, UNCHANGED fills,
         \A p \in Orders : row'[p].executedQuantity \in Nat
                          /\ row'[p].executedQuantity >= row[p].executedQuantity
  PROVE  /\ UNCHANGED seen => \A p \in Orders : SeenSound(p)'
         /\ \A r \in Reporters : call'[r] = call[r] => CallSound(call[r])'
<1>0. \A p \in Orders : row[p].executedQuantity \in Nat
  BY DEF ReplayInv, TypeOK, OrderRow
<1>1. ASSUME UNCHANGED seen, NEW p \in Orders PROVE SeenSound(p)'
  <2>1. Points(p)' = Points(p) /\ Points(p) \subseteq Int
    BY <1>1 DEF Points
  <2>2. \A q \in Points(p) : q <= row'[p].executedQuantity
    BY <1>0, <2>1 DEF ReplayInv, SeenSound
  <2> QED
    BY <1>1, <2>1, <2>2, Still DEF ReplayInv, SeenSound
<1>2. ASSUME NEW r \in Reporters, call'[r] = call[r] PROVE CallSound(call[r])'
  <2> SUFFICES ASSUME NEW c, c = call[r], c # Idle,
                      NEW p, p = c.report.order, NEW q, q = CumulativeOf(c.report)
               PROVE  /\ c.at \in {"advance", "observe"}
                      /\ c.report \in BrokerReport /\ q \in 1..Executed(p)'
                      /\ Tells(p, q, c.report.filledQuantity, c.report.filledPrice)
                      /\ c.executedAt \in ExecutedAt(p, q)'..Now'
                      /\ c.at = "observe" => q <= row'[p].executedQuantity
    BY <1>2 DEF CallSound
  <2>1. /\ c.at \in {"advance", "observe"}
        /\ c.report \in BrokerReport /\ p \in Orders /\ q \in 1..Executed(p)
        /\ Tells(p, q, c.report.filledQuantity, c.report.filledPrice)
        /\ c.executedAt \in ExecutedAt(p, q)..Now
        /\ c.at = "observe" => q <= row[p].executedQuantity
    BY DEF ReplayInv, CallSound, BrokerReport
  <2>2. c.at = "observe" => q <= row'[p].executedQuantity
    BY <1>0, <2>1
  <2> QED
    BY <2>1, <2>2, Still
<1> QED
  BY <1>1, <1>2

LEMMA InvReport ==
  ASSUME ReplayInv, NEW r \in Reporters, NEW o \in Orders, NEW q \in 1..Size[o],
         NEW named \in BOOLEAN, NEW fault \in Faults, Report(r, o, q, named, fault)
  PROVE  ReplayInv'
<1> DEFINE rep == Snapshot(o, q, named, fault)
<1>0. Market /\ stamps \in BOOLEAN /\ UNCHANGED fills /\ UNCHANGED <<closed, stamps, seen>>
  BY DEF ReplayInv, TypeOK, Market, Report
<1>1. q \in 1..Executed(o) /\ (named \/ (q = Size[o] /\ fault = "none"))
  BY DEF Report
<1>2. /\ rep.order = o /\ rep \in BrokerReport
      /\ ~Rejected(rep) /\ IsFillEvent(rep) =>
           /\ CumulativeOf(rep) = q
           /\ Tells(o, q, rep.filledQuantity, rep.filledPrice)
      /\ FillTime(rep) \in ExecutedAt(o, q)..Now /\ FillTime(rep) \in 1..Now
  BY <1>0, <1>1, ReportTells
<1>3. /\ row' = IF Rejected(rep) THEN row ELSE [row EXCEPT ![o] = Stamped(@, rep)]
      /\ call' = IF Rejected(rep) \/ ~IsFillEvent(rep) THEN call
                 ELSE [call EXCEPT ![r] = [at |-> "advance", report |-> rep, executedAt |-> FillTime(rep)]]
      /\ row \in [Orders -> OrderRow] /\ call \in [Reporters -> Call]
  BY DEF Report, ReplayInv, TypeOK
<1> HIDE DEF rep
<1>4. ASSUME NEW p \in Orders
      PROVE  /\ row'[p] \in OrderRow
             /\ row'[p].executedQuantity = row[p].executedQuantity
             /\ row'[p].quantity = row[p].quantity
             /\ row'[p].filledQuantity = row[p].filledQuantity
             /\ row'[p].filledPrice = row[p].filledPrice
             /\ row'[p].filledAt \in 1..Now \cup {Null}
  <2>1. row[p] \in OrderRow /\ row[p].filledAt \in 1..Now \cup {Null}
    BY DEF ReplayInv, TypeOK
  <2>2. Now \in Nat
    BY <1>0, FillsAre
  <2> DEFINE w == Stamped(row[p], rep)
  <2>3. /\ w.executedQuantity = row[p].executedQuantity /\ w.quantity = row[p].quantity
        /\ w.filledQuantity = row[p].filledQuantity /\ w.filledPrice = row[p].filledPrice
        /\ w.filledAt = (IF IsFillEvent(rep) /\ (row[p].filledAt = Null \/ row[p].filledAt > FillTime(rep))
                           THEN FillTime(rep) ELSE row[p].filledAt)
        /\ w.status = (IF Overrides(rep.status, row[p].status) THEN rep.status ELSE row[p].status)
        /\ w = [executedQuantity |-> w.executedQuantity, quantity |-> w.quantity,
                filledQuantity |-> w.filledQuantity, filledPrice |-> w.filledPrice,
                filledAt |-> w.filledAt, status |-> w.status]
    <3> DEFINE u == row[p]
               st == IF Overrides(rep.status, u.status) THEN rep.status ELSE u.status
               at == IF IsFillEvent(rep) /\ (u.filledAt = Null \/ u.filledAt > FillTime(rep))
                       THEN FillTime(rep) ELSE u.filledAt
    <3>1. u = [executedQuantity |-> u.executedQuantity, quantity |-> u.quantity,
               filledQuantity |-> u.filledQuantity, filledPrice |-> u.filledPrice,
               filledAt |-> u.filledAt, status |-> u.status]
      BY <2>1 DEF OrderRow
    <3>2. w = [u EXCEPT !.status = st, !.filledAt = at]
      BY DEF Stamped
    <3> HIDE DEF u, w, st, at
    <3>3. w = [executedQuantity |-> u.executedQuantity, quantity |-> u.quantity,
               filledQuantity |-> u.filledQuantity, filledPrice |-> u.filledPrice,
               filledAt |-> at, status |-> st]
      BY <3>1, <3>2
    <3> QED
      BY <3>3 DEF u, st, at
  <2>4. row'[p] = row[p] \/ row'[p] = w
    BY <1>3
  <2> HIDE DEF w
  <2>5. w.filledAt \in 1..Now \cup {Null} /\ w.filledAt \in Nat \cup {Null}
    BY <1>2, <2>1, <2>2, <2>3
  <2>6. w.status \in {"submitted", "partially_filled", "cancelled", "filled"}
    BY <1>2, <2>1, <2>3 DEF BrokerReport, OrderRow
  <2>7. w \in OrderRow
    BY <2>1, <2>3, <2>5, <2>6 DEF OrderRow
  <2> QED
    BY <2>1, <2>3, <2>4, <2>5, <2>7
<1>5. ASSUME NEW x \in Reporters
      PROVE  call'[x] \in Call /\ CallSound(call[x])'
  <2>1. CASE call'[x] = call[x]
    <3>1. call[x] \in Call
      BY <1>3
    <3>2. CallSound(call[x])'
      <4>1. \A p \in Orders : row'[p].executedQuantity \in Nat
                              /\ row'[p].executedQuantity >= row[p].executedQuantity
        BY <1>4 DEF OrderRow
      <4> QED
        BY <1>0, <2>1, <4>1, WatermarkHolds
    <3> QED
      BY <2>1, <3>1, <3>2
  <2>2. CASE call'[x] # call[x]
    <3> DEFINE c == [at |-> "advance", report |-> rep, executedAt |-> FillTime(rep)]
    <3>1. call'[x] = c /\ ~Rejected(rep) /\ IsFillEvent(rep)
      BY <1>3, <2>2
    <3>2. c \in Call
      <4>1. FillTime(rep) \in Nat
        BY <1>2
      <4> QED
        BY <1>2, <4>1 DEF Call
    <3>3. CumulativeOf(rep) = q /\ Tells(o, q, rep.filledQuantity, rep.filledPrice)
      BY <1>2, <3>1
    <3>4. /\ call'[x].at = "advance" /\ call'[x].report = rep /\ call'[x].executedAt = FillTime(rep)
      BY <3>1
    <3>5. CallSound(call[x])'
      BY <1>0, <1>1, <1>2, <3>3, <3>4, Still DEF CallSound
    <3> QED
      BY <3>1, <3>2, <3>5
  <2> QED
    BY <2>1, <2>2
<1>6. row' \in [Orders -> OrderRow] /\ call' \in [Reporters -> Call]
  <2>1. DOMAIN row' = Orders /\ row' = [p \in Orders |-> row'[p]]
    BY <1>3
  <2>2. DOMAIN call' = Reporters /\ call' = [x \in Reporters |-> call'[x]]
    BY <1>3
  <2> QED
    BY <1>4, <1>5, <2>1, <2>2
<1>7. TypeOK'
  <2>1. \A p : Points(p)' = Points(p)
    BY <1>0 DEF Points
  <2> QED
    BY <1>0, <1>4, <1>6, <2>1, Still DEF ReplayInv, TypeOK
<1>8. ASSUME NEW p \in Orders PROVE RowSound(p)' /\ SeenSound(p)'
  <2>1. RowSound(p)'
    BY <1>0, <1>4, Still DEF ReplayInv, RowSound
  <2>2. \A y \in Orders : row'[y].executedQuantity \in Nat
                          /\ row'[y].executedQuantity >= row[y].executedQuantity
    BY <1>4 DEF OrderRow
  <2> QED
    BY <1>0, <2>1, <2>2, WatermarkHolds
<1> QED
  BY <1>0, <1>5, <1>7, <1>8, Still DEF ReplayInv

\* What a reporter under way carries.
LEMMA CallIs ==
  ASSUME ReplayInv, NEW r \in Reporters, call[r].at # "idle"
  PROVE  LET rep == call[r].report
         IN  /\ call[r] # Idle /\ call[r] \in Call /\ rep \in BrokerReport /\ rep.order \in Orders
             /\ CumulativeOf(rep) \in 1..Executed(rep.order) /\ CumulativeOf(rep) \in 1..Size[rep.order]
             /\ Tells(rep.order, CumulativeOf(rep), rep.filledQuantity, rep.filledPrice)
             /\ call[r].executedAt \in ExecutedAt(rep.order, CumulativeOf(rep))..Now
             /\ call[r].at = "observe" => CumulativeOf(rep) <= row[rep.order].executedQuantity
<1> DEFINE rep == call[r].report
<1>1. call[r] # Idle /\ call[r] \in Call
  BY DEF Idle, ReplayInv, TypeOK
<1>2. /\ rep \in BrokerReport /\ rep.order \in Orders /\ CumulativeOf(rep) \in 1..Executed(rep.order)
      /\ Tells(rep.order, CumulativeOf(rep), rep.filledQuantity, rep.filledPrice)
      /\ call[r].executedAt \in ExecutedAt(rep.order, CumulativeOf(rep))..Now
      /\ call[r].at = "observe" => CumulativeOf(rep) <= row[rep.order].executedQuantity
  BY <1>1 DEF ReplayInv, CallSound, BrokerReport
<1>3. CumulativeOf(rep) \in 1..Size[rep.order]
  <2>1. Market
    BY DEF ReplayInv, TypeOK, Market
  <2>2. Executed(rep.order) \in 0..Size[rep.order] /\ Size[rep.order] \in Nat \ {0}
    BY <1>2, <2>1, FillsAre, ReplayAssumption
  <2> QED
    BY <1>2, <2>2
<1> QED
  BY <1>1, <1>2, <1>3

LEMMA InvAdvance ==
  ASSUME ReplayInv, NEW r \in Reporters, Advance(r)
  PROVE  ReplayInv'
<1> DEFINE rep == call[r].report
           n == CumulativeOf(rep)
<1>0. /\ Market /\ UNCHANGED <<fills, closed, stamps, seen>>
      /\ row' = [row EXCEPT ![rep.order] = Advanced(@, rep)]
      /\ call' = [call EXCEPT ![r].at = "observe"]
      /\ row \in [Orders -> OrderRow] /\ call \in [Reporters -> Call]
  BY DEF ReplayInv, TypeOK, Market, Advance
<1>1. /\ call[r] # Idle /\ call[r] \in Call /\ rep \in BrokerReport /\ rep.order \in Orders
      /\ n \in 1..Executed(rep.order) /\ n \in 1..Size[rep.order]
      /\ Tells(rep.order, n, rep.filledQuantity, rep.filledPrice)
      /\ call[r].executedAt \in ExecutedAt(rep.order, n)..Now
  <2>1. call[r].at # "idle"
    BY DEF Advance
  <2> QED
    BY <2>1, CallIs
<1>2. ASSUME NEW p \in Orders
      PROVE  /\ row'[p] \in OrderRow
             /\ row'[p].executedQuantity \in Nat
             /\ row'[p].executedQuantity >= row[p].executedQuantity
             /\ p = rep.order => row'[p].executedQuantity >= n
             /\ row'[p].executedQuantity <= Size[p]
             /\ row'[p].filledAt \in 1..Now \cup {Null}
             /\ RowSound(p)'
  <2>0. /\ row[p] \in OrderRow /\ row[p].executedQuantity \in Nat /\ RowSound(p)
        /\ row[p].executedQuantity <= Size[p] /\ row[p].filledAt \in 1..Now \cup {Null}
    BY <1>0 DEF ReplayInv, TypeOK, OrderRow
  <2>n. n \in Nat
    BY <1>1
  <2>1. CASE row'[p] = row[p] /\ (p = rep.order => row[p].executedQuantity >= n)
    BY <1>0, <2>0, <2>1, Still DEF RowSound
  <2>2. CASE p = rep.order /\ row[p].executedQuantity < n
    <3> DEFINE u == row[p]
               w == Advanced(u, rep)
    <3>1. row'[p] = w
      BY <1>0, <2>2
    <3>2. w = [u EXCEPT !.executedQuantity = n, !.filledQuantity = rep.filledQuantity,
                        !.filledPrice = rep.filledPrice]
      BY <2>2 DEF Advanced
    <3>3. u = [executedQuantity |-> u.executedQuantity, quantity |-> u.quantity,
               filledQuantity |-> u.filledQuantity, filledPrice |-> u.filledPrice,
               filledAt |-> u.filledAt, status |-> u.status]
      BY <2>0 DEF OrderRow
    <3> HIDE DEF w
    <3>4. w = [executedQuantity |-> n, quantity |-> u.quantity,
               filledQuantity |-> rep.filledQuantity, filledPrice |-> rep.filledPrice,
               filledAt |-> u.filledAt, status |-> u.status]
      <4> HIDE DEF u, n, rep
      <4> QED
        BY <3>2, <3>3
    <3>5. /\ rep.filledQuantity \in Nat \cup {Null} /\ rep.filledPrice \in Nat \cup {Null}
      BY <1>1 DEF BrokerReport
    <3> HIDE DEF rep, n
    <3>6. w \in OrderRow
      BY <2>0, <2>n, <3>4, <3>5 DEF OrderRow
    <3>7. /\ row'[p].executedQuantity = n /\ row'[p].quantity = row[p].quantity
          /\ row'[p].filledQuantity = rep.filledQuantity /\ row'[p].filledPrice = rep.filledPrice
          /\ row'[p].filledAt = row[p].filledAt
      BY <3>1, <3>4
    <3>8. RowSound(p)'
      <4>1. n # 0 /\ n <= Executed(p)' /\ n <= Size[p]
        BY <1>0, <1>1, <2>2, Still, FillsAre, ReplayAssumption
      <4> QED
        BY <1>1, <2>0, <2>2, <3>7, <4>1 DEF RowSound
    <3>9. n <= Size[p]
      BY <1>1, <2>2, ReplayAssumption
    <3> QED
      BY <2>0, <2>n, <2>2, <3>1, <3>6, <3>7, <3>8, <3>9
  <2>3. row'[p] = row[p] \/ (p = rep.order /\ row[p].executedQuantity < n)
    BY <1>0 DEF Advanced
  <2>4. ~(row[p].executedQuantity < n) => row[p].executedQuantity >= n
    BY <2>0, <2>n
  <2> QED
    BY <2>1, <2>2, <2>3, <2>4
<1>3. \A x \in Reporters \ {r} : call'[x] = call[x]
  BY <1>0
<1>4. call'[r] = [call[r] EXCEPT !.at = "observe"]
  BY <1>0
<1>5. /\ call'[r].at = "observe" /\ call'[r].report = rep /\ call'[r].executedAt = call[r].executedAt
      /\ call'[r] \in Call
  BY <1>1, <1>4 DEF Call
<1>6. CallSound(call[r])'
  <2>1. n <= row'[rep.order].executedQuantity
    <3>1. row'[rep.order].executedQuantity \in Nat /\ row'[rep.order].executedQuantity >= n /\ n \in Nat
      BY <1>1, <1>2
    <3> HIDE DEF n, rep
    <3> QED
      BY <3>1
  <2> SUFFICES ASSUME NEW c, c = call'[r],
                      NEW o, o = rep.order, NEW q, q = n
               PROVE  /\ c.at \in {"advance", "observe"}
                      /\ c.report \in BrokerReport /\ q \in 1..Executed(o)'
                      /\ Tells(o, q, c.report.filledQuantity, c.report.filledPrice)
                      /\ c.executedAt \in ExecutedAt(o, q)'..Now'
                      /\ c.at = "observe" => q <= row'[o].executedQuantity
    BY <1>5 DEF CallSound
  <2> QED
    BY <1>0, <1>1, <1>5, <2>1, Still
<1>7. ASSUME NEW x \in Reporters PROVE CallSound(call[x])' /\ call'[x] \in Call
  <2>1. CASE x = r
    BY <1>5, <1>6, <2>1
  <2>2. CASE x # r
    <3>1. call'[x] = call[x] /\ call[x] \in Call
      BY <1>0, <1>3, <2>2
    <3> QED
      BY <1>0, <1>2, <3>1, WatermarkHolds
  <2> QED
    BY <2>1, <2>2
<1>8. row' \in [Orders -> OrderRow] /\ call' \in [Reporters -> Call]
  <2>1. DOMAIN row' = Orders /\ row' = [p \in Orders |-> row'[p]]
    BY <1>0
  <2>2. DOMAIN call' = Reporters /\ call' = [x \in Reporters |-> call'[x]]
    BY <1>0
  <2> QED
    BY <1>2, <1>7, <2>1, <2>2
<1>9. TypeOK'
  <2>1. \A p : Points(p)' = Points(p)
    BY <1>0 DEF Points
  <2> QED
    BY <1>0, <1>2, <1>8, <2>1, Still DEF ReplayInv, TypeOK
<1>10. \A p \in Orders : SeenSound(p)'
  BY <1>0, <1>2, WatermarkHolds
<1> QED
  BY <1>0, <1>2, <1>7, <1>9, <1>10, Still DEF ReplayInv

\* Calls that end leave the rest as it is.
LEMMA CallEnds ==
  ASSUME ReplayInv, NEW r \in Reporters, UNCHANGED <<fills, row>>,
         call' = [call EXCEPT ![r] = Idle]
  PROVE  call' \in [Reporters -> Call] /\ \A x \in Reporters : CallSound(call[x])'
<1>1. Idle \in Call /\ call \in [Reporters -> Call]
  BY DEF Idle, Call, ReplayInv, TypeOK
<1>2. \A p \in Orders : row'[p].executedQuantity \in Nat
                        /\ row'[p].executedQuantity >= row[p].executedQuantity
  BY DEF ReplayInv, TypeOK, OrderRow
<1>3. ASSUME NEW x \in Reporters PROVE CallSound(call[x])'
  <2>1. CASE x = r
    <3>1. call'[x] = Idle
      BY <1>1, <2>1
    <3> QED
      BY <3>1 DEF CallSound
  <2>2. CASE x # r
    <3>1. call'[x] = call[x]
      BY <1>1, <2>2
    <3> QED
      BY <1>2, <3>1, WatermarkHolds
  <2> QED
    BY <2>1, <2>2
<1> QED
  BY <1>1, <1>3

LEMMA InvObserve ==
  ASSUME ReplayInv, NEW r \in Reporters, Observe(r)
  PROVE  ReplayInv'
<1> DEFINE rep == call[r].report
           n == CumulativeOf(rep)
           new == [avgPrice |-> rep.filledPrice, time |-> call[r].executedAt]
<1>0. /\ Market /\ UNCHANGED <<fills, closed, stamps, row>>
      /\ seen' = [seen EXCEPT ![rep.order][n] = Kept(@, new)]
      /\ call' = [call EXCEPT ![r] = Idle]
      /\ DOMAIN seen = Orders
      /\ \A p \in Orders : seen[p] \in [1..Size[p] -> Observation \cup {Null}]
  BY DEF ReplayInv, TypeOK, Market, Observe
<1>1. /\ rep \in BrokerReport /\ rep.order \in Orders
      /\ n \in 1..Executed(rep.order) /\ n \in 1..Size[rep.order]
      /\ Tells(rep.order, n, rep.filledQuantity, rep.filledPrice)
      /\ call[r].executedAt \in ExecutedAt(rep.order, n)..Now
      /\ n <= row[rep.order].executedQuantity
  <2>1. call[r].at = "observe"
    BY DEF Observe
  <2> QED
    BY <2>1, CallIs
<1>2. Now \in Nat /\ ExecutedAt(rep.order, n) \in 1..Now
  BY <1>0, <1>1, Times, FillsAre
<1>3. new.avgPrice = rep.filledPrice /\ new.time = call[r].executedAt /\ new \in Observation
  <2>1. rep.filledPrice \in Nat /\ call[r].executedAt \in Nat
    BY <1>1, <1>2 DEF BrokerReport
  <2> QED
    BY <2>1 DEF Observation
<1> HIDE DEF new
<1>4. ASSUME NEW p \in Orders
      PROVE  /\ seen'[p] \in [1..Size[p] -> Observation \cup {Null}]
             /\ \A q \in 1..Size[p] :
                  \/ seen'[p][q] = seen[p][q]
                  \/ p = rep.order /\ q = n /\ seen'[p][q] = new
  <2>1. CASE p = rep.order
    <3> HIDE DEF n
    <3>1. seen'[p] = [seen[p] EXCEPT ![n] = Kept(@, new)]
      BY <1>0, <2>1
    <3>2. Kept(seen[p][n], new) \in {seen[p][n], new}
      BY DEF Kept
    <3>3. seen[p] \in [1..Size[p] -> Observation \cup {Null}] /\ n \in 1..Size[p]
      BY <1>0, <1>1, <2>1
    <3> DEFINE f == seen[p]
               v == Kept(f[n], new)
    <3>4. seen'[p] = [f EXCEPT ![n] = v] /\ v \in {f[n], new}
          /\ f \in [1..Size[p] -> Observation \cup {Null}]
      BY <3>1, <3>2, <3>3
    <3> HIDE DEF f, v
    <3>5. v \in Observation \cup {Null}
      BY <1>3, <3>3, <3>4
    <3>6. seen'[p] \in [1..Size[p] -> Observation \cup {Null}]
      BY <3>4, <3>5
    <3>7. \A q \in 1..Size[p] : seen'[p][q] = f[q] \/ (q = n /\ seen'[p][q] = new)
      BY <3>3, <3>4
    <3> QED
      BY <2>1, <3>6, <3>7 DEF f
  <2>2. CASE p # rep.order
    BY <1>0, <2>2
  <2> QED
    BY <2>1, <2>2
<1>5. ASSUME NEW p \in Orders, NEW q \in Points(p)'
      PROVE  /\ q <= row'[p].executedQuantity
             /\ seen'[p][q].avgPrice = Average(p, q)
             /\ seen'[p][q].time \in ExecutedAt(p, q)'..Now'
             /\ seen'[p][q].time \in 1..Now
  <2>0. q \in 1..Size[p] /\ seen'[p][q] # Null
    BY DEF Points
  <2>s. ExecutedAt(p, q)' = ExecutedAt(p, q) /\ Now' = Now
    BY <1>0, Still
  <2>1. CASE seen'[p][q] = seen[p][q]
    <3>1. q \in Points(p)
      BY <2>0, <2>1 DEF Points
    <3>2. /\ q <= row[p].executedQuantity /\ seen[p][q].avgPrice = Average(p, q)
          /\ seen[p][q].time \in ExecutedAt(p, q)..Now /\ seen[p][q].time \in 1..Now
      BY <3>1 DEF ReplayInv, TypeOK, SeenSound
    <3> QED
      BY <1>0, <2>1, <2>s, <3>2
  <2>2. CASE p = rep.order /\ q = n /\ seen'[p][q] = new
    <3>1. rep.filledPrice = Average(p, q)
      BY <1>1, <2>2 DEF Tells
    <3>2. q <= row[p].executedQuantity /\ call[r].executedAt \in ExecutedAt(p, q)..Now
          /\ ExecutedAt(p, q) \in 1..Now
      BY <1>1, <1>2, <2>2
    <3>3. call[r].executedAt \in 1..Now
      BY <1>2, <3>2
    <3> QED
      BY <1>0, <1>3, <2>2, <2>s, <3>1, <3>2, <3>3
  <2> QED
    BY <1>4, <2>0, <2>1, <2>2
<1>6. call' \in [Reporters -> Call] /\ \A x \in Reporters : CallSound(call[x])'
  BY <1>0, CallEnds
<1>7. TypeOK'
  <2>1. seen' = [p \in Orders |-> seen'[p]]
    BY <1>0
  <2> QED
    BY <1>0, <1>4, <1>5, <1>6, <2>1, Still DEF ReplayInv, TypeOK
<1>8. \A p \in Orders : RowSound(p)' /\ SeenSound(p)'
  <2>1. \A p \in Orders : RowSound(p)'
    BY <1>0, Still DEF ReplayInv, RowSound
  <2>2. \A p \in Orders : SeenSound(p)'
    BY <1>5 DEF SeenSound
  <2> QED
    BY <2>1, <2>2
<1> QED
  BY <1>0, <1>6, <1>7, <1>8, Still DEF ReplayInv

LEMMA InvElse ==
  ASSUME ReplayInv,
         \/ \E o \in Orders : CancelRest(o)
         \/ \E r \in Reporters : Fail(r)
         \/ UNCHANGED vars
  PROVE  ReplayInv'
<1>1. UNCHANGED <<fills, stamps, row, seen>> /\ closed' \subseteq Orders
  BY DEF ReplayInv, TypeOK, CancelRest, Fail, vars
<1>2. call' \in [Reporters -> Call] /\ \A x \in Reporters : CallSound(call[x])'
  <2>1. CASE call' = call
    <3>1. \A p \in Orders : row'[p].executedQuantity \in Nat
                            /\ row'[p].executedQuantity >= row[p].executedQuantity
      BY <1>1 DEF ReplayInv, TypeOK, OrderRow
    <3> QED
      BY <1>1, <2>1, <3>1, WatermarkHolds DEF ReplayInv, TypeOK
  <2>2. CASE \E r \in Reporters : Fail(r)
    <3>1. PICK r \in Reporters : call' = [call EXCEPT ![r] = Idle]
      BY <2>2 DEF Fail
    <3> QED
      BY <1>1, <3>1, CallEnds
  <2> QED
    BY <2>1, <2>2 DEF CancelRest, vars
<1>3. \A p \in Orders : Points(p)' = Points(p)
  BY <1>1 DEF Points
<1>4. TypeOK'
  BY <1>1, <1>2, <1>3, Still DEF ReplayInv, TypeOK
<1>5. \A p \in Orders : RowSound(p)' /\ SeenSound(p)'
  BY <1>1, <1>3, Still DEF ReplayInv, RowSound, SeenSound
<1> QED
  BY <1>1, <1>2, <1>4, <1>5, Still DEF ReplayInv

LEMMA InvStep == ReplayInv /\ [Next]_vars => ReplayInv'
<1> SUFFICES ASSUME ReplayInv, [Next]_vars PROVE ReplayInv'
  OBVIOUS
<1>1. ASSUME NEW o \in Orders, Execute(o) PROVE ReplayInv'
  BY <1>1, InvExecute
<1>2. ASSUME NEW r \in Reporters, NEW o \in Orders, NEW q \in 1..Size[o],
             NEW named \in BOOLEAN, NEW f \in Faults, Report(r, o, q, named, f)
      PROVE  ReplayInv'
  BY <1>2, InvReport
<1>3. ASSUME NEW r \in Reporters, Advance(r) PROVE ReplayInv'
  BY <1>3, InvAdvance
<1>4. ASSUME NEW r \in Reporters, Observe(r) PROVE ReplayInv'
  BY <1>4, InvObserve
<1> QED
  BY <1>1, <1>2, <1>3, <1>4, InvElse DEF Next, Record

LEMMA Invariant == Spec => []ReplayInv
<1> QED
  BY InvInit, InvStep, PTL DEF Spec

\* TypeOK: no row, observation or report of a broker ever has another shape, and no time
\* is one at which nothing had executed (OrdersService.record, recordFillProgress).
THEOREM TypeCorrect == Spec => []TypeOK
<1>1. ReplayInv => TypeOK
  BY DEF ReplayInv
<1> QED
  BY <1>1, Invariant, PTL

\* ReplayedInFull: between whichever statements of record a reader looks, and whatever was
\* reported twice, late, malformed or not at all, the executions that fillEventsFor makes of
\* an order are as many as its watermark says, at what exactly those contracts cost.
THEOREM BooksInFull == Spec => []ReplayedInFull
<1>1. ReplayInv => ReplayedInFull
  BY InvIsReplayed
<1> QED
  BY <1>1, Invariant, PTL

\* PlacedWhenReported: a contract is replayed no later than the first report that vouched for
\* it and, once observed, no earlier than it executed (fillCurveFor, fillEventsFor).
THEOREM BooksInPlace == Spec => []PlacedWhenReported
<1>1. ReplayInv => PlacedWhenReported
  BY InvIsPlaced
<1> QED
  BY <1>1, Invariant, PTL

-----------------------------------------------------------------------------
(* Once settled, the history stands.                                       *)

LEMMA SettledIs ==
  ReplayInv /\ Settled => \A o \in Orders : Authority(o) = Executed(o) /\ Remainder(o) = {}
<1> SUFFICES ASSUME ReplayInv, Settled, NEW o \in Orders
             PROVE  Authority(o) = Executed(o) /\ Remainder(o) = {}
  OBVIOUS
<1> DEFINE w == row[o].executedQuantity
<1>1. OrderSound(o) /\ Executed(o) \in 0..Size[o] /\ w \in 0..Size[o] /\ w <= Executed(o)
      /\ Size[o] \in Nat \ {0}
  <2>1. OrderSound(o)
    BY InvOfOrder
  <2> QED
    BY <2>1, FillsAre, ReplayAssumption DEF OrderSound, RowSound
<1>2. Executed(o) = 0 \/ Executed(o) \in Points(o)
  BY <1>1 DEF Settled, Points
<1>3. Authority(o) = w /\ \A q \in Points(o) : q <= w
  BY <1>1, AuthorityIs
<1>4. w = Executed(o)
  <2> HIDE DEF w
  <2> QED
    BY <1>1, <1>2, <1>3
<1>5. Remainder(o) = {}
  BY <1>1, <1>2, <1>4, ReplayOfOrder
<1> QED
  BY <1>3, <1>4, <1>5

LEMMA SeenStays ==
  ASSUME ReplayInv, Settled, UNCHANGED fills, [Next]_vars
  PROVE  UNCHANGED seen
<1>0. Market
  BY DEF ReplayInv, TypeOK, Market
<1>1. ASSUME NEW o \in Orders, Execute(o) PROVE UNCHANGED seen
  BY <1>1 DEF Execute
<1>2. ASSUME NEW r \in Reporters, Observe(r) PROVE UNCHANGED seen
  <2> DEFINE o == call[r].report.order
             n == CumulativeOf(call[r].report)
             new == [avgPrice |-> call[r].report.filledPrice, time |-> call[r].executedAt]
  <2>1. call[r].at # "idle" /\ seen' = [seen EXCEPT ![o][n] = Kept(@, new)]
    BY <1>2 DEF Observe
  <2>2. o \in Orders /\ n \in 1..Executed(o) /\ n \in 1..Size[o]
    BY <2>1, CallIs
  <2>3. seen[o][n] # Null
    BY <2>2 DEF Settled
  <2>4. DOMAIN seen = Orders /\ seen = [p \in Orders |-> seen[p]]
    BY DEF ReplayInv, TypeOK
  <2> HIDE DEF o, n, new
  <2>5. Kept(seen[o][n], new) = seen[o][n]
    BY <2>3 DEF Kept
  <2>6. seen[o] \in [1..Size[o] -> Observation \cup {Null}]
    BY <2>2 DEF ReplayInv, TypeOK
  <2>7. [seen[o] EXCEPT ![n] = seen[o][n]] = seen[o]
    BY <2>2, <2>6
  <2>8. seen' = [seen EXCEPT ![o] = seen[o]]
    BY <2>1, <2>5, <2>7
  <2> QED
    BY <2>4, <2>8
<1> QED
  BY <1>1, <1>2 DEF Next, Record, CancelRest, Report, Advance, Fail, vars

LEMMA BookStands ==
  ReplayInv /\ ReplayInv' /\ [Next]_vars =>
    (<<row, seen>>' # <<row, seen>> /\ Settled /\ fills' = fills => Book' = Book)
<1> SUFFICES ASSUME ReplayInv, ReplayInv', [Next]_vars, Settled, UNCHANGED fills
             PROVE  Book' = Book
  OBVIOUS
<1>1. UNCHANGED seen
  BY SeenStays
<1>2. \A o : Points(o)' = Points(o)
  BY <1>1 DEF Points
<1>3. Settled'
  BY <1>1, Still DEF Settled
<1>4. \A o \in Orders : Authority(o) = Executed(o) /\ Remainder(o) = {}
  BY SettledIs
<1>5. (ReplayInv /\ Settled => \A o \in Orders : Authority(o) = Executed(o) /\ Remainder(o) = {})'
  BY SettledIs, PTL
<1>6. \A o \in Orders : Authority(o)' = Authority(o) /\ Remainder(o)' = Remainder(o)
  BY <1>3, <1>4, <1>5, Still
<1>7. \A o \in Orders : Increments(o)' = Increments(o)
  <2> SUFFICES ASSUME NEW o \in Orders PROVE Increments(o)' = Increments(o)
    OBVIOUS
  <2>1. \A q : Before(o, q)' = Before(o, q)
    BY <1>2 DEF Before
  <2>2. \A q : /\ Take(o, q)' = Take(o, q) /\ VouchedAt(o, q)' = VouchedAt(o, q)
               /\ IncrementPrice(o, q)' = IncrementPrice(o, q)
    <3> SUFFICES ASSUME NEW q
                 PROVE  /\ Take(o, q)' = Take(o, q) /\ VouchedAt(o, q)' = VouchedAt(o, q)
                        /\ IncrementPrice(o, q)' = IncrementPrice(o, q)
      OBVIOUS
    <3>1. Take(o, q)' = Take(o, q)
      BY <1>6, <2>1 DEF Take
    <3>2. VouchedAt(o, q)' = VouchedAt(o, q)
      BY <1>1, <1>2 DEF VouchedAt
    <3>3. IncrementPrice(o, q)' = IncrementPrice(o, q)
      BY <1>1, <2>1 DEF IncrementPrice
    <3> QED
      BY <3>1, <3>2, <3>3
  <2> QED
    BY <1>2, <2>2 DEF Increments
<1>8. FillEvents' = FillEvents
  BY <1>6, <1>7 DEF FillEvents
<1> QED
  BY <1>8 DEF Book

\* SettledHistoryStands: once each executed contract was observed, no redelivery, late partial,
\* retry or malformed report changes the position book (record, applyExecution).
THEOREM SettledStands == Spec => SettledHistoryStands
<1>1. ReplayInv /\ ReplayInv' /\ [Next]_vars =>
        [<<row, seen>>' # <<row, seen>> /\ Settled /\ fills' = fills => Book' = Book]_vars
  BY BookStands
<1> QED
  BY <1>1, Invariant, PTL DEF Spec, SettledHistoryStands

-----------------------------------------------------------------------------
(* The sums of the book.  The executions of all orders are one set, so the  *)
(* sums are over subsets of it, of what one function says of each element.  *)

\* Induction over the subsets of a finite set.
LEMMA SetInduction ==
  ASSUME NEW S, IsFiniteSet(S), NEW T, {} \in T,
         \A R \in SUBSET S : \A x \in S \ R : R \in T => R \cup {x} \in T
  PROVE  S \in T
<1> DEFINE U == {n \in Nat : \A R \in SUBSET S : Cardinality(R) = n => R \in T}
<1>card. \A R \in SUBSET S : Cardinality(R) \in Nat /\ (Cardinality(R) = 0 <=> R = {})
  BY FS_Subset, FS_CardinalityType, FS_EmptySet
<1>1. 0 \in U
  BY <1>card
<1>2. ASSUME NEW n \in Nat, n \in U PROVE n + 1 \in U
  <2> SUFFICES ASSUME NEW R \in SUBSET S, Cardinality(R) = n + 1 PROVE R \in T
    OBVIOUS
  <2>1. PICK x \in R : TRUE
    BY <1>card
  <2>2. R \ {x} \in SUBSET S /\ Cardinality(R \ {x}) = n
    BY SmallerByOne
  <2>3. R \ {x} \in T /\ x \in S \ (R \ {x}) /\ (R \ {x}) \cup {x} = R
    BY <1>2, <2>2
  <2> QED
    BY <2>2, <2>3
<1> HIDE DEF U
<1>3. \A n \in Nat : n \in U
  BY <1>1, <1>2, Induction
<1> QED
  BY <1>3, <1>card DEF U

\* The sum of what g says of the elements of S.
Over(g, S) == Sum([x \in S |-> g[x]])

LEMMA OverPlus ==
  ASSUME NEW g, NEW S, IsFiniteSet(S), \A x \in S : g[x] \in Int
  PROVE  /\ Over(g, {}) = 0 /\ Over(g, S) \in Int
         /\ \A x \in S : Over(g, S) = Over(g, S \ {x}) + g[x]
<1> DEFINE f == [x \in S |-> g[x]]
           z == [x \in {} |-> g[x]]
<1>1. DOMAIN f = S /\ DOMAIN z = {} /\ IsFiniteSet({}) /\ \A x \in S : f[x] = g[x]
  BY FS_EmptySet
<1>2. \A x \in S : [y \in DOMAIN f \ {x} |-> f[y]] = [y \in S \ {x} |-> g[y]]
  OBVIOUS
<1>3. Over(g, {}) = Sum(z) /\ Over(g, S) = Sum(f)
      /\ \A x \in S : Over(g, S \ {x}) = Sum([y \in S \ {x} |-> g[y]])
  BY DEF Over
<1> HIDE DEF f, z
<1>4. Sum(z) = 0
  BY <1>1, SumPlus
<1>5. Sum(f) \in Int /\ \A x \in DOMAIN f : Sum(f) = f[x] + Sum([y \in DOMAIN f \ {x} |-> f[y]])
  BY <1>1, SumPlus
<1>6. ASSUME NEW x \in S PROVE Over(g, S) = Over(g, S \ {x}) + g[x]
  <2>1. Sum(f) = f[x] + Sum([y \in DOMAIN f \ {x} |-> f[y]])
    BY <1>1, <1>5
  <2>2. Sum(f) = g[x] + Over(g, S \ {x})
    BY <1>1, <1>2, <1>3, <2>1
  <2>3. IsFiniteSet(S \ {x}) /\ DOMAIN [y \in S \ {x} |-> g[y]] = S \ {x}
    BY FS_Subset
  <2>4. Over(g, S \ {x}) \in Int
    <3> DEFINE h == [y \in S \ {x} |-> g[y]]
    <3>1. \A y \in DOMAIN h : h[y] \in Int
      OBVIOUS
    <3> HIDE DEF h
    <3>2. Sum(h) \in Int
      BY <2>3, <3>1, SumPlus DEF h
    <3> QED
      BY <1>3, <3>2 DEF h
  <2> QED
    BY <1>3, <2>2, <2>4
<1> QED
  BY <1>3, <1>4, <1>5, <1>6

\* One element more.
LEMMA OverOneMore ==
  ASSUME NEW g, NEW S, IsFiniteSet(S), NEW x, x \notin S, g[x] \in Int, \A y \in S : g[y] \in Int
  PROVE  /\ IsFiniteSet(S \cup {x}) /\ Over(g, S) \in Int
         /\ Over(g, S \cup {x}) = Over(g, S) + g[x] /\ Over(g, S \cup {x}) \in Int
<1>1. IsFiniteSet(S \cup {x}) /\ (S \cup {x}) \ {x} = S /\ x \in S \cup {x}
      /\ \A y \in S \cup {x} : g[y] \in Int
  BY FS_AddElement
<1>2. Over(g, S \cup {x}) = Over(g, (S \cup {x}) \ {x}) + g[x] /\ Over(g, S \cup {x}) \in Int
  BY <1>1, OverPlus
<1>3. Over(g, S) \in Int
  BY OverPlus
<1> QED
  BY <1>1, <1>2, <1>3

\* The sum over two sets that share nothing.
LEMMA OverUnion ==
  ASSUME NEW g, NEW A, NEW B, IsFiniteSet(A), IsFiniteSet(B), A \cap B = {},
         \A x \in A \cup B : g[x] \in Int
  PROVE  Over(g, A \cup B) = Over(g, A) + Over(g, B)
<1> DEFINE T == {R \in SUBSET B : Over(g, A \cup R) = Over(g, A) + Over(g, R)}
<1>0. Over(g, {}) = 0 /\ Over(g, A) \in Int
  BY OverPlus
<1>1. {} \in T
  <2>1. {} \in SUBSET B /\ A \cup {} = A
    OBVIOUS
  <2> QED
    BY <1>0, <2>1
<1>2. ASSUME NEW R \in SUBSET B, NEW x \in B \ R, R \in T PROVE R \cup {x} \in T
  <2>1. IsFiniteSet(R) /\ IsFiniteSet(A \cup R) /\ x \notin A \cup R /\ g[x] \in Int
        /\ (\A y \in R : g[y] \in Int) /\ (\A y \in A \cup R : g[y] \in Int)
    BY FS_Subset, FS_Union
  <2>2. Over(g, R) \in Int /\ Over(g, R \cup {x}) = Over(g, R) + g[x]
    BY <2>1, OverOneMore
  <2>3. Over(g, (A \cup R) \cup {x}) = Over(g, A \cup R) + g[x]
    BY <2>1, OverOneMore
  <2>4. (A \cup R) \cup {x} = A \cup (R \cup {x}) /\ R \cup {x} \in SUBSET B
    OBVIOUS
  <2>5. Over(g, A \cup R) = Over(g, A) + Over(g, R)
    BY <1>2
  <2>6. Over(g, A \cup (R \cup {x})) = Over(g, A) + Over(g, R \cup {x})
    <3> DEFINE AR == A \cup R
               RX == R \cup {x}
    <3>1. Over(g, A \cup RX) = Over(g, AR) + g[x]
      BY <2>3, <2>4
    <3>2. Over(g, AR) = Over(g, A) + Over(g, R) /\ Over(g, RX) = Over(g, R) + g[x]
      BY <2>2, <2>5
    <3>3. g[x] \in Int
      OBVIOUS
    <3> HIDE DEF AR, RX
    <3>4. Over(g, A \cup RX) = Over(g, A) + Over(g, RX)
      BY <1>0, <2>2, <3>1, <3>2, <3>3
    <3> QED
      BY <3>4 DEF RX
  <2> QED
    BY <2>4, <2>6
<1>3. B \in T
  <2> HIDE DEF T
  <2> QED
    BY <1>1, <1>2, SetInduction
<1> QED
  BY <1>3

\* A sign is taken out of a sum.
LEMMA OverSigned ==
  ASSUME NEW g, NEW h, NEW S, IsFiniteSet(S), NEW s \in {1, -1},
         \A x \in S : h[x] \in Int /\ g[x] = s * h[x]
  PROVE  Over(g, S) = s * Over(h, S) /\ Over(h, S) \in Int
<1> DEFINE T == {R \in SUBSET S : Over(g, R) = s * Over(h, R)}
<1>0. Over(g, {}) = 0 /\ Over(h, {}) = 0 /\ Over(h, S) \in Int /\ \A x \in S : g[x] \in Int
  <2>1. \A x \in S : g[x] \in Int
    OBVIOUS
  <2> QED
    BY <2>1, OverPlus
<1>1. {} \in T
  BY <1>0
<1>2. ASSUME NEW R \in SUBSET S, NEW x \in S \ R, R \in T PROVE R \cup {x} \in T
  <2>1. IsFiniteSet(R) /\ x \notin R
    BY FS_Subset
  <2>2. Over(h, R) \in Int /\ Over(h, R \cup {x}) = Over(h, R) + h[x]
    BY <2>1, OverOneMore
  <2>3. Over(g, R \cup {x}) = Over(g, R) + g[x]
    BY <1>0, <2>1, OverOneMore
  <2>4. Over(g, R) = s * Over(h, R) /\ g[x] = s * h[x] /\ h[x] \in Int /\ R \cup {x} \in SUBSET S
    BY <1>2
  <2>5. Over(g, R \cup {x}) = s * Over(h, R \cup {x})
    BY <2>2, <2>3, <2>4
  <2> QED
    BY <2>4, <2>5
<1>3. S \in T
  <2> HIDE DEF T
  <2> QED
    BY <1>1, <1>2, SetInduction
<1> QED
  BY <1>0, <1>3

\* A sum of less is less.
LEMMA OverAtMost ==
  ASSUME NEW g, NEW h, NEW S, IsFiniteSet(S),
         \A x \in S : g[x] \in Int /\ h[x] \in Int /\ g[x] <= h[x]
  PROVE  Over(g, S) <= Over(h, S)
<1> DEFINE T == {R \in SUBSET S : Over(g, R) <= Over(h, R)}
<1>1. {} \in T
  <2>1. Over(g, {}) = 0 /\ Over(h, {}) = 0 /\ {} \in SUBSET S
    BY OverPlus
  <2> QED
    BY <2>1
<1>2. ASSUME NEW R \in SUBSET S, NEW x \in S \ R, R \in T PROVE R \cup {x} \in T
  <2>1. IsFiniteSet(R) /\ x \notin R
    BY FS_Subset
  <2>2. Over(h, R) \in Int /\ Over(h, R \cup {x}) = Over(h, R) + h[x]
    BY <2>1, OverOneMore
  <2>3. Over(g, R) \in Int /\ Over(g, R \cup {x}) = Over(g, R) + g[x]
    BY <2>1, OverOneMore
  <2>4. Over(g, R) <= Over(h, R) /\ R \cup {x} \in SUBSET S
    BY <1>2
  <2>5. Over(g, R \cup {x}) <= Over(h, R \cup {x})
    BY <2>2, <2>3, <2>4
  <2> QED
    BY <2>4, <2>5
<1>3. S \in T
  <2> HIDE DEF T
  <2> QED
    BY <1>1, <1>2, SetInduction
<1> QED
  BY <1>3

\* What was divided among the orders adds up.
LEMMA OverOrders ==
  ASSUME NEW g, NEW O, IsFiniteSet(O), NEW M,
         \A o \in O : IsFiniteSet(M[o]) /\ \A x \in M[o] : g[x] \in Int,
         \A o, p \in O : o # p => M[o] \cap M[p] = {},
         NEW U, \A x : x \in U <=> \E o \in O : x \in M[o],
         NEW part, \A o \in O : part[o] = Over(g, M[o])
  PROVE  IsFiniteSet(U) /\ Over(g, U) = Over(part, O)
<1> DEFINE All(R) == UNION {M[o] : o \in R}
           T == {R \in SUBSET O : IsFiniteSet(All(R)) /\ Over(g, All(R)) = Over(part, R)}
<1>0. \A o \in O : part[o] \in Int
  BY OverPlus
<1>1. {} \in T
  <2>1. All({}) = {} /\ {} \in SUBSET O
    OBVIOUS
  <2>2. Over(part, {}) = 0 /\ Over(g, {}) = 0 /\ IsFiniteSet({})
    BY OverPlus, FS_EmptySet
  <2> QED
    BY <2>1, <2>2
<1>2. ASSUME NEW R \in SUBSET O, NEW p \in O \ R, R \in T PROVE R \cup {p} \in T
  <2>1. All(R \cup {p}) = All(R) \cup M[p] /\ All(R) \cap M[p] = {}
    OBVIOUS
  <2>2. IsFiniteSet(R) /\ IsFiniteSet(All(R)) /\ IsFiniteSet(M[p]) /\ Over(g, All(R)) = Over(part, R)
    BY <1>2, FS_Subset
  <2>3. \A x \in All(R) \cup M[p] : g[x] \in Int
    OBVIOUS
  <2>4. part[p] = Over(g, M[p]) /\ p \notin R /\ R \cup {p} \in SUBSET O
    OBVIOUS
  <2> HIDE DEF All
  <2>5. Over(g, All(R) \cup M[p]) = Over(g, All(R)) + Over(g, M[p])
    BY <2>1, <2>2, <2>3, OverUnion
  <2>7. IsFiniteSet(All(R) \cup M[p])
    BY <2>2, FS_Union
  <2>6. Over(part, R \cup {p}) = Over(part, R) + part[p]
    BY <1>0, <2>2, <2>4, OverOneMore
  <2> QED
    BY <2>1, <2>2, <2>4, <2>5, <2>6, <2>7
<1>3. O \in T
  <2> HIDE DEF T
  <2> QED
    BY <1>1, <1>2, SetInduction
<1>4. All(O) = U
  OBVIOUS
<1> QED
  BY <1>3, <1>4

-----------------------------------------------------------------------------
(* The order of the replay: each execution has its place in it.             *)

Below(E, e) == {f \in E : Earlier(f, e)}
First(E, n) == {e \in E : Cardinality(Below(E, e)) < n}
Keyed(E) == \A e, f \in E : e.order = f.order /\ e.cumulative = f.cumulative => e = f

\* Of two executions one is earlier, and has more than the other's before it.
LEMMA EarlierIs ==
  ASSUME NEW E \in SUBSET Executions, IsFiniteSet(E), Keyed(E), NEW e \in E, NEW f \in E
  PROVE  /\ Cardinality(Below(E, e)) \in 0..(Cardinality(E) - 1)
         /\ e # f => Earlier(e, f) \/ Earlier(f, e)
         /\ Earlier(e, f) => Cardinality(Below(E, e)) < Cardinality(Below(E, f))
<1>0. \A x \in E : x.time \in Int /\ x.order \in Int /\ x.cumulative \in Int
  BY DEF Executions
<1>1. ~Earlier(e, e)
  BY <1>0 DEF Earlier
<1>2. IsFiniteSet(Below(E, e)) /\ IsFiniteSet(Below(E, f)) /\ e \notin Below(E, e)
      /\ Below(E, e) \subseteq E /\ Below(E, f) \subseteq E
  BY <1>1, FS_Subset DEF Below
<1>3. /\ Cardinality(Below(E, e)) \in Nat /\ Cardinality(Below(E, f)) \in Nat /\ Cardinality(E) \in Nat
      /\ IsFiniteSet(Below(E, e) \cup {e})
      /\ Cardinality(Below(E, e) \cup {e}) = Cardinality(Below(E, e)) + 1
  BY <1>2, FS_CardinalityType, FS_AddElement
<1>4. Cardinality(Below(E, e) \cup {e}) <= Cardinality(E)
  BY <1>2, FS_Subset
<1>5. e # f => Earlier(e, f) \/ Earlier(f, e)
  BY <1>0 DEF Earlier, Keyed
<1>6. ASSUME Earlier(e, f) PROVE Cardinality(Below(E, e)) < Cardinality(Below(E, f))
  <2>1. \A x \in Below(E, e) : Earlier(x, f)
    <3> SUFFICES ASSUME NEW x \in E, Earlier(x, e) PROVE Earlier(x, f)
      BY DEF Below
    <3> QED
      BY <1>0, <1>6 DEF Earlier
  <2>2. Below(E, e) \cup {e} \subseteq Below(E, f)
    BY <1>6, <2>1 DEF Below
  <2>3. Cardinality(Below(E, e) \cup {e}) <= Cardinality(Below(E, f))
    BY <1>2, <2>2, FS_Subset
  <2> QED
    BY <1>3, <2>3
<1> QED
  BY <1>3, <1>4, <1>5, <1>6

\* InOrder has every execution, and those before the n-th are the n - 1 first.
LEMMA InOrderIs ==
  ASSUME NEW E \in SUBSET Executions, IsFiniteSet(E), Keyed(E)
  PROVE  /\ Len(InOrder(E)) = Cardinality(E) /\ Cardinality(E) \in Nat
         /\ First(E, 0) = {} /\ First(E, Cardinality(E)) = E
         /\ \A n \in 1..Cardinality(E) :
              /\ InOrder(E)[n] \in E \ First(E, n - 1)
              /\ First(E, n) = First(E, n - 1) \cup {InOrder(E)[n]}
<1> DEFINE c == Cardinality(E)
           rank == [e \in E |-> Cardinality(Below(E, e))]
<1>0. c \in Nat /\ IsFiniteSet(0..(c - 1)) /\ Cardinality(0..(c - 1)) = c
  <2>1. c \in Nat
    BY FS_CardinalityType
  <2> HIDE DEF c
  <2>2. 0 \in Int /\ c - 1 \in Int
    BY <2>1
  <2> QED
    BY <2>1, <2>2, FS_Interval
<1>1. \A e \in E : rank[e] \in 0..(c - 1)
  BY EarlierIs
<1>2. ASSUME NEW e \in E, NEW f \in E, rank[e] = rank[f] PROVE e = f
  <2>1. e # f => Earlier(e, f) \/ Earlier(f, e)
    BY EarlierIs
  <2>2. ~Earlier(e, f)
    <3>1. Earlier(e, f) => Cardinality(Below(E, e)) < Cardinality(Below(E, f))
      BY EarlierIs
    <3> QED
      BY <1>1, <1>2, <3>1
  <2>3. ~Earlier(f, e)
    <3>1. Earlier(f, e) => Cardinality(Below(E, f)) < Cardinality(Below(E, e))
      BY EarlierIs
    <3> QED
      BY <1>1, <1>2, <3>1
  <2> QED
    BY <2>1, <2>2, <2>3
<1>3. \A n \in 1..c : \E e \in E : rank[e] = n - 1
  <2>1. rank \in [E -> 0..(c - 1)]
    BY <1>1
  <2> HIDE DEF rank
  <2>2. rank \in Injection(E, 0..(c - 1))
    BY <1>2, <2>1 DEF Injection, IsInjective
  <2>3. rank \in Surjection(E, 0..(c - 1))
    <3> HIDE DEF c
    <3>1. rank \in Surjection(E, 0..(c - 1)) <=> Cardinality(E) = Cardinality(0..(c - 1))
      BY <1>0, <2>2, FS_Injection
    <3> QED
      BY <1>0, <3>1 DEF c
  <2>4. \A k \in 0..(c - 1) : \E e \in E : rank[e] = k
    BY <2>3 DEF Surjection
  <2>5. \A n \in 1..c : n - 1 \in 0..(c - 1)
    BY <1>0
  <2> QED
    BY <2>4, <2>5
<1>4. \A n : First(E, n) = {e \in E : rank[e] < n}
  BY DEF First
<1>5. \A n \in 1..c : InOrder(E)[n] = CHOOSE e \in E : rank[e] = n - 1
  <2> SUFFICES ASSUME NEW n \in 1..c PROVE InOrder(E)[n] = CHOOSE e \in E : rank[e] = n - 1
    OBVIOUS
  <2>1. InOrder(E)[n] = CHOOSE e \in E : Cardinality({f \in E : Earlier(f, e)}) = n - 1
    BY DEF InOrder
  <2>2. \A e \in E : rank[e] = Cardinality({f \in E : Earlier(f, e)})
    BY DEF Below
  <2> QED
    BY <2>1, <2>2
<1>6. Len(InOrder(E)) = c
  BY <1>0 DEF InOrder
<1> HIDE DEF rank, c
<1>7. First(E, 0) = {} /\ First(E, c) = E
  <2>1. \A e \in E : ~(rank[e] < 0) /\ rank[e] < c
    BY <1>0, <1>1
  <2>2. First(E, 0) = {e \in E : rank[e] < 0} /\ First(E, c) = {e \in E : rank[e] < c}
    BY <1>4
  <2> QED
    BY <2>1, <2>2
<1>8. ASSUME NEW n \in 1..c
      PROVE  /\ InOrder(E)[n] \in E \ First(E, n - 1)
             /\ First(E, n) = First(E, n - 1) \cup {InOrder(E)[n]}
  <2> DEFINE e == InOrder(E)[n]
  <2>1. e \in E /\ rank[e] = n - 1
    BY <1>3, <1>5
  <2> HIDE DEF e
  <2>2. \A f \in E : rank[f] \in Int /\ (rank[f] < n <=> rank[f] < n - 1 \/ rank[f] = n - 1)
    BY <1>0, <1>1
  <2>3. \A f \in E : rank[f] = n - 1 => f = e
    BY <1>2, <2>1
  <2>4. e \notin First(E, n - 1)
    BY <1>4, <2>1, <2>2
  <2>5. First(E, n) = First(E, n - 1) \cup {e}
    BY <1>4, <2>1, <2>2, <2>3
  <2> QED
    BY <2>1, <2>4, <2>5 DEF e
<1> QED
  BY <1>0, <1>6, <1>7, <1>8 DEF c

-----------------------------------------------------------------------------
(* The book after each of the events.                                       *)

IsBook(events, b) ==
  b = [n \in 0..Len(events) |->
         IF n = 0 THEN NoPosition
         ELSE CHOOSE book \in {ApplyExecution(p, events[n]) : p \in {b[n - 1]}} : TRUE]
Books(events) == CHOOSE b : IsBook(events, b)

LEMMA BooksAre ==
  ASSUME NEW events, Len(events) \in Nat
  PROVE  /\ BookAfter(events) = Books(events)[Len(events)]
         /\ Books(events)[0] = NoPosition
         /\ \A n \in 1..Len(events) :
              Books(events)[n] = ApplyExecution(Books(events)[n - 1], events[n])
<1> DEFINE N == Len(events)
           Step(g, k) == g[k] = ApplyExecution(g[k - 1], events[k])
           Agrees(g, n) == g[0] = NoPosition /\ \A k \in 1..n : Step(g, k)
           T == {n \in Nat : \E g : Agrees(g, n)}
<1>1. 0 \in T
  <2> DEFINE g == [k \in {0} |-> NoPosition]
  <2>1. Agrees(g, 0)
    OBVIOUS
  <2> QED
    BY <2>1
<1>2. ASSUME NEW n \in Nat, n \in T PROVE n + 1 \in T
  <2>1. PICK g : Agrees(g, n)
    BY <1>2
  <2> DEFINE last == ApplyExecution(g[n], events[n + 1])
             h == [k \in 0..(n + 1) |-> IF k = n + 1 THEN last ELSE g[k]]
  <2>2. h[0] = NoPosition
    BY <2>1
  <2>3. ASSUME NEW k \in 1..(n + 1) PROVE Step(h, k)
    <3>1. CASE k = n + 1
      <4>1. h[k] = last /\ h[k - 1] = g[n]
        BY <3>1
      <4> QED
        BY <3>1, <4>1
    <3>2. CASE k # n + 1
      <4>1. k \in 1..n /\ h[k] = g[k] /\ h[k - 1] = g[k - 1]
        BY <3>2
      <4> QED
        BY <2>1, <4>1
    <3> QED
      BY <3>1, <3>2
  <2> HIDE DEF h, Step
  <2> QED
    BY <2>2, <2>3
<1>3. PICK g : Agrees(g, N)
  <2>1. N \in T
    <3> HIDE DEF T
    <3> QED
      BY <1>1, <1>2, Induction
  <2> QED
    BY <2>1
<1>4. \A n, q : (CHOOSE book \in {ApplyExecution(p, events[n]) : p \in {q}} : TRUE)
                 = ApplyExecution(q, events[n])
  OBVIOUS
<1> DEFINE b == [n \in 0..N |-> g[n]]
<1>5. IsBook(events, b)
  <2>1. \A n \in 1..N : n - 1 \in 0..N /\ n \in 0..N /\ n # 0
    OBVIOUS
  <2>2. 0 \in 0..N /\ \A n \in 0..N : n # 0 => n \in 1..N
    OBVIOUS
  <2>3. \A n \in 1..N : b[n] = ApplyExecution(b[n - 1], events[n])
    BY <1>3, <2>1
  <2>4. b[0] = NoPosition
    BY <1>3, <2>2
  <2> DEFINE rhs == [n \in 0..N |->
                       IF n = 0 THEN NoPosition
                       ELSE CHOOSE book \in {ApplyExecution(p, events[n]) : p \in {b[n - 1]}} : TRUE]
  <2>5. \A n \in 0..N : b[n] = rhs[n]
    <3> HIDE DEF b, N
    <3> QED
      BY <1>4, <2>2, <2>3, <2>4
  <2>6. DOMAIN b = 0..N /\ DOMAIN rhs = 0..N /\ b = [n \in 0..N |-> b[n]] /\ rhs = [n \in 0..N |-> rhs[n]]
    OBVIOUS
  <2>7. b = rhs
    <3> HIDE DEF b, rhs, N
    <3> QED
      BY <2>5, <2>6
  <2> QED
    BY <2>7 DEF IsBook
<1>6. IsBook(events, Books(events))
  BY <1>5, Zenon DEF Books
<1>7. BookAfter(events) = Books(events)[Len(events)]
  BY Zenon DEF BookAfter, Books, IsBook
<1>8. Books(events)[0] = NoPosition
  BY <1>6 DEF IsBook
<1>9. ASSUME NEW n \in 1..N PROVE Books(events)[n] = ApplyExecution(Books(events)[n - 1], events[n])
  <2>1. n \in 0..Len(events) /\ n # 0
    OBVIOUS
  <2>2. Books(events)[n] = CHOOSE book \in {ApplyExecution(p, events[n]) : p \in {Books(events)[n - 1]}} : TRUE
    BY <1>6, <2>1 DEF IsBook
  <2> QED
    BY <1>4, <2>2
<1> QED
  BY <1>7, <1>8, <1>9

-----------------------------------------------------------------------------
(* One execution.  A book balances when what it has realized is the cash of *)
(* its executions plus the cost of what is open; it stays so as long as the *)
(* average is blended without a remainder.                                  *)

Multiple(x, g) == \E k \in Nat : x = k * g

\* A multiple of g is divided by d into a multiple of h.
LEMMA Blends ==
  ASSUME NEW d \in Nat \ {0}, NEW g \in Nat \ {0}, NEW h \in Nat \ {0}, g % (d * h) = 0,
         NEW x \in Nat, Multiple(x, g)
  PROVE  /\ x \div d \in Nat /\ d * (x \div d) = x
         /\ Multiple(x \div d, h) /\ Multiple(x, h)
<1>1. PICK y \in Nat : x = y * g
  BY DEF Multiple
<1> DEFINE dh == d * h
           m == g \div dh
<1>2. dh \in Nat \ {0}
  BY SMT
<1>3. m \in Nat /\ g = dh * m
  <2>1. g % dh = 0
    OBVIOUS
  <2> HIDE DEF dh
  <2> QED
    BY <1>2, <2>1
<1> DEFINE k == m * y
           q == k * h
<1>4. k \in Nat /\ q \in Nat /\ x = d * q
  <2>1. k \in Nat /\ k * h \in Nat
    <3> HIDE DEF m
    <3> QED
      BY <1>3
  <2>2. x = y * ((d * h) * m)
    BY <1>1, <1>3 DEF dh
  <2> HIDE DEF m
  <2>3. y * ((d * h) * m) = d * ((m * y) * h)
    BY <1>3
  <2> QED
    BY <2>1, <2>2, <2>3
<1> HIDE DEF q
<1>5. (d * q) \div d = q
  BY <1>4
<1>6. x \div d = q
  BY <1>4, <1>5
<1>7. Multiple(q, h) /\ Multiple(x, h)
  <2>1. Multiple(q, h)
    BY <1>4 DEF q, Multiple
  <2>2. x = (d * k) * h /\ d * k \in Nat
    <3> HIDE DEF k
    <3> QED
      BY <1>4 DEF q
  <2> QED
    BY <2>1, <2>2 DEF Multiple
<1> QED
  BY <1>4, <1>6, <1>7

\* Sums of multiples are multiples.
LEMMA Multiples ==
  ASSUME NEW g \in Nat, NEW x \in Nat, NEW y \in Nat, Multiple(x, g), Multiple(y, g),
         NEW v \in Nat, NEW w \in Nat
  PROVE  x * v + y * w \in Nat /\ Multiple(x * v + y * w, g)
<1>1. PICK a \in Nat : x = a * g
  BY DEF Multiple
<1>2. PICK b \in Nat : y = b * g
  BY DEF Multiple
<1>3. x * v + y * w \in Nat /\ a * v + b * w \in Nat
  BY SMT
<1>4. x * v + y * w = (a * v + b * w) * g
  BY <1>1, <1>2
<1> QED
  BY <1>3, <1>4 DEF Multiple

Position == [quantity : Int, avgPrice : Nat, openedAt : Nat \cup {Null}, realized : Int]

Balanced(book, V, C, g) ==
  /\ book \in Position
  /\ book.quantity = V /\ Multiple(book.avgPrice, g)
  /\ book.realized = V * book.avgPrice - C

\* Adding to a position: the blended average costs what both parts cost.
LEMMA AddedBalances ==
  ASSUME NEW p, NEW e \in Executions, e.quantity > 0, NEW s \in {1, -1},
         NEW V \in Int, NEW C \in Int, NEW g \in Nat \ {0}, NEW h \in Nat \ {0},
         Balanced(p, V, C, g), g % ((Abs(V) + e.quantity) * h) = 0,
         e.price \in Nat, Multiple(e.price, h), V # 0 => Multiple(e.price, g),
         V = 0 \/ Sign(V) = Sign(s * e.quantity)
  PROVE  Balanced(Added(p, s * e.quantity, e), V + s * e.quantity, C + s * (e.quantity * e.price), h)
<1> DEFINE w == e.quantity
           P == e.price
           A == p.avgPrice
           v == Abs(V)
           d == v + w
           x == A * v + P * w
           a == x \div d
           b == Added(p, s * w, e)
<1>0. /\ w \in Nat \ {0} /\ P \in Nat /\ A \in Nat /\ v \in Nat /\ d \in Nat \ {0} /\ e.time \in Nat
      /\ p \in Position /\ p.quantity = V /\ Multiple(A, g) /\ p.realized = V * A - C
      /\ s * w \in Int
  <2>1. w \in Nat \ {0} /\ P \in Nat /\ e.time \in Nat
    BY DEF Executions
  <2>2. A \in Nat /\ p \in Position /\ p.quantity = V /\ Multiple(A, g) /\ p.realized = V * A - C
    BY DEF Balanced, Position
  <2>3. v \in Nat
    BY DEF Abs
  <2> HIDE DEF w, P, A, v
  <2>4. d \in Nat \ {0} /\ s * w \in Int
    BY <2>1, <2>3
  <2> QED
    BY <2>1, <2>2, <2>3, <2>4
<1>1. /\ b \in [quantity : {V + s * w}, avgPrice : {a}, openedAt : Nat \cup {Null}, realized : {p.realized}]
  <2>1. b = [p EXCEPT !.quantity = V + s * w, !.avgPrice = a,
                      !.openedAt = IF V = 0 THEN e.time ELSE p.openedAt]
    BY <1>0 DEF Added, Position
  <2> HIDE DEF b, a, w
  <2> QED
    BY <1>0, <2>1 DEF Position
<1>2. a \in Nat /\ d * a = x /\ Multiple(a, h)
  <2>1. CASE V = 0
    <3>0. v = 0
      BY <2>1 DEF Abs
    <3>1. d = w /\ x = w * P
      <4> HIDE DEF w, P, A, v
      <4> QED
        BY <1>0, <3>0
    <3> HIDE DEF w, P, A, v, d, x
    <3>2. (w * P) \div w = P
      BY <1>0
    <3> QED
      BY <1>0, <3>1, <3>2 DEF P, d
  <2>2. CASE V # 0
    <3>1. Multiple(P, g) /\ g \in Nat /\ g % (d * h) = 0
      BY <2>2
    <3> HIDE DEF w, P, A, v, d
    <3>2. x \in Nat /\ Multiple(x, g)
      BY <1>0, <3>1, Multiples
    <3> HIDE DEF x
    <3> QED
      BY <1>0, <3>1, <3>2, Blends
  <2> QED
    BY <2>1, <2>2
<1>3. V + s * w = IF V > 0 \/ (V = 0 /\ s = 1) THEN d ELSE -d
  <2>1. (V > 0 \/ (V = 0 /\ s = 1)) => v = V /\ s = 1
    BY <1>0 DEF Sign, Abs
  <2>2. ~(V > 0 \/ (V = 0 /\ s = 1)) => v = -V /\ s = -1
    BY <1>0 DEF Sign, Abs
  <2> HIDE DEF v, w
  <2> QED
    BY <1>0, <2>1, <2>2
<1>4. (V + s * w) * a - (C + s * (w * P)) = V * A - C
  <2>0. w * P \in Int /\ A * v \in Int /\ V * A \in Int /\ P * w = w * P
    BY <1>0
  <2>1. CASE V > 0 \/ (V = 0 /\ s = 1)
    <3>1. V + s * w = d /\ v = V /\ s = 1
      BY <1>0, <1>3, <2>1 DEF Sign, Abs
    <3>2. (V + s * w) * a = A * V + w * P
      <4> HIDE DEF a, d, w, P, A, v
      <4> QED
        BY <1>2, <2>0, <3>1
    <3> HIDE DEF a, d, w, P, A, v
    <3> QED
      BY <1>0, <2>0, <3>1, <3>2
  <2>2. CASE ~(V > 0 \/ (V = 0 /\ s = 1))
    <3>1. V + s * w = -d /\ v = -V /\ s = -1
      BY <1>0, <1>3, <2>2 DEF Sign, Abs
    <3>2. (V + s * w) * a = -(A * v + w * P)
      <4> HIDE DEF a, d, w, P, A, v
      <4>1. (-d) * a = -(d * a)
        BY <1>0, <1>2
      <4> QED
        BY <1>2, <2>0, <3>1, <4>1 DEF x
    <3>3. A * v = -(V * A)
      <4> HIDE DEF v
      <4> QED
        BY <1>0, <3>1
    <3> HIDE DEF a, d, w, P, A, v
    <3> QED
      BY <1>0, <2>0, <3>1, <3>2, <3>3
  <2> QED
    BY <2>1, <2>2
<1>5. V + s * w \in Int /\ V * A - C \in Int
  BY <1>0
<1> HIDE DEF a, b, w, P, A, d, x, v
<1>6. b \in Position /\ b.quantity = V + s * w /\ b.avgPrice = a /\ b.realized = V * A - C
  BY <1>0, <1>1, <1>2, <1>5 DEF Position
<1> QED
  BY <1>2, <1>4, <1>6 DEF Balanced, b, w, P

\* Reducing, closing or flipping a position: what is closed realizes the difference.
LEMMA ReducedBalances ==
  ASSUME NEW p, NEW e \in Executions, e.quantity > 0, NEW s \in {1, -1},
         NEW V \in Int, NEW C \in Int, NEW h \in Nat \ {0},
         Balanced(p, V, C, h), e.price \in Nat, Multiple(e.price, h),
         V # 0, Sign(V) # Sign(s * e.quantity)
  PROVE  Balanced(Reduced(p, s * e.quantity, e), V + s * e.quantity, C + s * (e.quantity * e.price), h)
<1> DEFINE w == e.quantity
           P == e.price
           A == p.avgPrice
           left == V + s * w
           closing == Smaller(w, Abs(V))
           a == IF left = 0 THEN 0 ELSE IF Sign(left) = Sign(V) THEN A ELSE P
           r == (V * A - C) + (P - A) * closing * Sign(V)
           b == Reduced(p, s * w, e)
<1>0. w \in Nat \ {0} /\ P \in Nat /\ A \in Nat /\ e.time \in Nat
  BY DEF Executions, Balanced, Position
<1>1. p \in Position /\ p.quantity = V /\ Multiple(A, h) /\ p.realized = V * A - C
  BY DEF Balanced
<1>2. /\ b.quantity = left /\ b.avgPrice = a /\ b.realized = r
      /\ b \in [quantity : {left}, avgPrice : {a}, openedAt : Nat \cup {Null}, realized : {r}]
  <2>1. b = [quantity |-> left, avgPrice |-> a,
             openedAt |-> IF left = 0 THEN Null ELSE IF Sign(left) = Sign(V) THEN p.openedAt ELSE e.time,
             realized |-> r]
    BY <1>1 DEF Reduced
  <2>2. p.openedAt \in Nat \cup {Null}
    BY <1>1 DEF Position
  <2> HIDE DEF b, left, a, r
  <2> QED
    BY <1>0, <2>1, <2>2
<1>3. a \in Nat /\ Multiple(a, h)
  <2>1. 0 = 0 * h
    OBVIOUS
  <2>2. Multiple(0, h)
    BY <2>1 DEF Multiple
  <2> HIDE DEF left, A, P
  <2> QED
    BY <1>0, <1>1, <2>2 DEF P
<1>4. r = left * a - (C + s * (w * P))
  <2>s. \/ V > 0 /\ s = -1 /\ Sign(V) = 1 /\ Abs(V) = V
        \/ V < 0 /\ s = 1 /\ Sign(V) = -1 /\ Abs(V) = -V
    <3>1. s * w > 0 <=> s = 1
      <4> HIDE DEF w
      <4> QED
        BY <1>0
    <3>2. s * w \in Int /\ s * w # 0
      <4> HIDE DEF w
      <4> QED
        BY <1>0
    <3> QED
      BY <3>1, <3>2 DEF Sign, Abs
  <2>1. CASE V > 0 /\ s = -1 /\ Sign(V) = 1 /\ Abs(V) = V
    <3>0. left = V - w /\ r = (V * A - C) + (P - A) * closing
      <4>1. closing \in Int
        BY <1>0, <2>1 DEF Smaller
      <4> HIDE DEF w, closing, A, P
      <4>2. (P - A) * closing * 1 = (P - A) * closing /\ s * w = -w
        BY <1>0, <2>1, <4>1
      <4> QED
        BY <1>0, <2>1, <4>2
    <3>p. w * P \in Int /\ s * (w * P) = -(w * P) /\ V * A \in Int /\ V * P \in Int /\ w * A \in Int
      <4> HIDE DEF w, A, P
      <4> QED
        BY <1>0, <2>1
    <3>1. CASE w < V
      <4>1. closing = w /\ a = A
        BY <1>0, <2>1, <3>0, <3>1 DEF Smaller, Sign
      <4> HIDE DEF w, A, P, left, r, a, closing
      <4> QED
        BY <1>0, <2>1, <3>0, <3>p, <4>1
    <3>2. CASE w = V
      <4>1. closing = w /\ a = 0 /\ left = 0
        BY <1>0, <2>1, <3>0, <3>2 DEF Smaller, Sign
      <4> HIDE DEF w, A, P, left, r, a, closing
      <4> QED
        BY <1>0, <2>1, <3>0, <3>2, <3>p, <4>1
    <3>3. CASE w > V
      <4>1. closing = V /\ a = P
        BY <1>0, <2>1, <3>0, <3>3 DEF Smaller, Sign
      <4> HIDE DEF w, A, P, left, r, a, closing
      <4> QED
        BY <1>0, <2>1, <3>0, <3>p, <4>1
    <3> HIDE DEF w
    <3> QED
      BY <1>0, <3>1, <3>2, <3>3
  <2>2. CASE V < 0 /\ s = 1 /\ Sign(V) = -1 /\ Abs(V) = -V
    <3>0. left = V + w /\ r = (V * A - C) - (P - A) * closing
      <4>1. closing \in Int
        BY <1>0, <2>2 DEF Smaller
      <4> HIDE DEF w, closing, A, P
      <4>2. (P - A) * closing * (-1) = -((P - A) * closing) /\ s * w = w /\ (P - A) * closing \in Int
        BY <1>0, <2>2, <4>1
      <4>3. V * A - C \in Int
        BY <1>0
      <4> QED
        BY <1>0, <2>2, <4>2, <4>3
    <3>p. w * P \in Int /\ s * (w * P) = w * P /\ V * A \in Int /\ V * P \in Int /\ w * A \in Int
      <4> HIDE DEF w, A, P
      <4> QED
        BY <1>0, <2>2
    <3>1. CASE w < -V
      <4>1. closing = w /\ a = A
        BY <1>0, <2>2, <3>0, <3>1 DEF Smaller, Sign
      <4> HIDE DEF w, A, P, left, r, a, closing
      <4> QED
        BY <1>0, <2>2, <3>0, <3>p, <4>1
    <3>2. CASE w = -V
      <4>1. closing = w /\ a = 0 /\ left = 0
        BY <1>0, <2>2, <3>0, <3>2 DEF Smaller, Sign
      <4> HIDE DEF w, A, P, left, r, a, closing
      <4> QED
        BY <1>0, <2>2, <3>0, <3>2, <3>p, <4>1
    <3>3. CASE w > -V
      <4>1. closing = -V /\ a = P
        BY <1>0, <2>2, <3>0, <3>3 DEF Smaller, Sign
      <4> HIDE DEF w, A, P, left, r, a, closing
      <4> QED
        BY <1>0, <2>2, <3>0, <3>p, <4>1
    <3> HIDE DEF w
    <3> QED
      BY <1>0, <3>1, <3>2, <3>3
  <2> QED
    BY <2>s, <2>1, <2>2
<1>5. left \in Int /\ left * a - (C + s * (w * P)) \in Int
  <2>1. left \in Int
    <3> HIDE DEF w
    <3> QED
      BY <1>0
  <2> HIDE DEF w, P, left, a
  <2> QED
    BY <1>0, <1>3, <2>1
<1>6. b \in Position
  <2> HIDE DEF b, a, r, left, w, P, A
  <2> QED
    BY <1>2, <1>3, <1>4, <1>5 DEF Position
<1> HIDE DEF b, a, r, left
<1> QED
  BY <1>2, <1>3, <1>4, <1>6 DEF Balanced, b, left

\* One execution, whichever way it takes the position.
LEMMA ExecutionBalances ==
  ASSUME NEW p, NEW e \in Executions, e.order \in Orders, e.quantity > 0, e.price \in Nat,
         NEW V \in Int, NEW C \in Int, NEW g \in Nat \ {0}, NEW h \in Nat \ {0},
         Balanced(p, V, C, g), g % ((Abs(V) + e.quantity) * h) = 0,
         Multiple(e.price, h), V # 0 => Multiple(e.price, g)
  PROVE  Balanced(ApplyExecution(p, e), V + Side[e.order] * e.quantity,
                  C + Side[e.order] * (e.quantity * e.price), h)
<1> DEFINE s == Side[e.order]
<1>0. s \in {1, -1} /\ p.quantity = V
  BY ReplayAssumption DEF Balanced
<1>1. CASE V = 0 \/ Sign(V) = Sign(s * e.quantity)
  <2>1. ApplyExecution(p, e) = Added(p, s * e.quantity, e)
    BY <1>0, <1>1 DEF ApplyExecution
  <2> HIDE DEF s
  <2>2. Balanced(Added(p, s * e.quantity, e), V + s * e.quantity, C + s * (e.quantity * e.price), h)
    BY <1>0, <1>1, AddedBalances
  <2> QED
    BY <2>1, <2>2 DEF s
<1>2. CASE ~(V = 0 \/ Sign(V) = Sign(s * e.quantity))
  <2>1. ApplyExecution(p, e) = Reduced(p, s * e.quantity, e)
    BY <1>0, <1>2 DEF ApplyExecution
  <2>2. Abs(V) + e.quantity \in Nat \ {0} /\ p.avgPrice \in Nat /\ Multiple(p.avgPrice, g)
    BY DEF Executions, Balanced, Position, Abs
  <2>3. Multiple(p.avgPrice, h)
    BY <2>2, Blends
  <2>4. Balanced(p, V, C, h)
    BY <2>3 DEF Balanced
  <2> HIDE DEF s
  <2>5. Balanced(Reduced(p, s * e.quantity, e), V + s * e.quantity, C + s * (e.quantity * e.price), h)
    BY <1>0, <1>2, <2>4, ReducedBalances
  <2> QED
    BY <2>1, <2>5 DEF s
<1> QED
  BY <1>1, <1>2

\* The price of an execution, in parts of Scale that its contracts divide.
LEMMA StretchPrice ==
  ASSUME NEW o \in Orders, NEW e \in Executions, Stretch(o, e),
         NEW g \in Nat \ {0}, Scale % (e.quantity * g) = 0
  PROVE  e.quantity > 0 /\ e.price \in Nat /\ Multiple(e.price, g)
<1> DEFINE d == e.quantity
           P == e.price
<1>1. PICK p \in 0..Size[o], q \in 0..Size[o] :
         p < q /\ d = q - p /\ d * P = Notional(o, q) - Notional(o, p)
  BY DEF Stretch
<1>2. PICK paid \in [0..Size[o] -> Nat] :
         /\ \A k \in 0..Size[o] : Notional(o, k) = Scale * paid[k]
         /\ \A k, m \in 0..Size[o] : k < m => paid[k] < paid[m]
  BY PaidInScale
<1> DEFINE k == paid[q] - paid[p]
           x == k * Scale
<1>3. k \in Nat /\ d \in Nat \ {0} /\ P \in Int /\ Scale \in Nat \ {0}
  <2>1. paid[p] \in Nat /\ paid[q] \in Nat /\ paid[p] < paid[q]
    BY <1>1, <1>2
  <2>2. d \in Nat /\ P \in Int /\ Scale \in Nat \ {0}
    BY ReplayAssumption DEF Executions
  <2>3. d \in Nat \ {0}
    BY <1>1, <2>2
  <2> QED
    BY <2>1, <2>2, <2>3
<1>4. d * P = x
  <2>1. d * P = Scale * paid[q] - Scale * paid[p]
    BY <1>1, <1>2
  <2>2. paid[q] \in Int /\ paid[p] \in Int
    BY <1>2
  <2> QED
    BY <1>3, <2>1, <2>2
<1>5. x \in Nat /\ Multiple(x, Scale)
  <2> HIDE DEF k
  <2>1. x \in Nat
    BY <1>3
  <2>2. x = k * Scale
    OBVIOUS
  <2> HIDE DEF x
  <2> QED
    BY <1>3, <2>1, <2>2 DEF Multiple
<1> HIDE DEF x, k
<1>6. x \div d \in Nat /\ d * (x \div d) = x /\ Multiple(x \div d, g)
  <2>1. Scale % (d * g) = 0
    OBVIOUS
  <2> HIDE DEF d
  <2> QED
    BY <1>3, <1>5, <2>1, Blends
<1> HIDE DEF d, P
<1>7. P = x \div d
  BY <1>3, <1>4, <1>6
<1>8. d > 0
  BY <1>3
<1> QED
  BY <1>6, <1>7, <1>8 DEF d, P

-----------------------------------------------------------------------------
(* All executions: what the replay puts in order, and what it adds up to.   *)

Ours == {e \in Executions : e.order \in Orders}
Contracts == [e \in Ours |-> e.quantity]
Costs == [e \in Ours |-> e.quantity * e.price]
Bought == [e \in Ours |-> Side[e.order] * e.quantity]
Spent == [e \in Ours |-> Side[e.order] * (e.quantity * e.price)]

LEMMA OursAre ==
  ASSUME NEW e \in Ours
  PROVE  /\ e \in Executions /\ e.order \in Orders /\ Side[e.order] \in {1, -1}
         /\ e.quantity \in Nat /\ Contracts[e] = e.quantity /\ Contracts[e] \in Nat
         /\ Costs[e] = e.quantity * e.price /\ Costs[e] \in Int
         /\ Bought[e] = Side[e.order] * Contracts[e] /\ Bought[e] \in Int
         /\ Spent[e] = Side[e.order] * Costs[e] /\ Spent[e] \in Int
<1>1. e \in Executions /\ e.order \in Orders /\ Side[e.order] \in {1, -1}
  BY ReplayAssumption DEF Ours
<1>2. e.quantity \in Nat /\ e.price \in Int
  BY <1>1 DEF Executions
<1>3. /\ Contracts[e] = e.quantity /\ Costs[e] = e.quantity * e.price
      /\ Bought[e] = Side[e.order] * e.quantity /\ Spent[e] = Side[e.order] * (e.quantity * e.price)
  BY DEF Contracts, Costs, Bought, Spent
<1> DEFINE s == Side[e.order]
           x == e.quantity * e.price
<1>4. x \in Int /\ s * x \in Int /\ s * e.quantity \in Int
  <2>1. x \in Int
    BY <1>2
  <2>2. s \in Int
    BY <1>1
  <2> HIDE DEF x, s
  <2> QED
    BY <1>2, <2>1, <2>2
<1> QED
  BY <1>1, <1>2, <1>3, <1>4

\* The executions of one order.
Mine == [o \in Orders |-> Increments(o) \cup Remainder(o)]

LEMMA MineIs ==
  ASSUME ReplayInv, NEW o \in Orders
  PROVE  LET w == row[o].executedQuantity
         IN  /\ Mine[o] \in SUBSET Ours /\ IsFiniteSet(Mine[o]) /\ w \in 0..Size[o]
             /\ \A e \in Mine[o] : Stretch(o, e)
             /\ \A e, f \in Mine[o] : e.cumulative = f.cumulative => e = f
             /\ Over(Contracts, Mine[o]) = w
             /\ Over(Bought, Mine[o]) = Side[o] * w
             /\ Over(Spent, Mine[o]) = Side[o] * Notional(o, w)
<1> DEFINE M == Increments(o) \cup Remainder(o)
           w == row[o].executedQuantity
<1>0. OrderSound(o)
  BY InvOfOrder
<1>1. /\ M \in SUBSET Executions /\ IsFiniteSet(M) /\ QuantityOf(M) = w /\ CostOf(M) = Notional(o, w)
      /\ \A e \in M : Stretch(o, e)
      /\ \A e, f \in M : e.cumulative = f.cumulative => e = f
  BY <1>0, ReplayOfOrder
<1>2. w \in 0..Size[o] /\ Mine[o] = M
  BY <1>0 DEF OrderSound, Mine
<1> HIDE DEF M, w
<1>3. M \in SUBSET Ours /\ \A e \in M : e.order = o
  BY <1>1 DEF Ours, Stretch
<1>4. Over(Contracts, M) = w /\ Over(Costs, M) = Notional(o, w)
  <2>1. \A e \in M : Contracts[e] = e.quantity /\ Costs[e] = e.quantity * e.price
    BY <1>3, OursAre
  <2>2. [e \in M |-> Contracts[e]] = [e \in M |-> e.quantity]
        /\ [e \in M |-> Costs[e]] = [e \in M |-> e.quantity * e.price]
    BY <2>1
  <2>3. QuantityOf(M) = Over(Contracts, M)
    BY <2>2, Zenon DEF Over, Sum, QuantityOf
  <2>4. CostOf(M) = Over(Costs, M)
    BY <2>2, Zenon DEF Over, Sum, CostOf
  <2> QED
    BY <1>1, <2>3, <2>4
<1>5. Side[o] \in {1, -1}
  BY ReplayAssumption
<1>6. \A e \in M : /\ Contracts[e] \in Int /\ Bought[e] = Side[o] * Contracts[e]
                   /\ Costs[e] \in Int /\ Spent[e] = Side[o] * Costs[e]
  BY <1>3, OursAre
<1>7. Over(Bought, M) = Side[o] * Over(Contracts, M)
  BY <1>1, <1>5, <1>6, OverSigned
<1>8. Over(Spent, M) = Side[o] * Over(Costs, M)
  BY <1>1, <1>5, <1>6, OverSigned
<1> QED
  BY <1>1, <1>2, <1>3, <1>4, <1>7, <1>8 DEF w

All == UNION {Mine[o] : o \in Orders}

LEMMA AllAre ==
  ASSUME ReplayInv
  PROVE  /\ FillEvents = InOrder(All)
         /\ All \in SUBSET Ours /\ All \in SUBSET Executions /\ IsFiniteSet(All) /\ Keyed(All)
         /\ \A e \in All : Stretch(e.order, e)
         /\ Over(Contracts, All) <= Sum(Size) /\ Over(Contracts, All) \in Int /\ Sum(Size) \in Int
         /\ Over(Bought, All) = Sum([o \in Orders |-> Side[o] * row[o].executedQuantity])
         /\ Over(Spent, All) = Sum([o \in Orders |-> Side[o] * Notional(o, row[o].executedQuantity)])
<1>1. FillEvents = InOrder(All)
  <2>1. {Mine[o] : o \in Orders} = {Increments(o) \cup Remainder(o) : o \in Orders}
    BY DEF Mine
  <2> QED
    BY <2>1 DEF FillEvents, All
<1>2. \A o \in Orders : Mine[o] \in SUBSET Ours /\ IsFiniteSet(Mine[o]) /\ \A e \in Mine[o] : Stretch(o, e)
  BY MineIs
<1>3. \A o \in Orders : \A e \in Mine[o] : e.order = o
  BY <1>2 DEF Stretch
<1>4. IsFiniteSet(Orders) /\ \A o, p \in Orders : o # p => Mine[o] \cap Mine[p] = {}
  BY <1>3, ReplayAssumption
<1>un. \A x : x \in All <=> \E o \in Orders : x \in Mine[o]
  BY DEF All
<1>5. All \in SUBSET Ours /\ All \in SUBSET Executions /\ \A e \in All : Stretch(e.order, e)
  BY <1>2, <1>3 DEF All, Ours
<1>6. Keyed(All)
  <2> SUFFICES ASSUME NEW o \in Orders, NEW e \in Mine[o], NEW p \in Orders, NEW f \in Mine[p],
                      e.order = f.order, e.cumulative = f.cumulative
               PROVE  e = f
    BY DEF All, Keyed
  <2>1. o = p
    BY <1>3
  <2>2. \A x, y \in Mine[o] : x.cumulative = y.cumulative => x = y
    BY MineIs
  <2> QED
    BY <2>1, <2>2
<1>7. \A o \in Orders : \A e \in Mine[o] : Contracts[e] \in Int /\ Bought[e] \in Int /\ Spent[e] \in Int
  BY <1>2, OursAre
<1> DEFINE cs == [o \in Orders |-> Over(Contracts, Mine[o])]
           bs == [o \in Orders |-> Over(Bought, Mine[o])]
           ss == [o \in Orders |-> Over(Spent, Mine[o])]
<1>8. IsFiniteSet(All) /\ Over(Contracts, All) = Over(cs, Orders)
  <2>1. \A o \in Orders : IsFiniteSet(Mine[o]) /\ \A x \in Mine[o] : Contracts[x] \in Int
    BY <1>2, <1>7
  <2>2. \A o \in Orders : cs[o] = Over(Contracts, Mine[o])
    OBVIOUS
  <2> HIDE DEF cs
  <2> QED
    BY <1>4, <1>un, <2>1, <2>2, OverOrders
<1>9. Over(Bought, All) = Over(bs, Orders)
  <2>1. \A o \in Orders : IsFiniteSet(Mine[o]) /\ \A x \in Mine[o] : Bought[x] \in Int
    BY <1>2, <1>7
  <2>2. \A o \in Orders : bs[o] = Over(Bought, Mine[o])
    OBVIOUS
  <2> HIDE DEF bs
  <2>3. IsFiniteSet(All) /\ Over(Bought, All) = Over(bs, Orders)
    BY <1>4, <1>un, <2>1, <2>2, OverOrders
  <2> QED
    BY <2>3
<1>10. Over(Spent, All) = Over(ss, Orders)
  <2>1. \A o \in Orders : IsFiniteSet(Mine[o]) /\ \A x \in Mine[o] : Spent[x] \in Int
    BY <1>2, <1>7
  <2>2. \A o \in Orders : ss[o] = Over(Spent, Mine[o])
    OBVIOUS
  <2> HIDE DEF ss
  <2>3. IsFiniteSet(All) /\ Over(Spent, All) = Over(ss, Orders)
    BY <1>4, <1>un, <2>1, <2>2, OverOrders
  <2> QED
    BY <2>3
<1>11. \A o \in Orders : /\ cs[o] = row[o].executedQuantity /\ row[o].executedQuantity \in 0..Size[o]
                         /\ bs[o] = Side[o] * row[o].executedQuantity
                         /\ ss[o] = Side[o] * Notional(o, row[o].executedQuantity)
  BY MineIs
<1>12. [o \in Orders |-> bs[o]] = [o \in Orders |-> Side[o] * row[o].executedQuantity]
  BY <1>11
<1>13. [o \in Orders |-> ss[o]] = [o \in Orders |-> Side[o] * Notional(o, row[o].executedQuantity)]
  BY <1>11
<1>14. Over(Size, Orders) = Sum(Size)
  <2>1. Size = [o \in Orders |-> Size[o]]
    BY ReplayAssumption
  <2> QED
    BY <2>1, Zenon DEF Over
<1> HIDE DEF cs, bs, ss
<1>15. \A o \in Orders : cs[o] \in Int /\ Size[o] \in Int /\ cs[o] <= Size[o]
  BY <1>11, ReplayAssumption
<1>16. Over(cs, Orders) <= Over(Size, Orders)
  BY <1>4, <1>15, OverAtMost
<1>17. Over(cs, Orders) \in Int /\ Over(Size, Orders) \in Int
  BY <1>4, <1>15, OverPlus
<1>18. Over(bs, Orders) = Sum([o \in Orders |-> Side[o] * row[o].executedQuantity])
  BY <1>12, Zenon DEF Over
<1>19. Over(ss, Orders) = Sum([o \in Orders |-> Side[o] * Notional(o, row[o].executedQuantity)])
  BY <1>13, Zenon DEF Over
<1> QED
  BY <1>1, <1>5, <1>6, <1>8, <1>9, <1>10, <1>14, <1>16, <1>17, <1>18, <1>19

\* A part of the executions: its sums, and what one more adds.
LEMMA PartIs ==
  ASSUME ReplayInv, NEW S \in SUBSET All
  PROVE  /\ IsFiniteSet(S) /\ Over(Contracts, S) \in Int /\ Over(Bought, S) \in Int /\ Over(Spent, S) \in Int
         /\ Over(Contracts, S) <= Sum(Size)
         /\ \A e \in All \ S :
              /\ Over(Contracts, S \cup {e}) = Over(Contracts, S) + e.quantity
              /\ Over(Bought, S \cup {e}) = Over(Bought, S) + Side[e.order] * e.quantity
              /\ Over(Spent, S \cup {e}) = Over(Spent, S) + Side[e.order] * (e.quantity * e.price)
<1>1. IsFiniteSet(S) /\ IsFiniteSet(All) /\ S \in SUBSET Ours /\ All \in SUBSET Ours
      /\ S \in SUBSET Executions /\ All \in SUBSET Executions
      /\ Over(Contracts, All) <= Sum(Size) /\ Over(Contracts, All) \in Int /\ Sum(Size) \in Int
  BY AllAre, FS_Subset
<1>2. \A e \in All : /\ Contracts[e] = e.quantity /\ Bought[e] = Side[e.order] * e.quantity
                     /\ Spent[e] = Side[e.order] * (e.quantity * e.price)
                     /\ Contracts[e] \in Int /\ Bought[e] \in Int /\ Spent[e] \in Int
  BY <1>1, OursAre
<1>3. Over(Contracts, S) \in Int /\ Over(Bought, S) \in Int /\ Over(Spent, S) \in Int
  <2>1. \A e \in S : Contracts[e] \in Int /\ Bought[e] \in Int /\ Spent[e] \in Int
    BY <1>2
  <2>2. Over(Contracts, S) \in Int
    BY <1>1, <2>1, OverPlus
  <2>3. Over(Bought, S) \in Int
    BY <1>1, <2>1, OverPlus
  <2>4. Over(Spent, S) \in Int
    BY <1>1, <2>1, OverPlus
  <2> QED
    BY <2>2, <2>3, <2>4
<1>4. \A R \in SUBSET All : Over(Contracts, R) = QuantityOf(R)
  <2> SUFFICES ASSUME NEW R \in SUBSET All PROVE Over(Contracts, R) = QuantityOf(R)
    OBVIOUS
  <2>1. [e \in R |-> Contracts[e]] = [e \in R |-> e.quantity]
    BY <1>2
  <2> QED
    BY <2>1, Zenon DEF Over, Sum, QuantityOf
<1>5. QuantityOf(S) <= QuantityOf(All)
  BY <1>1, MoreExecutions
<1>6. Over(Contracts, S) <= Sum(Size)
  BY <1>1, <1>3, <1>4, <1>5
<1>7. ASSUME NEW e \in All \ S
      PROVE  /\ Over(Contracts, S \cup {e}) = Over(Contracts, S) + e.quantity
             /\ Over(Bought, S \cup {e}) = Over(Bought, S) + Side[e.order] * e.quantity
             /\ Over(Spent, S \cup {e}) = Over(Spent, S) + Side[e.order] * (e.quantity * e.price)
  <2>1. e \notin S /\ \A y \in S : Contracts[y] \in Int /\ Bought[y] \in Int /\ Spent[y] \in Int
    BY <1>2
  <2>2. Over(Contracts, S \cup {e}) = Over(Contracts, S) + Contracts[e]
    BY <1>1, <1>2, <2>1, OverOneMore
  <2>3. Over(Bought, S \cup {e}) = Over(Bought, S) + Bought[e]
    BY <1>1, <1>2, <2>1, OverOneMore
  <2>4. Over(Spent, S \cup {e}) = Over(Spent, S) + Spent[e]
    BY <1>1, <1>2, <2>1, OverOneMore
  <2> QED
    BY <1>2, <2>2, <2>3, <2>4
<1> QED
  BY <1>1, <1>3, <1>6, <1>7

Grained(grain) ==
  /\ grain \in [0..Sum(Size) -> Nat \ {0}] /\ grain[0] = Scale
  /\ \A n, d \in 1..Sum(Size) : grain[n - 1] % (d * grain[n]) = 0

\* Prices are as fine as need be for any number of averages.
LEMMA PricesGrained ==
  ASSUME ReplayInv, NEW grain, Grained(grain), NEW e \in All
  PROVE  /\ e.quantity \in 1..Sum(Size) /\ e.price \in Nat
         /\ \A n \in 1..Sum(Size) : Multiple(e.price, grain[n])
<1> DEFINE N == Sum(Size)
           T == {n \in Nat : n + 1 <= N => Multiple(e.price, grain[n + 1])}
<1>0. e \in Executions /\ e.order \in Orders /\ Stretch(e.order, e) /\ N \in Int
  BY AllAre, OursAre
<1>1. e.quantity \in 1..N
  <2>1. e.quantity > 0 /\ e.quantity \in Nat
    <3>1. \E p, q \in 0..Size[e.order] : p < q /\ e.quantity = q - p
      BY <1>0 DEF Stretch
    <3>2. e.quantity \in Nat
      BY <1>0 DEF Executions
    <3> QED
      BY <3>1, <3>2
  <2>2. {} \in SUBSET All /\ {e} \in SUBSET All /\ {} \cup {e} = {e}
    OBVIOUS
  <2>3. Over(Contracts, {e}) = Over(Contracts, {}) + e.quantity
    BY <2>2, PartIs
  <2>4. Over(Contracts, {}) = 0
    BY OverPlus, FS_EmptySet
  <2>5. Over(Contracts, {e}) <= N
    BY <2>2, PartIs
  <2> HIDE DEF N
  <2> QED
    BY <1>0, <2>1, <2>3, <2>4, <2>5
<1>2. N \in Nat \ {0} /\ \A n \in 1..N : grain[n] \in Nat \ {0}
  <2>1. N \in Nat \ {0}
    <3> HIDE DEF N
    <3> QED
      BY <1>0, <1>1
  <2>2. grain \in [0..N -> Nat \ {0}]
    BY DEF Grained
  <2> HIDE DEF N
  <2>3. \A n \in 1..N : n \in 0..N
    BY <2>1
  <2> QED
    BY <2>1, <2>2, <2>3
<1>3. e.price \in Nat /\ Multiple(e.price, grain[1])
  <2>1. 1 \in 1..N /\ grain[1] \in Nat \ {0} /\ grain[1 - 1] % (e.quantity * grain[1]) = 0
    BY <1>1, <1>2 DEF Grained
  <2>2. Scale % (e.quantity * grain[1]) = 0
    BY <2>1 DEF Grained
  <2> QED
    BY <1>0, <2>1, <2>2, StretchPrice
<1>4. 0 \in T
  BY <1>3
<1>5. ASSUME NEW n \in Nat, n \in T PROVE n + 1 \in T
  <2> SUFFICES ASSUME n + 2 <= N PROVE Multiple(e.price, grain[n + 2])
    <3>1. (n + 1) + 1 = n + 2
      OBVIOUS
    <3> QED
      BY <3>1
  <2>1. n + 1 \in 1..N /\ n + 2 \in 1..N /\ 1 \in 1..N /\ (n + 2) - 1 = n + 1 /\ n + 1 <= N
    BY <1>2
  <2>2. Multiple(e.price, grain[n + 1])
    BY <1>5, <2>1
  <2>3. grain[n + 1] % (1 * grain[n + 2]) = 0
    BY <2>1 DEF Grained
  <2>4. grain[n + 1] \in Nat \ {0} /\ grain[n + 2] \in Nat \ {0}
    BY <1>2, <2>1
  <2> DEFINE g == grain[n + 1]
             h == grain[n + 2]
  <2>5. 1 \in Nat \ {0} /\ g \in Nat \ {0} /\ h \in Nat \ {0} /\ g % (1 * h) = 0 /\ Multiple(e.price, g)
    BY <2>2, <2>3, <2>4
  <2> HIDE DEF g, h
  <2>6. Multiple(e.price, h)
    BY <1>3, <2>5, Blends
  <2> QED
    BY <2>6 DEF h
<1> HIDE DEF T
<1>6. \A n \in Nat : n \in T
  BY <1>4, <1>5, Induction
<1>7. ASSUME NEW n \in 1..N PROVE Multiple(e.price, grain[n])
  <2>1. n - 1 \in Nat /\ (n - 1) + 1 = n /\ n <= N
    BY <1>2
  <2>2. n - 1 \in T
    BY <1>6, <2>1
  <2> QED
    BY <2>1, <2>2 DEF T
<1> QED
  BY <1>1, <1>3, <1>7

\* What the book is after the first n of the executions.
SoundAt(n, grain) ==
  LET done == First(All, n)
  IN  /\ n <= Over(Contracts, done)
      /\ Abs(Over(Bought, done)) <= Over(Contracts, done)
      /\ Balanced(Books(FillEvents)[n], Over(Bought, done), Over(Spent, done), grain[n])

LEMMA BookSound ==
  ASSUME ReplayInv, NEW grain, Grained(grain)
  PROVE  \A n \in 0..Cardinality(All) : SoundAt(n, grain)
<1> DEFINE c == Cardinality(All)
           N == Sum(Size)
           T == {n \in Nat : n <= c => SoundAt(n, grain)}
<1>0. /\ FillEvents = InOrder(All) /\ N \in Int
      /\ Len(FillEvents) = c /\ c \in Nat
      /\ First(All, 0) = {}
      /\ \A n \in 1..c : /\ FillEvents[n] \in All \ First(All, n - 1)
                         /\ First(All, n) = First(All, n - 1) \cup {FillEvents[n]}
      /\ \A n : First(All, n) \in SUBSET All
  <2>1. FillEvents = InOrder(All) /\ All \in SUBSET Executions /\ IsFiniteSet(All) /\ Keyed(All) /\ N \in Int
    BY AllAre
  <2>2. /\ Len(InOrder(All)) = c /\ c \in Nat
        /\ First(All, 0) = {}
        /\ \A n \in 1..c : /\ InOrder(All)[n] \in All \ First(All, n - 1)
                           /\ First(All, n) = First(All, n - 1) \cup {InOrder(All)[n]}
    BY <2>1, InOrderIs
  <2>3. \A n : First(All, n) \in SUBSET All
    BY DEF First
  <2> QED
    BY <2>1, <2>2, <2>3
<1>1. /\ Books(FillEvents)[0] = NoPosition
      /\ \A n \in 1..c : Books(FillEvents)[n] = ApplyExecution(Books(FillEvents)[n - 1], FillEvents[n])
  BY <1>0, BooksAre
<1>2. 0 \in T
  <2>1. Over(Contracts, {}) = 0 /\ Over(Bought, {}) = 0 /\ Over(Spent, {}) = 0
    BY OverPlus, FS_EmptySet
  <2>2. NoPosition \in Position /\ NoPosition.quantity = 0 /\ NoPosition.avgPrice = 0
        /\ NoPosition.realized = 0
    BY DEF NoPosition, Position
  <2>3. grain[0] \in Nat /\ 0 = 0 * grain[0]
    BY ReplayAssumption DEF Grained
  <2>4. Balanced(NoPosition, 0, 0, grain[0])
    BY <2>2, <2>3 DEF Balanced, Multiple
  <2> QED
    BY <1>0, <1>1, <2>1, <2>4 DEF SoundAt, Abs
<1>3. ASSUME NEW n \in Nat, n \in T PROVE n + 1 \in T
  <2> SUFFICES ASSUME n + 1 <= c PROVE SoundAt(n + 1, grain)
    OBVIOUS
  <2> DEFINE e == FillEvents[n + 1]
             done == First(All, n)
             s == Side[e.order]
             U == Over(Contracts, done)
             V == Over(Bought, done)
             C == Over(Spent, done)
             w == e.quantity
             book == Books(FillEvents)[n]
  <2>1. /\ n + 1 \in 1..c /\ (n + 1) - 1 = n /\ n <= c
    BY <1>0
  <2>2. /\ e \in All \ done /\ First(All, n + 1) = done \cup {e} /\ done \in SUBSET All
        /\ done \cup {e} \in SUBSET All
    BY <1>0, <2>1
  <2>3. Books(FillEvents)[n + 1] = ApplyExecution(book, e)
    BY <1>1, <2>1
  <2>4. n <= U /\ Abs(V) <= U /\ Balanced(book, V, C, grain[n])
    BY <1>3, <2>1 DEF SoundAt
  <2>5. e \in Executions /\ e.order \in Orders /\ s \in {1, -1}
    BY <2>2, AllAre, OursAre
  <2>6. w \in 1..N /\ e.price \in Nat /\ \A k \in 1..N : Multiple(e.price, grain[k])
    BY <2>2, PricesGrained
  <2> HIDE DEF e, done
  <2>7. /\ U \in Int /\ V \in Int /\ C \in Int
        /\ Over(Contracts, done \cup {e}) = U + w
        /\ Over(Bought, done \cup {e}) = V + s * w
        /\ Over(Spent, done \cup {e}) = C + s * (w * e.price)
    BY <2>2, PartIs
  <2>8. Over(Contracts, done \cup {e}) <= N
    BY <2>2, PartIs
  <2> HIDE DEF N, U, V, C, w, s, book
  <2>9. Abs(V) \in Nat /\ Abs(V + s * w) <= U + w
    <3>1. s * w = w \/ s * w = -w
      BY <2>5, <2>6
    <3> QED
      BY <1>0, <2>4, <2>6, <2>7, <3>1 DEF Abs
  <2>10. n + 1 <= U + w /\ U + w <= N /\ Abs(V) + w \in 1..N /\ n + 1 \in 1..N /\ n \in 0..N
    BY <1>0, <2>4, <2>6, <2>7, <2>8, <2>9
  <2> DEFINE g == grain[n]
             h == grain[n + 1]
  <2>11. g \in Nat \ {0} /\ h \in Nat \ {0} /\ g % ((Abs(V) + w) * h) = 0
    <3>1. n + 1 \in 0..N
      BY <1>0, <2>10
    <3>2. grain \in [0..N -> Nat \ {0}]
      BY DEF Grained, N
    <3>3. grain[(n + 1) - 1] % ((Abs(V) + w) * grain[n + 1]) = 0
      BY <2>10 DEF Grained, N
    <3> QED
      BY <2>1, <2>10, <3>1, <3>2, <3>3
  <2>12. Multiple(e.price, h) /\ (V # 0 => Multiple(e.price, g))
    <3>1. Multiple(e.price, h)
      BY <2>6, <2>10
    <3>2. ASSUME V # 0 PROVE Multiple(e.price, g)
      <4>1. U > 0
        BY <2>4, <2>7, <3>2 DEF Abs
      <4>2. n > 0
        <5> SUFFICES ASSUME n = 0 PROVE FALSE
          OBVIOUS
        <5>1. done = {}
          BY <1>0 DEF done
        <5>2. U = 0
          BY <5>1, OverPlus, FS_EmptySet DEF U
        <5> QED
          BY <4>1, <5>2
      <4>3. n \in 1..N
        BY <2>10, <4>2
      <4> QED
        BY <2>6, <4>3
    <3> QED
      BY <3>1, <3>2
  <2>13. Balanced(ApplyExecution(book, e), V + s * w, C + s * (w * e.price), h)
    <3>1. w > 0 /\ Balanced(book, V, C, g)
      BY <2>4, <2>6
    <3> HIDE DEF g, h
    <3> QED
      BY <2>5, <2>6, <2>7, <2>11, <2>12, <3>1, ExecutionBalances DEF w, s
  <2>14. /\ n + 1 <= Over(Contracts, done \cup {e})
         /\ Abs(Over(Bought, done \cup {e})) <= Over(Contracts, done \cup {e})
         /\ Balanced(Books(FillEvents)[n + 1], Over(Bought, done \cup {e}), Over(Spent, done \cup {e}),
                     grain[n + 1])
    BY <2>3, <2>7, <2>9, <2>10, <2>13
  <2> QED
    BY <2>2, <2>14, Zenon DEF SoundAt
<1> HIDE DEF T, c
<1>4. \A n \in Nat : n \in T
  BY <1>2, <1>3, Induction
<1>5. ASSUME NEW n \in 0..c PROVE SoundAt(n, grain)
  <2>1. n \in Nat /\ n <= c
    BY <1>0
  <2>2. n \in T
    BY <1>4, <2>1
  <2> QED
    BY <2>1, <2>2 DEF T
<1> QED
  BY <1>5 DEF c

LEMMA InvIsBalanced ==
  ASSUME ReplayInv, FineEnough
  PROVE  BookAddsUp
<1> DEFINE c == Cardinality(All)
<1>1. PICK grain : Grained(grain)
  <2> DEFINE parts == {g \in 1..Scale : Scale % g = 0}
  <2>1. PICK grain \in [0..Sum(Size) -> parts] :
          /\ grain[0] = Scale
          /\ \A n, d \in 1..Sum(Size) : grain[n - 1] % (d * grain[n]) = 0
    BY Zenon DEF FineEnough, Sum
  <2>2. parts \subseteq Nat \ {0}
    BY ReplayAssumption
  <2>3. grain \in [0..Sum(Size) -> Nat \ {0}]
    <3> HIDE DEF parts
    <3> QED
      BY <2>1, <2>2
  <2> QED
    BY <2>1, <2>3 DEF Grained
<1>2. /\ FillEvents = InOrder(All) /\ Len(InOrder(All)) = c /\ c \in Nat /\ First(All, c) = All
  <2>1. FillEvents = InOrder(All) /\ All \in SUBSET Executions /\ IsFiniteSet(All) /\ Keyed(All)
    BY AllAre
  <2> QED
    BY <2>1, InOrderIs
<1>3. Book = Books(FillEvents)[c]
  BY <1>2, BooksAre DEF Book
<1>4. SoundAt(c, grain)
  BY <1>1, <1>2, BookSound
<1>5. Balanced(Book, Over(Bought, All), Over(Spent, All), grain[c])
  BY <1>2, <1>3, <1>4, Zenon DEF SoundAt
<1>6. /\ Over(Bought, All) = Sum([o \in Orders |-> Side[o] * row[o].executedQuantity])
      /\ Over(Spent, All) = Sum([o \in Orders |-> Side[o] * Notional(o, row[o].executedQuantity)])
  BY AllAre
<1>7. /\ Book.quantity = Sum([o \in Orders |-> Side[o] * row[o].executedQuantity])
      /\ Book.realized = Book.quantity * Book.avgPrice
           - Sum([o \in Orders |-> Side[o] * Notional(o, row[o].executedQuantity)])
  BY <1>5, <1>6 DEF Balanced
<1> QED
  BY <1>7, Zenon DEF BookAddsUp, Sum

\* BookAddsUp: in whatever order executions of any orders were replayed, blended, closed or
\* flipped (applyExecution), what the book realized is their cash and the cost of what is open,
\* where every average comes out exact.
THEOREM BookBalances == ASSUME FineEnough PROVE Spec => []BookAddsUp
<1>1. ReplayInv => BookAddsUp
  BY InvIsBalanced
<1> QED
  BY <1>1, Invariant, PTL

=============================================================================
