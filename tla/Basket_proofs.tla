--------------------------- MODULE Basket_proofs ----------------------------
(***************************************************************************)
(* The basket, from the phone to the ledger.                               *)
(*                                                                         *)
(* The books of an order and of its refund close, for any menu, any        *)
(* baskets, any fee rules and any interleaving with their edits: the       *)
(* quote's parts add up to what the customer pays under both tax models    *)
(* (lemma QuoteAddsUp), and the refund is priced from the snapshot.        *)
(*                                                                         *)
(* Portions are promised twice by a race only: what was sold and what      *)
(* still waits for its payment is covered by the count until one happens.  *)
(*                                                                         *)
(* A basket becomes one order, whatever the phone loses or repeats: its    *)
(* key goes only when an order of that key was shown, or when somebody     *)
(* else has it, and every call of one turn is of one diner.                *)
(***************************************************************************)
EXTENDS Basket, Phone, TLAPS, FiniteSetTheorems, SequenceTheorems, WellFoundedInduction

-----------------------------------------------------------------------------
(* Sums over finite sets.  What SumFunctionOnSet computes is a recursion   *)
(* over the subsets of the set; that there is a function which satisfies   *)
(* it, and all that follows, is shown by a smallest counterexample.        *)

LEMMA SmallestNumber ==
  ASSUME NEW T, T \subseteq Nat, T # {}
  PROVE  \E m \in T : \A n \in T : m <= n
<1>1. PICK m \in T : \A n \in T : ~(<<n, m>> \in OpToRel(<, Nat))
  BY WFMin, NatLessThanWellFounded, Zenon
<1>2. \A n \in T : ~(n < m)
  BY <1>1 DEF OpToRel
<1> QED
  BY <1>2

LEMMA SmallestSet ==
  ASSUME NEW S, IsFiniteSet(S), NEW C \in SUBSET SUBSET S, C # {}
  PROVE  \E s \in C : \A x \in s : s \ {x} \notin C
<1> DEFINE T == {Cardinality(s) : s \in C}
<1>1. \A s \in C : IsFiniteSet(s) /\ Cardinality(s) \in Nat
  BY FS_Subset, FS_CardinalityType
<1>2. T \subseteq Nat /\ T # {}
  BY <1>1
<1>3. PICK m \in T : \A n \in T : m <= n
  <2> HIDE DEF T
  <2> QED
    BY <1>2, SmallestNumber
<1>4. PICK s \in C : m = Cardinality(s)
  BY <1>3
<1>5. ASSUME NEW x \in s, s \ {x} \in C PROVE FALSE
  <2>1. Cardinality(s \ {x}) = Cardinality(s) - 1
    BY <1>1, <1>4, FS_RemoveElement
  <2>2. m <= Cardinality(s \ {x})
    BY <1>3, <1>5
  <2> QED
    BY <1>1, <1>4, <2>1, <2>2
<1> QED
  BY <1>4, <1>5

First(s) == CHOOSE x \in s : TRUE
OneMore(g, f, s) == IF s = {} THEN 0 ELSE f[First(s)] + g[s \ {First(s)}]
Adds(g, f, S) == g = [s \in SUBSET S |-> OneMore(g, f, s)]

LEMMA FirstIsIn == ASSUME NEW S, S # {} PROVE First(S) \in S
BY DEF First

LEMMA SumIsChosen ==
  ASSUME NEW S, NEW f, \E g : Adds(g, f, S)
  PROVE  \E g : Adds(g, f, S) /\ SumFunctionOnSet(f, S) = g[S]
<1> DEFINE G == CHOOSE g : Adds(g, f, S)
<1>1. Adds(G, f, S)
  BY Zenon
<1>2. SumFunctionOnSet(f, S) = G[S]
  BY Zenon DEF SumFunctionOnSet, FoldFunctionOnSet, MapThenFoldSet, First, Adds, OneMore
<1> QED
  BY <1>1, <1>2

LEMMA SumCanBeChosen ==
  ASSUME NEW S, IsFiniteSet(S), NEW f, \A x \in S : f[x] \in Int
  PROVE  \E g \in [SUBSET S -> Int] : Adds(g, f, S)
<1> DEFINE Upto(g, n) == \A s \in SUBSET S : Cardinality(s) <= n => g[s] = OneMore(g, f, s)
           T == {n \in Nat : ~\E g \in [SUBSET S -> Int] : Upto(g, n)}
<1>1. \A s \in SUBSET S : IsFiniteSet(s) /\ Cardinality(s) \in Nat
  BY FS_Subset, FS_CardinalityType
<1>2. \A g \in [SUBSET S -> Int], s \in SUBSET S : OneMore(g, f, s) \in Int
  BY FirstIsIn DEF OneMore
<1>3. T = {}
  <2> SUFFICES ASSUME T # {} PROVE FALSE
    OBVIOUS
  <2>1. PICK m \in T : \A n \in T : m <= n
    <3>1. T \subseteq Nat
      OBVIOUS
    <3> HIDE DEF T
    <3> QED
      BY <3>1, SmallestNumber
  <2>2. CASE m = 0
    <3> DEFINE g == [s \in SUBSET S |-> 0]
    <3>1. ASSUME NEW s \in SUBSET S, Cardinality(s) <= 0 PROVE g[s] = OneMore(g, f, s)
      <4>1. s = {}
        BY <1>1, <3>1, FS_EmptySet
      <4> QED
        BY <4>1 DEF OneMore
    <3>2. g \in [SUBSET S -> Int] /\ Upto(g, 0)
      BY <3>1
    <3> QED
      BY <2>1, <2>2, <3>2
  <2>3. CASE m # 0
    <3>1. m - 1 \in Nat /\ m - 1 \notin T
      <4>1. T \subseteq Nat
        OBVIOUS
      <4> HIDE DEF T
      <4> QED
        BY <2>1, <2>3, <4>1
    <3>2. PICK g \in [SUBSET S -> Int] : Upto(g, m - 1)
      BY <3>1
    <3> DEFINE h == [s \in SUBSET S |-> OneMore(g, f, s)]
    <3>3. h \in [SUBSET S -> Int]
      BY <1>2
    <3>4. ASSUME NEW s \in SUBSET S, Cardinality(s) <= m PROVE h[s] = OneMore(h, f, s)
      <4>1. CASE s = {}
        BY <4>1 DEF OneMore
      <4>2. CASE s # {}
        <5> DEFINE r == s \ {First(s)}
        <5>1. First(s) \in s /\ r \in SUBSET S
          BY <4>2, FirstIsIn
        <5>2. Cardinality(r) = Cardinality(s) - 1
          BY <1>1, <5>1, FS_RemoveElement
        <5>3. Cardinality(r) <= m - 1
          BY <1>1, <2>1, <3>4, <5>2
        <5>4. g[r] = OneMore(g, f, r)
          BY <3>2, <5>1, <5>3
        <5>5. h[r] = g[r]
          BY <5>1, <5>4
        <5> QED
          BY <4>2, <5>5 DEF OneMore
      <4> QED
        BY <4>1, <4>2
    <3>5. Upto(h, m)
      BY <3>4
    <3> QED
      BY <2>1, <3>3, <3>5
  <2> QED
    BY <2>2, <2>3
<1>4. Cardinality(S) \in Nat
  BY <1>1
<1>5. PICK g \in [SUBSET S -> Int] : Upto(g, Cardinality(S))
  BY <1>3, <1>4
<1>6. \A s \in SUBSET S : Cardinality(s) <= Cardinality(S)
  BY FS_Subset
<1>7. \A s \in SUBSET S : g[s] = OneMore(g, f, s)
  BY <1>5, <1>6
<1> QED
  BY <1>7 DEF Adds

(* On a smaller set the recursion takes the same values.                   *)
LEMMA SumsAgree ==
  ASSUME NEW S, IsFiniteSet(S), NEW f, NEW g, NEW h, NEW A \in SUBSET S,
         Adds(g, f, S), Adds(h, f, A)
  PROVE  g[A] = h[A]
<1> DEFINE C == {s \in SUBSET A : g[s] # h[s]}
<1>1. ASSUME C # {} PROVE FALSE
  <2>1. C \in SUBSET SUBSET S
    OBVIOUS
  <2>2. PICK s \in C : \A x \in s : s \ {x} \notin C
    <3> HIDE DEF C
    <3> QED
      BY <1>1, <2>1, SmallestSet
  <2>3. g[s] = OneMore(g, f, s) /\ h[s] = OneMore(h, f, s)
    BY <2>2 DEF Adds
  <2>4. CASE s = {}
    BY <2>2, <2>3, <2>4 DEF OneMore
  <2>5. CASE s # {}
    <3>1. First(s) \in s
      BY <2>5, FirstIsIn
    <3>2. g[s \ {First(s)}] = h[s \ {First(s)}]
      BY <2>2, <3>1
    <3> QED
      BY <2>2, <2>3, <2>5, <3>2 DEF OneMore
  <2> QED
    BY <2>4, <2>5
<1> QED
  BY <1>1

LEMMA SumEmpty == ASSUME NEW f PROVE SumFunctionOnSet(f, {}) = 0
<1>1. \E g : Adds(g, f, {})
  BY SumCanBeChosen, FS_EmptySet
<1> QED
  BY <1>1, SumIsChosen DEF Adds, OneMore

LEMMA SumFirst ==
  ASSUME NEW S, IsFiniteSet(S), NEW f, \A x \in S : f[x] \in Int
  PROVE  /\ SumFunctionOnSet(f, S) \in Int
         /\ S # {} => SumFunctionOnSet(f, S)
                        = f[First(S)] + SumFunctionOnSet(f, S \ {First(S)})
<1>1. PICK g \in [SUBSET S -> Int] : Adds(g, f, S)
  BY SumCanBeChosen
<1>2. ASSUME NEW A \in SUBSET S PROVE SumFunctionOnSet(f, A) = g[A]
  <2>1. IsFiniteSet(A) /\ \A x \in A : f[x] \in Int
    BY FS_Subset
  <2>2. \E h : Adds(h, f, A)
    BY <2>1, SumCanBeChosen
  <2>3. PICK h : Adds(h, f, A) /\ SumFunctionOnSet(f, A) = h[A]
    BY <2>2, SumIsChosen
  <2> QED
    BY <1>1, <2>3, SumsAgree
<1>3. g[S] = OneMore(g, f, S)
  BY <1>1 DEF Adds
<1>4. S \in SUBSET S /\ S \ {First(S)} \in SUBSET S
  OBVIOUS
<1> QED
  BY <1>2, <1>3, <1>4 DEF OneMore

(* Whichever element is taken first.                                       *)
LEMMA SumTakes ==
  ASSUME NEW S, IsFiniteSet(S), NEW f, \A x \in S : f[x] \in Int, NEW e \in S
  PROVE  SumFunctionOnSet(f, S) = f[e] + SumFunctionOnSet(f, S \ {e})
<1> DEFINE Sum(s) == SumFunctionOnSet(f, s)
           C == {s \in SUBSET S : \E x \in s : Sum(s) # f[x] + Sum(s \ {x})}
<1>1. ASSUME NEW s \in SUBSET S
      PROVE  /\ Sum(s) \in Int
             /\ s # {} => Sum(s) = f[First(s)] + Sum(s \ {First(s)})
  BY FS_Subset, SumFirst
<1> HIDE DEF Sum
<1>2. ASSUME C # {} PROVE FALSE
  <2>1. PICK s \in C : \A x \in s : s \ {x} \notin C
    <3>1. C \in SUBSET SUBSET S
      OBVIOUS
    <3> HIDE DEF C
    <3> QED
      BY <1>2, <3>1, SmallestSet
  <2>2. PICK x \in s : Sum(s) # f[x] + Sum(s \ {x})
    BY <2>1
  <2> DEFINE y == First(s)
  <2>3. y \in s /\ Sum(s) = f[y] + Sum(s \ {y})
    BY <1>1, <2>1, <2>2, FirstIsIn
  <2> HIDE DEF y
  <2>4. x # y
    BY <2>2, <2>3
  <2>5. Sum(s \ {y}) = f[x] + Sum((s \ {y}) \ {x})
    BY <2>1, <2>2, <2>3, <2>4
  <2>6. Sum(s \ {x}) = f[y] + Sum((s \ {x}) \ {y})
    BY <2>1, <2>2, <2>3, <2>4
  <2>7. (s \ {y}) \ {x} = (s \ {x}) \ {y}
    OBVIOUS
  <2>8. f[x] \in Int /\ f[y] \in Int /\ Sum((s \ {x}) \ {y}) \in Int
    BY <1>1, <2>1, <2>2, <2>3
  <2> QED
    <3>1. f[y] + (f[x] + Sum((s \ {x}) \ {y})) = f[x] + (f[y] + Sum((s \ {x}) \ {y}))
      <4> DEFINE rest == Sum((s \ {x}) \ {y})
      <4>1. rest \in Int
        BY <2>8
      <4> HIDE DEF rest
      <4>2. f[y] + (f[x] + rest) = f[x] + (f[y] + rest)
        BY <2>8, <4>1
      <4> QED
        BY <4>2 DEF rest
    <3> QED
      BY <2>2, <2>3, <2>5, <2>6, <2>7, <3>1, Zenon
<1> QED
  BY <1>2 DEF Sum

LEMMA SumIsNat ==
  ASSUME NEW S, IsFiniteSet(S), NEW f, \A x \in S : f[x] \in Nat
  PROVE  SumFunctionOnSet(f, S) \in Nat
<1> DEFINE C == {s \in SUBSET S : SumFunctionOnSet(f, s) \notin Nat}
<1>1. ASSUME C # {} PROVE FALSE
  <2>1. PICK s \in C : \A x \in s : s \ {x} \notin C
    <3>1. C \in SUBSET SUBSET S
      OBVIOUS
    <3> HIDE DEF C
    <3> QED
      BY <1>1, <3>1, SmallestSet
  <2>2. s # {}
    BY <2>1, SumEmpty
  <2>3. PICK x \in s : TRUE
    BY <2>2
  <2>4. IsFiniteSet(s) /\ \A y \in s : f[y] \in Int
    BY <2>1, FS_Subset
  <2>5. SumFunctionOnSet(f, s) = f[x] + SumFunctionOnSet(f, s \ {x})
    BY <2>3, <2>4, SumTakes
  <2>6. SumFunctionOnSet(f, s \ {x}) \in Nat /\ f[x] \in Nat
    BY <2>1, <2>3
  <2> QED
    BY <2>1, <2>5, <2>6
<1> QED
  BY <1>1

(* More terms, none of them negative; terms that are zero change nothing.  *)
LEMMA SumGrows ==
  ASSUME NEW S, IsFiniteSet(S), NEW f, \A x \in S : f[x] \in Nat, NEW A \in SUBSET S
  PROVE  /\ SumFunctionOnSet(f, A) <= SumFunctionOnSet(f, S)
         /\ (\A x \in S \ A : f[x] = 0) => SumFunctionOnSet(f, A) = SumFunctionOnSet(f, S)
<1> DEFINE Sum(s) == SumFunctionOnSet(f, s)
           C == {s \in SUBSET S : A \subseteq s /\
                   ~(Sum(A) <= Sum(s) /\ ((\A x \in s \ A : f[x] = 0) => Sum(A) = Sum(s)))}
<1>1. ASSUME NEW s \in SUBSET S
      PROVE  Sum(s) \in Nat /\ \A x \in s : Sum(s) = f[x] + Sum(s \ {x})
  <2>1. IsFiniteSet(s) /\ (\A y \in s : f[y] \in Int) /\ \A y \in s : f[y] \in Nat
    BY FS_Subset
  <2> QED
    BY <2>1, SumIsNat, SumTakes
<1> HIDE DEF Sum
<1>2. ASSUME C # {} PROVE FALSE
  <2>1. PICK s \in C : \A x \in s : s \ {x} \notin C
    <3>1. C \in SUBSET SUBSET S
      OBVIOUS
    <3> HIDE DEF C
    <3> QED
      BY <1>2, <3>1, SmallestSet
  <2>2. s \in SUBSET S /\ A \subseteq s /\ Sum(A) \in Nat
    BY <1>1, <2>1
  <2>3. s # A
    BY <2>1, <2>2
  <2>4. PICK x \in s \ A : TRUE
    BY <2>2, <2>3
  <2>5. /\ Sum(A) <= Sum(s \ {x})
        /\ (\A y \in (s \ {x}) \ A : f[y] = 0) => Sum(A) = Sum(s \ {x})
    BY <2>1, <2>2, <2>4
  <2>6. Sum(s) = f[x] + Sum(s \ {x}) /\ f[x] \in Nat /\ Sum(s \ {x}) \in Nat
    BY <1>1, <2>2, <2>4
  <2>7. Sum(A) <= Sum(s)
    BY <2>2, <2>5, <2>6
  <2>8. (\A y \in s \ A : f[y] = 0) => Sum(A) = Sum(s)
    BY <2>2, <2>4, <2>5, <2>6
  <2> QED
    BY <2>1, <2>7, <2>8
<1> QED
  BY <1>2 DEF Sum

LEMMA SumSame ==
  ASSUME NEW S, IsFiniteSet(S), NEW f, NEW g, \A x \in S : f[x] \in Int /\ f[x] = g[x]
  PROVE  SumFunctionOnSet(f, S) = SumFunctionOnSet(g, S)
<1> DEFINE C == {s \in SUBSET S : SumFunctionOnSet(f, s) # SumFunctionOnSet(g, s)}
<1>1. ASSUME C # {} PROVE FALSE
  <2>1. PICK s \in C : \A x \in s : s \ {x} \notin C
    <3>1. C \in SUBSET SUBSET S
      OBVIOUS
    <3> HIDE DEF C
    <3> QED
      BY <1>1, <3>1, SmallestSet
  <2>2. s # {}
    BY <2>1, SumEmpty
  <2>3. PICK x \in s : TRUE
    BY <2>2
  <2>4. IsFiniteSet(s) /\ (\A y \in s : f[y] \in Int) /\ \A y \in s : g[y] \in Int
    BY <2>1, FS_Subset
  <2>5. /\ SumFunctionOnSet(f, s) = f[x] + SumFunctionOnSet(f, s \ {x})
        /\ SumFunctionOnSet(g, s) = g[x] + SumFunctionOnSet(g, s \ {x})
    BY <2>3, <2>4, SumTakes
  <2>6. SumFunctionOnSet(f, s \ {x}) = SumFunctionOnSet(g, s \ {x}) /\ f[x] = g[x]
    BY <2>1, <2>3
  <2> QED
    BY <2>1, <2>5, <2>6
<1> QED
  BY <1>1

LEMMA SumOfOne == ASSUME NEW e, NEW f, f[e] \in Int PROVE SumFunctionOnSet(f, {e}) = f[e]
<1>1. IsFiniteSet({e}) /\ {e} \ {e} = {}
  BY FS_Singleton
<1>2. SumFunctionOnSet(f, {e}) = f[e] + SumFunctionOnSet(f, {e} \ {e})
  BY <1>1, SumTakes
<1> QED
  BY <1>1, <1>2, SumEmpty

-----------------------------------------------------------------------------
(* The books.                                                              *)

(* Rounded basis points of a natural amount are a natural amount.          *)
LEMMA BpsAreNatural ==
  ASSUME NEW amount \in Nat, NEW bps \in Rate
  PROVE  ApplyBps(amount, bps) \in Nat
<1>1. amount * bps \in Nat
  BY DEF Rate
<1>2. \A n \in Nat : (n + 5000) \div 10000 \in Nat
  BY SMT
<1> QED
  BY <1>1, <1>2 DEF ApplyBps

(* What a basket comes to: a sum of natural amounts.                       *)
LEMMA AmountsAreNatural ==
  ASSUME NEW b \in Baskets
  PROVE  Subtotal(b) \in Nat /\ FoodTaxOf(b) \in Nat
<1>1. b \in [1..Len(b) -> [item : Items, quantity : 1..50]] /\ Len(b) \in Int
  <2>1. b \in Seq([item : Items, quantity : 1..50])
    BY BasketAssumption
  <2>2. b \in [1..Len(b) -> [item : Items, quantity : 1..50]]
    BY <2>1, LenProperties
  <2>3. Len(b) \in Nat
    BY <2>1, LenProperties
  <2> QED
    BY <2>2, <2>3
<1>2. IsFiniteSet(DOMAIN b)
  BY <1>1, FS_Interval
<1>3. ASSUME NEW n \in DOMAIN b
      PROVE  LineTotal(b[n]) \in Nat /\ LineTax(b[n]) \in Nat
  <2>1. b[n] \in [item : Items, quantity : 1..50]
    BY <1>1
  <2>2. b[n].item \in Items /\ b[n].quantity \in 1..50
    BY <2>1
  <2>3. Price[b[n].item] \in Nat /\ FoodTax[b[n].item] \in Rate
    BY <2>2, BasketAssumption
  <2>4. LineTotal(b[n]) \in Nat
    <3>1. b[n].quantity \in Nat
      BY <2>2
    <3>2. \A p, q \in Nat : p * q \in Nat
      OBVIOUS
    <3> QED
      BY <2>3, <3>1, <3>2, Zenon DEF LineTotal
  <2> QED
    BY <2>3, <2>4, BpsAreNatural DEF LineTax
<1>4. /\ SumFunctionOnSet([n \in DOMAIN b |-> LineTotal(b[n])], DOMAIN b) \in Nat
      /\ SumFunctionOnSet([n \in DOMAIN b |-> LineTax(b[n])], DOMAIN b) \in Nat
  <2> DEFINE f == [n \in DOMAIN b |-> LineTotal(b[n])]
             g == [n \in DOMAIN b |-> LineTax(b[n])]
  <2>1. \A n \in DOMAIN b : f[n] \in Nat /\ g[n] \in Nat
    BY <1>3
  <2> HIDE DEF f, g
  <2>2. SumFunctionOnSet(f, DOMAIN b) \in Nat /\ SumFunctionOnSet(g, DOMAIN b) \in Nat
    BY <1>2, <2>1, SumIsNat
  <2> QED
    BY <2>2 DEF f, g
<1> QED
  BY <1>4 DEF Subtotal, FoodTaxOf, SumFunction

(* A fee, and the tax on it, are natural amounts whatever the rule.        *)
LEMMA FeesAreNatural ==
  ASSUME NEW rule \in FeeRule, NEW base \in Nat
  PROVE  /\ Fee(rule, base) \in Nat
         /\ FeeTax(rule, Fee(rule, base)) \in Nat
<1>1. /\ rule.rate \in Rate /\ rule.tax \in Rate
      /\ rule.amount \in Nat /\ rule.floor \in Nat /\ rule.cap \in Nat
  BY DEF FeeRule
<1>2. ASSUME NEW amount \in Nat
      PROVE  Clamp(amount, rule.floor, rule.cap) \in Nat
  BY <1>1 DEF Clamp
<1>3. Fee(rule, base) \in Nat
  BY <1>1, <1>2, BpsAreNatural DEF Fee
<1> QED
  BY <1>1, <1>3, BpsAreNatural DEF FeeTax

LEMMA NoRuleIsARule == NoRule \in FeeRule
  BY DEF NoRule, FeeRule, Rate

(* What the parties get is what the customer pays, with no residual.       *)
AddsUp(q) ==
  /\ q.subtotal \in Nat /\ q.foodTax \in Nat
  /\ q.customerFee \in Nat /\ q.customerFeeTax \in Nat
  /\ q.commission \in Nat /\ q.commissionTax \in Nat
  /\ q.operatorShare \in Nat /\ q.operatorShareTax \in Nat
  /\ q.reserve \in Nat /\ q.vendorNet \in Int
  /\ q.adjustment = 0
  /\ q.gross = q.subtotal + q.foodTax + q.customerFee + q.customerFeeTax
  /\ q.gross = q.vendorNet + q.reserve + q.commission + q.commissionTax
               + q.operatorShare + q.operatorShareTax
               + q.customerFee + q.customerFeeTax

(* computeQuote leaves no residual: what the stall, the operator, the      *)
(* platform and the tax reserve get is what the customer pays.             *)
LEMMA QuoteAddsUp ==
  ASSUME NEW subtotal \in Nat, NEW foodTax \in Nat, NEW t \in FeeTerms
  PROVE  AddsUp(Quote(subtotal, foodTax, t))
<1> DEFINE q == Quote(subtotal, foodTax, t)
           customer == IF t.collect THEN t.customer ELSE NoRule
           cf == Fee(customer, subtotal)
           cft == FeeTax(customer, cf)
           base == IF t.s95 THEN subtotal ELSE subtotal + foodTax
           com == Fee(t.vendor, base)
           comt == FeeTax(t.vendor, com)
           op == Fee(t.operator, base)
           opt == FeeTax(t.operator, op)
           res == IF t.s95 THEN foodTax ELSE 0
<1>1. /\ customer \in FeeRule /\ t.vendor \in FeeRule /\ t.operator \in FeeRule
      /\ t.s95 \in BOOLEAN
  BY NoRuleIsARule DEF FeeTerms
<1>2. base \in Nat /\ res \in Nat /\ base + res = subtotal + foodTax
  BY <1>1
<1>3. cf \in Nat /\ cft \in Nat
  BY <1>1, FeesAreNatural
<1>4. com \in Nat /\ comt \in Nat /\ op \in Nat /\ opt \in Nat
  BY <1>1, <1>2, FeesAreNatural
<1>5. /\ q.subtotal = subtotal /\ q.foodTax = foodTax
      /\ q.customerFee = cf /\ q.customerFeeTax = cft
      /\ q.commission = com /\ q.commissionTax = comt
      /\ q.operatorShare = op /\ q.operatorShareTax = opt
      /\ q.reserve = res
      /\ q.gross = subtotal + foodTax + cf + cft
      /\ q.vendorNet = base - (com + comt + op + opt)
      /\ q.adjustment = (subtotal + foodTax + cf + cft)
           - ((base - (com + comt + op + opt)) + res + com + comt + op + opt + cf + cft)
  BY DEF Quote
<1> HIDE DEF q, cf, cft, base, com, comt, op, opt, res
<1>6. AddsUp(q)
  BY <1>2, <1>3, <1>4, <1>5 DEF AddsUp
<1> QED
  BY <1>6 DEF q

(* An order that passed the price check has balanced books, and the refund *)
(* of the same quote takes back from every party what it was given.        *)
LEMMA BooksOfAQuote ==
  ASSUME NEW q, AddsUp(q), Priceable(q)
  PROVE  /\ Balanced(PlacementEntries(q), q)
         /\ \A p \in DOMAIN NoEntries : PlacementEntries(q)[p] + RefundEntries(q)[p] = 0
<1>1. /\ q.subtotal \in Nat /\ q.foodTax \in Nat
      /\ q.customerFee \in Nat /\ q.customerFeeTax \in Nat
      /\ q.commission \in Nat /\ q.commissionTax \in Nat
      /\ q.operatorShare \in Nat /\ q.operatorShareTax \in Nat
      /\ q.reserve \in Nat /\ q.vendorNet \in Nat
      /\ q.adjustment = 0
      /\ q.gross = q.subtotal + q.foodTax + q.customerFee + q.customerFeeTax
      /\ q.gross = q.vendorNet + q.reserve + q.commission + q.commissionTax
                   + q.operatorShare + q.operatorShareTax
                   + q.customerFee + q.customerFeeTax
  BY DEF AddsUp, Priceable
<1>2. \A n \in Nat : Kept(n) = n
  BY DEF Kept
<1>3. /\ FromCustomer(q) = q.gross
      /\ ToVendor(q) = q.vendorNet + q.commission + q.commissionTax
      /\ ToOperator(q) = q.operatorShare + q.operatorShareTax
      /\ ToPlatform(q) = q.reserve + q.customerFee + q.customerFeeTax
      /\ Kept(q.gross) = q.gross
  BY <1>1, <1>2 DEF FromCustomer, ToVendor, ToOperator, ToPlatform
<1>4. /\ FromCustomer(q) \in Nat /\ ToVendor(q) \in Nat
      /\ ToOperator(q) \in Nat /\ ToPlatform(q) \in Nat
      /\ FromCustomer(q) = ToVendor(q) + ToOperator(q) + ToPlatform(q)
  BY <1>1, <1>3
<1>5. Balanced(PlacementEntries(q), q)
  BY <1>3, <1>4 DEF Balanced, Total, PlacementEntries
<1>6. ASSUME NEW p \in {"customer", "vendor", "operator", "platform"}
      PROVE  PlacementEntries(q)[p] + RefundEntries(q)[p] = 0
  BY <1>3, <1>4, <1>6 DEF PlacementEntries, RefundEntries
<1> QED
  BY <1>5, <1>6 DEF NoEntries

-----------------------------------------------------------------------------
(* The inductive invariant: an order carries the quote of its own lines    *)
(* under the fees it was placed with, which it could be placed at, and     *)
(* both its books are that quote's.                                        *)
Snapshot(r) ==
  /\ r.lines \in Baskets /\ r.terms \in FeeTerms
  /\ r.quote = QuoteOf(r.lines, r.terms)
  /\ Priceable(r.quote)
  /\ r.placed = PlacementEntries(r.quote)
  /\ r.status = "refunded" => r.refunded = RefundEntries(r.quote)

Columns == {"status", "lines", "today", "paid", "released", "terms", "quote",
            "placed", "refunded"}

BooksInv ==
  /\ terms \in DOMAIN Terms
  /\ DOMAIN order = Orders
  /\ \A o \in Orders :
       /\ DOMAIN order[o] = Columns
       /\ order[o].status # "none" => Snapshot(order[o])

LEMMA InvCloses == BooksInv => BooksClose
<1> SUFFICES ASSUME BooksInv, NEW o \in Orders, order[o].status # "none"
             PROVE  /\ Balanced(order[o].placed, order[o].quote)
                    /\ order[o].status = "refunded" =>
                         \A p \in DOMAIN NoEntries :
                           order[o].placed[p] + order[o].refunded[p] = 0
  BY DEF BooksClose
<1> DEFINE q == order[o].quote
<1>1. Snapshot(order[o])
  BY DEF BooksInv
<1>2. /\ Subtotal(order[o].lines) \in Nat /\ FoodTaxOf(order[o].lines) \in Nat
      /\ order[o].terms \in FeeTerms
  BY <1>1, AmountsAreNatural DEF Snapshot
<1>3. AddsUp(q) /\ Priceable(q)
  BY <1>1, <1>2, QuoteAddsUp DEF Snapshot, QuoteOf
<1>4. /\ Balanced(PlacementEntries(q), q)
      /\ \A p \in DOMAIN NoEntries : PlacementEntries(q)[p] + RefundEntries(q)[p] = 0
  BY <1>3, BooksOfAQuote
<1> QED
  BY <1>1, <1>4 DEF Snapshot

LEMMA InvStarts == Init => BooksInv
  BY BasketAssumption DEF Init, BooksInv, NoOrderYet, Columns

(* A step that changes nothing but flags and a status that is not refunded *)
(* keeps the snapshot.                                                     *)
LEMMA MovesKeepBooks ==
  ASSUME BooksInv, NEW o \in Orders, NEW from, NEW to,
         "none" \notin from, to # "refunded", MoveOrder(o, from, to)
  PROVE  BooksInv'
<1>1. /\ DOMAIN order' = Orders /\ terms' = terms
      /\ \A p \in Orders \ {o} : order'[p] = order[p]
  BY DEF BooksInv, MoveOrder
<1>2. /\ DOMAIN order'[o] = Columns
      /\ order'[o].status = to
      /\ order'[o].lines = order[o].lines /\ order'[o].terms = order[o].terms
      /\ order'[o].quote = order[o].quote /\ order'[o].placed = order[o].placed
  BY DEF BooksInv, MoveOrder, Columns
<1>3. Snapshot(order[o])
  BY DEF BooksInv, MoveOrder
<1>4. Snapshot(order'[o])
  BY <1>2, <1>3 DEF Snapshot
<1> QED
  BY <1>1, <1>2, <1>4 DEF BooksInv

LEMMA PlacingKeepsBooks ==
  ASSUME BooksInv, NEW o \in Orders, NEW lines \in Baskets, Place(o, lines)
  PROVE  BooksInv'
<1>1. Terms[terms] \in FeeTerms
  BY BasketAssumption DEF BooksInv
<1>2. /\ DOMAIN order' = Orders /\ terms' = terms
      /\ \A p \in Orders \ {o} : order'[p] = order[p]
  BY DEF BooksInv, Place
<1>3. /\ DOMAIN order'[o] = Columns
      /\ order'[o].status = "waiting"
      /\ order'[o].lines = lines /\ order'[o].terms = Terms[terms]
      /\ order'[o].quote = QuoteOf(lines, Terms[terms])
      /\ order'[o].placed = PlacementEntries(order'[o].quote)
      /\ Priceable(order'[o].quote)
  BY DEF BooksInv, Place, Columns
<1>4. Snapshot(order'[o])
  BY <1>1, <1>3 DEF Snapshot
<1> QED
  BY <1>2, <1>3, <1>4 DEF BooksInv

LEMMA RefundsKeepBooks ==
  ASSUME BooksInv, NEW o \in Orders, Refund(o)
  PROVE  BooksInv'
<1>1. /\ DOMAIN order' = Orders /\ terms' = terms
      /\ \A p \in Orders \ {o} : order'[p] = order[p]
  BY DEF BooksInv, Refund
<1>2. /\ DOMAIN order'[o] = Columns
      /\ order'[o].lines = order[o].lines /\ order'[o].terms = order[o].terms
      /\ order'[o].quote = order[o].quote /\ order'[o].placed = order[o].placed
      /\ order'[o].refunded = RefundEntries(QuoteOf(order[o].lines, order[o].terms))
  BY DEF BooksInv, Refund, Columns
<1>3. Snapshot(order[o])
  BY DEF BooksInv, Refund
<1>4. Snapshot(order'[o])
  BY <1>2, <1>3 DEF Snapshot
<1> QED
  BY <1>1, <1>2, <1>4 DEF BooksInv

(* The rest leaves the orders alone, but for midnight's flag.              *)
LEMMA DaysKeepBooks ==
  ASSUME BooksInv, Midnight
  PROVE  BooksInv'
<1>1. DOMAIN order' = Orders /\ terms' = terms
  BY DEF Midnight
<1>2. ASSUME NEW o \in Orders
      PROVE  /\ DOMAIN order'[o] = Columns
             /\ order'[o].status # "none" => Snapshot(order'[o])
  <2>1. /\ DOMAIN order'[o] = Columns
        /\ order'[o].status = order[o].status
        /\ order'[o].lines = order[o].lines /\ order'[o].terms = order[o].terms
        /\ order'[o].quote = order[o].quote /\ order'[o].placed = order[o].placed
        /\ order'[o].refunded = order[o].refunded
    BY DEF BooksInv, Midnight, Columns
  <2> QED
    BY <2>1 DEF BooksInv, Snapshot
<1> QED
  BY <1>1, <1>2 DEF BooksInv

LEMMA OthersKeepBooks ==
  ASSUME BooksInv, UNCHANGED order, UNCHANGED terms \/ ChangeFees
  PROVE  BooksInv'
  BY BasketAssumption DEF BooksInv, ChangeFees

LEMMA BooksInvariant == Spec => []BooksInv
<1>1. BooksInv /\ [Next]_vars => BooksInv'
  <2> SUFFICES ASSUME BooksInv, [Next]_vars
               PROVE  BooksInv'
    OBVIOUS
  <2>1. CASE \E o \in Orders, lines \in Baskets : Place(o, lines)
    BY <2>1, PlacingKeepsBooks
  <2>2. CASE \E o \in Orders :
               Pay(o) \/ Lapse(o) \/ FailDispatch(o) \/ Redispatch(o) \/ Release(o)
    BY <2>2, MovesKeepBooks DEF Pay, Lapse, FailDispatch, Redispatch, Release
  <2>3. CASE \E o \in Orders : Refund(o)
    BY <2>3, RefundsKeepBooks
  <2>4. CASE Midnight
    BY <2>4, DaysKeepBooks
  <2>5. CASE \E i \in Items :
               \/ \E n \in 0..MaxStock : SetStock(i, n)
               \/ \E mark \in Marks : SetAvailability(i, mark)
               \/ AvailableFromPasses(i)
               \/ \E s \in Sessions : Watch(s, i) \/ Unwatch(s, i) \/ WatchExpires(s, i)
    BY <2>5, OthersKeepBooks
       DEF SetStock, SetAvailability, AvailableFromPasses, Watch, Unwatch, WatchExpires
  <2>6. CASE \E w \in Workers : SweepReads(w) \/ SweepMarks(w) \/ SweepDies(w)
    BY <2>6, OthersKeepBooks DEF SweepReads, SweepMarks, SweepDies
  <2>7. CASE ChangeFees
    BY <2>7, OthersKeepBooks DEF ChangeFees
  <2>8. CASE UNCHANGED vars
    BY <2>8, OthersKeepBooks DEF vars
  <2> QED
    BY <2>1, <2>2, <2>3, <2>4, <2>5, <2>6, <2>7, <2>8 DEF Next
<1> QED
  BY <1>1, InvStarts, PTL DEF Spec

(* The books of every order balance, and a refund takes back from every    *)
(* party exactly what the placement gave it (ledger/entries.ts), whatever  *)
(* the menu, the baskets and the fee rules, and whenever these change.     *)
THEOREM BooksAlwaysClose == Spec => []BooksClose
  BY BooksInvariant, InvCloses, PTL

-----------------------------------------------------------------------------
(* The stock.  As long as no race is on record the count covers what was   *)
(* sold and what still waits for its payment, because the only basket that *)
(* may take of a dish is then the one placed: the gate counts it alone.    *)
OrderFits(r) ==
  /\ DOMAIN r = Columns /\ r.lines \in Baskets \cup {<< >>}
  /\ r.today \in BOOLEAN /\ r.paid \in BOOLEAN /\ r.released \in BOOLEAN
  /\ r.status = "none" => ~r.today
  /\ r.status \in {"confirmed", "undelivered"} => r.paid

StockTypes ==
  /\ stock \in [Items -> Int] /\ DOMAIN item = Items /\ DOMAIN order = Orders
  /\ \A i \in Items : /\ DOMAIN item[i] = {"status", "availability", "from", "mode"}
                      /\ stock[i] # NotCounted => item[i].mode = "TRACKED"
  /\ \A o \in Orders : OrderFits(order[o])
  /\ IsFiniteSet({o \in Orders : order[o].today})

Covered(i) == stock[i] = NotCounted \/ i \in raced \/ Claimed(i) <= stock[i]

StockInv == StockTypes /\ \A i \in Items : Covered(i)

LEMMA QuantityIs ==
  ASSUME NEW lines \in Baskets \cup {<< >>}, NEW i
  PROVE  /\ Quantity(lines, i) \in Nat
         /\ i \notin InBasket(lines) => Quantity(lines, i) = 0
         /\ \A n \in DOMAIN lines :
              {m \in DOMAIN lines : lines[m].item = i} = {n}
                => Quantity(lines, i) = lines[n].quantity
<1>1. lines \in Seq([item : Items, quantity : 1..50])
  <2>1. CASE lines \in Baskets
    BY <2>1, BasketAssumption
  <2>2. CASE lines = << >>
    BY <2>2
  <2> QED
    BY <2>1, <2>2
<1>2. \A n \in DOMAIN lines : lines[n].quantity \in Nat
  <2>1. lines \in [1..Len(lines) -> [item : Items, quantity : 1..50]]
    BY <1>1, LenProperties
  <2>2. \A n \in DOMAIN lines : lines[n] \in [item : Items, quantity : 1..50]
    BY <2>1
  <2>3. \A line \in [item : Items, quantity : 1..50] : line.quantity \in Nat
    <3>1. \A line \in [item : Items, quantity : 1..50] : line.quantity \in 1..50
      OBVIOUS
    <3>2. 1..50 \subseteq Nat
      OBVIOUS
    <3> QED
      BY <3>1, <3>2, Zenon
  <2> QED
    BY <2>2, <2>3
<1> DEFINE S == {n \in DOMAIN lines : lines[n].item = i}
           f == [n \in DOMAIN lines |-> lines[n].quantity]
<1>3. IsFiniteSet(S)
  <2>1. DOMAIN lines = 1..Len(lines) /\ Len(lines) \in Int
    BY <1>1, LenProperties
  <2>2. IsFiniteSet(DOMAIN lines) /\ S \in SUBSET DOMAIN lines
    BY <2>1, FS_Interval
  <2> HIDE DEF S
  <2> QED
    BY <2>2, FS_Subset
<1>4. SumFunctionOnSet(f, S) \in Nat
  <2>1. \A x \in S : f[x] \in Nat
    BY <1>2
  <2> HIDE DEF S, f
  <2> QED
    BY <1>3, <2>1, SumIsNat
<1>5. i \notin InBasket(lines) => S = {}
  BY DEF InBasket
<1>6. ASSUME NEW n \in DOMAIN lines, S = {n} PROVE SumFunctionOnSet(f, S) = lines[n].quantity
  <2>1. f[n] \in Int /\ f[n] = lines[n].quantity
    BY <1>2
  <2> HIDE DEF f
  <2> QED
    BY <1>6, <2>1, SumOfOne
<1>7. Quantity(lines, i) = SumFunctionOnSet(f, S)
  BY DEF Quantity
<1> HIDE DEF f
<1> QED
  BY <1>4, <1>5, <1>6, <1>7, SumEmpty

LEMMA WhoTakes ==
  ASSUME StockTypes, NEW i
  PROVE  /\ \A o \in Orders : Taken(i)[o] = Quantity(order[o].lines, i) /\ Taken(i)[o] \in Nat
         /\ IsFiniteSet(Sold) /\ IsFiniteSet(PaidOrWaiting) /\ Sold \in SUBSET PaidOrWaiting
         /\ Claimed(i) \in Nat /\ Consumed(i) \in Nat
         /\ Consumed(i) <= Claimed(i)
         /\ (\A o \in PaidOrWaiting \ Sold : Taken(i)[o] = 0) => Consumed(i) = Claimed(i)
<1>1. \A o \in Orders : Taken(i)[o] = Quantity(order[o].lines, i) /\ Taken(i)[o] \in Nat
  BY QuantityIs DEF Taken, StockTypes, OrderFits
<1>2. IsFiniteSet(Sold) /\ IsFiniteSet(PaidOrWaiting) /\ Sold \in SUBSET PaidOrWaiting
  <2>1. Sold \in SUBSET PaidOrWaiting /\ PaidOrWaiting \in SUBSET {o \in Orders : order[o].today}
    BY DEF Sold, PaidOrWaiting
  <2>2. IsFiniteSet(PaidOrWaiting)
    BY <2>1, FS_Subset DEF StockTypes
  <2> QED
    BY <2>1, <2>2, FS_Subset
<1>3. \A o \in PaidOrWaiting : Taken(i)[o] \in Nat
  BY <1>1 DEF PaidOrWaiting
<1>4. \A o \in Sold : Taken(i)[o] \in Nat
  BY <1>1 DEF Sold
<1>5. Claimed(i) \in Nat /\ Consumed(i) \in Nat
  BY <1>2, <1>3, <1>4, SumIsNat DEF Claimed, Consumed
<1>6. /\ Consumed(i) <= Claimed(i)
      /\ (\A o \in PaidOrWaiting \ Sold : Taken(i)[o] = 0) => Consumed(i) = Claimed(i)
  BY <1>2, <1>3, SumGrows DEF Claimed, Consumed
<1> QED
  BY <1>1, <1>2, <1>5, <1>6

(* A step after which no more orders claim anything keeps what is covered. *)
LEMMA ClaimsShrink ==
  ASSUME StockInv, StockTypes', \A o \in Orders : order'[o].lines = order[o].lines,
         PaidOrWaiting' \subseteq PaidOrWaiting, UNCHANGED <<stock, raced>>
  PROVE  StockInv'
<1> SUFFICES ASSUME NEW i \in Items PROVE Covered(i)'
  BY DEF StockInv
<1>1. Taken(i)' = Taken(i)
  BY DEF Taken
<1>2. /\ IsFiniteSet(PaidOrWaiting) /\ \A o \in PaidOrWaiting : Taken(i)[o] \in Nat
      /\ Claimed(i) \in Nat
  BY WhoTakes DEF StockInv, PaidOrWaiting
<1>3. SumFunctionOnSet(Taken(i), PaidOrWaiting') <= Claimed(i)
  BY <1>2, SumGrows DEF Claimed
<1>4. Claimed(i)' = SumFunctionOnSet(Taken(i), PaidOrWaiting')
  BY <1>1 DEF Claimed
<1>5. SumFunctionOnSet(Taken(i), PaidOrWaiting') \in Nat
  <2>1. IsFiniteSet(PaidOrWaiting')
    BY <1>2, FS_Subset
  <2> QED
    BY <1>2, <2>1, SumIsNat
<1>6. Covered(i) /\ stock[i] \in Int /\ stock'[i] = stock[i]
  BY DEF StockInv, StockTypes
<1> QED
  BY <1>2, <1>3, <1>4, <1>5, <1>6 DEF Covered

LEMMA StockStarts == Init => StockInv
<1> SUFFICES ASSUME Init PROVE StockInv
  OBVIOUS
<1>1. \A o \in Orders : order[o] = NoOrderYet
  BY DEF Init
<1>2. OrderFits(NoOrderYet)
  BY DEF OrderFits, NoOrderYet, Columns
<1>3. {o \in Orders : order[o].today} = {}
  BY <1>1 DEF NoOrderYet
<1>4. \A i \in Items : /\ DOMAIN item[i] = {"status", "availability", "from", "mode"}
                       /\ stock[i] = NotCounted
  BY DEF Init
<1>5. stock \in [Items -> Int] /\ DOMAIN item = Items /\ DOMAIN order = Orders
  BY DEF Init, NotCounted
<1> QED
  BY <1>1, <1>2, <1>3, <1>4, <1>5, FS_EmptySet DEF StockInv, StockTypes, Covered

(* No move of an order but its confirmation lets it claim anything, and    *)
(* that one only what it claimed while it waited.                          *)
LEMMA MovesCover ==
  ASSUME StockInv, NEW o \in Orders, NEW from, NEW to, MoveOrder(o, from, to),
         "none" \notin from, to \notin {"none", "waiting"},
         to = "confirmed" => from \subseteq {"waiting", "undelivered"},
         to = "undelivered" => from = {"confirmed"}
  PROVE  StockInv'
<1>1. /\ DOMAIN order' = Orders /\ DOMAIN order'[o] = Columns
      /\ \A p \in Orders \ {o} : order'[p] = order[p]
      /\ order'[o].status = to /\ order'[o].lines = order[o].lines
      /\ order'[o].today = order[o].today
      /\ order'[o].paid = (order[o].paid \/ to = "confirmed")
      /\ order'[o].released = (order[o].released \/ to = "released")
  BY DEF StockInv, StockTypes, OrderFits, MoveOrder, Columns
<1>2. \A p \in Orders : order'[p].lines = order[p].lines /\ order'[p].today = order[p].today
  BY <1>1
<1>3. OrderFits(order[o]) /\ order[o].status \in from
  BY DEF StockInv, StockTypes, MoveOrder
<1>4. OrderFits(order'[o])
  BY <1>1, <1>3 DEF OrderFits
<1>5. PaidOrWaiting' \subseteq PaidOrWaiting
  BY <1>1, <1>3 DEF PaidOrWaiting, OrderFits
<1>6. {p \in Orders : order'[p].today} = {p \in Orders : order[p].today}
  BY <1>2
<1>7. UNCHANGED <<item, stock, raced>>
  BY DEF MoveOrder
<1>8. StockTypes'
  BY <1>1, <1>4, <1>6, <1>7 DEF StockInv, StockTypes
<1> QED
  BY <1>2, <1>5, <1>7, <1>8, ClaimsShrink

LEMMA RefundsCover ==
  ASSUME StockInv, NEW o \in Orders, Refund(o)
  PROVE  StockInv'
<1>1. /\ DOMAIN order' = Orders /\ DOMAIN order'[o] = Columns
      /\ \A p \in Orders \ {o} : order'[p] = order[p]
      /\ order'[o].status = "refunded" /\ order'[o].lines = order[o].lines
      /\ order'[o].today = order[o].today /\ order'[o].paid = order[o].paid
      /\ order'[o].released = order[o].released
  BY DEF StockInv, StockTypes, OrderFits, Refund, Columns
<1>2. \A p \in Orders : order'[p].lines = order[p].lines /\ order'[p].today = order[p].today
  BY <1>1
<1>3. OrderFits(order'[o])
  BY <1>1 DEF OrderFits, StockInv, StockTypes
<1>4. PaidOrWaiting' \subseteq PaidOrWaiting
  BY <1>1 DEF PaidOrWaiting
<1>5. {p \in Orders : order'[p].today} = {p \in Orders : order[p].today}
  BY <1>2
<1>6. UNCHANGED <<item, stock, raced>>
  BY DEF Refund
<1>7. StockTypes'
  BY <1>1, <1>3, <1>5, <1>6 DEF StockInv, StockTypes
<1> QED
  BY <1>2, <1>4, <1>6, <1>7, ClaimsShrink

(* The gate: a dish on no other waiting order and in one line of the       *)
(* basket has as many portions left as the line takes.                     *)
LEMMA PlacingCovers ==
  ASSUME StockInv, NEW o \in Orders, NEW lines \in Baskets, Place(o, lines)
  PROVE  StockInv'
<1>1. /\ DOMAIN order' = Orders
      /\ \A p \in Orders \ {o} : order'[p] = order[p]
      /\ DOMAIN order'[o] = Columns
      /\ order'[o].status = "waiting" /\ order'[o].lines = lines
      /\ order'[o].today = TRUE /\ order'[o].paid = FALSE /\ order'[o].released = FALSE
      /\ UNCHANGED <<item, stock>>
  BY DEF StockInv, StockTypes, Place, Columns
<1>2. order[o].status = "none" /\ ~order[o].today
  BY DEF StockInv, StockTypes, OrderFits, Place
<1>3. StockTypes'
  <2>1. {p \in Orders : order'[p].today} = {p \in Orders : order[p].today} \cup {o}
    BY <1>1
  <2>2. IsFiniteSet({p \in Orders : order'[p].today})
    <3> DEFINE S == {p \in Orders : order[p].today}
    <3>1. IsFiniteSet(S)
      BY DEF StockInv, StockTypes
    <3> HIDE DEF S
    <3>2. IsFiniteSet(S \cup {o})
      BY <3>1, FS_AddElement
    <3> QED
      BY <2>1, <3>2 DEF S
  <2>3. OrderFits(order'[o])
    BY <1>1 DEF OrderFits
  <2> QED
    BY <1>1, <2>2, <2>3 DEF StockInv, StockTypes
<1>4. PaidOrWaiting' = PaidOrWaiting \cup {o} /\ o \notin PaidOrWaiting
  BY <1>1, <1>2 DEF PaidOrWaiting
<1>5. SUFFICES ASSUME NEW i \in Items PROVE Covered(i)'
  BY <1>3 DEF StockInv
<1> DEFINE q == Quantity(lines, i)
<1>6. q \in Nat
  BY QuantityIs
<1>7. Claimed(i)' = q + Claimed(i)
  <2>1. \A p \in Orders : Taken(i)'[p] = IF p = o THEN q ELSE Taken(i)[p]
    BY <1>1 DEF Taken
  <2>2. /\ \A p \in Orders : Taken(i)[p] \in Nat
        /\ IsFiniteSet(PaidOrWaiting) /\ PaidOrWaiting \subseteq Orders
    BY WhoTakes DEF StockInv, PaidOrWaiting
  <2>3. IsFiniteSet(PaidOrWaiting') /\ PaidOrWaiting' \ {o} = PaidOrWaiting /\ o \in PaidOrWaiting'
    BY <1>4, <2>2, FS_AddElement
  <2> HIDE DEF q
  <2>4. \A p \in PaidOrWaiting' : Taken(i)'[p] \in Int
    BY <1>4, <1>6, <2>1, <2>2
  <2>5. SumFunctionOnSet(Taken(i)', PaidOrWaiting')
          = Taken(i)'[o] + SumFunctionOnSet(Taken(i)', PaidOrWaiting)
    BY <2>3, <2>4, SumTakes
  <2>6. \A p \in PaidOrWaiting : Taken(i)[p] \in Int /\ Taken(i)[p] = Taken(i)'[p]
    BY <1>4, <2>1, <2>2
  <2>7. SumFunctionOnSet(Taken(i), PaidOrWaiting) = SumFunctionOnSet(Taken(i)', PaidOrWaiting)
    BY <2>2, <2>6, SumSame
  <2> QED
    BY <2>1, <2>5, <2>7 DEF Claimed
<1>8. Claimed(i) \in Nat /\ Consumed(i) \in Nat /\ stock[i] \in Int /\ Covered(i)
  BY WhoTakes DEF StockInv, StockTypes
<1>9. raced \subseteq raced'
  BY DEF Place
<1>10. CASE i \notin InBasket(lines)
  <2>1. q = 0
    BY <1>10, QuantityIs
  <2> QED
    BY <1>1, <1>7, <1>8, <1>9, <2>1 DEF Covered
<1>11. CASE i \in InBasket(lines) /\ i \notin raced' /\ stock[i] # NotCounted
  <2>1. /\ ~\E p \in Orders : order[p].status = "waiting" /\ order[p].today
                              /\ i \in InBasket(order[p].lines)
        /\ ~(Cardinality({n \in DOMAIN lines : lines[n].item = i}) > 1)
    BY <1>11 DEF Place
  <2>2. PICK n \in DOMAIN lines : lines[n].item = i
    BY <1>11 DEF InBasket
  <2>3. {m \in DOMAIN lines : lines[m].item = i} = {n}
    <3> DEFINE S == {m \in DOMAIN lines : lines[m].item = i}
    <3>1. IsFiniteSet(S) /\ n \in S
      <4>1. lines \in Seq([item : Items, quantity : 1..50])
        BY BasketAssumption
      <4>2. DOMAIN lines = 1..Len(lines) /\ Len(lines) \in Int
        BY <4>1, LenProperties
      <4>3. IsFiniteSet(DOMAIN lines) /\ S \in SUBSET DOMAIN lines
        BY <4>2, FS_Interval
      <4>4. n \in S
        BY <2>2
      <4> HIDE DEF S
      <4> QED
        BY <4>3, <4>4, FS_Subset
    <3>2. ~(Cardinality(S) > 1)
      BY <2>1
    <3> HIDE DEF S
    <3>3. Cardinality(S) \in Nat /\ Cardinality(S) # 0
      BY <3>1, FS_CardinalityType, FS_EmptySet
    <3>4. Cardinality(S) = 1
      BY <3>2, <3>3
    <3>5. S = {n}
      BY <3>1, <3>4, FS_Singleton
    <3> QED
      BY <3>5 DEF S
  <2>4. q = lines[n].quantity
    BY <2>3, QuantityIs
  <2>5. Remaining(i) - q + 1 > 0
    <3>1. Orderable(lines[n].item, lines[n].quantity)
      BY DEF Place
    <3>2. item[i].mode = "TRACKED"
      BY <1>11 DEF StockInv, StockTypes
    <3> QED
      BY <2>2, <2>4, <3>1, <3>2 DEF Orderable
  <2>6. Consumed(i) = Claimed(i)
    <3>1. ASSUME NEW p \in PaidOrWaiting \ Sold PROVE Taken(i)[p] = 0
      <4>1. p \in Orders /\ order[p].status = "waiting" /\ order[p].today
        BY <3>1 DEF PaidOrWaiting, Sold
      <4>2. i \notin InBasket(order[p].lines)
        BY <2>1, <4>1
      <4>3. Quantity(order[p].lines, i) = 0
        BY <4>1, <4>2, QuantityIs DEF StockInv, StockTypes, OrderFits
      <4> QED
        BY <4>1, <4>3 DEF Taken
    <3> QED
      BY <3>1, WhoTakes DEF StockInv
  <2> HIDE DEF q
  <2>7. q + Claimed(i) <= stock[i]
    BY <1>6, <1>8, <1>11, <2>5, <2>6 DEF Remaining
  <2> QED
    BY <1>1, <1>7, <2>7 DEF Covered
<1> QED
  BY <1>1, <1>10, <1>11 DEF Covered

(* What the manager does: a count below what is taken is on record.        *)
LEMMA CountsCover ==
  ASSUME StockInv, NEW i \in Items, NEW n \in 0..MaxStock, SetStock(i, n)
  PROVE  StockInv'
<1>1. /\ stock' = [stock EXCEPT ![i] = n] /\ item' = [item EXCEPT ![i].mode = "TRACKED"]
      /\ raced' = IF n < Claimed(i) THEN raced \cup {i} ELSE raced
      /\ UNCHANGED order
  BY DEF SetStock
<1>2. n \in Nat
  BY BasketAssumption
<1>3. StockTypes'
  <2>1. stock' \in [Items -> Int] /\ DOMAIN item' = Items
    BY <1>1, <1>2 DEF StockInv, StockTypes
  <2>2. ASSUME NEW j \in Items
        PROVE  /\ DOMAIN item'[j] = {"status", "availability", "from", "mode"}
               /\ stock'[j] # NotCounted => item'[j].mode = "TRACKED"
    BY <1>1 DEF StockInv, StockTypes
  <2>3. {o \in Orders : order'[o].today} = {o \in Orders : order[o].today}
    BY <1>1
  <2> QED
    BY <1>1, <2>1, <2>2, <2>3 DEF StockInv, StockTypes
<1>4. ASSUME NEW j \in Items PROVE Covered(j)'
  <2>1. Claimed(j)' = Claimed(j) /\ Claimed(j) \in Nat
    BY <1>1, WhoTakes DEF StockInv, Claimed, Taken, PaidOrWaiting
  <2>2. Covered(j) /\ raced \subseteq raced'
    BY <1>1 DEF StockInv
  <2>3. CASE j = i
    BY <1>1, <1>2, <2>1, <2>3 DEF Covered, StockInv, StockTypes
  <2>4. CASE j # i
    <3>1. stock'[j] = stock[j]
      BY <1>1, <2>4 DEF StockInv, StockTypes
    <3> QED
      BY <2>1, <2>2, <3>1 DEF Covered
  <2> QED
    BY <2>3, <2>4
<1> QED
  BY <1>3, <1>4 DEF StockInv

LEMMA MarksCover ==
  ASSUME StockInv, NEW i \in Items,
         AvailableFromPasses(i) \/ \E mark \in Marks : SetAvailability(i, mark)
  PROVE  StockInv'
<1>1. UNCHANGED <<stock, order, raced>>
  BY DEF AvailableFromPasses, SetAvailability
<1>2. /\ DOMAIN item' = Items
      /\ \A j \in Items : /\ DOMAIN item'[j] = {"status", "availability", "from", "mode"}
                          /\ item'[j].mode = item[j].mode
  <2>1. \A j \in Items : DOMAIN item[j] = {"status", "availability", "from", "mode"}
    BY DEF StockInv, StockTypes
  <2>2. DOMAIN item = Items
    BY DEF StockInv, StockTypes
  <2>3. CASE AvailableFromPasses(i)
    BY <2>1, <2>2, <2>3 DEF AvailableFromPasses
  <2>4. ASSUME NEW a, NEW f, item' = [item EXCEPT ![i].availability = a, ![i].from = f]
        PROVE  /\ DOMAIN item' = Items
               /\ \A j \in Items : /\ DOMAIN item'[j] = {"status", "availability", "from", "mode"}
                                   /\ item'[j].mode = item[j].mode
    BY <2>1, <2>2, <2>4
  <2> QED
    BY <2>3, <2>4 DEF SetAvailability
<1>3. /\ {o \in Orders : order'[o].today} = {o \in Orders : order[o].today}
      /\ PaidOrWaiting' = PaidOrWaiting
  BY <1>1 DEF PaidOrWaiting
<1>4. StockTypes'
  BY <1>1, <1>2, <1>3 DEF StockInv, StockTypes
<1> QED
  BY <1>1, <1>3, <1>4, ClaimsShrink

LEMMA MidnightCovers ==
  ASSUME StockInv, Midnight
  PROVE  StockInv'
<1>1. /\ stock' = [i \in Items |-> NotCounted] /\ item' = item
      /\ order' = [o \in Orders |-> [order[o] EXCEPT !.today = FALSE]]
  BY DEF Midnight
<1>2. \A o \in Orders : OrderFits(order'[o]) /\ ~order'[o].today
  BY <1>1 DEF StockInv, StockTypes, OrderFits, Columns
<1>3. {o \in Orders : order'[o].today} = {}
  BY <1>2
<1>4. \A i \in Items : stock'[i] = NotCounted
  BY <1>1
<1>5. stock' \in [Items -> Int] /\ DOMAIN order' = Orders
  BY <1>1 DEF NotCounted
<1> QED
  BY <1>1, <1>2, <1>3, <1>4, <1>5, FS_EmptySet DEF StockInv, StockTypes, Covered

LEMMA OthersCover ==
  ASSUME StockInv, UNCHANGED <<item, stock, order, raced>>
  PROVE  StockInv'
<1>1. /\ {o \in Orders : order'[o].today} = {o \in Orders : order[o].today}
      /\ PaidOrWaiting' = PaidOrWaiting
  BY DEF PaidOrWaiting
<1>2. StockTypes'
  BY <1>1 DEF StockInv, StockTypes
<1> QED
  BY <1>1, <1>2, ClaimsShrink

(* PRD 6.1, order.repository.ts:573: a dish is promised more often than it *)
(* was counted only by what the code knows it does not prevent: two unpaid *)
(* orders, two lines of one basket, or a manager's cut, for any number of  *)
(* dishes, orders and baskets.                                             *)
THEOREM OversoldByRaceOnly == Spec => []OversoldOnlyByRace
<1>1. StockInv /\ [Next]_vars => StockInv'
  <2> SUFFICES ASSUME StockInv, [Next]_vars
               PROVE  StockInv'
    OBVIOUS
  <2>1. CASE \E o \in Orders, lines \in Baskets : Place(o, lines)
    BY <2>1, PlacingCovers
  <2>2. CASE \E o \in Orders :
               Pay(o) \/ Lapse(o) \/ FailDispatch(o) \/ Redispatch(o) \/ Release(o)
    BY <2>2, MovesCover DEF Pay, Lapse, FailDispatch, Redispatch, Release
  <2>3. CASE \E o \in Orders : Refund(o)
    BY <2>3, RefundsCover
  <2>4. CASE Midnight
    BY <2>4, MidnightCovers
  <2>5. CASE \E i \in Items : \E n \in 0..MaxStock : SetStock(i, n)
    BY <2>5, CountsCover
  <2>6. CASE \E i \in Items : \/ \E mark \in Marks : SetAvailability(i, mark)
                              \/ AvailableFromPasses(i)
    BY <2>6, MarksCover
  <2>7. CASE \E i \in Items, s \in Sessions : Watch(s, i) \/ Unwatch(s, i) \/ WatchExpires(s, i)
    BY <2>7, OthersCover DEF Watch, Unwatch, WatchExpires
  <2>8. CASE \E w \in Workers : SweepReads(w) \/ SweepMarks(w) \/ SweepDies(w)
    BY <2>8, OthersCover DEF SweepReads, SweepMarks, SweepDies
  <2>9. CASE ChangeFees \/ UNCHANGED vars
    BY <2>9, OthersCover DEF ChangeFees, vars
  <2> QED
    BY <2>1, <2>2, <2>3, <2>4, <2>5, <2>6, <2>7, <2>8, <2>9 DEF Next
<1>2. StockInv => OversoldOnlyByRace
  <2> SUFFICES ASSUME StockInv, NEW i \in Items, Remaining(i) < 0 PROVE i \in raced
    BY DEF OversoldOnlyByRace
  <2>1. /\ Claimed(i) \in Nat /\ Consumed(i) \in Nat /\ Consumed(i) <= Claimed(i)
        /\ stock[i] \in Int /\ Covered(i)
    BY WhoTakes DEF StockInv, StockTypes
  <2> QED
    BY <2>1 DEF Remaining, Covered
<1> QED
  BY <1>1, <1>2, StockStarts, PTL DEF Spec

-----------------------------------------------------------------------------
(* The diner's phone.                                                      *)
Customers == Diners \cup {"none"}
CartSessions == QrSessions \cup {"none"}
Vendors == Stalls \cup {"none"}
Masked == {Mask[d] : d \in Diners} \cup {"none"}

Carts ==
  [session : CartSessions, key : Nat, vendor : Vendors, lines : Nat,
   customerPhone : Masked, identityMode : {"otp", "counter"}]
CallsOfTaps ==
  [key : Nat, vendor : Vendors, lines : Nat, session : CartSessions,
   customer : Customers, turn : Nat]
TapSteps == {"placing", "placed", "ready", "done"} \cup Refusals
TapRows == [pc : TapSteps, order : Nat, call : CallsOfTaps]
OrderRows ==
  [key : Nat, customer : Customers, vendor : Vendors, lines : Nat, turn : Nat, shown : BOOLEAN,
   status : {"CREATED", "PAYMENT_PENDING", "PAYMENT_CONFIRMED", "PAYMENT_FAILED",
             "PAYMENT_EXPIRED"},
   payment : {"none", "CREATED"} \cup Settled, debited : BOOLEAN]
Pays ==
  [intent : {"none", "ready", "NETWORK"} \cup Refusals,
   payment : {"none", "CREATED"} \cup Settled, fired : BOOLEAN, auto : BOOLEAN]
Screens ==
  [route : {"scan", "court", "checkout", "verify", "pay", "order"}, order : Nat,
   from : {"none", "checkout", "pay", "order"}]

(* A screen that names one of n orders, and a gate that knows its way back.*)
ScreenOf(s, n) ==
  /\ s \in Screens /\ s.order <= n
  /\ "pay" \in {s.route, s.from} => s.order # 0
  /\ s.route = "verify" => s.from # "none"

PhoneTypeOK ==
  /\ cart \in Carts
  /\ token \in Customers
  /\ ScreenOf(screen, Len(orders))
  /\ taps \in Seq(TapRows)
  /\ \A n \in DOMAIN taps :
       /\ taps[n].order <= Len(orders)
       /\ taps[n].pc \in {"placed", "ready"} => taps[n].order # 0
  /\ late \subseteq CallsOfTaps
  /\ app_session \in [QrSessions -> Customers]
  /\ orders \in Seq(OrderRows)
  /\ pay \in Pays
  /\ turn \in Nat

(* Rows that take one new value.                                           *)
LEMMA CartWith ==
  ASSUME NEW c \in Carts
  PROVE  /\ \A s \in CartSessions : [c EXCEPT !.session = s] \in Carts
         /\ \A k \in Nat : [c EXCEPT !.key = k] \in Carts
         /\ \A v \in Vendors : [c EXCEPT !.vendor = v] \in Carts
         /\ \A k \in Nat : [c EXCEPT !.lines = k] \in Carts
         /\ \A m \in Masked : [c EXCEPT !.customerPhone = m] \in Carts
         /\ \A m \in {"otp", "counter"} : [c EXCEPT !.identityMode = m] \in Carts
BY DEF Carts

LEMMA OrderWith ==
  ASSUME NEW o \in OrderRows
  PROVE  /\ \A b \in BOOLEAN : [o EXCEPT !.shown = b] \in OrderRows
         /\ \A b \in BOOLEAN : [o EXCEPT !.debited = b] \in OrderRows
         /\ \A p \in {"none", "CREATED"} \cup Settled : [o EXCEPT !.payment = p] \in OrderRows
         /\ \A s \in {"CREATED", "PAYMENT_PENDING", "PAYMENT_CONFIRMED", "PAYMENT_FAILED",
                      "PAYMENT_EXPIRED"} : [o EXCEPT !.status = s] \in OrderRows
BY DEF OrderRows

LEMMA PayWith ==
  ASSUME NEW p \in Pays
  PROVE  /\ \A s \in {"none", "ready", "NETWORK"} \cup Refusals : [p EXCEPT !.intent = s] \in Pays
         /\ \A s \in {"none", "CREATED"} \cup Settled : [p EXCEPT !.payment = s] \in Pays
         /\ \A b \in BOOLEAN : [p EXCEPT !.fired = b] \in Pays
         /\ \A b \in BOOLEAN : [p EXCEPT !.auto = b] \in Pays
BY DEF Pays

LEMMA ScreenWith ==
  ASSUME NEW n \in Nat
  PROVE  /\ \A r \in {"scan", "court", "checkout"} : ScreenOf(At(r), n)
         /\ \A s \in Screens : ScreenOf(s, n) /\ s.route \in {"checkout", "pay", "order"}
                                => \A may \in BOOLEAN : ScreenOf(Gated(s, may), n)
         /\ \A s \in Screens : ScreenOf(s, n) /\ s.route = "pay"
                                => ScreenOf([s EXCEPT !.route = "order"], n)
<1>1. \A r \in {"scan", "court", "checkout"} : ScreenOf(At(r), n)
  BY DEF ScreenOf, At, Screens
<1>2. ASSUME NEW s \in Screens, ScreenOf(s, n), s.route \in {"checkout", "pay", "order"},
             NEW may \in BOOLEAN
      PROVE  ScreenOf(Gated(s, may), n)
  <2> DEFINE v == [s EXCEPT !.route = "verify"]
             w == [v EXCEPT !.from = s.route]
  <2>1. v \in Screens /\ v.route = "verify" /\ v.order = s.order
    BY DEF Screens
  <2>2. ScreenOf(w, n)
    <3> HIDE DEF v
    <3> QED
      BY <1>2, <2>1 DEF Screens, ScreenOf
  <2>3. Gated(s, may) = s \/ Gated(s, may) = w
    BY DEF Gated
  <2> HIDE DEF w
  <2> QED
    BY <1>2, <2>2, <2>3
<1>3. ASSUME NEW s \in Screens, ScreenOf(s, n), s.route = "pay"
      PROVE  ScreenOf([s EXCEPT !.route = "order"], n)
  BY <1>3 DEF Screens, ScreenOf
<1> QED
  BY <1>1, <1>2, <1>3

(* What became of the orders of the server between two moments.            *)
SameOrder(o, p) ==
  p.key = o.key /\ p.customer = o.customer /\ p.turn = o.turn /\ (o.shown => p.shown)

GoOn ==
  /\ Len(orders') = Len(orders) /\ orders' \in Seq(OrderRows)
  /\ \A i \in DOMAIN orders : SameOrder(orders[i], orders'[i])

LEMMA OneGoesOn ==
  ASSUME PhoneTypeOK, NEW i \in DOMAIN orders, NEW o \in OrderRows, SameOrder(orders[i], o),
         orders' = [orders EXCEPT ![i] = o]
  PROVE  GoOn
BY DEF PhoneTypeOK, GoOn, SameOrder

LEMMA NoneGoesOn == ASSUME PhoneTypeOK, UNCHANGED orders PROVE GoOn
BY DEF PhoneTypeOK, GoOn, SameOrder

LEMMA IntentGoesOn ==
  ASSUME PhoneTypeOK, NEW i \in DOMAIN orders, ServerIntent(i)
  PROVE  GoOn
<1>1. orders[i] \in OrderRows
  BY DEF PhoneTypeOK
<1> DEFINE o == [orders[i] EXCEPT !.status = "PAYMENT_PENDING", !.payment = "CREATED"]
<1>2. o \in OrderRows /\ SameOrder(orders[i], o)
  <2> DEFINE s == [orders[i] EXCEPT !.status = "PAYMENT_PENDING"]
  <2>1. s \in OrderRows /\ SameOrder(orders[i], s)
    BY <1>1 DEF OrderRows, SameOrder
  <2>2. o = [s EXCEPT !.payment = "CREATED"]
    OBVIOUS
  <2> HIDE DEF s
  <2> QED
    BY <2>1, <2>2 DEF OrderRows, SameOrder
<1>3. orders' = orders \/ orders' = [orders EXCEPT ![i] = o]
  BY DEF ServerIntent
<1> HIDE DEF o
<1> QED
  BY <1>2, <1>3, OneGoesOn, NoneGoesOn

LEMMA TapWith ==
  ASSUME NEW t \in TapRows
  PROVE  /\ \A p \in TapSteps :
              [t EXCEPT !.pc = p] \in TapRows /\ [t EXCEPT !.pc = p].pc = p
              /\ [t EXCEPT !.pc = p].order = t.order /\ [t EXCEPT !.pc = p].call = t.call
         /\ \A k \in Nat :
              [t EXCEPT !.order = k] \in TapRows /\ [t EXCEPT !.order = k].order = k
              /\ [t EXCEPT !.order = k].pc = t.pc /\ [t EXCEPT !.order = k].call = t.call
BY DEF TapRows

(* One tap goes on: what it asked for stays as it is.                      *)
Moved(n, p, k) ==
  /\ taps' \in Seq(TapRows) /\ Len(taps') = Len(taps) /\ DOMAIN taps' = DOMAIN taps
  /\ taps'[n].pc = p /\ taps'[n].order = k /\ taps'[n].call = taps[n].call
  /\ \A m \in DOMAIN taps \ {n} : taps'[m] = taps[m]

LEMMA TapRewritten ==
  ASSUME PhoneTypeOK, NEW n \in DOMAIN taps, NEW r \in TapRows, r.call = taps[n].call,
         taps' = [taps EXCEPT ![n] = r]
  PROVE  Moved(n, r.pc, r.order)
<1>1. taps \in Seq(TapRows)
  BY DEF PhoneTypeOK
<1> QED
  BY <1>1 DEF Moved

LEMMA TapMoved ==
  ASSUME PhoneTypeOK, NEW n \in DOMAIN taps, NEW p \in TapSteps, NEW k \in Nat,
         taps' = [taps EXCEPT ![n].pc = p, ![n].order = k]
  PROVE  Moved(n, p, k)
<1>1. taps \in Seq(TapRows) /\ taps[n] \in TapRows
  BY DEF PhoneTypeOK
<1> DEFINE s == [taps[n] EXCEPT !.pc = p]
           r == [s EXCEPT !.order = k]
<1>2. s \in TapRows /\ s.pc = p /\ s.call = taps[n].call
  BY <1>1, TapWith
<1>3. r \in TapRows /\ r.pc = p /\ r.order = k /\ r.call = taps[n].call
  <2> HIDE DEF s
  <2> QED
    BY <1>2, TapWith
<1>4. taps' = [taps EXCEPT ![n] = r]
  <2>1. taps' = [[taps EXCEPT ![n].pc = p] EXCEPT ![n].order = k]
    OBVIOUS
  <2>2. [taps EXCEPT ![n].pc = p] = [taps EXCEPT ![n] = s]
    OBVIOUS
  <2>3. [[taps EXCEPT ![n] = s] EXCEPT ![n].order = k] = [taps EXCEPT ![n] = r]
    <3> HIDE DEF s
    <3>1. [taps EXCEPT ![n] = s][n] = s
      BY <1>1
    <3> QED
      BY <1>1, <3>1
  <2> QED
    BY <2>1, <2>2, <2>3
<1> HIDE DEF r, s
<1>5. Moved(n, r.pc, r.order)
  BY <1>3, <1>4, TapRewritten, Zenon
<1> QED
  BY <1>3, <1>5, Zenon

LEMMA TapEnds ==
  ASSUME PhoneTypeOK, NEW n \in DOMAIN taps, NEW p \in TapSteps,
         taps' = [taps EXCEPT ![n].pc = p]
  PROVE  Moved(n, p, taps[n].order)
<1>1. taps \in Seq(TapRows) /\ taps[n] \in TapRows
  BY DEF PhoneTypeOK
<1> DEFINE s == [taps[n] EXCEPT !.pc = p]
<1>2. s \in TapRows /\ s.pc = p /\ s.order = taps[n].order /\ s.call = taps[n].call
  BY <1>1, TapWith
<1>3. taps' = [taps EXCEPT ![n] = s]
  OBVIOUS
<1> HIDE DEF s
<1> QED
  BY <1>1, <1>2, <1>3 DEF Moved

(* And what a load does to all of them.                                    *)
LEMMA Loaded ==
  ASSUME PhoneTypeOK, Load
  PROVE  /\ token' = "none" /\ pay' = NoPay /\ late' \subseteq late \cup {taps[n].call : n \in DOMAIN taps}
         /\ late' \subseteq CallsOfTaps
         /\ taps' \in Seq(TapRows) /\ Len(taps') = Len(taps) /\ DOMAIN taps' = DOMAIN taps
         /\ \A n \in DOMAIN taps : taps'[n].pc = "done" /\ taps'[n].call = taps[n].call
                                  /\ taps'[n].order = taps[n].order
<1>1. PICK k \in Nat : taps \in [1..k -> TapRows] /\ DOMAIN taps = 1..k /\ Len(taps) = k
  BY DEF PhoneTypeOK
<1>2. \A n \in 1..k : taps[n] \in TapRows /\ taps[n].call \in CallsOfTaps
  BY <1>1 DEF TapRows
<1> DEFINE s(n) == [taps[n] EXCEPT !.pc = "done"]
<1>3. \A n \in 1..k : /\ s(n) \in TapRows /\ s(n).pc = "done" /\ s(n).call = taps[n].call
                      /\ s(n).order = taps[n].order
  BY <1>2, TapWith DEF TapSteps
<1>4. taps' = [n \in 1..k |-> s(n)]
  BY <1>1 DEF Load
<1> HIDE DEF s
<1>5. taps' \in [1..k -> TapRows] /\ \A n \in 1..k : taps'[n] = s(n)
  BY <1>3, <1>4
<1>6. /\ late' \subseteq late \cup {taps[n].call : n \in 1..k}
      /\ late' \subseteq CallsOfTaps
  BY <1>1, <1>2 DEF Load, PhoneTypeOK
<1>7. token' = "none" /\ pay' = NoPay
  BY DEF Load
<1> QED
  BY <1>1, <1>3, <1>5, <1>6, <1>7

(* What the screens and the server change next to the orders and the taps. *)
Around ==
  /\ cart' \in Carts /\ token' \in Customers /\ ScreenOf(screen', Len(orders))
  /\ late' \subseteq CallsOfTaps /\ app_session' \in [QrSessions -> Customers]
  /\ pay' \in Pays /\ turn' \in Nat

LEMMA TypesAround ==
  ASSUME PhoneTypeOK, Around, GoOn, UNCHANGED taps
  PROVE  PhoneTypeOK'
BY DEF PhoneTypeOK, Around, GoOn

LEMMA TypesMoved ==
  ASSUME PhoneTypeOK, Around, GoOn, NEW n \in DOMAIN taps, NEW p, NEW k \in Nat, Moved(n, p, k),
         k <= Len(orders), p \in {"placed", "ready"} => k # 0
  PROVE  PhoneTypeOK'
<1>1. Len(orders) \in Nat /\ Len(orders') = Len(orders)
  BY DEF PhoneTypeOK, GoOn
<1>2. \A m \in DOMAIN taps' :
        /\ taps'[m].order <= Len(orders')
        /\ taps'[m].pc \in {"placed", "ready"} => taps'[m].order # 0
  <2> SUFFICES ASSUME NEW m \in DOMAIN taps
               PROVE  /\ taps'[m].order <= Len(orders)
                      /\ taps'[m].pc \in {"placed", "ready"} => taps'[m].order # 0
    BY <1>1 DEF Moved
  <2>1. CASE m = n
    BY <2>1 DEF Moved
  <2>2. CASE m # n
    BY <2>2 DEF Moved, PhoneTypeOK
  <2> QED
    BY <2>1, <2>2
<1> QED
  BY <1>1, <1>2 DEF PhoneTypeOK, Around, GoOn, Moved

LEMMA InBounds ==
  ASSUME PhoneTypeOK
  PROVE  /\ Len(orders) \in Nat /\ DOMAIN orders = 1..Len(orders)
         /\ Len(taps) \in Nat /\ DOMAIN taps = 1..Len(taps)
         /\ \A i \in DOMAIN orders : orders[i] \in OrderRows
         /\ \A n \in DOMAIN taps :
              /\ taps[n] \in TapRows /\ taps[n].call \in CallsOfTaps /\ taps[n].order \in Nat
              /\ taps[n].order <= Len(orders)
              /\ taps[n].pc \in {"placed", "ready"} => taps[n].order \in DOMAIN orders
         /\ screen.order \in Nat /\ (screen.route = "pay" => screen.order \in DOMAIN orders)
<1>1. \A n \in DOMAIN taps : taps[n] \in TapRows /\ taps[n].call \in CallsOfTaps /\ taps[n].order \in Nat
  <2>1. \A n \in DOMAIN taps : taps[n] \in TapRows
    BY DEF PhoneTypeOK
  <2>2. \A t \in TapRows : t.call \in CallsOfTaps /\ t.order \in Nat
    BY DEF TapRows
  <2> QED
    BY <2>1, <2>2
<1>2. screen.order \in Nat /\ screen.order <= Len(orders) /\ (screen.route = "pay" => screen.order # 0)
  BY DEF PhoneTypeOK, ScreenOf, Screens
<1> QED
  BY <1>1, <1>2 DEF PhoneTypeOK

LEMMA BasketTypes ==
  ASSUME PhoneTypeOK,
         (\E v \in Stalls : PutInBasket(v)) \/ TakeOut \/ OpenCheckout \/ Leave \/ EmptyCheckout
  PROVE  PhoneTypeOK'
<1> USE InBounds DEF Vendors
<1>1. ASSUME NEW v \in Stalls, PutInBasket(v) PROVE PhoneTypeOK'
  <2>1. cart' \in Carts
    <3>1. CASE cart' = [cart EXCEPT !.lines = @ + 1]
      <4>1. cart.lines + 1 \in Nat
        BY DEF PhoneTypeOK, Carts
      <4> QED
        BY <3>1, <4>1, CartWith DEF PhoneTypeOK
    <3>2. CASE cart' = [cart EXCEPT !.vendor = v, !.lines = 1]
      <4> DEFINE c == [cart EXCEPT !.vendor = v]
      <4>1. c \in Carts
        BY CartWith DEF PhoneTypeOK
      <4>2. cart' = [c EXCEPT !.lines = 1]
        BY <3>2
      <4> HIDE DEF c
      <4> QED
        BY <4>1, <4>2, CartWith
    <3> QED
      BY <1>1, <3>1, <3>2 DEF PutInBasket
  <2>2. ScreenOf(screen', Len(orders))
    BY <1>1, ScreenWith DEF PutInBasket
  <2>3. UNCHANGED <<token, taps, late, app_session, orders, pay, turn>>
    BY <1>1 DEF PutInBasket
  <2> QED
    BY <2>1, <2>2, <2>3, TypesAround, NoneGoesOn DEF PhoneTypeOK, Around
<1>2. CASE TakeOut
  <2>1. cart' \in Carts
    <3>1. cart.lines - 1 \in Nat
      BY <1>2 DEF TakeOut, PhoneTypeOK, Carts
    <3> QED
      BY <1>2, <3>1, CartWith DEF TakeOut, PhoneTypeOK
  <2> QED
    BY <1>2, <2>1, TypesAround, NoneGoesOn DEF TakeOut, PhoneTypeOK, Around
<1>3. CASE OpenCheckout
  <2>1. ScreenOf(screen', Len(orders))
    <3>1. At("checkout") \in Screens /\ At("checkout").route = "checkout" /\ SignedIn \in BOOLEAN
      BY DEF At, Screens, SignedIn
    <3> QED
      BY <1>3, <3>1, ScreenWith DEF OpenCheckout
  <2> QED
    BY <1>3, <2>1, TypesAround, NoneGoesOn DEF OpenCheckout, PhoneTypeOK, Around
<1>4. CASE Leave \/ EmptyCheckout
  <2>1. ScreenOf(screen', Len(orders))
    BY <1>4, ScreenWith DEF Leave, EmptyCheckout
  <2>2. pay' \in Pays
    <3>1. NoPay \in Pays
      BY DEF NoPay, Pays
    <3> QED
      BY <1>4, <3>1 DEF Leave, EmptyCheckout, PhoneTypeOK
  <2> QED
    BY <1>4, <2>1, <2>2, TypesAround, NoneGoesOn DEF Leave, EmptyCheckout, PhoneTypeOK, Around
<1> QED
  BY <1>1, <1>2, <1>3, <1>4

LEMMA DoorTypes ==
  ASSUME PhoneTypeOK,
         (\E s \in QrSessions : startSession(s)) \/ Reload \/ (\E d \in Diners : Verify(d))
  PROVE  PhoneTypeOK'
<1> USE InBounds
<1>1. ASSUME Load, Around, UNCHANGED orders PROVE PhoneTypeOK'
  <2>1. \A n \in DOMAIN taps' :
          /\ taps'[n].order <= Len(orders')
          /\ taps'[n].pc \in {"placed", "ready"} => taps'[n].order # 0
    BY <1>1, Loaded DEF PhoneTypeOK
  <2> QED
    BY <1>1, <2>1, Loaded DEF PhoneTypeOK, Around
<1>2. Load => token' \in Customers /\ pay' \in Pays /\ late' \subseteq CallsOfTaps
  <2>1. NoPay \in Pays /\ "none" \in Customers
    BY DEF NoPay, Pays, Customers
  <2> QED
    BY <2>1, Loaded
<1>3. ASSUME NEW s \in QrSessions, startSession(s) PROVE PhoneTypeOK'
  <2>1. cart' \in Carts
    <3> DEFINE c1 == [cart EXCEPT !.session = s]
               c2 == [c1 EXCEPT !.identityMode = Mode(s)]
               c3 == [c2 EXCEPT !.vendor = "none"]
               c4 == [c3 EXCEPT !.lines = 0]
    <3>1. s \in CartSessions /\ Mode(s) \in {"otp", "counter"} /\ "none" \in Vendors /\ 0 \in Nat
      BY DEF CartSessions, Mode, Vendors
    <3>2. c1 \in Carts
      BY <3>1, CartWith DEF PhoneTypeOK
    <3>3. c2 \in Carts
      <4> HIDE DEF c1
      <4> QED
        BY <3>1, <3>2, CartWith
    <3>4. c3 \in Carts
      <4> HIDE DEF c2
      <4> QED
        BY <3>1, <3>3, CartWith
    <3>5. c4 \in Carts
      <4> HIDE DEF c3
      <4> QED
        BY <3>1, <3>4, CartWith
    <3>6. [c4 EXCEPT !.key = 0] \in Carts
      <4> HIDE DEF c4
      <4> QED
        BY <3>1, <3>5, CartWith
    <3>7. [cart EXCEPT !.identityMode = Mode(s)] \in Carts
      BY <3>1, CartWith DEF PhoneTypeOK
    <3>8. cart' = [cart EXCEPT !.identityMode = Mode(s)] \/ cart' = [c4 EXCEPT !.key = 0]
      BY <1>3 DEF startSession
    <3> HIDE DEF c4
    <3> QED
      BY <3>6, <3>7, <3>8
  <2>2. ScreenOf(screen', Len(orders))
    BY <1>3, ScreenWith DEF startSession
  <2>3. /\ Load /\ turn' = turn + 1
        /\ UNCHANGED <<app_session, orders>>
    BY <1>3 DEF startSession
  <2> QED
    BY <1>1, <1>2, <2>1, <2>2, <2>3 DEF PhoneTypeOK, Around
<1>4. CASE Reload
  <2>1. cart' \in Carts
    BY <1>4, CartWith DEF Reload, PhoneTypeOK
  <2>2. ScreenOf(screen', Len(orders))
    <3> DEFINE open == screen.route \notin {"checkout", "pay", "order"}
    <3>1. screen' = Gated(screen, open)
      BY <1>4 DEF Reload
    <3>2. CASE open
      BY <3>1, <3>2 DEF Gated, PhoneTypeOK
    <3>3. CASE ~open
      BY <3>1, <3>3, ScreenWith DEF PhoneTypeOK, ScreenOf
    <3> QED
      BY <3>2, <3>3
  <2>3. Load /\ UNCHANGED <<app_session, orders, turn>>
    BY <1>4 DEF Reload
  <2> QED
    BY <1>1, <1>2, <2>1, <2>2, <2>3 DEF PhoneTypeOK, Around
<1>5. ASSUME NEW d \in Diners, Verify(d) PROVE PhoneTypeOK'
  <2>1. cart' \in Carts
    <3> DEFINE c == [cart EXCEPT !.customerPhone = Mask[d]]
    <3>1. c \in Carts
      BY CartWith DEF PhoneTypeOK, Masked
    <3>2. cart' = [c EXCEPT !.key = KeyFor(Mask[d])]
      BY <1>5 DEF Verify
    <3>3. KeyFor(Mask[d]) \in Nat
      BY DEF KeyFor, PhoneTypeOK, Carts
    <3> HIDE DEF c
    <3> QED
      BY <3>1, <3>2, <3>3, CartWith
  <2>2. ScreenOf(screen', Len(orders))
    <3> DEFINE v == [screen EXCEPT !.route = screen.from]
               w == [v EXCEPT !.from = "none"]
    <3>1. screen' = Verified /\ screen.route \in {"verify", "court"}
      BY <1>5 DEF Verify
    <3>2. CASE screen.route = "court"
      BY <3>1, <3>2 DEF Verified, PhoneTypeOK
    <3>3. CASE screen.route = "verify"
      <4>1. /\ v \in Screens /\ v.order = screen.order
            /\ v.route = screen.from /\ screen.from \in {"checkout", "pay", "order"}
        BY <3>3 DEF PhoneTypeOK, ScreenOf, Screens
      <4>2. ScreenOf(w, Len(orders))
        <5> HIDE DEF v
        <5> QED
          BY <4>1 DEF PhoneTypeOK, ScreenOf, Screens
      <4>3. screen' = w
        BY <3>1, <3>3 DEF Verified
      <4> HIDE DEF w
      <4> QED
        BY <4>2, <4>3
    <3> QED
      BY <3>1, <3>2, <3>3
  <2>3. /\ token' = d /\ turn' = turn + 1 /\ app_session' = [app_session EXCEPT ![cart.session] = d]
        /\ UNCHANGED <<taps, late, orders, pay>>
    BY <1>5 DEF Verify
  <2>4. d \in Customers /\ app_session' \in [QrSessions -> Customers]
    BY <2>3 DEF Customers, PhoneTypeOK
  <2>5. Around
    BY <2>1, <2>2, <2>3, <2>4 DEF PhoneTypeOK, Around
  <2> QED
    BY <2>3, <2>5, TypesAround, NoneGoesOn
<1> QED
  BY <1>3, <1>4, <1>5

(* The requests of the checkout.                                           *)
LEMMA SameAround ==
  ASSUME PhoneTypeOK, UNCHANGED <<token, screen, turn>>, cart' \in Carts, pay' \in Pays,
         late' \subseteq CallsOfTaps, app_session' \in [QrSessions -> Customers]
  PROVE  Around
BY DEF PhoneTypeOK, Around

LEMMA TapTypes == PhoneTypeOK /\ Tap => PhoneTypeOK'
<1> SUFFICES ASSUME PhoneTypeOK, Tap PROVE PhoneTypeOK'
  OBVIOUS
<1> USE InBounds
<1> DEFINE c == [key |-> beginCheckout, vendor |-> cart.vendor, lines |-> cart.lines,
                 session |-> cart.session, customer |-> token, turn |-> turn]
           r == [pc |-> "placing", order |-> 0, call |-> c]
<1>1. beginCheckout \in Nat
  BY DEF beginCheckout, PhoneTypeOK, Carts
<1>2. c \in CallsOfTaps
  BY <1>1 DEF PhoneTypeOK, Carts, CallsOfTaps
<1>3. taps' = Append(taps, r) /\ cart' = [cart EXCEPT !.key = beginCheckout]
      /\ UNCHANGED <<token, screen, late, app_session, orders, pay, turn>>
  BY DEF Tap
<1> HIDE DEF c
<1>4. r \in TapRows /\ r.order = 0 /\ r.pc = "placing"
  BY <1>2 DEF TapRows, TapSteps
<1>5. Around
  <2>1. cart' \in Carts
    BY <1>1, <1>3, CartWith DEF PhoneTypeOK
  <2> QED
    BY <1>3, <2>1, SameAround DEF PhoneTypeOK
<1> HIDE DEF r
<1>6. taps' \in Seq(TapRows) /\ Len(taps') = Len(taps) + 1 /\ DOMAIN taps' = 1..(Len(taps) + 1)
      /\ taps'[Len(taps) + 1] = r /\ \A n \in DOMAIN taps : taps'[n] = taps[n]
  BY <1>3, <1>4 DEF PhoneTypeOK
<1>7. \A n \in DOMAIN taps' :
        taps'[n].order <= Len(orders') /\ (taps'[n].pc \in {"placed", "ready"} => taps'[n].order # 0)
  <2> SUFFICES ASSUME NEW n \in DOMAIN taps'
               PROVE  taps'[n].order <= Len(orders) /\ (taps'[n].pc \in {"placed", "ready"} => taps'[n].order # 0)
    BY <1>3
  <2>1. CASE n \in DOMAIN taps
    BY <1>6, <2>1 DEF PhoneTypeOK
  <2>2. CASE n = Len(taps) + 1
    BY <1>4, <1>6, <2>2
  <2> QED
    BY <1>6, <2>1, <2>2
<1> QED
  BY <1>3, <1>5, <1>6, <1>7 DEF PhoneTypeOK, Around

(* A call the server accepts is one more order, and the others stay.       *)
MoreOrders ==
  /\ orders' \in Seq(OrderRows) /\ Len(orders') = Len(orders) + 1
  /\ DOMAIN orders' = DOMAIN orders \cup {Len(orders) + 1}
  /\ \A i \in DOMAIN orders : orders'[i] = orders[i]

LEMMA AcceptedCalls ==
  ASSUME PhoneTypeOK, NEW call \in CallsOfTaps, Accepts(call)
  PROVE  /\ MoreOrders
         /\ LET o == orders'[Len(orders) + 1]
            IN /\ o.key = call.key /\ o.customer = call.customer /\ o.turn = call.turn
               /\ ~o.shown
         /\ WithKey(call.key) = {}
<1> USE InBounds
<1> DEFINE o == [key |-> call.key, customer |-> call.customer, vendor |-> call.vendor,
                 lines |-> call.lines, turn |-> call.turn, shown |-> FALSE,
                 status |-> "CREATED", payment |-> "none", debited |-> FALSE]
<1>1. o \in OrderRows /\ o.key = call.key /\ o.customer = call.customer /\ o.turn = call.turn /\ ~o.shown
  BY DEF OrderRows, CallsOfTaps
<1>2. orders' = Append(orders, o) /\ WithKey(call.key) = {}
  BY DEF Accepts
<1> HIDE DEF o
<1>3. orders \in Seq(OrderRows)
  BY DEF PhoneTypeOK
<1>4. MoreOrders /\ orders'[Len(orders) + 1] = o
  BY <1>1, <1>2, <1>3 DEF MoreOrders
<1> QED
  BY <1>1, <1>2, <1>4

LEMMA AttachedCalls ==
  ASSUME PhoneTypeOK, NEW call \in CallsOfTaps
  PROVE  Attached(call) \in [QrSessions -> Customers]
BY DEF PhoneTypeOK, CallsOfTaps, Attached

LEMMA PlacingTypes ==
  ASSUME PhoneTypeOK, MoreOrders, Around, UNCHANGED taps
  PROVE  PhoneTypeOK'
<1> USE InBounds
<1>1. ScreenOf(screen', Len(orders'))
  BY DEF MoreOrders, Around, ScreenOf, Screens
<1>2. \A n \in DOMAIN taps' : taps'[n].order <= Len(orders')
  BY DEF MoreOrders
<1> QED
  BY <1>1, <1>2 DEF PhoneTypeOK, Around, MoreOrders

LEMMA PlacedTypes ==
  ASSUME PhoneTypeOK, MoreOrders, Around, NEW n \in DOMAIN taps, Moved(n, "placed", Len(orders) + 1)
  PROVE  PhoneTypeOK'
<1> USE InBounds
<1>1. ScreenOf(screen', Len(orders'))
  BY DEF MoreOrders, Around, ScreenOf, Screens
<1>2. \A m \in DOMAIN taps' :
        taps'[m].order <= Len(orders') /\ (taps'[m].pc \in {"placed", "ready"} => taps'[m].order # 0)
  <2> SUFFICES ASSUME NEW m \in DOMAIN taps
               PROVE  /\ taps'[m].order <= Len(orders) + 1
                      /\ taps'[m].pc \in {"placed", "ready"} => taps'[m].order # 0
    BY DEF Moved, MoreOrders
  <2>1. CASE m = n
    BY <2>1 DEF Moved
  <2>2. CASE m # n
    BY <2>2 DEF Moved, PhoneTypeOK
  <2> QED
    BY <2>1, <2>2
<1> QED
  BY <1>1, <1>2 DEF PhoneTypeOK, Around, MoreOrders, Moved

(* How the server answers a tap.                                           *)
Expired(n) == Moved(n, "SESSION_EXPIRED", taps[n].order) /\ UNCHANGED orders
Accepted(n) == Moved(n, "placed", Len(orders) + 1) /\ Accepts(taps[n].call)
Replayed(n) ==
  \E i \in WithKey(taps[n].call.key) :
    Moved(n, "placed", i) /\ orders[i].customer = taps[n].call.customer /\ UNCHANGED orders
Refused(n) ==
  \E i \in WithKey(taps[n].call.key) :
    /\ Moved(n, "TENANT_SCOPE_VIOLATION", taps[n].order)
    /\ orders[i].customer # taps[n].call.customer /\ UNCHANGED orders

LEMMA ServerAnswersTap ==
  ASSUME PhoneTypeOK, NEW n \in DOMAIN taps, ServerPlaces(n)
  PROVE  /\ Expired(n) \/ Accepted(n) \/ Replayed(n) \/ Refused(n)
         /\ Around /\ UNCHANGED <<cart, token, screen, late, pay, turn>>
<1> USE InBounds
<1> DEFINE call == taps[n].call
<1>1. {"placed", "SESSION_EXPIRED", "TENANT_SCOPE_VIOLATION"} \subseteq TapSteps
  BY DEF TapSteps, Refusals
<1>2. UNCHANGED <<cart, token, screen, late, pay, turn>>
  BY DEF ServerPlaces
<1>3. CASE /\ taps' = [taps EXCEPT ![n].pc = "SESSION_EXPIRED"]
           /\ UNCHANGED <<orders, app_session>>
  <2>1. Expired(n)
    BY <1>1, <1>3, TapEnds DEF Expired
  <2> QED
    BY <1>2, <1>3, <2>1, SameAround DEF PhoneTypeOK
<1>4. CASE /\ app_session' = Attached(call)
           /\ \/ /\ Accepts(call)
                 /\ taps' = [taps EXCEPT ![n].pc = "placed", ![n].order = Len(orders) + 1]
              \/ \E i \in WithKey(call.key) :
                   /\ orders[i].customer = call.customer
                   /\ taps' = [taps EXCEPT ![n].pc = "placed", ![n].order = i]
                   /\ UNCHANGED orders
              \/ \E i \in WithKey(call.key) :
                   /\ orders[i].customer # call.customer
                   /\ taps' = [taps EXCEPT ![n].pc = "TENANT_SCOPE_VIOLATION"]
                   /\ UNCHANGED orders
  <2>1. Around
    BY <1>2, <1>4, SameAround, AttachedCalls DEF PhoneTypeOK
  <2>2. ASSUME Accepts(call), taps' = [taps EXCEPT ![n].pc = "placed", ![n].order = Len(orders) + 1]
        PROVE  Accepted(n)
    <3>1. Len(orders) + 1 \in Nat
      OBVIOUS
    <3> QED
      BY <1>1, <2>2, <3>1, TapMoved, Zenon DEF Accepted
  <2>3. ASSUME NEW i \in WithKey(call.key), orders[i].customer = call.customer,
               taps' = [taps EXCEPT ![n].pc = "placed", ![n].order = i], UNCHANGED orders
        PROVE  Replayed(n)
    <3>1. i \in Nat
      BY DEF WithKey
    <3> QED
      BY <1>1, <2>3, <3>1, TapMoved, Zenon DEF Replayed
  <2>4. ASSUME NEW i \in WithKey(call.key), orders[i].customer # call.customer,
               taps' = [taps EXCEPT ![n].pc = "TENANT_SCOPE_VIOLATION"], UNCHANGED orders
        PROVE  Refused(n)
    BY <1>1, <2>4, TapEnds, Zenon DEF Refused
  <2> QED
    BY <1>2, <1>4, <2>1, <2>2, <2>3, <2>4
<1> QED
  BY <1>3, <1>4, Zenon DEF ServerPlaces

LEMMA PlacesTypes ==
  ASSUME PhoneTypeOK, NEW n \in DOMAIN taps, ServerPlaces(n)
  PROVE  PhoneTypeOK'
<1> USE InBounds
<1>1. Around /\ (Expired(n) \/ Accepted(n) \/ Replayed(n) \/ Refused(n))
  BY ServerAnswersTap
<1>2. CASE Expired(n) \/ Refused(n)
  BY <1>1, <1>2, TypesMoved, NoneGoesOn DEF Expired, Refused
<1>3. CASE Replayed(n)
  <2>1. PICK i \in WithKey(taps[n].call.key) : Moved(n, "placed", i) /\ UNCHANGED orders
    BY <1>3 DEF Replayed
  <2>2. i \in Nat /\ i <= Len(orders) /\ i # 0
    BY DEF WithKey
  <2> QED
    BY <1>1, <2>1, <2>2, TypesMoved, NoneGoesOn
<1>4. CASE Accepted(n)
  BY <1>1, <1>4, AcceptedCalls, PlacedTypes DEF Accepted
<1> QED
  BY <1>1, <1>2, <1>3, <1>4

LEMMA LateAnswers ==
  ASSUME PhoneTypeOK, NEW call \in late, ServerPlacesLate(call)
  PROVE  /\ Around /\ late' \subseteq late /\ UNCHANGED <<cart, token, screen, taps, pay, turn>>
         /\ Accepts(call) \/ UNCHANGED orders
<1>1. call \in CallsOfTaps
  BY DEF PhoneTypeOK
<1>2. late' \subseteq late /\ UNCHANGED <<cart, token, screen, taps, pay, turn>>
      /\ (Accepts(call) \/ UNCHANGED orders)
  BY DEF ServerPlacesLate
<1>3. app_session' \in [QrSessions -> Customers]
  BY <1>1, AttachedCalls DEF ServerPlacesLate, PhoneTypeOK
<1> QED
  BY <1>2, <1>3, SameAround DEF PhoneTypeOK

LEMMA LateTypes ==
  ASSUME PhoneTypeOK, NEW call \in late, ServerPlacesLate(call) \/ LostInTheNet(call)
  PROVE  PhoneTypeOK'
<1>1. CASE ServerPlacesLate(call)
  <2>1. call \in CallsOfTaps
    BY DEF PhoneTypeOK
  <2> QED
    BY <1>1, <2>1, LateAnswers, AcceptedCalls, PlacingTypes, TypesAround, NoneGoesOn
<1>2. CASE LostInTheNet(call)
  <2>1. UNCHANGED <<cart, token, screen, taps, app_session, orders, pay, turn>> /\ late' \subseteq CallsOfTaps
    BY <1>2 DEF LostInTheNet, PhoneTypeOK
  <2>2. Around
    BY <2>1, SameAround DEF PhoneTypeOK
  <2> QED
    BY <2>1, <2>2, TypesAround, NoneGoesOn
<1> QED
  BY <1>1, <1>2

(* What the phone does with its answers.                                   *)
LEMMA IntentAnswered ==
  ASSUME PhoneTypeOK, NEW n \in DOMAIN taps, Intent(n)
  PROVE  /\ taps[n].pc = "placed" /\ taps[n].order \in DOMAIN orders
         /\ GoOn /\ Moved(n, IntentAnswer(taps[n].order), taps[n].order)
         /\ UNCHANGED <<cart, token, screen, late, app_session, pay, turn>>
<1>1. /\ taps[n].pc = "placed" /\ ServerIntent(taps[n].order)
      /\ taps' = [taps EXCEPT ![n].pc = IntentAnswer(taps[n].order)]
      /\ UNCHANGED <<cart, token, screen, late, app_session, pay, turn>>
  BY DEF Intent
<1>2. taps[n].order \in DOMAIN orders
  BY <1>1, InBounds
<1>3. IntentAnswer(taps[n].order) \in TapSteps
  BY DEF IntentAnswer, TapSteps, Refusals
<1> QED
  BY <1>1, <1>2, <1>3, IntentGoesOn, TapEnds

LEMMA Succeeded ==
  ASSUME PhoneTypeOK, NEW n \in DOMAIN taps, onSuccess(n)
  PROVE  /\ taps[n].pc = "ready" /\ taps[n].order \in DOMAIN orders
         /\ GoOn /\ orders'[taps[n].order].shown /\ Moved(n, "done", taps[n].order)
         /\ cart' \in Carts /\ cart'.key = 0 /\ cart'.identityMode = cart.identityMode
         /\ ScreenOf(screen', Len(orders)) /\ pay' \in Pays
         /\ UNCHANGED <<token, late, app_session, turn>>
<1> DEFINE o == taps[n].order
           c == [cart EXCEPT !.lines = 0]
           s == [orders[o] EXCEPT !.shown = TRUE]
<1>1. /\ taps[n].pc = "ready" /\ cart' = [c EXCEPT !.key = 0]
      /\ orders' = [orders EXCEPT ![o].shown = TRUE]
      /\ taps' = [taps EXCEPT ![n].pc = "done"]
      /\ screen' = [At("pay") EXCEPT !.order = o] /\ pay' = [NoPay EXCEPT !.auto = TRUE]
      /\ UNCHANGED <<token, late, app_session, turn>>
  BY DEF onSuccess
<1>2. o \in DOMAIN orders /\ o \in Nat /\ o <= Len(orders) /\ o # 0 /\ orders[o] \in OrderRows
  BY <1>1, InBounds
<1>3. c \in Carts /\ c.identityMode = cart.identityMode
  BY DEF PhoneTypeOK, Carts
<1>4. cart' \in Carts /\ cart'.key = 0 /\ cart'.identityMode = cart.identityMode
  <2> HIDE DEF c
  <2> QED
    BY <1>1, <1>3 DEF Carts
<1>5. s \in OrderRows /\ SameOrder(orders[o], s) /\ s.shown
  BY <1>2 DEF OrderRows, SameOrder
<1>6. GoOn /\ orders'[o].shown
  <2>1. orders' = [orders EXCEPT ![o] = s]
    BY <1>1
  <2> HIDE DEF s
  <2>2. orders'[o] = s
    BY <1>2, <2>1 DEF PhoneTypeOK
  <2> QED
    BY <1>2, <1>5, <2>1, <2>2, OneGoesOn
<1>7. Moved(n, "done", o)
  BY <1>1, TapEnds DEF TapSteps
<1>8. ScreenOf(screen', Len(orders))
  <2>1. At("pay") \in Screens /\ At("pay").route = "pay" /\ At("pay").from = "none"
    BY DEF At, Screens
  <2> QED
    BY <1>1, <1>2, <2>1 DEF Screens, ScreenOf
<1>9. pay' \in Pays
  BY <1>1 DEF NoPay, Pays
<1> QED
  BY <1>1, <1>2, <1>4, <1>6, <1>7, <1>8, <1>9

LEMMA GivenUp ==
  ASSUME PhoneTypeOK, NEW n \in DOMAIN taps, onError(n) \/ TimesOut(n)
  PROVE  /\ taps[n].pc # "done" /\ Moved(n, "done", taps[n].order)
         /\ late' \subseteq late \cup {taps[n].call}
         /\ cart' \in Carts /\ cart'.identityMode = cart.identityMode
         /\ \/ cart'.key = cart.key
            \/ cart'.key = 0 /\ taps[n].pc = "TENANT_SCOPE_VIOLATION"
         /\ UNCHANGED <<token, screen, app_session, orders, pay, turn>>
<1>1. [cart EXCEPT !.key = 0] \in Carts /\ [cart EXCEPT !.key = 0].key = 0
      /\ [cart EXCEPT !.key = 0].identityMode = cart.identityMode
  BY DEF PhoneTypeOK, Carts
<1>2. taps[n].pc # "done" /\ taps' = [taps EXCEPT ![n].pc = "done"]
      /\ UNCHANGED <<token, screen, app_session, orders, pay, turn>>
  BY DEF onError, TimesOut, Refusals
<1>3. Moved(n, "done", taps[n].order)
  BY <1>2, TapEnds DEF TapSteps
<1>4. late' \subseteq late \cup {taps[n].call}
  BY DEF onError, TimesOut
<1>5. \/ cart' = cart
      \/ cart' = [cart EXCEPT !.key = 0] /\ taps[n].pc = "TENANT_SCOPE_VIOLATION"
  BY DEF onError, TimesOut
<1> QED
  BY <1>1, <1>2, <1>3, <1>4, <1>5 DEF PhoneTypeOK

LEMMA TapStepTypes ==
  ASSUME PhoneTypeOK, NEW n \in DOMAIN taps, TapStep(n) \/ TimesOut(n)
  PROVE  PhoneTypeOK'
<1> USE InBounds
<1>1. CASE ServerPlaces(n)
  BY <1>1, PlacesTypes
<1>2. CASE Intent(n)
  <2>1. Around
    BY <1>2, IntentAnswered DEF PhoneTypeOK, Around
  <2> QED
    BY <1>2, <2>1, IntentAnswered, TypesMoved
<1>3. CASE onSuccess(n)
  <2>1. Around
    BY <1>3, Succeeded DEF PhoneTypeOK, Around
  <2> QED
    BY <1>3, <2>1, Succeeded, TypesMoved
<1>4. CASE onError(n) \/ TimesOut(n)
  <2>1. Around
    BY <1>4, GivenUp DEF PhoneTypeOK, Around
  <2> QED
    BY <1>4, <2>1, GivenUp, NoneGoesOn, TypesMoved
<1> QED
  BY <1>1, <1>2, <1>3, <1>4 DEF TapStep

(* The payment screen, and what happens to a payment behind it.            *)
LEMMA PayingAround ==
  ASSUME PhoneTypeOK, pay' \in Pays, UNCHANGED <<cart, token, screen, late, app_session, turn>>
  PROVE  Around
BY DEF PhoneTypeOK, Around

LEMMA Paying ==
  ASSUME PhoneTypeOK,
         PayStep \/ payNow \/ SheetEnds \/ DinerPays \/ (\E i \in DOMAIN orders : Webhook(i))
  PROVE  GoOn /\ Around /\ UNCHANGED <<cart, token, taps, late, app_session, turn>>
<1> USE InBounds
<1>0. pay \in Pays
  BY DEF PhoneTypeOK
<1>1. CASE LoadIntent
  <2>1. Mine \in DOMAIN orders
    BY <1>1 DEF LoadIntent, OnPay, Mine
  <2>2. IntentAnswer(Mine) \in {"none", "ready", "NETWORK"} \cup Refusals
    BY DEF IntentAnswer, Refusals
  <2>3. pay' = [pay EXCEPT !.intent = IntentAnswer(Mine)] \/ pay' = [pay EXCEPT !.intent = "NETWORK"]
    BY <1>1 DEF LoadIntent
  <2>4. pay' \in Pays
    BY <1>0, <2>2, <2>3, PayWith
  <2>5. ServerIntent(Mine) \/ UNCHANGED orders
    BY <1>1 DEF LoadIntent
  <2>6. UNCHANGED <<cart, token, screen, taps, late, app_session, turn>>
    BY <1>1 DEF LoadIntent
  <2> QED
    BY <2>1, <2>4, <2>5, <2>6, IntentGoesOn, NoneGoesOn, PayingAround
<1>2. CASE PollStatus
  <2> DEFINE now == IF orders[Mine].debited THEN "CAPTURED" ELSE orders[Mine].payment
             o == [orders[Mine] EXCEPT !.payment = now]
  <2>1. Mine \in DOMAIN orders /\ orders[Mine] \in OrderRows
    BY <1>2 DEF PollStatus, OnPay, Mine
  <2>2. now \in {"none", "CREATED"} \cup Settled
    BY <2>1 DEF OrderRows, Settled
  <2>3. o \in OrderRows /\ SameOrder(orders[Mine], o)
    <3> HIDE DEF now
    <3> QED
      BY <2>1, <2>2 DEF OrderRows, SameOrder
  <2>4. orders' = [orders EXCEPT ![Mine] = o] /\ pay' = [pay EXCEPT !.payment = now]
        /\ UNCHANGED <<cart, token, screen, taps, late, app_session, turn>>
    BY <1>2 DEF PollStatus
  <2> HIDE DEF now, o
  <2> QED
    BY <1>0, <2>1, <2>2, <2>3, <2>4, OneGoesOn, PayWith, PayingAround
<1>3. CASE HandOver
  <2>1. ScreenOf([screen EXCEPT !.route = "order"], Len(orders))
    BY <1>3, ScreenWith DEF HandOver, OnPay, PhoneTypeOK, ScreenOf
  <2> QED
    BY <1>3, <2>1, NoneGoesOn DEF HandOver, Around, PhoneTypeOK
<1>4. CASE payNow
  <2> DEFINE p == [pay EXCEPT !.fired = TRUE]
  <2>1. p \in Pays
    BY <1>0, PayWith
  <2>2. pay' = [p EXCEPT !.auto = FALSE]
    BY <1>4 DEF payNow
  <2>3. UNCHANGED <<cart, token, screen, taps, late, app_session, orders, turn>>
    BY <1>4 DEF payNow
  <2> HIDE DEF p
  <2> QED
    BY <2>1, <2>2, <2>3, PayWith, NoneGoesOn, PayingAround
<1>5. CASE SheetEnds
  BY <1>0, <1>5, PayWith, NoneGoesOn, PayingAround DEF SheetEnds
<1>6. CASE DinerPays
  <2> DEFINE o == [orders[Mine] EXCEPT !.debited = TRUE]
  <2>1. Mine \in DOMAIN orders /\ orders[Mine] \in OrderRows
    BY <1>6 DEF DinerPays, OnPay, Mine
  <2>2. o \in OrderRows /\ SameOrder(orders[Mine], o)
    BY <2>1 DEF OrderRows, SameOrder
  <2>3. orders' = [orders EXCEPT ![Mine] = o]
        /\ UNCHANGED <<cart, token, screen, taps, late, app_session, pay, turn>>
    BY <1>6 DEF DinerPays
  <2> HIDE DEF o
  <2> QED
    BY <1>0, <2>1, <2>2, <2>3, OneGoesOn, PayingAround
<1>7. ASSUME NEW i \in DOMAIN orders, Webhook(i)
      PROVE  GoOn /\ Around /\ UNCHANGED <<cart, token, taps, late, app_session, turn>>
  <2> DEFINE Ends(s, p) == [[orders[i] EXCEPT !.status = s] EXCEPT !.payment = p]
  <2>1. UNCHANGED <<cart, token, screen, taps, late, app_session, pay, turn>>
    BY <1>7 DEF Webhook
  <2>2. \/ orders' = [orders EXCEPT ![i] = Ends("PAYMENT_CONFIRMED", "CAPTURED")]
        \/ orders' = [orders EXCEPT ![i] = Ends("PAYMENT_FAILED", "FAILED")]
        \/ orders' = [orders EXCEPT ![i] = Ends("PAYMENT_EXPIRED", "EXPIRED")]
    <3> DEFINE Written(s, p) == [orders EXCEPT ![i].status = s, ![i].payment = p]
    <3>1. \A s, p : Written(s, p) = [orders EXCEPT ![i] = Ends(s, p)]
      <4> SUFFICES ASSUME NEW s, NEW p PROVE Written(s, p) = [orders EXCEPT ![i] = Ends(s, p)]
        OBVIOUS
      <4>1. Written(s, p) = [[orders EXCEPT ![i].status = s] EXCEPT ![i].payment = p]
        OBVIOUS
      <4>2. [orders EXCEPT ![i].status = s] = [orders EXCEPT ![i] = [orders[i] EXCEPT !.status = s]]
        OBVIOUS
      <4> DEFINE o == [orders[i] EXCEPT !.status = s]
      <4>3. [[orders EXCEPT ![i] = o] EXCEPT ![i].payment = p]
              = [orders EXCEPT ![i] = [o EXCEPT !.payment = p]]
        <5> HIDE DEF o
        <5>1. [orders EXCEPT ![i] = o][i] = o
          BY DEF PhoneTypeOK
        <5> QED
          BY <5>1
      <4> QED
        BY <4>1, <4>2, <4>3
    <3>2. \/ orders' = Written("PAYMENT_CONFIRMED", "CAPTURED")
          \/ orders' = Written("PAYMENT_FAILED", "FAILED")
          \/ orders' = Written("PAYMENT_EXPIRED", "EXPIRED")
      BY <1>7, Zenon DEF Webhook
    <3> HIDE DEF Written, Ends
    <3> QED
      BY <3>1, <3>2
  <2>3. \A s \in {"PAYMENT_CONFIRMED", "PAYMENT_FAILED", "PAYMENT_EXPIRED"}, p \in Settled :
          Ends(s, p) \in OrderRows /\ SameOrder(orders[i], Ends(s, p))
    <3> SUFFICES ASSUME NEW s \in {"PAYMENT_CONFIRMED", "PAYMENT_FAILED", "PAYMENT_EXPIRED"},
                        NEW p \in Settled
                 PROVE  Ends(s, p) \in OrderRows /\ SameOrder(orders[i], Ends(s, p))
      OBVIOUS
    <3> DEFINE o == [orders[i] EXCEPT !.status = s]
    <3>1. o \in OrderRows /\ SameOrder(orders[i], o)
      BY DEF OrderRows, SameOrder
    <3> HIDE DEF o
    <3>2. [o EXCEPT !.payment = p] \in OrderRows /\ SameOrder(orders[i], [o EXCEPT !.payment = p])
      BY <3>1 DEF OrderRows, SameOrder
    <3>3. Ends(s, p) = [o EXCEPT !.payment = p]
      BY DEF o
    <3> QED
      BY <3>2, <3>3
  <2>4. {"CAPTURED", "FAILED", "EXPIRED"} \subseteq Settled
    BY DEF Settled
  <2> HIDE DEF Ends
  <2>5. GoOn
    BY <2>2, <2>3, <2>4, OneGoesOn
  <2> QED
    BY <1>0, <2>1, <2>5, PayingAround
<1> QED
  BY <1>1, <1>2, <1>3, <1>4, <1>5, <1>6, <1>7 DEF PayStep

(* The phone and the server keep their types.                              *)
THEOREM PhoneTypes == PhoneSpec => []PhoneTypeOK
<1>1. PhoneInit => PhoneTypeOK
  <2> SUFFICES ASSUME PhoneInit PROVE PhoneTypeOK
    OBVIOUS
  <2>1. cart \in Carts
    BY DEF PhoneInit, Carts, CartSessions, Vendors, Masked
  <2>2. At("scan") \in Screens
    BY DEF At, Screens
  <2>3. ScreenOf(screen, 0)
    BY <2>2, ScreenWith DEF PhoneInit
  <2>4. pay \in Pays
    BY DEF PhoneInit, NoPay, Pays
  <2>5. token \in Customers /\ app_session \in [QrSessions -> Customers] /\ late = {} /\ turn = 0
        /\ taps = << >> /\ orders = << >>
    BY DEF PhoneInit, Customers
  <2> QED
    BY <2>1, <2>3, <2>4, <2>5 DEF PhoneTypeOK
<1>2. PhoneTypeOK /\ [PhoneNext]_phoneVars => PhoneTypeOK'
  <2> SUFFICES ASSUME PhoneTypeOK, [PhoneNext]_phoneVars PROVE PhoneTypeOK'
    OBVIOUS
  <2>1. CASE UNCHANGED phoneVars
    BY <2>1 DEF PhoneTypeOK, phoneVars
  <2>2. CASE PayStep \/ payNow \/ SheetEnds \/ DinerPays \/ (\E i \in DOMAIN orders : Webhook(i))
    BY <2>2, Paying, TypesAround
  <2> QED
    BY <2>1, <2>2, BasketTypes, DoorTypes, TapTypes, TapStepTypes, LateTypes DEF PhoneNext
<1> QED
  BY <1>1, <1>2, PTL DEF PhoneSpec

-----------------------------------------------------------------------------
(* One order for one basket.  Of what the phone ever asked for, two calls  *)
(* of one diner at one table differ in their key only when the first was   *)
(* resolved: its order was shown, or the key belongs to somebody else.     *)
AskedFor == {taps[n].call : n \in DOMAIN taps}
Waits(n) == taps[n].pc # "done"

Resolved(c) ==
  \E i \in WithKey(c.key) :
    orders[i].shown \/ orders[i].customer # c.customer \/ orders[i].turn # c.turn

Traced ==
  /\ late \subseteq AskedFor
  /\ \A i \in DOMAIN orders : \E c \in AskedFor :
       c.key = orders[i].key /\ c.customer = orders[i].customer /\ c.turn = orders[i].turn
  /\ \A i, j \in DOMAIN orders : orders[i].key = orders[j].key => i = j
  /\ \A c \in AskedFor : c.key \in 1..Len(taps) /\ c.turn <= turn
  /\ cart.key <= Len(taps)

OneOpenKey ==
  \A c, d \in AskedFor :
    (c.turn = d.turn /\ c.customer = d.customer /\ c.key # d.key) => Resolved(c) \/ Resolved(d)

Past == Traced /\ OneOpenKey /\ NoSecondOrder

(* And what holds of this turn: only the key of the basket is open, all    *)
(* its calls are of the diner who is signed in, and one tap waits.         *)
BasketKey == \A c \in AskedFor : c.turn = turn /\ c.key # cart.key => Resolved(c)
OneDiner == \A c \in AskedFor : c.turn = turn => c.customer = token \/ ~SignedIn

Standing(n) ==
  /\ cart.key \in {0, taps[n].call.key}
  /\ taps[n].call.turn = turn => taps[n].call.customer = token /\ SignedIn
  /\ taps[n].call.turn # turn => \A d \in AskedFor : d.turn # turn

Answered(n) ==
  /\ taps[n].pc \in {"placed", "ready"} =>
       taps[n].order \in DOMAIN orders /\ orders[taps[n].order].key = taps[n].call.key
  /\ taps[n].pc = "TENANT_SCOPE_VIOLATION" =>
       \E i \in WithKey(taps[n].call.key) :
         taps[n].call.turn = turn => orders[i].customer # taps[n].call.customer

Present ==
  /\ BasketKey /\ OneDiner
  /\ \A m, n \in DOMAIN taps : Waits(m) /\ Waits(n) => m = n
  /\ \A n \in DOMAIN taps : Waits(n) => Standing(n) /\ Answered(n)

OrderInv == PhoneTypeOK /\ Past /\ Present

(* Orders are added and shown, and keep whose they are.                    *)
OrdersStay ==
  /\ DOMAIN orders \subseteq DOMAIN orders'
  /\ \A i \in DOMAIN orders : SameOrder(orders[i], orders'[i])

LEMMA OrdersAreKept == ASSUME PhoneTypeOK, GoOn \/ MoreOrders PROVE OrdersStay
<1>1. CASE GoOn
  BY <1>1 DEF PhoneTypeOK, GoOn, OrdersStay
<1>2. CASE MoreOrders
  BY <1>2 DEF MoreOrders, OrdersStay, SameOrder
<1> QED
  BY <1>1, <1>2

LEMMA StaysResolved ==
  ASSUME OrdersStay, NEW c, Resolved(c)
  PROVE  Resolved(c)'
BY DEF OrdersStay, Resolved, WithKey, SameOrder

LEMMA CallsOfAll ==
  ASSUME PhoneTypeOK
  PROVE  /\ AskedFor \subseteq CallsOfTaps
         /\ \A c \in CallsOfTaps : c.key \in Nat /\ c.turn \in Nat
         /\ cart.key \in Nat /\ turn \in Nat /\ Len(taps) \in Nat
<1>1. \A c \in CallsOfTaps : c.key \in Nat /\ c.turn \in Nat
  BY DEF CallsOfTaps
<1>2. AskedFor \subseteq CallsOfTaps
  BY InBounds DEF AskedFor
<1>3. cart.key \in Nat
  BY DEF PhoneTypeOK, Carts
<1> QED
  BY <1>1, <1>2, <1>3, InBounds DEF PhoneTypeOK

(* A step that asks for nothing and orders nothing.                        *)
LEMMA PastRests ==
  ASSUME PhoneTypeOK, Past, GoOn, AskedFor' = AskedFor, Len(taps') = Len(taps),
         late' \subseteq AskedFor, turn' \in Nat, turn <= turn', cart'.key <= Len(taps)
  PROVE  Past'
<1> USE CallsOfAll
<1>0. OrdersStay /\ DOMAIN orders' = DOMAIN orders
  BY OrdersAreKept DEF PhoneTypeOK, GoOn
<1>1. \A i \in DOMAIN orders : SameOrder(orders[i], orders'[i])
  BY <1>0 DEF OrdersStay
<1>2. Traced'
  <2>1. \A c \in AskedFor : c.key \in 1..Len(taps) /\ c.turn <= turn'
    BY DEF Past, Traced
  <2>2. \A i \in DOMAIN orders' : \E c \in AskedFor :
          c.key = orders'[i].key /\ c.customer = orders'[i].customer /\ c.turn = orders'[i].turn
    BY <1>0, <1>1 DEF Past, Traced, SameOrder
  <2>3. \A i, j \in DOMAIN orders' : orders'[i].key = orders'[j].key => i = j
    BY <1>0, <1>1 DEF Past, Traced, SameOrder
  <2> QED
    BY <2>1, <2>2, <2>3 DEF Traced
<1>3. OneOpenKey'
  BY <1>0, StaysResolved DEF Past, OneOpenKey
<1>4. NoSecondOrder'
  BY <1>0, <1>1 DEF Past, NoSecondOrder, SameOrder
<1> QED
  BY <1>2, <1>3, <1>4 DEF Past

(* The server takes one of the calls for a new order.                      *)
LEMMA PastOrders ==
  ASSUME PhoneTypeOK, Past, NEW call \in AskedFor, Accepts(call), AskedFor' = AskedFor,
         Len(taps') = Len(taps), late' \subseteq AskedFor, UNCHANGED <<cart, turn>>
  PROVE  Past'
<1> USE CallsOfAll, InBounds
<1> DEFINE z == Len(orders) + 1
<1>1. /\ DOMAIN orders' = DOMAIN orders \cup {z} /\ z \notin DOMAIN orders
      /\ \A i \in DOMAIN orders : orders'[i] = orders[i] /\ i < z
      /\ orders'[z].key = call.key /\ orders'[z].customer = call.customer
      /\ orders'[z].turn = call.turn
      /\ \A i \in DOMAIN orders : orders[i].key # call.key
      /\ z \in Nat /\ DOMAIN orders \subseteq Nat
  <2>1. MoreOrders /\ WithKey(call.key) = {}
    BY AcceptedCalls
  <2>2. /\ orders'[z].key = call.key /\ orders'[z].customer = call.customer
        /\ orders'[z].turn = call.turn
    BY AcceptedCalls
  <2> QED
    BY <2>1, <2>2 DEF MoreOrders, WithKey
<1>2. OrdersStay
  BY AcceptedCalls, OrdersAreKept
<1> HIDE DEF z
<1>3. Traced'
  <2>1. \A c \in AskedFor : c.key \in 1..Len(taps) /\ c.turn <= turn
    BY DEF Past, Traced
  <2>2. \A i \in DOMAIN orders' : \E c \in AskedFor :
          c.key = orders'[i].key /\ c.customer = orders'[i].customer /\ c.turn = orders'[i].turn
    BY <1>1 DEF Past, Traced
  <2>3. \A i, j \in DOMAIN orders' : orders'[i].key = orders'[j].key => i = j
    BY <1>1 DEF Past, Traced
  <2>4. cart'.key <= Len(taps')
    BY DEF Past, Traced
  <2> QED
    BY <2>1, <2>2, <2>3, <2>4 DEF Traced
<1>4. OneOpenKey'
  BY <1>2, StaysResolved DEF Past, OneOpenKey
<1>5. NoSecondOrder'
  <2> SUFFICES ASSUME NEW i \in DOMAIN orders', NEW j \in DOMAIN orders', i < j,
                      orders'[i].turn = orders'[j].turn, orders'[i].customer = orders'[j].customer
               PROVE  orders'[i].shown
    BY DEF NoSecondOrder
  <2>1. i \in DOMAIN orders
    BY <1>1
  <2>2. CASE j \in DOMAIN orders
    BY <1>1, <2>1, <2>2 DEF Past, NoSecondOrder
  <2>3. CASE j = z
    <3>1. PICK c \in AskedFor :
            c.key = orders[i].key /\ c.customer = orders[i].customer /\ c.turn = orders[i].turn
      BY <2>1 DEF Past, Traced
    <3>2. c.turn = call.turn /\ c.customer = call.customer /\ c.key # call.key
      BY <1>1, <2>1, <2>3, <3>1
    <3>3. ~Resolved(call)
      BY <1>1 DEF Resolved, WithKey
    <3>4. Resolved(c)
      BY <3>2, <3>3 DEF Past, OneOpenKey
    <3>5. PICK k \in WithKey(c.key) :
            orders[k].shown \/ orders[k].customer # c.customer \/ orders[k].turn # c.turn
      BY <3>4 DEF Resolved
    <3>6. k = i
      BY <2>1, <3>1, <3>5 DEF Past, Traced, WithKey
    <3> QED
      BY <1>1, <2>1, <3>1, <3>5, <3>6
  <2> QED
    BY <1>1, <2>2, <2>3
<1> QED
  BY <1>3, <1>4, <1>5 DEF Past

LEMMA MovedCalls ==
  ASSUME NEW n \in DOMAIN taps, NEW p, NEW k, Moved(n, p, k)
  PROVE  /\ AskedFor' = AskedFor /\ Len(taps') = Len(taps) /\ DOMAIN taps' = DOMAIN taps
         /\ \A m \in DOMAIN taps : taps'[m].call = taps[m].call /\ (m # n => taps'[m] = taps[m])
<1>1. /\ Len(taps') = Len(taps) /\ DOMAIN taps' = DOMAIN taps
      /\ \A m \in DOMAIN taps : taps'[m].call = taps[m].call /\ (m # n => taps'[m] = taps[m])
  BY DEF Moved
<1> QED
  BY <1>1 DEF AskedFor

(* The present of a step that keeps the diner, the turn and the key.       *)
SameTurn ==
  /\ DOMAIN taps' = DOMAIN taps /\ AskedFor' = AskedFor
  /\ \A n \in DOMAIN taps : taps'[n].call = taps[n].call
  /\ turn' = turn /\ token' = token /\ cart'.identityMode = cart.identityMode

LEMMA StaysAnswered ==
  ASSUME OrdersStay, SameTurn, NEW n \in DOMAIN taps, taps'[n] = taps[n], Answered(n)
  PROVE  Answered(n)'
BY DEF OrdersStay, SameOrder, SameTurn, Answered, WithKey

LEMMA PresentRests ==
  ASSUME Present, OrdersStay, SameTurn, cart'.key = cart.key,
         \A n \in DOMAIN taps : Waits(n)' => Waits(n) /\ (taps'[n] = taps[n] \/ Answered(n)')
  PROVE  Present'
<1>1. SignedIn' = SignedIn
  BY DEF SignedIn, SameTurn
<1>2. BasketKey'
  BY StaysResolved DEF Present, BasketKey, SameTurn
<1>3. OneDiner'
  BY <1>1 DEF Present, OneDiner, SameTurn
<1>4. ASSUME NEW m \in DOMAIN taps', NEW n \in DOMAIN taps', Waits(m)', Waits(n)' PROVE m = n
  BY <1>4 DEF Present, SameTurn
<1>5. ASSUME NEW n \in DOMAIN taps', Waits(n)' PROVE Standing(n)' /\ Answered(n)'
  <2>1. n \in DOMAIN taps /\ Waits(n) /\ Standing(n) /\ Answered(n)
    BY <1>5 DEF Present, SameTurn
  <2>2. Standing(n)'
    BY <1>1, <2>1 DEF Standing, SameTurn
  <2> QED
    BY <1>5, <2>1, <2>2, StaysAnswered
<1> QED
  BY <1>2, <1>3, <1>4, <1>5 DEF Present

LEMMA PresentDrops ==
  ASSUME Present, SameTurn, \A n \in DOMAIN taps : ~Waits(n)',
         \A c \in AskedFor : c.turn = turn => Resolved(c)'
  PROVE  Present'
<1>1. SignedIn' = SignedIn
  BY DEF SignedIn, SameTurn
<1>2. BasketKey' /\ OneDiner'
  BY <1>1 DEF Present, BasketKey, OneDiner, SameTurn
<1> QED
  BY <1>2 DEF Present, SameTurn

(* And of a step to another turn.                                          *)
LEMMA PresentTurns ==
  ASSUME PhoneTypeOK, Past, turn' \in Nat, turn' > turn, AskedFor' = AskedFor
  PROVE  BasketKey' /\ OneDiner' /\ \A c \in AskedFor : c.turn # turn'
<1>1. \A c \in AskedFor : c.turn # turn'
  BY CallsOfAll DEF Past, Traced
<1> QED
  BY <1>1 DEF BasketKey, OneDiner

(* The basket, the screens and the payment.                                *)
LEMMA AsideKeeps ==
  ASSUME OrderInv, PhoneTypeOK', GoOn, late' \subseteq late, UNCHANGED <<token, taps, turn>>,
         cart'.key = cart.key, cart'.identityMode = cart.identityMode
  PROVE  OrderInv'
<1>1. AskedFor' = AskedFor /\ Len(taps') = Len(taps)
  BY DEF AskedFor
<1>2. Past'
  BY <1>1, PastRests, CallsOfAll DEF OrderInv, Past, Traced
<1>3. SameTurn /\ OrdersStay
  BY <1>1, OrdersAreKept DEF SameTurn, OrderInv
<1>4. \A n \in DOMAIN taps : Waits(n)' => Waits(n) /\ taps'[n] = taps[n]
  BY DEF Waits
<1> QED
  BY <1>2, <1>3, <1>4, PresentRests DEF OrderInv

LEMMA BasketKeeps ==
  ASSUME OrderInv, PhoneTypeOK',
         (\E v \in Stalls : PutInBasket(v)) \/ TakeOut \/ OpenCheckout \/ Leave \/ EmptyCheckout
  PROVE  OrderInv'
<1>1. /\ UNCHANGED <<token, taps, late, orders, turn>>
      /\ cart'.key = cart.key /\ cart'.identityMode = cart.identityMode
  <2>1. UNCHANGED <<token, taps, late, orders, turn>>
    BY DEF PutInBasket, TakeOut, OpenCheckout, Leave, EmptyCheckout
  <2>2. \/ \E v \in Stalls, k \in {1} : cart' = [[cart EXCEPT !.vendor = v] EXCEPT !.lines = k]
        \/ \E k \in {cart.lines + 1, cart.lines - 1} : cart' = [cart EXCEPT !.lines = k]
        \/ cart' = cart
    BY DEF PutInBasket, TakeOut, OpenCheckout, Leave, EmptyCheckout
  <2>3. cart \in Carts
    BY DEF OrderInv, PhoneTypeOK
  <2>4. ASSUME NEW c \in Carts, NEW k
        PROVE  [c EXCEPT !.lines = k].key = c.key /\ [c EXCEPT !.lines = k].identityMode = c.identityMode
    BY DEF Carts
  <2>5. ASSUME NEW v \in Stalls
        PROVE  LET c == [cart EXCEPT !.vendor = v]
               IN c \in Carts /\ c.key = cart.key /\ c.identityMode = cart.identityMode
    BY <2>3 DEF Carts, Vendors
  <2>6. ASSUME \E v \in Stalls, k \in {1} : cart' = [[cart EXCEPT !.vendor = v] EXCEPT !.lines = k]
        PROVE  cart'.key = cart.key /\ cart'.identityMode = cart.identityMode
    <3>1. PICK v \in Stalls : cart' = [[cart EXCEPT !.vendor = v] EXCEPT !.lines = 1]
      BY <2>6
    <3> DEFINE c == [cart EXCEPT !.vendor = v]
    <3>2. c \in Carts /\ c.key = cart.key /\ c.identityMode = cart.identityMode
      BY <2>5
    <3>3. cart' = [c EXCEPT !.lines = 1]
      BY <3>1
    <3> HIDE DEF c
    <3> QED
      BY <2>4, <3>2, <3>3
  <2>7. ASSUME \E k \in {cart.lines + 1, cart.lines - 1} : cart' = [cart EXCEPT !.lines = k]
        PROVE  cart'.key = cart.key /\ cart'.identityMode = cart.identityMode
    <3>1. PICK k : cart' = [cart EXCEPT !.lines = k]
      BY <2>7, Zenon
    <3> QED
      BY <2>3, <2>4, <3>1
  <2>8. cart'.key = cart.key /\ cart'.identityMode = cart.identityMode
    BY <2>2, <2>6, <2>7, Zenon
  <2> QED
    BY <2>1, <2>8
<1>2. GoOn
  BY <1>1, NoneGoesOn DEF OrderInv
<1> QED
  BY <1>1, <1>2, AsideKeeps

LEMMA LoadKeeps ==
  ASSUME OrderInv, PhoneTypeOK', (\E s \in QrSessions : startSession(s)) \/ Reload
  PROVE  OrderInv'
<1>1. Load /\ UNCHANGED orders
  BY DEF startSession, Reload
<1>2. /\ AskedFor' = AskedFor /\ Len(taps') = Len(taps) /\ DOMAIN taps' = DOMAIN taps
      /\ \A n \in DOMAIN taps' : ~Waits(n)'
      /\ late' \subseteq AskedFor
  BY <1>1, Loaded DEF OrderInv, AskedFor, Waits, Past, Traced
<1>3. GoOn /\ OrdersStay
  BY <1>1, NoneGoesOn, OrdersAreKept DEF OrderInv
<1>4. CASE \E s \in QrSessions : startSession(s)
  <2>1. PICK s \in QrSessions : startSession(s)
    BY <1>4
  <2>2. cart'.key \in {cart.key, 0}
    <3> DEFINE c == [[[[cart EXCEPT !.session = s] EXCEPT !.identityMode = Mode(s)]
                        EXCEPT !.vendor = "none"] EXCEPT !.lines = 0]
    <3>1. cart' = [cart EXCEPT !.identityMode = Mode(s)] \/ cart' = [c EXCEPT !.key = 0]
      BY <2>1 DEF startSession
    <3>2. \A v \in Carts : [v EXCEPT !.identityMode = Mode(s)].key = v.key
      BY DEF Carts
    <3>3. DOMAIN c = DOMAIN cart /\ "key" \in DOMAIN cart
      BY DEF OrderInv, PhoneTypeOK, Carts
    <3> HIDE DEF c
    <3> QED
      BY <3>1, <3>2, <3>3 DEF OrderInv, PhoneTypeOK
  <2>3. turn' = turn + 1 /\ turn \in Nat
    BY <2>1, CallsOfAll DEF startSession, OrderInv
  <2>4. Past'
    BY <1>2, <1>3, <2>2, <2>3, PastRests DEF OrderInv, Past, Traced
  <2>5. BasketKey' /\ OneDiner'
    BY <1>2, <2>3, PresentTurns DEF OrderInv
  <2> QED
    BY <1>2, <2>4, <2>5 DEF OrderInv, Present
<1>5. CASE Reload
  <2>1. /\ UNCHANGED turn /\ turn \in Nat /\ token' = "none"
        /\ cart'.key = cart.key /\ cart'.identityMode = "otp"
    <3>1. UNCHANGED turn /\ token' = "none" /\ cart' = [cart EXCEPT !.identityMode = "otp"]
      BY <1>5 DEF Reload, Load
    <3> QED
      BY <3>1, CallsOfAll DEF OrderInv, PhoneTypeOK, Carts
  <2>2. Past'
    BY <1>2, <1>3, <2>1, PastRests DEF OrderInv, Past, Traced
  <2>3. BasketKey'
    BY <1>2, <1>3, <2>1, StaysResolved DEF OrderInv, Present, BasketKey
  <2>4. OneDiner'
    BY <2>1 DEF OneDiner, SignedIn
  <2> QED
    BY <1>2, <2>2, <2>3, <2>4 DEF OrderInv, Present
<1> QED
  BY <1>4, <1>5

LEMMA VerifyKeeps ==
  ASSUME OrderInv, PhoneTypeOK', NEW d \in Diners, Verify(d)
  PROVE  OrderInv'
<1>1. turn' = turn + 1 /\ turn \in Nat /\ turn' # turn /\ UNCHANGED <<taps, late, orders>>
  BY CallsOfAll DEF Verify, OrderInv
<1>2. cart'.key \in {cart.key, 0}
  <2> DEFINE c == [cart EXCEPT !.customerPhone = Mask[d]]
  <2>1. cart' = [c EXCEPT !.key = KeyFor(Mask[d])]
    BY DEF Verify
  <2>2. "key" \in DOMAIN c
    BY DEF OrderInv, PhoneTypeOK, Carts
  <2> HIDE DEF c
  <2>3. cart'.key = KeyFor(Mask[d])
    BY <2>1, <2>2
  <2> QED
    BY <2>3 DEF KeyFor
<1>3. AskedFor' = AskedFor /\ Len(taps') = Len(taps) /\ GoOn /\ OrdersStay
  BY <1>1, NoneGoesOn, OrdersAreKept DEF AskedFor, OrderInv
<1>4. Past'
  BY <1>1, <1>2, <1>3, PastRests, CallsOfAll DEF OrderInv, Past, Traced
<1>5. BasketKey' /\ OneDiner' /\ \A c \in AskedFor : c.turn # turn'
  BY <1>1, <1>3, PresentTurns DEF OrderInv
<1>6. ASSUME NEW n \in DOMAIN taps', Waits(n)' PROVE Standing(n)' /\ Answered(n)'
  <2>1. n \in DOMAIN taps /\ Standing(n) /\ Answered(n) /\ taps[n].call \in AskedFor
    BY <1>1, <1>6 DEF OrderInv, Present, Waits, AskedFor
  <2>2. Standing(n)'
    BY <1>1, <1>2, <1>3, <1>5, <2>1 DEF Standing
  <2>3. Answered(n)'
    BY <1>1, <1>5, <2>1 DEF Answered, WithKey
  <2> QED
    BY <2>2, <2>3
<1> QED
  BY <1>1, <1>4, <1>5, <1>6 DEF OrderInv, Present, Waits

(* A tap: the one before it is done, so only the key of the basket is open *)
(* and whoever is signed in asks for all of this turn.                     *)
LEMMA TapKeeps ==
  ASSUME OrderInv, PhoneTypeOK', ~Impatient, Tap
  PROVE  OrderInv'
<1> USE CallsOfAll DEF OrderInv
<1>0. PICK z : z = Len(taps) + 1
  OBVIOUS
<1> DEFINE c == [key |-> beginCheckout, vendor |-> cart.vendor, lines |-> cart.lines,
                 session |-> cart.session, customer |-> token, turn |-> turn]
           r == [pc |-> "placing", order |-> 0, call |-> c]
<1>1. /\ SignedIn /\ (\A n \in DOMAIN taps : ~Waits(n))
      /\ taps' = Append(taps, r) /\ cart' = [cart EXCEPT !.key = beginCheckout]
      /\ UNCHANGED <<token, screen, late, app_session, orders, pay, turn>>
  BY DEF Tap, InFlight, Waits
<1>2. r.pc = "placing" /\ r.call = c /\ c.key = beginCheckout /\ c.customer = token /\ c.turn = turn
  OBVIOUS
<1> HIDE DEF r, c
<1>3. /\ z \in Nat /\ z \notin DOMAIN taps /\ Len(taps') = z /\ DOMAIN taps' = DOMAIN taps \cup {z}
      /\ taps'[z] = r /\ \A n \in DOMAIN taps : taps'[n] = taps[n]
  BY <1>0, <1>1 DEF PhoneTypeOK
<1>4. cart'.key = beginCheckout /\ cart'.identityMode = cart.identityMode
  BY <1>1 DEF PhoneTypeOK, Carts
<1>5. beginCheckout \in 1..z /\ (beginCheckout = cart.key \/ cart.key = 0)
  BY <1>0 DEF beginCheckout, Past, Traced
<1>6. AskedFor' = AskedFor \cup {c}
  BY <1>2, <1>3 DEF AskedFor
<1>7. /\ SignedIn' = SignedIn /\ GoOn /\ OrdersStay
      /\ \A d : Resolved(d) => Resolved(d)'
  BY <1>1, <1>4, NoneGoesOn, OrdersAreKept, StaysResolved DEF SignedIn
<1>8. \A d \in AskedFor : d.turn = turn /\ d.key # beginCheckout => Resolved(d)'
  <2>1. \A d \in AskedFor : d.key # 0
    BY DEF Past, Traced
  <2> QED
    BY <1>5, <1>7, <2>1 DEF Present, BasketKey
<1>9. Traced'
  <2>1. \A d \in AskedFor' : d.key \in 1..z /\ d.turn <= turn
    BY <1>0, <1>2, <1>3, <1>5, <1>6 DEF Past, Traced
  <2>2. late' \subseteq AskedFor'
    BY <1>1, <1>6 DEF Past, Traced
  <2>3. \A i \in DOMAIN orders : \E d \in AskedFor' :
          d.key = orders[i].key /\ d.customer = orders[i].customer /\ d.turn = orders[i].turn
    BY <1>6 DEF Past, Traced
  <2> QED
    BY <1>1, <1>3, <1>4, <1>5, <2>1, <2>2, <2>3 DEF Past, Traced
<1>10. OneOpenKey'
  <2> SUFFICES ASSUME NEW d \in AskedFor', NEW e \in AskedFor', d.turn = e.turn,
                      d.customer = e.customer, d.key # e.key
               PROVE  Resolved(d)' \/ Resolved(e)'
    BY DEF OneOpenKey
  <2>1. CASE d \in AskedFor /\ e \in AskedFor
    BY <1>7, <2>1 DEF Past, OneOpenKey
  <2>2. CASE d = c
    BY <1>2, <1>6, <1>8, <2>2
  <2>3. CASE e = c
    BY <1>2, <1>6, <1>8, <2>3
  <2> QED
    BY <1>6, <2>1, <2>2, <2>3
<1>11. NoSecondOrder'
  BY <1>1 DEF Past, NoSecondOrder
<1>12. BasketKey'
  BY <1>1, <1>2, <1>4, <1>6, <1>8 DEF BasketKey
<1>13. OneDiner'
  BY <1>1, <1>2, <1>6, <1>7 DEF Present, OneDiner
<1>14. \A n \in DOMAIN taps' : Waits(n)' => n = z
  BY <1>1, <1>3 DEF Waits
<1>15. Standing(z)' /\ Answered(z)'
  <2>1. taps'[z].pc = "placing" /\ taps'[z].call = c
    BY <1>2, <1>3
  <2>2. Standing(z)'
    BY <1>1, <1>2, <1>4, <1>7, <2>1 DEF Standing
  <2>3. Answered(z)'
    BY <2>1 DEF Answered
  <2> QED
    BY <2>2, <2>3
<1> QED
  BY <1>9, <1>10, <1>11, <1>12, <1>13, <1>14, <1>15 DEF Past, Present

(* A tap that goes on and still waits.                                     *)
LEMMA WaitingKeeps ==
  ASSUME OrderInv, PhoneTypeOK', NEW n \in DOMAIN taps, NEW p, NEW k, Moved(n, p, k), Waits(n),
         OrdersStay, Past', Answered(n)', UNCHANGED <<cart, token, turn>>
  PROVE  OrderInv'
<1>1. SameTurn /\ \A m \in DOMAIN taps : m # n => taps'[m] = taps[m]
  BY MovedCalls DEF SameTurn
<1>2. \A m \in DOMAIN taps : Waits(m)' => Waits(m) /\ (taps'[m] = taps[m] \/ Answered(m)')
  BY <1>1 DEF Waits
<1> QED
  BY <1>1, <1>2, PresentRests DEF OrderInv

LEMMA PlacesKeeps ==
  ASSUME OrderInv, PhoneTypeOK', NEW n \in DOMAIN taps, ServerPlaces(n)
  PROVE  OrderInv'
<1> USE CallsOfAll, InBounds DEF OrderInv
<1> DEFINE call == taps[n].call
<1>1. /\ UNCHANGED <<cart, token, late, turn>>
      /\ Expired(n) \/ Accepted(n) \/ Replayed(n) \/ Refused(n)
  BY ServerAnswersTap
<1>2. Waits(n) /\ call \in AskedFor
  BY DEF ServerPlaces, Waits, AskedFor
<1>3. late \subseteq AskedFor /\ cart.key <= Len(taps)
  BY DEF Past, Traced
<1>4. ASSUME NEW p, NEW k, Moved(n, p, k), UNCHANGED orders, Answered(n)'
      PROVE  OrderInv'
  <2>1. GoOn /\ OrdersStay /\ AskedFor' = AskedFor /\ Len(taps') = Len(taps)
    BY <1>4, NoneGoesOn, OrdersAreKept, MovedCalls
  <2>2. Past'
    BY <1>1, <1>3, <2>1, PastRests
  <2> QED
    BY <1>1, <1>2, <1>4, <2>1, <2>2, WaitingKeeps
<1>5. CASE Expired(n)
  <2>1. Moved(n, "SESSION_EXPIRED", taps[n].order) /\ UNCHANGED orders
    BY <1>5 DEF Expired
  <2>2. Answered(n)'
    BY <2>1 DEF Moved, Answered
  <2> QED
    BY <1>4, <2>1, <2>2
<1>6. CASE Replayed(n)
  <2>1. PICK i \in WithKey(call.key) : Moved(n, "placed", i) /\ UNCHANGED orders
    BY <1>6 DEF Replayed
  <2>2. Answered(n)'
    BY <2>1 DEF Moved, Answered, WithKey
  <2> QED
    BY <1>4, <2>1, <2>2
<1>7. CASE Refused(n)
  <2>1. PICK i \in WithKey(call.key) :
          /\ Moved(n, "TENANT_SCOPE_VIOLATION", taps[n].order)
          /\ orders[i].customer # call.customer /\ UNCHANGED orders
    BY <1>7 DEF Refused
  <2>2. Answered(n)'
    BY <2>1 DEF Moved, Answered, WithKey
  <2> QED
    BY <1>4, <2>1, <2>2
<1>8. CASE Accepted(n)
  <2>1. Moved(n, "placed", Len(orders) + 1) /\ Accepts(call) /\ call \in CallsOfTaps
    BY <1>8 DEF Accepted
  <2>2. MoreOrders /\ orders'[Len(orders) + 1].key = call.key
    BY <2>1, AcceptedCalls
  <2>3. OrdersStay /\ AskedFor' = AskedFor /\ Len(taps') = Len(taps)
    BY <2>1, <2>2, OrdersAreKept, MovedCalls
  <2>4. Past'
    BY <1>1, <1>2, <1>3, <2>1, <2>3, PastOrders
  <2>5. Answered(n)'
    BY <2>1, <2>2 DEF Moved, Answered, MoreOrders
  <2> QED
    BY <1>1, <1>2, <2>1, <2>3, <2>4, <2>5, WaitingKeeps
<1> QED
  BY <1>1, <1>5, <1>6, <1>7, <1>8

LEMMA IntentKeeps ==
  ASSUME OrderInv, PhoneTypeOK', NEW n \in DOMAIN taps, Intent(n)
  PROVE  OrderInv'
<1> USE CallsOfAll DEF OrderInv
<1>0. PICK o : o = taps[n].order
  OBVIOUS
<1>1. /\ taps[n].pc = "placed" /\ o \in DOMAIN orders /\ GoOn
      /\ Moved(n, IntentAnswer(o), o)
      /\ UNCHANGED <<cart, token, late, turn>>
  BY <1>0, IntentAnswered
<1>2. Waits(n) /\ Standing(n) /\ orders[o].key = taps[n].call.key
  BY <1>0, <1>1 DEF Waits, Present, Answered
<1>3. OrdersStay /\ AskedFor' = AskedFor /\ Len(taps') = Len(taps) /\ late \subseteq AskedFor
      /\ cart.key <= Len(taps)
  BY <1>1, OrdersAreKept, MovedCalls DEF Past, Traced
<1>4. Past'
  BY <1>1, <1>3, PastRests
<1>5. /\ taps'[n].pc = IntentAnswer(o) /\ taps'[n].order = o /\ taps'[n].call = taps[n].call
      /\ o \in DOMAIN orders' /\ SameOrder(orders[o], orders'[o])
  BY <1>1, <1>3 DEF Moved, OrdersStay
<1>6. IntentAnswer(o) = "TENANT_SCOPE_VIOLATION" => orders[o].customer # token
  BY DEF IntentAnswer
<1>7. Answered(n)'
  <2>1. taps'[n].pc = "TENANT_SCOPE_VIOLATION" =>
          o \in WithKey(taps[n].call.key)'
          /\ (taps[n].call.turn = turn => orders'[o].customer # taps[n].call.customer)
    BY <1>2, <1>5, <1>6 DEF Standing, WithKey, SameOrder
  <2>2. orders'[o].key = taps[n].call.key
    BY <1>2, <1>5 DEF SameOrder
  <2> QED
    BY <1>1, <1>5, <2>1, <2>2 DEF Answered
<1> QED
  BY <1>1, <1>2, <1>3, <1>4, <1>7, WaitingKeeps

(* The key goes: what this turn asked for under it must be resolved.       *)
LEMMA SuccessKeeps ==
  ASSUME OrderInv, PhoneTypeOK', NEW n \in DOMAIN taps, onSuccess(n)
  PROVE  OrderInv'
<1> USE CallsOfAll DEF OrderInv
<1>0. PICK o : o = taps[n].order
  OBVIOUS
<1>1. /\ taps[n].pc = "ready" /\ o \in DOMAIN orders /\ GoOn /\ orders'[o].shown
      /\ Moved(n, "done", o) /\ cart'.key = 0 /\ cart'.identityMode = cart.identityMode
      /\ UNCHANGED <<token, late, turn>>
  BY <1>0, Succeeded
<1>2. Waits(n) /\ Standing(n) /\ orders[o].key = taps[n].call.key
  BY <1>0, <1>1 DEF Waits, Present, Answered
<1>3. OrdersStay /\ AskedFor' = AskedFor /\ Len(taps') = Len(taps) /\ late \subseteq AskedFor /\ SameTurn
  BY <1>1, OrdersAreKept, MovedCalls DEF Past, Traced, SameTurn
<1>4. Past'
  BY <1>1, <1>3, PastRests
<1>5. \A m \in DOMAIN taps : ~Waits(m)'
  BY <1>1, <1>2, MovedCalls DEF Moved, Waits, Present
<1>6. ASSUME NEW c \in AskedFor, c.turn = turn PROVE Resolved(c)'
  <2>1. CASE c.key = taps[n].call.key
    <3>1. o \in DOMAIN orders' /\ orders'[o].key = c.key
      BY <1>1, <1>2, <1>3, <2>1 DEF OrdersStay, SameOrder
    <3> QED
      BY <1>1, <3>1 DEF Resolved, WithKey
  <2>2. CASE c.key # taps[n].call.key
    <3>1. c.key # cart.key
      BY <1>2, <2>2 DEF Standing, Past, Traced
    <3> QED
      BY <1>3, <1>6, <3>1, StaysResolved DEF Present, BasketKey
  <2> QED
    BY <2>1, <2>2
<1> QED
  BY <1>3, <1>4, <1>5, <1>6, PresentDrops

LEMMA GivenUpKeeps ==
  ASSUME OrderInv, PhoneTypeOK', NEW n \in DOMAIN taps, onError(n) \/ TimesOut(n)
  PROVE  OrderInv'
<1> USE CallsOfAll DEF OrderInv
<1>0. PICK call : call = taps[n].call
  OBVIOUS
<1>1. /\ Waits(n) /\ Moved(n, "done", taps[n].order) /\ late' \subseteq late \cup {call}
      /\ cart'.identityMode = cart.identityMode
      /\ \/ cart'.key = cart.key
         \/ cart'.key = 0 /\ taps[n].pc = "TENANT_SCOPE_VIOLATION"
      /\ UNCHANGED <<token, orders, turn>>
  BY <1>0, GivenUp DEF Waits
<1>2. GoOn /\ OrdersStay /\ AskedFor' = AskedFor /\ Len(taps') = Len(taps) /\ SameTurn
  BY <1>1, NoneGoesOn, OrdersAreKept, MovedCalls DEF SameTurn
<1>3. late' \subseteq AskedFor /\ cart'.key <= Len(taps)
  BY <1>0, <1>1 DEF Past, Traced, AskedFor
<1>4. Past'
  BY <1>1, <1>2, <1>3, PastRests
<1>5. \A m \in DOMAIN taps : Waits(m)' => m # n /\ taps'[m] = taps[m]
  BY <1>1, MovedCalls DEF Moved, Waits
<1>6. CASE cart'.key = cart.key
  <2>1. \A m \in DOMAIN taps : Waits(m)' => Waits(m) /\ taps'[m] = taps[m]
    BY <1>5 DEF Waits
  <2> QED
    BY <1>2, <1>4, <1>6, <2>1, PresentRests
<1>7. CASE cart'.key = 0 /\ taps[n].pc = "TENANT_SCOPE_VIOLATION"
  <2>1. Standing(n) /\ Answered(n)
    BY <1>1 DEF Present
  <2>2. PICK i \in WithKey(call.key) : call.turn = turn => orders[i].customer # call.customer
    BY <1>0, <1>7, <2>1 DEF Answered
  <2>3. \A m \in DOMAIN taps : ~Waits(m)'
    BY <1>1, <1>5 DEF Waits, Present
  <2>4. ASSUME NEW c \in AskedFor, c.turn = turn PROVE Resolved(c)'
    <3>1. call.turn = turn /\ call.customer = token /\ SignedIn
      BY <1>0, <2>1, <2>4 DEF Standing
    <3>2. CASE c.key = call.key
      <4>1. c.customer = call.customer
        BY <2>4, <3>1 DEF Present, OneDiner
      <4>2. Resolved(c)
        BY <2>2, <3>1, <3>2, <4>1 DEF Resolved
      <4> QED
        BY <1>2, <4>2, StaysResolved
    <3>3. CASE c.key # call.key
      <4>1. c.key # cart.key
        BY <1>0, <2>1, <3>3 DEF Standing, Past, Traced
      <4> QED
        BY <1>2, <2>4, <4>1, StaysResolved DEF Present, BasketKey
    <3> QED
      BY <3>2, <3>3
  <2> QED
    BY <1>2, <1>4, <2>3, <2>4, PresentDrops
<1> QED
  BY <1>1, <1>6, <1>7

LEMMA LateKeeps ==
  ASSUME OrderInv, PhoneTypeOK', NEW call \in late, ServerPlacesLate(call) \/ LostInTheNet(call)
  PROVE  OrderInv'
<1> USE CallsOfAll DEF OrderInv
<1>1. CASE UNCHANGED orders
  <2>1. GoOn /\ late' \subseteq late /\ UNCHANGED <<cart, token, taps, turn>>
    BY <1>1, NoneGoesOn DEF ServerPlacesLate, LostInTheNet
  <2> QED
    BY <2>1, AsideKeeps
<1>2. CASE ServerPlacesLate(call) /\ Accepts(call)
  <2>1. call \in AskedFor /\ late' \subseteq AskedFor /\ UNCHANGED <<cart, token, taps, turn>>
    BY <1>2, LateAnswers DEF Past, Traced
  <2>2. AskedFor' = AskedFor /\ Len(taps') = Len(taps) /\ SameTurn /\ OrdersStay
    BY <1>2, <2>1, AcceptedCalls, OrdersAreKept DEF SameTurn, AskedFor
  <2>3. Past'
    BY <1>2, <2>1, <2>2, PastOrders
  <2>4. \A n \in DOMAIN taps : Waits(n)' => Waits(n) /\ taps'[n] = taps[n]
    BY <2>1 DEF Waits
  <2> QED
    BY <2>1, <2>2, <2>3, <2>4, PresentRests
<1> QED
  BY <1>1, <1>2, LateAnswers DEF LostInTheNet

(* cart.ts, one key until an order is shown: whatever is lost, repeated or *)
(* reloaded, a diner who waits for the answer to a tap has, at one table,  *)
(* at most one order that the phone never showed.                          *)
THEOREM OneOrderPerBasket == ASSUME ~Impatient PROVE PhoneSpec => []NoSecondOrder
<1>1. PhoneInit => Past /\ Present
  <2> SUFFICES ASSUME PhoneInit PROVE Past /\ Present
    OBVIOUS
  <2>1. AskedFor = {} /\ DOMAIN taps = {} /\ DOMAIN orders = {} /\ late = {} /\ Len(taps) = 0
        /\ cart.key = 0
    BY DEF PhoneInit, AskedFor
  <2>2. Past
    BY <2>1 DEF Past, Traced, OneOpenKey, NoSecondOrder
  <2>3. Present
    BY <2>1 DEF Present, BasketKey, OneDiner
  <2> QED
    BY <2>2, <2>3
<1>2. PhoneTypeOK /\ PhoneTypeOK' /\ Past /\ Present /\ [PhoneNext]_phoneVars => Past' /\ Present'
  <2> SUFFICES ASSUME OrderInv, PhoneTypeOK', [PhoneNext]_phoneVars PROVE OrderInv'
    BY DEF OrderInv
  <2>1. CASE UNCHANGED phoneVars
    BY <2>1, AsideKeeps, NoneGoesOn DEF phoneVars, OrderInv
  <2>2. CASE PayStep \/ payNow \/ SheetEnds \/ DinerPays \/ (\E i \in DOMAIN orders : Webhook(i))
    BY <2>2, Paying, AsideKeeps DEF OrderInv
  <2>3. ASSUME NEW n \in DOMAIN taps, TapStep(n) \/ TimesOut(n) PROVE OrderInv'
    BY <2>3, PlacesKeeps, IntentKeeps, SuccessKeeps, GivenUpKeeps DEF TapStep
  <2> QED
    BY <2>1, <2>2, <2>3, BasketKeeps, LoadKeeps, VerifyKeeps, TapKeeps, LateKeeps DEF PhoneNext
<1>3. Past => NoSecondOrder
  BY DEF Past
<1> QED
  BY <1>1, <1>2, <1>3, PhoneTypes, PTL DEF PhoneSpec
=============================================================================
