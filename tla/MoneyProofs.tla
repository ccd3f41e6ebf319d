----------------------------- MODULE MoneyProofs -----------------------------
(* What happens to a sum of money when items enter or leave the set. *)
EXTENDS Money, FiniteSetTheorems, TLAPS

\* The cents of finitely many items are finitely many, so a sum is a number.
LEMMA SumType ==
  ASSUME NEW S, IsFiniteSet(S), NEW amount, \A p \in S : amount[p] \in Int
  PROVE  IsFiniteSet(Cents(amount, S)) /\ Sum(amount, S) \in Nat
<1> DEFINE Of(p) == {p} \X (1 .. amount[p])
           All   == {Of(p) : p \in S}
<1>1. IsFiniteSet(All)
  <2> DEFINE f == [p \in S |-> Of(p)]
  <2>1. f \in Surjection(S, All)
    BY DEF Surjection
  <2> QED BY <2>1, FS_Surjection
<1>2. ASSUME NEW T \in All PROVE IsFiniteSet(T)
  <2>1. PICK p \in S : T = Of(p)
    OBVIOUS
  <2>2. IsFiniteSet(1 .. amount[p])
    BY <2>1, FS_Interval
  <2>3. IsFiniteSet({p})
    BY FS_Singleton
  <2> QED BY <2>1, <2>2, <2>3, FS_Product
<1>3. IsFiniteSet(UNION All)
  <2> HIDE DEF All
  <2> QED BY <1>1, <1>2, FS_UNION
<1>4. Cents(amount, S) = UNION All
  BY DEF Cents
<1> QED BY <1>3, <1>4, FS_CardinalityType DEF Sum

\* Items that leave the set do not make the sum larger.
LEMMA SumMonotone ==
  ASSUME NEW S, IsFiniteSet(S), NEW T \in SUBSET S,
         NEW amount, \A p \in S : amount[p] \in Int
  PROVE  Sum(amount, T) <= Sum(amount, S)
<1>1. IsFiniteSet(Cents(amount, S))
  BY SumType
<1>2. Cents(amount, T) \subseteq Cents(amount, S)
  BY DEF Cents
<1> QED BY <1>1, <1>2, FS_Subset DEF Sum

\* An item that enters adds at most its own amount.
LEMMA SumAdd ==
  ASSUME NEW S, IsFiniteSet(S), NEW x,
         NEW amount, \A p \in S \cup {x} : amount[p] \in Nat
  PROVE  Sum(amount, S \cup {x}) <= Sum(amount, S) + amount[x]
<1> DEFINE X == {x} \X (1 .. amount[x])
<1>0. amount[x] \in Nat /\ \A p \in S : amount[p] \in Nat
  OBVIOUS
<1>1. IsFiniteSet(Cents(amount, S)) /\ Sum(amount, S) \in Nat
  BY <1>0, SumType
<1>2. IsFiniteSet(X) /\ Cardinality(X) = amount[x]
  <2>1. IsFiniteSet(1 .. amount[x]) /\ Cardinality(1 .. amount[x]) = amount[x]
    <3> DEFINE n == amount[x]
    <3>1. n \in Nat /\ 1 \in Int /\ n \in Int
      BY <1>0
    <3> HIDE DEF n
    <3>2. IsFiniteSet(1 .. n) /\ Cardinality(1 .. n) = IF 1 > n THEN 0 ELSE n - 1 + 1
      BY <3>1, FS_Interval
    <3>3. IsFiniteSet(1 .. n) /\ Cardinality(1 .. n) = n
      BY <3>1, <3>2
    <3> QED BY <3>3 DEF n
  <2>2. IsFiniteSet({x}) /\ Cardinality({x}) = 1
    BY FS_Singleton
  <2>3. IsFiniteSet(X) /\ Cardinality(X) = 1 * amount[x]
    <3> DEFINE I == 1 .. amount[x]
    <3>1. IsFiniteSet(I) /\ Cardinality(I) = amount[x] /\ IsFiniteSet({x}) /\ Cardinality({x}) = 1
      BY <2>1, <2>2
    <3> HIDE DEF I
    <3>2. IsFiniteSet({x} \X I) /\ Cardinality({x} \X I) = Cardinality({x}) * Cardinality(I)
      BY <3>1, FS_Product
    <3> QED BY <3>1, <3>2 DEF I
  <2>4. 1 * amount[x] = amount[x]
    BY <1>0
  <2> QED BY <2>3, <2>4
<1>3. Cents(amount, S \cup {x}) = Cents(amount, S) \cup X
  BY DEF Cents
<1>4. IsFiniteSet(Cents(amount, S) \cap X) /\ Cardinality(Cents(amount, S) \cap X) \in Nat
  <2>1. Cents(amount, S) \cap X \subseteq X
    OBVIOUS
  <2>2. IsFiniteSet(Cents(amount, S) \cap X)
    BY <1>2, <2>1, FS_Subset
  <2> QED BY <2>2, FS_CardinalityType
<1>5. Cardinality(Cents(amount, S) \cup X)
        = Cardinality(Cents(amount, S)) + Cardinality(X) - Cardinality(Cents(amount, S) \cap X)
  BY <1>1, <1>2, FS_Union
<1>6. /\ Cardinality(Cents(amount, S)) \in Nat
      /\ Cardinality(Cents(amount, S) \cup X)
           = Cardinality(Cents(amount, S)) + amount[x] - Cardinality(Cents(amount, S) \cap X)
  BY <1>1, <1>2, <1>5 DEF Sum
<1>7. Cardinality(Cents(amount, S) \cup X) <= Cardinality(Cents(amount, S)) + amount[x]
  BY <1>0, <1>4, <1>6
<1> QED BY <1>3, <1>7 DEF Sum

\* An item that was not in the set adds exactly its own amount.
LEMMA SumAddNew ==
  ASSUME NEW S, IsFiniteSet(S), NEW x, x \notin S,
         NEW amount, \A p \in S \cup {x} : amount[p] \in Nat
  PROVE  Sum(amount, S \cup {x}) = Sum(amount, S) + amount[x]
<1> DEFINE X == {x} \X (1 .. amount[x])
<1>1. amount[x] \in Nat /\ \A p \in S : amount[p] \in Int
  OBVIOUS
<1>2. IsFiniteSet(X) /\ Cardinality(X) = amount[x]
  <2> DEFINE n == amount[x]
             I == 1 .. n
  <2>1. n \in Nat /\ 1 \in Int /\ n \in Int
    BY <1>1
  <2> HIDE DEF n
  <2>2. IsFiniteSet(I) /\ Cardinality(I) = IF 1 > n THEN 0 ELSE n - 1 + 1
    BY <2>1, FS_Interval
  <2>3. IsFiniteSet(I) /\ Cardinality(I) = n
    BY <2>1, <2>2
  <2>4. IsFiniteSet({x}) /\ Cardinality({x}) = 1
    BY FS_Singleton
  <2> HIDE DEF I
  <2>5. IsFiniteSet({x} \X I) /\ Cardinality({x} \X I) = 1 * n
    BY <2>3, <2>4, FS_Product
  <2>6. 1 * n = n
    BY <2>1
  <2> QED BY <2>5, <2>6 DEF I, n
<1>3. IsFiniteSet(Cents(amount, S)) /\ Sum(amount, S) \in Nat
  BY <1>1, SumType
<1>4. Cents(amount, S \cup {x}) = Cents(amount, S) \cup X
  BY DEF Cents
<1>5. Cents(amount, S) \cap X = {}
  BY DEF Cents
<1>6. Cardinality(Cents(amount, S) \cup X)
        = Cardinality(Cents(amount, S)) + Cardinality(X) - Cardinality({})
  BY <1>2, <1>3, <1>5, FS_Union
<1>7. Cardinality({}) = 0
  BY FS_EmptySet
<1>8. Cardinality(Cents(amount, S)) \in Nat
  BY <1>3 DEF Sum
<1>9. Cardinality(Cents(amount, S \cup {x})) = Cardinality(Cents(amount, S)) + amount[x]
  <2> DEFINE c == Cardinality(Cents(amount, S))
             b == Cardinality(Cents(amount, S) \cup X)
             n == amount[x]
  <2>1. c \in Nat /\ n \in Nat /\ b = c + n - 0
    BY <1>1, <1>2, <1>6, <1>7, <1>8
  <2> HIDE DEF b, c, n
  <2>2. b = c + n
    BY <2>1
  <2> QED BY <1>4, <2>2 DEF b, c, n
<1> QED BY <1>9 DEF Sum

\* Items without an amount add nothing.
LEMMA SumOfSome ==
  ASSUME NEW S, NEW T \in SUBSET S, NEW amount, \A p \in S \ T : amount[p] = 0
  PROVE  Sum(amount, T) = Sum(amount, S)
<1>1. Cents(amount, T) = Cents(amount, S)
  <2>1. \A p \in S \ T : {p} \X (1 .. amount[p]) = {}
    OBVIOUS
  <2> QED BY <2>1 DEF Cents
<1> QED BY <1>1 DEF Sum

\* Nothing sums to nothing.
LEMMA SumEmpty ==
  ASSUME NEW amount
  PROVE  Sum(amount, {}) = 0
<1>1. Cents(amount, {}) = {}
  BY DEF Cents
<1> QED BY <1>1, FS_EmptySet DEF Sum

\* Sums of the same amounts are the same.
LEMMA SumCongruence ==
  ASSUME NEW S, NEW amount, NEW other, \A p \in S : amount[p] = other[p]
  PROVE  Sum(amount, S) = Sum(other, S)
<1>1. Cents(amount, S) = Cents(other, S)
  BY DEF Cents
<1> QED BY <1>1 DEF Sum
=============================================================================
