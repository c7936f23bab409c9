------------------------------ MODULE Counting ------------------------------
(***************************************************************************)
(* What the proofs need to know of numbers and of finite sets: induction,  *)
(* places in an order, and what Sum does under the operations on sets,     *)
(* which follows from the library's facts about cardinalities.             *)
(***************************************************************************)
EXTENDS Sums, FiniteSetTheorems, WellFoundedInduction, TLAPS

-----------------------------------------------------------------------------
(* Induction over data, in set form *)

\* Every nonempty set of naturals has a least element.
LEMMA Least ==
  ASSUME NEW S, S \subseteq Nat, S # {}
  PROVE  \E x \in S : \A y \in S : x <= y
<1> DEFINE Less == {ss \in Nat \X Nat : ss[1] < ss[2]}
<1>1. IsWellFoundedOn(Less, Nat)
  BY NatLessThanWellFounded DEF OpToRel
<1>2. PICK x \in S : \A y \in S : ~ (<<y, x>> \in Less)
  BY <1>1, WFMin
<1>3. \A y \in S : ~ (y < x)
  BY <1>2
<1> QED  BY <1>3

\* A set that has 0, and every successor of its members, has every natural.
LEMMA Induction ==
  ASSUME NEW S, 0 \in S, \A n \in Nat : n \in S => n + 1 \in S
  PROVE  \A n \in Nat : n \in S
<1> SUFFICES ASSUME NEW n \in Nat, n \notin S
             PROVE  FALSE
  OBVIOUS
<1>1. PICK x \in Nat \ S : \A y \in Nat \ S : x <= y
  BY Least
<1>2. x # 0 /\ x - 1 \in Nat /\ x - 1 \in S
  BY <1>1
<1> QED  BY <1>1, <1>2

\* What holds at first, and of each number after one that it holds of, holds of all.
LEMMA CountingUp ==
  ASSUME NEW L \in Nat, NEW D, 0 \in D, \A k \in 1..L : k - 1 \in D => k \in D
  PROVE  \A k \in 0..L : k \in D
<1> DEFINE S == (0..L) \ D
<1> SUFFICES ASSUME S # {} PROVE FALSE
  OBVIOUS
<1>1. PICK x \in S : \A y \in S : x <= y
  <2>1. S \subseteq Nat
    OBVIOUS
  <2> HIDE DEF S
  <2> QED  BY <2>1, Least
<1>2. x \in 1..L /\ x - 1 \in 0..L /\ x - 1 \notin S
  BY <1>1
<1> QED  BY <1>1, <1>2

-----------------------------------------------------------------------------
(* What is in order *)

\* R orders S from first to last.
IsOrder(R, S) ==
  /\ \A x, y \in S : <<x, y>> \in R \/ <<y, x>> \in R
  /\ \A x, y \in S : <<x, y>> \in R /\ <<y, x>> \in R => x = y
  /\ \A x, y, z \in S : <<x, y>> \in R /\ <<y, z>> \in R => <<x, z>> \in R

Place(R, S, x) == Cardinality({y \in S : <<y, x>> \in R})

\* Each element of a finite set has a place in its order, a later one than those
\* before it.
LEMMA PlacesAreOrdered ==
  ASSUME NEW R, NEW S, IsFiniteSet(S), IsOrder(R, S)
  PROVE  /\ \A x \in S : Place(R, S, x) \in 1..Cardinality(S)
         /\ \A x, z \in S : <<x, z>> \in R /\ x # z => Place(R, S, x) < Place(R, S, z)
<1> DEFINE n == Cardinality(S)
           Upto(x) == {y \in S : <<y, x>> \in R}
<1>1. n \in Nat
  BY FS_CardinalityType
<1>2. \A x \in S : x \in Upto(x) /\ Upto(x) \subseteq S
  BY DEF IsOrder
<1>3. \A x, z \in S : <<x, z>> \in R /\ x # z => Upto(x) \subseteq Upto(z) /\ z \notin Upto(x)
  BY DEF IsOrder
<1>4. \A x : Place(R, S, x) = Cardinality(Upto(x))
  BY DEF Place
<1> HIDE DEF Upto
<1>5. \A x \in S : IsFiniteSet(Upto(x)) /\ Cardinality(Upto(x)) \in 1..n
  <2> TAKE x \in S
  <2>1. IsFiniteSet(Upto(x)) /\ Cardinality(Upto(x)) <= n /\ Cardinality(Upto(x)) \in Nat
    BY <1>2, FS_Subset, FS_CardinalityType
  <2>2. Cardinality(Upto(x)) # 0
    BY <1>2, <2>1, FS_EmptySet
  <2> QED  BY <1>1, <2>1, <2>2
<1>6. ASSUME NEW x \in S, NEW z \in S, <<x, z>> \in R, x # z
      PROVE  Cardinality(Upto(x)) < Cardinality(Upto(z))
  <2>1. Upto(x) \subseteq Upto(z) /\ Upto(x) # Upto(z)
    BY <1>2, <1>3, <1>6
  <2>2. /\ Cardinality(Upto(x)) <= Cardinality(Upto(z))
        /\ Cardinality(Upto(x)) = Cardinality(Upto(z)) => Upto(x) = Upto(z)
    BY <1>5, <2>1, FS_Subset
  <2>3. Cardinality(Upto(x)) \in 1..n /\ Cardinality(Upto(z)) \in 1..n
    BY <1>5
  <2> HIDE DEF n
  <2> QED  BY <2>1, <2>2, <2>3
<1> QED  BY <1>4, <1>5, <1>6

\* And every place is somebody's.
LEMMA PlacesAreTaken ==
  ASSUME NEW R, NEW S, IsFiniteSet(S), IsOrder(R, S), NEW i \in 1..Cardinality(S)
  PROVE  \E x \in S : Place(R, S, x) = i
<1> DEFINE n == Cardinality(S)
           place == [x \in S |-> Place(R, S, x)]
<1>1. n \in Nat
  BY FS_CardinalityType
<1>2. place \in [S -> 1..n]
  BY PlacesAreOrdered
<1>3. ASSUME NEW x \in S, NEW z \in S, x # z
      PROVE  place[x] # place[z]
  <2>1. <<x, z>> \in R \/ <<z, x>> \in R
    BY DEF IsOrder
  <2>2. Place(R, S, x) < Place(R, S, z) \/ Place(R, S, z) < Place(R, S, x)
    BY <1>3, <2>1, PlacesAreOrdered
  <2>3. Place(R, S, x) \in 1..n /\ Place(R, S, z) \in 1..n
    BY PlacesAreOrdered
  <2> HIDE DEF n
  <2> QED  BY <2>2, <2>3
<1> HIDE DEF place
<1>4. place \in Injection(S, 1..n)
  BY <1>2, <1>3 DEF Injection, IsInjective
<1>5. IsFiniteSet(1..n) /\ Cardinality(1..n) = n
  BY <1>1, FS_Interval
<1>6. place \in Surjection(S, 1..n)
  BY <1>4, <1>5, FS_Injection
<1>7. PICK x \in S : place[x] = i
  BY <1>6 DEF Surjection
<1> QED  BY <1>7 DEF place

-----------------------------------------------------------------------------
(* Sums *)

\* The tokens of one element are as many as its value.
LEMMA SingleCoins ==
  ASSUME NEW x, NEW n \in Nat
  PROVE  IsFiniteSet({x} \X (1..n)) /\ Cardinality({x} \X (1..n)) = n
<1>1. IsFiniteSet(1..n) /\ Cardinality(1..n) = n
  BY FS_Interval
<1>2. IsFiniteSet({x}) /\ Cardinality({x}) = 1
  BY FS_Singleton
<1> DEFINE P == {x} \X (1..n)
<1>3. IsFiniteSet(P) /\ Cardinality(P) = Cardinality({x}) * Cardinality(1..n)
  BY <1>1, <1>2, FS_Product
<1>4. QED
  BY <1>1, <1>2, <1>3

\* A finite set of naturals has finitely many tokens, so its sum is a natural.
LEMMA SumType ==
  ASSUME NEW D, NEW f \in [D -> Nat], NEW S, S \subseteq D, IsFiniteSet(S)
  PROVE  IsFiniteSet(Coins(f, S)) /\ Sum(f, S) \in Nat
<1> DEFINE g == [x \in S |-> {x} \X (1..f[x])]
           T == {{x} \X (1..f[x]) : x \in S}
<1>1. IsFiniteSet(T)
  <2>1. g \in Surjection(S, T)
    BY DEF Surjection
  <2>2. QED
    BY <2>1, FS_Surjection
<1>2. ASSUME NEW t \in T
      PROVE  IsFiniteSet(t)
  <2>1. PICK x \in S : t = {x} \X (1..f[x])
    OBVIOUS
  <2>2. f[x] \in Nat
    OBVIOUS
  <2>3. IsFiniteSet({x} \X (1..f[x]))
    BY <2>2, SingleCoins
  <2>4. QED
    BY <2>1, <2>3
<1>3. IsFiniteSet(UNION T)
  BY <1>1, <1>2, FS_UNION
<1>4. QED
  BY <1>3, FS_CardinalityType DEF Coins, Sum

\* Nothing sums to zero.
LEMMA SumEmpty ==
  ASSUME NEW f
  PROVE  Sum(f, {}) = 0
BY FS_EmptySet DEF Sum, Coins

\* Functions that agree on S have the same sum over S.
LEMMA SumSame ==
  ASSUME NEW f, NEW g, NEW S, \A x \in S : f[x] = g[x]
  PROVE  Sum(f, S) = Sum(g, S)
BY DEF Sum, Coins

\* Adding an element adds its value.
LEMMA SumAdd ==
  ASSUME NEW D, NEW f \in [D -> Nat], NEW S, S \subseteq D, IsFiniteSet(S),
         NEW x \in D, x \notin S
  PROVE  Sum(f, S \cup {x}) = Sum(f, S) + f[x]
<1> DEFINE C == Coins(f, S)
           X == {x} \X (1..f[x])
<1>1. IsFiniteSet(C)
  BY SumType
<1>2. IsFiniteSet(X) /\ Cardinality(X) = f[x]
  BY SingleCoins
<1>3. C \cap X = {}
  BY DEF Coins
<1>4. Coins(f, S \cup {x}) = C \cup X
  BY DEF Coins
<1>5. Cardinality(C \cup X) = Cardinality(C) + Cardinality(X) - Cardinality(C \cap X)
  BY <1>1, <1>2, FS_Union
<1>6. Cardinality(C \cap X) = 0
  BY <1>3, FS_EmptySet
<1>7. Cardinality(C) \in Nat
  BY <1>1, FS_CardinalityType
<1> HIDE DEF C, X
<1>8. Cardinality(C \cup X) = Cardinality(C) + f[x]
  BY <1>2, <1>5, <1>6, <1>7
<1>9. QED
  BY <1>4, <1>8 DEF Sum, C

\* Changing the value of one element changes the sum by the difference.
LEMMA SumUpdate ==
  ASSUME NEW D, NEW f \in [D -> Nat], NEW S, S \subseteq D, IsFiniteSet(S),
         NEW x \in S, NEW g \in [D -> Nat], \A y \in S \ {x} : g[y] = f[y]
  PROVE  Sum(g, S) = Sum(f, S) - f[x] + g[x]
<1> DEFINE R == S \ {x}
<1>1. IsFiniteSet(R) /\ R \subseteq D /\ x \notin R /\ x \in D /\ R \cup {x} = S
  BY FS_Difference
<1>2. Sum(f, R) \in Nat
  BY <1>1, SumType
<1>3. Sum(f, S) = Sum(f, R) + f[x]
  BY <1>1, SumAdd
<1>4. Sum(g, S) = Sum(g, R) + g[x]
  BY <1>1, SumAdd
<1>5. Sum(g, R) = Sum(f, R)
  BY SumSame
<1>6. QED
  BY <1>1, <1>2, <1>3, <1>4, <1>5

\* A part sums to no more than the whole.
LEMMA SumSubset ==
  ASSUME NEW D, NEW f \in [D -> Nat], NEW S, S \subseteq D, IsFiniteSet(S),
         NEW T, T \subseteq S
  PROVE  Sum(f, T) <= Sum(f, S)
<1>1. IsFiniteSet(Coins(f, S))
  BY SumType
<1>2. Coins(f, T) \subseteq Coins(f, S)
  BY DEF Coins
<1>3. QED
  BY <1>1, <1>2, FS_Subset DEF Sum

\* A part and one element outside it sum to no more than the whole.
LEMMA SumRoom ==
  ASSUME NEW D, NEW f \in [D -> Nat], NEW S, S \subseteq D, IsFiniteSet(S),
         NEW T, T \subseteq S, NEW x \in S, x \notin T
  PROVE  Sum(f, T) + f[x] <= Sum(f, S)
<1>1. IsFiniteSet(T) /\ T \subseteq D /\ x \in D /\ T \cup {x} \subseteq S
  BY FS_Subset
<1>2. Sum(f, T \cup {x}) = Sum(f, T) + f[x]
  BY <1>1, SumAdd
<1>3. Sum(f, T \cup {x}) <= Sum(f, S)
  BY <1>1, SumSubset
<1>4. QED
  BY <1>2, <1>3

\* Values that are all zero sum to zero.
LEMMA SumZero ==
  ASSUME NEW f, NEW S, \A x \in S : f[x] = 0
  PROVE  Sum(f, S) = 0
<1>1. Coins(f, S) = {}
  BY DEF Coins
<1>2. QED
  BY <1>1, FS_EmptySet DEF Sum

\* Elements of value zero do not count.
LEMMA SumPart ==
  ASSUME NEW f, NEW S, NEW g, NEW T, T \subseteq S,
         \A x \in T : f[x] = g[x], \A x \in S \ T : f[x] = 0
  PROVE  Sum(f, S) = Sum(g, T)
<1>1. \A x \in S \ T : {x} \X (1..f[x]) = {}
  OBVIOUS
<1>2. \A x \in T : {x} \X (1..f[x]) = {x} \X (1..g[x])
  OBVIOUS
<1>3. Coins(f, S) = Coins(g, T)
  <2>1. ASSUME NEW c
        PROVE  c \in Coins(f, S) <=> c \in Coins(g, T)
    <3>1. c \in Coins(f, S) <=> \E x \in S : c \in {x} \X (1..f[x])
      BY DEF Coins
    <3>2. c \in Coins(g, T) <=> \E x \in T : c \in {x} \X (1..g[x])
      BY DEF Coins
    <3>3. (\E x \in S : c \in {x} \X (1..f[x])) <=> \E x \in T : c \in {x} \X (1..f[x])
      BY <1>1
    <3>4. (\E x \in T : c \in {x} \X (1..f[x])) <=> \E x \in T : c \in {x} \X (1..g[x])
      BY <1>2
    <3> QED  BY <3>1, <3>2, <3>3, <3>4
  <2> QED  BY <2>1
<1> QED  BY <1>3 DEF Sum

\* Equal values sum to their number times the value.
LEMMA SumOfEqual ==
  ASSUME NEW f, NEW S, IsFiniteSet(S), NEW n \in Nat, \A x \in S : f[x] = n
  PROVE  Sum(f, S) = n * Cardinality(S)
<1>1. Coins(f, S) = S \X (1..n)
  BY DEF Coins
<1>2. IsFiniteSet(1..n) /\ Cardinality(1..n) = n
  BY FS_Interval
<1>3. Cardinality(S \X (1..n)) = Cardinality(S) * n
  <2> DEFINE I == 1..n
  <2> HIDE DEF I
  <2> QED  BY <1>2, FS_Product DEF I
<1>4. Cardinality(S) \in Nat
  BY FS_CardinalityType
<1> QED  BY <1>1, <1>3, <1>4 DEF Sum

\* Sums add up.
LEMMA SumPlus ==
  ASSUME NEW T, IsFiniteSet(T), NEW f \in [T -> Nat], NEW g \in [T -> Nat],
         NEW h \in [T -> Nat], \A y \in T : h[y] = f[y] + g[y]
  PROVE  Sum(h, T) = Sum(f, T) + Sum(g, T)
<1> DEFINE D == {k \in Nat : \A A \in SUBSET T :
                   Cardinality(A) = k => Sum(h, A) = Sum(f, A) + Sum(g, A)}
<1>1. \A A \in SUBSET T : IsFiniteSet(A) /\ Cardinality(A) \in Nat
  BY FS_Subset, FS_CardinalityType
<1>2. 0 \in D
  <2> SUFFICES ASSUME NEW A \in SUBSET T, Cardinality(A) = 0
               PROVE  Sum(h, A) = Sum(f, A) + Sum(g, A)
    OBVIOUS
  <2>1. A = {}
    BY <1>1, FS_EmptySet
  <2>2. Sum(h, A) = 0 /\ Sum(f, A) = 0 /\ Sum(g, A) = 0
    BY <2>1, SumEmpty
  <2> QED  BY <2>2
<1>3. ASSUME NEW k \in Nat, k \in D
      PROVE  k + 1 \in D
  <2> SUFFICES ASSUME NEW A \in SUBSET T, Cardinality(A) = k + 1
               PROVE  Sum(h, A) = Sum(f, A) + Sum(g, A)
    OBVIOUS
  <2>1. PICK x \in A : TRUE
    <3>1. Cardinality({}) = 0 /\ Cardinality(A) # 0
      BY FS_EmptySet
    <3> QED  BY <3>1
  <2> DEFINE B == A \ {x}
  <2>2. B \in SUBSET T /\ x \in T /\ x \notin B /\ B \cup {x} = A /\ Cardinality(B) = k
    <3>1. Cardinality(B) = Cardinality(A) - 1
      BY <1>1, <2>1, FS_RemoveElement
    <3> QED  BY <2>1, <3>1
  <2> HIDE DEF B
  <2>3. Sum(h, B) = Sum(f, B) + Sum(g, B)
    BY <1>3, <2>2
  <2>4. \A e \in [T -> Nat] : Sum(e, A) = Sum(e, B) + e[x] /\ Sum(e, B) \in Nat
    BY <1>1, <2>2, SumAdd, SumType
  <2>5. h[x] = f[x] + g[x] /\ f[x] \in Nat /\ g[x] \in Nat
    BY <2>2
  <2>6. /\ Sum(h, A) = Sum(h, B) + h[x] /\ Sum(f, A) = Sum(f, B) + f[x]
        /\ Sum(g, A) = Sum(g, B) + g[x] /\ Sum(f, B) \in Nat /\ Sum(g, B) \in Nat
    BY <2>4
  <2> QED  BY <2>3, <2>5, <2>6
<1>4. \A k \in Nat : k \in D
  <2> HIDE DEF D
  <2> QED  BY <1>2, <1>3, Induction
<1> QED  BY <1>1, <1>4

\* Of two elements the sum is that of their values.
LEMMA SumOfTwo ==
  ASSUME NEW S, IsFiniteSet(S), NEW f \in [S -> Nat], NEW x \in S, NEW y \in S, x # y,
         \A z \in S \ {x, y} : f[z] = 0
  PROVE  Sum(f, S) = f[x] + f[y]
<1> DEFINE R == S \ {x, y}
<1>1. IsFiniteSet(R) /\ R \subseteq S
  BY FS_Subset
<1>2. Sum(f, R) = 0
  BY SumZero
<1>3. Sum(f, R \cup {x}) = f[x]
  <2> HIDE DEF R
  <2>1. x \notin R
    BY DEF R
  <2>2. Sum(f, R \cup {x}) = Sum(f, R) + f[x]
    BY <1>1, <2>1, SumAdd
  <2> QED  BY <1>2, <2>2
<1>4. IsFiniteSet(R \cup {x}) /\ R \cup {x} \subseteq S /\ y \notin R \cup {x}
  BY FS_Subset
<1>5. Sum(f, (R \cup {x}) \cup {y}) = f[x] + f[y]
  <2>1. Sum(f, (R \cup {x}) \cup {y}) = Sum(f, R \cup {x}) + f[y]
    <3> DEFINE Q == R \cup {x}
    <3> HIDE DEF Q
    <3> QED  BY <1>4, SumAdd DEF Q
  <2> HIDE DEF R
  <2> QED  BY <1>3, <2>1
<1>6. (R \cup {x}) \cup {y} = S
  OBVIOUS
<1> QED  BY <1>5, <1>6

\* The rows of a table sum to what its columns sum to.
LEMMA SumOfSums ==
  ASSUME NEW S, IsFiniteSet(S), NEW T, IsFiniteSet(T), NEW w \in [S \X T -> Nat]
  PROVE  Sum([x \in S |-> Sum([y \in T |-> w[<<x, y>>]], T)], S)
           = Sum([y \in T |-> Sum([x \in S |-> w[<<x, y>>]], S)], T)
<1> DEFINE row(x) == [y \in T |-> w[<<x, y>>]]
           col(A, y) == Sum([x \in S |-> w[<<x, y>>]], A)
           rows == [x \in S |-> Sum(row(x), T)]
           cols(A) == [y \in T |-> col(A, y)]
           D == {k \in Nat : \A A \in SUBSET S :
                   Cardinality(A) = k => Sum(rows, A) = Sum(cols(A), T)}
<1>1. \A A \in SUBSET S : IsFiniteSet(A) /\ Cardinality(A) \in Nat
  BY FS_Subset, FS_CardinalityType
<1>2. \A x \in S : row(x) \in [T -> Nat]
  OBVIOUS
<1>3. rows \in [S -> Nat]
  <2>1. \A x \in S : Sum(row(x), T) \in Nat
    <3> TAKE x \in S
    <3> HIDE DEF row
    <3> QED  BY <1>2, SumType
  <2> HIDE DEF row
  <2> QED  BY <2>1
<1>4. ASSUME NEW A \in SUBSET S, NEW y \in T
      PROVE  col(A, y) \in Nat
  BY <1>1, SumType
<1>5. \A A \in SUBSET S : cols(A) \in [T -> Nat]
  <2> HIDE DEF col
  <2> QED  BY <1>4
<1>6. 0 \in D
  <2> SUFFICES ASSUME NEW A \in SUBSET S, Cardinality(A) = 0
               PROVE  Sum(rows, A) = Sum(cols(A), T)
    OBVIOUS
  <2>1. A = {}
    BY <1>1, FS_EmptySet
  <2>2. \A y \in T : cols({})[y] = 0
    BY SumEmpty
  <2> HIDE DEF cols, rows
  <2> QED  BY <2>1, <2>2, SumEmpty, SumZero
<1>7. ASSUME NEW k \in Nat, k \in D
      PROVE  k + 1 \in D
  <2> SUFFICES ASSUME NEW A \in SUBSET S, Cardinality(A) = k + 1
               PROVE  Sum(rows, A) = Sum(cols(A), T)
    OBVIOUS
  <2>1. PICK x \in A : TRUE
    <3>1. Cardinality({}) = 0 /\ Cardinality(A) # 0
      BY FS_EmptySet
    <3> QED  BY <3>1
  <2> DEFINE B == A \ {x}
  <2>2. B \in SUBSET S /\ x \in S /\ x \notin B /\ B \cup {x} = A /\ Cardinality(B) = k
    <3>1. Cardinality(B) = Cardinality(A) - 1
      BY <1>1, <2>1, FS_RemoveElement
    <3> QED  BY <2>1, <3>1
  <2> HIDE DEF B
  <2>3. Sum(rows, B) = Sum(cols(B), T)
    BY <1>7, <2>2
  <2>4. Sum(rows, A) = Sum(rows, B) + Sum(row(x), T)
    <3>1. Sum(rows, B \cup {x}) = Sum(rows, B) + rows[x]
      <4> HIDE DEF rows
      <4> QED  BY <1>1, <1>3, <2>2, SumAdd
    <3>2. rows[x] = Sum(row(x), T)
      BY <2>2
    <3> QED  BY <2>2, <3>1, <3>2
  <2>5. \A y \in T : cols(A)[y] = cols(B)[y] + row(x)[y]
    <3> TAKE y \in T
    <3> DEFINE f == [z \in S |-> w[<<z, y>>]]
    <3>1. f \in [S -> Nat]
      OBVIOUS
    <3>2. Sum(f, B \cup {x}) = Sum(f, B) + f[x]
      <4> HIDE DEF f
      <4> QED  BY <1>1, <2>2, <3>1, SumAdd
    <3> QED  BY <2>2, <3>2
  <2>6. Sum(cols(A), T) = Sum(cols(B), T) + Sum(row(x), T)
    <3>1. cols(A) \in [T -> Nat] /\ cols(B) \in [T -> Nat] /\ row(x) \in [T -> Nat]
      BY <1>2, <1>5, <2>2
    <3> HIDE DEF cols, row
    <3> QED  BY <2>5, <3>1, SumPlus
  <2> HIDE DEF rows, cols, row
  <2> QED  BY <2>3, <2>4, <2>6
<1>8. \A k \in Nat : k \in D
  <2> HIDE DEF D
  <2> QED  BY <1>6, <1>7, Induction
<1>9. Sum(rows, S) = Sum(cols(S), T)
  BY <1>1, <1>8
<1> QED  BY <1>9

\* No more elements, no greater count.
LEMMA FewerAreLess ==
  ASSUME NEW S, NEW T, IsFiniteSet(S), T \subseteq S
  PROVE  /\ Cardinality(S) \in Nat /\ Cardinality(T) \in Nat
         /\ Cardinality(T) <= Cardinality(S)
BY FS_Subset, FS_CardinalityType

\* Two finite sets together have no more elements than both.
LEMMA BothAreLess ==
  ASSUME NEW S, NEW T, IsFiniteSet(S), IsFiniteSet(T)
  PROVE  /\ IsFiniteSet(S \cup T)
         /\ Cardinality(S) \in Nat /\ Cardinality(T) \in Nat /\ Cardinality(S \cup T) \in Nat
         /\ Cardinality(S \cup T) <= Cardinality(S) + Cardinality(T)
<1>1. /\ IsFiniteSet(S \cup T)
      /\ Cardinality(S \cup T) = Cardinality(S) + Cardinality(T) - Cardinality(S \cap T)
  BY FS_Union
<1>2. IsFiniteSet(S \cap T)
  BY FS_Intersection
<1>3. Cardinality(S \cap T) \in Nat /\ Cardinality(S) \in Nat /\ Cardinality(T) \in Nat
  BY <1>2, FS_CardinalityType
<1>4. QED
  BY <1>1, <1>3, FS_CardinalityType
=============================================================================
