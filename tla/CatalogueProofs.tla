--------------------------- MODULE CatalogueProofs ---------------------------
(***************************************************************************)
(* Proofs about the catalogue of compound markets, for all statistics and  *)
(* all lines, and about the settler that walks it.                         *)
(***************************************************************************)
EXTENDS Visitors, Counting

Holds(p, values) == compare(Combined(p, values), p.threshold, p.comparison)

\* What a predicate says of a single statistic.
LEMMA HoldsSingle ==
  ASSUME NEW values, NEW i, NEW t
  PROVE  /\ Holds(single(i, GT, t), values) <=> values[i] > t
         /\ Holds(single(i, EQ, t), values) <=> values[i] = t
BY DEF Holds, single, Combined, compare, GT, EQ

\* What it says of their sum.
LEMMA HoldsAdd ==
  ASSUME NEW values, NEW i, NEW j, NEW t
  PROVE  /\ Holds(binary(i, j, "add", GT, t), values) <=> values[i] + values[j] > t
         /\ Holds(binary(i, j, "add", LT, t), values) <=> values[i] + values[j] < t
BY DEF Holds, binary, Combined, compare, GT, LT

\* What it says of their difference.
LEMMA HoldsSubtract ==
  ASSUME NEW values, NEW i, NEW j, NEW t
  PROVE  /\ Holds(binary(i, j, "subtract", GT, t), values)
              <=> values[i] - values[j] > t
         /\ Holds(binary(i, j, "subtract", LT, t), values)
              <=> values[i] - values[j] < t
         /\ Holds(binary(i, j, "subtract", EQ, t), values)
              <=> values[i] - values[j] = t
BY DEF Holds, binary, Combined, compare, GT, LT, EQ

\* An outcome of one predicate holds if that one does.
LEMMA AllHoldOne ==
  ASSUME NEW p, NEW values
  PROVE  AllHold(<<p>>, values) <=> Holds(p, values)
BY DEF AllHold, Holds

\* An outcome of two predicates holds if both do.
LEMMA AllHoldTwo ==
  ASSUME NEW p, NEW q, NEW values
  PROVE  AllHold(<<p, q>>, values) <=> Holds(p, values) /\ Holds(q, values)
BY DEF AllHold, Holds

-----------------------------------------------------------------------------
(* The templates are partitions *)

\* Home, draw or away: exactly one, whatever the score.
THEOREM ResultPartitions ==
  ASSUME NEW legs, NEW Vs, \A v \in Vs : v[1] \in Int /\ v[2] \in Int
  PROVE  Partition(Result(legs), Vs)
<1> SUFFICES ASSUME NEW v \in Vs
             PROVE  \E o \in 1..3 : \A q \in 1..3 :
                      AllHold(Result(legs).outcomes[q], v) <=> q = o
  BY DEF Partition, Result, Def
<1>1. /\ AllHold(Result(legs).outcomes[1], v) <=> v[1] - v[2] > 0
      /\ AllHold(Result(legs).outcomes[2], v) <=> v[1] - v[2] = 0
      /\ AllHold(Result(legs).outcomes[3], v) <=> v[1] - v[2] < 0
  BY AllHoldOne, HoldsSubtract DEF Result, Def
<1>2. CASE v[1] - v[2] > 0
  BY <1>1, <1>2
<1>3. CASE v[1] - v[2] = 0
  BY <1>1, <1>3
<1>4. CASE v[1] - v[2] < 0
  BY <1>1, <1>4
<1> QED  BY <1>2, <1>3, <1>4

\* Over and under a line leave no total out and share none.
THEOREM OverUnderPartitions ==
  ASSUME NEW legs, NEW t \in Int, NEW Vs, \A v \in Vs : v[1] \in Int /\ v[2] \in Int
  PROVE  Partition(OverUnder(legs, t), Vs)
<1>d. DOMAIN OverUnder(legs, t).outcomes = 1..2
  BY DEF OverUnder, Def
<1> SUFFICES ASSUME NEW v \in Vs
             PROVE  \E o \in 1..2 : \A q \in 1..2 :
                      AllHold(OverUnder(legs, t).outcomes[q], v) <=> q = o
  BY <1>d DEF Partition
<1> DEFINE s == v[1] + v[2]
<1>1. /\ AllHold(OverUnder(legs, t).outcomes[1], v) <=> s > t
      /\ AllHold(OverUnder(legs, t).outcomes[2], v) <=> s < t + 1
  BY AllHoldOne, HoldsAdd DEF OverUnder, Def
<1>s. s \in Int
  OBVIOUS
<1> HIDE DEF s
<1>2. CASE s > t
  BY <1>1, <1>2, <1>s
<1>3. CASE s < t + 1
  BY <1>1, <1>3, <1>s
<1> QED  BY <1>2, <1>3, <1>s

\* Who scored, for counts: "greater than none" and "none" are complements.
THEOREM ScorersPartition ==
  ASSUME NEW legs, NEW Vs, \A v \in Vs : v[1] \in Nat /\ v[2] \in Nat
  PROVE  Partition(Scorers(legs), Vs)
<1> SUFFICES ASSUME NEW v \in Vs
             PROVE  \E o \in 1..4 : \A q \in 1..4 :
                      AllHold(Scorers(legs).outcomes[q], v) <=> q = o
  BY DEF Partition, Scorers, Def
<1>1. /\ AllHold(Scorers(legs).outcomes[1], v) <=> v[1] > 0 /\ v[2] > 0
      /\ AllHold(Scorers(legs).outcomes[2], v) <=> v[1] > 0 /\ v[2] = 0
      /\ AllHold(Scorers(legs).outcomes[3], v) <=> v[1] = 0 /\ v[2] > 0
      /\ AllHold(Scorers(legs).outcomes[4], v) <=> v[1] = 0 /\ v[2] = 0
  BY AllHoldTwo, HoldsSingle DEF Scorers, Def
<1>2. CASE v[1] > 0
  BY <1>1, <1>2
<1>3. CASE v[1] = 0
  BY <1>1, <1>3
<1> QED  BY <1>2, <1>3

\* Clean sheets, likewise.
THEOREM CleanSheetPartitions ==
  ASSUME NEW legs, NEW Vs, \A v \in Vs : v[1] \in Nat /\ v[2] \in Nat
  PROVE  Partition(CleanSheet(legs), Vs)
<1> SUFFICES ASSUME NEW v \in Vs
             PROVE  \E o \in 1..4 : \A q \in 1..4 :
                      AllHold(CleanSheet(legs).outcomes[q], v) <=> q = o
  BY DEF Partition, CleanSheet, Def
<1>1. /\ AllHold(CleanSheet(legs).outcomes[1], v) <=> v[1] > 0 /\ v[2] = 0
      /\ AllHold(CleanSheet(legs).outcomes[2], v) <=> v[1] = 0 /\ v[2] > 0
      /\ AllHold(CleanSheet(legs).outcomes[3], v) <=> v[1] = 0 /\ v[2] = 0
      /\ AllHold(CleanSheet(legs).outcomes[4], v) <=> v[1] > 0 /\ v[2] > 0
  BY AllHoldTwo, HoldsSingle DEF CleanSheet, Def
<1>2. CASE v[1] > 0
  BY <1>1, <1>2
<1>3. CASE v[1] = 0
  BY <1>1, <1>3
<1> QED  BY <1>2, <1>3

\* "Margin buckets tile the whole integer line."
THEOREM MarginPartitions ==
  ASSUME NEW legs, NEW Vs, \A v \in Vs : v[1] \in Int /\ v[2] \in Int
  PROVE  Partition(Margin(legs), Vs)
<1> SUFFICES ASSUME NEW v \in Vs
             PROVE  \E o \in 1..5 : \A q \in 1..5 :
                      AllHold(Margin(legs).outcomes[q], v) <=> q = o
  BY DEF Partition, Margin, Def
<1> DEFINE d == v[1] - v[2]
<1>1. /\ AllHold(Margin(legs).outcomes[1], v) <=> d > 1
      /\ AllHold(Margin(legs).outcomes[2], v) <=> d = 1
      /\ AllHold(Margin(legs).outcomes[3], v) <=> d = 0
      /\ AllHold(Margin(legs).outcomes[4], v) <=> d = -1
      /\ AllHold(Margin(legs).outcomes[5], v) <=> d < -1
  BY AllHoldOne, HoldsSubtract DEF Margin, Def
<1>2. d \in Int
  OBVIOUS
<1> HIDE DEF d
<1>3. CASE d > 1
  BY <1>1, <1>2, <1>3
<1>4. CASE d = 1
  BY <1>1, <1>4
<1>5. CASE d = 0
  BY <1>1, <1>5
<1>6. CASE d = -1
  BY <1>1, <1>6
<1>7. CASE d < -1
  BY <1>1, <1>2, <1>7
<1> QED  BY <1>2, <1>3, <1>4, <1>5, <1>6, <1>7

\* A condition and its complement on two statistics that start at position i.
LEMMA Complement ==
  ASSUME NEW c, c.op \in {"add", "subtract"}, c.line \in Int,
         NEW i \in Int, NEW v, v[i] \in Int, v[i + 1] \in Int
  PROVE  Holds(neg(c, i), v) <=> ~Holds(pred(c, i), v)
<1>1. CASE c.op = "add"
  BY <1>1, HoldsAdd DEF neg, pred
<1>2. CASE c.op = "subtract"
  BY <1>2, HoldsSubtract DEF neg, pred
<1> QED  BY <1>1, <1>2

\* A parlay of any two conditions is a partition: "every cell is provable, and
\* together they cover every possible world".
THEOREM ParlayPartitions ==
  ASSUME NEW a, NEW b, Len(a.legs) = 2,
         a.op \in {"add", "subtract"}, a.line \in Int,
         b.op \in {"add", "subtract"}, b.line \in Int,
         NEW Vs, \A v \in Vs : \A i \in 1..4 : v[i] \in Int
  PROVE  Partition(parlayGrid(a, b), Vs)
<1> SUFFICES ASSUME NEW v \in Vs
             PROVE  \E o \in 1..4 : \A q \in 1..4 :
                      AllHold(parlayGrid(a, b).outcomes[q], v) <=> q = o
  BY DEF Partition, parlayGrid, Def
<1> DEFINE A == Holds(pred(a, 1), v)
           B == Holds(pred(b, 3), v)
<1>0. Holds(neg(a, 1), v) <=> ~A
  BY Complement
<1>1. Holds(neg(b, 3), v) <=> ~B
  BY Complement
<1>2. /\ AllHold(parlayGrid(a, b).outcomes[1], v) <=> A /\ B
      /\ AllHold(parlayGrid(a, b).outcomes[2], v) <=> A /\ ~B
      /\ AllHold(parlayGrid(a, b).outcomes[3], v) <=> ~A /\ B
      /\ AllHold(parlayGrid(a, b).outcomes[4], v) <=> ~A /\ ~B
  BY <1>0, <1>1, AllHoldTwo DEF parlayGrid, Def
<1> HIDE DEF A, B
<1>3. CASE A /\ B
  BY <1>2, <1>3
<1>4. CASE A /\ ~B
  BY <1>2, <1>4
<1>5. CASE ~A /\ B
  BY <1>2, <1>5
<1>6. CASE ~A /\ ~B
  BY <1>2, <1>6
<1> QED  BY <1>3, <1>4, <1>5, <1>6

\* The proven statistics of a market: one count per leg.
Valuation(t, v) == \A i \in DOMAIN CATALOGUE[t].legs : v[i] \in Nat

\* The markets on goals alone are about two statistics.
LEMMA GoalsOfTwo ==
  ASSUME NEW t \in 28..35
  PROVE  DOMAIN CATALOGUE[t].legs = 1..2
<1>1. DOMAIN Goals = 1..2 /\ DOMAIN Corners = 1..2 /\ DOMAIN Yellows = 1..2
        /\ DOMAIN HalfTime = 1..2
  BY DEF Goals, Corners, Yellows, HalfTime
<1>2. CASE t \in {28, 34}
  BY <1>1, <1>2 DEF CATALOGUE, Result, Def
<1>3. CASE t \in {29, 30, 31}
  BY <1>1, <1>3 DEF CATALOGUE, OverUnder, Def
<1>4. CASE t \in {32, 33, 35}
  BY <1>1, <1>4 DEF CATALOGUE, Scorers, CleanSheet, Margin, Def
<1> QED  BY <1>2, <1>3, <1>4

\* the shape of the conditions the parlays combine.
LEMMA Conditions ==
  /\ DOMAIN homeWin.legs = 1..2 /\ Len(homeWin.legs) = 2
  /\ homeWin.op = "subtract" /\ homeWin.line = 0
  /\ \A n \in Int :
       /\ Len(overGoals(n).legs) = 2 /\ Len(overCorners(n).legs) = 2
       /\ Len(overYellows(n).legs) = 2
       /\ overGoals(n).op = "add" /\ overGoals(n).line = n
       /\ overCorners(n).op = "add" /\ overCorners(n).line = n
       /\ overYellows(n).op = "add" /\ overYellows(n).line = n
BY DEF homeWin, overGoals, overCorners, overYellows, Condition,
       Goals, Corners, Yellows

\* A parlay is about the statistics of both of its conditions.
LEMMA ParlayLegs ==
  ASSUME NEW t \in 36..39
  PROVE  CATALOGUE[t].legs \in {Goals \o Corners, Corners \o Yellows, Goals \o Yellows}
<1>1. ASSUME NEW a, NEW b
      PROVE  parlayGrid(a, b).legs = a.legs \o b.legs
  BY DEF parlayGrid, Def
<1>2. /\ homeWin.legs = Goals
      /\ \A n \in Int : /\ overGoals(n).legs = Goals
                        /\ overCorners(n).legs = Corners
                        /\ overYellows(n).legs = Yellows
  BY DEF homeWin, overGoals, overCorners, overYellows, Condition
<1>3. CASE t = 36
  <2>1. CATALOGUE[t] = parlayGrid(homeWin, overCorners(9))
    BY <1>3 DEF CATALOGUE
  <2>2. CATALOGUE[t].legs = homeWin.legs \o overCorners(9).legs
    BY <1>1, <2>1
  <2>3. homeWin.legs = Goals /\ overCorners(9).legs = Corners
    BY <1>2
  <2> QED  BY <2>2, <2>3
<1>4. CASE t = 37
  <2>1. CATALOGUE[t] = parlayGrid(overCorners(9), overYellows(3))
    BY <1>4 DEF CATALOGUE
  <2>2. CATALOGUE[t].legs = overCorners(9).legs \o overYellows(3).legs
    BY <1>1, <2>1
  <2>3. overCorners(9).legs = Corners /\ overYellows(3).legs = Yellows
    BY <1>2
  <2> QED  BY <2>2, <2>3
<1>5. CASE t = 38
  <2>1. CATALOGUE[t] = parlayGrid(overGoals(2), overYellows(3))
    BY <1>5 DEF CATALOGUE
  <2>2. CATALOGUE[t].legs = overGoals(2).legs \o overYellows(3).legs
    BY <1>1, <2>1
  <2>3. overGoals(2).legs = Goals /\ overYellows(3).legs = Yellows
    BY <1>2
  <2> QED  BY <2>2, <2>3
<1>6. CASE t = 39
  <2>1. CATALOGUE[t] = parlayGrid(homeWin, overYellows(3))
    BY <1>6 DEF CATALOGUE
  <2>2. CATALOGUE[t].legs = homeWin.legs \o overYellows(3).legs
    BY <1>1, <2>1
  <2>3. homeWin.legs = Goals /\ overYellows(3).legs = Yellows
    BY <1>2
  <2> QED  BY <2>2, <2>3
<1>7. t = 36 \/ t = 37 \/ t = 38 \/ t = 39
  OBVIOUS
<1> QED  BY <1>3, <1>4, <1>5, <1>6, <1>7, Zenon

\* It has four legs.
LEMMA ParlayOfFour ==
  ASSUME NEW t \in 36..39
  PROVE  DOMAIN CATALOGUE[t].legs = 1..4
<1>1. DOMAIN (Goals \o Corners) = 1..4 /\ DOMAIN (Corners \o Yellows) = 1..4
        /\ DOMAIN (Goals \o Yellows) = 1..4
  BY DEF Goals, Corners, Yellows
<1> QED  BY <1>1, ParlayLegs

\* Whatever the counts, exactly one outcome of every market is provable.
THEOREM CataloguePartitions ==
  ASSUME NEW t \in DOMAIN CATALOGUE, NEW v, Valuation(t, v)
  PROVE  Partition(CATALOGUE[t], {v})
<1>1. t \in 28..39
  BY DEF CATALOGUE
<1>2. CASE t \in 28..35
  <2>1. \A w \in {v} : /\ w[1] \in Nat /\ w[2] \in Nat
                       /\ w[1] \in Int /\ w[2] \in Int
    BY <1>2, GoalsOfTwo DEF Valuation
  <2>2. CASE t \in {28, 34}
    BY <2>1, <2>2, ResultPartitions DEF CATALOGUE
  <2>3. CASE t \in {29, 30, 31}
    BY <2>1, <2>3, OverUnderPartitions DEF CATALOGUE
  <2>4. CASE t \in {32, 33}
    BY <2>1, <2>4, ScorersPartition, CleanSheetPartitions DEF CATALOGUE
  <2>5. CASE t = 35
    BY <2>1, <2>5, MarginPartitions DEF CATALOGUE
  <2> QED  BY <1>2, <2>2, <2>3, <2>4, <2>5
<1>3. CASE t \in 36..39
  <2>1. \A w \in {v} : \A i \in 1..4 : w[i] \in Int
    BY <1>3, ParlayOfFour DEF Valuation
  <2>2. CASE t = 36
    BY <2>1, <2>2, Conditions, ParlayPartitions DEF CATALOGUE
  <2>3. CASE t = 37
    BY <2>1, <2>3, Conditions, ParlayPartitions DEF CATALOGUE
  <2>4. CASE t = 38
    BY <2>1, <2>4, Conditions, ParlayPartitions DEF CATALOGUE
  <2>5. CASE t = 39
    BY <2>1, <2>5, Conditions, ParlayPartitions DEF CATALOGUE
  <2> QED  BY <1>3, <2>2, <2>3, <2>4, <2>5
<1> QED  BY <1>1, <1>2, <1>3

-----------------------------------------------------------------------------
(* Coverage, and the two evaluations *)

\* What all predicates of the catalogue are built from.
WellFormed(p) == p.op \in {"none", "add", "subtract"} /\ p.comparison \in {GT, LT, EQ}

\* The outcomes of the templates: one predicate over two legs, one over each,
\* or two over two legs each.
Shape(outcome, n) ==
  /\ \A k \in DOMAIN outcome : WellFormed(outcome[k])
  /\ \/ /\ n = 2 /\ Len(outcome) = 1 /\ DOMAIN outcome = 1..1
        /\ outcome[1].reads = <<1, 2>>
     \/ /\ n = 2 /\ Len(outcome) = 2 /\ DOMAIN outcome = 1..2
        /\ outcome[1].reads = <<1>> /\ outcome[2].reads = <<2>>
     \/ /\ n = 4 /\ Len(outcome) = 2 /\ DOMAIN outcome = 1..2
        /\ outcome[1].reads = <<1, 2>> /\ outcome[2].reads = <<3, 4>>

\* An outcome of one of the three shapes reads each leg exactly once.
LEMMA ShapesAreCovered ==
  ASSUME NEW outcome, NEW n, Shape(outcome, n)
  PROVE  CoveredOnce(outcome, n)
<1> DEFINE R == Reads(outcome)
<1>1. CASE /\ n = 2 /\ Len(outcome) = 1 /\ DOMAIN outcome = 1..1
           /\ outcome[1].reads = <<1, 2>>
  <2>1. R = {<<1, 1>>, <<1, 2>>}
    BY <1>1 DEF Reads
  <2>2. LegAt(outcome, <<1, 1>>) = 1 /\ LegAt(outcome, <<1, 2>>) = 2
    BY <1>1 DEF LegAt
  <2> QED  BY <1>1, <2>1, <2>2 DEF CoveredOnce
<1>2. CASE /\ n = 2 /\ Len(outcome) = 2 /\ DOMAIN outcome = 1..2
           /\ outcome[1].reads = <<1>> /\ outcome[2].reads = <<2>>
  <2>1. R = {<<1, 1>>, <<2, 1>>}
    BY <1>2 DEF Reads
  <2>2. LegAt(outcome, <<1, 1>>) = 1 /\ LegAt(outcome, <<2, 1>>) = 2
    BY <1>2 DEF LegAt
  <2> QED  BY <1>2, <2>1, <2>2 DEF CoveredOnce
<1>3. CASE /\ n = 4 /\ Len(outcome) = 2 /\ DOMAIN outcome = 1..2
           /\ outcome[1].reads = <<1, 2>> /\ outcome[2].reads = <<3, 4>>
  <2>1. R = {<<1, 1>>, <<1, 2>>, <<2, 1>>, <<2, 2>>}
    BY <1>3 DEF Reads
  <2>2. /\ LegAt(outcome, <<1, 1>>) = 1 /\ LegAt(outcome, <<1, 2>>) = 2
        /\ LegAt(outcome, <<2, 1>>) = 3 /\ LegAt(outcome, <<2, 2>>) = 4
    BY <1>3 DEF LegAt
  <2> QED  BY <1>3, <2>1, <2>2 DEF CoveredOnce
<1> QED  BY <1>1, <1>2, <1>3 DEF Shape

\* The keeper evaluates a predicate as the oracle does.
LEMMA EvaluationsAgree ==
  ASSUME NEW p, NEW v, WellFormed(p)
  PROVE  satisfies(p, v) <=> Holds(p, v)
<1>1. CASE p.op = "none"
  BY <1>1 DEF WellFormed, satisfies, cmp, Holds, compare, Combined, GT, LT, EQ
<1>2. CASE p.op = "add"
  BY <1>2 DEF WellFormed, satisfies, cmp, Holds, compare, Combined, GT, LT, EQ
<1>3. CASE p.op = "subtract"
  BY <1>3 DEF WellFormed, satisfies, cmp, Holds, compare, Combined, GT, LT, EQ
<1> QED  BY <1>1, <1>2, <1>3 DEF WellFormed

\* the outcomes of the templates have one of the shapes.
LEMMA PairShape ==
  ASSUME NEW op \in {"add", "subtract"}, NEW c \in {GT, LT, EQ}, NEW line
  PROVE  Shape(<<binary(1, 2, op, c, line)>>, 2)
BY DEF Shape, WellFormed, binary

\* Two predicates on a leg each, as in the markets on who scores.
LEMMA SinglesShape ==
  ASSUME NEW c \in {GT, EQ}, NEW d \in {GT, EQ}, NEW line
  PROVE  Shape(<<single(1, c, line), single(2, d, line)>>, 2)
BY DEF Shape, WellFormed, single

\* A cell of a parlay: a condition, or its negation, on either pair of legs.
LEMMA CellShape ==
  ASSUME NEW a, NEW b, a.op \in {"add", "subtract"}, b.op \in {"add", "subtract"},
         NEW p \in {pred(a, 1), neg(a, 1)}, NEW q \in {pred(b, 3), neg(b, 3)}
  PROVE  Shape(<<p, q>>, 4)
<1>1. p.reads = <<1, 2>> /\ WellFormed(p)
  BY DEF pred, neg, binary, WellFormed
<1>2. q.reads = <<3, 4>> /\ WellFormed(q)
  BY DEF pred, neg, binary, WellFormed
<1> QED  BY <1>1, <1>2 DEF Shape

\* So each outcome of a parlay has a shape.
LEMMA ParlayShapes ==
  ASSUME NEW a, NEW b, Len(a.legs) = 2,
         a.op \in {"add", "subtract"}, b.op \in {"add", "subtract"},
         NEW o \in DOMAIN parlayGrid(a, b).outcomes
  PROVE  Shape(parlayGrid(a, b).outcomes[o], 4)
<1>1. parlayGrid(a, b).outcomes =
        << <<pred(a, 1), pred(b, 3)>>, <<pred(a, 1), neg(b, 3)>>,
           <<neg(a, 1), pred(b, 3)>>, <<neg(a, 1), neg(b, 3)>> >>
  BY DEF parlayGrid, Def
<1>2. /\ Shape(<<pred(a, 1), pred(b, 3)>>, 4) /\ Shape(<<pred(a, 1), neg(b, 3)>>, 4)
      /\ Shape(<<neg(a, 1), pred(b, 3)>>, 4) /\ Shape(<<neg(a, 1), neg(b, 3)>>, 4)
  BY CellShape
<1> QED  BY <1>1, <1>2

\* Each outcome of the catalogue has a shape.
LEMMA CatalogueShapes ==
  ASSUME NEW t \in DOMAIN CATALOGUE, NEW o \in DOMAIN CATALOGUE[t].outcomes
  PROVE  Shape(CATALOGUE[t].outcomes[o], IF t < 36 THEN 2 ELSE 4)
<1>1. t \in 28..39
  BY DEF CATALOGUE
<1>2. CASE t \in {28, 34}
  BY <1>2, PairShape DEF CATALOGUE, Result, Def
<1>3. CASE t \in {29, 30, 31}
  BY <1>3, PairShape DEF CATALOGUE, OverUnder, Def
<1>4. CASE t \in {32, 33}
  BY <1>4, SinglesShape DEF CATALOGUE, Scorers, CleanSheet, Def
<1>5. CASE t = 35
  BY <1>5, PairShape DEF CATALOGUE, Margin, Def
<1>6. CASE t = 36
  BY <1>6, Conditions, ParlayShapes DEF CATALOGUE
<1>7. CASE t = 37
  BY <1>7, Conditions, ParlayShapes DEF CATALOGUE
<1>8. CASE t = 38
  BY <1>8, Conditions, ParlayShapes DEF CATALOGUE
<1>9. CASE t = 39
  BY <1>9, Conditions, ParlayShapes DEF CATALOGUE
<1> QED  BY <1>1, <1>2, <1>3, <1>4, <1>5, <1>6, <1>7, <1>8, <1>9

\* The oracle never rejects an outcome of the catalogue for its coverage.
THEOREM CatalogueIsSettleable ==
  ASSUME NEW t \in DOMAIN CATALOGUE, NEW o \in DOMAIN CATALOGUE[t].outcomes,
         NEW v, Len(v) = IF t < 36 THEN 2 ELSE 4
  PROVE  evaluate_strategy(CATALOGUE[t].outcomes[o], v) \in {"true", "false"}
BY CatalogueShapes, ShapesAreCovered DEF evaluate_strategy

\* The outcomes the keeper finds by evaluating are those that hold.
LEMMA MatchingHolds ==
  ASSUME NEW t \in DOMAIN CATALOGUE, NEW v
  PROVE  Matching(CATALOGUE[t], v) =
           {o \in DOMAIN CATALOGUE[t].outcomes : AllHold(CATALOGUE[t].outcomes[o], v)}
<1> SUFFICES ASSUME NEW o \in DOMAIN CATALOGUE[t].outcomes
             PROVE  (\A k \in DOMAIN CATALOGUE[t].outcomes[o] :
                       satisfies(CATALOGUE[t].outcomes[o][k], v))
                    <=> AllHold(CATALOGUE[t].outcomes[o], v)
  BY DEF Matching
<1>1. \A k \in DOMAIN CATALOGUE[t].outcomes[o] : WellFormed(CATALOGUE[t].outcomes[o][k])
  BY CatalogueShapes DEF Shape
<1> QED  BY <1>1, EvaluationsAgree DEF AllHold, Holds

\* No market of the catalogue has more than five outcomes.
LEMMA OutcomesAreNumbered ==
  ASSUME NEW t \in DOMAIN CATALOGUE
  PROVE  DOMAIN CATALOGUE[t].outcomes \subseteq 1..5
<1>1. t \in 28..39
  BY DEF CATALOGUE
<1>2. CASE t \in 28..35
  BY <1>2 DEF CATALOGUE, Result, OverUnder, Scorers, CleanSheet, Margin, Def
<1>3. \A a, b : DOMAIN parlayGrid(a, b).outcomes = 1..4
  BY DEF parlayGrid, Def
<1>4. CASE t \in 36..39
  BY <1>3, <1>4 DEF CATALOGUE
<1> QED  BY <1>1, <1>2, <1>4

\* For any counts the keeper claims an outcome, and the oracle verifies it.
THEOREM ClaimVerifies ==
  ASSUME NEW t \in DOMAIN CATALOGUE, NEW v, Valuation(t, v),
         Len(v) = IF t < 36 THEN 2 ELSE 4
  PROVE  LET o == claimedOutcomeFor(CATALOGUE[t], v)
         IN  /\ o \in DOMAIN CATALOGUE[t].outcomes
             /\ o # NoClaim
             /\ evaluate_strategy(CATALOGUE[t].outcomes[o], v) = "true"
<1> DEFINE M == Matching(CATALOGUE[t], v)
<1>1. PICK o \in DOMAIN CATALOGUE[t].outcomes :
        \A q \in DOMAIN CATALOGUE[t].outcomes :
          AllHold(CATALOGUE[t].outcomes[q], v) <=> q = o
  BY CataloguePartitions DEF Partition
<1>2. M = {o}
  BY <1>1, MatchingHolds
<1>3. o \in 1..5
  BY OutcomesAreNumbered
<1>4. claimedOutcomeFor(CATALOGUE[t], v) = o
  BY <1>2, <1>3 DEF claimedOutcomeFor
<1>5. evaluate_strategy(CATALOGUE[t].outcomes[o], v) = "true"
  BY <1>1, CatalogueShapes, ShapesAreCovered DEF evaluate_strategy
<1> QED  BY <1>3, <1>4, <1>5 DEF NoClaim

-----------------------------------------------------------------------------
(* The validation of a spec counts what the oracle checks *)

\* The legs marked after each of the first m predicates.
Marking(g, outcome, n, m) ==
  g = [k \in 0..m |-> IF k = 0 THEN {} ELSE mark(outcome[k], g[k - 1], n)]

\* There is such a function, so the validation marks as one.
LEMMA MarkingExists ==
  ASSUME NEW outcome, NEW n, Len(outcome) \in Nat
  PROVE  \E g : Marked(outcome, n) = g[Len(outcome)] /\ Marking(g, outcome, n, Len(outcome))
<1> DEFINE D == {m \in Nat : \E g : Marking(g, outcome, n, m)}
           L == Len(outcome)
<1>1. 0 \in D
  <2> DEFINE g == [k \in 0..0 |-> {}]
  <2>1. Marking(g, outcome, n, 0)
    BY DEF Marking
  <2> QED  BY <2>1
<1>2. ASSUME NEW m \in Nat, m \in D
      PROVE  m + 1 \in D
  <2>1. PICK g : Marking(g, outcome, n, m)
    BY <1>2
  <2> DEFINE h == [k \in 0..(m + 1) |->
                     IF k = m + 1 THEN mark(outcome[m + 1], g[m], n) ELSE g[k]]
  <2>2. ASSUME NEW k \in 0..(m + 1)
        PROVE  h[k] = IF k = 0 THEN {} ELSE mark(outcome[k], h[k - 1], n)
    <3>1. CASE k = m + 1
      BY <3>1
    <3>2. CASE k \in 0..m
      <4>1. g[k] = IF k = 0 THEN {} ELSE mark(outcome[k], g[k - 1], n)
        BY <2>1, <3>2 DEF Marking
      <4> QED  BY <4>1, <3>2
    <3> QED  BY <3>1, <3>2
  <2>3. Marking(h, outcome, n, m + 1)
    <3> HIDE DEF h
    <3>1. h = [k \in 0..(m + 1) |-> h[k]]
      BY DEF h
    <3> QED  BY <3>1, <2>2 DEF Marking
  <2> QED  BY <2>3
<1>3. L \in D
  <2> HIDE DEF D
  <2> QED  BY <1>1, <1>2, Induction
<1> DEFINE f == CHOOSE g : g = [k \in 0..L |-> IF k = 0 THEN {}
                                             ELSE mark(outcome[k], g[k - 1], n)]
<1>4. Marked(outcome, n) = f[L]
  BY DEF Marked
<1>5. Marking(f, outcome, n, L)
  BY <1>3 DEF Marking
<1> HIDE DEF f
<1> QED  BY <1>4, <1>5

\* what a predicate reads.
ReadBy(p) == {p.reads[i] : i \in DOMAIN p.reads}

\* The k-th predicate reads legs there are, each once, and none read before.
Fresh(outcome, n, k) ==
  /\ ReadBy(outcome[k]) \subseteq 1..n
  /\ \A i, j \in DOMAIN outcome[k].reads :
       outcome[k].reads[i] = outcome[k].reads[j] => i = j
  /\ \A j \in 1..(k - 1) : ReadBy(outcome[k]) \cap ReadBy(outcome[j]) = {}

ReadUpTo(outcome, k) == UNION {ReadBy(outcome[j]) : j \in 1..k}

\* What is marked is what was read, if nothing was refused so far.
LEMMA MarkedSoFar ==
  ASSUME NEW outcome, NEW n \in Nat, NEW L \in Nat, NEW g, Marking(g, outcome, n, L)
  PROVE  \A k \in 0..L :
           g[k] = IF \A j \in 1..k : Fresh(outcome, n, j)
                  THEN ReadUpTo(outcome, k) ELSE Refused
<1> DEFINE P(k) == g[k] = IF \A j \in 1..k : Fresh(outcome, n, j)
                          THEN ReadUpTo(outcome, k) ELSE Refused
           D == {k \in Nat : k <= L => P(k)}
<1>1. 0 \in D
  BY DEF Marking, ReadUpTo
<1>2. ASSUME NEW k \in Nat, k \in D
      PROVE  k + 1 \in D
  <2> SUFFICES ASSUME k + 1 <= L
               PROVE  P(k + 1)
    OBVIOUS
  <2> DEFINE p == outcome[k + 1]
  <2>1. P(k)
    BY <1>2
  <2>2. g[k + 1] = mark(p, g[k], n)
    <3>1. k + 1 \in 0..L /\ k + 1 # 0 /\ (k + 1) - 1 = k
      OBVIOUS
    <3>2. g[k + 1] = mark(outcome[k + 1], g[(k + 1) - 1], n)
      BY <3>1 DEF Marking
    <3> QED  BY <3>1, <3>2
  <2>3. CASE ~ \A j \in 1..k : Fresh(outcome, n, j)
    <3>1. g[k] = Refused
      BY <2>1, <2>3
    <3>2. g[k + 1] = Refused
      BY <2>2, <3>1 DEF mark
    <3>3. ~ \A j \in 1..(k + 1) : Fresh(outcome, n, j)
      BY <2>3
    <3> QED  BY <3>2, <3>3
  <2>4. CASE \A j \in 1..k : Fresh(outcome, n, j)
    <3>1. g[k] = ReadUpTo(outcome, k)
      BY <2>1, <2>4
    <3>2. g[k] # Refused
      <4>1. 0 \notin ReadUpTo(outcome, k)
        BY <2>4 DEF ReadUpTo, Fresh
      <4> QED  BY <3>1, <4>1 DEF Refused
    <3>3. ReadUpTo(outcome, k + 1) = ReadUpTo(outcome, k) \cup ReadBy(p)
      BY DEF ReadUpTo
    <3>4. Fresh(outcome, n, k + 1) <=>
            \A i \in DOMAIN p.reads :
              /\ p.reads[i] \in (1..n) \ g[k]
              /\ \A j \in DOMAIN p.reads : p.reads[i] = p.reads[j] => i = j
      <4>1. (\A j \in 1..k : ReadBy(p) \cap ReadBy(outcome[j]) = {})
              <=> \A i \in DOMAIN p.reads : p.reads[i] \notin ReadUpTo(outcome, k)
        <5> HIDE DEF p
        <5>1. (\A j \in 1..k : ReadBy(p) \cap ReadBy(outcome[j]) = {})
                <=> \A x \in ReadBy(p) : x \notin ReadUpTo(outcome, k)
          BY DEF ReadUpTo
        <5> QED  BY <5>1 DEF ReadBy
      <4>2. ReadBy(p) \subseteq 1..n <=> \A i \in DOMAIN p.reads : p.reads[i] \in 1..n
        <5> HIDE DEF p
        <5> QED  BY DEF ReadBy
      <4>3. 1..(k + 1 - 1) = 1..k
        OBVIOUS
      <4> QED  BY <3>1, <4>1, <4>2, <4>3 DEF Fresh
    <3>5. (\A j \in 1..(k + 1) : Fresh(outcome, n, j)) <=> Fresh(outcome, n, k + 1)
      BY <2>4
    <3>6. g[k + 1] = IF Fresh(outcome, n, k + 1)
                     THEN g[k] \cup ReadBy(p) ELSE Refused
      <4> HIDE DEF p
      <4> QED  BY <2>2, <3>2, <3>4 DEF mark, ReadBy
    <3> QED  BY <3>1, <3>3, <3>5, <3>6
  <2> QED  BY <2>3, <2>4
<1>3. \A k \in Nat : k \in D
  <2> HIDE DEF D
  <2> QED  BY <1>1, <1>2, Induction
<1> QED  BY <1>3

\* No two places of the outcome read the same leg.
ReadOnce(outcome) ==
  \A r, s \in Reads(outcome) : LegAt(outcome, r) = LegAt(outcome, s) => r = s

\* one or two legs, as the accounts hold them.
OneOrTwo(p) == DOMAIN p.reads \in {{1}, {1, 2}}

\* Every predicate finds its legs unmarked, and in range, exactly if none is read twice.
LEMMA FreshIsReadOnce ==
  ASSUME NEW outcome, NEW n \in Nat, Len(outcome) \in Nat,
         \A k \in 1..Len(outcome) : OneOrTwo(outcome[k])
  PROVE  (\A k \in 1..Len(outcome) : Fresh(outcome, n, k)) <=>
           /\ ReadOnce(outcome)
           /\ \A r \in Reads(outcome) : LegAt(outcome, r) \in 1..n
<1> DEFINE L == Len(outcome)
<1>0. \A k \in 1..L : DOMAIN outcome[k].reads \subseteq {1, 2}
  BY DEF OneOrTwo
<1>1. \A k \in 1..L : \A i \in DOMAIN outcome[k].reads :
        /\ <<k, i>> \in Reads(outcome)
        /\ LegAt(outcome, <<k, i>>) = outcome[k].reads[i]
  BY <1>0 DEF Reads, LegAt
<1>2. \A r \in Reads(outcome) :
        /\ r = <<r[1], r[2]>> /\ r[1] \in 1..L /\ r[2] \in DOMAIN outcome[r[1]].reads
        /\ LegAt(outcome, r) = outcome[r[1]].reads[r[2]]
        /\ LegAt(outcome, r) \in ReadBy(outcome[r[1]])
  BY DEF Reads, LegAt, ReadBy
<1>3. ASSUME \A k \in 1..L : Fresh(outcome, n, k)
      PROVE  /\ ReadOnce(outcome)
             /\ \A r \in Reads(outcome) : LegAt(outcome, r) \in 1..n
  <2>1. \A r \in Reads(outcome) : LegAt(outcome, r) \in 1..n
    BY <1>2, <1>3 DEF Fresh
  <2>2. ASSUME NEW r \in Reads(outcome), NEW s \in Reads(outcome),
               LegAt(outcome, r) = LegAt(outcome, s)
        PROVE  r = s
    <3>1. ~ (r[1] < s[1]) /\ ~ (s[1] < r[1])
      <4>1. \A j, k \in 1..L : j < k => ReadBy(outcome[k]) \cap ReadBy(outcome[j]) = {}
        <5> SUFFICES ASSUME NEW j \in 1..L, NEW k \in 1..L, j < k
                     PROVE  ReadBy(outcome[k]) \cap ReadBy(outcome[j]) = {}
          OBVIOUS
        <5>1. j \in 1..(k - 1) /\ Fresh(outcome, n, k)
          BY <1>3
        <5> QED  BY <5>1 DEF Fresh
      <4> QED  BY <1>2, <2>2, <4>1
    <3>2. r[1] = s[1]
      BY <1>2, <3>1
    <3>3. r[2] = s[2]
      BY <1>2, <1>3, <2>2, <3>2 DEF Fresh
    <3> QED  BY <1>2, <3>2, <3>3
  <2> QED  BY <2>1, <2>2 DEF ReadOnce
<1>4. ASSUME ReadOnce(outcome), \A r \in Reads(outcome) : LegAt(outcome, r) \in 1..n,
             NEW k \in 1..L
      PROVE  Fresh(outcome, n, k)
  <2>1. ReadBy(outcome[k]) \subseteq 1..n
    BY <1>1, <1>4 DEF ReadBy
  <2>2. ASSUME NEW i \in DOMAIN outcome[k].reads, NEW j \in DOMAIN outcome[k].reads,
               outcome[k].reads[i] = outcome[k].reads[j]
        PROVE  i = j
    <3>0. /\ <<k, i>> \in Reads(outcome) /\ <<k, j>> \in Reads(outcome)
          /\ LegAt(outcome, <<k, i>>) = LegAt(outcome, <<k, j>>)
      BY <1>1, <2>2
    <3>1. <<k, i>> = <<k, j>>
      BY <1>4, <3>0 DEF ReadOnce
    <3> QED  BY <3>1
  <2>3. ASSUME NEW j \in 1..(k - 1), NEW x \in ReadBy(outcome[k]), x \in ReadBy(outcome[j])
        PROVE  FALSE
    <3>1. PICK a \in DOMAIN outcome[k].reads : x = outcome[k].reads[a]
      BY DEF ReadBy
    <3>2. PICK b \in DOMAIN outcome[j].reads : x = outcome[j].reads[b]
      BY <2>3 DEF ReadBy
    <3>3. j \in 1..L /\ j # k
      OBVIOUS
    <3>4. /\ <<k, a>> \in Reads(outcome) /\ <<j, b>> \in Reads(outcome)
          /\ LegAt(outcome, <<k, a>>) = LegAt(outcome, <<j, b>>)
      <4>1. /\ <<k, a>> \in Reads(outcome) /\ LegAt(outcome, <<k, a>>) = x
        BY <1>1, <3>1
      <4>2. /\ <<j, b>> \in Reads(outcome) /\ LegAt(outcome, <<j, b>>) = x
        BY <1>1, <3>2, <3>3
      <4> QED  BY <4>1, <4>2
    <3>5. <<k, a>> = <<j, b>>
      BY <1>4, <3>4 DEF ReadOnce
    <3> QED  BY <3>3, <3>5
  <2> QED  BY <2>1, <2>2, <2>3 DEF Fresh
<1> QED  BY <1>3, <1>4

\* The legs the program marks are all of them, each once, iff the oracle finds the
\* outcome covered.
THEOREM ValidationIsCoverage ==
  ASSUME NEW outcome, NEW n \in Nat \ {0}, Len(outcome) \in Nat,
         \A k \in 1..Len(outcome) : OneOrTwo(outcome[k])
  PROVE  Marked(outcome, n) = 1..n <=> CoveredOnce(outcome, n)
<1> DEFINE L == Len(outcome)
<1>1. PICK g : Marked(outcome, n) = g[L] /\ Marking(g, outcome, n, L)
  BY MarkingExists
<1>2. Marked(outcome, n) = IF \A k \in 1..L : Fresh(outcome, n, k)
                           THEN ReadUpTo(outcome, L) ELSE Refused
  <2>1. \A k \in 0..L : g[k] = IF \A j \in 1..k : Fresh(outcome, n, j)
                               THEN ReadUpTo(outcome, k) ELSE Refused
    <3>1. Marking(g, outcome, n, L) /\ L \in Nat /\ n \in Nat
      BY <1>1
    <3> HIDE DEF L
    <3> QED  BY <3>1, MarkedSoFar
  <2>2. L \in 0..L
    OBVIOUS
  <2> QED  BY <1>1, <2>1, <2>2
<1>3. Refused # 1..n
  BY DEF Refused
<1>4. ReadUpTo(outcome, L) = {LegAt(outcome, r) : r \in Reads(outcome)}
  <2>1. ASSUME NEW x \in ReadUpTo(outcome, L)
        PROVE  \E r \in Reads(outcome) : x = LegAt(outcome, r)
    <3>1. PICK k \in 1..L : x \in ReadBy(outcome[k])
      BY DEF ReadUpTo
    <3>2. PICK i \in DOMAIN outcome[k].reads : x = outcome[k].reads[i]
      BY <3>1 DEF ReadBy
    <3>3. <<k, i>> \in Reads(outcome)
      BY DEF Reads, OneOrTwo
    <3>4. x = LegAt(outcome, <<k, i>>)
      BY <3>2 DEF LegAt
    <3> QED  BY <3>3, <3>4
  <2>2. ASSUME NEW r \in Reads(outcome)
        PROVE  LegAt(outcome, r) \in ReadUpTo(outcome, L)
    <3>1. r[1] \in 1..L /\ LegAt(outcome, r) \in ReadBy(outcome[r[1]])
      BY DEF Reads, LegAt, ReadBy
    <3> QED  BY <3>1 DEF ReadUpTo
  <2> QED  BY <2>1, <2>2
<1>5. Marked(outcome, n) = 1..n <=>
        /\ ReadOnce(outcome)
        /\ \A r \in Reads(outcome) : LegAt(outcome, r) \in 1..n
        /\ {LegAt(outcome, r) : r \in Reads(outcome)} = 1..n
  BY <1>2, <1>3, <1>4, FreshIsReadOnce
<1>6. CoveredOnce(outcome, n) <=>
        /\ ReadOnce(outcome)
        /\ \A r \in Reads(outcome) : LegAt(outcome, r) \in 1..n
        /\ {LegAt(outcome, r) : r \in Reads(outcome)} = 1..n
  <2>1. ASSUME CoveredOnce(outcome, n)
        PROVE  /\ ReadOnce(outcome)
               /\ \A r \in Reads(outcome) : LegAt(outcome, r) \in 1..n
               /\ {LegAt(outcome, r) : r \in Reads(outcome)} = 1..n
    <3>1. \A r \in Reads(outcome) : LegAt(outcome, r) \in 1..n
      BY <2>1 DEF CoveredOnce
    <3>2. \A l \in 1..n : \E r \in Reads(outcome) : LegAt(outcome, r) = l
      BY <2>1 DEF CoveredOnce
    <3>3. ReadOnce(outcome)
      BY <2>1, <3>1 DEF CoveredOnce, ReadOnce
    <3> QED  BY <3>1, <3>2, <3>3
  <2>2. ASSUME ReadOnce(outcome),
               \A r \in Reads(outcome) : LegAt(outcome, r) \in 1..n,
               {LegAt(outcome, r) : r \in Reads(outcome)} = 1..n
        PROVE  CoveredOnce(outcome, n)
    <3>1. \A l \in 1..n : \E r \in Reads(outcome) : LegAt(outcome, r) = l
      BY <2>2
    <3> QED  BY <2>2, <3>1 DEF CoveredOnce, ReadOnce
  <2> QED  BY <2>1, <2>2
<1> QED  BY <1>5, <1>6

\* A predicate reads one leg or two, and numbers them from one.
LEMMA PredicateReads ==
  ASSUME NEW p \in Predicate
  PROVE  OneOrTwo(p) /\ \A i \in DOMAIN p.reads : p.reads[i] \in Nat \ {0}
<1>1. p.reads \in Seq(Nat \ {0}) /\ Len(p.reads) \in {1, 2}
  BY DEF Predicate
<1>2. DOMAIN p.reads = 1..Len(p.reads) /\ 1..1 = {1} /\ 1..2 = {1, 2}
  BY <1>1
<1>3. OneOrTwo(p)
  BY <1>1, <1>2 DEF OneOrTwo
<1>4. \A i \in 1..Len(p.reads) : p.reads[i] \in Nat \ {0}
  BY <1>1
<1> QED  BY <1>2, <1>3, <1>4

\* What the program accepts is what the oracle does not reject.
LEMMA ValidOutcome ==
  ASSUME NEW outcome \in Seq(Predicate), NEW n \in Nat \ {0}
  PROVE  outcome # <<>> /\ Marked(outcome, n) = 1..n <=> CoveredOnce(outcome, n)
<1>1. Len(outcome) \in Nat /\ \A k \in 1..Len(outcome) : OneOrTwo(outcome[k])
  BY PredicateReads
<1>2. Marked(outcome, n) = 1..n <=> CoveredOnce(outcome, n)
  BY <1>1, ValidationIsCoverage
<1>3. CoveredOnce(outcome, n) => outcome # <<>>
  <2> SUFFICES ASSUME CoveredOnce(outcome, n), outcome = <<>>
               PROVE  FALSE
    OBVIOUS
  <2>1. 1 \in 1..n
    OBVIOUS
  <2>2. PICK r \in Reads(outcome) : LegAt(outcome, r) = 1
    BY <2>1 DEF CoveredOnce
  <2>3. r[1] \in 1..Len(outcome) /\ Len(outcome) = 0
    BY DEF Reads
  <2> QED  BY <2>3
<1> QED  BY <1>2, <1>3

\* An outcome has finitely many reads.
LEMMA ReadsAreFinite ==
  ASSUME NEW outcome, Len(outcome) \in Nat
  PROVE  IsFiniteSet(Reads(outcome))
<1>1. 1 \in Int /\ 2 \in Int /\ Len(outcome) \in Int
  OBVIOUS
<1>5. IsFiniteSet(1..Len(outcome)) /\ IsFiniteSet(1..2)
  BY <1>1, FS_Interval
<1>2. {1, 2} = 1..2
  OBVIOUS
<1>3. IsFiniteSet((1..Len(outcome)) \X {1, 2})
  BY <1>2, <1>5, FS_Product
<1>4. Reads(outcome) \in SUBSET ((1..Len(outcome)) \X {1, 2})
  BY DEF Reads
<1> QED  BY <1>3, <1>4, FS_Subset

\* The builder of the SDK counts the same.
LEMMA BuilderCounts ==
  ASSUME NEW outcome \in Seq(Predicate), NEW n \in Nat
  PROVE  assertCoverage(n, outcome) <=> CoveredOnce(outcome, n)
<1> DEFINE S(i) == {r \in Reads(outcome) : LegAt(outcome, r) = i}
<1>1. \A r \in Reads(outcome) : LegAt(outcome, r) \in Nat \ {0}
  <2> SUFFICES ASSUME NEW r \in Reads(outcome)
               PROVE  LegAt(outcome, r) \in Nat \ {0}
    OBVIOUS
  <2>1. outcome[r[1]] \in Predicate /\ r[2] \in DOMAIN outcome[r[1]].reads
    BY DEF Reads
  <2> QED  BY <2>1, PredicateReads DEF LegAt
<1>2. ASSUME NEW i
      PROVE  Cardinality(S(i)) = 1 <=>
               \E r \in Reads(outcome) :
                 /\ LegAt(outcome, r) = i
                 /\ \A s \in Reads(outcome) : LegAt(outcome, s) = i => s = r
  <2>1. IsFiniteSet(Reads(outcome)) /\ S(i) \in SUBSET Reads(outcome)
    BY ReadsAreFinite
  <2>2. IsFiniteSet(S(i))
    BY <2>1, FS_Subset
  <2>3. Cardinality(S(i)) = 1 <=> \E r : S(i) = {r}
    BY <2>2, FS_Singleton
  <2>4. ASSUME NEW r
        PROVE  S(i) = {r} <=>
                 /\ r \in Reads(outcome) /\ LegAt(outcome, r) = i
                 /\ \A s \in Reads(outcome) : LegAt(outcome, s) = i => s = r
    OBVIOUS
  <2> QED  BY <2>3, <2>4
<1>3. (\A r \in Reads(outcome) : LegAt(outcome, r) <= n)
        <=> \A r \in Reads(outcome) : LegAt(outcome, r) \in 1..n
  BY <1>1
<1>4. (\A i \in 1..n : Cardinality(S(i)) = 1) <=>
        \A i \in 1..n :
          \E r \in Reads(outcome) :
            /\ LegAt(outcome, r) = i
            /\ \A s \in Reads(outcome) : LegAt(outcome, s) = i => s = r
  <2> HIDE DEF S
  <2> QED  BY <1>2
<1> QED  BY <1>3, <1>4 DEF assertCoverage, CoveredOnce

\* An outcome of one of the shapes marks all of its legs.
LEMMA ShapesAreValid ==
  ASSUME NEW outcome, NEW n, Shape(outcome, n)
  PROVE  outcome # <<>> /\ Marked(outcome, n) = 1..n
<1>1. n \in Nat \ {0} /\ Len(outcome) \in Nat /\ outcome # <<>>
  BY DEF Shape
<1>2. \A k \in 1..Len(outcome) : OneOrTwo(outcome[k])
  <2>1. \A p : p.reads \in {<<1>>, <<2>>, <<1, 2>>, <<3, 4>>} => OneOrTwo(p)
    <3>1. DOMAIN <<1, 2>> = {1, 2} /\ DOMAIN <<1>> = {1} /\ DOMAIN <<2>> = {1}
            /\ DOMAIN <<3, 4>> = {1, 2}
      OBVIOUS
    <3> QED  BY <3>1 DEF OneOrTwo
  <2>2. \A k \in 1..Len(outcome) : outcome[k].reads \in {<<1>>, <<2>>, <<1, 2>>, <<3, 4>>}
    <3>1. CASE DOMAIN outcome = 1..1 /\ Len(outcome) = 1 /\ outcome[1].reads = <<1, 2>>
      BY <3>1
    <3>2. CASE /\ DOMAIN outcome = 1..2 /\ Len(outcome) = 2
               /\ outcome[1].reads = <<1>> /\ outcome[2].reads = <<2>>
      BY <3>2
    <3>3. CASE /\ DOMAIN outcome = 1..2 /\ Len(outcome) = 2
               /\ outcome[1].reads = <<1, 2>> /\ outcome[2].reads = <<3, 4>>
      BY <3>3
    <3> QED  BY <3>1, <3>2, <3>3 DEF Shape
  <2> QED  BY <2>1, <2>2
<1> QED  BY <1>1, <1>2, ShapesAreCovered, ValidationIsCoverage

\* How many legs the markets of the catalogue have.
LEMMA CatalogueLegs ==
  ASSUME NEW t \in DOMAIN CATALOGUE
  PROVE  Len(CATALOGUE[t].legs) = IF t < 36 THEN 2 ELSE 4
<1>1. t \in 28..39
  BY DEF CATALOGUE
<1>2. Len(Goals) = 2 /\ Len(Corners) = 2 /\ Len(Yellows) = 2 /\ Len(HalfTime) = 2
  BY DEF Goals, Corners, Yellows, HalfTime
<1>3. CASE t \in 28..35
  <2>1. CATALOGUE[t].legs \in {Goals, Corners, Yellows, HalfTime}
    BY <1>3 DEF CATALOGUE, Result, OverUnder, Scorers, CleanSheet, Margin, Def
  <2>2. Len(CATALOGUE[t].legs) = 2
    BY <1>2, <2>1, Zenon
  <2> QED  BY <1>3, <2>2
<1>4. CASE t \in 36..39
  <2>1. Len(Goals \o Corners) = 4 /\ Len(Corners \o Yellows) = 4 /\ Len(Goals \o Yellows) = 4
    BY DEF Goals, Corners, Yellows
  <2> QED  BY <1>4, <2>1, ParlayLegs
<1> QED  BY <1>1, <1>3, <1>4

\* They have no more outcomes than a spec has room for.
LEMMA OutcomesAreFew ==
  ASSUME NEW t \in DOMAIN CATALOGUE
  PROVE  Len(CATALOGUE[t].outcomes) \in 2..12
<1>1. t \in 28..39
  BY DEF CATALOGUE
<1>2. CASE t \in 28..35
  BY <1>2 DEF CATALOGUE, Result, OverUnder, Scorers, CleanSheet, Margin, Def
<1>3. \A a, b : Len(parlayGrid(a, b).outcomes) = 4
  BY DEF parlayGrid, Def
<1>4. CASE t \in 36..39
  BY <1>3, <1>4 DEF CATALOGUE
<1> QED  BY <1>1, <1>2, <1>4

\* The check the keeper runs when it imports the catalogue passes.
THEOREM CataloguePasses == assertCatalogue
<1> SUFFICES ASSUME NEW t \in DOMAIN CATALOGUE
             PROVE  /\ Len(CATALOGUE[t].outcomes) \in 2..12
                    /\ validate(CATALOGUE[t].legs, CATALOGUE[t].outcomes)
  BY DEF assertCatalogue
<1>1. Len(CATALOGUE[t].legs) = IF t < 36 THEN 2 ELSE 4
  BY CatalogueLegs
<1>2. \A o \in DOMAIN CATALOGUE[t].outcomes :
        /\ CATALOGUE[t].outcomes[o] # <<>>
        /\ Marked(CATALOGUE[t].outcomes[o], Len(CATALOGUE[t].legs))
             = 1..Len(CATALOGUE[t].legs)
  BY <1>1, CatalogueShapes, ShapesAreValid
<1>3. Len(CATALOGUE[t].legs) \in 1..MAX_LEGS
  BY <1>1 DEF MAX_LEGS
<1> QED  BY <1>2, <1>3, OutcomesAreFew DEF validate

-----------------------------------------------------------------------------
(* The settler *)

\* Every leg is a statistic that a proof covers.
LEMMA StatKeysProven ==
  ASSUME NEW t \in DOMAIN CATALOGUE, NEW i \in DOMAIN CATALOGUE[t].legs
  PROVE  CATALOGUE[t].legs[i] \in StatKeys
<1>1. t \in 28..39
  BY DEF CATALOGUE
<1>2. CASE t \in 28..35
  <2>1. CATALOGUE[t].legs \in {Goals, Corners, Yellows, HalfTime}
    BY <1>2 DEF CATALOGUE, Result, OverUnder, Scorers, CleanSheet, Margin, Def
  <2> QED  BY <2>1 DEF Goals, Corners, Yellows, HalfTime, StatKeys
<1>3. CASE t \in 36..39
  <2>1. CATALOGUE[t].legs
          \in {Goals \o Corners, Corners \o Yellows, Goals \o Yellows}
    BY <1>3, ParlayLegs
  <2> QED  BY <2>1 DEF Goals, Corners, Yellows, StatKeys
<1> QED  BY <1>1, <1>2, <1>3

\* The proof says a count of each leg.
LEMMA ProvenValues ==
  ASSUME NEW t \in DOMAIN CATALOGUE, final \in Finals
  PROVE  /\ Valuation(t, Values(t))
         /\ Len(Values(t)) = IF t < 36 THEN 2 ELSE 4
<1>1. t \in 28..39 /\ t \in DOMAIN CATALOGUE
  BY DEF CATALOGUE
<1>2. final \in [StatKeys -> Nat]
  BY FinalsAssumption
<1>3. \A i \in DOMAIN CATALOGUE[t].legs : Values(t)[i] \in Nat
  BY <1>1, <1>2, StatKeysProven DEF Values
<1>4. DOMAIN Values(t) = 1..(IF t < 36 THEN 2 ELSE 4)
  <2>1. DOMAIN Values(t) = DOMAIN CATALOGUE[t].legs
    BY DEF Values
  <2>2. CASE t < 36
    <3>1. t \in 28..35
      BY <1>1, <2>2
    <3> QED  BY <2>1, <2>2, <3>1, GoalsOfTwo
  <2>3. CASE ~(t < 36)
    <3>1. t \in 36..39
      BY <1>1, <2>3
    <3> QED  BY <2>1, <2>3, <3>1, ParlayOfFour
  <2> QED  BY <2>2, <2>3
<1>5. Values(t) \in [1..(IF t < 36 THEN 2 ELSE 4) -> Nat]
  BY <1>3, <1>4 DEF Values
<1>6. Values(t) \in Seq(Nat)
  BY <1>1, <1>5
<1> QED  BY <1>1, <1>3, <1>4, <1>6 DEF Valuation

\* The state in which a transaction of the settler has resolved a market.
OwnedBy(t) == status[t] \in Resolutions /\ sender[t] = "keeper"

\* What the walk knows of the market it is at, several awaits after it looked.
BackoffInBudget ==
  walk.pc = "backoff" => walk.n < MaxAttempts /\ walk.reply = "waiting"

StakesSeen ==
  \/ walk.pc = "status" /\ walk.reply = "open" /\ ~walk.zero
  \/ walk.pc = "proof" /\ walk.saw = "open" /\ ~walk.zero
  \/ walk.pc = "lock"

SettledSeen == walk.pc = "after" \/ (walk.pc = "settle" /\ walk.reply = "ok")

SettlerInv ==
  /\ TypeOK
  /\ DOMAIN unstaked = Types
  /\ walk.pc \in Calls \cup {"backoff"} => walk.at \in Types
  /\ BackoffInBudget
  /\ StakesSeen => unstaked[walk.at] = {}
  /\ SettledSeen => OwnedBy(walk.at)
  /\ \A t \in Types : announced[t] => OwnedBy(t)

\* At the start the settler remembers nothing.
LEMMA InitSettler == Init => SettlerInv
<1> SUFFICES ASSUME Init  PROVE SettlerInv
  OBVIOUS
<1>1. TypeOK
  <2>1. walk \in [pc : {"idle", "next", "backoff"} \cup Calls,
                  at : Types \cup {NoType}, todo : SUBSET Types,
                  n : 0..MaxAttempts, reply : Replies,
                  saw : Statuses, zero : BOOLEAN]
    BY SettlerBounds DEF Init, NoWalk, Statuses, Calls, Replies
  <2>2. \A t \in Types : unstaked[t] \subseteq OutcomesOf(t)
    BY DEF Init
  <2>3. /\ status \in [Types -> Statuses]
        /\ sender \in [Types -> {"nobody", "keeper", "stranger"}]
        /\ announced \in [Types -> BOOLEAN]
    BY DEF Init, Statuses
  <2> QED  BY <2>1, <2>2, <2>3 DEF Init, TypeOK
<1>2. DOMAIN unstaked = Types
  BY DEF Init
<1> QED  BY <1>1, <1>2 DEF Init, SettlerInv, NoWalk, Calls, BackoffInBudget,
             StakesSeen, SettledSeen

\* A resolution is final, so a market the settler resolved stays its own.
LEMMA MarketsMove ==
  ASSUME SettlerInv, NEW t \in Types, Bet(t) \/ Stranger(t)
  PROVE  SettlerInv'
<1> USE DEF SettlerInv
<1>1. CASE Bet(t)
  <2>1. UNCHANGED <<world, status, sender, started, walk, cache, announced, losses>>
    BY <1>1 DEF Bet
  <2>2. PICK o \in unstaked[t] : unstaked' = [unstaked EXCEPT ![t] = @ \ {o}]
    BY <1>1 DEF Bet
  <2>3. /\ DOMAIN unstaked' = Types
        /\ \A u \in Types : unstaked'[u] \subseteq unstaked[u]
    BY <2>2
  <2>4. TypeOK'
    BY <2>1, <2>3 DEF TypeOK, world
  <2>5. (StakesSeen => unstaked[walk.at] = {})'
    BY <2>1, <2>3 DEF StakesSeen, Calls
  <2> QED  BY <2>1, <2>3, <2>4, <2>5
           DEF BackoffInBudget, SettledSeen, OwnedBy
<1>2. CASE Stranger(t)
  <2>1. UNCHANGED <<world, unstaked, started, walk, cache, announced, losses>>
    BY <1>2 DEF Stranger, Lock, Settle, Resolve
  <2>2. /\ status[t] \in {"open", "locked"}
        /\ \/ status' = [status EXCEPT ![t] = "locked"] /\ UNCHANGED sender
           \/ \E st \in Resolutions :
                 /\ status' = [status EXCEPT ![t] = st]
                 /\ sender' = [sender EXCEPT ![t] = "stranger"]
    BY <1>2 DEF Stranger, Lock, Settle, Resolve, CanLock, CanSettle, Resolutions
  <2>3. /\ status' \in [Types -> Statuses]
        /\ sender' \in [Types -> {"nobody", "keeper", "stranger"}]
    BY <2>2 DEF TypeOK, Statuses
  <2>4. TypeOK'
    BY <2>1, <2>3 DEF TypeOK, world
  <2>5. \A u \in Types : OwnedBy(u) => OwnedBy(u)'
    BY <2>2 DEF OwnedBy, TypeOK, Resolutions
  <2> QED  BY <2>1, <2>4, <2>5
           DEF BackoffInBudget, StakesSeen, SettledSeen, Calls
<1> QED  BY <1>1, <1>2

WalkType == [pc : {"idle", "next", "backoff"} \cup Calls,
             at : Types \cup {NoType}, todo : SUBSET Types,
             n : 0..MaxAttempts, reply : Replies, saw : Statuses, zero : BOOLEAN]

\* An answer to a call: the transaction of the settler resolves the market, or
\* nobody's resolution is touched.
LEMMA AnswerKeeps ==
  ASSUME SettlerInv, Answer
  PROVE  SettlerInv'
<1> DEFINE t == walk.at
<1> USE DEF SettlerInv
<1>1. /\ t \in Types /\ walk.pc \in Calls /\ walk.reply = "waiting"
      /\ walk \in WalkType
      /\ UNCHANGED <<world, started, cache, announced>>
  BY DEF Answer, TypeOK, WalkType
<1>2. losses' \in Nat /\ UNCHANGED unstaked
  BY DEF Answer, AnswerRead, AnswerProof, AnswerLock, AnswerSettle, Confirmed,
         Loses, Lock, Settle, Resolve, markets, TypeOK
<1>3. CASE AnswerRead(t)
  <2>1. UNCHANGED markets
    BY <1>3 DEF AnswerRead
  <2>2. walk' \in WalkType
    BY <1>1, <1>3 DEF AnswerRead, WalkType, TypeOK, Replies
  <2>3. walk'.pc = walk.pc /\ walk'.at = t /\ walk'.n = walk.n
    BY <1>1, <1>3 DEF AnswerRead, WalkType
  <2>4. /\ walk'.reply = status[t] /\ walk'.saw = walk.saw
        /\ walk.pc \in {"read", "status", "after"}
        /\ walk.pc = "status" => (walk'.zero <=> unstaked[t] # {})
    BY <1>1, <1>3 DEF AnswerRead, WalkType
  <2>5. TypeOK'
    BY <1>1, <1>2, <2>1, <2>2 DEF TypeOK, WalkType, world, markets
  <2>6. (StakesSeen => unstaked[walk.at] = {})'
    BY <1>2, <2>3, <2>4 DEF StakesSeen
  <2>7. (SettledSeen => OwnedBy(walk.at))'
    <3>1. OwnedBy(walk.at) => OwnedBy(walk.at)'
      BY <2>1, <2>3 DEF OwnedBy, markets
    <3>2. SettledSeen' => SettledSeen
      BY <2>3, <2>4 DEF SettledSeen
    <3> QED  BY <3>1, <3>2
  <2>8. \A u \in Types : announced'[u] => OwnedBy(u)'
    BY <1>1, <2>1 DEF OwnedBy, markets
  <2> QED  BY <1>1, <1>2, <2>3, <2>5, <2>6, <2>7, <2>8 DEF BackoffInBudget, Calls
<1>4. CASE /\ ~AnswerRead(t)
           /\ UNCHANGED markets
           /\ \E reply \in Replies \ ({"ok"} \cup Statuses) : Replied(reply)
  <2>1. /\ walk' \in WalkType /\ walk'.reply \notin {"ok", "open"}
        /\ walk'.pc = walk.pc /\ walk'.at = t /\ walk'.n = walk.n
        /\ walk'.saw = walk.saw /\ walk'.zero = walk.zero
    BY <1>1, <1>4 DEF Replied, WalkType, Statuses
  <2>2. TypeOK'
    BY <1>1, <1>2, <1>4, <2>1 DEF TypeOK, WalkType, world, markets
  <2> QED  BY <1>1, <1>2, <1>4, <2>1, <2>2
           DEF BackoffInBudget, StakesSeen, SettledSeen, OwnedBy, markets, Calls
<1>5. CASE AnswerProof
  <2>1. /\ walk' \in WalkType /\ walk'.reply = "ok" /\ walk.pc = "proof"
        /\ walk'.pc = walk.pc /\ walk'.at = t /\ walk'.n = walk.n
        /\ walk'.saw = walk.saw /\ walk'.zero = walk.zero
        /\ UNCHANGED markets
    BY <1>1, <1>5 DEF AnswerProof, Replied, WalkType, Replies
  <2>2. TypeOK'
    BY <1>1, <1>2, <2>1 DEF TypeOK, WalkType, world, markets
  <2> QED  BY <1>1, <1>2, <2>1, <2>2
           DEF BackoffInBudget, StakesSeen, SettledSeen, OwnedBy, markets, Calls
<1>6. CASE walk.pc = "lock" /\ CanLock(t) /\ Lock(t) /\ Confirmed
  <2>1. /\ walk' \in WalkType /\ walk'.reply \in {"ok", "lost"}
        /\ walk'.pc = walk.pc /\ walk'.at = t /\ walk'.n = walk.n
    BY <1>1, <1>6 DEF Confirmed, Replied, WalkType, Replies
  <2>2. /\ status[t] = "open" /\ status' = [status EXCEPT ![t] = "locked"]
        /\ UNCHANGED sender
    BY <1>6 DEF CanLock, Lock
  <2>3. TypeOK'
    BY <1>1, <1>2, <2>1, <2>2 DEF TypeOK, WalkType, world, Statuses
  <2>4. \A u \in Types : OwnedBy(u) => OwnedBy(u)'
    BY <2>2 DEF OwnedBy, TypeOK, Resolutions
  <2> QED  BY <1>1, <1>2, <1>6, <2>1, <2>3, <2>4
           DEF BackoffInBudget, StakesSeen, SettledSeen, Calls
<1>7. CASE /\ walk.pc = "settle" /\ CanSettle(t, Claimed(t))
           /\ Settle(t, Claimed(t), "keeper") /\ Confirmed
  <2>1. /\ walk' \in WalkType /\ walk'.reply \in {"ok", "lost"}
        /\ walk'.pc = walk.pc /\ walk'.at = t /\ walk'.n = walk.n
    BY <1>1, <1>7 DEF Confirmed, Replied, WalkType, Replies
  <2>2. /\ status[t] = "locked"
        /\ \E st \in Resolutions : status' = [status EXCEPT ![t] = st]
        /\ sender' = [sender EXCEPT ![t] = "keeper"]
    BY <1>7 DEF CanSettle, Settle, Resolve, Resolutions
  <2>3. TypeOK'
    BY <1>1, <1>2, <2>1, <2>2 DEF TypeOK, WalkType, world, Statuses
  <2>4. OwnedBy(t)' /\ \A u \in Types : OwnedBy(u) => OwnedBy(u)'
    BY <1>1, <2>1, <2>2 DEF OwnedBy, TypeOK, Resolutions
  <2> QED  BY <1>1, <1>2, <1>7, <2>1, <2>3, <2>4
           DEF BackoffInBudget, StakesSeen, SettledSeen, Calls
<1> QED
  <2>1. CASE AnswerLock(t)
    BY <1>4, <1>6, <2>1 DEF AnswerLock, AnswerRead, Replies, Statuses, Resolutions
  <2>2. CASE AnswerSettle(t, Claimed(t))
    BY <1>4, <1>7, <2>2 DEF AnswerSettle, AnswerRead, Replies, Statuses, Resolutions
  <2>3. CASE Replied("fault") /\ Loses /\ UNCHANGED markets
    BY <1>3, <1>4, <2>3 DEF Replies, Statuses, Resolutions
  <2> QED  BY <1>3, <1>5, <2>1, <2>2, <2>3 DEF Answer

\* The steps of the walk leave the markets alone.
LEMMA Gone ==
  ASSUME SettlerInv, UNCHANGED <<world, markets, started, losses>>,
         walk' \in WalkType, walk'.pc \in {"idle", "next"},
         cache' \subseteq {CATALOGUE[t].legs : t \in Types},
         announced' \in [Types -> BOOLEAN],
         \A t \in Types : announced'[t] => OwnedBy(t)
  PROVE  SettlerInv'
BY DEF SettlerInv, TypeOK, WalkType, world, markets, BackoffInBudget, StakesSeen,
       SettledSeen, OwnedBy, Calls

\* the same, for a step to another await on the same market.
LEMMA Resumed ==
  ASSUME SettlerInv, UNCHANGED <<world, markets, started, losses, announced>>,
         walk.at \in Types, walk' \in WalkType, walk'.at = walk.at,
         walk'.pc \in {"backoff", "status", "proof", "lock", "settle", "after"},
         walk'.reply = "waiting",
         walk'.pc = "backoff" => walk'.n < MaxAttempts,
         \/ walk'.pc = "proof" /\ (walk'.saw = "open" /\ ~walk'.zero
                                     => unstaked[walk.at] = {})
         \/ walk'.pc = "lock" /\ unstaked[walk.at] = {}
         \/ walk'.pc = "after" /\ OwnedBy(walk.at)
         \/ walk'.pc \in {"backoff", "status", "settle"},
         cache' \subseteq {CATALOGUE[t].legs : t \in Types}
  PROVE  SettlerInv'
<1>1. TypeOK'
  BY DEF SettlerInv, TypeOK, WalkType, world, markets
<1>2. (StakesSeen => unstaked[walk.at] = {})'
  BY DEF StakesSeen, markets
<1>3. (SettledSeen => OwnedBy(walk.at))'
  BY DEF SettledSeen, OwnedBy, markets
<1>4. \A t \in Types : announced'[t] => OwnedBy(t)'
  BY DEF SettlerInv, OwnedBy, markets
<1> QED  BY <1>1, <1>2, <1>3, <1>4 DEF SettlerInv, BackoffInBudget, markets

\* A walk that has not begun, or is over, is one, and so are its counters.
LEMMA NoWalkType == NoWalk \in WalkType /\ 0 \in 0..MaxAttempts /\ 1 \in 0..MaxAttempts
<1>1. 0 \in 0..MaxAttempts /\ 1 \in 0..MaxAttempts
  BY SettlerBounds
<1> QED  BY <1>1 DEF NoWalk, WalkType, Calls, Statuses, Replies

\* the walk goes on with the next market.
LEMMA DoneGoes ==
  ASSUME SettlerInv, UNCHANGED <<world, markets, started, losses, announced>>, Done,
         cache' \subseteq {CATALOGUE[t].legs : t \in Types}
  PROVE  SettlerInv'
<1>1. walk' \in WalkType /\ walk'.pc = "next"
  <2>1. walk \in WalkType
    BY DEF SettlerInv, TypeOK, WalkType
  <2> QED  BY <2>1, NoWalkType DEF Done, WalkType
<1> QED  BY <1>1, Gone DEF SettlerInv, TypeOK

\* A failed attempt is repeated after a pause, or given up.
LEMMA RetryGoes ==
  ASSUME SettlerInv, UNCHANGED <<world, markets, started, losses, announced>>, Retry,
         walk.pc \in Calls, cache' \subseteq {CATALOGUE[t].legs : t \in Types}
  PROVE  SettlerInv'
<1>1. CASE walk.n >= MaxAttempts
  BY <1>1, DoneGoes DEF Retry
<1>2. CASE ~(walk.n >= MaxAttempts) /\ Goto("backoff")
  <2>1. walk \in WalkType /\ walk.at \in Types
    BY DEF SettlerInv, TypeOK, WalkType
  <2>2. /\ walk' \in WalkType /\ walk'.at = walk.at /\ walk'.pc = "backoff"
        /\ walk'.reply = "waiting" /\ walk'.n = walk.n
    BY <1>2, <2>1 DEF Goto, Await, WalkType, Statuses, Replies
  <2>3. walk'.n < MaxAttempts
    BY <1>2, <2>1, <2>2, SettlerBounds DEF WalkType
  <2> QED  BY <2>1, <2>2, <2>3, Resumed
<1> QED  BY <1>1, <1>2 DEF Retry

\* What the settler decides after the proof rests on stakes that can only have grown since it looked.
LEMMA DecideGoes ==
  ASSUME SettlerInv, UNCHANGED <<world, markets, started, losses, announced>>,
         walk.pc \in Calls, NEW saw, NEW zero, Decide(saw, zero),
         saw = "open" /\ ~zero => unstaked[walk.at] = {},
         cache' \subseteq {CATALOGUE[t].legs : t \in Types}
  PROVE  SettlerInv'
<1>1. walk \in WalkType /\ walk.at \in Types
  BY DEF SettlerInv, TypeOK, WalkType
<1>2. CASE Retry
  BY <1>2, RetryGoes
<1>3. CASE Done
  BY <1>3, DoneGoes
<1>4. CASE saw = "open" /\ ~zero /\ Goto("lock")
  <2>1. /\ walk' \in WalkType /\ walk'.at = walk.at /\ walk'.pc = "lock"
        /\ walk'.reply = "waiting"
    BY <1>1, <1>4 DEF Goto, Await, WalkType, Statuses, Replies, Calls
  <2> QED  BY <1>1, <1>4, <2>1, Resumed
<1>5. CASE Goto("settle")
  <2>1. /\ walk' \in WalkType /\ walk'.at = walk.at /\ walk'.pc = "settle"
        /\ walk'.reply = "waiting"
    BY <1>1, <1>5 DEF Goto, Await, WalkType, Statuses, Replies, Calls
  <2> QED  BY <1>1, <2>1, Resumed
<1> QED  BY <1>2, <1>3, <1>4, <1>5 DEF Decide

\* One step per callback of the walk.
LEMMA StepKeeps ==
  ASSUME SettlerInv, Step
  PROVE  SettlerInv'
<1>1. /\ UNCHANGED <<world, markets, started, losses>>
      /\ walk \in WalkType
      /\ cache \subseteq {CATALOGUE[t].legs : t \in Types}
      /\ announced \in [Types -> BOOLEAN]
      /\ \A t \in Types : announced[t] => OwnedBy(t)
      /\ walk.pc \in Calls \cup {"backoff"} => walk.at \in Types
  BY DEF Step, SettlerInv, TypeOK, WalkType
<1>2. CASE Pick
  <2>1. PICK t \in walk.todo :
          walk' = [walk EXCEPT !.pc = "read", !.at = t, !.todo = @ \ {t}]
    BY <1>2 DEF Pick
  <2>2. t \in Types
    BY <1>1 DEF WalkType
  <2>3. /\ walk' \in WalkType /\ walk'.pc = "read" /\ walk'.at = t
        /\ UNCHANGED <<cache, announced>>
    BY <1>1, <1>2, <2>1, <2>2 DEF Pick, WalkType, Calls
  <2>4. TypeOK'
    BY <1>1, <2>3 DEF SettlerInv, TypeOK, WalkType, world, markets
  <2> QED  BY <1>1, <2>2, <2>3, <2>4 DEF SettlerInv, BackoffInBudget, StakesSeen,
                SettledSeen, OwnedBy, markets
<1>3. CASE AfterRead
  <2>1. UNCHANGED <<cache, announced>>
    BY <1>3 DEF AfterRead
  <2>2. CASE /\ Resumes("read", {"open", "locked"})
             /\ walk' = [walk EXCEPT !.pc = "status", !.reply = "waiting", !.n = 1]
    <3>1. /\ walk' \in WalkType /\ walk'.at = walk.at /\ walk'.pc = "status"
          /\ walk'.reply = "waiting" /\ walk.at \in Types
      BY <1>1, <2>2, NoWalkType DEF Resumes, WalkType, Calls, Replies
    <3> QED  BY <1>1, <2>1, <3>1, Resumed
  <2>3. CASE Done
    BY <1>1, <2>1, <2>3, DoneGoes
  <2> QED  BY <1>3, <2>2, <2>3 DEF AfterRead
<1>4. CASE Backoff
  <2>1. /\ walk' = [walk EXCEPT !.pc = "status", !.n = @ + 1]
        /\ walk.pc = "backoff" /\ walk.n < MaxAttempts
        /\ walk.reply = "waiting" /\ walk.at \in Types
        /\ UNCHANGED <<cache, announced>>
    BY <1>1, <1>4 DEF Backoff, SettlerInv, BackoffInBudget
  <2>2. /\ walk' \in WalkType /\ walk'.at = walk.at /\ walk'.pc = "status"
        /\ walk'.reply = "waiting"
    <3>1. walk.n + 1 \in 0..MaxAttempts
      BY <1>1, <2>1, SettlerBounds DEF WalkType
    <3> QED  BY <1>1, <2>1, <3>1 DEF WalkType, Calls
  <2> QED  BY <1>1, <2>1, <2>2, Resumed
<1>5. CASE AfterStatus
  <2>1. UNCHANGED <<cache, announced>> /\ walk.pc = "status" /\ walk.pc \in Calls
    BY <1>5 DEF AfterStatus, Resumes, Calls
  <2>2. CASE Done
    BY <1>1, <2>1, <2>2, DoneGoes
  <2>3. CASE Retry
    BY <1>1, <2>1, <2>3, RetryGoes
  <2>4. walk.reply = "open" /\ ~walk.zero => unstaked[walk.at] = {}
    BY <2>1 DEF SettlerInv, StakesSeen
  <2>5. CASE Decide(walk.reply, walk.zero)
    BY <1>1, <2>1, <2>4, <2>5, DecideGoes
  <2>6. CASE /\ Resumes("status", {"open", "locked"})
             /\ Await("proof", walk.reply, walk.zero)
    <3>1. /\ walk' \in WalkType /\ walk'.at = walk.at /\ walk'.pc = "proof"
          /\ walk'.reply = "waiting" /\ walk'.saw = walk.reply
          /\ walk'.zero = walk.zero /\ walk.at \in Types
      BY <1>1, <2>1, <2>6 DEF Resumes, Await, WalkType, Statuses, Replies, Calls
    <3> QED  BY <1>1, <2>1, <2>4, <3>1, Resumed
  <2> QED  BY <1>5, <2>2, <2>3, <2>5, <2>6 DEF AfterStatus
<1>6. CASE AfterProof
  <2>1. UNCHANGED announced /\ walk.pc = "proof" /\ walk.pc \in Calls
    BY <1>6 DEF AfterProof, Resumes, Calls
  <2>2. cache' \subseteq {CATALOGUE[t].legs : t \in Types}
    BY <1>1, <1>6, <2>1 DEF AfterProof
  <2>3. CASE Retry
    BY <1>1, <2>1, <2>2, <2>3, RetryGoes
  <2>4. CASE Decide(walk.saw, walk.zero)
    <3>1. walk.saw = "open" /\ ~walk.zero => unstaked[walk.at] = {}
      BY <2>1 DEF SettlerInv, StakesSeen
    <3> QED  BY <1>1, <2>1, <2>2, <2>4, <3>1, DecideGoes
  <2> QED  BY <1>6, <2>3, <2>4 DEF AfterProof
<1>7. CASE AfterLock
  <2>1. UNCHANGED <<cache, announced>> /\ walk.pc = "lock" /\ walk.pc \in Calls
    BY <1>7 DEF AfterLock, Resumes, Calls
  <2>2. CASE Done
    BY <1>1, <2>1, <2>2, DoneGoes
  <2>3. CASE Retry
    BY <1>1, <2>1, <2>3, RetryGoes
  <2>4. CASE Goto("settle")
    <3>1. /\ walk' \in WalkType /\ walk'.at = walk.at /\ walk'.pc = "settle"
          /\ walk'.reply = "waiting" /\ walk.at \in Types
      BY <1>1, <2>1, <2>4 DEF Goto, Await, WalkType, Statuses, Replies, Calls
    <3> QED  BY <1>1, <2>1, <3>1, Resumed
  <2> QED  BY <1>7, <2>2, <2>3, <2>4 DEF AfterLock
<1>8. CASE AfterSettle
  <2>1. UNCHANGED <<cache, announced>> /\ walk.pc = "settle" /\ walk.pc \in Calls
    BY <1>8 DEF AfterSettle, Resumes, Calls
  <2>2. CASE Done
    BY <1>1, <2>1, <2>2, DoneGoes
  <2>3. CASE Retry
    BY <1>1, <2>1, <2>3, RetryGoes
  <2>4. CASE Resumes("settle", {"ok"}) /\ Goto("after")
    <3>1. OwnedBy(walk.at)
      BY <2>4 DEF Resumes, SettlerInv, SettledSeen
    <3>2. /\ walk' \in WalkType /\ walk'.at = walk.at /\ walk'.pc = "after"
          /\ walk'.reply = "waiting" /\ walk.at \in Types
      BY <1>1, <2>1, <2>4 DEF Goto, Await, WalkType, Statuses, Replies, Calls
    <3> QED  BY <1>1, <2>1, <3>1, <3>2, Resumed
  <2> QED  BY <1>8, <2>2, <2>3, <2>4 DEF AfterSettle
<1>9. CASE AfterAfter
  <2>1. UNCHANGED cache /\ walk.pc = "after" /\ walk.at \in Types
          /\ walk.pc \in Calls
    BY <1>1, <1>9 DEF AfterAfter, Resumes, Calls
  <2>2. CASE announced' = [announced EXCEPT ![walk.at] = TRUE] /\ Done
    <3>1. OwnedBy(walk.at)
      BY <2>1 DEF SettlerInv, SettledSeen
    <3>2. walk' \in WalkType /\ walk'.pc = "next"
      BY <1>1, <2>2, NoWalkType DEF Done, WalkType
    <3> QED  BY <1>1, <2>1, <2>2, <3>1, <3>2, Gone
  <2>3. CASE Retry /\ UNCHANGED announced
    BY <1>1, <2>1, <2>3, RetryGoes
  <2> QED  BY <1>9, <2>2, <2>3 DEF AfterAfter
<1>10. CASE Finish
  <2>1. /\ walk' \in WalkType /\ walk'.pc = "idle" /\ cache' = {}
        /\ UNCHANGED announced
    BY <1>10, NoWalkType DEF Finish, NoWalk
  <2> QED  BY <1>1, <2>1, Gone
<1> QED  BY <1>2, <1>3, <1>4, <1>5, <1>6, <1>7, <1>8, <1>9, <1>10 DEF Step

\* Whatever interleaves, the settler's picture of the stakes and of its own
\* settlements stays right.
LEMMA NextSettler == SettlerInv /\ [Next]_vars => SettlerInv'
<1> SUFFICES ASSUME SettlerInv, [Next]_vars  PROVE SettlerInv'
  OBVIOUS
<1>1. CASE UNCHANGED vars
  BY <1>1 DEF vars, SettlerInv, TypeOK, BackoffInBudget, StakesSeen, SettledSeen,
              OwnedBy
<1>2. CASE \E t \in Types : Bet(t) \/ Stranger(t)
  BY <1>2, MarketsMove
<1>3. CASE Tick \/ Publish
  <2>1. /\ UNCHANGED <<final, markets, started, walk, cache, announced, losses>>
        /\ clock' \in Nat /\ published' \in BOOLEAN
    <3>1. clock \in Nat /\ published \in BOOLEAN
      BY DEF SettlerInv, TypeOK
    <3>2. CASE Tick
      BY <3>1, <3>2 DEF Tick, markets
    <3>3. CASE Publish
      BY <3>1, <3>3 DEF Publish, markets
    <3> QED  BY <1>3, <3>2, <3>3
  <2>2. TypeOK'
    BY <2>1 DEF SettlerInv, TypeOK, markets
  <2> QED  BY <2>1, <2>2 DEF SettlerInv, BackoffInBudget, StakesSeen, SettledSeen,
                OwnedBy, markets
<1>4. CASE Start
  <2>1. /\ UNCHANGED <<world, markets, cache, announced, losses>>
        /\ started' = "unsaved"
        /\ walk' = [NoWalk EXCEPT !.pc = "next", !.todo = Types]
    BY <1>4 DEF Start
  <2>2. walk' \in WalkType /\ walk'.pc = "next"
    BY <2>1, NoWalkType DEF WalkType
  <2>3. TypeOK'
    BY <2>1, <2>2 DEF SettlerInv, TypeOK, WalkType, world, markets
  <2> QED  BY <2>1, <2>2, <2>3 DEF SettlerInv, BackoffInBudget, StakesSeen,
                SettledSeen, OwnedBy, markets, Calls
<1>5. CASE Answer
  BY <1>5, AnswerKeeps
<1>6. CASE Step
  BY <1>6, StepKeeps
<1>7. CASE Save
  <2>1. /\ UNCHANGED <<world, markets, walk, cache, announced, losses>>
        /\ started' = "saved"
    BY <1>7 DEF Save
  <2>2. TypeOK'
    BY <2>1 DEF SettlerInv, TypeOK, world, markets
  <2> QED  BY <2>1, <2>2 DEF SettlerInv, BackoffInBudget, StakesSeen, SettledSeen,
                OwnedBy, markets
<1>8. CASE Crash
  <2>1. /\ UNCHANGED <<world, markets, announced>>
        /\ started' \in {"no", "saved"} /\ losses' \in Nat
        /\ walk' = NoWalk /\ cache' = {}
    BY <1>8 DEF Crash, Loses, SettlerInv, TypeOK
  <2>2. walk' \in WalkType /\ walk'.pc = "idle"
    BY <2>1, NoWalkType DEF NoWalk
  <2>3. TypeOK'
    BY <2>1, <2>2 DEF SettlerInv, TypeOK, WalkType, world, markets
  <2> QED  BY <2>1, <2>2, <2>3 DEF SettlerInv, BackoffInBudget, StakesSeen,
                SettledSeen, OwnedBy, markets, Calls
<1> QED  BY <1>1, <1>2, <1>3, <1>4, <1>5, <1>6, <1>7, <1>8 DEF Next

\* The inductive invariant of the walk.
THEOREM SettlerIsInvariant == Spec => []SettlerInv
BY InitSettler, NextSettler, PTL DEF Spec

\* Type correctness; in particular no market is attempted more than MaxAttempts
\* times in a walk.
THEOREM SettlerTypes == Spec => []TypeOK
<1>1. SettlerInv => TypeOK
  BY DEF SettlerInv
<1> QED  BY <1>1, SettlerIsInvariant, PTL

\* The settler locks a market only when every outcome is backed, although it
\* looked at the pools several awaits earlier.
THEOREM SettlerLocksStaked == Spec => []LocksOnlyStaked
<1>1. SettlerInv => LocksOnlyStaked
  BY DEF SettlerInv, LocksOnlyStaked, StakesSeen
<1> QED  BY <1>1, SettlerIsInvariant, PTL

\* A receipt is announced only for a market the settler's own transaction
\* resolved, however many others try to resolve it.
THEOREM SettlerOwnsReceipts == Spec => []ReceiptNamesTheResolver
<1>1. SettlerInv => ReceiptNamesTheResolver
  BY DEF SettlerInv, ReceiptNamesTheResolver, OwnedBy
<1> QED  BY <1>1, SettlerIsInvariant, PTL

\* What the settler claims the oracle verifies, for any final statistics.
THEOREM SettlerClaimsVerify == Spec => []ClaimsVerify
<1>1. SettlerInv => ClaimsVerify
  <2> SUFFICES ASSUME SettlerInv, walk.pc \in {"lock", "settle"}
               PROVE  /\ Claimed(walk.at) # NoClaim
                      /\ evaluate_strategy(CATALOGUE[walk.at].outcomes[Claimed(walk.at)],
                                           Values(walk.at)) = "true"
    BY DEF ClaimsVerify
  <2>1. walk.at \in DOMAIN CATALOGUE /\ final \in Finals
    BY CatalogueAssumption DEF SettlerInv, TypeOK, Calls
  <2> QED  BY <2>1, ProvenValues, ClaimVerifies DEF Claimed
<1> QED  BY <1>1, SettlerIsInvariant, PTL

\* Whatever the final statistics are, the markets under them are partitions.
LEMMA OneOutcomeHolds == SettlerInv => OneOutcomeIsTrue
<1> SUFFICES ASSUME SettlerInv, NEW t \in DOMAIN CATALOGUE
             PROVE  Partition(CATALOGUE[t], {Values(t)})
  BY DEF OneOutcomeIsTrue
<1>1. final \in Finals
  BY DEF SettlerInv, TypeOK
<1> QED  BY <1>1, ProvenValues, CataloguePartitions

\* Of every market one outcome is provable, and only one, for any statistics.
THEOREM OneOutcomeAlways == Spec => []OneOutcomeIsTrue
BY OneOutcomeHolds, SettlerIsInvariant, PTL

\* At most as many legs of some statistics as a spec may have.
LEMMA SomeLegsLength ==
  ASSUME NEW n \in 1..MAX_LEGS
  PROVE  Len(SomeLegs(n)) = n
<1>1. (Goals \o Yellows \o HalfTime) \in Seq(Nat) /\ Len(Goals \o Yellows \o HalfTime) = 6
  BY DEF Goals, Yellows, HalfTime
<1>2. n \in 1..5
  BY DEF MAX_LEGS
<1> QED  BY <1>1, <1>2 DEF SomeLegs

\* Whatever outcome somebody tries to create a spec with: the program accepts it
\* iff the oracle will not reject it, iff the SDK's builder lets it through.
THEOREM SpecsSettle == Spec => []SpecsAreSettleable
<1>1. SettlerInv => SpecsAreSettleable
  <2> SUFFICES ASSUME SettlerInv, NEW outcome \in Shapes, NEW n \in 1..MAX_LEGS
               PROVE  LET values == [i \in 1..n |-> final[SomeLegs(n)[i]]]
                      IN  /\ validate(SomeLegs(n), <<outcome>>)
                            <=> evaluate_strategy(outcome, values) # "error"
                          /\ validate(SomeLegs(n), <<outcome>>) <=> assertCoverage(n, outcome)
    BY CataloguePasses, OneOutcomeHolds DEF SpecsAreSettleable
  <2> DEFINE values == [i \in 1..n |-> final[SomeLegs(n)[i]]]
  <2>1. outcome \in Seq(Predicate) /\ n \in Nat \ {0} /\ Len(SomeLegs(n)) = n
    <3>1. n \in Nat \ {0}
      BY DEF MAX_LEGS
    <3>2. outcome \in Seq(Predicate)
      BY ShapesAssumption
    <3> QED  BY <3>1, <3>2, SomeLegsLength
  <2>2. validate(SomeLegs(n), <<outcome>>) <=> CoveredOnce(outcome, n)
    <3>1. DOMAIN <<outcome>> = {1} /\ <<outcome>>[1] = outcome
      OBVIOUS
    <3>2. validate(SomeLegs(n), <<outcome>>) <=>
            outcome # <<>> /\ Marked(outcome, n) = 1..n
      BY <2>1, <3>1 DEF validate
    <3> QED  BY <2>1, <3>2, ValidOutcome
  <2>3. Len(values) = n
    OBVIOUS
  <2>4. evaluate_strategy(outcome, values) # "error" <=> CoveredOnce(outcome, n)
    BY <2>3 DEF evaluate_strategy
  <2>5. assertCoverage(n, outcome) <=> CoveredOnce(outcome, n)
    BY <2>1, BuilderCounts
  <2> QED  BY <2>2, <2>4, <2>5
<1> QED  BY <1>1, SettlerIsInvariant, PTL

-----------------------------------------------------------------------------
(* The verifiers *)

\* Of finitely many records one is the newest.
LEMMA Newest ==
  ASSUME NEW S, IsFiniteSet(S), S # {}, \A r \in S : r.seq \in Nat
  PROVE  \E r \in S : \A q \in S : q.seq <= r.seq
<1> DEFINE Has(T) == \E r \in T : \A q \in T : q.seq <= r.seq
           D == {n \in Nat : \A T \in SUBSET S : Cardinality(T) = n /\ T # {} => Has(T)}
<1>1. \A T \in SUBSET S : IsFiniteSet(T) /\ Cardinality(T) \in Nat
  BY FS_Subset, FS_CardinalityType
<1>2. 0 \in D
  <2> SUFFICES ASSUME NEW T \in SUBSET S, Cardinality(T) = 0, T # {}
               PROVE  FALSE
    OBVIOUS
  <2> QED  BY <1>1, FS_EmptySet
<1>3. ASSUME NEW n \in Nat, n \in D
      PROVE  n + 1 \in D
  <2> SUFFICES ASSUME NEW T \in SUBSET S, Cardinality(T) = n + 1, T # {}
               PROVE  Has(T)
    OBVIOUS
  <2>1. PICK r \in T : TRUE
    OBVIOUS
  <2>2. T \ {r} \in SUBSET S /\ Cardinality(T \ {r}) = n
    <3>1. IsFiniteSet(T)
      BY <1>1
    <3>2. Cardinality(T \ {r}) = Cardinality(T) - 1
      BY <2>1, <3>1, FS_RemoveElement
    <3> QED  BY <3>2
  <2>3. CASE T \ {r} = {}
    BY <2>1, <2>3
  <2>4. CASE T \ {r} # {}
    <3>1. PICK x \in T \ {r} : \A q \in T \ {r} : q.seq <= x.seq
      BY <1>3, <2>2, <2>4
    <3>2. x \in T /\ x.seq \in Nat /\ r.seq \in Nat /\ \A q \in T : q.seq \in Nat
      OBVIOUS
    <3>3. CASE r.seq <= x.seq
      <4>1. \A q \in T : q.seq <= x.seq
        BY <3>1, <3>3
      <4> QED  BY <3>2, <4>1
    <3>4. CASE x.seq < r.seq
      <4>1. \A q \in T : q.seq <= r.seq
        BY <3>1, <3>2, <3>4
      <4> QED  BY <2>1, <4>1
    <3> QED  BY <3>2, <3>3, <3>4
  <2> QED  BY <2>3, <2>4
<1>4. \A n \in Nat : n \in D
  <2> HIDE DEF D
  <2> QED  BY <1>2, <1>3, Induction
<1> QED  BY <1>1, <1>4

\* What the verifiers take from TxLINE is a record it committed to.
LEMMA FoundIsRecorded ==
  ASSUME NEW w \in Worlds, w.retained # {}
  PROVE  findSeq(w.retained) \in w.retained /\ findSeq(w.retained) \in w.ever
<1> DEFINE finals == {r \in w.retained : r.final}
           pool   == IF finals = {} THEN w.retained ELSE finals
<1>1. IsFiniteSet(w.ever) /\ w.retained \subseteq w.ever /\ \A r \in w.ever : r.seq \in Nat
  BY WorldsAssumption
<1>2. pool \in SUBSET w.ever /\ pool # {} /\ pool \subseteq w.retained
  BY <1>1
<1>3. IsFiniteSet(pool) /\ \A r \in pool : r.seq \in Nat
  BY <1>1, <1>2, FS_Subset
<1>4. \E r \in pool : \A q \in pool : q.seq <= r.seq
  <2> HIDE DEF pool
  <2> QED  BY <1>2, <1>3, Newest
<1>5. findSeq(w.retained) = CHOOSE r \in pool : \A q \in pool : q.seq <= r.seq
  BY DEF findSeq
<1>6. findSeq(w.retained) \in pool
  <2> HIDE DEF pool
  <2> QED  BY <1>4, <1>5
<1> QED  BY <1>1, <1>2, <1>6

\* And the newest final one, as long as the final ones are retained.
LEMMA FoundIsFinal ==
  ASSUME NEW w \in Worlds, FinalIsRetained(w), NEW r \in w.ever,
         r.final, \A q \in w.ever : q.final => q.seq <= r.seq
  PROVE  w.retained # {} /\ findSeq(w.retained) = r
<1> DEFINE finals == {q \in w.retained : q.final}
<1>1. r \in w.retained /\ r \in finals /\ finals \subseteq w.ever
  BY WorldsAssumption DEF FinalIsRetained
<1>2. findSeq(w.retained) = CHOOSE x \in finals : \A q \in finals : q.seq <= x.seq
  BY <1>1 DEF findSeq
<1>3. \A q \in finals : q.seq <= r.seq
  BY <1>1
<1>4. \A x \in finals : (\A q \in finals : q.seq <= x.seq) => x = r
  <2> SUFFICES ASSUME NEW x \in finals, \A q \in finals : q.seq <= x.seq
               PROVE  x = r
    OBVIOUS
  <2>1. x \in w.ever /\ x.seq \in Nat /\ r.seq \in Nat
    BY <1>1, WorldsAssumption
  <2>2. r.seq <= x.seq /\ x.seq <= r.seq
    BY <1>1, <1>3
  <2>3. x.seq = r.seq
    BY <2>1, <2>2
  <2> QED  BY <2>1, <2>3, WorldsAssumption
<1>5. findSeq(w.retained) = r
  <2> HIDE DEF finals
  <2> QED  BY <1>1, <1>2, <1>3, <1>4
<1> QED  BY <1>1, <1>5

-----------------------------------------------------------------------------

\* A comparison of two statistics reads each of them once.
LEMMA PairIsCovered ==
  ASSUME NEW op, NEW c, NEW line
  PROVE  CoveredOnce(<<binary(1, 2, op, c, line)>>, 2)
<1> DEFINE outcome == <<binary(1, 2, op, c, line)>>
<1>1. Reads(outcome) = {<<1, 1>>, <<1, 2>>}
  BY DEF Reads, binary
<1>2. LegAt(outcome, <<1, 1>>) = 1 /\ LegAt(outcome, <<1, 2>>) = 2
  BY DEF LegAt, binary
<1> QED  BY <1>1, <1>2 DEF CoveredOnce

\* A predicate on a single statistic reads that one.
LEMMA SingleIsCovered ==
  ASSUME NEW c, NEW line
  PROVE  CoveredOnce(<<single(1, c, line)>>, 1)
<1> DEFINE outcome == <<single(1, c, line)>>
<1>1. Reads(outcome) = {<<1, 1>>}
  BY DEF Reads, single
<1>2. LegAt(outcome, <<1, 1>>) = 1
  BY DEF LegAt, single
<1> QED  BY <1>1, <1>2 DEF CoveredOnce

\* The question of a market can be put to the oracle.
LEMMA QuestionIsCovered ==
  ASSUME NEW m \in Settlements, Question(m) # Unread
  PROVE  /\ Question(m).legs \in Seq(StatKeys)
         /\ Len(Question(m).legs) \in 1..MAX_LEGS
         /\ CoveredOnce(Question(m).outcome, Len(Question(m).legs))
<1>1. CASE m.type < 16
  <2> DEFINE spec == m.specs[m.winning]
  <2>1. spec.legs \in Seq(StatKeys) /\ Len(spec.legs) \in {1, 2}
    BY <1>1, SettlementsAssumption
  <2>2. /\ Question(m).legs = spec.legs
        /\ Question(m).outcome =
             <<IF Len(spec.legs) = 2
               THEN binary(1, 2, spec.op, spec.comparison, spec.threshold)
               ELSE single(1, spec.comparison, spec.threshold)>>
    BY <1>1 DEF Question, strategyFromLegacy
  <2>3. Len(spec.legs) \in 1..MAX_LEGS
    BY <2>1 DEF MAX_LEGS
  <2> HIDE DEF spec
  <2>4. CASE Len(spec.legs) = 2
    BY <2>1, <2>2, <2>3, <2>4, PairIsCovered
  <2>5. CASE Len(spec.legs) = 1
    BY <2>1, <2>2, <2>3, <2>5, SingleIsCovered
  <2> QED  BY <2>1, <2>4, <2>5
<1>2. CASE ~ (m.type < 16)
  <2>1. m.combo # NoCombo /\ Question(m) = strategyFromCombo(m.combo, m.winning)
    BY <1>2 DEF Question
  <2>2. /\ m.combo.legs \in Seq(StatKeys)
        /\ m.combo.outcomes[m.winning] \in Seq(Predicate)
        /\ validate(m.combo.legs, m.combo.outcomes)
        /\ m.winning \in DOMAIN m.combo.outcomes
    BY <1>2, <2>1, SettlementsAssumption
  <2>3. /\ Question(m).legs = m.combo.legs
        /\ Question(m).outcome = m.combo.outcomes[m.winning]
    BY <2>1 DEF strategyFromCombo
  <2>4. /\ Len(m.combo.legs) \in 1..MAX_LEGS
        /\ m.combo.outcomes[m.winning] # <<>>
        /\ Marked(m.combo.outcomes[m.winning], Len(m.combo.legs)) = 1..Len(m.combo.legs)
    BY <2>2 DEF validate
  <2>5. Len(m.combo.legs) \in Nat \ {0}
    <3>1. \A n : n \in 1..MAX_LEGS => n \in Nat \ {0}
      BY DEF MAX_LEGS
    <3> QED  BY <2>4, <3>1
  <2> QED  BY <2>2, <2>3, <2>4, <2>5, ValidOutcome
<1> QED  BY <1>1, <1>2

\* A record has one count per leg that is asked for.
LEMMA ValuesAreCounts ==
  ASSUME NEW w \in Worlds, NEW r \in w.ever, NEW keys \in Seq(StatKeys)
  PROVE  ValuesAt(r, keys) \in [1..Len(keys) -> Nat] /\ Len(ValuesAt(r, keys)) = Len(keys)
<1>1. r.stats \in [StatKeys -> Nat]
  BY WorldsAssumption
<1>2. DOMAIN keys = 1..Len(keys) /\ Len(keys) \in Nat /\ \A i \in 1..Len(keys) : keys[i] \in StatKeys
  OBVIOUS
<1>3. ValuesAt(r, keys) \in [1..Len(keys) -> Nat]
  <2> HIDE DEF StatKeys
  <2> QED  BY <1>1, <1>2 DEF ValuesAt
<1> QED  BY <1>2, <1>3 DEF ValuesAt

-----------------------------------------------------------------------------
(* What the verifiers look at, and when each of them is satisfied *)

Reply(w, m) == StatValidation(findSeq(w.retained), Question(m).legs)

Answers(w) == w.up = {"rpc", "scores", "proofs"} /\ w.retained # {}

Shows(w, m) == validateStatV3(w, Question(m), Reply(w, m), dailyRootsPda(Reply(w, m).day)) = "true"

\* The settlement is there and TxLINE's program confirms it.
Sees(w, m) ==
  m.status = "settled" /\ Question(m) # Unread /\ Answers(w) /\ Shows(w, m)

\* Page, SDK, script and audit fetch the same record, or each notices that there is none.
LEMMA Fetching ==
  ASSUME NEW w \in Worlds, NEW m \in Settlements, Question(m) # Unread, "rpc" \in w.up
  PROVE  /\ fetchProofV3(w, Question(m).legs) = IF Answers(w) THEN {Reply(w, m)} ELSE {}
         /\ FetchedProof(w, Question(m)) = IF Answers(w) THEN Reply(w, m) ELSE NoReply
         /\ auditProof(w, Question(m)) = IF Answers(w) THEN {Reply(w, m)} ELSE {}
         /\ Answers(w) => Reply(w, m) # NoReply
<1>1. Answers(w) <=> "scores" \in w.up /\ "proofs" \in w.up /\ w.retained # {}
  BY WorldsAssumption DEF Answers
<1>2. Len(Question(m).legs) \in 1..MAX_LEGS
  BY QuestionIsCovered
<1>3. findFinalisedSeq(w) = IF "scores" \in w.up /\ w.retained # {}
                            THEN {findSeq(w.retained)} ELSE {}
  BY DEF findFinalisedSeq
<1>4. fetchProofV3(w, Question(m).legs) = IF Answers(w) THEN {Reply(w, m)} ELSE {}
  <2>1. CASE Answers(w)
    BY <1>1, <1>2, <1>3, <2>1 DEF fetchProofV3, Reply
  <2>2. CASE ~ Answers(w)
    BY <1>1, <1>2, <1>3, <2>2 DEF fetchProofV3
  <2> QED  BY <2>1, <2>2
<1>5. FetchedProof(w, Question(m)) = IF Answers(w) THEN Reply(w, m) ELSE NoReply
  BY <1>1 DEF FetchedProof, Reply
<1>6. auditProof(w, Question(m)) = IF Answers(w) THEN {Reply(w, m)} ELSE {}
  BY <1>1, <1>3, <1>4 DEF auditProof
<1>7. Answers(w) => Reply(w, m) # NoReply
  <2> SUFFICES ASSUME Answers(w)
               PROVE  Reply(w, m).seq # NoReply.seq
    OBVIOUS
  <2>1. findSeq(w.retained) \in w.ever
    BY FoundIsRecorded DEF Answers
  <2>2. findSeq(w.retained).seq \in Nat
    BY <2>1, WorldsAssumption
  <2> QED  BY <2>2 DEF Reply, StatValidation, NoReply
<1> QED  BY <1>4, <1>5, <1>6, <1>7

\* What the oracle affirms is of a reply that the root at this address attests.
LEMMA ShownIsPublished ==
  ASSUME NEW w, NEW q, NEW reply, NEW address, validateStatV3(w, q, reply, address) = "true"
  PROVE  /\ "rpc" \in w.up /\ w.roots[address] = TXORACLE
         /\ dailyRootsPda(reply.day) = address
         /\ Authentic(w, q, reply, address)
         /\ CoveredOnce(q.outcome, Len(reply.values)) /\ AllHold(q.outcome, reply.values)
BY DEF validateStatV3, evaluate_strategy

\* The SDK is satisfied by exactly what is to be seen.
LEMMA SdkSees ==
  ASSUME NEW w \in Worlds, NEW m \in Settlements
  PROVE  verifySettlement(w, m, FALSE) = "verified" <=> Sees(w, m)
<1>1. CASE "rpc" \notin w.up \/ m.status # "settled"
  BY <1>1 DEF verifySettlement, Sees, Answers
<1>2. CASE "rpc" \in w.up /\ m.status = "settled" /\ Question(m) = Unread
  BY <1>2 DEF verifySettlement, Sees
<1>3. CASE "rpc" \in w.up /\ m.status = "settled" /\ Question(m) # Unread
  <2> DEFINE q == Question(m)
             P == {p \in fetchProofV3(w, q.legs) : w.roots[dailyRootsPda(p.day)] = TXORACLE}
  <2>1. verifySettlement(w, m, FALSE) = "verified" <=> verifyProof(w, q, FALSE) = {TRUE}
    <3>1. {TRUE} # {}
      OBVIOUS
    <3> QED  BY <1>3, <3>1 DEF verifySettlement
  <2>2. verifyProof(w, q, FALSE) =
          {validateStatV3(w, q, reply, dailyRootsPda(reply.day)) = "true" : reply \in P}
    BY DEF verifyProof
  <2>3. CASE Sees(w, m)
    <3>0. w.roots[dailyRootsPda(Reply(w, m).day)] = TXORACLE
      BY <2>3, ShownIsPublished DEF Sees, Shows
    <3>1. P = {Reply(w, m)}
      BY <1>3, <2>3, <3>0, Fetching DEF Sees
    <3>2. verifyProof(w, q, FALSE) = {Shows(w, m)}
      BY <2>2, <3>1 DEF Shows
    <3> QED  BY <2>1, <2>3, <3>2 DEF Sees
  <2>4. CASE ~ Answers(w)
    <3>1. P = {}
      BY <1>3, <2>4, Fetching
    <3>2. verifyProof(w, q, FALSE) = {}
      BY <2>2, <3>1
    <3> QED  BY <2>1, <2>4, <3>2 DEF Sees
  <2>5. CASE Answers(w) /\ ~ Shows(w, m)
    <3>1. P \subseteq {Reply(w, m)}
      BY <1>3, <2>5, Fetching
    <3>2. TRUE \notin verifyProof(w, q, FALSE)
      BY <2>2, <2>5, <3>1 DEF Shows
    <3> QED  BY <2>1, <2>5, <3>2 DEF Sees
  <2> QED  BY <1>3, <2>3, <2>4, <2>5 DEF Sees
<1> QED  BY <1>1, <1>2, <1>3

\* The page also wants the root to be an account of TxLINE.
LEMMA PageSees ==
  ASSUME NEW w \in Worlds, NEW m \in Settlements
  PROVE  webVerify(w, m, FALSE) = "verified" <=> Sees(w, m) /\ RootIsTxlines(w, m)
<1>1. CASE "rpc" \notin w.up \/ m.status # "settled" \/ Question(m) = Unread
  BY <1>1 DEF webVerify, Sees, Answers
<1>2. CASE "rpc" \in w.up /\ m.status = "settled" /\ Question(m) # Unread
  BY <1>2, Fetching DEF webVerify, webVerdict, Sees, Shows
<1> QED  BY <1>1, <1>2

\* The audit also wants the root of the market's day.
LEMMA AuditSees ==
  ASSUME NEW w \in Worlds, NEW m \in Settlements
  PROVE  auditedLive(w, m) <=> Sees(w, m) /\ dailyRootsPda(m.day) = m.roots
<1>1. ChainAgrees(m, Row(m)) <=> m.status = "settled" /\ dailyRootsPda(m.day) = m.roots
  BY SettlementsAssumption DEF ChainAgrees, Row
<1>2. CASE "rpc" \notin w.up \/ ~ ChainAgrees(m, Row(m)) \/ Question(m) = Unread
  BY <1>1, <1>2 DEF auditedLive, audited, auditVerdict, Sees, Answers
<1>3. CASE "rpc" \in w.up /\ ChainAgrees(m, Row(m)) /\ Question(m) # Unread
  BY <1>1, <1>3, Fetching
     DEF auditedLive, audited, auditVerdict, verifyWithOracle, Sees, Shows
<1> QED  BY <1>2, <1>3

\* A reply that was tampered with is the reply, but for one more in its first value.
LEMMA TamperedReply ==
  ASSUME NEW x, NEW keys
  PROVE  /\ Tampered(StatValidation(x, keys)).seq = x.seq
         /\ Tampered(StatValidation(x, keys)).values =
              [ValuesAt(x, keys) EXCEPT ![1] = ValuesAt(x, keys)[1] + 1]
BY DEF Tampered, StatValidation

\* A changed value is no value of the record.
LEMMA TamperingShows ==
  ASSUME NEW w \in Worlds, NEW m \in Settlements, Question(m) # Unread, Answers(w),
         NEW address
  PROVE  validateStatV3(w, Question(m), Tampered(Reply(w, m)), address) # "true"
<1> SUFFICES ASSUME validateStatV3(w, Question(m), Tampered(Reply(w, m)), address) = "true"
             PROVE  FALSE
  OBVIOUS
<1> DEFINE x == findSeq(w.retained)
           keys == Question(m).legs
<1>1. x \in w.ever
  BY FoundIsRecorded DEF Answers
<1>2. keys \in Seq(StatKeys) /\ 1 \in 1..Len(keys)
  BY QuestionIsCovered
<1>3. ValuesAt(x, keys) \in [1..Len(keys) -> Nat]
  BY <1>1, <1>2, ValuesAreCounts
<1> HIDE DEF x, keys
<1>4. /\ Tampered(Reply(w, m)).seq = x.seq
      /\ Tampered(Reply(w, m)).values = [ValuesAt(x, keys) EXCEPT ![1] = ValuesAt(x, keys)[1] + 1]
  <2>1. Reply(w, m) = StatValidation(x, keys)
    BY DEF Reply, x, keys
  <2> QED  BY <2>1, TamperedReply
<1>5. Authentic(w, Question(m), Tampered(Reply(w, m)), address)
  BY ShownIsPublished
<1>6. PICK r \in w.ever : r.seq = x.seq /\ ValuesAt(r, keys) = Tampered(Reply(w, m)).values
  BY <1>4, <1>5 DEF Authentic, keys
<1>7. r = x
  BY <1>1, <1>6, WorldsAssumption
<1>8. ValuesAt(x, keys)[1] = ValuesAt(x, keys)[1] + 1
  BY <1>2, <1>3, <1>4, <1>6, <1>7
<1> QED  BY <1>2, <1>3, <1>8

\* The receipt script wants TxLINE's account, and the root of the reply's day.
LEMMA ScriptSees ==
  ASSUME NEW w \in Worlds, NEW m \in Settlements
  PROVE  scriptVerify(w, m) <=>
           /\ Sees(w, m) /\ RootIsTxlines(w, m)
           /\ dailyRootsPda(Reply(w, m).day) = m.roots
<1>1. CASE "rpc" \notin w.up \/ m.status # "settled" \/ Question(m) = Unread \/ ~ Answers(w)
  BY <1>1, Fetching DEF scriptVerify, Sees, Answers
<1>2. CASE "rpc" \in w.up /\ m.status = "settled" /\ Question(m) # Unread /\ Answers(w)
  <2>1. scriptVerify(w, m) <=>
          /\ RootIsTxlines(w, m)
          /\ validateStatV3(w, Question(m), Reply(w, m), m.roots) = "true"
    BY <1>2, Fetching, TamperingShows DEF scriptVerify
  <2>2. validateStatV3(w, Question(m), Reply(w, m), m.roots) = "true" <=>
          Shows(w, m) /\ dailyRootsPda(Reply(w, m).day) = m.roots
    BY ShownIsPublished DEF Shows
  <2> QED  BY <1>2, <2>1, <2>2 DEF Sees
<1> QED  BY <1>1, <1>2

-----------------------------------------------------------------------------
(* The verdicts *)

\* Whoever says verified has seen a record that TxLINE committed to and that decides for the winner.
LEMMA ProvenVerdict ==
  ASSUME NEW w \in Worlds, NEW m \in Settlements
  PROVE  VerdictIsProven(w, m)
<1> SUFFICES ASSUME cmdVerify(w, m, FALSE) = 0
             PROVE  \E r \in w.ever : Settleable(m, r) /\ rootIsPublished(w, r.day)
  BY DEF VerdictIsProven
<1>1. Sees(w, m)
  <2>1. verifySettlement(w, m, FALSE) # "verified" => cmdVerify(w, m, FALSE) = 1
    BY Zenon DEF cmdVerify
  <2>2. verifySettlement(w, m, FALSE) = "verified"
    <3>1. 0 # 1
      OBVIOUS
    <3> QED  BY <2>1, <3>1, Zenon
  <2> QED  BY <2>2, SdkSees
<1>2. /\ Authentic(w, Question(m), Reply(w, m), dailyRootsPda(Reply(w, m).day))
      /\ w.roots[dailyRootsPda(Reply(w, m).day)] = TXORACLE
      /\ AllHold(Question(m).outcome, Reply(w, m).values)
  BY <1>1, ShownIsPublished DEF Sees, Shows
<1>3. PICK r \in w.ever : /\ dailyRootsPda(r.day) = dailyRootsPda(Reply(w, m).day)
                          /\ ValuesAt(r, Question(m).legs) = Reply(w, m).values
  BY <1>2 DEF Authentic
<1>4. Settleable(m, r) /\ rootIsPublished(w, r.day)
  BY <1>1, <1>2, <1>3 DEF Sees, Settleable, rootIsPublished
<1> QED  BY <1>4

\* None is more lenient than the SDK, nor the script than page and audit.
LEMMA Agreement ==
  ASSUME NEW w \in Worlds, NEW m \in Settlements
  PROVE  VerifiersAgree(w, m)
BY SdkSees, PageSees, AuditSees, ScriptSees DEF VerifiersAgree, RootIsTxlines

\* An honest settlement is shown by the record the verifiers take.
LEMMA HonestShows ==
  ASSUME NEW w \in Worlds, NEW m \in Settlements, Honest(w, m), FinalIsRetained(w)
  PROVE  /\ m.status = "settled" /\ Question(m) # Unread /\ RootIsTxlines(w, m)
         /\ w.up = {"rpc", "scores", "proofs"} =>
              Sees(w, m) /\ dailyRootsPda(Reply(w, m).day) = m.roots
<1>1. PICK r \in w.ever :
        /\ r.final /\ \A q \in w.ever : q.final => q.seq <= r.seq
        /\ Settleable(m, r)
        /\ m.day = r.day /\ RootIsTxlines(w, m)
  BY DEF Honest
<1>2. w.retained # {} /\ findSeq(w.retained) = r
  BY <1>1, FoundIsFinal
<1>3. Reply(w, m) = StatValidation(r, Question(m).legs)
  BY <1>2 DEF Reply
<1>4. /\ Reply(w, m).seq = r.seq /\ Reply(w, m).day = r.day
      /\ Reply(w, m).values = ValuesAt(r, Question(m).legs)
  BY <1>3 DEF StatValidation
<1>5. m.status = "settled" /\ Question(m) # Unread
        /\ AllHold(Question(m).outcome, Reply(w, m).values)
  BY <1>1, <1>4 DEF Settleable
<1>6. dailyRootsPda(Reply(w, m).day) = m.roots /\ w.roots[m.roots] = TXORACLE
  BY <1>1, <1>4 DEF RootIsTxlines
<1>7. Authentic(w, Question(m), Reply(w, m), m.roots)
  BY <1>4, <1>6 DEF Authentic
<1>8. CoveredOnce(Question(m).outcome, Len(Reply(w, m).values))
  BY <1>4, <1>5, QuestionIsCovered, ValuesAreCounts
<1>9. ASSUME w.up = {"rpc", "scores", "proofs"}
      PROVE  Sees(w, m)
  <2>1. evaluate_strategy(Question(m).outcome, Reply(w, m).values) = "true"
    BY <1>5, <1>8 DEF evaluate_strategy
  <2>2. Shows(w, m)
    BY <1>6, <1>7, <1>9, <2>1 DEF Shows, validateStatV3
  <2> QED  BY <1>2, <1>5, <1>9, <2>2 DEF Sees, Answers
<1> QED  BY <1>1, <1>5, <1>6, <1>9

\* An honest settlement whose final record is retained is verified by all of them.
LEMMA Honesty ==
  ASSUME NEW w \in Worlds, NEW m \in Settlements
  PROVE  HonestyIsSeen(w, m)
<1> SUFFICES ASSUME Honest(w, m), FinalIsRetained(w)
             PROVE  /\ w.up = {"rpc", "scores", "proofs"} =>
                         /\ webVerify(w, m, FALSE) = "verified"
                         /\ auditedLive(w, m) /\ scriptVerify(w, m)
                    /\ audited(w, m, "oracle succeeded") # "FAIL"
  BY DEF HonestyIsSeen
<1>1. /\ m.status = "settled" /\ Question(m) # Unread
      /\ RootIsTxlines(w, m) /\ dailyRootsPda(m.day) = m.roots
  BY HonestShows DEF RootIsTxlines
<1>2. ASSUME w.up = {"rpc", "scores", "proofs"}
      PROVE  /\ webVerify(w, m, FALSE) = "verified"
             /\ auditedLive(w, m) /\ scriptVerify(w, m)
  BY <1>1, <1>2, HonestShows, PageSees, AuditSees, ScriptSees
<1>3. CASE Answers(w)
  <2>1. auditedLive(w, m)
    BY <1>2, <1>3 DEF Answers
  <2> QED  BY <1>2, <2>1 DEF auditedLive
<1>4. CASE "rpc" \notin w.up
  BY <1>2, <1>4 DEF audited, auditVerdict
<1>5. CASE "rpc" \in w.up /\ ~ Answers(w)
  <2>1. ChainAgrees(m, Row(m))
    BY <1>1, SettlementsAssumption DEF ChainAgrees, Row
  <2>2. auditProof(w, Question(m)) = {}
    BY <1>1, <1>5, Fetching
  <2>3. audited(w, m, "oracle succeeded") = "VERIFIED_TX"
    BY <1>1, <1>5, <2>1, <2>2 DEF audited, auditVerdict, SettleTxShowsTheOracle
  <2> QED  BY <1>2, <2>3
<1> QED  BY <1>3, <1>4, <1>5

\* None of them verifies another winner, or tampered values.
LEMMA NoForgery ==
  ASSUME NEW w \in Worlds, NEW m \in Settlements
  PROVE  ForgeriesFail(w, m)
<1>1. webVerify(w, m, TRUE) # "verified"
  BY DEF webVerify, webVerdict
<1>2. verifySettlement(w, m, TRUE) # "verified"
  <2> SUFFICES ASSUME verifySettlement(w, m, TRUE) = "verified"
               PROVE  FALSE
    OBVIOUS
  <2>1. "rpc" \in w.up /\ Question(m) # Unread /\ verifyProof(w, Question(m), TRUE) = {TRUE}
    BY DEF verifySettlement
  <2>2. PICK reply \in fetchProofV3(w, Question(m).legs) :
          validateStatV3(w, Question(m), Tampered(reply), dailyRootsPda(reply.day)) = "true"
    BY <2>1 DEF verifyProof
  <2>3. Answers(w) /\ reply = Reply(w, m)
    BY <2>1, <2>2, Fetching
  <2> QED  BY <2>1, <2>2, <2>3, TamperingShows
<1> QED  BY <1>1, <1>2 DEF ForgeriesFail

\* What a receipt names is enough to verify the settlement.
LEMMA ReceiptSuffices ==
  ASSUME NEW w \in Worlds, NEW m \in Settlements
  PROVE  ReceiptIsEnough(w, m)
<1> DEFINE q == [legs |-> reconstructReceipt(m).legs, outcome |-> Question(m).outcome]
<1> SUFFICES ASSUME m.status = "settled", reconstructReceipt(m).legs # <<>>
             PROVE  Sees(w, m) <=> verifyReceipt(w, q) = "true"
  BY SdkSees DEF ReceiptIsEnough
<1>1. m.type >= 16 /\ reconstructReceipt(m).legs = m.combo.legs
  BY DEF reconstructReceipt
<1>2. m.combo # NoCombo /\ ~ (m.type < 16)
  BY <1>1, SettlementsAssumption DEF NoCombo
<1>3. Question(m) = [legs |-> m.combo.legs, outcome |-> m.combo.outcomes[m.winning]]
  BY <1>2 DEF Question, strategyFromCombo
<1>4. q = Question(m) /\ Question(m) # Unread
  BY <1>1, <1>3 DEF Unread
<1>5. CASE "rpc" \notin w.up
  <2>1. \A reply, address : validateStatV3(w, q, reply, address) = "error"
    BY <1>5 DEF validateStatV3
  <2> QED  BY <1>5, <2>1 DEF Sees, Answers, verifyReceipt, verifyWithOracle
<1>6. CASE "rpc" \in w.up /\ ~ Answers(w)
  BY <1>4, <1>6, Fetching DEF Sees, verifyReceipt
<1>7. CASE "rpc" \in w.up /\ Answers(w)
  <2>1. fetchProofV3(w, q.legs) = {Reply(w, m)}
    BY <1>4, <1>7, Fetching
  <2>2. (CHOOSE p \in fetchProofV3(w, q.legs) : TRUE) = Reply(w, m)
    BY <2>1
  <2>3. verifyReceipt(w, q) =
          IF ~ rootIsPublished(w, Reply(w, m).day) THEN "retry"
          ELSE verifyWithOracle(w, q, Reply(w, m))
    <3> HIDE DEF q
    <3> QED  BY <2>1, <2>2 DEF verifyReceipt
  <2>4. verifyWithOracle(w, q, Reply(w, m)) = "true" <=> Shows(w, m)
    BY <1>4 DEF verifyWithOracle, Shows
  <2>5. Shows(w, m) => rootIsPublished(w, Reply(w, m).day)
    BY ShownIsPublished DEF Shows, rootIsPublished
  <2> QED  BY <1>4, <1>7, <2>3, <2>4, <2>5 DEF Sees
<1> QED  BY <1>5, <1>6, <1>7

\* Whatever TxLINE recorded and still has, whatever answers, and whatever market
\* was settled: the five verifiers judge soundly.
THEOREM VerdictsHold ==
  ASSUME NEW w \in Worlds, NEW m \in Settlements
  PROVE  VerdictsOf(w, m)
BY ProvenVerdict, Agreement, Honesty, NoForgery, ReceiptSuffices DEF VerdictsOf

-----------------------------------------------------------------------------
(* The CLI and the builder *)

\* What the CLI claims of a record holds of it.
LEMMA CliIsRight ==
  ASSUME NEW w \in Worlds, NEW r \in w.ever
  PROVE  CliClaimsWhatHolds(r)
<1> DEFINE v == ValuesAt(r, Goals)
           o == cliClaim(v)
           p(c) == binary(1, 2, "subtract", c, 0)
<1>1. Goals \in Seq(StatKeys) /\ Len(Goals) = 2
  BY DEF Goals, StatKeys
<1>2. v \in [1..2 -> Nat] /\ Len(v) = 2
  BY <1>1, ValuesAreCounts
<1>3. v[1] \in Nat /\ v[2] \in Nat
  BY <1>2
<1> HIDE DEF v
<1>4. o \in 1..3
  BY DEF cliClaim
<1>5. strategyFromLegacy(createSpecs[o]).outcome = <<p(<<GT, EQ, LT>>[o])>>
  BY <1>1, <1>4 DEF strategyFromLegacy, createSpecs
<1>6. Holds(p(<<GT, EQ, LT>>[o]), v)
  <2>1. CASE v[1] > v[2]
    <3>1. o = 1 /\ v[1] - v[2] > 0
      BY <1>3, <2>1 DEF cliClaim
    <3> QED  BY <3>1, HoldsSubtract
  <2>2. CASE v[1] < v[2]
    <3>1. o = 3 /\ v[1] - v[2] < 0
      BY <1>3, <2>2 DEF cliClaim
    <3> QED  BY <3>1, HoldsSubtract
  <2>3. CASE v[1] = v[2]
    <3>1. o = 2 /\ v[1] - v[2] = 0
      BY <1>3, <2>3 DEF cliClaim
    <3> QED  BY <3>1, HoldsSubtract
  <2> QED  BY <1>3, <2>1, <2>2, <2>3
<1>7. evaluate_strategy(<<p(<<GT, EQ, LT>>[o])>>, v) = "true"
  BY <1>2, <1>6, PairIsCovered, AllHoldOne DEF evaluate_strategy
<1> QED  BY <1>5, <1>7 DEF CliClaimsWhatHolds, v

\* The conditions of the parlays compare two statistics.
LEMMA ConditionShape ==
  ASSUME NEW a \in {"homeWin", "overGoals", "overCorners", "overCards"}
  PROVE  /\ conditionOf(a).legs \in Seq(StatKeys) /\ Len(conditionOf(a).legs) = 2
         /\ conditionOf(a).op \in {"add", "subtract"} /\ conditionOf(a).line \in Int
<1>1. \A legs \in {Goals, Corners, Yellows} : legs \in Seq(StatKeys) /\ Len(legs) = 2
  <2>1. Goals \in Seq(StatKeys) /\ Len(Goals) = 2
    BY DEF Goals, StatKeys
  <2>2. Corners \in Seq(StatKeys) /\ Len(Corners) = 2
    BY DEF Corners, StatKeys
  <2>3. Yellows \in Seq(StatKeys) /\ Len(Yellows) = 2
    BY DEF Yellows, StatKeys
  <2> QED  BY <2>1, <2>2, <2>3
<1>2. conditionOf(a) \in {homeWin, overGoals(2), overCorners(9), overYellows(3)}
  BY DEF conditionOf
<1>3. \A c \in {homeWin, overGoals(2), overCorners(9), overYellows(3)} :
        /\ c.legs \in {Goals, Corners, Yellows}
        /\ c.op \in {"add", "subtract"} /\ c.line \in Int
  BY DEF homeWin, overGoals, overCorners, overYellows, Condition
<1> QED  BY <1>1, <1>2, <1>3

\* A condition and its negation are predicates.
LEMMA CellsArePredicates ==
  ASSUME NEW c, NEW i \in Nat \ {0}, c.op \in {"add", "subtract"}, c.line \in Int
  PROVE  pred(c, i) \in Predicate /\ neg(c, i) \in Predicate
<1>1. <<i, i + 1>> \in Seq(Nat \ {0}) /\ Len(<<i, i + 1>>) = 2
  OBVIOUS
<1>2. pred(c, i) = [reads |-> <<i, i + 1>>, op |-> c.op, comparison |-> "greaterThan",
                    threshold |-> c.line]
  BY DEF pred, binary, GT
<1>3. neg(c, i) = [reads |-> <<i, i + 1>>, op |-> c.op, comparison |-> "lessThan",
                   threshold |-> c.line + 1]
  BY DEF neg, binary, LT
<1>4. c.line + 1 \in Int
  OBVIOUS
<1>5. ASSUME NEW comparison \in {"greaterThan", "lessThan"}, NEW line \in Int,
             NEW op \in {"add", "subtract"}
      PROVE  [reads |-> <<i, i + 1>>, op |-> op, comparison |-> comparison,
              threshold |-> line] \in Predicate
  BY <1>1 DEF Predicate
<1> QED  BY <1>2, <1>3, <1>4, <1>5

\* Joined sequences are as long as both.
LEMMA JoinedLength ==
  ASSUME NEW S, NEW s \in Seq(S), NEW t \in Seq(S)
  PROVE  Len(s \o t) = Len(s) + Len(t)
OBVIOUS

\* No parlay that the builder lets through is refused for its coverage.
LEMMA ParlaysHold == ParlaysAreEvaluated
<1> DEFINE Names == {"homeWin", "overGoals", "overCorners", "overCards"}
<1> SUFFICES ASSUME NEW a \in Names, NEW b \in Names,
                    parlay(conditionOf(a), conditionOf(b)) # NoCombo
             PROVE  LET market == parlay(conditionOf(a), conditionOf(b))
                    IN  /\ validate(market.legs, market.outcomes)
                        /\ \A o \in DOMAIN market.outcomes :
                             assertCoverage(Len(market.legs), market.outcomes[o])
  BY DEF ParlaysAreEvaluated
<1> DEFINE x == conditionOf(a)
           y == conditionOf(b)
           market == parlayGrid(x, y)
<1>1. /\ x.legs \in Seq(StatKeys) /\ Len(x.legs) = 2
      /\ y.legs \in Seq(StatKeys) /\ Len(y.legs) = 2
      /\ x.op \in {"add", "subtract"} /\ y.op \in {"add", "subtract"}
      /\ x.line \in Int /\ y.line \in Int
  BY ConditionShape
<1>2. parlay(x, y) = market
  BY DEF parlay
<1> HIDE DEF x, y
<1>3. market.legs = x.legs \o y.legs
  BY DEF parlayGrid, Def
<1>4. Len(market.legs) = 4
  <2>1. Len(x.legs \o y.legs) = Len(x.legs) + Len(y.legs)
    BY <1>1, JoinedLength
  <2> QED  BY <1>1, <1>3, <2>1
<1>5. market.outcomes =
        << <<pred(x, 1), pred(y, 3)>>, <<pred(x, 1), neg(y, 3)>>,
           <<neg(x, 1), pred(y, 3)>>, <<neg(x, 1), neg(y, 3)>> >>
  BY <1>1 DEF parlayGrid, Def
<1>6. ASSUME NEW o \in DOMAIN market.outcomes
      PROVE  /\ Shape(market.outcomes[o], 4)
             /\ market.outcomes[o] \in Seq(Predicate)
  <2>1. Shape(market.outcomes[o], 4)
    BY <1>1, ParlayShapes
  <2>2. /\ pred(x, 1) \in Predicate /\ neg(x, 1) \in Predicate
        /\ pred(y, 3) \in Predicate /\ neg(y, 3) \in Predicate
    BY <1>1, CellsArePredicates
  <2>3. \A p, q \in Predicate : <<p, q>> \in Seq(Predicate)
    OBVIOUS
  <2>4. market.outcomes[o] \in Seq(Predicate)
    <3>1. market.outcomes[o] \in
            { <<pred(x, 1), pred(y, 3)>>, <<pred(x, 1), neg(y, 3)>>,
              <<neg(x, 1), pred(y, 3)>>, <<neg(x, 1), neg(y, 3)>> }
      <4> HIDE DEF market
      <4> QED  BY <1>5
    <3> QED  BY <2>2, <2>3, <3>1, Zenon
  <2> QED  BY <2>1, <2>4
<1> HIDE DEF market
<1>7. validate(market.legs, market.outcomes)
  <2>1. Len(market.legs) \in 1..MAX_LEGS
    BY <1>4 DEF MAX_LEGS
  <2> QED  BY <1>4, <1>6, <2>1, ShapesAreValid DEF validate
<1>8. \A o \in DOMAIN market.outcomes : assertCoverage(4, market.outcomes[o])
  BY <1>6, ShapesAreCovered, BuilderCounts
<1> QED  BY <1>2, <1>4, <1>7, <1>8 DEF x, y

\* Once a market is settled its visitors verify it: for any records, any part of
\* them retained, any roots and any market the program lets be settled.
THEOREM VerdictsAlways == Spec => []VerdictsAreSound
<1>1. VerdictsAreSound
  BY VerdictsHold, CliIsRight, ParlaysHold DEF VerdictsAreSound, AllVerdicts
<1> QED  BY <1>1, PTL

=============================================================================
