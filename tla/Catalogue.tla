------------------------------ MODULE Catalogue ------------------------------
(***************************************************************************)
(* The market catalogue: which predicates the keeper's compound markets    *)
(* are built from, and how the keeper reads the outcome to claim off the   *)
(* proven values.  A definition has the stat keys of its legs, in the      *)
(* order of the proof request, and its outcomes.  Labels are left out.     *)
(***************************************************************************)
EXTENDS Predicates

GT == "greaterThan"
LT == "lessThan"
EQ == "equalTo"

Goals       == <<1, 2>>
Yellows     == <<3, 4>>
Corners     == <<7, 8>>
HalfTime    == <<1001, 1002>>

StatKeys == {1, 2, 3, 4, 7, 8, 1001, 1002}

\* The stat family of a key: its period and what it counts.
familyOf(key) == <<key \div 1000, ((key % 1000) + 1) \div 2>>

Def(legs, outcomes) == [legs |-> legs, outcomes |-> outcomes]

-----------------------------------------------------------------------------
(* Templates over two statistics *)

Result(legs) ==
  Def(legs, << <<binary(1, 2, "subtract", GT, 0)>>,
               <<binary(1, 2, "subtract", EQ, 0)>>,
               <<binary(1, 2, "subtract", LT, 0)>> >>)

OverUnder(legs, t) ==
  Def(legs, << <<binary(1, 2, "add", GT, t)>>,
               <<binary(1, 2, "add", LT, t + 1)>> >>)

\* who scored: both, home only, away only, nobody.
Scorers(legs) ==
  Def(legs, << <<single(1, GT, 0), single(2, GT, 0)>>,
               <<single(1, GT, 0), single(2, EQ, 0)>>,
               <<single(1, EQ, 0), single(2, GT, 0)>>,
               <<single(1, EQ, 0), single(2, EQ, 0)>> >>)

\* clean sheets: the same four cells, listed in another order.
CleanSheet(legs) ==
  Def(legs, << <<single(1, GT, 0), single(2, EQ, 0)>>,
               <<single(1, EQ, 0), single(2, GT, 0)>>,
               <<single(1, EQ, 0), single(2, EQ, 0)>>,
               <<single(1, GT, 0), single(2, GT, 0)>> >>)

Margin(legs) ==
  Def(legs, << <<binary(1, 2, "subtract", GT, 1)>>,
               <<binary(1, 2, "subtract", EQ, 1)>>,
               <<binary(1, 2, "subtract", EQ, 0)>>,
               <<binary(1, 2, "subtract", EQ, -1)>>,
               <<binary(1, 2, "subtract", LT, -1)>> >>)

-----------------------------------------------------------------------------
(* Parlays: a grid over two conditions and their complements *)

\* Every condition compares a combination of two legs with a line.
Condition(legs, op, line) == [legs |-> legs, op |-> op, line |-> line]

homeWin        == Condition(Goals, "subtract", 0)
overGoals(t)   == Condition(Goals, "add", t)
overCorners(t) == Condition(Corners, "add", t)
overYellows(t) == Condition(Yellows, "add", t)

\* the condition, and its complement, on the legs from position o on.
pred(c, o) == binary(o, o + 1, c.op, GT, c.line)
neg(c, o)  == binary(o, o + 1, c.op, LT, c.line + 1)

\* parlayGrid throws unless the conditions read disjoint families.
Combinable(a, b) ==
  /\ \A i \in DOMAIN a.legs, j \in DOMAIN b.legs :
       familyOf(a.legs[i]) # familyOf(b.legs[j])
  /\ Len(a.legs) + Len(b.legs) <= MAX_LEGS

parlayGrid(a, b) ==
  LET oB == Len(a.legs) + 1
  IN  Def(a.legs \o b.legs,
          << <<pred(a, 1), pred(b, oB)>>, <<pred(a, 1), neg(b, oB)>>,
             <<neg(a, 1), pred(b, oB)>>, <<neg(a, 1), neg(b, oB)>> >>)

-----------------------------------------------------------------------------
CATALOGUE ==
  [t \in 28..39 |->
     CASE t = 28 -> Result(Goals)
       [] t = 29 -> OverUnder(Goals, 2)
       [] t = 30 -> OverUnder(Corners, 9)
       [] t = 31 -> OverUnder(Yellows, 3)
       [] t = 32 -> Scorers(Goals)
       [] t = 33 -> CleanSheet(Goals)
       [] t = 34 -> Result(HalfTime)
       [] t = 35 -> Margin(Goals)
       [] t = 36 -> parlayGrid(homeWin, overCorners(9))
       [] t = 37 -> parlayGrid(overCorners(9), overYellows(3))
       [] t = 38 -> parlayGrid(overGoals(2), overYellows(3))
       [] t = 39 -> parlayGrid(homeWin, overYellows(3))]

\* assertCatalogue, run when the module is imported.
assertCatalogue ==
  \A t \in DOMAIN CATALOGUE :
    /\ Len(CATALOGUE[t].outcomes) \in 2..12
    /\ validate(CATALOGUE[t].legs, CATALOGUE[t].outcomes)

\* The keeper's own evaluation of a predicate, which has no authority.
cmp(v, c, t) == IF c = GT THEN v > t ELSE IF c = LT THEN v < t ELSE v = t

satisfies(p, values) ==
  LET a == values[p.reads[1]]
      b == values[p.reads[2]]
  IN  cmp(IF p.op = "none" THEN a ELSE IF p.op = "add" THEN a + b ELSE a - b,
          p.comparison, p.threshold)

Matching(def, values) ==
  {o \in DOMAIN def.outcomes :
     \A k \in DOMAIN def.outcomes[o] : satisfies(def.outcomes[o][k], values)}

NoClaim == 0

\* the first outcome that matches, if any does.
claimedOutcomeFor(def, values) ==
  IF Matching(def, values) = {} THEN NoClaim
  ELSE CHOOSE o \in Matching(def, values) :
         \A q \in Matching(def, values) : o <= q

-----------------------------------------------------------------------------
(* Correctness *)

\* Whatever the values, exactly one outcome holds: a market can be settled, and
\* in one way only.
Partition(def, Valuations) ==
  \A values \in Valuations :
    \E o \in DOMAIN def.outcomes :
      \A q \in DOMAIN def.outcomes : AllHold(def.outcomes[q], values) <=> q = o
=============================================================================
