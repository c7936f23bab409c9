----------------------------- MODULE Predicates -----------------------------
(***************************************************************************)
(* What a compound market or a prop vault asks the oracle: an outcome is a *)
(* sequence of predicates, all of which have to hold of the proven values  *)
(* of the legs.  A predicate reads one leg, or combines two.  Legs are     *)
(* counted from one here, from zero in the code.                           *)
(*                                                                         *)
(* The program validates an outcome when the spec is created, and the      *)
(* oracle, which sees it only when a market is settled, checks and         *)
(* evaluates it anew.  The sums of two i32 values are computed in i64, so  *)
(* integers here have no width.                                            *)
(***************************************************************************)
EXTENDS Integers, Sequences, FiniteSets

MAX_LEGS == 5

single(i, comparison, threshold) ==
  [reads |-> <<i>>, op |-> "none",
   comparison |-> comparison, threshold |-> threshold]

binary(i, j, op, comparison, threshold) ==
  [reads |-> <<i, j>>, op |-> op,
   comparison |-> comparison, threshold |-> threshold]

\* LegPredicate: what an account can hold, well covered or not.
Predicate ==
  {p \in [reads : Seq(Nat \ {0}), op : {"none", "add", "subtract"},
          comparison : {"greaterThan", "lessThan", "equalTo"}, threshold : Int] :
     Len(p.reads) = IF p.op = "none" THEN 1 ELSE 2}

-----------------------------------------------------------------------------
(* ComboSpec::validate and PropVault::validate; a vault has one outcome, a     *)
(* market as many as it has pools.                                            *)

\* the legs marked so far, or Refused.
Refused == {0}

\* Mutant of mark: a leg may be read again.
markAgain(p, seen, n) ==
  IF seen # Refused /\ \A i \in DOMAIN p.reads : p.reads[i] \in 1..n
  THEN seen \cup {p.reads[i] : i \in DOMAIN p.reads}
  ELSE Refused

mark(p, seen, n) ==
  IF /\ seen # Refused
     /\ \A i \in DOMAIN p.reads :
          /\ p.reads[i] \in (1..n) \ seen
          /\ \A j \in DOMAIN p.reads : p.reads[i] = p.reads[j] => i = j
  THEN seen \cup {p.reads[i] : i \in DOMAIN p.reads}
  ELSE Refused

Marked(outcome, n) ==
  LET upTo[k \in 0..Len(outcome)] ==
        IF k = 0 THEN {} ELSE mark(outcome[k], upTo[k - 1], n)
  IN  upTo[Len(outcome)]

validate(legs, outcomes) ==
  /\ Len(legs) \in 1..MAX_LEGS
  /\ \A o \in DOMAIN outcomes :
       /\ outcomes[o] # <<>>
       /\ Marked(outcomes[o], Len(legs)) = 1..Len(legs)

-----------------------------------------------------------------------------
(* The oracle: coverage, then evaluation *)

compare(value, threshold, comparison) ==
  CASE comparison = "greaterThan" -> value > threshold
    [] comparison = "lessThan"    -> value < threshold
    [] comparison = "equalTo"     -> value = threshold

Combined(p, values) ==
  CASE p.op = "none"     -> values[p.reads[1]]
    [] p.op = "add"      -> values[p.reads[1]] + values[p.reads[2]]
    [] p.op = "subtract" -> values[p.reads[1]] - values[p.reads[2]]

\* the places where an outcome reads a leg.
Reads(outcome) ==
  {r \in (1..Len(outcome)) \X {1, 2} : r[2] \in DOMAIN outcome[r[1]].reads}

LegAt(outcome, r) == outcome[r[1]].reads[r[2]]

\* neither MissingStat nor DuplicateStatCoverage nor IncompleteStatCoverage.
CoveredOnce(outcome, n) ==
  /\ \A r \in Reads(outcome) : LegAt(outcome, r) \in 1..n
  /\ \A l \in 1..n :
       \E r \in Reads(outcome) :
         /\ LegAt(outcome, r) = l
         /\ \A s \in Reads(outcome) : LegAt(outcome, s) = l => s = r

AllHold(outcome, values) ==
  \A k \in DOMAIN outcome :
    compare(Combined(outcome[k], values), outcome[k].threshold,
            outcome[k].comparison)

\* What validate_stat_v3 answers for authentic values: the verdict, or an error.
evaluate_strategy(outcome, values) ==
  IF CoveredOnce(outcome, Len(values))
  THEN IF AllHold(outcome, values) THEN "true" ELSE "false"
  ELSE "error"
=============================================================================
