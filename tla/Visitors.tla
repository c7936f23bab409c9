------------------------------- MODULE Visitors -------------------------------
(***************************************************************************)
(* The settler together with those who look at its markets: what was       *)
(* created can be settled, and what was settled can be verified.           *)
(***************************************************************************)
EXTENDS CatalogueSettler, Verify

CONSTANT Shapes   (* outcomes somebody may try to create a spec with       *)

ASSUME ShapesAssumption == Shapes \subseteq Seq(Predicate)

\* the first n of some statistics.
SomeLegs(n) == SubSeq(Goals \o Yellows \o HalfTime, 1, n)

\* What the program accepts when a spec is created the oracle will not reject
\* for its coverage when it is settled on these statistics, and nothing else is
\* refused, which is also what the SDK's builder counts; the catalogue passes, and
\* one outcome of each of its markets is provable, and only one.
SpecsAreSettleable ==
  (clock = 0 /\ started = "no" /\ \A t \in Types : status[t] = "absent") =>
    /\ assertCatalogue /\ OneOutcomeIsTrue
    /\ \A outcome \in Shapes, n \in 1..MAX_LEGS :
         LET values == [i \in 1..n |-> final[SomeLegs(n)[i]]]
         IN  /\ validate(SomeLegs(n), <<outcome>>)
               <=> evaluate_strategy(outcome, values) # "error"
             /\ validate(SomeLegs(n), <<outcome>>) <=> assertCoverage(n, outcome)

\* Once a market is settled its visitors verify it, and nobody is told more than
\* what holds, nor less as long as the records are there.
VerdictsAreSound ==
  (\E t \in Types : status[t] = "settled") => AllVerdicts
=============================================================================
