-------------------------------- MODULE Sums --------------------------------
(***************************************************************************)
(* Sums of natural numbers over a finite set, by counting.  Coins(f, S)    *)
(* holds f[x] distinct tokens for each x in S, so that its cardinality is  *)
(* the sum of f over S.  Written this way, and not as a fold, the sum      *)
(* changes under an update of f by facts about cardinalities alone, which  *)
(* Counting establishes and the other proof modules cite.                  *)
(***************************************************************************)
EXTENDS Integers, FiniteSets

Coins(f, S) == UNION {{x} \X (1..f[x]) : x \in S}

Sum(f, S) == Cardinality(Coins(f, S))
=============================================================================
