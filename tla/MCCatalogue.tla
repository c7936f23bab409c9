----------------------------- MODULE MCCatalogue -----------------------------
(***************************************************************************)
(* CatalogueSettler on small instances: a match result and an over/under   *)
(* on the same goals, final results around their lines, and all small      *)
(* outcomes for the validation.                                            *)
(***************************************************************************)
EXTENDS Visitors, MCVerify, TLC

\* goals, yellow cards, corners; the half-time score is nil all.
Final(g1, g2, y, c) ==
  (1 :> g1) @@ (2 :> g2) @@ (3 :> y) @@ (4 :> 1) @@ (7 :> c) @@ (8 :> 4)
    @@ (1001 :> 0) @@ (1002 :> 0)

MCFinals == {Final(1, 1, 3, 5), Final(3, 0, 2, 6)}

\* outcomes of up to three predicates over up to four legs, one of them missing.
SmallPredicates == {single(i, GT, 0) : i \in 1..4}
                     \cup {binary(i, j, "add", GT, 0) : i \in 1..4, j \in 1..4}
MCShapes == {<<>>} \cup UNION {[1..k -> SmallPredicates] : k \in 1..3}
=============================================================================
