----------------------------- MODULE MCBackfill -----------------------------
(***************************************************************************)
(* Backfill with a market that is staked in one transaction and one that   *)
(* takes two, settled on one proof; and, over every input, the records of  *)
(* the generations before them.                                            *)
(***************************************************************************)
EXTENDS Records

MCTypes   == {"result", "margin"}
MCBatches == [t \in MCTypes |-> IF t = "margin" THEN 2 ELSE 1]
MCKeysOf  == [t \in MCTypes |-> "goals"]

\* The markets an operator may find, one of a generation and at most two in all.
Subsets == SUBSET Scores

States ==
  [status : {"open"}, backed : Subsets, closed : BOOLEAN, winner : {Unset}]
    \cup [status : {"locked"}, backed : Subsets, closed : {TRUE}, winner : {Unset}]
    \cup {m \in [status : {"settled"}, backed : Subsets, closed : {TRUE}, winner : Scores] :
            m.winner \in m.backed}
    \cup {m \in [status : {"cancelled"}, backed : Subsets, closed : {TRUE},
                 winner : Scores \cup {Unset}] : m.winner \notin m.backed}

MarketOf(type, state) ==
  [type |-> type, status |-> state.status, backed |-> state.backed,
   closed |-> state.closed, winner |-> state.winner]

MCFound ==
  {<<>>} \cup {<<MarketOf(t, s)>> : t \in Generations, s \in States}
    \cup {<<MarketOf(p[1], s), MarketOf(p[2], r)>> :
            p \in {q \in Generations \X Generations : q[1] # q[2]}, s, r \in States}
=============================================================================
