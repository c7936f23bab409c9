------------------------------ MODULE MCFeeds -------------------------------
(***************************************************************************)
(* Feeds on small instances: a goal, and a final record with the score of  *)
(* both.  And the consensus line over small odds.                          *)
(***************************************************************************)
EXTENDS Consensus

MCCarries == <<[p1 |-> 1, p2 |-> Unset], [p1 |-> 2, p2 |-> 0]>>

-----------------------------------------------------------------------------
(* One row of every order, after and before an older one and a raw book *)

MCOdds == {<<450, 300, 250>>, <<998, 1, 1>>}

Quoted(order, odds, pct, ts, demargined) ==
  [type |-> "1X2", demargined |-> demargined, ts |-> ts, order |-> order,
   odds |-> odds, pct |-> pct]

MCQuotations ==
  UNION {LET row == Quoted(order, odds, pct, 2, TRUE)
             old == Quoted(<<3, 2, 1>>, <<450, 300, 250>>, pct, 1, TRUE)
             raw == Quoted(<<2, 1, 3>>, odds, pct, 3, FALSE)
             spread == [row EXCEPT !.type = "other"]
         IN  {<<>>, <<raw>>, <<row>>, <<row, old>>, <<old, row>>, <<raw, row, spread>>,
              <<row, raw, old>>, <<row, [old EXCEPT !.ts = 2]>>} :
         order \in Orders, odds \in MCOdds, pct \in BOOLEAN}

MCPoolShapes == {<<1, 1, 1>>, <<5, 3, 2>>, <<0, 0, 0>>, <<0, 1, 8>>}
=============================================================================
