---------------------------- MODULE MCProjection ----------------------------
(* A followed 1X2 market, and a product of the catalogue, settled by then,
   that the keeper knows only from the database.                            *)
EXTENDS Standings, TLC

MCKind    == "m1x2" :> "generation" @@ "goals" :> "product"
MCBorn    == "m1x2"  :> [status |-> "open", mine |-> 1, winner |-> "255"]
          @@ "goals" :> [status |-> "settled", mine |-> 1, winner |-> "other"]
MCWinner  == "m1x2" :> "mine" @@ "goals" :> "other"
MCTracked == {"m1x2"}

-----------------------------------------------------------------------------
(* Standings: every match list of up to four teams, unplayed, and everything *)
(* that three teams may play among each other.                               *)

Pairings(n) == {p \in (1..n) \X (1..n) : p[1] < p[2]}

Game(p, score) ==
  [id |-> 10 * p[1] + p[2], home |-> p[1], away |-> p[2],
   proven |-> score[1], p1 |-> score[2], p2 |-> score[3]]

Scores == {<<FALSE, 1, 0>>, <<TRUE, 0, 0>>, <<TRUE, 1, 0>>, <<TRUE, 0, 2>>}

MCCalendars ==
  {{Game(p, <<FALSE, 0, 0>>) : p \in pairs} : pairs \in SUBSET Pairings(4)}
    \cup {{Game(p, scores[p]) : p \in Pairings(3)} : scores \in [Pairings(3) -> Scores]}
=============================================================================
