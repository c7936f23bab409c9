------------------------------- MODULE MCVerify -------------------------------
(***************************************************************************)
(* Verify on small worlds: a final record and a later one of the same or   *)
(* the next day, a correction or not, any part of them retained, roots     *)
(* published for either day or not, and a market of each of the two        *)
(* resolution paths.                                                       *)
(***************************************************************************)
EXTENDS Verify

Stats(home, away) == [k \in StatKeys |-> CASE k = 1 -> home [] k = 2 -> away [] OTHER -> 0]

Record(seq, isFinal, day, score) ==
  [seq |-> seq, final |-> isFinal, day |-> day, stats |-> Stats(score[1], score[2])]

Scores == {<<1, 1>>, <<2, 1>>, <<0, 1>>}

Histories ==
  {{Record(1, TRUE, 1, s), Record(2, f, d, t)} :
     s \in Scores, t \in Scores, f \in BOOLEAN, d \in {1, 2}}

MCWorlds ==
  UNION {[ever : {h}, retained : SUBSET h,
          roots : [{1, 2} -> {TXORACLE, "nobody"}],
          up : {{"rpc", "scores", "proofs"}, {"rpc", "proofs"}, {"rpc"}}] : h \in Histories}

MarketsOf(type) ==
  [type : {type}, status : {"settled", "cancelled"}, winning : 1..3,
   day : {1, 2}, roots : {1, 2}, ref : {"ref"}, oracle : {TXORACLE},
   combo : IF type = 28 THEN {CATALOGUE[28], NoCombo} ELSE {NoCombo},
   specs : {createSpecs}]

MCSettlements == MarketsOf(28) \cup MarketsOf(0)
=============================================================================
