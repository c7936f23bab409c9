------------------------------ MODULE MCStream ------------------------------
EXTENDS TheaterPages

\* The final record, the receipt and a later record of one match.
MCContent == << [type |-> "score", score |-> "2-0", final |-> TRUE],
                [type |-> "receipt", score |-> "2-0", final |-> TRUE],
                [type |-> "score", score |-> "2-1", final |-> FALSE] >>

\* Recordings of up to three events.
Record(at, type, score, final) ==
  [at |-> at, type |-> type, score |-> score, final |-> final]

Recorded == {Record(at, "score", "1-0", final) : at \in {0, 50, 99}, final \in BOOLEAN}
       \cup {Record(at, type, "none", FALSE) : at \in {0, 90, 100},
                                               type \in {"receipt", "market"}}

MCRecordings ==
  {[events |-> es, found |-> found, proven |-> proven, kickoff |-> 0] :
     es \in {s \in UNION {[1..n -> Recorded] : n \in 0..3} :
              \A i \in 1..Len(s) - 1 : s[i].at <= s[i + 1].at},
     found \in BOOLEAN, proven \in {"2-0", NoScore}}
=============================================================================
