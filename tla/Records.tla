------------------------------- MODULE Records -------------------------------
(***************************************************************************)
(* The first generations of 1X2 markets, from the operator's plan to the   *)
(* database: a script seeds or adopts the market of a fixture, another     *)
(* settles it with a proof and writes the receipt, a third imports the     *)
(* JSON store and the chain into Postgres and checks its own output, and   *)
(* the audit checks the database against the chain.  Each is a sequential  *)
(* program that runs while nothing else writes, so each is a function.     *)
(*                                                                         *)
(* A fixture may have a market of every generation.  Markets are listed in *)
(* the order getProgramAccounts returns them; their place in the list is   *)
(* their address.  A proof, or a scoreline, is the outcome it amounts to.  *)
(***************************************************************************)
EXTENDS Backfill, Sequences

CONSTANTS
  Generations,   (* the market types that exist                             *)
  Allowed,       (* MARKET_TYPES                                            *)
  Seeded,        (* MARKET_TYPE, the generation the seed script creates     *)
  Scores,        (* the outcomes of a 1X2 market                            *)
  Unset,         (* no score, no winner, no transaction, no proof           *)
  Found          (* the lists of markets the scripts may find on chain      *)

ASSUME GenerationsAssumption == Allowed \subseteq Generations /\ Seeded \in Allowed
ASSUME ScoresAssumption      == Unset \notin Scores

\* A market on chain: nobody has won a market that nobody backed.
Account ==
  {m \in [type : Generations, status : {"open", "locked", "settled", "cancelled"},
          backed : SUBSET Scores, closed : BOOLEAN, winner : Scores \cup {Unset}] :
     CASE m.status = "settled"   -> m.winner \in m.backed
       [] m.status = "cancelled" -> m.winner \notin m.backed
       [] OTHER                  -> m.winner = Unset}

ASSUME FoundAssumption == Found \subseteq Seq(Account)

\* fixture, per market, per market.
NoStore == [proofStatus |-> "upcoming", score |-> Unset, markets |-> <<>>, receipts |-> <<>>]
NoDb    == [proofStatus |-> "upcoming", score |-> Unset, markets |-> <<>>, receipts |-> <<>>]

Keep(f, key, value) ==
  [k \in DOMAIN f \cup {key} |-> IF k = key THEN value ELSE f[k]]

-----------------------------------------------------------------------------
(* seed-tournament *)

proofStatusOf(planned) ==
  CASE planned = "settleable"   -> "proven"
    [] planned = "not_finished" -> "upcoming"
    [] OTHER                 -> "no_proof"

Fresh == [type |-> Seeded, status |-> "open", backed |-> {}, closed |-> FALSE, winner |-> Unset]

\* An adopted market loses the transactions the store knew of.
seed(planned, chain, store) ==
  LET known    == {i \in DOMAIN chain : chain[i].type = Seeded}
      chainNow == IF known = {} THEN Append(chain, Fresh) ELSE chain
      key      == CHOOSE i \in DOMAIN chainNow : chainNow[i].type = Seeded
  IN  [chain |-> chainNow,
       store |-> [store EXCEPT
         !.proofStatus = proofStatusOf(planned),
         !.markets = Keep(@, key, [phase |-> chainNow[key].status, tx |-> Unset,
                                   winner |-> chainNow[key].winner])]]

-----------------------------------------------------------------------------
(* backfill-settle, and the choice of a market that import makes as well *)

rank(m) == CASE m.status = "settled" -> 400
             [] m.status = "locked"  -> 300
             [] m.status = "open"    -> IF m.backed # {} THEN 200 ELSE 100
             [] OTHER                -> 0

\* The first of the best markets of the allowed generations.
best(chain) ==
  {i \in DOMAIN chain :
     /\ chain[i].type \in Allowed
     /\ \A j \in DOMAIN chain : chain[j].type \in Allowed =>
          rank(chain[j]) < rank(chain[i]) + (IF j < i THEN 0 ELSE 1)}

\* lock_market, once the window has closed, then settle_market.
Resolved(m, proof) ==
  [m EXCEPT !.closed = TRUE, !.winner = proof,
            !.status = IF proof \in m.backed THEN "settled" ELSE "cancelled"]

\* Mutant of recordReceipt: a market that was cancelled gets one as well.
recordReceiptAnyway(store, key, m, tx, proof) ==
  [store EXCEPT !.receipts = Keep(@, key, [winner |-> m.winner, score |-> proof, tx |-> tx])]

recordReceipt(store, key, m, tx, proof) ==
  IF m.status # "settled" THEN store
  ELSE [store EXCEPT !.receipts = Keep(@, key, [winner |-> m.winner, score |-> proof, tx |-> tx])]

\* The transaction an earlier run left in the store.
priorTx(store, key) ==
  IF key \in DOMAIN store.markets /\ store.markets[key].tx # Unset THEN store.markets[key].tx
  ELSE IF key \in DOMAIN store.receipts THEN store.receipts[key].tx ELSE Unset

\* settled: an assignment to a market the store has not adopted throws, after the
\* receipt is written.
settleOne(key, proof, chain, store) ==
  LET m     == chain[key]
      after == Resolved(m, proof)
      noted == recordReceipt(store, key, after, "settle", proof)
  IN  [chain |-> [chain EXCEPT ![key] = after],
       store |-> IF key \notin DOMAIN store.markets THEN noted
                 ELSE [noted EXCEPT !.markets[key] =
                         [phase |-> "settled", tx |-> "settle", winner |-> proof]]]

\* The proof comes first: without it nothing is done, with it the score is written
\* whatever follows.
settle(planned, proof, chain, store) ==
  LET scored == [store EXCEPT !.score = proof]
  IN  IF planned # "settleable" \/ best(chain) = {} \/ proof = Unset
      THEN [chain |-> chain, store |-> store]
      ELSE LET key == CHOOSE i \in best(chain) : TRUE
               m   == chain[key]
           IN  CASE m.status \in {"settled", "cancelled"} ->
                      [chain |-> chain,
                       store |-> recordReceipt(scored, key, m, priorTx(store, key), proof)]
                 [] m.status = "open" /\ m.backed = {} /\ m.closed ->
                      [chain |-> chain, store |-> scored]
                 [] OTHER -> settleOne(key, proof, chain, scored)

-----------------------------------------------------------------------------
(* import *)

\* "PROVEN goals only": what the store holds for a fixture the plan calls settleable,
\* which is a sample of the feed if no proof came since.
proven(store) == IF store.proofStatus = "proven" THEN store.score ELSE Unset

\* One market of the fixture, its receipt if the chain and the store have one;
\* nothing is ever deleted.
import(chain, store, db) ==
  LET fixture == [db EXCEPT !.proofStatus = store.proofStatus, !.score = proven(store)]
  IN  IF best(chain) = {} THEN fixture
      ELSE LET key == CHOOSE i \in best(chain) : TRUE
               m   == chain[key]
               row == [type |-> m.type, status |-> m.status, winner |-> m.winner]
           IN  [fixture EXCEPT
                  !.markets = Keep(@, key, row),
                  !.receipts = IF m.status = "settled" /\ key \in DOMAIN store.receipts
                               THEN Keep(@, key, store.receipts[key]) ELSE @]

\* "the numbers must not move".
problems(db) ==
  LET settled == {i \in DOMAIN db.markets : db.markets[i].status = "settled"}
  IN  {p \in {"counts", "noScore", "mismatched", "provenNoScore", "gapWithScore"} :
         CASE p = "counts"        -> Cardinality(DOMAIN db.receipts) # Cardinality(settled)
           [] p = "noScore"       -> \E i \in DOMAIN db.receipts : db.receipts[i].score = Unset
           [] p = "mismatched"    -> \E i \in settled :
                                       \/ i \notin DOMAIN db.receipts
                                       \/ db.receipts[i].winner # db.markets[i].winner
           [] p = "provenNoScore" -> db.proofStatus = "proven" /\ db.score = Unset
           [] p = "gapWithScore"  -> db.proofStatus = "no_proof" /\ db.score # Unset}

-----------------------------------------------------------------------------
(* integrity-audit, the global checks *)

failedChecks(chain, db) ==
  LET onChain == {i \in DOMAIN chain : chain[i].type \in Allowed /\ chain[i].status = "settled"}
  IN  {c \in {"types", "leaky", "gaps", "reconciliation"} :
         CASE c = "types" -> \E i \in DOMAIN db.markets : db.markets[i].type \notin Allowed
           [] c = "leaky" -> db.proofStatus # "proven" /\ db.score # Unset
           [] c = "gaps"  -> db.proofStatus = "no_proof" /\ DOMAIN db.receipts # {}
           [] c = "reconciliation" -> onChain # DOMAIN db.receipts}

-----------------------------------------------------------------------------
(* Two rounds of settlement and import after a seeding, from a store that  *)
(* may hold a score the feed sampled: the proof may have changed between   *)
(* the rounds, because TxLINE retains records of other periods by then.    *)

Rounds(planned, sampled, first, second, before) ==
  LET seeded == seed(planned, before, [NoStore EXCEPT !.score = sampled])
      \* the bets come in while betting is open
      bet    == [i \in DOMAIN seeded.chain |->
                   IF seeded.chain[i].type = Seeded /\ i \notin DOMAIN before
                   THEN [seeded.chain[i] EXCEPT !.backed = Scores] ELSE seeded.chain[i]]
      one    == settle(planned, first, bet, seeded.store)
      db     == import(one.chain, one.store, NoDb)
      two    == settle(planned, second, one.chain, one.store)
  IN  [chain |-> two.chain, store |-> two.store, db |-> import(two.chain, two.store, db)]

\* What import writes is so: a receipt is of a market the chain says is settled,
\* and names its winner; an unproven fixture shows no score.
ReceiptsAreReal(result) ==
  /\ \A i \in DOMAIN result.store.receipts :
       /\ result.chain[i].status = "settled"
       /\ result.store.receipts[i].winner = result.chain[i].winner
  /\ \A i \in DOMAIN result.db.receipts : i \in DOMAIN result.store.receipts
  /\ result.db.score # Unset => result.db.proofStatus = "proven"

\* An import that reports no problem leaves what the audit accepts, if no fixture
\* has two settled markets and the plan calls none with a settled one a gap.
ImportSatisfiesAudit(planned, result) ==
  /\ problems(result.db) = {} /\ planned = "settleable"
  /\ Cardinality({i \in DOMAIN result.chain : result.chain[i].status = "settled"}) <= 1
  => failedChecks(result.chain, result.db) = {}

\* The scoreline of a receipt is that of its winner, as long as every proof that was
\* ever used amounts to the same outcome.  (Nothing checks this.)
ScoresMatchWinners(first, second, result) ==
  \A i \in DOMAIN result.db.receipts :
    {first, second, result.db.receipts[i].winner} \ {Unset} \in {{s} : s \in Scores}
      => result.db.receipts[i].score = result.db.receipts[i].winner

\* The records of a fixture are sound, whatever markets its earlier generations left
\* and whatever the proof says at each run of the scripts.
AllRecordsAreSound ==
  \A planned \in {"settleable", "no_proof"}, sampled, first, second \in Scores \cup {Unset},
     before \in Found :
    LET result == Rounds(planned, sampled, first, second, before)
    IN  /\ ReceiptsAreReal(result)
        /\ ImportSatisfiesAudit(planned, result)
        /\ ScoresMatchWinners(first, second, result)

\* The scripts of Records are run when the backfill is not.
RecordsAreSound == run.pc = "idle" => AllRecordsAreSound
=============================================================================
