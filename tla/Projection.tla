----------------------------- MODULE Projection -----------------------------
(***************************************************************************)
(* What the site shows.  The API never reads the chain: it answers from    *)
(* Postgres rows that two writers inside the keeper share, the projection  *)
(* of the accounts (DbSync, one pass at a time on a timer) and the flush   *)
(* of the keeper's own memory (PgStore), while operator scripts write the  *)
(* same fixture rows.  A pass and a flush are sequences of awaits: each    *)
(* step below is one of them, and all of them interleave with bets,        *)
(* resolutions, the score feed and restarts.                               *)
(*                                                                         *)
(* One fixture is followed with its markets, and in each market one        *)
(* bettor, who backs one outcome ("mine") against the rest of the pool     *)
(* ("other").  Rows written by one statement change together; rows that no *)
(* other writer touches are written in one step.                           *)
(***************************************************************************)
EXTENDS Integers, FiniteSets

CONSTANTS
  Markets,        (* the fixture's accounts                                 *)
  Kind,           (* Markets -> "generation", "product" or "dead"           *)
  Born,           (* Markets -> its account to begin with                   *)
  Winner,         (* Markets -> the outcome the proof decides               *)
  Tracked,        (* the markets ensureMarket holds a record of             *)
  FeedScores,     (* scores the feed's records may carry                    *)
  Truth,          (* the score the Merkle proof attests                     *)
  Unknown,        (* no score                                               *)
  MaxStake,       (* bounds what the bettor stakes                          *)
  Rest,           (* what the others staked; not zero                       *)
  FeeBps,
  MaxFaults       (* bounds the restarts and the failed database calls      *)

Live == {m \in Markets : Kind[m] # "dead"}

ASSUME KindAssumption    == Kind \in [Markets -> {"generation", "product", "dead"}]
ASSUME WinnerAssumption  == Winner \in [Markets -> {"mine", "other"}]
ASSUME TrackedAssumption == Tracked \subseteq Live
ASSUME BoundsAssumption  == /\ {MaxStake, Rest} \subseteq Nat \ {0}
                            /\ FeeBps \in 0..10000
                            /\ MaxFaults \in Nat
ASSUME ScoreAssumption   == Truth # Unknown /\ Unknown \notin FeedScores

\* Accounts as the program leaves them: the winner is set by the settlement.
Outcomes == {"mine", "other"}
Unset    == "255"      (* NONE_OUTCOME, the account's winner until settled   *)
Accounts == [status : {"open", "locked", "settled", "cancelled"},
             mine : Nat \ {0}, winner : Outcomes \cup {Unset}]

ASSUME BornAssumption ==
  /\ Born \in [Markets -> Accounts]
  /\ \A m \in Markets : Born[m].winner # Unset <=> Born[m].status = "settled"

VARIABLES
  chain,      (* the market accounts, with the bettor's stake               *)
  mem,        (* the keeper's memory: the fixture, its phases, its receipts *)
  saving,     (* the save timer is pending                                  *)
  flush,      (* the table flushAsync writes next, or "idle"                *)
  fixture,    (* the fixture row                                            *)
  row,        (* the market rows                                            *)
  position,   (* the position rows                                          *)
  receipt,    (* the receipt rows                                           *)
  sync,       (* where the projection pass is, and what it read             *)
  declared,   (* a script has stored the fixture as proven                  *)
  faults

keeper == <<mem, saving, flush>>
rows   == <<fixture, row, position, receipt>>
vars   == <<chain, mem, saving, flush, fixture, row, position,
            receipt, sync, declared, faults>>

Null     == "null"
Absent   == [absent |-> TRUE]

Total(acc) == acc.mine + Rest

\* totalWinningPool of a settled account.
WinningPool(acc) == IF acc.winner = "mine" THEN acc.mine ELSE Rest

Idle == [pc |-> "idle", seen |-> Absent, todo |-> {}]

\* The row of a generation that was abandoned is still there.
Init ==
  /\ chain = Born
  /\ mem = [proof |-> "upcoming", score |-> Unknown,
            phase |-> [m \in Markets |-> IF m \in Tracked THEN "open"
                                                          ELSE "none"],
            winner |-> [m \in Markets |-> Null],
            receipt |-> [m \in Markets |-> Absent]]
  /\ saving = TRUE /\ flush = "idle"
  /\ fixture = [proof |-> "upcoming", score |-> Unknown]
  /\ row = [m \in Markets |->
       IF m \in Live THEN Absent
       ELSE [status |-> "open", winner |-> Null, mine |-> 1, winning |-> 0]]
  /\ position = [m \in Markets |-> Absent]
  /\ receipt = [m \in Markets |-> Absent]
  /\ sync = Idle
  /\ declared = FALSE
  /\ faults = 0

-----------------------------------------------------------------------------
(* The match, the feed and the accounts *)

\* The final whistle comes after the lock.
Over == \A m \in Live : chain[m].status # "open"

Bet(m) ==
  /\ m \in Live /\ chain[m].status = "open" /\ chain[m].mine < MaxStake
  /\ chain' = [chain EXCEPT ![m].mine = @ + 1]
  /\ UNCHANGED <<keeper, rows, sync, declared, faults>>

Lock(m) ==
  /\ m \in Live /\ chain[m].status = "open"
  /\ chain' = [chain EXCEPT ![m].status = "locked"]
  /\ UNCHANGED <<keeper, rows, sync, declared, faults>>

\* Whoever resolves it; a settlement needs the final record's proof.
Resolve(m) ==
  /\ chain[m].status = "locked"
  /\ \/ /\ Over
        /\ chain' = [chain EXCEPT ![m].status = "settled",
                                  ![m].winner = Winner[m]]
     \/ chain' = [chain EXCEPT ![m].status = "cancelled"]
  /\ UNCHANGED <<keeper, rows, sync, declared, faults>>

\* ingest of a record that is newer than the last one, or final: the feed's
\* score is kept whatever the fixture's proof status.
Ingest(score) ==
  /\ mem' = [mem EXCEPT !.score = score]
  /\ saving' = TRUE
  /\ UNCHANGED <<chain, flush, rows, sync, declared, faults>>

Remember(m, phase) ==
  /\ mem' = [mem EXCEPT !.phase[m] = phase]
  /\ saving' = TRUE
  /\ UNCHANGED <<chain, flush, rows, sync, declared, faults>>

\* ensureMarket adopts the account of a market it holds no record of, and its
\* winner with it, set or not.
Adopt(m) ==
  /\ m \in Tracked /\ mem.phase[m] = "none"
  /\ mem' = [mem EXCEPT !.phase[m] = chain[m].status,
                        !.winner[m] = chain[m].winner]
  /\ saving' = TRUE
  /\ UNCHANGED <<chain, flush, rows, sync, declared, faults>>

\* The sweep takes note of the status it reads or brings about.
Swept(m) ==
  /\ m \in Tracked /\ mem.phase[m] \in {"open", "locked"}
  /\ mem.phase[m] # chain[m].status
  /\ Remember(m, chain[m].status)

\* A settlement under way, or given up, is stored as "open".
Settling(m) == /\ m \in Tracked /\ Over /\ mem.phase[m] = "locked"
               /\ Remember(m, "open")

\* recordResolution: the receipt carries the proof's score when the settler's
\* own transaction settled the market, and none when it found it settled.
Record(m) ==
  /\ m \in Tracked /\ mem.phase[m] = "open"
  /\ Over /\ chain[m].status \in {"settled", "cancelled"}
  /\ \E score \in {Truth, Unknown} :
       mem' = [mem EXCEPT
         !.phase[m]   = chain[m].status,
         !.winner[m]  = chain[m].winner,
         !.receipt[m] = IF chain[m].status = "settled"
                        THEN [winner |-> chain[m].winner, score |-> score]
                        ELSE @]
  /\ saving' = TRUE
  /\ UNCHANGED <<chain, flush, rows, sync, declared, faults>>

\* The import of the JSON store, in which a settling script left what it proved of
\* a match that is over.
DeclareProven ==
  /\ Over
  /\ fixture' = [fixture EXCEPT !.proof = "proven", !.score = Truth]
  /\ declared' = TRUE
  /\ UNCHANGED <<chain, keeper, row, position, receipt, sync, faults>>

-----------------------------------------------------------------------------
(* PgStore: save, flush, load *)

Fails == faults < MaxFaults /\ faults' = faults + 1

\* A save that falls due during a flush is dropped.
Save ==
  /\ saving
  /\ saving' = FALSE
  /\ flush' = IF flush = "idle" THEN "fixtures" ELSE flush
  /\ UNCHANGED <<chain, mem, rows, sync, declared, faults>>

\* writeFixture: a score is written only for a fixture the memory holds for
\* proven.
WriteFixture ==
  /\ flush = "fixtures" /\ flush' = "markets"
  /\ fixture' = [proof |-> mem.proof,
                 score |-> IF mem.proof = "proven" THEN mem.score ELSE Unknown]
  /\ UNCHANGED <<row, receipt>>

\* writeMarket carries status and winner to the rows there are; it creates
\* none.
Carried(r, m) == [r EXCEPT !.status = mem.phase[m], !.winner = mem.winner[m]]

WriteMarkets ==
  /\ flush = "markets" /\ flush' = "receipts"
  /\ row' = [m \in Markets |->
       IF row[m] = Absent \/ mem.phase[m] = "none" THEN row[m]
                                                      ELSE Carried(row[m], m)]
  /\ UNCHANGED <<fixture, receipt>>

WriteReceipts ==
  /\ flush = "receipts" /\ flush' = "idle"
  /\ receipt' = [m \in Markets |->
       IF mem.receipt[m] = Absent \/ row[m] = Absent THEN receipt[m]
                                                     ELSE mem.receipt[m]]
  /\ UNCHANGED <<fixture, row>>

Flush ==
  /\ WriteFixture \/ WriteMarkets \/ WriteReceipts
  /\ UNCHANGED <<chain, mem, saving, position, sync, declared, faults>>

FlushFails ==
  /\ flush # "idle" /\ Fails
  /\ flush' = "idle"
  /\ UNCHANGED <<chain, mem, saving, rows, sync, declared>>

\* load: a new process starts from the rows; what a pass or a flush was doing
\* is gone.
Restart ==
  /\ Fails
  /\ mem' = [proof |-> fixture.proof, score |-> fixture.score,
             phase |-> [m \in Markets |-> IF row[m] = Absent THEN "none"
                                                     ELSE row[m].status],
             winner |-> [m \in Markets |-> IF row[m] = Absent THEN Null
                                                      ELSE row[m].winner],
             receipt |-> receipt]
  /\ saving' = FALSE /\ flush' = "idle" /\ sync' = Idle
  /\ UNCHANGED <<chain, rows, declared>>

-----------------------------------------------------------------------------
(* DbSync: one pass over markets, positions and receipts *)

Rank(acc) == CASE acc.status = "settled" -> 400
               [] acc.status = "locked"  -> 300
               [] acc.status = "open"    -> IF Total(acc) > 0 THEN 200 ELSE 100
               [] OTHER                  -> 0

\* Mutant of SameProduct: a fixture has one market.
SameProductFixture(m, n) == TRUE

\* Generations are one product, the other market types one each.
SameProduct(m, n) ==
  m = n \/ (Kind[m] = "generation" /\ Kind[n] = "generation")

\* One market of each product is projected, of the highest rank; the order of
\* the accounts decides between equals.
IsBest(chosen) ==
  \A m \in Live : \E b \in chosen :
    /\ SameProduct(b, m) /\ Rank(chain[b]) >= Rank(chain[m])
    /\ \A c \in chosen : SameProduct(c, m) => c = b

\* all accounts are read in one call.
SyncStart ==
  /\ sync.pc = "idle"
  /\ \E chosen \in SUBSET Live :
       /\ IsBest(chosen)
       /\ sync' = [pc |-> "markets", todo |-> chosen, seen |-> chain]
  /\ UNCHANGED <<rows, faults>>

\* Mutant of Projected: the pool of the bettor's side is taken for the winning
\* pool before there is one.
ProjectedEarly(acc) ==
  [status  |-> acc.status, mine |-> acc.mine,
   winner  |-> IF acc.winner = Unset THEN Null ELSE acc.winner,
   winning |-> IF acc.status = "settled" THEN WinningPool(acc) ELSE acc.mine]

Projected(acc) ==
  [status  |-> acc.status, mine |-> acc.mine,
   winner  |-> IF acc.winner = Unset THEN Null ELSE acc.winner,
   winning |-> IF acc.status = "settled" THEN WinningPool(acc) ELSE 0]

\* syncMarkets: an upsert per market, and the rows of abandoned generations
\* are deleted.  A call that fails leaves part of it done, and ends the pass.
SyncMarkets ==
  /\ sync.pc = "markets"
  /\ \/ /\ UNCHANGED faults
        /\ row' = [m \in Markets |-> IF m \in sync.todo
                                     THEN Projected(sync.seen[m])
                                     ELSE IF m \in Live THEN row[m] ELSE Absent]
        /\ sync' = [Idle EXCEPT !.pc = "positions"]
     \/ /\ Fails
        /\ \E done \in SUBSET sync.todo :
             row' = [m \in Markets |-> IF m \in done THEN Projected(sync.seen[m])
                                                     ELSE row[m]]
        /\ sync' = Idle
  /\ UNCHANGED <<fixture, position, receipt>>

SyncPositions ==
  /\ sync.pc = "positions"
  /\ position' = [m \in Markets |->
       IF row[m] = Absent THEN position[m]
       ELSE [amount |-> chain[m].mine]]
  /\ sync' = [Idle EXCEPT !.pc = "blanks"]
  /\ UNCHANGED <<fixture, row, receipt, faults>>

Healed(r) ==
  IF r # Absent /\ r.score = Unknown /\ fixture.proof = "proven"
  THEN [r EXCEPT !.score = fixture.score] ELSE r

\* syncReceipts lists the settled rows without a receipt, and heals receipts
\* that have no score from a proven fixture.
HealBlankReceipts ==
  /\ sync.pc = "blanks"
  /\ receipt' = [m \in Markets |-> Healed(receipt[m])]
  /\ sync' = [Idle EXCEPT
       !.pc = "receipts",
       !.todo = {m \in Markets : /\ row[m] # Absent /\ receipt[m] = Absent
                                 /\ row[m].status = "settled"}]
  /\ UNCHANGED <<fixture, row, position, faults>>

\* Mutant of SyncReceipts: the row is taken for the account.
SyncReceiptsFromRow ==
  /\ sync.pc = "receipts"
  /\ receipt' = [m \in Markets |->
       IF m \in sync.todo /\ receipt[m] = Absent
       THEN Healed([winner |-> row[m].winner, score |-> Unknown])
       ELSE receipt[m]]
  /\ sync' = Idle
  /\ UNCHANGED <<fixture, row, position, faults>>

\* For each the account is read again, the score comes with the fixture row,
\* and a receipt that another writer created meanwhile is left alone.  A call
\* that fails skips its receipt.
SyncReceipts ==
  /\ sync.pc = "receipts"
  /\ \E done \in SUBSET sync.todo :
       /\ \/ done = sync.todo /\ UNCHANGED faults
          \/ done # sync.todo /\ Fails
       /\ receipt' = [m \in Markets |->
            IF m \in done /\ chain[m].status = "settled" /\ receipt[m] = Absent
            THEN Healed([winner |-> chain[m].winner, score |-> Unknown])
            ELSE receipt[m]]
  /\ sync' = Idle
  /\ UNCHANGED <<fixture, row, position>>

\* a call of the other steps that fails ends the pass.
SyncFails ==
  /\ sync.pc \in {"positions", "blanks"} /\ Fails
  /\ sync' = Idle
  /\ UNCHANGED rows

SyncStep ==
  /\ \/ SyncStart \/ SyncMarkets \/ SyncPositions
     \/ HealBlankReceipts \/ SyncReceipts
  /\ UNCHANGED <<chain, keeper, declared>>

-----------------------------------------------------------------------------
Next ==
  \/ DeclareProven
  \/ \E m \in Markets : Bet(m) \/ Lock(m) \/ Resolve(m)
                        \/ Adopt(m) \/ Swept(m) \/ Settling(m) \/ Record(m)
  \/ \E score \in FeedScores : Ingest(score)
  \/ Save \/ Flush \/ FlushFails \/ Restart
  \/ SyncStep
  \/ SyncFails /\ UNCHANGED <<chain, keeper, declared>>

Spec == Init /\ [][Next]_vars

\* The pass's timer fires and its calls are answered; so are a flush's, and
\* the save timer fires.
FairSpec == Spec /\ WF_vars(SyncStep) /\ WF_vars(Flush) /\ WF_vars(Save)

-----------------------------------------------------------------------------
(* The queries *)

\* Stakes are counted in thousands, payouts one by one.
Thousand == 1000
FeeOf(amount) == (Thousand * amount * FeeBps) \div 10000

\* projectPayout, as a bigint division rounds: the fee is one on the losers.
ProjectPayout(stake, total, winning) ==
  IF winning <= 0 THEN 0
  ELSE (stake * (Thousand * total - FeeOf(total - winning))) \div winning

\* listPositions, for a position that has not been claimed: the pool the
\* position is in stands for a winning pool that has not been.
PositionView(m) ==
  LET r == row[m]  p == position[m] IN
  CASE r.status = "settled" /\ r.winner = "mine" ->
         [claimable |-> "winnings",
          payout |-> ProjectPayout(p.amount, r.mine + Rest,
                       IF r.winning = 0 THEN r.mine ELSE r.winning)]
    [] r.status = "settled" /\ r.winner # "mine" ->
         [claimable |-> "lost", payout |-> 0]
    [] r.status = "cancelled" ->
         [claimable |-> "refund", payout |-> p.amount]
    [] OTHER -> [claimable |-> "pending", payout |-> 0]

Viewed(m) == row[m] # Absent /\ position[m] # Absent

\* A score is shown only for a proven fixture.
ShownScore == IF fixture.proof = "proven" THEN fixture.score ELSE Unknown

\* toMarketView: what the board shows of a market.
MarketView(m) == [status |-> row[m].status, winner |-> row[m].winner,
                  pools |-> <<row[m].mine, Rest>>, score |-> ShownScore]

\* getBracket: the result is the settled 1X2 market's, and is shown only with
\* a proven score.
ResultMarkets == {m \in Markets : Kind[m] = "generation" /\ row[m] # Absent}

TieWinners ==
  LET settled == {m \in ResultMarkets : row[m].status = "settled"}
      shown   == IF settled # {} THEN settled ELSE ResultMarkets
  IN  {row[m].winner : m \in IF ShownScore = Unknown THEN {} ELSE shown}
        \cap Outcomes

-----------------------------------------------------------------------------
(* Correctness properties *)

\* what claim_winnings pays a bettor who is alone on the winning outcome: the
\* fee is one on the whole pool.
Paid(acc) ==
  (acc.mine * (Thousand * Total(acc) - FeeOf(Total(acc)))) \div WinningPool(acc)

\* As long as no script has stored the fixture as proven, no score the feed
\* sampled reaches a view: "Never a scoreline we cannot prove"
\* (queries.ts:621), in whatever order records, flushes and passes come.
UnprovenStaysHidden ==
  ~declared => /\ ShownScore = Unknown
               /\ \A m \in Markets : receipt[m] # Absent =>
                    receipt[m].score \in {Truth, Unknown}

\* Whatever passes, flushes, restarts and failed calls left in the rows, a
\* market is never shown as won, lost or refundable unless it is, a bracket
\* names only the winner, and a receipt is one of a settlement, with its
\* outcome (toMarketView, listPositions, getBracket, listReceipts); and what is not
\* proven is not shown.
ShownIsTrue ==
  /\ UnprovenStaysHidden
  /\ \A m \in Live : row[m] # Absent =>
       LET v == MarketView(m) IN
       /\ v.status \in {"settled", "cancelled"} => chain[m].status = v.status
       /\ v.winner \in Outcomes => chain[m].winner = v.winner
       /\ v.pools[1] <= chain[m].mine
  /\ \A m \in Markets : Viewed(m) =>
       LET v == PositionView(m) IN
       /\ v.claimable = "winnings" => /\ chain[m].status = "settled"
                                      /\ chain[m].winner = "mine"
       /\ v.claimable = "refund" => chain[m].status = "cancelled"
       /\ v.claimable = "lost" => \/ chain[m].winner = "other"
                                  \/ row[m].winner \notin Outcomes
  /\ \A w \in TieWinners : \E m \in ResultMarkets : chain[m].winner = w
  /\ \A m \in Markets : receipt[m] # Absent =>
       /\ chain[m].status = "settled"
       /\ receipt[m].winner = chain[m].winner

\* "The UI shows what the program will actually pay - not a rounded-up guess"
\* (queries.ts:286-288).  It shows more, because the program takes its fee from
\* the stakes of the winners too; but, once a settled account has been projected
\* and however old the position's row, never more than that fee.
PayoutOverstatedByTheFee ==
  \A m \in Markets :
    Viewed(m) /\ row[m].winning > 0 /\ PositionView(m).claimable = "winnings"
      => PositionView(m).payout <= Paid(chain[m]) + FeeOf(chain[m].mine) + 1

\* Every settled market gets its receipt: "the wall fills in over a few
\* minutes" (sync.ts:403).  A flush may write "open" over the row of a settled
\* market the memory has not followed, between the projection of the row and
\* the search for receipts: this needs saves to cease some time.
ReceiptsAppear ==
  <>[](flush = "idle") =>
    <>[](\A m \in Live : chain[m].status = "settled" => receipt[m] # Absent)

-----------------------------------------------------------------------------
(* Why what is shown is true *)

Phases   == {"open", "locked", "settled", "cancelled"}
Resolved == {"settled", "cancelled"}
AnyScore == FeedScores \cup {Truth, Unknown}
Receipts == [winner : Outcomes \cup {Unset}, score : AnyScore]
Rows     == [status : Phases, winner : Outcomes \cup {Unset, Null}, mine : Nat,
             winning : Nat]

TypeOK ==
  /\ chain \in [Markets -> Accounts]
  /\ mem \in [proof : {"upcoming", "proven"}, score : AnyScore,
              phase : [Markets -> Phases \cup {"none"}],
              winner : [Markets -> Outcomes \cup {Unset, Null}],
              receipt : [Markets -> Receipts \cup {Absent}]]
  /\ fixture \in [proof : {"upcoming", "proven"}, score : AnyScore]
  /\ row \in [Markets -> Rows \cup {Absent}]
  /\ position \in [Markets -> [amount : Nat] \cup {Absent}]
  /\ receipt \in [Markets -> Receipts \cup {Absent}]
  /\ declared \in BOOLEAN

\* A status and a winner that were read off the account at some time: what was
\* resolved then is so for good.
Holds(m, status, winner) ==
  /\ status \in Resolved => chain[m].status = status
  /\ winner \in Outcomes => chain[m].winner = winner

\* acc is the account of m, now or some time ago.
Was(acc, m) ==
  /\ acc \in Accounts
  /\ acc.mine <= chain[m].mine
  /\ acc.status \in Resolved => acc = chain[m]
  /\ acc.winner \in Outcomes => acc.status = "settled"

\* r is a receipt of m that nothing but a stored proof has given another score.
Receipted(r, m) ==
  r # Absent => /\ chain[m].status = "settled" /\ r.winner = chain[m].winner
                /\ ~declared => r.score \in {Truth, Unknown}

WinnersAreSettled ==
  \A m \in Markets : chain[m].winner # Unset <=> chain[m].status = "settled"

NothingProven == ~declared => mem.proof # "proven" /\ fixture.proof # "proven"

MemoryIsTrue ==
  \A m \in Markets : /\ Holds(m, mem.phase[m], mem.winner[m])
                     /\ Receipted(mem.receipt[m], m)

\* A winning pool in a row is a settled account's, and so is the pool beside it.
RowsAreTrue ==
  \A m \in Markets : row[m] # Absent =>
    /\ Holds(m, row[m].status, row[m].winner)
    /\ m \in Live => row[m].mine <= chain[m].mine
    /\ row[m].winning > 0 => /\ chain[m].status = "settled"
                             /\ row[m].mine = chain[m].mine
                             /\ row[m].winning = WinningPool(chain[m])

ReceiptsAreTrue == \A m \in Markets : Receipted(receipt[m], m)

PositionsAreTrue ==
  \A m \in Markets : position[m] # Absent => position[m].amount <= chain[m].mine

PassIsTrue ==
  sync.pc = "markets" => /\ \A m \in Markets : Was(sync.seen[m], m)
                         /\ sync.todo \subseteq Live

\* Every copy of an account, in the memory, in a pass or in a row, is one that
\* the account has had.
CopiesAreTrue ==
  /\ TypeOK /\ WinnersAreSettled /\ NothingProven /\ MemoryIsTrue
  /\ RowsAreTrue /\ ReceiptsAreTrue /\ PositionsAreTrue /\ PassIsTrue
=============================================================================
