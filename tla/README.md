# Proofbook in TLA+

Proofbook is a parimutuel betting market on Solana whose outcomes are proven,
not reported: a market is settled by a Merkle proof of match statistics that an
oracle program verifies on chain. Around the program runs a *keeper*, a Node
process that creates markets, locks them at kick-off, proves and settles them
when the match is final, and cancels them when no proof arrives in time. An API
serves what the keeper wrote to a database, a web site bets, claims and
replays, and a set of operator scripts seeds, backfills, imports and audits.

This directory models the parts of the system that hold money, decide about it,
or tell people what became of it; checks them with TLC on small instances; and
proves the main results with TLAPS for every instance.

## Inventory

### On chain (`proofbook/programs/proofbook`)

| Part | State | Operations | What makes it correct |
| --- | --- | --- | --- |
| Market | `Market`, one `Position` per bettor and market, the USDC vault, `ComboSpec` | initialize, attach combo spec, bet, lock, settle (v2 / v3 proof), cancel, claim, refund, withdraw fees | pools are the sums of positions; the vault covers every claim to the unit; one justified and final resolution; one payment per position; money always returns |
| Prop vault | `PropVault`, its USDC vault | create, settle by proof, cancel by timeout | forward only with a proof; whole and once; never trapped |
| Combo predicates | legs of each outcome | validate | every outcome covers every leg exactly once, as the oracle will demand when there is money in the market |
| Oracle interface | none | v2 and v3 calls into the oracle program | the predicate verified is the one of the settled outcome |
| Mock oracle | daily roots | publish, verify | agrees with the production evaluator on the cases used |

Instructions are atomic and most of them permissionless, so any wallet may call
them in any order. Instructions interact only through accounts.

### The keeper (`proofbook/keeper/src`)

| Part | State | Operations | Hard because |
| --- | --- | --- | --- |
| `core/marketManager.ts` | phases of the markets in the store | `ensureMarket`, `sweep` (every 5 s) | it decides on phases it read before awaits; other callbacks and other cranks run in between |
| `core/settler.ts` | attempts in flight | one attempt: status, proof, settle, confirm, record; 12 retries with back-off | transactions whose confirmation is lost; somebody else resolves first |
| `core/catalogueSettler.ts` | proofs fetched, markets in flight | walks the other templates of a fixture: read, prove, choose, lock, settle, announce | pools and status are read awaits before they matter; a rival may lock or resolve; a failed read waits for a second final record |
| `core/keeper.ts` | timers, feed | start, ingest of score records, stop | final records can come before the lock; records resent and out of order; restarts |
| `state.ts`, `pgstore.ts` | the JSON file / Postgres tables | load, debounced save, table by table flush | crashes between saves; the database knows fewer statuses than the keeper has phases |
| `db/sync.ts` | the same tables | projects accounts, positions, receipts and odds on a timer | a second writer of the store's rows |
| `leader.ts` | an advisory lock | elect, verify, stand down | sessions die without anybody being told |
| `txline/*` | the session (guest JWT and token), SSE connections | subscribe, renew, reconnect, resume | two credentials that expire apart and are shared by every caller |
| `markets/*` | none | templates, parlays, the keeper's evaluator, the consensus line | outcomes must tile all results; two evaluators must agree |
| `backfill/*`, `scripts/*` | plan, report, receipts | plan, create, stake, settle, seed, verify, audit | run again and again, on whatever an earlier run left |

### Around it

| Part | State | Operations | Hard because |
| --- | --- | --- | --- |
| `api/src/stream.ts` | registered clients, the LISTEN connection | notify, fan out, replay after `Last-Event-ID` | reads between notification and broadcast; connections that drop unnoticed |
| `api/src/faucet.ts` | the grant ledger, the faucet wallet | grant | the limit is read before, and written after, the transaction |
| `api/src/queries.ts` | none | views of markets, positions, receipts, bracket, standings, odds, archives | the rows lag behind the chain and have two writers |
| `db/` | the schema | import of the JSON store and the chain, with its own checks | several markets per fixture |
| `sdk/` | none | choose a record, build predicates, verify, settle; a CLI | the choice of record decides the verdict |
| `web/` | pages | bet slip, portfolio, vaults, verifier, theater and its replay | pages act on snapshots; transactions land late |

### How the parts interact

The keeper talks to the program with RPC calls that can fail, or land without
their confirmation coming back; to TxLINE with HTTP calls and event streams; to
Postgres with one pool, plus the direct connection of the leader lock. Callbacks
of one process never run in parallel, but they interleave at every `await`. Two
keeper processes meet only in the lock and on chain. Keeper and API meet in the
rows and in NOTIFY; the browser meets the API in requests and one event stream,
and the chain in transactions its wallet signs.

## Modules

| Module | Models | Checked by | Proved in |
| --- | --- | --- | --- |
| `Market` | one market: accounts, vault, token balances, every instruction | `market`, `bet_slip` | `MarketProofs` |
| `Escrow` | the abstract promise of a market to its depositors; `Market` implements it | property `KeepsPromise` | `MarketProofs` |
| `PropVault` | one prop vault and its three instructions | through `vault_desk` | `PropVaultProofs` |
| `VaultDesk` | the vault page and the vault script at work on a `PropVault` | `vault_desk` | `PropVaultProofs` |
| `BetDesk` | the bet slip and the portfolio at work on a `Market` | `bet_slip`, `bet_stale` | `MarketProofs` |
| `Keeper` | creation, sweep, settler, ingest, store, projection, crash and restart | `keeper` | `KeeperProofs` |
| `Predicates` | predicates of compound outcomes: validation by the program, coverage and evaluation by the oracle | through `catalogue` | `CatalogueProofs` |
| `Catalogue` | the templates and parlays, the keeper's evaluator | through `catalogue` | `CatalogueProofs` |
| `CatalogueSettler` | the walk that settles the compound markets of a fixture | `catalogue` | `CatalogueProofs` |
| `Verify`, `MCVerify` | the five verifiers of a settlement, and small worlds to compare them in | through `catalogue` | `CatalogueProofs` |
| `Visitors` | the settler with those who create specs for its markets and verify its settlements | `catalogue` | `CatalogueProofs` |
| `Leader` | election of one keeper among several | `leader` | `SessionProofs` |
| `Projection` | the rows of one fixture, their writers and the views of the API | `projection` | `ProjectionProofs` |
| `Standings` | group tables | through `projection` | `ProjectionProofs` |
| `EventStream` | append, NOTIFY, fan-out, replay, the browser's connection | `stream` | `ReceiptProofs` |
| `Beats` | the beats of the theater and how far a feed lets the staging go, which the next two share | through `stream` | |
| `Theater` | what the live settlement theater stages of the stream | through `stream` | `ReceiptProofs` |
| `Replay` | the replay of a recorded settlement: its timers, its staging, its Replay button | through `stream` | `ReceiptProofs` |
| `TheaterPages` | the two pages, one of which a visitor has open | `stream` | |
| `Faucet` | the demo faucet | `faucet` | `MarketProofs` |
| `Feeds` | the TxLINE session, its streams and the ingestion of scores | `feeds` | `SessionProofs` |
| `Consensus` | the odds: consensus line, snapshots, crowd against line | through `feeds` | `SessionProofs` |
| `Backfill` | planning and the catalogue backfill of a past fixture | `backfill` | `ReceiptProofs` |
| `Records` | seed, settle, import and audit of the first generations of markets | through `backfill` | `ReceiptProofs` |
| `Sums` | sums over finite sets, by counting | | `Counting` |

`MC*` modules extend these for TLC. Definitions named in a comment "Mutant of X"
are plausible mistakes in X; no specification uses them. Modules that one proof module
extends together keep their specifications apart by name (`ElectionSpec`, `FaucetSpec`, `WireSpec`, `ReplaySpec`, `DeskSpec`), elsewhere it is `Spec`.

### Market and Escrow

One action per instruction. The `require!`s, checked arithmetic and token transfers
that could fail are guards; accounts and PDAs are implicit (one market, one position
per bettor). `stake`, `side` and `claimed` are the fields of `Position`; a position
not created yet has side `NoOutcome`. The fields of the settlement receipt
that only document the proof are left out. `Donate` is a bare SPL transfer into
the vault, which nothing prevents; the program never looks at the balance when it
computes a payment, so gifts must not disturb it. The oracle is `provable`, the set of
outcomes whose predicate it would verify. The set is arbitrary: nothing on
chain forces a market's predicates to exclude each other or to cover
everything, so a market may have several provable outcomes, or none.
Amounts are unbounded naturals: u64 sums of USDC cannot overflow (`payout` computes
in u128), and a `checked_` operation that fails is a disabled action either way.
Timestamps do overflow when the deadline is computed, and `MaxTimestamp` stands
for `i64::MAX`.

`Escrow` is what depositors rely on and knows no pools, clocks, proofs or rounding:
deposits are taken, one decision is made, and either everybody is refunded in full, or
the entitled share a budget of at least nine tenths, each once, each at least
a rounded down pro rata part, all of it gone in the end. `Market!Promise` is the
refinement mapping; gifts are subtracted from the vault.

### BetDesk

Extends `Market`. The slip keeps a transaction it built in the background for the
outcome and stake shown (`prepared`); a click hands it, or one built now, to the wallet
(`asked`), which may sign it late; a signed transaction is in `sent` until it lands or
its blockhash expires. `fate` is what became of a signed bet, read by polling: status
and block height are two reads, so a bet may be called expired and have landed. The
portfolio offers a claim by the `row` it loaded, which is the market's and the position's
state at any earlier moment, and for a market the sweep found settled has no winner
yet. Strangers do everything else the program allows.

### PropVault and VaultDesk

`verdicts` is the set of truth values of the vault's predicate that somebody could prove.
Both may be provable, because different batches attest different statistics.

`VaultDesk` extends it with what the page and the script know: TxLINE's best record
moves from none over in-play to final, trimmed and gone; the period of the record a vault was opened
on is `pinned` in its legs. The page probes a fixture (`probe`), lists vaults (`row`) and asks once
which period is proven today (`livePeriod`), which decides whether settlement or refund is
offered. The script takes the best record, final or not, so what it opens is not in
`ResultDecides`.

### Keeper

Code between two awaits is one action; an RPC is an *answer* action, which takes
effect on chain or fails, and a *resume* action, which is the callback. Between them
everything else may happen. The action names follow the awaits: `ensureMarket` is
`EnsureStart`, `EnsureAdopt`, `EnsureCreate`, `EnsureCreated`, `EnsureFailed`;
an attempt is `AfterStatus`, `AfterBackfill`, `AfterProof`, `AfterSettle`,
`AfterConfirm`, `AfterRecheck`, `Fail`, `Retry`; the sweep is `SweepStart`,
`SweepMarket`, `AfterLockRead`, `AfterLockTx`, `Backstop`, `AfterCancelRead`,
`AfterCancelTx`, `SweepEnd`. `mem` is `store.data`, `disk` the file or the tables,
`saving` the pending debounce timer, `flush` the table a Postgres flush has
reached. The chain is the status of each market, changed under the guards of
the instructions by this keeper or, with strangers, by anybody.

`mode` is the configuration a keeper runs in and never changes: the store
(`Backend`), whether the feed starts with the lock, as in a replay
(`FeedWaitsForLock`), and whether others crank (`Strangers`). A failed read inside the
sweep is an unhandled rejection and ends the process (`SweepDies`). `Shutdown`
saves the JSON store; with Postgres it is a crash, for the flush it starts is not awaited.

### Predicates, Catalogue, CatalogueSettler, Verify

An outcome is a sequence of predicates, each with the legs it reads (counted from one), how
they are combined, a comparison and a threshold. `validate` marks legs predicate
by predicate as the program does; `CoveredOnce` counts reads as the oracle does; the two are written
from different sources and compared. A catalogue definition keeps the
stat keys of its legs and its outcomes. `CATALOGUE[t]` is evaluated twice by different code:
`claimedOutcomeFor` in the keeper, `evaluate_strategy` in the oracle.
The oracle's evaluation is translated from the mock oracle, the only source of it in the repository.

`CatalogueSettler` follows the conventions of `Keeper`: `walk.pc` names the await, an `Answer`
serves it, a step resumes on it. `settleFixture` is `Pick`, `AfterRead`, `Finish`; `attempt` is
`AfterStatus`, `AfterProof`, `Decide`, `AfterLock`, `AfterSettle`, `AfterAfter`, with `Retry` and `Backoff` for the
catch block and its timer. `walk.saw` and `walk.zero` are what was read of the account before the proof was awaited. A
market has an `unstaked` set of outcomes instead of pools, and `Stranger` is
every other crank: the sweep of the same process, the backfill, or anybody.
The market guards are those of `Market`, in the part that matters here. The keeper's clock decides whether an open market is
"still inside its betting window"; it is not the chain's, so both answers are possible.
`inFlight` is left out: a process starts one walk per fixture.

`Verify` has the page's verifier, the SDK's, the CLI's, the receipt script's and the
audit's as functions of a *world*: the records TxLINE ever committed to, those it retains, the
accounts at the roots addresses, and the services that answer. Hashing is abstracted to what it decides.
They are compared with each other and with the truth over all the worlds of `MCVerify`.

### Leader

Each instance goes through connect, query, and the callback on the answer. The
server knows sessions only: it may reap one without telling its client, and a query
may be executed without its answer coming back. `forgotten` holds the
sessions of clients an instance dropped without ending them: their
end still calls `standDown`.

### Projection and Standings

`row`, `position`, `receipt` and `fixture` are the rows; `sync.pc` is the await a pass of
`DbSync` is at (accounts, market rows, positions, receipts to find, receipts to heal), with
what it had read; `flush` the table a flush of the keeper's memory writes next. `Tracked`
markets are in the memory, the catalogue's are not, and one market of an abandoned
generation may only be in the rows. `MarketView`, `PositionView`, `ShownScore` and
`TieWinners` are the API's views as functions of the rows. `Standings` finds the groups as
`getStandings` does, by searching who played whom, and orders the tables.

### EventStream, Theater, Replay, TheaterPages

`event[id]` is how far the emission of an event is: insert and NOTIFY are two calls.
`reading` is the set of notified events whose row the hub is reading: several at a time, so they
may be broadcast out of order. A connection is opened (`Connect`), replayed to (`ReplayRead`,
`ReplayWrite`) and registered; it may drop at any time, and the server notices later.
`Theater` adds the browser's listener (`Heard`) and the stages it may show (`Cap`, in `Beats`).
The receipt's row comes with a flush or with a backfill, which emits no event (`WriteReceipt`).

`Replay` is the page of one recording. `tape` is what the archive holds, or only the receipt the API
has for a fixture a script settled (`Settled`); `pending` are the timers that are set, each due at
a moment computed from the recording (`Due`); firing one changes the feed `shown` (`Beat`); `beat` is what the staging shows, which
follows a clock of its own up to `Cap`. `Play` is the first start and the Replay button, at
any moment. `SealIsReplayed` relates the staging to the timers that fired in this play,
`ReplayEndsProven` the last frame to the recording. Neither claims that FINALISED is a
recorded status, nor that the recorded order is kept: the code does not see to it (see below).

`TheaterPages` has a visitor on one of the two pages; the replay reads nothing that the stream does,
so their steps do not interleave.

### Faucet

A request goes through the ledger, the SOL balance, the token account, the transaction, the
polling and the ledger again, an await each (`Serve`). `Slots` requests are served at
a time. A transaction is the record of what determines its bytes: the wallet, the instructions
and the blockhash, all signed by the one faucet key. What was sent (`pending`) and what landed (`executed`, `failed`) are
sets, so two overlapping requests of a wallet with the same plan and blockhash send one transaction,
which lands once and is confirmed to both, and both write the ledger. `credits` remembers who wrote what down. A transaction
given up stays in `pending` and may land later. A cooldown takes many blocks, hence a new blockhash.

### Feeds and Consensus

`jwt`, `token` and `dead` are the generations of the two credentials and the last one of each that the
server refuses; `renewing` the renewal that callers share. `call[c]` is where each stream, the REST
client and the start of the process are, and which credentials their request carries:
between reading a credential and using it, it may die. A connection of the scores stream is at
`cursor`; `lastId` is what it will resume from; `Ingested` merges a record. `Consensus`
chooses the bookmaker row, aligns its prices with the market's outcomes, records
snapshots and reads the series for the site.

### Backfill and Records

Each step of the script is one call with what the script does on its answer. `record` is what TxLINE
retains of the fixture; `plan` what the planning script wrote down; `spec[t]` the period a market's
`ComboSpec` pins; `backed[t]` the stake batches that have landed; `run` where the script is and
what it remembers; `rows` its report. `Launch` has the three values of PHASE. `Records` has the scripts of the earlier generations, which
run while nothing else writes, as functions from what an earlier run left to what they
leave: `seed`, `settle`, the import, the checks of the import and of the audit. A call of the settle script that fails
leaves a market as it was, or locked, or resolved by a transaction that is not recorded; each of these is also a market an
earlier run may have left, over which every `settle` is checked, so `settleOne` has no failures of its own.

## Runs

| Run | Question | Bounds |
| --- | --- | --- |
| `market` | do the books balance to the unit, are decisions justified, is `Escrow` implemented, does all money return | 3 bettors, 2 outcomes, bets of 3 and 5 from 7 (up to two bets each), gifts of 4, fees 10 % and a refused 25 %, deadlines before and past `MaxTimestamp` |
| `bet_slip` | are the pages honest, is the user paid | 2 bettors, 2 outcomes, 1 amount, 2 builds, 1 lost claim |
| `bet_stale` | does the wallet sign what the slip shows (it does not) | the same |
| `vault_desk` | are notices true, does the result decide, is a vault never trapped | 2 wallets, 1 lost transaction, time up to 4 |
| `keeper` | does any store ever claim something false; in a replay, is every market resolved, does the keeper learn how | 1 market, 2 attempts, 1 crash, 1 fault; Postgres and JSON replays, a JSON replay with strangers, live on JSON with strangers |
| `catalogue` | is nothing locked into a refund, does the walk end; are specs settleable and markets partitions; do the verifiers agree | a match result and an over/under on the same legs, 2 results around the line, 2 attempts, 1 loss, at most 1 unbacked outcome each; all outcomes of up to 3 predicates over 4 legs; the empty outcome too; worlds of 2 records of 3 scores, any of them retained, with any services up |
| `leader` | is there one live leader, do stale leaders leave, does somebody take over | 2 instances, 4 sessions, 2 losses |
| `projection` | is what the API shows true, what is the error of the payout it shows, do receipts appear, do tables add up | a followed 1X2 market and a settled product, stakes of up to 2 against 1, fee 3 %, 1 fault; every list of matches among 4 teams, unplayed, and every result, proven or not, of all matches among 3 |
| `stream` | is the theater real, whatever the order of arrival; are live and missed receipts delivered; is every seal of a replay replayed, and does it end on the proven score | 3 events, backlog 1, resume 2, 1 fault; or 2 plays of any recording of up to 3 events, with and without a receipt and a proven score |
| `faucet` | is the share bounded, is every grant accounted for, are tokens conserved, is every request answered | 2 wallets, 2 requests at a time, 3 in all, a share of 1, shared and new blockhashes, 1 refill, 1 fault, a reserve one grant and a half deep |
| `feeds` | is the score the newest, do streams open again, is every record merged, is the line the feed's | scores and odds streams and the REST client, 2 records, 2 faults; quotes in every order of the outcomes, by price or percentage, with an older row and a raw one beside them |
| `backfill` | is the report true, is only what is whole locked, do runs finish; are the records of the first generations sound | a market staked in 1 transaction and one in 2, 2 attempts, 1 loss; generations 3, 4 and 28, two scores, lists of at most two markets in any state |

Why the bounds are enough: the amounts 3 and 5 against a ten percent fee make
every share fractional, so that rounding, the last winner's remainder and
accumulation of two bets (on 3 + 3, where 5 leaves no room for more) all occur;
three bettors give two winners and a loser and every claim order. Time needs one
tick before the lock, one at it, one past the deadline. Markets do not influence each other in
the keeper except through the order of the sweep, so one market with all its
interleavings is the case of interest; two attempts are a first, a
retry and the error. Two markets on the same legs share the cached proof; one unbacked outcome is the
difference between a settlement and a refund. Two instances and two losses are enough for a leader to
lose its session, a second one to take over, and that one to lose its own.
Two slots let two requests pass the same check, with one transaction or with two, and a third request comes after the first is
written; a reserve of one grant and a half runs
dry between check and transaction. Two faults expire both credentials, in either
order, or one of them during the renewal of the other. Three events are a final record, a receipt
and a record after both, which may arrive in any order; the resume limit of two never binds, because a client that has heard one of them
misses at most two. Two plays are one that is cut off at any moment, and the one after it. Two batches are the smallest number that a crash can
part. One lost call, in each module that has them, is every way a single call can fail,
with everything else in every order.

In a run that checks liveness no symmetry is used.

### What the failing run shows

`bet_stale`: the slip hands the wallet the transaction it built ahead of the click as long as that is
less than 25 s old. The effect that builds it drops it only when the bet becomes incomplete; after a change of
outcome or stake the old one stays for the debounce and the two requests that follow. A click
in that time asks the wallet to sign the bet shown before. The wallet shows the transaction, so it is a surprise rather than a theft, but
the comment in the slip promises that the label seen is the outcome proven.

## Where code and comments part

Met while translating; the properties say what does hold instead.

* *Combo specs.* `initialize_combo_spec` asks for an `Open` market only and `place_bet` does not ask
  for the spec, so a predicate may come after the money; the comment says the market "has no money in it".
* *Stranded markets.* A live final record in phase `created` moves it to `settling`, which takes the
  market out of the locking half of the sweep; the attempts find it open and run out, and the
  backstop cancels only what is locked. `technicaldocs.md` 4.1 promises refunds "even for error markets".
  `EveryMarketResolves` and `BackstopApplies` hold where the feed waits for the lock.
* *What a restart forgets.* Postgres stores `created`, `settling` and `error` as `open`, loaded as
  `created`; nothing takes a `created` market whose account is resolved any further. `KeeperLearns` excepts crashes.
* *Deadlines.* `lock_time + resolution_timeout` is only computed, checked, at the cancel; a timeout
  beyond `i64` makes every cancel fail, of a vault and of a market. `NeverTrapped` and `FundsAlwaysReturn` are about deadlines that fit.
* *Receipts of refunds.* The zero-stake guard of the catalogue settler covers only markets it locks itself; one that
  another crank locked is settled unseen, cancelled if nobody backed the outcome, and announced all the same.
* *Shown payouts.* "The UI shows what the program will actually pay" (`queries.ts`): it takes the fee from the losing pool,
  the program from the whole. `PayoutOverstatedByTheFee` bounds the error.
* *Projection.* A settled row that came by the sweep has no winner until the next pass, and its positions read "lost"
  until then; a stale flush may write `open` over a settled row for one pass.
* *Replay.* "Nothing here is synthesized: the finalisation is a real statusId" (`driver.ts:12`), "FINALISED needs a real statusId=100"
  (`SettlementTheater.tsx:10`): the timer of the whistle is set for every recording, at 40 percent of the replay if there is no final
  record, and a recording without a receipt as well is staged up to `validate_stat_v3` (`FinalAt`). "The ORDER and the data are exactly
  what the keeper recorded" (`driver.ts:138`): the receipt is replayed 400 ms before the end, so a score recorded just before it comes after it, and
  replaces the proven score on the screen (`ReceiptAt`). `SealIsReplayed` and `ReplayEndsProven` leave both out.
* *Faucet.* The ledger is read before, and written after, the grant. `FAUCET_MAX_GRANTS` is not "per wallet, ever" (`.env.example:107`):
  requests that overlap all pass the same check, and `ShareIsBounded` says by how much. Nor has a wallet that is refused always "had its share"
  (`faucet.ts:108`): requests that share a transaction write it down once each, and `TokensAreConserved` says how far
  the ledger may be ahead.
* *Stream.* The theater's driver says events come in order; they come in the order their rows were read. A client that
  disconnects during its replay is registered all the same.
* *Session.* A start with a stored expired JWT and no token fails to subscribe, ends, and starts again the
  same; `StreamsReopen` excepts exactly that.
* *Odds.* The consensus of the full match is taken from rows of any period, and attached to any market with three outcomes.
* *Backfill.* "Nothing is lost" when a transaction is retried, "all-or-nothing" for stakes in
  several batches, and a fixture whose proof failed once being planned as without one: neither holds for more than
  one call. A market created on a plan whose record TxLINE then trims can only be refunded, and a settlement that landed
  unconfirmed is reported as failed. `RowsAreTrue` claims one direction, `RunsFinishTheWall` what stays provable.
* *Records.* The settle script counts a cancelled market as settled; `import.ts` says "never the feed's sampled Score field" and takes
  the store's score of a proven fixture, which the feed may have sampled; adopting a market forgets its transactions; nothing compares a receipt's score with its winner when the
  proven record changes (`ScoresMatchWinners` assumes it does not).
* *Verifiers.* None compares the period of the proof, nor the fixture of the reply, with the market's; the SDK does not look at the
  recorded roots address; the receipt script trusts the receipt's; the audit takes a call that failed for retention that expired.
* *Vault page.* "Stranded" is decided by an answer asked once; the script falls back to an in-play record, on which a vault may be decided early.
* *Bet slip.* "One bet per wallet per market" is the page's rule, not the program's; after "Blockhash expired" a second try may stake twice.

## Fairness

* `Market`: time passes; the permissionless cranks are turned (the keeper's sweep does it every
  five seconds, and anybody can); people claim what is theirs. Nobody is assumed to bet, publish a root, prove or settle.
* `VaultDesk`: time passes, the page refreshes its list, gives up on what it waits for, somebody presses refund whenever it is
  offered again and again (strong fairness, as a refresh takes the button away for a moment), and a sent refund lands or expires. Nobody has to settle.
* `BetDesk`: the user comes back: the portfolio is loaded again and again after the market was resolved, the claim it offers is pressed (strong, since
  each reload interrupts), and a claim that was sent lands or fails.
* `Keeper`: timers fire, callbacks run, calls are answered, fixtures are polled every ten minutes, and the feed
  delivers the final record to a process that stays up; strangers owe nothing, and crashes and faults are bounded.
* `CatalogueSettler`: calls are answered and the steps of the walk are taken; roots, bets and rivals owe nothing.
* `Leader`: the same for one instance's steps and the server's answers; a session nobody uses ends.
* `Projection`: a pass goes on and the save timer fires; `ReceiptsAppear` also needs saves to cease some time.
* `EventStream` and `Theater`: calls are answered or fail, timers fire, a connection delivers what it holds while it lasts. A match need not produce events. Nothing of a replay is fair, for only what it shows is claimed.
* `Faucet`: a request's calls are answered or fail, what was sent is executed, with or without an error, or else the request times out, which the bound on faults must not forbid; cool-downs end. `Feeds`: the process is started again, renewals and calls are answered, the feed sends.
* `Backfill`: the script's calls are answered, windows close, and the operator starts the script again and again while the
  plan says settleable (strong fairness, because the plan is rewritten at any time).

Faults, crashes and losses are bounded everywhere and never fair. Except where strong fairness is named, all of it is weak.

## Proofs

Nothing is assumed but the constants' named assumptions (finite sets, natural
numbers). The prover has no bound on markets, bettors, amounts, attempts, crashes or losses.

* `Counting`: `Sum(f, S)` is the cardinality of a set of coins, so that adding a stake, updating one
  position and taking a subset follow from cardinality facts. The prover cannot use an induction rule over operators; over sets it can:
  every nonempty set of naturals has a least element (`Least`), so a set with 0 and all successors is all of them (`Induction`,
  `CountingUp`). What is computed by a recursive function is proved with it in two steps: there is such a function (`MarkingExists`, `SearchExists`,
  `GroupingExists`), and each of its values keeps an invariant. Two more facts come from it that several modules need: each element of a finite
  ordered set has its place (`PlacesAreTaken`), and a table's row sums and column sums add up to the same (`SumOfSums`).
* `MarketProofs`, the faucet: `FaucetInv` counts. `RoomInTheShare` bounds a wallet's ledger by the requests the ledger has let through,
  which gives `ShareIsBounded`. `LedgerIsAccounted` compares transactions with entries, which are not one to one. The ledger counts pairs of a request and
  a transaction, and none is written twice (`WrittenOnce`): a request that wrote a transaction down is not let through again before the cooldown has passed, and then the
  blockhash is another. So each transaction has at most one entry, or one on its way, for each slot; and one that has neither was given up by
  a fault (`AbandonedForFaults`). `CreatedOnce` needs that an account once created stays, so that a second creation fails as a whole.
* `MarketProofs`, the market: `MoneyInv` is inductive. The vault equation alone is not: that a
  winner's claim fits needs the claimed winners to have received no more than their
  exact share together (`ClaimsAccounted`), which needs the winning pool to be the sum of the
  winners' stakes (`PoolsMatchPositions`) and what each status implies
  (`LifeCycle`). One lemma per instruction, then the theorems: types, pools, vault, claims, dust,
  finality, single payment, justification of resolutions.
* `MarketProofs`, the escrow: `MarketIsAnEscrow` is the refinement of `Escrow`. The initial states map to initial ones;
  then, one lemma per instruction, a bet is a deposit, a settlement or a cancellation the decision, a claim a payment within
  the budget, and everything else a stutter. Besides `MoneyInv` it uses that a position which names an outcome
  holds money (`PositionsAreStaked`), for the escrow knows who takes part by the deposit alone.
* `MarketProofs`, the pages: every step of `BetDesk` is one of `Market` or leaves it alone (`DeskIsAMarket`), so the market's
  theorems hold under the pages. `PagesAreHonest` is not inductive, because what a page shows was decided by a status read
  earlier: `SlipInv` says that a blockhash names one bet wherever its transaction is and is processed once, and that what was
  processed without an error is in the position; `PortfolioInv` says that an offered claim of any age still passes or has been paid,
  since a claim that passes goes on passing until it is paid.
* `PropVaultProofs`: the balance equation with the types and the empty vault before creation;
  then `ProofDecides` and `DealIsKept` as action properties. For the page, a notice is about a transaction that landed and
  statuses only move forward (`NoticesAreTrue`). `ResultDecides` needs `ResultInv`: the page pins a final period only, in
  the probe, in what it sends and in the vault, and no root decides a vault pinned to a final period but the final one.
* `KeeperProofs`: `KeeperInv` is inductive for any number of markets, faults and crashes,
  both stores and both modes. Truthful stores alone are not inductive, for the keeper
  writes a phase on the strength of a reply that was computed several steps earlier, and the account
  may have moved on in between. The strengthening says what each pending reply or await still implies
  of the account: the status read is one from which the present one can be reached (`Reach`, `ReadFrom`),
  part by part for `ensureMarket` (`EnsureInv`), the attempts (`SettlerInv`) and the sweep
  (`SweepInv`). One lemma per action, then the theorems. `BackstopInv` stands on it: a market comes to be under settlement, or in
  error, by its final record, by the end of its attempts or from the disk (`LateComers`, `LateRows`), each of
  which finds it past its lock where the feed waits for that, and accounts never reopen (`NeverReopened`).
* `CatalogueProofs`: first the templates. What a predicate says of two statistics (`HoldsAdd`, ...) turns each
  template into arithmetic on integers, where a case split shows the partition; a parlay needs only that
  a condition and its negation are complements (`Complement`). Every outcome has one of three shapes, which are
  covered once (`ShapesAreCovered`), and on which the two evaluators agree (`EvaluationsAgree`); with the partition this
  gives `ClaimVerifies`. Then the walk: `SettlerInv` adds to the types what the settler still knows after an await. An empty
  `unstaked` stays empty because bets only fill pools (`StakesSeen`), and a market resolved by its own transaction stays so because resolutions
  are final (`SettledSeen`). The statistics are assumed to be natural numbers, which
  `Scorers` and `CleanSheet` need.
* `CatalogueProofs`, those who look on: the program marks legs predicate by predicate and refuses a second mark; `MarkedSoFar` says that
  what is marked after k predicates is what they read, so a validated outcome is one the oracle finds covered once, and the builder counts the same
  (`ValidationIsCoverage`). For the verifiers, each is shown to be satisfied by exactly one condition on the world and the market (`SdkSees`, `PageSees`,
  `AuditSees`, `ScriptSees`); that none accepts what no record shows, that they agree as far as their checks do, that an honest settlement is seen and
  a forged one is not then follow without looking at their code again. The newest record exists because there are finitely many (`Newest`).
* `SessionProofs`: for the database session `LeaderInv`, that an instance granted the lock on a session that
  lives holds it, and that instances do not share sessions, hence `OneLiveLeader` for any number of instances. For the TxLINE
  session `FeedInv`: what was published bounds every resume point, and the score is `Faithful` to the records merged both in
  memory and in what was last saved, because a restart loads the latter. The line: a price is the inverse of a probability in thousandths, rounded, and the
  site inverts and rounds it again; `InverseIsClose` and `ShareIsClose` bound what the two roundings and the normalisation move a share by, so that each outcome, found by its name in
  whatever order the row has, gets its own probability within two thousandths (`LineHolds`), from one of the newest rows, and no bet that follows
  takes it away (`LineStays`).
* `ProjectionProofs`: `CopiesAreTrue` is inductive. That what is shown is true is about the rows, but a row is written
  from the memory or from what a pass read some awaits ago; the invariant says of each of these copies (`MemoryIsTrue`, `RowsAreTrue`,
  `ReceiptsAreTrue`, `PositionsAreTrue`, `PassIsTrue`) that the account was so and can only have grown since (`Grows`), and that nothing is
  proven of a fixture no market of which is settled (`NothingProven`). One lemma per writer. `PayoutOverstatedByTheFee` adds the
  arithmetic of the two roundings.
* `ProjectionProofs`, the tables: after k turns a search has found teams that every closed set around its start contains (`Found`), and it cannot turn
  more often than there are teams, so it ends with the smallest closed set; each group found is closed, so the next search stays out of it (`Grouped`), which gives
  `GroupsAreComponents`. The order of a table is total because no two rows have the same team, so every place is taken once (`TablesAreSorted`).
  The columns are summed match by match instead of team by team (`ColumnsAddUp`, by `SumOfSums`), and of a single match the balances are arithmetic.
* `ReceiptProofs`, the theater: `WireInv` follows an event through every place it may be in (`Whereabouts`: rows being read,
  a replay, a connection, what the browser has heard); whatever carries it, it was emitted (`Known`, `Carries`), and what the theater made of
  it is among the events heard (`FeedIsReal`). That a replay is the newest rows in their order rests on `PlacesAreTaken`.
* `ReceiptProofs`, the replay of a recording: `ReplayInv` says that timers fire in their order, first by when they are due and then as they were set, and that
  the feed tells exactly which of them have fired since the last start (`FeedIsReplayed`): the receipt's if it is sealed, and the proven score stays as long as only
  scores due before the receipt have fired. That the staging is never ahead of the feed (`StagedAsFed`) survives a restart because the
  restart takes both back. `SealIsReplayed` and `ReplayEndsProven` follow, for recordings of any length and timing.
* `ReceiptProofs`, the first generations: each script is shown to keep what the next relies on. A store has receipts of settled markets only, and each names the winner (`SettleHolds`);
  an import copies one market and its receipt (`ImportHolds`), and what it wrote stays true of the chain while the second round runs
  (`DbSurvives`), because a settled market does not change. The audit accepts what an import called clean (`AuditAccepts`).
* `ReceiptProofs`, the backfill: `BackfillInv` says what the script still knows after each call: a market read open and whole is
  whole at the lock, because stakes only come (`DecideStep`, `StakeStep`); one whose settlement was confirmed is resolved when it is read back. One lemma
  per call, then `RowsAreTrue` and `LocksOnlyWhole` for any number of markets, batches, attempts and losses.

The assumptions that say more than that a constant is a number or a finite set, and why the code meets them: a market that exists when
`Projection` starts has a bettor's stake and a winner exactly if it is settled (`BornAssumption`; the program writes both fields in one
instruction, and only markets with stakes are of interest); the last record `Feeds` numbers is the final one and a record says a natural number of goals of each
side it carries (`RecordsAssumption`); an event is a score record or a receipt
(`ContentAssumption`, the two types the theater listens to); a calendar is a finite set of matches between two different teams (`CalendarsAssumption`; TxLINE
schedules no team against itself); a recording has dated events (`RecordingsAssumption`); the roots TxLINE published have accounts, a record has one sequence number and its counts are naturals
(`WorldsAssumption`), and a market to verify names a TxLINE oracle and legs the program let through (`SettlementsAssumption`, what `initialize_market` and `validate` enforce); demargined probabilities add up to one
(`OddsAssumption`, what demargined means); nobody has won a market outcome that nobody backed (`FoundAssumption`, as `record_settlement` cancels instead); grants and ceilings of the faucet are positive (`AmountAssumption`, its constants).

Properties of the runs that are theorems: `VaultBacksObligations`, `NothingLeftBehind`, `ResolutionIsJustified`, `KeepsPromise`,
`PagesAreHonest`, `NoticesAreTrue`, `ResultDecides`, `StoresAreTruthful`, `LocksOnlyStaked`, `SpecsAreSettleable`, `VerdictsAreSound`, `OneLiveLeader`,
`ScoreIsTheNewest`, `LineIsSound`, `ShownIsTrue`, `PayoutOverstatedByTheFee`, `TablesAreSound`, `TheaterIsReal`, `SealIsReplayed`, `ReplayEndsProven`, `ShareIsBounded`, `TokensAreConserved`,
`RowsAreTrue`, `RecordsAreSound`, `LocksOnlyWhole`: every invariant and every action property of the runs but `SignsWhatIsShown`, 25 of 41. Proved and
no longer run, because the proofs cover what the small instances did: the type invariants, `BackstopApplies`, `PoolsMatchPositions`, `EveryClaimWouldPass`,
`ResolvedForever`, `PaidOnce`, `VaultHoldsTheSum`, `ProofDecides`, `DealIsKept`, `BudgetHolds`, `ReceiptNamesTheResolver`, `ClaimsVerify`,
`OneOutcomeIsTrue` (the last is also part of `SpecsAreSettleable`).

Only model-checked:

* liveness, which the prover cannot do under fairness: `FundsAlwaysReturn`, `EveryMarketResolves`, `KeeperLearns`, `NeverTrapped`, `WalkEnds`,
  `StaleLeaderLeaves`, `SomebodyTakesOver`, `ReceiptsAppear`, `LiveIsDelivered`, `ResumeRedelivers`, `EveryRequestEnds`, `StreamsReopen`,
  `EveryRecordIsMerged`, `RunsFinishTheWall`, `UserIsPaid`;
* `SignsWhatIsShown`, which does not hold.

## Not modelled

Of the program: the encodings and account checks of the oracle calls, the Merkle (multi)proofs and geometric targets of the mock oracle; rent, signatures and
account validation, except where a constraint decides whether an instruction may run. Of the keeper: logs, the read API, capture, configuration and the fixture
parser, mint and bets in the store, team metadata, and the transaction a receipt names. Of the catalogue: labels and the web registry, and the
periods of legs (`withPeriod`) outside `Backfill` and `VaultDesk`. Of the scripts: funding of the demo bettors, the
liquidity, open-catalogue and demo scripts. Of the API: counts, keeper status, summaries and routing. Of the SDK: its session, feed printing and instruction encoding.
Of the site: layout, navigation, animation and static data. These are I/O, wording or data
without state that a property could be about, or, for the proofs of the oracle, arithmetic on hashes that
the models take as its verdict.

A confirmed lock of the sweep that overwrites a resolved phase is possible in `Keeper` where the feed does not wait
for the lock. No property forbids it, and none shows that the phase is corrected: `EveryMarketResolves` and `KeeperLearns` are about the modes in
which it does not occur. That every market of a catalogue walk is settled does not hold (one that could not be read waits for a final record
that does not come again), and no property claims it.

In `MCBackfill` the inputs of `Records` are bound variables; none may have the name of a variable of `Backfill`. What is checked over inputs alone
(tables, odds, verdicts, records) is a conjunct of a state invariant under a condition on the state, and TLC evaluates it in the states that meet it.

## Plan

1. Market, Escrow, PropVault, Keeper, Leader, Predicates, Catalogue, CatalogueSettler and their proofs: done.
2. Projection, EventStream, Theater, Faucet, Feeds, Backfill, Records, Verify, the two desks: done.
3. The invariants of all of these, also those over inputs alone, and the refinement of `Escrow` as theorems: done.
4. Left: `CatalogueSettler` composed with `Market`, whose terms it abstracts, and with the sweep of `Keeper`; the transaction a receipt names.
5. Left: the multiproof walk of the oracle as a pure function against a reference tree.
