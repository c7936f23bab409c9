------------------------------- MODULE Market -------------------------------
(***************************************************************************)
(* One parimutuel market of the Proofbook program: the Market account, its *)
(* USDC vault, the Position of every bettor, and the token accounts that   *)
(* the vault exchanges money with.  Every instruction of the program that  *)
(* touches a market is one action; a Solana instruction is atomic, so a    *)
(* failing require!, checked operation or token transfer is an action that *)
(* is not enabled.                                                         *)
(*                                                                         *)
(* The oracle is external: provable is the set of outcomes whose predicate *)
(* the published roots let somebody prove (empty until the day's root is   *)
(* on chain).  It may hold several outcomes, or none, because nothing in   *)
(* the program requires the predicates of a market to be a partition.      *)
(***************************************************************************)
EXTENDS Integers, FiniteSets, Sums

CONSTANTS
  Bettors,       (* the wallets that may bet; one Position each             *)
  Outcomes,      (* the outcome indices of the market                       *)
  NoOutcome,     (* UNSET_OUTCOME                                           *)
  Amounts,       (* the sizes of a bet                                      *)
  Gifts,         (* the sizes of a bare transfer into the vault             *)
  Endowment,     (* the USDC every bettor starts with: bounds the stakes    *)
  FeeRates,      (* the fee_bps values initialize_market may be called with *)
  LockTimes,     (* the lock_time values ...                                *)
  Timeouts,      (* ... and the resolution_timeout values                   *)
  MaxTimestamp,  (* the largest value of the i64 timestamps                 *)
  MaxTime        (* bounds the clock                                        *)

BPS_DENOMINATOR == 10000
MAX_FEE_BPS == 1000
MIN_OUTCOMES == 2
MAX_OUTCOMES == 12

ASSUME BettorsAssumption  == IsFiniteSet(Bettors)
ASSUME OutcomesAssumption == IsFiniteSet(Outcomes) /\ NoOutcome \notin Outcomes
ASSUME AmountsAssumption  == /\ Amounts \subseteq Nat /\ Gifts \subseteq Nat
                             /\ Endowment \in Nat
ASSUME TermsAssumption    == /\ FeeRates \subseteq Nat
                             /\ LockTimes \subseteq Nat
                             /\ Timeouts \subseteq Nat
                             /\ MaxTimestamp \in Nat
                             /\ MaxTime \in 0..MaxTimestamp

VARIABLES
  now,                  (* Clock::unix_timestamp                            *)
  provable,             (* external: the outcomes the oracle will verify    *)
  status,               (* Market.status, "Absent" before initialize_market *)
  terms,                (* fee_bps, lock_time, resolution_timeout, and      *)
                        (* whether market_type is in the combo range        *)
  specBound,            (* the ComboSpec sidecar account exists             *)
  pool, totalPool,      (* OutcomeState.pool and Market.total_pool          *)
  winningOutcome, totalWinningPool, feeAmount,
  paidOut, winningStakeClaimed, feeWithdrawn,
  stake, side, claimed, (* Position.amount, .outcome_index, .claimed        *)
  vault, funds, treasury, (* token account balances                         *)
  donated               (* history: bare transfers into the vault           *)

rules    == <<terms, specBound>>
pools    == <<pool, totalPool>>
receipt  == <<winningOutcome, totalWinningPool, feeAmount>>
claims   == <<paidOut, winningStakeClaimed, feeWithdrawn>>
position == <<stake, side, claimed>>
tokens   == <<vault, funds, treasury, donated>>
world    == <<now, provable>>
vars == <<world, status, rules, pools, receipt, claims, position, tokens>>

-----------------------------------------------------------------------------
(* math.rs *)

FeeOf(total, bps) == (total * bps) \div BPS_DENOMINATOR

Distributable(total, bps) == total - FeeOf(total, bps)

\* The pro-rata share of one winning stake, rounded down.
Payout(s, total, winning, bps) ==
  (s * Distributable(total, bps)) \div winning

-----------------------------------------------------------------------------
Statuses == {"Absent", "Open", "Locked", "Settled", "Cancelled"}

Resolved == status \in {"Settled", "Cancelled"}

NoTerms == [feeBps |-> 0, lockTime |-> 0, timeout |-> 0, combo |-> FALSE]

Deadline == terms.lockTime + terms.timeout

Winners == {b \in Bettors : side[b] = winningOutcome}

TypeOK ==
  /\ now \in Nat
  /\ provable \subseteq Outcomes
  /\ status \in Statuses
  /\ terms \in [feeBps : 0..MAX_FEE_BPS, lockTime : Nat, timeout : Nat,
                combo : BOOLEAN]
  /\ specBound \in BOOLEAN
  /\ pool \in [Outcomes -> Nat] /\ totalPool \in Nat
  /\ winningOutcome \in Outcomes \cup {NoOutcome}
  /\ totalWinningPool \in Nat /\ feeAmount \in Nat
  /\ paidOut \in Nat /\ winningStakeClaimed \in Nat
  /\ feeWithdrawn \in BOOLEAN
  /\ stake \in [Bettors -> Nat]
  /\ side \in [Bettors -> Outcomes \cup {NoOutcome}]
  /\ claimed \in [Bettors -> BOOLEAN]
  /\ vault \in Nat /\ treasury \in Nat /\ donated \in Nat
  /\ funds \in [Bettors -> Nat]

Init ==
  /\ now = 0 /\ provable = {}
  /\ status = "Absent" /\ terms = NoTerms /\ specBound = FALSE
  /\ pool = [o \in Outcomes |-> 0] /\ totalPool = 0
  /\ winningOutcome = NoOutcome /\ totalWinningPool = 0 /\ feeAmount = 0
  /\ paidOut = 0 /\ winningStakeClaimed = 0 /\ feeWithdrawn = FALSE
  /\ stake = [b \in Bettors |-> 0]
  /\ side = [b \in Bettors |-> NoOutcome]
  /\ claimed = [b \in Bettors |-> FALSE]
  /\ vault = 0 /\ treasury = 0 /\ donated = 0
  /\ funds = [b \in Bettors |-> Endowment]

-----------------------------------------------------------------------------
(* Creation *)

InitializeMarket(bps, lock, timeout, combo) ==
  /\ status = "Absent"
  /\ bps <= MAX_FEE_BPS
  /\ timeout > 0
  /\ Cardinality(Outcomes) \in MIN_OUTCOMES..MAX_OUTCOMES
  /\ lock > now
  /\ status' = "Open"
  /\ terms' = [feeBps |-> bps, lockTime |-> lock, timeout |-> timeout,
               combo |-> combo]
  /\ UNCHANGED <<world, specBound, pools, receipt, claims, position, tokens>>

\* the account is `init`: a second call finds it and fails.
InitializeComboSpec ==
  /\ status = "Open"
  /\ terms.combo
  /\ ~specBound
  /\ specBound' = TRUE
  /\ UNCHANGED <<world, status, terms, pools, receipt, claims, position,
                 tokens>>

-----------------------------------------------------------------------------
(* Betting *)

\* A Position that was never created has side NoOutcome.
PlaceBet(b, o, amount) ==
  /\ amount > 0
  /\ status = "Open"
  /\ now < terms.lockTime
  /\ side[b] \in {NoOutcome, o}
  /\ funds[b] >= amount
  /\ side' = [side EXCEPT ![b] = o]
  /\ stake' = [stake EXCEPT ![b] = @ + amount]
  /\ pool' = [pool EXCEPT ![o] = @ + amount]
  /\ totalPool' = totalPool + amount
  /\ funds' = [funds EXCEPT ![b] = @ - amount]
  /\ vault' = vault + amount
  /\ UNCHANGED <<world, status, rules, receipt, claims, claimed, treasury,
                 donated>>

\* External: anybody can send USDC straight to the vault's token account.
Donate(b, amount) ==
  /\ status # "Absent"
  /\ funds[b] >= amount
  /\ funds' = [funds EXCEPT ![b] = @ - amount]
  /\ vault' = vault + amount
  /\ donated' = donated + amount
  /\ UNCHANGED <<world, status, rules, pools, receipt, claims, position,
                 treasury>>

-----------------------------------------------------------------------------
(* Resolution *)

LockMarket ==
  /\ status = "Open"
  /\ now >= terms.lockTime
  /\ status' = "Locked"
  /\ UNCHANGED <<world, rules, pools, receipt, claims, position, tokens>>

\* Mutant of RecordSettlement: an outcome nobody staked settles like any other.
RecordSettlementAlways(o) ==
  /\ winningOutcome' = o
  /\ status' = "Settled"
  /\ totalWinningPool' = pool[o]
  /\ feeAmount' = FeeOf(totalPool, terms.feeBps)
  /\ UNCHANGED <<world, rules, pools, claims, position, tokens>>

\* record_settlement: a proven outcome nobody staked makes the market
\* refundable instead.
RecordSettlement(o) ==
  /\ winningOutcome' = o
  /\ IF pool[o] = 0
     THEN /\ status' = "Cancelled"
          /\ totalWinningPool' = 0
          /\ feeAmount' = 0
     ELSE /\ status' = "Settled"
          /\ totalWinningPool' = pool[o]
          /\ feeAmount' = FeeOf(totalPool, terms.feeBps)
  /\ UNCHANGED <<world, rules, pools, claims, position, tokens>>

\* Mutant of SettleMarket: compound markets may settle on one leg.
SettleMarketAnyType(o) ==
  /\ status = "Locked"
  /\ o \in provable
  /\ RecordSettlement(o)

SettleMarket(o) ==
  /\ status = "Locked"
  /\ ~terms.combo
  /\ o \in provable
  /\ RecordSettlement(o)

SettleMarketV3(o) ==
  /\ status = "Locked"
  /\ terms.combo /\ specBound
  /\ o \in provable
  /\ RecordSettlement(o)

\* a deadline that does not fit its type never comes.
CancelMarket ==
  /\ status = "Locked"
  /\ Deadline <= MaxTimestamp
  /\ now > Deadline
  /\ status' = "Cancelled"
  /\ UNCHANGED <<world, rules, pools, receipt, claims, position, tokens>>

-----------------------------------------------------------------------------
(* Withdrawal *)

\* Mutant of ClaimPayout: the last winner is rounded down like the others.
ClaimPayoutFloor(b) ==
  Payout(stake[b], totalPool, totalWinningPool, terms.feeBps)

\* The last winning stake takes what is left of the distributable pool.
ClaimPayout(b) ==
  IF winningStakeClaimed + stake[b] = totalWinningPool
  THEN Distributable(totalPool, terms.feeBps) - paidOut
  ELSE Payout(stake[b], totalPool, totalWinningPool, terms.feeBps)

\* Mutant of ClaimWinnings: any position may claim.
ClaimWinningsLoser(b) ==
  /\ status = "Settled"
  /\ ~claimed[b]
  /\ stake[b] <= totalWinningPool
  /\ ClaimPayout(b) \in 0..vault
  /\ vault' = vault - ClaimPayout(b)
  /\ funds' = [funds EXCEPT ![b] = @ + ClaimPayout(b)]
  /\ paidOut' = paidOut + ClaimPayout(b)
  /\ winningStakeClaimed' = winningStakeClaimed + stake[b]
  /\ claimed' = [claimed EXCEPT ![b] = TRUE]
  /\ UNCHANGED <<world, status, rules, pools, receipt, feeWithdrawn, stake,
                 side, treasury, donated>>

ClaimWinnings(b) ==
  /\ status = "Settled"
  /\ ~claimed[b]
  /\ side[b] = winningOutcome
  /\ totalWinningPool > 0
  /\ stake[b] <= totalWinningPool
  /\ ClaimPayout(b) \in 0..vault
  /\ vault' = vault - ClaimPayout(b)
  /\ funds' = [funds EXCEPT ![b] = @ + ClaimPayout(b)]
  /\ paidOut' = paidOut + ClaimPayout(b)
  /\ winningStakeClaimed' = winningStakeClaimed + stake[b]
  /\ claimed' = [claimed EXCEPT ![b] = TRUE]
  /\ UNCHANGED <<world, status, rules, pools, receipt, feeWithdrawn, stake,
                 side, treasury, donated>>

ClaimRefund(b) ==
  /\ status = "Cancelled"
  /\ side[b] # NoOutcome
  /\ ~claimed[b]
  /\ stake[b] <= vault
  /\ vault' = vault - stake[b]
  /\ funds' = [funds EXCEPT ![b] = @ + stake[b]]
  /\ claimed' = [claimed EXCEPT ![b] = TRUE]
  /\ UNCHANGED <<world, status, rules, pools, receipt, claims, stake, side,
                 treasury, donated>>

\* Mutant of WithdrawFees: the withdrawal is not recorded.
WithdrawFeesUnmarked ==
  /\ status = "Settled"
  /\ ~feeWithdrawn
  /\ feeAmount > 0
  /\ feeAmount <= vault
  /\ vault' = vault - feeAmount
  /\ treasury' = treasury + feeAmount
  /\ UNCHANGED <<world, status, rules, pools, receipt, claims, position, funds,
                 donated>>

WithdrawFees ==
  /\ status = "Settled"
  /\ ~feeWithdrawn
  /\ feeAmount > 0
  /\ feeAmount <= vault
  /\ vault' = vault - feeAmount
  /\ treasury' = treasury + feeAmount
  /\ feeWithdrawn' = TRUE
  /\ UNCHANGED <<world, status, rules, pools, receipt, paidOut,
                 winningStakeClaimed, position, funds, donated>>

-----------------------------------------------------------------------------
(* The surroundings *)

Tick ==
  /\ now < MaxTime
  /\ now' = now + 1
  /\ UNCHANGED <<provable, status, rules, pools, receipt, claims, position,
                 tokens>>

\* The daily root that decides this fixture appears on chain.
PublishRoot(outcomes) ==
  /\ provable = {}
  /\ provable' = outcomes
  /\ UNCHANGED <<now, status, rules, pools, receipt, claims, position, tokens>>

Create ==
  \/ \E bps \in FeeRates, lock \in LockTimes, timeout \in Timeouts,
        combo \in BOOLEAN : InitializeMarket(bps, lock, timeout, combo)
  \/ InitializeComboSpec

Resolve == \/ LockMarket
           \/ \E o \in Outcomes : SettleMarket(o) \/ SettleMarketV3(o)
           \/ CancelMarket

Withdraw == \/ \E b \in Bettors : ClaimWinnings(b) \/ ClaimRefund(b)
            \/ WithdrawFees

Next ==
  \/ Create
  \/ \E b \in Bettors, o \in Outcomes, a \in Amounts : PlaceBet(b, o, a)
  \/ \E b \in Bettors, a \in Gifts : Donate(b, a)
  \/ Resolve
  \/ Withdraw
  \/ Tick
  \/ \E outcomes \in SUBSET Outcomes : PublishRoot(outcomes)

Spec == Init /\ [][Next]_vars

\* lock_market and cancel_market are permissionless cranks somebody keeps
\* turning (the keeper's sweep, every five seconds); a bettor and the treasury
\* want their money.  Nothing obliges anyone to bet, to attach a ComboSpec,
\* to publish a root or to settle.
Fairness ==
  /\ WF_vars(Tick)
  /\ WF_vars(LockMarket)
  /\ WF_vars(CancelMarket)
  /\ \A b \in Bettors : WF_vars(ClaimWinnings(b)) /\ WF_vars(ClaimRefund(b))
  /\ WF_vars(WithdrawFees)

FairSpec == Spec /\ Fairness

-----------------------------------------------------------------------------
(* Correctness properties *)

\* The pools the payouts are computed from are the stakes of the positions:
\* place_bet keeps three counters per bet, and no other instruction may move
\* one of them.
PoolsMatchPositions ==
  /\ \A o \in Outcomes : pool[o] = Sum(stake, {b \in Bettors : side[b] = o})
  /\ totalPool = Sum(stake, Bettors)

\* What the market still owes in its present status.
Owed ==
  CASE status = "Settled" ->
         Distributable(totalPool, terms.feeBps) - paidOut
           + (IF feeWithdrawn THEN 0 ELSE feeAmount)
    [] status = "Cancelled" -> Sum(stake, {b \in Bettors : ~claimed[b]})
    [] OTHER -> totalPool

\* The vault holds what the market owes and what strangers sent it, to the
\* last unit, whatever the order of bets, claims, refunds and fee withdrawal.
VaultBacksObligations == vault = Owed + donated

\* No winner ever waits for money that is not there: the claim of any winner
\* who has not claimed yet would pass now, for no less than its own rounded
\* down share, and would leave the fee in the vault.
EveryClaimWouldPass ==
  status = "Settled" =>
    \A b \in Winners : ~claimed[b] =>
      /\ stake[b] <= totalWinningPool
      /\ ClaimPayout(b) >=
           Payout(stake[b], totalPool, totalWinningPool, terms.feeBps)
      /\ ClaimPayout(b) + (IF feeWithdrawn THEN 0 ELSE feeAmount) <= vault

\* "Sum of payouts == distributable EXACTLY and the vault settles to zero"
\* (claim_winnings.rs): once everybody entitled has been paid, nothing but
\* strangers' transfers is left, not even rounding dust.
NothingLeftBehind ==
  /\ status = "Settled"
  /\ \A b \in Winners : claimed[b]
  /\ feeWithdrawn \/ feeAmount = 0
  => vault = donated

\* A market is resolved for one reason only: a proven outcome somebody
\* staked, a proven outcome nobody staked, or silence past the deadline; and
\* never before its lock time.
ResolutionIsJustified ==
  Resolved =>
    /\ now >= terms.lockTime
    /\ terms.combo /\ winningOutcome # NoOutcome => specBound
    /\ \/ winningOutcome \in provable /\ (status = "Settled") = (pool[winningOutcome] > 0)
       \/ winningOutcome = NoOutcome /\ status = "Cancelled" /\ now > Deadline

\* The strengthening of these invariants that every step preserves.
\* LifeCycle: what each status implies of the receipt and of the positions.
LifeCycle ==
  /\ \A b \in Bettors : side[b] = NoOutcome => stake[b] = 0 /\ ~claimed[b]
  /\ status = "Absent" => totalPool = 0 /\ donated = 0
  /\ ~Resolved => /\ winningOutcome = NoOutcome
                  /\ \A b \in Bettors : ~claimed[b]
  /\ status # "Settled" => /\ paidOut = 0 /\ winningStakeClaimed = 0
                           /\ ~feeWithdrawn
  /\ status = "Settled" =>
       /\ winningOutcome # NoOutcome
       /\ totalWinningPool = pool[winningOutcome]
       /\ totalWinningPool > 0
       /\ feeAmount = FeeOf(totalPool, terms.feeBps)
       /\ \A b \in Bettors : claimed[b] => b \in Winners

\* ClaimsAccounted: winning_stake_claimed is the stake of the winners who have
\* claimed, they have been paid no more than their exact share together, and
\* all of it once the last of them has been paid.
ClaimsAccounted ==
  status = "Settled" =>
    LET distributable == Distributable(totalPool, terms.feeBps)
    IN  /\ winningStakeClaimed = Sum(stake, {b \in Winners : claimed[b]})
        /\ paidOut * totalWinningPool <= distributable * winningStakeClaimed
        /\ winningStakeClaimed = totalWinningPool => paidOut = distributable

MoneyInv ==
  /\ TypeOK
  /\ PoolsMatchPositions
  /\ LifeCycle
  /\ ClaimsAccounted
  /\ VaultBacksObligations

\* A resolution is final: no crank, claim or late proof rewrites the receipt,
\* the rules or the stakes it was computed from.
ResolvedForever ==
  [][Resolved => UNCHANGED <<status, rules, pools, receipt, stake, side>>]_vars

\* Whoever has been paid or refunded is never sent money again, and money
\* leaves the vault only towards a position that is marked by the same step
\* or towards the treasury.
PaidOnce ==
  [][/\ \A b \in Bettors : claimed[b] => claimed'[b] /\ funds'[b] <= funds[b]
     /\ vault' < vault => \/ \E b \in Bettors : ~claimed[b] /\ claimed'[b]
                          \/ ~feeWithdrawn /\ feeWithdrawn']_vars

\* A market keeps the promise of an escrow: whatever the pools, the proofs and
\* the clock do, its depositors see Escrow's steps.
Promise == INSTANCE Escrow WITH
  Parties  <- Bettors,
  phase    <- CASE status = "Settled" -> "paying"
                [] status = "Cancelled" -> "refunding"
                [] OTHER -> "taking",
  deposit  <- stake,
  held     <- vault - donated,
  entitled <- IF status = "Settled" THEN Winners ELSE {},
  budget   <- IF status = "Settled"
              THEN Distributable(totalPool, terms.feeBps) ELSE 0,
  rest     <- IF status = "Settled"
              THEN Distributable(totalPool, terms.feeBps) - paidOut ELSE 0,
  fee      <- IF status = "Settled" /\ ~feeWithdrawn THEN feeAmount ELSE 0,
  done     <- {b \in Bettors : claimed[b]}

KeepsPromise == Promise!Spec

\* Funds never stick: whoever bets, and whether or not the outcome is ever
\* proven or settled, every unit staked leaves the vault again, if the deadline
\* fits its type.
FundsAlwaysReturn ==
  (totalPool > 0 /\ Deadline <= MaxTimestamp) ~> (vault = donated)
=============================================================================
