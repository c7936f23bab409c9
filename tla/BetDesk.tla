------------------------------- MODULE BetDesk -------------------------------
(***************************************************************************)
(* The bet slip and the portfolio page of one wallet, on one market of the *)
(* program, with strangers betting and cranking beside them.  The slip     *)
(* builds and simulates a bet in the background while its outcome and      *)
(* stake are still being chosen, so that the click can go straight to the  *)
(* wallet; the portfolio claims by the rows it last loaded.  What a page   *)
(* knows of the chain is a snapshot of any age; a transaction may land     *)
(* after its page has given up on it, and a wallet may answer late.        *)
(*                                                                         *)
(* The rows come from the API's database.  Projection shows what it may    *)
(* hold: an earlier state of the chain and, for a market that the keeper's *)
(* sweep found settled, no winning outcome yet.                            *)
(***************************************************************************)
EXTENDS Market

CONSTANTS
  User,          (* the wallet of the two pages                             *)
  MaxBuilds,     (* bounds the blockhashes that transactions are built on   *)
  MaxLosses      (* bounds the claims that expire                           *)

ASSUME UserAssumption == User \in Bettors

VARIABLES
  seenOpen,      (* the slip: the market it was given is open               *)
  pick,          (* the slip: the outcome and stake it shows                *)
  prepared,      (* the slip: the transaction built ahead of the click      *)
  tx,            (* the slip: "idle" (which shows the last error, if any),  *)
                 (* "signing", "confirming" or "confirmed"                  *)
  asked,         (* the slip: the transaction the wallet was asked to sign  *)
  builds,        (* the blockhashes used so far; the last one names a build *)
  sent,          (* the signed transactions on their way                    *)
  fate,          (* what became of a signed bet: "ok", "err"                *)
  row,           (* the portfolio: the claim that its row offers            *)
  claiming,      (* the portfolio: it waits for its claim                   *)
  note,          (* the portfolio: what it last announced                   *)
  losses

slip      == <<seenOpen, pick, prepared, tx, asked, builds>>
portfolio == <<row, claiming, note>>
network   == <<sent, fate, losses>>
deskVars  == <<vars, slip, portfolio, network>>

NoPick == [outcome |-> NoOutcome, amount |-> 0]
NoTx   == [kind |-> "none"]

betTx(p, hash) == [kind |-> "bet", bet |-> p, hash |-> hash]
claimTx(kind)  == [kind |-> kind]

DeskInit ==
  /\ Init
  /\ seenOpen = FALSE /\ pick = NoPick /\ prepared = NoTx
  /\ tx = "idle" /\ asked = NoTx /\ builds = 0
  /\ sent = {} /\ fate = <<>> /\ losses = 0
  /\ row = "nothing" /\ claiming = NoTx /\ note = "none"

-----------------------------------------------------------------------------
(* The slip *)

\* the page: load the market, when opened and at every "market" event.
LoadMarket ==
  /\ seenOpen # (status = "Open")
  /\ seenOpen' = (status = "Open")
  /\ UNCHANGED <<vars, pick, prepared, tx, asked, builds, portfolio, network>>

open == seenOpen /\ terms.lockTime > now

\* Nothing is built for an incomplete bet, and what was built for it is dropped.
Choose(p) ==
  /\ open
  /\ p # pick
  /\ pick' = p
  /\ prepared' = IF p = NoPick THEN NoTx ELSE prepared
  /\ UNCHANGED <<vars, seenOpen, tx, asked, builds, portfolio, network>>

\* The bet is closed to the slip: what was built is dropped.
Close ==
  /\ ~open /\ prepared # NoTx
  /\ prepared' = NoTx
  /\ UNCHANGED <<vars, seenOpen, pick, tx, asked, builds, portfolio, network>>

\* simulateTransaction: the program's answer on the present chain.
WouldPass(p) ==
  /\ status = "Open" /\ now < terms.lockTime
  /\ side[User] \in {NoOutcome, p.outcome}
  /\ funds[User] >= p.amount

\* prepareBet for the bet shown, 250 ms after a change and every 20 s.
Build ==
  /\ pick # NoPick /\ open
  /\ builds < MaxBuilds
  /\ builds' = builds + 1
  /\ prepared' = IF WouldPass(pick) THEN betTx(pick, builds') ELSE NoTx
  /\ UNCHANGED <<vars, seenOpen, pick, tx, asked, portfolio, network>>

\* PREPARED_TTL_MS: a build is fresh until a later one, or 25 s.
isFresh(p) == IF p = NoTx THEN {FALSE} ELSE {TRUE, FALSE}

\* The click.  A fresh build goes straight to the wallet; without one the bet
\* shown is built inline, and a simulation that fails is the error shown.  (Too
\* small a balance disables the button; the simulation refuses it anyway.)
submit ==
  /\ pick # NoPick /\ open
  /\ tx \notin {"signing", "confirming"}
  /\ \E fresh \in isFresh(prepared) :
       IF fresh THEN tx' = "signing" /\ asked' = prepared /\ UNCHANGED builds
       ELSE /\ builds < MaxBuilds /\ builds' = builds + 1
            /\ IF WouldPass(pick)
               THEN tx' = "signing" /\ asked' = betTx(pick, builds')
               ELSE tx' = "idle" /\ asked' = NoTx
  /\ UNCHANGED <<vars, seenOpen, pick, prepared, portfolio, network>>

\* The wallet signs and the page sends.  The cluster refuses a transaction it has
\* processed already, and one whose preflight fails.
signSend ==
  /\ tx = "signing"
  /\ \/ /\ asked.hash \notin DOMAIN fate
        /\ sent' = sent \cup {asked} /\ tx' = "confirming" /\ UNCHANGED asked
     \/ /\ asked.hash \in DOMAIN fate \/ ~WouldPass(asked.bet)
        /\ tx' = "idle" /\ asked' = NoTx /\ UNCHANGED sent
  /\ UNCHANGED <<vars, seenOpen, pick, prepared, builds, portfolio,
                 fate, losses>>

\* Declined, or no answer in 90 s: a wallet that sends by itself may still do so.
Unsigned ==
  /\ tx = "signing" /\ tx' = "idle" /\ asked' = NoTx
  /\ sent' \in {sent} \cup (IF asked.hash \in DOMAIN fate THEN {} ELSE {sent \cup {asked}})
  /\ UNCHANGED <<vars, seenOpen, pick, prepared, builds, portfolio,
                 fate, losses>>

Processed(hash, as) == hash \in DOMAIN fate /\ fate[hash] = as

\* Mutant of confirmed: any processed transaction confirms the bet.
confirmedAnyhow == asked.hash \in DOMAIN fate

\* status.err is looked at before the confirmation status.
confirmed == Processed(asked.hash, "ok")

\* confirmByPolling: the bet is confirmed, the slip empties itself.
Confirm ==
  /\ tx = "confirming" /\ confirmed
  /\ tx' = "confirmed" /\ pick' = NoPick /\ prepared' = NoTx
  /\ UNCHANGED <<vars, seenOpen, asked, builds, portfolio, network>>

\* ... it failed, its blockhash expired, or a minute has passed: status and block
\* height are two reads, so the bet may have landed even so.
Fail ==
  /\ tx = "confirming" /\ tx' = "idle" /\ asked' = NoTx
  /\ UNCHANGED <<vars, seenOpen, pick, prepared, builds, portfolio, network>>

Dismiss ==
  /\ tx = "confirmed" /\ tx' = "idle" /\ asked' = NoTx
  /\ UNCHANGED <<vars, seenOpen, pick, prepared, builds, portfolio, network>>

-----------------------------------------------------------------------------
(* The portfolio *)

offersWinnings(winner) ==
  status = "Settled" /\ ~claimed[User] /\ winner = side[User]

\* Mutant of offersRefund: a market with a proven outcome refunds nobody.
offersRefundUnproven ==
  status = "Cancelled" /\ ~claimed[User] /\ winningOutcome = NoOutcome

offersRefund == status = "Cancelled" /\ ~claimed[User]

\* load: the row shows the button of its claim, or none.  Position and market are
\* two requests; a position read before its market is as good as an older load of
\* both, as a claim never comes before the resolution.
load(winner) ==
  /\ side[User] # NoOutcome
  /\ winner \in IF status = "Settled" THEN {winningOutcome, NoOutcome} ELSE {winningOutcome}
  /\ row' = IF offersWinnings(winner) THEN "winnings"
            ELSE IF offersRefund THEN "refund" ELSE "nothing"
  /\ UNCHANGED <<vars, slip, claiming, note, network>>

ClaimPasses(kind) ==
  /\ ~claimed[User] /\ side[User] # NoOutcome
  /\ \/ kind = "winnings" /\ status = "Settled" /\ side[User] = winningOutcome
     \/ kind = "refund" /\ status = "Cancelled"

\* claim: simulate, sign, send.
doClaim(kind) ==
  /\ row = kind
  /\ claiming = NoTx
  /\ IF ClaimPasses(kind)
     THEN /\ sent' = sent \cup {claimTx(kind)} /\ claiming' = claimTx(kind)
          /\ note' = "none"
     ELSE note' = "none" /\ UNCHANGED <<sent, claiming>>
  /\ UNCHANGED <<vars, slip, row, fate, losses>>

\* The wallet, the network or the minute gives out; the claim may still land.
ClaimFails ==
  /\ claiming # NoTx
  /\ claiming' = NoTx /\ note' = "none"
  /\ UNCHANGED <<vars, slip, row, network>>

-----------------------------------------------------------------------------
(* The program executes a transaction, or refuses it *)

\* The cluster remembers what became of a transaction.
Becomes(hash, as) ==
  fate' = [h \in DOMAIN fate \cup {hash} |-> IF h = hash THEN as ELSE fate[h]]

BetLands(t) ==
  /\ t \in sent /\ t.kind = "bet"
  /\ sent' = sent \ {t}
  /\ IF WouldPass(t.bet)
     THEN PlaceBet(User, t.bet.outcome, t.bet.amount) /\ Becomes(t.hash, "ok")
     ELSE UNCHANGED vars /\ Becomes(t.hash, "err")
  /\ UNCHANGED <<slip, portfolio, losses>>

ClaimLands(t) ==
  /\ t \in sent /\ t.kind # "bet"
  /\ sent' = sent \ {t}
  /\ IF ClaimPasses(t.kind)
     THEN /\ ClaimWinnings(User) \/ ClaimRefund(User)
          /\ note' = IF claiming = t THEN t.kind ELSE note
     ELSE /\ note' = IF claiming = t THEN "none" ELSE note
          /\ UNCHANGED vars
  /\ claiming' = IF claiming = t THEN NoTx ELSE claiming
  /\ UNCHANGED <<slip, row, fate, losses>>

\* a blockhash too old.  (Nothing here obliges a bet to land.)
Expired(t) ==
  /\ t \in sent /\ t.kind # "bet" /\ losses < MaxLosses
  /\ sent' = sent \ {t} /\ losses' = losses + 1
  /\ UNCHANGED <<vars, slip, portfolio, fate>>

\* What strangers do to the market (what they withdraw is Market's affair), and
\* the clock.
Strangers ==
  \/ \E bps \in FeeRates, lock \in LockTimes, timeout \in Timeouts :
       InitializeMarket(bps, lock, timeout, FALSE)
  \/ \E b \in Bettors \ {User}, o \in Outcomes, a \in Amounts : PlaceBet(b, o, a)
  \/ LockMarket \/ CancelMarket
  \/ \E o \in Outcomes : SettleMarket(o) \/ PublishRoot({o})
  \/ Tick

Around == Strangers /\ UNCHANGED <<slip, portfolio, network>>

DeskNext ==
  \/ LoadMarket
  \/ \E p \in {NoPick} \cup [outcome : Outcomes, amount : Amounts] : Choose(p)
  \/ Close \/ Build
  \/ submit \/ signSend \/ Unsigned \/ Confirm \/ Fail \/ Dismiss
  \/ \E winner \in Outcomes \cup {NoOutcome} : load(winner)
  \/ \E kind \in {"winnings", "refund"} : doClaim(kind)
  \/ ClaimFails
  \/ \E t \in sent : BetLands(t) \/ ClaimLands(t) \/ Expired(t)
  \/ Around

DeskSpec == DeskInit /\ [][DeskNext]_deskVars

\* Somebody comes back to the portfolio and clicks what it offers; the winning
\* outcome reaches the database (Projection); a claim lands unless it expires.
DeskFairSpec ==
  /\ DeskSpec
  /\ SF_deskVars(load(winningOutcome))
  /\ SF_deskVars(\E kind \in {"winnings", "refund"} : doClaim(kind))
  /\ WF_deskVars(ClaimFails)
  /\ WF_deskVars(\E t \in sent : ClaimLands(t))

-----------------------------------------------------------------------------
(* Correctness properties *)

\* What the pages say is so, whatever landed late: a bet called placed is in the
\* position, on the side and for at least the stake that was signed; a claim called
\* paid is; a claim that is offered would pass or has already been paid.
PagesAreHonest ==
  /\ tx = "confirmed" => /\ side[User] = asked.bet.outcome
                         /\ stake[User] >= asked.bet.amount
  /\ note \in {"winnings", "refund"} => claimed[User]
  /\ row \in {"winnings", "refund"} => claimed[User] \/ ClaimPasses(row)

\* "Winnings are claimable the moment the result is verified" (portfolio/page.tsx):
\* whoever comes back to the portfolio gets what the market owes, however many
\* claims were lost or given up, and whichever way the market was resolved.
UserIsPaid ==
  ClaimPasses("winnings") \/ ClaimPasses("refund") ~> claimed[User]

\* "The label a bettor SEES must be the outcome the chain will prove"
\* (BetSlip.tsx:70): the wallet is asked to sign the bet that the slip shows.
SignsWhatIsShown ==
  [][tx # "signing" /\ tx' = "signing" => asked'.bet = pick]_deskVars

-----------------------------------------------------------------------------
(* Why the pages are honest *)

BetTxs == [kind : {"bet"}, hash : 1..builds,
           bet : [outcome : Outcomes, amount : Amounts]]

Bets == {t \in {prepared, asked} \cup sent : t.kind = "bet"}

Placed(bet) == side[User] = bet.outcome /\ stake[User] >= bet.amount

\* A blockhash names one bet, wherever its transaction is, and is processed once;
\* what was processed without an error is in the position.
SlipInv ==
  /\ builds \in Nat
  /\ pick \in {NoPick} \cup [outcome : Outcomes, amount : Amounts]
  /\ {prepared, asked} \subseteq BetTxs \cup {NoTx}
  /\ sent \subseteq BetTxs \cup {claimTx("winnings"), claimTx("refund")}
  /\ \A t, u \in Bets : t.hash = u.hash => t = u
  /\ DOMAIN fate \subseteq 1..builds
  /\ \A t \in Bets : Processed(t.hash, "ok") => Placed(t.bet)
  /\ \A t \in sent \cap Bets : t.hash \notin DOMAIN fate
  /\ tx \in {"signing", "confirming", "confirmed"} => asked # NoTx
  /\ tx = "confirmed" => Processed(asked.hash, "ok")
=============================================================================
