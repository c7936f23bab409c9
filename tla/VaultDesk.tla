------------------------------ MODULE VaultDesk ------------------------------
(***************************************************************************)
(* The vault page and the prop-vault script at work on one vault, with     *)
(* strangers calling the program beside them.  A vault pins the period its *)
(* proof must carry, for good; TxLINE proves the fixture at the period of  *)
(* its best record, which retention changes.  The page probes a fixture    *)
(* before it opens a vault, lists the vaults it reads from chain, asks     *)
(* once per fixture at which period it is proven today, and offers to      *)
(* settle or to refund by what it knows; a transaction it signs may land   *)
(* after the page has given up on it.                                      *)
(*                                                                         *)
(* One unit of time is the two hours the code allows for a match.          *)
(***************************************************************************)
EXTENDS PropVault

CONSTANTS
  User,          (* the wallet of the page and of the script               *)
  Kickoff,
  Timeout,       (* the resolution timeout both give their vaults          *)
  MaxLosses      (* bounds the transactions that expire                    *)

VARIABLES
  record,        (* external: the period of TxLINE's best record           *)
  result,        (* external: whether the final statistics exceed the line *)
  pinned,        (* the period of the vault's legs                         *)
  opener,        (* history: who opened the vault                          *)
  probe,         (* the page: what it knows of the fixture that is picked  *)
  row,           (* the page: the status it last read of the vault         *)
  livePeriod,    (* the page: its answer for the fixture, asked once       *)
  sent,          (* the transactions on their way                          *)
  busy,          (* the one the page waits for                             *)
  notice,        (* the page: what it last announced                       *)
  losses

desk     == <<probe, row, livePeriod, busy, notice>>
match    == <<record, result>>
network  == <<sent, losses>>
deskVars == <<vars, match, pinned, opener, desk, network>>

Nothing  == -1
GONE     == -3
INPLAY   == 2
FINALISED == 100
TRIMMED  == 5
Finals   == {FINALISED, TRIMMED}
Unasked  == -2
NoProbe  == [period |-> Nothing, provable |-> FALSE]
Idle     == [kind |-> "idle"]

DeskInit ==
  /\ Init
  /\ record = Nothing /\ result \in BOOLEAN
  /\ pinned = Nothing /\ opener = "nobody"
  /\ probe = NoProbe /\ row = "unread" /\ livePeriod = Unasked
  /\ sent = {} /\ busy = Idle /\ notice = "none" /\ losses = 0

-----------------------------------------------------------------------------
(* What the two clients know of the match *)

\* The page trusts finalised records only.  Without one a match that should be
\* over is refused, and one to come will be proven as finalised.
\* Mutant of Probed: the best record, finalised or not.
ProbedBest(kickoff) ==
  IF record \in Finals \cup {INPLAY} THEN {[period |-> record, provable |-> TRUE]}
  ELSE IF kickoff + 1 < now THEN {}
  ELSE {[period |-> FINALISED, provable |-> FALSE]}

Probed(kickoff) ==
  IF record \in Finals THEN {[period |-> record, provable |-> TRUE]}
  ELSE IF kickoff + 1 < now THEN {}
  ELSE {[period |-> FINALISED, provable |-> FALSE]}

\* What a proof of the best record says: the corners so far may not be enough.
Claims == IF record = INPLAY THEN {FALSE, result} ELSE {result}

\* the page: pick a fixture.
PickFixture ==
  /\ busy = Idle
  /\ \/ probe' \in Probed(Kickoff)
     \/ Probed(Kickoff) = {} /\ probe' = NoProbe
  /\ UNCHANGED <<vars, match, pinned, opener, row, livePeriod, busy, notice, network>>

\* the page: read the vaults.
refreshVaults ==
  /\ row' = status
  /\ UNCHANGED <<vars, match, pinned, opener, probe, livePeriod, busy, notice, network>>

\* the page, once for the fixture of a funded vault: as of a match long over.
AskLivePeriod ==
  /\ row = "Funded" /\ livePeriod = Unasked
  /\ livePeriod' = IF record \in Finals THEN record ELSE Nothing
  /\ UNCHANGED <<vars, match, pinned, opener, probe, row, busy, notice, network>>

Reload ==
  /\ probe' = NoProbe /\ row' = "unread" /\ livePeriod' = Unasked
  /\ busy' = Idle /\ notice' = "none"
  /\ UNCHANGED <<vars, match, pinned, opener, network>>

-----------------------------------------------------------------------------
(* What the clients send.  Bounds: nobody opens a second vault, the clock     *)
(* reaches every deadline, and one transaction of a kind is on its way.       *)

create(by, beneficiaryOf, a, period, lock) ==
  [kind |-> "create", by |-> by, beneficiary |-> beneficiaryOf, amount |-> a,
   period |-> period, lock |-> lock]
settle(period, holds) == [kind |-> "settle", period |-> period, holds |-> holds]
refund == [kind |-> "refund"]

OneVault(lock) ==
  /\ status = "Absent" /\ \A t \in sent : t.kind # "create"
  /\ lock + Timeout < MaxTime

FirstOfItsKind(t) == \A s \in sent : s.kind # t.kind

\* signSendConfirm, up to the signature.
signSend(t) ==
  /\ busy = Idle /\ FirstOfItsKind(t)
  /\ sent' = sent \cup {t} /\ busy' = t
  /\ notice' = "none"
  /\ UNCHANGED <<vars, match, pinned, opener, probe, row, livePeriod, losses>>

PageCreate(b, a) ==
  LET lock == IF probe.provable THEN now + 1 ELSE Kickoff + 1
  IN  /\ probe # NoProbe /\ b # User /\ a > 0
      /\ OneVault(lock)
      /\ signSend(create("page", b, a, probe.period, lock))

stranded   == livePeriod # Unasked /\ livePeriod # pinned
settleable == row = "Funded" /\ ~stranded /\ lockTime < now
\* Mutant of refundable: only when there is no other way.
refundableIfStranded == row = "Funded" /\ stranded /\ Deadline < now
refundable == row = "Funded" /\ Deadline < now

PageSettle ==
  /\ settleable
  /\ \E p \in Probed(Kickoff) : p.provable /\ signSend(settle(p.period, result))

PageRefund ==
  /\ refundable
  /\ signSend(refund)

\* The script does not wait for what it did not send itself.
scriptSend(t) ==
  /\ FirstOfItsKind(t)
  /\ sent' = sent \cup {t}
  /\ UNCHANGED <<vars, match, pinned, opener, desk, losses>>

ScriptCreate(b, a) ==
  /\ record \notin {Nothing, GONE} /\ b # User
  /\ OneVault(now + 1)
  /\ scriptSend(create("script", b, a, record, now + 1))

ScriptSettle ==
  /\ status # "Absent" /\ record \notin {Nothing, GONE}
  /\ \E holds \in Claims : scriptSend(settle(record, holds))

ScriptRefund ==
  /\ status # "Absent" /\ now > Deadline
  /\ scriptSend(refund)

-----------------------------------------------------------------------------
(* The program executes a transaction, or refuses it *)

Execute(t) ==
  \/ /\ t.kind = "create"
     /\ InitializePropVault(User, t.beneficiary, t.amount, t.lock, Timeout)
     /\ pinned' = t.period /\ opener' = t.by
  \/ /\ t.kind = "settle" /\ t.period = pinned
     /\ SettlePropVault(t.holds)
     /\ UNCHANGED <<pinned, opener>>
  \/ /\ t.kind = "refund"
     /\ CancelPropVault
     /\ UNCHANGED <<pinned, opener>>

Refused(t) ==
  CASE t.kind = "create" -> status # "Absent" \/ t.lock <= now \/ funds[User] < t.amount
    [] t.kind = "settle" -> \/ status # "Funded" \/ now < lockTime
                            \/ t.period # pinned \/ t.holds \notin verdicts
    [] t.kind = "refund" -> status # "Funded" \/ now <= Deadline

Announced(t) ==
  CASE t.kind = "create" -> "opened"
    [] t.kind = "settle" -> IF t.holds THEN "paid" ELSE "returned"
    [] t.kind = "refund" -> "refunded"

\* The confirmation the page polls for: success is announced, and the vaults are
\* read again.  The page may also be gone, or have given up.
\* Mutant of Landed: whatever became of the transaction.
LandedAnyway(t) ==
  /\ t \in sent
  /\ Execute(t) \/ (Refused(t) /\ UNCHANGED <<vars, pinned, opener>>)
  /\ sent' = sent \ {t}
  /\ IF busy = t
     THEN busy' = Idle /\ notice' = Announced(t) /\ row' = status'
     ELSE UNCHANGED <<busy, notice, row>>
  /\ UNCHANGED <<match, probe, livePeriod, losses>>

Landed(t) ==
  /\ t \in sent
  /\ sent' = sent \ {t}
  /\ \/ /\ Execute(t)
        /\ IF busy = t
           THEN busy' = Idle /\ notice' = Announced(t) /\ row' = status'
           ELSE UNCHANGED <<busy, notice, row>>
     \/ /\ Refused(t)
        /\ busy' = IF busy = t THEN Idle ELSE busy
        /\ UNCHANGED <<vars, pinned, opener, notice, row>>
  /\ UNCHANGED <<match, probe, livePeriod, losses>>

\* a blockhash too old.
Expired(t) ==
  /\ t \in sent /\ losses < MaxLosses
  /\ sent' = sent \ {t} /\ losses' = losses + 1
  /\ busy' = IF busy = t THEN Idle ELSE busy
  /\ UNCHANGED <<vars, match, pinned, opener, probe, row, livePeriod, notice>>

\* "It may still land".
GiveUp ==
  /\ busy # Idle
  /\ busy' = Idle
  /\ UNCHANGED <<vars, match, pinned, opener, probe, row, livePeriod, notice, network>>

-----------------------------------------------------------------------------
(* The surroundings *)

\* A stranger's vault, and a stranger's call.
StrangerCreate(d, b, a, lock, timeout, period) ==
  /\ d # User /\ OneVault(lock)
  /\ InitializePropVault(d, b, a, lock, timeout)
  /\ pinned' = period /\ opener' = "stranger"
  /\ UNCHANGED <<match, desk, network>>

StrangerCall ==
  /\ \/ \E holds \in BOOLEAN : SettlePropVault(holds)
     \/ CancelPropVault
     \/ \E w \in Wallets \ {User}, a \in Amounts : Donate(w, a)
     \/ Tick
  /\ UNCHANGED <<match, pinned, opener, desk, network>>

\* External: play begins, ends, and retention replaces the final record, or drops it.
Retention ==
  /\ \/ now >= Kickoff /\ record = Nothing /\ record' = INPLAY
     \/ record = INPLAY /\ record' = FINALISED
     \/ record = FINALISED /\ record' = TRIMMED
     \/ record = TRIMMED /\ record' = GONE
  /\ UNCHANGED <<vars, result, pinned, opener, desk, network>>

\* External: the roots make one more truth value provable at the pinned period.
PublishRoots ==
  /\ \/ record \in Finals /\ pinned \in Finals /\ Publish(result)
     \/ /\ record = INPLAY /\ pinned = INPLAY
        /\ \E holds \in Claims : Publish(holds)
  /\ UNCHANGED <<match, pinned, opener, desk, network>>

DeskNext ==
  \/ PickFixture \/ refreshVaults \/ AskLivePeriod \/ Reload
  \/ \E b \in Wallets, a \in Amounts : PageCreate(b, a) \/ ScriptCreate(b, a)
  \/ PageSettle \/ PageRefund \/ ScriptSettle \/ ScriptRefund
  \/ \E t \in sent : Landed(t) \/ Expired(t)
  \/ GiveUp
  \/ \E d, b \in Wallets, a \in Amounts, lock \in LockTimes, timeout \in Timeouts,
        period \in Finals : StrangerCreate(d, b, a, lock, timeout, period)
  \/ StrangerCall
  \/ Retention \/ PublishRoots

DeskSpec == DeskInit /\ [][DeskNext]_deskVars

\* Time passes, and somebody keeps the page open: it reads the vaults, the refund
\* it offers is clicked, it gives up waiting after a minute, and a refund arrives
\* unless it expires.
DeskFairSpec ==
  /\ DeskSpec
  /\ WF_deskVars(Tick /\ UNCHANGED <<match, pinned, opener, desk, network>>)
  /\ WF_deskVars(refreshVaults /\ row' # row)
  /\ SF_deskVars(PageRefund)
  /\ WF_deskVars(GiveUp)
  /\ WF_deskVars(Landed(refund))

-----------------------------------------------------------------------------
(* Correctness properties *)

\* What the page announces is so, whoever else was at the vault meanwhile, and
\* even if an earlier transaction landed after the page had given up on it.
NoticesAreTrue ==
  /\ notice = "opened" => status # "Absent"
  /\ notice = "paid" => status = "PaidOut"
  /\ notice \in {"returned", "refunded"} => status = "Refunded"

\* "We never guess" (vault/page.tsx): a vault opened on the page is decided by the
\* final statistics, whoever settles it, or by the timeout.
ResultDecides ==
  [][opener = "page" /\ status = "Funded" =>
       /\ status' = "PaidOut" => result
       /\ status' = "Refunded" => ~result \/ now > Deadline]_deskVars

-----------------------------------------------------------------------------
(* Why the result decides *)

\* The page pins a final period only, what it sends carries the period it probed,
\* and no root decides a vault that pins a final period but the final one.
ResultInv ==
  /\ probe # NoProbe => probe.period \in Finals
  /\ \A t \in sent : t.kind = "create" /\ t.by = "page" => t.period \in Finals
  /\ opener = "page" => pinned \in Finals
  /\ status = "Absent" => pinned = Nothing /\ verdicts = {}
  /\ pinned \in Finals => verdicts \subseteq {result}
=============================================================================
