-------------------------- MODULE CatalogueSettler --------------------------
(***************************************************************************)
(* The keeper's settler of compound markets.  On the final record of a     *)
(* fixture it walks the catalogue once, one market after the other: read   *)
(* the account, and if it is unresolved attempt, with bounded retries, to  *)
(* fetch a proof, choose the outcome to claim, lock the market if it is    *)
(* open, settle it, and announce the receipt.                              *)
(*                                                                         *)
(* As in Keeper, an await on a call is an answer, which takes effect or    *)
(* fails, and a step that resumes on it; bettors, other cranks (the sweep  *)
(* of the same process is one) and the clocks run in between.  The order   *)
(* of the walk is left open.                                               *)
(***************************************************************************)
EXTENDS Catalogue

CONSTANTS
  Types,        (* the catalogue types that are considered                 *)
  NoType,
  Finals,       (* possible final statistics: functions from stat keys     *)
  MaxUnstaked,  (* bounds the outcomes nobody backs at first               *)
  LockTime,     (* lock_time of the markets                                *)
  MaxTime,      (* bounds the clocks                                       *)
  MaxAttempts,  (* settleMaxAttempts                                       *)
  MaxLosses     (* bounds crashes, failed and unconfirmed calls            *)

ASSUME CatalogueAssumption == Types \subseteq DOMAIN CATALOGUE /\ NoType \notin Types
\* the statistics are counts.
ASSUME FinalsAssumption == Finals \subseteq [StatKeys -> Nat]
ASSUME SettlerBounds ==
  /\ LockTime \in Nat /\ MaxTime \in Nat
  /\ MaxAttempts \in Nat \ {0} /\ MaxLosses \in Nat

VARIABLES
  clock,     (* the chain's clock                                          *)
  final,     (* the fixture's final statistics                             *)
  published, (* the daily root that attests them is on chain               *)
  status,    (* per type, Market.status, or "absent"                       *)
  unstaked,  (* per type, the outcomes whose pool is empty                 *)
  sender,    (* per type, who sent the transaction that resolved it        *)
  started,   (* finalisedSeq: "no", "unsaved" or "saved"                   *)
  walk,      (* where the walk and its present attempt are                 *)
  cache,     (* proofCache: the key lists that have been proven            *)
  announced, (* per type, whether a receipt has been announced             *)
  losses

markets == <<status, unstaked, sender>>
world   == <<clock, final, published>>
vars == <<clock, final, published, status, unstaked, sender, started,
          walk, cache, announced, losses>>

Resolutions == {"settled", "cancelled"}
Statuses    == {"absent", "open", "locked"} \cup Resolutions
Calls       == {"read", "status", "proof", "lock", "settle", "after"}

\* "fault": the call failed; "lost": the transaction landed unconfirmed.
Replies     == {"waiting", "ok", "AlreadyResolved", "InvalidStatProof",
                "refused", "fault", "lost"} \cup Statuses

OutcomesOf(t) == DOMAIN CATALOGUE[t].outcomes

\* the proven values of the legs, and the outcome they show.
Values(t)  == [i \in DOMAIN CATALOGUE[t].legs |-> final[CATALOGUE[t].legs[i]]]
Claimed(t) == claimedOutcomeFor(CATALOGUE[t], Values(t))

\* saw and zero: the status, and whether a pool was empty, in the account the
\* attempt read; n: the attempt.
NoWalk == [pc |-> "idle", at |-> NoType, todo |-> {}, n |-> 0,
           reply |-> "waiting", saw |-> "absent", zero |-> FALSE]

TypeOK ==
  /\ clock \in Nat
  /\ final \in Finals
  /\ published \in BOOLEAN
  /\ status \in [Types -> Statuses]
  /\ \A t \in Types : unstaked[t] \subseteq OutcomesOf(t)
  /\ sender \in [Types -> {"nobody", "keeper", "stranger"}]
  /\ started \in {"no", "unsaved", "saved"}
  /\ walk \in [pc : {"idle", "next", "backoff"} \cup Calls,
               at : Types \cup {NoType}, todo : SUBSET Types,
               n : 0..MaxAttempts, reply : Replies,
               saw : Statuses, zero : BOOLEAN]
  /\ cache \subseteq {CATALOGUE[t].legs : t \in Types}
  /\ announced \in [Types -> BOOLEAN]
  /\ losses \in Nat

Init ==
  /\ clock = 0
  /\ final \in Finals
  /\ published = FALSE
  /\ status \in [Types -> {"absent", "open"}]
  /\ unstaked \in {u \in [Types -> SUBSET (UNION {OutcomesOf(t) : t \in Types})] :
                     \A t \in Types : /\ u[t] \subseteq OutcomesOf(t)
                                      /\ Cardinality(u[t]) <= MaxUnstaked}
  /\ sender = [t \in Types |-> "nobody"]
  /\ started = "no" /\ walk = NoWalk /\ cache = {}
  /\ announced = [t \in Types |-> FALSE]
  /\ losses = 0

-----------------------------------------------------------------------------
(* The program, the oracle and the other users *)

Loses == losses < MaxLosses /\ losses' = losses + 1

CanLock(t) == status[t] = "open" /\ clock >= LockTime

Lock(t) == /\ status' = [status EXCEPT ![t] = "locked"]
           /\ UNCHANGED <<unstaked, sender>>

Resolve(t, st, who) ==
  /\ status' = [status EXCEPT ![t] = st]
  /\ sender' = [sender EXCEPT ![t] = who]
  /\ UNCHANGED unstaked

\* settle_market_v3 wants a verified outcome of a locked market; if nobody
\* backed it, the market is cancelled instead.
CanSettle(t, o) ==
  /\ status[t] = "locked"
  /\ published
  /\ evaluate_strategy(CATALOGUE[t].outcomes[o], Values(t)) = "true"

Settle(t, o, who) ==
  Resolve(t, IF o \in unstaked[t] THEN "cancelled" ELSE "settled", who)

Bet(t) ==
  /\ status[t] = "open" /\ clock < LockTime
  /\ \E o \in unstaked[t] : unstaked' = [unstaked EXCEPT ![t] = @ \ {o}]
  /\ UNCHANGED <<world, status, sender, started, walk, cache, announced,
                 losses>>

\* Other cranks; a market that is locked may be past its deadline.
Stranger(t) ==
  /\ \/ CanLock(t) /\ Lock(t)
     \/ \E o \in OutcomesOf(t) : CanSettle(t, o) /\ Settle(t, o, "stranger")
     \/ status[t] = "locked" /\ Resolve(t, "cancelled", "stranger")
  /\ UNCHANGED <<world, started, walk, cache, announced, losses>>

Tick ==
  /\ clock < MaxTime /\ clock' = clock + 1
  /\ UNCHANGED <<final, published, markets, started, walk, cache, announced,
                 losses>>

Publish ==
  /\ ~published /\ published' = TRUE
  /\ UNCHANGED <<clock, final, markets, started, walk, cache, announced,
                 losses>>

-----------------------------------------------------------------------------
(* The calls of the walk, answered *)

Replied(reply) == walk' = [walk EXCEPT !.reply = reply]

\* a transaction lands, confirmed or not.
Confirmed ==
  \/ Replied("ok") /\ UNCHANGED losses
  \/ Replied("lost") /\ Loses

AnswerRead(t) ==
  /\ walk.pc \in {"read", "status", "after"}
  /\ walk' = [walk EXCEPT !.reply = status[t],
                         !.zero = walk.pc = "status" /\ unstaked[t] # {}]
  /\ UNCHANGED <<markets, losses>>

AnswerProof ==
  walk.pc = "proof" /\ Replied("ok") /\ UNCHANGED <<markets, losses>>

AnswerLock(t) ==
  /\ walk.pc = "lock"
  /\ \/ CanLock(t) /\ Lock(t) /\ Confirmed
     \/ ~CanLock(t) /\ Replied("refused") /\ UNCHANGED <<markets, losses>>

AnswerSettle(t, o) ==
  /\ walk.pc = "settle"
  /\ \/ CanSettle(t, o) /\ Settle(t, o, "keeper") /\ Confirmed
     \/ /\ ~CanSettle(t, o)
        /\ Replied(IF status[t] \in Resolutions THEN "AlreadyResolved"
                   ELSE IF status[t] = "locked" /\ ~published
                        THEN "InvalidStatProof" ELSE "refused")
        /\ UNCHANGED <<markets, losses>>

Answer ==
  /\ walk.pc \in Calls /\ walk.reply = "waiting"
  /\ \/ AnswerRead(walk.at)
     \/ AnswerProof
     \/ AnswerLock(walk.at)
     \/ AnswerSettle(walk.at, Claimed(walk.at))
     \/ Replied("fault") /\ Loses /\ UNCHANGED markets
  /\ UNCHANGED <<world, started, cache, announced>>

-----------------------------------------------------------------------------
(* settleFixture *)

\* onFinalised: the first final record of the fixture, and no other.
Start ==
  /\ started = "no"
  /\ started' = "unsaved"
  /\ walk' = [NoWalk EXCEPT !.pc = "next", !.todo = Types]
  /\ UNCHANGED <<world, markets, cache, announced, losses>>

\* from an await to the next one, with what is known of the account.
Await(pc, saw, zero) ==
  walk' = [walk EXCEPT !.pc = pc, !.reply = "waiting", !.saw = saw, !.zero = zero]

Goto(pc) == Await(pc, "absent", FALSE)

\* the loop goes on with the next market, whatever became of this one.
Done == walk' = [NoWalk EXCEPT !.pc = "next", !.todo = walk.todo]

Pick ==
  /\ walk.pc = "next"
  /\ \E t \in walk.todo :
       walk' = [walk EXCEPT !.pc = "read", !.at = t, !.todo = @ \ {t}]
  /\ UNCHANGED <<cache, announced>>

Finish ==
  /\ walk.pc = "next" /\ walk.todo = {}
  /\ walk' = NoWalk
  /\ cache' = {}
  /\ UNCHANGED announced

Resumes(pc, replies) == walk.pc = pc /\ walk.reply \in replies

AfterRead ==
  /\ \/ /\ Resumes("read", {"open", "locked"})
        /\ walk' = [walk EXCEPT !.pc = "status", !.reply = "waiting", !.n = 1]
     \/ Resumes("read", {"absent", "fault"} \cup Resolutions) /\ Done
  /\ UNCHANGED <<cache, announced>>

-----------------------------------------------------------------------------
(* attempt *)

\* the catch block, for an error that is worth another attempt.
Retry ==
  IF walk.n >= MaxAttempts THEN Done
  ELSE Goto("backoff")

\* Mutant of Backoff: attempts are not counted.
BackoffUncounted ==
  /\ walk.pc = "backoff"
  /\ Goto("status")
  /\ UNCHANGED <<cache, announced>>

Backoff ==
  /\ walk.pc = "backoff"
  /\ walk' = [walk EXCEPT !.pc = "status", !.n = @ + 1]
  /\ UNCHANGED <<cache, announced>>

\* Mutant of Decide: the pools are not looked at.
DecideBlind(saw, zero) ==
  \/ Retry
  \/ /\ Claimed(walk.at) # NoClaim
     /\ \/ saw = "open" /\ (Done \/ Goto("lock"))
        \/ saw = "locked" /\ Goto("settle")

\* With the answer at hand, retry if it is no proof of these legs; nothing is
\* claimed unless the values show an outcome; an open market is left alone inside
\* its betting window, by the keeper's clock, which is not the chain's; and it is
\* not locked when a pool was empty in the account that was read before the proof.
Decide(saw, zero) ==
  \/ Retry
  \/ /\ Claimed(walk.at) # NoClaim
     /\ \/ saw = "open" /\ Done
        \/ saw = "open" /\ ~zero /\ Goto("lock")
        \/ saw = "locked" /\ Goto("settle")

AfterStatus ==
  /\ \/ Resumes("status", {"absent"} \cup Resolutions) /\ Done
     \/ Resumes("status", {"fault"}) /\ Retry
     \/ /\ Resumes("status", {"open", "locked"})
        /\ IF CATALOGUE[walk.at].legs \in cache
           THEN Decide(walk.reply, walk.zero)
           ELSE Await("proof", walk.reply, walk.zero)
  /\ UNCHANGED <<cache, announced>>

AfterProof ==
  /\ \/ /\ Resumes("proof", {"ok"})
        /\ cache' = cache \cup {CATALOGUE[walk.at].legs}
        /\ Decide(walk.saw, walk.zero)
     \/ Resumes("proof", {"fault"}) /\ Retry /\ UNCHANGED cache
  /\ UNCHANGED announced

\* a refusal has an error code, and is not retried.
AfterLock ==
  /\ \/ Resumes("lock", {"ok"}) /\ Goto("settle")
     \/ Resumes("lock", {"refused"}) /\ Done
     \/ Resumes("lock", {"fault", "lost"}) /\ Retry
  /\ UNCHANGED <<cache, announced>>

AfterSettle ==
  /\ \/ Resumes("settle", {"ok"}) /\ Goto("after")
     \/ Resumes("settle", {"AlreadyResolved", "refused"}) /\ Done
     \/ Resumes("settle", {"InvalidStatProof", "fault", "lost"}) /\ Retry
  /\ UNCHANGED <<cache, announced>>

\* announce: whatever the status that was read back.
AfterAfter ==
  /\ \/ /\ Resumes("after", Statuses)
        /\ announced' = [announced EXCEPT ![walk.at] = TRUE]
        /\ Done
     \/ Resumes("after", {"fault"}) /\ Retry /\ UNCHANGED announced
  /\ UNCHANGED cache

Step ==
  /\ \/ Pick \/ AfterRead \/ Backoff \/ AfterStatus \/ AfterProof
     \/ AfterLock \/ AfterSettle \/ AfterAfter \/ Finish
  /\ UNCHANGED <<world, markets, started, losses>>

-----------------------------------------------------------------------------
(* The store and crashes *)

Save ==
  /\ started = "unsaved" /\ started' = "saved"
  /\ UNCHANGED <<world, markets, walk, cache, announced, losses>>

\* The walk is lost; it is begun again only if its beginning was not saved.
Crash ==
  /\ Loses
  /\ started' = IF started = "saved" THEN started ELSE "no"
  /\ walk' = NoWalk /\ cache' = {}
  /\ UNCHANGED <<world, markets, announced>>

Next ==
  \/ \E t \in Types : Bet(t) \/ Stranger(t)
  \/ Tick \/ Publish
  \/ Start \/ Answer \/ Step \/ Save \/ Crash

Spec == Init /\ [][Next]_vars

\* Calls are answered, timers fire and callbacks run.
FairSpec == Spec /\ WF_vars(Answer) /\ WF_vars(Step)

-----------------------------------------------------------------------------
(* Correctness properties *)

\* The walk ends: no market of a fixture keeps it for ever from the others.
WalkEnds == walk.pc # "idle" ~> walk.pc = "idle"

\* "Would route to Cancelled ... Refuse": when the settler locks a market itself,
\* every outcome is backed, although it looked at the pools several awaits ago.
LocksOnlyStaked ==
  walk.pc = "lock" => unstaked[walk.at] = {}

\* What the settler claims, by its own evaluation of the proven values, is what
\* the oracle would verify, by another one: its claims are never refused for
\* being wrong.
ClaimsVerify ==
  walk.pc \in {"lock", "settle"} =>
    LET t == walk.at
    IN  /\ Claimed(t) # NoClaim
        /\ evaluate_strategy(CATALOGUE[t].outcomes[Claimed(t)], Values(t))
             = "true"

\* A receipt is announced, with the signature of the settler's transaction,
\* only for a market which that transaction resolved.
ReceiptNamesTheResolver ==
  \A t \in Types : announced[t] => status[t] \in Resolutions /\ sender[t] = "keeper"

\* "would route to Cancelled and earn no receipt" (catalogueSettler.ts).
RefundsEarnNoReceipt ==
  \A t \in Types : announced[t] => status[t] = "settled"

\* "Together they cover every possible world" (catalogue.ts): whatever the final
\* statistics, one outcome of every market is provable, and only one.
OneOutcomeIsTrue ==
  \A t \in DOMAIN CATALOGUE : Partition(CATALOGUE[t], {Values(t)})
=============================================================================
