------------------------------ MODULE Backfill ------------------------------
(***************************************************************************)
(* The operator's backfill of one past fixture.  A planning script writes  *)
(* down which terminal record TxLINE still proves.  The catalogue script   *)
(* reads that plan, creates a compound market of every type and stakes all *)
(* its outcomes, waits for the betting windows to close, and settles.  It  *)
(* is meant to be run again until nothing is left to do.                   *)
(*                                                                         *)
(* A step is one call to the chain or to TxLINE with what the script does  *)
(* on its answer: that touches nothing but the script's own variables, so  *)
(* other actors may as well come before or after it.  A process may end    *)
(* between any two steps.  That the script's own stakes are the only ones  *)
(* loses nothing: others can only fill what is empty.                      *)
(***************************************************************************)
EXTENDS Integers, FiniteSets

CONSTANTS
  Types, NoType,
  Batches,      (* Types -> how many transactions the stakes take           *)
  KeysOf,       (* Types -> the statistics the proof covers                 *)
  MaxAttempts,  (* of withRetry                                             *)
  MaxLosses     (* bounds crashes, failed and unconfirmed calls             *)

ASSUME TypesAssumption   == NoType \notin Types /\ DOMAIN KeysOf = Types
ASSUME BatchesAssumption == Batches \in [Types -> Nat \ {0}]
ASSUME BoundsAssumption  == MaxAttempts \in Nat \ {0} /\ MaxLosses \in Nat

VARIABLES
  record,  (* what TxLINE retains: "playing", "final", "trimmed" or "gone"  *)
  root,    (* the daily root that attests it is on chain                    *)
  plan,    (* plan.json                                                     *)
  status,  (* per type, Market.status, or "absent"                          *)
  spec,    (* per type, the period its ComboSpec pins                       *)
  backed,  (* per type, the batches of outcomes that have stakes: 1..n      *)
  closed,  (* per type, lock_time has passed                                *)
  winner,  (* per type, the batch of the outcome that holds                 *)
  run,     (* where the catalogue script is                                 *)
  rows,    (* its report                                                    *)
  losses

markets == <<status, spec, backed>>
world   == <<record, root, winner>>
vars    == <<record, root, plan, status, spec, backed, closed, winner, run,
             rows, losses>>

None        == 0
Resolutions == {"settled", "cancelled"}
Whole(t)    == backed[t] = Batches[t]

\* The periods of the terminal records that can be proven: game_finalised goes
\* first, the end of regulation stays longer.
Periods == CASE record = "final"   -> {100, 5}
             [] record = "trimmed" -> {5}
             [] OTHER              -> {}

\* fx: the period the plan had at the launch; saw, zero: what it read of the
\* market at hand; waits: the markets whose windows it waits for.
Idle == [pc |-> "idle", create |-> FALSE, settle |-> FALSE, fx |-> None,
         at |-> NoType, todo |-> {}, n |-> 0, saw |-> "absent", zero |-> FALSE,
         waits |-> {}, cache |-> {}]

NoRows == [t \in Types |-> "none"]

Init ==
  /\ record = "playing" /\ root = FALSE
  /\ plan = [status |-> "not_finished", period |-> None]
  /\ status = [t \in Types |-> "absent"]
  /\ spec = [t \in Types |-> None]
  /\ backed = [t \in Types |-> 0]
  /\ closed = [t \in Types |-> FALSE]
  /\ winner \in {w \in [Types -> UNION {1..Batches[t] : t \in Types}] :
                   \A t \in Types : w[t] <= Batches[t]}
  /\ run = Idle /\ rows = NoRows
  /\ losses = 0

-----------------------------------------------------------------------------
(* TxLINE, the chain and the other users *)

Loses == losses < MaxLosses /\ losses' = losses + 1

Age ==
  /\ \/ record = "playing" /\ record' = "final"
     \/ record = "final" /\ record' = "trimmed"
     \/ record = "trimmed" /\ record' = "gone"
  /\ UNCHANGED <<root, plan, markets, closed, winner, run, rows, losses>>

PublishRoot ==
  /\ ~root /\ record # "playing" /\ root' = TRUE
  /\ UNCHANGED <<record, plan, markets, closed, winner, run, rows, losses>>

CloseWindow(t) ==
  /\ status[t] # "absent" /\ ~closed[t]
  /\ closed' = [closed EXCEPT ![t] = TRUE]
  /\ UNCHANGED <<world, plan, markets, run, rows, losses>>

CanLock(t) == status[t] = "open" /\ closed[t]
Lock(t)    == status' = [status EXCEPT ![t] = "locked"]

\* settle_market_v3: the leaves of the proof must be those the spec pins, and
\* what nobody backed becomes refundable.
CanSettle(t, period) ==
  /\ status[t] = "locked"
  /\ root /\ spec[t] = period
Settle(t) ==
  status' = [status EXCEPT
    ![t] = IF winner[t] <= backed[t] THEN "settled" ELSE "cancelled"]

\* Other cranks, the keeper's own settler among them.
Stranger(t) ==
  /\ \/ CanLock(t) /\ Lock(t)
     \/ (\E period \in Periods : CanSettle(t, period)) /\ Settle(t)
     \/ status[t] = "locked" /\ status' = [status EXCEPT ![t] = "cancelled"]
  /\ UNCHANGED <<world, plan, spec, backed, closed, run, rows, losses>>

-----------------------------------------------------------------------------
(* The plan *)

Preferred == IF 100 \in Periods THEN 100 ELSE 5

\* planFixture: a terminal record whose proof and root are there is
\* settleable; a call that fails leaves the fixture without a proof.
PlanFixture ==
  /\ \/ /\ Periods # {} /\ UNCHANGED losses
        /\ plan' = [status |-> IF root THEN "settleable" ELSE "no_root",
                    period |-> Preferred]
     \/ /\ record = "playing" /\ UNCHANGED losses
        /\ plan' \in [status : {"not_finished", "no_proof"}, period : {None}]
     \/ /\ \/ record = "gone" /\ UNCHANGED losses
           \/ record # "playing" /\ Loses
        /\ plan' = [status |-> "no_proof", period |-> None]
  /\ UNCHANGED <<world, markets, closed, run, rows>>

-----------------------------------------------------------------------------
(* The catalogue script *)

\* The script is started on a settleable fixture, with PHASE all, create or
\* settle.
Launch(create, settle) ==
  /\ run.pc = "idle" /\ plan.status = "settleable"
  /\ run' = [Idle EXCEPT !.pc = IF create THEN "create" ELSE "settle",
                         !.create = create, !.settle = settle,
                         !.fx = plan.period, !.todo = Types]
  /\ rows' = NoRows
  /\ UNCHANGED <<world, plan, markets, closed, losses>>

At(pc, t) == run.pc = pc /\ run.at = t

\* the market at hand: on to the next call, or to the next market.
Call(pc) == run' = [run EXCEPT !.pc = pc, !.n = 1]
Leave(pc, t, waits) ==
  run' = [run EXCEPT !.pc = pc, !.at = NoType, !.todo = @ \ {t}, !.n = 0,
                     !.saw = "absent", !.zero = FALSE, !.waits = @ \cup waits]
NextMarket(t) == Leave("create", t, {})

Row(t, st) == /\ rows' = [rows EXCEPT ![t] = st]
              /\ Leave("settle", t, {})

\* withRetry: a transient fault calls pc again, unless the attempts are used
\* up; any other fault gives up.
Retry(pc) == /\ run.n < MaxAttempts
             /\ run' = [run EXCEPT !.pc = pc, !.n = @ + 1]
RetryCreation(t) == Retry("init") \/ NextMarket(t)
RetryOrFail(pc, t) == \/ Retry(pc) /\ UNCHANGED rows
                      \/ Row(t, "failed")

\* A transaction that may be executed, confirmed or not, goes on with Then; a
\* call that has not come to a good end goes on with Otherwise.
Transact(can, effect, Then, Otherwise) ==
  \/ can /\ effect /\ Then /\ UNCHANGED losses
  \/ can /\ effect /\ Otherwise /\ Loses

\* PHASE 1: a market that exists is staked if a pool is empty and betting is
\* open, and is left alone otherwise.
ReadForCreation(t) ==
  /\ run.pc = "create" /\ t \in run.todo
  /\ \/ Loses /\ NextMarket(t)
     \/ /\ UNCHANGED losses
        /\ CASE status[t] = "absent" ->
                  run' = [run EXCEPT !.pc = "balance", !.at = t]
             [] status[t] = "open" /\ ~Whole(t) /\ ~closed[t] ->
                  run' = [run EXCEPT !.pc = "stake", !.at = t, !.n = 1,
                                     !.waits = @ \cup {t}]
             [] status[t] = "open" /\ (Whole(t) \/ closed[t]) ->
                  Leave("create", t, {t})
             [] OTHER -> NextMarket(t)
  /\ UNCHANGED <<markets, closed, rows>>

\* below its SOL floor the script creates nothing more for the fixture.
CheckBalance(t) ==
  /\ At("balance", t)
  /\ \/ Call("init")
     \/ run' = [run EXCEPT !.pc = "create", !.at = NoType, !.todo = {}]
  /\ UNCHANGED <<markets, closed, rows, losses>>

\* initializeComboMarket, first transaction.
InitMarket(t) ==
  /\ At("init", t)
  /\ \/ /\ Transact(status[t] = "absent",
                    status' = [status EXCEPT ![t] = "open"],
                    run' = [run EXCEPT !.pc = "specRead"],
                    RetryCreation(t))
        /\ UNCHANGED <<spec, backed>>
     \/ /\ status[t] # "absent" /\ NextMarket(t)
        /\ UNCHANGED <<markets, losses>>
     \/ Loses /\ RetryCreation(t) /\ UNCHANGED markets
  /\ UNCHANGED <<closed, rows>>

\* ensureComboSpec: a read that fails shows no spec.
ReadSpec(t) ==
  /\ At("specRead", t)
  /\ \/ /\ UNCHANGED losses
        /\ run' = [run EXCEPT !.pc = IF spec[t] = None THEN "spec" ELSE "stake",
                              !.n = 1]
     \/ Loses /\ run' = [run EXCEPT !.pc = "spec"]
  /\ UNCHANGED <<markets, closed, rows>>

\* a retry starts over with the first transaction.
InitSpec(t) ==
  /\ At("spec", t)
  /\ \/ /\ Transact(status[t] = "open" /\ spec[t] = None,
                    spec' = [spec EXCEPT ![t] = run.fx],
                    Call("stake"),
                    RetryCreation(t))
        /\ UNCHANGED <<status, backed>>
     \/ /\ status[t] # "open" \/ spec[t] # None
        /\ NextMarket(t) /\ UNCHANGED <<markets, losses>>
     \/ Loses /\ RetryCreation(t) /\ UNCHANGED markets
  /\ UNCHANGED <<closed, rows>>

\* placeBetsAtomic, batch n; a failure is not retried.
Stake(t) ==
  /\ At("stake", t)
  /\ \/ /\ Transact(status[t] = "open" /\ ~closed[t],
                    backed' = [backed EXCEPT ![t] =
                                 IF run.n > @ THEN run.n ELSE @],
                    IF run.n < Batches[t] THEN run' = [run EXCEPT !.n = @ + 1]
                                          ELSE Leave("create", t, {t}),
                    NextMarket(t))
        /\ UNCHANGED <<status, spec>>
     \/ /\ status[t] # "open" \/ closed[t]
        /\ NextMarket(t) /\ UNCHANGED <<markets, losses>>
     \/ Loses /\ NextMarket(t) /\ UNCHANGED markets
  /\ UNCHANGED <<closed, rows>>

\* PHASE 2: until the last lock_time this process knows of has passed.
Wait ==
  /\ run.pc = "create" /\ run.todo = {}
  /\ \/ /\ run.settle /\ \A t \in run.waits : closed[t]
        /\ run' = [run EXCEPT !.pc = "settle", !.todo = Types, !.waits = {}]
     \/ ~run.settle /\ run' = Idle
  /\ UNCHANGED <<markets, closed, rows, losses>>

\* PHASE 3.
ReadForSettlement(t) ==
  /\ run.pc = "settle" /\ t \in run.todo
  /\ \/ Loses /\ Row(t, "failed")
     \/ /\ UNCHANGED losses
        /\ CASE status[t] = "absent"       -> Row(t, "skipped")
             [] status[t] \in Resolutions  -> Row(t, status[t])
             [] OTHER ->
                  /\ run' = [run EXCEPT !.pc = IF KeysOf[t] \in run.cache THEN "decide" ELSE "proof",
                                        !.at = t, !.n = 1,
                                        !.saw = status[t], !.zero = ~Whole(t)]
                  /\ UNCHANGED rows
  /\ UNCHANGED <<markets, closed>>

\* One proof serves all types with its keys, whatever becomes of the market.
FetchProof(t) ==
  /\ At("proof", t)
  /\ \/ /\ run.fx \in Periods
        /\ run' = [run EXCEPT !.pc = "decide", !.cache = @ \cup {KeysOf[t]}]
        /\ UNCHANGED <<rows, losses>>
     \/ run.fx \notin Periods /\ Row(t, "failed") /\ UNCHANGED losses
     \/ Loses /\ RetryOrFail("proof", t)
  /\ UNCHANGED <<markets, closed>>

\* Mutant of Decide: a market somebody else has locked is passed over.
DecideOpenOnly(t) ==
  /\ At("decide", t)
  /\ CASE run.saw # "open" \/ ~closed[t] -> Row(t, "skipped")
       [] run.saw = "open" /\ closed[t] /\ run.zero -> Row(t, "failed")
       [] OTHER -> Call("lock") /\ UNCHANGED rows
  /\ UNCHANGED <<markets, closed, losses>>

\* Mutant of Decide: the empty pools are not looked at.
DecideBlind(t) ==
  /\ At("decide", t)
  /\ IF run.saw = "open" /\ ~closed[t] THEN Row(t, "skipped")
     ELSE Call(IF run.saw = "open" THEN "lock" ELSE "send") /\ UNCHANGED rows
  /\ UNCHANGED <<markets, closed, losses>>

\* With the proof in hand: only a market seen open is checked for its window
\* and for empty pools, and locked.
Decide(t) ==
  /\ At("decide", t)
  /\ CASE run.saw = "open" /\ ~closed[t] -> Row(t, "skipped")
       [] run.saw = "open" /\ closed[t] /\ run.zero -> Row(t, "failed")
       [] OTHER -> Call(IF run.saw = "open" THEN "lock" ELSE "send") /\ UNCHANGED rows
  /\ UNCHANGED <<markets, closed, losses>>

LockMarket(t) ==
  /\ At("lock", t)
  /\ \/ Transact(CanLock(t), Lock(t), Call("send") /\ UNCHANGED rows,
                 RetryOrFail("lock", t))
     \/ /\ ~CanLock(t) /\ Row(t, "failed") /\ UNCHANGED <<status, losses>>
     \/ Loses /\ RetryOrFail("lock", t) /\ UNCHANGED status
  /\ UNCHANGED <<spec, backed, closed>>

\* The program refuses a proof whose leaves the spec does not pin.
SettleMarket(t) ==
  /\ At("send", t)
  /\ \/ Transact(CanSettle(t, run.fx), Settle(t), Call("after") /\ UNCHANGED rows,
                 RetryOrFail("send", t))
     \/ /\ ~CanSettle(t, run.fx)
        /\ Row(t, "failed") /\ UNCHANGED <<status, losses>>
     \/ Loses /\ RetryOrFail("send", t) /\ UNCHANGED status
  /\ UNCHANGED <<spec, backed, closed>>

\* Mutant of ReadBack: what was sent was a settlement.
ReadBackAssumed(t) ==
  /\ At("after", t)
  /\ Row(t, "settled") /\ UNCHANGED losses
  /\ UNCHANGED <<markets, closed>>

ReadBack(t) ==
  /\ At("after", t)
  /\ \/ Row(t, status[t]) /\ UNCHANGED losses
     \/ Row(t, "failed") /\ Loses
  /\ UNCHANGED <<markets, closed>>

Report ==
  /\ run.pc = "settle" /\ run.todo = {}
  /\ run' = Idle
  /\ UNCHANGED <<markets, closed, rows, losses>>

ScriptStep ==
  /\ \/ Wait \/ Report
     \/ \E t \in Types :
          \/ ReadForCreation(t) \/ CheckBalance(t) \/ InitMarket(t)
          \/ ReadSpec(t) \/ InitSpec(t) \/ Stake(t)
          \/ ReadForSettlement(t) \/ FetchProof(t) \/ Decide(t)
          \/ LockMarket(t) \/ SettleMarket(t) \/ ReadBack(t)
  /\ UNCHANGED <<world, plan>>

Crash ==
  /\ run.pc # "idle" /\ Loses
  /\ run' = Idle /\ rows' = NoRows
  /\ UNCHANGED <<world, plan, markets, closed>>

-----------------------------------------------------------------------------
Next ==
  \/ Age \/ PublishRoot \/ PlanFixture
  \/ Launch(TRUE, TRUE) \/ Launch(TRUE, FALSE) \/ Launch(FALSE, TRUE)
  \/ \E t \in Types : CloseWindow(t) \/ Stranger(t)
  \/ ScriptStep \/ Crash

Spec == Init /\ [][Next]_vars

\* Calls are answered, time passes, and the operator runs the script again.
FairSpec ==
  /\ Spec
  /\ WF_vars(ScriptStep) /\ SF_vars(Launch(TRUE, TRUE))
  /\ \A t \in Types : WF_vars(CloseWindow(t))

-----------------------------------------------------------------------------
(* Correctness properties *)

\* The report claims of no market what the chain does not say, however
\* retries, unconfirmed transactions and other cranks came about.  (It may
\* call failed what is settled.)
RowsAreTrue ==
  \A t \in Types : rows[t] \in Resolutions => status[t] = rows[t]

\* The script locks a market only with stakes on every outcome: "Would settle
\* straight to Cancelled and earn no receipt" (backfill-catalogue.ts:345).
LocksOnlyWhole ==
  [][\A t \in Types :
       run' # run /\ status[t] = "open" /\ status'[t] = "locked" => Whole(t)]_vars

\* What the plan says is provable, a market whole and with the plan's spec.
Provable(t) ==
  /\ Whole(t) /\ plan.status = "settleable"
  /\ spec[t] = plan.period /\ plan.period \in Periods

\* "Idempotent and resumable at every step ... a re-run skips what is already
\* done and finishes what is not" (backfill-catalogue.ts:22): a market that
\* stays provable is resolved in the end, whatever a crash left undone.
RunsFinishTheWall ==
  \A t \in Types : ([]<>Provable(t)) => <>(status[t] \in Resolutions)

-----------------------------------------------------------------------------
(* Why the script is safe: what it remembers across its calls *)

Steps == {"idle", "create", "balance", "init", "specRead", "spec", "stake",
          "settle", "proof", "decide", "lock", "send", "after"}

RunType == [pc : Steps, create : BOOLEAN, settle : BOOLEAN, fx : {None, 5, 100},
            at : Types \cup {NoType}, todo : SUBSET Types, n : Nat,
            saw : {"absent", "open", "locked"} \cup Resolutions, zero : BOOLEAN,
            waits : SUBSET Types, cache : SUBSET {KeysOf[t] : t \in Types}]

TypeOK ==
  /\ status \in [Types -> {"absent", "open", "locked"} \cup Resolutions]
  /\ backed \in [Types -> Nat] /\ \A t \in Types : backed[t] <= Batches[t]
  /\ rows \in [Types -> {"none", "skipped", "failed"} \cup Resolutions]
  /\ plan \in [status : {"not_finished", "no_proof", "no_root", "settleable"},
                period : {None, 5, 100}]
  /\ run \in RunType

\* A market is at hand in the steps that work on one; a batch that is sent
\* exists; a market read open and whole is still whole, so what is locked is.
BackfillInv ==
  /\ TypeOK
  /\ run.pc \notin {"idle", "create", "settle"} => run.at \in Types
  /\ run.pc = "stake" => run.n \in 1..Batches[run.at]
  /\ run.pc \in {"proof", "decide"} /\ run.saw = "open" /\ ~run.zero => Whole(run.at)
  /\ run.pc = "lock" => Whole(run.at)
  /\ run.pc = "after" => status[run.at] \in Resolutions
  /\ RowsAreTrue
=============================================================================
