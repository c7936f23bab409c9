------------------------------- MODULE Keeper -------------------------------
(***************************************************************************)
(* The keeper process: market creation (ensureMarket), the five-second     *)
(* sweep that locks and cancels, the settler with its bounded retries, the *)
(* ingest of the final score record, and the store that survives a restart *)
(* (the JSON file of replay mode, the Postgres mirror of live mode).       *)
(*                                                                         *)
(* Node runs one callback at a time, so code between two awaits is one     *)
(* action.  An await on an RPC is two: the request takes effect (or is     *)
(* refused, or fails) at some time and leaves a reply; the callback that   *)
(* resumes on that reply runs later, and everything else may run between.  *)
(*                                                                         *)
(* The market accounts themselves are Market.tla's; here a market is its   *)
(* status, changed under the guards of the program's instructions, by this *)
(* keeper or by anybody else (the instructions are permissionless, and a   *)
(* transaction whose sender died may still land).                          *)
(***************************************************************************)
EXTENDS Integers, FiniteSets

CONSTANTS
  Markets,          (* the tracked fixtures; one 1X2 market each            *)
  NoMarket,
  LockTime, Timeout,(* lock_time and resolution_timeout of the markets      *)
  MaxTime,          (* bounds the clock                                     *)
  MaxAttempts,      (* SETTLE_MAX_ATTEMPTS                                  *)
  MaxCrashes,       (* bounds the crashes that are not a sweep's failure    *)
  MaxFaults,        (* bounds the failed and unconfirmed RPC calls          *)
  Modes             (* the configurations a keeper may run in               *)

ASSUME MarketsAssumption == NoMarket \notin Markets
ASSUME TimesAssumption   == LockTime \in Nat /\ Timeout \in Nat /\ MaxTime \in Nat
ASSUME BudgetAssumption  == /\ MaxAttempts \in Nat \ {0}
                            /\ MaxCrashes \in Nat /\ MaxFaults \in Nat
ASSUME ModeAssumption    ==
  Modes \subseteq [backend : {"json", "postgres"}, feedWaits : BOOLEAN,
                   strangers : BOOLEAN]

VARIABLES
  mode,       (* the configuration: it outlives the process                 *)
  now,
  chain,      (* Market.status of each market, "absent" when not created    *)
  mem,        (* store.data: phase, finalised, settleTx known, receipt      *)
  disk,       (* what the file or the database holds of it                  *)
  saving,     (* the save timer is pending                                  *)
  flush,      (* Postgres: the table flushAsync writes next, or "idle"      *)
  ensure,     (* per market, where ensureMarket is                          *)
  settler,    (* per market, where its settlement attempt is                *)
  attempts,   (* settleAttempts                                             *)
  seen,       (* the status an attempt read before its backfill             *)
  sweep,      (* where the sweep is                                         *)
  crashes, faults

store == <<mem, saving>>
duties == <<ensure, settler, attempts, seen, sweep>>
env    == <<mode, now, crashes, faults>>
vars == <<mode, now, chain, mem, disk, saving, flush, ensure, settler, attempts,
          seen, sweep, crashes, faults>>

\* DATABASE_URL is set or not; in a replay the feed starts when the market is
\* locked; other cranks touch the markets.
Backend          == mode.backend
FeedWaitsForLock == mode.feedWaits
Strangers        == mode.strangers

Resolutions == {"settled", "cancelled"}
Statuses    == {"absent", "open", "locked"} \cup Resolutions
Phases      == {"none", "created", "locked", "settling", "error"}
                 \cup Resolutions
Receipts    == {"none", "unsigned", "signed"}

\* "fault": the call failed; "lost": a transaction landed but its
\* confirmation did not come back; "rejected": the program refused it.
Replies == Statuses \cup {"waiting", "ok", "rejected", "AlreadyResolved",
                          "fault", "lost"}

EnsureSteps  == {"idle", "read", "init"}
SettlerSteps == {"idle", "status", "backfill", "proof", "settle", "confirm",
                 "recheck", "backoff"}
SweepSteps   == {"idle", "next", "lockRead", "lockTx", "cancelRead",
                 "cancelTx"}

Idle      == [pc |-> "idle", reply |-> "waiting"]
Call(pc)  == [pc |-> pc, reply |-> "waiting"]
IdleSweep == [pc |-> "idle", reply |-> "waiting", at |-> NoMarket, todo |-> {},
              now |-> 0]

EmptyStore == [phase     |-> [m \in Markets |-> "none"],
               finalised |-> [m \in Markets |-> FALSE],
               settleTx  |-> [m \in Markets |-> FALSE],
               receipt   |-> [m \in Markets |-> "none"]]

StoreType == [phase : [Markets -> Phases \cup {"open"}],
              finalised : [Markets -> BOOLEAN],
              settleTx : [Markets -> BOOLEAN],
              receipt : [Markets -> Receipts]]

TypeOK ==
  /\ now \in Nat
  /\ chain \in [Markets -> Statuses]
  /\ mem \in StoreType /\ disk \in StoreType
  /\ \A m \in Markets : mem.phase[m] # "open"
  /\ saving \in BOOLEAN
  /\ flush \in {"idle", "fixtures", "markets", "receipts"}
  /\ ensure \in [Markets -> [pc : EnsureSteps, reply : Replies]]
  /\ settler \in [Markets -> [pc : SettlerSteps, reply : Replies]]
  /\ attempts \in [Markets -> Nat]
  /\ seen \in [Markets -> Statuses]
  /\ sweep \in [pc : SweepSteps, reply : Replies, at : Markets \cup {NoMarket},
                todo : SUBSET Markets, now : Nat]
  /\ crashes \in Nat /\ faults \in Nat

Init ==
  /\ mode \in Modes
  /\ now = 0
  /\ chain = [m \in Markets |-> "absent"]
  /\ mem = EmptyStore /\ disk = EmptyStore
  /\ saving = FALSE /\ flush = "idle"
  /\ ensure = [m \in Markets |-> Idle]
  /\ settler = [m \in Markets |-> Idle]
  /\ attempts = [m \in Markets |-> 0]
  /\ seen = [m \in Markets |-> "absent"]
  /\ sweep = IdleSweep
  /\ crashes = 0 /\ faults = 0

-----------------------------------------------------------------------------
(* The program's instructions, and calls to them *)

Fails == faults < MaxFaults /\ faults' = faults + 1

\* a read answers with the status of the account, or fails.
ReadReply(m, reply) ==
  \/ reply = chain[m] /\ UNCHANGED faults
  \/ reply = "fault" /\ Fails

\* A transaction is sent and executed (its confirmation may get lost), or is
\* not executed at all.
Executes(m, to, reply) ==
  /\ chain' = [chain EXCEPT ![m] = to]
  /\ \/ reply = "ok" /\ UNCHANGED faults
     \/ reply = "lost" /\ Fails

NotSent(reply) == reply = "fault" /\ Fails /\ UNCHANGED chain

CanInit(m)   == chain[m] = "absent" /\ now < LockTime
CanLock(m)   == chain[m] = "open" /\ now >= LockTime
CanSettle(m) == chain[m] = "locked"
CanCancel(m) == chain[m] = "locked" /\ now > LockTime + Timeout

Refused(allowed, reply) ==
  ~allowed /\ reply = "rejected" /\ UNCHANGED <<chain, faults>>

\* settle_market: even a locked market may refuse (root not published); a
\* proven outcome nobody staked cancels.
SettleReply(m, reply) ==
  \/ /\ CanSettle(m)
     /\ \E to \in Resolutions : Executes(m, to, reply)
  \/ /\ chain[m] \in {"absent", "open", "locked"}
     /\ reply = "rejected" /\ UNCHANGED <<chain, faults>>
  \/ /\ chain[m] \in Resolutions
     /\ reply = "AlreadyResolved" /\ UNCHANGED <<chain, faults>>
  \/ NotSent(reply)

\* Anybody may turn the permissionless cranks.
Stranger(m) ==
  /\ Strangers
  /\ \E to \in Statuses :
       /\ \/ to = "open" /\ CanInit(m)
          \/ to = "locked" /\ CanLock(m)
          \/ to \in Resolutions /\ CanSettle(m)
          \/ to = "cancelled" /\ CanCancel(m)
       /\ chain' = [chain EXCEPT ![m] = to]
  /\ UNCHANGED <<env, store, disk, flush, duties>>

Tick == /\ now < MaxTime
        /\ now' = now + 1
        /\ UNCHANGED <<chain, store, disk, flush, duties, mode, crashes, faults>>

-----------------------------------------------------------------------------
(* ensureMarket *)

EnsureStart(m) ==
  /\ ensure[m].pc = "idle"
  /\ mem.phase[m] = "none"
  /\ ensure' = [ensure EXCEPT ![m] = Call("read")]
  /\ UNCHANGED <<env, chain, store, disk, flush, settler, attempts, seen,
                 sweep>>

\* the RPC node's side of the two awaits.
EnsureAnswer(m) ==
  /\ ensure[m].pc # "idle" /\ ensure[m].reply = "waiting"
  /\ \E reply \in Replies :
       /\ ensure' = [ensure EXCEPT ![m].reply = reply]
       /\ \/ ensure[m].pc = "read" /\ ReadReply(m, reply) /\ UNCHANGED chain
          \/ /\ ensure[m].pc = "init"
             /\ \/ CanInit(m) /\ Executes(m, "open", reply)
                \/ Refused(CanInit(m), reply)
                \/ NotSent(reply)
  /\ UNCHANGED <<mode, now, crashes, store, disk, flush, settler, attempts, seen,
                 sweep>>

\* The phase an existing account is adopted with.
Adopted(st) == IF st = "open" THEN "created" ELSE st

EnsureAdopt(m) ==
  /\ ensure[m].pc = "read" /\ ensure[m].reply \in Statuses \ {"absent"}
  /\ mem' = [mem EXCEPT !.phase[m] = Adopted(ensure[m].reply)]
  /\ saving' = TRUE
  /\ ensure' = [ensure EXCEPT ![m] = Idle]
  /\ UNCHANGED <<env, chain, disk, flush, settler, attempts, seen, sweep>>

\* creation is skipped when the lock time is not in the future.
EnsureCreate(m) ==
  /\ ensure[m] = [pc |-> "read", reply |-> "absent"]
  /\ ensure' = [ensure EXCEPT ![m] = IF now < LockTime THEN Call("init")
                                                       ELSE Idle]
  /\ UNCHANGED <<env, chain, store, disk, flush, settler, attempts, seen,
                 sweep>>

EnsureCreated(m) ==
  /\ ensure[m] = [pc |-> "init", reply |-> "ok"]
  /\ mem' = [mem EXCEPT !.phase[m] = "created"]
  /\ saving' = TRUE
  /\ ensure' = [ensure EXCEPT ![m] = Idle]
  /\ UNCHANGED <<env, chain, disk, flush, settler, attempts, seen, sweep>>

\* the exception is logged; the next fixture sync calls ensureMarket again.
EnsureFailed(m) ==
  /\ \/ ensure[m].pc # "idle" /\ ensure[m].reply = "fault"
     \/ ensure[m].pc = "init" /\ ensure[m].reply \in {"rejected", "lost"}
  /\ ensure' = [ensure EXCEPT ![m] = Idle]
  /\ UNCHANGED <<env, chain, store, disk, flush, settler, attempts, seen,
                 sweep>>

EnsureStep(m) == \/ EnsureStart(m) \/ EnsureAdopt(m) \/ EnsureCreate(m)
                 \/ EnsureCreated(m) \/ EnsureFailed(m)

-----------------------------------------------------------------------------
(* ingest and the settler *)

InFlight(m) == settler[m].pc # "idle"

\* onFinalised starts an attempt unless the market is untracked, already
\* being settled, or resolved.
Starts(m) == mem.phase[m] \notin {"none"} \cup Resolutions /\ ~InFlight(m)

\* ingest of the first final record of a fixture (statusId 100), however old
\* its sequence number; a duplicate changes nothing.
Finalise(m) ==
  /\ ~mem.finalised[m]
  /\ FeedWaitsForLock => mem.phase[m] \notin {"none", "created"}
  /\ saving' = TRUE
  /\ mem' = [mem EXCEPT !.finalised[m] = TRUE,
                        !.phase[m] = IF Starts(m) THEN "settling" ELSE @]
  /\ IF Starts(m) THEN /\ settler' = [settler EXCEPT ![m] = Call("status")]
                       /\ attempts' = [attempts EXCEPT ![m] = 1]
                  ELSE UNCHANGED <<settler, attempts>>
  /\ UNCHANGED <<env, chain, disk, flush, ensure, seen, sweep>>

\* the RPC node's, and TxLINE's, side of the awaits.
SettlerAnswer(m) ==
  /\ settler[m].pc \notin {"idle", "backoff"} /\ settler[m].reply = "waiting"
  /\ \E reply \in Replies :
       /\ settler' = [settler EXCEPT ![m].reply = reply]
       /\ \/ /\ settler[m].pc \in {"status", "confirm", "recheck"}
             /\ ReadReply(m, reply) /\ UNCHANGED chain
          \/ /\ settler[m].pc \in {"proof", "backfill"}
             /\ \/ reply = "ok" /\ UNCHANGED faults
                \/ reply = "fault" /\ Fails
             /\ UNCHANGED chain
          \/ settler[m].pc = "settle" /\ SettleReply(m, reply)
  /\ UNCHANGED <<mode, now, crashes, store, disk, flush, ensure, attempts, seen,
                 sweep>>

\* an await of the attempt resumes on one of these replies.
Resumes(m, pc, replies) ==
  settler[m].pc = pc /\ settler[m].reply \in replies \ {"waiting"}

Continue(m, pc) ==
  /\ settler' = [settler EXCEPT ![m] = Call(pc)]
  /\ UNCHANGED <<store, attempts>>

\* recordResolution, which is followed by the end of the attempt.  What is
\* not settled is recorded as cancelled.
RecordResolution(m, st, signed) ==
  LET known == signed \/ mem.settleTx[m]
  IN  /\ mem' = [mem EXCEPT
           !.phase[m]    = IF st = "settled" THEN "settled" ELSE "cancelled",
           !.settleTx[m] = known,
           !.receipt[m]  = IF st # "settled" THEN @
                           ELSE IF known THEN "signed" ELSE "unsigned"]
      /\ saving' = TRUE
      /\ settler' = [settler EXCEPT ![m] = Idle]
      /\ UNCHANGED attempts

\* the catch block of an attempt: a timer for the next one, or "error".  No
\* error code that is fatal can come up here: a market that was read as locked
\* is never NotLocked later, and AlreadyResolved is handled apart.
Fail(m) ==
  /\ saving' = TRUE
  /\ UNCHANGED attempts
  /\ IF attempts[m] >= MaxAttempts
     THEN /\ mem' = [mem EXCEPT !.phase[m] = "error"]
          /\ settler' = [settler EXCEPT ![m] = Idle]
     ELSE settler' = [settler EXCEPT ![m] = Call("backoff")] /\ UNCHANGED mem

AfterStatus(m) ==
  \/ /\ Resumes(m, "status", {"locked"})
     /\ Continue(m, "proof") /\ UNCHANGED seen
  \/ /\ Resumes(m, "status", Resolutions)
     /\ Continue(m, "backfill")
     /\ seen' = [seen EXCEPT ![m] = settler[m].reply]
  \/ /\ Resumes(m, "status", {"absent", "open", "fault"})
     /\ Fail(m) /\ UNCHANGED seen

AfterBackfill(m) ==
  /\ Resumes(m, "backfill", Replies)
  /\ RecordResolution(m, seen[m], FALSE)
  /\ UNCHANGED seen

AfterProof(m) ==
  /\ UNCHANGED seen
  /\ \/ Resumes(m, "proof", {"ok"}) /\ Continue(m, "settle")
     \/ Resumes(m, "proof", {"fault"}) /\ Fail(m)

AfterSettle(m) ==
  /\ UNCHANGED seen
  /\ \/ Resumes(m, "settle", {"ok"}) /\ Continue(m, "confirm")
     \/ Resumes(m, "settle", {"AlreadyResolved"}) /\ Continue(m, "recheck")
     \/ Resumes(m, "settle", {"rejected", "fault", "lost"}) /\ Fail(m)

AfterConfirm(m) ==
  /\ UNCHANGED seen
  /\ \/ /\ Resumes(m, "confirm", Statuses \ {"absent"})
        /\ RecordResolution(m, settler[m].reply, TRUE)
     \/ Resumes(m, "confirm", {"absent", "fault"}) /\ Fail(m)

\* a failed re-read is swallowed: the attempt ends with nothing recorded.
AfterRecheck(m) ==
  /\ UNCHANGED seen
  /\ \/ /\ Resumes(m, "recheck", Statuses \ {"absent"})
        /\ RecordResolution(m, settler[m].reply, FALSE)
     \/ /\ Resumes(m, "recheck", {"absent", "fault"})
        /\ settler' = [settler EXCEPT ![m] = Idle]
        /\ UNCHANGED <<store, attempts>>

Retry(m) ==
  /\ settler[m].pc = "backoff"
  /\ attempts' = [attempts EXCEPT ![m] = @ + 1]
  /\ settler' = [settler EXCEPT ![m] = Call("status")]
  /\ UNCHANGED <<store, seen>>

SettlerStep(m) ==
  /\ \/ AfterStatus(m) \/ AfterBackfill(m) \/ AfterProof(m) \/ AfterSettle(m)
     \/ AfterConfirm(m) \/ AfterRecheck(m) \/ Retry(m)
  /\ UNCHANGED <<env, chain, disk, flush, ensure, sweep>>

-----------------------------------------------------------------------------
(* The sweep: lock what is due, cancel what is overdue *)

SweepStart ==
  /\ sweep.pc = "idle"
  /\ sweep' = [IdleSweep EXCEPT !.pc = "next", !.now = now,
                 !.todo = {m \in Markets : mem.phase[m] # "none"}]
  /\ UNCHANGED <<env, chain, store, disk, flush, ensure, settler, attempts,
                 seen>>

SweepEnd ==
  /\ sweep.pc = "next" /\ sweep.todo = {}
  /\ sweep' = IdleSweep
  /\ UNCHANGED <<env, chain, store, disk, flush, ensure, settler, attempts,
                 seen>>

SweepTo(m, pc) ==
  sweep' = [sweep EXCEPT !.at = m, !.pc = pc, !.reply = "waiting"]

SweepDone(m) ==
  sweep' = [sweep EXCEPT !.at = NoMarket, !.pc = "next", !.reply = "waiting",
                         !.todo = @ \ {m}]

\* Mutant of Backstop: markets in "error" are skipped.
BackstopNoError(m) ==
  IF /\ mem'.phase[m] \in {"locked", "settling"}
     /\ sweep.now > LockTime + Timeout
  THEN SweepTo(m, "cancelRead")
  ELSE SweepDone(m)

\* the second half of the loop body, on the phase the market has by then and
\* the time the sweep started.
Backstop(m) ==
  IF /\ mem'.phase[m] \in {"locked", "settling", "error"}
     /\ sweep.now > LockTime + Timeout
  THEN SweepTo(m, "cancelRead")
  ELSE SweepDone(m)

SweepMarket(m) ==
  /\ sweep.pc = "next" /\ m \in sweep.todo
  /\ UNCHANGED store
  /\ IF mem.phase[m] \in Resolutions THEN SweepDone(m)
     ELSE IF mem.phase[m] = "created" /\ sweep.now >= LockTime
          THEN SweepTo(m, "lockRead")
          ELSE Backstop(m)

\* the RPC node's side.
SweepAnswer ==
  /\ sweep.pc \notin {"idle", "next"} /\ sweep.reply = "waiting"
  /\ \E reply \in Replies :
       /\ sweep' = [sweep EXCEPT !.reply = reply]
       /\ \/ /\ sweep.pc \in {"lockRead", "cancelRead"}
             /\ ReadReply(sweep.at, reply) /\ UNCHANGED chain
          \/ /\ sweep.pc = "lockTx"
             /\ \/ CanLock(sweep.at) /\ Executes(sweep.at, "locked", reply)
                \/ Refused(CanLock(sweep.at), reply)
                \/ NotSent(reply)
          \/ /\ sweep.pc = "cancelTx"
             /\ \/ CanCancel(sweep.at) /\ Executes(sweep.at, "cancelled", reply)
                \/ Refused(CanCancel(sweep.at), reply)
                \/ NotSent(reply)
  /\ UNCHANGED <<mode, now, crashes, store, disk, flush, ensure, settler, attempts,
                 seen>>

SweepResumes(m, pc, replies) ==
  /\ sweep.at = m /\ sweep.pc = pc
  /\ sweep.reply \in replies \ {"waiting", "fault"}

SetPhase(m, phase) == mem' = [mem EXCEPT !.phase[m] = phase]

AfterLockRead(m) ==
  \/ /\ SweepResumes(m, "lockRead", {"open"})
     /\ SweepTo(m, "lockTx")
     /\ UNCHANGED store
  \/ /\ SweepResumes(m, "lockRead", {"locked"})
     /\ SetPhase(m, "locked") /\ saving' = TRUE
     /\ Backstop(m)
  \/ /\ SweepResumes(m, "lockRead", Statuses \ {"open", "locked"})
     /\ UNCHANGED mem /\ saving' = TRUE
     /\ Backstop(m)

AfterLockTx(m) ==
  /\ sweep.at = m /\ sweep.pc = "lockTx" /\ sweep.reply # "waiting"
  /\ IF sweep.reply = "ok" THEN SetPhase(m, "locked") ELSE UNCHANGED mem
  /\ saving' = TRUE
  /\ Backstop(m)

\* Mutant of AfterCancelRead: whatever is resolved was cancelled by the sweep.
AfterCancelReadBlind(m) ==
  \/ /\ SweepResumes(m, "cancelRead", {"locked"})
     /\ SweepTo(m, "cancelTx")
     /\ UNCHANGED store
  \/ /\ SweepResumes(m, "cancelRead", Resolutions)
     /\ SetPhase(m, "cancelled") /\ saving' = TRUE
     /\ SweepDone(m)
  \/ /\ SweepResumes(m, "cancelRead", {"absent", "open"})
     /\ UNCHANGED store
     /\ SweepDone(m)

\* Mutant of AfterCancelRead: a resolution found on chain is not recorded.
AfterCancelReadForgets(m) ==
  \/ /\ SweepResumes(m, "cancelRead", {"locked"})
     /\ SweepTo(m, "cancelTx")
     /\ UNCHANGED store
  \/ /\ SweepResumes(m, "cancelRead", Statuses \ {"locked"})
     /\ UNCHANGED store
     /\ SweepDone(m)

AfterCancelRead(m) ==
  \/ /\ SweepResumes(m, "cancelRead", {"locked"})
     /\ SweepTo(m, "cancelTx")
     /\ UNCHANGED store
  \/ /\ SweepResumes(m, "cancelRead", Resolutions)
     /\ SetPhase(m, sweep.reply) /\ saving' = TRUE
     /\ SweepDone(m)
  \/ /\ SweepResumes(m, "cancelRead", {"absent", "open"})
     /\ UNCHANGED store
     /\ SweepDone(m)

AfterCancelTx(m) ==
  /\ sweep.at = m /\ sweep.pc = "cancelTx" /\ sweep.reply # "waiting"
  /\ IF sweep.reply = "ok" THEN SetPhase(m, "cancelled") ELSE UNCHANGED mem
  /\ saving' = TRUE
  /\ SweepDone(m)

SweepStep(m) ==
  /\ \/ SweepMarket(m) \/ AfterLockRead(m) \/ AfterLockTx(m)
     \/ AfterCancelRead(m) \/ AfterCancelTx(m)
  /\ UNCHANGED <<env, chain, disk, flush, ensure, settler, attempts, seen>>

-----------------------------------------------------------------------------
(* The store *)

\* The JSON store writes everything at once.
SaveJson ==
  /\ Backend = "json" /\ saving
  /\ disk' = mem
  /\ saving' = FALSE
  /\ UNCHANGED <<env, chain, mem, flush, duties>>

\* The Postgres store writes table after table, and drops a save that falls
\* due while it does.
SavePostgres ==
  /\ Backend = "postgres" /\ saving
  /\ saving' = FALSE
  /\ flush' = IF flush = "idle" THEN "fixtures" ELSE flush
  /\ UNCHANGED <<env, chain, mem, disk, duties>>

\* writeMarket: three phases have a status of their own.
Row(phase) ==
  IF phase \in {"locked"} \cup Resolutions THEN phase ELSE "open"

FlushTable ==
  /\ \/ /\ flush = "fixtures" /\ flush' = "markets"
        /\ disk' = [disk EXCEPT !.finalised = mem.finalised]
     \/ /\ flush = "markets" /\ flush' = "receipts"
        /\ disk' = [disk EXCEPT
             !.phase = [m \in Markets |->
                IF disk.phase[m] = "none" \/ mem.phase[m] = "none"
                THEN disk.phase[m] ELSE Row(mem.phase[m])],
             !.settleTx = [m \in Markets |->
                IF disk.phase[m] = "none" \/ mem.phase[m] = "none"
                THEN disk.settleTx[m] ELSE mem.settleTx[m]]]
     \/ /\ flush = "receipts" /\ flush' = "idle"
        /\ disk' = [disk EXCEPT !.receipt = [m \in Markets |->
             IF mem.receipt[m] = "none" THEN disk.receipt[m]
                                        ELSE mem.receipt[m]]]
  /\ UNCHANGED <<env, chain, store, duties>>

\* a failed write is logged and ends the flush.
FlushFails ==
  /\ flush # "idle"
  /\ Fails
  /\ flush' = "idle"
  /\ UNCHANGED <<mode, now, chain, crashes, store, disk, duties>>

\* DbSync projects the accounts, and receipts of settled ones, into the
\* same tables.
SyncMarket(m) ==
  /\ Backend = "postgres"
  /\ chain[m] # "absent"
  /\ disk' = [disk EXCEPT !.phase[m] = chain[m],
                          !.receipt[m] = IF chain[m] = "settled" /\ @ = "none"
                                         THEN "signed" ELSE @]
  /\ UNCHANGED <<env, chain, store, flush, duties>>

-----------------------------------------------------------------------------
(* Crash, shutdown, restart *)

\* What a new process loads: the Postgres status "open" is the phase
\* "created".
Loaded(s) ==
  [s EXCEPT !.phase = [m \in Markets |-> IF s.phase[m] = "open"
                                         THEN "created" ELSE s.phase[m]]]

\* A process ends with s in its store, and another one starts.
Restart(s) ==
  /\ disk' = s
  /\ mem' = Loaded(s)
  /\ saving' = FALSE /\ flush' = "idle"
  /\ ensure' = [m \in Markets |-> Idle]
  /\ settler' = [m \in Markets |-> Idle]
  /\ attempts' = [m \in Markets |-> 0]
  /\ seen' = [m \in Markets |-> "absent"]
  /\ sweep' = IdleSweep
  /\ UNCHANGED <<mode, now, chain>>

Crash ==
  /\ crashes < MaxCrashes
  /\ crashes' = crashes + 1 /\ UNCHANGED faults
  /\ Restart(disk)

\* stop() saves the JSON store before the process exits; the Postgres flush it
\* starts dies with the process, as in a crash.
Shutdown ==
  /\ Backend = "json"
  /\ crashes < MaxCrashes
  /\ crashes' = crashes + 1 /\ UNCHANGED faults
  /\ Restart(mem)

\* A read that fails inside the sweep rejects a promise nobody handles, which
\* ends the process.
SweepDies ==
  /\ sweep.pc \in {"lockRead", "cancelRead"} /\ sweep.reply = "fault"
  /\ crashes' = crashes + 1 /\ UNCHANGED faults
  /\ Restart(disk)

-----------------------------------------------------------------------------
Next ==
  \/ \E m \in Markets : \/ EnsureStep(m) \/ EnsureAnswer(m)
                        \/ Finalise(m) \/ SettlerAnswer(m) \/ SettlerStep(m)
                        \/ SweepStep(m) \/ SyncMarket(m) \/ Stranger(m)
  \/ SweepStart \/ SweepAnswer \/ SweepEnd
  \/ SaveJson \/ SavePostgres \/ FlushTable \/ FlushFails
  \/ Crash \/ Shutdown \/ SweepDies
  \/ Tick

Spec == Init /\ [][Next]_vars

\* Timers fire, callbacks run, calls are answered, the fixture list is polled
\* every ten minutes and the feed delivers the final record to a process that
\* stays up.  Nothing obliges strangers to do anything.
Fairness ==
  /\ WF_vars(Tick)
  /\ \A m \in Markets : /\ WF_vars(EnsureStep(m)) /\ WF_vars(EnsureAnswer(m))
                        /\ WF_vars(SettlerStep(m)) /\ WF_vars(SettlerAnswer(m))
                        /\ WF_vars(SweepStep(m)) /\ WF_vars(Finalise(m))
                        /\ WF_vars(SyncMarket(m))
  /\ WF_vars(SweepStart) /\ WF_vars(SweepAnswer) /\ WF_vars(SweepEnd)
  /\ WF_vars(SaveJson) /\ WF_vars(SavePostgres) /\ WF_vars(FlushTable)
  /\ WF_vars(SweepDies)

FairSpec == Spec /\ Fairness

-----------------------------------------------------------------------------
(* Correctness properties *)

\* What a store says of a market is true of the account.  A market is
\* never shown, or remembered over a restart, as settled, refundable, locked
\* or proven when it is not, however its locker, settler, canceller, other
\* cranks and lost confirmations interleave.
Truthful(s) ==
  \A m \in Markets :
    /\ s.phase[m] \in Resolutions => chain[m] = s.phase[m]
    /\ s.phase[m] = "locked" => chain[m] \in {"locked"} \cup Resolutions
    /\ s.phase[m] # "none" => chain[m] # "absent"
    /\ s.receipt[m] # "none" \/ s.settleTx[m] => chain[m] \in Resolutions
    /\ s.receipt[m] # "none" => chain[m] = "settled"

StoresAreTruthful == Truthful(mem) /\ Truthful(disk)

\* Settlement never exceeds its budget, never starts before the final record,
\* and the phases "created" and "error", on which the sweep acts as if nobody
\* else did, mean that nobody else does.
BudgetHolds ==
  \A m \in Markets :
    /\ attempts[m] <= MaxAttempts
    /\ InFlight(m) => /\ mem.finalised[m]
                      /\ mem.phase[m] \notin {"none", "created", "error"}

\* The strengthening of these two that every step preserves: what a pending
\* reply, or the place an await stands at, implies of the account.  An account
\* only moves on from what was read of it.
Reach(st) ==
  CASE st = "absent" -> Statuses
    [] st = "open"   -> {"open", "locked"} \cup Resolutions
    [] st = "locked" -> {"locked"} \cup Resolutions
    [] OTHER         -> {st}

\* a reply that is a status was read from m's account.
ReadFrom(m, reply) == reply \in Statuses => chain[m] \in Reach(reply)

EnsureInv ==
  \A m \in Markets :
    /\ ensure[m].pc # "idle" => mem.phase[m] = "none"
    /\ ensure[m].pc = "read" => ReadFrom(m, ensure[m].reply)
    /\ ensure[m] = [pc |-> "init", reply |-> "ok"] => chain[m] # "absent"

SettlerInv ==
  \A m \in Markets :
    /\ InFlight(m) => chain[m] # "absent"
    /\ settler[m].pc = "status" => ReadFrom(m, settler[m].reply)
    /\ settler[m].pc = "backfill" => seen[m] \in Resolutions /\ chain[m] = seen[m]
    /\ settler[m].pc = "settle" /\ settler[m].reply \in {"ok", "AlreadyResolved"}
         => chain[m] \in Resolutions
    /\ settler[m].pc \in {"confirm", "recheck"} =>
         /\ chain[m] \in Resolutions
         /\ settler[m].reply \in Statuses => chain[m] = settler[m].reply
    /\ settler[m].pc = "backoff" => attempts[m] < MaxAttempts

SweepInv ==
  /\ \A m \in sweep.todo : mem.phase[m] # "none"
  /\ sweep.pc \notin {"idle", "next"} => sweep.at \in sweep.todo
  /\ sweep.pc \in {"lockRead", "cancelRead"} => ReadFrom(sweep.at, sweep.reply)
  /\ sweep.pc = "lockTx" /\ sweep.reply = "ok"
       => chain[sweep.at] \in {"locked"} \cup Resolutions
  /\ sweep.pc = "cancelTx" /\ sweep.reply = "ok"
       => chain[sweep.at] = "cancelled"

KeeperInv ==
  /\ TypeOK
  /\ StoresAreTruthful
  /\ BudgetHolds
  /\ EnsureInv
  /\ SettlerInv
  /\ SweepInv

\* When the feed starts with the lock (replay), no market that leaves the
\* sweep's locking half is still open: the backstop can always end it.
BackstopApplies ==
  FeedWaitsForLock =>
    \A m \in Markets :
      mem.phase[m] \in {"locked", "settling", "error"} => chain[m] # "open"

\* What makes it so: a market under settlement was locked before, in memory
\* and in what a restart loads.
PastLock(s) ==
  \A m \in Markets : s.phase[m] \in {"settling", "error"} => chain[m] # "open"

BackstopInv == FeedWaitsForLock => PastLock(mem) /\ PastLock(disk)

\* In a replay every market that has been created is resolved in the end,
\* whatever other cranks do.  (Live, a final record that comes before the lock
\* uses the attempts up and leaves the market open for good: the phase "error"
\* is not locked any more, and what is not locked is not cancelled.)
EveryMarketResolves ==
  \A m \in Markets :
    chain[m] # "absent" ~> chain[m] \in Resolutions \/ ~FeedWaitsForLock

\* ... and a keeper that stays up and is alone comes to know how.
KeeperLearns ==
  \A m \in Markets :
    chain[m] \in Resolutions ~> \/ mem.phase[m] = chain[m] \/ crashes > 0
                                \/ Strangers \/ ~FeedWaitsForLock
=============================================================================
