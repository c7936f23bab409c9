---------------------------- MODULE KeeperProofs ----------------------------
(***************************************************************************)
(* For any number of markets, attempts, crashes and failed calls, in both  *)
(* modes and on both stores: no store claims of a market what is not true  *)
(* of its account, and settlement keeps its budget.                        *)
(***************************************************************************)
EXTENDS Keeper, TLAPS

USE MarketsAssumption, TimesAssumption, BudgetAssumption

\* Nothing but a step forward ever happens to an account.
ChainMoves ==
  /\ chain' \in [Markets -> Statuses]
  /\ \A m \in Markets : chain'[m] \in Reach(chain[m])

\* From a status on, a market reaches what it reaches later.
LEMMA ReachIsOrder ==
  /\ \A a \in Statuses : a \in Reach(a) /\ Reach(a) \subseteq Statuses
  /\ \A a, b, c \in Statuses :
       b \in Reach(a) /\ c \in Reach(b) => c \in Reach(a)
BY DEF Reach, Statuses, Resolutions

\* An account that does not change moves to where it is.
LEMMA ChainStays == TypeOK /\ UNCHANGED chain => ChainMoves
BY ReachIsOrder DEF TypeOK, ChainMoves

\* What was read of an account stays a status it can have come from.
LEMMA ReadStays ==
  ASSUME TypeOK, ChainMoves, NEW m \in Markets, NEW reply, ReadFrom(m, reply)
  PROVE  reply \in Statuses => chain'[m] \in Reach(reply)
BY ReachIsOrder DEF TypeOK, ChainMoves, ReadFrom

\* What a store says stays true while the account moves on.
LEMMA MemStays ==
  TypeOK /\ ChainMoves /\ Truthful(mem) /\ mem' = mem => Truthful(mem)'
BY DEF TypeOK, ChainMoves, Truthful, Reach, Statuses, Resolutions

\* What is saved stays true as the accounts move on.
LEMMA DiskStays ==
  TypeOK /\ ChainMoves /\ Truthful(disk) /\ disk' = disk => Truthful(disk)'
BY DEF TypeOK, ChainMoves, Truthful, Reach, Statuses, Resolutions

\* What the creation knows stays true.
LEMMA EnsureStays ==
  ASSUME TypeOK, ChainMoves, EnsureInv, UNCHANGED ensure,
         \A m \in Markets :
           ensure[m].pc # "idle" => mem'.phase[m] = mem.phase[m]
  PROVE  EnsureInv'
<1>1. ASSUME NEW m \in Markets, ensure[m].pc = "read"
      PROVE  ReadFrom(m, ensure[m].reply)'
  BY <1>1, ReadStays DEF EnsureInv, ReadFrom
<1>2. ASSUME NEW m \in Markets, chain[m] # "absent" PROVE chain'[m] # "absent"
  BY <1>2 DEF TypeOK, ChainMoves, Reach, Statuses, Resolutions
<1> QED
  BY <1>1, <1>2 DEF EnsureInv

\* What the attempts know stays true.
LEMMA SettlerStays ==
  ASSUME TypeOK, ChainMoves, SettlerInv, UNCHANGED <<settler, attempts, seen>>
  PROVE  SettlerInv'
<1>1. ASSUME NEW m \in Markets, settler[m].pc = "status"
      PROVE  ReadFrom(m, settler[m].reply)'
  BY <1>1, ReadStays DEF SettlerInv, ReadFrom
<1>2. ASSUME NEW m \in Markets, chain[m] # "absent" PROVE chain'[m] # "absent"
  BY <1>2 DEF TypeOK, ChainMoves, Reach, Statuses, Resolutions
<1>3. ASSUME NEW m \in Markets, chain[m] \in Resolutions
      PROVE  chain'[m] = chain[m]
  BY <1>3 DEF TypeOK, ChainMoves, Reach, Statuses, Resolutions
<1> QED
  BY <1>1, <1>2, <1>3 DEF SettlerInv, InFlight

\* What the sweep knows stays true.
LEMMA SweepStays ==
  ASSUME TypeOK, ChainMoves, SweepInv, UNCHANGED sweep,
         \A m \in Markets : mem.phase[m] # "none" => mem'.phase[m] # "none"
  PROVE  SweepInv'
<1>1. sweep.todo \subseteq Markets
  BY DEF TypeOK
<1>2. CASE sweep.pc \in {"idle", "next"}
  BY <1>1, <1>2 DEF SweepInv
<1>3. CASE sweep.pc \notin {"idle", "next"}
  <2>1. sweep.at \in Markets
    BY <1>1, <1>3 DEF SweepInv
  <2>2. ReadFrom(sweep.at, sweep.reply) => ReadFrom(sweep.at, sweep.reply)'
    BY <2>1, ReadStays DEF ReadFrom
  <2>3. /\ chain[sweep.at] \in {"locked"} \cup Resolutions
             => chain'[sweep.at] \in {"locked"} \cup Resolutions
        /\ chain[sweep.at] = "cancelled" => chain'[sweep.at] = "cancelled"
    BY <2>1 DEF TypeOK, ChainMoves, Reach, Statuses, Resolutions
  <2> QED
    BY <1>1, <2>2, <2>3 DEF SweepInv
<1> QED
  BY <1>2, <1>3

\* Attempts stay within their budget while their markets stay under settlement.
LEMMA BudgetStays ==
  ASSUME BudgetHolds, UNCHANGED <<settler, attempts>>,
         \A m \in Markets : InFlight(m) =>
           /\ mem'.finalised[m] = mem.finalised[m]
           /\ mem'.phase[m] \notin {"none", "created", "error"}
  PROVE  BudgetHolds'
BY DEF BudgetHolds, InFlight

-----------------------------------------------------------------------------
(* ensureMarket *)

\* The callbacks of ensureMarket: an account that was read, or was created by
\* the transaction just confirmed, exists.
LEMMA EnsureStepKeeps ==
  ASSUME KeeperInv, NEW m \in Markets, EnsureStep(m)
  PROVE  KeeperInv'
<1> USE DEF KeeperInv, StoresAreTruthful
<1>1. ChainMoves
  BY ChainStays DEF EnsureStep, EnsureStart, EnsureAdopt, EnsureCreate,
                    EnsureCreated, EnsureFailed
<1>2. /\ UNCHANGED <<chain, disk, settler, attempts, seen, sweep, env, flush>>
      /\ ensure[m].pc = "idle" \/ mem.phase[m] = "none"
  BY DEF EnsureStep, EnsureStart, EnsureAdopt, EnsureCreate, EnsureCreated,
         EnsureFailed, EnsureInv
<1>3. SettlerInv' /\ Truthful(disk)'
  BY <1>1, <1>2, SettlerStays, DiskStays
<1>4. CASE EnsureStart(m) \/ EnsureCreate(m) \/ EnsureFailed(m)
  <2>1. PICK x \in {Idle, Call("read"), Call("init")} :
          /\ ensure' = [ensure EXCEPT ![m] = x]
          /\ x # Idle => mem.phase[m] = "none"
    BY <1>2, <1>4 DEF EnsureStart, EnsureCreate, EnsureFailed, Idle
  <2>2. UNCHANGED <<mem, saving>>
    BY <1>4 DEF EnsureStart, EnsureCreate, EnsureFailed, store
  <2>3. /\ x \in [pc : EnsureSteps, reply : Replies] /\ x.reply = "waiting"
        /\ x.pc # "idle" => mem.phase[m] = "none"
    BY <2>1 DEF Idle, Call, EnsureSteps, Replies
  <2>4. TypeOK'
    BY <1>2, <2>1, <2>2, <2>3 DEF TypeOK, env
  <2>5. Truthful(mem)' /\ SweepInv' /\ BudgetHolds'
    BY <1>1, <1>2, <2>2, MemStays, SweepStays, BudgetStays DEF BudgetHolds
  <2>6. EnsureInv'
    <3> SUFFICES ASSUME NEW k \in Markets
                 PROVE  /\ ensure'[k].pc # "idle" => mem.phase[k] = "none"
                        /\ ensure'[k].pc = "read" => ReadFrom(k, ensure'[k].reply)
                        /\ ensure'[k] = [pc |-> "init", reply |-> "ok"]
                             => chain[k] # "absent"
      BY <1>2, <2>2 DEF EnsureInv, ReadFrom
    <3>1. CASE k = m
      BY <2>1, <2>3, <3>1 DEF TypeOK, ReadFrom, Statuses, Resolutions
    <3>2. CASE k # m
      BY <2>1, <3>2 DEF TypeOK, EnsureInv
    <3> QED
      BY <3>1, <3>2
  <2> QED
    BY <1>3, <2>4, <2>5, <2>6
<1>5. ASSUME NEW phase \in {"created", "locked"} \cup Resolutions,
             mem.phase[m] = "none",
             mem' = [mem EXCEPT !.phase[m] = phase], saving' = TRUE,
             ensure' = [ensure EXCEPT ![m] = Idle],
             chain[m] # "absent",
             phase = "locked" => chain[m] \in {"locked"} \cup Resolutions,
             phase \in Resolutions => chain[m] = phase
      PROVE  KeeperInv'
  <2>1. mem'.phase = [mem.phase EXCEPT ![m] = phase]
        /\ mem'.finalised = mem.finalised /\ mem'.settleTx = mem.settleTx
        /\ mem'.receipt = mem.receipt
    BY <1>5 DEF TypeOK, StoreType
  <2>2. TypeOK'
    BY <1>2, <1>5 DEF TypeOK, StoreType, Phases, Resolutions, Idle,
                      EnsureSteps, Replies, env
  <2>3. Truthful(mem)'
    BY <1>2, <1>5, <2>1 DEF Truthful, TypeOK, StoreType, Resolutions
  <2>4. SweepInv'
    BY <1>1, <1>2, <1>5, <2>1, SweepStays DEF TypeOK, StoreType, Resolutions
  <2>5. BudgetHolds'
    BY <1>2, <1>5, <2>1 DEF BudgetHolds, InFlight, TypeOK, StoreType
  <2>6. EnsureInv'
    BY <1>2, <1>5, <2>1 DEF EnsureInv, Idle, TypeOK, StoreType, ReadFrom
  <2> QED
    BY <1>3, <2>2, <2>3, <2>4, <2>5, <2>6
<1>6. CASE EnsureAdopt(m)
  <2>1. /\ ReadFrom(m, ensure[m].reply) /\ mem.phase[m] = "none"
        /\ ensure[m].reply \in Statuses \ {"absent"}
    BY <1>6 DEF EnsureAdopt, EnsureInv
  <2> DEFINE phase == Adopted(ensure[m].reply)
  <2>2. /\ phase \in {"created", "locked"} \cup Resolutions
        /\ chain[m] # "absent"
        /\ phase = "locked" => chain[m] \in {"locked"} \cup Resolutions
        /\ phase \in Resolutions => chain[m] = phase
    BY <2>1 DEF Adopted, ReadFrom, Reach, Statuses, Resolutions
  <2> QED
    BY <1>5, <1>6, <2>1, <2>2 DEF EnsureAdopt
<1>7. CASE EnsureCreated(m)
  <2>1. mem.phase[m] = "none" /\ chain[m] # "absent"
    BY <1>7 DEF EnsureCreated, EnsureInv
  <2> QED
    BY <1>5, <1>7, <2>1 DEF EnsureCreated, Resolutions
<1> QED
  BY <1>4, <1>6, <1>7 DEF EnsureStep

-----------------------------------------------------------------------------
(* The node's answers, and everybody else *)

\* An account that is moved from a status to one after it.
LEMMA MoveForward ==
  ASSUME TypeOK, NEW m \in Markets, NEW to \in Reach(chain[m]),
         chain' = [chain EXCEPT ![m] = to]
  PROVE  ChainMoves
<1>1. to \in Statuses
  BY ReachIsOrder DEF TypeOK
<1> QED
  BY <1>1, ReachIsOrder DEF TypeOK, ChainMoves

\* A call of the creation is answered, or fails.
LEMMA EnsureAnswerKeeps ==
  ASSUME KeeperInv, NEW m \in Markets, EnsureAnswer(m)
  PROVE  KeeperInv'
<1> USE DEF KeeperInv, StoresAreTruthful
<1>1. PICK reply \in Replies :
        /\ ensure' = [ensure EXCEPT ![m].reply = reply]
        /\ \/ ensure[m].pc = "read" /\ ReadReply(m, reply) /\ UNCHANGED chain
           \/ /\ ensure[m].pc = "init"
              /\ \/ CanInit(m) /\ Executes(m, "open", reply)
                 \/ Refused(CanInit(m), reply)
                 \/ NotSent(reply)
  BY DEF EnsureAnswer
<1>2. UNCHANGED <<now, crashes, mem, saving, disk, flush, settler, attempts,
                  seen, sweep>>
  BY DEF EnsureAnswer, store
<1>3. ChainMoves /\ faults' \in Nat
  <2>1. CASE UNCHANGED chain
    BY <1>1, <2>1, ChainStays DEF ReadReply, Refused, Executes, NotSent, Fails,
                                  TypeOK
  <2>2. CASE CanInit(m) /\ Executes(m, "open", reply)
    <3>1. "open" \in Reach(chain[m])
      BY <2>2 DEF CanInit, Reach, Statuses
    <3>2. chain' = [chain EXCEPT ![m] = "open"] /\ TypeOK
      BY <2>2 DEF Executes
    <3>3. ChainMoves
      BY <3>1, <3>2, MoveForward
    <3>4. faults' \in Nat
      BY <2>2 DEF Executes, Fails, TypeOK
    <3> QED
      BY <3>3, <3>4
  <2> QED
    BY <1>1, <2>1, <2>2 DEF Refused, NotSent
<1>4. ensure' \in [Markets -> [pc : EnsureSteps, reply : Replies]]
  BY <1>1 DEF TypeOK
<1>5. TypeOK'
  BY <1>2, <1>3, <1>4 DEF TypeOK, ChainMoves
<1>6. /\ Truthful(mem)' /\ Truthful(disk)' /\ SettlerInv' /\ SweepInv'
      /\ BudgetHolds'
  BY <1>2, <1>3, MemStays, DiskStays, SettlerStays, SweepStays, BudgetStays
     DEF BudgetHolds
<1>7. EnsureInv'
  <2> SUFFICES ASSUME NEW k \in Markets
               PROVE  /\ ensure'[k].pc # "idle" => mem.phase[k] = "none"
                      /\ ensure'[k].pc = "read" =>
                           (ensure'[k].reply \in Statuses =>
                              chain'[k] \in Reach(ensure'[k].reply))
                      /\ ensure'[k] = [pc |-> "init", reply |-> "ok"]
                           => chain'[k] # "absent"
    BY <1>2 DEF EnsureInv, ReadFrom
  <2>1. CASE k = m
    <3>1. ensure'[k].pc = ensure[k].pc /\ ensure'[k].reply = reply
      BY <1>1, <2>1 DEF TypeOK
    <3>2. ensure[k].pc = "read" /\ reply \in Statuses => chain'[k] \in Reach(reply)
      BY <1>1, <2>1, ReachIsOrder DEF ReadReply, Statuses, Resolutions, TypeOK
    <3>3. ensure[k].pc = "init" /\ reply = "ok" => chain'[k] = "open"
      BY <1>1, <2>1 DEF Refused, NotSent, Executes, TypeOK
    <3>4. ensure'[k] = [pc |-> "init", reply |-> "ok"]
            => ensure'[k].pc = "init" /\ ensure'[k].reply = "ok"
      OBVIOUS
    <3> QED
      BY <3>1, <3>2, <3>3, <3>4 DEF EnsureInv
  <2>2. CASE k # m
    <3>1. ensure'[k] = ensure[k]
      BY <1>1, <2>2 DEF TypeOK
    <3>2. ensure[k].pc = "read" => (ensure[k].reply \in Statuses =>
                                      chain'[k] \in Reach(ensure[k].reply))
      BY <1>3, ReadStays DEF EnsureInv
    <3>3. chain[k] # "absent" => chain'[k] # "absent"
      BY <1>3 DEF TypeOK, ChainMoves, Reach, Statuses, Resolutions
    <3> QED
      BY <3>1, <3>2, <3>3 DEF EnsureInv
  <2> QED
    BY <2>1, <2>2
<1> QED
  BY <1>5, <1>6, <1>7

\* A call of an attempt is answered, or fails.
LEMMA SettlerAnswerKeeps ==
  ASSUME KeeperInv, NEW m \in Markets, SettlerAnswer(m)
  PROVE  KeeperInv'
<1> USE DEF KeeperInv, StoresAreTruthful
<1>1. PICK reply \in Replies :
        /\ settler' = [settler EXCEPT ![m].reply = reply]
        /\ \/ /\ settler[m].pc \in {"status", "confirm", "recheck"}
              /\ ReadReply(m, reply) /\ UNCHANGED chain
           \/ /\ settler[m].pc \in {"proof", "backfill"}
              /\ \/ reply = "ok" /\ UNCHANGED faults
                 \/ reply = "fault" /\ Fails
              /\ UNCHANGED chain
           \/ settler[m].pc = "settle" /\ SettleReply(m, reply)
  BY DEF SettlerAnswer
<1>2. /\ UNCHANGED <<now, crashes, mem, saving, disk, flush, ensure, attempts,
                     seen, sweep>>
      /\ settler[m].pc \notin {"idle", "backoff"}
  BY DEF SettlerAnswer, store
<1>3. ChainMoves /\ faults' \in Nat
  <2>1. CASE UNCHANGED chain
    BY <1>1, <2>1, ChainStays DEF ReadReply, SettleReply, Executes, NotSent,
                                  Fails, TypeOK
  <2>2. CASE CanSettle(m) /\ \E to \in Resolutions : Executes(m, to, reply)
    <3>1. PICK to \in Resolutions : Executes(m, to, reply)
      BY <2>2
    <3>2. to \in Reach(chain[m])
      BY <2>2 DEF CanSettle, Reach
    <3>3. chain' = [chain EXCEPT ![m] = to] /\ TypeOK
      BY <3>1 DEF Executes
    <3>4. ChainMoves
      BY <3>2, <3>3, MoveForward
    <3>5. faults' \in Nat
      BY <3>1 DEF Executes, Fails, TypeOK
    <3> QED
      BY <3>4, <3>5
  <2> QED
    BY <1>1, <2>1, <2>2 DEF SettleReply, NotSent
<1>4. settler' \in [Markets -> [pc : SettlerSteps, reply : Replies]]
  BY <1>1 DEF TypeOK
<1>5. TypeOK'
  BY <1>2, <1>3, <1>4 DEF TypeOK, ChainMoves
<1>6. Truthful(mem)' /\ Truthful(disk)' /\ EnsureInv' /\ SweepInv'
  BY <1>2, <1>3, MemStays, DiskStays, EnsureStays, SweepStays
<1>7. ASSUME NEW k \in Markets
      PROVE  /\ settler'[k].pc = settler[k].pc
             /\ k # m => settler'[k] = settler[k]
             /\ k = m => settler'[k].reply = reply
  BY <1>1 DEF TypeOK
<1>8. BudgetHolds'
  BY <1>2, <1>7 DEF BudgetHolds, InFlight
<1>9. SettlerInv'
  <2> SUFFICES ASSUME NEW k \in Markets
        PROVE  /\ settler[k].pc # "idle" => chain'[k] # "absent"
               /\ settler[k].pc = "status" =>
                    (settler'[k].reply \in Statuses =>
                       chain'[k] \in Reach(settler'[k].reply))
               /\ settler[k].pc = "backfill" =>
                    seen[k] \in Resolutions /\ chain'[k] = seen[k]
               /\ settler[k].pc = "settle" =>
                    (settler'[k].reply \in {"ok", "AlreadyResolved"} =>
                       chain'[k] \in Resolutions)
               /\ settler[k].pc \in {"confirm", "recheck"} =>
                    /\ chain'[k] \in Resolutions
                    /\ settler'[k].reply \in Statuses =>
                         chain'[k] = settler'[k].reply
               /\ settler[k].pc = "backoff" => attempts[k] < MaxAttempts
    BY <1>2, <1>7 DEF SettlerInv, InFlight, ReadFrom
  <2>1. /\ chain[k] # "absent" => chain'[k] # "absent"
        /\ chain[k] \in Resolutions => chain'[k] = chain[k]
    BY <1>3 DEF TypeOK, ChainMoves, Reach, Statuses, Resolutions
  <2>0. /\ settler[k].pc # "idle" => chain[k] # "absent"
        /\ settler[k].pc = "backfill" =>
             seen[k] \in Resolutions /\ chain[k] = seen[k]
        /\ settler[k].pc = "settle" /\ settler[k].reply \in {"ok", "AlreadyResolved"}
             => chain[k] \in Resolutions
        /\ settler[k].pc \in {"confirm", "recheck"} =>
             /\ chain[k] \in Resolutions
             /\ settler[k].reply \in Statuses => chain[k] = settler[k].reply
        /\ settler[k].pc = "backoff" => attempts[k] < MaxAttempts
    BY DEF SettlerInv, InFlight
  <2>2. CASE k = m
    <3>1. settler'[k].reply = reply
      BY <1>7, <2>2
    <3>2. settler[k].pc = "status" /\ reply \in Statuses
            => chain'[k] \in Reach(reply)
      BY <1>1, <2>2, ReachIsOrder DEF ReadReply, Statuses, Resolutions, TypeOK
    <3>3. settler[k].pc = "settle" /\ reply \in {"ok", "AlreadyResolved"}
            => chain'[k] \in Resolutions
      BY <1>1, <2>2 DEF SettleReply, Executes, NotSent, TypeOK
    <3>4. settler[k].pc \in {"confirm", "recheck"} /\ reply \in Statuses
            => chain'[k] = reply
      BY <1>1, <2>2 DEF ReadReply, Statuses, Resolutions
    <3> QED
      BY <2>0, <2>1, <3>1, <3>2, <3>3, <3>4
  <2>3. CASE k # m
    <3>1. settler'[k] = settler[k]
      BY <1>7, <2>3
    <3>2. settler[k].pc = "status" /\ settler[k].reply \in Statuses
            => chain'[k] \in Reach(settler[k].reply)
      BY <1>3, ReadStays DEF SettlerInv
    <3> QED
      BY <2>0, <2>1, <3>1, <3>2
  <2> QED
    BY <2>2, <2>3
<1> QED
  BY <1>5, <1>6, <1>8, <1>9

\* A call of the sweep is answered, or fails.
LEMMA SweepAnswerKeeps ==
  ASSUME KeeperInv, SweepAnswer
  PROVE  KeeperInv'
<1> USE DEF KeeperInv, StoresAreTruthful
<1> DEFINE m == sweep.at
<1>1. PICK reply \in Replies :
        /\ sweep' = [sweep EXCEPT !.reply = reply]
        /\ \/ /\ sweep.pc \in {"lockRead", "cancelRead"}
              /\ ReadReply(m, reply) /\ UNCHANGED chain
           \/ /\ sweep.pc = "lockTx"
              /\ \/ CanLock(m) /\ Executes(m, "locked", reply)
                 \/ Refused(CanLock(m), reply)
                 \/ NotSent(reply)
           \/ /\ sweep.pc = "cancelTx"
              /\ \/ CanCancel(m) /\ Executes(m, "cancelled", reply)
                 \/ Refused(CanCancel(m), reply)
                 \/ NotSent(reply)
  BY DEF SweepAnswer
<1>2. /\ UNCHANGED <<now, crashes, mem, saving, disk, flush, ensure, settler,
                     attempts, seen>>
      /\ sweep.pc \notin {"idle", "next"}
  BY DEF SweepAnswer, store
<1>3. m \in sweep.todo /\ m \in Markets
  BY <1>2 DEF SweepInv, TypeOK
<1>4. ChainMoves /\ faults' \in Nat
  <2>1. CASE UNCHANGED chain
    BY <1>1, <2>1, ChainStays DEF ReadReply, Refused, Executes, NotSent, Fails,
                                  TypeOK
  <2>2. ASSUME NEW to \in Reach(chain[m]), Executes(m, to, reply)
        PROVE  ChainMoves /\ faults' \in Nat
    <3>1. chain' = [chain EXCEPT ![m] = to] /\ TypeOK
      BY <2>2 DEF Executes
    <3>2. ChainMoves
      BY <1>3, <2>2, <3>1, MoveForward
    <3>3. faults' \in Nat
      BY <2>2 DEF Executes, Fails, TypeOK
    <3> QED
      BY <3>2, <3>3
  <2>3. CASE CanLock(m) /\ Executes(m, "locked", reply)
    BY <2>2, <2>3 DEF CanLock, Reach
  <2>4. CASE CanCancel(m) /\ Executes(m, "cancelled", reply)
    BY <2>2, <2>4 DEF CanCancel, Reach, Resolutions
  <2> QED
    BY <1>1, <2>1, <2>3, <2>4 DEF Refused, NotSent
<1>5. /\ sweep' \in [pc : SweepSteps, reply : Replies,
                     at : Markets \cup {NoMarket}, todo : SUBSET Markets,
                     now : Nat]
      /\ sweep'.pc = sweep.pc /\ sweep'.at = m /\ sweep'.reply = reply
      /\ sweep'.todo = sweep.todo
  BY <1>1 DEF TypeOK
<1>6. TypeOK'
  BY <1>2, <1>4, <1>5 DEF TypeOK, ChainMoves
<1>7. /\ Truthful(mem)' /\ Truthful(disk)' /\ EnsureInv' /\ SettlerInv'
      /\ BudgetHolds'
  BY <1>2, <1>4, MemStays, DiskStays, EnsureStays, SettlerStays, BudgetStays
     DEF BudgetHolds
<1>8. SweepInv'
  <2>1. sweep.pc \in {"lockRead", "cancelRead"} => ReadFrom(m, reply)'
    BY <1>1, <1>3, ReachIsOrder DEF ReadFrom, ReadReply, Statuses, Resolutions,
                                    TypeOK
  <2>2. sweep.pc = "lockTx" /\ reply = "ok" => chain'[m] = "locked"
    BY <1>1, <1>3 DEF Refused, NotSent, Executes, TypeOK
  <2>3. sweep.pc = "cancelTx" /\ reply = "ok" => chain'[m] = "cancelled"
    BY <1>1, <1>3 DEF Refused, NotSent, Executes, TypeOK
  <2> QED
    BY <1>2, <1>5, <2>1, <2>2, <2>3 DEF SweepInv, ReadFrom
<1> QED
  BY <1>6, <1>7, <1>8

\* Somebody else cranks a market.
LEMMA StrangerKeeps ==
  ASSUME KeeperInv, NEW m \in Markets, Stranger(m)
  PROVE  KeeperInv'
<1> USE DEF KeeperInv, StoresAreTruthful
<1>1. UNCHANGED <<now, crashes, faults, mem, saving, disk, flush, ensure,
                  settler, attempts, seen, sweep>>
  BY DEF Stranger, env, store, duties
<1>2. PICK to \in Statuses :
        /\ \/ to = "open" /\ CanInit(m)
           \/ to = "locked" /\ CanLock(m)
           \/ to \in Resolutions /\ CanSettle(m)
           \/ to = "cancelled" /\ CanCancel(m)
        /\ chain' = [chain EXCEPT ![m] = to]
  BY DEF Stranger
<1>3. to \in Reach(chain[m])
  BY <1>2 DEF CanInit, CanLock, CanSettle, CanCancel, Reach, Resolutions
<1>4. ChainMoves
  BY <1>2, <1>3, MoveForward
<1>5. TypeOK'
  BY <1>1, <1>4 DEF TypeOK, ChainMoves
<1> QED
  BY <1>1, <1>4, <1>5, MemStays, DiskStays, EnsureStays, SettlerStays,
     SweepStays, BudgetStays DEF BudgetHolds

-----------------------------------------------------------------------------
(* ingest and the settler *)

\* The final record starts an attempt on a market that is tracked, so exists.
LEMMA FinaliseKeeps ==
  ASSUME KeeperInv, NEW m \in Markets, Finalise(m)
  PROVE  KeeperInv'
<1> USE DEF KeeperInv, StoresAreTruthful
<1>1. /\ UNCHANGED <<now, crashes, faults, chain, disk, flush, ensure, seen,
                     sweep>>
      /\ saving' = TRUE
      /\ mem' = [mem EXCEPT !.finalised[m] = TRUE,
                            !.phase[m] = IF Starts(m) THEN "settling" ELSE @]
  BY DEF Finalise, env
<1>2. ChainMoves
  BY <1>1, ChainStays
<1>3. /\ mem'.phase = [mem.phase EXCEPT
                         ![m] = IF Starts(m) THEN "settling" ELSE @]
      /\ mem'.finalised = [mem.finalised EXCEPT ![m] = TRUE]
      /\ mem'.settleTx = mem.settleTx /\ mem'.receipt = mem.receipt
      /\ mem' \in StoreType
  BY <1>1 DEF TypeOK, StoreType, Phases, Resolutions
<1>4. Starts(m) => mem.phase[m] # "none" /\ chain[m] # "absent"
  BY DEF Starts, Truthful
<1>5. Truthful(mem)' /\ Truthful(disk)'
  <2>1. Truthful(mem)'
    BY <1>1, <1>3, <1>4 DEF Truthful, TypeOK, StoreType, Resolutions
  <2> QED
    BY <1>1, <1>2, <2>1, DiskStays
<1>6. EnsureInv'
  BY <1>1, <1>2, <1>3, <1>4, EnsureStays DEF TypeOK, StoreType, EnsureInv
<1>7. SweepInv'
  BY <1>1, <1>2, <1>3, <1>4, SweepStays DEF TypeOK, StoreType
<1>8. CASE Starts(m)
  <2>1. /\ settler' = [settler EXCEPT ![m] = Call("status")]
        /\ attempts' = [attempts EXCEPT ![m] = 1]
    BY <1>8 DEF Finalise
  <2>2. TypeOK'
    BY <1>1, <1>3, <1>8, <2>1 DEF TypeOK, StoreType, Call, SettlerSteps, Replies
  <2>3. BudgetHolds'
    BY <1>3, <1>8, <2>1 DEF BudgetHolds, InFlight, Call, TypeOK, StoreType
  <2>4. SettlerInv'
    BY <1>1, <1>4, <1>8, <2>1 DEF SettlerInv, InFlight, Call, TypeOK, ReadFrom,
                                  Statuses, Resolutions
  <2> QED
    BY <1>5, <1>6, <1>7, <2>2, <2>3, <2>4
<1>9. CASE ~Starts(m)
  <2>1. UNCHANGED <<settler, attempts>>
    BY <1>9 DEF Finalise
  <2>2. TypeOK'
    BY <1>1, <1>3, <1>9, <2>1 DEF TypeOK, StoreType
  <2>3. BudgetHolds' /\ SettlerInv'
    BY <1>1, <1>2, <1>3, <1>9, <2>1, SettlerStays
       DEF BudgetHolds, InFlight, TypeOK, StoreType
  <2> QED
    BY <1>5, <1>6, <1>7, <2>2, <2>3
<1> QED
  BY <1>8, <1>9

\* The attempt on m goes on at x (or ends, x being Idle); the store is kept.
LEMMA AttemptMoves ==
  ASSUME KeeperInv, NEW m \in Markets, InFlight(m),
         NEW x \in [pc : SettlerSteps, reply : {"waiting"}],
         NEW n \in Nat, n <= MaxAttempts, NEW st \in Statuses,
         UNCHANGED <<env, chain, disk, flush, ensure, sweep, mem>>,
         saving' \in BOOLEAN,
         settler' = [settler EXCEPT ![m] = x],
         attempts' = [attempts EXCEPT ![m] = n],
         seen' = [seen EXCEPT ![m] = st],
         x.pc = "backfill" => st \in Resolutions /\ chain[m] = st,
         x.pc \in {"confirm", "recheck"} => chain[m] \in Resolutions,
         x.pc = "backoff" => n < MaxAttempts
  PROVE  KeeperInv'
<1> USE DEF KeeperInv, StoresAreTruthful
<1>1. ChainMoves
  BY ChainStays
<1>2. TypeOK'
  <2>1. x \in [pc : SettlerSteps, reply : Replies]
    BY DEF Replies
  <2> QED
    BY <2>1 DEF TypeOK, env
<1>3. /\ Truthful(mem)' /\ Truthful(disk)' /\ EnsureInv' /\ SweepInv'
  BY <1>1, MemStays, DiskStays, EnsureStays, SweepStays
<1>4. BudgetHolds'
  BY DEF BudgetHolds, InFlight, TypeOK
<1>5. SettlerInv'
  <2> SUFFICES ASSUME NEW k \in Markets
        PROVE  /\ settler'[k].pc # "idle" => chain[k] # "absent"
               /\ settler'[k].pc = "status" => ReadFrom(k, settler'[k].reply)
               /\ settler'[k].pc = "backfill" =>
                    seen'[k] \in Resolutions /\ chain[k] = seen'[k]
               /\ settler'[k].pc = "settle" =>
                    (settler'[k].reply \in {"ok", "AlreadyResolved"} =>
                       chain[k] \in Resolutions)
               /\ settler'[k].pc \in {"confirm", "recheck"} =>
                    /\ chain[k] \in Resolutions
                    /\ settler'[k].reply \in Statuses =>
                         chain[k] = settler'[k].reply
               /\ settler'[k].pc = "backoff" => attempts'[k] < MaxAttempts
    BY DEF SettlerInv, InFlight, ReadFrom
  <2>1. CASE k = m
    <3>1. /\ settler'[k] = x /\ attempts'[k] = n /\ seen'[k] = st
          /\ x.reply = "waiting" /\ "waiting" \notin Statuses
      BY <2>1 DEF TypeOK, Statuses, Resolutions
    <3>2. chain[k] # "absent"
      BY <2>1 DEF SettlerInv
    <3> QED
      BY <2>1, <3>1, <3>2 DEF ReadFrom
  <2>2. CASE k # m
    <3>1. settler'[k] = settler[k] /\ attempts'[k] = attempts[k]
          /\ seen'[k] = seen[k]
      BY <2>2 DEF TypeOK
    <3> QED
      BY <3>1 DEF SettlerInv, InFlight
  <2> QED
    BY <2>1, <2>2
<1> QED
  BY <1>2, <1>3, <1>4, <1>5

\* The attempt on m ends with a new phase in the store, which is true.
LEMMA AttemptEnds ==
  ASSUME KeeperInv, NEW m \in Markets, InFlight(m),
         NEW phase \in Resolutions \cup {"error"},
         NEW known \in BOOLEAN, NEW rcpt \in Receipts,
         UNCHANGED <<env, chain, disk, flush, ensure, sweep, attempts, seen>>,
         saving' = TRUE,
         settler' = [settler EXCEPT ![m] = Idle],
         mem' = [mem EXCEPT !.phase[m] = phase, !.settleTx[m] = known,
                            !.receipt[m] = rcpt],
         phase \in Resolutions => chain[m] = phase,
         known = mem.settleTx[m] \/ chain[m] \in Resolutions,
         rcpt = mem.receipt[m] \/ chain[m] = "settled"
  PROVE  KeeperInv'
<1> USE DEF KeeperInv, StoresAreTruthful
<1>1. ChainMoves
  BY ChainStays
<1>2. /\ mem'.phase = [mem.phase EXCEPT ![m] = phase]
      /\ mem'.finalised = mem.finalised
      /\ mem'.settleTx = [mem.settleTx EXCEPT ![m] = known]
      /\ mem'.receipt = [mem.receipt EXCEPT ![m] = rcpt]
      /\ mem' \in StoreType
      /\ phase \notin {"none", "open", "locked"}
  BY DEF TypeOK, StoreType, Phases, Resolutions
<1>3. chain[m] # "absent" /\ mem.phase[m] # "none"
  BY DEF SettlerInv, BudgetHolds
<1>4. TypeOK'
  <2>1. settler' \in [Markets -> [pc : SettlerSteps, reply : Replies]]
    BY DEF TypeOK, Idle, SettlerSteps, Replies
  <2>2. \A k \in Markets : mem'.phase[k] # "open"
    BY <1>2 DEF TypeOK, StoreType
  <2> QED
    BY <1>2, <2>1, <2>2 DEF TypeOK, env
<1>5. Truthful(mem)'
  <2> SUFFICES ASSUME NEW k \in Markets
        PROVE  /\ mem'.phase[k] \in Resolutions => chain[k] = mem'.phase[k]
               /\ mem'.phase[k] = "locked"
                    => chain[k] \in {"locked"} \cup Resolutions
               /\ mem'.phase[k] # "none" => chain[k] # "absent"
               /\ mem'.receipt[k] # "none" \/ mem'.settleTx[k]
                    => chain[k] \in Resolutions
               /\ mem'.receipt[k] # "none" => chain[k] = "settled"
    BY DEF Truthful
  <2>1. /\ mem.receipt[k] # "none" \/ mem.settleTx[k] => chain[k] \in Resolutions
        /\ mem.receipt[k] # "none" => chain[k] = "settled"
    BY DEF Truthful
  <2>2. CASE k = m
    <3>1. mem'.phase[k] = phase /\ mem'.settleTx[k] = known
          /\ mem'.receipt[k] = rcpt
      BY <1>2, <2>2 DEF TypeOK, StoreType
    <3>2. mem'.receipt[k] # "none" => chain[k] = "settled"
      BY <2>1, <2>2, <3>1
    <3>3. mem'.settleTx[k] => chain[k] \in Resolutions
      BY <2>1, <2>2, <3>1
    <3>4. "settled" \in Resolutions
      BY DEF Resolutions
    <3> QED
      BY <1>2, <1>3, <2>2, <3>1, <3>2, <3>3, <3>4
  <2>3. CASE k # m
    <3>1. mem'.phase[k] = mem.phase[k] /\ mem'.settleTx[k] = mem.settleTx[k]
          /\ mem'.receipt[k] = mem.receipt[k]
      BY <1>2, <2>3 DEF TypeOK, StoreType
    <3> QED
      BY <3>1 DEF Truthful
  <2> QED
    BY <2>2, <2>3
<1>6. EnsureInv' /\ SweepInv'
  BY <1>1, <1>2, <1>3, EnsureStays, SweepStays DEF TypeOK, StoreType, EnsureInv
<1>7. Truthful(disk)'
  BY <1>1, DiskStays
<1>8. BudgetHolds'
  BY <1>2 DEF BudgetHolds, InFlight, Idle, TypeOK, StoreType
<1>9. SettlerInv'
  BY DEF SettlerInv, InFlight, Idle, TypeOK, ReadFrom
<1> QED
  BY <1>4, <1>5, <1>6, <1>7, <1>8, <1>9

\* An attempt goes on with what it was told.
LEMMA SettlerStepKeeps ==
  ASSUME KeeperInv, NEW m \in Markets, SettlerStep(m)
  PROVE  KeeperInv'
<1> USE DEF KeeperInv, StoresAreTruthful
<1>1. /\ UNCHANGED <<env, chain, disk, flush, ensure, sweep>>
      /\ chain[m] \in Statuses /\ seen[m] \in Statuses
      /\ attempts[m] \in Nat /\ attempts[m] <= MaxAttempts
      /\ saving \in BOOLEAN
      /\ mem.settleTx[m] \in BOOLEAN /\ mem.receipt[m] \in Receipts
      /\ MaxAttempts \in Nat
  BY DEF SettlerStep, TypeOK, StoreType, BudgetHolds
<1>2. /\ seen = [seen EXCEPT ![m] = seen[m]]
      /\ attempts = [attempts EXCEPT ![m] = attempts[m]]
  BY DEF TypeOK
\* the attempt continues with the next await
<1>3. ASSUME InFlight(m), NEW pc \in SettlerSteps \ {"backoff"}, Continue(m, pc),
             seen' = seen \/ \E st \in Statuses : seen' = [seen EXCEPT ![m] = st],
             pc = "backfill" => seen'[m] \in Resolutions /\ chain[m] = seen'[m],
             pc \in {"confirm", "recheck"} => chain[m] \in Resolutions
      PROVE  KeeperInv'
  <2>1. PICK st \in Statuses : seen' = [seen EXCEPT ![m] = st]
    BY <1>1, <1>2, <1>3
  <2>2. seen'[m] = st
    BY <2>1 DEF TypeOK
  <2> DEFINE x == Call(pc)
  <2>3. x \in [pc : SettlerSteps, reply : {"waiting"}] /\ x.pc = pc
    BY DEF Call
  <2>4. UNCHANGED <<mem, saving, attempts>> /\ settler' = [settler EXCEPT ![m] = x]
    BY <1>3 DEF Continue, store
  <2> HIDE DEF x
  <2> QED
    BY <1>1, <1>2, <1>3, <2>1, <2>2, <2>3, <2>4, AttemptMoves
\* it fails
<1>4. ASSUME InFlight(m), Fail(m), seen' = seen
      PROVE  KeeperInv'
  <2>1. CASE attempts[m] >= MaxAttempts
    <3>1. /\ mem' = [mem EXCEPT !.phase[m] = "error"] /\ saving' = TRUE
          /\ settler' = [settler EXCEPT ![m] = Idle] /\ attempts' = attempts
      BY <1>4, <2>1 DEF Fail
    <3>2. mem' = [mem EXCEPT !.phase[m] = "error",
                             !.settleTx[m] = mem.settleTx[m],
                             !.receipt[m] = mem.receipt[m]]
      BY ZenonT(60), <3>1 DEF TypeOK, StoreType
    <3>3. "error" \notin Resolutions
      BY DEF Resolutions
    <3> QED
      BY <1>1, <1>4, <3>1, <3>2, <3>3, AttemptEnds
  <2>2. CASE ~(attempts[m] >= MaxAttempts)
    <3> DEFINE x == Call("backoff")
    <3>1. /\ mem' = mem /\ saving' = TRUE /\ attempts' = attempts
          /\ settler' = [settler EXCEPT ![m] = x]
      BY <1>4, <2>2 DEF Fail
    <3>2. /\ x \in [pc : SettlerSteps, reply : {"waiting"}]
          /\ x.pc = "backoff"
      BY DEF Call, SettlerSteps
    <3>3. attempts[m] < MaxAttempts
      BY <1>1, <2>2
    <3>4. /\ seen' = [seen EXCEPT ![m] = seen[m]] /\ seen[m] \in Statuses
          /\ attempts' = [attempts EXCEPT ![m] = attempts[m]]
      BY <1>1, <1>2, <1>4, <3>1
    <3>5. /\ UNCHANGED <<env, chain, disk, flush, ensure, sweep, mem>>
          /\ settler' = [settler EXCEPT ![m] = x] /\ saving' \in BOOLEAN
          /\ attempts[m] \in Nat /\ attempts[m] <= MaxAttempts
      BY <1>1, <3>1
    <3> HIDE DEF x
    <3> QED
      BY <1>4, <3>2, <3>3, <3>4, <3>5, AttemptMoves
  <2> QED
    BY <2>1, <2>2
\* it records a resolution that was read from the account
<1>5. ASSUME InFlight(m), NEW st \in Resolutions, chain[m] = st,
             NEW signed \in BOOLEAN, RecordResolution(m, st, signed),
             seen' = seen
      PROVE  KeeperInv'
  <2> DEFINE known == signed \/ mem.settleTx[m]
             rcpt  == IF st # "settled" THEN mem.receipt[m]
                      ELSE IF known THEN "signed" ELSE "unsigned"
  <2>1. (IF st = "settled" THEN "settled" ELSE "cancelled") = st
    BY DEF Resolutions
  <2>2. /\ mem' = [mem EXCEPT !.phase[m] = st, !.settleTx[m] = known,
                              !.receipt[m] = rcpt]
        /\ saving' = TRUE /\ settler' = [settler EXCEPT ![m] = Idle]
        /\ attempts' = attempts
    BY <1>5, <2>1 DEF RecordResolution, TypeOK, StoreType
  <2>3. /\ known \in BOOLEAN /\ rcpt \in Receipts
        /\ rcpt = mem.receipt[m] \/ chain[m] = "settled"
    BY <1>1, <1>5 DEF Receipts
  <2> HIDE DEF known, rcpt
  <2> QED
    BY <1>1, <1>5, <2>2, <2>3, AttemptEnds
<1>6. CASE AfterStatus(m)
  <2>1. CASE Resumes(m, "status", {"locked"}) /\ Continue(m, "proof") /\ UNCHANGED seen
    BY <1>3, <2>1 DEF Resumes, InFlight, SettlerSteps
  <2>2. CASE /\ Resumes(m, "status", Resolutions)
             /\ Continue(m, "backfill")
             /\ seen' = [seen EXCEPT ![m] = settler[m].reply]
    <3>1. /\ settler[m].reply \in Resolutions /\ settler[m].reply \in Statuses
          /\ settler[m].pc = "status"
      BY <2>2 DEF Resumes, Statuses
    <3>2. seen'[m] = settler[m].reply
      BY <2>2 DEF TypeOK
    <3>3. chain[m] = settler[m].reply
      BY <3>1 DEF SettlerInv, ReadFrom, Reach, Resolutions
    <3>4. InFlight(m)
      BY <3>1 DEF InFlight
    <3> QED
      BY <1>3, <2>2, <3>1, <3>2, <3>3, <3>4 DEF SettlerSteps
  <2>3. CASE Resumes(m, "status", {"absent", "open", "fault"}) /\ Fail(m) /\ UNCHANGED seen
    BY <1>4, <2>3 DEF Resumes, InFlight
  <2> QED
    BY <1>6, <2>1, <2>2, <2>3 DEF AfterStatus
<1>7. CASE AfterBackfill(m)
  <2>1. settler[m].pc = "backfill" /\ RecordResolution(m, seen[m], FALSE) /\ seen' = seen
    BY <1>7 DEF AfterBackfill, Resumes
  <2>2. seen[m] \in Resolutions /\ chain[m] = seen[m]
    BY <2>1 DEF SettlerInv
  <2> QED
    BY <1>5, <2>1, <2>2 DEF InFlight
<1>8. CASE AfterProof(m)
  BY <1>3, <1>4, <1>8 DEF AfterProof, Resumes, InFlight, SettlerSteps
<1>9. CASE AfterSettle(m)
  <2>1. CASE Resumes(m, "settle", {"ok"}) /\ Continue(m, "confirm")
    <3>1. InFlight(m) /\ chain[m] \in Resolutions
      BY <2>1 DEF Resumes, InFlight, SettlerInv
    <3> QED
      BY <1>3, <1>9, <2>1, <3>1 DEF AfterSettle, SettlerSteps
  <2>2. CASE Resumes(m, "settle", {"AlreadyResolved"}) /\ Continue(m, "recheck")
    <3>1. InFlight(m) /\ chain[m] \in Resolutions
      BY <2>2 DEF Resumes, InFlight, SettlerInv
    <3> QED
      BY <1>3, <1>9, <2>2, <3>1 DEF AfterSettle, SettlerSteps
  <2>3. CASE Resumes(m, "settle", {"rejected", "fault", "lost"}) /\ Fail(m)
    BY <1>4, <1>9, <2>3 DEF AfterSettle, Resumes, InFlight
  <2> QED
    BY <1>9, <2>1, <2>2, <2>3 DEF AfterSettle
<1>10. CASE AfterConfirm(m)
  <2>1. CASE /\ Resumes(m, "confirm", Statuses \ {"absent"})
             /\ RecordResolution(m, settler[m].reply, TRUE)
    <3>1. /\ InFlight(m) /\ settler[m].reply \in Resolutions
          /\ chain[m] = settler[m].reply
      BY <2>1 DEF Resumes, InFlight, SettlerInv
    <3> QED
      BY <1>5, <1>10, <2>1, <3>1 DEF AfterConfirm
  <2>2. CASE Resumes(m, "confirm", {"absent", "fault"}) /\ Fail(m)
    BY <1>4, <1>10, <2>2 DEF AfterConfirm, Resumes, InFlight
  <2> QED
    BY <1>10, <2>1, <2>2 DEF AfterConfirm
<1>11. CASE AfterRecheck(m)
  <2>1. CASE /\ Resumes(m, "recheck", Statuses \ {"absent"})
             /\ RecordResolution(m, settler[m].reply, FALSE)
    <3>1. /\ InFlight(m) /\ settler[m].reply \in Resolutions
          /\ chain[m] = settler[m].reply
      BY <2>1 DEF Resumes, InFlight, SettlerInv
    <3> QED
      BY <1>5, <1>11, <2>1, <3>1 DEF AfterRecheck
  <2>2. CASE /\ Resumes(m, "recheck", {"absent", "fault"})
             /\ settler' = [settler EXCEPT ![m] = Idle]
             /\ UNCHANGED <<store, attempts>>
    <3>1. Idle = Call("idle") /\ InFlight(m)
      BY <2>2 DEF Idle, Call, Resumes, InFlight
    <3>2. Continue(m, "idle") /\ seen' = seen
      BY <1>11, <2>2, <3>1 DEF Continue, AfterRecheck
    <3> QED
      BY <1>3, <3>1, <3>2 DEF SettlerSteps
  <2> QED
    BY <1>11, <2>1, <2>2 DEF AfterRecheck
<1>12. CASE Retry(m)
  <2> DEFINE x == Call("status")
             n == attempts[m] + 1
  <2>1. /\ settler[m].pc = "backoff" /\ UNCHANGED <<mem, saving, seen>>
        /\ settler' = [settler EXCEPT ![m] = x]
        /\ attempts' = [attempts EXCEPT ![m] = n]
    BY <1>12 DEF Retry, store
  <2>2. InFlight(m) /\ n \in Nat /\ n <= MaxAttempts
    BY <1>1, <2>1 DEF SettlerInv, InFlight
  <2>3. x \in [pc : SettlerSteps, reply : {"waiting"}] /\ x.pc = "status"
    BY DEF Call, SettlerSteps
  <2> HIDE DEF x, n
  <2> QED
    BY <1>1, <1>2, <2>1, <2>2, <2>3, AttemptMoves
<1> QED
  BY <1>6, <1>7, <1>8, <1>9, <1>10, <1>11, <1>12 DEF SettlerStep

-----------------------------------------------------------------------------
(* The sweep *)

\* The sweep goes on to another place, and may set the phase of the market it
\* is at to one that is true of the account.
LEMMA SweepMoves ==
  ASSUME KeeperInv, NEW m \in Markets, mem.phase[m] # "none",
         NEW phase \in Phases,
         UNCHANGED <<env, chain, disk, flush, ensure, settler, attempts, seen>>,
         saving' \in BOOLEAN,
         mem' = [mem EXCEPT !.phase[m] = phase],
         \/ phase = mem.phase[m]
         \/ phase = "locked" /\ chain[m] \in {"locked"} \cup Resolutions
         \/ phase \in Resolutions /\ chain[m] = phase,
         sweep' \in [pc : SweepSteps, reply : {"waiting"},
                     at : Markets \cup {NoMarket}, todo : SUBSET Markets,
                     now : Nat],
         \A k \in sweep'.todo : mem.phase[k] # "none",
         sweep'.pc \notin {"idle", "next"} => sweep'.at \in sweep'.todo
  PROVE  KeeperInv'
<1> USE DEF KeeperInv, StoresAreTruthful
<1>1. ChainMoves
  BY ChainStays
<1>2. /\ mem'.phase = [mem.phase EXCEPT ![m] = phase]
      /\ mem'.finalised = mem.finalised /\ mem'.settleTx = mem.settleTx
      /\ mem'.receipt = mem.receipt /\ mem' \in StoreType
      /\ phase # "none" /\ phase # "open"
  BY DEF TypeOK, StoreType, Resolutions, Phases
<1>3. TypeOK'
  <2>1. sweep' \in [pc : SweepSteps, reply : Replies,
                    at : Markets \cup {NoMarket}, todo : SUBSET Markets,
                    now : Nat]
    BY DEF Replies
  <2>2. \A k \in Markets : mem'.phase[k] # "open"
    BY <1>2 DEF TypeOK, StoreType
  <2> QED
    BY <1>2, <2>1, <2>2 DEF TypeOK, env
<1>4. Truthful(mem)'
  BY <1>2 DEF Truthful, TypeOK, StoreType, Resolutions
<1>5. Truthful(disk)' /\ SettlerInv'
  BY <1>1, DiskStays, SettlerStays
<1>6. EnsureInv'
  BY <1>1, <1>2, EnsureStays DEF TypeOK, StoreType, EnsureInv
<1>7. BudgetHolds'
  BY <1>2 DEF BudgetHolds, InFlight, TypeOK, StoreType, Resolutions
<1>8. SweepInv'
  <2>1. sweep'.reply = "waiting" /\ "waiting" \notin Statuses
    BY DEF Statuses, Resolutions
  <2>2. \A k \in sweep'.todo : mem'.phase[k] # "none"
    BY <1>2 DEF TypeOK, StoreType
  <2> QED
    BY <2>1, <2>2 DEF SweepInv, ReadFrom
<1> QED
  BY <1>3, <1>4, <1>5, <1>6, <1>7, <1>8

\* The sweep goes on with what it was told.
LEMMA SweepStepKeeps ==
  ASSUME KeeperInv, NEW m \in Markets, SweepStep(m)
  PROVE  KeeperInv'
<1> USE DEF KeeperInv, StoresAreTruthful
<1>1. UNCHANGED <<env, chain, disk, flush, ensure, settler, attempts, seen>>
  BY DEF SweepStep
<1>2. /\ m \in sweep.todo /\ mem.phase[m] # "none"
      /\ sweep.pc \notin {"idle", "next"} => sweep.at = m
      /\ saving \in BOOLEAN /\ sweep.now \in Nat /\ sweep.todo \subseteq Markets
  <2>1. sweep.pc # "next" => sweep.pc \notin {"idle", "next"} /\ sweep.at = m
    BY DEF SweepStep, SweepMarket, AfterLockRead, AfterLockTx, AfterCancelRead,
           AfterCancelTx, SweepResumes
  <2>2. sweep.pc = "next" => m \in sweep.todo
    BY DEF SweepStep, SweepMarket, AfterLockRead, AfterLockTx, AfterCancelRead,
           AfterCancelTx, SweepResumes
  <2> QED
    BY <2>1, <2>2 DEF SweepInv, TypeOK
\* wherever it goes, the next place awaits an answer about a tracked market
<1>3. ASSUME \/ SweepDone(m)
             \/ \E pc \in SweepSteps \ {"idle", "next"} : SweepTo(m, pc)
      PROVE  /\ sweep' \in [pc : SweepSteps, reply : {"waiting"},
                             at : Markets \cup {NoMarket},
                             todo : SUBSET Markets, now : Nat]
             /\ \A k \in sweep'.todo : mem.phase[k] # "none"
             /\ sweep'.pc \notin {"idle", "next"} => sweep'.at \in sweep'.todo
  <2>1. CASE SweepDone(m)
    BY <1>2, <2>1 DEF SweepDone, TypeOK, SweepInv, SweepSteps
  <2>2. CASE \E pc \in SweepSteps \ {"idle", "next"} : SweepTo(m, pc)
    BY <1>2, <2>2 DEF SweepTo, TypeOK, SweepInv, SweepSteps
  <2> QED
    BY <1>3, <2>1, <2>2
<1>4. Backstop(m) => \/ SweepDone(m)
                     \/ \E pc \in SweepSteps \ {"idle", "next"} : SweepTo(m, pc)
  BY DEF Backstop, SweepSteps
\* it leaves the phase alone
<1>5. ASSUME mem' = mem, saving' \in BOOLEAN,
             \/ SweepDone(m)
             \/ \E pc \in SweepSteps \ {"idle", "next"} : SweepTo(m, pc)
      PROVE  KeeperInv'
  <2>1. mem' = [mem EXCEPT !.phase[m] = mem.phase[m]] /\ mem.phase[m] \in Phases
    BY <1>2, <1>5 DEF TypeOK, StoreType, Phases
  <2>2. /\ sweep' \in [pc : SweepSteps, reply : {"waiting"},
                       at : Markets \cup {NoMarket},
                       todo : SUBSET Markets, now : Nat]
        /\ \A k \in sweep'.todo : mem.phase[k] # "none"
        /\ sweep'.pc \notin {"idle", "next"} => sweep'.at \in sweep'.todo
    BY <1>3, <1>5
  <2> QED
    BY <1>1, <1>2, <1>5, <2>1, <2>2, SweepMoves
\* it sets a phase
<1>6. ASSUME NEW phase, SetPhase(m, phase), saving' = TRUE,
             \/ phase = "locked" /\ chain[m] \in {"locked"} \cup Resolutions
             \/ phase \in Resolutions /\ chain[m] = phase,
             \/ SweepDone(m)
             \/ \E pc \in SweepSteps \ {"idle", "next"} : SweepTo(m, pc)
      PROVE  KeeperInv'
  <2>1. phase \in Phases /\ mem' = [mem EXCEPT !.phase[m] = phase]
    BY <1>6 DEF Phases, Resolutions, SetPhase
  <2>2. /\ sweep' \in [pc : SweepSteps, reply : {"waiting"},
                       at : Markets \cup {NoMarket},
                       todo : SUBSET Markets, now : Nat]
        /\ \A k \in sweep'.todo : mem.phase[k] # "none"
        /\ sweep'.pc \notin {"idle", "next"} => sweep'.at \in sweep'.todo
    BY <1>3, <1>6
  <2> QED
    BY <1>1, <1>2, <1>6, <2>1, <2>2, SweepMoves
<1>7. CASE SweepMarket(m)
  BY <1>2, <1>4, <1>5, <1>7 DEF SweepMarket, SweepSteps, store
<1>8. CASE AfterLockRead(m)
  <2>1. CASE /\ SweepResumes(m, "lockRead", {"open"})
             /\ SweepTo(m, "lockTx") /\ UNCHANGED store
    BY <1>2, <1>5, <2>1 DEF SweepSteps, store
  <2>2. CASE /\ SweepResumes(m, "lockRead", {"locked"})
             /\ SetPhase(m, "locked") /\ saving' = TRUE /\ Backstop(m)
    <3>1. chain[m] \in {"locked"} \cup Resolutions
      BY <2>2 DEF SweepResumes, SweepInv, ReadFrom, Reach, Statuses, Resolutions
    <3> QED
      BY <1>4, <1>6, <2>2, <3>1
  <2>3. CASE /\ SweepResumes(m, "lockRead", Statuses \ {"open", "locked"})
             /\ UNCHANGED mem /\ saving' = TRUE /\ Backstop(m)
    BY <1>4, <1>5, <2>3
  <2> QED
    BY <1>8, <2>1, <2>2, <2>3 DEF AfterLockRead
<1>9. CASE AfterLockTx(m)
  <2>1. CASE sweep.reply = "ok"
    <3>1. chain[m] \in {"locked"} \cup Resolutions
      BY <1>9, <2>1 DEF AfterLockTx, SweepInv
    <3> QED
      BY <1>4, <1>6, <1>9, <2>1, <3>1 DEF AfterLockTx
  <2>2. CASE sweep.reply # "ok"
    BY <1>4, <1>5, <1>9, <2>2 DEF AfterLockTx
  <2> QED
    BY <2>1, <2>2
<1>10. CASE AfterCancelRead(m)
  <2>1. CASE /\ SweepResumes(m, "cancelRead", {"locked"})
             /\ SweepTo(m, "cancelTx") /\ UNCHANGED store
    BY <1>2, <1>5, <2>1 DEF SweepSteps, store
  <2>2. CASE /\ SweepResumes(m, "cancelRead", Resolutions)
             /\ SetPhase(m, sweep.reply) /\ saving' = TRUE /\ SweepDone(m)
    <3>1. sweep.reply \in Resolutions /\ chain[m] = sweep.reply
      BY <2>2 DEF SweepResumes, SweepInv, ReadFrom, Reach, Statuses, Resolutions
    <3> QED
      BY <1>6, <2>2, <3>1
  <2>3. CASE /\ SweepResumes(m, "cancelRead", {"absent", "open"})
             /\ UNCHANGED store /\ SweepDone(m)
    BY <1>2, <1>5, <2>3 DEF store
  <2> QED
    BY <1>10, <2>1, <2>2, <2>3 DEF AfterCancelRead
<1>11. CASE AfterCancelTx(m)
  <2>1. CASE sweep.reply = "ok"
    <3>1. chain[m] = "cancelled" /\ "cancelled" \in Resolutions
      BY <1>11, <2>1 DEF AfterCancelTx, SweepInv, Resolutions
    <3> QED
      BY <1>6, <1>11, <2>1, <3>1 DEF AfterCancelTx
  <2>2. CASE sweep.reply # "ok"
    BY <1>5, <1>11, <2>2 DEF AfterCancelTx
  <2> QED
    BY <2>1, <2>2
<1> QED
  BY <1>7, <1>8, <1>9, <1>10, <1>11 DEF SweepStep

\* A sweep begins or ends.
LEMMA SweepEndsKeep ==
  ASSUME KeeperInv, SweepStart \/ SweepEnd
  PROVE  KeeperInv'
<1> USE DEF KeeperInv, StoresAreTruthful
<1>1. UNCHANGED <<now, crashes, faults, chain, mem, saving, disk, flush, ensure,
                  settler, attempts, seen>>
  BY DEF SweepStart, SweepEnd, env, store
<1>2. ChainMoves
  BY <1>1, ChainStays
<1>3. /\ sweep' \in [pc : {"idle", "next"}, reply : {"waiting"}, at : {NoMarket},
                     todo : SUBSET Markets, now : Nat]
      /\ \A k \in sweep'.todo : mem.phase[k] # "none"
  <2>1. CASE SweepStart
    <3>1. sweep' = [pc |-> "next", reply |-> "waiting", at |-> NoMarket,
                    todo |-> {k \in Markets : mem.phase[k] # "none"},
                    now |-> now]
      BY <2>1 DEF SweepStart, IdleSweep
    <3> QED
      BY <3>1 DEF TypeOK
  <2>2. CASE SweepEnd
    BY <2>2 DEF SweepEnd, IdleSweep
  <2> QED
    BY <2>1, <2>2
<1>4. TypeOK'
  BY <1>1, <1>3 DEF TypeOK, SweepSteps, Replies
<1>5. SweepInv'
  BY <1>1, <1>3 DEF SweepInv
<1> QED
  BY <1>1, <1>2, <1>4, <1>5, MemStays, DiskStays, EnsureStays, SettlerStays,
     BudgetStays DEF BudgetHolds

-----------------------------------------------------------------------------
(* The store, crashes and restarts *)

\* Only what is stored changes: the file or the tables get what is true.
LEMMA DiskWritten ==
  ASSUME KeeperInv, UNCHANGED <<now, crashes, chain, mem, duties>>,
         faults' \in Nat, saving' \in BOOLEAN,
         flush' \in {"idle", "fixtures", "markets", "receipts"},
         disk' \in StoreType, Truthful(disk)'
  PROVE  KeeperInv'
<1> USE DEF KeeperInv, StoresAreTruthful
<1>1. UNCHANGED <<ensure, settler, attempts, seen, sweep>>
  BY DEF duties
<1>2. ChainMoves
  BY ChainStays
<1>3. TypeOK'
  BY <1>1 DEF TypeOK
<1> QED
  BY <1>1, <1>2, <1>3, MemStays, EnsureStays, SettlerStays, SweepStays,
     BudgetStays DEF BudgetHolds

\* The memory is saved, as far as a write gets.
LEMMA StoreKeeps ==
  ASSUME KeeperInv,
         SaveJson \/ SavePostgres \/ FlushTable \/ FlushFails \/ Tick
  PROVE  KeeperInv'
<1> USE DEF KeeperInv, StoresAreTruthful
<1>1. ASSUME UNCHANGED <<chain, disk>> PROVE Truthful(disk)' /\ disk' \in StoreType
  BY <1>1 DEF Truthful, TypeOK
<1>2. CASE SaveJson
  <2>1. Truthful(disk)' /\ disk' \in StoreType
    BY <1>2 DEF SaveJson, Truthful, TypeOK
  <2> QED
    BY <1>2, <2>1, DiskWritten DEF SaveJson, TypeOK, env
<1>3. CASE SavePostgres
  BY <1>1, <1>3, DiskWritten DEF SavePostgres, TypeOK, env
<1>4. CASE FlushFails
  BY <1>1, <1>4, DiskWritten DEF FlushFails, Fails, TypeOK, store
<1>5. CASE FlushTable
  <2>1. /\ UNCHANGED <<now, crashes, faults, chain, mem, saving, duties>>
        /\ flush' \in {"idle", "fixtures", "markets", "receipts"}
        /\ mem \in StoreType /\ disk \in StoreType
        /\ saving \in BOOLEAN /\ faults \in Nat
    BY <1>5 DEF FlushTable, env, store, TypeOK
  <2>2. CASE disk' = [disk EXCEPT !.finalised = mem.finalised]
    <3>1. disk' \in StoreType /\ Truthful(disk)'
      BY <2>1, <2>2 DEF StoreType, Truthful
    <3> QED
      BY <2>1, <3>1, DiskWritten
  <2>3. CASE disk' = [disk EXCEPT
                !.phase = [m \in Markets |->
                   IF disk.phase[m] = "none" \/ mem.phase[m] = "none"
                   THEN disk.phase[m] ELSE Row(mem.phase[m])],
                !.settleTx = [m \in Markets |->
                   IF disk.phase[m] = "none" \/ mem.phase[m] = "none"
                   THEN disk.settleTx[m] ELSE mem.settleTx[m]]]
    <3> DEFINE kept(m) == disk.phase[m] = "none" \/ mem.phase[m] = "none"
    <3>1. /\ disk'.phase = [m \in Markets |-> IF kept(m) THEN disk.phase[m]
                                              ELSE Row(mem.phase[m])]
          /\ disk'.settleTx = [m \in Markets |-> IF kept(m) THEN disk.settleTx[m]
                                                 ELSE mem.settleTx[m]]
          /\ disk'.receipt = disk.receipt /\ disk'.finalised = disk.finalised
      BY <2>1, <2>3 DEF StoreType
    <3>2. \A m \in Markets : Row(mem.phase[m]) \in Phases \cup {"open"}
      BY <2>1 DEF Row, StoreType, Phases, Resolutions
    <3>3. disk' = [phase |-> disk'.phase, finalised |-> disk'.finalised,
                   settleTx |-> disk'.settleTx, receipt |-> disk'.receipt]
      BY <2>1, <2>3 DEF StoreType
    <3>4. /\ disk'.phase \in [Markets -> Phases \cup {"open"}]
          /\ disk'.finalised \in [Markets -> BOOLEAN]
          /\ disk'.settleTx \in [Markets -> BOOLEAN]
          /\ disk'.receipt \in [Markets -> Receipts]
      BY <2>1, <3>1, <3>2 DEF StoreType
    <3>5. disk' \in StoreType
      BY <3>3, <3>4 DEF StoreType
    <3>6. Truthful(disk)'
      <4> SUFFICES ASSUME NEW m \in Markets
            PROVE  /\ disk'.phase[m] \in Resolutions => chain[m] = disk'.phase[m]
                   /\ disk'.phase[m] = "locked"
                        => chain[m] \in {"locked"} \cup Resolutions
                   /\ disk'.phase[m] # "none" => chain[m] # "absent"
                   /\ disk'.receipt[m] # "none" \/ disk'.settleTx[m]
                        => chain[m] \in Resolutions
                   /\ disk'.receipt[m] # "none" => chain[m] = "settled"
        BY <2>1 DEF Truthful
      <4>1. CASE kept(m)
        BY <3>1, <4>1 DEF Truthful
      <4>2. CASE ~kept(m)
        <5>1. disk'.phase[m] = Row(mem.phase[m]) /\ disk'.settleTx[m] = mem.settleTx[m]
              /\ disk'.receipt[m] = disk.receipt[m] /\ mem.phase[m] # "none"
          BY <3>1, <4>2
        <5> HIDE DEF kept
        <5> QED
          BY <5>1 DEF Truthful, Row, Resolutions
      <4> QED
        BY <4>1, <4>2
    <3> QED
      BY <2>1, <3>5, <3>6, DiskWritten
  <2>4. CASE disk' = [disk EXCEPT !.receipt = [m \in Markets |->
                IF mem.receipt[m] = "none" THEN disk.receipt[m]
                                           ELSE mem.receipt[m]]]
    <3>1. disk' \in StoreType
      BY <2>1, <2>4 DEF StoreType
    <3>2. /\ disk'.phase = disk.phase /\ disk'.settleTx = disk.settleTx
          /\ \A m \in Markets : disk'.receipt[m] \in {disk.receipt[m], mem.receipt[m]}
      BY <2>1, <2>4 DEF StoreType
    <3>3. Truthful(disk)'
      BY <2>1, <3>2 DEF Truthful, Resolutions
    <3> QED
      BY <2>1, <3>1, <3>3, DiskWritten
  <2> QED
    BY <1>5, <2>2, <2>3, <2>4 DEF FlushTable
<1>6. CASE Tick
  <2>1. UNCHANGED <<chain, mem, saving, disk, flush, duties, crashes, faults>>
        /\ now' \in Nat
    BY <1>6 DEF Tick, TypeOK, store
  <2>2. UNCHANGED <<ensure, settler, attempts, seen, sweep>> /\ ChainMoves
    BY <2>1, ChainStays DEF duties
  <2>3. TypeOK'
    BY <2>1, <2>2 DEF TypeOK
  <2> QED
    BY <2>1, <2>2, <2>3, MemStays, DiskStays, EnsureStays, SettlerStays,
       SweepStays, BudgetStays DEF BudgetHolds
<1> QED
  BY <1>2, <1>3, <1>4, <1>5, <1>6

\* The projection copies the account into the row.
LEMMA SyncKeeps ==
  ASSUME KeeperInv, NEW m \in Markets, SyncMarket(m)
  PROVE  KeeperInv'
<1> USE DEF KeeperInv, StoresAreTruthful
<1>1. /\ UNCHANGED <<now, crashes, faults, chain, mem, saving, flush, duties>>
      /\ chain[m] # "absent" /\ disk \in StoreType /\ chain[m] \in Statuses
      /\ saving \in BOOLEAN /\ faults \in Nat
      /\ flush \in {"idle", "fixtures", "markets", "receipts"}
  BY DEF SyncMarket, env, store, TypeOK
<1>2. disk' = [disk EXCEPT !.phase[m] = chain[m],
                           !.receipt[m] = IF chain[m] = "settled" /\ @ = "none"
                                          THEN "signed" ELSE @]
  BY DEF SyncMarket
<1>3. /\ disk'.phase = [disk.phase EXCEPT ![m] = chain[m]]
      /\ disk'.settleTx = disk.settleTx
      /\ \A k \in Markets : \/ disk'.receipt[k] = disk.receipt[k]
                            \/ k = m /\ chain[m] = "settled"
      /\ disk' \in StoreType
  BY <1>1, <1>2 DEF StoreType, Statuses, Phases, Resolutions, Receipts
<1>4. Truthful(disk)'
  BY <1>1, <1>3 DEF Truthful, StoreType, Statuses, Resolutions
<1> QED
  BY <1>1, <1>3, <1>4, DiskWritten

\* A new process starts from a store that is true, whichever it is.
LEMMA RestartKeeps ==
  ASSUME KeeperInv, NEW s \in StoreType, Truthful(s), Restart(s),
         crashes' \in Nat, UNCHANGED faults
  PROVE  KeeperInv'
<1> USE DEF KeeperInv, StoresAreTruthful
<1>1. /\ disk' = s /\ mem' = Loaded(s) /\ saving' = FALSE /\ flush' = "idle"
      /\ ensure' = [k \in Markets |-> Idle] /\ settler' = [k \in Markets |-> Idle]
      /\ attempts' = [k \in Markets |-> 0]
      /\ seen' = [k \in Markets |-> "absent"]
      /\ sweep' = IdleSweep /\ UNCHANGED <<now, chain, faults>>
  BY DEF Restart
<1>2. /\ mem'.phase = [k \in Markets |-> IF s.phase[k] = "open" THEN "created"
                                                               ELSE s.phase[k]]
      /\ mem'.finalised = s.finalised /\ mem'.settleTx = s.settleTx
      /\ mem'.receipt = s.receipt /\ mem' \in StoreType
  BY <1>1 DEF Loaded, StoreType, Phases
<1>3. TypeOK'
  <2>1. \A k \in Markets : mem'.phase[k] # "open"
    BY <1>2
  <2> QED
    BY <1>1, <1>2, <2>1 DEF TypeOK, Idle, IdleSweep, EnsureSteps, SettlerSteps,
                            SweepSteps, Replies, Statuses
<1>4. Truthful(disk)' /\ Truthful(mem)'
  BY <1>1, <1>2 DEF Truthful, Resolutions
<1>5. BudgetHolds' /\ EnsureInv' /\ SettlerInv' /\ SweepInv'
  BY <1>1 DEF BudgetHolds, EnsureInv, SettlerInv, SweepInv, InFlight, Idle,
              IdleSweep
<1> QED
  BY <1>3, <1>4, <1>5

\* The process ends, and starts with what is saved.
LEMMA CrashKeeps ==
  ASSUME KeeperInv, Crash \/ Shutdown \/ SweepDies
  PROVE  KeeperInv'
<1>1. /\ mem \in StoreType /\ disk \in StoreType
      /\ Truthful(mem) /\ Truthful(disk) /\ crashes + 1 \in Nat
  BY DEF KeeperInv, StoresAreTruthful, TypeOK
<1> QED
  BY <1>1, RestartKeeps DEF Crash, Shutdown, SweepDies

-----------------------------------------------------------------------------
\* Every step of the keeper and of the chain keeps the invariant.
LEMMA KeeperStep == KeeperInv /\ [Next]_vars => KeeperInv'
<1> SUFFICES ASSUME KeeperInv, [Next]_vars
             PROVE  KeeperInv'
  OBVIOUS
<1>1. CASE UNCHANGED vars
  BY <1>1 DEF vars, KeeperInv, TypeOK, StoresAreTruthful, Truthful, BudgetHolds,
              EnsureInv, SettlerInv, SweepInv, InFlight, ReadFrom
<1>2. CASE Next
  BY <1>2, EnsureStepKeeps, EnsureAnswerKeeps, FinaliseKeeps, SettlerAnswerKeeps,
     SettlerStepKeeps, SweepStepKeeps, SyncKeeps, StrangerKeeps, SweepEndsKeep,
     SweepAnswerKeeps, StoreKeeps, CrashKeeps DEF Next
<1> QED
  BY <1>1, <1>2

\* Nothing is known at the start.
LEMMA KeeperInit == Init => KeeperInv
<1> SUFFICES ASSUME Init PROVE KeeperInv
  OBVIOUS
<1>1. /\ EmptyStore \in StoreType
      /\ \A k \in Markets : /\ EmptyStore.phase[k] = "none"
                            /\ EmptyStore.receipt[k] = "none"
                            /\ EmptyStore.settleTx[k] = FALSE
  BY DEF EmptyStore, StoreType, Phases, Receipts
<1>2. TypeOK
  BY <1>1 DEF Init, TypeOK, Idle, IdleSweep, EnsureSteps, SettlerSteps,
              SweepSteps, Replies, Statuses
<1>3. StoresAreTruthful
  BY <1>1 DEF Init, StoresAreTruthful, Truthful, Resolutions
<1>4. BudgetHolds /\ EnsureInv /\ SettlerInv /\ SweepInv
  BY DEF Init, BudgetHolds, EnsureInv, SettlerInv, SweepInv, InFlight, Idle,
         IdleSweep
<1> QED
  BY <1>2, <1>3, <1>4 DEF KeeperInv

\* The strengthening: a pending reply is a place its account moved on from.
LEMMA KeeperInvariant == Spec => []KeeperInv
BY KeeperInit, KeeperStep, PTL DEF Spec

\* The types of the keeper's memory, store and awaits.
THEOREM KeeperTypes == Spec => []TypeOK
<1>1. KeeperInv => TypeOK
  BY DEF KeeperInv
<1> QED
  BY <1>1, KeeperInvariant, PTL

\* Neither the memory of the keeper nor its file or tables ever show a market
\* as locked, settled, refundable or proven when its account is not, however
\* its callbacks, other cranks, lost confirmations, partial flushes, the
\* projection and crashes interleave.
THEOREM StoresAlwaysTruthful == Spec => []StoresAreTruthful
<1>1. KeeperInv => StoresAreTruthful
  BY DEF KeeperInv
<1> QED
  BY <1>1, KeeperInvariant, PTL

\* A settlement never runs more attempts than configured, never before the
\* final record, and never on a market in "created" or "error".
THEOREM BudgetAlwaysHolds == Spec => []BudgetHolds
<1>1. KeeperInv => BudgetHolds
  BY DEF KeeperInv
<1> QED
  BY <1>1, KeeperInvariant, PTL

-----------------------------------------------------------------------------
(* The backstop, where the feed waits for the lock *)

Late == {"settling", "error"}

\* An account that was created opens no more.
LEMMA NeverReopened ==
  ASSUME KeeperInv, Next, NEW k \in Markets
  PROVE  chain'[k] = "open" => chain[k] \in {"absent", "open"}
<1>1. TypeOK
  BY DEF KeeperInv
<1>2. ASSUME NEW m \in Markets, EnsureStep(m) \/ Finalise(m) \/ SettlerStep(m) \/ SweepStep(m)
                                 \/ SyncMarket(m)
      PROVE  UNCHANGED chain
  BY <1>2 DEF EnsureStep, EnsureStart, EnsureAdopt, EnsureCreate, EnsureCreated,
              EnsureFailed, Finalise, SettlerStep, SweepStep, SyncMarket
<1>3. CASE SweepStart \/ SweepEnd \/ SaveJson \/ SavePostgres \/ FlushTable \/ FlushFails
             \/ Crash \/ Shutdown \/ SweepDies \/ Tick
  BY <1>3, <1>1 DEF SweepStart, SweepEnd, SaveJson, SavePostgres, FlushTable, FlushFails,
              Crash, Shutdown, SweepDies, Tick, Restart
<1>4. ASSUME NEW m \in Markets, NEW to \in Statuses, chain' = [chain EXCEPT ![m] = to],
             to = "open" => chain[m] = "absent"
      PROVE  chain'[k] = "open" => chain[k] \in {"absent", "open"}
  BY <1>1, <1>4 DEF TypeOK
<1>5. ASSUME NEW m \in Markets, Stranger(m)
      PROVE  chain'[k] = "open" => chain[k] \in {"absent", "open"}
  BY <1>4, <1>5 DEF Stranger, CanInit, Resolutions
<1>6. ASSUME NEW m \in Markets, EnsureAnswer(m)
      PROVE  chain'[k] = "open" => chain[k] \in {"absent", "open"}
  BY <1>1, <1>4, <1>6 DEF EnsureAnswer, Executes, Refused, NotSent, CanInit, Statuses
<1>7. ASSUME NEW m \in Markets, SettlerAnswer(m)
      PROVE  chain'[k] = "open" => chain[k] \in {"absent", "open"}
  <2>1. UNCHANGED chain \/ \E to \in Resolutions : chain' = [chain EXCEPT ![m] = to]
    BY <1>7 DEF SettlerAnswer, SettleReply, Executes, NotSent
  <2> QED
    BY <1>1, <1>4, <2>1 DEF Statuses, Resolutions
<1>8. CASE SweepAnswer
  <2>1. UNCHANGED chain \/ \E to \in {"locked", "cancelled"} :
                              chain' = [chain EXCEPT ![sweep.at] = to]
    BY <1>8 DEF SweepAnswer, Executes, Refused, NotSent
  <2> QED
    BY <1>1, <2>1 DEF TypeOK
<1> QED
  BY <1>1, <1>2, <1>3, <1>5, <1>6, <1>7, <1>8 DEF Next

\* The configuration outlives the process.
LEMMA ModeStays == Next => mode' = mode
<1>1. \A m \in Markets : EnsureStep(m) \/ Finalise(m) \/ SettlerStep(m) \/ SweepStep(m)
                           \/ SyncMarket(m) \/ Stranger(m) => mode' = mode
  BY DEF EnsureStep, EnsureStart, EnsureAdopt, EnsureCreate, EnsureCreated, EnsureFailed,
         Finalise, SettlerStep, SweepStep, SyncMarket, Stranger, env
<1>2. \A m \in Markets : EnsureAnswer(m) \/ SettlerAnswer(m) => mode' = mode
  BY DEF EnsureAnswer, SettlerAnswer
<1>3. SweepStart \/ SweepEnd \/ SaveJson \/ SavePostgres \/ FlushTable \/ FlushFails
        \/ Crash \/ Shutdown \/ SweepDies \/ Tick \/ SweepAnswer => mode' = mode
  BY DEF SweepStart, SweepEnd, SaveJson, SavePostgres, FlushTable, FlushFails, Crash,
         Shutdown, SweepDies, Tick, Restart, SweepAnswer, env
<1> QED
  BY <1>1, <1>2, <1>3 DEF Next

\* A market comes to be under settlement, or in error, when its final record
\* comes or its attempts run out, or because it was so when it was saved.
LEMMA LateComers ==
  ASSUME KeeperInv, Next, NEW k \in Markets, mem'.phase[k] \in Late
  PROVE  \/ mem.phase[k] \in Late
         \/ Finalise(k) /\ mem.phase[k] # "none"
         \/ InFlight(k) /\ UNCHANGED chain
         \/ disk.phase[k] \in Late
<1> USE DEF Late
<1>1. TypeOK
  BY DEF KeeperInv
<1>2. ASSUME NEW m \in Markets, NEW phase, phase \notin Late,
             mem' = [mem EXCEPT !.phase[m] = phase]
      PROVE  mem.phase[k] \in Late
  BY <1>1, <1>2 DEF TypeOK, StoreType
<1>3. ASSUME NEW m \in Markets, EnsureStep(m)
      PROVE  mem.phase[k] \in Late
  <2>1. CASE EnsureAdopt(m)
    BY <1>2, <2>1 DEF EnsureAdopt, Adopted, Statuses, Resolutions
  <2>2. CASE EnsureCreated(m)
    BY <1>2, <2>2 DEF EnsureCreated
  <2>3. CASE UNCHANGED mem
    BY <2>3
  <2> QED
    BY <1>3, <2>1, <2>2, <2>3 DEF EnsureStep, EnsureStart, EnsureCreate, EnsureFailed, store
<1>4. ASSUME NEW m \in Markets, Finalise(m)
      PROVE  mem.phase[k] \in Late \/ (Finalise(k) /\ mem.phase[k] # "none")
  <2>1. mem' = [mem EXCEPT !.finalised[m] = TRUE,
                           !.phase[m] = IF Starts(m) THEN "settling" ELSE @]
    BY <1>4 DEF Finalise
  <2>2. mem'.phase = [mem.phase EXCEPT ![m] = IF Starts(m) THEN "settling" ELSE @]
    BY <1>1, <2>1 DEF TypeOK, StoreType
  <2> QED
    BY <1>1, <1>4, <2>2 DEF TypeOK, StoreType, Starts
<1>5. ASSUME NEW m \in Markets, SettlerStep(m)
      PROVE  mem.phase[k] \in Late \/ (InFlight(k) /\ UNCHANGED chain)
  <2>1. UNCHANGED chain /\ InFlight(m)
    BY <1>5 DEF SettlerStep, InFlight, AfterStatus, AfterBackfill, AfterProof, AfterSettle,
                AfterConfirm, AfterRecheck, Retry, Resumes
  <2>2. UNCHANGED mem \/ \E phase \in {"error"} \cup Resolutions :
                           /\ mem'.phase = [mem.phase EXCEPT ![m] = phase]
    <3>1. ASSUME NEW st, NEW signed, RecordResolution(m, st, signed)
          PROVE  \E phase \in Resolutions : mem'.phase = [mem.phase EXCEPT ![m] = phase]
      BY <1>1, <3>1 DEF RecordResolution, TypeOK, StoreType, Resolutions
    <3>2. ASSUME Fail(m)
          PROVE  UNCHANGED mem \/ mem'.phase = [mem.phase EXCEPT ![m] = "error"]
      BY <1>1, <3>2 DEF Fail, TypeOK, StoreType
    <3> QED
      BY <1>5, <3>1, <3>2 DEF SettlerStep, AfterStatus, AfterBackfill, AfterProof,
         AfterSettle, AfterConfirm, AfterRecheck, Retry, Continue, store
  <2> QED
    BY <1>1, <2>1, <2>2 DEF TypeOK, StoreType
<1>6. ASSUME NEW m \in Markets, SweepStep(m)
      PROVE  mem.phase[k] \in Late
  <2>1. UNCHANGED mem \/ \E phase \in {"locked"} \cup Resolutions :
                           mem' = [mem EXCEPT !.phase[m] = phase]
    BY <1>6 DEF SweepStep, SweepMarket, AfterLockRead, AfterLockTx, AfterCancelRead,
                AfterCancelTx, SetPhase, store, SweepResumes, Resolutions
  <2> QED
    BY <1>2, <2>1 DEF Resolutions
<1>7. CASE \E m \in Markets : SyncMarket(m) \/ Stranger(m) \/ EnsureAnswer(m) \/ SettlerAnswer(m)
  BY <1>7 DEF SyncMarket, Stranger, EnsureAnswer, SettlerAnswer, store
<1>8. CASE SweepStart \/ SweepEnd \/ SweepAnswer \/ SaveJson \/ SavePostgres \/ FlushTable
             \/ FlushFails \/ Tick
  BY <1>8 DEF SweepStart, SweepEnd, SweepAnswer, SaveJson, SavePostgres, FlushTable,
              FlushFails, Tick, store
<1>9. ASSUME NEW s, Restart(s), s = mem \/ s = disk
      PROVE  mem.phase[k] \in Late \/ disk.phase[k] \in Late
  BY <1>1, <1>9 DEF Restart, Loaded, TypeOK, StoreType
<1>10. CASE Crash \/ Shutdown \/ SweepDies
  BY <1>9, <1>10 DEF Crash, Shutdown, SweepDies
<1> QED
  BY <1>3, <1>4, <1>5, <1>6, <1>7, <1>8, <1>10 DEF Next

\* What is saved as such was so in memory.
LEMMA LateRows ==
  ASSUME KeeperInv, Next, NEW k \in Markets, disk'.phase[k] \in Late
  PROVE  mem.phase[k] \in Late \/ disk.phase[k] \in Late
<1> USE DEF Late
<1>1. TypeOK
  BY DEF KeeperInv
<1>2. CASE UNCHANGED disk
  BY <1>2
<1>3. CASE SaveJson
  BY <1>3 DEF SaveJson
<1>4. CASE FlushTable
  <2>1. CASE disk'.phase = disk.phase
    BY <2>1
  <2>2. CASE disk'.phase = [m \in Markets |->
                IF disk.phase[m] = "none" \/ mem.phase[m] = "none"
                THEN disk.phase[m] ELSE Row(mem.phase[m])]
    BY <2>2 DEF Row, Resolutions
  <2> QED
    BY <1>1, <1>4, <2>1, <2>2 DEF FlushTable, TypeOK, StoreType
<1>5. ASSUME NEW m \in Markets, SyncMarket(m)
      PROVE  disk.phase[k] \in Late
  <2>1. disk'.phase = [disk.phase EXCEPT ![m] = chain[m]]
    BY <1>1, <1>5 DEF SyncMarket, TypeOK, StoreType
  <2>2. chain[m] \notin Late
    <3>1. chain[m] \in Statuses
      BY <1>1 DEF TypeOK
    <3> QED
      BY <3>1 DEF Statuses, Resolutions
  <2>3. disk.phase \in [Markets -> Phases \cup {"open"}]
    BY <1>1 DEF TypeOK, StoreType
  <2>4. k # m
    BY <2>1, <2>2, <2>3
  <2> QED
    BY <2>1, <2>3, <2>4
<1>6. CASE Crash \/ Shutdown \/ SweepDies
  BY <1>6 DEF Crash, Shutdown, SweepDies, Restart
<1>7. ASSUME NEW m \in Markets, EnsureStep(m) \/ EnsureAnswer(m) \/ Finalise(m)
             \/ SettlerAnswer(m) \/ SettlerStep(m) \/ SweepStep(m) \/ Stranger(m)
      PROVE  UNCHANGED disk
  BY <1>7 DEF EnsureStep, EnsureStart, EnsureAdopt, EnsureCreate, EnsureCreated,
              EnsureFailed, EnsureAnswer, Finalise, SettlerAnswer, SettlerStep, SweepStep,
              Stranger
<1>8. CASE SweepStart \/ SweepAnswer \/ SweepEnd \/ SavePostgres \/ FlushFails \/ Tick
  BY <1>8 DEF SweepStart, SweepAnswer, SweepEnd, SavePostgres, FlushFails, Tick
<1> QED
  BY <1>2, <1>3, <1>4, <1>5, <1>6, <1>7, <1>8 DEF Next

\* Where the feed waits for the lock, no step brings an open market under settlement.
LEMMA BackstopStep ==
  KeeperInv /\ BackstopInv /\ [Next]_vars => BackstopInv'
<1> SUFFICES ASSUME KeeperInv, BackstopInv, [Next]_vars, FeedWaitsForLock'
             PROVE  PastLock(mem)' /\ PastLock(disk)'
  BY DEF BackstopInv
<1>1. CASE UNCHANGED vars
  BY <1>1 DEF vars, BackstopInv, PastLock, FeedWaitsForLock
<1>2. CASE Next
  <2>1. FeedWaitsForLock /\ PastLock(mem) /\ PastLock(disk)
    BY <1>2, ModeStays DEF FeedWaitsForLock, BackstopInv
  <2>2. ASSUME NEW k \in Markets, mem.phase[k] \in Late \/ disk.phase[k] \in Late
        PROVE  chain'[k] # "open"
    <3>1. chain[k] \notin {"absent", "open"}
      BY <2>1, <2>2 DEF PastLock, Late, KeeperInv, StoresAreTruthful, Truthful
    <3> QED
      BY <1>2, <3>1, NeverReopened
  <2>3. ASSUME NEW k \in Markets, Finalise(k), mem.phase[k] # "none"
        PROVE  chain'[k] # "open" \/ mem'.phase[k] \notin Late
    <3>1. mem.phase[k] \notin {"none", "created"} /\ UNCHANGED chain
      BY <2>1, <2>3 DEF Finalise
    <3>2. mem.phase[k] \in {"locked", "settling", "error"} \cup Resolutions
      BY <3>1 DEF KeeperInv, TypeOK, StoreType, Phases
    <3>3. chain[k] # "open"
      BY <2>1, <3>2 DEF PastLock, KeeperInv, StoresAreTruthful, Truthful, Resolutions
    <3> QED
      BY <3>1, <3>3
  <2>4. ASSUME NEW k \in Markets, InFlight(k), UNCHANGED chain
        PROVE  chain'[k] # "open"
    <3>1. mem.phase[k] \in {"locked", "settling"} \cup Resolutions
      BY <2>4 DEF KeeperInv, BudgetHolds, TypeOK, StoreType, Phases
    <3> QED
      BY <2>1, <2>4, <3>1 DEF PastLock, KeeperInv, StoresAreTruthful, Truthful, Resolutions
  <2>5. ASSUME NEW k \in Markets, mem'.phase[k] \in Late
        PROVE  chain'[k] # "open"
    BY <1>2, <2>2, <2>3, <2>4, <2>5, LateComers
  <2>6. ASSUME NEW k \in Markets, disk'.phase[k] \in Late
        PROVE  chain'[k] # "open"
    BY <1>2, <2>2, <2>6, LateRows
  <2> QED
    BY <2>5, <2>6 DEF PastLock, Late
<1> QED
  BY <1>1, <1>2

\* marketManager.ts: where the feed waits for the lock, every market the
\* backstop looks at can be cancelled once its deadline has passed.
THEOREM BackstopAlwaysApplies == Spec => []BackstopApplies
<1>1. Init => BackstopInv
  BY DEF Init, BackstopInv, PastLock, EmptyStore
<1>2. KeeperInv /\ BackstopInv => BackstopApplies
  BY DEF BackstopApplies, BackstopInv, PastLock, KeeperInv, StoresAreTruthful, Truthful,
         Resolutions
<1> QED
  BY <1>1, <1>2, BackstopStep, KeeperInvariant, PTL DEF Spec
=============================================================================
