---------------------------- MODULE MarketProofs ----------------------------
(***************************************************************************)
(* Proofs about Market, for every finite set of bettors and of outcomes    *)
(* and every amount, fee rate and time.  MoneyInv is inductive; the        *)
(* solvency properties follow from it, and with them that Market           *)
(* implements Escrow.  BetDesk does to its market only what Market allows, *)
(* and what its pages say is so, however late transactions land.           *)
(*                                                                         *)
(* First the tokens bets are made of, for every finite set of wallets and  *)
(* of requests in progress.  FaucetInv says that the ledger counts what    *)
(* the requests wrote down, that none writes a transaction down twice, and *)
(* that what nobody waits for and nobody wrote is counted by a fault.  The *)
(* steps of a request up to the confirmation are instances of Moves.       *)
(***************************************************************************)
EXTENDS BetDesk, Faucet, Counting

-----------------------------------------------------------------------------
(* Requests, transactions and what was written down *)

\* The requests of a wallet and what they wrote down are finitely many.
LEMMA Counts ==
  ASSUME FaucetTypes, NEW w
  PROVE  /\ IsFiniteSet(Through(w)) /\ Cardinality(Through(w)) \in Nat
         /\ IsFiniteSet(Unrecorded(w)) /\ Cardinality(Unrecorded(w)) \in Nat
         /\ IsFiniteSet(Credits(w)) /\ Cardinality(Credits(w)) \in Nat
         /\ IsFiniteSet(Granted(w)) /\ Cardinality(Granted(w)) \in Nat
         /\ IsFiniteSet(Abandoned) /\ Cardinality(Abandoned) \in Nat
         /\ Cardinality(Slots) \in Nat
         /\ Cardinality(Through(w)) <= Cardinality(Slots)
<1>1. Through(w) \subseteq Slots /\ Unrecorded(w) \subseteq Slots
  BY DEF Through, Unrecorded
<1>2. IsFiniteSet(Slots) /\ IsFiniteSet(executed) /\ IsFiniteSet(pending)
  BY WalletsAssumption DEF FaucetTypes
<1>3. IsFiniteSet(Through(w)) /\ IsFiniteSet(Unrecorded(w))
  BY <1>1, <1>2, FS_Subset
<1>4. IsFiniteSet(Slots \X executed)
  BY <1>2, FS_Product
<1>5. Credits(w) \subseteq Slots \X executed
  BY DEF Credits, FaucetTypes
<1>6. IsFiniteSet(Credits(w))
  BY <1>4, <1>5, FS_Subset
<1>7. Granted(w) \subseteq executed /\ Abandoned \subseteq pending \cup executed
  BY DEF Granted, Abandoned
<1>8. IsFiniteSet(Granted(w)) /\ IsFiniteSet(Abandoned)
  BY <1>2, <1>7, FS_Subset, FS_Union
<1>9. Cardinality(Through(w)) <= Cardinality(Slots)
  BY <1>1, <1>2, FS_Subset
<1>10. QED
  BY <1>2, <1>3, <1>6, <1>8, <1>9, FS_CardinalityType

\* A request that starts, or none, has nothing to send.
LEMMA CleanIsATransaction ==
  /\ \A w \in Wallets : Clean(w) \in Transactions
  /\ Free \in Requests /\ Free.pc = "free"
<1>1. (CHOOSE w \in Wallets : TRUE) \in Wallets
  BY WalletsAssumption
<1>2. \A w \in Wallets : Clean(w) \in Transactions
  BY DEF Clean, Transactions
<1>3. QED
  BY <1>1, <1>2 DEF Free, Requests

-----------------------------------------------------------------------------
(* The steps of a request up to the confirmation *)

\* A request goes on to q.  It is let through only while the ledger is below
\* MaxGrants and the last grant is not recent; it takes the latest blockhash
\* just before it sends; it sends its own transaction, and waits for it until it
\* has landed; and it leaves what it sent to itself only for a fault.
Moves(s, q) ==
  /\ req' = [req EXCEPT ![s] = q]
  /\ q.pc \in {"free", "ledger"} \/ q.tx.for = For(s)
  /\ \/ q.pc \in {"free", "ledger"}
     \/ req[s].pc \notin {"free", "ledger"}
     \/ ~ledger[For(s)].recent /\ ledger[For(s)].grants < MaxGrants
  /\ q.pc \in {"sol", "token", "hash"} => req[s].pc \in {"ledger", "sol", "token"}
  /\ q.pc = "send" => req[s].pc = "hash" /\ q.tx.block = block'
  /\ q.pc = "sent" => /\ req[s].pc = "send" /\ q.tx = Tx(s)
                      /\ Tx(s) \in pending' \cup executed \cup failed
  /\ q.pc = "record" => req[s].pc = "sent" /\ q.tx = Tx(s) /\ Tx(s) \in executed
  /\ block' \in {block, block + 1}
  /\ \/ pending' = pending
     \/ req[s].pc = "send" /\ ~Landed(Tx(s)) /\ pending' = pending \cup {Tx(s)}
  /\ \/ faults' = faults + 1
     \/ /\ faults' = faults
        /\ \/ q.pc \in {"sent", "record"} /\ q.tx = Tx(s)
           \/ pending' = pending /\ req[s].pc \notin {"sent", "record"}
           \/ pending' = pending /\ Tx(s) \in failed
  /\ UNCHANGED <<wallet, reserve, spent, executed, failed, ledger, credits, refilled>>

\* Such a step leaves the types, and the order of what is sent and lands.
LEMMA MovesInOrder ==
  ASSUME FaucetInv, NEW s \in Slots, NEW q \in Requests, Moves(s, q)
  PROVE  /\ \A r \in Slots : req'[r] = IF r = s THEN q ELSE req[r]
         /\ FaucetTypes' /\ RequestsInOrder'
<1>1. FaucetTypes /\ req \in [Slots -> Requests] /\ RequestsInOrder /\ WrittenOnce
  BY DEF FaucetInv, FaucetTypes
<1>2. \A r \in Slots : req'[r] = IF r = s THEN q ELSE req[r]
  BY <1>1 DEF Moves
<1>3. req' \in [Slots -> Requests]
  BY <1>1 DEF Moves
<1>4. block \in Nat /\ block' \in Nat /\ block <= block' /\ faults \in Nat /\ faults' \in Nat
  BY <1>1 DEF FaucetTypes, Moves
<1>5. Tx(s) \in Transactions
  BY <1>1 DEF Tx, Requests
<1>6. pending' \subseteq Transactions /\ IsFiniteSet(pending')
  BY <1>1, <1>5, FS_AddElement DEF FaucetTypes, Moves
<1>7. FaucetTypes'
  BY <1>1, <1>3, <1>4, <1>6 DEF FaucetTypes, Moves
<1>8. (\A r \in Slots : /\ req[r].pc = "sent" => Tx(r) \in pending \cup executed \cup failed
                        /\ req[r].pc = "record" => Tx(r) \in executed)'
  BY <1>1, <1>2 DEF RequestsInOrder, Moves, Tx
<1>9. (\A t \in pending \cup executed : t.block <= block)'
  <2>1. req[s].pc = "send" => Tx(s).block <= block
    BY <1>1 DEF WrittenOnce
  <2>2. \A t \in pending' \cup executed : t.block <= block /\ t.block \in Nat
    BY <1>1, <1>6, <2>1 DEF RequestsInOrder, Moves, FaucetTypes, Transactions
  <2>3. executed' = executed
    BY DEF Moves
  <2>4. QED
    BY <1>4, <2>2, <2>3
<1>10. (pending \cap executed = {} /\ failed \cap (pending \cup executed) = {})'
  BY <1>1 DEF RequestsInOrder, Moves, Landed
<1>11. QED
  BY <1>2, <1>7, <1>8, <1>9, <1>10 DEF RequestsInOrder

\* It is let through only where there is room in the share.
LEMMA MovesInShare ==
  ASSUME FaucetInv, NEW s \in Slots, NEW q \in Requests, Moves(s, q)
  PROVE  RoomInTheShare'
<1>1. FaucetTypes /\ FaucetTypes' /\ \A r \in Slots : req'[r] = IF r = s THEN q ELSE req[r]
  BY MovesInOrder DEF FaucetInv
<1> SUFFICES ASSUME NEW w \in Wallets
             PROVE  (ledger[w].grants + Cardinality(Through(w)) < MaxGrants + Cardinality(Slots))'
  BY DEF RoomInTheShare
<1>2. ledger[w].grants \in Nat /\ ledger' = ledger /\ MaxGrants \in Nat
  BY <1>1, AmountAssumption DEF FaucetTypes, Moves
<1>3. /\ IsFiniteSet(Through(w)) /\ Cardinality(Through(w)) \in Nat
      /\ Cardinality(Slots) \in Nat
  BY <1>1, Counts
<1>4. ledger[w].grants + Cardinality(Through(w)) < MaxGrants + Cardinality(Slots)
  BY DEF FaucetInv, RoomInTheShare
<1>5. Cardinality(Through(w)') <= Cardinality(Slots) /\ Cardinality(Through(w)') \in Nat
  <2>1. Through(w)' \subseteq Slots
    BY DEF Through
  <2>2. QED
    BY <2>1, WalletsAssumption, FewerAreLess
<1>6. CASE Through(w)' \subseteq Through(w)
  <2>1. Cardinality(Through(w)') <= Cardinality(Through(w))
    BY <1>3, <1>6, FewerAreLess
  <2>2. QED
    BY <1>2, <1>3, <1>4, <1>5, <2>1
<1>7. CASE ~(Through(w)' \subseteq Through(w))
  <2>1. PICK r \in Through(w)' : r \notin Through(w)
    BY <1>7
  <2>2. r \in Slots /\ req'[r].tx.for = w /\ req'[r].pc \notin {"free", "ledger"}
    BY <2>1 DEF Through, For, Tx
  <2>3. r = s
    BY <1>1, <2>1, <2>2 DEF Through, For, Tx
  <2>4. For(s) = w /\ ledger[w].grants < MaxGrants
    BY <1>1, <2>1, <2>2, <2>3 DEF Moves, Through
  <2>5. QED
    BY <1>2, <1>3, <1>5, <2>4
<1>8. QED
  BY <1>6, <1>7

\* What it is about to send, it has not written down before.
LEMMA MovesWriteOnce ==
  ASSUME FaucetInv, NEW s \in Slots, NEW q \in Requests, Moves(s, q)
  PROVE  WrittenOnce'
<1>1. FaucetTypes /\ RequestsInOrder /\ WrittenOnce
      /\ \A r \in Slots : req'[r] = IF r = s THEN q ELSE req[r]
  BY MovesInOrder DEF FaucetInv
<1>2. UNCHANGED <<ledger, credits, executed>>
  BY DEF Moves
<1>3. block \in Nat /\ block' \in {block, block + 1}
  BY <1>1 DEF FaucetTypes, Moves
<1>4. (\A w \in Wallets : ledger[w].grants = Cardinality(Credits(w)))'
  <2>1. \A w : Credits(w)' = Credits(w)
    BY <1>2 DEF Credits
  <2>2. QED
    BY <1>1, <1>2, <2>1 DEF WrittenOnce
<1>5. ASSUME NEW t, <<s, t>> \in credits, t.block = block'
      PROVE  /\ block' = block /\ t \in executed /\ ledger[t.for].recent
             /\ For(s) = t.for => req[s].pc \notin {"sol", "token", "hash"}
  <2>1. t \in executed
    BY <1>1, <1>5 DEF FaucetTypes
  <2>2. t.block <= block
    BY <1>1, <2>1 DEF RequestsInOrder
  <2>3. block' = block
    BY <1>3, <1>5, <2>2
  <2>4. QED
    BY <1>1, <1>5, <2>1, <2>3 DEF WrittenOnce
<1>6. q.pc = "send" => <<s, q.tx>> \notin credits
  <2> SUFFICES ASSUME q.pc = "send", <<s, q.tx>> \in credits
               PROVE  FALSE
    OBVIOUS
  <2>1. req[s].pc = "hash" /\ q.tx.block = block' /\ q.tx.for = For(s)
    BY DEF Moves
  <2>2. QED
    BY <1>5, <2>1
<1>7. (\A r \in Slots : req[r].pc \in {"send", "sent", "record"} => <<r, Tx(r)>> \notin credits)'
  BY <1>1, <1>2, <1>6 DEF WrittenOnce, Moves, Tx
<1>8. (\A r \in Slots : req[r].pc = "send" => Tx(r).block <= block)'
  <2> SUFFICES ASSUME NEW r \in Slots, req'[r].pc = "send"
               PROVE  req'[r].tx.block <= block'
    BY DEF Tx
  <2>1. CASE r = s
    BY <1>1, <1>3, <2>1 DEF Moves
  <2>2. CASE r # s
    <3>1. req'[r] = req[r] /\ req[r].tx.block <= block
      BY <1>1, <2>2 DEF WrittenOnce, Tx
    <3>2. req[r].tx.block \in Nat
      BY <1>1 DEF FaucetTypes, Requests, Transactions
    <3>3. QED
      BY <1>3, <3>1, <3>2
  <2>3. QED
    BY <2>1, <2>2
<1>9. ASSUME NEW r \in Slots, NEW t \in executed, <<r, t>> \in credits, t.block = block'
      PROVE  /\ ledger[t.for].recent
             /\ req'[r].tx.for = t.for => req'[r].pc \notin {"sol", "token", "hash"}
  <2>1. CASE r = s
    BY <1>1, <1>5, <1>9, <2>1 DEF Moves
  <2>2. CASE r # s
    <3>1. t.block <= block
      BY <1>1 DEF RequestsInOrder
    <3>2. block' = block
      BY <1>3, <1>9, <3>1
    <3>3. QED
      BY <1>1, <1>9, <2>2, <3>2 DEF WrittenOnce, For, Tx
  <2>3. QED
    BY <2>1, <2>2
<1>10. (\A r \in Slots, t \in executed :
          <<r, t>> \in credits /\ t.block = block =>
            /\ ledger[t.for].recent
            /\ For(r) = t.for => req[r].pc \notin {"sol", "token", "hash"})'
  BY <1>2, <1>9 DEF For
<1>11. QED
  BY <1>4, <1>7, <1>8, <1>10 DEF WrittenOnce

\* What it gives up is counted by a fault.
LEMMA MovesAbandonForFaults ==
  ASSUME FaucetInv, NEW s \in Slots, NEW q \in Requests, Moves(s, q)
  PROVE  AbandonedForFaults'
<1>1. FaucetTypes /\ RequestsInOrder /\ AbandonedForFaults
      /\ \A r \in Slots : req'[r] = IF r = s THEN q ELSE req[r]
  BY MovesInOrder DEF FaucetInv
<1> PICK t : t = Tx(s)
  OBVIOUS
<1>2. UNCHANGED <<credits, executed, failed>> /\ \A u : Written(u)' = Written(u)
  BY DEF Moves, Written
<1>3. \A u : u # t /\ Awaited(u) => Awaited(u)'
  BY <1>1 DEF Awaited, Tx
<1>4. pending' \cup executed' \subseteq (pending \cup executed) \cup {t}
  BY DEF Moves
<1>5. Abandoned' \subseteq Abandoned \cup {t}
  BY <1>2, <1>3, <1>4 DEF Abandoned
<1>6. /\ IsFiniteSet(Abandoned) /\ Cardinality(Abandoned) \in Nat
      /\ Cardinality(Abandoned) <= faults /\ faults \in Nat
  BY <1>1, Counts DEF AbandonedForFaults, FaucetTypes
<1>7. /\ IsFiniteSet(Abandoned \cup {t})
      /\ Cardinality(Abandoned \cup {t}) \in {Cardinality(Abandoned), Cardinality(Abandoned) + 1}
  BY <1>6, FS_AddElement
<1>8. CASE faults' = faults + 1
  <2>1. /\ Cardinality(Abandoned') \in Nat
        /\ Cardinality(Abandoned') <= Cardinality(Abandoned \cup {t})
    BY <1>5, <1>7, FewerAreLess
  <2>2. QED
    BY <1>6, <1>7, <1>8, <2>1 DEF AbandonedForFaults
<1>9. CASE faults' = faults /\ q.pc \in {"sent", "record"} /\ q.tx = Tx(s)
  <2>1. Awaited(t)'
    BY <1>1, <1>9 DEF Awaited, Tx
  <2>2. t \notin Abandoned'
    BY <2>1 DEF Abandoned
  <2>3. Abandoned' \subseteq Abandoned
    BY <1>5, <2>2
  <2>4. QED
    BY <1>6, <1>9, <2>3, FewerAreLess DEF AbandonedForFaults
<1>10. CASE faults' = faults /\ pending' = pending /\ req[s].pc \notin {"sent", "record"}
  <2>1. \A u : Awaited(u) => Awaited(u)'
    BY <1>1, <1>10 DEF Awaited, Tx
  <2>2. Abandoned' \subseteq Abandoned
    BY <1>2, <1>10, <2>1 DEF Abandoned
  <2>3. QED
    BY <1>6, <1>10, <2>2, FewerAreLess DEF AbandonedForFaults
<1>11. CASE faults' = faults /\ pending' = pending /\ Tx(s) \in failed
  <2>1. t \notin pending' \cup executed'
    BY <1>1, <1>2, <1>11 DEF RequestsInOrder
  <2>2. t \notin Abandoned'
    BY <2>1 DEF Abandoned
  <2>3. Abandoned' \subseteq Abandoned
    BY <1>5, <2>2
  <2>4. QED
    BY <1>6, <1>11, <2>3, FewerAreLess DEF AbandonedForFaults
<1>12. QED
  BY <1>8, <1>9, <1>10, <1>11 DEF Moves

\* So a step of a request keeps FaucetInv.
LEMMA MovesSteps ==
  ASSUME FaucetInv, NEW s \in Slots, NEW q \in Requests, Moves(s, q)
  PROVE  FaucetInv'
<1>1. FaucetTypes' /\ RequestsInOrder'
  BY MovesInOrder
<1>2. RoomInTheShare' /\ WrittenOnce' /\ AbandonedForFaults'
  BY MovesInShare, MovesWriteOnce, MovesAbandonForFaults
<1>3. CreatedOnce' /\ TokensAdd'
  BY DEF CreatedOnce, TokensAdd, FaucetInv, Moves
<1>4. QED
  BY <1>1, <1>2, <1>3 DEF FaucetInv

\* A request ends, with nothing on its way to it or for a fault.
LEMMA EndsSteps ==
  ASSUME FaucetInv, NEW s \in Slots, Ends(s), block' = block,
         \/ pending' = pending
         \/ req[s].pc = "send" /\ ~Landed(Tx(s)) /\ pending' = pending \cup {Tx(s)},
         \/ faults' = faults + 1
         \/ faults' = faults /\ pending' = pending /\ req[s].pc \notin {"sent", "record"}
         \/ faults' = faults /\ pending' = pending /\ Tx(s) \in failed,
         UNCHANGED <<wallet, reserve, spent, executed, failed, ledger, credits, refilled>>
  PROVE  FaucetInv'
<1>1. Moves(s, Free)
  BY CleanIsATransaction DEF Moves, Ends
<1>2. QED
  BY <1>1, CleanIsATransaction, MovesSteps

\* A request goes on to the next of its reads, or waits for what it sent, or has
\* found it.
LEMMA GoesSteps ==
  ASSUME FaucetInv, NEW s \in Slots, NEW made \in Transactions,
         NEW p \in {"ledger", "sol", "token", "hash", "send", "sent", "record"},
         Goes(s, p, made), Moves(s, [pc |-> p, tx |-> made])
  PROVE  FaucetInv'
<1>1. [pc |-> p, tx |-> made] \in Requests
  BY DEF Requests
<1>2. QED
  BY <1>1, MovesSteps

\* A request is asked for.
LEMMA AskSteps ==
  ASSUME FaucetInv, NEW s \in Slots, NEW w \in Wallets, Ask(s, w)
  PROVE  FaucetInv'
<1>1. Clean(w) \in Transactions
  BY CleanIsATransaction
<1>2. Moves(s, [pc |-> "ledger", tx |-> Clean(w)])
  BY DEF Ask, Moves, Goes, purses, cluster, books
<1>3. QED
  BY <1>1, <1>2, GoesSteps DEF Ask

\* What a request would send is a transaction for its wallet.
LEMMA OwnTransaction ==
  ASSUME FaucetTypes, NEW s \in Slots
  PROVE  /\ Tx(s) \in Transactions /\ For(s) \in Wallets /\ Tx(s).for = For(s)
         /\ \A b \in BOOLEAN : /\ [Tx(s) EXCEPT !.sol = b] \in Transactions
                               /\ [Tx(s) EXCEPT !.sol = b].for = For(s)
         /\ \A c, u \in BOOLEAN : /\ [Tx(s) EXCEPT !.create = c, !.usdc = u] \in Transactions
                                  /\ [Tx(s) EXCEPT !.create = c, !.usdc = u].for = For(s)
         /\ \A n \in Nat : /\ [Tx(s) EXCEPT !.block = n] \in Transactions
                           /\ [Tx(s) EXCEPT !.block = n].for = For(s)
                           /\ [Tx(s) EXCEPT !.block = n].block = n
<1>1. Tx(s) \in Transactions
  BY DEF Tx, FaucetTypes, Requests
<1>2. QED
  BY <1>1 DEF Tx, For, Transactions

\* The ledger is read.
LEMMA CheckLedgerSteps ==
  ASSUME FaucetInv, NEW s \in Slots, CheckLedger(s)
  PROVE  FaucetInv'
<1>1. /\ req[s].pc = "ledger" /\ FaucetTypes
      /\ UNCHANGED <<wallet, reserve, spent, block, pending, executed, failed,
                     ledger, credits, refilled, faults>>
  BY DEF CheckLedger, purses, cluster, books, bounds, FaucetInv
<1>2. CASE Ends(s)
  BY <1>1, <1>2, EndsSteps
<1>3. CASE /\ Goes(s, "sol", Tx(s))
           /\ ~(ledger[For(s)].recent \/ ledger[For(s)].grants >= MaxGrants)
  <2>1. For(s) \in Wallets /\ Tx(s) \in Transactions /\ Tx(s).for = For(s)
    BY <1>1, OwnTransaction
  <2>2. ledger[For(s)].grants \in Nat /\ MaxGrants \in Nat
    BY <1>1, <2>1, AmountAssumption DEF FaucetTypes
  <2>3. Moves(s, [pc |-> "sol", tx |-> Tx(s)])
    BY <1>1, <1>3, <2>1, <2>2 DEF Moves, Goes
  <2>4. QED
    BY <1>3, <2>1, <2>3, GoesSteps
<1>4. QED
  BY <1>2, <1>3 DEF CheckLedger

\* The SOL balance is read.
LEMMA ReadSolSteps ==
  ASSUME FaucetInv, NEW s \in Slots, ReadSol(s)
  PROVE  FaucetInv'
<1> DEFINE plan == [Tx(s) EXCEPT !.sol = ~wallet[For(s)].sol]
<1>1. /\ req[s].pc = "sol" /\ FaucetTypes /\ Goes(s, "token", plan)
      /\ UNCHANGED <<wallet, reserve, spent, block, pending, executed, failed,
                     ledger, credits, refilled, faults>>
  BY DEF ReadSol, purses, cluster, books, bounds, FaucetInv
<1>2. (~wallet[For(s)].sol) \in BOOLEAN
  OBVIOUS
<1>3. plan \in Transactions /\ plan.for = For(s)
  BY <1>1, <1>2, OwnTransaction
<1> HIDE DEF plan
<1>4. Moves(s, [pc |-> "token", tx |-> plan])
  BY <1>1, <1>3 DEF Moves, Goes
<1>5. QED
  BY <1>1, <1>3, <1>4, GoesSteps

\* Whatever was read of the token account, the request goes on or ends.
LEMMA PlannedSteps ==
  ASSUME FaucetInv, NEW s \in Slots, NEW account \in BOOLEAN, NEW held \in Nat,
         Planned(s, account, held), req[s].pc = "token", faults' \in {faults, faults + 1},
         UNCHANGED <<wallet, reserve, spent, block, pending, executed, failed,
                     ledger, credits, refilled>>
  PROVE  FaucetInv'
<1> DEFINE plan == [Tx(s) EXCEPT !.create = ~account, !.usdc = held < Ceiling]
<1>1. Goes(s, "hash", plan) \/ Ends(s)
  BY DEF Planned
<1>2. CASE Goes(s, "hash", plan)
  <2>1. plan \in Transactions /\ plan.for = For(s)
    <3>1. (~account) \in BOOLEAN
      OBVIOUS
    <3>2. (held < Ceiling) \in BOOLEAN
      OBVIOUS
    <3>3. FaucetTypes
      BY DEF FaucetInv
    <3>4. QED
      BY <3>1, <3>2, <3>3, OwnTransaction, Zenon
  <2> HIDE DEF plan
  <2>2. Moves(s, [pc |-> "hash", tx |-> plan])
    BY <1>2, <2>1 DEF Moves, Goes
  <2>3. QED
    BY <1>2, <2>1, <2>2, GoesSteps
<1>3. CASE Ends(s)
  BY <1>3, EndsSteps
<1>4. QED
  BY <1>1, <1>2, <1>3

\* The token account is read, or the call fails.
LEMMA ReadTokenSteps ==
  ASSUME FaucetInv, NEW s \in Slots, ReadToken(s)
  PROVE  FaucetInv'
<1>1. /\ req[s].pc = "token" /\ FaucetTypes /\ For(s) \in Wallets
      /\ UNCHANGED <<wallet, reserve, spent, block, pending, executed, failed,
                     ledger, credits, refilled>>
  BY OwnTransaction DEF ReadToken, purses, cluster, books, FaucetInv
<1>2. wallet[For(s)].account \in BOOLEAN /\ wallet[For(s)].usdc \in Nat
  BY <1>1 DEF FaucetTypes
<1>3. CASE UNCHANGED faults /\ Planned(s, wallet[For(s)].account, wallet[For(s)].usdc)
  BY <1>1, <1>2, <1>3, PlannedSteps
<1>4. CASE Fault /\ Planned(s, FALSE, 0)
  BY <1>1, <1>4, PlannedSteps DEF Fault
<1>5. QED
  BY <1>3, <1>4 DEF ReadToken

\* A call fails, and the request ends.
LEMMA CallFailsSteps ==
  ASSUME FaucetInv, NEW s \in Slots, CallFails(s)
  PROVE  FaucetInv'
BY EndsSteps DEF CallFails, Fault, purses, cluster, books

\* The blockhash is read: what is made over it was never written down.
LEMMA ReadBlockhashSteps ==
  ASSUME FaucetInv, NEW s \in Slots, ReadBlockhash(s)
  PROVE  FaucetInv'
<1>1. PICK b \in {block, block + 1} :
        block' = b /\ Goes(s, "send", [Tx(s) EXCEPT !.block = b])
  BY DEF ReadBlockhash
<1> DEFINE made == [Tx(s) EXCEPT !.block = b]
<1>2. b \in Nat
  BY DEF FaucetInv, FaucetTypes
<1>3. made \in Transactions /\ made.for = For(s) /\ made.block = b
  BY <1>2, OwnTransaction DEF FaucetInv
<1>4. Goes(s, "send", made)
  BY <1>1
<1> HIDE DEF made
<1>5. Moves(s, [pc |-> "send", tx |-> made])
  BY <1>1, <1>3, <1>4 DEF ReadBlockhash, Moves, Goes, purses, books, bounds
<1>6. QED
  BY <1>3, <1>4, <1>5, GoesSteps

\* The transaction is sent, or refused.
LEMMA SendSteps ==
  ASSUME FaucetInv, NEW s \in Slots, Send(s)
  PROVE  FaucetInv'
<1>1. /\ req[s].pc = "send" /\ Tx(s) \in Transactions /\ Tx(s).for = For(s)
      /\ UNCHANGED <<wallet, reserve, spent, block, executed, failed,
                     ledger, credits, refilled, faults>>
  BY OwnTransaction DEF Send, purses, books, bounds, FaucetInv
<1>2. CASE Sent(Tx(s)) /\ Goes(s, "sent", Tx(s))
  <2>1. /\ Tx(s) \in pending' \cup executed \cup failed
        /\ \/ pending' = pending
           \/ ~Landed(Tx(s)) /\ pending' = pending \cup {Tx(s)}
    BY <1>2 DEF Sent, Landed
  <2>2. Moves(s, [pc |-> "sent", tx |-> Tx(s)])
    BY <1>1, <1>2, <2>1 DEF Moves, Goes
  <2>3. QED
    BY <1>1, <1>2, <2>2, GoesSteps
<1>3. CASE Ends(s) /\ UNCHANGED pending
  BY <1>1, <1>3, EndsSteps
<1>4. QED
  BY <1>2, <1>3 DEF Send

\* The transaction is sent, and nobody waits for it.
LEMMA SendUnansweredSteps ==
  ASSUME FaucetInv, NEW s \in Slots, SendUnanswered(s)
  PROVE  FaucetInv'
BY EndsSteps DEF SendUnanswered, Sent, Fault, purses, books

\* The confirmation is found, or an error, or neither in time.
LEMMA PollSteps ==
  ASSUME FaucetInv, NEW s \in Slots, Poll(s)
  PROVE  FaucetInv'
<1>1. /\ req[s].pc = "sent" /\ Tx(s) \in Transactions /\ Tx(s).for = For(s)
      /\ UNCHANGED <<wallet, reserve, spent, block, pending, executed, failed,
                     ledger, credits, refilled>>
  BY OwnTransaction DEF Poll, purses, cluster, books, FaucetInv
<1>2. CASE Tx(s) \in executed /\ Goes(s, "record", Tx(s)) /\ UNCHANGED faults
  <2>1. Moves(s, [pc |-> "record", tx |-> Tx(s)])
    BY <1>1, <1>2 DEF Moves, Goes
  <2>2. QED
    BY <1>1, <1>2, <2>1, GoesSteps
<1>3. CASE Tx(s) \in failed /\ Ends(s) /\ UNCHANGED faults
  BY <1>1, <1>3, EndsSteps
<1>4. CASE Fault /\ Ends(s)
  BY <1>1, <1>4, EndsSteps DEF Fault
<1>5. QED
  BY <1>2, <1>3, <1>4 DEF Poll

-----------------------------------------------------------------------------
(* What lands, and what is written down *)

\* A transaction that lands moves a grant from the faucet to the wallet, or
\* nothing, and leaves the wallet with an account.
LEMMA LandsMovesTokens ==
  ASSUME FaucetTypes, NEW t \in Transactions, Valid(t), Lands(t)
  PROVE  /\ wallet' \in [Wallets -> [account : BOOLEAN, usdc : Nat, sol : BOOLEAN]]
         /\ reserve' \in Nat
         /\ \A w \in Wallets : wallet[w].account => wallet'[w].account
         /\ wallet'[t.for].account
         /\ reserve' + Sum([w \in Wallets |-> wallet'[w].usdc], Wallets)
              = reserve + Sum([w \in Wallets |-> wallet[w].usdc], Wallets)
<1> DEFINE f == [w \in Wallets |-> wallet[w].usdc]
           g == [w \in Wallets |-> wallet'[w].usdc]
           v == t.for
           one == [account |-> TRUE, sol |-> wallet[v].sol \/ t.sol,
                   usdc |-> IF t.usdc THEN wallet[v].usdc + Grant ELSE wallet[v].usdc]
<1>1. /\ wallet \in [Wallets -> [account : BOOLEAN, usdc : Nat, sol : BOOLEAN]]
      /\ reserve \in Nat /\ Grant \in Nat
      /\ v \in Wallets /\ t.sol \in BOOLEAN
  BY AmountAssumption DEF FaucetTypes, Transactions
<1>2. wallet' = [wallet EXCEPT ![v] = one]
  BY DEF Lands
<1>3. one \in [account : BOOLEAN, usdc : Nat, sol : BOOLEAN]
  BY <1>1
<1>4. /\ wallet' \in [Wallets -> [account : BOOLEAN, usdc : Nat, sol : BOOLEAN]]
      /\ wallet'[v] = one
      /\ \A w \in Wallets \ {v} : wallet'[w] = wallet[w]
  <2> HIDE DEF one, v
  <2>1. QED
    BY <1>1, <1>2, <1>3
<1>5. one.account /\ one.usdc = IF t.usdc THEN f[v] + Grant ELSE f[v]
  BY <1>1
<1>6. reserve' = IF t.usdc THEN reserve - Grant ELSE reserve
  BY DEF Lands
<1>7. reserve' \in Nat
  BY <1>1, <1>6 DEF Valid
<1>9. f \in [Wallets -> Nat] /\ g \in [Wallets -> Nat]
  BY <1>1, <1>4
<1>10. \A w \in Wallets \ {v} : g[w] = f[w]
  BY <1>4
<1>11. g[v] = one.usdc
  BY <1>1, <1>4
<1>12. Sum(f, Wallets) \in Nat
  BY <1>9, WalletsAssumption, SumType
<1>13. Sum(g, Wallets) = Sum(f, Wallets) - f[v] + g[v]
  <2> HIDE DEF f, g, v
  <2>1. QED
    BY <1>1, <1>9, <1>10, WalletsAssumption, SumUpdate
<1>14. f[v] \in Nat /\ g[v] \in Nat
  BY <1>1, <1>9
<1>15. reserve' + Sum(g, Wallets) = reserve + Sum(f, Wallets)
  <2> HIDE DEF f, g, v, one
  <2>1. g[v] = IF t.usdc THEN f[v] + Grant ELSE f[v]
    BY <1>5, <1>11
  <2>2. QED
    BY <1>1, <1>6, <1>12, <1>13, <1>14, <2>1
<1>16. \A w \in Wallets : wallet[w].account => wallet'[w].account
  BY <1>4, <1>5
<1>17. QED
  BY <1>4, <1>5, <1>7, <1>15, <1>16

\* What a transaction that lands does to the balance of tokens.
LEMMA LandsKeepsTokens ==
  ASSUME FaucetInv, NEW t \in Transactions, Valid(t), Lands(t),
         UNCHANGED <<spent, refilled>>
  PROVE  TokensAdd'
<1> DEFINE f == [w \in Wallets |-> wallet[w].usdc]
           g == [w \in Wallets |-> wallet'[w].usdc]
<1>1. FaucetTypes /\ TokensAdd
  BY DEF FaucetInv
<1>2. reserve' \in Nat /\ reserve \in Nat /\ spent \in Nat
  BY <1>1, LandsMovesTokens DEF FaucetTypes
<1>3. reserve' + Sum(g, Wallets) = reserve + Sum(f, Wallets)
  BY <1>1, LandsMovesTokens
<1>4. f \in [Wallets -> Nat] /\ g \in [Wallets -> Nat]
  BY <1>1, LandsMovesTokens DEF FaucetTypes
<1>5. Sum(f, Wallets) \in Nat /\ Sum(g, Wallets) \in Nat
  BY <1>4, WalletsAssumption, SumType
<1>6. reserve + spent + Sum(f, Wallets) = Float * (1 + refilled)
  BY <1>1 DEF TokensAdd
<1>7. reserve' + spent + Sum(g, Wallets) = Float * (1 + refilled)
  <2> HIDE DEF f, g
  <2>1. QED
    BY <1>2, <1>3, <1>5, <1>6
<1>8. QED
  BY <1>7 DEF TokensAdd

\* A transaction lands, or fails, once: it is no longer pending.  What nobody
\* waits for, and nobody wrote down, was so before.
LEMMA ExecuteSteps ==
  ASSUME FaucetInv, NEW t \in pending, Execute(t)
  PROVE  FaucetInv'
<1>1. /\ FaucetTypes /\ RequestsInOrder /\ t \in Transactions /\ pending' = pending \ {t}
      /\ UNCHANGED <<spent, block, ledger, credits, req, refilled, faults>>
  BY DEF FaucetInv, FaucetTypes, Execute, books, bounds
<1>2. \/ Valid(t) /\ Lands(t) /\ executed' = executed \cup {t} /\ failed' = failed
      \/ failed' = failed \cup {t} /\ UNCHANGED <<wallet, reserve, executed>>
  BY DEF Execute, Lands
<1>3. /\ IsFiniteSet(pending') /\ IsFiniteSet(executed')
      /\ executed' \subseteq Transactions /\ failed' \subseteq Transactions
      /\ executed \subseteq executed'
  BY <1>1, <1>2, FS_RemoveElement, FS_AddElement DEF FaucetTypes
<1>4. FaucetTypes'
  <2>1. wallet' \in [Wallets -> [account : BOOLEAN, usdc : Nat, sol : BOOLEAN]]
        /\ reserve' \in Nat
    BY <1>1, <1>2, LandsMovesTokens DEF FaucetTypes
  <2>2. QED
    BY <1>1, <1>3, <2>1 DEF FaucetTypes
<1>5. RequestsInOrder'
  BY <1>1, <1>2 DEF RequestsInOrder, Tx
<1>6. RoomInTheShare'
  <2>1. \A w : Through(w)' = Through(w)
    BY <1>1 DEF Through, For, Tx
  <2>2. QED
    BY <1>1, <2>1 DEF RoomInTheShare, FaucetInv
<1>7. WrittenOnce'
  <2>1. \A w : Credits(w)' = Credits(w)
    BY <1>1 DEF Credits
  <2>2. \A s : <<s, t>> \notin credits
    BY <1>1 DEF FaucetTypes, RequestsInOrder
  <2>3. (\A s \in Slots, u \in executed :
           <<s, u>> \in credits /\ u.block = block =>
             /\ ledger[u.for].recent
             /\ For(s) = u.for => req[s].pc \notin {"sol", "token", "hash"})'
    BY <1>1, <1>2, <2>2 DEF WrittenOnce, FaucetInv, For, Tx
  <2>4. QED
    BY <1>1, <2>1, <2>3 DEF WrittenOnce, FaucetInv, Tx
<1>8. AbandonedForFaults'
  <2>1. \A u : Awaited(u)' = Awaited(u) /\ Written(u)' = Written(u)
    BY <1>1 DEF Awaited, Written, Tx
  <2>2. pending' \cup executed' \subseteq pending \cup executed
    BY <1>1, <1>2
  <2>3. Abandoned' \subseteq Abandoned
    BY <2>1, <2>2 DEF Abandoned
  <2>4. IsFiniteSet(Abandoned) /\ Cardinality(Abandoned) \in Nat /\ faults \in Nat
    BY <1>1, Counts DEF FaucetTypes
  <2>5. QED
    BY <1>1, <2>3, <2>4, FewerAreLess DEF AbandonedForFaults, FaucetInv
<1>9. CreatedOnce'
  <2>1. CreatedOnce /\ \A u \in executed : u.for \in Wallets
    BY <1>1 DEF FaucetInv, FaucetTypes, Transactions
  <2>2. CASE Valid(t) /\ Lands(t) /\ executed' = executed \cup {t}
    <3>1. /\ \A w \in Wallets : wallet[w].account => wallet'[w].account
          /\ wallet'[t.for].account
      BY <1>1, <2>2, LandsMovesTokens
    <3>2. t.create => ~wallet[t.for].account
      BY <2>2 DEF Valid
    <3>3. \A u \in executed : u.for = t.for => ~t.create
      BY <2>1, <3>2 DEF CreatedOnce
    <3>4. QED
      BY <2>1, <2>2, <3>1, <3>3 DEF CreatedOnce
  <2>3. CASE UNCHANGED <<wallet, executed>>
    BY <2>1, <2>3 DEF CreatedOnce
  <2>4. QED
    BY <1>2, <2>2, <2>3
<1>10. TokensAdd'
  <2>1. CASE Valid(t) /\ Lands(t)
    BY <1>1, <2>1, LandsKeepsTokens
  <2>2. CASE UNCHANGED <<wallet, reserve>>
    BY <1>1, <2>2 DEF TokensAdd, FaucetInv
  <2>3. QED
    BY <1>2, <2>1, <2>2
<1>11. QED
  BY <1>4, <1>5, <1>6, <1>7, <1>8, <1>9, <1>10 DEF FaucetInv

\* A request writes its transaction down, as it never did before.
LEMMA RecordSteps ==
  ASSUME FaucetInv, NEW s \in Slots, Record(s)
  PROVE  FaucetInv'
<1> PICK t, v : t = Tx(s) /\ v = For(s)
  OBVIOUS
<1>1. /\ FaucetTypes /\ RequestsInOrder /\ WrittenOnce /\ req[s].pc = "record"
      /\ Ends(s) /\ credits' = credits \cup {<<s, t>>}
      /\ UNCHANGED <<wallet, reserve, spent, block, pending, executed, failed, refilled, faults>>
  BY DEF FaucetInv, Record, purses, cluster, bounds
<1>2. /\ t \in executed /\ t \in Transactions /\ v \in Wallets /\ t.for = v
      /\ <<s, t>> \notin credits
  BY <1>1, OwnTransaction DEF RequestsInOrder, WrittenOnce
<1>3. \A r \in Slots : req'[r] = IF r = s THEN Free ELSE req[r]
  BY <1>1 DEF Ends, FaucetTypes
<1>4. /\ ledger' \in [Wallets -> [grants : Nat, recent : BOOLEAN]]
      /\ \A w \in Wallets : /\ ledger'[w].grants =
                                 IF w = v THEN ledger[w].grants + 1 ELSE ledger[w].grants
                            /\ ledger'[w].recent = (w = v \/ ledger[w].recent)
  <2> DEFINE one == [grants |-> ledger[v].grants + 1, recent |-> TRUE]
  <2>1. ledger' = [ledger EXCEPT ![v] = one]
    BY DEF Record
  <2>2. ledger \in [Wallets -> [grants : Nat, recent : BOOLEAN]]
    BY <1>1 DEF FaucetTypes
  <2>3. /\ one \in [grants : Nat, recent : BOOLEAN]
        /\ one.grants = ledger[v].grants + 1 /\ one.recent
    BY <1>2, <2>2
  <2> HIDE DEF one
  <2>4. QED
    BY <1>2, <2>1, <2>2, <2>3
<1>5. FaucetTypes'
  <2>1. req' \in [Slots -> Requests]
    BY <1>1, CleanIsATransaction DEF Ends, FaucetTypes
  <2>2. credits' \subseteq Slots \X executed
    BY <1>1, <1>2 DEF FaucetTypes
  <2>3. QED
    BY <1>1, <1>4, <2>1, <2>2 DEF FaucetTypes
<1>6. RequestsInOrder'
  BY <1>1, <1>3, CleanIsATransaction DEF RequestsInOrder, Tx
<1>7. RoomInTheShare'
  <2> SUFFICES ASSUME NEW w \in Wallets
               PROVE  (ledger[w].grants + Cardinality(Through(w)) < MaxGrants + Cardinality(Slots))'
    BY DEF RoomInTheShare
  <2>1. Through(w)' = Through(w) \ {s} /\ (s \in Through(w) <=> w = v)
    BY <1>1, <1>3, CleanIsATransaction DEF Through, For, Tx
  <2>2. /\ IsFiniteSet(Through(w)) /\ Cardinality(Through(w)) \in Nat
        /\ Cardinality(Slots) \in Nat /\ ledger[w].grants \in Nat /\ MaxGrants \in Nat
    BY <1>1, Counts, AmountAssumption DEF FaucetTypes
  <2>3. Cardinality(Through(w)') = IF w = v THEN Cardinality(Through(w)) - 1
                                   ELSE Cardinality(Through(w))
    BY <2>1, <2>2, FS_RemoveElement
  <2>4. ledger[w].grants + Cardinality(Through(w)) < MaxGrants + Cardinality(Slots)
    BY DEF FaucetInv, RoomInTheShare
  <2>5. QED
    BY <1>4, <2>2, <2>3, <2>4
<1>8. WrittenOnce'
  <2>1. ASSUME NEW w \in Wallets
        PROVE  ledger'[w].grants = Cardinality(Credits(w)')
    <3>1. Credits(w)' = IF w = v THEN Credits(w) \cup {<<s, t>>} ELSE Credits(w)
      BY <1>1, <1>2 DEF Credits
    <3>2. <<s, t>> \notin Credits(w) /\ IsFiniteSet(Credits(w))
      BY <1>1, <1>2, Counts DEF Credits
    <3>3. ledger[w].grants = Cardinality(Credits(w))
      BY <1>1 DEF WrittenOnce
    <3>4. Cardinality(Credits(w) \cup {<<s, t>>}) = Cardinality(Credits(w)) + 1
      BY <3>2, FS_AddElement
    <3>5. QED
      BY <1>4, <3>1, <3>3, <3>4
  <2>2. \A r \in Slots : /\ r = s => req'[r].pc = "free"
                         /\ r # s => req'[r] = req[r] /\ For(r)' = For(r)
    BY <1>3, CleanIsATransaction DEF For, Tx
  <2>3. \A r \in Slots : r # s => \A u : <<r, u>> \in credits' <=> <<r, u>> \in credits
    BY <1>1
  <2>4. (\A r \in Slots : req[r].pc \in {"send", "sent", "record"} => <<r, Tx(r)>> \notin credits)'
    BY <1>1, <2>2, <2>3 DEF WrittenOnce, Tx
  <2>5. (\A r \in Slots : req[r].pc = "send" => Tx(r).block <= block)'
    BY <1>1, <2>2 DEF WrittenOnce, Tx
  <2>6. ASSUME NEW r \in Slots, NEW u \in executed, <<r, u>> \in credits', u.block = block
        PROVE  /\ ledger'[u.for].recent
               /\ For(r)' = u.for => req'[r].pc \notin {"sol", "token", "hash"}
    <3>1. u.for \in Wallets
      BY <1>1 DEF FaucetTypes, Transactions
    <3>2. CASE <<r, u>> \in credits
      BY <1>1, <1>4, <2>2, <2>6, <3>1, <3>2 DEF WrittenOnce
    <3>3. CASE <<r, u>> \notin credits
      <4>1. r = s /\ u = t
        BY <1>1, <2>6, <3>3
      <4>2. QED
        BY <1>2, <1>4, <2>2, <4>1
    <3>4. QED
      BY <3>2, <3>3
  <2>7. QED
    BY <1>1, <2>1, <2>4, <2>5, <2>6 DEF WrittenOnce
<1>9. AbandonedForFaults'
  <2>1. Written(t)' /\ \A u : Written(u) => Written(u)'
    BY <1>1 DEF Written
  <2>2. \A u : u # t /\ Awaited(u) => Awaited(u)'
    BY <1>3 DEF Awaited, Tx
  <2>3. Abandoned' \subseteq Abandoned
    BY <1>1, <2>1, <2>2 DEF Abandoned
  <2>4. IsFiniteSet(Abandoned) /\ Cardinality(Abandoned) \in Nat /\ faults \in Nat
    BY <1>1, Counts DEF FaucetTypes
  <2>5. QED
    BY <1>1, <2>3, <2>4, FewerAreLess DEF AbandonedForFaults, FaucetInv
<1>10. CreatedOnce' /\ TokensAdd'
  BY <1>1 DEF CreatedOnce, TokensAdd, FaucetInv
<1>11. QED
  BY <1>5, <1>6, <1>7, <1>8, <1>9, <1>10 DEF FaucetInv

-----------------------------------------------------------------------------
(* Around the requests *)

\* What none of these steps changes leaves most of FaucetInv.
LEMMA FaucetFrame ==
  ASSUME FaucetInv, UNCHANGED <<pending, executed, failed, credits, req, faults>>
  PROVE  /\ \A w : Through(w)' = Through(w) /\ Credits(w)' = Credits(w)
         /\ AbandonedForFaults'
         /\ block' = block => RequestsInOrder'
         /\ UNCHANGED <<block, ledger>> => RoomInTheShare' /\ WrittenOnce'
<1>1. \A w : Through(w)' = Through(w) /\ Credits(w)' = Credits(w)
  BY DEF Through, Credits, For, Tx
<1>2. \A u : Awaited(u)' = Awaited(u) /\ Written(u)' = Written(u)
  BY DEF Awaited, Written, Tx
<1>3. Abandoned' = Abandoned
  BY <1>2 DEF Abandoned
<1>4. AbandonedForFaults'
  BY <1>3 DEF AbandonedForFaults, FaucetInv
<1>5. block' = block => RequestsInOrder'
  BY DEF RequestsInOrder, FaucetInv, Tx
<1>6. UNCHANGED <<block, ledger>> => RoomInTheShare' /\ WrittenOnce'
  BY <1>1 DEF RoomInTheShare, WrittenOnce, FaucetInv, Tx, For
<1>7. QED
  BY <1>1, <1>4, <1>5, <1>6

\* The cooldown passes: no grant is forgotten, and the blockhash is another.
LEMMA CoolDownSteps ==
  ASSUME FaucetInv, NEW v \in Wallets, CoolDown(v)
  PROVE  FaucetInv'
<1>1. /\ FaucetTypes /\ RequestsInOrder /\ WrittenOnce /\ block' = block + 1 /\ block \in Nat
      /\ UNCHANGED <<wallet, reserve, spent, pending, executed, failed, credits,
                     req, refilled, faults>>
  BY DEF FaucetInv, FaucetTypes, CoolDown, purses, bounds
<1>2. /\ ledger' \in [Wallets -> [grants : Nat, recent : BOOLEAN]]
      /\ \A w \in Wallets : ledger'[w].grants = ledger[w].grants
  BY <1>1 DEF FaucetTypes, CoolDown
<1>3. FaucetTypes'
  BY <1>1, <1>2 DEF FaucetTypes
<1>4. \A t \in pending \cup executed : t.block \in Nat /\ t.block <= block
  BY <1>1 DEF FaucetTypes, RequestsInOrder, Transactions
<1>5. RequestsInOrder'
  <2>1. \A t \in pending \cup executed : t.block <= block'
    BY <1>1, <1>4
  <2>2. QED
    BY <1>1, <2>1 DEF RequestsInOrder, Tx
<1>6. /\ \A w : Through(w)' = Through(w) /\ Credits(w)' = Credits(w)
      /\ AbandonedForFaults'
  BY <1>1, FaucetFrame
<1>7. RoomInTheShare'
  BY <1>2, <1>6 DEF RoomInTheShare, FaucetInv
<1>8. WrittenOnce'
  <2>1. \A t \in executed : t.block # block'
    BY <1>1, <1>4
  <2>2. ASSUME NEW s \in Slots, req[s].pc = "send"
        PROVE  Tx(s).block <= block'
    <3>1. Tx(s).block <= block /\ Tx(s).block \in Nat
      BY <1>1, <2>2, OwnTransaction DEF WrittenOnce, Transactions
    <3>2. QED
      BY <1>1, <3>1
  <2>3. (\A s \in Slots : req[s].pc = "send" => Tx(s).block <= block)'
    BY <1>1, <2>2 DEF Tx
  <2>4. (\A w \in Wallets : ledger[w].grants = Cardinality(Credits(w)))'
    BY <1>1, <1>2, <1>6 DEF WrittenOnce
  <2>5. QED
    BY <1>1, <2>1, <2>3, <2>4 DEF WrittenOnce, Tx
<1>9. CreatedOnce' /\ TokensAdd'
  BY <1>1 DEF CreatedOnce, TokensAdd, FaucetInv
<1>10. QED
  BY <1>3, <1>5, <1>6, <1>7, <1>8, <1>9 DEF FaucetInv

\* What a wallet bets leaves it, and is counted.
LEMMA SpendSteps ==
  ASSUME FaucetInv, NEW v \in Wallets, Spend(v)
  PROVE  FaucetInv'
<1> DEFINE one == [account |-> wallet[v].account, usdc |-> 0, sol |-> FALSE]
           f == [w \in Wallets |-> wallet[w].usdc]
           g == [w \in Wallets |-> wallet'[w].usdc]
<1>1. /\ FaucetTypes
      /\ wallet \in [Wallets -> [account : BOOLEAN, usdc : Nat, sol : BOOLEAN]]
      /\ reserve \in Nat /\ spent \in Nat
      /\ UNCHANGED <<reserve, block, pending, executed, failed, ledger, credits,
                     req, refilled, faults>>
      /\ spent' = spent + wallet[v].usdc
  BY DEF FaucetInv, FaucetTypes, Spend, cluster, books, bounds
<1>2. wallet' = [wallet EXCEPT ![v] = one]
  BY DEF Spend
<1>3. one \in [account : BOOLEAN, usdc : Nat, sol : BOOLEAN]
      /\ one.account = wallet[v].account /\ one.usdc = 0
  BY <1>1
<1>4. /\ wallet' \in [Wallets -> [account : BOOLEAN, usdc : Nat, sol : BOOLEAN]]
      /\ wallet'[v] = one
      /\ \A w \in Wallets \ {v} : wallet'[w] = wallet[w]
  <2> HIDE DEF one
  <2>1. QED
    BY <1>1, <1>2, <1>3
<1>5. FaucetTypes'
  BY <1>1, <1>4 DEF FaucetTypes
<1>6. RequestsInOrder' /\ RoomInTheShare' /\ WrittenOnce' /\ AbandonedForFaults'
  BY <1>1, FaucetFrame
<1>7. CreatedOnce'
  <2>1. \A w \in Wallets : wallet'[w].account = wallet[w].account
    BY <1>3, <1>4
  <2>2. CreatedOnce /\ \A t \in executed : t.for \in Wallets
    BY <1>1 DEF FaucetInv, FaucetTypes, Transactions
  <2>3. QED
    BY <1>1, <2>1, <2>2 DEF CreatedOnce
<1>8. TokensAdd'
  <2>1. f \in [Wallets -> Nat] /\ g \in [Wallets -> Nat] /\ f[v] = wallet[v].usdc
        /\ g[v] = 0 /\ f[v] \in Nat /\ \A w \in Wallets \ {v} : g[w] = f[w]
    BY <1>1, <1>3, <1>4
  <2>2. Sum(f, Wallets) \in Nat
    BY <2>1, WalletsAssumption, SumType
  <2>3. Sum(g, Wallets) = Sum(f, Wallets) - f[v] + g[v]
    <3> HIDE DEF f, g
    <3>1. QED
      BY <2>1, WalletsAssumption, SumUpdate
  <2>4. reserve + spent + Sum(f, Wallets) = Float * (1 + refilled)
    BY DEF FaucetInv, TokensAdd
  <2>5. reserve + spent' + Sum(g, Wallets) = Float * (1 + refilled)
    <3> HIDE DEF f, g
    <3>1. spent' = spent + f[v]
      BY <1>1, <2>1
    <3>2. QED
      BY <1>1, <2>1, <2>2, <2>3, <2>4, <3>1
  <2>6. QED
    BY <1>1, <2>5 DEF TokensAdd
<1>9. QED
  BY <1>5, <1>6, <1>7, <1>8 DEF FaucetInv

\* A refill is another float.
LEMMA RefillSteps ==
  ASSUME FaucetInv, Refill
  PROVE  FaucetInv'
<1>1. /\ FaucetTypes /\ Float \in Nat /\ reserve \in Nat /\ spent \in Nat /\ refilled \in Nat
      /\ refilled' = refilled + 1 /\ reserve' = reserve + Float
      /\ UNCHANGED <<wallet, spent, block, pending, executed, failed, ledger, credits,
                     req, faults>>
  BY AmountAssumption DEF FaucetInv, FaucetTypes, Refill, cluster, books
<1>2. FaucetTypes'
  BY <1>1 DEF FaucetTypes
<1>3. RequestsInOrder' /\ RoomInTheShare' /\ WrittenOnce' /\ AbandonedForFaults'
  BY <1>1, FaucetFrame
<1>4. CreatedOnce'
  BY <1>1 DEF CreatedOnce, FaucetInv
<1>5. TokensAdd'
  <2> DEFINE held == Sum([w \in Wallets |-> wallet[w].usdc], Wallets)
  <2>1. held \in Nat
    <3>1. [w \in Wallets |-> wallet[w].usdc] \in [Wallets -> Nat]
      BY <1>1 DEF FaucetTypes
    <3>2. QED
      BY <3>1, WalletsAssumption, SumType
  <2>2. reserve + spent + held = Float * (1 + refilled)
    BY DEF FaucetInv, TokensAdd
  <2>3. held' = held
    BY <1>1
  <2> HIDE DEF held
  <2>4. Float * (1 + refilled') = Float * (1 + refilled) + Float
    BY <1>1
  <2>5. reserve' + spent' + held' = Float * (1 + refilled')
    BY <1>1, <2>1, <2>2, <2>3, <2>4
  <2>6. QED
    BY <2>5 DEF TokensAdd, held
<1>6. QED
  BY <1>2, <1>3, <1>4, <1>5 DEF FaucetInv

\* A step that changes nothing.
LEMMA FaucetStutters ==
  ASSUME FaucetInv, UNCHANGED faucetVars
  PROVE  FaucetInv'
<1>1. UNCHANGED <<wallet, reserve, spent, block, pending, executed, failed,
                  ledger, credits, req, refilled, faults>>
  BY DEF faucetVars, purses, cluster, books, bounds
<1>2. FaucetTypes' /\ CreatedOnce' /\ TokensAdd'
  BY <1>1 DEF FaucetTypes, CreatedOnce, TokensAdd, FaucetInv
<1>3. QED
  BY <1>1, <1>2, FaucetFrame DEF FaucetInv

-----------------------------------------------------------------------------
(* The faucet *)

\* Nothing was asked and nothing given at the start.
LEMMA FaucetStarts ==
  FaucetInit => FaucetInv
<1> SUFFICES ASSUME FaucetInit PROVE FaucetInv
  OBVIOUS
<1> DEFINE f == [w \in Wallets |-> wallet[w].usdc]
<1>1. /\ wallet = [w \in Wallets |-> [account |-> FALSE, usdc |-> 0, sol |-> FALSE]]
      /\ reserve = Float /\ spent = 0 /\ refilled = 0 /\ faults = 0
      /\ block = 0 /\ pending = {} /\ executed = {} /\ failed = {} /\ credits = {}
      /\ ledger = [w \in Wallets |-> [grants |-> 0, recent |-> FALSE]]
      /\ req = [s \in Slots |-> Free]
  BY DEF FaucetInit
<1>2. /\ Float \in Nat /\ MaxGrants \in Nat \ {0} /\ Cardinality({}) = 0
  BY AmountAssumption, FS_EmptySet
<1>3. FaucetTypes
  BY <1>1, <1>2, CleanIsATransaction, FS_EmptySet DEF FaucetTypes
<1>4. \A s \in Slots : req[s] = Free
  BY <1>1
<1>5. RequestsInOrder
  BY <1>1, <1>4, CleanIsATransaction DEF RequestsInOrder
<1>6. \A w : Through(w) = {} /\ Credits(w) = {}
  BY <1>1, <1>4, CleanIsATransaction DEF Through, Credits
<1>7. \A w \in Wallets : ledger[w].grants = 0
  BY <1>1
<1>8. RoomInTheShare
  <2>1. Cardinality(Slots) \in Nat
    BY WalletsAssumption, FS_CardinalityType
  <2>2. \A w \in Wallets : ledger[w].grants + Cardinality(Through(w)) = 0
    BY <1>2, <1>6, <1>7
  <2>3. 0 < MaxGrants + Cardinality(Slots)
    BY <1>2, <2>1
  <2>4. QED
    BY <2>2, <2>3 DEF RoomInTheShare
<1>9. WrittenOnce
  BY <1>1, <1>2, <1>4, <1>6, <1>7, CleanIsATransaction DEF WrittenOnce
<1>10. AbandonedForFaults
  <2>1. Abandoned = {}
    BY <1>1 DEF Abandoned
  <2>2. QED
    BY <1>1, <1>2, <2>1 DEF AbandonedForFaults
<1>11. CreatedOnce
  BY <1>1 DEF CreatedOnce
<1>12. TokensAdd
  <2>1. \A w \in Wallets : f[w] = 0
    BY <1>1
  <2>2. Sum(f, Wallets) = 0
    <3> HIDE DEF f
    <3>1. QED
      BY <2>1, SumZero
  <2>3. QED
    BY <1>1, <1>2, <2>2 DEF TokensAdd
<1>13. QED
  BY <1>3, <1>5, <1>8, <1>9, <1>10, <1>11, <1>12 DEF FaucetInv

\* Every step of the faucet, of the wallets and of the chain keeps FaucetInv.
LEMMA FaucetSteps ==
  FaucetInv /\ [FaucetNext]_faucetVars => FaucetInv'
<1> SUFFICES ASSUME FaucetInv, [FaucetNext]_faucetVars
             PROVE  FaucetInv'
  OBVIOUS
<1>1. ASSUME NEW s \in Slots, Serve(s)
      PROVE  FaucetInv'
  BY <1>1, CheckLedgerSteps, ReadSolSteps, ReadTokenSteps, CallFailsSteps, ReadBlockhashSteps,
     SendSteps, SendUnansweredSteps, PollSteps, RecordSteps DEF Serve
<1>2. ASSUME NEW s \in Slots, NEW w \in Wallets, Ask(s, w)
      PROVE  FaucetInv'
  BY <1>2, AskSteps
<1>3. ASSUME NEW t \in pending, Execute(t)
      PROVE  FaucetInv'
  BY <1>3, ExecuteSteps
<1>4. ASSUME NEW w \in Wallets, CoolDown(w) \/ Spend(w)
      PROVE  FaucetInv'
  BY <1>4, CoolDownSteps, SpendSteps
<1>5. CASE Refill
  BY <1>5, RefillSteps
<1>6. CASE UNCHANGED faucetVars
  BY <1>6, FaucetStutters
<1>7. QED
  BY <1>1, <1>2, <1>3, <1>4, <1>5, <1>6 DEF FaucetNext

\* FaucetInv is inductive.
LEMMA FaucetStaysSound == FaucetSpec => []FaucetInv
<1>1. FaucetInit => FaucetInv
  BY FaucetStarts
<1>2. FaucetInv /\ [FaucetNext]_faucetVars => FaucetInv'
  BY FaucetSteps
<1>3. QED
  BY <1>1, <1>2, PTL DEF FaucetSpec

\* However requests of one wallet overlap, and whatever calls fail between the
\* check and the write, its ledger exceeds MAX_GRANTS by less than the requests
\* served at a time (faucet.ts checks first and increments last).
THEOREM SharesAreBounded == FaucetSpec => []ShareIsBounded
<1>1. FaucetInv => ShareIsBounded
  <2> SUFFICES ASSUME FaucetInv, NEW w \in Wallets
               PROVE  ledger[w].grants < MaxGrants + Cardinality(Slots)
    BY DEF ShareIsBounded
  <2>1. Cardinality(Through(w)) \in Nat /\ Cardinality(Slots) \in Nat
    BY Counts DEF FaucetInv
  <2>2. ledger[w].grants \in Nat /\ MaxGrants \in Nat
    BY AmountAssumption DEF FaucetInv, FaucetTypes
  <2>3. QED
    BY <2>1, <2>2 DEF FaucetInv, RoomInTheShare
<1>2. QED
  BY <1>1, FaucetStaysSound, PTL

\* A wallet was sent no more transactions than were written down, are about to
\* be, or were abandoned for a fault.
LEMMA GrantsAreWritten ==
  ASSUME FaucetInv, NEW w \in Wallets
  PROVE  Cardinality(Granted(w)) <= ledger[w].grants + Cardinality(Unrecorded(w)) + faults
<1> DEFINE C == Credits(w)
           U == Unrecorded(w)
           written == {c[2] : c \in C}
           waited == {Tx(s) : s \in U}
           wf == [c \in C |-> c[2]]
           uf == [s \in U |-> Tx(s)]
<1>1. FaucetTypes /\ IsFiniteSet(C) /\ IsFiniteSet(U) /\ IsFiniteSet(Abandoned)
      /\ Cardinality(C) \in Nat /\ Cardinality(U) \in Nat /\ Cardinality(Abandoned) \in Nat
  BY Counts DEF FaucetInv
<1>2. IsFiniteSet(written) /\ Cardinality(written) <= Cardinality(C)
  <2>1. wf \in Surjection(C, written)
    BY DEF Surjection
  <2> HIDE DEF C, written, wf
  <2>2. QED
    BY <1>1, <2>1, FS_Surjection
<1>3. IsFiniteSet(waited) /\ Cardinality(waited) <= Cardinality(U)
  <2>1. uf \in Surjection(U, waited)
    BY DEF Surjection
  <2> HIDE DEF U, waited, uf
  <2>2. QED
    BY <1>1, <2>1, FS_Surjection
<1>4. Granted(w) \subseteq (written \cup waited) \cup Abandoned
  <2> SUFFICES ASSUME NEW t \in executed, t.for = w, t \notin Abandoned
               PROVE  t \in written \cup waited
    BY DEF Granted
  <2>1. Awaited(t) \/ Written(t)
    BY DEF Abandoned
  <2>2. CASE Written(t)
    <3>1. PICK s \in Slots : <<s, t>> \in credits
      BY <2>2 DEF Written
    <3>2. <<s, t>> \in C /\ <<s, t>>[2] = t
      BY <3>1 DEF Credits
    <3>3. QED
      BY <3>2
  <2>3. CASE Awaited(t)
    <3>1. PICK s \in Slots : req[s].pc \in {"sent", "record"} /\ Tx(s) = t
      BY <2>3 DEF Awaited
    <3>2. s \in U
      BY <3>1 DEF Unrecorded, For, Tx
    <3>3. QED
      BY <3>1, <3>2
  <2>4. QED
    BY <2>1, <2>2, <2>3
<1>5. /\ Cardinality(written) \in Nat /\ Cardinality(waited) \in Nat
      /\ IsFiniteSet(written \cup waited)
      /\ Cardinality(written \cup waited) <= Cardinality(written) + Cardinality(waited)
  <2> HIDE DEF written, waited
  <2>1. QED
    BY <1>2, <1>3, BothAreLess
<1>6. /\ IsFiniteSet((written \cup waited) \cup Abandoned)
      /\ Cardinality((written \cup waited) \cup Abandoned)
           <= Cardinality(written \cup waited) + Cardinality(Abandoned)
      /\ Cardinality(written \cup waited) \in Nat
  <2> HIDE DEF written, waited
  <2>1. QED
    BY <1>1, <1>5, BothAreLess
<1>7. /\ Cardinality(Granted(w)) \in Nat
      /\ Cardinality((written \cup waited) \cup Abandoned) \in Nat
      /\ Cardinality(Granted(w)) <= Cardinality((written \cup waited) \cup Abandoned)
  <2> HIDE DEF written, waited
  <2>1. QED
    BY <1>4, <1>6, FewerAreLess
<1>8. ledger[w].grants = Cardinality(C) /\ Cardinality(Abandoned) <= faults /\ faults \in Nat
  BY <1>1 DEF FaucetInv, WrittenOnce, AbandonedForFaults, FaucetTypes
<1> HIDE DEF written, waited, C, U
<1>9. QED
  BY <1>1, <1>2, <1>3, <1>5, <1>6, <1>7, <1>8 DEF U

\* No request writes down, or is about to, what it has written before, nor what
\* the wallet was not sent.
LEMMA WritesAreGranted ==
  ASSUME FaucetInv, NEW w \in Wallets
  PROVE  ledger[w].grants + Cardinality(Unrecorded(w))
           <= Cardinality(Slots) * Cardinality(Granted(w))
<1> DEFINE C == Credits(w)
           U == Unrecorded(w)
           next == {<<s, Tx(s)>> : s \in U}
           nf == [s \in U |-> <<s, Tx(s)>>]
           all == Slots \X Granted(w)
<1>1. FaucetTypes /\ IsFiniteSet(C) /\ IsFiniteSet(U) /\ IsFiniteSet(Granted(w))
      /\ Cardinality(C) \in Nat /\ Cardinality(U) \in Nat /\ IsFiniteSet(Slots)
  BY Counts, WalletsAssumption DEF FaucetInv
<1>2. IsFiniteSet(next) /\ Cardinality(next) = Cardinality(U)
  <2>1. nf \in Surjection(U, next) /\ nf \in Injection(U, next)
    BY DEF Surjection, Injection, IsInjective
  <2> HIDE DEF U, next, nf
  <2>2. QED
    BY <1>1, <2>1, FS_Surjection
<1>3. IsFiniteSet(all) /\ Cardinality(all) = Cardinality(Slots) * Cardinality(Granted(w))
  BY <1>1, FS_Product
<1>4. C \cup next \subseteq all
  <2>1. C \subseteq all
    BY <1>1 DEF Credits, FaucetTypes, Granted
  <2>2. next \subseteq all
    BY DEF Unrecorded, Granted, For, Tx
  <2>3. QED
    BY <2>1, <2>2
<1>5. C \cap next = {}
  BY DEF Unrecorded, Credits, FaucetInv, WrittenOnce
<1>6. Cardinality(C \cup next) = Cardinality(C) + Cardinality(next)
  <2> HIDE DEF C, next
  <2>1. Cardinality(C \cap next) = 0
    BY <1>5, FS_EmptySet
  <2>2. Cardinality(C \cup next) = Cardinality(C) + Cardinality(next) - Cardinality(C \cap next)
    BY <1>1, <1>2, FS_Union
  <2>3. QED
    BY <1>1, <1>2, <2>1, <2>2
<1>7. Cardinality(C \cup next) <= Cardinality(all)
  <2> HIDE DEF C, next, all
  <2>1. QED
    BY <1>3, <1>4, FewerAreLess
<1>8. ledger[w].grants = Cardinality(C)
  BY DEF FaucetInv, WrittenOnce
<1> HIDE DEF C, next, all, U
<1>9. QED
  BY <1>2, <1>3, <1>6, <1>7, <1>8 DEF U

\* No token is made or lost; every transaction that reached a wallet is written
\* down, or on its way there, or counted by a fault; what is written down was
\* sent, and is written by no request twice; and the account of a wallet is
\* created by one transaction only (the faucet's checks and its transaction are
\* calls apart; the chain decides).
THEOREM TokensStayConserved == FaucetSpec => []TokensAreConserved
<1>1. FaucetInv => TokensAreConserved
  <2> SUFFICES ASSUME FaucetInv
               PROVE  TokensAreConserved
    OBVIOUS
  <2>1. LedgerIsAccounted
    BY GrantsAreWritten, WritesAreGranted DEF LedgerIsAccounted
  <2>2. QED
    BY <2>1 DEF TokensAreConserved, FaucetInv, TokensAdd, CreatedOnce
<1>2. QED
  BY <1>1, FaucetStaysSound, PTL

-----------------------------------------------------------------------------
(* From here on about the market and its pages *)

USE BettorsAssumption, OutcomesAssumption, AmountsAssumption, TermsAssumption

-----------------------------------------------------------------------------
(* Arithmetic *)

\* Division rounds down.
LEMMA DivBounds ==
  ASSUME NEW a \in Nat, NEW d \in Nat, d > 0
  PROVE  /\ a \div d \in Nat
         /\ (a \div d) * d <= a
BY Z3

\* The fee is no more than a tenth of the pool, hence no more than the pool.
LEMMA FeeBounds ==
  ASSUME NEW total \in Nat, NEW bps \in 0..MAX_FEE_BPS
  PROVE  /\ FeeOf(total, bps) \in 0..total
         /\ Distributable(total, bps) \in 0..total
         /\ Distributable(total, bps) + FeeOf(total, bps) = total
<1>1. bps \in Nat /\ bps <= 10000
  BY DEF MAX_FEE_BPS
<1>2. total * bps \in Nat /\ total * bps <= total * 10000
  BY <1>1
<1>3. (total * bps) \div 10000 \in 0..total
  BY <1>2
<1>4. FeeOf(total, bps) \in 0..total
  BY <1>3 DEF FeeOf, BPS_DENOMINATOR
<1>5. QED
  BY <1>4 DEF Distributable

\* The cap on fee_bps caps the fee at a tenth of the pool.
LEMMA FeeIsSmall ==
  ASSUME NEW total \in Nat, NEW bps \in 0..MAX_FEE_BPS
  PROVE  10 * FeeOf(total, bps) <= total
<1>1. bps \in Nat /\ bps <= 1000
  BY DEF MAX_FEE_BPS
<1>2. total * bps \in Nat /\ total * bps <= total * 1000
  BY <1>1
<1>3. 10 * ((total * bps) \div 10000) <= total
  BY <1>2
<1>4. QED
  BY <1>3 DEF FeeOf, BPS_DENOMINATOR

\* What the exact shares of the winners paid so far leave for one more winner.
LEMMA ShareFits ==
  ASSUME NEW dist \in Nat, NEW twp \in Nat, twp > 0, NEW paid \in Nat,
         NEW wsc \in Nat, NEW s \in Nat,
         paid * twp <= dist * wsc, wsc + s <= twp
  PROVE  LET q == (s * dist) \div twp
         IN  /\ q \in Nat
             /\ (paid + q) * twp <= dist * (wsc + s)
             /\ paid + q <= dist
<1> DEFINE q == (s * dist) \div twp
<1>1. s * dist \in Nat
  OBVIOUS
<1>2. q \in Nat /\ q * twp <= s * dist
  BY <1>1, DivBounds
<1> HIDE DEF q
<1>3. (paid + q) * twp = paid * twp + q * twp
  BY <1>2
<1>4. dist * (wsc + s) = dist * wsc + s * dist
  OBVIOUS
<1>5. (paid + q) * twp <= dist * (wsc + s)
  <2>1. /\ paid * twp \in Nat /\ q * twp \in Nat
        /\ dist * wsc \in Nat /\ s * dist \in Nat
    BY <1>2
  <2>2. QED
    BY <1>2, <1>3, <1>4, <2>1
<1>6. dist * (wsc + s) <= dist * twp
  OBVIOUS
<1>7. (paid + q) * twp <= dist * twp
  <2>1. (paid + q) * twp \in Nat /\ dist * (wsc + s) \in Nat /\ dist * twp \in Nat
    BY <1>2
  <2>2. QED
    BY <1>5, <1>6, <2>1
<1>8. paid + q <= dist
  BY <1>2, <1>7
<1>9. QED
  BY <1>2, <1>5, <1>8 DEF q

-----------------------------------------------------------------------------
(* Sums over the positions *)

\* The facts about a state of the invariant that the steps below use.
LEMMA Facts ==
  ASSUME TypeOK
  PROVE  /\ \A S \in SUBSET Bettors : IsFiniteSet(S) /\ Sum(stake, S) \in Nat
         /\ Distributable(totalPool, terms.feeBps) \in 0..totalPool
         /\ FeeOf(totalPool, terms.feeBps) \in 0..totalPool
         /\ Distributable(totalPool, terms.feeBps)
              + FeeOf(totalPool, terms.feeBps) = totalPool
<1>1. ASSUME NEW S \in SUBSET Bettors
      PROVE  IsFiniteSet(S) /\ Sum(stake, S) \in Nat
  <2>1. IsFiniteSet(S) /\ stake \in [Bettors -> Nat]
    BY FS_Subset DEF TypeOK
  <2>2. QED
    BY <2>1, SumType
<1>2. terms.feeBps \in 0..MAX_FEE_BPS /\ totalPool \in Nat
  BY DEF TypeOK
<1>3. QED
  BY <1>1, <1>2, FeeBounds

\* What is still owed to refund everybody is the pool when nobody has claimed.
LEMMA NobodyClaimed ==
  ASSUME TypeOK, PoolsMatchPositions, \A b \in Bettors : ~claimed[b]
  PROVE  Sum(stake, {b \in Bettors : ~claimed[b]}) = totalPool
<1>1. {b \in Bettors : ~claimed[b]} = Bettors
  OBVIOUS
<1>2. QED
  BY <1>1 DEF PoolsMatchPositions

-----------------------------------------------------------------------------
(* Every step preserves MoneyInv *)

\* A new market has no money.
LEMMA InitMoney == Init => MoneyInv
<1> SUFFICES ASSUME Init PROVE MoneyInv
  OBVIOUS
<1>1. TypeOK
  <2>1. terms \in [feeBps : 0..MAX_FEE_BPS, lockTime : Nat, timeout : Nat,
                   combo : BOOLEAN]
    BY DEF Init, NoTerms, MAX_FEE_BPS
  <2>2. funds \in [Bettors -> Nat]
    BY DEF Init, AmountsAssumption
  <2>3. QED
    BY <2>1, <2>2 DEF Init, TypeOK, Statuses
<1>2. PoolsMatchPositions
  <2>1. \A S \in SUBSET Bettors : Sum(stake, S) = 0
    BY SumZero DEF Init
  <2>2. QED
    BY <2>1 DEF PoolsMatchPositions, Init
<1>3. LifeCycle
  BY DEF LifeCycle, Init, Resolved
<1>4. ClaimsAccounted
  BY DEF ClaimsAccounted, Init
<1>5. VaultBacksObligations
  BY DEF VaultBacksObligations, Owed, Init
<1>6. QED
  BY <1>1, <1>2, <1>3, <1>4, <1>5 DEF MoneyInv

\* A step that leaves the money and the status alone preserves the invariant.
LEMMA FrameMoney ==
  ASSUME MoneyInv, TypeOK',
         UNCHANGED <<status, terms, pools, receipt, claims, position, tokens>>
  PROVE  MoneyInv'
BY DEF MoneyInv, PoolsMatchPositions, LifeCycle, ClaimsAccounted, Winners,
       VaultBacksObligations, Owed, Resolved, pools, receipt, claims,
       position, tokens

\* Moving to a status in which nothing has been paid yet.
LEMMA UnpaidMoney ==
  ASSUME MoneyInv, TypeOK', ~Resolved, status' \in {"Open", "Locked", "Cancelled"},
         status = "Absent" => status' = "Open",
         UNCHANGED <<pools, claims, position, tokens>>,
         status' # "Cancelled" => UNCHANGED receipt
  PROVE  MoneyInv'
<1> USE DEF pools, claims, position, tokens, receipt
<1>1. TypeOK
  BY DEF MoneyInv
<1>2. PoolsMatchPositions'
  BY DEF MoneyInv, PoolsMatchPositions
<1>3. \A b \in Bettors : ~claimed[b]
  BY DEF MoneyInv, LifeCycle
<1>4. LifeCycle'
  BY <1>3 DEF MoneyInv, LifeCycle, Resolved
<1>5. ClaimsAccounted'
  BY DEF ClaimsAccounted
<1>6. VaultBacksObligations'
  <2>1. vault = totalPool + donated
    BY DEF MoneyInv, VaultBacksObligations, Owed, Resolved
  <2>2. Sum(stake, {b \in Bettors : ~claimed[b]}) = totalPool
    BY <1>3, NobodyClaimed DEF MoneyInv
  <2>3. QED
    BY <2>1, <2>2 DEF VaultBacksObligations, Owed
<1>7. QED
  BY <1>2, <1>4, <1>5, <1>6 DEF MoneyInv

\* initialize_market opens an empty book.
LEMMA InitializeMarketMoney ==
  ASSUME MoneyInv, NEW bps \in FeeRates, NEW lock \in LockTimes,
         NEW timeout \in Timeouts, NEW combo \in BOOLEAN,
         InitializeMarket(bps, lock, timeout, combo)
  PROVE  MoneyInv'
<1>1. terms' \in [feeBps : 0..MAX_FEE_BPS, lockTime : Nat, timeout : Nat,
                  combo : BOOLEAN]
  <2>1. bps \in Nat /\ lock \in Nat /\ timeout \in Nat
    BY DEF TermsAssumption
  <2>2. QED
    BY <2>1 DEF InitializeMarket, MAX_FEE_BPS
<1>2. TypeOK'
  BY <1>1 DEF MoneyInv, TypeOK, Statuses, InitializeMarket, world, pools,
              receipt, claims, position, tokens
<1>3. QED
  BY <1>2, UnpaidMoney DEF InitializeMarket, Resolved

\* A bet adds the same amount to the position, to its pool, to the total and
\* to the vault.
LEMMA PlaceBetMoney ==
  ASSUME MoneyInv, NEW b \in Bettors, NEW o \in Outcomes, NEW a \in Amounts,
         PlaceBet(b, o, a)
  PROVE  MoneyInv'
<1> USE DEF world, rules, receipt, claims
<1>1. /\ TypeOK /\ PoolsMatchPositions /\ LifeCycle /\ VaultBacksObligations
      /\ a \in Nat /\ status = "Open" /\ status' = "Open"
      /\ side[b] \in {NoOutcome, o}
  BY DEF MoneyInv, PlaceBet, AmountsAssumption
<1>2. TypeOK'
  <2>1. /\ funds' \in [Bettors -> Nat]
        /\ stake' \in [Bettors -> Nat]
        /\ pool' \in [Outcomes -> Nat]
        /\ side' \in [Bettors -> Outcomes \cup {NoOutcome}]
        /\ vault' \in Nat /\ totalPool' \in Nat
    BY <1>1 DEF TypeOK, PlaceBet
  <2>2. QED
    BY <1>1, <2>1 DEF TypeOK, PlaceBet
<1>3. /\ stake \in [Bettors -> Nat] /\ stake' \in [Bettors -> Nat]
      /\ stake'[b] = stake[b] + a /\ side'[b] = o
      /\ \A c \in Bettors \ {b} : stake'[c] = stake[c] /\ side'[c] = side[c]
  BY <1>1, <1>2 DEF TypeOK, PlaceBet
<1>4. \A p \in Outcomes :
        pool'[p] = Sum(stake', {c \in Bettors : side'[c] = p})
  <2> SUFFICES ASSUME NEW p \in Outcomes
               PROVE  pool'[p] = Sum(stake', {c \in Bettors : side'[c] = p})
    OBVIOUS
  <2> DEFINE On  == {c \in Bettors : side[c] = p}
             On1 == {c \in Bettors : side'[c] = p}
  <2>1. /\ IsFiniteSet(On) /\ IsFiniteSet(On1)
        /\ Sum(stake, On) \in Nat /\ Sum(stake, On1) \in Nat
    BY <1>1, Facts
  <2>2. pool[p] = Sum(stake, On)
    BY <1>1 DEF PoolsMatchPositions
  <2>3. CASE p # o
    <3>1. On1 = On /\ b \notin On
      BY <1>1, <1>3, <2>3 DEF OutcomesAssumption
    <3>2. Sum(stake', On) = Sum(stake, On)
      BY <1>3, <3>1, SumSame
    <3>3. pool'[p] = pool[p]
      BY <1>1, <2>3 DEF PlaceBet, TypeOK
    <3>4. QED
      BY <2>2, <3>1, <3>2, <3>3
  <2>4. CASE p = o
    <3>1. b \in On1 /\ On1 = On \cup {b}
      BY <1>1, <1>3, <2>4
    <3>2. Sum(stake, On1) = Sum(stake, On)
      <4>1. CASE b \in On
        <5>1. On1 = On
          BY <3>1, <4>1
        <5> HIDE DEF On, On1
        <5>2. QED
          BY <5>1
      <4>2. CASE b \notin On
        <5>1. stake[b] = 0
          BY <1>1, <2>4, <4>2 DEF LifeCycle
        <5>2. Sum(stake, On \cup {b}) = Sum(stake, On) + stake[b]
          BY <1>3, <2>1, <4>2, SumAdd
        <5> HIDE DEF On, On1
        <5>3. QED
          BY <2>1, <3>1, <5>1, <5>2
      <4>3. QED
        BY <4>1, <4>2
    <3>3. Sum(stake', On1) = Sum(stake, On1) - stake[b] + stake'[b]
      BY <1>3, <2>1, <3>1, SumUpdate
    <3>4. pool'[p] = pool[p] + a
      BY <1>1, <2>4 DEF PlaceBet, TypeOK
    <3>5. stake[b] \in Nat
      BY <1>3
    <3>6. QED
      BY <1>1, <1>3, <2>1, <2>2, <3>2, <3>3, <3>4, <3>5
  <2>5. QED
    BY <2>3, <2>4
<1>5. totalPool' = Sum(stake', Bettors)
  <2>1. Sum(stake', Bettors) = Sum(stake, Bettors) - stake[b] + stake'[b]
    BY <1>3, SumUpdate DEF BettorsAssumption
  <2>2. stake[b] \in Nat /\ Sum(stake, Bettors) \in Nat
    BY <1>1, <1>3, Facts
  <2>3. QED
    BY <1>1, <1>3, <2>1, <2>2 DEF PlaceBet, PoolsMatchPositions
<1>6. PoolsMatchPositions'
  BY <1>4, <1>5 DEF PoolsMatchPositions
<1>7. LifeCycle'
  BY <1>1, <1>3 DEF LifeCycle, Resolved, PlaceBet, OutcomesAssumption
<1>8. ClaimsAccounted'
  BY <1>1 DEF ClaimsAccounted
<1>9. VaultBacksObligations'
  BY <1>1, <1>2 DEF VaultBacksObligations, Owed, PlaceBet, TypeOK
<1>10. QED
  BY <1>2, <1>6, <1>7, <1>8, <1>9 DEF MoneyInv

\* A stranger's transfer is owed to nobody.
LEMMA DonateMoney ==
  ASSUME MoneyInv, NEW b \in Bettors, NEW a \in Gifts, Donate(b, a)
  PROVE  MoneyInv'
<1> USE DEF world, rules, pools, receipt, claims, position
<1>1. TypeOK /\ a \in Nat /\ VaultBacksObligations
  BY DEF MoneyInv, AmountsAssumption
<1>2. TypeOK'
  <2>1. funds' \in [Bettors -> Nat] /\ vault' \in Nat /\ donated' \in Nat
    BY <1>1 DEF TypeOK, Donate
  <2>2. QED
    BY <1>1, <2>1 DEF TypeOK, Donate
<1>3. PoolsMatchPositions' /\ LifeCycle' /\ ClaimsAccounted'
  BY DEF MoneyInv, PoolsMatchPositions, LifeCycle, ClaimsAccounted, Resolved,
         Winners, Donate
<1>4. VaultBacksObligations'
  <2>1. Owed' = Owed
    BY DEF Owed, Donate
  <2>2. Owed = vault - donated
    <3>1. Owed \in Int
      <4>1. Sum(stake, {c \in Bettors : ~claimed[c]}) \in Nat
        BY <1>1, Facts
      <4>2. Distributable(totalPool, terms.feeBps) \in Nat
        BY <1>1, Facts
      <4>3. QED
        BY <1>1, <4>1, <4>2 DEF Owed, TypeOK
    <3>2. QED
      BY <1>1, <3>1 DEF VaultBacksObligations, TypeOK
  <2>3. QED
    BY <1>1, <2>1, <2>2 DEF VaultBacksObligations, Donate, TypeOK
<1>5. QED
  BY <1>2, <1>3, <1>4 DEF MoneyInv

\* lock_market moves no money.
LEMMA LockMarketMoney == MoneyInv /\ LockMarket => MoneyInv'
<1> SUFFICES ASSUME MoneyInv, LockMarket PROVE MoneyInv'
  OBVIOUS
<1>1. TypeOK'
  BY DEF MoneyInv, TypeOK, Statuses, LockMarket, world, rules, pools, receipt,
         claims, position, tokens
<1>2. QED
  BY <1>1, UnpaidMoney DEF LockMarket, Resolved

\* cancel_market owes every position its stake.
LEMMA CancelMarketMoney == MoneyInv /\ CancelMarket => MoneyInv'
<1> SUFFICES ASSUME MoneyInv, CancelMarket PROVE MoneyInv'
  OBVIOUS
<1>1. TypeOK'
  BY DEF MoneyInv, TypeOK, Statuses, CancelMarket, world, rules, pools, receipt,
         claims, position, tokens
<1>2. QED
  BY <1>1, UnpaidMoney DEF CancelMarket, Resolved

\* record_settlement splits the pool into the fee and the winners' share, or
\* owes every position its stake when nobody backed the outcome.
LEMMA SettlementMoney ==
  ASSUME MoneyInv, NEW o \in Outcomes, status = "Locked", RecordSettlement(o)
  PROVE  MoneyInv'
<1> USE DEF world, rules, pools, claims, position, tokens
<1>1. TypeOK /\ ~Resolved
  BY DEF MoneyInv, Resolved
<1>2. CASE pool[o] = 0
  <2>1. TypeOK'
    BY <1>1, <1>2 DEF TypeOK, Statuses, RecordSettlement
  <2>2. QED
    BY <1>1, <1>2, <2>1, UnpaidMoney DEF RecordSettlement
<1>3. CASE pool[o] # 0
  <2>1. /\ status' = "Settled" /\ winningOutcome' = o
        /\ totalWinningPool' = pool[o]
        /\ feeAmount' = FeeOf(totalPool, terms.feeBps)
        /\ UNCHANGED <<world, rules, pools, claims, position, tokens>>
    BY <1>3 DEF RecordSettlement
  <2>2. pool[o] \in Nat /\ pool[o] > 0
    BY <1>1, <1>3 DEF TypeOK
  <2>3. TypeOK'
    <3>1. feeAmount' \in Nat
      BY <1>1, <2>1, Facts
    <3>2. QED
      BY <1>1, <2>1, <2>2, <3>1 DEF TypeOK, Statuses
  <2>4. PoolsMatchPositions'
    BY <2>1 DEF MoneyInv, PoolsMatchPositions
  <2>5. /\ \A b \in Bettors : ~claimed[b]
        /\ paidOut = 0 /\ winningStakeClaimed = 0 /\ ~feeWithdrawn
    BY <1>1 DEF MoneyInv, LifeCycle, Resolved
  <2>6. LifeCycle'
    BY <2>1, <2>2, <2>5 DEF MoneyInv, LifeCycle, Resolved, OutcomesAssumption
  <2>7. ClaimsAccounted'
    <3>1. {b \in Winners' : claimed[b]} = {}
      BY <2>1, <2>5 DEF Winners
    <3>2. Sum(stake, {b \in Winners' : claimed[b]}) = 0
      BY <3>1, SumEmpty
    <3>3. Distributable(totalPool, terms.feeBps) \in Nat
      BY <1>1, Facts
    <3>4. paidOut * pool[o] <= Distributable(totalPool, terms.feeBps) * winningStakeClaimed
      BY <2>2, <2>5, <3>3
    <3>5. QED
      BY <2>1, <2>2, <2>5, <3>2, <3>4 DEF ClaimsAccounted
  <2>8. VaultBacksObligations'
    <3>1. vault = totalPool + donated
      BY <1>1 DEF MoneyInv, VaultBacksObligations, Owed, Resolved
    <3>2. /\ Distributable(totalPool, terms.feeBps) \in Nat
          /\ FeeOf(totalPool, terms.feeBps) \in Nat
          /\ Distributable(totalPool, terms.feeBps)
               + FeeOf(totalPool, terms.feeBps) = totalPool
      BY <1>1, Facts
    <3>3. QED
      BY <2>1, <2>5, <3>1, <3>2 DEF VaultBacksObligations, Owed
  <2>9. QED
    BY <2>3, <2>4, <2>6, <2>7, <2>8 DEF MoneyInv
<1>4. QED
  BY <1>2, <1>3

\* What a winner who has not claimed yet finds: the stakes of those who have
\* claimed leave room for its own.
LEMMA RoomForWinner ==
  ASSUME MoneyInv, status = "Settled", NEW b \in Winners, ~claimed[b]
  PROVE  /\ stake[b] \in Nat
         /\ winningStakeClaimed + stake[b] <= totalWinningPool
<1>1. TypeOK /\ PoolsMatchPositions /\ LifeCycle /\ ClaimsAccounted
  BY DEF MoneyInv
<1>2. /\ Winners \subseteq Bettors /\ b \in Bettors
      /\ IsFiniteSet(Winners) /\ stake \in [Bettors -> Nat]
  <2>1. Winners \subseteq Bettors
    BY DEF Winners
  <2>2. QED
    BY <1>1, <2>1, Facts DEF TypeOK
<1>3. totalWinningPool = Sum(stake, Winners)
  BY <1>1 DEF LifeCycle, PoolsMatchPositions, Winners, TypeOK
<1>4. winningStakeClaimed = Sum(stake, {c \in Winners : claimed[c]})
  BY <1>1 DEF ClaimsAccounted
<1>5. Sum(stake, {c \in Winners : claimed[c]}) + stake[b] <= Sum(stake, Winners)
  BY <1>2, SumRoom
<1>6. QED
  BY <1>2, <1>3, <1>4, <1>5

\* The payout of such a winner is at least its rounded down share and fits in
\* what is left of the distributable pool.
LEMMA PayoutFits ==
  ASSUME MoneyInv, status = "Settled", NEW b \in Winners, ~claimed[b]
  PROVE  LET distributable == Distributable(totalPool, terms.feeBps)
             newClaimed == winningStakeClaimed + stake[b]
         IN  /\ ClaimPayout(b) \in Nat
             /\ ClaimPayout(b) >= Payout(stake[b], totalPool, totalWinningPool,
                                         terms.feeBps)
             /\ paidOut + ClaimPayout(b) <= distributable
             /\ (paidOut + ClaimPayout(b)) * totalWinningPool
                  <= distributable * newClaimed
             /\ newClaimed = totalWinningPool
                  => paidOut + ClaimPayout(b) = distributable
<1> DEFINE dist == Distributable(totalPool, terms.feeBps)
           floor == (stake[b] * dist) \div totalWinningPool
<1>1. /\ dist \in Nat /\ paidOut \in Nat /\ winningStakeClaimed \in Nat
      /\ totalWinningPool \in Nat /\ totalWinningPool > 0
  BY Facts DEF MoneyInv, TypeOK, LifeCycle
<1>2. stake[b] \in Nat /\ winningStakeClaimed + stake[b] <= totalWinningPool
  BY RoomForWinner
<1>3. paidOut * totalWinningPool <= dist * winningStakeClaimed
  BY DEF MoneyInv, ClaimsAccounted
<1> HIDE DEF dist
<1>4. /\ floor \in Nat /\ paidOut + floor <= dist
      /\ (paidOut + floor) * totalWinningPool <= dist * (winningStakeClaimed + stake[b])
  BY <1>1, <1>2, <1>3, ShareFits
<1>5. Payout(stake[b], totalPool, totalWinningPool, terms.feeBps) = floor
  BY DEF Payout, dist
<1> HIDE DEF floor
<1>6. CASE winningStakeClaimed + stake[b] = totalWinningPool
  <2>1. ClaimPayout(b) = dist - paidOut
    BY <1>6 DEF ClaimPayout, dist
  <2>2. ClaimPayout(b) \in Nat /\ ClaimPayout(b) >= floor /\ paidOut + ClaimPayout(b) = dist
    BY <1>1, <1>4, <2>1
  <2>3. (paidOut + ClaimPayout(b)) * totalWinningPool = dist * (winningStakeClaimed + stake[b])
    BY <1>6, <2>2
  <2>4. dist * (winningStakeClaimed + stake[b]) \in Nat
    BY <1>1, <1>2
  <2>5. QED
    BY <1>1, <1>5, <2>2, <2>3, <2>4 DEF dist
<1>7. CASE winningStakeClaimed + stake[b] # totalWinningPool
  <2>1. ClaimPayout(b) = floor
    BY <1>5, <1>7 DEF ClaimPayout
  <2>2. QED
    BY <1>1, <1>4, <1>5, <1>7, <2>1 DEF dist
<1>8. QED
  BY <1>6, <1>7

\* A claim keeps the account of what the winners were paid.
LEMMA ClaimWinningsMoney ==
  ASSUME MoneyInv, NEW b \in Bettors, ClaimWinnings(b)
  PROVE  MoneyInv'
<1> USE DEF world, rules, pools, receipt
<1> DEFINE dist == Distributable(totalPool, terms.feeBps)
           Paid == {c \in Winners : claimed[c]}
           Paid1 == {c \in Winners : claimed'[c]}
<1>1. /\ TypeOK /\ PoolsMatchPositions /\ LifeCycle /\ ClaimsAccounted
      /\ VaultBacksObligations
      /\ status = "Settled" /\ b \in Winners /\ ~claimed[b]
  BY DEF MoneyInv, ClaimWinnings, Winners
<1>2. /\ ClaimPayout(b) \in Nat /\ ClaimPayout(b) \in 0..vault
      /\ paidOut + ClaimPayout(b) <= dist
      /\ (paidOut + ClaimPayout(b)) * totalWinningPool
           <= dist * (winningStakeClaimed + stake[b])
      /\ winningStakeClaimed + stake[b] = totalWinningPool
           => paidOut + ClaimPayout(b) = dist
  BY <1>1, PayoutFits DEF ClaimWinnings
<1>3. stake[b] \in Nat /\ stake \in [Bettors -> Nat]
  BY <1>1 DEF TypeOK
<1>4. TypeOK'
  <2>1. /\ funds' \in [Bettors -> Nat] /\ claimed' \in [Bettors -> BOOLEAN]
        /\ vault' \in Nat /\ paidOut' \in Nat /\ winningStakeClaimed' \in Nat
    BY <1>1, <1>2, <1>3 DEF TypeOK, ClaimWinnings
  <2>2. QED
    BY <1>1, <2>1 DEF TypeOK, ClaimWinnings
<1>5. PoolsMatchPositions'
  BY <1>1 DEF PoolsMatchPositions, ClaimWinnings
<1>6. Winners' = Winners /\ Winners \subseteq Bettors
  BY DEF Winners, ClaimWinnings
<1>7. claimed'[b] /\ \A c \in Bettors \ {b} : claimed'[c] = claimed[c]
  BY <1>1 DEF TypeOK, ClaimWinnings
<1>8. LifeCycle'
  <2>1. \A c \in Bettors : side[c] = NoOutcome => stake[c] = 0 /\ ~claimed'[c]
    BY <1>1, <1>7 DEF LifeCycle, Winners, OutcomesAssumption
  <2>2. \A c \in Bettors : claimed'[c] => c \in Winners
    BY <1>1, <1>7 DEF LifeCycle
  <2>3. QED
    BY <1>1, <1>6, <2>1, <2>2 DEF LifeCycle, Resolved, ClaimWinnings
<1>9. winningStakeClaimed' = Sum(stake, Paid1)
  <2>1. Paid1 = Paid \cup {b} /\ b \notin Paid /\ Paid \in SUBSET Bettors
    BY <1>1, <1>6, <1>7
  <2>2. IsFiniteSet(Paid) /\ Sum(stake, Paid) \in Nat
    BY <1>1, <2>1, Facts
  <2>3. winningStakeClaimed = Sum(stake, Paid)
    BY <1>1 DEF ClaimsAccounted
  <2> HIDE DEF Paid, Paid1
  <2>4. Sum(stake, Paid \cup {b}) = Sum(stake, Paid) + stake[b]
    BY <1>3, <2>1, <2>2, SumAdd
  <2>5. QED
    BY <2>1, <2>3, <2>4 DEF ClaimWinnings
<1>10. ClaimsAccounted'
  BY <1>1, <1>2, <1>6, <1>9 DEF ClaimsAccounted, ClaimWinnings
<1>11. VaultBacksObligations'
  <2>1. dist \in Nat
    BY <1>1, Facts
  <2>2. vault = dist - paidOut + (IF feeWithdrawn THEN 0 ELSE feeAmount) + donated
    BY <1>1 DEF VaultBacksObligations, Owed
  <2>3. QED
    BY <1>1, <1>2, <2>1, <2>2 DEF VaultBacksObligations, Owed, ClaimWinnings, TypeOK
<1>12. QED
  BY <1>4, <1>5, <1>8, <1>10, <1>11 DEF MoneyInv

\* A refund takes the position's stake off what is owed.
LEMMA ClaimRefundMoney ==
  ASSUME MoneyInv, NEW b \in Bettors, ClaimRefund(b)
  PROVE  MoneyInv'
<1> USE DEF world, rules, pools, receipt, claims
<1> DEFINE Due == {c \in Bettors : ~claimed[c]}
           Due1 == {c \in Bettors : ~claimed'[c]}
<1>1. /\ TypeOK /\ PoolsMatchPositions /\ LifeCycle /\ ClaimsAccounted
      /\ VaultBacksObligations
      /\ status = "Cancelled" /\ ~claimed[b] /\ side[b] # NoOutcome
  BY DEF MoneyInv, ClaimRefund
<1>2. stake[b] \in Nat /\ stake \in [Bettors -> Nat]
  BY <1>1 DEF TypeOK
<1>3. TypeOK'
  <2>1. /\ funds' \in [Bettors -> Nat] /\ claimed' \in [Bettors -> BOOLEAN]
        /\ vault' \in Nat
    BY <1>1, <1>2 DEF TypeOK, ClaimRefund
  <2>2. QED
    BY <1>1, <2>1 DEF TypeOK, ClaimRefund
<1>4. PoolsMatchPositions'
  BY <1>1 DEF PoolsMatchPositions, ClaimRefund
<1>5. claimed'[b] /\ \A c \in Bettors \ {b} : claimed'[c] = claimed[c]
  BY <1>1 DEF TypeOK, ClaimRefund
<1>6. LifeCycle'
  BY <1>1, <1>5 DEF LifeCycle, Resolved, ClaimRefund
<1>7. ClaimsAccounted'
  BY <1>1 DEF ClaimsAccounted, ClaimRefund
<1>8. VaultBacksObligations'
  <2>1. Due = Due1 \cup {b} /\ b \notin Due1 /\ Due1 \in SUBSET Bettors
    BY <1>1, <1>5
  <2>2. IsFiniteSet(Due1) /\ Sum(stake, Due1) \in Nat
    BY <1>1, <2>1, Facts
  <2>3. Sum(stake, Due1 \cup {b}) = Sum(stake, Due1) + stake[b]
    BY <1>2, <2>1, <2>2, SumAdd
  <2>4. vault = Sum(stake, Due) + donated
    BY <1>1 DEF VaultBacksObligations, Owed
  <2>5. Owed' = Sum(stake, Due1) /\ vault' = vault - stake[b] /\ donated' = donated
    BY <1>1 DEF Owed, ClaimRefund
  <2> HIDE DEF Due, Due1
  <2>6. vault' = Sum(stake, Due1) + donated
    BY <1>1, <1>2, <2>1, <2>2, <2>3, <2>4, <2>5 DEF TypeOK
  <2>7. QED
    BY <2>5, <2>6 DEF VaultBacksObligations
<1>9. QED
  BY <1>3, <1>4, <1>6, <1>7, <1>8 DEF MoneyInv

\* The fee leaves the vault once.
LEMMA WithdrawFeesMoney == MoneyInv /\ WithdrawFees => MoneyInv'
<1> SUFFICES ASSUME MoneyInv, WithdrawFees PROVE MoneyInv'
  OBVIOUS
<1> USE DEF world, rules, pools, receipt, position
<1>1. /\ TypeOK /\ VaultBacksObligations /\ status = "Settled" /\ ~feeWithdrawn
  BY DEF MoneyInv, WithdrawFees
<1>2. TypeOK'
  BY <1>1 DEF TypeOK, WithdrawFees
<1>3. PoolsMatchPositions' /\ LifeCycle' /\ ClaimsAccounted'
  BY <1>1 DEF MoneyInv, PoolsMatchPositions, LifeCycle, ClaimsAccounted,
              Resolved, Winners, WithdrawFees
<1>4. VaultBacksObligations'
  <2>1. Distributable(totalPool, terms.feeBps) \in Nat
    BY <1>1, Facts
  <2>2. QED
    BY <1>1, <2>1 DEF VaultBacksObligations, Owed, WithdrawFees, TypeOK
<1>5. QED
  BY <1>2, <1>3, <1>4 DEF MoneyInv

\* Every step of a market, stuttering included, preserves MoneyInv.
LEMMA MoneyStep == MoneyInv /\ [Next]_vars => MoneyInv'
<1> SUFFICES ASSUME MoneyInv, [Next]_vars PROVE MoneyInv'
  OBVIOUS
<1>1. CASE UNCHANGED vars
  <2>1. TypeOK'
    BY <1>1 DEF MoneyInv, TypeOK, vars, world, rules, pools, receipt, claims,
                position, tokens
  <2>2. QED
    BY <1>1, <2>1, FrameMoney DEF vars, rules
<1>2. CASE InitializeComboSpec
  <2>1. TypeOK'
    BY <1>2 DEF MoneyInv, TypeOK, InitializeComboSpec, world, pools, receipt,
                claims, position, tokens
  <2>2. QED
    BY <1>2, <2>1, FrameMoney DEF InitializeComboSpec
<1>3. CASE Tick \/ \E S \in SUBSET Outcomes : PublishRoot(S)
  <2>1. TypeOK'
    BY <1>3 DEF MoneyInv, TypeOK, Tick, PublishRoot, rules, pools, receipt,
                claims, position, tokens
  <2>2. QED
    BY <1>3, <2>1, FrameMoney DEF Tick, PublishRoot, rules
<1>4. CASE \E bps \in FeeRates, lock \in LockTimes, timeout \in Timeouts,
             combo \in BOOLEAN : InitializeMarket(bps, lock, timeout, combo)
  BY <1>4, InitializeMarketMoney
<1>5. CASE \E b \in Bettors, o \in Outcomes, a \in Amounts : PlaceBet(b, o, a)
  BY <1>5, PlaceBetMoney
<1>6. CASE \E b \in Bettors, a \in Gifts : Donate(b, a)
  BY <1>6, DonateMoney
<1>7. CASE LockMarket
  BY <1>7, LockMarketMoney
<1>8. CASE \E o \in Outcomes : SettleMarket(o) \/ SettleMarketV3(o)
  BY <1>8, SettlementMoney DEF SettleMarket, SettleMarketV3
<1>9. CASE CancelMarket
  BY <1>9, CancelMarketMoney
<1>10. CASE \E b \in Bettors : ClaimWinnings(b) \/ ClaimRefund(b)
  BY <1>10, ClaimWinningsMoney, ClaimRefundMoney
<1>11. CASE WithdrawFees
  BY <1>11, WithdrawFeesMoney
<1>12. QED
  BY <1>1, <1>2, <1>3, <1>4, <1>5, <1>6, <1>7, <1>8, <1>9, <1>10, <1>11
     DEF Next, Create, Resolve, Withdraw

-----------------------------------------------------------------------------
(* Theorems *)

\* MoneyInv holds of every reachable state.
THEOREM MoneyIsInvariant == Spec => []MoneyInv
<1>1. Init => MoneyInv
  BY InitMoney
<1>2. MoneyInv /\ [Next]_vars => MoneyInv'
  BY MoneyStep
<1>3. QED
  BY <1>1, <1>2, PTL DEF Spec

\* Types, pools and the vault are as the invariants say, for any number of
\* bettors and outcomes and any amounts.
THEOREM TypeCorrect == Spec => []TypeOK
<1>1. MoneyInv => TypeOK
  BY DEF MoneyInv
<1>2. QED
  BY <1>1, MoneyIsInvariant, PTL

\* Pool totals always equal the positions they stand for.
THEOREM PoolsAreExact == Spec => []PoolsMatchPositions
<1>1. MoneyInv => PoolsMatchPositions
  BY DEF MoneyInv
<1>2. QED
  BY <1>1, MoneyIsInvariant, PTL

\* The vault holds exactly what is owed and what strangers sent.
THEOREM VaultIsExact == Spec => []VaultBacksObligations
<1>1. MoneyInv => VaultBacksObligations
  BY DEF MoneyInv
<1>2. QED
  BY <1>1, MoneyIsInvariant, PTL

\* No claim is ever refused for lack of funds, none is short of its share, and
\* the fee is never eaten by the claims.
THEOREM ClaimsAlwaysPass == Spec => []EveryClaimWouldPass
<1>1. MoneyInv => EveryClaimWouldPass
  <2> SUFFICES ASSUME MoneyInv, status = "Settled", NEW b \in Winners, ~claimed[b]
               PROVE  /\ stake[b] <= totalWinningPool
                      /\ ClaimPayout(b) >= Payout(stake[b], totalPool,
                                                  totalWinningPool, terms.feeBps)
                      /\ ClaimPayout(b) + (IF feeWithdrawn THEN 0 ELSE feeAmount)
                           <= vault
    BY DEF EveryClaimWouldPass
  <2>1. /\ stake[b] \in Nat /\ winningStakeClaimed \in Nat /\ totalWinningPool \in Nat
        /\ winningStakeClaimed + stake[b] <= totalWinningPool
    BY RoomForWinner DEF MoneyInv, TypeOK
  <2>2. /\ ClaimPayout(b) \in Nat
        /\ ClaimPayout(b) >= Payout(stake[b], totalPool, totalWinningPool,
                                    terms.feeBps)
        /\ paidOut + ClaimPayout(b) <= Distributable(totalPool, terms.feeBps)
    BY PayoutFits
  <2>3. /\ vault = Distributable(totalPool, terms.feeBps) - paidOut
                     + (IF feeWithdrawn THEN 0 ELSE feeAmount) + donated
        /\ Distributable(totalPool, terms.feeBps) \in Nat
        /\ paidOut \in Nat /\ feeAmount \in Nat /\ donated \in Nat
        /\ feeWithdrawn \in BOOLEAN
    BY Facts DEF MoneyInv, VaultBacksObligations, Owed, TypeOK
  <2>4. QED
    BY <2>1, <2>2, <2>3
<1>2. QED
  BY <1>1, MoneyIsInvariant, PTL

\* When every winner and the treasury have been paid, the vault is empty but
\* for strangers' transfers: the last claim absorbs the rounding dust.
THEOREM VaultSettlesToZero == Spec => []NothingLeftBehind
<1>1. MoneyInv => NothingLeftBehind
  <2> SUFFICES ASSUME MoneyInv, status = "Settled", \A b \in Winners : claimed[b],
                      feeWithdrawn \/ feeAmount = 0
               PROVE  vault = donated
    BY DEF NothingLeftBehind
  <2>1. {b \in Winners : claimed[b]} = Winners
    OBVIOUS
  <2>2. totalWinningPool = Sum(stake, Winners)
    BY DEF MoneyInv, LifeCycle, PoolsMatchPositions, Winners, TypeOK
  <2>3. winningStakeClaimed = Sum(stake, Winners)
    BY <2>1 DEF MoneyInv, ClaimsAccounted
  <2>4. paidOut = Distributable(totalPool, terms.feeBps)
    BY <2>2, <2>3 DEF MoneyInv, ClaimsAccounted
  <2>5. QED
    BY <2>4 DEF MoneyInv, VaultBacksObligations, Owed, TypeOK
<1>2. QED
  BY <1>1, MoneyIsInvariant, PTL

\* A resolved market keeps its status, receipt, rules, pools and stakes.
THEOREM ResolutionIsFinal == Spec => ResolvedForever
<1>1. [Next]_vars => (Resolved => UNCHANGED <<status, rules, pools, receipt,
                                              stake, side>>)
  <2> SUFFICES ASSUME [Next]_vars, Resolved
               PROVE  UNCHANGED <<status, rules, pools, receipt, stake, side>>
    OBVIOUS
  <2> USE DEF Resolved, position
  <2>1. CASE UNCHANGED vars
    BY <2>1 DEF vars
  <2>2. CASE Withdraw
    BY <2>2 DEF Withdraw, ClaimWinnings, ClaimRefund, WithdrawFees
  <2>3. CASE Create \/ Resolve \/ Tick
    BY <2>3 DEF Create, Resolve, Tick, InitializeMarket, InitializeComboSpec,
                LockMarket, SettleMarket, SettleMarketV3, CancelMarket
  <2>4. CASE \E b \in Bettors, o \in Outcomes, a \in Amounts : PlaceBet(b, o, a)
    BY <2>4 DEF PlaceBet
  <2>5. CASE \E b \in Bettors, a \in Gifts : Donate(b, a)
    BY <2>5 DEF Donate
  <2>6. CASE \E S \in SUBSET Outcomes : PublishRoot(S)
    BY <2>6 DEF PublishRoot
  <2>7. QED
    BY <2>1, <2>2, <2>3, <2>4, <2>5, <2>6 DEF Next
<1>2. QED
  BY <1>1, PTL DEF Spec, ResolvedForever

\* The marks that guard a payment never come off, and no step sends money to a
\* position that is already marked or takes money from the vault otherwise.
THEOREM PaymentsHappenOnce == Spec => PaidOnce
<1> DEFINE Once ==
      /\ \A b \in Bettors : claimed[b] => claimed'[b] /\ funds'[b] <= funds[b]
      /\ vault' < vault => \/ \E b \in Bettors : ~claimed[b] /\ claimed'[b]
                           \/ ~feeWithdrawn /\ feeWithdrawn'
<1>1. TypeOK /\ [Next]_vars => Once
  <2> SUFFICES ASSUME TypeOK, [Next]_vars PROVE Once
    OBVIOUS
  <2>0. /\ vault \in Nat /\ feeWithdrawn \in BOOLEAN
        /\ claimed \in [Bettors -> BOOLEAN] /\ funds \in [Bettors -> Nat]
    BY DEF TypeOK
  <2>1. CASE UNCHANGED <<claimed, funds, vault>>
    BY <2>0, <2>1
  <2>2. CASE \E b \in Bettors : ClaimWinnings(b) \/ ClaimRefund(b)
    <3>1. PICK b \in Bettors : ClaimWinnings(b) \/ ClaimRefund(b)
      BY <2>2
    <3>2. ~claimed[b] /\ claimed' = [claimed EXCEPT ![b] = TRUE]
      BY <3>1 DEF ClaimWinnings, ClaimRefund
    <3>3. \A c \in Bettors \ {b} : funds'[c] = funds[c]
      BY <2>0, <3>1 DEF ClaimWinnings, ClaimRefund
    <3>4. QED
      BY <2>0, <3>2, <3>3
  <2>3. CASE WithdrawFees
    BY <2>0, <2>3 DEF WithdrawFees, position
  <2>4. CASE \E b \in Bettors, o \in Outcomes, a \in Amounts : PlaceBet(b, o, a)
    <3>1. PICK b \in Bettors, o \in Outcomes, a \in Amounts : PlaceBet(b, o, a)
      BY <2>4
    <3>2. a \in Nat /\ claimed' = claimed /\ vault' = vault + a
          /\ funds' = [funds EXCEPT ![b] = @ - a]
      BY <3>1 DEF PlaceBet, AmountsAssumption
    <3>3. QED
      BY <2>0, <3>2
  <2>5. CASE \E b \in Bettors, a \in Gifts : Donate(b, a)
    <3>1. PICK b \in Bettors, a \in Gifts : Donate(b, a)
      BY <2>5
    <3>2. a \in Nat /\ claimed' = claimed /\ vault' = vault + a
          /\ funds' = [funds EXCEPT ![b] = @ - a]
      BY <3>1 DEF Donate, AmountsAssumption, position
    <3>3. QED
      BY <2>0, <3>2
  <2>6. CASE \/ UNCHANGED vars \/ Create \/ Resolve \/ Tick
             \/ \E S \in SUBSET Outcomes : PublishRoot(S)
    <3>1. UNCHANGED <<claimed, funds, vault>>
      BY <2>6 DEF vars, Create, Resolve, Tick, PublishRoot, InitializeMarket,
                  InitializeComboSpec, LockMarket, SettleMarket, SettleMarketV3,
                  RecordSettlement, CancelMarket, position, tokens
    <3>2. QED
      BY <2>1, <3>1
  <2>7. QED
    BY <2>2, <2>3, <2>4, <2>5, <2>6 DEF Next, Withdraw
<1> HIDE DEF Once
<1>2. Spec => [][Once]_vars
  BY <1>1, TypeCorrect, PTL DEF Spec
<1>3. QED
  BY <1>2 DEF PaidOnce, Once

\* Behind ResolutionIsJustified: a market is only locked at its lock time.
Justified ==
  /\ TypeOK
  /\ ~Resolved => winningOutcome = NoOutcome
  /\ status \in {"Locked", "Settled", "Cancelled"} => now >= terms.lockTime
  /\ ResolutionIsJustified

\* A market is resolved by a proven outcome or by the timeout, never early,
\* and a compound market never by the single-predicate path.
THEOREM ResolutionsAreJustified == Spec => []ResolutionIsJustified
<1>1. Init => Justified
  <2>1. Init => TypeOK
    BY InitMoney DEF MoneyInv
  <2>2. QED
    BY <2>1 DEF Init, Justified, ResolutionIsJustified, Resolved
<1>2. TypeOK' /\ Justified /\ [Next]_vars => Justified'
  <2> SUFFICES ASSUME TypeOK', Justified, [Next]_vars PROVE Justified'
    OBVIOUS
  <2> USE DEF Justified, ResolutionIsJustified, Resolved, Deadline
  <2>0. /\ now \in Nat /\ terms.lockTime \in Nat /\ terms.timeout \in Nat
        /\ pool \in [Outcomes -> Nat]
    BY DEF TypeOK
  <2>1. CASE UNCHANGED <<now, provable, status, rules, pools, receipt>>
    BY <2>1 DEF rules, pools, receipt
  <2>2. CASE \E bps \in FeeRates, lock \in LockTimes, timeout \in Timeouts,
               combo \in BOOLEAN : InitializeMarket(bps, lock, timeout, combo)
    BY <2>2 DEF InitializeMarket, receipt
  <2>3. CASE InitializeComboSpec
    BY <2>3 DEF InitializeComboSpec, receipt
  <2>4. CASE \E b \in Bettors, o \in Outcomes, a \in Amounts : PlaceBet(b, o, a)
    BY <2>4 DEF PlaceBet, receipt
  <2>5. CASE LockMarket
    BY <2>5 DEF LockMarket, world, rules, pools, receipt
  <2>6. CASE \E o \in Outcomes : SettleMarket(o) \/ SettleMarketV3(o)
    <3>1. PICK o \in Outcomes :
            /\ status = "Locked" /\ (terms.combo => specBound)
            /\ o \in provable /\ RecordSettlement(o)
      BY <2>6 DEF SettleMarket, SettleMarketV3
    <3>2. UNCHANGED <<now, provable, terms, specBound, pool>> /\ winningOutcome' = o
      BY <3>1 DEF RecordSettlement, world, rules, pools
    <3>3. pool[o] \in Nat
      BY <2>0
    <3>4. CASE pool[o] = 0
      BY <2>0, <3>1, <3>2, <3>4 DEF RecordSettlement
    <3>5. CASE pool[o] # 0
      BY <2>0, <3>1, <3>2, <3>3, <3>5 DEF RecordSettlement
    <3>6. QED
      BY <3>4, <3>5
  <2>7. CASE CancelMarket
    BY <2>0, <2>7 DEF CancelMarket, world, rules, pools, receipt
  <2>8. CASE Tick
    BY <2>0, <2>8 DEF Tick, rules, pools, receipt
  <2>9. CASE \E S \in SUBSET Outcomes : PublishRoot(S)
    BY <2>0, <2>9 DEF PublishRoot, rules, pools, receipt
  <2>10. CASE \/ \E b \in Bettors, a \in Gifts : Donate(b, a)
              \/ Withdraw \/ UNCHANGED vars
    <3>1. UNCHANGED <<now, provable, status, rules, pools, receipt>>
      BY <2>10 DEF Donate, Withdraw, ClaimWinnings, ClaimRefund, WithdrawFees,
                   vars, world
    <3>2. QED
      BY <2>1, <3>1
  <2>11. QED
    BY <2>2, <2>3, <2>4, <2>5, <2>6, <2>7, <2>8, <2>9, <2>10
       DEF Next, Create, Resolve
<1>3. Justified => ResolutionIsJustified
  BY DEF Justified
<1>4. QED
  BY <1>1, <1>2, <1>3, TypeCorrect, PTL DEF Spec

-----------------------------------------------------------------------------
(* A market implements Escrow *)

\* Division leaves less than the divisor.
LEMMA DivRemainder ==
  ASSUME NEW a \in Nat, NEW d \in Nat, d > 0
  PROVE  a < (a \div d) * d + d
BY Z3

\* A position that exists has a stake: place_bet refuses an amount of zero and
\* nothing else writes a position's amount or outcome.
PositionsAreStaked == \A b \in Bettors : side[b] # NoOutcome => stake[b] > 0

\* Every reachable position that names an outcome holds money.
THEOREM PositionsHoldMoney == Spec => []PositionsAreStaked
<1>1. Init => PositionsAreStaked
  BY DEF Init, PositionsAreStaked
<1>2. TypeOK /\ PositionsAreStaked /\ [Next]_vars => PositionsAreStaked'
  <2> SUFFICES ASSUME TypeOK, PositionsAreStaked, [Next]_vars
               PROVE  PositionsAreStaked'
    OBVIOUS
  <2>1. CASE UNCHANGED <<stake, side>>
    BY <2>1 DEF PositionsAreStaked
  <2>2. CASE \E b \in Bettors, o \in Outcomes, a \in Amounts : PlaceBet(b, o, a)
    <3>1. PICK b \in Bettors, o \in Outcomes, a \in Amounts : PlaceBet(b, o, a)
      BY <2>2
    <3>2. /\ a \in Nat /\ a > 0 /\ stake \in [Bettors -> Nat]
          /\ side \in [Bettors -> Outcomes \cup {NoOutcome}]
          /\ stake' = [stake EXCEPT ![b] = @ + a]
          /\ side' = [side EXCEPT ![b] = o]
      BY <3>1 DEF PlaceBet, TypeOK, AmountsAssumption
    <3>3. stake'[b] > 0
      BY <3>2
    <3>4. \A c \in Bettors \ {b} : stake'[c] = stake[c] /\ side'[c] = side[c]
      BY <3>2
    <3>5. QED
      BY <3>3, <3>4 DEF PositionsAreStaked
  <2>3. CASE \/ UNCHANGED vars \/ Create \/ Resolve \/ Withdraw \/ Tick
             \/ \E b \in Bettors, a \in Gifts : Donate(b, a)
             \/ \E S \in SUBSET Outcomes : PublishRoot(S)
    <3>1. UNCHANGED <<stake, side>>
      BY <2>3 DEF vars, Create, Resolve, Withdraw, Tick, Donate, PublishRoot,
                  InitializeMarket, InitializeComboSpec, LockMarket,
                  SettleMarket, SettleMarketV3, RecordSettlement, CancelMarket,
                  ClaimWinnings, ClaimRefund, WithdrawFees, position
    <3>2. QED
      BY <2>1, <3>1
  <2>4. QED
    BY <2>2, <2>3 DEF Next
<1>3. QED
  BY <1>1, <1>2, TypeCorrect, PTL DEF Spec

\* The sum the escrow speaks of is the sum of the market.
LEMMA SameSum ==
  ASSUME NEW f, NEW S
  PROVE  Promise!Sum(f, S) = Sum(f, S)
BY DEF Promise!Sum, Promise!Coins, Sum, Coins, Cardinality,
       Promise!Cardinality

\* A step that changes neither the phase of the market, its positions and
\* claims, nor what it holds besides gifts, is none of the escrow's business.
LEMMA StutterStep ==
  ASSUME UNCHANGED <<terms, pools, receipt, claims, position>>,
         (vault - donated)' = vault - donated,
         status' = status \/ (~Resolved /\ ~Resolved')
  PROVE  UNCHANGED Promise!vars
BY DEF Promise!vars, Resolved, pools, receipt, claims, position, Winners

\* place_bet is a deposit.
LEMMA DepositStep ==
  ASSUME TypeOK, NEW b \in Bettors, NEW o \in Outcomes, NEW a \in Amounts,
         PlaceBet(b, o, a)
  PROVE  Promise!Deposit(b)
<1>1. /\ a \in Nat /\ a > 0 /\ stake \in [Bettors -> Nat]
      /\ vault \in Nat /\ donated \in Nat
  BY DEF PlaceBet, TypeOK, AmountsAssumption
<1>2. stake' = [stake EXCEPT ![b] = stake[b] + a] /\ stake'[b] = stake[b] + a
  BY <1>1 DEF PlaceBet
<1>3. stake'[b] > stake[b] /\ stake' = [stake EXCEPT ![b] = stake'[b]]
  BY <1>1, <1>2
<1>4. (vault - donated)' = (vault - donated) + stake'[b] - stake[b]
  BY <1>1, <1>2 DEF PlaceBet
<1>5. status = "Open" /\ status' = "Open" /\ claimed' = claimed
  BY DEF PlaceBet
<1>6. QED
  BY <1>3, <1>4, <1>5 DEF Promise!Deposit

\* A proven outcome that somebody staked is the escrow's decision to pay: the
\* backers of the outcome are the entitled, the fee is at most a tenth.
LEMMA DecidePaymentStep ==
  ASSUME MoneyInv, PositionsAreStaked, NEW o \in Outcomes, status = "Locked",
         RecordSettlement(o), pool[o] # 0
  PROVE  Promise!DecidePayment
<1> USE DEF world, rules, pools, claims, position, tokens
<1>1. /\ TypeOK /\ PoolsMatchPositions /\ LifeCycle /\ VaultBacksObligations
      /\ o # NoOutcome
  BY DEF MoneyInv, OutcomesAssumption
<1>2. /\ status' = "Settled" /\ winningOutcome' = o
      /\ feeAmount' = FeeOf(totalPool, terms.feeBps)
      /\ UNCHANGED <<terms, totalPool, stake, side, claimed, paidOut,
                     feeWithdrawn, vault, donated>>
  BY DEF RecordSettlement
<1>3. paidOut = 0 /\ ~feeWithdrawn
  BY <1>1 DEF LifeCycle
<1>4. vault - donated = totalPool
  BY <1>1 DEF VaultBacksObligations, Owed, TypeOK
<1>5. Winners' = {b \in Bettors : side[b] = o}
  BY <1>2 DEF Winners
<1>6. Winners' \subseteq {b \in Bettors : stake[b] > 0}
  BY <1>1, <1>5 DEF PositionsAreStaked
<1>7. Winners' # {}
  <2>1. pool[o] = Sum(stake, Winners')
    BY <1>1, <1>5 DEF PoolsMatchPositions
  <2>2. QED
    BY <2>1, SumEmpty
<1> DEFINE dist == Distributable(totalPool, terms.feeBps)
           cut == FeeOf(totalPool, terms.feeBps)
<1>8. /\ dist \in Nat /\ cut \in Nat /\ dist + cut = totalPool
  BY <1>1, Facts
<1>9. 10 * cut <= totalPool
  BY <1>1, FeeIsSmall DEF TypeOK
<1> HIDE DEF dist, cut
<1>10. Distributable(totalPool, terms.feeBps)' = dist /\ feeAmount' = cut
       /\ paidOut' = 0 /\ ~feeWithdrawn' /\ (vault - donated)' = vault - donated
  BY <1>2, <1>3 DEF dist, cut, Distributable, FeeOf
<1>11. dist - 0 = dist
  BY <1>8
<1>12. QED
  BY <1>2, <1>4, <1>6, <1>7, <1>8, <1>9, <1>10, <1>11
     DEF Promise!DecidePayment

\* A proven outcome that nobody staked, and a cancelled market, are the
\* escrow's decision to give everything back.
LEMMA DecideRefundStep ==
  ASSUME status = "Locked", status' = "Cancelled",
         UNCHANGED <<pools, claims, position, tokens>>
  PROVE  Promise!DecideRefund
BY DEF Promise!DecideRefund, pools, claims, position, tokens

\* claim_winnings pays one entitled party: no less than the whole part of its
\* share, and all that is left to the last one.
LEMMA PayStep ==
  ASSUME MoneyInv, MoneyInv', NEW b \in Bettors, ClaimWinnings(b)
  PROVE  Promise!Pay(b)
<1> DEFINE dist == Distributable(totalPool, terms.feeBps)
           pay == ClaimPayout(b)
           Paid == {c \in Bettors : claimed[c]}
           PaidWinners == {c \in Winners : claimed[c]}
<1>1. /\ TypeOK /\ PoolsMatchPositions /\ LifeCycle /\ ClaimsAccounted
      /\ status = "Settled" /\ status' = "Settled"
      /\ b \in Winners /\ ~claimed[b]
  BY DEF MoneyInv, ClaimWinnings, Winners
<1>2. /\ UNCHANGED <<terms, totalPool, stake, feeWithdrawn, feeAmount, donated>>
      /\ Winners' = Winners /\ vault' = vault - pay /\ paidOut' = paidOut + pay
      /\ Paid' = Paid \cup {b}
  BY <1>1 DEF ClaimWinnings, pools, rules, receipt, Winners, TypeOK
<1>3. /\ vault \in Nat /\ donated \in Nat /\ dist \in Nat /\ paidOut \in Nat
      /\ totalWinningPool \in Nat /\ totalWinningPool > 0
      /\ stake \in [Bettors -> Nat] /\ stake[b] \in Nat
      /\ Winners \subseteq Bettors /\ IsFiniteSet(Winners)
  <2>1. Winners \subseteq Bettors
    BY DEF Winners
  <2>2. QED
    BY <1>1, <2>1, Facts DEF TypeOK, LifeCycle
<1>4. totalWinningPool = Sum(stake, Winners)
  BY <1>1 DEF LifeCycle, PoolsMatchPositions, Winners, TypeOK
<1>5. /\ pay \in Nat /\ paidOut + pay <= dist
      /\ pay >= Payout(stake[b], totalPool, totalWinningPool, terms.feeBps)
      /\ winningStakeClaimed + stake[b] = totalWinningPool
           => paidOut + pay = dist
  BY <1>1, PayoutFits
<1> DEFINE q == (stake[b] * dist) \div totalWinningPool
<1>6. pay * totalWinningPool + totalWinningPool > stake[b] * dist
  <2>1. stake[b] * dist \in Nat
    BY <1>3
  <2>2. q \in Nat
    BY <1>3, <2>1, DivBounds
  <2>3. stake[b] * dist < q * totalWinningPool + totalWinningPool
    BY <1>3, <2>1, DivRemainder
  <2>4. pay >= q
    BY <1>5 DEF Payout
  <2> HIDE DEF q, pay
  <2>5. pay * totalWinningPool >= q * totalWinningPool
    BY <1>3, <1>5, <2>2, <2>4
  <2>6. pay * totalWinningPool \in Nat /\ q * totalWinningPool \in Nat
    BY <1>3, <1>5, <2>2
  <2> HIDE DEF dist
  <2>7. QED
    BY <1>3, <2>1, <2>3, <2>5, <2>6
<1>7. Winners \ Paid = {b} => pay = dist - paidOut
  <2> SUFFICES ASSUME Winners \ Paid = {b} PROVE pay = dist - paidOut
    OBVIOUS
  <2>1. Winners = PaidWinners \cup {b} /\ b \notin PaidWinners
        /\ PaidWinners \subseteq Bettors
    BY <1>1, <1>3
  <2>2. IsFiniteSet(PaidWinners)
    BY <1>3, <2>1, FS_Subset
  <2> HIDE DEF PaidWinners
  <2>3. Sum(stake, Winners) = Sum(stake, PaidWinners) + stake[b]
    BY <1>3, <2>1, <2>2, SumAdd
  <2>4. winningStakeClaimed = Sum(stake, PaidWinners)
    BY <1>1 DEF ClaimsAccounted, PaidWinners
  <2>5. QED
    BY <1>3, <1>4, <1>5, <2>3, <2>4
<1>8. Distributable(totalPool, terms.feeBps)' = dist
  BY <1>2 DEF Distributable, FeeOf
<1> HIDE DEF pay, dist, Paid, PaidWinners
<1>9. (vault - donated) - (vault' - donated) = pay /\ donated' = donated
  BY <1>2, <1>3, <1>5
<1>10. dist - paidOut' = (dist - paidOut) - pay /\ (dist - paidOut) - pay >= 0
  BY <1>2, <1>3, <1>5
<1>11. /\ Promise!Sum(stake, Winners) = totalWinningPool
       /\ b \in Winners \ Paid
  BY <1>1, <1>3, <1>4, SameSum DEF Paid
<1>12. QED
  BY <1>1, <1>2, <1>6, <1>7, <1>8, <1>9, <1>10, <1>11
     DEF Promise!Pay, dist, Paid

\* withdraw_fees takes the operator's part, once.
LEMMA PayFeeStep ==
  ASSUME TypeOK, WithdrawFees
  PROVE  Promise!PayFee
<1>1. /\ vault \in Nat /\ donated \in Nat /\ feeAmount \in Nat
  BY DEF TypeOK
<1>2. (vault - donated)' = (vault - donated) - feeAmount
  BY <1>1 DEF WithdrawFees
<1>3. QED
  BY <1>2 DEF Promise!PayFee, WithdrawFees, rules, pools, receipt, position,
              Winners, Distributable, FeeOf

\* claim_refund gives one deposit back.
LEMMA RefundStep ==
  ASSUME TypeOK, PositionsAreStaked, NEW b \in Bettors, ClaimRefund(b)
  PROVE  Promise!Refund(b)
<1>1. /\ vault \in Nat /\ donated \in Nat /\ stake[b] \in Nat /\ stake[b] > 0
  BY DEF TypeOK, PositionsAreStaked, ClaimRefund
<1>2. (vault - donated)' = (vault - donated) - stake[b]
  BY <1>1 DEF ClaimRefund
<1>3. {c \in Bettors : claimed'[c]} = {c \in Bettors : claimed[c]} \cup {b}
  BY DEF ClaimRefund, TypeOK
<1>4. status = "Cancelled" /\ status' = "Cancelled" /\ ~claimed[b] /\ stake' = stake
  BY DEF ClaimRefund
<1>5. QED
  BY <1>1, <1>2, <1>3, <1>4 DEF Promise!Refund

\* A new market is an escrow that has taken nothing.
LEMMA EscrowInit == Init => Promise!Init
<1> SUFFICES ASSUME Init PROVE Promise!Init
  OBVIOUS
<1>1. {b \in Bettors : claimed[b]} = {} /\ vault - donated = 0
  BY DEF Init
<1>2. status = "Absent" /\ stake = [b \in Bettors |-> 0]
  BY DEF Init
<1>3. QED
  BY <1>1, <1>2 DEF Promise!Init

\* Every step of a market is a step of the escrow or one it does not see.
LEMMA EscrowStep ==
  ASSUME MoneyInv, MoneyInv', PositionsAreStaked, [Next]_vars
  PROVE  [Promise!Next]_(Promise!vars)
<1>1. TypeOK
  BY DEF MoneyInv
<1>2. CASE UNCHANGED vars
  BY <1>2, StutterStep DEF vars, rules, tokens
<1>3. CASE \E bps \in FeeRates, lock \in LockTimes, timeout \in Timeouts,
             combo \in BOOLEAN : InitializeMarket(bps, lock, timeout, combo)
  <2>1. /\ status = "Absent" /\ status' = "Open"
        /\ UNCHANGED <<pools, receipt, claims, position, tokens>>
    BY <1>3 DEF InitializeMarket
  <2>2. QED
    BY <2>1 DEF Promise!vars, pools, receipt, claims, position, tokens
<1>4. CASE InitializeComboSpec
  BY <1>4, StutterStep DEF InitializeComboSpec, tokens
<1>5. CASE \E b \in Bettors, o \in Outcomes, a \in Amounts : PlaceBet(b, o, a)
  BY <1>1, <1>5, DepositStep DEF Promise!Next
<1>6. CASE \E b \in Bettors, a \in Gifts : Donate(b, a)
  <2>1. PICK a \in Gifts : vault' = vault + a /\ donated' = donated + a
    BY <1>6 DEF Donate
  <2>2. (vault - donated)' = vault - donated
    BY <1>1, <2>1 DEF TypeOK, AmountsAssumption
  <2>3. UNCHANGED <<terms, pools, receipt, claims, position>> /\ status' = status
    BY <1>6 DEF Donate, rules
  <2>4. QED
    BY <2>2, <2>3, StutterStep
<1>7. CASE LockMarket
  BY <1>7, StutterStep DEF LockMarket, Resolved, rules, tokens
<1>8. CASE \E o \in Outcomes : SettleMarket(o) \/ SettleMarketV3(o)
  <2>1. PICK o \in Outcomes : status = "Locked" /\ RecordSettlement(o)
    BY <1>8 DEF SettleMarket, SettleMarketV3
  <2>2. CASE pool[o] = 0
    <3>1. status' = "Cancelled" /\ UNCHANGED <<pools, claims, position, tokens>>
      BY <2>1, <2>2 DEF RecordSettlement
    <3>2. QED
      BY <2>1, <3>1, DecideRefundStep DEF Promise!Next
  <2>3. CASE pool[o] # 0
    BY <2>1, <2>3, DecidePaymentStep DEF Promise!Next
  <2>4. QED
    BY <2>2, <2>3
<1>9. CASE CancelMarket
  BY <1>9, DecideRefundStep DEF CancelMarket, Promise!Next
<1>10. CASE \E b \in Bettors : ClaimWinnings(b) \/ ClaimRefund(b)
  BY <1>1, <1>10, PayStep, RefundStep DEF Promise!Next
<1>11. CASE WithdrawFees
  BY <1>1, <1>11, PayFeeStep DEF Promise!Next
<1>12. CASE Tick \/ \E S \in SUBSET Outcomes : PublishRoot(S)
  BY <1>12, StutterStep DEF Tick, PublishRoot, rules, tokens
<1>13. QED
  BY <1>2, <1>3, <1>4, <1>5, <1>6, <1>7, <1>8, <1>9, <1>10, <1>11, <1>12
     DEF Next, Create, Resolve, Withdraw

\* Every behaviour of a market is a behaviour of Escrow: deposits only grow
\* until one decision, which is then carried out to the letter, whatever the
\* bettors, the outcomes and the amounts.
THEOREM MarketIsAnEscrow == Spec => KeepsPromise
<1>1. MoneyInv /\ MoneyInv' /\ PositionsAreStaked /\ [Next]_vars
        => [Promise!Next]_(Promise!vars)
  BY EscrowStep
<1>2. QED
  BY <1>1, EscrowInit, MoneyIsInvariant, PositionsHoldMoney, PTL
     DEF Spec, KeepsPromise, Promise!Spec

-----------------------------------------------------------------------------
(* The two pages of a wallet *)

\* Every step around and on the pages is a step of the market: the slip signs
\* only bets of an outcome and a stake that it can show, and its transactions
\* are instructions of the program.
LEMMA DeskStepIsMarketStep ==
  ASSUME SlipInv, [DeskNext]_deskVars
  PROVE  [Next]_vars
<1>1. CASE \E t \in sent : BetLands(t)
  <2>1. PICK t \in sent : BetLands(t)
    BY <1>1
  <2>2. t \in BetTxs
    BY <2>1 DEF SlipInv, BetLands, claimTx
  <2>3. t.bet.outcome \in Outcomes /\ t.bet.amount \in Amounts
    BY <2>2 DEF BetTxs
  <2>4. PlaceBet(User, t.bet.outcome, t.bet.amount) \/ UNCHANGED vars
    BY <2>1 DEF BetLands
  <2>5. QED
    BY <2>3, <2>4, UserAssumption DEF Next
<1>2. CASE \E t \in sent : ClaimLands(t)
  BY <1>2, UserAssumption DEF ClaimLands, Next, Withdraw
<1>3. CASE Around
  <2>1. ASSUME NEW bps \in FeeRates, NEW lock \in LockTimes,
               NEW timeout \in Timeouts,
               InitializeMarket(bps, lock, timeout, FALSE)
        PROVE  Next
    BY <2>1 DEF Next, Create
  <2>2. ASSUME NEW b \in Bettors, NEW o \in Outcomes, NEW a \in Amounts,
               PlaceBet(b, o, a)
        PROVE  Next
    BY <2>2 DEF Next
  <2>3. ASSUME NEW o \in Outcomes, SettleMarket(o) \/ PublishRoot({o})
        PROVE  Next
    BY <2>3 DEF Next, Resolve
  <2>4. LockMarket \/ CancelMarket \/ Tick => Next
    BY DEF Next, Resolve
  <2>5. QED
    BY <1>3, <2>1, <2>2, <2>3, <2>4 DEF Around, Strangers
<1>4. CASE UNCHANGED vars
  BY <1>4
<1>5. ASSUME NEW t \in sent, Expired(t)
      PROVE  UNCHANGED vars
  BY <1>5 DEF Expired
<1>6. ASSUME \/ LoadMarket \/ Close \/ Build \/ submit \/ signSend \/ Unsigned
             \/ Confirm \/ Fail \/ Dismiss \/ ClaimFails
             \/ \E p \in {NoPick} \cup [outcome : Outcomes, amount : Amounts] : Choose(p)
             \/ \E winner \in Outcomes \cup {NoOutcome} : load(winner)
             \/ \E kind \in {"winnings", "refund"} : doClaim(kind)
      PROVE  UNCHANGED vars
  BY <1>6 DEF LoadMarket, Close, Build, submit, signSend, Unsigned, Confirm, Fail,
              Dismiss, ClaimFails, Choose, load, doClaim
<1>7. CASE UNCHANGED deskVars
  BY <1>7 DEF deskVars
<1>8. QED
  BY <1>1, <1>2, <1>3, <1>4, <1>5, <1>6, <1>7 DEF DeskNext

\* A position that names an outcome keeps it, stakes only grow, a claim is
\* never unmade, and a resolution is final for every position.
LEMMA PositionsOnlyGrow ==
  ASSUME TypeOK, [Next]_vars, NEW b \in Bettors
  PROVE  /\ side[b] # NoOutcome => side'[b] = side[b] /\ stake'[b] >= stake[b]
         /\ claimed[b] => claimed'[b]
         /\ Resolved => /\ status' = status /\ winningOutcome' = winningOutcome
                        /\ side' = side
<1>0. /\ stake \in [Bettors -> Nat] /\ claimed \in [Bettors -> BOOLEAN]
      /\ side \in [Bettors -> Outcomes \cup {NoOutcome}]
  BY DEF TypeOK
<1>1. CASE \E c \in Bettors, o \in Outcomes, a \in Amounts : PlaceBet(c, o, a)
  <2>1. PICK c \in Bettors, o \in Outcomes, a \in Amounts : PlaceBet(c, o, a)
    BY <1>1
  <2>2. /\ a \in Nat /\ side[c] \in {NoOutcome, o} /\ status = "Open"
        /\ side' = [side EXCEPT ![c] = o] /\ claimed' = claimed
        /\ stake' = [stake EXCEPT ![c] = @ + a]
    BY <2>1 DEF PlaceBet, AmountsAssumption
  <2>3. ~Resolved
    BY <2>2 DEF Resolved
  <2>4. QED
    BY <1>0, <2>2, <2>3
<1>2. CASE Withdraw
  <2>1. UNCHANGED <<side, stake, status, winningOutcome>>
    BY <1>2 DEF Withdraw, ClaimWinnings, ClaimRefund, WithdrawFees, receipt, position
  <2>2. claimed[b] => claimed'[b]
    BY <1>0, <1>2 DEF Withdraw, ClaimWinnings, ClaimRefund, WithdrawFees, position
  <2>3. QED
    BY <1>0, <2>1, <2>2
<1>3. CASE \/ UNCHANGED vars \/ Create \/ Resolve \/ Tick
           \/ \E c \in Bettors, a \in Gifts : Donate(c, a)
           \/ \E S \in SUBSET Outcomes : PublishRoot(S)
  <2>1. UNCHANGED position
    BY <1>3 DEF vars, Create, Resolve, Tick, Donate, PublishRoot, InitializeMarket,
                InitializeComboSpec, LockMarket, SettleMarket, SettleMarketV3,
                RecordSettlement, CancelMarket
  <2>2. Resolved => UNCHANGED <<status, winningOutcome>>
    BY <1>3 DEF vars, Create, Resolve, Tick, Donate, PublishRoot, InitializeMarket,
                InitializeComboSpec, LockMarket, SettleMarket, SettleMarketV3,
                CancelMarket, Resolved, receipt
  <2>3. QED
    BY <1>0, <2>1, <2>2 DEF position
<1>4. QED
  BY <1>1, <1>2, <1>3 DEF Next

\* What is in the position stays in it.
LEMMA PlacedStays ==
  ASSUME TypeOK, TypeOK', [Next]_vars, NEW bet, bet.outcome \in Outcomes,
         bet.amount \in Amounts, Placed(bet)
  PROVE  Placed(bet)'
<1>1. side[User] # NoOutcome /\ User \in Bettors
  BY UserAssumption DEF Placed, OutcomesAssumption
<1>2. side'[User] = side[User] /\ stake'[User] >= stake[User]
  BY <1>1, PositionsOnlyGrow
<1>3. stake[User] \in Nat /\ stake'[User] \in Nat /\ bet.amount \in Nat
  BY <1>1 DEF TypeOK, AmountsAssumption
<1>4. QED
  BY <1>2, <1>3 DEF Placed

\* Steps that build nothing and process nothing, and sign or drop what there is.
LEMMA NoNewBet ==
  ASSUME SlipInv, TypeOK, TypeOK', [Next]_vars,
         builds' = builds, fate' = fate,
         pick' \in {NoPick} \cup [outcome : Outcomes, amount : Amounts],
         {prepared', asked'} \subseteq {prepared, asked, NoTx},
         sent' \subseteq sent \cup {asked} \cup {claimTx("winnings"), claimTx("refund")},
         asked \in sent' \ sent => asked # NoTx /\ asked.hash \notin DOMAIN fate,
         tx' \in {"signing", "confirming", "confirmed"} => asked' # NoTx,
         tx' = "confirmed" => Processed(asked'.hash, "ok")
  PROVE  SlipInv'
<1>1. BetTxs' = BetTxs
  BY DEF BetTxs
<1>2. {prepared', asked'} \subseteq BetTxs \cup {NoTx}
  BY DEF SlipInv
<1>3. sent' \subseteq BetTxs \cup {claimTx("winnings"), claimTx("refund")}
  BY DEF SlipInv
<1>4. Bets' \subseteq Bets /\ Bets \subseteq BetTxs
  BY DEF Bets, SlipInv, NoTx, claimTx
<1>5. \A t, u \in Bets' : t.hash = u.hash => t = u
  BY <1>4 DEF SlipInv
<1>6. \A t \in Bets' : Processed(t.hash, "ok") => Placed(t.bet)'
  <2> SUFFICES ASSUME NEW t \in Bets', Processed(t.hash, "ok") PROVE Placed(t.bet)'
    OBVIOUS
  <2>1. t \in Bets /\ t.bet.outcome \in Outcomes /\ t.bet.amount \in Amounts
    BY <1>4 DEF BetTxs
  <2>2. Placed(t.bet)
    BY <2>1 DEF SlipInv
  <2>3. QED
    BY <2>1, <2>2, PlacedStays
<1>7. \A t \in sent' \cap Bets' : t.hash \notin DOMAIN fate
  BY <1>4 DEF SlipInv, Bets, claimTx
<1>8. QED
  BY <1>1, <1>2, <1>3, <1>5, <1>6, <1>7 DEF SlipInv, Processed

\* A build is new to everybody.
LEMMA NewBet ==
  ASSUME SlipInv, UNCHANGED <<side, stake, sent, fate, pick>>, pick # NoPick,
         builds' = builds + 1,
         \/ /\ prepared' \in {betTx(pick, builds'), NoTx}
            /\ UNCHANGED <<asked, tx>>
         \/ /\ prepared' = prepared
            /\ asked' = betTx(pick, builds') /\ tx' = "signing"
  PROVE  SlipInv'
<1> DEFINE new == betTx(pick, builds')
<1>1. builds \in Nat /\ builds' \in Nat /\ 1..builds \subseteq 1..builds'
      /\ builds' \in 1..builds' /\ builds' \notin 1..builds
  BY DEF SlipInv
<1>2. pick \in [outcome : Outcomes, amount : Amounts]
  BY DEF SlipInv
<1>3. new \in BetTxs' /\ new # NoTx /\ new.hash = builds'
  BY <1>1, <1>2 DEF BetTxs, betTx, NoTx
<1>4. BetTxs \subseteq BetTxs'
  BY <1>1 DEF BetTxs
<1>5. Bets' \subseteq Bets \cup {new} /\ Bets \subseteq BetTxs
  BY DEF Bets, SlipInv, NoTx, claimTx
<1>6. \A t \in Bets : t.hash # builds'
  BY <1>1, <1>5 DEF BetTxs
<1>7. builds' \notin DOMAIN fate
  BY <1>1 DEF SlipInv
<1> HIDE DEF new
<1>8. \A t, u \in Bets' : t.hash = u.hash => t = u
  BY <1>3, <1>5, <1>6 DEF SlipInv
<1>9. \A t \in Bets' : Processed(t.hash, "ok") => Placed(t.bet)'
  BY <1>3, <1>5, <1>7 DEF SlipInv, Processed, Placed
<1>10. \A t \in sent' \cap Bets' : t.hash \notin DOMAIN fate
  BY <1>3, <1>5, <1>7 DEF SlipInv
<1>11. {prepared', asked'} \subseteq BetTxs' \cup {NoTx}
  BY <1>3, <1>4 DEF SlipInv, new
<1>12. sent' \subseteq BetTxs' \cup {claimTx("winnings"), claimTx("refund")}
  BY <1>4 DEF SlipInv
<1>13. /\ tx' \in {"signing", "confirming", "confirmed"} => asked' # NoTx
       /\ tx' = "confirmed" => Processed(asked.hash, "ok")'
  BY <1>3 DEF SlipInv, Processed, new
<1>14. DOMAIN fate' \subseteq 1..builds'
  BY <1>1 DEF SlipInv
<1>15. pick' \in {NoPick} \cup [outcome : Outcomes, amount : Amounts]
  BY <1>2
<1>16. QED
  BY <1>1, <1>8, <1>9, <1>10, <1>11, <1>12, <1>13, <1>14, <1>15
     DEF SlipInv, Processed

\* The program processes a bet: without an error only if it is in the position.
LEMMA BetLandsKeepsSlip ==
  ASSUME SlipInv, TypeOK, TypeOK', [Next]_vars, NEW t \in sent, BetLands(t)
  PROVE  SlipInv'
<1>1. /\ t \in BetTxs /\ t \in Bets /\ sent' = sent \ {t}
      /\ UNCHANGED <<pick, prepared, tx, asked, builds>>
  BY DEF SlipInv, BetLands, claimTx, Bets, slip
<1>2. /\ t.hash \in 1..builds /\ t.hash \notin DOMAIN fate
      /\ t.bet.outcome \in Outcomes /\ t.bet.amount \in Amounts
  BY <1>1 DEF SlipInv, BetTxs
<1>3. /\ DOMAIN fate' = DOMAIN fate \cup {t.hash}
      /\ \A h \in DOMAIN fate : fate'[h] = fate[h]
      /\ fate'[t.hash] = "ok" => Placed(t.bet)'
  <2>1. CASE WouldPass(t.bet)
    <3>1. PlaceBet(User, t.bet.outcome, t.bet.amount) /\ Becomes(t.hash, "ok")
      BY <2>1 DEF BetLands
    <3>2. /\ side'[User] = t.bet.outcome
          /\ stake'[User] = stake[User] + t.bet.amount /\ stake[User] \in Nat
          /\ t.bet.amount \in Nat
      BY <1>2, <3>1, UserAssumption DEF PlaceBet, TypeOK, AmountsAssumption
    <3>3. Placed(t.bet)'
      BY <3>2 DEF Placed
    <3>4. QED
      BY <1>2, <3>1, <3>3 DEF Becomes
  <2>2. CASE ~WouldPass(t.bet)
    <3>1. Becomes(t.hash, "err")
      BY <2>2 DEF BetLands
    <3>2. QED
      BY <1>2, <3>1 DEF Becomes
  <2>3. QED
    BY <2>1, <2>2
<1>4. BetTxs' = BetTxs /\ Bets' \subseteq Bets /\ Bets \subseteq BetTxs
  BY <1>1 DEF BetTxs, Bets, SlipInv, NoTx, claimTx
<1>5. ASSUME NEW u \in Bets', Processed(u.hash, "ok")'
      PROVE  Placed(u.bet)'
  <2>1. u \in Bets /\ u.bet.outcome \in Outcomes /\ u.bet.amount \in Amounts
    BY <1>4 DEF BetTxs
  <2>2. CASE u.hash = t.hash
    <3>1. u = t
      BY <1>1, <2>1, <2>2 DEF SlipInv
    <3>2. QED
      BY <1>3, <1>5, <3>1 DEF Processed
  <2>3. CASE u.hash # t.hash
    <3>1. Processed(u.hash, "ok")
      BY <1>3, <1>5, <2>3 DEF Processed
    <3>2. QED
      BY <2>1, <3>1, PlacedStays DEF SlipInv
  <2>4. QED
    BY <2>2, <2>3
<1>6. \A u \in sent' \cap Bets' : u.hash \notin DOMAIN fate'
  BY <1>1, <1>3, <1>4 DEF SlipInv
<1>7. tx' = "confirmed" => Processed(asked.hash, "ok")'
  BY <1>1, <1>3 DEF SlipInv, Processed
<1>8. QED
  BY <1>1, <1>2, <1>3, <1>4, <1>5, <1>6, <1>7 DEF SlipInv

\* Every step of the pages, of the cluster and of strangers keeps the slip's
\* invariant.
LEMMA SlipStep ==
  ASSUME SlipInv, TypeOK, TypeOK', [Next]_vars, [DeskNext]_deskVars
  PROVE  SlipInv'
<1> DEFINE Picks == {NoPick} \cup [outcome : Outcomes, amount : Amounts]
<1>0. /\ pick \in Picks
      /\ tx \in {"signing", "confirming", "confirmed"} => asked # NoTx
      /\ tx = "confirmed" => Processed(asked.hash, "ok")
  BY DEF SlipInv
<1>1. CASE UNCHANGED <<slip, sent, fate>>
  BY <1>0, <1>1, NoNewBet DEF slip
<1>2. ASSUME LoadMarket \/ Close \/ Fail \/ Dismiss \/ Confirm
      PROVE  SlipInv'
  <2>1. /\ UNCHANGED <<builds, sent, fate>> /\ pick' \in Picks
        /\ {prepared', asked'} \subseteq {prepared, asked, NoTx}
        /\ tx' \in {"signing", "confirming", "confirmed"} => asked' # NoTx
        /\ tx' = "confirmed" => Processed(asked'.hash, "ok")
    BY <1>0, <1>2 DEF LoadMarket, Close, Fail, Dismiss, Confirm, confirmed, network,
                      NoPick
  <2>2. QED
    BY <2>1, NoNewBet
<1>3. ASSUME NEW p \in Picks, Choose(p)
      PROVE  SlipInv'
  BY <1>0, <1>3, NoNewBet DEF Choose, network
<1>4. ASSUME Build
      PROVE  SlipInv'
  BY <1>4, NewBet DEF Build, network, vars, position
<1>5. ASSUME submit
      PROVE  SlipInv'
  <2>1. /\ UNCHANGED <<side, stake, pick, prepared, sent, fate>> /\ pick # NoPick
    BY <1>5 DEF submit, network, vars, position
  <2>2. CASE prepared # NoTx /\ tx' = "signing" /\ asked' = prepared /\ builds' = builds
    BY <1>0, <2>1, <2>2, NoNewBet
  <2>3. CASE builds' = builds + 1 /\ tx' = "signing" /\ asked' = betTx(pick, builds')
    BY <2>1, <2>3, NewBet
  <2>4. CASE builds' = builds + 1 /\ tx' = "idle" /\ asked' = NoTx
    <3>1. /\ builds \in Nat /\ 1..builds \subseteq 1..builds' /\ builds' \in Nat
      BY <2>4 DEF SlipInv
    <3>2. BetTxs \subseteq BetTxs'
      BY <3>1 DEF BetTxs
    <3>3. Bets' \subseteq Bets
      BY <2>1, <2>4 DEF Bets, NoTx
    <3>4. \A t \in Bets' : Processed(t.hash, "ok")' => Placed(t.bet)'
      BY <2>1, <3>3 DEF SlipInv, Processed, Placed
    <3>5. {prepared', asked'} \subseteq BetTxs' \cup {NoTx}
      BY <2>1, <2>4, <3>2 DEF SlipInv
    <3>6. sent' \subseteq BetTxs' \cup {claimTx("winnings"), claimTx("refund")}
      BY <2>1, <3>2 DEF SlipInv
    <3>7. QED
      BY <1>0, <2>1, <2>4, <3>1, <3>3, <3>4, <3>5, <3>6 DEF SlipInv
  <2>5. QED
    BY <1>5, <2>2, <2>3, <2>4 DEF submit, isFresh
<1>6. ASSUME signSend \/ Unsigned
      PROVE  SlipInv'
  <2>1. /\ UNCHANGED <<pick, prepared, builds, fate>> /\ asked # NoTx
        /\ asked' \in {asked, NoTx}
        /\ sent' \subseteq sent \cup {asked}
        /\ asked \in sent' \ sent => asked.hash \notin DOMAIN fate
        /\ tx' \in {"confirming", "idle"}
        /\ tx' = "confirming" => asked' # NoTx
    BY <1>0, <1>6 DEF signSend, Unsigned
  <2>2. QED
    BY <1>0, <2>1, NoNewBet
<1>7. ASSUME NEW kind \in {"winnings", "refund"}, doClaim(kind)
      PROVE  SlipInv'
  <2>1. UNCHANGED <<slip, fate>> /\ sent' \subseteq sent \cup {claimTx(kind)}
    BY <1>7 DEF doClaim
  <2>2. asked \in sent' \ sent => asked # NoTx /\ asked.hash \notin DOMAIN fate
    BY <2>1 DEF SlipInv, BetTxs, NoTx, claimTx
  <2>3. QED
    BY <1>0, <2>1, <2>2, NoNewBet DEF slip
<1>8. ASSUME NEW t \in sent, BetLands(t)
      PROVE  SlipInv'
  BY <1>8, BetLandsKeepsSlip
<1>9. ASSUME NEW t \in sent, ClaimLands(t) \/ Expired(t)
      PROVE  SlipInv'
  <2>1. UNCHANGED <<slip, fate>> /\ sent' \subseteq sent
    BY <1>9 DEF ClaimLands, Expired
  <2>2. QED
    BY <1>0, <2>1, NoNewBet DEF slip
<1>10. ASSUME \/ Around \/ ClaimFails \/ UNCHANGED deskVars
              \/ \E winner \in Outcomes \cup {NoOutcome} : load(winner)
       PROVE  SlipInv'
  BY <1>1, <1>10 DEF Around, ClaimFails, load, deskVars, network
<1>11. QED
  BY <1>2, <1>3, <1>4, <1>5, <1>6, <1>7, <1>8, <1>9, <1>10 DEF DeskNext

\* What the portfolio has announced and what its row offers.
PortfolioInv ==
  /\ note \in {"winnings", "refund"} => claimed[User]
  /\ row \in {"winnings", "refund"} => claimed[User] \/ ClaimPasses(row)

\* A claim that passes goes on passing until it is paid, so a row of any age
\* offers nothing else; and a claim is announced by the step that pays it.
LEMMA PortfolioStep ==
  ASSUME SlipInv, PortfolioInv, TypeOK, [Next]_vars, [DeskNext]_deskVars
  PROVE  PortfolioInv'
<1>0. User \in Bettors /\ claimed \in [Bettors -> BOOLEAN]
  BY UserAssumption DEF TypeOK
<1>1. claimed[User] => claimed'[User]
  BY <1>0, PositionsOnlyGrow
<1>2. ASSUME NEW kind \in {"winnings", "refund"}, ClaimPasses(kind)
      PROVE  claimed'[User] \/ ClaimPasses(kind)'
  <2>1. Resolved
    BY <1>2 DEF ClaimPasses, Resolved
  <2>2. status' = status /\ winningOutcome' = winningOutcome /\ side' = side
    BY <1>0, <2>1, PositionsOnlyGrow
  <2>3. QED
    BY <1>2, <2>2 DEF ClaimPasses
<1>3. ASSUME note' \in {note, "none"}, row' = row
      PROVE  PortfolioInv'
  BY <1>1, <1>2, <1>3 DEF PortfolioInv
<1>4. ASSUME NEW winner \in Outcomes \cup {NoOutcome}, load(winner)
      PROVE  PortfolioInv'
  <2>1. UNCHANGED <<vars, note>> /\ side[User] # NoOutcome
    BY <1>4 DEF load
  <2>2. row' = "winnings" => ClaimPasses("winnings")
    BY <1>4 DEF load, offersWinnings, ClaimPasses
  <2>3. row' = "refund" => ClaimPasses("refund")
    BY <1>4 DEF load, offersRefund, offersWinnings, ClaimPasses
  <2>4. ClaimPasses(row') => ClaimPasses(row)'
    BY <2>1 DEF vars, position, receipt, ClaimPasses
  <2>5. claimed' = claimed
    BY <2>1 DEF vars, position
  <2>6. QED
    BY <2>1, <2>2, <2>3, <2>4, <2>5 DEF PortfolioInv
<1>5. ASSUME NEW t \in sent, ClaimLands(t)
      PROVE  PortfolioInv'
  <2>1. row' = row
    BY <1>5 DEF ClaimLands
  <2>2. CASE ~ClaimPasses(t.kind)
    BY <1>3, <1>5, <2>1, <2>2 DEF ClaimLands
  <2>3. CASE ClaimPasses(t.kind)
    <3>1. claimed' = [claimed EXCEPT ![User] = TRUE]
      BY <1>5, <2>3 DEF ClaimLands, ClaimWinnings, ClaimRefund
    <3>2. claimed'[User]
      BY <1>0, <3>1
    <3>3. QED
      BY <3>2 DEF PortfolioInv
  <2>4. QED
    BY <2>2, <2>3
<1>6. ASSUME NEW kind \in {"winnings", "refund"}, doClaim(kind)
      PROVE  PortfolioInv'
  BY <1>3, <1>6 DEF doClaim
<1>7. ASSUME \/ LoadMarket \/ Close \/ Build \/ submit \/ signSend \/ Unsigned
             \/ Confirm \/ Fail \/ Dismiss \/ ClaimFails \/ Around
             \/ UNCHANGED deskVars
             \/ \E p \in {NoPick} \cup [outcome : Outcomes, amount : Amounts] : Choose(p)
             \/ \E t \in sent : BetLands(t) \/ Expired(t)
      PROVE  PortfolioInv'
  <2>1. row' = row /\ note' \in {note, "none"}
    BY <1>7 DEF LoadMarket, Close, Build, submit, signSend, Unsigned, Confirm, Fail,
                Dismiss, ClaimFails, Around, deskVars, Choose, BetLands, Expired,
                portfolio
  <2>2. QED
    BY <1>3, <2>1
<1>8. QED
  BY <1>4, <1>5, <1>6, <1>7 DEF DeskNext

\* The state of the pages and of the market together.
LEMMA DeskIsInvariant == DeskSpec => [](MoneyInv /\ SlipInv /\ PortfolioInv)
<1> DEFINE Inv == MoneyInv /\ SlipInv /\ PortfolioInv
<1>1. DeskInit => Inv
  <2> SUFFICES ASSUME DeskInit PROVE Inv
    OBVIOUS
  <2>1. MoneyInv
    BY InitMoney DEF DeskInit
  <2>2. /\ DOMAIN fate = {} /\ Bets = {}
    BY DEF DeskInit, Bets, NoTx
  <2>3. SlipInv
    BY <2>2 DEF DeskInit, SlipInv
  <2>4. PortfolioInv
    BY DEF DeskInit, PortfolioInv
  <2>5. QED
    BY <2>1, <2>3, <2>4
<1>2. Inv /\ [DeskNext]_deskVars => Inv'
  <2> SUFFICES ASSUME Inv, [DeskNext]_deskVars PROVE Inv'
    OBVIOUS
  <2>1. [Next]_vars
    BY DeskStepIsMarketStep
  <2>2. MoneyInv'
    BY <2>1, MoneyStep
  <2>3. TypeOK /\ TypeOK'
    BY <2>2 DEF MoneyInv
  <2>4. SlipInv'
    BY <2>1, <2>3, SlipStep
  <2>5. PortfolioInv'
    BY <2>1, <2>3, PortfolioStep
  <2>6. QED
    BY <2>2, <2>4, <2>5
<1>3. QED
  BY <1>1, <1>2, PTL DEF DeskSpec

\* Whatever the pages do, the market behaves as Market says: every theorem about
\* Spec holds of the market that a wallet bets on through the site.
THEOREM DeskIsAMarket == DeskSpec => Spec
<1>1. DeskInit => Init
  BY DEF DeskInit
<1>2. SlipInv /\ [DeskNext]_deskVars => [Next]_vars
  BY DeskStepIsMarketStep
<1>3. QED
  BY <1>1, <1>2, DeskIsInvariant, PTL DEF DeskSpec, Spec

\* Whatever lands late, twice or not at all, a bet called placed is in the
\* position, a claim called paid is paid, and a claim that is offered would pass
\* or has been paid.
THEOREM PagesStayHonest == DeskSpec => []PagesAreHonest
<1>1. MoneyInv /\ SlipInv /\ PortfolioInv => PagesAreHonest
  <2> SUFFICES ASSUME SlipInv, PortfolioInv PROVE PagesAreHonest
    OBVIOUS
  <2>1. ASSUME tx = "confirmed"
        PROVE  Placed(asked.bet)
    <3>1. asked \in BetTxs /\ Processed(asked.hash, "ok")
      BY <2>1 DEF SlipInv
    <3>2. asked \in Bets
      BY <3>1 DEF Bets, BetTxs
    <3>3. QED
      BY <3>1, <3>2 DEF SlipInv
  <2>2. QED
    BY <2>1 DEF PagesAreHonest, PortfolioInv, Placed
<1>2. QED
  BY <1>1, DeskIsInvariant, PTL
=============================================================================
