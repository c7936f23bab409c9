-------------------------- MODULE ProjectionProofs --------------------------
(***************************************************************************)
(* For any number of markets, bettors' stakes, fees, restarts and failed   *)
(* calls: what the site shows of the chain is true, and the payout it      *)
(* promises is off by the fee on the winner's own stake alone.  And for    *)
(* every list of matches: the search finds the groups, and their tables    *)
(* add up.                                                                 *)
(***************************************************************************)
EXTENDS Standings, Counting

-----------------------------------------------------------------------------
(* Notes in the memory, of which nothing but the records' shape is used *)

\* A note on one market changes its entries in the fields it is about.
LEMMA NoteOfTwo ==
  ASSUME NEW m, NEW x, NEW y,
         mem = [proof |-> mem.proof, score |-> mem.score, phase |-> mem.phase,
                winner |-> mem.winner, receipt |-> mem.receipt],
         mem' = [mem EXCEPT !.phase[m] = x, !.winner[m] = y]
  PROVE  mem' = [proof |-> mem.proof, score |-> mem.score,
                 phase |-> [mem.phase EXCEPT ![m] = x],
                 winner |-> [mem.winner EXCEPT ![m] = y], receipt |-> mem.receipt]
OBVIOUS

\* The same of a note with a receipt.
LEMMA NoteOfThree ==
  ASSUME NEW m, NEW x, NEW y, NEW z,
         mem = [proof |-> mem.proof, score |-> mem.score, phase |-> mem.phase,
                winner |-> mem.winner, receipt |-> mem.receipt],
         mem' = [mem EXCEPT !.phase[m] = x, !.winner[m] = y, !.receipt[m] = z]
  PROVE  mem' = [proof |-> mem.proof, score |-> mem.score,
                 phase |-> [mem.phase EXCEPT ![m] = x],
                 winner |-> [mem.winner EXCEPT ![m] = y],
                 receipt |-> [mem.receipt EXCEPT ![m] = z]]
OBVIOUS

-----------------------------------------------------------------------------
(* The accounts *)

\* An account goes on from where it was: stakes only grow, and a resolution is
\* the end of it.
Grows(m) ==
  /\ chain'[m] \in Accounts
  /\ chain[m].mine <= chain'[m].mine
  /\ chain[m].status \in Resolved => chain'[m] = chain[m]
  /\ chain[m].winner # Unset => chain'[m] = chain[m]

\* A copy of an account stays true as the account goes on.
LEMMA CopiesStayTrue ==
  ASSUME TypeOK, \A m \in Markets : Grows(m)
  PROVE  /\ UNCHANGED <<mem, declared>> /\ MemoryIsTrue => MemoryIsTrue'
         /\ UNCHANGED row /\ RowsAreTrue => RowsAreTrue'
         /\ UNCHANGED <<receipt, declared>> /\ ReceiptsAreTrue => ReceiptsAreTrue'
         /\ UNCHANGED position /\ PositionsAreTrue => PositionsAreTrue'
         /\ UNCHANGED sync /\ PassIsTrue => PassIsTrue'
<1>0. /\ chain \in [Markets -> Accounts]
      /\ \A m \in Markets : chain[m].mine \in Nat /\ chain'[m].mine \in Nat
  BY DEF TypeOK, Grows, Accounts
<1>1. ASSUME NEW m \in Markets, NEW status, NEW winner, Holds(m, status, winner)
      PROVE  Holds(m, status, winner)'
  BY <1>1 DEF Grows, Holds, Outcomes, Unset
<1>2. ASSUME NEW m \in Markets, NEW r, declared' = declared, Receipted(r, m)
      PROVE  Receipted(r, m)'
  BY <1>2 DEF Grows, Receipted, Resolved
<1>3. UNCHANGED <<mem, declared>> /\ MemoryIsTrue => MemoryIsTrue'
  BY <1>1, <1>2 DEF MemoryIsTrue
<1>4. UNCHANGED <<receipt, declared>> /\ ReceiptsAreTrue => ReceiptsAreTrue'
  BY <1>2 DEF ReceiptsAreTrue
<1>5. UNCHANGED row /\ RowsAreTrue => RowsAreTrue'
  <2> SUFFICES ASSUME row' = row, RowsAreTrue, NEW m \in Markets, row[m] # Absent
               PROVE  /\ Holds(m, row[m].status, row[m].winner)'
                      /\ m \in Live => row[m].mine <= chain'[m].mine
                      /\ row[m].winning > 0 =>
                           /\ chain'[m].status = "settled"
                           /\ row[m].mine = chain'[m].mine
                           /\ row[m].winning = WinningPool(chain'[m])
    BY DEF RowsAreTrue
  <2>1. Holds(m, row[m].status, row[m].winner)'
    BY <1>1 DEF RowsAreTrue
  <2>2. m \in Live => row[m].mine <= chain'[m].mine
    <3>1. row[m].mine \in Nat
      BY DEF TypeOK, Rows
    <3>2. QED
      BY <1>0, <3>1 DEF RowsAreTrue, Grows
  <2>3. QED
    BY <2>1, <2>2 DEF RowsAreTrue, Grows, Resolved
<1>6. UNCHANGED position /\ PositionsAreTrue => PositionsAreTrue'
  <2> SUFFICES ASSUME position' = position, PositionsAreTrue, NEW m \in Markets,
                      position[m] # Absent
               PROVE  position[m].amount <= chain'[m].mine
    BY DEF PositionsAreTrue
  <2>1. position[m].amount \in Nat
    BY DEF TypeOK
  <2>2. QED
    BY <1>0, <2>1 DEF PositionsAreTrue, Grows
<1>7. UNCHANGED sync /\ PassIsTrue => PassIsTrue'
  <2> SUFFICES ASSUME sync' = sync, PassIsTrue, sync.pc = "markets", NEW m \in Markets
               PROVE  Was(sync.seen[m], m)'
    BY DEF PassIsTrue
  <2>1. Was(sync.seen[m], m) /\ sync.seen[m].mine \in Nat
    BY DEF PassIsTrue, Was, Accounts
  <2>2. QED
    BY <1>0, <2>1 DEF Was, Grows
<1>8. QED
  BY <1>3, <1>4, <1>5, <1>6, <1>7

\* A bet, a lock and a resolution let the account go on.
LEMMA AccountsGrow ==
  ASSUME CopiesAreTrue, NEW m \in Markets, Bet(m) \/ Lock(m) \/ Resolve(m)
  PROVE  /\ \A n \in Markets : Grows(n)
         /\ WinnersAreSettled'
         /\ UNCHANGED <<keeper, rows, sync, declared>>
<1>0. /\ chain \in [Markets -> Accounts] /\ chain[m] \in Accounts
      /\ chain[m].mine \in Nat \ {0} /\ Winner[m] \in Outcomes /\ Unset \notin Outcomes
      /\ chain[m].winner # Unset <=> chain[m].status = "settled"
  BY WinnerAssumption
     DEF CopiesAreTrue, TypeOK, Accounts, WinnersAreSettled, Outcomes, Unset
<1>1. UNCHANGED <<keeper, rows, sync, declared>>
  BY DEF Bet, Lock, Resolve
<1>2. ASSUME NEW n \in Markets, n # m
      PROVE  /\ Grows(n)
             /\ chain'[n].winner # Unset <=> chain'[n].status = "settled"
  <2>1. chain'[n] = chain[n]
    BY <1>0, <1>2 DEF Bet, Lock, Resolve
  <2>2. /\ chain[n] \in Accounts /\ chain[n].mine \in Nat
        /\ chain[n].winner # Unset <=> chain[n].status = "settled"
    BY <1>0 DEF Accounts, CopiesAreTrue, WinnersAreSettled
  <2>3. QED
    BY <2>1, <2>2 DEF Grows
<1>3. SUFFICES /\ Grows(m)
               /\ chain'[m].winner # Unset <=> chain'[m].status = "settled"
  BY <1>1, <1>2 DEF WinnersAreSettled
<1>4. ASSUME chain[m].status \in {"open", "locked"}, chain'[m] \in Accounts,
             chain[m].mine <= chain'[m].mine
      PROVE  Grows(m)
  BY <1>0, <1>4 DEF Grows, Resolved
<1>5. CASE Bet(m)
  <2>1. /\ chain[m].status = "open"
        /\ chain'[m] = [chain[m] EXCEPT !.mine = chain[m].mine + 1]
    BY <1>0, <1>5 DEF Bet
  <2>2. /\ chain'[m] \in Accounts /\ chain'[m].mine = chain[m].mine + 1
        /\ chain'[m].status = "open" /\ chain'[m].winner = chain[m].winner
    BY <1>0, <2>1 DEF Accounts
  <2>3. QED
    BY <1>0, <1>4, <2>1, <2>2
<1>6. CASE Lock(m)
  <2>1. /\ chain[m].status = "open"
        /\ chain'[m] = [chain[m] EXCEPT !.status = "locked"]
    BY <1>0, <1>6 DEF Lock
  <2>2. /\ chain'[m] \in Accounts /\ chain'[m].mine = chain[m].mine
        /\ chain'[m].status = "locked" /\ chain'[m].winner = chain[m].winner
    BY <1>0, <2>1 DEF Accounts
  <2>3. QED
    BY <1>0, <1>4, <2>1, <2>2
<1>7. CASE Resolve(m) /\ chain' = [chain EXCEPT ![m].status = "settled",
                                                ![m].winner = Winner[m]]
  <2>1. chain[m].status = "locked"
    BY <1>7 DEF Resolve
  <2> DEFINE settled == [chain EXCEPT ![m].status = "settled"]
  <2>2. chain' = [settled EXCEPT ![m].winner = Winner[m]]
    BY <1>7
  <2>3. /\ chain'[m] \in Accounts /\ chain'[m].mine = chain[m].mine
        /\ chain'[m].status = "settled" /\ chain'[m].winner = Winner[m]
    <3>1. settled \in [Markets -> Accounts]
      BY <1>0 DEF Accounts
    <3>2. settled[m].status = "settled" /\ settled[m].mine = chain[m].mine
      BY <1>0 DEF Accounts
    <3> HIDE DEF settled
    <3>3. QED
      BY <1>0, <2>2, <3>1, <3>2 DEF Accounts
  <2>4. QED
    BY <1>0, <1>4, <2>1, <2>3
<1>8. CASE Resolve(m) /\ chain' = [chain EXCEPT ![m].status = "cancelled"]
  <2>1. /\ chain[m].status = "locked"
        /\ chain'[m] = [chain[m] EXCEPT !.status = "cancelled"]
    BY <1>0, <1>8 DEF Resolve
  <2>2. /\ chain'[m] \in Accounts /\ chain'[m].mine = chain[m].mine
        /\ chain'[m].status = "cancelled" /\ chain'[m].winner = chain[m].winner
    BY <1>0, <2>1 DEF Accounts
  <2>3. QED
    BY <1>0, <1>4, <2>1, <2>2
<1>9. QED
  BY <1>5, <1>6, <1>7, <1>8 DEF Resolve

\* What happens to an account leaves all its copies true.
LEMMA ChainStep ==
  ASSUME CopiesAreTrue, NEW m \in Markets, Bet(m) \/ Lock(m) \/ Resolve(m)
  PROVE  CopiesAreTrue'
<1>1. /\ \A n \in Markets : Grows(n)
      /\ WinnersAreSettled'
      /\ UNCHANGED <<keeper, rows, sync, declared>>
  BY AccountsGrow
<1>2. TypeOK'
  <2>1. chain' \in [Markets -> Accounts]
    <3>1. chain' \in [Markets -> UNION {{chain'[n]} : n \in Markets}]
      BY DEF Bet, Lock, Resolve, CopiesAreTrue, TypeOK
    <3>2. QED
      BY <1>1, <3>1 DEF Grows
  <2>2. QED
    BY <1>1, <2>1 DEF CopiesAreTrue, TypeOK, keeper, rows
<1>3. NothingProven'
  BY <1>1 DEF CopiesAreTrue, NothingProven, keeper, rows
<1>4. QED
  BY <1>1, <1>2, <1>3, CopiesStayTrue DEF CopiesAreTrue, keeper, rows

-----------------------------------------------------------------------------
(* The keeper's memory *)

\* What the memory takes note of is read off the account, and the rest of the
\* world does not notice.
LEMMA MemoryStep ==
  ASSUME CopiesAreTrue, UNCHANGED <<chain, fixture, row, position, receipt, declared>>,
         sync' = sync \/ sync'.pc # "markets",
         mem' \in [proof : {"upcoming", "proven"}, score : AnyScore,
                  phase : [Markets -> Phases \cup {"none"}],
                  winner : [Markets -> Outcomes \cup {Unset, Null}],
                  receipt : [Markets -> Receipts \cup {Absent}]],
         ~declared => mem'.proof # "proven",
         \A m \in Markets : /\ Holds(m, mem'.phase[m], mem'.winner[m])
                            /\ Receipted(mem'.receipt[m], m)
  PROVE  CopiesAreTrue'
<1>1. TypeOK'
  BY DEF CopiesAreTrue, TypeOK
<1>2. WinnersAreSettled' /\ NothingProven'
  BY DEF CopiesAreTrue, WinnersAreSettled, NothingProven
<1>3. MemoryIsTrue'
  BY DEF MemoryIsTrue, Holds, Receipted
<1>4. /\ chain \in [Markets -> Accounts] /\ \A m \in Markets : Grows(m)
  BY DEF CopiesAreTrue, TypeOK, Accounts, Grows
<1>5. RowsAreTrue' /\ ReceiptsAreTrue' /\ PositionsAreTrue'
  BY <1>4, CopiesStayTrue DEF CopiesAreTrue
<1>6. PassIsTrue'
  <2>1. CASE sync' = sync
    BY <1>4, <2>1, CopiesStayTrue DEF CopiesAreTrue
  <2>2. CASE sync'.pc # "markets"
    BY <2>2 DEF PassIsTrue
  <2>3. QED
    BY <2>1, <2>2
<1>7. QED
  BY <1>1, <1>2, <1>3, <1>5, <1>6 DEF CopiesAreTrue

\* What the keeper notes of one market is what it read of its account.
LEMMA NotedStep ==
  ASSUME CopiesAreTrue, NEW m \in Markets,
         NEW phase \in Phases, NEW winner \in Outcomes \cup {Unset, Null},
         NEW r \in Receipts \cup {Absent}, Holds(m, phase, winner), Receipted(r, m),
         UNCHANGED <<chain, fixture, row, position, receipt, declared, sync>>,
         mem' = [proof |-> mem.proof, score |-> mem.score,
                 phase |-> [mem.phase EXCEPT ![m] = phase],
                 winner |-> [mem.winner EXCEPT ![m] = winner],
                 receipt |-> [mem.receipt EXCEPT ![m] = r]]
  PROVE  CopiesAreTrue'
<1>1. /\ mem.proof \in {"upcoming", "proven"} /\ mem.score \in AnyScore
      /\ mem.phase \in [Markets -> Phases \cup {"none"}]
      /\ mem.winner \in [Markets -> Outcomes \cup {Unset, Null}]
      /\ mem.receipt \in [Markets -> Receipts \cup {Absent}]
  BY DEF CopiesAreTrue, TypeOK
<1>2. /\ mem'.phase = [mem.phase EXCEPT ![m] = phase]
      /\ mem'.winner = [mem.winner EXCEPT ![m] = winner]
      /\ mem'.receipt = [mem.receipt EXCEPT ![m] = r]
      /\ mem'.proof = mem.proof /\ mem'.score = mem.score
  OBVIOUS
<1>3. mem' \in [proof : {"upcoming", "proven"}, score : AnyScore,
                phase : [Markets -> Phases \cup {"none"}],
                winner : [Markets -> Outcomes \cup {Unset, Null}],
                receipt : [Markets -> Receipts \cup {Absent}]]
  BY <1>1
<1>4. ASSUME NEW n \in Markets
      PROVE  /\ Holds(n, mem'.phase[n], mem'.winner[n])
             /\ Receipted(mem'.receipt[n], n)
  <2>1. CASE n = m
    BY <1>1, <1>2, <2>1
  <2>2. CASE n # m
    BY <1>1, <1>2, <2>2 DEF CopiesAreTrue, MemoryIsTrue
  <2>3. QED
    BY <2>1, <2>2
<1>5. ~declared => mem'.proof # "proven"
  BY <1>2 DEF CopiesAreTrue, NothingProven
<1>6. QED
  BY <1>3, <1>4, <1>5, MemoryStep

\* The feed's score is all that a record changes; a phase, a winner and a
\* receipt are taken from the account.
LEMMA KeeperStep ==
  ASSUME CopiesAreTrue,
         \/ \E score \in FeedScores : Ingest(score)
         \/ \E m \in Markets : Adopt(m) \/ Swept(m) \/ Settling(m) \/ Record(m)
  PROVE  CopiesAreTrue'
<1>0. /\ mem.proof \in {"upcoming", "proven"} /\ mem.score \in AnyScore
      /\ mem.phase \in [Markets -> Phases \cup {"none"}]
      /\ mem.winner \in [Markets -> Outcomes \cup {Unset, Null}]
      /\ mem.receipt \in [Markets -> Receipts \cup {Absent}]
      /\ mem = [proof |-> mem.proof, score |-> mem.score, phase |-> mem.phase,
                winner |-> mem.winner, receipt |-> mem.receipt]
  BY DEF CopiesAreTrue, TypeOK
<1>1. ASSUME NEW score \in FeedScores, Ingest(score)
      PROVE  CopiesAreTrue'
  <2>1. /\ UNCHANGED <<chain, fixture, row, position, receipt, declared, sync>>
        /\ mem' = [mem EXCEPT !.score = score]
    BY <1>1 DEF Ingest, rows
  <2>2. /\ mem'.proof = mem.proof /\ mem'.phase = mem.phase
        /\ mem'.winner = mem.winner /\ mem'.receipt = mem.receipt
        /\ mem' \in [proof : {"upcoming", "proven"}, score : AnyScore,
                     phase : [Markets -> Phases \cup {"none"}],
                     winner : [Markets -> Outcomes \cup {Unset, Null}],
                     receipt : [Markets -> Receipts \cup {Absent}]]
    BY <2>1 DEF CopiesAreTrue, TypeOK, AnyScore
  <2>3. QED
    BY <2>1, <2>2, MemoryStep DEF CopiesAreTrue, NothingProven, MemoryIsTrue
<1>2. ASSUME NEW m \in Markets, Adopt(m) \/ Swept(m) \/ Settling(m) \/ Record(m)
      PROVE  CopiesAreTrue'
  <2>0. /\ chain[m] \in Accounts /\ chain[m].status \in Phases
        /\ chain[m].winner \in Outcomes \cup {Unset}
        /\ mem.winner[m] \in Outcomes \cup {Unset, Null}
        /\ mem.receipt[m] \in Receipts \cup {Absent}
        /\ Holds(m, mem.phase[m], mem.winner[m]) /\ Receipted(mem.receipt[m], m)
    BY <1>0 DEF CopiesAreTrue, TypeOK, Accounts, Phases, MemoryIsTrue
  <2>1. Holds(m, chain[m].status, chain[m].winner)
    BY DEF Holds
  <2>2. Holds(m, chain[m].status, mem.winner[m]) /\ Holds(m, "open", mem.winner[m])
    BY <2>0 DEF Holds, Resolved
  <2>3. /\ mem.winner = [mem.winner EXCEPT ![m] = mem.winner[m]]
        /\ mem.receipt = [mem.receipt EXCEPT ![m] = mem.receipt[m]]
    BY <1>0
  <2>4. UNCHANGED <<chain, fixture, row, position, receipt, declared, sync>>
    <3>1. Adopt(m) => UNCHANGED <<chain, fixture, row, position, receipt, declared, sync>>
      BY ONLY DEF Adopt, rows
    <3>2. Swept(m) \/ Settling(m) =>
            UNCHANGED <<chain, fixture, row, position, receipt, declared, sync>>
      BY DEF Swept, Settling, Remember, rows
    <3>3. Record(m) => UNCHANGED <<chain, fixture, row, position, receipt, declared, sync>>
      BY ONLY DEF Record, rows
    <3>4. QED
      BY <1>2, <3>1, <3>2, <3>3
  <2>5. CASE Adopt(m)
    <3>1. mem' = [proof |-> mem.proof, score |-> mem.score,
                  phase |-> [mem.phase EXCEPT ![m] = chain[m].status],
                  winner |-> [mem.winner EXCEPT ![m] = chain[m].winner],
                  receipt |-> mem.receipt]
      <4>1. mem' = [mem EXCEPT !.phase[m] = chain[m].status,
                               !.winner[m] = chain[m].winner]
        BY ONLY <2>5 DEF Adopt
      <4>2. QED
        BY ONLY <1>0, <4>1, NoteOfTwo
    <3>2. QED
      BY <2>0, <2>1, <2>3, <2>4, <3>1, NotedStep
  <2>6. ASSUME NEW phase \in Phases, Holds(m, phase, mem.winner[m]), Remember(m, phase)
        PROVE  CopiesAreTrue'
    <3>1. mem' = [proof |-> mem.proof, score |-> mem.score,
                  phase |-> [mem.phase EXCEPT ![m] = phase],
                  winner |-> mem.winner, receipt |-> mem.receipt]
      BY <1>0, <2>6 DEF Remember
    <3>2. QED
      BY <2>0, <2>3, <2>4, <2>6, <3>1, NotedStep
  <2>7. CASE Swept(m) \/ Settling(m)
    BY <2>0, <2>2, <2>6, <2>7 DEF Swept, Settling, Phases
  <2>8. CASE Record(m)
    <3>1. PICK score \in {Truth, Unknown} :
            mem' = [mem EXCEPT
              !.phase[m]   = chain[m].status,
              !.winner[m]  = chain[m].winner,
              !.receipt[m] = IF chain[m].status = "settled"
                             THEN [winner |-> chain[m].winner, score |-> score]
                             ELSE @]
      BY ONLY <2>8 DEF Record
    <3> DEFINE r == IF chain[m].status = "settled"
                    THEN [winner |-> chain[m].winner, score |-> score]
                    ELSE mem.receipt[m]
    <3>2. r \in Receipts \cup {Absent}
      BY <2>0 DEF Receipts, AnyScore
    <3>3. Receipted(r, m)
      BY <2>0 DEF Receipted
    <3>4. mem' = [proof |-> mem.proof, score |-> mem.score,
                  phase |-> [mem.phase EXCEPT ![m] = chain[m].status],
                  winner |-> [mem.winner EXCEPT ![m] = chain[m].winner],
                  receipt |-> [mem.receipt EXCEPT ![m] = r]]
      <4>1. mem' = [mem EXCEPT !.phase[m] = chain[m].status,
                               !.winner[m] = chain[m].winner,
                               !.receipt[m] = r]
        BY ONLY <1>0, <3>1
      <4> HIDE DEF r
      <4>2. QED
        BY ONLY <1>0, <4>1, NoteOfThree
    <3> HIDE DEF r
    <3>5. QED
      BY <2>0, <2>1, <2>4, <3>2, <3>3, <3>4, NotedStep
  <2>9. QED
    BY <1>2, <2>5, <2>7, <2>8
<1>3. QED
  BY <1>1, <1>2

\* A new process knows what is in the rows.
LEMMA RestartStep ==
  ASSUME CopiesAreTrue, Restart
  PROVE  CopiesAreTrue'
<1>1. /\ UNCHANGED <<chain, fixture, row, position, receipt, declared>>
      /\ sync'.pc = "idle"
  BY DEF Restart, rows, Idle
<1>2. /\ fixture.proof \in {"upcoming", "proven"} /\ fixture.score \in AnyScore
      /\ row \in [Markets -> Rows \cup {Absent}]
      /\ receipt \in [Markets -> Receipts \cup {Absent}]
  BY DEF CopiesAreTrue, TypeOK
<1>3. \A m \in Markets : row[m] # Absent => /\ row[m].status \in Phases
                                            /\ row[m].winner \in Outcomes \cup {Unset, Null}
  BY <1>2 DEF Rows
<1>4. /\ mem'.proof = fixture.proof /\ mem'.score = fixture.score
      /\ mem'.receipt = receipt
      /\ mem'.phase = [m \in Markets |-> IF row[m] = Absent THEN "none"
                                                     ELSE row[m].status]
      /\ mem'.winner = [m \in Markets |-> IF row[m] = Absent THEN Null
                                                      ELSE row[m].winner]
      /\ mem' = [proof |-> mem'.proof, score |-> mem'.score, phase |-> mem'.phase,
                 winner |-> mem'.winner, receipt |-> mem'.receipt]
  BY DEF Restart
<1>5. /\ mem'.phase \in [Markets -> Phases \cup {"none"}]
      /\ mem'.winner \in [Markets -> Outcomes \cup {Unset, Null}]
  BY <1>3, <1>4
<1>6. mem' \in [proof : {"upcoming", "proven"}, score : AnyScore,
                phase : [Markets -> Phases \cup {"none"}],
                winner : [Markets -> Outcomes \cup {Unset, Null}],
                receipt : [Markets -> Receipts \cup {Absent}]]
  BY <1>2, <1>4, <1>5
<1>7. ASSUME NEW m \in Markets
      PROVE  /\ Holds(m, mem'.phase[m], mem'.winner[m])
             /\ Receipted(mem'.receipt[m], m)
  <2>1. Receipted(mem'.receipt[m], m)
    BY <1>4 DEF CopiesAreTrue, ReceiptsAreTrue
  <2>2. CASE row[m] = Absent
    BY <1>4, <2>1, <2>2 DEF Holds, Resolved, Outcomes, Null
  <2>3. CASE row[m] # Absent
    BY <1>4, <2>1, <2>3 DEF CopiesAreTrue, RowsAreTrue
  <2>4. QED
    BY <2>2, <2>3
<1>8. ~declared => mem'.proof # "proven"
  BY <1>4 DEF CopiesAreTrue, NothingProven
<1>9. QED
  BY <1>1, <1>6, <1>7, <1>8, MemoryStep

-----------------------------------------------------------------------------
(* The rows *)

\* With the accounts and the memory as they are, each table may be looked at by
\* itself.
FixtureKept ==
  \/ fixture' = fixture
  \/ /\ fixture' \in [proof : {"upcoming", "proven"}, score : AnyScore]
     /\ ~declared => fixture'.proof # "proven"

RowsKept ==
  row' = row \/ (row' \in [Markets -> Rows \cup {Absent}] /\ RowsAreTrue')

PositionsKept ==
  \/ position' = position
  \/ (position' \in [Markets -> [amount : Nat] \cup {Absent}] /\ PositionsAreTrue')

ReceiptsKept ==
  \/ receipt' = receipt
  \/ (receipt' \in [Markets -> Receipts \cup {Absent}] /\ ReceiptsAreTrue')

\* Copies stay copies when each table, and the pass, is left alone or written
\* with what the accounts have been.
LEMMA TablesStep ==
  ASSUME CopiesAreTrue, UNCHANGED <<chain, mem, declared>>, FixtureKept, RowsKept,
         PositionsKept, ReceiptsKept, sync' = sync \/ PassIsTrue'
  PROVE  CopiesAreTrue'
<1>1. TypeOK /\ \A m \in Markets : Grows(m)
  BY DEF CopiesAreTrue, TypeOK, Accounts, Grows
<1>2. TypeOK'
  BY <1>1 DEF TypeOK, FixtureKept, RowsKept, PositionsKept, ReceiptsKept
<1>3. WinnersAreSettled'
  BY DEF CopiesAreTrue, WinnersAreSettled
<1>4. NothingProven'
  BY DEF CopiesAreTrue, NothingProven, FixtureKept
<1>5. MemoryIsTrue'
  BY <1>1, CopiesStayTrue DEF CopiesAreTrue
<1>6. RowsAreTrue'
  BY <1>1, CopiesStayTrue DEF CopiesAreTrue, RowsKept
<1>7. ReceiptsAreTrue'
  BY <1>1, CopiesStayTrue DEF CopiesAreTrue, ReceiptsKept
<1>8. PositionsAreTrue'
  BY <1>1, CopiesStayTrue DEF CopiesAreTrue, PositionsKept
<1>9. PassIsTrue'
  BY <1>1, CopiesStayTrue DEF CopiesAreTrue
<1>10. QED
  BY <1>2, <1>3, <1>4, <1>5, <1>6, <1>7, <1>8, <1>9 DEF CopiesAreTrue

\* A script proves the fixture: from now on receipts may carry its score.
LEMMA DeclareStep ==
  ASSUME CopiesAreTrue, DeclareProven
  PROVE  CopiesAreTrue'
<1>1. UNCHANGED <<chain, mem, row, position, receipt, sync>> /\ declared' = TRUE
  BY DEF DeclareProven, keeper
<1>2. fixture' \in [proof : {"upcoming", "proven"}, score : AnyScore]
  <2> DEFINE proven == [fixture EXCEPT !.proof = "proven"]
  <2>1. fixture' = [proven EXCEPT !.score = Truth]
    BY DEF DeclareProven
  <2>2. proven \in [proof : {"upcoming", "proven"}, score : AnyScore]
    BY DEF CopiesAreTrue, TypeOK
  <2> HIDE DEF proven
  <2>3. QED
    BY <2>1, <2>2 DEF AnyScore
<1>3. TypeOK'
  BY <1>1, <1>2 DEF CopiesAreTrue, TypeOK
<1>4. TypeOK /\ \A m \in Markets : Grows(m)
  BY <1>1 DEF CopiesAreTrue, TypeOK, Accounts, Grows
<1>5. WinnersAreSettled' /\ NothingProven'
  BY <1>1 DEF CopiesAreTrue, WinnersAreSettled, NothingProven
<1>6. ASSUME NEW m \in Markets, NEW r, Receipted(r, m)
      PROVE  Receipted(r, m)'
  BY <1>1, <1>6 DEF Receipted
<1>7. MemoryIsTrue'
  BY <1>1, <1>6 DEF CopiesAreTrue, MemoryIsTrue, Holds
<1>8. ReceiptsAreTrue'
  BY <1>1, <1>6 DEF CopiesAreTrue, ReceiptsAreTrue
<1>9. RowsAreTrue'
  <2>1. row' = row /\ RowsAreTrue
    BY <1>1 DEF CopiesAreTrue
  <2>2. QED
    BY <1>4, <2>1, CopiesStayTrue
<1>10. PositionsAreTrue'
  <2>1. position' = position /\ PositionsAreTrue
    BY <1>1 DEF CopiesAreTrue
  <2>2. QED
    BY <1>4, <2>1, CopiesStayTrue
<1>11. PassIsTrue'
  <2>1. sync' = sync /\ PassIsTrue
    BY <1>1 DEF CopiesAreTrue
  <2>2. QED
    BY <1>4, <2>1, CopiesStayTrue
<1>12. QED
  BY <1>3, <1>5, <1>7, <1>8, <1>9, <1>10, <1>11 DEF CopiesAreTrue

\* A row that is carried over takes status and winner from the memory, and keeps
\* its pools.
LEMMA CarriedRow ==
  ASSUME NEW m \in Markets, NEW r \in Rows, mem.phase[m] \in Phases,
         mem.winner[m] \in Outcomes \cup {Unset, Null}
  PROVE  /\ Carried(r, m) \in Rows
         /\ Carried(r, m).status = mem.phase[m] /\ Carried(r, m).winner = mem.winner[m]
         /\ Carried(r, m).mine = r.mine /\ Carried(r, m).winning = r.winning
<1> DEFINE phased == [r EXCEPT !.status = mem.phase[m]]
<1>1. Carried(r, m) = [phased EXCEPT !.winner = mem.winner[m]]
  BY DEF Carried
<1>2. /\ phased \in Rows /\ phased.status = mem.phase[m]
      /\ phased.mine = r.mine /\ phased.winning = r.winning
  BY DEF Rows
<1> HIDE DEF phased
<1>3. QED
  BY <1>1, <1>2 DEF Rows

\* A flush writes what the memory holds.
LEMMA FlushStep ==
  ASSUME CopiesAreTrue, Save \/ Flush \/ FlushFails
  PROVE  CopiesAreTrue'
<1>0. /\ mem.proof \in {"upcoming", "proven"} /\ mem.score \in AnyScore
      /\ mem.phase \in [Markets -> Phases \cup {"none"}]
      /\ mem.winner \in [Markets -> Outcomes \cup {Unset, Null}]
      /\ mem.receipt \in [Markets -> Receipts \cup {Absent}]
      /\ row \in [Markets -> Rows \cup {Absent}]
      /\ receipt \in [Markets -> Receipts \cup {Absent}]
  BY DEF CopiesAreTrue, TypeOK
<1>1. UNCHANGED <<chain, mem, declared, position, sync>>
  BY DEF Save, Flush, FlushFails, rows
<1>2. CASE Save \/ FlushFails
  <2>1. UNCHANGED rows
    BY <1>2 DEF Save, FlushFails
  <2>2. FixtureKept /\ RowsKept /\ PositionsKept /\ ReceiptsKept
    <3>1. fixture' = fixture /\ row' = row /\ position' = position /\ receipt' = receipt
      BY <2>1 DEF rows
    <3>2. QED
      BY <3>1 DEF FixtureKept, RowsKept, PositionsKept, ReceiptsKept
  <2>3. QED
    BY <1>1, <2>2, TablesStep
<1>3. CASE WriteFixture
  <2>1. /\ fixture' = [proof |-> mem.proof,
                       score |-> IF mem.proof = "proven" THEN mem.score ELSE Unknown]
        /\ UNCHANGED <<row, receipt>>
    BY <1>3 DEF WriteFixture
  <2>2. FixtureKept
    BY <1>0, <2>1 DEF AnyScore, CopiesAreTrue, NothingProven, FixtureKept
  <2>3. RowsKept /\ PositionsKept /\ ReceiptsKept
    BY <1>1, <2>1 DEF RowsKept, PositionsKept, ReceiptsKept
  <2>4. QED
    BY <1>1, <2>2, <2>3, TablesStep
<1>4. CASE WriteMarkets
  <2>1. /\ row' = [m \in Markets |->
             IF row[m] = Absent \/ mem.phase[m] = "none" THEN row[m]
                                                            ELSE Carried(row[m], m)]
        /\ UNCHANGED <<fixture, receipt>>
    BY <1>4 DEF WriteMarkets
  <2>2. ASSUME NEW m \in Markets
        PROVE  \/ row'[m] = row[m]
               \/ /\ row[m] \in Rows /\ row[m] # Absent /\ row'[m] \in Rows
                  /\ row'[m].status = mem.phase[m] /\ row'[m].winner = mem.winner[m]
                  /\ row'[m].mine = row[m].mine /\ row'[m].winning = row[m].winning
    <3>1. CASE row[m] = Absent \/ mem.phase[m] = "none"
      BY <2>1, <3>1
    <3>2. CASE row[m] # Absent /\ mem.phase[m] # "none"
      <4>1. row[m] \in Rows /\ mem.phase[m] \in Phases
            /\ mem.winner[m] \in Outcomes \cup {Unset, Null}
        BY <1>0, <3>2
      <4>2. row'[m] = Carried(row[m], m)
        BY <2>1, <3>2
      <4>3. QED
        BY <3>2, <4>1, <4>2, CarriedRow
    <3>3. QED
      BY <3>1, <3>2
  <2>3. row' \in [Markets -> Rows \cup {Absent}]
    <3>1. row' \in [Markets -> UNION {{row'[m]} : m \in Markets}]
      BY <2>1
    <3>2. \A m \in Markets : row'[m] \in Rows \cup {Absent}
      BY <1>0, <2>2
    <3>3. QED
      BY <3>1, <3>2
  <2>4. RowsAreTrue'
    <3> SUFFICES ASSUME NEW m \in Markets, row'[m] # Absent
                 PROVE  /\ Holds(m, row'[m].status, row'[m].winner)
                        /\ m \in Live => row'[m].mine <= chain[m].mine
                        /\ row'[m].winning > 0 =>
                             /\ chain[m].status = "settled"
                             /\ row'[m].mine = chain[m].mine
                             /\ row'[m].winning = WinningPool(chain[m])
      BY <1>1 DEF RowsAreTrue, Holds
    <3>1. CASE row'[m] = row[m]
      BY <3>1 DEF CopiesAreTrue, RowsAreTrue
    <3>2. CASE row'[m] # row[m]
      BY <2>2, <3>2 DEF CopiesAreTrue, RowsAreTrue, MemoryIsTrue
    <3>3. QED
      BY <3>1, <3>2
  <2>5. FixtureKept /\ RowsKept /\ PositionsKept /\ ReceiptsKept
    BY <1>1, <2>1, <2>3, <2>4 DEF FixtureKept, RowsKept, PositionsKept, ReceiptsKept
  <2>6. QED
    BY <1>1, <2>5, TablesStep
<1>5. CASE WriteReceipts
  <2>1. /\ receipt' = [m \in Markets |->
             IF mem.receipt[m] = Absent \/ row[m] = Absent THEN receipt[m]
                                                           ELSE mem.receipt[m]]
        /\ UNCHANGED <<fixture, row>>
    BY <1>5 DEF WriteReceipts
  <2>2. \A m \in Markets : receipt'[m] \in {receipt[m], mem.receipt[m]}
    BY <2>1
  <2>3. receipt' \in [Markets -> Receipts \cup {Absent}]
    BY <1>0, <2>1
  <2>4. ReceiptsAreTrue'
    <3>1. \A m \in Markets : Receipted(receipt[m], m) /\ Receipted(mem.receipt[m], m)
      BY DEF CopiesAreTrue, ReceiptsAreTrue, MemoryIsTrue
    <3>2. \A m \in Markets : Receipted(receipt'[m], m)
      BY <2>2, <3>1
    <3>3. QED
      BY <1>1, <3>2 DEF ReceiptsAreTrue, Receipted
  <2>5. FixtureKept /\ RowsKept /\ PositionsKept /\ ReceiptsKept
    BY <1>1, <2>1, <2>3, <2>4 DEF FixtureKept, RowsKept, PositionsKept, ReceiptsKept
  <2>6. QED
    BY <1>1, <2>5, TablesStep
<1>6. QED
  BY <1>2, <1>3, <1>4, <1>5 DEF Flush

-----------------------------------------------------------------------------
(* The pass *)

\* Where a pass is, and nothing else, follows from what it has written last.
LEMMA PassStep ==
  ASSUME CopiesAreTrue, UNCHANGED <<chain, mem, declared, fixture>>, RowsKept,
         PositionsKept, ReceiptsKept, sync'.pc # "markets"
  PROVE  CopiesAreTrue'
<1>1. PassIsTrue' /\ FixtureKept
  BY DEF PassIsTrue, FixtureKept
<1>2. QED
  BY <1>1, TablesStep

\* What is projected of an account as it was: if it is resolved, as it is.
LEMMA ProjectedRow ==
  ASSUME CopiesAreTrue, NEW m \in Markets, NEW acc, Was(acc, m)
  PROVE  /\ Projected(acc) \in Rows
         /\ Holds(m, Projected(acc).status, Projected(acc).winner)
         /\ Projected(acc).mine <= chain[m].mine
         /\ Projected(acc).winning > 0 =>
              /\ chain[m].status = "settled"
              /\ Projected(acc).mine = chain[m].mine
              /\ Projected(acc).winning = WinningPool(chain[m])
<1>1. /\ acc \in Accounts /\ acc.mine \in Nat /\ acc.status \in Phases
      /\ acc.winner \in Outcomes \cup {Unset} /\ acc.mine <= chain[m].mine
      /\ acc.status \in Resolved => acc = chain[m]
      /\ acc.winner \in Outcomes => acc.status = "settled"
  BY DEF Was, Accounts, Phases
<1>2. WinningPool(acc) \in Nat
  BY <1>1, BoundsAssumption DEF WinningPool
<1>3. /\ Projected(acc).status = acc.status /\ Projected(acc).mine = acc.mine
      /\ Projected(acc).winner = IF acc.winner = Unset THEN Null ELSE acc.winner
      /\ Projected(acc).winning = IF acc.status = "settled" THEN WinningPool(acc) ELSE 0
  BY DEF Projected
<1>4. Projected(acc) \in Rows
  <2>1. /\ (IF acc.winner = Unset THEN Null ELSE acc.winner) \in Outcomes \cup {Unset, Null}
        /\ (IF acc.status = "settled" THEN WinningPool(acc) ELSE 0) \in Nat
    BY <1>1, <1>2
  <2>2. QED
    BY <1>1, <2>1 DEF Projected, Rows
<1>5. Holds(m, Projected(acc).status, Projected(acc).winner)
  BY <1>1, <1>3 DEF Holds, Resolved, Outcomes, Null, Unset
<1>6. QED
  BY <1>1, <1>3, <1>4, <1>5 DEF Resolved

\* The accounts are read in one call, and rows are written from what was read.
LEMMA SyncStartStep ==
  ASSUME CopiesAreTrue, SyncStart, UNCHANGED <<chain, keeper, declared>>
  PROVE  CopiesAreTrue'
<1>1. PICK chosen \in SUBSET Live :
        sync' = [pc |-> "markets", todo |-> chosen, seen |-> chain]
  BY DEF SyncStart
<1>2. ASSUME NEW m \in Markets
      PROVE  Was(chain[m], m)
  BY DEF CopiesAreTrue, TypeOK, WinnersAreSettled, Was, Accounts, Outcomes, Unset
<1>3. PassIsTrue'
  BY <1>1, <1>2 DEF PassIsTrue, Was
<1>4. FixtureKept /\ RowsKept /\ PositionsKept /\ ReceiptsKept
  BY DEF SyncStart, rows, FixtureKept, RowsKept, PositionsKept, ReceiptsKept
<1>5. QED
  BY <1>3, <1>4, TablesStep DEF keeper

\* Rows are written from what the pass has read, all of them or some.
LEMMA SyncMarketsStep ==
  ASSUME CopiesAreTrue, SyncMarkets, UNCHANGED <<chain, keeper, declared>>
  PROVE  CopiesAreTrue'
<1>0. /\ row \in [Markets -> Rows \cup {Absent}]
      /\ \A m \in Markets : Was(sync.seen[m], m)
  BY DEF CopiesAreTrue, TypeOK, PassIsTrue, SyncMarkets
<1>1. /\ sync'.pc # "markets" /\ UNCHANGED <<fixture, position, receipt>>
      /\ row' \in [Markets -> UNION {{row'[m]} : m \in Markets}]
      /\ \A m \in Markets : row'[m] \in {row[m], Projected(sync.seen[m]), Absent}
  <2>1. UNCHANGED <<fixture, position, receipt>>
    BY DEF SyncMarkets
  <2>2. CASE /\ row' = [m \in Markets |-> IF m \in sync.todo
                                          THEN Projected(sync.seen[m])
                                          ELSE IF m \in Live THEN row[m] ELSE Absent]
             /\ sync' = [Idle EXCEPT !.pc = "positions"]
    BY <2>1, <2>2 DEF Idle
  <2>3. ASSUME NEW done \in SUBSET sync.todo,
               row' = [m \in Markets |-> IF m \in done THEN Projected(sync.seen[m])
                                                       ELSE row[m]],
               sync' = Idle
        PROVE  /\ sync'.pc # "markets"
               /\ row' \in [Markets -> UNION {{row'[m]} : m \in Markets}]
               /\ \A m \in Markets : row'[m] \in {row[m], Projected(sync.seen[m]), Absent}
    BY <2>1, <2>3 DEF Idle
  <2>4. QED
    BY <2>2, <2>3 DEF SyncMarkets
<1>2. row' \in [Markets -> Rows \cup {Absent}]
  <2>1. \A m \in Markets : row'[m] \in Rows \cup {Absent}
    BY <1>0, <1>1, ProjectedRow
  <2>2. QED
    BY <1>1, <2>1
<1>3. RowsAreTrue'
  <2> SUFFICES ASSUME NEW m \in Markets, row'[m] # Absent
               PROVE  /\ Holds(m, row'[m].status, row'[m].winner)
                      /\ m \in Live => row'[m].mine <= chain[m].mine
                      /\ row'[m].winning > 0 =>
                           /\ chain[m].status = "settled"
                           /\ row'[m].mine = chain[m].mine
                           /\ row'[m].winning = WinningPool(chain[m])
    BY DEF RowsAreTrue, Holds
  <2>1. CASE row'[m] = row[m]
    BY <2>1 DEF CopiesAreTrue, RowsAreTrue
  <2>2. CASE row'[m] = Projected(sync.seen[m])
    BY <1>0, <2>2, ProjectedRow
  <2>3. QED
    BY <1>1, <2>1, <2>2
<1>4. RowsKept /\ PositionsKept /\ ReceiptsKept
  BY <1>1, <1>2, <1>3 DEF RowsKept, PositionsKept, ReceiptsKept
<1>5. QED
  BY <1>1, <1>4, PassStep DEF keeper

\* Amounts are read off the accounts when they are written.
LEMMA SyncPositionsStep ==
  ASSUME CopiesAreTrue, SyncPositions, UNCHANGED <<chain, keeper, declared>>
  PROVE  CopiesAreTrue'
<1>0. /\ position \in [Markets -> [amount : Nat] \cup {Absent}]
      /\ \A m \in Markets : chain[m].mine \in Nat
  BY DEF CopiesAreTrue, TypeOK, Accounts
<1>1. /\ position' = [m \in Markets |-> IF row[m] = Absent THEN position[m]
                                        ELSE [amount |-> chain[m].mine]]
      /\ sync'.pc # "markets"
      /\ UNCHANGED <<fixture, row, receipt>>
  BY DEF SyncPositions, Idle
<1>2. position' \in [Markets -> [amount : Nat] \cup {Absent}]
  BY <1>0, <1>1
<1>3. PositionsAreTrue'
  <2> SUFFICES ASSUME NEW m \in Markets, position'[m] # Absent
               PROVE  position'[m].amount <= chain[m].mine
    BY DEF PositionsAreTrue
  <2>1. QED
    BY <1>0, <1>1 DEF CopiesAreTrue, PositionsAreTrue
<1>4. RowsKept /\ PositionsKept /\ ReceiptsKept
  BY <1>1, <1>2, <1>3 DEF RowsKept, PositionsKept, ReceiptsKept
<1>5. QED
  BY <1>1, <1>4, PassStep DEF keeper

\* A healed receipt is the receipt, with the score of a proven fixture.
LEMMA HealedReceipt ==
  ASSUME CopiesAreTrue, NEW m \in Markets, NEW r \in Receipts \cup {Absent},
         Receipted(r, m)
  PROVE  Healed(r) \in Receipts \cup {Absent} /\ Receipted(Healed(r), m)
<1>1. CASE r # Absent /\ r.score = Unknown /\ fixture.proof = "proven"
  <2>1. Healed(r) = [r EXCEPT !.score = fixture.score] /\ r \in Receipts
    BY <1>1 DEF Healed
  <2>2. fixture.score \in AnyScore /\ declared
    BY <1>1 DEF CopiesAreTrue, TypeOK, NothingProven
  <2>3. Healed(r) \in Receipts /\ Healed(r).winner = r.winner
    BY <2>1, <2>2 DEF Receipts
  <2>4. QED
    BY <1>1, <2>2, <2>3 DEF Receipted
<1>2. CASE ~(r # Absent /\ r.score = Unknown /\ fixture.proof = "proven")
  BY <1>2 DEF Healed
<1>3. QED
  BY <1>1, <1>2

\* New receipts are read off the account, and the blank ones are healed.
LEMMA SyncReceiptsStep ==
  ASSUME CopiesAreTrue, HealBlankReceipts \/ SyncReceipts,
         UNCHANGED <<chain, keeper, declared>>
  PROVE  CopiesAreTrue'
<1>0. /\ receipt \in [Markets -> Receipts \cup {Absent}]
      /\ \A m \in Markets : Receipted(receipt[m], m)
  BY DEF CopiesAreTrue, TypeOK, ReceiptsAreTrue
<1>1. UNCHANGED <<fixture, row, position>> /\ sync'.pc # "markets"
  <2>1. CASE HealBlankReceipts
    BY <2>1 DEF HealBlankReceipts, Idle
  <2>2. CASE SyncReceipts
    BY <2>2 DEF SyncReceipts, Idle
  <2>3. QED
    BY <2>1, <2>2
<1>2. /\ receipt' \in [Markets -> UNION {{receipt'[m]} : m \in Markets}]
      /\ \A m \in Markets :
           \/ receipt'[m] \in {receipt[m], Healed(receipt[m])}
           \/ /\ chain[m].status = "settled"
              /\ receipt'[m] = Healed([winner |-> chain[m].winner, score |-> Unknown])
  <2>1. CASE HealBlankReceipts
    BY <2>1 DEF HealBlankReceipts
  <2>2. CASE SyncReceipts
    BY <2>2 DEF SyncReceipts
  <2>3. QED
    BY <2>1, <2>2
<1>3. ASSUME NEW m \in Markets
      PROVE  receipt'[m] \in Receipts \cup {Absent} /\ Receipted(receipt'[m], m)
  <2>1. CASE receipt'[m] \in {receipt[m], Healed(receipt[m])}
    BY <1>0, <2>1, HealedReceipt
  <2>2. CASE /\ chain[m].status = "settled"
             /\ receipt'[m] = Healed([winner |-> chain[m].winner, score |-> Unknown])
    <3> DEFINE new == [winner |-> chain[m].winner, score |-> Unknown]
    <3>1. new \in Receipts
      BY DEF CopiesAreTrue, TypeOK, Accounts, Receipts, AnyScore
    <3>2. Receipted(new, m)
      BY <2>2 DEF Receipted
    <3> HIDE DEF new
    <3>3. Healed(new) \in Receipts \cup {Absent} /\ Receipted(Healed(new), m)
      BY <3>1, <3>2, HealedReceipt
    <3>4. QED
      BY <2>2, <3>3 DEF new
  <2>3. QED
    BY <1>2, <2>1, <2>2
<1>4. receipt' \in [Markets -> Receipts \cup {Absent}]
  BY <1>2, <1>3
<1>5. ReceiptsAreTrue'
  BY <1>3 DEF ReceiptsAreTrue, Receipted
<1>6. RowsKept /\ PositionsKept /\ ReceiptsKept
  BY <1>1, <1>4, <1>5 DEF RowsKept, PositionsKept, ReceiptsKept
<1>7. QED
  BY <1>1, <1>6, PassStep DEF keeper

\* A pass that fails is gone.
LEMMA SyncFailsStep ==
  ASSUME CopiesAreTrue, SyncFails, UNCHANGED <<chain, keeper, declared>>
  PROVE  CopiesAreTrue'
<1>1. UNCHANGED rows /\ sync'.pc # "markets"
  BY DEF SyncFails, Idle
<1>2. RowsKept /\ PositionsKept /\ ReceiptsKept
  BY <1>1 DEF rows, RowsKept, PositionsKept, ReceiptsKept
<1>3. QED
  BY <1>1, <1>2, PassStep DEF keeper, rows

-----------------------------------------------------------------------------
(* The invariant *)

\* The site starts with the row of an abandoned generation and no other copy.
LEMMA CopiesInit == Init => CopiesAreTrue
<1> SUFFICES ASSUME Init
             PROVE  CopiesAreTrue
  OBVIOUS
<1>1. chain = Born /\ WinnersAreSettled /\ chain \in [Markets -> Accounts]
  BY BornAssumption DEF Init, WinnersAreSettled
<1>2. /\ mem.proof = "upcoming" /\ mem.score = Unknown
      /\ mem.phase = [m \in Markets |-> IF m \in Tracked THEN "open" ELSE "none"]
      /\ mem.winner = [m \in Markets |-> Null]
      /\ mem.receipt = [m \in Markets |-> Absent]
      /\ mem = [proof |-> mem.proof, score |-> mem.score, phase |-> mem.phase,
                winner |-> mem.winner, receipt |-> mem.receipt]
  BY DEF Init
<1>3. /\ fixture = [proof |-> "upcoming", score |-> Unknown]
      /\ row = [m \in Markets |->
           IF m \in Live THEN Absent
           ELSE [status |-> "open", winner |-> Null, mine |-> 1, winning |-> 0]]
      /\ position = [m \in Markets |-> Absent] /\ receipt = [m \in Markets |-> Absent]
      /\ sync.pc = "idle" /\ declared = FALSE
  BY DEF Init, Idle
<1>4. TypeOK
  <2>1. mem \in [proof : {"upcoming", "proven"}, score : AnyScore,
                 phase : [Markets -> Phases \cup {"none"}],
                 winner : [Markets -> Outcomes \cup {Unset, Null}],
                 receipt : [Markets -> Receipts \cup {Absent}]]
    BY <1>2 DEF AnyScore, Phases
  <2>2. row \in [Markets -> Rows \cup {Absent}]
    BY <1>3 DEF Rows, Phases
  <2>3. QED
    BY <1>1, <1>3, <2>1, <2>2 DEF TypeOK, AnyScore
<1>5. MemoryIsTrue
  BY <1>2 DEF MemoryIsTrue, Holds, Receipted, Resolved, Outcomes, Null
<1>6. RowsAreTrue
  BY <1>3 DEF RowsAreTrue, Holds, Resolved, Outcomes, Null
<1>7. NothingProven /\ ReceiptsAreTrue /\ PositionsAreTrue /\ PassIsTrue
  BY <1>2, <1>3 DEF NothingProven, ReceiptsAreTrue, Receipted, PositionsAreTrue, PassIsTrue
<1>8. QED
  BY <1>1, <1>4, <1>5, <1>6, <1>7 DEF CopiesAreTrue

\* Whatever happens next, copies stay copies.
LEMMA CopiesStep == CopiesAreTrue /\ [Next]_vars => CopiesAreTrue'
<1> SUFFICES ASSUME CopiesAreTrue, [Next]_vars
             PROVE  CopiesAreTrue'
  OBVIOUS
<1>1. CASE DeclareProven
  BY <1>1, DeclareStep
<1>2. ASSUME NEW m \in Markets, Bet(m) \/ Lock(m) \/ Resolve(m)
      PROVE  CopiesAreTrue'
  BY <1>2, ChainStep
<1>3. ASSUME NEW m \in Markets, Adopt(m) \/ Swept(m) \/ Settling(m) \/ Record(m)
      PROVE  CopiesAreTrue'
  BY <1>3, KeeperStep
<1>4. ASSUME NEW score \in FeedScores, Ingest(score)
      PROVE  CopiesAreTrue'
  BY <1>4, KeeperStep
<1>5. CASE Save \/ Flush \/ FlushFails
  BY <1>5, FlushStep
<1>6. CASE Restart
  BY <1>6, RestartStep
<1>7. CASE SyncStep
  BY <1>7, SyncStartStep, SyncMarketsStep, SyncPositionsStep, SyncReceiptsStep DEF SyncStep
<1>8. CASE SyncFails /\ UNCHANGED <<chain, keeper, declared>>
  BY <1>8, SyncFailsStep
<1>9. CASE UNCHANGED vars
  <2>1. UNCHANGED <<chain, mem, declared, sync>>
    BY <1>9 DEF vars
  <2>2. FixtureKept /\ RowsKept /\ PositionsKept /\ ReceiptsKept
    BY <1>9 DEF vars, FixtureKept, RowsKept, PositionsKept, ReceiptsKept
  <2>3. QED
    BY <2>1, <2>2, TablesStep
<1>10. QED
  BY <1>1, <1>2, <1>3, <1>4, <1>5, <1>6, <1>7, <1>8, <1>9 DEF Next

\* Every status, winner, stake and receipt in the memory, in a pass or in a row
\* is one the account has had, and a resolution, once copied, is the account's
\* for good: through bets, records, adoptions, flushes, restarts and passes that
\* fail half way (store.ts, sync.ts).
THEOREM CopiesStayCopies == Spec => []CopiesAreTrue
<1>1. Init => CopiesAreTrue
  BY CopiesInit
<1>2. CopiesAreTrue /\ [Next]_vars => CopiesAreTrue'
  BY CopiesStep
<1>3. QED
  BY <1>1, <1>2, PTL DEF Spec

-----------------------------------------------------------------------------
(* What is shown *)

\* No market is shown as won, lost or refundable unless it is, no bracket names
\* another winner, no receipt another outcome, and no unproven score is seen
\* (toMarketView, listPositions, getBracket, listReceipts of queries.ts).
THEOREM WhatIsShownIsTrue == Spec => []ShownIsTrue
<1>1. CopiesAreTrue => ShownIsTrue
  <2> SUFFICES ASSUME CopiesAreTrue
               PROVE  ShownIsTrue
    OBVIOUS
  <2>0. \A m \in Markets : row[m] # Absent => Holds(m, row[m].status, row[m].winner)
    BY DEF CopiesAreTrue, RowsAreTrue
  <2>1. UnprovenStaysHidden
    BY DEF CopiesAreTrue, NothingProven, ReceiptsAreTrue, Receipted,
                UnprovenStaysHidden, ShownScore
  <2>2. ASSUME NEW m \in Live, row[m] # Absent
        PROVE  LET v == MarketView(m) IN
               /\ v.status \in {"settled", "cancelled"} => chain[m].status = v.status
               /\ v.winner \in Outcomes => chain[m].winner = v.winner
               /\ v.pools[1] <= chain[m].mine
    <3>1. m \in Markets /\ row[m].mine <= chain[m].mine
      BY <2>2 DEF CopiesAreTrue, RowsAreTrue, Live
    <3>2. QED
      BY <2>0, <2>2, <3>1 DEF MarketView, Holds, Resolved
  <2>3. ASSUME NEW m \in Markets, Viewed(m)
        PROVE  LET v == PositionView(m) IN
               /\ v.claimable = "winnings" => /\ chain[m].status = "settled"
                                              /\ chain[m].winner = "mine"
               /\ v.claimable = "refund" => chain[m].status = "cancelled"
               /\ v.claimable = "lost" => \/ chain[m].winner = "other"
                                          \/ row[m].winner \notin Outcomes
    <3>1. Holds(m, row[m].status, row[m].winner)
      BY <2>0, <2>3 DEF Viewed
    <3>2. CASE row[m].status = "settled" /\ row[m].winner = "mine"
      BY <3>1, <3>2 DEF PositionView, Holds, Resolved, Outcomes
    <3>3. CASE row[m].status = "settled" /\ row[m].winner # "mine"
      BY <3>1, <3>3 DEF PositionView, Holds, Outcomes
    <3>4. CASE row[m].status = "cancelled"
      BY <3>1, <3>4 DEF PositionView, Holds, Resolved
    <3>5. CASE row[m].status \notin {"settled", "cancelled"}
      BY <3>5 DEF PositionView
    <3>6. QED
      BY <3>2, <3>3, <3>4, <3>5
  <2>4. ASSUME NEW w \in TieWinners
        PROVE  \E m \in ResultMarkets : chain[m].winner = w
    <3>1. w \in Outcomes /\ \E m \in ResultMarkets : row[m].winner = w
      BY DEF TieWinners
    <3>2. QED
      BY <2>0, <3>1 DEF ResultMarkets, Holds
  <2>5. \A m \in Markets : receipt[m] # Absent =>
          chain[m].status = "settled" /\ receipt[m].winner = chain[m].winner
    BY DEF CopiesAreTrue, ReceiptsAreTrue, Receipted
  <2>6. QED
    BY <2>1, <2>2, <2>3, <2>4, <2>5 DEF ShownIsTrue
<1>2. QED
  BY <1>1, CopiesStayCopies, PTL

-----------------------------------------------------------------------------
(* What a payout is off by *)

\* A fee of two amounts together is the fee of each, up to one rounding.
LEMMA FeesAdd ==
  ASSUME NEW a \in Nat, NEW b \in Nat
  PROVE  /\ FeeOf(a) \in Nat /\ FeeOf(b) \in Nat /\ FeeOf(a + b) \in Nat
         /\ FeeOf(a + b) <= FeeOf(a) + FeeOf(b) + 1
         /\ FeeOf(a) <= Thousand * a
<1> DEFINE x == Thousand * a * FeeBps
           y == Thousand * b * FeeBps
<1>1. FeeBps \in Nat /\ FeeBps <= 10000
  BY BoundsAssumption
<1>2. x \in Nat /\ y \in Nat
  BY <1>1 DEF Thousand
<1>3. Thousand * (a + b) * FeeBps = x + y
  BY <1>1 DEF Thousand
<1>4. x <= 10000 * (Thousand * a)
  BY <1>1 DEF Thousand
<1>5. /\ FeeOf(a) = x \div 10000 /\ FeeOf(b) = y \div 10000
      /\ FeeOf(a + b) = (x + y) \div 10000
  BY <1>3 DEF FeeOf
<1>6. Thousand * a \in Nat
  BY DEF Thousand
<1> HIDE DEF x, y
<1>7. QED
  BY <1>2, <1>4, <1>5, <1>6

\* A division of a product by one of its factors gives the other, and by more
\* gives no more.
LEMMA DivOfProduct ==
  ASSUME NEW n \in Nat, n > 0, NEW d \in Nat, NEW p \in Nat, p <= n
  PROVE  (n * d) \div n = d /\ (p * d) \div n <= d
<1>1. n * d \in Nat /\ p * d \in Nat /\ p * d <= n * d
  OBVIOUS
<1>2. (n * d) \div n = d
  BY <1>1, Z3
<1>3. (p * d) \div n <= d
  BY <1>1, Z3
<1>4. QED
  BY <1>2, <1>3

\* For every stake, pool and fee: a payout that is shown as claimable is at most
\* what the program pays, the fee on the winner's own stake, and one more for the
\* rounding, however old the row of the position is (projectPayout against
\* claim_winnings).
THEOREM PayoutsAreOffByTheFee == Spec => []PayoutOverstatedByTheFee
<1>1. CopiesAreTrue => PayoutOverstatedByTheFee
  <2> SUFFICES ASSUME CopiesAreTrue, NEW m \in Markets, Viewed(m), row[m].winning > 0,
                      PositionView(m).claimable = "winnings"
               PROVE  PositionView(m).payout
                        <= Paid(chain[m]) + FeeOf(chain[m].mine) + 1
    BY DEF PayoutOverstatedByTheFee
  <2> DEFINE c == chain[m].mine
             p == position[m].amount
             due == Thousand * (c + Rest) - FeeOf(Rest)
             net == Thousand * (c + Rest) - FeeOf(c + Rest)
  <2>1. row[m].status = "settled" /\ row[m].winner = "mine"
    BY DEF PositionView
  <2>2. chain[m].winner = "mine"
    BY <2>1 DEF CopiesAreTrue, RowsAreTrue, Holds, Outcomes, Viewed
  <2>3. row[m].mine = c /\ row[m].winning = c
    BY <2>2 DEF CopiesAreTrue, RowsAreTrue, Viewed, WinningPool
  <2>4. c \in Nat /\ c > 0 /\ Rest \in Nat
    BY BoundsAssumption DEF CopiesAreTrue, TypeOK, Accounts
  <2>5. p \in Nat /\ p <= c
    BY DEF CopiesAreTrue, TypeOK, PositionsAreTrue, Viewed
  <2>6. PositionView(m).payout = (p * due) \div c
    <3>1. PositionView(m).payout =
            ProjectPayout(p, c + Rest, IF c = 0 THEN c ELSE c)
      BY <2>1, <2>3 DEF PositionView
    <3>2. c + Rest - c = Rest
      BY <2>4
    <3>3. QED
      BY <2>4, <3>1, <3>2 DEF ProjectPayout
  <2>7. Paid(chain[m]) = (c * net) \div c
    BY <2>2 DEF Paid, Total, WinningPool
  <2>8. /\ FeeOf(c) \in Nat /\ FeeOf(Rest) \in Nat /\ FeeOf(c + Rest) \in Nat
        /\ FeeOf(c + Rest) <= FeeOf(c) + FeeOf(Rest) + 1
        /\ FeeOf(Rest) <= Thousand * Rest /\ FeeOf(c + Rest) <= Thousand * (c + Rest)
    <3>1. c + Rest \in Nat
      BY <2>4
    <3> HIDE DEF c
    <3>2. /\ FeeOf(c) \in Nat /\ FeeOf(Rest) \in Nat /\ FeeOf(c + Rest) \in Nat
          /\ FeeOf(c + Rest) <= FeeOf(c) + FeeOf(Rest) + 1
      BY <2>4, FeesAdd
    <3>3. FeeOf(Rest) <= Thousand * Rest
      BY <2>4, FeesAdd
    <3>4. FeeOf(c + Rest) <= Thousand * (c + Rest)
      BY <2>4, <3>1, FeesAdd
    <3>5. QED
      BY <3>2, <3>3, <3>4
  <2>9. due \in Nat /\ net \in Nat /\ due <= net + FeeOf(c) + 1
    BY <2>4, <2>8 DEF Thousand
  <2> HIDE DEF c, p, due, net
  <2>10. (p * due) \div c <= due /\ (c * net) \div c = net
    BY <2>4, <2>5, <2>9, DivOfProduct
  <2>11. (p * due) \div c \in Int
    BY <2>4, <2>5, <2>9
  <2>12. QED
    BY <2>6, <2>7, <2>8, <2>9, <2>10, <2>11 DEF c
<1>2. QED
  BY <1>1, CopiesStayCopies, PTL

-----------------------------------------------------------------------------
(* The search of a group *)

\* No match has one of its teams in C and not the other.
Closed(matches, C) == \A f \in matches : f.home \in C <=> f.away \in C

\* A closed set has the opponents of its teams.
LEMMA OpponentsInside ==
  ASSUME NEW matches, NEW C
  PROVE  Closed(matches, C) <=> \A t \in C : Opponents(matches, t) \subseteq C
<1>1. ASSUME Closed(matches, C), NEW t \in C, NEW u \in Opponents(matches, t)
      PROVE  u \in C
  BY <1>1 DEF Closed, Opponents
<1>2. ASSUME \A t \in C : Opponents(matches, t) \subseteq C, NEW f \in matches
      PROVE  f.home \in C <=> f.away \in C
  <2>1. f.away \in Opponents(matches, f.home) /\ f.home \in Opponents(matches, f.away)
    BY DEF Opponents
  <2> QED  BY <1>2, <2>1
<1> QED  BY <1>1, <1>2 DEF Closed

\* A calendar has finitely many teams, and their opponents are among them.
LEMMA TeamsAreFinite ==
  ASSUME NEW matches \in Calendars
  PROVE  /\ IsFiniteSet(Teams(matches)) /\ Cardinality(Teams(matches)) \in Nat
         /\ Teams(matches) \subseteq Nat
         /\ \A t : Opponents(matches, t) \subseteq Teams(matches)
<1>1. IsFiniteSet(matches)
  BY CalendarsAssumption
<1>2. IsFiniteSet({f.home : f \in matches})
  <2>1. [f \in matches |-> f.home] \in Surjection(matches, {f.home : f \in matches})
    BY DEF Surjection
  <2> QED  BY <1>1, <2>1, FS_Surjection
<1>3. IsFiniteSet({f.away : f \in matches})
  <2>1. [f \in matches |-> f.away] \in Surjection(matches, {f.away : f \in matches})
    BY DEF Surjection
  <2> QED  BY <1>1, <2>1, FS_Surjection
<1>4. IsFiniteSet(Teams(matches))
  BY <1>2, <1>3, FS_Union DEF Teams
<1>5. Teams(matches) \subseteq Nat
  BY CalendarsAssumption DEF Teams
<1>6. \A t : Opponents(matches, t) \subseteq Teams(matches)
  BY DEF Opponents, Teams
<1> QED  BY <1>4, <1>5, <1>6, FS_CardinalityType

\* A search at its start, when seen are known, and after a turn.
Started(code, seen) == [stack |-> {code}, comp |-> {}, seen |-> seen \cup {code}]

Turned(matches, s) == IF s.stack = {} THEN s ELSE Popped(matches, s)

\* g[k] is the search from code after k turns.
IsSearch(g, matches, code, seen, n) ==
  g = [k \in 0..n |->
         IF k = 0 THEN [stack |-> {code}, comp |-> {}, seen |-> seen \cup {code}]
         ELSE IF g[k - 1].stack = {} THEN g[k - 1]
         ELSE Popped(matches, g[k - 1])]

\* The search, with its two cases named.
LEMMA SearchTurns ==
  ASSUME NEW n \in Nat, NEW g, NEW matches, NEW code, NEW seen
  PROVE  IsSearch(g, matches, code, seen, n)
           <=> g = [k \in 0..n |-> IF k = 0 THEN Started(code, seen)
                                   ELSE Turned(matches, g[k - 1])]
BY DEF IsSearch, Started, Turned

\* There is such a function, so the search is one.
LEMMA SearchExists ==
  ASSUME NEW matches \in Calendars, NEW code, NEW seen
  PROVE  \E g : LET n == Cardinality(Teams(matches))
                IN  /\ IsSearch(g, matches, code, seen, n)
                    /\ Search(matches, code, seen) = g[n]
<1> DEFINE n == Cardinality(Teams(matches))
           a == Started(code, seen)
           D == {m \in Nat : \E g : IsSearch(g, matches, code, seen, m)}
<1>0. n \in Nat
  BY TeamsAreFinite
<1>1. 0 \in D
  <2> DEFINE g == [k \in 0..0 |-> a]
  <2>1. g = [k \in 0..0 |-> IF k = 0 THEN a ELSE Turned(matches, g[k - 1])]
    <3> HIDE DEF a
    <3>1. \A k \in 0..0 : k = 0
      OBVIOUS
    <3> QED  BY <3>1
  <2>2. IsSearch(g, matches, code, seen, 0)
    <3> HIDE DEF g
    <3> QED  BY <2>1, SearchTurns
  <2> QED  BY <2>2
<1>2. ASSUME NEW m \in 1..n, m - 1 \in D
      PROVE  m \in D
  <2>1. PICK g : IsSearch(g, matches, code, seen, m - 1)
    BY <1>2
  <2>2. g = [k \in 0..(m - 1) |-> IF k = 0 THEN a ELSE Turned(matches, g[k - 1])]
    BY <1>0, <2>1, SearchTurns
  <2> DEFINE h == [k \in 0..m |-> IF k = m THEN Turned(matches, g[m - 1]) ELSE g[k]]
  <2> HIDE DEF a
  <2>3. ASSUME NEW k \in 0..m
        PROVE  h[k] = IF k = 0 THEN a ELSE Turned(matches, h[k - 1])
    <3>1. CASE k = m
      BY <3>1
    <3>2. CASE k \in 0..(m - 1)
      <4>1. g[k] = IF k = 0 THEN a ELSE Turned(matches, g[k - 1])
        BY <2>2, <3>2
      <4> QED  BY <4>1, <3>2
    <3> QED  BY <3>1, <3>2
  <2>4. IsSearch(h, matches, code, seen, m)
    <3>1. h = [k \in 0..m |-> h[k]]
      OBVIOUS
    <3> HIDE DEF h
    <3>2. h = [k \in 0..m |-> IF k = 0 THEN a ELSE Turned(matches, h[k - 1])]
      BY <2>3, <3>1
    <3> QED  BY <1>0, <3>2, SearchTurns DEF a
  <2> QED  BY <1>0, <2>4
<1>3. n \in D
  <2> HIDE DEF D, n
  <2> QED  BY <1>0, <1>1, <1>2, CountingUp
<1> QED  BY <1>3 DEF IsSearch, Search

\* What a search has found after k turns: C is on the way to the smallest closed set
\* of teams that holds code.
Found(matches, code, seen, s, k) ==
  /\ s = [stack |-> s.stack, comp |-> s.comp, seen |-> s.seen]
  /\ s.comp \cup s.stack \subseteq Teams(matches) \ seen /\ s.comp \cap s.stack = {}
  /\ s.seen = seen \cup s.comp \cup s.stack
  /\ code \in s.comp \cup s.stack
  /\ \A t \in s.comp : Opponents(matches, t) \subseteq s.comp \cup s.stack
  /\ \A D : Closed(matches, D) /\ code \in D => s.comp \cup s.stack \subseteq D
  /\ s.stack = {} \/ Cardinality(s.comp) = k

\* A turn keeps it so.
LEMMA SearchTurn ==
  ASSUME NEW matches \in Calendars, NEW code, NEW seen, Closed(matches, seen),
         NEW s, NEW k \in Nat, Found(matches, code, seen, s, k)
  PROVE  Found(matches, code, seen, Turned(matches, s), k + 1)
<1>1. CASE s.stack = {}
  <2>1. Turned(matches, s) = s
    BY <1>1 DEF Turned
  <2> QED  BY <1>1, <2>1 DEF Found
<1>2. CASE s.stack # {}
  <2> DEFINE cur == CHOOSE t \in s.stack : TRUE
             new == Opponents(matches, cur) \ s.seen
             next == Turned(matches, s)
  <2>1. cur \in s.stack
    BY <1>2
  <2>2. /\ next = [stack |-> (s.stack \ {cur}) \cup new, comp |-> s.comp \cup {cur},
                  seen |-> s.seen \cup new]
        /\ new = Opponents(matches, cur) \ s.seen
    BY <1>2 DEF Popped, Turned
  <2> HIDE DEF cur, next, new
  <2>3. /\ next.stack = (s.stack \ {cur}) \cup new /\ next.comp = s.comp \cup {cur}
        /\ next.seen = s.seen \cup new
        /\ next = [stack |-> next.stack, comp |-> next.comp, seen |-> next.seen]
    BY <2>2
  <2>4. /\ s.comp \cup s.stack \subseteq Teams(matches) \ seen /\ s.comp \cap s.stack = {}
        /\ s.seen = seen \cup s.comp \cup s.stack
        /\ code \in s.comp \cup s.stack /\ Cardinality(s.comp) = k
        /\ \A t \in s.comp : Opponents(matches, t) \subseteq s.comp \cup s.stack
    BY <1>2 DEF Found
  <2>5. Opponents(matches, cur) \subseteq Teams(matches) \ seen
    <3>1. ASSUME NEW u \in Opponents(matches, cur), u \in seen
          PROVE  FALSE
      <4>1. cur \in Opponents(matches, u)
        BY <3>1 DEF Opponents
      <4>2. cur \in seen
        BY <3>1, <4>1, OpponentsInside
      <4> QED  BY <2>1, <2>4, <4>2
    <3> QED  BY <3>1, TeamsAreFinite
  <2>6. /\ next.comp \cup next.stack = s.comp \cup s.stack \cup new
        /\ new \cap (s.comp \cup s.stack) = {}
    BY <2>1, <2>2, <2>3, <2>4
  <2>7. /\ next.comp \cup next.stack \subseteq Teams(matches) \ seen
        /\ next.comp \cap next.stack = {}
        /\ next.seen = seen \cup next.comp \cup next.stack
        /\ code \in next.comp \cup next.stack
    BY <2>1, <2>2, <2>3, <2>4, <2>5, <2>6
  <2>8. ASSUME NEW t \in next.comp
        PROVE  Opponents(matches, t) \subseteq next.comp \cup next.stack
    <3>1. CASE t \in s.comp
      BY <2>4, <2>6, <3>1
    <3>2. CASE t = cur
      BY <2>2, <2>4, <2>5, <2>6, <3>2
    <3> QED  BY <2>3, <3>1, <3>2
  <2>9. ASSUME NEW D, Closed(matches, D), code \in D
        PROVE  next.comp \cup next.stack \subseteq D
    <3>1. s.comp \cup s.stack \subseteq D
      BY <2>9 DEF Found
    <3>2. Opponents(matches, cur) \subseteq D
      BY <2>1, <2>9, <3>1, OpponentsInside
    <3> QED  BY <2>2, <2>6, <3>1, <3>2
  <2>10. Cardinality(next.comp) = k + 1
    <3>1. IsFiniteSet(s.comp)
      BY <2>4, TeamsAreFinite, FS_Subset
    <3>2. cur \notin s.comp
      BY <2>1, <2>4
    <3> QED  BY <2>3, <2>4, <3>1, <3>2, FS_AddElement
  <2>11. Found(matches, code, seen, next, k + 1)
    BY <2>3, <2>7, <2>8, <2>9, <2>10 DEF Found
  <2> QED  BY <2>11 DEF next
<1> QED  BY <1>1, <1>2

\* A search from a team outside a closed set finds the smallest closed set that holds
\* the team, outside the first.
LEMMA SearchFinds ==
  ASSUME NEW matches \in Calendars, NEW seen, Closed(matches, seen),
         NEW code \in Teams(matches) \ seen
  PROVE  LET C == Search(matches, code, seen).comp
         IN  /\ code \in C /\ C \subseteq Teams(matches) \ seen /\ Closed(matches, C)
             /\ \A D : Closed(matches, D) /\ code \in D => C \subseteq D
<1> DEFINE n == Cardinality(Teams(matches))
<1>1. n \in Nat
  BY TeamsAreFinite
<1>2. PICK g : IsSearch(g, matches, code, seen, n) /\ Search(matches, code, seen) = g[n]
  BY SearchExists
<1>3. g = [k \in 0..n |-> IF k = 0 THEN Started(code, seen) ELSE Turned(matches, g[k - 1])]
  BY <1>1, <1>2, SearchTurns
<1> HIDE DEF n
<1> DEFINE D == {k \in 0..n : Found(matches, code, seen, g[k], k)}
<1>4. 0 \in D
  <2>1. g[0] = Started(code, seen)
    BY <1>1, <1>3
  <2>2. Found(matches, code, seen, Started(code, seen), 0)
    BY FS_EmptySet DEF Found, Started
  <2> QED  BY <1>1, <2>1, <2>2
<1>5. ASSUME NEW k \in 1..n, k - 1 \in D
      PROVE  k \in D
  <2>1. g[k] = Turned(matches, g[k - 1])
    BY <1>1, <1>3
  <2>2. k - 1 \in Nat /\ (k - 1) + 1 = k /\ Found(matches, code, seen, g[k - 1], k - 1)
    BY <1>1, <1>5
  <2>3. Found(matches, code, seen, Turned(matches, g[k - 1]), (k - 1) + 1)
    BY <2>2, SearchTurn
  <2> QED  BY <1>1, <2>1, <2>2, <2>3
<1>6. n \in D
  <2> HIDE DEF D
  <2> QED  BY <1>1, <1>4, <1>5, CountingUp
<1> DEFINE s == g[n]
<1>7. Found(matches, code, seen, s, n)
  BY <1>6
<1> HIDE DEF s
<1>8. s.stack = {}
  <2> SUFFICES ASSUME s.stack # {} PROVE FALSE
    OBVIOUS
  <2>1. s.comp \subseteq Teams(matches) /\ Cardinality(s.comp) = Cardinality(Teams(matches))
    BY <1>7 DEF Found, n
  <2>2. s.comp = Teams(matches)
    BY <2>1, TeamsAreFinite, FS_Subset
  <2> QED  BY <1>7, <2>2 DEF Found
<1>9. Closed(matches, s.comp)
  BY <1>7, <1>8, OpponentsInside DEF Found
<1>10. /\ code \in s.comp /\ s.comp \subseteq Teams(matches) \ seen
       /\ \A E : Closed(matches, E) /\ code \in E => s.comp \subseteq E
  BY <1>7, <1>8 DEF Found
<1> QED  BY <1>2, <1>9, <1>10 DEF s

-----------------------------------------------------------------------------
(* The groups *)

\* found[k] are the groups after k turns.
IsGrouping(found, matches, n) ==
  found = [k \in 0..n |->
        IF k = 0 THEN {}
        ELSE LET rest == Teams(matches) \ UNION found[k - 1]
             IN  IF rest = {} THEN found[k - 1]
                 ELSE found[k - 1] \cup
                        {Search(matches, CHOOSE t \in rest : TRUE, UNION found[k - 1]).comp}]

\* A team that is in none of the groups starts one, if there is such a team.
Joined(matches, groups) ==
  LET rest == Teams(matches) \ UNION groups
  IN  IF rest = {} THEN groups
      ELSE groups \cup {Search(matches, CHOOSE t \in rest : TRUE, UNION groups).comp}

\* The grouping, with its turn named.
LEMMA GroupingTurns ==
  ASSUME NEW n \in Nat, NEW found, NEW matches
  PROVE  IsGrouping(found, matches, n)
           <=> found = [k \in 0..n |-> IF k = 0 THEN {} ELSE Joined(matches, found[k - 1])]
BY DEF IsGrouping, Joined

\* There is such a function, so the groups come from one.
LEMMA GroupingExists ==
  ASSUME NEW matches \in Calendars
  PROVE  \E found : LET n == Cardinality(Teams(matches))
                    IN  IsGrouping(found, matches, n) /\ Groups(matches) = found[n]
<1> DEFINE n == Cardinality(Teams(matches))
           D == {m \in Nat : \E g : IsGrouping(g, matches, m)}
<1>0. n \in Nat
  BY TeamsAreFinite
<1>1. 0 \in D
  <2> DEFINE g == [k \in 0..0 |-> {}]
  <2>1. g = [k \in 0..0 |-> IF k = 0 THEN {} ELSE Joined(matches, g[k - 1])]
    <3>1. \A k \in 0..0 : k = 0
      OBVIOUS
    <3> QED  BY <3>1
  <2>2. IsGrouping(g, matches, 0)
    <3> HIDE DEF g
    <3> QED  BY <2>1, GroupingTurns
  <2> QED  BY <2>2
<1>2. ASSUME NEW m \in 1..n, m - 1 \in D
      PROVE  m \in D
  <2>1. PICK g : IsGrouping(g, matches, m - 1)
    BY <1>2
  <2>2. g = [k \in 0..(m - 1) |-> IF k = 0 THEN {} ELSE Joined(matches, g[k - 1])]
    BY <1>0, <2>1, GroupingTurns
  <2> DEFINE h == [k \in 0..m |-> IF k = m THEN Joined(matches, g[m - 1]) ELSE g[k]]
  <2>3. ASSUME NEW k \in 0..m
        PROVE  h[k] = IF k = 0 THEN {} ELSE Joined(matches, h[k - 1])
    <3>1. CASE k = m
      BY <3>1
    <3>2. CASE k \in 0..(m - 1)
      <4>1. g[k] = IF k = 0 THEN {} ELSE Joined(matches, g[k - 1])
        BY <2>2, <3>2
      <4> QED  BY <4>1, <3>2
    <3> QED  BY <3>1, <3>2
  <2>4. IsGrouping(h, matches, m)
    <3>1. h = [k \in 0..m |-> h[k]]
      OBVIOUS
    <3> HIDE DEF h
    <3>2. h = [k \in 0..m |-> IF k = 0 THEN {} ELSE Joined(matches, h[k - 1])]
      BY <2>3, <3>1
    <3>3. m \in Nat
      BY <1>0
    <3> QED  BY <3>2, <3>3, GroupingTurns
  <2> QED  BY <1>0, <2>4
<1>3. n \in D
  <2> HIDE DEF D, n
  <2> QED  BY <1>0, <1>1, <1>2, CountingUp
<1> QED  BY <1>3 DEF IsGrouping, Groups

\* A group is the smallest closed set that holds any one of its teams.
IsGroup(matches, g) ==
  /\ g \subseteq Teams(matches) /\ g # {} /\ Closed(matches, g)
  /\ \A t \in g : \A D : Closed(matches, D) /\ t \in D => g \subseteq D

\* What there is after k turns: separate groups, of k teams or of all.
Grouped(matches, groups, k) ==
  /\ \A g \in groups : IsGroup(matches, g)
  /\ \A g, h \in groups : g = h \/ g \cap h = {}
  /\ UNION groups = Teams(matches) \/ Cardinality(UNION groups) >= k

\* A turn keeps it so: the search from a team of no group finds its group.
LEMMA GroupingTurn ==
  ASSUME NEW matches \in Calendars, NEW groups, NEW k \in Nat, Grouped(matches, groups, k)
  PROVE  Grouped(matches, Joined(matches, groups), k + 1)
<1> DEFINE U == UNION groups
           rest == Teams(matches) \ U
           code == CHOOSE t \in rest : TRUE
           C == Search(matches, code, U).comp
<1>1. U \subseteq Teams(matches)
  BY DEF Grouped, IsGroup
<1>2. CASE rest = {}
  <2>1. Joined(matches, groups) = groups
    BY <1>2 DEF Joined
  <2> QED  BY <1>1, <1>2, <2>1 DEF Grouped
<1>3. CASE rest # {}
  <2>1. Joined(matches, groups) = groups \cup {C}
    BY <1>3 DEF Joined
  <2>2. code \in Teams(matches) \ U
    BY <1>3
  <2>3. Closed(matches, U)
    BY DEF Grouped, IsGroup, Closed
  <2> HIDE DEF rest, code
  <2>4. /\ code \in C /\ C \subseteq Teams(matches) \ U /\ Closed(matches, C)
        /\ \A D : Closed(matches, D) /\ code \in D => C \subseteq D
    <3> HIDE DEF U
    <3> QED  BY <2>2, <2>3, SearchFinds
  <2> HIDE DEF C
  <2>5. ASSUME NEW t \in C, NEW D, Closed(matches, D), t \in D
        PROVE  C \subseteq D
    <3>1. CASE code \in D
      BY <2>4, <2>5, <3>1
    <3>2. CASE code \notin D
      <4>1. Closed(matches, C \ D)
        BY <2>4, <2>5 DEF Closed
      <4>2. C \subseteq C \ D
        BY <2>4, <3>2, <4>1
      <4> QED  BY <2>5, <4>2
    <3> QED  BY <3>1, <3>2
  <2>6. IsGroup(matches, C)
    BY <2>4, <2>5 DEF IsGroup
  <2>7. \A g \in groups : g \cap C = {}
    BY <2>4
  <2>8. Cardinality(UNION (groups \cup {C})) >= k + 1
    <3> DEFINE V == UNION (groups \cup {C})
    <3>1. V \subseteq Teams(matches) /\ U \cup {code} \subseteq V /\ code \notin U
      BY <1>1, <2>2, <2>4
    <3>2. U # Teams(matches)
      BY <2>2
    <3>3. Cardinality(U) >= k
      BY <3>2 DEF Grouped
    <3> HIDE DEF U, V
    <3>4. IsFiniteSet(U) /\ IsFiniteSet(V) /\ Cardinality(U) \in Nat
      BY <1>1, <3>1, TeamsAreFinite, FS_Subset, FS_CardinalityType
    <3>5. Cardinality(U \cup {code}) = Cardinality(U) + 1
      BY <3>1, <3>4, FS_AddElement
    <3>6. /\ Cardinality(U \cup {code}) <= Cardinality(V)
          /\ Cardinality(V) \in Nat
      BY <3>1, <3>4, FewerAreLess
    <3>7. Cardinality(V) >= k + 1
      BY <3>3, <3>4, <3>5, <3>6
    <3> QED  BY <3>7 DEF V
  <2> QED  BY <2>1, <2>6, <2>7, <2>8 DEF Grouped
<1> QED  BY <1>2, <1>3

\* In the end every team is in a group.
LEMMA GroupsAreGroups ==
  ASSUME NEW matches \in Calendars
  PROVE  /\ \A g \in Groups(matches) : IsGroup(matches, g)
         /\ \A g, h \in Groups(matches) : g = h \/ g \cap h = {}
         /\ UNION Groups(matches) = Teams(matches)
<1> DEFINE n == Cardinality(Teams(matches))
<1>1. n \in Nat
  BY TeamsAreFinite
<1>2. PICK found : IsGrouping(found, matches, n) /\ Groups(matches) = found[n]
  BY GroupingExists
<1>3. found = [k \in 0..n |-> IF k = 0 THEN {} ELSE Joined(matches, found[k - 1])]
  BY <1>1, <1>2, GroupingTurns
<1> HIDE DEF n
<1> DEFINE D == {k \in 0..n : Grouped(matches, found[k], k)}
<1>4. 0 \in D
  <2>1. found[0] = {}
    BY <1>1, <1>3
  <2>2. UNION {} = {} /\ Cardinality({}) = 0
    BY FS_EmptySet
  <2>3. Grouped(matches, {}, 0)
    BY <2>2 DEF Grouped
  <2> QED  BY <1>1, <2>1, <2>3
<1>5. ASSUME NEW k \in 1..n, k - 1 \in D
      PROVE  k \in D
  <2>1. found[k] = Joined(matches, found[k - 1])
    <3>1. k \in 0..n /\ k # 0
      BY <1>1
    <3> DEFINE v(i) == IF i = 0 THEN {} ELSE Joined(matches, found[i - 1])
    <3>2. found[k] = v(k)
      <4>1. found = [i \in 0..n |-> v(i)]
        BY <1>3
      <4> HIDE DEF v
      <4> QED  BY <3>1, <4>1
    <3> QED  BY <3>1, <3>2
  <2>2. k - 1 \in Nat /\ (k - 1) + 1 = k /\ Grouped(matches, found[k - 1], k - 1)
    BY <1>1, <1>5
  <2>3. Grouped(matches, Joined(matches, found[k - 1]), (k - 1) + 1)
    BY <2>2, GroupingTurn
  <2> QED  BY <1>1, <2>1, <2>2, <2>3
<1>6. n \in D
  <2> HIDE DEF D
  <2> QED  BY <1>1, <1>4, <1>5, CountingUp
<1> DEFINE groups == found[n]
           U == UNION groups
<1>7. Grouped(matches, groups, n)
  BY <1>6
<1> HIDE DEF groups
<1>8. U = Teams(matches)
  <2> SUFFICES ASSUME U # Teams(matches) PROVE FALSE
    OBVIOUS
  <2>1. U \subseteq Teams(matches) /\ Cardinality(U) >= n
    BY <1>7 DEF Grouped, IsGroup
  <2> HIDE DEF U
  <2>2. Cardinality(U) <= n /\ Cardinality(U) \in Nat
    BY <2>1, TeamsAreFinite, FewerAreLess DEF n
  <2>3. Cardinality(U) = Cardinality(Teams(matches))
    BY <1>1, <2>1, <2>2 DEF n
  <2> QED  BY <2>1, <2>3, TeamsAreFinite, FS_Subset
<1> QED  BY <1>2, <1>7, <1>8 DEF groups, Grouped

\* Every team is in one group, and two teams are in the same one exactly if no closed
\* set of teams separates them (queries.ts:389-409).
THEOREM GroupsHold == GroupsAreComponents
<1> SUFFICES ASSUME NEW matches \in Calendars
             PROVE  /\ UNION Groups(matches) = Teams(matches)
                    /\ \A g, h \in Groups(matches) : g = h \/ g \cap h = {}
                    /\ \A s, t \in Teams(matches) :
                         (\E g \in Groups(matches) : {s, t} \subseteq g)
                           <=> Together(matches, s, t)
  BY DEF GroupsAreComponents
<1>1. /\ \A g \in Groups(matches) : IsGroup(matches, g)
      /\ \A g, h \in Groups(matches) : g = h \/ g \cap h = {}
      /\ UNION Groups(matches) = Teams(matches)
  BY GroupsAreGroups
<1>2. ASSUME NEW s \in Teams(matches), NEW t \in Teams(matches)
      PROVE  (\E g \in Groups(matches) : {s, t} \subseteq g) <=> Together(matches, s, t)
  <2>1. ASSUME NEW g \in Groups(matches), {s, t} \subseteq g
        PROVE  Together(matches, s, t)
    BY <1>1, <2>1 DEF IsGroup, Together, Closed
  <2>2. ASSUME Together(matches, s, t)
        PROVE  \E g \in Groups(matches) : {s, t} \subseteq g
    <3>1. PICK g \in Groups(matches) : s \in g
      BY <1>1
    <3>2. t \in g
      BY <1>1, <2>2, <3>1 DEF IsGroup, Together, Closed
    <3> QED  BY <3>1, <3>2
  <2> QED  BY <2>1, <2>2
<1> QED  BY <1>1, <1>2

-----------------------------------------------------------------------------
(* The tables *)

\* The columns that are counted up.
Columns == {"played", "won", "drawn", "lost", "gf", "ga", "points"}

\* A match adds naturals.
LEMMA ResultsCount ==
  ASSUME NEW matches \in Calendars, NEW f \in matches, NEW t, NEW c \in Columns
  PROVE  Result(f, t)[c] \in Nat
<1>1. f.p1 \in Nat /\ f.p2 \in Nat
  BY CalendarsAssumption
<1> QED  BY <1>1 DEF Result, Columns

\* The matches that count for team t.
Own(matches, t) == {f \in matches : Counted(f) /\ t \in {f.home, f.away}}

\* So the columns of a row are naturals.
LEMMA TalliesCount ==
  ASSUME NEW matches \in Calendars, NEW t, NEW c \in Columns
  PROVE  Tally(matches, t, c) \in Nat
<1> DEFINE own == Own(matches, t)
           f == [x \in own |-> Result(x, t)[c]]
<1>1. IsFiniteSet(own) /\ own \subseteq matches
  BY CalendarsAssumption, FS_Subset DEF Own
<1>2. f \in [own -> Nat]
  BY <1>1, ResultsCount
<1>3. Sum(f, own) \in Nat
  <2> HIDE DEF own, f
  <2> QED  BY <1>1, <1>2, SumType
<1>4. Tally(matches, t, c) = Sum(f, own)
  BY DEF Tally, Own
<1> QED  BY <1>3, <1>4

\* A row depends on the team's counted matches alone.
LEMMA RowsOfOwn ==
  ASSUME NEW a, NEW b, NEW t, Own(a, t) = Own(b, t)
  PROVE  /\ \A c : Tally(a, t, c) = Tally(b, t, c)
         /\ TableRow(a, t) = TableRow(b, t)
<1>1. ASSUME NEW c
      PROVE  Tally(a, t, c) = Tally(b, t, c)
  BY DEF Tally, Own
<1> QED  BY <1>1 DEF TableRow

\* All the matches of a group's teams are in the group.
LEMMA GroupsPlayInside ==
  ASSUME NEW matches \in Calendars, NEW g \in Groups(matches)
  PROVE  /\ Teams(Inside(matches, g)) = g
         /\ \A t \in g : /\ Own(Inside(matches, g), t) = Own(matches, t)
                         /\ Own({f \in Inside(matches, g) : f.proven}, t) = Own(matches, t)
<1>1. g \subseteq Teams(matches) /\ Closed(matches, g)
  BY GroupsAreGroups DEF IsGroup
<1>2. \A f \in matches : f.home \in g \/ f.away \in g => f \in Inside(matches, g)
  BY <1>1 DEF Closed, Inside
<1>3. Inside(matches, g) \subseteq matches
      /\ \A f \in Inside(matches, g) : f.home \in g /\ f.away \in g
  BY DEF Inside
<1>4. Teams(Inside(matches, g)) \subseteq g
  BY <1>3 DEF Teams
<1>5. g \subseteq Teams(Inside(matches, g))
  BY <1>1, <1>2 DEF Teams
<1>6. ASSUME NEW t \in g
      PROVE  /\ Own(Inside(matches, g), t) = Own(matches, t)
             /\ Own({f \in Inside(matches, g) : f.proven}, t) = Own(matches, t)
  BY <1>2, <1>3 DEF Own, Counted
<1> QED  BY <1>4, <1>5, <1>6

\* <<x, y>> if y is x or a row below it.
Upwards(list) == {p \in list \X list : p[1] = p[2] \/ Above(p[1], p[2])}

\* The order of a table is total: no two teams share a place.
LEMMA TablesAreOrders ==
  ASSUME NEW matches \in Calendars, NEW g, g \subseteq Teams(matches)
  PROVE  IsOrder(Upwards({TableRow(matches, t) : t \in g}), {TableRow(matches, t) : t \in g})
<1> DEFINE list == {TableRow(matches, t) : t \in g}
<1>1. ASSUME NEW x \in list
      PROVE  /\ x.points \in Int /\ x.gd \in Int /\ x.gf \in Int /\ x.team \in Int
             /\ x = TableRow(matches, x.team)
  <2>1. PICK t \in g : x = TableRow(matches, t)
    OBVIOUS
  <2>2. /\ Tally(matches, t, "points") \in Nat /\ Tally(matches, t, "gf") \in Nat
        /\ Tally(matches, t, "ga") \in Nat
    BY TalliesCount DEF Columns
  <2>3. t \in Nat
    BY TeamsAreFinite
  <2>4. x.team = t
    BY <2>1 DEF TableRow
  <2> QED  BY <2>1, <2>2, <2>3, <2>4 DEF TableRow
<1> HIDE DEF list
<1>2. \A x, y \in list : x.team = y.team => x = y
  BY <1>1
<1>3. \A x, y \in list : Above(x, y) \/ Above(y, x) \/ x = y
  BY <1>1, <1>2 DEF Above
<1>4. \A x, y \in list : ~ (Above(x, y) /\ Above(y, x))
  BY <1>1 DEF Above
<1>5. \A x, y, z \in list : Above(x, y) /\ Above(y, z) => Above(x, z)
  BY <1>1 DEF Above
<1>6. \A x, y \in list : <<x, y>> \in Upwards(list) <=> x = y \/ Above(x, y)
  BY DEF Upwards
<1>7. IsOrder(Upwards(list), list)
  BY <1>3, <1>4, <1>5, <1>6 DEF IsOrder
<1> QED  BY <1>7 DEF list

\* A table has the row of each team of its group in this order.
LEMMA TablesAreSorted ==
  ASSUME NEW matches \in Calendars, NEW g \in Groups(matches)
  PROVE  LET table == Table(matches, g)
         IN  /\ DOMAIN table = 1..Cardinality(g)
             /\ {table[i] : i \in DOMAIN table} = {TableRow(matches, t) : t \in g}
             /\ \A i, j \in DOMAIN table : i < j => Above(table[i], table[j])
<1> DEFINE list == {TableRow(matches, t) : t \in g}
           R == Upwards(list)
           n == Cardinality(list)
           table == Table(matches, g)
<1>1. g \subseteq Teams(matches) /\ IsFiniteSet(g) /\ Cardinality(g) \in Nat
  BY GroupsAreGroups, TeamsAreFinite, FS_Subset, FS_CardinalityType DEF IsGroup
<1>2. Lines(matches, g) = list
  <2>1. \A t \in g : TableRow(Inside(matches, g), t) = TableRow(matches, t)
    BY GroupsPlayInside, RowsOfOwn
  <2>2. Lines(matches, g) = {TableRow(Inside(matches, g), t) : t \in g}
    BY GroupsPlayInside DEF Lines
  <2> QED  BY <2>1, <2>2
<1>3. IsFiniteSet(list) /\ n = Cardinality(g)
  <2> DEFINE line == [t \in g |-> TableRow(matches, t)]
  <2>1. \A t \in g : line[t] \in list /\ line[t].team = t
    BY DEF TableRow
  <2>2. line \in Bijection(g, list)
    <3>1. line \in Surjection(g, list)
      BY DEF Surjection
    <3>2. line \in Injection(g, list)
      <4>1. line \in [g -> list]
        OBVIOUS
      <4> HIDE DEF line, list
      <4> QED  BY <2>1, <4>1 DEF Injection, IsInjective
    <3> QED  BY <3>1, <3>2 DEF Bijection
  <2> HIDE DEF line, list
  <2>3. ExistsBijection(g, list)
    BY <2>2 DEF ExistsBijection
  <2>4. IsFiniteSet(list) /\ Cardinality(list) = Cardinality(g)
    BY <1>1, <2>3, FS_Bijection
  <2> QED  BY <2>4
<1>4. IsOrder(R, list)
  BY <1>1, TablesAreOrders
<1>5. table = [i \in 1..n |->
                 CHOOSE x \in list : Cardinality({y \in list : y = x \/ Above(y, x)}) = i]
  <2> HIDE DEF list
  <2> QED  BY <1>2 DEF Table
<1>6. \A i \in 1..n : table[i] \in list /\ Place(R, list, table[i]) = i
  <2> TAKE i \in 1..n
  <2> HIDE DEF list, table
  <2>1. ASSUME NEW x \in list
        PROVE  Place(R, list, x) = Cardinality({y \in list : y = x \/ Above(y, x)})
    <3>1. {y \in list : <<y, x>> \in R} = {y \in list : y = x \/ Above(y, x)}
      BY DEF Upwards
    <3> QED  BY <3>1 DEF Place
  <2> HIDE DEF R
  <2>2. \E x \in list : Place(R, list, x) = i
    BY <1>3, <1>4, PlacesAreTaken
  <2> HIDE DEF n
  <2>3. table[i] = CHOOSE x \in list : Cardinality({y \in list : y = x \/ Above(y, x)}) = i
    BY <1>5
  <2>4. \E x \in list : Cardinality({y \in list : y = x \/ Above(y, x)}) = i
    BY <2>1, <2>2
  <2>5. table[i] \in list /\ Cardinality({y \in list : y = table[i] \/ Above(y, table[i])}) = i
    BY <2>3, <2>4
  <2> QED  BY <2>1, <2>5
<1> HIDE DEF list, R, table
<1>7. DOMAIN table = 1..n
  BY <1>5
<1>8. ASSUME NEW x \in list
      PROVE  \E i \in 1..n : table[i] = x
  <2> DEFINE i == Place(R, list, x)
  <2>1. i \in 1..n
    BY <1>3, <1>4, PlacesAreOrdered
  <2>2. table[i] \in list /\ Place(R, list, table[i]) = i
    BY <1>6, <2>1
  <2>3. <<table[i], x>> \in R \/ <<x, table[i]>> \in R
    BY <1>4, <2>2 DEF IsOrder
  <2>4. table[i] = x
    <3> SUFFICES ASSUME table[i] # x PROVE FALSE
      OBVIOUS
    <3>1. Place(R, list, table[i]) < Place(R, list, x) \/ Place(R, list, x) < Place(R, list, table[i])
      BY <1>3, <1>4, <2>2, <2>3, PlacesAreOrdered
    <3>2. i \in Int
      BY <1>1, <1>3, <2>1
    <3> HIDE DEF i
    <3> QED  BY <2>2, <3>1, <3>2 DEF i
  <2> QED  BY <2>1, <2>4
<1>9. ASSUME NEW i \in 1..n, NEW j \in 1..n, i < j
      PROVE  Above(table[i], table[j])
  <2>1. /\ table[i] \in list /\ table[j] \in list
        /\ Place(R, list, table[i]) = i /\ Place(R, list, table[j]) = j
    BY <1>6
  <2>2. i \in Int /\ j \in Int
    BY <1>1, <1>3
  <2>3. ~ (<<table[j], table[i]>> \in R /\ table[j] # table[i])
    <3> SUFFICES ASSUME <<table[j], table[i]>> \in R, table[j] # table[i] PROVE FALSE
      OBVIOUS
    <3>1. Place(R, list, table[j]) < Place(R, list, table[i])
      BY <1>3, <1>4, <2>1, PlacesAreOrdered
    <3> QED  BY <1>9, <2>1, <2>2, <3>1
  <2>4. table[i] # table[j]
    BY <1>9, <2>1, <2>2
  <2>5. <<table[i], table[j]>> \in R
    BY <1>4, <2>1, <2>3, <2>4 DEF IsOrder
  <2> QED  BY <2>4, <2>5 DEF R, Upwards
<1>10. {table[i] : i \in DOMAIN table} = list
  BY <1>6, <1>7, <1>8
<1>11. DOMAIN table = 1..Cardinality(g)
  BY <1>3, <1>7
<1>12. \A i, j \in DOMAIN table : i < j => Above(table[i], table[j])
  BY <1>7, <1>9
<1> QED  BY <1>10, <1>11, <1>12 DEF table, list

\* What a match adds to the rows of its two teams.
BothOf(f, c) == Result(f, f.home)[c] + Result(f, f.away)[c]

\* They are naturals; goals, wins and points of the two balance.
LEMMA BothResults ==
  ASSUME NEW matches \in Calendars, NEW f \in matches
  PROVE  /\ \A c \in Columns : BothOf(f, c) \in Nat
         /\ BothOf(f, "gf") = BothOf(f, "ga") /\ BothOf(f, "won") = BothOf(f, "lost")
         /\ BothOf(f, "played") = 2
         /\ BothOf(f, "points") = BothOf(f, "won") + BothOf(f, "won") + BothOf(f, "won")
                                    + BothOf(f, "drawn")
<1>1. f.p1 \in Nat /\ f.p2 \in Nat /\ f.home # f.away
  BY CalendarsAssumption
<1>2. \A c \in Columns : BothOf(f, c) \in Nat
  <2>1. \A c \in Columns : Result(f, f.home)[c] \in Nat /\ Result(f, f.away)[c] \in Nat
    BY ResultsCount
  <2> QED  BY <2>1 DEF BothOf
<1>3. /\ BothOf(f, "gf") = f.p1 + f.p2 /\ BothOf(f, "ga") = f.p2 + f.p1
      /\ BothOf(f, "played") = 2
  BY <1>1 DEF BothOf, Result
<1>4. /\ BothOf(f, "won") = (IF f.p1 > f.p2 THEN 1 ELSE 0) + (IF f.p2 > f.p1 THEN 1 ELSE 0)
      /\ BothOf(f, "lost") = (IF f.p1 < f.p2 THEN 1 ELSE 0) + (IF f.p2 < f.p1 THEN 1 ELSE 0)
  BY <1>1 DEF BothOf, Result
<1>5. BothOf(f, "drawn") = IF f.p1 = f.p2 THEN 2 ELSE 0
  BY <1>1 DEF BothOf, Result
<1>6. BothOf(f, "points") = IF f.p1 = f.p2 THEN 2 ELSE 3
  BY <1>1 DEF BothOf, Result
<1> QED  BY <1>1, <1>2, <1>3, <1>4, <1>5, <1>6

\* A column of a group sums to what its counted matches add to it.
LEMMA ColumnsAddUp ==
  ASSUME NEW matches \in Calendars, NEW g \in Groups(matches), NEW c \in Columns
  PROVE  LET counted == {f \in Inside(matches, g) : f.proven}
         IN  Sum([t \in g |-> Tally(matches, t, c)], g)
               = Sum([f \in counted |-> BothOf(f, c)], counted)
<1> DEFINE counted == {f \in Inside(matches, g) : f.proven}
           w == [p \in g \X counted |->
                   IF p[1] \in {p[2].home, p[2].away} THEN Result(p[2], p[1])[c] ELSE 0]
           line(t) == [f \in counted |-> w[<<t, f>>]]
           col(f) == [t \in g |-> w[<<t, f>>]]
<1>1. g \subseteq Teams(matches) /\ IsFiniteSet(g)
  BY GroupsAreGroups, TeamsAreFinite, FS_Subset DEF IsGroup
<1>2. counted \subseteq matches /\ IsFiniteSet(counted)
  BY CalendarsAssumption, FS_Subset DEF Inside
<1>3. \A f \in counted : f.home \in g /\ f.away \in g /\ f.home # f.away
  BY CalendarsAssumption DEF Inside
<1>4. \A f \in counted : \A t : Result(f, t)[c] \in Nat
  BY <1>2, ResultsCount
<1> HIDE DEF counted
<1>5. w \in [g \X counted -> Nat]
  BY <1>4
<1>6. \A t \in g, f \in counted :
        w[<<t, f>>] = IF t \in {f.home, f.away} THEN Result(f, t)[c] ELSE 0
  OBVIOUS
<1> HIDE DEF w
<1>7. ASSUME NEW t \in g
      PROVE  Sum(line(t), counted) = Tally(matches, t, c)
  <2> DEFINE own == Own(matches, t)
             add == [f \in own |-> Result(f, t)[c]]
  <2>1. own = {f \in counted : t \in {f.home, f.away}}
    <3>1. own = Own(counted, t)
      BY GroupsPlayInside DEF counted
    <3> QED  BY <3>1 DEF Own, Counted, counted
  <2>2. \A f \in own : line(t)[f] = add[f]
    <3>1. \A f \in own : f \in counted /\ t \in {f.home, f.away}
      BY <2>1
    <3> QED  BY <1>6, <3>1
  <2>3. \A f \in counted \ own : line(t)[f] = 0
    <3>1. \A f \in counted \ own : t \notin {f.home, f.away}
      BY <2>1
    <3> QED  BY <1>6, <3>1
  <2>4. Tally(matches, t, c) = Sum(add, own)
    BY DEF Tally, Own
  <2>5. own \subseteq counted
    BY <2>1
  <2> HIDE DEF own, add, line
  <2> QED  BY <2>2, <2>3, <2>4, <2>5, SumPart
<1>8. ASSUME NEW f \in counted
      PROVE  Sum(col(f), g) = BothOf(f, c)
  <2>1. col(f) \in [g -> Nat]
    BY <1>5
  <2>2. \A t \in g \ {f.home, f.away} : col(f)[t] = 0
    BY <1>6
  <2>3. /\ col(f)[f.home] = Result(f, f.home)[c] /\ col(f)[f.away] = Result(f, f.away)[c]
        /\ f.home \in g /\ f.away \in g /\ f.home # f.away
    BY <1>3, <1>6
  <2> HIDE DEF col
  <2>4. Sum(col(f), g) = col(f)[f.home] + col(f)[f.away]
    BY <1>1, <2>1, <2>2, <2>3, SumOfTwo
  <2> QED  BY <2>3, <2>4 DEF BothOf
<1>9. Sum([t \in g |-> Sum(line(t), counted)], g)
        = Sum([f \in counted |-> Sum(col(f), g)], counted)
  BY <1>1, <1>2, <1>5, SumOfSums
<1> HIDE DEF line, col
<1>10. /\ [t \in g |-> Sum(line(t), counted)] = [t \in g |-> Tally(matches, t, c)]
       /\ [f \in counted |-> Sum(col(f), g)] = [f \in counted |-> BothOf(f, c)]
  BY <1>7, <1>8
<1> QED  BY <1>9, <1>10 DEF counted

\* The columns of a group balance.
LEMMA ColumnsBalance ==
  ASSUME NEW matches \in Calendars, NEW g \in Groups(matches)
  PROVE  LET counted == {f \in Inside(matches, g) : f.proven}
             All(column) == Sum([t \in g |-> Tally(matches, t, column)], g)
         IN  /\ All("gf") = All("ga") /\ All("won") = All("lost")
             /\ All("played") = 2 * Cardinality(counted)
             /\ All("points") = 3 * All("won") + All("drawn")
<1> DEFINE counted == {f \in Inside(matches, g) : f.proven}
           All(column) == Sum([t \in g |-> Tally(matches, t, column)], g)
           two(c) == [f \in counted |-> BothOf(f, c)]
<1>1. counted \subseteq matches /\ IsFiniteSet(counted)
  BY CalendarsAssumption, FS_Subset DEF Inside
<1>2. \A c \in Columns : All(c) = Sum(two(c), counted)
  BY ColumnsAddUp
<1> HIDE DEF counted, All
<1>3. \A c \in Columns : two(c) \in [counted -> Nat]
  BY <1>1, BothResults
<1>4. \A f \in counted :
        /\ BothOf(f, "gf") = BothOf(f, "ga") /\ BothOf(f, "won") = BothOf(f, "lost")
        /\ BothOf(f, "played") = 2
        /\ BothOf(f, "points") = BothOf(f, "won") + BothOf(f, "won") + BothOf(f, "won")
                                   + BothOf(f, "drawn")
        /\ BothOf(f, "won") \in Nat /\ BothOf(f, "drawn") \in Nat
  BY <1>1, BothResults DEF Columns
<1>5. All("gf") = All("ga") /\ All("won") = All("lost")
  <2>1. two("gf") = two("ga") /\ two("won") = two("lost")
    BY <1>4
  <2> HIDE DEF two
  <2> QED  BY <1>2, <2>1 DEF Columns
<1>6. All("played") = 2 * Cardinality(counted)
  <2>1. \A f \in counted : two("played")[f] = 2
    BY <1>4
  <2> HIDE DEF two
  <2>2. Sum(two("played"), counted) = 2 * Cardinality(counted)
    BY <1>1, <2>1, SumOfEqual
  <2> QED  BY <1>2, <2>2 DEF Columns
<1>7. All("points") = 3 * All("won") + All("drawn")
  <2> DEFINE won == two("won")
             drawn == two("drawn")
             twice == [f \in counted |-> BothOf(f, "won") + BothOf(f, "won")]
             thrice == [f \in counted |-> BothOf(f, "won") + BothOf(f, "won") + BothOf(f, "won")]
             points == two("points")
  <2>1. /\ won \in [counted -> Nat] /\ drawn \in [counted -> Nat] /\ points \in [counted -> Nat]
        /\ twice \in [counted -> Nat] /\ thrice \in [counted -> Nat]
    BY <1>3, <1>4 DEF Columns
  <2>2. /\ \A f \in counted : twice[f] = won[f] + won[f]
        /\ \A f \in counted : thrice[f] = twice[f] + won[f]
        /\ \A f \in counted : points[f] = thrice[f] + drawn[f]
    BY <1>4
  <2>3. /\ All("won") = Sum(won, counted) /\ All("drawn") = Sum(drawn, counted)
        /\ All("points") = Sum(points, counted)
    BY <1>2 DEF Columns
  <2> HIDE DEF won, drawn, twice, thrice, points
  <2>4. Sum(twice, counted) = Sum(won, counted) + Sum(won, counted)
    BY <1>1, <2>1, <2>2, SumPlus
  <2>5. Sum(thrice, counted) = Sum(twice, counted) + Sum(won, counted)
    BY <1>1, <2>1, <2>2, SumPlus
  <2>6. Sum(points, counted) = Sum(thrice, counted) + Sum(drawn, counted)
    BY <1>1, <2>1, <2>2, SumPlus
  <2>7. Sum(won, counted) \in Nat /\ Sum(drawn, counted) \in Nat
    BY <1>1, <2>1, SumType
  <2> QED  BY <2>3, <2>4, <2>5, <2>6, <2>7
<1> QED  BY <1>5, <1>6, <1>7 DEF counted, All

\* A table has every team of its group once, in a strict order, goals and points
\* balance, and unproven matches change nothing (queries.ts:411-470).
THEOREM TablesBalance == TablesAddUp
<1> SUFFICES ASSUME NEW matches \in Calendars, NEW g \in Groups(matches)
             PROVE  LET table   == Table(matches, g)
                        counted == {f \in Inside(matches, g) : f.proven}
                        All(column) == Sum([t \in g |-> Tally(matches, t, column)], g)
                    IN  /\ DOMAIN table = 1..Cardinality(g)
                        /\ {table[i] : i \in DOMAIN table} = {TableRow(matches, t) : t \in g}
                        /\ \A i, j \in DOMAIN table : i < j => Above(table[i], table[j])
                        /\ All("gf") = All("ga") /\ All("won") = All("lost")
                        /\ All("played") = 2 * Cardinality(counted)
                        /\ All("points") = 3 * All("won") + All("drawn")
                        /\ \A t \in g : TableRow(matches, t) = TableRow(counted, t)
  BY DEF TablesAddUp
<1>1. \A t \in g : TableRow(matches, t) = TableRow({f \in Inside(matches, g) : f.proven}, t)
  BY GroupsPlayInside, RowsOfOwn
<1> QED  BY <1>1, TablesAreSorted, ColumnsBalance

\* A followed match without a proof is one nobody has played.
LEMMA UnprovenIsUnplayed ==
  ASSUME ~ Followed.proven, NEW t
  PROVE  TableRow({Followed}, t).played = 0
<1> DEFINE own == {f \in {Followed} : Counted(f) /\ t \in {f.home, f.away}}
<1>1. own = {}
  BY DEF Counted
<1>2. Tally({Followed}, t, "played") = 0
  BY <1>1, SumEmpty DEF Tally
<1> QED  BY <1>2 DEF TableRow

\* The tables are those of the proven matches alone, and the followed match is not one
\* of them before a script has stored it as proven (queries.ts:363-470).
THEOREM TablesAlwaysHold == Spec => []TablesAreSound
<1>1. CopiesAreTrue => TablesAreSound
  <2>1. ASSUME CopiesAreTrue, ~ declared
        PROVE  ~ Followed.proven
    BY <2>1 DEF CopiesAreTrue, NothingProven, Followed
  <2> QED  BY <2>1, GroupsHold, TablesBalance, UnprovenIsUnplayed DEF TablesAreSound
<1> QED  BY <1>1, CopiesStayCopies, PTL
=============================================================================
