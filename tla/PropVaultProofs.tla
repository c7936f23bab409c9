-------------------------- MODULE PropVaultProofs --------------------------
(***************************************************************************)
(* Proofs about PropVault, for every set of wallets and every sum, lock    *)
(* time and timeout.  The balance equation is inductive together with the  *)
(* types and the empty vault before the creation.  And about VaultDesk,    *)
(* the page and the script at work on a vault, for every kick-off and any  *)
(* number of transactions lost.                                            *)
(***************************************************************************)
EXTENDS VaultDesk, TLAPS

USE WalletsAssumption, AmountsAssumption, TimesAssumption

\* Before its creation nobody can send anything to the vault.
VaultInv ==
  /\ TypeOK
  /\ VaultHoldsTheSum
  /\ status = "Absent" => donated = 0

\* Every instruction keeps the balance.
LEMMA VaultStep == VaultInv /\ [Next]_vars => VaultInv'
<1> SUFFICES ASSUME VaultInv, [Next]_vars
             PROVE  VaultInv'
  OBVIOUS
<1> USE DEF VaultInv, TypeOK, VaultHoldsTheSum, deal, Empty
<1>1. ASSUME NEW d \in Wallets, NEW b \in Wallets, NEW a \in Amounts,
             NEW lock \in LockTimes, NEW timeout \in Timeouts,
             InitializePropVault(d, b, a, lock, timeout)
      PROVE  VaultInv'
  <2>1. a \in Nat /\ lock \in Nat /\ timeout \in Nat
    OBVIOUS
  <2>2. vault = 0 /\ donated = 0
    BY <1>1 DEF InitializePropVault
  <2>3. funds' \in [Wallets -> Nat]
    BY <1>1, <2>1 DEF InitializePropVault
  <2> QED
    BY <1>1, <2>1, <2>2, <2>3 DEF InitializePropVault
<1>2. ASSUME NEW holds \in BOOLEAN, SettlePropVault(holds)
      PROVE  VaultInv'
  <2>1. funds' \in [Wallets -> Nat]
    BY <1>2 DEF SettlePropVault
  <2> QED
    BY <1>2, <2>1 DEF SettlePropVault
<1>3. CASE CancelPropVault
  <2>1. funds' \in [Wallets -> Nat]
    BY <1>3 DEF CancelPropVault
  <2> QED
    BY <1>3, <2>1 DEF CancelPropVault
<1>4. ASSUME NEW w \in Wallets, NEW a \in Amounts, Donate(w, a)
      PROVE  VaultInv'
  <2>1. a \in Nat /\ funds' \in [Wallets -> Nat]
    BY <1>4 DEF Donate
  <2> QED
    BY <1>4, <2>1 DEF Donate
<1>5. ASSUME NEW holds \in BOOLEAN, Publish(holds)
      PROVE  VaultInv'
  BY <1>5 DEF Publish
<1>6. CASE Tick
  BY <1>6 DEF Tick
<1>7. CASE UNCHANGED vars
  BY <1>7 DEF vars
<1> QED
  BY <1>1, <1>2, <1>3, <1>4, <1>5, <1>6, <1>7 DEF Next

\* The inductive invariant of a vault.
LEMMA VaultInvariant == Spec => []VaultInv
<1>1. Init => VaultInv
  BY DEF Init, VaultInv, TypeOK, VaultHoldsTheSum
<1> QED
  BY <1>1, VaultStep, PTL DEF Spec

\* The types of the vault's account and of the balances around it.
THEOREM VaultTypes == Spec => []TypeOK
<1>1. VaultInv => TypeOK
  BY DEF VaultInv
<1> QED
  BY <1>1, VaultInvariant, PTL

\* prop_vault.rs: a funded vault holds the escrowed sum and what strangers
\* added to it, to the coin; a resolved one keeps nothing back.
THEOREM VaultIsBacked == Spec => []VaultHoldsTheSum
<1>1. VaultInv => VaultHoldsTheSum
  BY DEF VaultInv
<1> QED
  BY <1>1, VaultInvariant, PTL

\* prop_vault.rs: money leaves the vault whole and once, forward only for a
\* predicate provable after the lock time, back only with a proof that it
\* failed or past the deadline.
THEOREM OnlyProofsPay == Spec => ProofDecides
<1> DEFINE Decided ==
      vault' < vault =>
        /\ status = "Funded" /\ status' \in {"PaidOut", "Refunded"}
        /\ vault' = 0 /\ now >= lockTime
        /\ LET paid(w) == funds' = [funds EXCEPT ![w] = @ + vault]
           IN  \/ TRUE \in verdicts /\ paid(beneficiary)
               \/ /\ FALSE \in verdicts \/ now > lockTime + resolutionTimeout
                  /\ paid(depositor)
<1>1. VaultInv /\ [Next]_vars => [Decided]_vars
  <2> SUFFICES ASSUME VaultInv, Next
               PROVE  Decided
    OBVIOUS
  <2> USE DEF VaultInv, TypeOK, VaultHoldsTheSum, Empty
  <2>1. ASSUME NEW d \in Wallets, NEW b \in Wallets, NEW a \in Amounts,
               NEW lock \in LockTimes, NEW timeout \in Timeouts,
               InitializePropVault(d, b, a, lock, timeout)
        PROVE  Decided
    <3>1. vault = 0 /\ vault' = a /\ a \in Nat
      BY <2>1 DEF InitializePropVault
    <3> QED
      BY <2>1, <3>1 DEF InitializePropVault
  <2>2. ASSUME NEW holds \in BOOLEAN, SettlePropVault(holds)
        PROVE  Decided
    <3>1. CASE holds = TRUE
      BY <2>2, <3>1 DEF SettlePropVault
    <3>2. CASE holds = FALSE
      BY <2>2, <3>2 DEF SettlePropVault
    <3> QED
      BY <3>1, <3>2
  <2>3. CASE CancelPropVault
    <3>1. /\ status = "Funded" /\ status' = "Refunded"
          /\ now > lockTime + resolutionTimeout
          /\ vault' = 0
          /\ funds' = [funds EXCEPT ![depositor] = @ + vault]
      BY <2>3 DEF CancelPropVault, Deadline
    <3>2. now >= lockTime
      BY <3>1
    <3> QED
      BY <3>1, <3>2
  <2>4. ASSUME NEW w \in Wallets, NEW a \in Amounts, Donate(w, a)
        PROVE  Decided
    BY <2>4 DEF Donate
  <2>5. ASSUME NEW holds \in BOOLEAN, Publish(holds)
        PROVE  Decided
    BY <2>5 DEF Publish
  <2>6. CASE Tick
    BY <2>6 DEF Tick
  <2> QED
    BY <2>1, <2>2, <2>3, <2>4, <2>5, <2>6 DEF Next
<1>2. [][Decided]_vars <=> ProofDecides
  BY DEF ProofDecides
<1> QED
  BY <1>1, <1>2, VaultInvariant, PTL DEF Spec

\* prop_vault.rs: the terms of a vault are what its depositor wrote, and its
\* resolution is final.
THEOREM TermsAreFinal == Spec => DealIsKept
<1> DEFINE Kept == /\ status # "Absent" => UNCHANGED deal
                   /\ status \in {"PaidOut", "Refunded"} => UNCHANGED status
<1>1. [Next]_vars => [Kept]_vars
  BY DEF Next, InitializePropVault, SettlePropVault, CancelPropVault, Donate,
         Publish, Tick, deal
<1>2. [][Kept]_vars <=> DealIsKept
  BY DEF DealIsKept
<1> QED
  BY <1>1, <1>2, PTL DEF Spec

-----------------------------------------------------------------------------
(* The vault page (VaultDesk) *)

\* What executing a transaction, or a stranger's call, does to the status: a vault
\* is created once and resolved once.
LEMMA StatusMoves ==
  ASSUME DeskNext
  PROVE  /\ status # "Absent" => status' # "Absent"
         /\ status \in {"PaidOut", "Refunded"} => status' = status
<1>1. ASSUME NEW t, Execute(t)
      PROVE  /\ status # "Absent" => status' # "Absent"
             /\ status \in {"PaidOut", "Refunded"} => status' = status
  BY <1>1 DEF Execute, InitializePropVault, SettlePropVault, CancelPropVault
<1>2. CASE \E t \in sent : Landed(t) \/ Expired(t)
  BY <1>1, <1>2 DEF Landed, Expired, vars
<1>3. CASE PickFixture \/ refreshVaults \/ AskLivePeriod \/ Reload \/ GiveUp
           \/ Retention \/ PublishRoots
  BY <1>3 DEF PickFixture, refreshVaults, AskLivePeriod, Reload, GiveUp, Retention,
              PublishRoots, Publish, vars
<1>4. ASSUME NEW b, NEW a, PageCreate(b, a) \/ ScriptCreate(b, a)
      PROVE  status' = status
  BY <1>4 DEF PageCreate, ScriptCreate, signSend, scriptSend, vars
<1>5. CASE PageSettle \/ PageRefund \/ ScriptSettle \/ ScriptRefund
  BY <1>5 DEF PageSettle, PageRefund, ScriptSettle, ScriptRefund, signSend, scriptSend,
              vars
<1>6. ASSUME NEW d, NEW b, NEW a, NEW lock, NEW timeout, NEW period,
             StrangerCreate(d, b, a, lock, timeout, period)
      PROVE  status = "Absent"
  BY <1>6 DEF StrangerCreate, OneVault
<1>7. CASE StrangerCall
  BY <1>7 DEF StrangerCall, SettlePropVault, CancelPropVault, Donate, Tick
<1> QED
  BY <1>2, <1>3, <1>4, <1>5, <1>6, <1>7 DEF DeskNext

\* A step announces nothing, keeps what was announced, or announces what the
\* transaction it executes has just brought about.
LEMMA Announcements ==
  ASSUME DeskNext
  PROVE  \/ notice' = "none"
         \/ notice' = notice
         \/ \E t \in sent : Execute(t) /\ notice' = Announced(t)
<1>1. CASE \E t \in sent : Landed(t) \/ Expired(t)
  BY <1>1 DEF Landed, Expired
<1>2. CASE PickFixture \/ refreshVaults \/ AskLivePeriod \/ Reload \/ GiveUp
           \/ Retention \/ PublishRoots
  BY <1>2 DEF PickFixture, refreshVaults, AskLivePeriod, Reload, GiveUp, Retention,
              PublishRoots, desk
<1>3. ASSUME NEW b, NEW a, PageCreate(b, a) \/ ScriptCreate(b, a)
      PROVE  notice' \in {"none", notice}
  BY <1>3 DEF PageCreate, ScriptCreate, signSend, scriptSend, desk
<1>4. CASE PageSettle \/ PageRefund \/ ScriptSettle \/ ScriptRefund
  BY <1>4 DEF PageSettle, PageRefund, ScriptSettle, ScriptRefund, signSend, scriptSend,
              desk
<1>5. ASSUME NEW d, NEW b, NEW a, NEW lock, NEW timeout, NEW period,
             StrangerCreate(d, b, a, lock, timeout, period)
      PROVE  notice' = notice
  BY <1>5 DEF StrangerCreate, desk
<1>6. CASE StrangerCall
  BY <1>6 DEF StrangerCall, desk
<1> QED
  BY <1>1, <1>2, <1>3, <1>4, <1>5, <1>6 DEF DeskNext

\* vault/page.tsx: what the page announces of a vault is so, and stays so, whatever
\* lands late and whoever else calls the program.
THEOREM NoticesStayTrue == DeskSpec => []NoticesAreTrue
<1>1. DeskInit => NoticesAreTrue
  BY DEF DeskInit, NoticesAreTrue
<1>2. NoticesAreTrue /\ [DeskNext]_deskVars => NoticesAreTrue'
  <2> SUFFICES ASSUME NoticesAreTrue, [DeskNext]_deskVars
               PROVE  NoticesAreTrue'
    OBVIOUS
  <2> USE DEF NoticesAreTrue
  <2>1. CASE UNCHANGED deskVars
    BY <2>1 DEF deskVars, vars, desk
  <2>2. CASE DeskNext /\ notice' = "none"
    BY <2>2
  <2>3. CASE DeskNext /\ notice' = notice
    BY <2>3, StatusMoves
  <2>4. ASSUME NEW t, Execute(t), notice' = Announced(t)
        PROVE  NoticesAreTrue'
    <3>1. CASE t.kind = "create"
      BY <2>4, <3>1 DEF Execute, Announced, InitializePropVault
    <3>2. CASE t.kind = "settle"
      BY <2>4, <3>2 DEF Execute, Announced, SettlePropVault
    <3>3. CASE t.kind = "refund"
      BY <2>4, <3>3 DEF Execute, Announced, CancelPropVault
    <3> QED
      BY <2>4, <3>1, <3>2, <3>3 DEF Execute
  <2> QED
    BY <2>1, <2>2, <2>3, <2>4, Announcements
<1> QED
  BY <1>1, <1>2, PTL DEF DeskSpec

\* Only finalised records reach what the page sends, a vault it opened pins the
\* period of one, and so no root but the final one decides it.
LEMMA ResultStep == ResultInv /\ [DeskNext]_deskVars => ResultInv'
<1> SUFFICES ASSUME ResultInv, [DeskNext]_deskVars
             PROVE  ResultInv'
  OBVIOUS
<1> USE DEF ResultInv
<1>1. CASE UNCHANGED deskVars
  BY <1>1 DEF deskVars, vars, desk, match, network
\* a transaction that is sent
<1>2. ASSUME NEW t, sent' = sent \cup {t},
             t.kind = "create" /\ t.by = "page" => t.period \in Finals,
             UNCHANGED <<probe, opener, pinned, status, verdicts, result>>
      PROVE  ResultInv'
  BY <1>2
\* the steps that leave the vault, its period and the transactions alone
<1>3. ASSUME probe' # NoProbe => probe'.period \in Finals,
             sent' \subseteq sent,
             UNCHANGED <<opener, pinned, status, verdicts, result>>
      PROVE  ResultInv'
  BY <1>3
\* the creation of a vault
<1>4. ASSUME status = "Absent", status' # "Absent", opener' = "page" => pinned' \in Finals,
             sent' \subseteq sent, UNCHANGED <<probe, verdicts, result>>
      PROVE  ResultInv'
  BY <1>4
\* the resolution of one
<1>5. ASSUME status' # "Absent", sent' \subseteq sent,
             UNCHANGED <<probe, opener, pinned, verdicts, result>>
      PROVE  ResultInv'
  BY <1>5
<1>6. CASE PickFixture
  <2>1. probe' # NoProbe => probe'.period \in Finals
    BY <1>6 DEF PickFixture, Probed, Finals
  <2> QED
    BY <1>3, <1>6, <2>1 DEF PickFixture, vars, match, network
<1>7. CASE refreshVaults \/ AskLivePeriod \/ GiveUp
  <2>1. probe' = probe
    BY <1>7 DEF refreshVaults, AskLivePeriod, GiveUp
  <2> QED
    BY <1>3, <1>7, <2>1 DEF refreshVaults, AskLivePeriod, GiveUp, vars, match, network
<1>8. CASE Reload
  BY <1>3, <1>8 DEF Reload, vars, match, network
<1>9. ASSUME NEW b, NEW a, PageCreate(b, a)
      PROVE  ResultInv'
  <2>1. PICK lock : signSend(create("page", b, a, probe.period, lock))
    BY <1>9 DEF PageCreate
  <2>2. probe.period \in Finals
    BY <1>9 DEF PageCreate
  <2> QED
    BY <1>2, <2>1, <2>2 DEF signSend, create, vars, match
<1>10. ASSUME NEW b, NEW a, ScriptCreate(b, a)
       PROVE  ResultInv'
  <2>1. PICK t : t.by = "script" /\ scriptSend(t)
    BY <1>10 DEF ScriptCreate, create
  <2> QED
    BY <1>2, <2>1 DEF scriptSend, vars, match, desk
<1>11. CASE PageSettle \/ PageRefund \/ ScriptSettle \/ ScriptRefund
  <2>1. PICK t : t.kind # "create" /\ (signSend(t) \/ scriptSend(t))
    BY <1>11 DEF PageSettle, PageRefund, ScriptSettle, ScriptRefund, settle, refund
  <2> QED
    BY <1>2, <2>1 DEF signSend, scriptSend, vars, match, desk
<1>12. ASSUME NEW t \in sent, Landed(t)
       PROVE  ResultInv'
  <2>1. sent' \subseteq sent /\ UNCHANGED <<probe, result>>
    BY <1>12 DEF Landed, match
  <2>2. CASE Execute(t) /\ t.kind = "create"
    BY <1>4, <2>1, <2>2 DEF Execute, InitializePropVault
  <2>3. CASE Execute(t) /\ t.kind # "create"
    BY <1>5, <2>1, <2>3 DEF Execute, SettlePropVault, CancelPropVault
  <2>4. CASE UNCHANGED <<vars, pinned, opener>>
    BY <1>3, <2>1, <2>4 DEF vars
  <2> QED
    BY <1>12, <2>2, <2>3, <2>4 DEF Landed
<1>13. ASSUME NEW t \in sent, Expired(t)
       PROVE  ResultInv'
  <2>1. sent' \subseteq sent /\ probe' = probe
    BY <1>13 DEF Expired
  <2> QED
    BY <1>3, <1>13, <2>1 DEF Expired, vars, match
<1>14. ASSUME NEW d, NEW b, NEW a, NEW lock, NEW timeout, NEW period,
              StrangerCreate(d, b, a, lock, timeout, period)
       PROVE  ResultInv'
  BY <1>4, <1>14 DEF StrangerCreate, InitializePropVault, match, desk, network
<1>15. CASE StrangerCall
  <2>1. UNCHANGED <<probe, sent, opener, pinned, result, verdicts>>
    BY <1>15 DEF StrangerCall, SettlePropVault, CancelPropVault, Donate, Tick, match,
                 desk, network
  <2>2. CASE status' = status
    BY <1>3, <2>1, <2>2
  <2>3. CASE status' # status
    BY <1>5, <1>15, <2>1, <2>3 DEF StrangerCall, SettlePropVault, CancelPropVault,
                                   Donate, Tick
  <2> QED
    BY <2>2, <2>3
<1>16. CASE Retention
  <2>1. probe' = probe /\ sent' = sent
    BY <1>16 DEF Retention, desk, network
  <2> QED
    BY <1>3, <1>16, <2>1 DEF Retention, vars
<1>17. CASE PublishRoots
  <2>1. /\ UNCHANGED <<probe, sent, opener, pinned, result, status>>
        /\ pinned # Nothing
        /\ pinned \in Finals => verdicts' = verdicts \cup {result}
    BY <1>17 DEF PublishRoots, Publish, match, desk, network, Finals, FINALISED,
                 TRIMMED, INPLAY, Nothing
  <2> QED
    BY <2>1
<1> QED
  BY <1>1, <1>6, <1>7, <1>8, <1>9, <1>10, <1>11, <1>12, <1>13, <1>14, <1>15, <1>16,
     <1>17 DEF DeskNext

\* vault/page.tsx: a vault opened on the page pays on the final statistics, whoever
\* settles it and with whatever proof, or returns the money past the timeout.
THEOREM ResultAlwaysDecides == DeskSpec => ResultDecides
<1> DEFINE Decides ==
      opener = "page" /\ status = "Funded" =>
        /\ status' = "PaidOut" => result
        /\ status' = "Refunded" => ~result \/ now > Deadline
<1>1. DeskInit => ResultInv
  BY DEF DeskInit, Init, ResultInv, NoProbe
<1>2. ResultInv /\ DeskNext => Decides
  <2> SUFFICES ASSUME ResultInv, DeskNext, opener = "page", status = "Funded",
                      status' \in {"PaidOut", "Refunded"}
               PROVE  Decides
    OBVIOUS
  <2>1. verdicts \subseteq {result}
    BY DEF ResultInv
  <2>2. ASSUME NEW holds, SettlePropVault(holds)
        PROVE  Decides
    BY <2>1, <2>2 DEF SettlePropVault
  <2>3. CASE CancelPropVault
    BY <2>3 DEF CancelPropVault
  <2>4. ASSUME NEW t, Execute(t)
        PROVE  Decides
    BY <2>2, <2>3, <2>4 DEF Execute, InitializePropVault
  <2>5. CASE StrangerCall
    BY <2>2, <2>3, <2>5 DEF StrangerCall, Donate, Tick
  <2>6. CASE \E t \in sent : Landed(t) \/ Expired(t)
    BY <2>4, <2>6 DEF Landed, Expired, vars
  <2>7. ASSUME status' = status
        PROVE  Decides
    BY <2>7
  <2>8. CASE PickFixture \/ refreshVaults \/ AskLivePeriod \/ Reload \/ GiveUp
             \/ Retention \/ PublishRoots
    BY <2>7, <2>8 DEF PickFixture, refreshVaults, AskLivePeriod, Reload, GiveUp,
                      Retention, PublishRoots, Publish, vars
  <2>9. ASSUME NEW b, NEW a, PageCreate(b, a) \/ ScriptCreate(b, a)
        PROVE  Decides
    BY <2>7, <2>9 DEF PageCreate, ScriptCreate, signSend, scriptSend, vars
  <2>10. CASE PageSettle \/ PageRefund \/ ScriptSettle \/ ScriptRefund
    BY <2>7, <2>10 DEF PageSettle, PageRefund, ScriptSettle, ScriptRefund, signSend,
                       scriptSend, vars
  <2>11. ASSUME NEW d, NEW b, NEW a, NEW lock, NEW timeout, NEW period,
                StrangerCreate(d, b, a, lock, timeout, period)
         PROVE  Decides
    BY <2>11 DEF StrangerCreate, OneVault
  <2> QED
    BY <2>5, <2>6, <2>8, <2>9, <2>10, <2>11 DEF DeskNext
<1>3. [][Decides]_deskVars <=> ResultDecides
  BY DEF ResultDecides
<1> HIDE DEF Decides
<1> QED
  BY <1>1, <1>2, <1>3, ResultStep, PTL DEF DeskSpec
=============================================================================
