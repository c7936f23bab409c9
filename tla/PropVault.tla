----------------------------- MODULE PropVault -----------------------------
(***************************************************************************)
(* The parametric prop vault: one escrowed sum, two possible destinations. *)
(* A proof of the vault's predicate, submitted by anybody after the lock   *)
(* time, sends the whole balance to the beneficiary when the predicate     *)
(* holds and back to the depositor when it does not; past the timeout      *)
(* anybody may send it back without a proof.                               *)
(*                                                                         *)
(* External: verdicts is the set of truth values of the predicate that the *)
(* published roots let somebody prove.  It grows day by day, and it may    *)
(* hold both, for roots of different batches attest different statistics.  *)
(***************************************************************************)
EXTENDS Integers, FiniteSets

CONSTANTS
  Wallets,       (* the token accounts around a vault                       *)
  Nobody,
  Amounts,       (* the sizes of an escrow or of a bare transfer            *)
  Endowment,     (* the USDC of each wallet                                 *)
  LockTimes, Timeouts, (* the values initialize_prop_vault may be given     *)
  MaxTimestamp,  (* the largest value of the i64 timestamps                 *)
  MaxTime        (* bounds the clock                                        *)

ASSUME WalletsAssumption == IsFiniteSet(Wallets) /\ Nobody \notin Wallets
ASSUME AmountsAssumption == Amounts \subseteq Nat /\ Endowment \in Nat
ASSUME TimesAssumption   == /\ LockTimes \subseteq Nat /\ Timeouts \subseteq Nat
                            /\ MaxTimestamp \in Nat /\ MaxTime \in Nat

VARIABLES
  now, verdicts,
  status,                 (* PropVault.status, "Absent" before creation     *)
  depositor, beneficiary, amount, lockTime, resolutionTimeout,
  vault, funds,           (* token account balances                         *)
  donated                 (* history: bare transfers since the creation, or *)
                          (* since the resolution                           *)

deal == <<depositor, beneficiary, amount, lockTime, resolutionTimeout>>
vars == <<now, verdicts, status, deal, vault, funds, donated>>

Deadline == lockTime + resolutionTimeout

TypeOK ==
  /\ now \in Nat
  /\ verdicts \subseteq BOOLEAN
  /\ status \in {"Absent", "Funded", "PaidOut", "Refunded"}
  /\ depositor \in Wallets \cup {Nobody}
  /\ beneficiary \in Wallets \cup {Nobody}
  /\ status # "Absent" => depositor \in Wallets /\ beneficiary \in Wallets
  /\ amount \in Nat /\ lockTime \in Nat /\ resolutionTimeout \in Nat
  /\ vault \in Nat /\ donated \in Nat
  /\ funds \in [Wallets -> Nat]

Init ==
  /\ now = 0 /\ verdicts = {}
  /\ status = "Absent"
  /\ depositor = Nobody /\ beneficiary = Nobody
  /\ amount = 0 /\ lockTime = 0 /\ resolutionTimeout = 0
  /\ vault = 0 /\ donated = 0
  /\ funds = [w \in Wallets |-> Endowment]

-----------------------------------------------------------------------------
(* Instructions *)

\* The legs of a vault that is created are covered exactly once
\* (PropVault::validate); which legs they are does not matter here.
InitializePropVault(d, b, a, lock, timeout) ==
  /\ status = "Absent"
  /\ a > 0
  /\ b # d
  /\ timeout > 0
  /\ lock > now
  /\ funds[d] >= a
  /\ status' = "Funded"
  /\ depositor' = d /\ beneficiary' = b /\ amount' = a
  /\ lockTime' = lock /\ resolutionTimeout' = timeout
  /\ vault' = a
  /\ funds' = [funds EXCEPT ![d] = @ - a]
  /\ UNCHANGED <<now, verdicts, donated>>

\* The whole balance goes to w.
Empty(w) ==
  /\ vault' = 0
  /\ funds' = [funds EXCEPT ![w] = @ + vault]
  /\ donated' = 0

SettlePropVault(holds) ==
  /\ status = "Funded"
  /\ now >= lockTime
  /\ holds \in verdicts
  /\ Empty(IF holds THEN beneficiary ELSE depositor)
  /\ status' = IF holds THEN "PaidOut" ELSE "Refunded"
  /\ UNCHANGED <<now, verdicts, deal>>

\* checked_add: a deadline beyond the type never comes.
CancelPropVault ==
  /\ status = "Funded"
  /\ Deadline <= MaxTimestamp
  /\ now > Deadline
  /\ Empty(depositor)
  /\ status' = "Refunded"
  /\ UNCHANGED <<now, verdicts, deal>>

-----------------------------------------------------------------------------
(* The surroundings *)

\* External: a bare transfer into the vault's token account.
Donate(w, a) ==
  /\ status # "Absent"
  /\ funds[w] >= a
  /\ funds' = [funds EXCEPT ![w] = @ - a]
  /\ vault' = vault + a
  /\ donated' = donated + a
  /\ UNCHANGED <<now, verdicts, status, deal>>

\* External: one more proof becomes possible.
Publish(holds) ==
  /\ holds \notin verdicts
  /\ verdicts' = verdicts \cup {holds}
  /\ UNCHANGED <<now, status, deal, vault, funds, donated>>

Tick ==
  /\ now < MaxTime
  /\ now' = now + 1
  /\ UNCHANGED <<verdicts, status, deal, vault, funds, donated>>

Next ==
  \/ \E d, b \in Wallets, a \in Amounts, lock \in LockTimes,
        timeout \in Timeouts : InitializePropVault(d, b, a, lock, timeout)
  \/ \E holds \in BOOLEAN : SettlePropVault(holds) \/ Publish(holds)
  \/ CancelPropVault
  \/ \E w \in Wallets, a \in Amounts : Donate(w, a)
  \/ Tick

Spec == Init /\ [][Next]_vars

-----------------------------------------------------------------------------
(* Correctness properties *)

\* A funded vault holds the sum and what strangers added; a resolved one
\* has given everything away and holds only what was sent to it since.
VaultHoldsTheSum ==
  vault = donated + (IF status = "Funded" THEN amount ELSE 0)

\* "There is no version of this that pays the beneficiary without a proof"
\* (prop_vault.rs): money leaves the vault whole, once, and either to the
\* beneficiary of a predicate provable after the lock time, or to the
\* depositor with a proof that it failed or past the deadline.
ProofDecides ==
  [][vault' < vault =>
       /\ status = "Funded" /\ status' \in {"PaidOut", "Refunded"}
       /\ vault' = 0 /\ now >= lockTime
       /\ LET paid(w) == funds' = [funds EXCEPT ![w] = @ + vault]
          IN  \/ TRUE \in verdicts /\ paid(beneficiary)
              \/ /\ FALSE \in verdicts \/ now > lockTime + resolutionTimeout
                 /\ paid(depositor)]_vars

\* The terms, and how the vault was resolved, never change afterwards.
DealIsKept ==
  [][/\ status # "Absent" => UNCHANGED deal
     /\ status \in {"PaidOut", "Refunded"} => UNCHANGED status]_vars

\* "the depositor's money must not be trapped" (prop_vault.rs), proof or no
\* proof.
NeverTrapped == status = "Funded" ~> status # "Funded"
=============================================================================
