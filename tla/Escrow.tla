------------------------------- MODULE Escrow -------------------------------
(***************************************************************************)
(* What a Proofbook market promises the people who put money in it, with   *)
(* no pools, clocks, proofs or rounding rules: the escrow takes deposits,  *)
(* decides once, and then either gives every deposit back in full or pays  *)
(* out a budget to the entitled depositors, each of them once, each at     *)
(* least the whole part of a pro rata share, all of it in the end.         *)
(***************************************************************************)
EXTENDS Integers, FiniteSets, Sums

CONSTANT Parties

VARIABLES
  phase,      (* "taking", then "paying" or "refunding" for good *)
  deposit,    (* what each party put in                          *)
  held,       (* what the escrow holds                           *)
  entitled,   (* the parties a decision pays                     *)
  budget,     (* what it pays them in total                      *)
  rest,       (* the part of the budget not paid yet             *)
  fee,        (* the part of the decision kept for the operator  *)
  done        (* the parties that have been paid or refunded     *)

vars == <<phase, deposit, held, entitled, budget, rest, fee, done>>

Init ==
  /\ phase = "taking"
  /\ deposit = [p \in Parties |-> 0]
  /\ held = 0 /\ entitled = {} /\ budget = 0 /\ rest = 0 /\ fee = 0
  /\ done = {}

Deposit(p) ==
  /\ phase = "taking"
  /\ deposit'[p] > deposit[p]
  /\ deposit' = [deposit EXCEPT ![p] = deposit'[p]]
  /\ held' = held + deposit'[p] - deposit[p]
  /\ UNCHANGED <<phase, entitled, budget, rest, fee, done>>

DecidePayment ==
  /\ phase = "taking"
  /\ phase' = "paying"
  /\ entitled' \subseteq {p \in Parties : deposit[p] > 0}
  /\ entitled' # {}
  /\ budget' + fee' = held
  /\ 10 * fee' <= held
  /\ rest' = budget'
  /\ UNCHANGED <<deposit, held, done>>

DecideRefund ==
  /\ phase = "taking"
  /\ phase' = "refunding"
  /\ UNCHANGED <<deposit, held, entitled, budget, rest, fee, done>>

\* The last entitled party takes the rest.
Pay(p) ==
  /\ phase = "paying"
  /\ p \in entitled \ done
  /\ (held - held') * Sum(deposit, entitled) + Sum(deposit, entitled)
       > deposit[p] * budget
  /\ entitled \ done = {p} => held - held' = rest
  /\ rest' = rest - (held - held') /\ rest' >= 0
  /\ done' = done \cup {p}
  /\ UNCHANGED <<phase, deposit, entitled, budget, fee>>

PayFee ==
  /\ phase = "paying"
  /\ fee > 0
  /\ held' = held - fee
  /\ fee' = 0
  /\ UNCHANGED <<phase, deposit, entitled, budget, rest, done>>

Refund(p) ==
  /\ phase = "refunding"
  /\ p \notin done
  /\ deposit[p] > 0
  /\ held' = held - deposit[p]
  /\ done' = done \cup {p}
  /\ UNCHANGED <<phase, deposit, entitled, budget, rest, fee>>

Next ==
  \/ \E p \in Parties : Deposit(p) \/ Pay(p) \/ Refund(p)
  \/ DecidePayment \/ DecideRefund
  \/ PayFee

Spec == Init /\ [][Next]_vars
=============================================================================
