------------------------------- MODULE Faucet -------------------------------
(***************************************************************************)
(* The demo faucet: one pre-funded wallet that hands test tokens, and the  *)
(* SOL a bet needs, to whoever asks, limited by a ledger in Postgres.      *)
(*                                                                         *)
(* A request reads the ledger, the SOL balance and the token account, each *)
(* with a call of its own, signs one transaction over the latest           *)
(* blockhash, sends it, polls until it is confirmed, and only then writes  *)
(* the ledger.  Requests overlap: Slots are the requests that are served   *)
(* at a time.  The faucet's key signs all of them, so two requests of one  *)
(* wallet that make the same plan over the same blockhash make the same    *)
(* transaction: what is sent is a set, and such a transaction lands once.  *)
(***************************************************************************)
EXTENDS Integers, FiniteSets, Sums

CONSTANTS
  Wallets,
  Slots,          (* the requests in progress                               *)
  Grant,          (* USDC_GRANT                                             *)
  Ceiling,        (* USDC_CEILING                                           *)
  MaxGrants,      (* MAX_GRANTS                                             *)
  Float,          (* what setup-faucet mints for the faucet                 *)
  MaxRequests, MaxRefills, MaxFaults (* bound requests, refills and faults  *)

ASSUME WalletsAssumption == Wallets # {} /\ IsFiniteSet(Wallets) /\ IsFiniteSet(Slots)
ASSUME AmountAssumption == /\ {Grant, Ceiling, MaxGrants, Float} \subseteq Nat \ {0}
                           /\ {MaxRequests, MaxRefills, MaxFaults} \subseteq Nat

VARIABLES
  wallet,     (* what each wallet has on chain: account, tokens, SOL        *)
  reserve,    (* the faucet's tokens                                        *)
  spent,      (* tokens that were bet                                       *)
  block,      (* the latest blockhash that was read                         *)
  pending,    (* transactions that were sent and not yet executed           *)
  executed,   (* transactions that landed                                   *)
  failed,     (* transactions that landed with an error                     *)
  ledger,     (* faucetGrant: grants, and whether the last is recent        *)
  credits,    (* history: which request wrote which transaction down        *)
  req,        (* where each request is, and its transaction                 *)
  onboarding, (* the wallets whose page shows "funded"                      *)
  requests, refilled, faults

purses == <<wallet, reserve, spent>>
cluster == <<block, pending, executed, failed>>
books  == <<ledger, credits>>
bounds == <<requests, refilled, faults>>
faucetVars == <<purses, cluster, books, req, onboarding, bounds>>

Clean(w) == [for |-> w, sol |-> FALSE, create |-> FALSE, usdc |-> FALSE, block |-> 0]

Free == [pc |-> "free", tx |-> Clean(CHOOSE w \in Wallets : TRUE)]

FaucetInit ==
  /\ wallet = [w \in Wallets |-> [account |-> FALSE, usdc |-> 0, sol |-> FALSE]]
  /\ reserve = Float /\ spent = 0
  /\ block = 0 /\ pending = {} /\ executed = {} /\ failed = {}
  /\ ledger = [w \in Wallets |-> [grants |-> 0, recent |-> FALSE]] /\ credits = {}
  /\ req = [s \in Slots |-> Free]
  /\ onboarding = {}
  /\ requests = 0 /\ refilled = 0 /\ faults = 0

Fault == faults < MaxFaults /\ faults' = faults + 1

Tx(s)  == req[s].tx
For(s) == req[s].tx.for

Goes(s, pc, tx) == req' = [req EXCEPT ![s] = [pc |-> pc, tx |-> tx]]
Ends(s)         == req' = [req EXCEPT ![s] = Free]

-----------------------------------------------------------------------------
(* fund *)

Ask(s, w) ==
  /\ req[s].pc = "free" /\ requests < MaxRequests
  /\ requests' = requests + 1
  /\ Goes(s, "ledger", Clean(w))
  /\ UNCHANGED <<purses, cluster, books, onboarding, refilled, faults>>

\* Mutant of CheckLedger: only the cooldown is looked at.
CheckLedgerUncapped(s) ==
  /\ req[s].pc = "ledger"
  /\ IF ledger[For(s)].recent THEN Ends(s) ELSE Goes(s, "sol", Tx(s))
  /\ UNCHANGED <<purses, cluster, books, onboarding, bounds>>

\* Slowed down or refused, or let through.
CheckLedger(s) ==
  /\ req[s].pc = "ledger"
  /\ IF ledger[For(s)].recent \/ ledger[For(s)].grants >= MaxGrants
     THEN Ends(s) ELSE Goes(s, "sol", Tx(s))
  /\ UNCHANGED <<purses, cluster, books, onboarding, bounds>>

ReadSol(s) ==
  /\ req[s].pc = "sol"
  /\ Goes(s, "token", [Tx(s) EXCEPT !.sol = ~wallet[For(s)].sol])
  /\ UNCHANGED <<purses, cluster, books, onboarding, bounds>>

\* A wallet that has enough of everything is told so.
Planned(s, account, held) ==
  LET plan == [Tx(s) EXCEPT !.create = ~account, !.usdc = held < Ceiling]
  IN  IF plan.sol \/ plan.create \/ plan.usdc
      THEN Goes(s, "hash", plan) /\ UNCHANGED onboarding
      ELSE Ends(s) /\ onboarding' = onboarding \cup {For(s)}

\* A call that fails reads like an account that does not exist.
ReadToken(s) ==
  /\ req[s].pc = "token"
  /\ \/ /\ UNCHANGED faults
        /\ Planned(s, wallet[For(s)].account, wallet[For(s)].usdc)
     \/ Fault /\ Planned(s, FALSE, 0)
  /\ UNCHANGED <<purses, cluster, books, requests, refilled>>

\* Any other call that fails ends the request.
CallFails(s) ==
  /\ req[s].pc \in {"ledger", "sol", "hash", "send", "record"} /\ Fault
  /\ Ends(s)
  /\ UNCHANGED <<purses, cluster, books, onboarding, requests, refilled>>

-----------------------------------------------------------------------------
(* sendAndConfirm *)

\* The latest blockhash may still be the one that another request read.
ReadBlockhash(s) ==
  /\ req[s].pc = "hash"
  /\ \E b \in {block, block + 1} :
       block' = b /\ Goes(s, "send", [Tx(s) EXCEPT !.block = b])
  /\ UNCHANGED <<purses, pending, executed, failed, books, onboarding, bounds>>

\* Mutant of Valid: the account is created unless it exists.
ValidIdempotent(t) == t.usdc => reserve >= Grant

\* The transaction is executed as a whole or fails: an account that exists
\* cannot be created, and the faucet cannot send what it does not have.
Valid(t) == /\ t.create => ~wallet[t.for].account
            /\ t.usdc => reserve >= Grant

Landed(t) == t \in executed \cup failed

\* A transaction that is on its way, or has landed, is not sent twice.
Sent(t) == pending' = IF Landed(t) THEN pending ELSE pending \cup {t}

\* The node simulates the transaction: it refuses one that would fail, and one
\* that it knows to have landed.
Send(s) ==
  /\ req[s].pc = "send"
  /\ \/ Sent(Tx(s)) /\ Goes(s, "sent", Tx(s))
     \/ ~Valid(Tx(s)) /\ Ends(s) /\ UNCHANGED pending
     \/ Landed(Tx(s)) /\ Ends(s) /\ UNCHANGED pending
  /\ UNCHANGED <<purses, block, executed, failed, books, onboarding, bounds>>

\* The answer of the node is lost: the transaction is on its way.
SendUnanswered(s) ==
  /\ req[s].pc = "send" /\ Fault
  /\ Sent(Tx(s)) /\ Ends(s)
  /\ UNCHANGED <<purses, block, executed, failed, books, onboarding, requests, refilled>>

Lands(t) ==
  /\ wallet' = [wallet EXCEPT ![t.for] =
       [account |-> TRUE, sol |-> @.sol \/ t.sol,
        usdc |-> IF t.usdc THEN @.usdc + Grant ELSE @.usdc]]
  /\ reserve' = IF t.usdc THEN reserve - Grant ELSE reserve
  /\ executed' = executed \cup {t}

\* What was sent is executed, at any time, whether anybody waits for it or not.
Execute(t) ==
  /\ t \in pending
  /\ pending' = pending \ {t}
  /\ IF Valid(t) THEN Lands(t) /\ UNCHANGED failed
     ELSE failed' = failed \cup {t} /\ UNCHANGED <<wallet, reserve, executed>>
  /\ UNCHANGED <<spent, block, books, req, onboarding, bounds>>

\* Mutant of Poll: only a confirmation is looked for.
PollNoError(s) ==
  /\ req[s].pc = "sent" /\ Tx(s) \in executed
  /\ Goes(s, "record", Tx(s))
  /\ UNCHANGED <<purses, cluster, books, onboarding, bounds>>

\* An error throws; so do a time-out, a blockhash that expired and a call that
\* fails, and what was sent may have landed since the last poll, or land later.
Poll(s) ==
  /\ req[s].pc = "sent"
  /\ \/ Tx(s) \in executed /\ Goes(s, "record", Tx(s)) /\ UNCHANGED faults
     \/ Tx(s) \in failed /\ Ends(s) /\ UNCHANGED faults
     \/ Fault /\ Ends(s)
  /\ UNCHANGED <<purses, cluster, books, onboarding, requests, refilled>>

\* The grant is written, and answered.
Record(s) ==
  /\ req[s].pc = "record"
  /\ ledger' = [ledger EXCEPT ![For(s)] = [grants |-> @.grants + 1, recent |-> TRUE]]
  /\ credits' = credits \cup {<<s, Tx(s)>>}
  /\ onboarding' = onboarding \cup {For(s)}
  /\ Ends(s)
  /\ UNCHANGED <<purses, cluster, bounds>>

-----------------------------------------------------------------------------
(* Around it *)

\* COOLDOWN_SEC pass, in which there are many blocks.
CoolDown(w) ==
  /\ ledger[w].recent /\ ledger' = [ledger EXCEPT ![w].recent = FALSE]
  /\ block' = block + 1
  /\ UNCHANGED <<purses, pending, executed, failed, credits, req, onboarding, bounds>>

\* The wallet bets all it has, and the SOL goes in rents and fees.
Spend(w) ==
  /\ wallet[w].usdc > 0
  /\ spent' = spent + wallet[w].usdc
  /\ wallet' = [wallet EXCEPT ![w] = [account |-> @.account, usdc |-> 0, sol |-> FALSE]]
  /\ UNCHANGED <<reserve, cluster, books, req, onboarding, bounds>>

\* setup-faucet tops the faucet up when it holds less than half its float.
Refill ==
  /\ refilled < MaxRefills /\ 2 * reserve < Float
  /\ refilled' = refilled + 1 /\ reserve' = reserve + Float
  /\ UNCHANGED <<wallet, spent, cluster, books, req, onboarding, requests, faults>>

Serve(s) == \/ CheckLedger(s) \/ ReadSol(s) \/ ReadToken(s) \/ CallFails(s)
            \/ ReadBlockhash(s) \/ Send(s) \/ SendUnanswered(s) \/ Poll(s) \/ Record(s)

FaucetNext ==
  \/ \E s \in Slots : Serve(s) \/ \E w \in Wallets : Ask(s, w)
  \/ \E t \in pending : Execute(t)
  \/ \E w \in Wallets : CoolDown(w) \/ Spend(w)
  \/ Refill

FaucetSpec == FaucetInit /\ [][FaucetNext]_faucetVars

\* A request goes on by itself, what was sent is executed, and the cooldown passes.
FairFaucet ==
  /\ FaucetSpec
  /\ \A s \in Slots : WF_faucetVars(Serve(s))
  /\ WF_faucetVars(\E t \in pending : Execute(t))
  /\ \A w \in Wallets : WF_faucetVars(CoolDown(w))

-----------------------------------------------------------------------------
(* Correctness properties *)

\* Requests of a wallet that overlap are all let through before the first of
\* them is written down, so MAX_GRANTS is not "per wallet, ever" (.env.example:107);
\* even so no wallet's ledger exceeds its share by more than the requests that
\* were under way.
ShareIsBounded ==
  \A w \in Wallets : ledger[w].grants < MaxGrants + Cardinality(Slots)

Granted(w) == {t \in executed : t.for = w}

\* The requests whose transaction has landed and is not yet written down.
Unrecorded(w) ==
  {s \in Slots : For(s) = w /\ req[s].pc \in {"sent", "record"} /\ Tx(s) \in executed}

\* Every transaction that reached a wallet is in the ledger, or a request is on
\* its way to write it, or a call failed in between.  The ledger may say more, and
\* refuse a wallet that has not "had its share" (faucet.ts:108): a transaction is
\* written down by each request that sent it, but by none twice.
LedgerIsAccounted ==
  \A w \in Wallets :
    /\ Cardinality(Granted(w)) <= ledger[w].grants + Cardinality(Unrecorded(w)) + faults
    /\ ledger[w].grants + Cardinality(Unrecorded(w))
         <= Cardinality(Slots) * Cardinality(Granted(w))

\* Tokens are neither made nor lost, every grant is accounted for, and overlapping
\* requests of a new wallet fund it once: a token account is created by one
\* transaction only, and the others fail as a whole.
TokensAreConserved ==
  /\ LedgerIsAccounted
  /\ reserve + spent + Sum([w \in Wallets |-> wallet[w].usdc], Wallets)
       = Float * (1 + refilled)
  /\ \A t, u \in executed : t.for = u.for /\ t.create /\ u.create => t = u

\* Every request is answered.
EveryRequestEnds == \A s \in Slots : req[s].pc # "free" ~> req[s].pc = "free"

-----------------------------------------------------------------------------
(* Why no share is exceeded and no token lost *)

Transactions == [for : Wallets, sol : BOOLEAN, create : BOOLEAN, usdc : BOOLEAN, block : Nat]

Requests ==
  [pc : {"free", "ledger", "sol", "token", "hash", "send", "sent", "record"}, tx : Transactions]

FaucetTypes ==
  /\ wallet \in [Wallets -> [account : BOOLEAN, usdc : Nat, sol : BOOLEAN]]
  /\ {reserve, spent, refilled, faults, block} \subseteq Nat
  /\ pending \subseteq Transactions /\ executed \subseteq Transactions
  /\ failed \subseteq Transactions
  /\ IsFiniteSet(pending) /\ IsFiniteSet(executed)
  /\ ledger \in [Wallets -> [grants : Nat, recent : BOOLEAN]]
  /\ credits \subseteq Slots \X executed
  /\ req \in [Slots -> Requests]

\* What a request waits for was sent, what it writes down has landed, and nothing
\* is made over a blockhash that is yet to come.
RequestsInOrder ==
  /\ \A s \in Slots :
       /\ req[s].pc = "sent" => Tx(s) \in pending \cup executed \cup failed
       /\ req[s].pc = "record" => Tx(s) \in executed
  /\ \A t \in pending \cup executed : t.block <= block
  /\ pending \cap executed = {} /\ failed \cap (pending \cup executed) = {}

\* The requests of a wallet that the ledger has let through.
Through(w) == {s \in Slots : For(s) = w /\ req[s].pc \notin {"free", "ledger"}}

\* When the last of them was let through the ledger was below MaxGrants, and
\* each of them may add one.
RoomInTheShare ==
  \A w \in Wallets :
    ledger[w].grants + Cardinality(Through(w)) < MaxGrants + Cardinality(Slots)

Credits(w) == {c \in credits : c[2].for = w}

\* The ledger counts what was written, and no request writes what it has written
\* before: until the cooldown has passed it is not let through again, and then
\* the blockhash is another.
WrittenOnce ==
  /\ \A w \in Wallets : ledger[w].grants = Cardinality(Credits(w))
  /\ \A s \in Slots : req[s].pc \in {"send", "sent", "record"} => <<s, Tx(s)>> \notin credits
  /\ \A s \in Slots : req[s].pc = "send" => Tx(s).block <= block
  /\ \A s \in Slots, t \in executed :
       <<s, t>> \in credits /\ t.block = block =>
         /\ ledger[t.for].recent
         /\ For(s) = t.for => req[s].pc \notin {"sol", "token", "hash"}

Awaited(t) == \E s \in Slots : req[s].pc \in {"sent", "record"} /\ Tx(s) = t

Written(t) == \E s \in Slots : <<s, t>> \in credits

\* What landed, or may land, and nobody will write down.
Abandoned == {t \in pending \cup executed : ~Awaited(t) /\ ~Written(t)}

AbandonedForFaults == Cardinality(Abandoned) <= faults

\* A wallet that was sent anything has an account, and one transaction made it.
CreatedOnce ==
  /\ \A t \in executed : wallet[t.for].account
  /\ \A t, u \in executed : t.for = u.for /\ t.create /\ u.create => t = u

TokensAdd == reserve + spent + Sum([w \in Wallets |-> wallet[w].usdc], Wallets)
               = Float * (1 + refilled)

FaucetInv == /\ FaucetTypes /\ RequestsInOrder /\ RoomInTheShare /\ WrittenOnce
             /\ AbandonedForFaults /\ CreatedOnce /\ TokensAdd
=============================================================================
