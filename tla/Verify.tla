-------------------------------- MODULE Verify --------------------------------
(***************************************************************************)
(* The verifiers: the web page, the SDK and its CLI, the receipt script    *)
(* and the integrity audit each re-derive a settlement from the market     *)
(* account, TxLINE's records and roots, and a simulation of TxLINE's       *)
(* program.  They are pure questions about a world w:                      *)
(*                                                                         *)
(*   w.ever      every record TxLINE committed to for the fixture: its     *)
(*               number, whether it is final, its day and its values       *)
(*   w.retained  the records its API still answers for                     *)
(*   w.roots     per roots address, the owner of the account there, or     *)
(*               "nobody"                                                  *)
(*   w.up        which of "scores", "proofs" and "rpc" answer              *)
(*                                                                         *)
(* A market m is its account: status, type, winning outcome, the day of    *)
(* its proof, the roots address it recorded, its combo spec and its own    *)
(* specs.  Hashing is abstracted to what it decides: a proof is authentic  *)
(* under a root iff its values are those of its record, of the root's day. *)
(***************************************************************************)
EXTENDS Catalogue

CONSTANTS
  Worlds,       (* what TxLINE and the chain may answer with               *)
  Settlements   (* the market accounts to verify                           *)

TXORACLE == "txoracle"
NoCombo  == [legs |-> <<>>, outcomes |-> <<>>]
NoReply  == [seq |-> -1, day |-> -1, values |-> <<>>]
Unread   == [legs |-> <<>>, outcome |-> <<>>]

\* the address of a day's roots: the seed is a u16.
dailyRootsPda(day) == day % 65536

\* A fixture has finitely many records, no two of a number; a record counts
\* every statistic; what is retained was recorded.
ASSUME WorldsAssumption ==
  \A w \in Worlds :
    /\ IsFiniteSet(w.ever) /\ w.retained \subseteq w.ever
    /\ w.up \subseteq {"rpc", "scores", "proofs"}
    /\ \A r \in w.ever :
         /\ r.seq \in Nat /\ r.day \in Nat /\ r.final \in BOOLEAN
         /\ r.stats \in [StatKeys -> Nat]
         /\ dailyRootsPda(r.day) \in DOMAIN w.roots
         /\ \A q \in w.ever : q.seq = r.seq => q = r

\* What the program lets be created and settled: its oracle is the one it was
\* built for, a combo passed the validation and one of its outcomes won, a spec
\* of its own reads one statistic or combines two.
ASSUME SettlementsAssumption ==
  \A m \in Settlements :
    /\ m.oracle = TXORACLE /\ m.type \in Nat
    /\ IF m.type < 16
       THEN LET legs == m.specs[m.winning].legs
            IN  legs \in Seq(StatKeys) /\ Len(legs) \in {1, 2}
       ELSE m.combo # NoCombo =>
              /\ m.combo.legs \in Seq(StatKeys)
              /\ \A o \in DOMAIN m.combo.outcomes : m.combo.outcomes[o] \in Seq(Predicate)
              /\ validate(m.combo.legs, m.combo.outcomes)
              /\ m.winning \in DOMAIN m.combo.outcomes

-----------------------------------------------------------------------------
(* TxLINE: its records, its proofs and its program *)

\* the newest of the records with the status "finalised", else of all.
\* Mutant of findSeq: always the newest.
findSeqLatest(records) == CHOOSE r \in records : \A q \in records : q.seq <= r.seq

findSeq(records) ==
  LET finals == {r \in records : r.final}
      pool   == IF finals = {} THEN records ELSE finals
  IN  CHOOSE r \in pool : \A q \in pool : q.seq <= r.seq

ValuesAt(record, keys) == [i \in DOMAIN keys |-> record.stats[keys[i]]]

\* stat-validation-v3: the values of a record at the keys asked for.
StatValidation(record, keys) ==
  [seq |-> record.seq, day |-> record.day, values |-> ValuesAt(record, keys)]

Authentic(w, q, reply, address) ==
  \E r \in w.ever :
    /\ r.seq = reply.seq /\ dailyRootsPda(r.day) = address
    /\ ValuesAt(r, q.legs) = reply.values

\* validate_stat_v3, simulated against the roots at an address.
validateStatV3(w, q, reply, address) ==
  IF /\ "rpc" \in w.up
     /\ w.roots[address] = TXORACLE
     /\ dailyRootsPda(reply.day) = address
     /\ Authentic(w, q, reply, address)
  THEN evaluate_strategy(q.outcome, reply.values)
  ELSE "error"

-----------------------------------------------------------------------------
(* The question a market committed to: the keys to prove and the predicates  *)
(* to evaluate, read from its account and never from the caller.             *)

strategyFromCombo(combo, winning) ==
  [legs |-> combo.legs, outcome |-> combo.outcomes[winning]]

strategyFromLegacy(spec) ==
  [legs |-> spec.legs,
   outcome |-> <<IF Len(spec.legs) = 2
                 THEN binary(1, 2, spec.op, spec.comparison, spec.threshold)
                 ELSE single(1, spec.comparison, spec.threshold)>>]

Question(m) ==
  IF m.type < 16 THEN strategyFromLegacy(m.specs[m.winning])
  ELSE IF m.combo = NoCombo THEN Unread
  ELSE strategyFromCombo(m.combo, m.winning)

-----------------------------------------------------------------------------
(* The verify page *)

RootIsTxlines(w, m) ==
  /\ dailyRootsPda(m.day) = m.roots
  /\ w.roots[m.roots] = TXORACLE

\* the reply, or the error of either request.
FetchedProof(w, q) ==
  IF {"scores", "proofs"} \subseteq w.up /\ w.retained # {}
  THEN StatValidation(findSeq(w.retained), q.legs)
  ELSE NoReply

\* tamperProof reads a field the payload does not have, and throws outside any
\* handler: the page never leaves the last step.
webVerdict(w, q, reply, tamper) ==
  IF tamper THEN "stuck"
  ELSE IF validateStatV3(w, q, reply, dailyRootsPda(reply.day)) = "true"
  THEN "verified"
  ELSE "oracle"

\* verified, or the step that failed.
webVerify(w, m, tamper) ==
  IF "rpc" \notin w.up \/ m.status # "settled" THEN "settlement"
  ELSE IF Question(m) = Unread THEN "predicate"
  ELSE IF ~RootIsTxlines(w, m) THEN "root"
  ELSE IF FetchedProof(w, Question(m)) = NoReply THEN "proof"
  ELSE webVerdict(w, Question(m), FetchedProof(w, Question(m)), tamper)

-----------------------------------------------------------------------------
(* The SDK *)

findFinalisedSeq(w) ==
  IF "scores" \in w.up /\ w.retained # {} THEN {findSeq(w.retained)} ELSE {}

fetchProofV3(w, keys) ==
  IF "proofs" \in w.up /\ Len(keys) \in 1..MAX_LEGS
  THEN {StatValidation(r, keys) : r \in findFinalisedSeq(w)}
  ELSE {}

Tampered(reply) == [reply EXCEPT !.values[1] = @ + 1]

\* Throws without a proof, or without TxLINE's root for the proof's day.
verifyProof(w, q, tamper) ==
  {validateStatV3(w, q, IF tamper THEN Tampered(reply) ELSE reply,
                  dailyRootsPda(reply.day)) = "true" :
     reply \in {p \in fetchProofV3(w, q.legs) :
                  w.roots[dailyRootsPda(p.day)] = TXORACLE}}

verifySettlement(w, m, tamper) ==
  IF "rpc" \notin w.up \/ m.status # "settled" THEN "settlement"
  ELSE IF Question(m) = Unread THEN "predicate"
  ELSE IF verifyProof(w, Question(m), tamper) = {} THEN "proof"
  ELSE IF verifyProof(w, Question(m), tamper) = {TRUE} THEN "verified"
  ELSE "oracle"

\* The CLI: an exit code of zero also for a forgery that was not accepted.
cmdVerify(w, m, tamper) ==
  IF verifySettlement(w, m, tamper) = "verified" \/ tamper THEN 0 ELSE 1

rootIsPublished(w, day) == w.roots[dailyRootsPda(day)] = TXORACLE

verifyWithOracle(w, q, reply) ==
  validateStatV3(w, q, reply, dailyRootsPda(reply.day))

\* The receipt check of an integrator that brings keys and strategy along.
verifyReceipt(w, q) ==
  IF fetchProofV3(w, q.legs) = {} THEN "threw"
  ELSE LET reply == CHOOSE p \in fetchProofV3(w, q.legs) : TRUE
       IN  IF ~rootIsPublished(w, reply.day) THEN "retry"
           ELSE verifyWithOracle(w, q, reply)

\* A receipt rebuilt from the accounts alone.
reconstructReceipt(m) ==
  [status |-> m.status, type |-> m.type, winning |-> m.winning,
   day |-> m.day, roots |-> m.roots,
   legs |-> IF m.type >= 16 THEN m.combo.legs ELSE <<>>]

-----------------------------------------------------------------------------
(* The receipt script: the same steps, but the oracle is asked under the root *)
(* of the receipt's day, and a forgery is tried after a success.              *)

scriptVerify(w, m) ==
  /\ "rpc" \in w.up /\ m.status = "settled"
  /\ Question(m) # Unread
  /\ RootIsTxlines(w, m)
  /\ \E reply \in fetchProofV3(w, Question(m).legs) :
       /\ validateStatV3(w, Question(m), reply, m.roots) = "true"
       /\ validateStatV3(w, Question(m), Tampered(reply), m.roots) # "true"

-----------------------------------------------------------------------------
(* The integrity audit of one receipt: row is what the database says, tx what *)
(* became of the settling transaction.                                        *)

\* Step 1: what the account must say, whatever TxLINE answers.
ChainAgrees(m, row) ==
  /\ m.status = "settled"
  /\ m.winning = row.winning
  /\ m.ref = row.ref
  /\ m.oracle = TXORACLE
  /\ dailyRootsPda(m.day) = m.roots

\* no answer and no record look the same to it.
auditProof(w, q) ==
  IF findFinalisedSeq(w) = {} THEN {} ELSE fetchProofV3(w, q.legs)

SettleTxShowsTheOracle(w, tx) == tx = "oracle succeeded"

auditVerdict(w, m, row, tx) ==
  IF "rpc" \notin w.up THEN "UNREACHABLE"
  ELSE IF ~ChainAgrees(m, row) \/ Question(m) = Unread THEN "FAIL"
  ELSE IF auditProof(w, Question(m)) # {}
  THEN IF \A reply \in auditProof(w, Question(m)) :
            verifyWithOracle(w, Question(m), reply) = "true"
       THEN "VERIFIED_LIVE" ELSE "FAIL"
  ELSE IF SettleTxShowsTheOracle(w, tx) THEN "VERIFIED_TX" ELSE "FAIL"

-----------------------------------------------------------------------------
(* The SDK's predicate builder and the CLI's reference market *)

conditionOf(name) ==
  CASE name = "homeWin"     -> homeWin
    [] name = "overGoals"   -> overGoals(2)
    [] name = "overCorners" -> overCorners(9)
    [] name = "overCards"   -> overYellows(3)

\* cmdPredicate --check, and the refusal of parlay.
DisjointFamilies(x, y) ==
  {familyOf(x[i]) : i \in DOMAIN x} \cap {familyOf(y[i]) : i \in DOMAIN y} = {}

parlay(a, b) ==
  IF DisjointFamilies(a.legs, b.legs) /\ Len(a.legs) + Len(b.legs) <= 5
  THEN parlayGrid(a, b)
  ELSE NoCombo

\* every leg referenced exactly once, counted over the predicates.
assertCoverage(n, outcome) ==
  LET seen(i) == Cardinality({r \in Reads(outcome) : LegAt(outcome, r) = i})
  IN  /\ \A r \in Reads(outcome) : LegAt(outcome, r) <= n
      /\ \A i \in 1..n : seen(i) = 1

\* `market create`: the match result on goals.
createSpecs ==
  [o \in 1..3 |-> [legs |-> Goals, op |-> "subtract", threshold |-> 0,
                   comparison |-> <<GT, EQ, LT>>[o]]]

\* `market settle`: the outcome it claims, whatever the market's specs are.
cliClaim(values) ==
  IF values[1] > values[2] THEN 1 ELSE IF values[1] < values[2] THEN 3 ELSE 2

-----------------------------------------------------------------------------
(* Correctness *)

\* the record a market could be settled with.
Settleable(m, record) ==
  /\ m.status = "settled" /\ Question(m) # Unread
  /\ AllHold(Question(m).outcome, ValuesAt(record, Question(m).legs))

\* Settled with the newest final record, under the root TxLINE published for
\* its day.
Honest(w, m) ==
  \E r \in w.ever :
    /\ r.final /\ \A q \in w.ever : q.final => q.seq <= r.seq
    /\ Settleable(m, r)
    /\ m.day = r.day /\ RootIsTxlines(w, m)

FinalIsRetained(w) == \A r \in w.ever : r.final => r \in w.retained

Row(m) == [winning |-> m.winning, ref |-> m.ref]

audited(w, m, tx) == auditVerdict(w, m, Row(m), tx)
auditedLive(w, m) == audited(w, m, "oracle succeeded") = "VERIFIED_LIVE"

\* Whoever calls a market verified has a proof of it: some record TxLINE
\* committed to, under a root of its own, shows the winning outcome.
VerdictIsProven(w, m) ==
  cmdVerify(w, m, FALSE) = 0 =>
    \E r \in w.ever : Settleable(m, r) /\ rootIsPublished(w, r.day)

\* The page, the script and the audit are never more lenient than the SDK, nor
\* the script than the page and the audit.
VerifiersAgree(w, m) ==
  /\ webVerify(w, m, FALSE) = "verified" \/ auditedLive(w, m) \/ scriptVerify(w, m) =>
       verifySettlement(w, m, FALSE) = "verified"
  /\ scriptVerify(w, m) => webVerify(w, m, FALSE) = "verified" /\ auditedLive(w, m)

\* While its final record is retained an honest settlement verifies with every
\* verifier, whatever was recorded later, and the audit never fails it.
HonestyIsSeen(w, m) ==
  Honest(w, m) /\ FinalIsRetained(w) =>
    /\ w.up = {"rpc", "scores", "proofs"} =>
         webVerify(w, m, FALSE) = "verified" /\ auditedLive(w, m) /\ scriptVerify(w, m)
    /\ audited(w, m, "oracle succeeded") # "FAIL"

\* A forgery verifies with nobody.
ForgeriesFail(w, m) ==
  webVerify(w, m, TRUE) # "verified" /\ verifySettlement(w, m, TRUE) # "verified"

\* A receipt rebuilt from chain, checked with the keys it carries, gets the
\* verdict of the settlement.
ReceiptIsEnough(w, m) ==
  m.status = "settled" /\ reconstructReceipt(m).legs # <<>> =>
    (verifySettlement(w, m, FALSE) = "verified" <=>
       verifyReceipt(w, [legs    |-> reconstructReceipt(m).legs,
                         outcome |-> Question(m).outcome]) = "true")

VerdictsOf(w, m) ==
  /\ VerdictIsProven(w, m) /\ VerifiersAgree(w, m) /\ HonestyIsSeen(w, m)
  /\ ForgeriesFail(w, m) /\ ReceiptIsEnough(w, m)

\* The reference market of the CLI is settled on the outcome its specs prove.
CliClaimsWhatHolds(record) ==
  LET values == ValuesAt(record, Goals)
      q      == strategyFromLegacy(createSpecs[cliClaim(values)])
  IN  evaluate_strategy(q.outcome, values) = "true"

\* No parlay the builder lets through is refused by the program or the oracle
\* for its coverage, which is exactly what the builder counts.
ParlaysAreEvaluated ==
  \A a, b \in {"homeWin", "overGoals", "overCorners", "overCards"} :
    LET market == parlay(conditionOf(a), conditionOf(b))
    IN  market # NoCombo =>
          /\ validate(market.legs, market.outcomes)
          /\ \A o \in DOMAIN market.outcomes :
               assertCoverage(Len(market.legs), market.outcomes[o])

AllVerdicts ==
  /\ \A w \in Worlds : /\ \A m \in Settlements : VerdictsOf(w, m)
                        /\ \A r \in w.ever : CliClaimsWhatHolds(r)
  /\ ParlaysAreEvaluated
=============================================================================
