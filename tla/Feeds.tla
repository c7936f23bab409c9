------------------------------- MODULE Feeds --------------------------------
(***************************************************************************)
(* The keeper's ears: the TxLINE session with its two credentials, the two *)
(* event streams and the REST calls that share it, and the ingestion of    *)
(* the score records.                                                      *)
(*                                                                         *)
(* A credential is the number of its generation: those issued between two  *)
(* expiries, or two rejections, are refused together.  A renewal of the    *)
(* guest JWT is shared by all who wait for it, a subscription is not.      *)
(* Every await is a step, so a credential may die between being read and   *)
(* being used.                                                             *)
(*                                                                         *)
(* External: the TxLINE server.  It looks at the JWT before the token; it  *)
(* resumes after the event id it is given, or earlier, and without one it  *)
(* begins where it likes.  Backoff delays are left out.                    *)
(***************************************************************************)
EXTENDS Integers, FiniteSets, FiniteSetsExt

CONSTANTS
  Streams,     (* the event streams; "scores" is one                       *)
  Carries,     (* the score records in order: the goals each tells of      *)
  MaxFaults    (* bounds expiries, rejections, failed calls, drops, crashes*)

Records == DOMAIN Carries
Sides   == {"p1", "p2"}
Final   == Cardinality(Records)
Unset   == -1

ASSUME StreamsAssumption == "scores" \in Streams /\ {"rest", "ensure"} \cap Streams = {}
ASSUME RecordsAssumption == /\ Final \in Nat /\ Records = 1..Final
                            /\ \A r \in Records : Carries[r] \in [Sides -> Nat \cup {Unset}]
ASSUME FaultAssumption == MaxFaults \in Nat

VARIABLES
  process,    (* "down", "ensuring", "syncing" or "running"                *)
  jwt, token, (* the session of the store; 0 is none                       *)
  dead,       (* the last generation of each that the server refuses       *)
  renewing,   (* this.renewing: a renewal is under way                     *)
  call,       (* per caller, where its request is and what it carries      *)
  published,  (* the score records that exist                              *)
  lastId,     (* lastEventId of the scores stream, 0 is undefined          *)
  cursor,     (* the record its connection is at                           *)
  fixture,    (* the fixture in the store, and the records merged into it  *)
  kept,       (* the fixture that was saved                                *)
  skipped,    (* the records the server began after, having no id          *)
  faults

session == <<jwt, token, dead, renewing>>
feed    == <<published, lastId, cursor, fixture, kept, skipped>>
vars    == <<process, jwt, token, dead, renewing, call, published, lastId,
             cursor, fixture, kept, skipped, faults>>

Callers == Streams \cup {"rest", "ensure"}

\* spent: the refusals that will not be answered by another attempt.
Quiet == [at |-> "quiet", jwt |-> 0, token |-> 0, spent |-> {}]

Blank == [lastSeq |-> 0, score |-> [s \in Sides |-> 0], merged |-> {}]

Init ==
  /\ process = "down"
  /\ jwt = 0 /\ token = 0 /\ dead = [jwt |-> 0, token |-> 0]
  /\ renewing = FALSE
  /\ call = [c \in Callers |-> Quiet]
  /\ published = 0 /\ lastId = 0 /\ cursor = 0
  /\ fixture = Blank /\ kept = Blank
  /\ skipped = {}
  /\ faults = 0

Fault == faults < MaxFaults /\ faults' = faults + 1

At(c, where) == call' = [call EXCEPT ![c].at = where]

-----------------------------------------------------------------------------
(* The server *)

Publish ==
  /\ published < Final /\ published' = published + 1
  /\ UNCHANGED <<process, session, call, lastId, cursor, fixture, kept, skipped,
                 faults>>

\* All JWTs issued so far expire.
Expire ==
  /\ dead.jwt < jwt /\ Fault
  /\ dead' = [dead EXCEPT !.jwt = jwt]
  /\ UNCHANGED <<process, jwt, token, renewing, call, feed>>

\* All tokens activated so far are rejected.
Reject ==
  /\ dead.token < token /\ Fault
  /\ dead' = [dead EXCEPT !.token = token]
  /\ UNCHANGED <<process, jwt, token, renewing, call, feed>>

Status(c) == IF call[c].jwt <= dead.jwt THEN 401
             ELSE IF call[c].token <= dead.token THEN 403 ELSE 200

-----------------------------------------------------------------------------
(* TxLineSession *)

\* renewJwt: the first to ask starts the renewal, the others wait for it.
RenewJwt(calls) == renewing' = TRUE /\ call' = calls

\* What a caller does with a new JWT: it repeats its request, with the token
\* of the store.
Again(c, withJwt) ==
  [call[c] EXCEPT !.at = "sent", !.jwt = withJwt, !.token = token]

Renewed ==
  /\ renewing /\ renewing' = FALSE
  /\ jwt' = dead.jwt + 1
  /\ call' = [c \in Callers |->
       IF call[c].at # "renewing" THEN call[c]
       ELSE IF c = "ensure" THEN Quiet
       ELSE Again(c, dead.jwt + 1)]
  /\ UNCHANGED <<process, token, dead, feed, faults>>

RenewFails ==
  /\ renewing /\ Fault /\ renewing' = FALSE
  /\ call' = [c \in Callers |->
       IF call[c].at = "renewing" THEN [Quiet EXCEPT !.at = "failed"] ELSE call[c]]
  /\ UNCHANGED <<process, jwt, token, dead, feed>>

\* subscribeAndActivate reads the JWT before the on-chain subscription, signs
\* it, and activates with it.
SubscribeAndActivate(c, calls) ==
  call' = [calls EXCEPT ![c].at = "subscribing", ![c].jwt = jwt]

Subscribed(c) ==
  /\ call[c].at = "subscribing"
  /\ At(c, "activating")
  /\ UNCHANGED <<process, session, feed, faults>>

\* The activation goes around the interceptor: a refusal is an error.
Activated(c) ==
  /\ call[c].at = "activating"
  /\ IF call[c].jwt <= dead.jwt
     THEN call' = [call EXCEPT ![c] = [Quiet EXCEPT !.at = "failed"]] /\ UNCHANGED token
     ELSE /\ token' = dead.token + 1
          /\ IF c = "ensure" THEN call' = [call EXCEPT ![c] = Quiet]
             ELSE call' = [call EXCEPT ![c].at = "sent", ![c].jwt = jwt,
                                       ![c].token = dead.token + 1]
  /\ UNCHANGED <<process, jwt, dead, renewing, feed, faults>>

Ensure ==
  /\ process = "ensuring" /\ call["ensure"].at = "quiet"
  /\ \/ jwt = 0 /\ RenewJwt([call EXCEPT !["ensure"].at = "renewing"]) /\ UNCHANGED process
     \/ /\ jwt # 0 /\ token = 0
        /\ SubscribeAndActivate("ensure", call) /\ UNCHANGED <<renewing, process>>
     \/ jwt # 0 /\ token # 0 /\ process' = "syncing" /\ UNCHANGED <<renewing, call>>
  /\ UNCHANGED <<jwt, token, dead, feed, faults>>

-----------------------------------------------------------------------------
(* Requests: the interceptors of the REST client and the fetch of a stream *)

\* The streams start once the fixtures have been asked for.
MaySend(c) ==
  \/ c = "rest" /\ process \in {"syncing", "running"}
  \/ c \in Streams /\ process = "running"

\* Timers: the next fixture sync, the first connection, the next one.
Send(c) ==
  /\ MaySend(c) /\ call[c].at = "quiet"
  /\ call' = [call EXCEPT ![c] = [at |-> "sent", jwt |-> jwt, token |-> token,
                                  spent |-> {}]]
  /\ UNCHANGED <<process, session, feed, faults>>

\* A REST call repeats once for each kind of refusal, a stream once.
Spend(c, status) ==
  [call EXCEPT ![c].spent = IF c \in Streams THEN {401, 403} ELSE @ \cup {status}]

Refused(c, status) == /\ call[c].at = "sent" /\ Status(c) = status
                      /\ status \notin call[c].spent

\* Mutant of Refuse403: a rejected token is met by a new JWT.
Refuse403Renews(c) ==
  /\ Refused(c, 403)
  /\ RenewJwt([Spend(c, 403) EXCEPT ![c].at = "renewing"])
  /\ UNCHANGED <<process, jwt, token, dead, feed, faults>>

Refuse401(c) ==
  /\ Refused(c, 401)
  /\ RenewJwt([Spend(c, 401) EXCEPT ![c].at = "renewing"])
  /\ UNCHANGED <<process, jwt, token, dead, feed, faults>>

Refuse403(c) ==
  /\ Refused(c, 403)
  /\ SubscribeAndActivate(c, Spend(c, 403))
  /\ UNCHANGED <<process, session, feed, faults>>

RefuseAgain(c) ==
  /\ call[c].at = "sent" /\ Status(c) \in call[c].spent
  /\ call' = [call EXCEPT ![c] = [Quiet EXCEPT !.at = "failed"]]
  /\ UNCHANGED <<process, session, feed, faults>>

CallFails(c) ==
  /\ call[c].at \in {"sent", "subscribing", "activating"} /\ Fault
  /\ call' = [call EXCEPT ![c] = [Quiet EXCEPT !.at = "failed"]]
  /\ UNCHANGED <<process, session, feed>>

Accepted(c) == call[c].at = "sent" /\ Status(c) = 200

AcceptRest(c) ==
  /\ c = "rest" /\ Accepted(c)
  /\ call' = [call EXCEPT ![c] = [Quiet EXCEPT !.at = "open"]]
  /\ UNCHANGED <<process, session, feed, faults>>

\* Mutant of After: the last event id is not sent.
AfterNothing == 0

\* The Last-Event-ID header of a connection.
After == lastId

AcceptStream(s) ==
  /\ s \in Streams /\ Accepted(s)
  /\ call' = [call EXCEPT ![s] = [Quiet EXCEPT !.at = "open"]]
  /\ IF s = "scores"
     THEN /\ cursor' \in 0..(IF After = 0 THEN published ELSE After)
          /\ skipped' = IF lastId = 0 THEN skipped \cup 1..cursor' ELSE skipped
     ELSE UNCHANGED <<cursor, skipped>>
  /\ UNCHANGED <<process, session, published, lastId, fixture, kept, faults>>

\* A sync that failed is logged; the next one comes with the timer.
NextSync(c) ==
  /\ c = "rest" /\ call[c].at \in {"open", "failed"}
  /\ At(c, "quiet")
  /\ process' = "running"
  /\ UNCHANGED <<session, feed, faults>>

\* onerror: close, and connect again after the backoff.
Reconnect(s) ==
  /\ s \in Streams /\ call[s].at = "failed"
  /\ At(s, "quiet")
  /\ UNCHANGED <<process, session, feed, faults>>

Drop(s) ==
  /\ s \in Streams /\ call[s].at = "open" /\ Fault
  /\ At(s, "failed")
  /\ UNCHANGED <<process, session, feed>>

-----------------------------------------------------------------------------
(* Keeper.ingest *)

Merge(r) ==
  [lastSeq |-> r,
   score   |-> [s \in Sides |-> IF Carries[r][s] = Unset THEN fixture.score[s]
                                ELSE Carries[r][s]],
   merged  |-> fixture.merged \cup {r}]

\* Mutant of Ingested: whatever arrives is merged.
IngestedAll(r) == Merge(r)

\* a record is dropped as stale unless it is the final one.
Ingested(r) == IF r <= fixture.lastSeq /\ r # Final THEN fixture ELSE Merge(r)

\* onmessage keeps the id, then hands on the record.
Deliver ==
  /\ call["scores"].at = "open" /\ cursor < published
  /\ cursor' = cursor + 1
  /\ lastId' = cursor + 1
  /\ fixture' = Ingested(cursor + 1)
  /\ UNCHANGED <<process, session, call, published, kept, skipped, faults>>

SaveFixture ==
  /\ kept # fixture /\ kept' = fixture
  /\ UNCHANGED <<process, session, call, published, lastId, cursor, fixture,
                 skipped, faults>>

-----------------------------------------------------------------------------
(* The process *)

Start ==
  /\ process = "down" /\ process' = "ensuring"
  /\ UNCHANGED <<session, call, feed, faults>>

\* What was not saved is lost: the session may be an older one.
Stop ==
  /\ process' = "down"
  /\ jwt' \in {jwt, 0} /\ token' \in {token, 0} /\ renewing' = FALSE
  /\ call' = [c \in Callers |-> Quiet]
  /\ fixture' = kept
  /\ lastId' = 0 /\ cursor' = 0
  /\ UNCHANGED <<dead, published, kept, skipped>>

Crash == process # "down" /\ Fault /\ Stop

\* ensure() threw: start() does, and the process ends.
StartFails ==
  /\ process = "ensuring" /\ call["ensure"].at = "failed"
  /\ Stop
  /\ UNCHANGED faults

Step(c) == \/ Subscribed(c) \/ Activated(c) \/ Send(c) \/ Refuse401(c)
           \/ Refuse403(c) \/ RefuseAgain(c)
           \/ AcceptRest(c) \/ NextSync(c) \/ AcceptStream(c) \/ Reconnect(c)

Process == Start \/ StartFails \/ Ensure

Next ==
  \/ Publish \/ Expire \/ Reject
  \/ Process \/ Renewed \/ RenewFails \/ Deliver \/ SaveFixture \/ Crash
  \/ \E c \in Callers : Step(c) \/ CallFails(c) \/ Drop(c)

Spec == Init /\ [][Next]_vars

\* Requests are answered or fail, timers fire, a process that ended is started
\* again, an open connection delivers.
FairSpec ==
  /\ Spec /\ WF_vars(Process) /\ WF_vars(Renewed) /\ WF_vars(Deliver)
  /\ \A c \in Callers : WF_vars(Step(c))

-----------------------------------------------------------------------------
(* Correctness properties *)

\* "Treating both as 'renew the JWT' left a rejected apiToken looping on
\* backoff forever, with the keeper deaf to the feed it settles from": whatever
\* expires, is rejected or drops, and whoever else renews or subscribes at the
\* same time, every stream is open again.
\* The exception is a keeper that never gets a token: one that starts with a stored
\* expired JWT and no token of its own fails to subscribe, and starts again.
StreamsReopen ==
  <>[](token = 0) \/ \A s \in Streams : []<>(call[s].at = "open")

\* A record is missed only by a process that had no event id to resume from.
EveryRecordIsMerged ==
  \/ <>[](token = 0)
  \/ \A r \in Records : published >= r ~> r \in fixture.merged \cup skipped

\* Records carry only the side that scored and may be sent again: the score is
\* for each side what the newest merged record that carries it said.
ScoreIsTheNewest ==
  \A s \in Sides :
    LET said == {r \in fixture.merged : Carries[r][s] # Unset}
    IN  fixture.score[s] = IF said = {} THEN 0 ELSE Carries[Max(said)][s]

-----------------------------------------------------------------------------
(* Why the score is the newest *)

\* A fixture, in the store or saved, has a score that its newest records told,
\* and no record later than its lastSeq.
Told(f, s) == {r \in f.merged : Carries[r][s] # Unset}

Faithful(f) ==
  /\ f.merged \subseteq Records /\ f.lastSeq \in Nat
  /\ \A r \in f.merged : r <= f.lastSeq
  /\ \A s \in Sides :
       f.score[s] = IF Told(f, s) = {} THEN 0 ELSE Carries[Max(Told(f, s))][s]

\* Connections are at a record that exists, or before the first.
FeedInv ==
  /\ published \in 0..Final /\ lastId \in 0..published /\ cursor \in 0..published
  /\ Faithful(fixture) /\ Faithful(kept)
=============================================================================
