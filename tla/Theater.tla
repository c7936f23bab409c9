------------------------------ MODULE Theater ------------------------------
(***************************************************************************)
(* The live settlement theater, which stages the settlement of one         *)
(* fixture's market as a listener of the event stream.  The stages follow  *)
(* a clock, but FINALISED waits for the final record and VERIFIED for the  *)
(* receipt.                                                                *)
(***************************************************************************)
EXTENDS EventStream, Beats

CONSTANTS
  Content,      (* Ids -> what the event says: type, score and final flag   *)
  Proven        (* the score of the receipt                                 *)

ASSUME ContentAssumption ==
  \A id \in Ids : Content[id].type \in {"score", "receipt"}

VARIABLES
  feed,         (* TheaterFeed                                              *)
  stage,        (* the stage shown                                          *)
  fallback,     (* the look for a settlement of the past: its step          *)
  receiptRow    (* the receipt is in the database                           *)

theaterVars == <<feed, stage, fallback, receiptRow>>
wireVars == <<streamVars, theaterVars>>

WireInit ==
  /\ StreamInit
  /\ feed = Empty /\ stage = Watch /\ fallback = "asked" /\ receiptRow = FALSE

-----------------------------------------------------------------------------
(* Live *)

\* Mutant of Heard: the final flag is the last record's.
HeardLast(f, e) ==
  IF e.type = "receipt" THEN [f EXCEPT !.finalised = TRUE, !.settlement = TRUE]
  ELSE [f EXCEPT !.score = e.score, !.finalised = e.final]

\* A score event sets the score and may finalise; a receipt settles.
Heard(f, e) ==
  IF e.type = "receipt" THEN [f EXCEPT !.finalised = TRUE, !.settlement = TRUE]
  ELSE [f EXCEPT !.score = e.score, !.finalised = @ \/ e.final]

Hear ==
  /\ Receive
  /\ feed' = Heard(feed, Content[Head(Incoming)])
  /\ UNCHANGED <<stage, fallback, receiptRow>>

\* The receipt's row is written: by the keeper's flush, before or after the
\* event, or by the backfill, which emits none (driver.ts:189-193).
WriteReceipt ==
  /\ ~receiptRow /\ receiptRow' = TRUE
  /\ UNCHANGED <<streamVars, feed, stage, fallback>>

\* The page asks once, when it opens, for a settlement of the past; an answer
\* that comes after the event is dropped.
FallbackRead ==
  /\ fallback = "asked"
  /\ fallback' = IF receiptRow THEN "found" ELSE "done"
  /\ UNCHANGED <<streamVars, feed, stage, receiptRow>>

FallbackAnswer ==
  /\ fallback = "found" /\ fallback' = "done"
  /\ feed' = IF feed.settlement THEN feed
             ELSE [score |-> Proven, finalised |-> TRUE, settlement |-> TRUE]
  /\ UNCHANGED <<streamVars, stage, receiptRow>>

Advance ==
  /\ stage < Cap(feed) /\ stage' = stage + 1
  /\ UNCHANGED <<streamVars, feed, fallback, receiptRow>>

-----------------------------------------------------------------------------
Emission == \E id \in Ids : Emit(id) \/ Insert(id) \/ Notify(id)
Serve    == \/ Listen
            \/ \E id \in Ids : Dispatch(id)
            \/ \E c \in Conns : ReplayRead(c) \/ ReplayWrite(c) \/ Closed(c)
Faults   == \/ \E id \in Ids : EmitFails(id) \/ DispatchFails(id)
            \/ \E c \in Conns : ReplayFails(c)
            \/ ListenLost \/ ApiRestart \/ Drop

WireNext ==
  \/ (Emission \/ Serve \/ Connect \/ Faults) /\ UNCHANGED theaterVars
  \/ Hear \/ WriteReceipt \/ FallbackRead \/ FallbackAnswer \/ Advance

WireSpec == WireInit /\ [][WireNext]_wireVars

-----------------------------------------------------------------------------
(* Correctness properties of the live wire and of the live theater *)

IsFinal(id)   == Content[id].type = "score" /\ Content[id].final
IsReceipt(id) == Content[id].type = "receipt"

\* The theater shows FINALISED and VERIFIED only for a final record and a
\* receipt there are: it "cannot show \"verified\" for a settlement that has
\* not happened" (driver.ts:12-14).
StagesAreReal ==
  /\ stage >= Verified =>
       receiptRow \/ \E id \in Ids : IsReceipt(id) /\ event[id] # "none"
  /\ stage >= Final =>
       receiptRow \/ \E id \in Ids : (IsFinal(id) \/ IsReceipt(id)) /\ event[id] # "none"

\* Events may arrive in any order and more than once: what a final record or a
\* receipt announced is never taken back by what arrives after it.
ArrivalOrderIsHarmless ==
  \A i \in DOMAIN lines :
    /\ IsFinal(lines[i]) => feed.finalised
    /\ IsReceipt(lines[i]) => feed.settlement /\ feed.finalised

\* The live theater stages what happened, all of it, and nothing else.
TheaterIsReal == StagesAreReal /\ ArrivalOrderIsHarmless

Receipts == {id \in Ids : IsReceipt(id)}

\* A receipt is staged when it has arrived and the clock has run on.
Staged(id) == (\E i \in DOMAIN lines : lines[i] = id) /\ stage = Receipt

Calm == faults = MaxFaults

\* Once nothing fails any more, a receipt that is emitted while the API listens
\* and the client is registered reaches it and is staged (stream.ts:87-151).
LiveIsDelivered ==
  \A id \in Receipts :
    (Calm /\ listening /\ client.status = "live" /\ conn[client.on].at = "registered"
          /\ event[id] \in {"inserting", "stored"})
      ~> Staged(id)

\* A client that reconnects is sent the receipt it missed, up to the limit: "a
\* Last-Event-ID resumes precisely from where the client dropped"
\* (stream.ts:118-122).
ResumeRedelivers ==
  \A id \in Receipts :
    (Calm /\ client.status = "down" /\ 0 < client.lastId /\ client.lastId < id
          /\ id \in Stored /\ Cardinality({j \in Ids : j > client.lastId}) <= ResumeLimit)
      ~> Staged(id)

-----------------------------------------------------------------------------
(* Why the theater is real: only ids that were emitted are on their way *)

Known == {id \in Ids : event[id] # "none"}

Whereabouts == {"none", "asking", "replaying", "registered", "closed", "ghost", "removed"}

Connection(K) ==
  [at : Whereabouts, up : BOOLEAN, after : {0} \cup Ids, rows : Seq(K), wire : Seq(K)]

\* Whatever is read, queued, on a wire or received is one of K.
Carries(K) ==
  /\ reading \subseteq K
  /\ conn \in [Conns -> Connection(K)]
  /\ lines \in Seq(K)

WireTypes ==
  /\ event \in [Ids -> Stages]
  /\ client \in [status : {"down", "live"}, on : {0} \cup Conns, lastId : {0} \cup Ids]
  /\ client.status = "live" => client.on \in Conns

ReceiptKnown == \E id \in Known : IsReceipt(id)
FinalKnown   == \E id \in Known : IsFinal(id) \/ IsReceipt(id)

\* The page knows of a final record or a receipt only by one there is, and has
\* not gone further than that allows.
FeedIsReal ==
  /\ feed = [score |-> feed.score, finalised |-> feed.finalised,
             settlement |-> feed.settlement]
  /\ feed.settlement => feed.finalised /\ (receiptRow \/ ReceiptKnown)
  /\ feed.finalised => receiptRow \/ FinalKnown
  /\ fallback = "found" => receiptRow
  /\ stage \in Watch..Receipt
  /\ stage >= Final => feed.finalised
  /\ stage >= Verified => feed.settlement

WireInv == WireTypes /\ Carries(Known) /\ FeedIsReal /\ ArrivalOrderIsHarmless
=============================================================================
