---------------------------- MODULE EventStream ----------------------------
(***************************************************************************)
(* The live wire: the keeper appends an event and notifies its id, the API *)
(* hears the notification, reads the row and broadcasts it to the clients  *)
(* it has registered, and the web client reconnects with the last id it    *)
(* has seen and is sent what came after it.                                *)
(*                                                                         *)
(* Every await is a step: the insert and its notification, the read of a   *)
(* notified row, the query of a replay and what is done with its answer.   *)
(* Connections are FIFO and may drop at any time; the server notices       *)
(* later.  Event type filters are left out: the web client sets none.      *)
(***************************************************************************)
EXTENDS Integers, Sequences, FiniteSets

CONSTANTS
  MaxEvents,      (* bounds the events                                      *)
  BacklogLimit,   (* events replayed to a client that has seen none         *)
  ResumeLimit,    (* events replayed after the last id a client has seen    *)
  MaxFaults       (* bounds what goes wrong: failed calls, drops, restarts  *)

ASSUME EventsAssumption == MaxEvents \in Nat \ {0}
ASSUME LimitAssumption == {BacklogLimit, ResumeLimit} \subseteq Nat \ {0}
ASSUME FaultAssumption == MaxFaults \in Nat

VARIABLES
  event,      (* how far the emission of each event is                      *)
  listening,  (* the API's LISTEN connection is up                          *)
  reading,    (* the notified events whose row is being read                *)
  conn,       (* the requests for the stream, as the server sees them       *)
  client,     (* the web client: its status, its connection, its last id    *)
  lines,      (* the events its listeners were given, in that order         *)
  faults

streamVars == <<event, listening, reading, conn, client, lines, faults>>

Ids == 1..MaxEvents

\* a client connects again only after a drop.
Conns == 1..(MaxFaults + 1)

Stages   == {"none", "inserting", "stored", "notified", "silent", "lost"}

Unused == [at |-> "none", up |-> FALSE, after |-> 0, rows |-> <<>>, wire |-> <<>>]

Stored == {id \in Ids : event[id] \in {"stored", "notified", "silent"}}

StreamInit ==
  /\ event = [id \in Ids |-> "none"]
  /\ listening = FALSE /\ reading = {}
  /\ conn = [c \in Conns |-> Unused]
  /\ client = [status |-> "down", on |-> 0, lastId |-> 0]
  /\ lines = <<>>
  /\ faults = 0

Fault == faults < MaxFaults /\ faults' = faults + 1

-----------------------------------------------------------------------------
(* The keeper: emitEvent *)

\* Emissions overlap: the rows take their ids in order and are committed in
\* any.
Emit(id) ==
  /\ event[id] = "none" /\ \A j \in Ids : j < id => event[j] # "none"
  /\ event' = [event EXCEPT ![id] = "inserting"]
  /\ UNCHANGED <<listening, reading, conn, client, lines, faults>>

Insert(id) ==
  /\ event[id] = "inserting"
  /\ event' = [event EXCEPT ![id] = "stored"]
  /\ UNCHANGED <<listening, reading, conn, client, lines, faults>>

\* Nobody hears a notification while the LISTEN connection is down.
Notify(id) ==
  /\ event[id] = "stored"
  /\ event' = [event EXCEPT ![id] = "notified"]
  /\ reading' = IF listening THEN reading \cup {id} ELSE reading
  /\ UNCHANGED <<listening, conn, client, lines, faults>>

\* Either statement fails, or the keeper dies: the event is given up.
EmitFails(id) ==
  /\ event[id] \in {"inserting", "stored"} /\ Fault
  /\ event' = [event EXCEPT ![id] = IF @ = "stored" THEN "silent" ELSE "lost"]
  /\ UNCHANGED <<listening, reading, conn, client, lines>>

-----------------------------------------------------------------------------
(* The API: LISTEN, dispatch, broadcast *)

ListenLost ==
  /\ listening /\ Fault
  /\ listening' = FALSE
  /\ UNCHANGED <<event, reading, conn, client, lines>>

\* reconnectSoon's timer, as often as it takes.
Listen ==
  /\ ~listening /\ listening' = TRUE
  /\ UNCHANGED <<event, reading, conn, client, lines, faults>>

\* What is written to a connection that is gone goes nowhere.
Written(k, ids) == IF k.up THEN [k EXCEPT !.wire = @ \o ids] ELSE k

Broadcast(id) ==
  conn' = [c \in Conns |-> IF conn[c].at = "registered"
                           THEN Written(conn[c], <<id>>) ELSE conn[c]]

\* The reads are answered in any order.
Dispatch(id) ==
  /\ id \in reading
  /\ reading' = reading \ {id}
  /\ Broadcast(id)
  /\ UNCHANGED <<event, listening, client, lines, faults>>

DispatchFails(id) ==
  /\ id \in reading /\ Fault
  /\ reading' = reading \ {id}
  /\ UNCHANGED <<event, listening, conn, client, lines>>

-----------------------------------------------------------------------------
(* The API: a request for the stream *)

Limit(after) == IF after = 0 THEN BacklogLimit ELSE ResumeLimit

\* The ids of a set in their order: at each place the one that has as many up
\* to it.
InOrder(S) ==
  [i \in 1..Cardinality(S) |-> CHOOSE x \in S : Cardinality({y \in S : y <= x}) = i]

\* The newest rows after an id, oldest first.
Replayed(after) ==
  LET found  == {id \in Stored : id > after}
      newest == {id \in found : Cardinality({j \in found : j > id}) < Limit(after)}
  IN  InOrder(newest)

ReplayRead(c) ==
  /\ conn[c].at = "asking"
  /\ conn' = [conn EXCEPT ![c] =
       [@ EXCEPT !.at = "replaying", !.rows = Replayed(conn[c].after)]]
  /\ UNCHANGED <<event, listening, reading, client, lines, faults>>

ReplayFails(c) ==
  /\ conn[c].at = "asking" /\ Fault
  /\ conn' = [conn EXCEPT ![c].at = "replaying"]
  /\ UNCHANGED <<event, listening, reading, client, lines>>

\* The client is registered once the replay is written: what is broadcast in
\* between is not sent to it.  A connection that has closed by then is
\* registered for ever, its "close" having been emitted to nobody.
ReplayWrite(c) ==
  /\ conn[c].at \in {"replaying", "closed"}
  /\ conn' = [conn EXCEPT ![c] =
       [Written(@, @.rows) EXCEPT !.at = IF conn[c].at = "closed" THEN "ghost"
                                                                  ELSE "registered",
                                  !.rows = <<>>]]
  /\ UNCHANGED <<event, listening, reading, client, lines, faults>>

\* Mutant of Closed: the handler removes the client registered last.
ClosedLatest(c) ==
  /\ ~conn[c].up /\ conn[c].at = "registered"
  /\ LET last == CHOOSE d \in Conns : /\ conn[d].at = "registered"
                                      /\ \A e \in Conns : conn[e].at = "registered" => e <= d
     IN conn' = [conn EXCEPT ![last].at = "removed"]
  /\ UNCHANGED <<event, listening, reading, client, lines, faults>>

\* The server notices that a connection has closed.
Closed(c) ==
  /\ ~conn[c].up /\ conn[c].at \in {"asking", "replaying", "registered"}
  /\ conn' = [conn EXCEPT ![c].at = IF @ = "registered" THEN "removed"
                                                        ELSE "closed"]
  /\ UNCHANGED <<event, listening, reading, client, lines, faults>>

\* stop: a new process has no clients and does not listen yet.
ApiRestart ==
  /\ Fault
  /\ listening' = FALSE /\ reading' = {}
  /\ conn' = [c \in Conns |-> IF conn[c].at = "none" THEN Unused
                              ELSE [Unused EXCEPT !.at = "removed"]]
  /\ client' = [client EXCEPT !.status = "down"]
  /\ UNCHANGED <<event, lines>>

-----------------------------------------------------------------------------
(* The web client: StreamProvider *)

\* Mutant of Connect: a new EventSource, without the last id.
ConnectAfresh ==
  /\ client.status = "down" /\ client.on + 1 \in Conns
  /\ client' = [client EXCEPT !.status = "live", !.on = @ + 1]
  /\ conn' = [conn EXCEPT ![client.on + 1] =
       [Unused EXCEPT !.at = "asking", !.up = TRUE]]
  /\ UNCHANGED <<event, listening, reading, lines, faults>>

\* A new EventSource with the last id.  The client is "connecting" until the
\* headers are there, which precede all events.
Connect ==
  /\ client.status = "down" /\ client.on + 1 \in Conns
  /\ client' = [client EXCEPT !.status = "live", !.on = @ + 1]
  /\ conn' = [conn EXCEPT ![client.on + 1] =
       [Unused EXCEPT !.at = "asking", !.up = TRUE, !.after = client.lastId]]
  /\ UNCHANGED <<event, listening, reading, lines, faults>>

\* onerror closes the connection and connects again after a while.
Drop ==
  /\ client.status # "down" /\ Fault
  /\ client' = [client EXCEPT !.status = "down"]
  /\ conn' = [conn EXCEPT ![client.on] = [@ EXCEPT !.up = FALSE, !.wire = <<>>]]
  /\ UNCHANGED <<event, listening, reading, lines>>

Incoming == IF client.status = "live" THEN conn[client.on].wire ELSE <<>>

\* The id of the last event received is kept, newer or not.
Receive ==
  /\ Incoming # <<>>
  /\ client' = [client EXCEPT !.lastId = Head(Incoming)]
  /\ conn' = [conn EXCEPT ![client.on].wire = Tail(@)]
  /\ lines' = Append(lines, Head(Incoming))
  /\ UNCHANGED <<event, listening, reading, faults>>
=============================================================================
