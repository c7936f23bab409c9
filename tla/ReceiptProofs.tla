---------------------------- MODULE ReceiptProofs ---------------------------
(***************************************************************************)
(* How a receipt comes to be written by a script, and to be staged.        *)
(*                                                                         *)
(* The theater: for any number of events, emitted, notified, replayed and  *)
(* received in any order, it shows what there is and takes nothing back.   *)
(* The replay: of recordings of any length, started any number of times,   *)
(* it stages what it has replayed, and ends on what was proven.            *)
(* The backfill: for any number of markets, batches, attempts and losses,  *)
(* its report is true, and it locks no market that lacks stakes.           *)
(***************************************************************************)
EXTENDS Records, Theater, Replay, Counting

-----------------------------------------------------------------------------
(* The ids of events in their order *)

\* The elements of a set of integers in their order.
Upwards(S) == {p \in S \X S : p[1] <= p[2]}

\* Integers are in order by size.
LEMMA UpwardsOrders ==
  ASSUME NEW S, S \subseteq Int
  PROVE  /\ IsOrder(Upwards(S), S)
         /\ \A x \in S : Cardinality({y \in S : y <= x}) = Place(Upwards(S), S, x)
<1>1. \A x, y \in S : <<x, y>> \in Upwards(S) <=> x <= y
  BY DEF Upwards
<1>2. \A x \in S : x \in Int
  OBVIOUS
<1>3. IsOrder(Upwards(S), S)
  BY <1>1, <1>2 DEF IsOrder
<1>4. ASSUME NEW x \in S
      PROVE  {y \in S : y <= x} = {y \in S : <<y, x>> \in Upwards(S)}
  BY <1>1
<1> QED  BY <1>3, <1>4 DEF Place

\* In this order each of them has its place.
LEMMA InOrderPlaces ==
  ASSUME NEW S, IsFiniteSet(S), S \subseteq Int, NEW i \in 1..Cardinality(S)
  PROVE  InOrder(S)[i] \in S /\ Place(Upwards(S), S, InOrder(S)[i]) = i
<1>1. IsOrder(Upwards(S), S)
  BY UpwardsOrders
<1>2. PICK x \in S : Place(Upwards(S), S, x) = i
  BY <1>1, PlacesAreTaken
<1>3. Cardinality({y \in S : y <= x}) = i
  BY <1>2, UpwardsOrders
<1>4. InOrder(S)[i] = CHOOSE z \in S : Cardinality({y \in S : y <= z}) = i
  BY DEF InOrder
<1>5. InOrder(S)[i] \in S /\ Cardinality({y \in S : y <= InOrder(S)[i]}) = i
  BY <1>3, <1>4
<1> QED  BY <1>5, UpwardsOrders

\* The first of them is the least.
LEMMA FirstIsLeast ==
  ASSUME NEW S, IsFiniteSet(S), S \subseteq Int, S # {}
  PROVE  First(S) \in S /\ \A y \in S : First(S) <= y
<1> DEFINE first == InOrder(S)[1]
<1>1. 1 \in 1..Cardinality(S)
  <2>1. Cardinality(S) \in Nat /\ Cardinality(S) # 0
    BY FS_CardinalityType, FS_EmptySet
  <2> QED  BY <2>1
<1>2. first \in S /\ Place(Upwards(S), S, first) = 1
  BY <1>1, InOrderPlaces
<1> HIDE DEF first
<1>3. ASSUME NEW y \in S, ~(first <= y)
      PROVE  FALSE
  <2>1. <<y, first>> \in Upwards(S) /\ y # first
    BY <1>2, <1>3 DEF Upwards
  <2>2. Place(Upwards(S), S, y) < Place(Upwards(S), S, first)
    BY <1>2, <2>1, UpwardsOrders, PlacesAreOrdered
  <2>3. Place(Upwards(S), S, y) \in 1..Cardinality(S)
    BY UpwardsOrders, PlacesAreOrdered
  <2>4. Cardinality(S) \in Nat
    BY FS_CardinalityType
  <2> QED  BY <1>2, <2>2, <2>3, <2>4
<1>4. \A y \in S : first <= y
  BY <1>3
<1> QED  BY <1>2, <1>4 DEF First

-----------------------------------------------------------------------------
(* What is replayed to a client *)

\* The ids of a set in their order are a sequence over that set.
LEMMA InOrderType ==
  ASSUME NEW S, IsFiniteSet(S), S \subseteq Int
  PROVE  InOrder(S) \in Seq(S)
<1>1. Cardinality(S) \in Nat
  BY FS_CardinalityType
<1>2. \A i \in 1..Cardinality(S) : InOrder(S)[i] \in S
  BY InOrderPlaces
<1>3. InOrder(S) \in [1..Cardinality(S) -> S]
  BY <1>2 DEF InOrder
<1>4. QED
  BY <1>1, <1>3

\* What carries some ids carries more.
LEMMA MoreIsKnown ==
  ASSUME NEW K, NEW L, K \subseteq L
  PROVE  Seq(K) \subseteq Seq(L) /\ Connection(K) \subseteq Connection(L)
<1>1. Seq(K) \subseteq Seq(L)
  OBVIOUS
<1>2. QED
  BY <1>1 DEF Connection, Whereabouts

\* What is replayed to a client was emitted.
LEMMA ReplayedIsKnown ==
  ASSUME NEW after
  PROVE  Replayed(after) \in Seq(Known)
<1> DEFINE found == {id \in Stored : id > after}
           newest == {id \in found : Cardinality({j \in found : j > id}) < Limit(after)}
<1>1. newest \subseteq Known /\ Known \subseteq Ids /\ Ids \subseteq Int
  BY EventsAssumption DEF Known, Stored, Ids
<1>2. IsFiniteSet(Ids)
  BY EventsAssumption, FS_Interval DEF Ids
<1> HIDE DEF newest
<1>3. newest \subseteq Ids /\ newest \subseteq Int
  BY <1>1
<1>4. IsFiniteSet(newest)
  BY <1>2, <1>3, FS_Subset
<1>5. InOrder(newest) \in Seq(newest)
  BY <1>3, <1>4, InOrderType
<1>6. InOrder(newest) \in Seq(Known)
  BY <1>1, <1>5, MoreIsKnown
<1>7. Replayed(after) = InOrder(newest)
  BY DEF Replayed, newest
<1>8. QED
  BY <1>6, <1>7

-----------------------------------------------------------------------------
(* The steps of the wire *)

\* A step that makes more known, and leaves the page alone, keeps what the page
\* knows real.
LEMMA PageStaysReal ==
  ASSUME FeedIsReal, ArrivalOrderIsHarmless, Known \subseteq Known',
         UNCHANGED theaterVars, lines' = lines
  PROVE  FeedIsReal' /\ ArrivalOrderIsHarmless'
<1>1. UNCHANGED <<feed, stage, fallback, receiptRow>>
  BY DEF theaterVars
<1>2. (ReceiptKnown => ReceiptKnown') /\ (FinalKnown => FinalKnown')
  BY DEF ReceiptKnown, FinalKnown, IsReceipt, IsFinal
<1>3. FeedIsReal'
  BY <1>1, <1>2 DEF FeedIsReal
<1>4. ArrivalOrderIsHarmless'
  BY <1>1 DEF ArrivalOrderIsHarmless, IsFinal, IsReceipt
<1>5. QED
  BY <1>3, <1>4

\* A step of an emission makes no event unknown, and may make one read.
LEMMA EmissionSteps ==
  ASSUME WireInv, NEW id \in Ids, NEW st \in Stages \ {"none"},
         event' = [event EXCEPT ![id] = st],
         reading' \subseteq reading \cup {id},
         UNCHANGED <<conn, client, lines>>, UNCHANGED theaterVars
  PROVE  WireInv'
<1>1. event \in [Ids -> Stages]
  BY DEF WireInv, WireTypes
<1>2. event' \in [Ids -> Stages]
  BY <1>1
<1>3. id \in Known' /\ Known \subseteq Known'
  BY <1>1 DEF Known
<1>4. WireTypes'
  BY <1>2 DEF WireInv, WireTypes
<1>5. Carries(Known)'
  <2>1. Carries(Known)
    BY DEF WireInv
  <2>2. Seq(Known) \subseteq Seq(Known') /\ Connection(Known) \subseteq Connection(Known')
    BY <1>3, MoreIsKnown
  <2>3. Carries(Known')
    BY <1>3, <2>1, <2>2 DEF Carries
  <2>4. conn' = conn /\ lines' = lines /\ reading' \subseteq Known'
    BY <1>3, <2>1 DEF Carries
  <2>5. QED
    BY <2>3, <2>4 DEF Carries, Connection
<1>6. FeedIsReal' /\ ArrivalOrderIsHarmless'
  BY <1>3, PageStaysReal DEF WireInv
<1>7. QED
  BY <1>4, <1>5, <1>6 DEF WireInv

\* A step of the API or of the client carries on what was carried.
LEMMA WireSteps ==
  ASSUME WireInv, event' = event, lines' = lines,
         reading' \subseteq reading,
         conn' \in [Conns -> Connection(Known)],
         WireTypes', UNCHANGED theaterVars
  PROVE  WireInv'
<1>1. Known' = Known
  BY DEF Known
<1>2. Carries(Known)'
  BY <1>1 DEF WireInv, Carries, Connection
<1>3. FeedIsReal' /\ ArrivalOrderIsHarmless'
  BY <1>1, PageStaysReal DEF WireInv
<1>4. QED
  BY <1>2, <1>3 DEF WireInv

\* The client's half of the types holds on while the client does nothing.
LEMMA IdleClient ==
  ASSUME WireInv, event' = event, client' = client
  PROVE  WireTypes'
BY DEF WireInv, WireTypes

\* A connection that changes its state, its rows or its wire is one still.
LEMMA ConnectionChanges ==
  ASSUME NEW K, NEW k \in Connection(K)
  PROVE  /\ \A at \in Whereabouts : [k EXCEPT !.at = at] \in Connection(K)
         /\ \A found \in Seq(K) : /\ [k EXCEPT !.wire = found] \in Connection(K)
                                  /\ [k EXCEPT !.rows = found] \in Connection(K)
         /\ [k EXCEPT !.up = FALSE] \in Connection(K)
BY DEF Connection, Whereabouts

\* What is written to a connection is on its wire, or nowhere.
LEMMA WrittenType ==
  ASSUME NEW K, NEW k \in Connection(K), NEW ids \in Seq(K)
  PROVE  Written(k, ids) \in Connection(K)
<1>1. k.wire \o ids \in Seq(K)
  BY DEF Connection, Whereabouts
<1>2. Written(k, ids) = k \/ Written(k, ids) = [k EXCEPT !.wire = k.wire \o ids]
  BY DEF Written
<1>3. QED
  BY <1>1, <1>2, ConnectionChanges

\* A connection that is not there, or no more, holds nothing.
LEMMA UnusedType ==
  ASSUME NEW K
  PROVE  /\ Unused \in Connection(K)
         /\ [Unused EXCEPT !.at = "removed"] \in Connection(K)
<1>1. <<>> \in Seq(K)
  OBVIOUS
<1>2. Unused \in Connection(K)
  BY <1>1 DEF Unused, Connection, Whereabouts
<1>3. QED
  BY <1>2, ConnectionChanges DEF Whereabouts

\* A new connection asks for what came after some id.
LEMMA AskingType ==
  ASSUME NEW K, NEW k \in Connection(K), NEW id \in {0} \cup Ids,
         NEW q, q = [k EXCEPT !.at = "asking", !.up = TRUE, !.after = id]
  PROVE  q \in Connection(K)
BY DEF Connection, Whereabouts

\* One connection changes, and is one still.
LEMMA OneChanges ==
  ASSUME WireInv, event' = event, client' = client, lines' = lines, reading' = reading,
         NEW c \in Conns, NEW k \in Connection(Known),
         conn' = [conn EXCEPT ![c] = k], UNCHANGED theaterVars
  PROVE  WireInv'
<1>1. conn \in [Conns -> Connection(Known)]
  BY DEF WireInv, Carries
<1>2. conn' \in [Conns -> Connection(Known)]
  BY <1>1
<1>3. QED
  BY <1>2, IdleClient, WireSteps

\* The rows to replay are read.
LEMMA ReplayReadSteps ==
  ASSUME WireInv, NEW c \in Conns, ReplayRead(c), UNCHANGED theaterVars
  PROVE  WireInv'
<1> DEFINE K == Known
           k == conn[c]
           found == Replayed(k.after)
           one == [k EXCEPT !.at = "replaying", !.rows = found]
<1>1. k \in Connection(K)
  BY DEF WireInv, Carries
<1>2. found \in Seq(K)
  BY ReplayedIsKnown
<1>3. conn' = [conn EXCEPT ![c] = one]
  BY DEF ReplayRead
<1>4. UNCHANGED <<event, client, lines, reading>>
  BY DEF ReplayRead
<1> HIDE DEF K, k, found
<1>5. one \in Connection(K)
  BY <1>1, <1>2 DEF Connection, Whereabouts
<1> HIDE DEF one
<1>6. one \in Connection(Known)
  BY <1>5 DEF K
<1>7. QED
  BY <1>3, <1>4, <1>6, OneChanges

\* A replay that cannot be read is empty; a connection that closes is noticed.
LEMMA AtSteps ==
  ASSUME WireInv, NEW c \in Conns, NEW at \in Whereabouts,
         conn' = [conn EXCEPT ![c].at = at],
         UNCHANGED <<event, client, lines, reading>>, UNCHANGED theaterVars
  PROVE  WireInv'
<1> DEFINE one == [conn[c] EXCEPT !.at = at]
<1>1. conn[c] \in Connection(Known)
  BY DEF WireInv, Carries
<1>2. one \in Connection(Known)
  BY <1>1, ConnectionChanges
<1>3. conn' = [conn EXCEPT ![c] = one]
  OBVIOUS
<1> HIDE DEF one
<1>4. QED
  BY <1>2, <1>3, OneChanges

\* The replay is written and the client registered.
LEMMA ReplayWriteSteps ==
  ASSUME WireInv, NEW c \in Conns, ReplayWrite(c), UNCHANGED theaterVars
  PROVE  WireInv'
<1> DEFINE K == Known
           k == Written(conn[c], conn[c].rows)
           one == [k EXCEPT !.at = IF conn[c].at = "closed" THEN "ghost" ELSE "registered",
                            !.rows = <<>>]
<1>1. conn[c] \in Connection(K) /\ conn[c].rows \in Seq(K)
  BY DEF WireInv, Carries, Connection
<1>2. k \in Connection(K)
  <2> HIDE DEF K
  <2>1. QED
    BY <1>1, WrittenType
<1>3. conn' = [conn EXCEPT ![c] = one]
  BY DEF ReplayWrite
<1>4. UNCHANGED <<event, client, lines, reading>>
  BY DEF ReplayWrite
<1> HIDE DEF K, k
<1>5. one \in Connection(K)
  <2>1. <<>> \in Seq(K)
    OBVIOUS
  <2>2. QED
    BY <1>2, <2>1 DEF Connection, Whereabouts
<1> HIDE DEF one
<1>6. one \in Connection(Known)
  BY <1>5 DEF K
<1>7. QED
  BY <1>3, <1>4, <1>6, OneChanges

\* What was notified is read and broadcast.
LEMMA DispatchSteps ==
  ASSUME WireInv, NEW id \in Ids, Dispatch(id), UNCHANGED theaterVars
  PROVE  WireInv'
<1> DEFINE K == Known
           fan == [c \in Conns |-> IF conn[c].at = "registered"
                                   THEN Written(conn[c], <<id>>) ELSE conn[c]]
<1>1. id \in K /\ conn \in [Conns -> Connection(K)]
  BY DEF WireInv, Carries, Dispatch
<1> HIDE DEF K
<1>2. <<id>> \in Seq(K)
  BY <1>1
<1>3. \A c \in Conns : Written(conn[c], <<id>>) \in Connection(K)
  BY <1>1, <1>2, WrittenType
<1>4. fan \in [Conns -> Connection(K)]
  BY <1>1, <1>3
<1>5. conn' = fan
  BY DEF Dispatch, Broadcast
<1> HIDE DEF fan
<1>6. conn' \in [Conns -> Connection(Known)]
  BY <1>4, <1>5 DEF K
<1>7. reading' \subseteq reading /\ UNCHANGED <<event, client, lines>>
  BY DEF Dispatch
<1>8. QED
  BY <1>6, <1>7, IdleClient, WireSteps

\* The API restarts.
LEMMA RestartSteps ==
  ASSUME WireInv, ApiRestart, UNCHANGED theaterVars
  PROVE  WireInv'
<1>1. conn' \in [Conns -> Connection(Known)]
  <2> DEFINE gone == [Unused EXCEPT !.at = "removed"]
  <2>1. Unused \in Connection(Known) /\ gone \in Connection(Known)
    BY UnusedType
  <2>2. conn' = [c \in Conns |-> IF conn[c].at = "none" THEN Unused ELSE gone]
    BY DEF ApiRestart
  <2> HIDE DEF gone
  <2>3. QED
    BY <2>1, <2>2
<1>2. reading' \subseteq reading /\ UNCHANGED <<event, lines>>
  BY DEF ApiRestart
<1>3. WireTypes'
  <2>1. client' = [client EXCEPT !.status = "down"]
    BY DEF ApiRestart
  <2>2. client' \in [status : {"down", "live"}, on : {0} \cup Conns, lastId : {0} \cup Ids]
        /\ client'.status = "down"
    BY <2>1 DEF WireInv, WireTypes
  <2>3. QED
    BY <1>2, <2>2 DEF WireInv, WireTypes
<1>4. QED
  BY <1>1, <1>2, <1>3, WireSteps

\* The client connects, with the last id.
LEMMA ConnectSteps ==
  ASSUME WireInv, Connect, UNCHANGED theaterVars
  PROVE  WireInv'
<1> DEFINE K == Known
           c == client.on + 1
           one == [Unused EXCEPT !.at = "asking", !.up = TRUE, !.after = client.lastId]
<1>1. /\ client \in [status : {"down", "live"}, on : {0} \cup Conns, lastId : {0} \cup Ids]
      /\ conn \in [Conns -> Connection(K)] /\ event \in [Ids -> Stages] /\ c \in Conns
  BY DEF WireInv, WireTypes, Carries, Connect
<1>2. client' \in [status : {"down", "live"}, on : {0} \cup Conns, lastId : {0} \cup Ids]
      /\ client'.on = c
  <2>1. client' = [client EXCEPT !.status = "live", !.on = client.on + 1]
    BY DEF Connect
  <2>2. QED
    BY <1>1, <2>1
<1>3. one \in Connection(K)
  <2>1. Unused \in Connection(K) /\ client.lastId \in {0} \cup Ids
    BY <1>1, UnusedType
  <2>2. one = [Unused EXCEPT !.at = "asking", !.up = TRUE, !.after = client.lastId]
    OBVIOUS
  <2> HIDE DEF K, one
  <2>3. QED
    BY <2>1, <2>2, AskingType
<1>4. conn' = [conn EXCEPT ![c] = one]
  BY DEF Connect
<1>5. UNCHANGED <<event, reading, lines>>
  BY DEF Connect
<1> HIDE DEF one, c
<1>6. conn' \in [Conns -> Connection(Known)]
  BY <1>1, <1>3, <1>4
<1>7. WireTypes'
  BY <1>1, <1>2, <1>5 DEF WireTypes
<1>8. QED
  BY <1>5, <1>6, <1>7, WireSteps

\* The client's connection drops, with what was on its wire.
LEMMA DropSteps ==
  ASSUME WireInv, Drop, UNCHANGED theaterVars
  PROVE  WireInv'
<1> DEFINE K == Known
           c == client.on
           k == conn[c]
           one == [k EXCEPT !.up = FALSE, !.wire = <<>>]
<1>1. /\ client \in [status : {"down", "live"}, on : {0} \cup Conns, lastId : {0} \cup Ids]
      /\ conn \in [Conns -> Connection(K)] /\ event \in [Ids -> Stages] /\ c \in Conns
  BY DEF WireInv, WireTypes, Carries, Drop
<1>2. client' \in [status : {"down", "live"}, on : {0} \cup Conns, lastId : {0} \cup Ids]
      /\ client'.status = "down"
  <2>1. client' = [client EXCEPT !.status = "down"]
    BY DEF Drop
  <2>2. QED
    BY <1>1, <2>1
<1>3. k \in Connection(K)
  BY <1>1
<1>4. conn' = [conn EXCEPT ![c] = one]
  BY DEF Drop
<1>5. UNCHANGED <<event, reading, lines>>
  BY DEF Drop
<1> HIDE DEF c, k
<1>6. one \in Connection(K)
  <2>1. <<>> \in Seq(K)
    OBVIOUS
  <2> HIDE DEF K
  <2>2. QED
    BY <1>3, <2>1 DEF Connection, Whereabouts
<1> HIDE DEF one
<1>7. conn' \in [Conns -> Connection(Known)]
  BY <1>1, <1>4, <1>6
<1>8. WireTypes'
  BY <1>1, <1>2, <1>5 DEF WireTypes
<1>9. QED
  BY <1>5, <1>7, <1>8, WireSteps

-----------------------------------------------------------------------------
(* The steps of the page *)

\* What the page hears of an event it knows of is real, and takes nothing back.
LEMMA HeardIsReal ==
  ASSUME ContentAssumption, FeedIsReal, NEW id \in Known, event' = event,
         feed' = Heard(feed, Content[id]), UNCHANGED <<stage, fallback, receiptRow>>
  PROVE  /\ FeedIsReal'
         /\ feed.finalised => feed'.finalised
         /\ feed.settlement => feed'.settlement
         /\ IsFinal(id) => feed'.finalised
         /\ IsReceipt(id) => feed'.settlement /\ feed'.finalised
<1> DEFINE e == Content[id]
           f == feed
<1>1. /\ f = [score |-> f.score, finalised |-> f.finalised, settlement |-> f.settlement]
      /\ e.type \in {"score", "receipt"}
  BY DEF FeedIsReal, Known
<1>2. Known' = Known /\ (ReceiptKnown' <=> ReceiptKnown) /\ (FinalKnown' <=> FinalKnown)
  BY DEF Known, ReceiptKnown, FinalKnown, IsReceipt, IsFinal
<1>3. CASE e.type = "receipt"
  <2>1. feed' = [f EXCEPT !.finalised = TRUE, !.settlement = TRUE]
    BY <1>3 DEF Heard
  <2> HIDE DEF f
  <2>2. feed' = [score |-> f.score, finalised |-> TRUE, settlement |-> TRUE]
    BY <1>1, <2>1
  <2>3. IsReceipt(id) /\ ReceiptKnown /\ FinalKnown
    BY <1>3 DEF IsReceipt, ReceiptKnown, FinalKnown
  <2>4. QED
    BY <1>2, <2>2, <2>3 DEF FeedIsReal
<1>4. CASE e.type = "score"
  <2>1. feed' = [f EXCEPT !.score = e.score, !.finalised = f.finalised \/ e.final]
    BY <1>4 DEF Heard
  <2> HIDE DEF f
  <2>2. feed' = [score |-> e.score, finalised |-> f.finalised \/ e.final,
                 settlement |-> f.settlement]
    BY <1>1, <2>1
  <2>3. ~IsReceipt(id) /\ (IsFinal(id) <=> e.final)
    BY <1>4 DEF IsReceipt, IsFinal
  <2>4. e.final => FinalKnown
    BY <2>3 DEF FinalKnown
  <2>5. /\ feed' = [score |-> feed'.score, finalised |-> feed'.finalised,
                    settlement |-> feed'.settlement]
        /\ feed'.finalised = (feed.finalised \/ e.final)
        /\ feed'.settlement = feed.settlement
    BY <2>2 DEF f
  <2> HIDE DEF e
  <2>6. /\ feed.finalised => feed'.finalised
        /\ feed'.finalised => feed.finalised \/ e.final
        /\ feed'.settlement <=> feed.settlement
    BY <2>5
  <2>7. FeedIsReal'
    <3>1. /\ feed'.settlement => feed'.finalised /\ (receiptRow' \/ ReceiptKnown')
          /\ feed'.finalised => receiptRow' \/ FinalKnown'
      BY <1>2, <2>4, <2>6 DEF FeedIsReal
    <3>2. /\ fallback' = "found" => receiptRow'
          /\ stage' \in Watch..Receipt
          /\ stage' >= Final => feed'.finalised
          /\ stage' >= Verified => feed'.settlement
      BY <1>2, <2>6 DEF FeedIsReal
    <3>3. feed' = [score |-> feed'.score, finalised |-> feed'.finalised,
                   settlement |-> feed'.settlement]
      BY <2>5
    <3>4. QED
      BY <3>1, <3>2, <3>3 DEF FeedIsReal
  <2>8. QED
    BY <2>3, <2>5, <2>7
<1>5. QED
  BY <1>1, <1>3, <1>4

\* The page hears the next event on its wire.
LEMMA HearSteps ==
  ASSUME WireInv, Hear
  PROVE  WireInv'
<1> DEFINE c == client.on
           k == conn[c]
           K == Known
           id == Head(k.wire)
           one == [k EXCEPT !.wire = Tail(k.wire)]
<1>1. /\ WireTypes /\ Carries(K) /\ FeedIsReal /\ ArrivalOrderIsHarmless
      /\ client \in [status : {"down", "live"}, on : {0} \cup Conns, lastId : {0} \cup Ids]
  BY DEF WireInv, WireTypes
<1>2. client.status = "live" /\ k.wire # <<>> /\ Incoming = k.wire
  BY DEF Hear, Receive, Incoming
<1>3. c \in Conns
  BY <1>1, <1>2 DEF WireTypes
<1>4. conn \in [Conns -> Connection(K)] /\ k \in Connection(K) /\ lines \in Seq(K)
  BY <1>1, <1>3 DEF Carries
<1>5. /\ client' = [client EXCEPT !.lastId = id]
      /\ conn' = [conn EXCEPT ![c] = one]
      /\ lines' = Append(lines, id)
      /\ UNCHANGED <<event, reading>>
      /\ feed' = Heard(feed, Content[id])
      /\ UNCHANGED <<stage, fallback, receiptRow>>
  BY <1>2 DEF Hear, Receive
<1>6. k.wire \in Seq(K)
  BY <1>4 DEF Connection, Whereabouts
<1>7. id \in K /\ Tail(k.wire) \in Seq(K)
  <2> HIDE DEF K, k
  <2>1. QED
    BY <1>2, <1>6
<1>8. one \in Connection(K)
  <2> HIDE DEF K, k
  <2>1. QED
    BY <1>4, <1>7, ConnectionChanges
<1>9. K \subseteq Ids /\ Known' = K
  BY <1>5 DEF Known
<1>10. WireTypes'
  <2>1. client' \in [status : {"down", "live"}, on : {0} \cup Conns, lastId : {0} \cup Ids]
        /\ client'.on = client.on
    <3> HIDE DEF id, K
    <3>1. QED
      BY <1>1, <1>5, <1>7, <1>9
  <2>2. event' = event /\ client'.status = client.status
    BY <1>1, <1>5
  <2>3. QED
    BY <1>1, <2>1, <2>2 DEF WireTypes
<1>11. Carries(Known)'
  <2> HIDE DEF one, id, K
  <2>1. conn' \in [Conns -> Connection(K)]
    BY <1>3, <1>4, <1>5, <1>8
  <2>2. lines' \in Seq(K)
    BY <1>4, <1>5, <1>7
  <2>3. reading' \subseteq K
    BY <1>1, <1>5 DEF Carries
  <2>4. QED
    BY <1>9, <2>1, <2>2, <2>3 DEF Carries, Connection
<1>12. /\ FeedIsReal'
       /\ feed.finalised => feed'.finalised
       /\ feed.settlement => feed'.settlement
       /\ IsFinal(id) => feed'.finalised
       /\ IsReceipt(id) => feed'.settlement /\ feed'.finalised
  <2> HIDE DEF id
  <2>1. id \in Known
    BY <1>7
  <2>2. QED
    BY <1>1, <1>5, <2>1, ContentAssumption, HeardIsReal
<1>13. ArrivalOrderIsHarmless'
  <2> SUFFICES ASSUME NEW i \in DOMAIN lines'
               PROVE  /\ IsFinal(lines'[i]) => feed'.finalised
                      /\ IsReceipt(lines'[i]) => feed'.settlement /\ feed'.finalised
    BY DEF ArrivalOrderIsHarmless, IsFinal, IsReceipt
  <2> HIDE DEF id, K
  <2>1. lines'[i] = id \/ (i \in DOMAIN lines /\ lines'[i] = lines[i])
    BY <1>4, <1>5, <1>7
  <2>2. CASE lines'[i] = id
    BY <1>12, <2>2
  <2>3. CASE i \in DOMAIN lines /\ lines'[i] = lines[i]
    BY <1>1, <1>12, <2>3 DEF ArrivalOrderIsHarmless
  <2>4. QED
    BY <2>1, <2>2, <2>3
<1>14. QED
  BY <1>10, <1>11, <1>12, <1>13 DEF WireInv

\* The page does something, and the wire nothing.
LEMMA PageSteps ==
  ASSUME WireInv, UNCHANGED streamVars, FeedIsReal',
         feed.finalised => feed'.finalised, feed.settlement => feed'.settlement
  PROVE  WireInv'
<1>1. UNCHANGED <<event, reading, conn, client, lines>>
  BY DEF streamVars
<1>2. Known' = Known
  BY <1>1 DEF Known
<1>3. WireTypes' /\ Carries(Known)'
  BY <1>1, <1>2 DEF WireInv, WireTypes, Carries, Connection
<1>4. ArrivalOrderIsHarmless'
  BY <1>1 DEF WireInv, ArrivalOrderIsHarmless, IsFinal, IsReceipt
<1>5. QED
  BY <1>3, <1>4 DEF WireInv

\* What is known stays known while the wire does nothing.
LEMMA SameKnown ==
  ASSUME UNCHANGED streamVars
  PROVE  Known' = Known /\ (ReceiptKnown' <=> ReceiptKnown) /\ (FinalKnown' <=> FinalKnown)
<1>1. Known' = Known
  BY DEF streamVars, Known
<1>2. QED
  BY <1>1 DEF ReceiptKnown, FinalKnown, IsReceipt, IsFinal

\* The receipt's row is written.
LEMMA WriteReceiptSteps ==
  ASSUME WireInv, WriteReceipt
  PROVE  WireInv'
<1>1. UNCHANGED streamVars /\ UNCHANGED <<feed, stage, fallback>> /\ FeedIsReal
  BY DEF WriteReceipt, WireInv
<1>2. FeedIsReal'
  <2>1. (ReceiptKnown => ReceiptKnown') /\ (FinalKnown => FinalKnown')
    BY <1>1, SameKnown
  <2>2. feed' = feed /\ stage' = stage /\ fallback' = fallback /\ receiptRow'
    BY <1>1 DEF WriteReceipt
  <2>3. QED
    BY <1>1, <2>1, <2>2 DEF FeedIsReal
<1>3. QED
  BY <1>1, <1>2, PageSteps

\* The page looks for a settlement of the past, once,
LEMMA FallbackReadSteps ==
  ASSUME WireInv, FallbackRead
  PROVE  WireInv'
<1>1. UNCHANGED streamVars /\ UNCHANGED <<feed, stage, receiptRow>> /\ FeedIsReal
  BY DEF FallbackRead, WireInv
<1>2. fallback' = "found" => receiptRow
  BY DEF FallbackRead
<1>3. FeedIsReal'
  BY <1>1, <1>2, SameKnown DEF FeedIsReal
<1>4. QED
  BY <1>1, <1>3, PageSteps

\* and is told of one there is.
LEMMA FallbackAnswerSteps ==
  ASSUME WireInv, FallbackAnswer
  PROVE  WireInv'
<1>1. /\ UNCHANGED streamVars /\ UNCHANGED <<stage, receiptRow>> /\ FeedIsReal
      /\ fallback = "found" /\ fallback' = "done"
  BY DEF FallbackAnswer, WireInv
<1>2. receiptRow
  BY <1>1 DEF FeedIsReal
<1>3. CASE feed' = feed
  <2>1. FeedIsReal'
    BY <1>1, <1>3, SameKnown DEF FeedIsReal
  <2>2. QED
    BY <1>1, <1>3, <2>1, PageSteps
<1>4. CASE feed' = [score |-> Proven, finalised |-> TRUE, settlement |-> TRUE]
  <2>1. FeedIsReal'
    BY <1>1, <1>2, <1>4, SameKnown DEF FeedIsReal
  <2>2. QED
    BY <1>1, <1>4, <2>1, PageSteps
<1>5. QED
  BY <1>3, <1>4 DEF FallbackAnswer

\* The clock runs on, as far as what was heard allows.
LEMMA AdvanceSteps ==
  ASSUME WireInv, Advance
  PROVE  WireInv'
<1>1. /\ UNCHANGED streamVars /\ UNCHANGED <<feed, fallback, receiptRow>> /\ FeedIsReal
      /\ stage < Cap(feed) /\ stage' = stage + 1 /\ stage \in 0..6
  BY DEF Advance, WireInv, FeedIsReal, Watch, Receipt
<1>2. /\ stage' \in 0..6
      /\ stage' >= 1 => feed.finalised
      /\ stage' >= 4 => feed.settlement
  <2>1. CASE feed.settlement
    BY <1>1, <2>1 DEF Cap, Receipt, FeedIsReal
  <2>2. CASE ~feed.settlement /\ feed.finalised
    BY <1>1, <2>2 DEF Cap, Cpi
  <2>3. CASE ~feed.settlement /\ ~feed.finalised
    BY <1>1, <2>3 DEF Cap, Watch
  <2>4. QED
    BY <2>1, <2>2, <2>3
<1>3. FeedIsReal'
  <2>1. /\ stage' \in Watch..Receipt
        /\ stage' >= Final => feed'.finalised
        /\ stage' >= Verified => feed'.settlement
    BY <1>1, <1>2 DEF Watch, Final, Verified, Receipt
  <2>2. UNCHANGED <<feed, fallback, receiptRow>>
    BY <1>1
  <2>3. QED
    BY <1>1, <2>1, <2>2, SameKnown DEF FeedIsReal
<1>4. QED
  BY <1>1, <1>3, PageSteps

-----------------------------------------------------------------------------
(* The live theater *)

\* Nothing is known at the start.
LEMMA WireStarts ==
  WireInit => WireInv
<1> SUFFICES ASSUME WireInit PROVE WireInv
  OBVIOUS
<1>1. /\ event = [id \in Ids |-> "none"] /\ reading = {} /\ lines = <<>>
      /\ conn = [c \in Conns |-> Unused]
      /\ client = [status |-> "down", on |-> 0, lastId |-> 0]
      /\ feed = [score |-> NoScore, finalised |-> FALSE, settlement |-> FALSE]
      /\ stage = 0 /\ fallback = "asked" /\ receiptRow = FALSE
  BY DEF WireInit, StreamInit, Empty, Watch
<1>2. WireTypes
  BY <1>1 DEF WireTypes, Stages
<1>3. Carries(Known)
  <2>1. Unused \in Connection(Known)
    BY UnusedType
  <2>2. QED
    BY <1>1, <2>1 DEF Carries
<1>4. FeedIsReal
  BY <1>1 DEF FeedIsReal, Watch, Final, Verified, Receipt
<1>5. ArrivalOrderIsHarmless
  BY <1>1 DEF ArrivalOrderIsHarmless
<1>6. QED
  BY <1>2, <1>3, <1>4, <1>5 DEF WireInv

\* An emission goes on, or fails.
LEMMA EmissionKeeps ==
  ASSUME WireInv, NEW id \in Ids, Emit(id) \/ Insert(id) \/ Notify(id) \/ EmitFails(id),
         UNCHANGED theaterVars
  PROVE  WireInv'
<1>1. CASE Emit(id)
  BY <1>1, EmissionSteps DEF Emit, Stages
<1>2. CASE Insert(id)
  BY <1>2, EmissionSteps DEF Insert, Stages
<1>3. CASE Notify(id)
  <2>1. reading' \subseteq reading \cup {id}
    BY <1>3 DEF Notify
  <2>2. QED
    BY <1>3, <2>1, EmissionSteps DEF Notify, Stages
<1>4. CASE EmitFails(id)
  <2>1. PICK st \in Stages \ {"none"} : event' = [event EXCEPT ![id] = st]
    BY <1>4 DEF EmitFails, Stages
  <2>2. reading' \subseteq reading \cup {id} /\ UNCHANGED <<conn, client, lines>>
    BY <1>4 DEF EmitFails
  <2>3. QED
    BY <2>1, <2>2, EmissionSteps
<1>5. QED
  BY <1>1, <1>2, <1>3, <1>4

\* The API listens or does not; a read fails.
LEMMA ListenKeeps ==
  ASSUME WireInv, Listen \/ ListenLost \/ \E id \in Ids : DispatchFails(id),
         UNCHANGED theaterVars
  PROVE  WireInv'
<1>1. reading' \subseteq reading /\ UNCHANGED <<event, conn, client, lines>>
  BY DEF Listen, ListenLost, DispatchFails
<1>2. conn' \in [Conns -> Connection(Known)]
  BY <1>1 DEF WireInv, Carries
<1>3. QED
  BY <1>1, <1>2, IdleClient, WireSteps

\* A replay fails; a connection that closed is noticed.
LEMMA NoticedKeeps ==
  ASSUME WireInv, NEW c \in Conns, ReplayFails(c) \/ Closed(c), UNCHANGED theaterVars
  PROVE  WireInv'
<1>1. PICK at \in Whereabouts : conn' = [conn EXCEPT ![c].at = at]
  <2>1. CASE ReplayFails(c)
    BY <2>1 DEF ReplayFails, Whereabouts
  <2>2. CASE Closed(c)
    BY <2>2 DEF Closed, Whereabouts
  <2>3. QED
    BY <2>1, <2>2
<1>2. UNCHANGED <<event, client, lines, reading>>
  BY DEF ReplayFails, Closed
<1>3. QED
  BY <1>1, <1>2, AtSteps

\* Every step of the keeper, the API, the client and the page keeps WireInv.
LEMMA WireKeeps ==
  WireInv /\ [WireNext]_wireVars => WireInv'
<1> SUFFICES ASSUME WireInv, [WireNext]_wireVars
             PROVE  WireInv'
  OBVIOUS
<1>1. CASE (Emission \/ Serve \/ Connect \/ Faults) /\ UNCHANGED theaterVars
  <2>1. CASE Emission \/ \E id \in Ids : EmitFails(id)
    BY <1>1, <2>1, EmissionKeeps DEF Emission
  <2>2. CASE Listen \/ ListenLost \/ \E id \in Ids : DispatchFails(id)
    BY <1>1, <2>2, ListenKeeps
  <2>3. CASE \E id \in Ids : Dispatch(id)
    BY <1>1, <2>3, DispatchSteps
  <2>4. CASE \E c \in Conns : ReplayRead(c)
    BY <1>1, <2>4, ReplayReadSteps
  <2>5. CASE \E c \in Conns : ReplayWrite(c)
    BY <1>1, <2>5, ReplayWriteSteps
  <2>6. CASE \E c \in Conns : ReplayFails(c) \/ Closed(c)
    BY <1>1, <2>6, NoticedKeeps
  <2>7. CASE ApiRestart \/ Connect \/ Drop
    BY <1>1, <2>7, RestartSteps, ConnectSteps, DropSteps
  <2>8. QED
    BY <1>1, <2>1, <2>2, <2>3, <2>4, <2>5, <2>6, <2>7 DEF Serve, Faults
<1>2. CASE Hear
  BY <1>2, HearSteps
<1>3. CASE WriteReceipt \/ FallbackRead \/ FallbackAnswer \/ Advance
  BY <1>3, WriteReceiptSteps, FallbackReadSteps, FallbackAnswerSteps, AdvanceSteps
<1>4. CASE UNCHANGED wireVars
  <2>1. UNCHANGED streamVars /\ UNCHANGED <<feed, stage, fallback, receiptRow>>
    BY <1>4 DEF wireVars, theaterVars
  <2>2. FeedIsReal'
    BY <2>1, SameKnown DEF FeedIsReal, WireInv
  <2>3. QED
    BY <2>1, <2>2, PageSteps
<1>5. QED
  BY <1>1, <1>2, <1>3, <1>4 DEF WireNext

\* For any number of events, in any order of arrival, with any limits of the
\* replay and any drops and restarts: the page shows FINALISED and VERIFIED
\* only for a final record and a receipt that were emitted, and never takes back
\* what one of them announced (driver.ts:12-14).
THEOREM TheaterStaysReal == WireSpec => []TheaterIsReal
<1>1. WireInit => WireInv
  BY WireStarts
<1>2. WireInv /\ [WireNext]_wireVars => WireInv'
  BY WireKeeps
<1>3. WireInv => TheaterIsReal
  <2> SUFFICES ASSUME WireInv PROVE TheaterIsReal
    OBVIOUS
  <2>1. FeedIsReal /\ ArrivalOrderIsHarmless
    BY DEF WireInv
  <2>2. stage >= Verified => receiptRow \/ ReceiptKnown
    BY <2>1 DEF FeedIsReal
  <2>3. stage >= Final => receiptRow \/ FinalKnown
    BY <2>1 DEF FeedIsReal
  <2>4. StagesAreReal
    BY <2>2, <2>3 DEF StagesAreReal, ReceiptKnown, FinalKnown, Known
  <2>5. QED
    BY <2>1, <2>4 DEF TheaterIsReal
<1>4. QED
  BY <1>1, <1>2, <1>3, PTL DEF WireSpec

-----------------------------------------------------------------------------
(* The replay *)

\* No recording is shorter than a second.
LEMMA SpanIsPositive ==
  ASSUME NEW rec, T0(rec) \in Int, T1(rec) \in Int
  PROVE  Span(rec) \in Nat \ {0}
BY DEF Span

\* A moment of a recording is due at some time.
LEMMA MomentsAreTimes ==
  ASSUME NEW rec, T0(rec) \in Int, T1(rec) \in Int, NEW t \in Int
  PROVE  Moment(rec, t) \in Int
<1> DEFINE c == Clamped(t - T0(rec), Span(rec))
<1>1. Span(rec) \in Nat \ {0}
  BY SpanIsPositive
<1>2. c \in Int
  BY <1>1 DEF Clamped
<1>3. c * Duration \in Int
  BY <1>2, DurationAssumption
<1> HIDE DEF c
<1>4. \A n \in Int, d \in Nat \ {0} : n \div d \in Int
  OBVIOUS
<1>5. (c * Duration) \div Span(rec) \in Int
  BY <1>1, <1>3, <1>4
<1> QED  BY <1>5 DEF Moment, c

\* The events of a recording are numbered and dated.
LEMMA EventsAreTimed ==
  ASSUME NEW rec \in Recordings
  PROVE  /\ Len(rec.events) \in Nat /\ DOMAIN rec.events = 1..Len(rec.events)
         /\ \A i \in DOMAIN rec.events : rec.events[i].at \in Nat
         /\ \A type : IsFiniteSet(OfType(rec, type)) /\ OfType(rec, type) \subseteq 1..Len(rec.events)
         /\ T0(rec) \in Int /\ T1(rec) \in Int
<1> DEFINE Event == [at : Nat, type : STRING, score : STRING, final : BOOLEAN]
           es == rec.events
<1>1. es \in Seq(Event) /\ rec.kickoff \in Nat
  BY RecordingsAssumption
<1>2. Len(es) \in Nat /\ DOMAIN es = 1..Len(es) /\ \A i \in DOMAIN es : es[i] \in Event
  <2> HIDE DEF Event, es
  <2> QED  BY <1>1
<1>3. \A i \in DOMAIN es : es[i].at \in Nat
  BY <1>2
<1>4. es # <<>> => 1 \in DOMAIN es /\ Len(es) \in DOMAIN es
  BY <1>1, <1>2
<1> HIDE DEF Event, es
<1>5. ASSUME NEW type
      PROVE  IsFiniteSet(OfType(rec, type)) /\ OfType(rec, type) \subseteq 1..Len(es)
  <2>1. OfType(rec, type) \subseteq 1..Len(es)
    BY <1>2 DEF OfType, es
  <2>2. IsFiniteSet(1..Len(es))
    BY <1>2, FS_Interval
  <2> QED  BY <2>1, <2>2, FS_Subset
<1>6. T0(rec) \in Int
  BY <1>1, <1>3, <1>4 DEF T0, es
<1>7. T1(rec) \in Int
  <2>1. CASE Receipted(rec)
    <3>1. OfType(rec, "receipt") # {}
      BY <2>1 DEF Receipted
    <3>2. First(OfType(rec, "receipt")) \in DOMAIN es
      BY <1>2, <1>5, <3>1, FirstIsLeast
    <3> QED  BY <1>3, <2>1, <3>2 DEF T1, es
  <2>2. CASE ~Receipted(rec)
    BY <1>3, <1>4, <1>6, <2>2 DEF T1, es
  <2> QED  BY <2>1, <2>2
<1> QED  BY <1>2, <1>3, <1>5, <1>6, <1>7 DEF es

\* A recording sets finitely many timers, each for some time.
LEMMA TimersAreTimed ==
  ASSUME NEW rec \in Recordings
  PROVE  /\ IsFiniteSet(Timers(rec)) /\ Timers(rec) \subseteq 1..(Len(rec.events) + 2)
         /\ \A i \in Timers(rec) : Due(rec, i) \in Int
         /\ ReceiptAt(rec) \in Int
<1> DEFINE L == Len(rec.events)
<1>1. /\ L \in Nat /\ DOMAIN rec.events = 1..L
      /\ \A i \in 1..L : rec.events[i].at \in Int
      /\ T0(rec) \in Int /\ T1(rec) \in Int
      /\ \A type : OfType(rec, type) \subseteq 1..L /\ IsFiniteSet(OfType(rec, type))
  <2>1. \A i \in DOMAIN rec.events : rec.events[i].at \in Nat
    BY EventsAreTimed
  <2> QED  BY <2>1, EventsAreTimed
<1>2. \A t \in Int : Moment(rec, t) \in Int
  BY <1>1, MomentsAreTimes
<1>3. \A n \in Int, d \in Nat \ {0} : n \div d \in Int
  OBVIOUS
<1>4. ReceiptAt(rec) \in Int
  <2>1. Duration * 72 \in Int
    BY DurationAssumption
  <2>2. (Duration * 72) \div 100 \in Int
    BY <1>3, <2>1
  <2>3. Moment(rec, T1(rec)) \in Int
    BY <1>1, <1>2
  <2> QED  BY <2>2, <2>3 DEF ReceiptAt
<1>5. FinalAt(rec) \in Int
  <2>1. Duration * 4 \in Int
    BY DurationAssumption
  <2>2. (Duration * 4) \div 10 \in Int
    BY <1>3, <2>1
  <2>3. CASE Finals(rec) # {}
    <3>1. Finals(rec) \subseteq 1..L /\ IsFiniteSet(Finals(rec))
      BY <1>1, FS_Subset DEF Finals
    <3>2. First(Finals(rec)) \in 1..L
      BY <1>1, <2>3, <3>1, FirstIsLeast
    <3> QED  BY <1>1, <1>2, <2>3, <3>2 DEF FinalAt
  <2> QED  BY <2>2, <2>3 DEF FinalAt
<1>6. Timers(rec) \subseteq 1..(L + 2)
  BY <1>1 DEF Timers, FinalTimer, ReceiptTimer
<1>7. IsFiniteSet(Timers(rec))
  <2>1. IsFiniteSet(1..(L + 2))
    BY <1>1, FS_Interval
  <2> QED  BY <1>6, <2>1, FS_Subset
<1>8. ASSUME NEW i \in Timers(rec)
      PROVE  Due(rec, i) \in Int
  <2>1. i \in 1..L \/ i = FinalTimer(rec) \/ i = ReceiptTimer(rec)
    BY <1>1 DEF Timers
  <2> QED  BY <1>1, <1>2, <1>4, <1>5, <2>1 DEF Due
<1> QED  BY <1>4, <1>6, <1>7, <1>8

\* Which timers a recording sets, and that they fire one after the other.
LEMMA TimersAreApart ==
  ASSUME NEW rec \in Recordings
  PROVE  /\ FinalTimer(rec) \in Timers(rec)
         /\ ReceiptTimer(rec) \in Timers(rec) <=> Settled(rec)
         /\ FinalTimer(rec) # ReceiptTimer(rec)
         /\ \A i \in Timers(rec) :
              i \in OfType(rec, "score") \/ i \in {FinalTimer(rec), ReceiptTimer(rec)}
         /\ \A i \in OfType(rec, "score") :
              i < ReceiptTimer(rec) /\ i \notin {FinalTimer(rec), ReceiptTimer(rec)}
         /\ \A i, j \in Timers(rec) : Before(rec, i, j) /\ Before(rec, j, i) => i = j
<1>1. Len(rec.events) \in Nat /\ OfType(rec, "score") \subseteq 1..Len(rec.events)
  BY EventsAreTimed
<1>2. \A i \in Timers(rec) : i \in Int /\ Due(rec, i) \in Int
  BY <1>1, TimersAreTimed
<1>3. \A i, j \in Timers(rec) : Before(rec, i, j) /\ Before(rec, j, i) => i = j
  BY <1>2 DEF Before
<1> QED  BY <1>1, <1>3 DEF Timers, FinalTimer, ReceiptTimer

-----------------------------------------------------------------------------
(* The replay, however often it is started *)

\* A play starts from an empty feed, with all its timers to come.
LEMMA PlaySteps ==
  ASSUME ReplayInv, Play
  PROVE  ReplayInv'
<1>1. /\ tape' = tape /\ plays' = plays + 1 /\ pending' = Timers(tape)
      /\ shown' = Empty /\ beat' = Watch /\ plays < MaxPlays
      /\ tape \in Recordings /\ plays \in 0..MaxPlays
  BY DEF Play, ReplayInv, ReplayTypes
<1>2. Fired' = {}
  BY <1>1 DEF Fired
<1>3. ReplayTypes'
  BY <1>1, PlaysAssumption DEF ReplayTypes, Empty, Watch, Receipt
<1>4. FeedIsReplayed'
  BY <1>1, <1>2 DEF FeedIsReplayed, Empty
<1>5. StagedAsFed'
  BY <1>1 DEF StagedAsFed, Cap, Empty, Watch
<1> QED  BY <1>3, <1>4, <1>5 DEF ReplayInv

\* A timer that fires tells the feed what is its to tell.
LEMMA FireSteps ==
  ASSUME ReplayInv, NEW i \in pending, Fire(i)
  PROVE  ReplayInv'
<1> DEFINE Fin == FinalTimer(tape)
           Rec == ReceiptTimer(tape)
           Goals == OfType(tape, "score")
<1>1. /\ tape' = tape /\ plays' = plays /\ pending' = pending \ {i} /\ beat' = beat
      /\ shown' = Beat(shown, tape, i) /\ \A j \in pending : Before(tape, i, j)
  BY DEF Fire
<1>2. ReplayTypes /\ FeedIsReplayed /\ StagedAsFed
  BY DEF ReplayInv
<1>3. /\ tape \in Recordings /\ plays # 0 /\ i \in Timers(tape) /\ pending \subseteq Timers(tape)
      /\ shown = [score |-> shown.score, finalised |-> shown.finalised,
                  settlement |-> shown.settlement]
      /\ {shown.finalised, shown.settlement} \subseteq BOOLEAN
  BY <1>2 DEF ReplayTypes
<1>4. /\ Fin # Rec /\ i \in Goals \cup {Fin, Rec}
      /\ \A s \in Goals : s \notin {Fin, Rec}
      /\ \A j, k \in Timers(tape) : Before(tape, j, k) /\ Before(tape, k, j) => j = k
  BY <1>3, TimersAreApart
<1>5. Fired' = Fired \cup {i} /\ i \notin Fired /\ Fired \subseteq Timers(tape)
  BY <1>1, <1>3 DEF Fired
<1>6. /\ shown' = [score |-> shown'.score, finalised |-> shown'.finalised,
                   settlement |-> shown'.settlement]
      /\ shown'.finalised = (shown.finalised \/ i \in {Fin, Rec})
      /\ shown'.settlement = (shown.settlement \/ i = Rec)
      /\ i = Fin => shown'.score = shown.score
      /\ i = Rec /\ tape.proven # NoScore => shown'.score = tape.proven
  <2> DEFINE f == shown
  <2> HIDE DEF f, Fin, Rec
  <2>1. CASE i = Fin
    <3>1. shown' = [f EXCEPT !.finalised = TRUE]
      BY <1>1, <1>4, <2>1 DEF Beat, f, Fin, Rec
    <3>2. shown' = [score |-> f.score, finalised |-> TRUE, settlement |-> f.settlement]
      BY <1>3, <3>1 DEF f
    <3> QED  BY <1>3, <1>4, <2>1, <3>2 DEF f
  <2>2. CASE i = Rec
    <3>1. shown' = [score |-> IF tape.proven = NoScore THEN shown.score ELSE tape.proven,
                    finalised |-> TRUE, settlement |-> TRUE]
      BY <1>1, <1>4, <2>2 DEF Beat, Fin, Rec
    <3> QED  BY <1>3, <1>4, <2>2, <3>1
  <2>3. CASE i \in Goals
    <3>1. shown' = [f EXCEPT !.score = tape.events[i].score]
      <4>1. i # FinalTimer(tape) /\ i # ReceiptTimer(tape)
        BY <1>4, <2>3 DEF Fin, Rec
      <4> QED  BY <1>1, <4>1 DEF Beat, f
    <3>2. shown' = [score |-> tape.events[i].score, finalised |-> f.finalised,
                    settlement |-> f.settlement]
      BY <1>3, <3>1 DEF f
    <3> QED  BY <1>3, <1>4, <2>3, <3>2 DEF f
  <2> QED  BY <1>4, <2>1, <2>2, <2>3
<1>7. ReplayTypes'
  <2>1. /\ tape' \in Recordings /\ plays' \in 0..MaxPlays /\ beat' \in Watch..Receipt
        /\ pending' \subseteq IF plays' = 0 THEN {} ELSE Timers(tape')
    BY <1>1, <1>2 DEF ReplayTypes
  <2>2. {shown'.finalised, shown'.settlement} \subseteq BOOLEAN
    BY <1>3, <1>6
  <2> HIDE DEF Fin, Rec, Goals
  <2> QED  BY <1>6, <2>1, <2>2 DEF ReplayTypes
<1>8. FeedIsReplayed'
  <2> HIDE DEF Fin, Rec, Goals
  <2>1. \A j \in Fired', k \in pending' : Before(tape, j, k)
    BY <1>1, <1>2, <1>5 DEF FeedIsReplayed
  <2>2. shown'.settlement <=> Rec \in Fired'
    BY <1>2, <1>5, <1>6 DEF FeedIsReplayed, Rec
  <2>3. shown'.finalised <=> {Fin, Rec} \cap Fired' # {}
    BY <1>2, <1>5, <1>6 DEF FeedIsReplayed, Fin, Rec
  <2>4. ASSUME Rec \in Fired', tape.proven # NoScore,
               \A s \in Goals \cap Fired' : Before(tape, s, Rec)
        PROVE  shown'.score = tape.proven
    <3>1. CASE i = Rec
      BY <1>6, <2>4, <3>1
    <3>2. CASE i # Rec
      <4>1. Rec \in Fired
        BY <1>5, <2>4, <3>2
      <4>2. i \notin Goals
        <5>1. Before(tape, Rec, i)
          BY <1>2, <4>1 DEF FeedIsReplayed
        <5>2. ASSUME i \in Goals PROVE FALSE
          <6>1. Before(tape, i, Rec)
            BY <1>5, <2>4, <5>2
          <6> QED  BY <1>3, <1>4, <1>5, <3>2, <4>1, <5>1, <6>1
        <5> QED  BY <5>2
      <4>3. shown'.score = shown.score
        BY <1>4, <1>6, <3>2, <4>2
      <4>4. \A s \in Goals \cap Fired : Before(tape, s, Rec)
        BY <1>5, <2>4
      <4>5. shown.score = tape.proven
        BY <1>2, <2>4, <4>1, <4>4 DEF FeedIsReplayed, Rec, Goals
      <4> QED  BY <4>3, <4>5
    <3> QED  BY <3>1, <3>2
  <2>5. tape' = tape
    BY <1>1
  <2> QED  BY <2>1, <2>2, <2>3, <2>4, <2>5 DEF FeedIsReplayed, Fin, Rec, Goals
<1>9. StagedAsFed'
  <2>1. beat <= Cap(shown) /\ beat' = beat
    BY <1>1, <1>2 DEF StagedAsFed
  <2>2. Cap(shown) \in Int /\ Cap(shown') \in Int /\ Cap(shown) <= Cap(shown')
    <3>1. (shown.finalised => shown'.finalised) /\ (shown.settlement => shown'.settlement)
      BY <1>3, <1>6
    <3> QED  BY <3>1 DEF Cap, Receipt, Cpi, Watch
  <2>3. beat \in Int
    BY <1>2 DEF ReplayTypes, Watch, Receipt
  <2> QED  BY <2>1, <2>2, <2>3 DEF StagedAsFed
<1> QED  BY <1>7, <1>8, <1>9 DEF ReplayInv

\* The clock of the staging tells the feed nothing.
LEMMA NextBeatSteps ==
  ASSUME ReplayInv, NextBeat
  PROVE  ReplayInv'
<1>1. /\ UNCHANGED <<tape, plays, pending, shown>> /\ beat < Cap(shown) /\ beat' = beat + 1
      /\ ReplayTypes /\ FeedIsReplayed /\ beat \in Watch..Receipt
  BY DEF NextBeat, ReplayInv, ReplayTypes
<1>2. Fired' = Fired
  BY <1>1 DEF Fired
<1>3. beat' \in Watch..Receipt /\ beat' <= Cap(shown)
  BY <1>1 DEF Cap, Watch, Cpi, Receipt
<1>4. ReplayTypes'
  BY <1>1, <1>3 DEF ReplayTypes
<1>5. FeedIsReplayed'
  BY <1>1, <1>2 DEF FeedIsReplayed
<1>6. StagedAsFed'
  BY <1>1, <1>3 DEF StagedAsFed
<1> QED  BY <1>4, <1>5, <1>6 DEF ReplayInv

\* In every state of a replay the feed tells what has fired.
LEMMA ReplayInvariant == ReplaySpec => []ReplayInv
<1>1. ReplayInit => ReplayInv
  <2> SUFFICES ASSUME ReplayInit PROVE ReplayInv
    OBVIOUS
  <2>1. /\ tape \in Recordings /\ plays = 0 /\ pending = {} /\ shown = Empty /\ beat = Watch
        /\ Fired = {}
    BY DEF ReplayInit, Fired
  <2>2. ReplayTypes
    BY <2>1, PlaysAssumption DEF ReplayTypes, Empty, Watch, Receipt
  <2>3. FeedIsReplayed
    BY <2>1 DEF FeedIsReplayed, Empty
  <2>4. StagedAsFed
    BY <2>1 DEF StagedAsFed, Cap, Empty, Watch
  <2> QED  BY <2>2, <2>3, <2>4 DEF ReplayInv
<1>2. ReplayInv /\ [ReplayNext]_replayVars => ReplayInv'
  <2> SUFFICES ASSUME ReplayInv, [ReplayNext]_replayVars PROVE ReplayInv'
    OBVIOUS
  <2>1. CASE Play
    BY <2>1, PlaySteps
  <2>2. CASE TimerFires
    BY <2>2, FireSteps DEF TimerFires
  <2>3. CASE NextBeat
    BY <2>3, NextBeatSteps
  <2>4. CASE UNCHANGED replayVars
    BY <2>4 DEF replayVars, ReplayInv, ReplayTypes, FeedIsReplayed, StagedAsFed, Fired
  <2> QED  BY <2>1, <2>2, <2>3, <2>4 DEF ReplayNext
<1> QED  BY <1>1, <1>2, PTL DEF ReplaySpec

\* For recordings of any length and any number of plays, started at any moment:
\* the seal is staged only when this play has replayed the receipt
\* (driver.ts:244-284, SettlementTheater.tsx:46-74).
THEOREM SealsAreReplayed == ReplaySpec => []SealIsReplayed
<1>1. ReplayInv => SealIsReplayed
  <2> SUFFICES ASSUME ReplayInv PROVE SealIsReplayed
    OBVIOUS
  <2>1. ReplayTypes /\ FeedIsReplayed /\ beat <= Cap(shown) /\ beat \in Watch..Receipt
    BY DEF ReplayInv, ReplayTypes, StagedAsFed
  <2>2. beat >= Verified => shown.settlement
    BY <2>1 DEF Cap, Watch, Cpi, Verified, Receipt
  <2>3. beat >= Final => shown.finalised \/ shown.settlement
    BY <2>1 DEF Cap, Watch, Final, Cpi, Receipt
  <2> QED  BY <2>1, <2>2, <2>3 DEF SealIsReplayed, FeedIsReplayed
<1> QED  BY <1>1, ReplayInvariant, PTL

\* A play that has run to its end shows the seal exactly if there is a receipt,
\* on the proven score if no score is due after it (driver.ts:259-284).
THEOREM ReplaysEndProven == ReplaySpec => []ReplayEndsProven
<1>1. ReplayInv => ReplayEndsProven
  <2> SUFFICES ASSUME ReplayInv, plays > 0, pending = {}
               PROVE  /\ shown.settlement = Settled(tape)
                      /\ Settled(tape) \/ Finals(tape) # {} => shown.finalised
                      /\ /\ Settled(tape) /\ tape.proven # NoScore
                         /\ \A i \in OfType(tape, "score") : Due(tape, i) <= ReceiptAt(tape)
                         => shown.score = tape.proven
    BY DEF ReplayEndsProven
  <2> DEFINE Fin == FinalTimer(tape)
             Rec == ReceiptTimer(tape)
             Goals == OfType(tape, "score")
  <2>1. /\ tape \in Recordings /\ FeedIsReplayed
        /\ {shown.finalised, shown.settlement} \subseteq BOOLEAN
    BY DEF ReplayInv, ReplayTypes
  <2>2. Fired = Timers(tape)
    BY DEF Fired
  <2>3. /\ Fin \in Timers(tape) /\ (Rec \in Timers(tape) <=> Settled(tape)) /\ Fin # Rec
        /\ \A s \in Goals : s < Rec /\ s # Fin /\ s # Rec
    BY <2>1, TimersAreApart
  <2>4. Settled(tape) \in BOOLEAN
    BY <2>1, RecordingsAssumption DEF Settled, Receipted
  <2>5. shown.settlement = Settled(tape) /\ shown.finalised
    <3> HIDE DEF Fin, Rec
    <3>1. shown.settlement <=> Rec \in Fired
      BY <2>1 DEF FeedIsReplayed, Rec
    <3>2. shown.finalised <=> {Fin, Rec} \cap Fired # {}
      BY <2>1 DEF FeedIsReplayed, Fin, Rec
    <3> QED  BY <2>1, <2>2, <2>3, <2>4, <3>1, <3>2
  <2>6. ASSUME Settled(tape), tape.proven # NoScore,
               \A s \in Goals : Due(tape, s) <= ReceiptAt(tape)
        PROVE  shown.score = tape.proven
    <3>1. ASSUME NEW s \in Goals \cap Fired
          PROVE  Before(tape, s, Rec)
      <4>1. Due(tape, Rec) = ReceiptAt(tape)
        BY <2>3 DEF Due
      <4>2. Due(tape, s) \in Int /\ ReceiptAt(tape) \in Int
        BY <2>1, <2>2, <3>1, TimersAreTimed
      <4>3. s < Rec /\ s \in Int /\ Rec \in Int
        BY <2>1, <2>3, EventsAreTimed DEF ReceiptTimer
      <4> QED  BY <2>6, <4>1, <4>2, <4>3 DEF Before
    <3>2. Rec \in Fired
      BY <2>2, <2>3, <2>6
    <3> QED  BY <2>1, <2>6, <3>1, <3>2 DEF FeedIsReplayed
  <2> QED  BY <2>5, <2>6
<1> QED  BY <1>1, ReplayInvariant, PTL

-----------------------------------------------------------------------------
(* The backfill *)

USE TypesAssumption, BatchesAssumption, BoundsAssumption

\* What others do, or an answer that does not come, leaves the script where it
\* is; it is harmless as long as what is resolved or whole stays so.
LEMMA Harmless ==
  ASSUME BackfillInv, run' = run, rows' = rows, plan' = plan, backed' = backed,
         status' \in [Types -> {"absent", "open", "locked"} \cup Resolutions],
         \A t \in Types : status[t] \in Resolutions => status'[t] = status[t]
  PROVE  BackfillInv'
BY DEF BackfillInv, TypeOK, Whole, RowsAreTrue, Steps

\* The script goes on to another market, and reports of this one what is so.
LEMMA Leaves ==
  ASSUME BackfillInv, NEW t \in Types, NEW pc \in {"create", "settle"},
         NEW waits \in SUBSET Types, Leave(pc, t, waits), plan' = plan,
         backed' = backed, status' = status,
         \/ rows' = rows
         \/ \E st \in {"skipped", "failed"} \cup Resolutions :
              /\ rows' = [rows EXCEPT ![t] = st]
              /\ st \in Resolutions => status[t] = st
  PROVE  BackfillInv'
<1>1. /\ run'.pc = pc /\ run' \in RunType
  BY ZenonT(60) DEF BackfillInv, TypeOK, Leave, RunType, Steps
<1>2. rows' \in [Types -> {"none", "skipped", "failed"} \cup Resolutions]
  BY DEF BackfillInv, TypeOK
<1>3. RowsAreTrue'
  BY DEF BackfillInv, TypeOK, RowsAreTrue
<1> QED
  BY <1>1, <1>2, <1>3 DEF BackfillInv, TypeOK

\* A market the script leaves unsettled is reported as such.
LEMMA GivesUp ==
  ASSUME BackfillInv, NEW t \in Types, NEW st \in {"skipped", "failed"}, Row(t, st),
         plan' = plan, backed' = backed, status' = status
  PROVE  BackfillInv'
<1>1. st \notin Resolutions
  BY DEF Resolutions
<1> QED
  BY <1>1, Leaves DEF Row

\* A call is tried again, with one attempt less.
LEMMA Retries ==
  ASSUME BackfillInv, NEW pc \in {"init", "proof", "lock", "send"},
         \/ run.pc = pc
         \/ run.pc = "spec" /\ pc = "init",
         Retry(pc), rows' = rows, plan' = plan, backed' = backed,
         status' \in [Types -> {"absent", "open", "locked"} \cup Resolutions],
         \A t \in Types : status[t] \in Resolutions => status'[t] = status[t]
  PROVE  BackfillInv'
<1> USE DEF Steps
<1>0. run \in RunType /\ run.n + 1 \in Nat /\ run' = [run EXCEPT !.pc = pc, !.n = @ + 1]
  BY DEF BackfillInv, TypeOK, Retry, RunType
<1>1. run' \in RunType
  BY ZenonT(60), <1>0 DEF RunType
<1>2. run'.pc = pc /\ run'.at = run.at /\ run'.saw = run.saw /\ run'.zero = run.zero
  BY DEF BackfillInv, TypeOK, Retry, RunType, Steps
<1> QED
  BY <1>1, <1>2 DEF BackfillInv, TypeOK, RowsAreTrue, Whole

\* The account is read: what exists is not created again.
LEMMA ReadForCreationStep ==
  ASSUME BackfillInv, NEW t \in Types, ReadForCreation(t), plan' = plan
  PROVE  BackfillInv'
<1>1. CASE NextMarket(t)
  BY <1>1, Leaves DEF ReadForCreation, NextMarket, markets
<1>2. CASE Leave("create", t, {t})
  BY <1>2, Leaves DEF ReadForCreation, markets
<1>3. CASE run' = [run EXCEPT !.pc = "balance", !.at = t]
  <2>1. run' \in RunType /\ run'.pc = "balance" /\ run'.at = t
    BY ZenonT(60), <1>3 DEF BackfillInv, TypeOK, RunType, Steps
  <2> QED
    BY <2>1 DEF BackfillInv, TypeOK, RowsAreTrue, Whole, ReadForCreation, markets
<1>4. CASE run' = [run EXCEPT !.pc = "stake", !.at = t, !.n = 1, !.waits = @ \cup {t}]
  <2>0. run \in RunType /\ run.waits \cup {t} \in SUBSET Types
    BY DEF BackfillInv, TypeOK, RunType
  <2>1. run' \in RunType /\ run'.pc = "stake" /\ run'.at = t /\ run'.n = 1
    BY ZenonT(60), <1>4, <2>0 DEF RunType, Steps
  <2> QED
    BY <2>1 DEF BackfillInv, TypeOK, RowsAreTrue, Whole, ReadForCreation, markets
<1> QED
  BY <1>1, <1>2, <1>3, <1>4, Zenon DEF ReadForCreation

\* Without the means for the stakes the market is skipped.
LEMMA CheckBalanceStep ==
  ASSUME BackfillInv, NEW t \in Types, CheckBalance(t), plan' = plan
  PROVE  BackfillInv'
<1>1. CASE run' = [run EXCEPT !.pc = "init", !.n = 1]
  <2>1. run' \in RunType /\ run'.pc = "init" /\ run'.at = t
    BY ZenonT(60), <1>1 DEF BackfillInv, TypeOK, RunType, Steps, CheckBalance, At
  <2> QED
    BY <2>1 DEF BackfillInv, TypeOK, RowsAreTrue, Whole, CheckBalance, markets
<1>2. CASE run' = [run EXCEPT !.pc = "create", !.at = NoType, !.todo = {}]
  <2>1. run' \in RunType /\ run'.pc = "create"
    BY ZenonT(60), <1>2 DEF BackfillInv, TypeOK, RunType, Steps
  <2> QED
    BY <2>1 DEF BackfillInv, TypeOK, RowsAreTrue, Whole, CheckBalance, markets
<1> QED
  BY <1>1, <1>2 DEF CheckBalance, Call

\* A market that is created is open and has no stakes.
LEMMA InitMarketStep ==
  ASSUME BackfillInv, NEW t \in Types, InitMarket(t), plan' = plan
  PROVE  BackfillInv'
<1>1. /\ rows' = rows /\ backed' = backed
      /\ status' \in [Types -> {"absent", "open", "locked"} \cup Resolutions]
      /\ \A u \in Types : status[u] \in Resolutions => status'[u] = status[u]
      /\ run.pc = "init" /\ run.at = t
  BY DEF InitMarket, Transact, markets, BackfillInv, TypeOK, At, Resolutions
<1>2. CASE Retry("init")
  BY <1>1, <1>2, Retries
<1>3. CASE run' = [run EXCEPT !.pc = "specRead"]
  <2>1. run' \in RunType /\ run'.pc = "specRead" /\ run'.at = t
    BY <1>1, <1>3 DEF BackfillInv, TypeOK, RunType, Steps
  <2> QED
    BY <1>1, <2>1 DEF BackfillInv, TypeOK, RowsAreTrue, Whole
<1>4. CASE NextMarket(t)
  <2>1. /\ run'.pc = "create" /\ run' \in RunType
    BY ZenonT(60), <1>4 DEF BackfillInv, TypeOK, NextMarket, Leave, RunType, Steps
  <2> QED
    BY <1>1, <2>1 DEF BackfillInv, TypeOK, RowsAreTrue, Whole
<1> QED
  BY <1>2, <1>3, <1>4 DEF InitMarket, Transact, RetryCreation

\* The spec is read.
LEMMA ReadSpecStep ==
  ASSUME BackfillInv, NEW t \in Types, ReadSpec(t), plan' = plan
  PROVE  BackfillInv'
<1>0. run \in RunType
  BY DEF BackfillInv, TypeOK
<1>1. CASE run' = [run EXCEPT !.pc = "spec", !.n = 1] \/ run' = [run EXCEPT !.pc = "spec"]
  <2>1. run' \in RunType /\ run'.pc = "spec" /\ run'.at = t
    <3>1. run.at = t
      BY DEF ReadSpec, At
    <3>2. CASE run' = [run EXCEPT !.pc = "spec", !.n = 1]
      BY ZenonT(60), <1>0, <3>1, <3>2 DEF RunType, Steps
    <3>3. CASE run' = [run EXCEPT !.pc = "spec"]
      BY <1>0, <3>1, <3>3 DEF RunType, Steps
    <3> QED
      BY <1>1, <3>2, <3>3
  <2> QED
    BY <2>1 DEF BackfillInv, TypeOK, RowsAreTrue, Whole, ReadSpec, markets
<1>2. CASE run' = [run EXCEPT !.pc = "stake", !.n = 1]
  <2>1. run' \in RunType /\ run'.pc = "stake" /\ run'.at = t /\ run'.n = 1
    BY ZenonT(60), <1>0, <1>2 DEF ReadSpec, At, RunType, Steps
  <2> QED
    BY <2>1 DEF BackfillInv, TypeOK, RowsAreTrue, Whole, ReadSpec, markets
<1> QED
  BY <1>1, <1>2 DEF ReadSpec

\* The spec is created if there is none.
LEMMA InitSpecStep ==
  ASSUME BackfillInv, NEW t \in Types, InitSpec(t), plan' = plan
  PROVE  BackfillInv'
<1>1. /\ rows' = rows /\ backed' = backed /\ status' = status
      /\ run.pc = "spec" /\ run.at = t /\ run \in RunType
  BY DEF InitSpec, Transact, markets, BackfillInv, TypeOK, At
<1>2. CASE Retry("init")
  BY <1>1, <1>2, Retries DEF BackfillInv, TypeOK
<1>3. CASE Call("stake")
  <2>1. run' \in RunType /\ run'.pc = "stake" /\ run'.at = t /\ run'.n = 1
    BY ZenonT(60), <1>1, <1>3 DEF Call, RunType, Steps
  <2> QED
    BY <1>1, <2>1 DEF BackfillInv, TypeOK, RowsAreTrue, Whole
<1>4. CASE NextMarket(t)
  BY <1>1, <1>4, Leaves DEF NextMarket
<1> QED
  BY <1>2, <1>3, <1>4 DEF InitSpec, Transact, RetryCreation

\* A batch that lands stakes outcomes, and empties none.
LEMMA StakeStep ==
  ASSUME BackfillInv, NEW t \in Types, Stake(t), plan' = plan
  PROVE  BackfillInv'
<1>1. /\ rows' = rows /\ status' = status
      /\ run.pc = "stake" /\ run.at = t /\ run \in RunType
      /\ run.n \in 1..Batches[t]
  BY DEF Stake, Transact, markets, BackfillInv, TypeOK, At
<1>2. /\ backed' \in [Types -> Nat]
      /\ \A u \in Types : backed'[u] <= Batches[u] /\ (Whole(u) => Whole(u)')
  <2>1. CASE backed' = backed
    BY <2>1 DEF BackfillInv, TypeOK, Whole
  <2>2. CASE backed' = [backed EXCEPT ![t] = IF run.n > @ THEN run.n ELSE @]
    BY <1>1, <2>2 DEF BackfillInv, TypeOK, Whole
  <2> QED
    BY <2>1, <2>2 DEF Stake, Transact, markets
<1>3. /\ run' \in RunType
      /\ \/ run'.pc = "create"
         \/ run'.pc = "stake" /\ run'.at = t /\ run'.n \in 1..Batches[t]
  <2>1. ASSUME NEW waits \in SUBSET Types, Leave("create", t, waits)
        PROVE  run' \in RunType /\ run'.pc = "create"
    BY ZenonT(60), <1>1, <2>1 DEF Leave, RunType, Steps
  <2>2. CASE run.n < Batches[t] /\ run' = [run EXCEPT !.n = @ + 1]
    <3>1. run.n + 1 \in 1..Batches[t] /\ run.n + 1 \in Nat
      BY <1>1, <2>2
    <3> QED
      BY <1>1, <2>2, <3>1 DEF RunType
  <2> QED
    BY <2>1, <2>2 DEF Stake, Transact, NextMarket
<1> QED
  BY <1>1, <1>2, <1>3 DEF BackfillInv, TypeOK, RowsAreTrue

\* Waiting and reporting change no market.
LEMMA WaitStep ==
  ASSUME BackfillInv, Wait \/ Report, plan' = plan
  PROVE  BackfillInv'
<1>1. run \in RunType /\ status' = status /\ backed' = backed /\ rows' = rows
  BY DEF BackfillInv, TypeOK, Wait, Report, markets
<1>2. run' \in RunType /\ run'.pc \in {"idle", "settle"}
  <2>1. CASE run' = Idle
    BY <2>1 DEF Idle, RunType, Steps
  <2>2. CASE run' = [run EXCEPT !.pc = "settle", !.todo = Types, !.waits = {}]
    BY ZenonT(60), <1>1, <2>2 DEF RunType, Steps
  <2> QED
    BY <2>1, <2>2 DEF Wait, Report
<1> QED
  BY <1>1, <1>2 DEF BackfillInv, TypeOK, RowsAreTrue

\* The account is read whole, or not.
LEMMA ReadForSettlementStep ==
  ASSUME BackfillInv, NEW t \in Types, ReadForSettlement(t), plan' = plan
  PROVE  BackfillInv'
<1>1. run \in RunType /\ status' = status /\ backed' = backed
  BY DEF BackfillInv, TypeOK, ReadForSettlement, markets
<1>2. CASE Row(t, "failed") \/ Row(t, "skipped")
  BY <1>1, <1>2, GivesUp
<1>3. CASE status[t] \in Resolutions /\ Row(t, status[t])
  BY <1>1, <1>3, Leaves DEF Row
<1>4. CASE /\ run' = [run EXCEPT !.pc = IF KeysOf[t] \in run.cache THEN "decide" ELSE "proof",
                                 !.at = t, !.n = 1,
                                 !.saw = status[t], !.zero = ~Whole(t)]
           /\ rows' = rows
  <2>1. /\ run' \in RunType /\ run'.pc \in {"decide", "proof"} /\ run'.at = t
        /\ run'.zero = ~Whole(t)
    <3>1. status[t] \in {"absent", "open", "locked"} \cup Resolutions
      BY DEF BackfillInv, TypeOK
    <3> QED
      BY ZenonT(60), <1>1, <1>4, <3>1 DEF RunType, Steps
  <2> QED
    BY <1>1, <1>4, <2>1 DEF BackfillInv, TypeOK, RowsAreTrue, Whole
<1> QED
  BY <1>2, <1>3, <1>4, Zenon DEF ReadForSettlement

\* The proof is fetched once for all.
LEMMA FetchProofStep ==
  ASSUME BackfillInv, NEW t \in Types, FetchProof(t), plan' = plan
  PROVE  BackfillInv'
<1>1. /\ status' = status /\ backed' = backed /\ UNCHANGED markets
      /\ run.pc = "proof" /\ At("proof", t) /\ run \in RunType
  BY DEF FetchProof, markets, At, BackfillInv, TypeOK
<1>2. CASE /\ run' = [run EXCEPT !.pc = "decide", !.cache = @ \cup {KeysOf[t]}]
           /\ UNCHANGED rows
  <2>1. run.cache \cup {KeysOf[t]} \in SUBSET {KeysOf[u] : u \in Types}
    BY <1>1 DEF RunType
  <2>2. run' = [[run EXCEPT !.pc = "decide"] EXCEPT !.cache = run.cache \cup {KeysOf[t]}]
    BY <1>1, <1>2 DEF RunType
  <2>3. [run EXCEPT !.pc = "decide"] \in RunType
    BY <1>1 DEF RunType, Steps
  <2>4. run' \in RunType
    BY <2>1, <2>2, <2>3 DEF RunType
  <2>5. /\ run'.pc = "decide" /\ run'.at = run.at
        /\ run'.saw = run.saw /\ run'.zero = run.zero
    BY <1>1, <2>2 DEF RunType
  <2> QED
    BY <1>1, <1>2, <2>4, <2>5 DEF BackfillInv, TypeOK, RowsAreTrue, Whole
<1>3. CASE Row(t, "failed")
  BY <1>1, <1>3, GivesUp
<1>4. CASE Retry("proof") /\ UNCHANGED rows
  BY <1>1, <1>4, Retries DEF BackfillInv, TypeOK
<1> QED
  BY <1>2, <1>3, <1>4 DEF FetchProof, RetryOrFail

\* A market that was read open goes to the lock only if it was whole.
LEMMA DecideStep ==
  ASSUME BackfillInv, NEW t \in Types, Decide(t), plan' = plan
  PROVE  BackfillInv'
<1>1. /\ run \in RunType /\ status' = status /\ backed' = backed
      /\ run.pc = "decide" /\ run.at = t
  BY DEF BackfillInv, TypeOK, Decide, markets, At
<1>2. CASE Row(t, "failed") \/ Row(t, "skipped")
  BY <1>1, <1>2, GivesUp
<1>3. CASE /\ Call(IF run.saw = "open" THEN "lock" ELSE "send") /\ rows' = rows
           /\ ~(run.saw = "open" /\ closed[t] /\ run.zero)
           /\ ~(run.saw = "open" /\ ~closed[t])
  <2>1. CASE run.saw = "open"
    <3>1. run' \in RunType /\ run'.pc = "lock" /\ run'.at = t
      BY <1>1, <1>3, <2>1 DEF RunType, Steps, Call
    <3>2. Whole(t)
      BY <1>1, <1>3, <2>1 DEF BackfillInv
    <3> QED
      BY <1>1, <1>3, <3>1, <3>2 DEF BackfillInv, TypeOK, RowsAreTrue, Whole
  <2>2. CASE run.saw # "open"
    <3>1. run' \in RunType /\ run'.pc = "send" /\ run'.at = t
      BY <1>1, <1>3, <2>2 DEF RunType, Steps, Call
    <3> QED
      BY <1>1, <1>3, <3>1 DEF BackfillInv, TypeOK, RowsAreTrue, Whole
  <2> QED
    BY <2>1, <2>2
<1> QED
  BY <1>2, <1>3, Zenon DEF Decide

\* The lock finds the market as it was read, or further.
LEMMA LockMarketStep ==
  ASSUME BackfillInv, NEW t \in Types, LockMarket(t), plan' = plan
  PROVE  BackfillInv'
<1>1. /\ backed' = backed /\ run.pc = "lock" /\ run.at = t /\ run \in RunType
      /\ status' = status \/ (CanLock(t) /\ Lock(t))
  BY DEF LockMarket, Transact, At, BackfillInv, TypeOK
<1>2. /\ status' \in [Types -> {"absent", "open", "locked"} \cup Resolutions]
      /\ \A u \in Types : status[u] \in Resolutions => status'[u] = status[u]
  BY <1>1 DEF CanLock, Lock, BackfillInv, TypeOK, Resolutions
<1>3. CASE Call("send") /\ UNCHANGED rows
  <2>1. run' \in RunType /\ run'.pc = "send" /\ run'.at = t
    BY ZenonT(60), <1>1, <1>3 DEF Call, RunType, Steps
  <2> QED
    BY <1>1, <1>2, <1>3, <2>1 DEF BackfillInv, TypeOK, RowsAreTrue
<1>4. CASE Retry("lock") /\ UNCHANGED rows
  BY <1>1, <1>2, <1>4, Retries
<1>5. CASE Row(t, "failed")
  <2>1. run' \in RunType /\ run'.pc = "settle"
    BY ZenonT(60), <1>1, <1>5 DEF Row, Leave, RunType, Steps
  <2> QED
    BY <1>1, <1>2, <1>5, <2>1 DEF BackfillInv, TypeOK, RowsAreTrue, Row, Resolutions
<1> QED
  BY <1>3, <1>4, <1>5 DEF LockMarket, Transact, RetryOrFail

\* A settlement that is confirmed has landed.
LEMMA SettleMarketStep ==
  ASSUME BackfillInv, NEW t \in Types, SettleMarket(t), plan' = plan
  PROVE  BackfillInv'
<1>1. /\ backed' = backed /\ run.pc = "send" /\ run.at = t /\ run \in RunType
      /\ status' = status \/ (CanSettle(t, run.fx) /\ Settle(t))
  BY DEF SettleMarket, Transact, At, BackfillInv, TypeOK
<1>2. /\ status' \in [Types -> {"absent", "open", "locked"} \cup Resolutions]
      /\ \A u \in Types : status[u] \in Resolutions => status'[u] = status[u]
  BY <1>1 DEF CanSettle, Settle, BackfillInv, TypeOK, Resolutions
<1>3. CASE Call("after") /\ UNCHANGED rows /\ Settle(t)
  <2>1. run' \in RunType /\ run'.pc = "after" /\ run'.at = t
    BY ZenonT(60), <1>1, <1>3 DEF Call, RunType, Steps
  <2>2. status'[t] \in Resolutions
    BY <1>3 DEF Settle, BackfillInv, TypeOK, Resolutions
  <2> QED
    BY <1>1, <1>2, <1>3, <2>1, <2>2 DEF BackfillInv, TypeOK, RowsAreTrue
<1>4. CASE Retry("send") /\ UNCHANGED rows
  BY <1>1, <1>2, <1>4, Retries
<1>5. CASE Row(t, "failed")
  <2>1. run' \in RunType /\ run'.pc = "settle"
    BY ZenonT(60), <1>1, <1>5 DEF Row, Leave, RunType, Steps
  <2> QED
    BY <1>1, <1>2, <1>5, <2>1 DEF BackfillInv, TypeOK, RowsAreTrue, Row, Resolutions
<1> QED
  BY <1>3, <1>4, <1>5 DEF SettleMarket, Transact, RetryOrFail

\* What is reported as settled was read back from the chain.
LEMMA ReadBackStep ==
  ASSUME BackfillInv, NEW t \in Types, ReadBack(t), plan' = plan
  PROVE  BackfillInv'
<1>1. /\ status' = status /\ backed' = backed /\ run.pc = "after" /\ run.at = t
  BY DEF ReadBack, markets, At
<1>2. CASE Row(t, status[t])
  BY <1>1, <1>2, Leaves DEF Row, BackfillInv
<1>3. CASE Row(t, "failed")
  BY <1>1, <1>3, GivesUp
<1> QED
  BY <1>2, <1>3 DEF ReadBack

-----------------------------------------------------------------------------
\* Every call of the script, and whatever others do meanwhile, keeps the invariant.
LEMMA BackfillStep == BackfillInv /\ [Next]_vars => BackfillInv'
<1> SUFFICES ASSUME BackfillInv, [Next]_vars
             PROVE  BackfillInv'
  OBVIOUS
<1>1. CASE Age \/ PublishRoot \/ UNCHANGED vars \/ \E t \in Types : CloseWindow(t)
  BY <1>1, Harmless DEF Age, PublishRoot, CloseWindow, vars, markets, BackfillInv, TypeOK
<1>2. ASSUME NEW t \in Types, Stranger(t)
      PROVE  BackfillInv'
  <2>1. /\ status' \in [Types -> {"absent", "open", "locked"} \cup Resolutions]
        /\ \A u \in Types : status[u] \in Resolutions => status'[u] = status[u]
    BY <1>2 DEF Stranger, CanLock, Lock, CanSettle, Settle, BackfillInv, TypeOK, Resolutions
  <2> QED
    BY <1>2, <2>1, Harmless DEF Stranger
<1>3. CASE PlanFixture
  <2>1. plan' \in [status : {"not_finished", "no_proof", "no_root", "settleable"},
                   period : {None, 5, 100}]
    BY <1>3 DEF PlanFixture, Preferred
  <2> QED
    BY <1>3, <2>1 DEF PlanFixture, markets, BackfillInv, TypeOK, RowsAreTrue, Whole
<1>4. ASSUME NEW create \in BOOLEAN, NEW both \in BOOLEAN, Launch(create, both)
      PROVE  BackfillInv'
  <2>1. run' \in RunType /\ run'.pc \in {"create", "settle"}
    <3>1. plan.period \in {None, 5, 100}
      BY DEF BackfillInv, TypeOK
    <3> DEFINE pc == IF create THEN "create" ELSE "settle"
    <3>2. pc \in {"create", "settle"}
      OBVIOUS
    <3>3. run' = [pc |-> pc, create |-> create, settle |-> both, fx |-> plan.period,
                  at |-> NoType, todo |-> Types, n |-> 0, saw |-> "absent",
                  zero |-> FALSE, waits |-> {}, cache |-> {}]
      BY <1>4 DEF Launch, Idle
    <3> HIDE DEF pc
    <3> QED
      BY <3>1, <3>2, <3>3 DEF RunType, Steps
  <2> QED
    BY <1>4, <2>1 DEF Launch, NoRows, markets, BackfillInv, TypeOK, RowsAreTrue, Resolutions
<1>5. CASE Crash
  <2>1. run' \in RunType /\ run'.pc = "idle"
    BY <1>5 DEF Crash, Idle, RunType, Steps
  <2> QED
    BY <1>5, <2>1 DEF Crash, NoRows, markets, BackfillInv, TypeOK, RowsAreTrue, Resolutions
<1>6. CASE ScriptStep
  <2>1. plan' = plan
    BY <1>6 DEF ScriptStep
  <2> QED
    BY <1>6, <2>1, ReadForCreationStep, CheckBalanceStep, InitMarketStep, ReadSpecStep,
       InitSpecStep, StakeStep, WaitStep, ReadForSettlementStep, FetchProofStep,
       DecideStep, LockMarketStep, SettleMarketStep, ReadBackStep DEF ScriptStep
<1> QED
  BY <1>1, <1>2, <1>3, <1>4, <1>5, <1>6 DEF Next

\* The inductive invariant of the script.
LEMMA BackfillInvariant == Spec => []BackfillInv
<1>1. Init => BackfillInv
  <2>1. Idle \in RunType
    BY DEF Idle, RunType, Steps
  <2> QED
    BY <2>1 DEF Init, BackfillInv, TypeOK, Idle, NoRows, RowsAreTrue, Resolutions, Whole
<1> QED
  BY <1>1, BackfillStep, PTL DEF Spec

\* The types of the script's state, its plan and its report.
THEOREM BackfillTypes == Spec => []TypeOK
<1>1. BackfillInv => TypeOK
  BY DEF BackfillInv
<1> QED
  BY <1>1, BackfillInvariant, PTL

\* backfill-catalogue.ts: whatever is retried, unconfirmed or done by others,
\* the report calls no market settled or cancelled that is not.
THEOREM RowsAreAlwaysTrue == Spec => []RowsAreTrue
<1>1. BackfillInv => RowsAreTrue
  BY DEF BackfillInv
<1> QED
  BY <1>1, BackfillInvariant, PTL

\* backfill-catalogue.ts: between the read that found a market whole and the
\* lock nothing empties a pool, so the script never locks into a refund.
THEOREM OnlyWholeIsLocked == Spec => LocksOnlyWhole
<1>1. ASSUME BackfillInv, Next, NEW t \in Types, run' # run,
             status[t] = "open", status'[t] = "locked"
      PROVE  Whole(t)
  <2>1. ScriptStep
    BY <1>1 DEF Next, Age, PublishRoot, PlanFixture, Launch, CloseWindow, Stranger, Crash, markets
  <2>2. PICK u \in Types : InitMarket(u) \/ LockMarket(u) \/ SettleMarket(u)
    BY <1>1, <2>1 DEF ScriptStep, Wait, Report, ReadForCreation, CheckBalance, ReadSpec, InitSpec,
       Transact, Stake, ReadForSettlement, FetchProof, Decide, ReadBack, markets
  <2>3. LockMarket(u) /\ u = t
    BY <1>1, <2>2 DEF InitMarket, LockMarket, SettleMarket, Transact, Lock, Settle, CanSettle,
       BackfillInv, TypeOK, markets
  <2> QED
    BY <1>1, <2>3 DEF LockMarket, At, BackfillInv
<1>2. BackfillInv /\ [Next]_vars =>
        [\A t \in Types :
           run' # run /\ status[t] = "open" /\ status'[t] = "locked" => Whole(t)]_vars
  BY <1>1
<1> QED
  BY <1>2, BackfillInvariant, PTL DEF Spec, LocksOnlyWhole

-----------------------------------------------------------------------------
(* The records of the first generations *)

Statuses == {"open", "locked", "settled", "cancelled"}

\* What a chain is after any of the scripts: the accounts there are, and the
\* winner of a settled one is an outcome.
ChainShape(chain) ==
  /\ chain \in Seq([type : Generations, status : Statuses, backed : SUBSET Scores,
                    closed : BOOLEAN, winner : Scores \cup {Unset}])
  /\ \A i \in DOMAIN chain : chain[i].status = "settled" => chain[i].winner \in Scores

StoreShape(store) ==
  DOMAIN store = {"proofStatus", "score", "markets", "receipts"}

Holds(store, proofStatus, score, kept, receipts) ==
  /\ StoreShape(store) /\ store.proofStatus = proofStatus /\ store.score = score
  /\ store.markets = kept /\ store.receipts = receipts

\* A receipt is of a market that is settled, names its winner, and shows one of
\* the proofs that were used.
ReceiptsHold(chain, receipts, Proofs) ==
  \A i \in DOMAIN receipts :
    /\ i \in DOMAIN chain /\ chain[i].status = "settled"
    /\ receipts[i].winner = chain[i].winner
    /\ receipts[i].score \in Proofs

\* Keeping a value under a key changes no other.
LEMMA KeepType ==
  ASSUME NEW f, NEW key, NEW value
  PROVE  /\ DOMAIN Keep(f, key, value) = DOMAIN f \cup {key}
         /\ Keep(f, key, value)[key] = value
         /\ \A k \in DOMAIN f : k # key => Keep(f, key, value)[k] = f[k]
BY DEF Keep

\* What an assignment to a field of the store leaves alone.
LEMMA StoreChanges ==
  ASSUME NEW store, StoreShape(store), NEW v, NEW u, NEW key
  PROVE  /\ Holds([store EXCEPT !.score = v],
                  store.proofStatus, v, store.markets, store.receipts)
         /\ Holds([store EXCEPT !.receipts = v],
                  store.proofStatus, store.score, store.markets, v)
         /\ Holds([store EXCEPT !.markets[key] = v], store.proofStatus, store.score,
                  [store.markets EXCEPT ![key] = v], store.receipts)
         /\ Holds([store EXCEPT !.proofStatus = v, !.markets = u],
                  v, store.score, u, store.receipts)
         /\ Holds([store EXCEPT !.proofStatus = v, !.score = u],
                  v, u, store.markets, store.receipts)
         /\ Holds([store EXCEPT !.markets = v, !.receipts = u],
                  store.proofStatus, store.score, v, u)
<1>1. Holds([store EXCEPT !.score = v],
            store.proofStatus, v, store.markets, store.receipts)
  BY DEF Holds, StoreShape
<1>2. Holds([store EXCEPT !.receipts = v],
            store.proofStatus, store.score, store.markets, v)
  BY DEF Holds, StoreShape
<1>3. Holds([store EXCEPT !.markets[key] = v], store.proofStatus, store.score,
            [store.markets EXCEPT ![key] = v], store.receipts)
  BY DEF Holds, StoreShape
<1>4. Holds([store EXCEPT !.proofStatus = v, !.markets = u],
            v, store.score, u, store.receipts)
  BY DEF Holds, StoreShape
<1>5. Holds([store EXCEPT !.proofStatus = v, !.score = u],
            v, u, store.markets, store.receipts)
  BY DEF Holds, StoreShape
<1>6. Holds([store EXCEPT !.markets = v, !.receipts = u],
            store.proofStatus, store.score, v, u)
  BY DEF Holds, StoreShape
<1> QED  BY <1>1, <1>2, <1>3, <1>4, <1>5, <1>6

\* What the scripts find is a list of markets.
LEMMA FoundShape ==
  ASSUME NEW before \in Found
  PROVE  ChainShape(before)
<1> DEFINE Any == [type : Generations, status : Statuses, backed : SUBSET Scores,
                   closed : BOOLEAN, winner : Scores \cup {Unset}]
<1>1. before \in Seq(Account)
  BY FoundAssumption
<1>2. \A m \in Account : m \in Any /\ (m.status = "settled" => m.winner \in Scores)
  <2> SUFFICES ASSUME NEW m \in Account
               PROVE  m \in Any /\ (m.status = "settled" => m.winner \in Scores)
    OBVIOUS
  <2>1. m \in Any
    BY DEF Account, Statuses
  <2>2. m.status = "settled" => m.winner \in m.backed
    BY DEF Account
  <2> QED  BY <2>1, <2>2
<1>3. before \in Seq(Any)
  <2>1. Account \subseteq Any
    BY <1>2
  <2> HIDE DEF Any
  <2> QED  BY <1>1, <2>1
<1>4. \A i \in DOMAIN before : before[i] \in Account
  BY <1>1
<1> QED  BY <1>2, <1>3, <1>4 DEF ChainShape

\* Each of them has a status, pools and a winner.
LEMMA ChainElements ==
  ASSUME NEW chain, ChainShape(chain), NEW j \in DOMAIN chain
  PROVE  /\ chain[j].type \in Generations /\ chain[j].status \in Statuses
         /\ chain[j].backed \subseteq Scores /\ chain[j].winner \in Scores \cup {Unset}
<1> DEFINE Any == [type : Generations, status : Statuses, backed : SUBSET Scores,
                   closed : BOOLEAN, winner : Scores \cup {Unset}]
<1>1. chain[j] \in Any
  <2>1. chain \in Seq(Any)
    BY DEF ChainShape
  <2> HIDE DEF Any
  <2> QED  BY <2>1
<1> QED  BY <1>1

\* The best market of a chain is one of an allowed generation.
LEMMA BestIsAllowed ==
  ASSUME NEW chain, best(chain) # {}
  PROVE  LET key == CHOOSE i \in best(chain) : TRUE
         IN  key \in best(chain) /\ key \in DOMAIN chain /\ chain[key].type \in Allowed
<1> DEFINE key == CHOOSE i \in best(chain) : TRUE
<1>1. key \in best(chain)
  OBVIOUS
<1> QED  BY <1>1 DEF best

\* If only one market is settled, and it is of an allowed generation, it is the best.
LEMMA SettledIsBest ==
  ASSUME NEW chain, ChainShape(chain), NEW i \in DOMAIN chain,
         chain[i].type \in Allowed, chain[i].status = "settled",
         \A j \in DOMAIN chain : chain[j].status = "settled" => j = i
  PROVE  best(chain) = {i}
<1>1. DOMAIN chain = 1..Len(chain) /\ Len(chain) \in Nat
  BY DEF ChainShape
<1>2. rank(chain[i]) = 400
  BY DEF rank
<1>3. \A j \in DOMAIN chain : j # i => rank(chain[j]) \in Nat /\ rank(chain[j]) <= 300
  <2> SUFFICES ASSUME NEW j \in DOMAIN chain, j # i
               PROVE  rank(chain[j]) \in Nat /\ rank(chain[j]) <= 300
    OBVIOUS
  <2>1. chain[j].status \in Statuses /\ chain[j].status # "settled"
    BY ChainElements
  <2> QED  BY <2>1 DEF rank, Statuses
<1>4. i \in best(chain)
  BY <1>1, <1>2, <1>3 DEF best
<1>5. ASSUME NEW k \in best(chain), k # i
      PROVE  FALSE
  <2>1. k \in DOMAIN chain /\ rank(chain[i]) < rank(chain[k]) + (IF i < k THEN 0 ELSE 1)
    BY DEF best
  <2>2. rank(chain[k]) \in Nat /\ rank(chain[k]) <= 300
    BY <1>3, <1>5, <2>1
  <2> QED  BY <1>2, <2>1, <2>2
<1> QED  BY <1>4, <1>5

-----------------------------------------------------------------------------


\* Seeding creates or adopts a market, and writes no receipt.
Seeds(planned, store, seeded) ==
  /\ ChainShape(seeded.chain) /\ StoreShape(seeded.store)
  /\ seeded.store.receipts = store.receipts
  /\ seeded.store.proofStatus = proofStatusOf(planned)

\* Seeding creates one market at most and leaves those there are.
LEMMA SeedHolds ==
  ASSUME NEW planned, NEW before, ChainShape(before), NEW store, StoreShape(store),
         NEW seeded, seeded = seed(planned, before, store)
  PROVE  Seeds(planned, store, seeded)
<1> DEFINE known    == {i \in DOMAIN before : before[i].type = Seeded}
           chainNow == IF known = {} THEN Append(before, Fresh) ELSE before
           key      == CHOOSE i \in DOMAIN chainNow : chainNow[i].type = Seeded
           kept     == Keep(store.markets, key,
                            [phase |-> chainNow[key].status, tx |-> Unset,
                             winner |-> chainNow[key].winner])
<1>1. /\ seeded.chain = chainNow
      /\ seeded.store = [store EXCEPT !.proofStatus = proofStatusOf(planned),
                                      !.markets = kept]
  BY DEF seed
<1>2. ChainShape(chainNow)
  <2>1. CASE known = {}
    <3>1. Fresh \in [type : Generations, status : Statuses, backed : SUBSET Scores,
                     closed : BOOLEAN, winner : Scores \cup {Unset}]
            /\ Fresh.status # "settled"
      BY GenerationsAssumption DEF Fresh, Statuses
    <3>2. chainNow = Append(before, Fresh)
      BY <2>1
    <3> HIDE DEF chainNow
    <3> QED  BY <3>1, <3>2 DEF ChainShape
  <2>2. CASE known # {}
    BY <2>2
  <2> QED  BY <2>1, <2>2
<1> HIDE DEF chainNow, kept
<1>3. Holds(seeded.store, proofStatusOf(planned), store.score, kept, store.receipts)
  <2>1. Holds([store EXCEPT !.proofStatus = proofStatusOf(planned), !.markets = kept],
              proofStatusOf(planned), store.score, kept, store.receipts)
    BY StoreChanges
  <2> QED  BY <1>1, <2>1
<1> QED  BY <1>1, <1>2, <1>3 DEF Holds, Seeds

\* The receipt of a settled market is written, and no other is touched.
LEMMA ReceiptIsRecorded ==
  ASSUME NEW chain, NEW key \in DOMAIN chain, NEW store, StoreShape(store),
         NEW Proofs, NEW tx, NEW proof \in Proofs,
         ReceiptsHold(chain, store.receipts, Proofs),
         NEW noted, noted = recordReceipt(store, key, chain[key], tx, proof)
  PROVE  /\ StoreShape(noted) /\ noted.proofStatus = store.proofStatus
         /\ DOMAIN store.receipts \subseteq DOMAIN noted.receipts
         /\ ReceiptsHold(chain, noted.receipts, Proofs)
<1> DEFINE receipt == [winner |-> chain[key].winner, score |-> proof, tx |-> tx]
           kept    == Keep(store.receipts, key, receipt)
<1>1. CASE chain[key].status # "settled"
  BY <1>1 DEF recordReceipt
<1>2. CASE chain[key].status = "settled"
  <2>1. noted = [store EXCEPT !.receipts = kept]
    BY <1>2 DEF recordReceipt
  <2>2. DOMAIN kept = DOMAIN store.receipts \cup {key} /\ kept[key] = receipt
          /\ \A k \in DOMAIN store.receipts : k # key => kept[k] = store.receipts[k]
    <3> HIDE DEF receipt
    <3> QED  BY DEF Keep
  <2> HIDE DEF kept
  <2>3. Holds(noted, store.proofStatus, store.score, store.markets, kept)
    <3>1. Holds([store EXCEPT !.receipts = kept],
                store.proofStatus, store.score, store.markets, kept)
      BY StoreChanges
    <3> QED  BY <2>1, <3>1
  <2>4. ReceiptsHold(chain, kept, Proofs)
    BY <1>2, <2>2 DEF ReceiptsHold
  <2> QED  BY <2>2, <2>3, <2>4 DEF Holds
<1> QED  BY <1>1, <1>2

\* What a run of the settling script does to the chain and to the store.
Settles(chain, store, done, Proofs) ==
  /\ ChainShape(done.chain) /\ StoreShape(done.store)
  /\ DOMAIN done.chain = DOMAIN chain
  /\ \A i \in DOMAIN chain :
       /\ done.chain[i].type = chain[i].type
       /\ chain[i].status = "settled" => done.chain[i] = chain[i]
  /\ ReceiptsHold(done.chain, done.store.receipts, Proofs)
  /\ DOMAIN store.receipts \subseteq DOMAIN done.store.receipts
  /\ done.store.proofStatus = store.proofStatus

\* A market that was not resolved yet has no receipt, and gets one if it is settled.
LEMMA SettleOneHolds ==
  ASSUME NEW chain, ChainShape(chain), NEW key \in DOMAIN chain,
         chain[key].status # "settled",
         NEW store, StoreShape(store), NEW Proofs, NEW proof \in Scores, proof \in Proofs,
         ReceiptsHold(chain, store.receipts, Proofs),
         NEW done, done = settleOne(key, proof, chain, store)
  PROVE  Settles(chain, store, done, Proofs)
<1> DEFINE after == Resolved(chain[key], proof)
           now   == [chain EXCEPT ![key] = after]
           noted == recordReceipt(store, key, after, "settle", proof)
           entry == [phase |-> "settled", tx |-> "settle", winner |-> proof]
           Any   == [type : Generations, status : Statuses, backed : SUBSET Scores,
                     closed : BOOLEAN, winner : Scores \cup {Unset}]
<1>1. /\ done.chain = now
      /\ done.store = IF key \notin DOMAIN store.markets THEN noted
                      ELSE [noted EXCEPT !.markets[key] = entry]
  BY DEF settleOne
<1>3. chain \in Seq(Any) /\ chain[key] \in Any
  <2>1. chain \in Seq(Any)
    BY DEF ChainShape
  <2> HIDE DEF Any
  <2> QED  BY <2>1
<1>4. /\ after \in Any /\ after.type = chain[key].type /\ after.winner = proof
  BY <1>3 DEF Resolved, Statuses
<1>5. /\ now \in Seq(Any) /\ DOMAIN now = DOMAIN chain /\ now[key] = after
      /\ \A i \in DOMAIN chain : i # key => now[i] = chain[i]
  <2> HIDE DEF Any, after
  <2> QED  BY <1>3, <1>4
<1> HIDE DEF now, after
<1>6. ChainShape(now)
  <2>1. \A i \in DOMAIN now : now[i].status = "settled" => now[i].winner \in Scores
    BY <1>4, <1>5 DEF ChainShape
  <2> QED  BY <1>5, <2>1 DEF ChainShape
<1>7. ReceiptsHold(now, store.receipts, Proofs)
  BY <1>5 DEF ReceiptsHold
<1>8. noted = recordReceipt(store, key, now[key], "settle", proof)
  BY <1>5
<1> HIDE DEF noted, entry
<1>9. /\ StoreShape(noted) /\ noted.proofStatus = store.proofStatus
      /\ DOMAIN store.receipts \subseteq DOMAIN noted.receipts
      /\ ReceiptsHold(now, noted.receipts, Proofs)
  BY <1>5, <1>7, <1>8, ReceiptIsRecorded
<1>10. /\ StoreShape(done.store) /\ done.store.receipts = noted.receipts
       /\ done.store.proofStatus = noted.proofStatus
  <2>1. CASE key \notin DOMAIN store.markets
    BY <1>1, <1>9, <2>1
  <2>2. CASE key \in DOMAIN store.markets
    <3>1. done.store = [noted EXCEPT !.markets[key] = entry]
      BY <1>1, <2>2
    <3>2. Holds(done.store, noted.proofStatus, noted.score,
                [noted.markets EXCEPT ![key] = entry], noted.receipts)
      <4>1. Holds([noted EXCEPT !.markets[key] = entry], noted.proofStatus, noted.score,
                  [noted.markets EXCEPT ![key] = entry], noted.receipts)
        BY <1>9, StoreChanges
      <4> QED  BY <3>1, <4>1
    <3> QED  BY <3>2 DEF Holds
  <2> QED  BY <2>1, <2>2
<1>11. \A i \in DOMAIN chain :
         /\ now[i].type = chain[i].type
         /\ chain[i].status = "settled" => now[i] = chain[i]
  BY <1>4, <1>5
<1> HIDE DEF Any
<1> QED  BY <1>1, <1>5, <1>6, <1>9, <1>10, <1>11 DEF Settles

\* Settling writes, of all receipts, at most that of the market it looked at, if
\* that is settled; and it changes no market that is.
LEMMA SettleHolds ==
  ASSUME NEW planned, NEW proof \in Scores \cup {Unset}, NEW chain, ChainShape(chain),
         NEW store, StoreShape(store), NEW Proofs, proof # Unset => proof \in Proofs,
         ReceiptsHold(chain, store.receipts, Proofs),
         NEW done, done = settle(planned, proof, chain, store)
  PROVE  Settles(chain, store, done, Proofs)
<1> DEFINE scored == [store EXCEPT !.score = proof]
           key    == CHOOSE i \in best(chain) : TRUE
           m      == chain[key]
<1>1. CASE planned # "settleable" \/ best(chain) = {} \/ proof = Unset
  <2>1. done = [chain |-> chain, store |-> store]
    BY <1>1 DEF settle
  <2> QED  BY <2>1 DEF Settles
<1>2. CASE planned = "settleable" /\ best(chain) # {} /\ proof # Unset
  <2>1. key \in DOMAIN chain
    BY <1>2, BestIsAllowed
  <2>2. done = CASE m.status \in {"settled", "cancelled"} ->
                      [chain |-> chain,
                       store |-> recordReceipt(scored, key, m, priorTx(store, key), proof)]
                 [] m.status = "open" /\ m.backed = {} /\ m.closed ->
                      [chain |-> chain, store |-> scored]
                 [] OTHER -> settleOne(key, proof, chain, scored)
    BY <1>2 DEF settle
  <2> HIDE DEF key
  <2>3. Holds(scored, store.proofStatus, proof, store.markets, store.receipts)
    BY StoreChanges
  <2> HIDE DEF scored
  <2>4. /\ StoreShape(scored) /\ ReceiptsHold(chain, scored.receipts, Proofs)
        /\ scored.proofStatus = store.proofStatus /\ scored.receipts = store.receipts
    BY <2>3 DEF Holds
  <2>5. proof \in Scores /\ proof \in Proofs
    BY <1>2
  <2>6. CASE m.status \in {"settled", "cancelled"}
    <3>1. /\ done.chain = chain
          /\ done.store = recordReceipt(scored, key, chain[key], priorTx(store, key), proof)
      BY <2>2, <2>6
    <3> HIDE DEF m
    <3>2. /\ StoreShape(done.store) /\ done.store.proofStatus = scored.proofStatus
          /\ DOMAIN scored.receipts \subseteq DOMAIN done.store.receipts
          /\ ReceiptsHold(chain, done.store.receipts, Proofs)
      BY <2>1, <2>4, <2>5, <3>1, ReceiptIsRecorded
    <3> QED  BY <2>4, <3>1, <3>2 DEF Settles
  <2>7. CASE m.status = "open" /\ m.backed = {} /\ m.closed
    <3>1. done.chain = chain /\ done.store = scored
      BY <2>2, <2>7
    <3> QED  BY <2>4, <3>1 DEF Settles
  <2>8. CASE ~ (m.status \in {"settled", "cancelled"})
               /\ ~ (m.status = "open" /\ m.backed = {} /\ m.closed)
    <3>1. done = settleOne(key, proof, chain, scored)
      BY <2>2, <2>8
    <3>2. m.status # "settled"
      BY <2>8
    <3>3. Settles(chain, scored, done, Proofs)
      BY <2>1, <2>4, <2>5, <3>1, <3>2, SettleOneHolds
    <3> QED  BY <2>4, <3>3 DEF Settles
  <2> QED  BY <2>6, <2>7, <2>8
<1> QED  BY <1>1, <1>2

-----------------------------------------------------------------------------

\* What the database holds of a chain and a store, whenever it was imported.
DbHolds(chain, receipts, db, Proofs) ==
  /\ StoreShape(db)
  /\ \A i \in DOMAIN db.markets : db.markets[i].type \in Allowed
  /\ \A i \in DOMAIN db.receipts :
       /\ i \in DOMAIN receipts /\ i \in DOMAIN chain
       /\ chain[i].type \in Allowed /\ chain[i].status = "settled"
       /\ db.receipts[i].winner \in Scores /\ db.receipts[i].score \in Proofs

\* What an import has just written.
Imported(chain, store, db) ==
  /\ db.proofStatus = store.proofStatus
  /\ db.score # Unset => db.proofStatus = "proven"
  /\ \A i : best(chain) = {i} =>
       /\ i \in DOMAIN db.markets
       /\ db.markets[i].status = chain[i].status

\* Importing copies the best market of the chain, and its receipt if it has one.
LEMMA ImportHolds ==
  ASSUME NEW chain, ChainShape(chain), NEW store, StoreShape(store), NEW Proofs,
         ReceiptsHold(chain, store.receipts, Proofs),
         NEW db, DbHolds(chain, store.receipts, db, Proofs),
         NEW done, done = import(chain, store, db)
  PROVE  DbHolds(chain, store.receipts, done, Proofs) /\ Imported(chain, store, done)
<1> DEFINE fixture == [db EXCEPT !.proofStatus = store.proofStatus, !.score = proven(store)]
           key     == CHOOSE i \in best(chain) : TRUE
           m       == chain[key]
           row     == [type |-> m.type, status |-> m.status, winner |-> m.winner]
           kept    == Keep(fixture.markets, key, row)
           listed   == IF m.status = "settled" /\ key \in DOMAIN store.receipts
                      THEN Keep(fixture.receipts, key, store.receipts[key])
                      ELSE fixture.receipts
<1>1. Holds(fixture, store.proofStatus, proven(store), db.markets, db.receipts)
  BY StoreChanges DEF DbHolds
<1>2. proven(store) # Unset => store.proofStatus = "proven"
  BY DEF proven
<1>3. CASE best(chain) = {}
  <2>1. done = fixture
    BY <1>3 DEF import
  <2> HIDE DEF fixture
  <2>2. Imported(chain, store, done)
    BY <1>1, <1>2, <1>3, <2>1 DEF Holds, Imported
  <2> QED  BY <1>1, <2>1, <2>2 DEF Holds, DbHolds
<1>4. CASE best(chain) # {}
  <2>1. done = [fixture EXCEPT !.markets = kept, !.receipts = listed]
    BY <1>4 DEF import
  <2>2. key \in best(chain) /\ key \in DOMAIN chain /\ m.type \in Allowed
    BY <1>4, BestIsAllowed
  <2> HIDE DEF fixture, key
  <2>3. /\ DOMAIN kept = DOMAIN fixture.markets \cup {key} /\ kept[key] = row
        /\ \A k \in DOMAIN fixture.markets : k # key => kept[k] = fixture.markets[k]
    <3> HIDE DEF row
    <3> QED  BY DEF Keep
  <2>4. \/ listed = fixture.receipts
        \/ /\ m.status = "settled" /\ key \in DOMAIN store.receipts
           /\ DOMAIN listed = DOMAIN fixture.receipts \cup {key}
           /\ listed[key] = store.receipts[key]
           /\ \A k \in DOMAIN fixture.receipts : k # key => listed[k] = fixture.receipts[k]
    BY DEF Keep
  <2> HIDE DEF kept, listed
  <2>5. Holds(done, fixture.proofStatus, fixture.score, kept, listed)
    <3>1. Holds([fixture EXCEPT !.markets = kept, !.receipts = listed],
                fixture.proofStatus, fixture.score, kept, listed)
      <4>1. StoreShape(fixture)
        BY <1>1 DEF Holds
      <4> QED  BY <4>1, StoreChanges
    <3> QED  BY <2>1, <3>1
  <2>6. \A i \in DOMAIN kept : kept[i].type \in Allowed
    BY <1>1, <2>2, <2>3 DEF DbHolds, Holds
  <2>7. ASSUME NEW i \in DOMAIN listed
        PROVE  /\ i \in DOMAIN store.receipts /\ i \in DOMAIN chain
               /\ chain[i].type \in Allowed /\ chain[i].status = "settled"
               /\ listed[i].winner \in Scores /\ listed[i].score \in Proofs
    <3>1. CASE i \in DOMAIN db.receipts /\ listed[i] = db.receipts[i]
      BY <3>1 DEF DbHolds
    <3>2. CASE i = key /\ key \in DOMAIN store.receipts /\ listed[i] = store.receipts[key]
      <4>1. /\ chain[i].status = "settled" /\ listed[i].winner = chain[i].winner
            /\ listed[i].score \in Proofs
        BY <3>2 DEF ReceiptsHold
      <4> QED  BY <2>2, <3>2, <4>1 DEF ChainShape
    <3> QED  BY <1>1, <2>4, <3>1, <3>2 DEF Holds
  <2>8. DbHolds(chain, store.receipts, done, Proofs)
    BY <2>5, <2>6, <2>7 DEF DbHolds, Holds
  <2>9. ASSUME NEW i, best(chain) = {i}
        PROVE  i \in DOMAIN done.markets /\ done.markets[i].status = chain[i].status
    <3>1. i = key
      BY <2>2, <2>9
    <3> QED  BY <2>3, <2>5, <3>1 DEF Holds
  <2>10. Imported(chain, store, done)
    BY <1>1, <1>2, <2>5, <2>9 DEF Holds, Imported
  <2> QED  BY <2>8, <2>10
<1> QED  BY <1>3, <1>4

-----------------------------------------------------------------------------
(* Two rounds *)

\* What the first import wrote stays true of the chain and the store.
LEMMA DbSurvives ==
  ASSUME NEW chain, NEW store, NEW done, NEW Proofs, NEW db,
         DbHolds(chain, store.receipts, db, Proofs), Settles(chain, store, done, Proofs)
  PROVE  DbHolds(done.chain, done.store.receipts, db, Proofs)
BY DEF DbHolds, Settles

\* What all the scripts leave together.
RoundsLeave(planned, result, Proofs) ==
  /\ ChainShape(result.chain)
  /\ ReceiptsHold(result.chain, result.store.receipts, Proofs)
  /\ DbHolds(result.chain, result.store.receipts, result.db, Proofs)
  /\ Imported(result.chain, result.store, result.db)
  /\ result.store.proofStatus = proofStatusOf(planned)

\* Seeding, two settlements and two imports leave receipts of settled markets only.
LEMMA RoundsHold ==
  ASSUME NEW planned \in {"settleable", "no_proof"}, NEW sampled \in Scores \cup {Unset},
         NEW first \in Scores \cup {Unset}, NEW second \in Scores \cup {Unset},
         NEW before \in Found, NEW result,
         result = Rounds(planned, sampled, first, second, before),
         NEW Proofs, Proofs = {first, second} \ {Unset}
  PROVE  RoundsLeave(planned, result, Proofs)
<1> DEFINE empty  == [NoStore EXCEPT !.score = sampled]
           seeded == seed(planned, before, empty)
           bet    == [i \in DOMAIN seeded.chain |->
                        IF seeded.chain[i].type = Seeded /\ i \notin DOMAIN before
                        THEN [seeded.chain[i] EXCEPT !.backed = Scores]
                        ELSE seeded.chain[i]]
           one    == settle(planned, first, bet, seeded.store)
           db     == import(one.chain, one.store, NoDb)
           two    == settle(planned, second, one.chain, one.store)
           last   == import(two.chain, two.store, db)
<1>1. result = [chain |-> two.chain, store |-> two.store, db |-> last]
  BY DEF Rounds
<1>2. Holds(empty, "upcoming", sampled, <<>>, <<>>)
  BY DEF Holds, NoStore, StoreShape
<1> HIDE DEF empty
<1>3. /\ ChainShape(seeded.chain) /\ StoreShape(seeded.store)
      /\ seeded.store.receipts = <<>>
      /\ seeded.store.proofStatus = proofStatusOf(planned)
  <2>1. StoreShape(empty) /\ empty.receipts = <<>>
    BY <1>2 DEF Holds
  <2>2. ChainShape(before)
    BY FoundShape
  <2> HIDE DEF seeded
  <2>3. /\ ChainShape(seeded.chain) /\ StoreShape(seeded.store)
        /\ seeded.store.receipts = empty.receipts
        /\ seeded.store.proofStatus = proofStatusOf(planned)
    <3>1. seeded = seed(planned, before, empty)
      BY DEF seeded
    <3>2. Seeds(planned, empty, seeded)
      BY <2>1, <2>2, <3>1, SeedHolds
    <3> QED  BY <3>2 DEF Seeds
  <2> QED  BY <2>1, <2>3
<1> HIDE DEF seeded
<1>4. ChainShape(bet)
  <2> DEFINE Any == [type : Generations, status : Statuses, backed : SUBSET Scores,
                     closed : BOOLEAN, winner : Scores \cup {Unset}]
  <2>1. seeded.chain \in Seq(Any) /\ DOMAIN bet = DOMAIN seeded.chain
    BY <1>3 DEF ChainShape
  <2>2. ASSUME NEW i \in DOMAIN seeded.chain
        PROVE  /\ bet[i] \in Any
               /\ bet[i].status = "settled" => bet[i].winner \in Scores
    <3>1. seeded.chain[i] \in Any
      <4> HIDE DEF Any
      <4> QED  BY <2>1
    <3>2. seeded.chain[i].status = "settled" => seeded.chain[i].winner \in Scores
      BY <1>3 DEF ChainShape
    <3>3. \/ bet[i] = seeded.chain[i]
          \/ bet[i] = [seeded.chain[i] EXCEPT !.backed = Scores]
      OBVIOUS
    <3> HIDE DEF bet
    <3> QED  BY <3>1, <3>2, <3>3
  <2>3. bet \in Seq(Any)
    <3>1. seeded.chain \in [1..Len(seeded.chain) -> Any] /\ Len(seeded.chain) \in Nat
      <4> HIDE DEF Any, bet
      <4> QED  BY <2>1
    <3>2. bet \in [1..Len(seeded.chain) -> Any]
      <4> HIDE DEF Any
      <4> QED  BY <2>1, <2>2, <3>1
    <3> HIDE DEF Any, bet
    <3> QED  BY <3>1, <3>2
  <2> HIDE DEF bet
  <2> QED  BY <2>1, <2>2, <2>3 DEF ChainShape
<1> HIDE DEF bet
<1>5. Settles(bet, seeded.store, one, Proofs)
  <2>1. ReceiptsHold(bet, seeded.store.receipts, Proofs)
    BY <1>3 DEF ReceiptsHold
  <2>2. first # Unset => first \in Proofs
    OBVIOUS
  <2> HIDE DEF one
  <2> QED  BY <1>3, <1>4, <2>1, <2>2, SettleHolds DEF one
<1> HIDE DEF one
<1>6. DbHolds(one.chain, one.store.receipts, NoDb, Proofs)
  BY DEF DbHolds, NoDb, StoreShape
<1>7. DbHolds(one.chain, one.store.receipts, db, Proofs)
  BY <1>5, <1>6, ImportHolds DEF Settles
<1> HIDE DEF db
<1>8. Settles(one.chain, one.store, two, Proofs)
  <2>1. second # Unset => second \in Proofs
    OBVIOUS
  <2>2. /\ ChainShape(one.chain) /\ StoreShape(one.store)
        /\ ReceiptsHold(one.chain, one.store.receipts, Proofs)
    BY <1>5 DEF Settles
  <2> HIDE DEF two
  <2> QED  BY <2>1, <2>2, SettleHolds DEF two
<1> HIDE DEF two
<1>9. DbHolds(two.chain, two.store.receipts, db, Proofs)
  BY <1>7, <1>8, DbSurvives
<1>10. /\ DbHolds(two.chain, two.store.receipts, last, Proofs)
       /\ Imported(two.chain, two.store, last)
  BY <1>8, <1>9, ImportHolds DEF Settles
<1> HIDE DEF last
<1>11. two.store.proofStatus = proofStatusOf(planned)
  BY <1>3, <1>5, <1>8 DEF Settles
<1> QED  BY <1>1, <1>8, <1>10, <1>11 DEF Settles, RoundsLeave

\* A set with no two elements has one at most.
LEMMA AtMostOne ==
  ASSUME NEW S, IsFiniteSet(S), Cardinality(S) <= 1, NEW i \in S, NEW j \in S
  PROVE  i = j
<1> SUFFICES ASSUME i # j PROVE FALSE
  OBVIOUS
<1>1. IsFiniteSet({i, j}) /\ Cardinality({i, j}) = 2
  <2>1. IsFiniteSet({i}) /\ Cardinality({i}) = 1
    BY FS_Singleton
  <2>2. IsFiniteSet({i} \cup {j}) /\ Cardinality({i} \cup {j}) = Cardinality({i}) + 1
    BY <2>1, FS_AddElement
  <2>3. {i, j} = {i} \cup {j}
    OBVIOUS
  <2> QED  BY <2>1, <2>2, <2>3
<1>2. Cardinality({i, j}) <= Cardinality(S)
  BY FS_Subset
<1>3. Cardinality(S) \in Nat
  BY FS_CardinalityType
<1> QED  BY <1>1, <1>2, <1>3

\* An import that finds nothing wrong leaves what the audit accepts.
LEMMA AuditAccepts ==
  ASSUME NEW planned, NEW result, NEW Proofs, RoundsLeave(planned, result, Proofs)
  PROVE  ImportSatisfiesAudit(planned, result)
<1> DEFINE chain   == result.chain
           db      == result.db
           Finished == {i \in DOMAIN chain : chain[i].status = "settled"}
           onChain == {i \in DOMAIN chain :
                         chain[i].type \in Allowed /\ chain[i].status = "settled"}
<1> SUFFICES ASSUME problems(db) = {}, planned = "settleable", Cardinality(Finished) <= 1
             PROVE  failedChecks(chain, db) = {}
  BY DEF ImportSatisfiesAudit
<1> USE DEF RoundsLeave
<1>1. db.proofStatus = "proven"
  BY DEF Imported, proofStatusOf
<1>2. \A i \in DOMAIN db.markets : db.markets[i].type \in Allowed
  BY DEF DbHolds
<1>3. onChain = DOMAIN db.receipts
  <2>1. DOMAIN db.receipts \subseteq onChain
    BY DEF DbHolds
  <2>2. ASSUME NEW i \in onChain
        PROVE  i \in DOMAIN db.receipts
    <3>1. IsFiniteSet(Finished)
      <4>1. DOMAIN chain = 1..Len(chain) /\ Len(chain) \in Nat
        BY DEF ChainShape
      <4>2. IsFiniteSet(DOMAIN chain)
        BY <4>1, FS_Interval
      <4> QED  BY <4>2, FS_Subset
    <3>2. \A j \in DOMAIN chain : chain[j].status = "settled" => j = i
      <4> SUFFICES ASSUME NEW j \in DOMAIN chain, chain[j].status = "settled"
                   PROVE  j = i
        OBVIOUS
      <4>1. i \in Finished /\ j \in Finished
        BY <2>2
      <4> HIDE DEF Finished
      <4> QED  BY <3>1, <4>1, AtMostOne
    <3>3. best(chain) = {i}
      BY <2>2, <3>2, SettledIsBest
    <3>4. i \in DOMAIN db.markets /\ db.markets[i].status = "settled"
      BY <2>2, <3>3 DEF Imported
    <3>5. "mismatched" \notin problems(db)
      OBVIOUS
    <3> QED  BY <3>4, <3>5 DEF problems
  <2> QED  BY <2>1, <2>2
<1> HIDE DEF chain, db, onChain
<1>4. failedChecks(chain, db) = {}
  BY <1>1, <1>2, <1>3 DEF failedChecks, onChain
<1> QED  BY <1>4

\* The records of a fixture are sound for every list of markets the scripts may find,
\* whatever the feed sampled and whatever the proof says at each run.
THEOREM RecordsHold == AllRecordsAreSound
<1> SUFFICES ASSUME NEW planned \in {"settleable", "no_proof"},
                    NEW sampled \in Scores \cup {Unset},
                    NEW first \in Scores \cup {Unset},
                    NEW second \in Scores \cup {Unset}, NEW before \in Found
             PROVE  LET result == Rounds(planned, sampled, first, second, before)
                    IN  /\ ReceiptsAreReal(result)
                        /\ ImportSatisfiesAudit(planned, result)
                        /\ ScoresMatchWinners(first, second, result)
  BY DEF AllRecordsAreSound
<1> DEFINE Proofs == {first, second} \ {Unset}
           result == Rounds(planned, sampled, first, second, before)
<1>1. RoundsLeave(planned, result, Proofs)
  <2> HIDE DEF result, Proofs
  <2>1. /\ result = Rounds(planned, sampled, first, second, before)
        /\ Proofs = {first, second} \ {Unset}
    BY DEF result, Proofs
  <2> QED  BY <2>1, RoundsHold
<1> HIDE DEF result
<1>2. ReceiptsAreReal(result)
  BY <1>1 DEF RoundsLeave, ReceiptsAreReal, ReceiptsHold, DbHolds, Imported
<1>3. ImportSatisfiesAudit(planned, result)
  <2> HIDE DEF Proofs
  <2> QED  BY <1>1, AuditAccepts
<1>4. ScoresMatchWinners(first, second, result)
  <2> SUFFICES ASSUME NEW i \in DOMAIN result.db.receipts, NEW s \in Scores,
                      {first, second, result.db.receipts[i].winner} \ {Unset} = {s}
               PROVE  result.db.receipts[i].score = result.db.receipts[i].winner
    BY DEF ScoresMatchWinners
  <2>1. /\ result.db.receipts[i].winner \in Scores
        /\ result.db.receipts[i].score \in Proofs
    BY <1>1 DEF RoundsLeave, DbHolds
  <2>2. result.db.receipts[i].winner = s
    BY <2>1, ScoresAssumption
  <2>3. result.db.receipts[i].score = s
    BY <2>1
  <2> QED  BY <2>2, <2>3
<1> QED  BY <1>2, <1>3, <1>4 DEF result

\* So the records are sound whenever the scripts are run (backfill-settle.ts and
\* import.ts write a receipt for a settled market alone, and name its winner).
THEOREM RecordsAlways == Spec => []RecordsAreSound
<1>1. RecordsAreSound
  BY RecordsHold DEF RecordsAreSound
<1> QED  BY <1>1, PTL
=============================================================================
