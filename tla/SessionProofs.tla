--------------------------- MODULE SessionProofs ----------------------------
(***************************************************************************)
(* A keeper's two sessions, neither of which it can trust to last.  The    *)
(* one with Postgres makes it the leader: for any number of instances, two *)
(* of them act as the leader at once only if one has lost its session.     *)
(* The one with TxLINE lets it hear the match: for any records, in any     *)
(* order and as often as they are sent again, the score it holds is the    *)
(* newest.  And the line: for any odds, quoted in any order among rows of  *)
(* any age, the site shows each outcome's own probability, and keeps it.   *)
(***************************************************************************)
EXTENDS Leader, Consensus, Counting

-----------------------------------------------------------------------------
(* The leader *)

\* One step keeps the invariant: every instance but the one that moves keeps
\* its session, and a session ends only without taking anybody else's lock.
LEMMA LeaderStep == LeaderInv /\ [ElectionNext]_electionVars => LeaderInv'
<1> SUFFICES ASSUME LeaderInv, [ElectionNext]_electionVars
             PROVE  LeaderInv'
  OBVIOUS
<1> USE SessionsAssumption, LossesAssumption DEF LeaderInv, TypeOK, To, Loses, End, Leave
<1>1. ASSUME NEW k \in Keepers, Run(k) PROVE LeaderInv'
  BY <1>1 DEF Run
<1>2. ASSUME NEW k \in Keepers, Attempt(k) PROVE LeaderInv'
  BY <1>2 DEF Attempt
<1>3. ASSUME NEW k \in Keepers, Acquire(k) PROVE LeaderInv'
  BY <1>3 DEF Acquire
<1>4. ASSUME NEW k \in Keepers, Follow(k) PROVE LeaderInv'
  BY <1>4 DEF Follow
<1>5. ASSUME NEW k \in Keepers, AttemptFailed(k) PROVE LeaderInv'
  BY <1>5 DEF AttemptFailed
<1>6. ASSUME NEW k \in Keepers, RetrySoon(k) PROVE LeaderInv'
  BY <1>6 DEF RetrySoon
<1>7. ASSUME NEW k \in Keepers, Verify(k) PROVE LeaderInv'
  BY <1>7 DEF Verify
<1>8. ASSUME NEW k \in Keepers, Leading(k), StandDown(k) PROVE LeaderInv'
  BY <1>8 DEF StandDown, Leading
<1>9. ASSUME NEW k \in Keepers, Verified(k) PROVE LeaderInv'
  BY <1>8, <1>9 DEF Verified
<1>10. ASSUME NEW k \in Keepers, Disconnected(k) PROVE LeaderInv'
  BY <1>8, <1>10 DEF Disconnected
<1>11. ASSUME NEW k \in Keepers, Perish(k) PROVE LeaderInv'
  BY <1>11 DEF Perish
<1>12. ASSUME NEW k \in Keepers, Answer(k) PROVE LeaderInv'
  BY <1>12 DEF Answer
<1>13. ASSUME NEW s \in Sessions, Reap(s) PROVE LeaderInv'
  BY <1>13 DEF Reap
<1>14. ASSUME NEW s \in Sessions, ReapOrphan(s) PROVE LeaderInv'
  BY <1>14 DEF ReapOrphan
<1>15. ASSUME NEW k \in Keepers, LateEnd(k) PROVE LeaderInv'
  BY <1>15 DEF LateEnd, Leading
<1>16. CASE UNCHANGED electionVars
  BY <1>16 DEF electionVars
<1> QED
  BY <1>1, <1>2, <1>3, <1>4, <1>5, <1>6, <1>7, <1>9, <1>10, <1>11, <1>12,
     <1>13, <1>14, <1>15, <1>16 DEF ElectionNext, ElectionStep

\* The strengthening: an instance that was granted the lock on a session that
\* lives holds it, and sessions are not shared.
LEMMA LeaderInvariant == ElectionSpec => []LeaderInv
<1>1. ElectionInit => LeaderInv
  BY SessionsAssumption, LossesAssumption DEF ElectionInit, LeaderInv, TypeOK
<1> QED
  BY <1>1, LeaderStep, PTL DEF ElectionSpec

\* The types of the election's state, for every set of instances.
THEOREM LeaderTypes == ElectionSpec => []TypeOK
<1>1. LeaderInv => TypeOK
  BY DEF LeaderInv
<1> QED
  BY <1>1, LeaderInvariant, PTL

\* leader.ts: of all the instances at most one acts as the leader on a session
\* that lives, so two leaders overlap for no longer than it takes one of them
\* to notice that its session is gone.
THEOREM OneLiveLeaderAlways == ElectionSpec => []OneLiveLeader
<1>1. LeaderInv => OneLiveLeader
  BY DEF LeaderInv, TypeOK, OneLiveLeader, Leading
<1> QED
  BY <1>1, LeaderInvariant, PTL

-----------------------------------------------------------------------------
(* The score *)

\* The greatest of the numbers is the one that none of them exceeds.
LEMMA MaxIs ==
  ASSUME NEW S \in SUBSET Int, NEW m \in S, \A x \in S : x <= m
  PROVE  Max(S) = m
<1>1. PICK x \in S : x = Max(S) /\ \A y \in S : x >= y
  BY DEF Max
<1>2. QED
  BY <1>1

\* A record that is not older than any that was merged, the final one among
\* them when it is sent again, keeps the score faithful: a side it is silent on
\* keeps what it had, a side it tells of has what it tells.
LEMMA MergeIsFaithful ==
  ASSUME Faithful(fixture), NEW r \in Records, Final \in Nat, Records = 1..Final,
         r > fixture.lastSeq \/ r = Final
  PROVE  Faithful(Merge(r))
<1> DEFINE g == Merge(r)
<1>1. /\ g.lastSeq = r /\ g.merged = fixture.merged \cup {r}
      /\ \A s \in Sides : g.score[s] = IF Carries[r][s] = Unset THEN fixture.score[s]
                                       ELSE Carries[r][s]
  BY DEF Merge
<1>2. r \in Nat /\ \A q \in fixture.merged : q \in Nat /\ q <= r
  BY DEF Faithful
<1>3. /\ g.merged \subseteq Records /\ g.lastSeq \in Nat
      /\ \A q \in g.merged : q <= g.lastSeq
  BY <1>1, <1>2 DEF Faithful
<1> HIDE DEF g
<1>4. ASSUME NEW s \in Sides
      PROVE  g.score[s] = IF Told(g, s) = {} THEN 0 ELSE Carries[Max(Told(g, s))][s]
  <2>1. CASE Carries[r][s] = Unset
    <3>1. Told(g, s) = Told(fixture, s)
      BY <1>1, <2>1 DEF Told
    <3>2. QED
      BY <1>1, <2>1, <3>1 DEF Faithful
  <2>2. CASE Carries[r][s] # Unset
    <3>1. r \in Told(g, s) /\ \A q \in Told(g, s) : q \in Nat /\ q <= r
      BY <1>1, <1>2, <2>2 DEF Told
    <3>2. Max(Told(g, s)) = r
      BY <1>2, <3>1, MaxIs
    <3>3. QED
      BY <1>1, <2>2, <3>1, <3>2
  <2>3. QED
    BY <2>1, <2>2
<1>5. QED
  BY <1>3, <1>4 DEF Faithful, g

\* Before the first record there is nothing to be faithful to.
LEMMA FeedStart == Init => FeedInv
<1> SUFFICES ASSUME Init
             PROVE  FeedInv
  OBVIOUS
<1>1. Faithful(Blank)
  BY DEF Faithful, Blank, Told
<1>2. Final \in Nat
  BY RecordsAssumption
<1>3. QED
  BY <1>1, <1>2 DEF Init, FeedInv

\* Only these steps have to do with the records; the session's do not.
LEMMA FeedFrame ==
  ASSUME [Next]_vars
  PROVE  \/ UNCHANGED feed
         \/ Publish \/ Deliver \/ SaveFixture \/ Crash \/ StartFails
         \/ \E s \in Streams : AcceptStream(s)
<1>1. Expire \/ Reject \/ Renewed \/ RenewFails \/ Start \/ Ensure => UNCHANGED feed
  <2>1. Expire \/ Reject \/ Renewed \/ RenewFails \/ Start => UNCHANGED feed
    BY DEF Expire, Reject, Renewed, RenewFails, Start
  <2>2. Ensure => UNCHANGED feed
    BY DEF Ensure
  <2>3. QED
    BY <2>1, <2>2
<1>2. ASSUME NEW c \in Callers, Step(c) \/ CallFails(c) \/ Drop(c)
      PROVE  UNCHANGED feed \/ \E s \in Streams : AcceptStream(s)
  <2>1. Subscribed(c) => UNCHANGED feed
    BY DEF Subscribed
  <2>2. Activated(c) => UNCHANGED feed
    BY DEF Activated
  <2>3. Send(c) => UNCHANGED feed
    BY DEF Send
  <2>4. Refuse401(c) => UNCHANGED feed
    BY DEF Refuse401
  <2>5. Refuse403(c) => UNCHANGED feed
    BY DEF Refuse403
  <2>6. RefuseAgain(c) => UNCHANGED feed
    BY DEF RefuseAgain
  <2>7. AcceptRest(c) => UNCHANGED feed
    BY DEF AcceptRest
  <2>8. NextSync(c) => UNCHANGED feed
    BY DEF NextSync
  <2>9. AcceptStream(c) => \E s \in Streams : AcceptStream(s)
    BY DEF AcceptStream
  <2>10. Reconnect(c) => UNCHANGED feed
    BY DEF Reconnect
  <2>11. CallFails(c) => UNCHANGED feed
    BY DEF CallFails
  <2>12. Drop(c) => UNCHANGED feed
    BY DEF Drop
  <2>13. QED
    BY <1>2, <2>1, <2>2, <2>3, <2>4, <2>5, <2>6, <2>7, <2>8, <2>9, <2>10, <2>11,
       <2>12 DEF Step
<1>3. UNCHANGED vars => UNCHANGED feed
  BY DEF vars, feed
<1>4. QED
  BY <1>1, <1>2, <1>3 DEF Next, Process

\* Every step keeps the store's fixture and the saved one faithful, and every
\* connection at a record that exists.
LEMMA FeedStep == FeedInv /\ [Next]_vars => FeedInv'
<1> SUFFICES ASSUME FeedInv, [Next]_vars
             PROVE  FeedInv'
  OBVIOUS
<1>0. /\ Final \in Nat /\ Records = 1..Final /\ published \in 0..Final
      /\ lastId \in 0..published /\ cursor \in 0..published
  BY RecordsAssumption DEF FeedInv
<1>1. CASE UNCHANGED feed
  BY <1>1 DEF feed, FeedInv, Faithful
<1>2. CASE Publish
  <2>1. /\ published' = published + 1 /\ published < Final
        /\ UNCHANGED <<lastId, cursor, fixture, kept>>
    BY <1>2 DEF Publish
  <2>2. QED
    BY <1>0, <2>1 DEF FeedInv, Faithful
<1>3. CASE Deliver
  <2> DEFINE r == cursor + 1
  <2>1. /\ cursor < published /\ cursor' = r /\ lastId' = r /\ fixture' = Ingested(r)
        /\ UNCHANGED <<published, kept>>
    BY <1>3 DEF Deliver
  <2>2. r \in Records /\ r \in 0..published /\ r \in Nat
    BY <1>0, <2>1
  <2> HIDE DEF r
  <2>3. fixture.lastSeq \in Nat /\ Faithful(fixture)
    BY DEF FeedInv, Faithful
  <2>4. Faithful(Ingested(r))
    <3>1. CASE r <= fixture.lastSeq /\ r # Final
      BY <2>3, <3>1 DEF Ingested
    <3>2. CASE ~(r <= fixture.lastSeq /\ r # Final)
      <4>1. r > fixture.lastSeq \/ r = Final
        BY <2>2, <2>3, <3>2
      <4>2. QED
        BY <1>0, <2>2, <2>3, <3>2, <4>1, MergeIsFaithful DEF Ingested
    <3>3. QED
      BY <3>1, <3>2
  <2>5. Faithful(fixture') /\ Faithful(kept')
    BY <2>1, <2>4 DEF FeedInv
  <2>6. QED
    BY <1>0, <2>1, <2>2, <2>5 DEF FeedInv
<1>4. CASE SaveFixture
  BY <1>4 DEF SaveFixture, FeedInv
<1>5. CASE Crash \/ StartFails
  <2>1. /\ fixture' = kept /\ lastId' = 0 /\ cursor' = 0
        /\ UNCHANGED <<published, kept>>
    BY <1>5 DEF Crash, StartFails, Stop
  <2>2. QED
    BY <1>0, <2>1 DEF FeedInv
<1>6. ASSUME NEW s \in Streams, AcceptStream(s)
      PROVE  FeedInv'
  <2>1. UNCHANGED <<published, lastId, fixture, kept>>
    BY <1>6 DEF AcceptStream
  <2>2. cursor' \in 0..(IF After = 0 THEN published ELSE After) \/ cursor' = cursor
    BY <1>6 DEF AcceptStream
  <2>3. cursor' \in 0..published
    BY <1>0, <2>2 DEF After
  <2>4. QED
    BY <1>0, <2>1, <2>3 DEF FeedInv
<1>7. QED
  BY <1>1, <1>2, <1>3, <1>4, <1>5, <1>6, FeedFrame

\* For any records: however often they are sent again, whatever the process
\* forgot when it stopped and wherever the server began after that, each side's
\* score is what the newest merged record that carries it said (Keeper.ingest).
THEOREM ScoreStaysNewest == Spec => []ScoreIsTheNewest
<1>1. Init => FeedInv
  BY FeedStart
<1>2. FeedInv /\ [Next]_vars => FeedInv'
  BY FeedStep
<1>3. FeedInv => ScoreIsTheNewest
  BY DEF FeedInv, Faithful, Told, ScoreIsTheNewest
<1>4. QED
  BY <1>1, <1>2, <1>3, PTL DEF Spec

-----------------------------------------------------------------------------
(* The consensus line *)

\* The inverse of an inverse, both rounded down, is the number or one more.
LEMMA InverseIsClose ==
  ASSUME NEW p \in 1..1000
  PROVE  Unity \div (Unity \div p) \in p..(p + 1)
<1> DEFINE q == Unity \div p
           r == Unity \div q
<1>0. Unity \in Nat /\ Unity >= 1000 * 1000
  BY SMT DEF Unity
<1>1. q \in Nat /\ p * q <= Unity /\ Unity < p * q + p
  BY <1>0
<1>2. q >= 1000
  <2> HIDE DEF q
  <2> SUFFICES ASSUME q <= 999 PROVE FALSE
    BY <1>1
  <2>1. p * q <= 1000 * 999
    BY <1>1
  <2> QED  BY <1>0, <1>1, <2>1
<1> HIDE DEF q
<1>3. r \in Nat /\ r * q <= Unity /\ Unity < r * q + q
  BY <1>0, <1>1, <1>2
<1> HIDE DEF r
<1>4. ASSUME r < p PROVE FALSE
  <2>1. r + 1 <= p
    BY <1>3, <1>4
  <2>2. (r + 1) * q <= p * q
    BY <1>1, <1>3, <2>1
  <2>3. (r + 1) * q = r * q + q
    BY <1>1, <1>3
  <2> QED  BY <1>0, <1>1, <1>3, <2>2, <2>3
<1>5. ASSUME r > p + 1 PROVE FALSE
  <2>1. p + 2 <= r
    BY <1>3, <1>5
  <2>2. (p + 2) * q <= r * q
    BY <1>1, <1>3, <2>1
  <2>3. (p + 2) * q = p * q + 2 * q
    BY <1>1
  <2> QED  BY <1>0, <1>1, <1>2, <1>3, <2>2, <2>3
<1>6. r \in p..(p + 1)
  BY <1>3, <1>4, <1>5
<1> QED  BY <1>6 DEF q, r

\* Divided by a sum of at most three more than 1000, a share moves by two at most.
LEMMA ShareIsClose ==
  ASSUME NEW p \in 1..1000, NEW a \in p..(p + 1), NEW sum \in 1000..1003,
         a = p => sum <= 1002
  PROVE  (1000 * a) \div sum \in (p - 2)..(p + 2)
<1> DEFINE s == (1000 * a) \div sum
<1>1. s \in Nat /\ s * sum <= 1000 * a /\ 1000 * a < s * sum + sum
  OBVIOUS
<1> HIDE DEF s
<1>2. ASSUME s > p + 2 PROVE FALSE
  <2>1. s * 1000 <= s * sum
    BY <1>1
  <2> QED  BY <1>1, <1>2, <2>1
<1>3. ASSUME s < p - 2 PROVE FALSE
  <2>1. s + 1 <= p - 2
    BY <1>1, <1>3
  <2>2. (s + 1) * sum <= (p - 2) * sum
    BY <1>1, <2>1
  <2>3. (s + 1) * sum = s * sum + sum
    BY <1>1
  <2>4. 1000 * a < (p - 2) * sum
    BY <1>1, <2>2, <2>3
  <2>5. p >= 3
    BY <1>1, <1>3
  <2>6. CASE a = p
    <3>1. (p - 2) * sum <= (p - 2) * 1002
      BY <2>5, <2>6
    <3> QED  BY <2>4, <2>6, <3>1
  <2>7. CASE a = p + 1
    <3>1. (p - 2) * sum <= (p - 2) * 1003
      BY <2>5
    <3> QED  BY <2>4, <2>7, <3>1
  <2> QED  BY <2>6, <2>7
<1> QED  BY <1>1, <1>2, <1>3 DEF s

\* A row with the names of the three outcomes in any order has each somewhere.
LEMMA OrderIsAll ==
  ASSUME NEW order \in Orders, NEW k \in 1..3
  PROVE  \E i \in 1..3 : order[i] = k
<1>1. /\ order[1] \in 1..3 /\ order[2] \in 1..3 /\ order[3] \in 1..3
      /\ order[1] # order[2] /\ order[1] # order[3] /\ order[2] # order[3]
  BY DEF Orders
<1> QED  BY <1>1

\* The outcomes of the 1X2 market have names of their own.
LEMMA NamesDiffer ==
  ASSUME NEW i \in 1..3, NEW k \in 1..3, Names[i] = Names[k]
  PROVE  i = k
<1>1. Names[1] # Names[2] /\ Names[1] # Names[3] /\ Names[2] # Names[3]
  BY DEF Names
<1> QED  BY <1>1

\* Every set of numbers 1..n that is not empty has a least element.
LEMMA FirstExists ==
  ASSUME NEW S, S \subseteq 1..3, S # {}
  PROVE  \E i \in S : \A j \in S : i <= j
<1>1. \A j \in S : j = 1 \/ j = 2 \/ j = 3
  OBVIOUS
<1>2. CASE 1 \in S
  BY <1>1, <1>2
<1>3. CASE 1 \notin S /\ 2 \in S
  BY <1>1, <1>3
<1>4. CASE 1 \notin S /\ 2 \notin S
  <2>1. \A j \in S : j = 3
    BY <1>1, <1>4
  <2>2. PICK i \in S : i = 3
    BY <2>1
  <2>3. \A j \in S : i <= j
    BY <2>1, <2>2
  <2> QED  BY <2>3
<1> QED  BY <1>2, <1>3, <1>4

\* Where a name stands in a row is where the quote's order has its outcome.
LEMMA RowIsAligned ==
  ASSUME NEW q \in Quote, NEW k \in 1..3
  PROVE  /\ IndexOf(Row(q), Names[k]) \in 1..3
         /\ q.order[IndexOf(Row(q), Names[k])] = k
<1> DEFINE r  == Row(q)
           at == {i \in DOMAIN r.names : r.names[i] = Names[k]}
<1>1. q.order \in Orders
  BY DEF Quote
<1>2. r.names = [i \in 1..3 |-> Names[q.order[i]]]
  BY DEF Row
<1>3. at = {i \in 1..3 : q.order[i] = k}
  BY <1>1, <1>2, NamesDiffer DEF Orders
<1>4. at # {} /\ at \subseteq 1..3
  BY <1>1, <1>3, OrderIsAll
<1>5. IndexOf(r, Names[k]) = CHOOSE i \in at : \A j \in at : i <= j
  BY <1>4 DEF IndexOf
<1> HIDE DEF r, at
<1>6. IndexOf(r, Names[k]) \in at
  BY <1>4, <1>5, FirstExists
<1> QED  BY <1>3, <1>6 DEF r

\* What a row implies of its outcomes, once aligned: the probability quoted of each, or
\* one more.
Near(p, odds) ==
  /\ p \in [1..3 -> Int] /\ odds \in [1..3 -> 1..1000]
  /\ \A k \in 1..3 : p[k] \in odds[k]..(odds[k] + 1)
  /\ Added(p) \in 1000..1003
  /\ \A k \in 1..3 : p[k] = odds[k] => Added(p) <= 1002

\* Three numbers that are the odds or one more are near them, and so is their sum.
LEMMA SumIsNear ==
  ASSUME NEW odds \in [1..3 -> 1..1000], odds[1] + odds[2] + odds[3] = 1000,
         NEW p \in [1..3 -> Int], \A k \in 1..3 : p[k] \in odds[k]..(odds[k] + 1)
  PROVE  Near(p, odds)
<1> DEFINE a == odds[1]  b == odds[2]  c == odds[3]
           x == p[1]  y == p[2]  z == p[3]
<1>1. /\ a \in 1..1000 /\ b \in 1..1000 /\ c \in 1..1000
      /\ x \in a..(a + 1) /\ y \in b..(b + 1) /\ z \in c..(c + 1)
  OBVIOUS
<1>2. a + b + c = 1000 /\ Added(p) = x + y + z
  BY DEF Added
<1> HIDE DEF a, b, c, x, y, z
<1>3. /\ Added(p) \in 1000..1003
      /\ x = a \/ y = b \/ z = c => Added(p) <= 1002
  BY <1>1, <1>2
<1>4. \A k \in 1..3 : p[k] = odds[k] => Added(p) <= 1002
  <2>1. \A k \in 1..3 : k = 1 \/ k = 2 \/ k = 3
    OBVIOUS
  <2> QED  BY <1>3, <2>1 DEF a, b, c, x, y, z
<1> QED  BY <1>3, <1>4 DEF Near

\* Prices or percentages, aligned, are near the odds behind them.
LEMMA AlignedIsClose ==
  ASSUME NEW q \in Quote
  PROVE  Near(Aligned(Row(q)), q.odds)
<1> DEFINE r == Row(q)
           p == Aligned(r)
<1>1. q.odds \in [1..3 -> 1..1000] /\ q.odds[1] + q.odds[2] + q.odds[3] = 1000
  <2>1. q.odds \in Odds
    BY DEF Quote
  <2> QED  BY <2>1, OddsAssumption
<1>2. ASSUME NEW k \in 1..3
      PROVE  p[k] \in q.odds[k]..(q.odds[k] + 1)
  <2> DEFINE i == IndexOf(r, Names[k])
  <2>1. i \in 1..3 /\ q.order[i] = k
    BY RowIsAligned
  <2>2. p[k] = Implied(r, i)
    BY DEF Aligned
  <2> HIDE DEF i, p
  <2> DEFINE o == q.odds[k]
  <2>5. o \in 1..1000
    BY <1>1
  <2>3. CASE q.pct
    <3>1. r.pct = [n \in 1..3 |-> q.odds[q.order[n]]]
      BY <2>3 DEF Row
    <3>2. r.pct # None
      <4>1. \A n \in 1..3 : q.odds[q.order[n]] \in Int
        BY <1>1 DEF Quote, Orders
      <4>2. r.pct \in [1..3 -> Int]
        BY <3>1, <4>1
      <4> QED  BY <4>2, NoneAssumption
    <3>3. p[k] = o
      <4> HIDE DEF r
      <4> QED  BY <2>1, <2>2, <3>1, <3>2 DEF Implied
    <3>4. p[k] \in o..(o + 1)
      <4> HIDE DEF o
      <4> QED  BY <2>5, <3>3
    <3> QED  BY <3>4
  <2>4. CASE ~q.pct
    <3>1. r.pct = None /\ r.prices = [n \in 1..3 |-> Unity \div q.odds[q.order[n]]]
      BY <2>4 DEF Row
    <3>2. p[k] = Unity \div (Unity \div q.odds[k])
      <4> HIDE DEF r
      <4> QED  BY <2>1, <2>2, <3>1 DEF Implied
    <3>3. Unity \div (Unity \div o) \in o..(o + 1)
      <4> HIDE DEF o
      <4> QED  BY <2>5, InverseIsClose
    <3> QED  BY <3>2, <3>3
  <2> QED  BY <2>3, <2>4
<1>3. DOMAIN p = 1..3 /\ p = [i \in 1..3 |-> p[i]]
  BY DEF Aligned
<1> HIDE DEF p
<1>4. p \in [1..3 -> Int]
  BY <1>1, <1>2, <1>3
<1>5. Near(p, q.odds)
  <2> DEFINE odds == q.odds
  <2>1. /\ odds \in [1..3 -> 1..1000] /\ odds[1] + odds[2] + odds[3] = 1000
        /\ \A k \in 1..3 : p[k] \in odds[k]..(odds[k] + 1)
    BY <1>1, <1>2
  <2> HIDE DEF odds
  <2>2. Near(p, odds)
    BY <1>4, <2>1, SumIsNear
  <2> QED  BY <2>2 DEF odds
<1> QED  BY <1>5 DEF p

\* A row is a consensus book if the quote is one, and as old.
LEMMA BookIsQuoted ==
  ASSUME NEW q \in Quote
  PROVE  /\ IsConsensusBook(Row(q)) <=> q.type = "1X2" /\ q.demargined
         /\ Row(q).ts = q.ts /\ q.ts \in Nat
<1>1. /\ Row(q).type = q.type /\ Row(q).demargined = q.demargined /\ Row(q).ts = q.ts
      /\ Row(q).prices = [i \in 1..3 |-> Unity \div q.odds[q.order[i]]]
  BY DEF Row
<1>2. Len(Row(q).prices) = 3
  <2> DEFINE prices == [i \in 1..3 |-> Unity \div q.odds[q.order[i]]]
  <2>1. prices \in Seq({Unity \div q.odds[q.order[i]] : i \in 1..3})
    OBVIOUS
  <2>2. DOMAIN prices = 1..3
    OBVIOUS
  <2> HIDE DEF prices
  <2>3. Len(prices) = 3
    BY <2>1, <2>2
  <2> QED  BY <1>1, <2>3 DEF prices
<1> QED  BY <1>1, <1>2 DEF IsConsensusBook, Quote

\* One of the rows is newest, and of those that are the first.
LEMMA NewestExists ==
  ASSUME NEW S, IsFiniteSet(S), S \subseteq Nat, S # {}, NEW f, \A i \in S : f[i] \in Nat
  PROVE  \E i \in S : \A j \in S : f[j] < f[i] \/ (f[j] = f[i] /\ i <= j)
<1> DEFINE Ahead(i) == {j \in S : f[j] > f[i] \/ (f[j] = f[i] /\ j < i)}
           Counts   == {Cardinality(Ahead(i)) : i \in S}
<1>1. \A i \in S : IsFiniteSet(Ahead(i)) /\ Cardinality(Ahead(i)) \in Nat
  BY FS_Subset, FS_CardinalityType
<1>2. PICK i \in S : \A j \in S : Cardinality(Ahead(i)) <= Cardinality(Ahead(j))
  <2>1. Counts \subseteq Nat /\ Counts # {}
    BY <1>1
  <2>2. PICK n \in Counts : \A m \in Counts : n <= m
    BY <2>1, Least
  <2> HIDE DEF Ahead
  <2>3. PICK i \in S : n = Cardinality(Ahead(i))
    BY <2>2
  <2>4. \A j \in S : Cardinality(Ahead(j)) \in Counts
    OBVIOUS
  <2> QED  BY <2>2, <2>3, <2>4
<1>3. Ahead(i) = {}
  <2> SUFFICES ASSUME NEW j \in Ahead(i) PROVE FALSE
    OBVIOUS
  <2>1. j \in S /\ j \notin Ahead(j)
    OBVIOUS
  <2>2. Ahead(j) \subseteq Ahead(i)
    <3> SUFFICES ASSUME NEW k \in Ahead(j) PROVE k \in Ahead(i)
      OBVIOUS
    <3>1. /\ k \in S /\ i \in Nat /\ j \in Nat /\ k \in Nat
          /\ f[i] \in Nat /\ f[j] \in Nat /\ f[k] \in Nat
      OBVIOUS
    <3>2. f[k] > f[j] \/ (f[k] = f[j] /\ k < j)
      OBVIOUS
    <3>3. f[j] > f[i] \/ (f[j] = f[i] /\ j < i)
      OBVIOUS
    <3>4. f[k] > f[i] \/ (f[k] = f[i] /\ k < i)
      BY <3>1, <3>2, <3>3
    <3> QED  BY <3>1, <3>4
  <2> HIDE DEF Ahead
  <2>3. Cardinality(Ahead(j)) <= Cardinality(Ahead(i))
    BY <1>1, <2>2, FS_Subset
  <2>4. Ahead(j) = Ahead(i)
    BY <1>1, <1>2, <2>1, <2>2, <2>3, FS_Subset
  <2> QED  BY <2>1, <2>4
<1>4. \A j \in S : f[j] < f[i] \/ (f[j] = f[i] /\ i <= j)
  BY <1>3
<1> QED  BY <1>4

\* The consensus of a list of quotes is that of one of its newest, if it has any.
LEMMA ConsensusIsNewest ==
  ASSUME NEW quotes \in Seq(Quote), NEW rows,
         rows = [i \in DOMAIN quotes |-> Row(quotes[i])],
         NEW book, book = {i \in DOMAIN quotes : quotes[i].type = "1X2" /\ quotes[i].demargined}
  PROVE  /\ book = {} => consensusFor1x2(rows) = None
         /\ book # {} =>
              \E i \in book :
                /\ \A j \in book : quotes[j].ts <= quotes[i].ts
                /\ consensusFor1x2(rows) =
                     [pct |-> Aligned(Row(quotes[i])), sum |-> Added(Aligned(Row(quotes[i]))),
                      ts |-> quotes[i].ts]
<1> DEFINE newest == Newest(rows)
           first  == CHOOSE i \in newest : TRUE
<1>1. quotes \in Seq(Quote) /\ DOMAIN quotes = 1..Len(quotes) /\ Len(quotes) \in Nat
  OBVIOUS
<1>2. \A i \in DOMAIN quotes :
        /\ quotes[i] \in Quote /\ rows[i] = Row(quotes[i])
        /\ IsConsensusBook(rows[i]) <=> quotes[i].type = "1X2" /\ quotes[i].demargined
        /\ rows[i].ts = quotes[i].ts /\ quotes[i].ts \in Nat
  BY <1>1, BookIsQuoted
<1>3. book = {i \in DOMAIN rows : IsConsensusBook(rows[i])}
  BY <1>2
<1>4. /\ consensusFor1x2(rows) = IF newest = {} THEN None ELSE LineOf(rows[first])
      /\ newest = {i \in book : \A j \in book :
                     rows[j].ts < rows[i].ts \/ (rows[j].ts = rows[i].ts /\ i <= j)}
  BY <1>3 DEF consensusFor1x2, Newest
<1> HIDE DEF newest
<1>5. CASE book = {}
  BY <1>4, <1>5
<1>6. CASE book # {}
  <2>1. IsFiniteSet(book) /\ book \subseteq Nat /\ \A i \in book : rows[i].ts \in Nat
    <3>1. IsFiniteSet(1..Len(quotes)) /\ book \subseteq 1..Len(quotes)
      BY <1>1, FS_Interval
    <3> QED  BY <1>1, <1>2, <3>1, FS_Subset
  <2>2. newest # {}
    <3> DEFINE f == [i \in book |-> rows[i].ts]
    <3>1. \A i \in book : f[i] \in Nat
      BY <2>1
    <3>2. \E i \in book : \A j \in book : f[j] < f[i] \/ (f[j] = f[i] /\ i <= j)
      <4> HIDE DEF f
      <4> QED  BY <1>6, <2>1, <3>1, NewestExists
    <3>3. \A i \in book : f[i] = rows[i].ts
      OBVIOUS
    <3> HIDE DEF f
    <3> QED  BY <1>4, <3>2, <3>3
  <2>3. first \in newest
    BY <2>2
  <2> HIDE DEF first
  <2>4. first \in book /\ rows[first] = Row(quotes[first]) /\ quotes[first] \in Quote
          /\ rows[first].ts = quotes[first].ts
    BY <1>2, <1>4, <2>3
  <2>5. \A j \in book : quotes[j].ts <= quotes[first].ts
    BY <1>2, <1>4, <2>1, <2>3
  <2>6. \A i \in 1..3 : IndexOf(rows[first], Names[i]) # 0
    BY <2>4, RowIsAligned
  <2>7. Added(Aligned(rows[first])) \in 900..1150
    <3> DEFINE sum == Added(Aligned(rows[first]))
    <3>1. Near(Aligned(rows[first]), quotes[first].odds)
      BY <2>4, AlignedIsClose
    <3>2. sum \in 1000..1003
      BY <3>1 DEF Near
    <3> HIDE DEF sum
    <3>3. sum \in 900..1150
      BY <3>2
    <3> QED  BY <3>3 DEF sum
  <2>8. consensusFor1x2(rows) =
          [pct |-> Aligned(rows[first]), sum |-> Added(Aligned(rows[first])),
           ts |-> rows[first].ts]
    <3> DEFINE r == rows[first]
    <3>1. consensusFor1x2(rows) = LineOf(r)
      BY <1>4, <2>2
    <3>2. /\ \A i \in 1..3 : IndexOf(r, Names[i]) # 0
          /\ Added(Aligned(r)) \in 900..1150
      BY <2>6, <2>7
    <3> HIDE DEF r
    <3>3. LineOf(r) = [pct |-> Aligned(r), sum |-> Added(Aligned(r)), ts |-> r.ts]
      <4> DEFINE missing == \E i \in 1..3 : IndexOf(r, Names[i]) = 0
                 within  == Added(Aligned(r)) \in 900..1150
      <4>1. LineOf(r) = IF missing \/ ~within THEN None
                        ELSE [pct |-> Aligned(r), sum |-> Added(Aligned(r)), ts |-> r.ts]
        BY DEF LineOf
      <4>2. ~missing
        BY <3>2
      <4>3. within
        BY <3>2
      <4> HIDE DEF missing, within
      <4> QED  BY <4>1, <4>2, <4>3
    <3>4. consensusFor1x2(rows) =
            [pct |-> Aligned(r), sum |-> Added(Aligned(r)), ts |-> r.ts]
      BY <3>1, <3>3, Zenon
    <3> QED  BY <3>4 DEF r
  <2> QED  BY <2>4, <2>5, <2>8
<1> QED  BY <1>5, <1>6

\* What an aligned row makes a line is one, and it says what the quote says.
LEMMA LineIsClose ==
  ASSUME NEW q \in Quote, NEW line,
         line = [pct |-> Aligned(Row(q)), sum |-> Added(Aligned(Row(q))), ts |-> q.ts]
  PROVE  /\ line # None
         /\ line.pct \in [1..3 -> Int] /\ line.sum \in 1000..1003
         /\ \A k \in 1..3 : Share(line, k) \in (q.odds[k] - 2)..(q.odds[k] + 2)
<1> DEFINE p    == Aligned(Row(q))
           odds == q.odds
<1>1. Near(p, odds)
  BY AlignedIsClose
<1>2. q.ts \in Int
  BY DEF Quote
<1> HIDE DEF p, odds
<1>3. line = [pct |-> p, sum |-> Added(p), ts |-> q.ts]
  BY DEF p
<1>4. p \in [1..3 -> Int] /\ Added(p) \in 1000..1003
  BY <1>1 DEF Near
<1>5. line # None
  <2>1. Added(p) \in Int
    BY <1>4
  <2>2. line \in [pct : [1..3 -> Int], sum : Int, ts : Int]
    BY <1>2, <1>3, <1>4, <2>1
  <2> QED  BY <2>2, NoneAssumption
<1>6. ASSUME NEW k \in 1..3
      PROVE  Share(line, k) \in (odds[k] - 2)..(odds[k] + 2)
  <2> DEFINE o == odds[k]
             a == p[k]
             n == Added(p)
  <2>1. o \in 1..1000 /\ a \in o..(o + 1) /\ n \in 1000..1003 /\ (a = o => n <= 1002)
    BY <1>1 DEF Near
  <2>2. Share(line, k) = (1000 * a) \div n
    BY <1>3 DEF Share
  <2> HIDE DEF o, a, n
  <2>3. (1000 * a) \div n \in (o - 2)..(o + 2)
    BY <2>1, ShareIsClose
  <2>4. Share(line, k) \in (o - 2)..(o + 2)
    BY <2>2, <2>3
  <2> QED  BY <2>4 DEF o
<1>7. line.pct = p /\ line.sum = Added(p)
  BY <1>3
<1> QED  BY <1>4, <1>5, <1>6, <1>7 DEF odds

\* The site's line is the feed's, outcome by outcome (consensusFor1x2, odds.ts).
THEOREM LineHolds == LineIsTheOutcomes
<1> SUFFICES ASSUME NEW quotes \in Quotations
             PROVE  LET line == consensusFor1x2([i \in DOMAIN quotes |-> Row(quotes[i])])
                        book == {i \in DOMAIN quotes : quotes[i].type = "1X2"
                                                         /\ quotes[i].demargined}
                    IN  IF book = {} THEN line = None
                        ELSE \E i \in book :
                               /\ \A j \in book : quotes[j].ts <= quotes[i].ts
                               /\ line # None /\ line.ts = quotes[i].ts
                               /\ \A k \in 1..3 :
                                    Share(line, k) \in
                                      (quotes[i].odds[k] - 2)..(quotes[i].odds[k] + 2)
  BY DEF LineIsTheOutcomes
<1> DEFINE rows == [i \in DOMAIN quotes |-> Row(quotes[i])]
           line == consensusFor1x2(rows)
           book == {i \in DOMAIN quotes : quotes[i].type = "1X2" /\ quotes[i].demargined}
<1>1. /\ book = {} => line = None
      /\ book # {} =>
           \E i \in book :
             /\ \A j \in book : quotes[j].ts <= quotes[i].ts
             /\ line = [pct |-> Aligned(Row(quotes[i])),
                        sum |-> Added(Aligned(Row(quotes[i]))), ts |-> quotes[i].ts]
  <2>1. quotes \in Seq(Quote)
    BY QuotationsAssumption
  <2> HIDE DEF rows, book
  <2> QED  BY <2>1, ConsensusIsNewest DEF rows, book
<1>2. CASE book = {}
  BY <1>1, <1>2
<1>3. CASE book # {}
  <2>1. PICK i \in book :
             /\ \A j \in book : quotes[j].ts <= quotes[i].ts
             /\ line = [pct |-> Aligned(Row(quotes[i])),
                        sum |-> Added(Aligned(Row(quotes[i]))), ts |-> quotes[i].ts]
    BY <1>1, <1>3
  <2>2. quotes[i] \in Quote
    BY QuotationsAssumption
  <2> HIDE DEF line
  <2>3. /\ line # None /\ line.ts = quotes[i].ts
        /\ \A k \in 1..3 : Share(line, k) \in (quotes[i].odds[k] - 2)..(quotes[i].odds[k] + 2)
    BY <2>1, <2>2, LineIsClose
  <2> QED  BY <1>3, <2>1, <2>3 DEF line
<1> QED  BY <1>2, <1>3

\* The pools sum to a natural number.
LEMMA SumOfThree ==
  ASSUME NEW pools \in [1..3 -> Nat]
  PROVE  Total(pools) \in Nat
<1> DEFINE piles == {{x} \X (1..pools[x]) : x \in DOMAIN pools}
<1>1. \A x \in 1..3 : IsFiniteSet({x} \X (1..pools[x]))
  <2> TAKE x \in 1..3
  <2> DEFINE n == pools[x]
  <2>1. n \in Nat
    OBVIOUS
  <2> HIDE DEF n
  <2>2. IsFiniteSet({x}) /\ IsFiniteSet(1..n)
    <3>1. IsFiniteSet({x})
      BY FS_Singleton
    <3>2. IsFiniteSet(1..n)
      BY <2>1, FS_Interval
    <3> QED  BY <3>1, <3>2
  <2>3. IsFiniteSet({x} \X (1..n))
    BY <2>2, FS_Product
  <2> QED  BY <2>3 DEF n
<1>2. IsFiniteSet(piles)
  <2> DEFINE pile == [x \in 1..3 |-> {x} \X (1..pools[x])]
  <2>1. IsFiniteSet(1..3)
    <3> DEFINE n == 3
    <3>1. n \in Nat
      OBVIOUS
    <3> HIDE DEF n
    <3>2. IsFiniteSet(1..n)
      BY <3>1, FS_Interval
    <3> QED  BY <3>2 DEF n
  <2>2. pile \in Surjection(1..3, piles)
    BY DEF Surjection
  <2> HIDE DEF pile, piles
  <2> QED  BY <2>1, <2>2, FS_Surjection
<1>3. IsFiniteSet(UNION piles)
  <2>1. \A T \in piles : IsFiniteSet(T)
    BY <1>1
  <2> HIDE DEF piles
  <2> QED  BY <1>2, <2>1, FS_UNION
<1>4. Total(pools) = Cardinality(UNION piles)
  BY DEF Total, Sum, Coins
<1> QED  BY <1>3, <1>4, FS_CardinalityType

\* The favourite is one of the three outcomes.
LEMMA FavouriteIsOne ==
  ASSUME NEW p \in [1..3 -> Int]
  PROVE  Favourite(p) \in 1..3
<1>1. \E i \in 1..3 : \A j \in 1..3 : p[j] < p[i] \/ (p[j] = p[i] /\ i <= j)
  <2> DEFINE best == {p[1], p[2], p[3]}
  <2>1. PICK i \in 1..3 : \A j \in 1..3 : p[j] <= p[i]
    <3>1. p[1] \in Int /\ p[2] \in Int /\ p[3] \in Int
      OBVIOUS
    <3>2. CASE p[2] <= p[1] /\ p[3] <= p[1]
      BY <3>1, <3>2
    <3>3. CASE p[1] <= p[2] /\ p[3] <= p[2]
      BY <3>1, <3>3
    <3>4. CASE p[1] <= p[3] /\ p[2] <= p[3]
      BY <3>1, <3>4
    <3> QED  BY <3>1, <3>2, <3>3, <3>4
  <2>2. PICK k \in {j \in 1..3 : p[j] = p[i]} :
               \A j \in {m \in 1..3 : p[m] = p[i]} : k <= j
    <3>1. {j \in 1..3 : p[j] = p[i]} \subseteq Nat /\ {j \in 1..3 : p[j] = p[i]} # {}
      OBVIOUS
    <3> QED  BY <3>1, Least
  <2>3. \A j \in 1..3 : p[j] < p[k] \/ (p[j] = p[k] /\ k <= j)
    BY <2>1, <2>2
  <2> QED  BY <2>2, <2>3
<1>2. DOMAIN p = 1..3
  OBVIOUS
<1> QED  BY <1>1, <1>2 DEF Favourite

\* One and two are how many they are.
LEMMA TwoAreTwo ==
  ASSUME NEW a, NEW b, a # b
  PROVE  Cardinality({a}) = 1 /\ Cardinality({a, b}) = 2
<1>1. IsFiniteSet({a}) /\ Cardinality({a}) = 1
  BY FS_Singleton
<1>2. Cardinality({a} \cup {b}) = Cardinality({a}) + 1
  BY <1>1, FS_AddElement
<1>3. {a, b} = {a} \cup {b}
  OBVIOUS
<1> QED  BY <1>1, <1>2, <1>3

\* A line once recorded is the newest as long as what follows has none.
LEMMA SharpStays ==
  ASSUME NEW t, NEW u, NEW w, t.line # None, u.line = None, w.line = None
  PROVE  /\ Lined(<<t, u, w>>) = {1} /\ Sharp(<<t, u, w>>) = t.line
         /\ Lined(<<t>>) = {1} /\ Sharp(<<t>>) = t.line
         /\ Lined(<<t, t>>) = {1, 2} /\ Sharp(<<t, t>>) = t.line
<1>1. Lined(<<t, u, w>>) = {1} /\ Lined(<<t>>) = {1} /\ Lined(<<t, t>>) = {1, 2}
  BY DEF Lined
<1>2. (CHOOSE i \in {1} : \A j \in {1} : j <= i) = 1
  OBVIOUS
<1>3. (CHOOSE i \in {1, 2} : \A j \in {1, 2} : j <= i) = 2
  OBVIOUS
<1> QED  BY <1>1, <1>2, <1>3 DEF Sharp

\* Neither a bet nor a poll without odds takes the site's line from it (recordOddsTick,
\* syncOdds, getOddsSeries, readMarket).
THEOREM LineStays == LineOutlivesTheBets
<1> SUFFICES ASSUME NEW pools \in PoolShapes, NEW later \in PoolShapes,
                    NEW quotes \in Quotations, NEW k \in DOMAIN quotes,
                    NEW t \in recordOddsTick([m \in {"m"} |-> [status |-> "open", pools |-> pools]],
                                             Row(quotes[k])),
                    NEW p \in syncOdds([m \in {"m"} |-> [status |-> "open", pools |-> pools]],
                                       <<>>, TRUE)
             PROVE  LET series == <<t, PoolSnapshot("m", later), p>>
                    IN  /\ Divergence(series, pools) = Divergence(<<t>>, pools)
                        /\ readMarket(series, pools) = readMarket(<<t>>, pools)
                        /\ readMarket(<<t, t>>, pools).drift = 0
  BY DEF LineOutlivesTheBets
<1> DEFINE market == [m \in {"m"} |-> [status |-> "open", pools |-> pools]]
           q      == quotes[k]
           c      == consensusFor1x2(<<Row(q)>>)
           u      == PoolSnapshot("m", later)
           series == <<t, u, p>>
<1>1. pools \in [1..3 -> Nat] /\ q \in Quote
  BY PoolsAssumption, QuotationsAssumption
<1>2. c # None /\ t.line = c
  BY DEF recordOddsTick, Snapshot
<1>3. c.pct \in [1..3 -> Int] /\ c.sum \in 1000..1003
  <2> DEFINE rows == [i \in DOMAIN <<q>> |-> Row(<<q>>[i])]
             book == {i \in DOMAIN <<q>> : <<q>>[i].type = "1X2" /\ <<q>>[i].demargined}
  <2>1. rows = <<Row(q)>>
    OBVIOUS
  <2>2. <<q>> \in Seq(Quote)
    BY <1>1
  <2>3. PICK i \in book : c = [pct |-> Aligned(Row(<<q>>[i])),
                               sum |-> Added(Aligned(Row(<<q>>[i]))), ts |-> <<q>>[i].ts]
    <3>1. /\ book = {} => consensusFor1x2(rows) = None
          /\ book # {} =>
               \E i \in book :
                 /\ \A j \in book : <<q>>[j].ts <= <<q>>[i].ts
                 /\ consensusFor1x2(rows) =
                      [pct |-> Aligned(Row(<<q>>[i])), sum |-> Added(Aligned(Row(<<q>>[i]))),
                       ts |-> <<q>>[i].ts]
      <4> DEFINE qs == <<q>>
      <4>1. qs \in Seq(Quote)
        BY <2>2
      <4> HIDE DEF qs
      <4>2. /\ {i \in DOMAIN qs : qs[i].type = "1X2" /\ qs[i].demargined} = {} =>
                 consensusFor1x2([i \in DOMAIN qs |-> Row(qs[i])]) = None
            /\ {i \in DOMAIN qs : qs[i].type = "1X2" /\ qs[i].demargined} # {} =>
                 \E m \in {i \in DOMAIN qs : qs[i].type = "1X2" /\ qs[i].demargined} :
                   /\ \A j \in {i \in DOMAIN qs : qs[i].type = "1X2" /\ qs[i].demargined} :
                        qs[j].ts <= qs[m].ts
                   /\ consensusFor1x2([i \in DOMAIN qs |-> Row(qs[i])]) =
                        [pct |-> Aligned(Row(qs[m])), sum |-> Added(Aligned(Row(qs[m]))),
                         ts |-> qs[m].ts]
        BY <4>1, ConsensusIsNewest
      <4> QED  BY <4>2 DEF qs
    <3>2. consensusFor1x2(rows) = c
      BY <2>1
    <3> QED  BY <1>2, <3>1, <3>2
  <2>4. <<q>>[i] = q
    OBVIOUS
  <2>5. c = [pct |-> Aligned(Row(q)), sum |-> Added(Aligned(Row(q))), ts |-> q.ts]
    BY <2>3, <2>4
  <2> HIDE DEF c
  <2> QED  BY <1>1, <2>5, LineIsClose
<1>4. u.line = None
  BY DEF PoolSnapshot, Snapshot
<1>5. p.line = None
  <2>1. consensusFor1x2(<<>>) = None
    BY DEF consensusFor1x2, Newest
  <2>2. p.line = LineFor(pools, consensusFor1x2(<<>>))
    BY DEF syncOdds, Snapshot
  <2> QED  BY <2>1, <2>2 DEF LineFor
<1> HIDE DEF c, u, q
<1>6. /\ Lined(series) = {1} /\ Sharp(series) = c
      /\ Lined(<<t>>) = {1} /\ Sharp(<<t>>) = c
      /\ Lined(<<t, t>>) = {1, 2} /\ Sharp(<<t, t>>) = c
  BY <1>2, <1>4, <1>5, SharpStays
<1>7. Cardinality({1}) = 1 /\ Cardinality({1, 2}) = 2
  <2>1. 1 # 2
    OBVIOUS
  <2> QED  BY <2>1, TwoAreTwo
<1> HIDE DEF series
<1>8. Divergence(series, pools) = Divergence(<<t>>, pools)
  BY <1>6 DEF Divergence
<1>9. readMarket(series, pools) = readMarket(<<t>>, pools)
  <2> DEFINE one == <<t>>
  <2>1. Lined(one) = {1} /\ Sharp(one) = c
    BY <1>6
  <2>2. Divergence(series, pools) = Divergence(one, pools)
    BY <1>8
  <2> HIDE DEF one
  <2>3. readMarket(series, pools) = readMarket(one, pools)
    <3> DEFINE first(s) == CHOOSE i \in Lined(s) : \A j \in Lined(s) : i <= j
    <3>1. Cardinality(Lined(series)) < 2 /\ Cardinality(Lined(one)) < 2
      BY <1>6, <1>7, <2>1
    <3>2. Sharp(series) = Sharp(one)
      BY <1>6, <2>1
    <3> QED  BY <2>2, <3>1, <3>2 DEF readMarket
  <2> QED  BY <2>3 DEF one
<1>10. readMarket(<<t, t>>, pools).drift = 0
  <2> DEFINE two   == <<t, t>>
             gaps  == [i \in DOMAIN pools |-> Gap(Divergence(two, pools)[i])]
             edge  == Favourite(gaps)
             sharp == [i \in DOMAIN pools |-> Share(c, i)]
             first == CHOOSE i \in Lined(two) : \A j \in Lined(two) : i <= j
  <2>10. Lined(two) = {1, 2} /\ Sharp(two) = c /\ two[1].line = c
    BY <1>2, <1>6
  <2> HIDE DEF two
  <2>1. first = 1
    BY <2>10
  <2>2. ASSUME NEW i \in 1..3 PROVE Share(c, i) \in Int
    <3> DEFINE a == c.pct[i]
               n == c.sum
    <3>1. a \in Int /\ n \in 1000..1003
      BY <1>3
    <3> HIDE DEF a, n
    <3>2. (1000 * a) \div n \in Int
      BY <3>1
    <3> QED  BY <3>2 DEF a, n, Share
  <2>3. ASSUME NEW i \in 1..3 PROVE crowdImplied(pools)[i] \in Int
    <3> DEFINE a == pools[i]
               n == Total(pools)
    <3>1. a \in Nat /\ n \in Nat
      BY <1>1, SumOfThree
    <3>2. crowdImplied(pools)[i] = IF n = 0 THEN 0 ELSE (1000 * a) \div n
      BY <1>1 DEF crowdImplied
    <3> HIDE DEF a, n
    <3> QED  BY <3>1, <3>2
  <2>4. gaps \in [1..3 -> Int]
    <3>1. ASSUME NEW i \in 1..3 PROVE Divergence(two, pools)[i] \in Int
      <4>1. Divergence(two, pools)[i] = crowdImplied(pools)[i] - Share(c, i)
        <5> HIDE DEF c
        <5> QED  BY <1>1, <1>2, <2>10 DEF Divergence
      <4> QED  BY <2>2, <2>3, <4>1
    <3> QED  BY <1>1, <3>1 DEF Gap
  <2> HIDE DEF gaps
  <2>5. edge \in 1..3
    BY <2>4, FavouriteIsOne
  <2> HIDE DEF edge
  <2>6. readMarket(two, pools).drift = sharp[edge] - Share(two[first].line, edge)
    BY <1>2, <2>10, <1>7 DEF readMarket, gaps, edge
  <2> HIDE DEF first
  <2>7. sharp[edge] = Share(c, edge)
    BY <1>1, <2>5
  <2>8. readMarket(two, pools).drift = Share(c, edge) - Share(c, edge)
    BY <2>10, <2>1, <2>6, <2>7
  <2>9. Share(c, edge) \in Int
    BY <2>2, <2>5
  <2> QED  BY <2>8, <2>9 DEF two
<1> QED  BY <1>8, <1>9, <1>10 DEF series, u

\* So the line is sound whenever the keeper records odds.
THEOREM LineAlways == Spec => []LineIsSound
<1>1. LineIsSound
  BY LineHolds, LineStays DEF LineIsSound
<1> QED  BY <1>1, PTL
=============================================================================
