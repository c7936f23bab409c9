------------------------------- MODULE Leader -------------------------------
(***************************************************************************)
(* Leader election among keeper instances: a Postgres session-level        *)
(* advisory lock taken on a direct connection, re-asserted every fifteen   *)
(* seconds, and given up by leaving the process.                           *)
(*                                                                         *)
(* External: the database server.  It knows sessions, not processes; a     *)
(* session may be reaped without its client hearing of it, and may outlive *)
(* a client that vanished.                                                 *)
(***************************************************************************)
EXTENDS Integers, FiniteSets

CONSTANTS
  Keepers,     (* the instances                                            *)
  Sessions,    (* names for the server's sessions; a name is used again    *)
  NoSession,
  MaxLosses    (* bounds crashes, reaped sessions and lost answers         *)

ASSUME SessionsAssumption == NoSession \notin Sessions
ASSUME LossesAssumption   == MaxLosses \in Nat

VARIABLES
  pc,       (* per instance: "down", "electing", "asked", "granted",       *)
            (* "denied", "failed", "standby" or "leading"                  *)
  client,   (* per instance, the session of this.client                    *)
  forgotten,(* per instance, sessions of earlier clients it never ended    *)
  verify,   (* per instance, the verify loop: "sleeping" or "asked"        *)
  alive,    (* the sessions the server knows                               *)
  holder,   (* the session that holds the advisory lock                    *)
  losses

electionVars == <<pc, client, forgotten, verify, alive, holder, losses>>

Leading(k) == pc[k] = "leading"

TypeOK ==
  /\ pc \in [Keepers -> {"down", "electing", "asked", "granted", "denied",
                         "failed", "standby", "leading"}]
  /\ client \in [Keepers -> Sessions \cup {NoSession}]
  /\ forgotten \in [Keepers -> SUBSET Sessions]
  /\ verify \in [Keepers -> {"sleeping", "asked"}]
  /\ alive \subseteq Sessions
  /\ holder \in alive \cup {NoSession}
  /\ losses \in Nat

ElectionInit ==
  /\ pc = [k \in Keepers |-> "down"]
  /\ client = [k \in Keepers |-> NoSession]
  /\ forgotten = [k \in Keepers |-> {}]
  /\ verify = [k \in Keepers |-> "sleeping"]
  /\ alive = {} /\ holder = NoSession
  /\ losses = 0

To(k, label) == pc' = [pc EXCEPT ![k] = label]

Loses == losses < MaxLosses /\ losses' = losses + 1

\* The server ends some sessions, and frees the lock with the one that holds it.
End(gone) ==
  /\ alive' = alive \ gone
  /\ holder' = IF holder \in gone THEN NoSession ELSE holder

-----------------------------------------------------------------------------
(* The server *)

\* A session is reaped; its client, if it still has one, is not told.
Reap(s) ==
  /\ s \in alive
  /\ \E k \in Keepers : client[k] = s
  /\ Loses
  /\ End({s})
  /\ UNCHANGED <<pc, client, forgotten, verify>>

\* A session no instance uses ends sooner or later.
ReapOrphan(s) ==
  /\ s \in alive
  /\ \A k \in Keepers : client[k] # s
  /\ End({s})
  /\ forgotten' = [k \in Keepers |-> forgotten[k] \ {s}]
  /\ UNCHANGED <<pc, client, verify, losses>>

\* pg_try_advisory_lock, in the session that asks; the answer may get lost.
Answer(k) ==
  /\ pc[k] = "asked"
  /\ LET free == client[k] \in alive /\ holder \in {NoSession, client[k]}
     IN  /\ holder' = IF free THEN client[k] ELSE holder
         /\ \/ /\ client[k] \in alive
               /\ To(k, IF free THEN "granted" ELSE "denied")
               /\ UNCHANGED losses
            \/ client[k] \in alive /\ To(k, "failed") /\ Loses
            \/ client[k] \notin alive /\ To(k, "failed") /\ UNCHANGED losses
  /\ UNCHANGED <<client, forgotten, verify, alive>>

-----------------------------------------------------------------------------
(* Leader *)

\* run(): the process starts and attempts.
Run(k) ==
  /\ pc[k] = "down"
  /\ To(k, "electing")
  /\ UNCHANGED <<client, forgotten, verify, alive, holder, losses>>

\* connect(), then the query is sent.
Attempt(k) ==
  /\ pc[k] = "electing"
  /\ \E s \in Sessions \ alive :
       /\ \A j \in Keepers : client[j] # s
       /\ client' = [client EXCEPT ![k] = s]
       /\ alive' = alive \cup {s}
  /\ To(k, "asked")
  /\ UNCHANGED <<forgotten, verify, holder, losses>>

Acquire(k) ==
  /\ pc[k] = "granted"
  /\ To(k, "leading")
  /\ verify' = [verify EXCEPT ![k] = "sleeping"]
  /\ UNCHANGED <<client, forgotten, alive, holder, losses>>

\* Mutant of Follow: the promise of run() resolves without the lock, as "an
\* earlier version" did.
FollowAndLead(k) ==
  /\ pc[k] = "denied"
  /\ To(k, "leading")
  /\ UNCHANGED <<client, forgotten, verify, alive, holder, losses>>

\* a follower ends its connection and tries again in five seconds.
Follow(k) ==
  /\ pc[k] = "denied"
  /\ To(k, "standby")
  /\ End({client[k]})
  /\ client' = [client EXCEPT ![k] = NoSession]
  /\ UNCHANGED <<forgotten, verify, losses>>

\* Mutant of AttemptFailed: the error is logged and no retry is scheduled.
AttemptAbandoned(k) ==
  /\ pc[k] = "failed"
  /\ client' = [client EXCEPT ![k] = NoSession]
  /\ forgotten' = [forgotten EXCEPT ![k] = @ \cup {client[k]}]
  /\ UNCHANGED <<pc, verify, alive, holder, losses>>

\* a query that threw: the client is forgotten, not ended.
AttemptFailed(k) ==
  /\ pc[k] = "failed"
  /\ To(k, "standby")
  /\ client' = [client EXCEPT ![k] = NoSession]
  /\ forgotten' = [forgotten EXCEPT ![k] = @ \cup ({client[k]} \cap alive)]
  /\ UNCHANGED <<verify, alive, holder, losses>>

RetrySoon(k) ==
  /\ pc[k] = "standby"
  /\ To(k, "electing")
  /\ UNCHANGED <<client, forgotten, verify, alive, holder, losses>>

\* The process is gone with everything it knew.
Leave(k) ==
  /\ To(k, "down")
  /\ client' = [client EXCEPT ![k] = NoSession]
  /\ forgotten' = [forgotten EXCEPT ![k] = {}]
  /\ verify' = [verify EXCEPT ![k] = "sleeping"]

\* process.exit: its session ends, and the lock with it.
StandDown(k) == Leave(k) /\ End({client[k]}) /\ UNCHANGED losses

\* Mutant of Verified: a tick that finds the session dead only logs it.
VerifiedAnyway(k) ==
  /\ Leading(k) /\ verify[k] = "asked"
  /\ verify' = [verify EXCEPT ![k] = "sleeping"]
  /\ UNCHANGED <<pc, client, forgotten, alive, holder, losses>>

\* the verify loop asks for the lock again on its own session: a live one
\* holds it already (the lock stacks), on a dead one the query throws.
Verify(k) ==
  /\ Leading(k) /\ verify[k] = "sleeping"
  /\ verify' = [verify EXCEPT ![k] = "asked"]
  /\ UNCHANGED <<pc, client, forgotten, alive, holder, losses>>

Verified(k) ==
  /\ Leading(k) /\ verify[k] = "asked"
  /\ IF client[k] \in alive
     THEN /\ verify' = [verify EXCEPT ![k] = "sleeping"]
          /\ UNCHANGED <<pc, client, forgotten, alive, holder, losses>>
     ELSE StandDown(k)

\* the socket does report the end of the session ("error" or "end").
Disconnected(k) ==
  /\ Leading(k) /\ client[k] \notin alive
  /\ StandDown(k)

\* an earlier client's session ends, or is reported to have, while a later one
\* holds the lock: its handler stands down all the same.
LateEnd(k) ==
  /\ Leading(k)
  /\ \E s \in forgotten[k] : End({s, client[k]})
  /\ Leave(k)
  /\ UNCHANGED losses

\* The process dies; the server need not notice at once.
Perish(k) ==
  /\ pc[k] # "down"
  /\ Loses
  /\ Leave(k)
  /\ UNCHANGED <<alive, holder>>

ElectionStep(k) ==
  \/ Run(k) \/ Attempt(k) \/ Acquire(k) \/ Follow(k)
  \/ AttemptFailed(k) \/ RetrySoon(k) \/ Verify(k) \/ Verified(k)

ElectionNext ==
  \/ \E k \in Keepers : \/ ElectionStep(k) \/ Answer(k)
                        \/ Disconnected(k) \/ LateEnd(k) \/ Perish(k)
  \/ \E s \in Sessions : Reap(s) \/ ReapOrphan(s)

ElectionSpec == ElectionInit /\ [][ElectionNext]_electionVars

\* The platform restarts a process that left; timers fire; queries are
\* answered or throw; orphaned sessions end.
Fairness ==
  /\ \A k \in Keepers : WF_electionVars(ElectionStep(k)) /\ WF_electionVars(Answer(k))
  /\ \A s \in Sessions : WF_electionVars(ReapOrphan(s))

FairElection == ElectionSpec /\ Fairness

-----------------------------------------------------------------------------
(* Correctness properties *)

\* The overlap is bounded by the sessions: of two instances that both act as
\* the leader at least one has lost its session, and is about to leave.
OneLiveLeader ==
  \A j, k \in Keepers :
    /\ Leading(j) /\ client[j] \in alive
    /\ Leading(k) /\ client[k] \in alive
    => j = k

\* Why: an instance that was granted the lock and whose session lives holds
\* it, and no two instances are on one session.
LeaderInv ==
  /\ TypeOK
  /\ \A k \in Keepers :
       pc[k] \in {"granted", "leading"} /\ client[k] \in alive
         => holder = client[k]
  /\ \A j, k \in Keepers :
       client[j] = client[k] => j = k \/ client[k] = NoSession
  /\ \A k \in Keepers :
       pc[k] \in {"down", "electing", "standby"} <=> client[k] = NoSession

\* A leader whose session died silently stands down.
StaleLeaderLeaves ==
  \A k \in Keepers :
    Leading(k) /\ client[k] \notin alive ~> ~Leading(k)

\* "A follower keeps trying, so it takes over" (leader.ts): when nobody
\* leads, somebody will.
SomebodyTakesOver ==
  (\A k \in Keepers : ~Leading(k)) ~> (\E k \in Keepers : Leading(k))
=============================================================================
