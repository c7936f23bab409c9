---------------------------- MODULE TheaterPages ----------------------------
(***************************************************************************)
(* The two pages of the settlement theater.  A visitor has one of them     *)
(* open: the live one listens to the event stream, the replay of a fixture *)
(* reads a recording and nothing else, so nothing that goes on elsewhere   *)
(* matters to it, and it matters to nobody.                                *)
(***************************************************************************)
EXTENDS Theater, Replay

VARIABLE page

pagesVars == <<wireVars, replayVars, page>>

NoRecording == CHOOSE rec \in Recordings : rec.events = <<>>

PagesInit ==
  /\ WireInit /\ ReplayInit
  /\ \/ page = "live" /\ tape = NoRecording
     \/ page = "replay"

PagesNext ==
  \/ page = "live"   /\ WireNext   /\ UNCHANGED <<replayVars, page>>
  \/ page = "replay" /\ ReplayNext /\ UNCHANGED <<wireVars, page>>

PagesSpec == PagesInit /\ [][PagesNext]_pagesVars

OnLivePage(A) == page = "live" /\ A /\ UNCHANGED <<replayVars, page>>

\* A step of the stream, which the theater sees nothing of.
Unseen(A) == OnLivePage(A /\ UNCHANGED theaterVars)

\* Calls are answered or fail, the live staging goes on, and a connection delivers
\* what it holds as long as it lasts; a match need not produce events, nor a
\* visitor start a replay, of which nothing is claimed but what it shows.
FairPages ==
  /\ PagesSpec
  /\ \A id \in Ids : /\ WF_wireVars(Unseen(Insert(id)))
                     /\ WF_wireVars(Unseen(Notify(id)))
                     /\ WF_wireVars(Unseen(Dispatch(id)))
  /\ \A c \in Conns : /\ WF_wireVars(Unseen(ReplayRead(c)))
                      /\ WF_wireVars(Unseen(ReplayWrite(c)))
  /\ WF_wireVars(Unseen(Listen)) /\ WF_wireVars(Unseen(Connect))
  /\ WF_wireVars(OnLivePage(Hear)) /\ WF_wireVars(OnLivePage(Advance))
=============================================================================
