------------------------------- MODULE Replay -------------------------------
(***************************************************************************)
(* The replay of a recorded settlement.  The page reads the archive of a   *)
(* fixture's events, and the receipt alone when a script settled it; the   *)
(* beats of the recording become timers, the timers change the feed, and   *)
(* the theater stages the feed by a clock of its own.  The Replay button   *)
(* starts all of it again at any moment.                                   *)
(*                                                                         *)
(* A recording has its events in the order of their ids, each with the     *)
(* second it was stored at, its type, and a score and a final flag if it   *)
(* is a score; found says whether the API has a receipt, proven which      *)
(* score the receipt shows, if any.                                        *)
(***************************************************************************)
EXTENDS Beats, Sequences, FiniteSets

CONSTANTS
  Duration,     (* durationMs                                               *)
  Recordings,   (* what the API may answer of a fixture                     *)
  MaxPlays      (* how often the recording is played: bound of the model    *)

ASSUME DurationAssumption == Duration \in Nat \ {0}
ASSUME PlaysAssumption    == MaxPlays \in Nat

ASSUME RecordingsAssumption ==
  \A rec \in Recordings :
    /\ rec.events \in Seq([at : Nat, type : STRING, score : STRING, final : BOOLEAN])
    /\ rec.kickoff \in Nat /\ rec.found \in BOOLEAN

VARIABLES
  tape,         (* the recording: timeline.current                          *)
  plays,        (* how often it was started                                 *)
  pending,      (* the timers that are set and have not fired               *)
  shown,        (* TheaterFeed                                              *)
  beat          (* the stage shown                                          *)

replayVars == <<tape, plays, pending, shown, beat>>

-----------------------------------------------------------------------------
(* A recording and its timers *)

OfType(rec, type) == {i \in DOMAIN rec.events : rec.events[i].type = type}

First(S) == CHOOSE i \in S : \A j \in S : i <= j

\* getArchive: the settlement is dated by the first receipt event.
Receipted(rec) == OfType(rec, "receipt") # {}

\* The receipt is recorded, or else read from the API.
Settled(rec) == Receipted(rec) \/ rec.found

T0(rec) == IF rec.events = <<>> THEN rec.kickoff ELSE rec.events[1].at

T1(rec) == CASE Receipted(rec)     -> rec.events[First(OfType(rec, "receipt"))].at
             [] rec.events = <<>>  -> T0(rec) + 1
             [] OTHER              -> rec.events[Len(rec.events)].at

Span(rec) == IF T1(rec) - T0(rec) > 1 THEN T1(rec) - T0(rec) ELSE 1

Clamped(n, high) == IF n < 0 THEN 0 ELSE IF n > high THEN high ELSE n

\* When, in the replay, a moment of the recording is due.
Moment(rec, t) == (Clamped(t - T0(rec), Span(rec)) * Duration) \div Span(rec)

Finals(rec) == {i \in OfType(rec, "score") : rec.events[i].final}

\* A recording without a final record is finalised at 40 percent all the same
\* (driver.ts:265-268), though "nothing here is synthesized: the finalisation is
\* a real statusId" (driver.ts:12-13).
FinalAt(rec) == IF Finals(rec) = {} THEN (Duration * 4) \div 10
                ELSE Moment(rec, rec.events[First(Finals(rec))].at)

\* 400 ms before the end: what was recorded just before the receipt is replayed
\* after it, though "the ORDER and the data are exactly what the keeper recorded"
\* (driver.ts:138).
ReceiptAt(rec) ==
  LET late == Moment(rec, T1(rec)) - 400  floor == (Duration * 72) \div 100
  IN  IF late > floor THEN late ELSE floor

\* The timers in the order they are set: one for each score, the final whistle,
\* and the receipt if there is one.
FinalTimer(rec)   == Len(rec.events) + 1
ReceiptTimer(rec) == Len(rec.events) + 2

Timers(rec) ==
  OfType(rec, "score") \cup {FinalTimer(rec)}
    \cup (IF Settled(rec) THEN {ReceiptTimer(rec)} ELSE {})

Due(rec, i) == CASE i = FinalTimer(rec)   -> FinalAt(rec)
                 [] i = ReceiptTimer(rec) -> ReceiptAt(rec)
                 [] OTHER                 -> Moment(rec, rec.events[i].at)

\* Timers that are due together fire in the order they were set.
Before(rec, i, j) ==
  Due(rec, i) < Due(rec, j) \/ (Due(rec, i) = Due(rec, j) /\ i <= j)

\* Mutant of Beat: the receipt leaves the score that is shown.
BeatKeepsScore(f, rec, i) ==
  CASE i = FinalTimer(rec)   -> [f EXCEPT !.finalised = TRUE]
    [] i = ReceiptTimer(rec) ->
         [score |-> IF f.score = NoScore THEN rec.proven ELSE f.score,
          finalised |-> TRUE, settlement |-> TRUE]
    [] OTHER                 -> [f EXCEPT !.score = rec.events[i].score]

\* What a timer makes of the feed.
Beat(f, rec, i) ==
  CASE i = FinalTimer(rec)   -> [f EXCEPT !.finalised = TRUE]
    [] i = ReceiptTimer(rec) ->
         [score |-> IF rec.proven = NoScore THEN f.score ELSE rec.proven,
          finalised |-> TRUE, settlement |-> TRUE]
    [] OTHER                 -> [f EXCEPT !.score = rec.events[i].score]

-----------------------------------------------------------------------------
(* The page *)

ReplayInit ==
  /\ tape \in Recordings
  /\ plays = 0 /\ pending = {} /\ shown = Empty /\ beat = Watch

\* Mutant of Play: the staging is not rewound.
PlayOn ==
  /\ plays < MaxPlays /\ plays' = plays + 1
  /\ pending' = Timers(tape)
  /\ shown' = Empty
  /\ UNCHANGED <<tape, beat>>

\* start: once the recording is loaded, and when Replay is pressed.  The timers
\* of the play before are cleared, and a feed that is neither finalised nor
\* settled rewinds the staging.
Play ==
  /\ plays < MaxPlays /\ plays' = plays + 1
  /\ pending' = Timers(tape)
  /\ shown' = Empty
  /\ beat' = Watch
  /\ UNCHANGED tape

Fire(i) ==
  /\ \A j \in pending : Before(tape, i, j)
  /\ pending' = pending \ {i}
  /\ shown' = Beat(shown, tape, i)
  /\ UNCHANGED <<tape, plays, beat>>

\* The clock of the staging runs on as far as the feed allows.
NextBeat ==
  /\ beat < Cap(shown) /\ beat' = beat + 1
  /\ UNCHANGED <<tape, plays, pending, shown>>

TimerFires == \E i \in pending : Fire(i)

ReplayNext == Play \/ TimerFires \/ NextBeat

ReplaySpec == ReplayInit /\ [][ReplayNext]_replayVars

-----------------------------------------------------------------------------
(* Correctness *)

\* What has fired since the replay was started.
Fired == IF plays = 0 THEN {} ELSE Timers(tape) \ pending

\* However often the replay is started again, and whenever: VERIFIED is staged
\* only when the receipt of the recording was replayed in this play: "if the
\* receipt has not arrived, the theater HOLDS" (SettlementTheater.tsx:13-16).
\* FINALISED is staged only when this play came to its whistle or its receipt;
\* that the whistle is a recorded one is not so (FinalAt), and not claimed.
SealIsReplayed ==
  /\ beat >= Verified => ReceiptTimer(tape) \in Fired
  /\ beat >= Final => {FinalTimer(tape), ReceiptTimer(tape)} \cap Fired # {}

\* "Replay works for ANY settled fixture" (driver.ts:193): however it was started
\* again, a replay that has run to its end shows the seal exactly if there is a
\* receipt, and then the score that was proven, unless a score is due after the
\* receipt (the last 45th of a recording is).  A recording with neither a receipt
\* nor a final record may end as it likes.
ReplayEndsProven ==
  plays > 0 /\ pending = {} =>
    /\ shown.settlement = Settled(tape)
    /\ Settled(tape) \/ Finals(tape) # {} => shown.finalised
    /\ /\ Settled(tape) /\ tape.proven # NoScore
       /\ \A i \in OfType(tape, "score") : Due(tape, i) <= ReceiptAt(tape)
       => shown.score = tape.proven

-----------------------------------------------------------------------------
(* Why the seal is replayed: the feed tells what has fired *)

ReplayTypes ==
  /\ tape \in Recordings /\ plays \in 0..MaxPlays
  /\ pending \subseteq IF plays = 0 THEN {} ELSE Timers(tape)
  /\ shown = [score |-> shown.score, finalised |-> shown.finalised,
              settlement |-> shown.settlement]
  /\ {shown.finalised, shown.settlement} \subseteq BOOLEAN
  /\ beat \in Watch..Receipt

\* Timers fire in their order, and the feed tells exactly what has fired.
FeedIsReplayed ==
  /\ \A i \in Fired, j \in pending : Before(tape, i, j)
  /\ shown.settlement <=> ReceiptTimer(tape) \in Fired
  /\ shown.finalised <=> {FinalTimer(tape), ReceiptTimer(tape)} \cap Fired # {}
  /\ /\ ReceiptTimer(tape) \in Fired /\ tape.proven # NoScore
     /\ \A i \in OfType(tape, "score") \cap Fired : Before(tape, i, ReceiptTimer(tape))
     => shown.score = tape.proven

StagedAsFed == beat <= Cap(shown)

ReplayInv == ReplayTypes /\ FeedIsReplayed /\ StagedAsFed
=============================================================================
