--------------------------- MODULE BilibiliClient ---------------------------
(***************************************************************************)
(* The client of the live platform (bilibili/src/client.ts, link.ts): it   *)
(* opens a session, keeps it with heartbeats, receives over one of several *)
(* links, ends and reopens it when it is no longer good, and tells from    *)
(* when to when it could not receive (gaps).                               *)
(*                                                                         *)
(* Delays are not told apart: a wait ends at some time.  What follows an   *)
(* abort or a closed link without another wait is one step.  The platform  *)
(* is the room: it has one session at most, which it may close by itself.  *)
(***************************************************************************)
EXTENDS Integers

CONSTANTS BeatLimit,    \* config projectHeartbeatFailures
          LinkLimit     \* max(3, 2 * links)

VARIABLES
    run,        \* where #run and #session are
    stop,       \* of stop(): no, asked (it waits for the run), ending, done
    game,       \* #game: none, named, nameless (its game_id is empty)
    heart,      \* the project heartbeat: off, armed (a timer), flight (a request)
    misses,     \* its failures in a row
    dead,       \* links that failed in a row
    gap,        \* a gap is open
    ready,      \* everReady
    room,       \* at the platform: empty, fresh (the answer is under way), ours, left
    owed        \* the client has been told of a session it has not asked to end

vars == <<run, stop, game, heart, misses, dead, gap, ready, room, owed>>

InSession == run \in {"linking", "receiving", "pausing"}
Aborted == stop # "no"

\* #endGame is called: a session without a number cannot be ended.
EndGame ==
    /\ game' = "none"
    /\ owed' = (owed /\ game = "none")
    /\ room' = IF game = "nameless" /\ room = "ours" THEN "left" ELSE room

(***************************************************************************)
(* Opening                                                                 *)
(***************************************************************************)
\* start()
Start ==
    /\ run = "idle" /\ ~Aborted
    /\ run' = "opening"
    /\ UNCHANGED <<stop, game, heart, misses, dead, gap, ready, room, owed>>

\* The platform opens one if the room has none.
PlatformOpens ==
    /\ run = "opening" /\ room = "empty"
    /\ room' = "fresh"
    /\ UNCHANGED <<run, stop, game, heart, misses, dead, gap, ready, owed>>

\* Mutant of Opened: stop() is looked at first.
OpenedUnlessStopped(named, links) ==
    /\ run = "opening" /\ room = "fresh"
    /\ room' = "ours" /\ owed' = TRUE
    /\ misses' = 0 /\ dead' = 0
    /\ game' = IF Aborted THEN game ELSE IF named THEN "named" ELSE "nameless"
    /\ heart' = IF ~Aborted /\ named THEN "armed" ELSE "off"
    /\ run' = IF Aborted THEN "over" ELSE "linking"
    /\ UNCHANGED <<stop, gap, ready>>

\* Its answer: the session is begun with a heartbeat, if it has a number, and with
\* the first link; it is over at once if none of its links may be connected to.  An
\* answer that is there before the abort has its session recorded all the same.
Opened(named, links) ==
    /\ run = "opening" /\ room = "fresh"
    /\ misses' = 0 /\ dead' = 0
    /\ IF links \/ Aborted
       THEN /\ room' = "ours" /\ owed' = TRUE
            /\ game' = IF named THEN "named" ELSE "nameless"
            /\ heart' = IF named /\ ~Aborted THEN "armed" ELSE "off"
            /\ run' = IF Aborted THEN "over" ELSE "linking"
            /\ UNCHANGED gap
       ELSE /\ room' = IF named THEN "ours" ELSE "left"
            /\ run' = IF named THEN "ending" ELSE "resting"
            /\ gap' = TRUE
            /\ UNCHANGED <<game, heart, owed>>
    /\ UNCHANGED <<stop, ready>>

\* It refuses, its answer is lost or late, or stop() has aborted the request.
OpenFails ==
    /\ run = "opening"
    /\ room' = IF room = "fresh" THEN "left" ELSE room
    /\ IF Aborted THEN run' = "over" /\ UNCHANGED gap
       ELSE run' = "waiting" /\ gap' = TRUE
    /\ UNCHANGED <<stop, game, heart, misses, dead, ready, owed>>

\* The wait after a failure or a session is over.
Again ==
    /\ run \in {"waiting", "resting"} /\ ~Aborted
    /\ run' = "opening"
    /\ UNCHANGED <<stop, game, heart, misses, dead, gap, ready, room, owed>>

(***************************************************************************)
(* A session                                                               *)
(***************************************************************************)
\* invalidate(): the session is over, whatever it was waiting for; a gap begins
\* and the platform is asked to end it.
Invalid ==
    /\ run' = IF game = "named" THEN "ending" ELSE "resting"
    /\ heart' = "off"
    /\ gap' = TRUE
    /\ EndGame
    /\ UNCHANGED <<stop, misses, dead, ready>>

\* A link is connected and has authenticated, for a session that the platform has.
LinkReady ==
    /\ run = "linking" /\ room = "ours"
    /\ run' = "receiving"
    /\ dead' = 0
    /\ gap' = FALSE /\ ready' = TRUE
    /\ UNCHANGED <<stop, game, heart, misses, room, owed>>

\* A link cannot be had; the last one in a row, and one that refuses the
\* authentication, end the session.
LinkFails(refused) ==
    /\ run = "linking"
    /\ IF refused \/ dead + 1 >= LinkLimit THEN Invalid
       ELSE /\ run' = "pausing"
            /\ dead' = dead + 1
            /\ gap' = TRUE
            /\ UNCHANGED <<stop, game, heart, misses, ready, room, owed>>

\* The link is closed by the other side, fails, or is silent for too long.
LinkLost ==
    /\ run = "receiving"
    /\ run' = "pausing"
    /\ gap' = TRUE
    /\ UNCHANGED <<stop, game, heart, misses, dead, ready, room, owed>>

NextLink ==
    /\ run = "pausing"
    /\ run' = "linking"
    /\ UNCHANGED <<stop, game, heart, misses, dead, gap, ready, room, owed>>

\* beat(): the timer fires...
Beat ==
    /\ InSession /\ heart = "armed"
    /\ heart' = "flight"
    /\ UNCHANGED <<run, stop, game, misses, dead, gap, ready, room, owed>>

BeatOk ==
    /\ InSession /\ heart = "flight"
    /\ room = "ours"
    /\ heart' = "armed" /\ misses' = 0
    /\ UNCHANGED <<run, stop, game, dead, gap, ready, room, owed>>

\* ... and the request fails; that the session is gone (7003) counts at once.
BeatFails ==
    /\ InSession /\ heart = "flight"
    /\ IF room # "ours" \/ misses + 1 >= BeatLimit THEN Invalid
       ELSE /\ heart' = "armed" /\ misses' = misses + 1
            /\ UNCHANGED <<run, stop, game, dead, gap, ready, room, owed>>

\* INTERACTION_END for this session, or it is so old that it is renewed.
SessionEnds == InSession /\ Invalid

\* The platform closes the session by itself.
PlatformCloses ==
    /\ room \in {"ours", "left"}
    /\ room' = "empty"
    /\ UNCHANGED <<run, stop, game, heart, misses, dead, gap, ready, owed>>

\* api.end has answered, or failed: the platform may still have the session.
Ended(how) ==
    /\ run = "ending"
    /\ run' = IF Aborted THEN "over" ELSE "resting"
    /\ room' = IF room = "ours" THEN how ELSE room
    /\ UNCHANGED <<stop, game, heart, misses, dead, gap, ready, owed>>

(***************************************************************************)
(* stop(): the run is aborted and waited for, then its session is ended    *)
(***************************************************************************)
Stop ==
    /\ stop = "no"
    /\ stop' = "asked"
    /\ heart' = "off"
    /\ run' = IF run \in {"opening", "ending"} THEN run ELSE "over"
    /\ UNCHANGED <<game, misses, dead, gap, ready, room, owed>>

StopEnds ==
    /\ stop = "asked" /\ run = "over"
    /\ stop' = IF game = "named" THEN "ending" ELSE "done"
    /\ gap' = (gap /\ game = "named")
    /\ EndGame
    /\ UNCHANGED <<run, heart, misses, dead, ready>>

StopEnded(how) ==
    /\ stop = "ending"
    /\ stop' = "done"
    /\ room' = IF room = "ours" THEN how ELSE room
    /\ gap' = FALSE
    /\ UNCHANGED <<run, game, heart, misses, dead, ready, owed>>

(***************************************************************************)
\* A session of an earlier run may be left at the platform.
Init ==
    /\ run = "idle" /\ stop = "no"
    /\ game = "none" /\ heart = "off" /\ misses = 0 /\ dead = 0
    /\ gap = FALSE /\ ready = FALSE
    /\ room = "left"
    /\ owed = FALSE

Opening == \E named, links \in BOOLEAN : Opened(named, links)
Linking == \E refused \in BOOLEAN : LinkFails(refused)
Ending == \E how \in {"empty", "left"} : Ended(how)
StopEnding == \E how \in {"empty", "left"} : StopEnded(how)

Next ==
    \/ Start \/ PlatformOpens \/ Opening \/ OpenFails \/ Again
    \/ LinkReady \/ Linking \/ LinkLost \/ NextLink
    \/ Beat \/ BeatOk \/ BeatFails \/ SessionEnds \/ PlatformCloses \/ Ending
    \/ Stop \/ StopEnds \/ StopEnding

\* Requests have deadlines and timers fire, so that the run, the heartbeat and stop()
\* go on; a session that is left is closed by the platform in time, and what is tried
\* again and again sometimes succeeds.
RunGoesOn == Opening \/ OpenFails \/ Again \/ LinkReady \/ Linking \/ NextLink \/ Ending
Beating == Beat \/ BeatOk \/ BeatFails
Stopping == StopEnds \/ StopEnding
LeftIsClosed == room = "left" /\ PlatformCloses
OpenedWithLinks == \E named \in BOOLEAN : Opened(named, TRUE)

Fairness ==
    /\ WF_vars(RunGoesOn) /\ WF_vars(Beating) /\ WF_vars(Stopping) /\ WF_vars(LeftIsClosed)
    /\ SF_vars(PlatformOpens) /\ SF_vars(OpenedWithLinks) /\ SF_vars(LinkReady)

Spec == Init /\ [][Next]_vars
FairSpec == Spec /\ Fairness

(***************************************************************************)
(* Properties                                                              *)
(***************************************************************************)
TypeOK ==
    /\ run \in {"idle", "opening", "waiting", "linking", "receiving", "pausing", "ending",
                "resting", "over"}
    /\ stop \in {"no", "asked", "ending", "done"}
    /\ game \in {"none", "named", "nameless"}
    /\ heart \in {"off", "armed", "flight"}
    /\ misses \in 0 .. BeatLimit - 1 /\ dead \in 0 .. LinkLimit - 1
    /\ gap \in BOOLEAN /\ ready \in BOOLEAN /\ owed \in BOOLEAN
    /\ room \in {"empty", "fresh", "ours", "left"}

\* A session the platform has told the client of is asked to end before another is
\* opened and before stop() returns, also when its answer and the abort cross.
SessionsAreEnded == owed => run \notin {"waiting", "resting"} /\ stop # "done"

\* Once it has received, the client is either receiving or inside a gap, until it
\* is stopped; no gap is open while it receives or after it has stopped.
GapsBracketSilence ==
    /\ run = "receiving" => ~gap
    /\ ready /\ ~Aborted /\ run # "receiving" => gap
    /\ stop = "done" => ~gap

\* A session with a number has its heartbeat as long as it lasts, and not longer.
HeartbeatLastsAsSession == (heart # "off") <=> (InSession /\ game = "named")

\* It comes back: whatever fails, the client receives again if it is not stopped.
ReceivesAgain == []<>(run \in {"idle", "receiving"} \/ Aborted)

\* A session that the platform has closed is not kept (it has a number: without one
\* only the platform's message or the link tells).
DeadSessionsAreLeft == []<>~(InSession /\ game = "named" /\ room = "empty")

\* stop() returns.
ClientStops == []<>(stop \in {"no", "done"})

\* Whatever crosses whatever: sessions are ended, heartbeats last as long as they do,
\* and who listens knows of every silence (client.ts: runSession, run, stop).
SessionsAreKept == TypeOK /\ SessionsAreEnded /\ GapsBracketSilence /\ HeartbeatLastsAsSession

\* The client never hangs: it receives again, leaves what is dead, and stops.
ClientGoesOn == ReceivesAgain /\ DeadSessionsAreLeft /\ ClientStops
=============================================================================
