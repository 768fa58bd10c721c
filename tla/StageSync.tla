------------------------------ MODULE StageSync ------------------------------
(***************************************************************************)
(* The measurement of the presentation delay (stage/src/sync.ts): how long *)
(* sound takes from the page to OBS, seen by the meter of the Stage source *)
(* and reported for the subtitles and the mouth.                           *)
(*                                                                         *)
(* Time goes by ticks.  A sentence is what it sounds like, tick by tick;   *)
(* what the page plays reaches the meter Delay ticks later.  Every end of  *)
(* a sentence is reported (StagePlayback).  The estimate is that of a      *)
(* window of one sentence, without a sync offset of the source.            *)
(***************************************************************************)
EXTENDS Integers, Sequences, SequencesExt

CONSTANTS Sound,       \* what sentences may sound like: sequences of BOOLEAN
          Delay,       \* the true delay, in ticks
          InitialMs,   \* DelayEstimatorOptions.initialMs, in ticks
          Guard,       \* QUIET_GUARD_MS
          MaxSample    \* MAX_SAMPLE_MS

\* What the code relies on: sound takes some time to reach the meter, but is out of OBS
\* when the quiet before a sentence has been long enough:
\*     1 <= Delay /\ Delay <= InitialMs + Guard /\ Delay <= MaxSample

VARIABLES
    playing,   \* the sentence on the page, or <<>>
    played,    \* ticks of it that have been played
    pipe,      \* what is on its way to the meter
    pending,   \* #pending: ticks since the onset of the sentence measured; Nothing
    quiet,     \* ticks since #lastAudibleAt, as far as they matter
    above,     \* #above
    delay,     \* the estimator's delayMs
    estimated, \* it has a sample
    link,      \* #connect(): "no", "opening", "meters" (#meters)
    retry,     \* #retry
    stopped,   \* #stopped
    shown      \* the presentation the stage was given: [delay, source]

vars == <<playing, played, pipe, pending, quiet, above, delay, estimated,
          link, retry, stopped, shown>>
pageVars == <<playing, played, pipe>>
linkVars == <<link, retry, stopped>>

Nothing == -MaxSample - 1
Least(a, b) == IF a < b THEN a ELSE b
Longest == InitialMs + Delay + Guard

Onset(s) == SelectInSeq(s, LAMBDA b : b) - 1          \* -1: it is silent
AudibleEnd(s) == SelectLastInSeq(s, LAMBDA b : b)

\* presentation, which #publish() gives the stage.
Presentation(d, sampled, metered) ==
    [delay |-> d,
     source |-> IF ~sampled THEN "initial" ELSE IF metered THEN "meters" ELSE "held"]

(***************************************************************************)
(* #onEvent                                                                *)
(***************************************************************************)
\* Mutant of Started: the quiet before the onset is not looked at.
StartedUnguarded(s, known) ==
    /\ playing = <<>>
    /\ playing' = s /\ played' = 0
    /\ pending' = IF ~stopped /\ known /\ Onset(s) >= 0 /\ link = "meters" THEN -Onset(s) ELSE Nothing
    /\ UNCHANGED <<pipe, quiet, above, delay, estimated, linkVars, shown>>

\* A sentence begins.  It is measured if its first sound is known already, the quiet
\* before is long enough and the meter is there.
Started(s, known) ==
    /\ playing = <<>>
    /\ playing' = s /\ played' = 0
    /\ pending' = IF /\ ~stopped /\ known /\ Onset(s) >= 0 /\ link = "meters"
                     /\ quiet + Onset(s) >= delay + Guard
                  THEN -Onset(s) ELSE Nothing
    /\ UNCHANGED <<pipe, quiet, above, delay, estimated, linkVars, shown>>

\* It ends or is cut: when its last sound was played, and whether it had a first one.
Ended ==
    /\ playing # <<>>
    /\ playing' = <<>> /\ played' = 0
    /\ LET onset == Onset(playing)
       IN  /\ quiet' = IF onset >= 0 /\ played > onset
                       THEN Least(quiet, played - Least(AudibleEnd(playing), played))
                       ELSE quiet
           /\ pending' = IF played < Len(playing) /\ played <= onset THEN Nothing ELSE pending
    /\ UNCHANGED <<pipe, above, delay, estimated, linkVars, shown>>

\* The page is muted.
Muted ==
    /\ playing' = <<>> /\ played' = 0
    /\ pending' = Nothing /\ quiet' = 0
    /\ UNCHANGED <<pipe, above, delay, estimated, linkVars, shown>>

(***************************************************************************)
(* Time, and #onLevels                                                     *)
(***************************************************************************)
\* The reading of this tick: too late for the sentence measured, a rise that is its
\* own, or one from before its onset.
Levels(loud) ==
    LET waiting == IF pending > MaxSample THEN Nothing ELSE pending
        sampled == waiting >= 0 /\ loud /\ ~above
    IN  /\ above' = loud
        /\ pending' = IF sampled \/ waiting = Nothing THEN Nothing ELSE waiting + 1
        /\ IF sampled
           THEN /\ delay' = waiting /\ estimated' = TRUE
                /\ shown' = Presentation(waiting, TRUE, TRUE)
           ELSE UNCHANGED <<delay, estimated, shown>>

Tick ==
    /\ playing # <<>> => played < Len(playing)
    /\ LET all == Append(pipe, playing # <<>> /\ playing[played + 1])
       IN  /\ pipe' = Tail(all)
           /\ UNCHANGED linkVars
           /\ IF link = "meters" THEN Levels(Head(all))
              ELSE UNCHANGED <<pending, above, delay, estimated, shown>>
    /\ played' = IF playing = <<>> THEN 0 ELSE played + 1
    /\ quiet' = Least(quiet + 1, Longest)
    /\ UNCHANGED playing

(***************************************************************************)
(* #connect, #lost, stop()                                                 *)
(***************************************************************************)
Retry ==
    /\ retry
    /\ retry' = FALSE /\ link' = "opening"
    /\ UNCHANGED <<pageVars, pending, quiet, above, delay, estimated, stopped, shown>>

\* A connection that opens after the end is closed again.
Connected ==
    /\ link = "opening"
    /\ IF stopped THEN link' = "no" /\ UNCHANGED <<above, shown>>
       ELSE link' = "meters" /\ above' = TRUE /\ shown' = Presentation(delay, estimated, TRUE)
    /\ UNCHANGED <<pageVars, pending, quiet, delay, estimated, retry, stopped>>

ConnectFails ==
    /\ link = "opening"
    /\ link' = "no" /\ retry' = ~stopped
    /\ UNCHANGED <<pageVars, pending, quiet, above, delay, estimated, stopped, shown>>

Lost ==
    /\ link = "meters"
    /\ link' = "no" /\ pending' = Nothing /\ retry' = TRUE
    /\ shown' = Presentation(delay, estimated, FALSE)
    /\ UNCHANGED <<pageVars, quiet, above, delay, estimated, stopped>>

\* The plugin is unloaded: the stage shows without delay again.
Stop ==
    /\ ~stopped /\ stopped' = TRUE
    /\ retry' = FALSE
    /\ link' = IF link = "meters" THEN "no" ELSE link
    /\ pending' = Nothing
    /\ shown' = [delay |-> 0, source |-> "none"]
    /\ UNCHANGED <<pageVars, quiet, above, delay, estimated>>

(***************************************************************************)
Init ==
    /\ playing = <<>> /\ played = 0
    /\ pipe = [i \in 1..Delay |-> FALSE]
    /\ pending = Nothing /\ quiet = Longest /\ above = TRUE
    /\ delay = InitialMs /\ estimated = FALSE
    /\ link = "opening" /\ retry = FALSE /\ stopped = FALSE
    /\ shown = [delay |-> InitialMs, source |-> "initial"]

Connecting == Retry \/ Connected \/ ConnectFails
Next ==
    \/ \E s \in Sound, known \in BOOLEAN : Started(s, known)
    \/ Ended \/ Muted \/ Tick
    \/ Retry \/ Connected \/ ConnectFails \/ Lost \/ Stop

Spec == Init /\ [][Next]_vars
Fairness == WF_vars(Connecting)
FairSpec == Spec /\ Fairness

(***************************************************************************)
(* Properties                                                              *)
(***************************************************************************)
TypeOK ==
    /\ playing \in Sound \cup {<<>>} /\ played \in 0..Len(playing)
    /\ Len(pipe) = Delay
    /\ pending \in Nothing..(MaxSample + 1) /\ quiet \in 0..Longest
    /\ above \in BOOLEAN /\ estimated \in BOOLEAN /\ delay \in 0..MaxSample
    /\ link \in {"no", "opening", "meters"} /\ retry \in BOOLEAN /\ stopped \in BOOLEAN

\* Every sample is the true delay: the rise is that of the sentence measured, not of
\* one before it, whatever was cut, muted or missed meanwhile.
SamplesAreTrue == estimated => delay = Delay

\* The stage shows what the estimator says, and where it is from; nothing is written to
\* it, and no connection kept, after the end.
ShownIsTrue ==
    IF stopped THEN shown.delay = 0 /\ link # "meters" /\ ~retry
    ELSE /\ shown.delay = delay
         /\ shown.source = "meters" => link = "meters"

\* While it is active it has the meter, or tries again.
TriesOn == stopped \/ link # "no" \/ retry

MeasureIsTrue == TypeOK /\ SamplesAreTrue /\ ShownIsTrue /\ TriesOn
StaysTrue == [][MeasureIsTrue']_vars

\* What is measured and shown is true from the beginning to the end, and the connection
\* ends with it.
SyncIsTrue == MeasureIsTrue /\ StaysTrue /\ []<>(stopped => link = "no")
=============================================================================
