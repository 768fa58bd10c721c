------------------------------- MODULE Director -------------------------------
(***************************************************************************)
(* When the director decides (director/src/director.ts) over the candidates *)
(* that triage keeps for it (audience/src/triage.ts): triggers are merged   *)
(* into one call at a time, a call recalls memories, asks the model, may    *)
(* begin to speak while the output still streams in, and is cancelled,      *)
(* fails, or hands over what the model wants.                               *)
(*                                                                          *)
(* Prompts, texts, drift and telemetry are not modelled; a candidate is     *)
(* one of a number of them.  An await is a step: what a client delivers     *)
(* after its call is settled is ignored by the code, and is no step.        *)
(***************************************************************************)
EXTENDS Naturals

CONSTANTS Pool,         \* triage's maxCandidates
          MaxTaken,     \* the director's maxCandidates
          AlarmAfter,   \* config
          MaxAwaited    \* bound: results of speech and votes awaited at a time

VARIABLES
    life,       \* of the plugin: up, leaving (ctx.signal is aborted), gone
    pool,       \* candidates that wait
    pending,    \* triggers that wait
    ended,      \* endedVote is set
    timer,      \* the idle timer is set
    running,    \* run() is at work
    call,       \* the call inflight, or NoCall
    stream,     \* a stream handed to speech is open: its text has not ended or failed
    failures,   \* 0, or the failures in a row, counted from 1 to AlarmAfter
    filler,     \* fallbackPlayed
    alarmed,    \* the safety core has been asked for a downgrade
    awaited,    \* speech and votes whose result decides what is reported
    owed        \* recalls the memory has not been told the use of

vars == <<life, pool, pending, ended, timer, running, call, stream, failures, filler, alarmed,
          awaited, owed>>
streak == <<failures, filler, alarmed>>

NoCall == [step |-> "none", taken |-> FALSE, told |-> FALSE, cancellable |-> FALSE,
           cancelled |-> FALSE, recall |-> FALSE, opened |-> FALSE]

(***************************************************************************)
(* Triggers                                                                *)
(***************************************************************************)
\* decide(), up to its first await: the best of the candidates are taken, and the vote
\* that has ended is; only a call for neither gives way to what comes.
Decide(waiting, vote) ==
    /\ pool' = IF waiting > MaxTaken THEN waiting - MaxTaken ELSE 0
    /\ ended' = FALSE
    /\ pending' = {}
    /\ running' = TRUE
    /\ call' = [NoCall EXCEPT !.step = "recall", !.taken = waiting > 0, !.told = vote,
                              !.cancellable = (waiting = 0 /\ ~vote)]

\* trigger(), while a call is inflight or about to end: what comes is queued, and idle
\* talk gives way to it; an idle trigger waits for nobody.
Queue(t) ==
    IF life # "up" \/ (t = "idle" /\ call # NoCall) THEN UNCHANGED <<pending, call>>
    ELSE /\ pending' = pending \cup {t}
         /\ call' = IF call.cancellable THEN [call EXCEPT !.cancelled = TRUE] ELSE call

\* run() may begin at once.
Free == life = "up" /\ ~running

\* triage accepts a message: it is merged into a candidate that waits, or added, and
\* then the oldest may have to go.
Arrives(merged) ==
    LET waiting == IF merged \/ pool = Pool THEN pool ELSE pool + 1
    IN  /\ merged => pool > 0
        /\ life # "gone"
        /\ IF Free THEN Decide(waiting, ended)
           ELSE pool' = waiting /\ Queue("candidates") /\ UNCHANGED <<ended, running>>
        /\ UNCHANGED <<life, timer, stream, streak, awaited, owed>>

\* prune(): a candidate has waited too long, which takes more than the moment between
\* two calls or between an abort and what it ends.
Expire ==
    /\ pool > 0
    /\ running => call # NoCall /\ ~call.cancelled
    /\ pool' = pool - 1
    /\ UNCHANGED <<life, pending, ended, timer, running, call, stream, streak, awaited, owed>>

\* onVoteEnded
VoteEnds ==
    /\ life # "gone"
    /\ IF Free THEN Decide(pool, TRUE)
       ELSE ended' = TRUE /\ Queue("vote-ended") /\ UNCHANGED <<pool, running>>
    /\ UNCHANGED <<life, timer, stream, streak, awaited, owed>>

IdleFires ==
    /\ timer
    /\ timer' = FALSE
    /\ IF Free THEN Decide(pool, ended)
       ELSE Queue("idle") /\ UNCHANGED <<pool, ended, running>>
    /\ UNCHANGED <<life, stream, streak, awaited, owed>>

\* run(), after a call: the triggers that wait are one call, and without any the idle
\* timer is set (armIdle).
RunGoesOn ==
    /\ running /\ call = NoCall /\ life = "up" /\ pending # {}
    /\ Decide(pool, ended)
    /\ UNCHANGED <<life, timer, stream, streak, awaited, owed>>

\* Mutant of RunEnds: the timer is only set when the plugin is activated.
RunEndsUnarmed ==
    /\ running /\ call = NoCall /\ (pending = {} \/ life # "up")
    /\ running' = FALSE
    /\ UNCHANGED <<life, pool, pending, ended, timer, call, stream, streak, awaited, owed>>

RunEnds ==
    /\ running /\ call = NoCall /\ (pending = {} \/ life # "up")
    /\ running' = FALSE
    /\ timer' = (life = "up")
    /\ UNCHANGED <<life, pool, pending, ended, call, stream, streak, awaited, owed>>

(***************************************************************************)
(* A call                                                                  *)
(***************************************************************************)
\* The recall answers, or does not by its deadline; an abort that crosses the answer
\* meets the call of the model.
Recalled(given) ==
    /\ call.step = "recall"
    /\ call' = [call EXCEPT !.step = "model", !.recall = given]
    /\ owed' = IF given THEN owed + 1 ELSE owed
    /\ UNCHANGED <<life, pool, pending, ended, timer, running, stream, streak, awaited>>

RecallCancelled ==
    /\ call.step = "recall" /\ call.cancelled
    /\ call' = NoCall
    /\ UNCHANGED <<life, pool, pending, ended, timer, running, stream, streak, awaited, owed>>

\* Mutant of Open: the call remains cancellable.
OpenLightly ==
    /\ call.step = "model" /\ ~call.opened
    /\ call' = [call EXCEPT !.opened = TRUE]
    /\ stream' = TRUE
    /\ UNCHANGED <<life, pool, pending, ended, timer, running, streak, awaited, owed>>

\* open(): the output streams in and is known to speak, to a known target.
Open ==
    /\ call.step = "model" /\ ~call.opened
    /\ call' = [call EXCEPT !.opened = TRUE, !.cancellable = FALSE]
    /\ stream' = TRUE
    /\ UNCHANGED <<life, pool, pending, ended, timer, running, streak, awaited, owed>>

\* feed(): more text than may be spoken, the stream fails.
TooLong ==
    /\ stream
    /\ stream' = FALSE
    /\ UNCHANGED <<life, pool, pending, ended, timer, running, call, streak, awaited, owed>>

\* report(): the memory is told, at the end of the call or with a later result.
ReportNow == owed' = (IF call.recall THEN owed - 1 ELSE owed) /\ UNCHANGED awaited
ReportLater ==
    /\ call.recall => awaited < MaxAwaited
    /\ awaited' = IF call.recall THEN awaited + 1 ELSE awaited
    /\ UNCHANGED owed

\* queue.fail or queue.end, which a stream that has failed ignores.
Close == stream' = IF call.opened THEN FALSE ELSE stream

\* Mutant of Failed: only a failure by itself is counted.
FailedOnce == failures' = (IF failures = 0 THEN 1 ELSE failures) /\ UNCHANGED alarmed

\* failed(): every AlarmAfter failures in a row ask for a downgrade.
Failed ==
    /\ failures' = IF failures = AlarmAfter THEN 1 ELSE failures + 1
    /\ alarmed' = (alarmed \/ failures' = AlarmAfter)

Succeeded == failures' = 0 /\ filler' = FALSE /\ UNCHANGED alarmed

\* The model has answered, whether an abort has come since or not: with what is
\* not allowed (an intent that is no intent, a target nobody knows, something else
\* than has begun to be spoken), ...
Invalid ==
    /\ call.step = "model"
    /\ call' = NoCall
    /\ Close /\ ReportNow
    /\ Failed /\ UNCHANGED filler
    /\ UNCHANGED <<life, pool, pending, ended, timer, running>>

\* ... with what is to be spoken, or voted on: the stream ends if there is one, or
\* speech or the vote is asked for, and the recall is reported with the result...
Spoken ==
    /\ call.step = "model" /\ (call.opened => stream)
    /\ call' = NoCall
    /\ Close
    /\ ReportLater
    /\ Succeeded
    /\ UNCHANGED <<life, pool, pending, ended, timer, running>>

\* ... or with silence, or a vote when there is nobody to hold it.
Silent ==
    /\ call.step = "model" /\ ~call.opened
    /\ call' = NoCall
    /\ ReportNow
    /\ Succeeded
    /\ UNCHANGED <<life, pool, pending, ended, timer, running, stream>>

\* It has failed, not answered by the deadline, or the call is cancelled: what has been
\* begun fails, and the viewers who wait and have heard nothing yet may hear a
\* fallback line, one in a row of failures.
NoAnswer ==
    /\ call.step = "model"
    /\ call' = NoCall
    /\ Close /\ ReportNow
    /\ IF call.cancelled THEN UNCHANGED streak
       ELSE Failed /\ filler' = (filler \/ (call.taken /\ ~call.opened))
    /\ UNCHANGED <<life, pool, pending, ended, timer, running>>

\* Speech or the vote has a result, also when the plugin is gone.
Result ==
    /\ awaited > 0
    /\ awaited' = awaited - 1 /\ owed' = owed - 1
    /\ UNCHANGED <<life, pool, pending, ended, timer, running, call, stream, streak>>

(***************************************************************************)
(* The plugin is unloaded: its signal first, its disposers later           *)
(***************************************************************************)
Leave ==
    /\ life = "up"
    /\ life' = "leaving"
    /\ UNCHANGED <<pool, pending, ended, timer, running, call, stream, streak, awaited, owed>>

Dispose ==
    /\ life = "leaving"
    /\ life' = "gone"
    /\ timer' = FALSE
    /\ call' = IF call # NoCall THEN [call EXCEPT !.cancelled = TRUE] ELSE call
    /\ UNCHANGED <<pool, pending, ended, running, stream, streak, awaited, owed>>

(***************************************************************************)
\* The idle timer is configured (idleMs > 0), as are fallback lines.
Init ==
    /\ life = "up"
    /\ pool = 0 /\ pending = {} /\ ended = FALSE
    /\ timer = TRUE /\ running = FALSE
    /\ call = NoCall /\ stream = FALSE
    /\ failures = 0 /\ filler = FALSE /\ alarmed = FALSE
    /\ awaited = 0 /\ owed = 0

Arriving == \E merged \in BOOLEAN : Arrives(merged)
Recalling == RecallCancelled \/ \E given \in BOOLEAN : Recalled(given)
Answering == Invalid \/ Spoken \/ Silent \/ NoAnswer

Next ==
    \/ Arriving \/ Expire \/ VoteEnds \/ IdleFires \/ RunGoesOn \/ RunEnds
    \/ Recalling \/ Open \/ TooLong \/ Answering \/ Result
    \/ Leave \/ Dispose

Spec == Init /\ [][Next]_vars

\* The timer fires, and run() goes on: a recall and a call have their deadlines.
Running == RunGoesOn \/ RunEnds \/ Recalling \/ Answering
Fairness == WF_vars(IdleFires) /\ WF_vars(Running)

FairSpec == Spec /\ Fairness

(***************************************************************************)
(* Properties                                                              *)
(***************************************************************************)
TypeOK ==
    /\ life \in {"up", "leaving", "gone"}
    /\ pool \in 0 .. Pool
    /\ pending \subseteq {"candidates", "vote-ended", "idle"}
    /\ ended \in BOOLEAN /\ timer \in BOOLEAN /\ running \in BOOLEAN /\ stream \in BOOLEAN
    /\ call \in [step : {"none", "recall", "model"}, taken : BOOLEAN, told : BOOLEAN,
                 cancellable : BOOLEAN, cancelled : BOOLEAN, recall : BOOLEAN,
                 opened : BOOLEAN]
    /\ failures \in 0 .. AlarmAfter /\ filler \in BOOLEAN /\ alarmed \in BOOLEAN
    /\ awaited \in 0 .. MaxAwaited /\ owed \in 0 .. MaxAwaited + 1

\* Speech never waits for a stream that nobody will end: one is open only as long as
\* the call that opened it, however that call ends.
StreamsAreClosed == stream => call.opened

\* The memory is told of every recall exactly once: one that it has not been told of
\* belongs to the call inflight or to a result that is still awaited.
RecallsAreReported == owed = awaited + (IF call.recall THEN 1 ELSE 0)

\* What comes cancels nothing but idle talk nobody has heard yet: no candidate and no
\* result of a vote is lost to a newer one, no sentence broken off for it.
OnlyIdleTalkGivesWay ==
    [][call'.cancelled /\ ~call.cancelled /\ life' = "up"
        => ~call.taken /\ ~call.told /\ ~call.opened]_vars

\* A trigger is never forgotten: while the plugin is up, a vote that has ended is
\* queued to be told, what is queued has a run, and without a run there is a timer.
NothingIsForgotten ==
    life = "up" =>
        /\ ended => "vote-ended" \in pending
        /\ pending # {} => running
        /\ running \/ timer

\* No call outlives the plugin: what is inflight when it is disposed of is cancelled.
NoCallOutlives == life = "gone" /\ call # NoCall => call.cancelled

\* Once a call has failed, one succeeds or the safety core is asked for a downgrade, if
\* nobody is there to trigger another call either.
ModelDownIsNoticed == []<>(failures = 0 \/ alarmed \/ life # "up")

\* However a call ends, what it has opened, counted and queued is put right: streams
\* closed, recalls reported, triggers run, calls cancelled at the end (director.ts).
CallsAreTidy ==
    TypeOK /\ StreamsAreClosed /\ RecallsAreReported /\ NothingIsForgotten /\ NoCallOutlives
===============================================================================
