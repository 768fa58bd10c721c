------------------------------- MODULE CloudTts -------------------------------
(***************************************************************************)
(* One engine of the cloud TTS (tts-cloud/src/minimax.ts, engine.ts):      *)
(* sentences one after the other over one connection to the vendor, the    *)
(* vendor's limit per minute, cancellation, and the end of the engine.     *)
(*                                                                         *)
(* Time is what is left of it: the places used in the window, the block    *)
(* after a refusal and the life of a sentence count down with Tick.  A     *)
(* deadline may pass at any moment.  A connection is one session; its two  *)
(* directions are queues, lost with it.                                    *)
(***************************************************************************)
EXTENDS Naturals, Sequences, SequencesExt

CONSTANTS Sentence,
          Rpm,       \* MinimaxOptions.rpm
          Window,    \* RATE_WINDOW_MS, in ticks
          Life,      \* expiresAt of a new sentence, in ticks
          MaxSends   \* bound on the texts of one sentence the vendor has still to confirm

VARIABLES
    stage,     \* [Sentence -> where start() or its stream is]
    answer,    \* [Sentence -> what its user has got: none, or how it ended]
    heard,     \* [Sentence -> its user has got its audio]
    unwanted,  \* sentences whose user has aborted them or stopped reading
    life,      \* [Sentence -> ticks left before the utterance expires]
    fifo,      \* Serial: who has the engine, and who waits for it
    flushes,   \* of the sentence on the line: texts sent and not confirmed
    retrying,  \* of the sentence on the line: it is to be sent again
    line,      \* #connection: none, opening, open
    up, down,  \* what is on the way to the vendor and back: [kind, of]
    recent,    \* #sent: ticks until the last Rpm texts leave the window
    blocked,   \* #blockedUntil: ticks until the vendor lets anything through
    closed     \* #closed

vars == <<stage, answer, heard, unwanted, life, fifo, flushes, retrying,
          line, up, down, recent, blocked, closed>>

lineVars == <<line, up, down>>
userVars == <<answer, heard, unwanted>>
timeVars == <<life, recent, blocked>>

Message(kind, s) == [kind |-> kind, of |-> s]
Holds(s) == fifo # <<>> /\ Head(fifo) = s

\* The sentences a handler is set for: one that runs, or one whose cancellation the
\* vendor has still to confirm.
OnLine(s) == stage[s] \in {"running", "canceling", "draining"}

\* #nextSend: ticks to wait before the next text.
Wait == LET local == IF Len(recent) < Rpm THEN 0 ELSE Head(recent)
        IN  IF blocked > local THEN blocked ELSE local

\* A text and its flush: both count as one request of this window.
Noted == LET all == Append(recent, Window)
         IN  IF Len(all) > Rpm THEN Tail(all) ELSE all

(***************************************************************************)
(* Steps of a sentence                                                     *)
(***************************************************************************)
\* The sentence gives the engine to the next one; how it ended for its user, if that
\* was still open.
Over(s, how) ==
    /\ stage' = [stage EXCEPT ![s] = "over"]
    /\ answer' = [answer EXCEPT ![s] = IF @ = "none" THEN how ELSE @]
    /\ fifo' = Tail(fifo)
    /\ flushes' = 0 /\ retrying' = FALSE

CloseLine == line' = "none" /\ up' = <<>> /\ down' = <<>>

\* finish(): the line is kept for the next sentence, or not.
Finish(s, how, keep) ==
    /\ Over(s, how)
    /\ IF keep /\ ~closed THEN down' = Tail(down) /\ UNCHANGED <<line, up>> ELSE CloseLine

Goes(s, to) == stage' = [stage EXCEPT ![s] = to]

\* sendText(), at the start and, whatever the window holds, after the vendor was busy.
SendText(s) ==
    /\ up' = Append(up, Message("text", s))
    /\ flushes' = flushes + 1
    /\ recent' = Noted

\* start(): it waits for its turn.
Ask(s) ==
    /\ stage[s] = "new"
    /\ Goes(s, "queued")
    /\ fifo' = Append(fifo, s)
    /\ UNCHANGED <<userVars, timeVars, lineVars, flushes, retrying, closed>>

\* Its turn has come, or its wait is over: it waits for a place in the window, unless
\* it will have expired by then, and takes the line there is or opens one.
Proceed(s) ==
    /\ Holds(s)
    /\ \/ stage[s] = "queued"
       \/ stage[s] = "waiting" /\ (Wait = 0 \/ s \in unwanted \/ closed)
    /\ \/ /\ s \in unwanted \/ closed
          /\ Over(s, "empty")
          /\ UNCHANGED <<recent, lineVars>>
       \/ /\ s \notin unwanted /\ ~closed /\ Wait > 0
          /\ IF Wait >= life[s] THEN Over(s, "expired")
             ELSE Goes(s, "waiting") /\ UNCHANGED <<answer, fifo, flushes, retrying>>
          /\ UNCHANGED <<recent, lineVars>>
       \/ /\ s \notin unwanted /\ ~closed /\ Wait = 0
          /\ IF line = "open"
             THEN Goes(s, "running") /\ SendText(s) /\ UNCHANGED <<line, down>>
             ELSE Goes(s, "connecting") /\ line' = "opening" /\ UNCHANGED <<up, down, flushes, recent>>
          /\ UNCHANGED <<answer, fifo, retrying>>
    /\ UNCHANGED <<heard, unwanted, life, blocked, closed>>

\* The session has started.  A sentence aborted meanwhile only gives its turn away; if
\* the engine was closed meanwhile, the line is closed as soon as it is there.
Connected(s) ==
    /\ Holds(s) /\ line = "opening"
    /\ IF closed
       THEN /\ Over(s, "broken") /\ CloseLine
            /\ recent' = IF stage[s] = "connecting" THEN Noted ELSE recent
       ELSE /\ line' = "open"
            /\ IF stage[s] = "connecting"
               THEN Goes(s, "running") /\ SendText(s) /\ UNCHANGED <<answer, fifo, retrying, down>>
               ELSE Over(s, "empty") /\ UNCHANGED <<up, down, recent>>
    /\ UNCHANGED <<heard, unwanted, life, blocked, closed>>

\* The vendor's limit is reached: nothing is sent for a whole window.  What has not
\* been heard waits for its end, unless it will have expired by then.
TryAgain(s) ==
    /\ blocked' = Window
    /\ IF closed \/ life[s] <= Window THEN Over(s, IF closed THEN "empty" ELSE "expired")
       ELSE Goes(s, "waiting") /\ flushes' = 0 /\ retrying' = FALSE /\ UNCHANGED <<answer, fifo>>

\* It does not start, in time or at all, or is refused for the limit.
ConnectFails(s) ==
    /\ Holds(s) /\ line = "opening"
    /\ CloseLine
    /\ \/ Over(s, "broken") /\ UNCHANGED blocked
       \/ stage[s] = "connecting" /\ TryAgain(s)
       \/ stage[s] = "left" /\ Over(s, "empty") /\ blocked' = Window
    /\ UNCHANGED <<heard, unwanted, life, recent, closed>>

\* The user aborts it, or stops reading: what is under way is cancelled.
Abort(s) ==
    /\ stage[s] \notin {"new", "over"} /\ s \notin unwanted
    /\ unwanted' = unwanted \cup {s}
    /\ CASE stage[s] = "connecting" ->
                /\ Goes(s, "left") /\ answer' = [answer EXCEPT ![s] = "empty"]
                /\ UNCHANGED up
         [] stage[s] = "running" ->
                /\ Goes(s, "canceling") /\ up' = Append(up, Message("cancel", s))
                /\ answer' = [answer EXCEPT ![s] = IF heard[s] THEN "cut" ELSE "empty"]
         [] OTHER -> UNCHANGED <<stage, answer, up>>
    /\ UNCHANGED <<heard, timeVars, fifo, flushes, retrying, line, down, closed>>

\* The 300 ms after a busy answer are over.
Resend(s) ==
    /\ stage[s] = "running" /\ retrying
    /\ retrying' = FALSE
    /\ SendText(s)
    /\ UNCHANGED <<stage, userVars, life, fifo, line, down, blocked, closed>>

\* No first audio, no more audio, or no confirmation in time.
Deadline(s) ==
    /\ OnLine(s)
    /\ Over(s, "broken") /\ CloseLine
    /\ UNCHANGED <<heard, unwanted, timeVars, closed>>

(***************************************************************************)
(* What the vendor sends (connection.handler of #run, #dispatch)           *)
(***************************************************************************)
Takes(kinds) == line = "open" /\ down # <<>> /\ Head(down).kind \in kinds
Skip == down' = Tail(down) /\ UNCHANGED <<stage, answer, fifo, flushes, retrying, line, up>>

\* While it runs: audio, word of a queue that is full, a refusal, a confirmation.
HearsAudio(s) ==
    /\ stage[s] = "running" /\ Takes({"audio"})
    /\ heard' = [heard EXCEPT ![s] = TRUE]
    /\ Skip
    /\ UNCHANGED <<unwanted, timeVars, closed>>

HearsBusy(s) ==
    /\ stage[s] = "running" /\ Takes({"busy"})
    /\ retrying' = TRUE
    /\ down' = Tail(down)
    /\ UNCHANGED <<stage, userVars, timeVars, fifo, flushes, line, up, closed>>

\* Refused for the limit: if nothing has been heard, it is tried again, on a new line.
HearsLimit(s) ==
    /\ stage[s] = "running" /\ Takes({"limited"})
    /\ IF heard[s] THEN Over(s, "broken") /\ blocked' = Window ELSE TryAgain(s)
    /\ CloseLine
    /\ UNCHANGED <<heard, unwanted, life, recent, closed>>

HearsFailure(s) ==
    /\ stage[s] = "running" /\ Takes({"failed"})
    /\ Finish(s, "broken", FALSE)
    /\ UNCHANGED <<heard, unwanted, timeVars, closed>>

HearsFlush(s) ==
    /\ stage[s] = "running" /\ Takes({"flushed"})
    /\ IF flushes <= 1 /\ ~retrying THEN Finish(s, "whole", TRUE)
       ELSE /\ flushes' = flushes - 1 /\ down' = Tail(down)
            /\ UNCHANGED <<stage, answer, fifo, retrying, line, up>>
    /\ UNCHANGED <<heard, unwanted, timeVars, closed>>

\* Mutant of Cancelled: the confirmed cancellation frees the line at once.
CancelledAtOnce(s) ==
    /\ stage[s] \in {"canceling", "draining"} /\ Takes({"audio", "flushed", "canceled"})
    /\ IF Head(down).kind = "canceled" THEN Finish(s, "cut", TRUE) ELSE Skip
    /\ UNCHANGED <<heard, unwanted, timeVars, closed>>

\* Once cancelled: audio is dropped; the line is free when the cancellation and every
\* text that was sent have been confirmed.
Cancelled(s) ==
    /\ stage[s] \in {"canceling", "draining"} /\ Takes({"audio", "flushed", "canceled"})
    /\ LET left == IF Head(down).kind = "flushed" THEN flushes - 1 ELSE flushes
           sure == stage[s] = "draining" \/ Head(down).kind = "canceled"
       IN  IF Head(down).kind # "audio" /\ sure /\ left = 0 THEN Finish(s, "cut", TRUE)
           ELSE /\ stage' = [stage EXCEPT ![s] = IF sure THEN "draining" ELSE @]
                /\ flushes' = left /\ down' = Tail(down)
                /\ UNCHANGED <<answer, fifo, retrying, line, up>>
    /\ UNCHANGED <<heard, unwanted, timeVars, closed>>

\* Any error while it is being cancelled costs the line.
CancelFails(s) ==
    /\ stage[s] \in {"canceling", "draining"} /\ Takes({"busy", "limited", "failed"})
    /\ Finish(s, "cut", FALSE)
    /\ UNCHANGED <<heard, unwanted, timeVars, closed>>

\* Nobody is on the line: what comes is a remainder, an error closes it.
Stale ==
    /\ \A s \in Sentence : ~OnLine(s)
    /\ Takes({"audio", "flushed", "canceled", "busy", "limited", "failed"})
    /\ IF Head(down).kind \in {"busy", "limited", "failed"} THEN CloseLine
       ELSE down' = Tail(down) /\ UNCHANGED <<line, up>>
    /\ UNCHANGED <<stage, userVars, timeVars, fifo, flushes, retrying, closed>>

(***************************************************************************)
(* The line and the engine end                                             *)
(***************************************************************************)
\* The connection breaks, the vendor closes it or it has been idle for too long.
EndLine ==
    /\ CloseLine
    /\ IF \E s \in Sentence : OnLine(s)
       THEN Over(Head(fifo), "broken")
       ELSE UNCHANGED <<stage, answer, fifo, flushes, retrying>>

LineDrops ==
    /\ line = "open"
    /\ EndLine
    /\ UNCHANGED <<heard, unwanted, timeVars, closed>>

\* close(): a line that is being opened is closed when it is there.
Close ==
    /\ ~closed
    /\ closed' = TRUE
    /\ IF line = "open" THEN EndLine
       ELSE UNCHANGED <<stage, answer, fifo, flushes, retrying, lineVars>>
    /\ UNCHANGED <<heard, unwanted, timeVars>>

(***************************************************************************)
(* The vendor: it confirms every text in turn, spoken or not, the ones it  *)
(* drops for a cancellation after that.                                    *)
(***************************************************************************)
VendorAnswers ==
    LET s == Head(up).of
    IN  /\ line = "open" /\ up # <<>> /\ Head(up).kind = "text"
        /\ up' = Tail(up)
        /\ \/ down' = down \o <<Message("audio", s), Message("flushed", s)>>
           \/ flushes < MaxSends /\ down' = down \o <<Message("busy", s), Message("flushed", s)>>
           \/ down' = Append(down, Message("limited", s))
           \/ down' = Append(down, Message("failed", s))
        /\ UNCHANGED <<stage, userVars, timeVars, fifo, flushes, retrying, line, closed>>

VendorCancels ==
    LET s == Head(up).of
        Confirms(m) == m.kind = "flushed"
    IN  /\ line = "open" /\ up # <<>> /\ Head(up).kind = "cancel"
        /\ up' = Tail(up)
        /\ \E sent \in 0..Len(down) :
              down' = SubSeq(down, 1, sent) \o <<Message("canceled", s)>>
                      \o SelectSeq(SubSeq(down, sent + 1, Len(down)), Confirms)
        /\ UNCHANGED <<stage, userVars, timeVars, fifo, flushes, retrying, line, closed>>

Older(n) == IF n = 0 THEN 0 ELSE n - 1
Lives == {s \in Sentence : stage[s] \notin {"new", "over"} /\ life[s] > 0}

Tick ==
    /\ Lives # {} \/ recent # <<>> \/ blocked > 0
    /\ life' = [s \in Sentence |-> IF s \in Lives THEN life[s] - 1 ELSE life[s]]
    /\ recent' = SelectSeq([i \in DOMAIN recent |-> recent[i] - 1], LAMBDA n : n > 0)
    /\ blocked' = Older(blocked)
    /\ UNCHANGED <<stage, userVars, fifo, flushes, retrying, lineVars, closed>>

(***************************************************************************)
Init ==
    /\ stage = [s \in Sentence |-> "new"]
    /\ answer = [s \in Sentence |-> "none"]
    /\ heard = [s \in Sentence |-> FALSE]
    /\ unwanted = {}
    /\ life = [s \in Sentence |-> Life]
    /\ fifo = <<>> /\ flushes = 0 /\ retrying = FALSE
    /\ line = "none" /\ up = <<>> /\ down = <<>>
    /\ recent = <<>> /\ blocked = 0
    /\ closed = FALSE

Proceeding == \E s \in Sentence : Proceed(s)
Opening == \E s \in Sentence : Connected(s) \/ ConnectFails(s)
TimesOut == \E s \in Sentence : Deadline(s)
Hearing ==
    \/ Stale
    \/ \E s \in Sentence :
        \/ HearsAudio(s) \/ HearsBusy(s) \/ HearsLimit(s) \/ HearsFailure(s)
        \/ HearsFlush(s) \/ Cancelled(s) \/ CancelFails(s)

Next ==
    \/ \E s \in Sentence : Ask(s) \/ Abort(s) \/ Resend(s)
    \/ Proceeding \/ Opening \/ TimesOut \/ Hearing
    \/ LineDrops \/ Close
    \/ VendorAnswers \/ VendorCancels \/ Tick

Spec == Init /\ [][Next]_vars

\* Time passes, opening a line ends, and every deadline passes in the end.
Fairness == WF_vars(Tick) /\ WF_vars(Proceeding) /\ WF_vars(Opening) /\ WF_vars(TimesOut)
FairSpec == Spec /\ Fairness

(***************************************************************************)
(* Properties                                                              *)
(***************************************************************************)
TypeOK ==
    /\ stage \in [Sentence -> {"new", "queued", "waiting", "connecting", "left",
                               "running", "canceling", "draining", "over"}]
    /\ answer \in [Sentence -> {"none", "empty", "expired", "broken", "cut", "whole"}]
    /\ heard \in [Sentence -> BOOLEAN]
    /\ unwanted \subseteq Sentence
    /\ life \in [Sentence -> 0..Life]
    /\ fifo \in Seq(Sentence)
    /\ flushes \in Nat /\ retrying \in BOOLEAN
    /\ line \in {"none", "opening", "open"}
    /\ \A m \in Range(up) : m.kind \in {"text", "cancel"} /\ m.of \in Sentence
    /\ \A m \in Range(down) :
          /\ m.kind \in {"audio", "busy", "limited", "failed", "flushed", "canceled"}
          /\ m.of \in Sentence
    /\ recent \in Seq(1..Window) /\ Len(recent) <= Rpm
    /\ blocked \in 0..Window /\ closed \in BOOLEAN

\* While a sentence runs, all that is on the way is its own: no late confirmation of
\* a cancelled one can end it, no late audio gets into it.
LineIsOwn ==
    \A s \in Sentence : stage[s] = "running" => \A m \in Range(up) \cup Range(down) : m.of = s

\* One sentence at a time has the line, the first of those that wait.
OneAtATime ==
    \A s \in Sentence : stage[s] \notin {"new", "queued", "over"} => Holds(s)

\* A sentence that ended well was heard, whether or not it had to be sent again.
WholeIsHeard == \A s \in Sentence : answer[s] = "whole" => heard[s]

\* No line is opened for a sentence while the window is full or the vendor has closed
\* it; none runs while it is closed; what waits for it has not been heard.
LimitIsKept ==
    \A s \in Sentence :
        /\ stage[s] = "connecting" => Wait = 0
        /\ stage[s] = "running" => blocked = 0
        /\ stage[s] = "waiting" => ~heard[s]

\* The text a sentence starts with leaves only when there is a place in the window.
\* Nothing is said of the text sent again to a busy vendor (Resend): it is counted like
\* any other, but the code does not ask for a place first.
StartsWithinLimit ==
    \A s \in Sentence : stage[s] # "running" /\ stage'[s] = "running" => Wait = 0

\* A closed engine has no line; a sentence that is over has ended for its user as well.
EndsAreTold ==
    /\ closed => line # "open"
    /\ \A s \in Sentence : stage[s] = "over" => answer[s] # "none"

SpeechIsOwn ==
    TypeOK /\ LineIsOwn /\ OneAtATime /\ WholeIsHeard /\ LimitIsKept /\ EndsAreTold

\* Every sentence ends and gives the engine back: one that waits for the limit, is tried
\* again, is cancelled or meets the end of the engine, too.  A closed engine lets go of
\* its line.
Settled ==
    /\ \A s \in Sentence : stage[s] \in {"new", "over"}
    /\ closed => line = "none"
SpeechStaysOwn == [][SpeechIsOwn' /\ StartsWithinLimit]_vars

\* What is on the line is the sentence's own, it was let onto it by the limit, and every
\* sentence is served.
SentencesAreServed == SpeechIsOwn /\ SpeechStaysOwn /\ []<>Settled
=============================================================================
