--------------------------- MODULE SpeechArbiter ---------------------------
(***************************************************************************)
(* The speech arbiter (speech/src/arbiter.ts) and the review of M1         *)
(* (speech/src/review.ts): utterances queue by priority, one speaks, and   *)
(* each of its sentences awaits the check, the review, the authorization,  *)
(* the synthesis and the stage in turn.  A stop, a soft stop, a            *)
(* preemption, an expiry, a change of mode or the unloading of the plugin  *)
(* may overtake any of these waits.                                        *)
(*                                                                         *)
(* The engines, the moderation plugin, the safety core and the stage are   *)
(* what they may answer.  Time is absent: an utterance may expire, and a   *)
(* timer that is set may fire, at any moment.  Of an outcome only counts   *)
(* that it was told; what was heard is text.                               *)
(***************************************************************************)
EXTENDS Integers, Sequences, FiniteSets, SequencesExt

CONSTANTS Request,      \* the utterances asked for, by their deduplication keys
          Source,         \* [Request -> DOMAIN Priority]
          Sentences,      \* [Request -> Nat]: into how many sentences each is split
          Perishable,     \* those whose expiresAt may be reached
          MaxQueue,       \* config.maxQueue
          ApproveFirst,   \* the review waits for the operator instead of a delay
          MaxChanges,     \* bound: how often the operator sets M1 or M2
          Nobody          \* no utterance is active

\* PRIORITY and PREEMPTING
Priority == [safety |-> 6, vote |-> 5, scheduled |-> 4, game |-> 3, danmaku |-> 2, chatter |-> 1]
Preempting == {"safety", "vote", "scheduled", "game"}
Rank(r) == Priority[Source[r]]

\* An utterance that has the turn: its sentence, the wait speak() is in, what it heard
\* of the sentence, and what has been asked of it meanwhile.
Utterances ==
    [r : Request, i : Nat, at : {"text", "check", "authorize", "synth", "play", "writeback"},
     verdict : {"none", "passed", "blocked", "released", "vetoed", "withdrawn"},
     stopped : BOOLEAN, preempted : BOOLEAN, token : BOOLEAN, emergency : BOOLEAN]

ASSUME RequestAssumption ==
    /\ IsFiniteSet(Request)
    /\ Source \in [Request -> DOMAIN Priority]
    /\ Sentences \in [Request -> Nat]
    /\ Perishable \subseteq Request
    /\ Nobody \notin Utterances
ASSUME BoundAssumption == MaxQueue \in Nat \ {0} /\ MaxChanges \in Nat /\ ApproveFirst \in BOOLEAN

VARIABLES
    mode,       \* the supervision mode
    changes,    \* how often the operator has set M1 or M2
    life,       \* of the plugin: up, leaving (aborted), quiesced, gone
    expired,    \* utterances past their expiresAt
    asked,      \* requests made
    answers,    \* how often each requester was told an outcome
    queue,      \* waiting utterances, in the order of their turn
    active,     \* the utterance that has the turn, and where speak() is
    running,    \* of the loop: no, yes, ending (its promise is yet to be cleared)
    permit,     \* for the stage's audio: none, held, stale (held but not valid)
    silenced,   \* the unanswered that a stop or a preemption found unsaid
    checks,     \* sentences before the moderation plugin
    holds,      \* sentences before the operator (review's pending)
    cancelled,  \* aborted utterances (AbortController) that still have a check pending
    reviewUp,   \* the review plugin is present
    onStage     \* sentences the stage is playing

otherVars == <<mode, changes, life, expired, asked>>
loopVars == <<answers, queue, active, running, permit, silenced>>
reviewVars == <<checks, holds, cancelled, reviewUp>>
vars == <<otherVars, loopVars, reviewVars, onStage>>

\* An utterance that has just been given the turn (run).
Utterance(r) == [r |-> r, i |-> 0, at |-> "text", verdict |-> "none", stopped |-> FALSE,
                 preempted |-> FALSE, token |-> FALSE, emergency |-> FALSE]

Idle == active = Nobody
At(where) == ~Idle /\ active.at = where
Sentence == <<active.r, active.i>>

\* halted: speak() asks after each wait.
Halted == active.stopped \/ active.preempted

Told(rs) == [r \in Request |-> IF r \in rs THEN answers[r] + 1 ELSE answers[r]]
Unsaid == {r \in asked : answers[r] = 0}

\* The queue with r at its place: by priority, then by arrival.
Enqueue(r) ==
    LET before == {j \in DOMAIN queue : Rank(queue[j]) >= Rank(r)}
    IN  InsertAt(queue, Cardinality(before) + 1, r)

\* The loop of run() goes on with q: what is expired is dropped, the next one
\* speaks, and if there is none the permit is given back.
RunOn(q, ended) ==
    LET live == {j \in DOMAIN q : q[j] \notin expired}
        next == IF live = {} THEN Len(q) + 1 ELSE CHOOSE j \in live : \A l \in live : j <= l
        over == ended \cup {q[j] : j \in 1 .. (next - 1)}
    IN  /\ answers' = Told(over)
        /\ silenced' = silenced \ over
        /\ queue' = SubSeq(q, next + 1, Len(q))
        /\ IF live = {}
           THEN active' = Nobody /\ running' = "ending" /\ permit' = "none"
           ELSE active' = Utterance(q[next]) /\ running' = "yes" /\ UNCHANGED permit

\* Mutant of Finish: the next in the queue has its turn before the outcome is told.
FinishUnheard == RunOn(queue, {})

\* speak() returns: the outcome is recorded and told, and the loop goes on.
Finish == RunOn(queue, {active.r})

\* speak() goes on to another wait.
Go(where) ==
    /\ active' = [active EXCEPT !.at = where]
    /\ UNCHANGED <<answers, queue, running, permit, silenced>>

(***************************************************************************)
(* Requests                                                                *)
(***************************************************************************)
Ask(r) == r \notin asked /\ asked' = asked \cup {r}

\* A plugin that is being unloaded, or a request that is too late already.
Refuse(r) ==
    /\ Ask(r)
    /\ life # "up" \/ r \in expired
    /\ answers' = Told({r})
    /\ UNCHANGED <<mode, changes, life, expired, queue, active, running, permit, silenced,
                   reviewVars, onStage>>

\* Nothing runs: pump() gives it the turn at once.
AskIdle(r) ==
    /\ Ask(r)
    /\ life = "up" /\ r \notin expired /\ running = "no"
    /\ RunOn(<<r>>, {})
    /\ UNCHANGED <<mode, changes, life, expired, reviewVars, onStage>>

\* The queue is full.
Overflows(q) == Len(q) > MaxQueue

Preempts(r) ==
    /\ ~Idle /\ ~active.preempted
    /\ Source[r] \in Preempting
    /\ Rank(r) > Rank(active.r)

\* request() while the loop runs: it queues, a full queue drops its last, and the
\* active utterance is preempted.  (A truncated sentence is one that the stage
\* reports as cut short.)
AskBusy(r) ==
    LET q    == Enqueue(r)
        full == Overflows(q)
    IN  /\ Ask(r)
        /\ life = "up" /\ r \notin expired /\ running # "no"
        /\ queue' = IF full THEN Front(q) ELSE q
        /\ answers' = Told(IF full THEN {Last(q)} ELSE {})
        /\ IF Preempts(r)
           THEN /\ active' = [active EXCEPT !.preempted = TRUE]
                /\ silenced' = silenced \cup {active.r}
           ELSE UNCHANGED <<active, silenced>>
        /\ UNCHANGED <<mode, changes, life, expired, running, permit, reviewVars, onStage>>

\* Mutant of RunCleared: nobody looks at the queue again.
RunForgotten ==
    /\ running = "ending"
    /\ running' = "no"
    /\ UNCHANGED <<otherVars, answers, queue, active, permit, silenced, reviewVars, onStage>>

\* The promise of run() is cleared; what has queued in between is taken up.
RunCleared ==
    /\ running = "ending"
    /\ IF queue = <<>>
       THEN running' = "no" /\ UNCHANGED <<answers, queue, active, permit, silenced>>
       ELSE RunOn(queue, {})
    /\ UNCHANGED <<otherVars, reviewVars, onStage>>

Expires(r) ==
    /\ r \notin expired
    /\ expired' = expired \cup {r}
    /\ UNCHANGED <<mode, changes, life, asked, loopVars, reviewVars, onStage>>

(***************************************************************************)
(* speak(): one action per wait                                            *)
(***************************************************************************)
\* The text stream yields a sentence (sentencesOf stops waiting when interrupted).
SentenceComes ==
    /\ At("text") /\ ~Halted
    /\ active.i < Sentences[active.r]
    /\ IF active.i = 0 /\ active.r \in expired
       THEN Finish /\ UNCHANGED checks
       ELSE /\ active' = [active EXCEPT !.i = @ + 1, !.at = "check", !.verdict = "none"]
            /\ checks' = checks \cup {<<active.r, active.i + 1>>}
            /\ UNCHANGED <<answers, queue, running, permit, silenced>>
    /\ UNCHANGED <<otherVars, holds, cancelled, reviewUp, onStage>>

\* The text is over, breaks off with an error, or is not waited for any longer.
TextEnds ==
    /\ At("text")
    /\ Finish
    /\ UNCHANGED <<otherVars, reviewVars, onStage>>

\* The verdict on some sentences reaches speak() if it waits for it.
Hears(ks, how) ==
    active' = IF At("check") /\ Sentence \in ks /\ active.verdict = "none"
              THEN [active EXCEPT !.verdict = how] ELSE active

\* preCheck, first part: the moderation plugin has answered.  In M1 a sentence
\* that may be said goes before the operator, unless the review is absent or the
\* utterance aborted.  Nobody may be waiting for the answer any more.
CheckReturns(k, blocked) ==
    LET held == ~blocked /\ mode = "M1" /\ reviewUp /\ k[1] \notin cancelled
    IN  /\ k \in checks
        /\ checks' = checks \ {k}
        /\ cancelled' = cancelled \ {k[1]}
        /\ holds' = IF held THEN holds \cup {k} ELSE holds
        /\ Hears(IF held THEN {} ELSE {k},
                 IF blocked \/ mode = "M1" THEN "blocked" ELSE "passed")
        /\ UNCHANGED <<otherVars, answers, queue, running, permit, silenced, reviewUp, onStage>>

\* settle: a hold ends, and whoever waits for it hears how.
Settle(ks, how) ==
    /\ holds' = holds \ ks
    /\ Hears(ks, how)

\* The operator releases or vetoes a sentence, or its timer fires.
HoldEnds(k, how) ==
    /\ k \in holds
    /\ Settle({k}, how)
    /\ UNCHANGED <<otherVars, answers, queue, running, permit, silenced, checks, cancelled,
                   reviewUp, onStage>>

\* Its timer: the delay is over, or the operator took too long.
HoldTimer(k) == HoldEnds(k, IF ApproveFirst THEN "withdrawn" ELSE "released")

\* The review plugin is unloaded: everything held is withdrawn.
ReviewUnloaded ==
    /\ reviewUp
    /\ reviewUp' = FALSE
    /\ Settle(holds, "withdrawn")
    /\ UNCHANGED <<otherVars, answers, queue, running, permit, silenced, checks, cancelled,
                   onStage>>

\* The race between the check and an interruption is over.  A sentence that may
\* be said needs the permit (ensureLease) before it is authorized.
CheckOver ==
    /\ At("check")
    /\ \/ /\ Halted
          /\ Finish
       \/ /\ ~Halted /\ active.verdict \in {"blocked", "vetoed", "withdrawn"}
          /\ Go("text")
       \/ /\ ~Halted /\ active.verdict \in {"passed", "released"}
          /\ permit = "held" \/ mode # "safe-stop"
          /\ permit' = "held"
          /\ active' = [active EXCEPT !.at = "authorize", !.token = TRUE]
          /\ UNCHANGED <<answers, queue, running, silenced>>
       \/ /\ ~Halted /\ active.verdict \in {"passed", "released"}
          /\ permit # "held"
          /\ Finish
    /\ UNCHANGED <<otherVars, reviewVars, onStage>>

\* safety.authorize answers: denied or a fault; authorized before, and the sentence
\* is skipped; or allowed, and then the intent starts executing at once.
Authorized ==
    /\ At("authorize")
    /\ \/ Finish
       \/ Go("text")
       \/ mode # "safe-stop" /\ ~Halted /\ Go("synth")
    /\ UNCHANGED <<otherVars, reviewVars, onStage>>

\* Mutant of Voiced: the voice is there, so it is played.
VoicedUnasked ==
    /\ At("synth")
    /\ Go("play") /\ onStage' = onStage \cup {Sentence}
    /\ UNCHANGED <<otherVars, reviewVars>>

\* tts.synthesize returns with a voice, and the sentence goes to the stage, which
\* refuses a token that is not valid.
Voiced ==
    /\ At("synth")
    /\ IF Halted \/ ~active.token THEN Finish /\ UNCHANGED onStage
       ELSE Go("play") /\ onStage' = onStage \cup {Sentence}
    /\ UNCHANGED <<otherVars, reviewVars>>

\* tts.synthesize fails, or the utterance expires while it waits.
Unvoiced ==
    /\ At("synth")
    /\ Finish
    /\ UNCHANGED <<otherVars, reviewVars, onStage>>

\* The stage reports the sentence's end: played whole, speak() goes on; cut short
\* by a truncation, a lost permit or a failed page, or its result could not be
\* recorded, and speak() returns, perhaps after OBS has answered (heardCursor).
StageReports(complete) ==
    /\ At("play")
    /\ onStage' = onStage \ {Sentence}
    /\ \/ complete /\ Go("text")
       \/ ~complete /\ active.emergency /\ Go("writeback")
       \/ Finish
    /\ UNCHANGED <<otherVars, reviewVars>>

\* The write-back knows whether OBS has muted.
WrittenBack ==
    /\ At("writeback") /\ ~active.emergency
    /\ Finish
    /\ UNCHANGED <<otherVars, reviewVars, onStage>>

\* emergency-completed, or three seconds without it.
EmergencySettles ==
    /\ ~Idle /\ active.emergency
    /\ active' = [active EXCEPT !.emergency = FALSE]
    /\ UNCHANGED <<otherVars, answers, queue, running, permit, silenced, reviewVars, onStage>>

(***************************************************************************)
(* Stops and modes                                                         *)
(***************************************************************************)
\* hardStop and softStop: the queue is emptied, the active utterance ends after
\* this sentence...
StopQueue(a) ==
    /\ queue' = <<>>
    /\ answers' = Told(ToSet(queue))
    /\ silenced' = Unsaid \ ToSet(queue)
    /\ active' = a

Stopped == IF Idle THEN active ELSE [active EXCEPT !.stopped = TRUE]

SoftStop ==
    /\ StopQueue(Stopped)
    /\ UNCHANGED <<otherVars, running, permit, reviewVars, onStage>>

\* ... and hardStop aborts it as well: its hold is withdrawn, its sentence truncated.
HardStop(a) ==
    /\ StopQueue(a)
    /\ cancelled' = cancelled \cup {r \in Request : ~Idle /\ r = active.r /\ \E k \in checks : k[1] = r}

Own == {k \in holds : ~Idle /\ k[1] = active.r}

\* The permit is no longer valid; the token given to a sentence with it is void.
Lost(a) == IF a = Nobody THEN a ELSE [a EXCEPT !.token = FALSE]
StalePermit == IF permit = "held" THEN "stale" ELSE permit

\* The safety core's emergency stop: permits revoked, the stop signal
\* (noteEmergency, hardStop, withdrawAll), then the mode signal.
EmergencyStop ==
    /\ mode # "safe-stop"
    /\ mode' = "safe-stop"
    /\ permit' = StalePermit
    /\ HardStop(IF Idle THEN active
                ELSE Lost([Stopped EXCEPT !.emergency = @ \/ active.at = "play"]))
    /\ holds' = {}
    /\ UNCHANGED <<changes, life, expired, asked, running, checks, reviewUp, onStage>>

\* The operator sets M1 or M2; what is held for M1 is withdrawn when M1 ends.
SetMode(to) ==
    /\ changes < MaxChanges /\ mode # to
    /\ mode' = to
    /\ changes' = changes + 1
    /\ IF to = "M1" THEN UNCHANGED <<holds, active>> ELSE Settle(holds, "withdrawn")
    /\ UNCHANGED <<life, expired, asked, answers, queue, running, permit, silenced, checks,
                   cancelled, reviewUp, onStage>>

\* The permit runs out or is revoked while the arbiter still has it...
PermitLost ==
    /\ permit = "held"
    /\ permit' = "stale"
    /\ active' = Lost(active)
    /\ UNCHANGED <<otherVars, answers, queue, running, silenced, reviewVars, onStage>>

\* ... and the renewal fails.
RenewalFails ==
    /\ permit = "stale"
    /\ permit' = "none"
    /\ UNCHANGED <<otherVars, answers, queue, active, running, silenced, reviewVars, onStage>>

(***************************************************************************)
(* Unloading by the kernel: abort and revoke, quiesce, dispose             *)
(***************************************************************************)
Leave ==
    /\ life = "up"
    /\ life' = "leaving"
    /\ permit' = StalePermit
    /\ active' = Lost(active)
    /\ UNCHANGED <<mode, changes, expired, asked, answers, queue, running, silenced, reviewVars,
                   onStage>>

\* quiesce: stop, and wait for the loop to end.
Quiesce ==
    /\ life = "leaving"
    /\ life' = "quiesced"
    /\ HardStop(Stopped)
    /\ holds' = holds \ Own
    /\ UNCHANGED <<mode, changes, expired, asked, running, permit, checks, reviewUp, onStage>>

\* The loop has ended, or the kernel waits no longer: stop again, give up the
\* permit, answer those who wait for OBS.
Dispose ==
    /\ life = "quiesced"
    /\ life' = "gone"
    /\ HardStop(IF Idle THEN active ELSE Lost([Stopped EXCEPT !.emergency = FALSE]))
    /\ holds' = holds \ Own
    /\ permit' = "none"
    /\ UNCHANGED <<mode, changes, expired, asked, running, checks, reviewUp, onStage>>

(***************************************************************************)
Init ==
    /\ mode \in {"M1", "M2"}
    /\ changes = 0
    /\ life = "up"
    /\ expired = {} /\ asked = {}
    /\ answers = [r \in Request |-> 0]
    /\ queue = <<>>
    /\ active = Nobody
    /\ running = "no"
    /\ permit = "none"
    /\ silenced = {}
    /\ checks = {} /\ holds = {} /\ cancelled = {}
    /\ reviewUp = TRUE
    /\ onStage = {}

Asking == \E r \in Request : Refuse(r) \/ AskIdle(r) \/ AskBusy(r)
Checking == \E k \in checks, blocked \in BOOLEAN : CheckReturns(k, blocked)
HoldTimers == \E k \in holds : HoldTimer(k)
Reporting == \E complete \in BOOLEAN : StageReports(complete)
Operator ==
    \/ SoftStop \/ EmergencyStop
    \/ \E to \in {"M1", "M2"} : SetMode(to)
    \/ \E k \in holds, how \in {"released", "vetoed"} : HoldEnds(k, how)

Next ==
    \/ Asking \/ RunCleared \/ \E r \in Perishable : Expires(r)
    \/ SentenceComes \/ TextEnds \/ Checking \/ CheckOver \/ Authorized \/ Voiced \/ Unvoiced
    \/ Reporting \/ WrittenBack \/ EmergencySettles
    \/ HoldTimers \/ ReviewUnloaded \/ Operator
    \/ PermitLost \/ RenewalFails
    \/ Leave \/ Quiesce \/ Dispose

Spec == Init /\ [][Next]_vars

\* Every wait of speak() ends: moderation, guards and engines have deadlines, the
\* stage reports, and a timer that is set fires.
Fairness ==
    /\ WF_vars(RunCleared)
    /\ WF_vars(SentenceComes \/ TextEnds)
    /\ WF_vars(Checking)
    /\ WF_vars(HoldTimers)
    /\ WF_vars(CheckOver)
    /\ WF_vars(Authorized)
    /\ WF_vars(Voiced \/ Unvoiced)
    /\ WF_vars(Reporting)
    /\ WF_vars(EmergencySettles)
    /\ WF_vars(WrittenBack)

FairSpec == Spec /\ Fairness

(***************************************************************************)
(* Properties                                                              *)
(***************************************************************************)
TypeOK ==
    /\ mode \in {"M1", "M2", "safe-stop"} /\ changes \in 0 .. MaxChanges
    /\ life \in {"up", "leaving", "quiesced", "gone"}
    /\ expired \subseteq Request /\ asked \subseteq Request
    /\ cancelled \subseteq Request /\ silenced \subseteq Request
    /\ answers \in [Request -> Nat]
    /\ queue \in Seq(Request) /\ Len(queue) <= MaxQueue
    /\ active \in {Nobody} \cup Utterances
    /\ running \in {"no", "yes", "ending"} /\ (running = "yes" <=> ~Idle)
    /\ permit \in {"none", "held", "stale"}
    /\ \A ks \in {checks, holds, onStage} : ks \subseteq Request \X Nat
    /\ reviewUp \in BOOLEAN

\* Whoever asks to speak is waiting, speaking, or has been answered, exactly one of
\* them and once: a stop, a full queue, an expiry and the end of speak() never
\* answer the same utterance twice or lose one (item.resolve).
AnsweredOnce ==
    \A r \in Request :
        Cardinality({j \in DOMAIN queue : queue[j] = r})
        + (IF ~Idle /\ active.r = r THEN 1 ELSE 0) + answers[r]
        = (IF r \in asked THEN 1 ELSE 0)

\* Whoever ranks higher is before whom it outranks, however they came and whoever was
\* dropped, and nobody waits for a loop that does not run (request(), the end of run()).
Ranked(q) == \A i, j \in DOMAIN q : i <= j => Rank(q[i]) >= Rank(q[j])
WaitsByRank == Ranked(queue) /\ (running = "no" => queue = <<>>)

\* One mouth: the stage plays at most one sentence, that of the utterance that has
\* the turn (speak() waits for the stage's report even when it is interrupted).
OneMouth == \A k \in onStage : At("play") /\ k = Sentence

\* An utterance is only preempted for one of higher rank, which still waits for its
\* turn unless a stop has cleared the queue: the full queue that drops its last
\* never drops the one that has preempted (request()).
PreemptedForABetter ==
    ~Idle /\ active.preempted /\ ~active.stopped
        => \E j \in DOMAIN queue : Rank(queue[j]) > Rank(active.r)

\* Nobody speaks, no permit: the loop gives the stage's audio back when it ends, and
\* an unloaded plugin has none.
PermitOnlyWhileRunning == permit # "none" => running = "yes" /\ life # "gone"

\* After a stop, a soft stop or a preemption nothing more of what was unsaid then
\* begins to play, whichever wait it was in.
SilencedStaysSilent == [][\A k \in onStage' \ onStage : k[1] \notin silenced]_vars

\* What the check or the operator has not let pass, or was withdrawn before it was,
\* does not begin to play; in M1 without the review nothing does that was checked there.
PlayedAsPassed ==
    [][\A k \in onStage' \ onStage : k = Sentence /\ active.verdict \in {"passed", "released"}]_vars

\* Every request is answered in the end (there are finitely many), ...
EveryRequestIsAnswered == []<>(Unsaid = {})

\* ... and nothing stays before the moderation plugin or the operator for ever, also
\* when nobody waits for it any more.
HoldsEnd == []<>(checks \cup holds = {})

\* docs/modules/safety-core.md says of M1 that every sentence is released by a person
\* or after a delay: what begins to play in M1 has been released.
StartsInM1AreReleased ==
    [][\A k \in onStage' \ onStage : mode = "M1" => active.verdict = "released"]_vars

\* In every state each request is waiting in the order of ranks, for a loop that runs,
\* or is speaking, or was answered once (request, run, the stops and the end of speak).
RequestsAreKept == TypeOK /\ AnsweredOnce /\ WaitsByRank

\* There is one voice, it holds the permit only as long as it speaks, and it gives
\* way to nothing but what ranks higher (loop, speak, request).
OneVoice == OneMouth /\ PermitOnlyWhileRunning /\ PreemptedForABetter

\* What begins to play has passed its review and has not been silenced since (speak).
OnlyTheAllowedPlays == SilencedStaysSilent /\ PlayedAsPassed

\* Everything comes to its end: the requests get their answer, and neither a check nor
\* a hold outlasts its time (loop, HoldTimer).
ArbiterGoesOn == EveryRequestIsAnswered /\ HoldsEnd

\* At all times one voice, and it says what it may (loop, speak).
OneAllowedVoice == []OneVoice /\ OnlyTheAllowedPlays
=============================================================================
