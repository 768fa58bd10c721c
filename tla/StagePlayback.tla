------------------------------ MODULE StagePlayback ------------------------------
(***************************************************************************)
(* Speech on the stage (packages/stage): the Stage service and the host's  *)
(* side of the page (service.ts, obs-page.ts), and the page in OBS that    *)
(* plays the audio (page.js, worklet.js), over a connection that may break *)
(* and lose what is on it.                                                 *)
(*                                                                         *)
(* A sentence is forwarded chunk by chunk; its result is what the page     *)
(* reports.  The page plays under the token it was told last, and falls    *)
(* silent by itself without heartbeats or renewals.  How a page is let in  *)
(* is left out: a page without a session may get one.                      *)
(*                                                                         *)
(* The page and its audio worklet answer each other at once here.  A page  *)
(* that hangs plays what it has and reports afterwards.  A chunk is the    *)
(* unit of the count of samples.  A heartbeat and its answer take no time. *)
(***************************************************************************)
EXTENDS Naturals, Sequences, FiniteSets, SequencesExt

CONSTANTS
    Sentence,
    Chunks,         \* [Sentence -> Nat \ {0}], the audio of each
    Patience,       \* pageTimeoutMs / heartbeatMs
    MaxOnWay,       \* bound of the messages on the way to the page
    MaxToken,       \* bound of the tokens granted
    MaxBreaks,      \* bound of the connections broken and pages loaded anew
    MaxStalls       \* bound of the times the host or the page hangs

ASSUME StageAssumption ==
    /\ Chunks \in [Sentence -> Nat \ {0}]
    /\ Patience \in Nat \ {0}
    /\ MaxOnWay \in Nat \ {0, 1}
    /\ {MaxToken, MaxBreaks, MaxStalls} \subseteq Nat

VARIABLES
    output,    \* producesOutput(mode)
    permit,    \* the lease of the audio: tokens granted, in force, told last (0: null)
    service,   \* the Stage service, see Service
    spoken,    \* [Sentence -> Spoken]: `playing`, and what play() returned
    session,   \* an authenticated session, as the host sees it
    conn,      \* its connection is there
    toPage, toHost,
    page,      \* see Page
    queue,     \* the sentences on the page, head first: Seq(Queued)
    heard,     \* [Sentence -> Nat]: chunks played
    missed,    \* an order to a page that had sentences did not reach it
    gap,       \* a session was opened while sentences were on stage
    absent,    \* the page did not get the last heartbeat, or did not answer it
    breaks, stalls

hostSide == <<output, permit, service, spoken>>
linkSide == <<session, conn>>
pageSide == <<page, queue, heard>>
sights == <<gap, absent>>
bounds == <<breaks, stalls>>
vars == <<hostSide, linkSide, toPage, toHost, pageSide, missed, sights, bounds>>

Token == 0..MaxToken

Service == [
    phase : {"up", "failed", "off"},
    silence : 0..(Patience + 1),   \* heartbeats since the page answered last
    late : BOOLEAN ]               \* the host stalled: the next beat is late

Spoken == [
    state : {"new", "playing", "done"},
    token : Token,
    feeding : BOOLEAN,             \* the loop over the audio stream runs
    forwarded : Nat,
    played : Nat,
    cut : BOOLEAN,                 \* truncating
    complete : BOOLEAN ]           \* the result

Page == [
    hung : BOOLEAN,
    socket : BOOLEAN,              \* as the page sees it
    lease : Token, leased : BOOLEAN,  \* leaseToken, leaseFrames > 0
    muted : BOOLEAN ]

Queued == [s : Sentence, token : Token, got : Nat, all : BOOLEAN]

TypeOK ==
    /\ output \in BOOLEAN
    /\ permit \in [count : Token, valid : BOOLEAN, told : Token]
    /\ service \in Service
    /\ spoken \in [Sentence -> Spoken]
    /\ session \in BOOLEAN /\ conn \in BOOLEAN
    /\ page \in Page /\ queue \in Seq(Queued)
    /\ heard \in [Sentence -> Nat]
    /\ {missed, gap, absent} \subseteq BOOLEAN

\* A page as it loads.
Loaded == [hung |-> FALSE, socket |-> FALSE, lease |-> 0, leased |-> FALSE, muted |-> FALSE]

Init ==
    /\ output = FALSE
    /\ permit = [count |-> 0, valid |-> FALSE, told |-> 0]
    /\ service = [phase |-> "up", silence |-> 0, late |-> FALSE]
    /\ spoken = [s \in Sentence |->
                   [state |-> "new", token |-> 0, feeding |-> FALSE, forwarded |-> 0,
                    played |-> 0, cut |-> FALSE, complete |-> FALSE]]
    /\ session = FALSE /\ conn = FALSE
    /\ toPage = <<>> /\ toHost = <<>>
    /\ page = Loaded
    /\ queue = <<>>
    /\ heard = [s \in Sentence |-> 0]
    /\ missed = FALSE /\ gap = FALSE /\ absent = FALSE
    /\ breaks = 0 /\ stalls = 0
-----------------------------------------------------------------------------
(* Messages.                                                               *)

Order(kind) == kind \in {"token", "truncate"}
InFlight(kind, messages) == \E i \in DOMAIN messages : messages[i].kind = kind
HasSentences == queue # <<>> \/ InFlight("begin", toPage)

\* page.send: dropped without a session, and lost when its connection is gone.
Tell(messages) ==
    LET arrives == session /\ conn IN
    /\ arrives => Len(toPage) + Len(messages) <= MaxOnWay
    /\ toPage' = IF arrives THEN toPage \o messages ELSE toPage
    /\ missed' = (missed \/ (~arrives /\ HasSentences
                               /\ \E i \in DOMAIN messages : Order(messages[i].kind)))
    /\ UNCHANGED toHost

\* send of the page: dropped unless the socket is open.
Reported(messages) == IF conn /\ page.socket THEN toHost \o messages ELSE toHost

Truncated(s) == [kind |-> "truncated", s |-> s, n |-> heard[s]]
TruncatedAll(entries) == [i \in 1..Len(entries) |-> Truncated(entries[i].s)]

HostOnly == UNCHANGED <<linkSide, pageSide, sights, bounds>>
-----------------------------------------------------------------------------
(* The permit of the audio, and the mode.                                  *)

GoOutput ==
    /\ ~output /\ output' = TRUE
    /\ UNCHANGED <<permit, service, spoken, toPage, toHost, missed>> /\ HostOnly

PermitOnly == UNCHANGED <<service, spoken>> /\ HostOnly

TokenMessage(t) == [kind |-> "token", token |-> t]

Grant ==
    /\ output /\ permit.count < MaxToken
    /\ permit' = [count |-> permit.count + 1, valid |-> TRUE, told |-> permit.count + 1]
    /\ Tell(<<TokenMessage(permit.count + 1)>>)
    /\ UNCHANGED output /\ PermitOnly

\* Renewals are told like grants: here those that the page has to wait for, since
\* the others change nothing that its own clock may not undo.
Renew ==
    /\ permit.valid /\ ~page.leased /\ ~InFlight("token", toPage)
    /\ Tell(<<TokenMessage(permit.count)>>)
    /\ UNCHANGED <<output, permit>> /\ PermitOnly

Expire ==
    /\ permit.valid
    /\ permit' = [permit EXCEPT !.valid = FALSE]
    /\ UNCHANGED <<output, toPage, toHost, missed>> /\ PermitOnly

\* Given back, revoked, or revoked by an emergency stop.
Revoke ==
    /\ permit.told # 0
    /\ permit' = [permit EXCEPT !.valid = FALSE, !.told = 0]
    /\ output' \in {output, FALSE}
    /\ Tell(<<TokenMessage(0)>>)
    /\ PermitOnly

StopOutput ==
    /\ output /\ permit.told = 0
    /\ output' = FALSE
    /\ UNCHANGED <<permit, toPage, toHost, missed>> /\ PermitOnly
-----------------------------------------------------------------------------
(* The Stage service.                                                      *)

Running == service.phase # "off"
Playing(s) == spoken[s].state = "playing"

\* finish: the first result counts.
Finished(x, n, complete) ==
    IF x.state # "playing" THEN x
    ELSE [x EXCEPT !.state = "done", !.feeding = FALSE, !.played = n, !.complete = complete]

SpokenOnly == UNCHANGED <<output, permit, service>> /\ HostOnly

\* play(), with the permit of the caller: refused without one, and without a
\* page that could begin it.
Play(s) ==
    LET begun == [spoken[s] EXCEPT !.state = "playing", !.token = permit.count,
                                   !.feeding = TRUE]
    IN  /\ Running /\ spoken[s].state = "new" /\ permit.count # 0
        /\ IF permit.valid /\ session
           THEN /\ spoken' = [spoken EXCEPT ![s] = begun]
                /\ Tell(<<[kind |-> "begin", s |-> s, token |-> permit.count]>>)
           ELSE /\ spoken' = [spoken EXCEPT ![s] = Finished(begun, 0, FALSE)]
                /\ UNCHANGED <<toPage, toHost, missed>>
        /\ SpokenOnly

MayForward(s) == permit.valid /\ permit.count = spoken[s].token

EndMessage(s) == [kind |-> "end", s |-> s, token |-> spoken[s].token]

\* A chunk arrives from the audio stream: forwarded, ...
Forward(s) ==
    /\ spoken[s].feeding /\ spoken[s].forwarded < Chunks[s]
    /\ MayForward(s)
    /\ spoken' = [spoken EXCEPT ![s].forwarded = @ + 1]
    /\ Tell(<<[kind |-> "audio", s |-> s, token |-> spoken[s].token]>>)
    /\ SpokenOnly

\* ... or, without the permit, the reason to cut the sentence.
ForwardStops(s) ==
    /\ spoken[s].feeding /\ spoken[s].forwarded < Chunks[s]
    /\ ~MayForward(s)
    /\ spoken' = [spoken EXCEPT ![s].feeding = FALSE, ![s].cut = TRUE]
    /\ Tell(<<[kind |-> "truncate", s |-> s], EndMessage(s)>>)
    /\ SpokenOnly

ForwardEnds(s) ==
    /\ spoken[s].feeding /\ spoken[s].forwarded = Chunks[s]
    /\ spoken' = [spoken EXCEPT ![s].feeding = FALSE]
    /\ Tell(<<EndMessage(s)>>)
    /\ SpokenOnly

\* The audio stream fails.
ForwardFails(s) ==
    /\ spoken[s].feeding
    /\ spoken' = [spoken EXCEPT ![s] = Finished(@, @.played, FALSE)]
    /\ Tell(<<[kind |-> "truncate", s |-> s]>>)
    /\ SpokenOnly

\* truncate(), once: again it says the same.
Truncate(s) ==
    /\ Running /\ Playing(s) /\ ~spoken[s].cut
    /\ spoken' = [spoken EXCEPT ![s].cut = TRUE]
    /\ Tell(<<[kind |-> "truncate", s |-> s]>>)
    /\ SpokenOnly

Reads(kind) ==
    /\ session
    /\ toHost # <<>> /\ Head(toHost).kind = kind
    /\ toHost' = Tail(toHost)
    /\ UNCHANGED <<output, permit, service, toPage, missed>>
    /\ HostOnly

\* What the page reports counts while the service runs.
ReadReport(kind, Result(_, _)) ==
    LET report == Head(toHost) IN
    /\ Reads(kind)
    /\ spoken' = IF Running THEN [spoken EXCEPT ![report.s] = Result(@, report.n)] ELSE spoken

Cursor(x, n) == IF x.state = "playing" THEN [x EXCEPT !.played = n] ELSE x

\* Mutant of Ended: what the page played to the end is complete.
EndedIsComplete(x, n) == Finished(x, n, TRUE)

\* The end at the page is the end of what it got.
Ended(x, n) == Finished(x, n, n >= x.forwarded)

Cut(x, n) == Finished(x, n, FALSE)

HostReads ==
    \/ ReadReport("cursor", Cursor) \/ ReadReport("ended", Ended)
    \/ ReadReport("truncated", Cut)

Responsive == conn /\ session /\ page.socket /\ ~page.hung

Beats == UNCHANGED <<output, permit, linkSide, toPage, toHost, queue, heard, missed, gap, bounds>>

\* The page that reads a heartbeat ends its mute, and answers.
SendBeat(silence) ==
    /\ service' = [service EXCEPT !.silence = IF Responsive THEN 0 ELSE silence, !.late = FALSE]
    /\ page' = IF Responsive THEN [page EXCEPT !.muted = FALSE] ELSE page
    /\ absent' = ~Responsive
    /\ UNCHANGED spoken /\ Beats

NoPageNeeded == ~session /\ ~output

Beat ==
    /\ Running /\ ~service.late
    /\ ~NoPageNeeded /\ service.silence <= Patience
    /\ SendBeat(service.silence + 1)

BeatWithoutPage ==
    /\ Running
    /\ NoPageNeeded
    /\ service' = [service EXCEPT !.silence = 0, !.late = FALSE]
    /\ UNCHANGED <<spoken, page, absent>> /\ Beats

\* Mutant of BeatLate: late or not, a page that was silent has failed.
BeatLateFails ==
    /\ Running /\ service.late /\ ~NoPageNeeded
    /\ service' = [service EXCEPT !.phase = "failed", !.late = FALSE]
    /\ spoken' = [s \in Sentence |-> Finished(spoken[s], spoken[s].played, FALSE)]
    /\ UNCHANGED <<page, absent>> /\ Beats

BeatLate ==
    /\ Running /\ service.late /\ ~NoPageNeeded
    /\ SendBeat(0)

\* The page has not answered in time: every sentence ends, ctx.fail.
PageFails ==
    /\ Running /\ ~service.late
    /\ ~NoPageNeeded /\ service.silence > Patience
    /\ service' = [service EXCEPT !.phase = "failed"]
    /\ spoken' = [s \in Sentence |-> Finished(spoken[s], spoken[s].played, FALSE)]
    /\ UNCHANGED <<page, absent>> /\ Beats

\* The host stalls for longer than the page may be silent.
Stall ==
    /\ Running /\ stalls < MaxStalls
    /\ stalls' = stalls + 1
    /\ service' = [service EXCEPT !.silence = Patience + 1, !.late = TRUE]
    /\ UNCHANGED <<output, permit, spoken, linkSide, toPage, toHost, pageSide, missed, sights,
                   breaks>>

\* The service is unloaded: what plays is cut and ends.
Dispose ==
    LET left == {s \in Sentence : Playing(s)} IN
    /\ Running
    /\ service' = [service EXCEPT !.phase = "off"]
    /\ spoken' = [s \in Sentence |-> Finished(spoken[s], spoken[s].played, FALSE)]
    /\ \E order \in [1..Cardinality(left) -> left] :
          /\ left = {order[i] : i \in DOMAIN order}
          /\ Tell([i \in DOMAIN order |-> [kind |-> "truncate", s |-> order[i]]])
    /\ UNCHANGED <<output, permit>> /\ HostOnly
-----------------------------------------------------------------------------
(* The page.                                                               *)

PageOnly == UNCHANGED <<hostSide, linkSide, sights, bounds>>

\* The page handles the next message from the host.
Handles(kind) ==
    /\ ~page.hung /\ page.socket
    /\ toPage # <<>> /\ Head(toPage).kind = kind
    /\ toPage' = Tail(toPage)
    /\ UNCHANGED <<heard, missed>> /\ PageOnly

\* Another token ends the sentences of the one before; any starts its time anew.
NewToken ==
    LET t == Head(toPage).token
        other == t # page.lease
    IN  /\ Handles("token")
        /\ page' = [page EXCEPT !.lease = t, !.leased = (t # 0)]
        /\ queue' = IF other THEN <<>> ELSE queue
        /\ toHost' = Reported(IF other THEN TruncatedAll(queue) ELSE <<>>)

Begin ==
    LET m == Head(toPage)
        accepted == m.token = page.lease /\ page.leased /\ ~page.muted
    IN  /\ Handles("begin")
        /\ queue' = IF accepted
                    THEN Append(queue, [s |-> m.s, token |-> m.token, got |-> 0, all |-> FALSE])
                    ELSE queue
        /\ toHost' = Reported(IF accepted THEN <<>> ELSE <<Truncated(m.s)>>)
        /\ UNCHANGED page

\* What is for a queued sentence under the current token.
Updated(m, q) == IF q.s # m.s \/ m.token # page.lease THEN q
                 ELSE IF m.kind = "audio" THEN [q EXCEPT !.got = @ + 1]
                 ELSE [q EXCEPT !.all = TRUE]

Audio(kind) ==
    LET m == Head(toPage) IN
    /\ Handles(kind)
    /\ queue' = [i \in DOMAIN queue |-> Updated(m, queue[i])]
    /\ UNCHANGED <<page, toHost>>

\* The first that find() finds is spliced out.
Without(s) == RemoveFirstMatch(queue, LAMBDA q : q.s = s)

TruncateOne ==
    LET s == Head(toPage).s IN
    /\ Handles("truncate")
    /\ queue' = Without(s)
    /\ toHost' = Reported(IF Without(s) # queue THEN <<Truncated(s)>> ELSE <<>>)
    /\ UNCHANGED page

PageHandles ==
    \/ NewToken \/ Begin
    \/ Audio("audio") \/ Audio("end") \/ TruncateOne

WorkletOnly == UNCHANGED <<toPage>> /\ PageOnly

\* A chunk of the head is played, also while the page hangs.
Render ==
    /\ ~page.muted /\ queue # <<>>
    /\ heard[Head(queue).s] < Head(queue).got
    /\ heard' = [heard EXCEPT ![Head(queue).s] = @ + 1]
    /\ UNCHANGED <<page, queue, toHost, missed>> /\ WorkletOnly

\* The count of samples is reported; one report on the way, and none that says
\* nothing new.
ReportCursor ==
    LET s == Head(queue).s IN
    /\ ~page.hung /\ queue # <<>>
    /\ spoken[s].played < heard[s] /\ ~InFlight("cursor", toHost)
    /\ toHost' = Reported(<<[kind |-> "cursor", s |-> s, n |-> heard[s]]>>)
    /\ UNCHANGED <<page, queue, heard, missed>> /\ WorkletOnly

\* The head has all its audio, and it is played.
HeadEnds ==
    LET q == Head(queue) IN
    /\ ~page.hung /\ ~page.muted /\ queue # <<>>
    /\ q.all /\ heard[q.s] = q.got
    /\ queue' = Tail(queue)
    /\ toHost' = Reported(<<[kind |-> "ended", s |-> q.s, n |-> q.got]>>)
    /\ UNCHANGED <<page, heard, missed>> /\ WorkletOnly

FallSilent(p) ==
    /\ ~page.hung
    /\ page' = p
    /\ queue' = <<>>
    /\ toHost' = Reported(TruncatedAll(queue))
    /\ missed' = (missed /\ InFlight("begin", toPage))
    /\ UNCHANGED heard /\ WorkletOnly

\* No heartbeats, by the frames the page has rendered.
Mute == ~page.muted /\ FallSilent([page EXCEPT !.muted = TRUE])

\* No renewal, in the same way.
LeaseRunsOut == page.leased /\ FallSilent([page EXCEPT !.leased = FALSE])

Hang ==
    /\ ~page.hung /\ stalls < MaxStalls
    /\ stalls' = stalls + 1
    /\ page' = [page EXCEPT !.hung = TRUE]
    /\ UNCHANGED <<hostSide, linkSide, toPage, toHost, queue, heard, missed, sights,
                   breaks>>

GoesOn ==
    /\ page.hung
    /\ page' = [page EXCEPT !.hung = FALSE]
    /\ UNCHANGED <<toHost, queue, heard, missed>> /\ WorkletOnly
-----------------------------------------------------------------------------
(* The connection.                                                         *)

LosesOrder(kept) == \E i \in Len(kept) + 1..Len(toPage) : Order(toPage[i].kind)

\* The connection ends with some of what is on it.
Breaks ==
    /\ conn
    /\ conn' = FALSE
    /\ toPage' \in Prefixes(toPage)
    /\ toHost' \in Prefixes(toHost)
    /\ missed' = (missed \/ (HasSentences /\ LosesOrder(toPage')))
    /\ UNCHANGED <<hostSide, session, pageSide, sights, stalls>>

Break ==
    /\ breaks < MaxBreaks
    /\ breaks' = breaks + 1
    /\ Breaks

\* watchIdle: nothing has come from the page for long.
Idle ==
    /\ session
    /\ page.hung \/ ~Running
    /\ Breaks
    /\ UNCHANGED breaks

HostSeesClose ==
    /\ session /\ ~conn /\ toHost = <<>>
    /\ session' = FALSE
    /\ UNCHANGED <<hostSide, conn, toPage, toHost, pageSide, missed, sights, bounds>>

PageSeesClose ==
    /\ page.socket /\ ~page.hung /\ ~conn /\ toPage = <<>>
    /\ page' = [page EXCEPT !.socket = FALSE]
    /\ UNCHANGED <<hostSide, linkSide, toPage, toHost, queue, heard, missed, sights, bounds>>

\* open(): what was on the way to the page before is gone.
Open ==
    /\ ~session /\ ~page.hung /\ ~page.socket
    /\ session' = TRUE /\ conn' = TRUE
    /\ page' = [page EXCEPT !.socket = TRUE]
    /\ toPage' = <<>> /\ toHost' = <<>>
    /\ gap' = (gap \/ \E s \in Sentence : Playing(s))
    /\ UNCHANGED absent
    /\ UNCHANGED <<hostSide, queue, heard, missed, bounds>>

\* A page is loaded in place of the one that was there.
Load ==
    /\ breaks < MaxBreaks
    /\ breaks' = breaks + 1
    /\ page' = Loaded
    /\ queue' = <<>>
    /\ conn' = FALSE
    /\ toPage' = <<>>
    /\ toHost' \in IF conn THEN Prefixes(toHost) ELSE {toHost}
    /\ missed' = FALSE
    /\ UNCHANGED <<hostSide, session, heard, sights, stalls>>
-----------------------------------------------------------------------------
PermitSteps == GoOutput \/ Grant \/ Renew \/ Expire \/ Revoke \/ StopOutput

Feeds(s) == Forward(s) \/ ForwardStops(s) \/ ForwardEnds(s) \/ ForwardFails(s)

BeatSteps == Beat \/ BeatWithoutPage \/ BeatLate \/ PageFails

ServiceSteps ==
    \/ \E s \in Sentence : Play(s) \/ Feeds(s) \/ Truncate(s)
    \/ HostReads \/ BeatSteps \/ Stall \/ Dispose

Plays == Render \/ HeadEnds

PageSteps == PageHandles \/ Plays \/ ReportCursor \/ Mute \/ LeaseRunsOut \/ Hang \/ GoesOn

LinkSteps == Break \/ Idle \/ HostSeesClose \/ PageSeesClose \/ Open \/ Load

Next == PermitSteps \/ ServiceSteps \/ PageSteps \/ LinkSteps

Spec == Init /\ [][Next]_vars

\* Audio streams go on or end; both ends read, a page that works plays; timers
\* fire.  A page without a session need not get one.
Fairness ==
    /\ \A s \in Sentence : WF_vars(Feeds(s))
    /\ WF_vars(HostReads) /\ WF_vars(PageHandles) /\ WF_vars(Plays)
    /\ WF_vars(BeatSteps)
    /\ WF_vars(HostSeesClose) /\ WF_vars(PageSeesClose)

FairSpec == Spec /\ Fairness
-----------------------------------------------------------------------------
(* Properties.                                                             *)

\* What play() returns is what was heard: never more, and `complete` only when
\* the page has played all the audio there was, whatever the connection lost
\* (service.ts: onMessage).
ResultsAreHeard ==
    \A s \in Sentence :
        /\ spoken[s].played <= heard[s]
        /\ spoken[s].complete => heard[s] = Chunks[s]

\* When a page has read its orders, it has only sentences under the token told
\* last that nobody has cut; unless an order was lost (page.js: token, truncate).
OrdersAreObeyed ==
    missed \/ InFlight("token", toPage) \/ InFlight("truncate", toPage) \/
        \A i \in DOMAIN queue :
            queue[i].token = permit.told /\ ~spoken[queue[i].s].cut

\* The page fails the service only when it did not answer the last heartbeat: not
\* for the time the host itself was stalled (service.ts: beat).
OnlySilentPagesFail ==
    [][service.phase = "up" /\ service'.phase = "failed" => absent]_vars

\* Every sentence comes to its end, by report or by timeout, when the page
\* hangs, plays on, closes or is closed; unless a session was opened with
\* sentences on stage, whose reports may be lost, or output has ended without a
\* page, whose silence is not counted then (service.ts: play, beat).
SentencesEnd ==
    \A s \in Sentence : Playing(s) ~> (~Playing(s) \/ gap \/ NoPageNeeded)

\* types.ts says of play() that its result comes from the page or, when the page
\* does not answer, as an unusable stage.
EverySentenceEnds == \A s \in Sentence : Playing(s) ~> ~Playing(s)

\* In every state of service, connection and page, what play() returns is what
\* was heard, and the page plays what it was told to (service.ts: onMessage, beat).
PlaybackIsTrue == TypeOK /\ ResultsAreHeard /\ OrdersAreObeyed

\* A page that is silent is given up, one that is not is kept, and no sentence waits
\* for ever either way (service.ts: beat, play).
PlaybackGoesOn == OnlySilentPagesFail /\ SentencesEnd
=============================================================================
