------------------------------- MODULE MCDevices -------------------------------
(***************************************************************************)
(* What the host drives or depends on outside itself, and the leases it    *)
(* acts under, one beside the other: a behaviour is one of one of them,    *)
(* the others do not move.  (Together they have the sum of their states,   *)
(* not the product.)  The module of the leases is the one that is          *)
(* extended.                                                               *)
(*                                                                         *)
(* Leases: two resources with different times to live, two holders: long   *)
(* enough for a lease to run out, be granted anew, be revoked by a failing *)
(* write, and be granted after a restart.                                  *)
(***************************************************************************)
EXTENDS Leases, Integers, Sequences, TLC

CONSTANTS r1, r2, h1, h2,    \* leases
          s1, s2,            \* cloud TTS
          a1, a2,            \* OBS control
          e1,                \* avatar
          t1, t2             \* local TTS

MCTtl == (r1 :> 2) @@ (r2 :> 1)

\* What sentences sound like: at once, after and before a silence, with a pause, not.
Sounds == {<<TRUE>>, <<FALSE, TRUE, FALSE>>, <<TRUE, FALSE, TRUE>>, <<FALSE>>}

VARIABLES device,
    stage, answer, heard, unwanted, life, fifo, flushes, retrying, line, up2, down, recent,
    blocked, closed,
    queue, batch, timer, state, accepted, dropped, lost, written, file,
    phase, report, disposal, waiter, peer, gone, host, child, link, warned,
    step, order, permit, safe, client, opening, sockets, plugin,
    dial, token, socket, session, retry, ticker, injecting, denied, halted, vts, mute, gesture,
    playing, played, pipe, pending, quiet, above, delay, estimated, meter, redial, stopped,
    shown,
    request, live, frames, samples, ended, error, waiting, got, outcome, left, sent, wire,
    sidecar, local,
    call, stream, limit, failure, said, text, reason, result, asked, calls, consecutive,
    authFailed,
    page, shows, key, refused, vain, used, greeter, guest, resume, writing, spaced, redo,
    unloaded, mishaps

tVars == <<stage, answer, heard, unwanted, life, fifo, flushes, retrying, line, up2, down,
           recent, blocked, closed>>
qVars == <<queue, batch, timer, state, accepted, dropped, lost, written, file>>
sVars == <<phase, report, disposal, waiter, peer, gone, host, child, link, warned>>
oVars == <<step, order, permit, safe, client, opening, sockets, plugin>>
aVars == <<dial, token, socket, session, retry, ticker, injecting, denied, halted, vts, mute,
           gesture>>
yVars == <<playing, played, pipe, pending, quiet, above, delay, estimated, meter, redial,
           stopped, shown>>
lVars == <<request, live, frames, samples, ended, error, waiting, got, outcome, left, sent,
           wire, sidecar, local>>
mVars == <<call, stream, limit, failure, said, text, reason, result, asked, calls,
           consecutive, authFailed>>
gVars == <<page, shows, key, refused, vain, used, greeter, guest, resume, writing, spaced,
           redo, unloaded, mishaps>>

T == INSTANCE CloudTts WITH
    Sentence <- {s1, s2}, Rpm <- 1, Window <- 2, Life <- 3, MaxSends <- 2, up <- up2
Q == INSTANCE TelemetryQueue WITH MaxQueue <- 3, BatchSize <- 2, MaxFile <- 1, MaxRecords <- 6
S == INSTANCE Sidecar WITH MaxRuns <- 2, told <- warned
O == INSTANCE ObsControl WITH Action <- {a1, a2}, queue <- order
A == INSTANCE AvatarLink WITH
    Expression <- {e1}, phase <- dial, client <- session, plugin <- vts, safe <- mute,
    step <- gesture
Y == INSTANCE StageSync WITH
    Sound <- Sounds, Delay <- 3, InitialMs <- 1, Guard <- 2, MaxSample <- 4,
    link <- meter, retry <- redial
L == INSTANCE LocalTts WITH
    Stream <- {t1, t2}, Frames <- (t1 :> 2) @@ (t2 :> 1), queue <- frames, unwanted <- left,
    plugin <- local
M == INSTANCE ModelCall WITH
    MaxCalls <- 2, MaxWire <- 2, MaxText <- 1, phase <- call, wire <- stream, timer <- limit
G == INSTANCE StageSession WITH
    ResumeWindow <- 3, RedistributeMin <- 2, MaxMishaps <- 3,
    pending <- greeter, session <- guest, retry <- redo, gone <- unloaded

DevicesInit ==
    /\ Init /\ T!Init /\ Q!Init /\ S!Init /\ O!Init /\ A!Init /\ Y!Init /\ L!Init /\ M!Init
    /\ G!Init
    /\ device \in {"leases", "tts", "telemetry", "sidecar", "obs", "avatar", "sync", "local",
                   "model", "page"}
    /\ device # "avatar" => token = "none"

\* One of them moves, the others do not.
Leasing == device = "leases" /\ UNCHANGED <<device, tVars, qVars, sVars, oVars, aVars, yVars, lVars, mVars, gVars>>
Speaking == device = "tts" /\ UNCHANGED <<device, vars, qVars, sVars, oVars, aVars, yVars, lVars, mVars, gVars>>
Recording == device = "telemetry" /\ UNCHANGED <<device, vars, tVars, sVars, oVars, aVars, yVars, lVars, mVars, gVars>>
Assisting == device = "sidecar" /\ UNCHANGED <<device, vars, tVars, qVars, oVars, aVars, yVars, lVars, mVars, gVars>>
Switching == device = "obs" /\ UNCHANGED <<device, vars, tVars, qVars, sVars, aVars, yVars, lVars, mVars, gVars>>
Appearing == device = "avatar" /\ UNCHANGED <<device, vars, tVars, qVars, sVars, oVars, yVars, lVars, mVars, gVars>>
Measuring == device = "sync" /\ UNCHANGED <<device, vars, tVars, qVars, sVars, oVars, aVars, lVars, mVars, gVars>>
Reciting == device = "local" /\ UNCHANGED <<device, vars, tVars, qVars, sVars, oVars, aVars, yVars, mVars, gVars>>
Thinking == device = "model" /\ UNCHANGED <<device, vars, tVars, qVars, sVars, oVars, aVars, yVars, lVars, gVars>>
Entering == device = "page" /\ UNCHANGED <<device, vars, tVars, qVars, sVars, oVars, aVars, yVars, lVars, mVars>>

DevicesNext ==
    \/ Leasing /\ Next
    \/ Speaking /\ T!Next
    \/ Recording /\ Q!Next
    \/ Assisting /\ S!Next
    \/ Switching /\ O!Next
    \/ Appearing /\ A!Next
    \/ Measuring /\ Y!Next
    \/ Reciting /\ L!Next
    \/ Thinking /\ M!Next
    \/ Entering /\ G!Next

allVars == <<device, vars, tVars, qVars, sVars, oVars, aVars, yVars, lVars, mVars, gVars>>

\* The fairness of the one that moves (the leases promise nothing but safety).  A
\* condition may stand for several of them, since no behaviour has steps of two.
DevicesSpec ==
    /\ DevicesInit /\ [][DevicesNext]_allVars
    /\ WF_allVars(\/ Speaking /\ T!Tick
                  \/ Recording /\ Q!TimerFires
                  \/ Assisting /\ S!Reporting
                  \/ Switching /\ O!Beginning
                  \/ Appearing /\ A!Dial
                  \/ Measuring /\ Y!Connecting
                  \/ Reciting /\ L!Deadlines
                  \/ Thinking /\ M!Cut
                  \/ Entering /\ G!Tick)
    /\ WF_allVars(\/ Speaking /\ T!Proceeding
                  \/ Recording /\ Q!Written
                  \/ Assisting /\ S!Pressing
                  \/ Switching /\ O!Connecting
                  \/ Appearing /\ A!Connecting
                  \/ Thinking /\ M!Abort
                  \/ Entering /\ G!Greeting)
    /\ WF_allVars(\/ Speaking /\ T!Opening
                  \/ Recording /\ Q!Closes
                  \/ Assisting /\ S!Exiting
                  \/ Switching /\ O!Answering
                  \/ Appearing /\ A!Ending
                  \/ Entering /\ G!Distributing)
    /\ WF_allVars(\/ Speaking /\ T!TimesOut
                  \/ Assisting /\ S!GivenUp
                  \/ Appearing /\ A!Answering
                  \/ Entering /\ G!SeesClose)

\* The properties of each, as its module states and explains them.

\* Leases: LeasesAreSound and StaleTokensStayStale.

\* Cloud TTS: what is on the line is the sentence's own; no sentence starts on it without
\* a place in the vendor's window (one sent again after the vendor was busy asks for
\* none); every sentence ends and gives the engine back.
SentencesAreServed == T!SentencesAreServed

\* Telemetry: every record is written or counted, and what waits is written.
RecordsAreAccountedFor == Q!RecordsAreAccountedFor

\* Sidecars: an activation talks to its own child only, every activation comes to serve
\* or is given up, and no child outlives its activation for ever.
SidecarsAreInHand == S!SidecarsAreInHand

\* OBS: one connection, no request without a permit that holds, no permit kept.
ObsIsInHand == O!ObsIsInHand

\* Avatar: one session, tried again unless denied, nothing after the end.
AvatarIsInHand == A!AvatarIsInHand

\* Stage sync: every sample is the true delay, and the stage is told no other.
SyncIsTrue == Y!SyncIsTrue

\* Local TTS: a stream ends well only when it is whole, and nobody waits for ever.
StreamsAreTrue == L!StreamsAreTrue

\* Language model: a call ends once, by its first cause, and in time.
ModelCallsAreTrue == M!ModelCallsAreTrue

\* The page in OBS: it is let in, or given a new URL soon enough to be.
PageIsSound == G!PageIsSound
PageStaysSound == [][PageIsSound']_gVars
PageIsLetIn == PageIsSound /\ PageStaysSound /\ []<>(device = "page" => G!Settled)
=================================================================================
