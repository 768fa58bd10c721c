# A verification development for bellis

bellis runs a virtual host's live show: it reads the live chat, lets a
language model write what the character says, speaks it on a stage page inside
OBS, and remembers viewers in Iris. A person supervises it, and a good part of
the code exists so that whatever crashes, hangs, answers late or is asked for
twice, nothing is said or done that was not allowed, nothing is done twice,
and the show can always be taken off the air.

These modules model that code (paths are relative to the repository, `docs/`
included), TLC checks them on small instances, and TLAPS proves what matters
most for instances of any size. `PROJECT.json` maps each definition to the
lines it stands for.

## 1. The system

One *host* process holds the core (state store, safety core, plugin kernel)
and the plugins. The *launcher* starts it and the *watchdog*, a process of its
own; python *sidecars* (speech synthesis) are processes too. Processes talk
JSON-RPC over a local *channel*. OBS, the stage page, VTube Studio, Bilibili,
Iris, the speech vendors and the model are outside.

| component | state it keeps | operations | talks to | hard because | correct means |
|---|---|---|---|---|---|
| state store (`packages/store`) | intents table, events, projections, lease counters (SQLite) | authorize, start, settle, recover, append, transaction | everything that has side effects | crash between an effect and its record, storage faults, same key twice | an effect happens at most once, was written down before, and an unknown result blocks its target |
| execution permits (`safety/leases.ts`) | active leases, durable token counter | grant, renew, revoke, expiry | devices, by updates | restart, failed write, renewal against expiry | a stale token stays stale; devices judge as the host |
| safety core (`packages/safety`) | mode, maintenance, moderation, presence and timer, OBS run | request mode, downgrade, emergency stop, authorize, grant | store, leases, OBS, watchdog, every plugin | a failing write calls back into the method that wrote; OBS answers late | real output only while what it was granted for holds; stops reach OBS |
| host lifecycle (`packages/host`) | phase of start and stop, watchdog connection | start, serve the operator, stop | all | requests served while it stops | planned stop is quiet, output watched while it serves |
| watchdog (`packages/watchdog`) | liveness timer, whether it acted, unreported result | heartbeat, timeout, act on OBS, report | host, OBS | either side may die or hang at any point | a show whose host is gone ends |
| plugin kernel (`packages/kernel`) | entries, instances, services, one lock, retry timers | enable, disable, retry, replace, failure, shutdown, passes | every plugin | suspended jobs, failures and calls in between | consumers stop first, nothing outlives its instance, the loop settles |
| speech arbiter (`packages/speech`) | queue, utterance on stage, lease, holds | submit, preempt, stop, review, write back | engines, stage, safety core, store | every sentence awaits four parties | every request answered once; nothing heard that was not authorized; what was heard is what is recorded |
| speech engines (`speech/tts-*`, `packages/tts-cloud`) | streams, cooling-off, quota windows | synthesize, abort, fall back | sidecar, vendors | frames, reply and abort in any order | each sentence ends once, in one voice |
| stage (`packages/stage`) | sentences playing, session and token, the page's queue and lease | play, truncate, report, resume | page in OBS, leases | the link drops messages and reports | audio only under a valid lease; every sentence comes to an end |
| stage sync (`stage/sync.ts`) | delay estimate | measure | OBS meters | noise, echoes | numeric estimate stays in its bounds |
| obs control (`stage/obs-control.ts`, `packages/obs`) | request queue, connection | switch scene, mute, reconnect | OBS | a stop on the other connection overtakes a request | no request is sent without a permit |
| director (`packages/director`) | the call in flight, opened line, votes, candidates | decide, stream, cancel, finish | model, speech, memory, audience | sentences are spoken before the answer is complete | one call at a time; what is streamed is what the final check accepts |
| language model client (`packages/llm`) | health, stream | call, abort | vendor | broken streams | one end per call |
| audience (`packages/audience`) | vote under way, ballots, candidates | start, count, end, take | director, OBS, store | start awaits authorization; restart in the middle | one vote at a time, each ended once |
| live chat intake (`packages/bilibili`) | session, link, gaps | open, heartbeat, reopen, stop | platform | many reasons to end one session at once | every session opened is ended; gaps bracket silence |
| memory (`packages/memory`) | outbox, tombstones, ledger | enqueue, flush, forget, recall | Iris, store | batch in flight while the queue changes | nothing of a forgotten viewer is sent; the queue drains |
| iris client (`packages/iris`) | - | write, recall | Iris | HTTP | classification of failures |
| avatar (`packages/avatar`) | connection, authentication, cursor | connect, trigger | VTube Studio | retry timers against disposal | one connection at a time |
| telemetry (`packages/telemetry`) | bounded queue, writer | record, write, close | files | overflow while writing | every record is written, dropped or counted |
| channel (`packages/channel`, `packages/process`) | calls in flight both ways | call, cancel, serve | all processes | cancellation crosses the reply | a call settles once |
| launcher (`packages/launcher`) | children, restarts | start, restart, stop | host, watchdog | a child ends while another is being started | no child outlives the session |
| operator console (`packages/console`) | sessions | forwards requests | host | - | - |
| moderation and privacy rules, configuration, protocol types, simulator, python sidecars, spikes | | | | | see section 8 |

How they meet: a plugin takes a *lease* from the safety core for a resource
(the stage's audio, OBS), the device (the stage page) is told the token, and
each side effect first becomes an *intent* in the store, authorized by the
safety core under the mode and the lease of that moment. A mode that ends
revokes the leases; a plugin that is unloaded loses them too. The store calls
the safety core back when a write fails. The watchdog watches the host and can
make OBS safe by itself; the host then learns of it over their connection.

## 2. Modules

| module | models | built on |
|---|---|---|
| `OnceOnly` | what the state store promises of one intent: done at most once, as authorized | - |
| `IntentStore` | `store.ts`, `execute.ts`: intents from authorization to result, calls, crashes, recovery, faults | implements `OnceOnly` |
| `Leases` | `leases.ts`: execution permits, their tokens and what devices are told | - |
| `SafetyCore` | `core.ts`, `supervision.ts`, `control.ts`, `emergency.ts`: modes, stops, OBS | abstracts the leases to "who holds what" |
| `Watchdog` | `watchdog.ts`, host `main.ts`, launcher `launch.ts`: two processes and OBS | abstracts the modes to "real output or not" |
| `PluginKernel` | `kernel.ts`, `service.ts`: the reconcile loop, replacement, retries, shutdown | - |
| `Sidecar` | kernel `sidecar.ts`, process `managed.ts`, `child.ts`: a plugin and its child process | the kernel as what gives an activation up |
| `RpcPeer` | channel `rpc.ts`, `connection.ts`: calls over one connection | - |
| `StagePlayback` | stage `service.ts`, `obs-page.ts`, `page.js`, `worklet.js`: sentences between the host and the page in OBS | abstracts the permits to "granted, valid, told last" |
| `StageSession` | stage `obs-page.ts`, `page.js`: how the page is let in | OBS does what `ObsControl` sends, or the action fails |
| `StageSync` | stage `sync.ts`, `envelope.ts`: which rise of OBS's meter is which sentence | every end is reported, as in `StagePlayback` |
| `ObsControl` | stage `obs-control.ts`, obs `client.ts`: actions on OBS, one after the other | permits, stops and expiry as in `SafetyCore` and `Leases` |
| `SpeechArbiter` | speech `arbiter.ts`, `review.ts`: who speaks, and what overtakes each wait of a sentence | engines, moderation, safety core and stage as what they may answer |
| `CloudTts` | tts-cloud `minimax.ts`, `engine.ts`, `link.ts`: sentences over one connection and the vendor's limit | - |
| `LocalTts` | speech `tts-local.ts`: streams of frames from the sidecar and their consumers | - |
| `Director` | director `director.ts`, audience `triage.ts`: when to decide, the call in flight | a call as in `ModelCall`, speech as in `SpeechArbiter`: they end |
| `IntentScanner` | director `stream.ts`: the text of the output, found while it comes | `Json`, what `JSON.parse` finds |
| `ModelCall` | llm `client.ts`, `sse.ts`, `health.ts`: one streamed call and its limits | - |
| `Vote` | audience `vote.ts`: a vote over replacement, stops and crashes | intents as in `IntentStore` |
| `BilibiliClient` | bilibili `client.ts`: sessions, links, heartbeats, gaps | - |
| `MemoryOutbox` | memory `plugin.ts`, `ledger.ts`: the outbox to Iris | intents as in `IntentStore` |
| `TelemetryQueue` | telemetry `core.ts`, `file-writer.ts`: records to files | - |
| `AvatarLink` | avatar `vts.ts`, `client.ts`: the connection to VTube Studio | - |
| `*_proofs` | theorems about the module of that name; `Services_proofs` about `Director` and `BilibiliClient` | |
| `MC*` | instances for TLC; `MCServices` and `MCDevices` put several modules beside each other | |

`MCServices` instantiates `MemoryOutbox`, `BilibiliClient`, `Vote`, `RpcPeer`
and `IntentScanner` beside `Director`, and `MCDevices` instantiates `CloudTts`,
`TelemetryQueue`, `Sidecar`, `ObsControl`, `AvatarLink`, `StageSync`,
`LocalTts`, `ModelCall` and `StageSession` beside `Leases`. A behaviour of either is one of
one component while the others stand still: they share nothing in the code
that these modules speak of, so their product would add states and no
behaviour.

How state and actions correspond to the code:

- `IntentStore`. `row` is the `intents` table, `history` the `events` table of
  an intent, `phase`/`healthy` the `StateStore` object, `call` the pending
  `executeIntent` calls, `wire` and `performed` the world outside. A method of
  the store is synchronous and runs in one transaction, so it is one action;
  `executeIntent` is cut at its `await`. A payload is a digest.
- `Leases`. `active`, `counter`, `told` are `#active`, the `lease_tokens` table
  and the last update given to the subscribers; time is a small clock.
- `SafetyCore`. The methods are synchronous but not atomic: each write may fail
  and then `onFault` downgrades *inside* the method. So `core` is one record,
  methods are operators from record to record (`Written`, `Downgrade`,
  `EmergencyStop`, `SetMode`), and `fuse` picks the write that fails. What
  remains asynchronous (the OBS batch, its answer, OBS events, the resync after
  a reconnection, the guards of `authorize`) are actions. `stopping` is the
  host's: from its `stop()` on (`HostStops`) the end of the watchdog's connection
  is ignored while requests are still served. Once the store has failed no write
  can fail again (`Fuse`), and an authorization goes from its guards to the
  second look at the gate and the write (`Submit`, `Guarded`, `Authorized`).
- `Watchdog`. `host` and `wd` are the two processes, `toHost`/`toWd` what is on
  the connection, whose end is a message behind the data. `handed` remembers
  that the watchdog made OBS safe while the host is in real output.
- `PluginKernel`. `job` is what holds the lock: a pass, a replacement or the
  shutdown, as a stack of frames for the unloading of an entry behind its
  consumers. An action is the code between two awaits. Each wait ends well or
  fails; how long an instance stayed active is open, so any failure may or may
  not clear the count of attempts.
- `Sidecar`. `phase` is where `startSidecar` of an activation is, `disposal` the
  stage of its disposer and of `ManagedProcess.stop`, `waiter` the hub's
  `#waiting` for the role, `child` and `link` the process and its connection,
  `report` the failure that the kernel was told of. It takes note of it only when
  the instance is in place (`Serves`); one that is told before, between the
  handshake and the end of the activation (`shaken`), is dropped for good
  (`Reports`).
  The kernel goes on to the next activation when the disposer has returned or
  has had its time (`LetGo`). One assumption on time is built in: a child that
  has no connection has been killed before that time is over (the stages of
  `stop` without a shutdown request take the grace period once).
- `RpcPeer`. `call`/`settled` are the caller's pending calls, `serving` the
  other's inflight requests, `out` and `back` the wire. Both peers call alike,
  so one direction is modelled.
- `StagePlayback`. `service` and `spoken` are the Stage service and its
  `playing` map with the results of `play()`; `session` is what the host knows
  of the connection, `conn` whether it is there, `page` and `queue` the page and
  its worklet, `toPage`/`toHost` what is on the way. `heard` counts what has
  been played, so results can be compared with it. A connection that ends keeps
  an arbitrary beginning of what is on it. The page's clock (mute, permit) may
  run out at any time, since it counts rendered frames. The heartbeat and its
  answer are one step (`SendBeat`), because only its absence matters; `missed`,
  `gap` and `absent` remember what the properties except.
- `StageSession`. `page` is what the page does, `shows` the token it has yet to
  show and `key` its session key; `pending` and `session` are the connections
  the host counts, which outlast the page's by the time the host needs to see
  their end; `resume`, `spaced` and `retry` are the ticks left until
  `resumeUntil`, the next permitted distribution and the timer `retry`;
  `writing` is `distributing`, before and after OBS has the URL.
- `StageSync`. Time goes by ticks. `playing`/`played` is the page, `pipe` the
  sound between it and the meter, `pending`, `quiet`, `above`, `delay` the
  fields of `StageSync` and of its estimator (whose median is that of one
  sample), `link` and `retry` its connection, `shown` what `publish` gave the
  stage. It relies on a relation of constants that its head states: the quiet
  it waits for is longer than the true delay.
- `ObsControl`. `queue` is the promise chain `queue`, `step` where `perform`
  of an action is, `permit` the lease that is valid, `client`, `opening` and
  `sockets` the connections, `plugin` the kernel's unloading as the plugin sees
  it.
- `SpeechArbiter`. `queue`, `active`, `running` are the arbiter's fields,
  `active.at` the await of `speak()` it is in; `checks` and `holds` are the
  sentences before the moderation and before the operator. What the other side
  answers is an action for each answer; every stop, change of mode, preemption
  or unloading may come at each wait. Time is absent: what may expire may do so
  at any moment.
- `CloudTts`. `stage` of a sentence is where `start()` and `#run` are (`left`:
  aborted while the line was being opened), `fifo` the `Serial`, `flushes` and
  `retrying` the locals of `#run`, `line` the connection with `up` and `down` on
  it, `recent` and `blocked` the two limits as ticks that remain. The limit is
  what a sentence waits for before its first text; a text sent again does not
  ask for it, in the code and here (section 6).
- `LocalTts`. `request` and `live` are the RPC and the `streams` map; `queue`,
  `waiting`, `ended`, `error` the `AudioStream`; `got` and `outcome` what its
  consumer has seen.
- `IntentScanner`. `scan` is the record of the scanner's fields, `heard` the
  deltas one after the other. A character is one of those the code treats
  differently; a key is one character; a chunk may end behind any of them.
  `Json` is a grammar over whole texts, written without a look at the scanner's
  states.
- `Director`. `pool` is triage's candidates as a number, `pending` the triggers
  merged meanwhile, `call` the call in flight, `stream` the stream handed to
  speech, `failures`/`filler`/`alarmed` the streak of failures.
- `ModelCall`. `phase` is the await of `complete()`, `timer` what it has armed,
  `failure` the first cause, `wire` what has come and was not read; a chunk is
  of the kind that matters (`talk`, `text`, `stop`, `cut`, `rubbish`, `fault`,
  the end mark).
- `Vote`. `open` and `facts` are the ledger's projection, `intent` the intents
  of the votes, `inst` the instances of the plugin (two while one replaces the
  other), `said` what the arbiter was asked to announce.
- `BilibiliClient`. `run` is where `#run` and the session are, `heart`,
  `misses`, `dead`, `gap` its counters, `room` the platform's side; `owed`
  remembers a session that the client knows of and has not asked to end.
- `MemoryOutbox`. `outbox`, `tombs`, `dropped` are the ledger's projection,
  `call` the batch between composing, authorizing and answering, `split` the
  size after a refusal, `due` the timer.
- `TelemetryQueue`. `queue`, `batch`, `timer`, `state` as in `TelemetryCore`,
  `file` the batches in the file of `FileWriter`; a synchronous writer is the
  case in which nothing happens between `Flushing` and `Writes`.
- `AvatarLink`. `phase` is the await of `connect()`, `socket` its connection
  (`closing`: the code has closed it), `client` whether the session is the
  client's, `retry` and `ticker` the timers, `token` what the secret store has,
  `injecting` the injection whose answer has not come: the ticker is set again
  when it has (`Injected`), and not at all once the plugin is aborted, although
  the session still stands until the disposers run.

## 3. Runs

| run | question | result |
|---|---|---|
| `intents` | two intents on one target, two callers, two payloads, a crash and store faults: at most once, written ahead, quarantine, events replay to the table, calls and rows agree, `OnceOnly` is implemented, what is executing gets its result | holds |
| `safety` | operator, plugins, watchdog, a store that fails at any write, an OBS that answers and reports late; M2 ends with presence; OBS made safe from outside ends real output | holds |
| `watchdog` | hangs, a broken connection, deaths, restarts of the watchdog | holds |
| `kernel` | a consumer in front of its provider, a rival with a bad configuration, two switches, a retry or replacement, three faults | holds |
| `stage` | a sentence under two tokens while a connection breaks or the page is loaded anew: what is reported was heard, orders are obeyed | holds |
| `stage_live` | a host or a page that hangs: only a silent page fails the service, every sentence ends | holds |
| `speech` | four utterances of rising rank, a queue of two, M1 and M2, the review, and everything that may overtake a wait: answered once and queued by rank, one mouth, the silenced stay silent, no request or hold waits for ever | holds |
| `services` | memory, live chat, vote, RPC, director and its scanner, each with what fails around it | holds |
| `devices` | leases, cloud and local TTS, telemetry, sidecars, OBS control, avatar, stage sync, model calls and the page's admission, each with what fails at its other end | holds |
| `kernel_lost`, `stage_lost`, `speech_m1` | one statement of the docs or the code each | violated, see section 6 |

What the properties say is at their definitions. A property named in a
configuration may join several: `SafetyHolds`, `KernelIsSound`,
`PlaybackIsTrue`, `RequestsAreKept` and the like are
conjunctions of named parts, and those of the components in `MCServices` and
`MCDevices` join invariants, action and liveness properties.

Bounds, and why they are enough:

- `intents`: quarantine needs two intents of one target; recording an effect
  under the wrong authorization needs two payloads; doubling needs two callers
  and a crash between effect and record. `MaxCrashes = 1` covers a crash in
  every state, the recovery included; the proofs cover any number. Calls and
  keys are symmetric by construction, no symmetry set is used because the run
  also checks liveness.
- `safety`: `MaxFuse = 4` is beyond the writes of any one method at this size
  (a stop revokes two leases, sets the mode and records itself); one critical
  plugin and one guest, the exempt lease (the Stage URL) and one other.
- `watchdog`: one hang, one broken connection and one restart, with any number
  of deaths of the watchdog within it. `MaxUnread = 0`: a heartbeat is taken to
  be late without reason only when the host has read its reports.
- `kernel`: `Retries = 1` tells "has a retry left" from "has given up"; three
  faults let a provider fail, its retry fail and its consumer fail. Two switches
  let an entry be disabled while its retry timer fires and enabled again before
  the pass: it stays FAILED with a retry left (section 6). `ComesBack` excepts
  that entry (`LeftAlone`), and `OnlyIdleTimersAreSpent` says that this is the one
  way to get there; without the exception TLC finds it.
- `stage`, `stage_live`: one sentence of one chunk, which is not forwarded yet,
  on the way, lost, queued or played; two tokens, so that an old and a new one
  meet; two messages on the way, so that an order can overtake nothing but be
  lost behind another; `Patience = 1` tells "one heartbeat missed" from "failed".
  The breaks are in one run and the hangs in the other, because together they
  are too many states for liveness.
- `speech`: the reply has two sentences, so that something can happen between
  them, and the warning one, so that two utterances follow each other on the
  stage; a notice preempts the reply and the warning may not be dropped. The
  hello and the notice have no sentence: they are there to wait, so that the
  queue of two has an order and drops its last. `MaxChanges = 1` lets the mode
  change at any wait once.
- `services`: memory: an item that Iris refuses beside two that it takes, in
  batches of two, so that halving is needed; a capacity of two with three items
  makes the full outbox drop; one restart. Live chat: limits of two tell the
  first failure from the last. Vote: two votes and two instances, so that one
  meets the other's remains; one crash, one stop. RPC: two calls with
  `MaxInflight = 1`, so that one is refused. Director: a pool of two of which
  one is taken, so that one waits; the alarm after two failures. Scanner: six
  outputs with everything the grammar has, and each of them with any one
  character replaced by any other (3491 texts, of which most are no JSON).
- `devices`: leases: `MaxTime = 4` exceeds every time to live, so a lease is
  renewed, expires and is granted again; three tokens allow a grant, a
  revocation and a stale third. Cloud TTS: two sentences, one text per window
  of two ticks, a life of three, so that a sentence can wait and live, or wait
  and expire; two texts unconfirmed at a time, so that a resend and its
  original cross. Telemetry: a queue of three and batches of two leave a
  remainder and overflow behind a write; six records meet every state.
  Sidecar: two activations meet. OBS: the second action waits for the first.
  Stage sync: a delay longer than the initial estimate, shorter than estimate
  and guard together; sentences that begin at once, after a silence, with a
  pause, and with none. Local TTS: streams of two frames and one. Model: two
  calls, so that the second would see remains of the first; one text is the
  limit of the output, so that the second exceeds it. The page: a time to
  come back (three ticks) longer than the distance of two URLs (two), as in the
  defaults, so that the later plan can stand when the earlier is needed; three
  mishaps meet each other while a URL is being written.

`CHECK_DEADLOCK FALSE` stands where the system really may stop: a process that
waits for a restart the bound does not allow, a host that is gone, a settled
kernel, a plugin that was unloaded. `SafetyCore` never stops.

## 4. Fairness

- `IntentStore`: a started process goes on, a request that was sent is taken up
  and answered or times out, the process is restarted while crashes remain. Not
  assumed: that the store recovers from a fault.
- `SafetyCore`: the presence timer fires, events of a live connection are
  delivered, the emergency connection is retried (it reconnects for ever) and
  an enquiry made over and over is answered or refused (strong fairness: the
  link may break in between).
- `Watchdog`: what arrives is read, the liveness timer fires when the host is
  silent, an action on OBS ends (every request has a deadline), the connection
  is retried. Nothing is assumed of the host's own steps.
- `PluginKernel`: a job that is not waiting goes on, a wait ends (deadlines on
  every hook), a timer fires. Nothing is assumed of the operator.
- `StagePlayback`: the audio stream goes on or ends (its provider has
  deadlines), both ends read what arrives, a page that works plays, the
  heartbeat timer fires, both ends see a closed connection. Not assumed: that a
  page that hangs goes on or that a page without a session gets one.
- `SpeechArbiter`: moderation, guards and engines have deadlines, the stage
  reports (`StagePlayback`; the sentences of `stage_lost` are the exception),
  a timer that is set fires. Nothing is assumed of the operator: with a delay
  the review ends by itself.
- `MemoryOutbox`: timers fire, requests end; what is tried again and again is
  sometimes authorized and sometimes answered by Iris (strong fairness: a batch
  that fails is taken back in between). Without the last, an outbox to an Iris
  that is always down does not drain.
- `BilibiliClient`: waits and requests end; what is opened again and again is
  sometimes opened, with links that sometimes connect (strong fairness).
- `Vote`: a crashed host is started again with the plugin, the arbiter answers,
  timers fire.
- `RpcPeer`: deadlines pass, what was sent arrives or the connection ends, and
  an end that one side has seen the other sees as well.
- `Director`: the idle timer fires, recall and call have deadlines.
- `CloudTts`: time passes, opening a line ends (connect and handshake have
  deadlines), so do the waits for audio and for a confirmation. Nothing is
  assumed of the vendor.
- `LocalTts`: the deadline of a request. Nothing is assumed of the sidecar.
- `ModelCall`: what the call has cut ends, and the caller has a deadline (the
  director's). Not assumed: that the service ever stops sending.
- `TelemetryQueue`: the timer fires, a write ends, `close()` goes on.
- `Sidecar`: a lost child is reported, an activation that the kernel was told of,
  or that failed, is given up, each stage of `stop` has its limit, a child that
  works exits when it is told. Not assumed: that a child that hangs goes on, or
  that the kernel listens: a report it drops is followed by nothing.
- `StageSession`: timers fire, an action on OBS ends, the page goes on with what
  it has begun, the end of a connection is seen. Not assumed: that a refused
  page is loaded anew by anybody but the host.
- `ObsControl`, `AvatarLink`: connecting ends, requests are answered or time
  out, the retry timer fires. `StageSync`: a connection opens or fails.
- `MCServices` and `MCDevices` state one condition for several components at a
  time: since a behaviour has steps of one of them, it is the condition of that
  one.

## 5. Proofs

- `IntentStore_proofs`: type correctness, `AtMostOnce`,
  `WrittenAheadAsAuthorized`, `Quarantine`, `ExecutingHasItsCall`, and that the
  store implements `OnceOnly`; and that the events of an intent, replayed, are
  its row (`TableIsReplayOfEvents`). "At most once" is not inductive: that a second
  call cannot exist depends on the row being `executing` only while exactly one
  call, request or effect stands for it. The strengthening (`OneCallPerIntent`,
  `CallsHoldRows`, `NoTraceBeforeStart`, `StartedRowsAreRecorded`) says where
  the trace of an intent may be in each state of its row; a crash keeps it
  because recovery only leaves states in which nobody will send. For the replay
  a lemma says what appending one event does to a lawful history; that an event
  may follow is the state that each transaction looks at before it writes.
- `Leases_proofs`: type correctness, `TokensAreCounted`,
  `DevicesAgreeWithHost`, `StaleTokensStayStale`. The invariant `ToldAsHeld`
  ties what devices were told to the lease the host has; staleness for good
  follows because the counter is never behind a token that anybody knows.
- `SafetyCore_proofs`: type correctness, `LeasesFollowTheMode`, `ModeIsTrue`
  (what a mode was granted for holds while it lasts: a watchdog as long as the
  host is not stopping, moderation for M3, a timer for M2; the mode told last is
  the mode, or too high after a fault of the store) and the action property
  `ModeMovesSafely` (up only by a request that earns it, into safe-stop only with
  OBS asked to mute), for any
  number of plugins and resources and any place in a method at which the store
  fails. Since methods are operators on records, the invariant is carried by
  lemmas on them: `Follow` (leases follow the mode), `Lowers` (a downgrade keeps
  `Follow` and does not raise the mode), `Writes` (a write does one of the two),
  in the order in which the operators call each other; each action then is one
  lemma. The second half follows the mode through the same operators: it
  `Stays`, with its timer and what was told of it, or it `Sinks`, and both are
  set anew; two such steps are one (`FallsOn`), so a method with any number of
  failing writes is one too.
- `Services_proofs`, the director: for pools, limits and alarms of any size,
  streams are closed, recalls are reported once, no trigger is forgotten, no
  call outlives the plugin (`CallsAreTidy`), and what comes cancels only idle
  talk that nobody has heard (`OnlyIdleTalkGivesWay`). A trigger cannot be
  forgotten because while `run` works it looks at `pending` again before it
  ends; that is the part of the invariant that ties `running`, `pending` and
  `call`.
- `Services_proofs`, the client of the live platform: for any limits, every
  session the client knows of and has not asked to end is the one it still
  holds, silences lie inside gaps and the heartbeat lasts as long as the
  session. That a session is not left behind needs to know where one is
  recorded while `stop()` and the run cross (`SessionsAreRecorded`).
- `Watchdog_proofs`: `OutputIsWatched`, for any number of hangs, breaks and
  restarts and queues of any length, and while the host serves: of a host that is
  stopping nothing is claimed, and a watchdog whose end is still to be read counts
  as one. What the host has not noticed is the end of
  the connection that is still in its queue (`WatchdogConnected`); the lemmas
  say that an end stays in a queue until it is read, and each step that takes a
  watchdog away leaves its end there.
- `SpeechArbiter_proofs`: `RequestsAreKept` and the action property
  `OneAllowedVoice`, for any utterances, ranks and lengths of the queue. The
  invariant accounts for each request: of all that were asked each one waits
  once, has the turn, or was told once (`Accounted`), and the queue is in the
  order of the ranks (`WaitsByRank`), from which follows who is dropped and who is
  preempted. That equals keep the order in which they came is not stated.
  That a silenced sentence stays silent needs that it still has the turn and is
  halted (`SilencedAreHalted`), and that the plugin's stop empties the queue for
  good needs `LeavingIsStopped`; a sentence is beyond the moderation only with a
  verdict that lets it pass (`SpeaksAsPassed`).
- `StagePlayback_proofs`: `PlaybackIsTrue` and the action property
  `OnlySilentPagesFail`, for any sentences of any length, any number of tokens,
  broken connections and stalls. That a result is what was heard needs the whole
  way there: a sentence begins once and before all else that is said of it
  (`BeginsComeFirst`), its chunks on the way can be numbered so that none comes
  twice (`ChunksComeOnce`: the messages carry no number, so the invariant says
  that there is a numbering), an end on the way means that all was forwarded
  unless a truncation goes before it (`EndsAreWhole`), and reports only name
  what was heard (`ReportsAreTrue`). That orders are obeyed needs that the last
  token on the way is the one told last (`LastTokenIsTold`) and that whatever
  the page has against an order has the order on its way behind it
  (`TokensArrive`, `CutsArrive`). Unloading ends all sentences at once, which
  is a fold over a set; `FewPlay` says that it is finite. The silent page needs
  `SilenceIsSomebodys`: a silence that is counted is a heartbeat that was not
  answered, or the host's own.
- `PluginKernel_proofs`: for any profile, plugins, versions, calls, faults and
  retries. For any needs: a kernel whose loop has ended has no entry left to load
  or to stop, registrations are of instances, restarts are counted, a shutdown
  leaves nothing (`KernelSettles`); an entry that has failed has its timer or no
  retries left, but for one whose timer fired while it was disabled
  (`TimersAreKept`, a statement about steps: in the state the two look alike).
  When the profile is `Layered` also
  `KernelIsSound` and `LeavesInOrder`. The invariant says for each frame of
  `stack` what has been done of its unloading (`FramesAreTrue`), that whoever is
  on the way out has exactly one frame (`LeavingAreOnStack`), where the holder
  of the lock is and what that says of the entries (`JobIsTrue`), and that
  without a request there is nothing to be done, nor behind the place of the pass
  (`NothingIsLeft`): the fixed point at the end of the loop is that conjunct
  without its exceptions. `dirty` is what makes it inductive: each step that
  gives an entry something to do asks for another pass or is one that will go
  round again (`LoopIsTrue`). For the order of leaving, frames are layered:
  the frame on top is of an entry above all that wait for it, so a consumer
  that is still quiescing lies above its provider and goes first.
  `Layered`: entries can be numbered so that no version of one needs what an
  entry of the same or a higher number provides. The plugins of the repository
  are of that kind (OBS control, page, stage, arbiter and avatar, vote and
  director, ...: their `inject` lists have no cycle, whichever of two rivals is
  taken), but the kernel does not check it. Without it `KernelIsSound` is false:
  TLC finds "a replacement" of section 6 with two plugins that need each other.
  `LeavesInOrder` holds in that instance, but its proof orders the frames by the
  layers; whether it needs them is open. The run's profiles are layered
  too (`ProfileIsLayered`, evaluated by TLC).

The theorems `EffectsAreAsIntended`, `TheStoreIsSound`, `TheLeasesAreSound` and
`TheCoreHolds` put these together as the runs name them. Assumptions are the
named `ASSUME`s of the modules, which TLC evaluates in each run. Only
model-checked: everything temporal with fairness, and the conditions of the
components in `MCServices` and `MCDevices` that have no module of proofs. Out of the prover's reach:
liveness and `ENABLED`, induction over data, recursive operators.

## 6. Where the code and its words differ

- `kernel_lost`: a failure reported during activation, or by the staged
  instance of a replacement, is dropped; a sidecar reports it once only.
- `stage_lost`: a sentence whose `begin`, `end` or report was lost with a
  connection that is there again before the page counts as silent has no end:
  `play()` waits until the service is unloaded, and a later `truncate` does not
  help, since the page does not know the sentence any more.
- `speech_m1`: the mode is looked at once, after the moderation; a change from
  M2 to M1 while the sentence is authorized or synthesized does not send it to
  the review, and it is played in M1 without release or delay.

Seen while modelling, without a run of its own:

- Host, while it stops (`host/src/main.ts:411`): the operator's request for
  real output is still served and the end of the watchdog's connection is
  ignored (`:259`), so real output may be left without a watchdog: `SafetyCore`
  has it, `ModeStaysEarned` and `HotkeyEndsOutput` except it. A watchdog that connects after the notice of the planned stop
  (`:417`) hears nothing of it and acts.
- Kernel (`kernel.ts:666`): the retry timer is spent when it finds the entry
  disabled; enabled again before the pass comes by, the entry stays FAILED with
  retries left (`LeftAlone` in `PluginKernel`). Optional dependencies are not resolved again later.
- Kernel: a replacement looks for what the new version lacks before the old one
  is unloaded (`kernel.ts:338`), not after (`:351`). A new version that needs a
  service that the old one, or one of its consumers, provided is published
  without it and stays active until the next pass. No plugin of the repository
  is like that.
- Launcher: `Session.stop` during `await startWatchdog` leaves a new watchdog.
- Sidecar: the kernel waits 2 s for a disposer, the stages of
  `ManagedProcess.stop` may take 6 s; a child with a connection that hangs may
  still live when its successor starts. A child that is lost while the plugin is
  still activating leaves an activation that serves without it (`kernel_lost`;
  `Settled` of `Sidecar` excepts it).
- OBS control: a deactivation while `connector.connect()` is pending closes
  nothing; the connection that opens afterwards stays open
  (`docs/modules/plugin-kernel.md:9`: every connection is a registration that
  can be revoked). `ObsControl` has it in `sockets`; avatar and stage sync
  close theirs.
- Cloud TTS (`minimax.ts`): a text that is sent again after 2205 does not pass
  `#slot`, so more than `rpm` may leave within a window (`StartsWithinLimit`
  speaks of first texts only); a 1002 during a
  cancellation does not block the window; a connection whose opening was
  outlived by an abort has no idle timer until it is used.
- Memory: a batch may leave before the time of `Retry-After` is over, because
  `schedule` keeps an earlier timer.
- RPC: an answer that is too large throws out of the `catch` of `#serve`.
- Live chat: a session whose opening reply is lost or aborted by `stop()` is
  left to the platform; an invalidated session does not reset the backoff
  although its link was stable.
- Director: with `idleMs = 0` candidates beyond `maxCandidates` wait for the
  next trigger; an idle call whose recall answer loses the race to its
  cancellation is not reported to the memory.
- Stage page: a hello that is too late, or cut off, or met by a connection that
  said nothing yet, does not make the host hand the URL out again, as
  `page.js:35` expects; nor does a request for another URL while the one before
  is still being confirmed (`obs-page.ts:187`). `StageSession` has these as
  `vain`, and shows that they are the only ways to be left outside.

## 7. Plan

1. `TtsRouter` and the engine over Volcengine, beside `CloudTts`; an abstract
   engine ("a sentence ends once, what is heard is its own") that both engines
   and `LocalTts` implement.
2. The link of the live chat (`link.ts`), the probes of the memory and the
   model.
3. An abstract output gate that `SafetyCore` implements.
4. Proofs: the invariants of `TelemetryQueue`, `ObsControl`, `Vote`, `RpcPeer`
   and `MemoryOutbox`.

## 8. Not modelled

- The rate limits of the safety core and the facade's view per plugin; the
  simulation mode M0 is in `SafetyCore` but no run has `Simulation = TRUE`.
- Extension points, versions and permissions of services in the kernel (each
  only adds reasons to wait), and the refusal to replace a critical plugin in
  real output.
- SQL text, schema upgrades, configuration, generated validators, texts and
  pages of the operator, the Iris client's requests, host preflight: pure input
  and output.
- Moderation, privacy and triage's rules: functions of text, seen as verdicts.
- The mouth over time, the alignment of words, resampling, the median of the
  delay: numbers that no property here depends on.
- The simulator, spikes and drills: harnesses, not parts of the running system.
- Everything of section 7 that has no module yet.
