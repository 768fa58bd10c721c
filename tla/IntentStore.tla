------------------------------ MODULE IntentStore ------------------------------
(***************************************************************************)
(* The state store's intents (packages/store): a side effect is written    *)
(* down before it is carried out, its result afterwards, and whatever a    *)
(* crash or a storage fault leaves half done is never carried out again.   *)
(*                                                                         *)
(* One StateStore is used by the callers of one host process.  Every       *)
(* method is synchronous, so a transaction is one step; executeIntent      *)
(* awaits the effect, so a call is several steps with anything between     *)
(* them.  The table and the events are durable, the calls and `healthy`    *)
(* are lost with the process.  Requests that have left the process (`wire`)*)
(* and their effects (`performed`) belong to the outside world.            *)
(***************************************************************************)
EXTENDS Naturals, Sequences

CONSTANTS
    Key,            \* idempotency keys, one per intent
    Target,         \* what the effects act on
    TargetOf,       \* [Key -> Target]
    Payload,        \* payload digests
    Sensitive,      \* keys of time-sensitive intents
    Interruptible,  \* keys `RecoveryOptions.interrupt` recognises
    Caller,         \* concurrent asynchronous calls of the host
    None,           \* "no key", "no payload"
    MaxCrashes      \* bound on the number of crashes

ASSUME StoreAssumption ==
    /\ TargetOf \in [Key -> Target]
    /\ Interruptible \subseteq Sensitive
    /\ Sensitive \subseteq Key
    /\ None \notin Key \cup Payload
    /\ MaxCrashes \in Nat

VARIABLES
    phase,      \* the process: "down", "opened" (open() done), "up" (recover() done)
    healthy,    \* StateStore.#healthy
    row,        \* the intents table: [Key -> [state, payload]]
    history,    \* the events table, per intent, in order of seq
    call,       \* the calls of the process: [Caller -> [pc, key, payload]]
    wire,       \* requests of effects sent and not yet taken up: <<key, payload>>
    performed,  \* effects carried out outside: [Key -> Seq(Payload)]
    crashes     \* number of crashes so far

vars == <<phase, healthy, row, history, call, wire, performed, crashes>>

durable == <<row, history>>
outside == <<wire, performed>>
-----------------------------------------------------------------------------
IntentState == {"none", "pending", "executing", "succeeded", "failed", "unknown"}

EventType == {"authorized", "started", "succeeded", "failed", "abandoned",
              "orphaned", "interrupted", "reconciled-ok", "reconciled-failed"}

\* TRANSITIONS: the moves the table allows; "none" is the absent row.
Transitions ==
    { <<"pending", "executing">>, <<"pending", "failed">>,
      <<"executing", "succeeded">>, <<"executing", "failed">>,
      <<"executing", "unknown">>,
      <<"unknown", "succeeded">>, <<"unknown", "failed">> }

Idle == [pc |-> "idle", key |-> None, payload |-> None]
Holding(k) == [pc |-> "holding", key |-> k, payload |-> None]
Started(k, p) == [pc |-> "started", key |-> k, payload |-> p]

CallState ==
    {Idle} \cup {Holding(k) : k \in Key}
           \cup [pc : {"started", "sent"}, key : Key, payload : Payload]

TypeOK ==
    /\ phase \in {"down", "opened", "up"}
    /\ healthy \in BOOLEAN
    /\ row \in [Key -> [state : IntentState, payload : Payload \cup {None}]]
    /\ history \in [Key -> Seq(EventType)]
    /\ call \in [Caller -> CallState]
    /\ wire \subseteq Key \X Payload
    /\ performed \in [Key -> Seq(Payload)]
    /\ crashes \in 0..MaxCrashes

Init ==
    /\ phase = "down"
    /\ healthy = TRUE
    /\ row = [k \in Key |-> [state |-> "none", payload |-> None]]
    /\ history = [k \in Key |-> <<>>]
    /\ call = [c \in Caller |-> Idle]
    /\ wire = {}
    /\ performed = [k \in Key |-> <<>>]
    /\ crashes = 0
-----------------------------------------------------------------------------
(* Transactions.                                                           *)

In(state) == {k \in Key : row[k].state = state}

\* #isolated: some intent on the target has an unknown result.
Isolated(t) == \E k \in In("unknown") : TargetOf[k] = t

\* #move and #update: one transaction that updates the row, if the row may move
\* so, and appends the event.
Move(k, to, event) ==
    /\ <<row[k].state, to>> \in Transitions
    /\ row' = [row EXCEPT ![k].state = to]
    /\ history' = [history EXCEPT ![k] = Append(@, event)]

\* #classify: an I/O error rolls the transaction back and makes the store
\* unavailable until the next start; the call that met it ends with a throw.
StorageFault(c) ==
    /\ phase = "up"
    /\ healthy
    /\ healthy' = FALSE
    /\ call' = [call EXCEPT ![c] = Idle]
    /\ UNCHANGED <<phase, durable, outside, crashes>>

\* transaction() refuses at once when the store is unavailable.
Refused(c) ==
    /\ phase = "up"
    /\ ~healthy
    /\ call[c].pc # "idle"
    /\ call' = [call EXCEPT ![c] = Idle]
    /\ UNCHANGED <<phase, healthy, durable, outside, crashes>>
-----------------------------------------------------------------------------
(* authorize                                                               *)

\* Mutant of Authorize: the isolation of the target is not asked.
AuthorizeIsolated(c, k, p) ==
    /\ phase = "up"
    /\ healthy
    /\ call[c].pc = "idle"
    /\ row[k].state = "none"
    /\ row' = [row EXCEPT ![k] = [state |-> "pending", payload |-> p]]
    /\ history' = [history EXCEPT ![k] = Append(@, "authorized")]
    /\ call' = [call EXCEPT ![c] = Holding(k)]
    /\ UNCHANGED <<phase, healthy, outside, crashes>>

\* A new key: refused while the target is isolated, else written as pending.
Authorize(c, k, p) ==
    /\ phase = "up"
    /\ healthy
    /\ call[c].pc = "idle"
    /\ row[k].state = "none"
    /\ ~Isolated(TargetOf[k])
    /\ row' = [row EXCEPT ![k] = [state |-> "pending", payload |-> p]]
    /\ history' = [history EXCEPT ![k] = Append(@, "authorized")]
    /\ call' = [call EXCEPT ![c] = Holding(k)]
    /\ UNCHANGED <<phase, healthy, outside, crashes>>

\* A known key with the same request: the existing intent is returned and
\* nothing is written (not even the health is asked).  Other requests under
\* the key throw.
Duplicate(c, k, p) ==
    /\ phase = "up"
    /\ call[c].pc = "idle"
    /\ row[k].state # "none"
    /\ row[k].payload = p
    /\ call' = [call EXCEPT ![c] = Holding(k)]
    /\ UNCHANGED <<phase, healthy, durable, outside, crashes>>
-----------------------------------------------------------------------------
(* executeIntent                                                           *)

\* Mutant of Start: the row is overwritten without asking whether it may move.
StartAnyway(c, p) ==
    LET k == call[c].key IN
    /\ phase = "up"
    /\ healthy
    /\ call[c].pc = "holding"
    /\ p = row[k].payload
    /\ row' = [row EXCEPT ![k].state = "executing"]
    /\ history' = [history EXCEPT ![k] = Append(@, "started")]
    /\ call' = [call EXCEPT ![c] = Started(k, p)]
    /\ UNCHANGED <<phase, healthy, outside, crashes>>

\* The payload handed in has the digest that was authorized and the intent is
\* still pending: marked executing before anything is done.
Start(c, p) ==
    LET k == call[c].key IN
    /\ phase = "up"
    /\ healthy
    /\ call[c].pc = "holding"
    /\ p = row[k].payload
    /\ Move(k, "executing", "started")
    /\ call' = [call EXCEPT ![c] = Started(k, p)]
    /\ UNCHANGED <<phase, healthy, outside, crashes>>

\* Another payload, or an intent that may not start (another call started
\* it, it is closed): the call throws.  A caller that sees a duplicate and
\* leaves it alone ends here too.
Throw(c) ==
    /\ phase = "up"
    /\ call[c].pc = "holding"
    /\ call' = [call EXCEPT ![c] = Idle]
    /\ UNCHANGED <<phase, healthy, durable, outside, crashes>>

\* The effect gets as far as sending its request.
Send(c) ==
    /\ phase = "up"
    /\ call[c].pc = "started"
    /\ call' = [call EXCEPT ![c].pc = "sent"]
    /\ wire' = wire \cup {<<call[c].key, call[c].payload>>}
    /\ UNCHANGED <<phase, healthy, durable, performed, crashes>>

\* The outside takes the request up: at once, late, after a crash or never.
Land(k, p) ==
    /\ <<k, p>> \in wire
    /\ wire' = wire \ {<<k, p>>}
    /\ performed' = [performed EXCEPT ![k] = Append(@, p)]
    /\ UNCHANGED <<phase, healthy, durable, call, crashes>>

\* The effect resolves, having sent a request or found nothing to send.
Succeed(c) ==
    LET k == call[c].key IN
    /\ phase = "up"
    /\ healthy
    /\ call[c].pc \in {"started", "sent"}
    /\ Move(k, "succeeded", "succeeded")
    /\ call' = [call EXCEPT ![c] = Idle]
    /\ UNCHANGED <<phase, healthy, outside, crashes>>

\* Mutant of Fail: the error leaves executeIntent without a result written.
FailUnwritten(c) ==
    /\ phase = "up"
    /\ healthy
    /\ call[c].pc \in {"started", "sent"}
    /\ call' = [call EXCEPT ![c] = Idle]
    /\ UNCHANGED <<phase, healthy, durable, outside, crashes>>

\* The effect throws: before sending, or without an answer in time.
Fail(c) ==
    LET k == call[c].key IN
    /\ phase = "up"
    /\ healthy
    /\ call[c].pc \in {"started", "sent"}
    /\ Move(k, "failed", "failed")
    /\ call' = [call EXCEPT ![c] = Idle]
    /\ UNCHANGED <<phase, healthy, outside, crashes>>
-----------------------------------------------------------------------------
(* resolve: an unknown result is settled by its owner, who asked the       *)
(* outside (never for a time-sensitive intent), or by the operator.        *)

Resolve(k, ok, by) ==
    /\ phase = "up"
    /\ healthy
    /\ row[k].state = "unknown"
    /\ by = "reconcile" => k \notin Sensitive
    /\ \/ ok /\ Move(k, "succeeded", "reconciled-ok")
       \/ ~ok /\ Move(k, "failed", "reconciled-failed")
    /\ UNCHANGED <<phase, healthy, call, outside, crashes>>
-----------------------------------------------------------------------------
(* Crash and restart.                                                      *)

Crash ==
    /\ phase # "down"
    /\ crashes < MaxCrashes
    /\ phase' = "down"
    /\ call' = [c \in Caller |-> Idle]
    /\ crashes' = crashes + 1
    /\ UNCHANGED <<healthy, durable, outside>>

\* StateStore.open: the constructor replays the events.
Open ==
    /\ phase = "down"
    /\ phase' = "opened"
    /\ healthy' = TRUE
    /\ UNCHANGED <<durable, call, outside, crashes>>

\* Mutant of RecoveredState: what was under way is done again.
RecoveredToRedo(k) ==
    CASE row[k].state = "pending" -> "failed"
      [] row[k].state = "executing" -> "pending"
      [] OTHER -> row[k].state

\* Mutant of RecoveredState: what was under way is left as it is.
RecoveredUntouched(k) ==
    CASE row[k].state = "pending" -> "failed"
      [] OTHER -> row[k].state

\* What recovery makes of an intent, and the facts it records.
RecoveredState(k) ==
    CASE row[k].state = "pending" -> "failed"
      [] row[k].state = "executing" /\ k \in Interruptible -> "failed"
      [] row[k].state = "executing" /\ k \notin Interruptible -> "unknown"
      [] OTHER -> row[k].state

\* Mutant of RecoveryEvents: abandoning is not recorded.
RecoveryEventsLost(k) ==
    CASE row[k].state = "executing" /\ k \in Interruptible -> <<"orphaned", "interrupted">>
      [] row[k].state = "executing" /\ k \notin Interruptible -> <<"orphaned">>
      [] OTHER -> <<>>

RecoveryEvents(k) ==
    CASE row[k].state = "pending" -> <<"abandoned">>
      [] row[k].state = "executing" /\ k \in Interruptible -> <<"orphaned", "interrupted">>
      [] row[k].state = "executing" /\ k \notin Interruptible -> <<"orphaned">>
      [] OTHER -> <<>>

\* recover: one transaction over all the intents.
Recover ==
    /\ phase = "opened"
    /\ phase' = "up"
    /\ row' = [k \in Key |-> [row[k] EXCEPT !.state = RecoveredState(k)]]
    /\ history' = [k \in Key |-> history[k] \o RecoveryEvents(k)]
    /\ UNCHANGED <<healthy, call, outside, crashes>>
-----------------------------------------------------------------------------
CallStep(c) ==
    \/ \E k \in Key, p \in Payload : Authorize(c, k, p) \/ Duplicate(c, k, p)
    \/ \E p \in Payload : Start(c, p)
    \/ Throw(c) \/ Send(c) \/ Succeed(c) \/ Fail(c)
    \/ StorageFault(c) \/ Refused(c)

Next ==
    \/ \E c \in Caller : CallStep(c)
    \/ \E k \in Key, p \in Payload : Land(k, p)
    \/ \E k \in Key, ok \in BOOLEAN, by \in {"reconcile", "operator"} : Resolve(k, ok, by)
    \/ Crash \/ Open \/ Recover

Spec == Init /\ [][Next]_vars

\* An effect resolves or throws (each has a deadline of its own), and a start
\* that got as far as opening the store goes on to recovery.
Fairness ==
    /\ \A c \in Caller : WF_vars(Succeed(c) \/ Fail(c))
    /\ WF_vars(Recover)

FairSpec == Spec /\ Fairness
-----------------------------------------------------------------------------
(* Properties.                                                             *)

\* The state an event leaves its intent in.
StateAfter(event) ==
    CASE event = "authorized" -> "pending"
      [] event = "started" -> "executing"
      [] event \in {"succeeded", "reconciled-ok"} -> "succeeded"
      [] event \in {"failed", "abandoned", "interrupted", "reconciled-failed"} -> "failed"
      [] event = "orphaned" -> "unknown"

Replayed(h) == IF h = <<>> THEN "none" ELSE StateAfter(h[Len(h)])

\* The events alone tell the table: replaying what was recorded of an intent
\* gives the state its row is in, whatever crashed in between, and every
\* recorded step is one the lifecycle allows.
TableIsReplayOfEvents ==
    \A k \in Key :
        /\ row[k].state = Replayed(history[k])
        /\ history[k] # <<>> => history[k][1] = "authorized"
        /\ \A i \in 2..Len(history[k]) :
              <<StateAfter(history[k][i-1]), StateAfter(history[k][i])>> \in Transitions

\* One idempotency key, one effect: across callers that submit the key twice,
\* crashes and restarts, at most one request is ever made for it.
AtMostOnce ==
    \A k \in Key :
        /\ Len(performed[k]) <= 1
        /\ \A p \in Payload : <<k, p>> \in wire => performed[k] = <<>>
        /\ \A p, q \in Payload : <<k, p>> \in wire /\ <<k, q>> \in wire => p = q

\* Write-ahead: what reaches the outside was recorded as started before, and
\* carries the payload that was authorized.
WrittenAheadAsAuthorized ==
    \A k \in Key, p \in Payload :
        <<k, p>> \in wire \/ (\E i \in DOMAIN performed[k] : performed[k][i] = p) =>
            /\ \E i \in DOMAIN history[k] : history[k][i] = "started"
            /\ p = row[k].payload

\* A target with an unknown result is quarantined: nothing else is under way
\* on it, neither from before the restart nor authorized since.
Quarantine ==
    \A k \in In("unknown"), j \in Key :
        TargetOf[j] = TargetOf[k] => row[j].state \notin {"pending", "executing"}

\* While the store is available no intent is left executing without the call
\* that carries it out; and two calls never carry out the same intent.
Runs(c, k) == call[c].pc \in {"started", "sent"} /\ call[c].key = k

OneCallPerIntent ==
    \A c, d \in Caller, k \in Key : Runs(c, k) /\ Runs(d, k) => c = d

ExecutingHasItsCall ==
    /\ phase = "up" /\ healthy =>
          \A k \in In("executing") : \E c \in Caller : Runs(c, k)
    /\ OneCallPerIntent

\* What the induction for the properties above needs besides them: a call at
\* work holds an executing row whose payload it was given; a process that is
\* not up has no call; and an intent that has not got as far as its request
\* has left no trace outside.
Outside(k) == performed[k] # <<>> \/ \E p \in Payload : <<k, p>> \in wire

HoldsRow(c) ==
    /\ phase # "up" => call[c] = Idle
    /\ call[c].pc \in {"started", "sent"} =>
          /\ row[call[c].key].state = "executing"
          /\ call[c].payload = row[call[c].key].payload
    /\ call[c].pc = "started" => ~Outside(call[c].key)

CallsHoldRows == \A c \in Caller : HoldsRow(c)

NoTraceBeforeStart ==
    \A k \in Key : row[k].state \in {"none", "pending"} => ~Outside(k)

StartedRowsAreRecorded ==
    \A k \in Key :
        row[k].state = "executing" =>
            \E i \in DOMAIN history[k] : history[k][i] = "started"

\* An intent under way does not stay executing: it gets its result, or the
\* store has failed, or the process is gone (and the next start orphans it).
ExecutingSettles ==
    \A k \in Key :
        (phase # "down" /\ row[k].state = "executing")
            ~> (row[k].state # "executing" \/ ~healthy \/ phase = "down")

\* What the store promises, without table, events, calls or crashes.
Promise == INSTANCE OnceOnly WITH
    begun <- {k \in Key : \E i \in DOMAIN history[k] : history[k][i] = "started"},
    acted <- [k \in Key |-> Len(performed[k])],
    closed <- In("succeeded") \cup In("failed")

ImplementsOnceOnly == Promise!Spec

\* The store is what it says: its state has its types, and an intent it shows
\* as executing is being executed, by one call (store.ts: executeIntent, recover).
StoreIsSound == TypeOK /\ ExecutingHasItsCall

\* What happens outside was meant to: once at most, recorded before it was
\* begun, with the payload that was authorized (store.ts: executeIntent).
EffectsAsIntended == AtMostOnce /\ WrittenAheadAsAuthorized
=============================================================================
