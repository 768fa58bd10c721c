-------------------------------- MODULE Vote --------------------------------
(***************************************************************************)
(* The voting plugin (audience/src/vote.ts) and its ledger, a projection   *)
(* of the store: a vote is authorized, announced, counted down and ended,  *)
(* or aborted by a safe stop, by an announcement that is not played whole, *)
(* by the unloading of the plugin or by a restart.  While the plugin is    *)
(* replaced, two instances of it live side by side.                        *)
(*                                                                         *)
(* Ballots are not modelled.  The gate answers what it may, a vote's       *)
(* intent and its effect are one step that only a crash can split.         *)
(***************************************************************************)
EXTENDS Naturals

CONSTANTS Vote,         \* votes, by their ids; each is asked for at most once
          Instance,     \* instances of the plugin
          None,
          MaxCrashes,   \* bound
          MaxStops      \* bound: safe stops

VARIABLES
    mode,       \* of the safety core: on, safe-stop
    open,       \* the ledger's open vote, or None
    intent,     \* [Vote -> its vote.start intent in the store]
    facts,      \* [Vote -> how often it was recorded as started, ended, aborted]
    said,       \* [Vote -> how often its opening and its result were requested]
    asked,      \* votes asked for
    inst,       \* [Instance -> the instance]
    crashes, stops

vars == <<mode, open, intent, facts, said, asked, inst, crashes, stops>>
durable == <<open, intent, facts>>

\* phase: announcing (the opening is requested), counting (the timer runs)
Gone == [life |-> "gone", starting |-> None, running |-> None, phase |-> "none"]
Alive == {i \in Instance : inst[i].life # "gone"}

Count(v, fact) == [facts EXCEPT ![v][fact] = @ + 1]

\* The ledger after a vote has been recorded as over (voteLedger).
Over(v) == IF open = v THEN None ELSE open

\* abort() and close() clear the vote that runs; only the one that the ledger has
\* open is recorded (stillOpen): a newer instance may have aborted it.
RecordOver(v, fact) ==
    IF v # None /\ open = v
    THEN open' = None /\ facts' = Count(v, fact)
    ELSE UNCHANGED <<open, facts>>

Cleared(i) == [inst[i] EXCEPT !.running = None, !.phase = "none"]

(***************************************************************************)
(* Instances                                                               *)
(***************************************************************************)
\* What activate() finds: intents whose result is unknown are reconciled with the
\* ledger, and what is still open is recorded as aborted.
Reconciled == [v \in Vote |-> IF intent[v] = "unknown"
                              THEN IF open = v THEN "succeeded" ELSE "failed" ELSE intent[v]]

Activate(i) ==
    /\ inst[i] = Gone /\ \A j \in Alive : inst[j].life = "up"
    /\ inst' = [inst EXCEPT ![i].life = "staged"]
    /\ intent' = Reconciled
    /\ RecordOver(open, "aborted")
    /\ UNCHANGED <<mode, said, asked, crashes, stops>>

\* The kernel publishes an instance when the one before is gone...
Publish(i) ==
    /\ inst[i].life = "staged" /\ Alive = {i}
    /\ inst' = [inst EXCEPT ![i].life = "up"]
    /\ UNCHANGED <<mode, durable, said, asked, crashes, stops>>

\* ... which is aborted (ctx.signal), and disposed of with its vote.
Leave(i) ==
    /\ inst[i].life = "up"
    /\ inst' = [inst EXCEPT ![i].life = "leaving"]
    /\ UNCHANGED <<mode, durable, said, asked, crashes, stops>>

\* A start() that awaits its authorization lives on in an instance that is gone.
Dispose(i) ==
    /\ inst[i].life = "leaving"
    /\ inst' = [inst EXCEPT ![i] = [Gone EXCEPT !.starting = inst[i].starting]]
    /\ RecordOver(inst[i].running, "aborted")
    /\ UNCHANGED <<mode, intent, said, asked, crashes, stops>>

(***************************************************************************)
(* A vote                                                                  *)
(***************************************************************************)
\* start(): refused while one runs or is being started, authorized otherwise.
Start(i, v) ==
    /\ inst[i].life = "up" /\ v \notin asked
    /\ asked' = asked \cup {v}
    /\ inst' = IF inst[i].running = None /\ inst[i].starting = None
               THEN [inst EXCEPT ![i].starting = v] ELSE inst
    /\ UNCHANGED <<mode, durable, said, crashes, stops>>

\* The gate denies it.  (It must while a result of its kind is unknown.)
Denied(i) ==
    /\ inst[i].starting # None
    /\ inst' = [inst EXCEPT ![i].starting = None]
    /\ UNCHANGED <<mode, durable, said, asked, crashes, stops>>

Allowed == \A v \in Vote : intent[v] # "unknown"

\* The gate allows it: its intent is executed, and the vote opened, announced and
\* recorded, unless the instance has been aborted or the show stopped meanwhile.
Authorized(i) ==
    LET v == inst[i].starting
        fit == inst[i].life = "up" /\ mode # "safe-stop"
    IN  /\ v # None /\ Allowed
        /\ intent' = [intent EXCEPT ![v] = IF fit THEN "succeeded" ELSE "failed"]
        /\ IF fit
           THEN /\ inst' = [inst EXCEPT ![i].starting = None, ![i].running = v,
                                        ![i].phase = "announcing"]
                /\ open' = v /\ facts' = Count(v, "started")
                /\ said' = [said EXCEPT ![v].opening = @ + 1]
           ELSE /\ inst' = [inst EXCEPT ![i].starting = None]
                /\ UNCHANGED <<open, facts, said>>
        /\ UNCHANGED <<mode, asked, crashes, stops>>

\* The opening has been spoken whole, and the countdown begins, or it has not.
Announced(i, whole) ==
    /\ inst[i].phase = "announcing"
    /\ IF whole
       THEN inst' = [inst EXCEPT ![i].phase = "counting"] /\ UNCHANGED <<open, facts>>
       ELSE inst' = [inst EXCEPT ![i] = Cleared(i)] /\ RecordOver(inst[i].running, "aborted")
    /\ UNCHANGED <<mode, intent, said, asked, crashes, stops>>

\* Mutant of Close: whatever the ledger says.
CloseUnasked(i) ==
    LET v == inst[i].running
    IN  /\ inst[i].phase = "counting"
        /\ inst' = [inst EXCEPT ![i] = Cleared(i)]
        /\ open' = Over(v) /\ facts' = Count(v, "ended")
        /\ said' = [said EXCEPT ![v].result = @ + 1]
        /\ UNCHANGED <<mode, intent, asked, crashes, stops>>

\* close(): the time is over, and the result recorded and spoken.
Close(i) ==
    LET v == inst[i].running
    IN  /\ inst[i].phase = "counting"
        /\ inst' = [inst EXCEPT ![i] = Cleared(i)]
        /\ RecordOver(v, "ended")
        /\ said' = [said EXCEPT ![v].result = @ + IF open = v THEN 1 ELSE 0]
        /\ UNCHANGED <<mode, intent, asked, crashes, stops>>

(***************************************************************************)
(* Stops and crashes                                                       *)
(***************************************************************************)
\* The stop signal reaches every instance until it is disposed of.
SafeStop ==
    /\ mode = "on" /\ stops < MaxStops
    /\ mode' = "safe-stop" /\ stops' = stops + 1
    /\ inst' = [i \in Instance |-> IF i \in Alive THEN Cleared(i) ELSE inst[i]]
    /\ IF \E i \in Alive : inst[i].running = open
       THEN RecordOver(open, "aborted") ELSE UNCHANGED <<open, facts>>
    /\ UNCHANGED <<intent, said, asked, crashes>>

Resume ==
    /\ mode = "safe-stop"
    /\ mode' = "on"
    /\ UNCHANGED <<durable, said, asked, inst, crashes, stops>>

\* A crash: the ledger and the store remain.
Crash ==
    /\ crashes < MaxCrashes /\ Alive # {}
    /\ crashes' = crashes + 1
    /\ inst' = [i \in Instance |-> Gone]
    /\ mode' = "on"
    /\ UNCHANGED <<durable, said, asked, stops>>

\* A crash while the intent of a start is executed, before or after the record that
\* opens the vote: the store will not know its result.
CrashInStart(i, opened) ==
    LET v == inst[i].starting
    IN  /\ crashes < MaxCrashes
        /\ v # None /\ inst[i].life = "up" /\ mode # "safe-stop" /\ Allowed
        /\ crashes' = crashes + 1
        /\ intent' = [intent EXCEPT ![v] = "unknown"]
        /\ IF opened THEN open' = v /\ facts' = Count(v, "started")
           ELSE UNCHANGED <<open, facts>>
        /\ inst' = [j \in Instance |-> Gone]
        /\ mode' = "on"
        /\ UNCHANGED <<said, asked, stops>>

(***************************************************************************)
Init ==
    /\ mode = "on"
    /\ open = None
    /\ intent = [v \in Vote |-> "none"]
    /\ facts = [v \in Vote |-> [started |-> 0, ended |-> 0, aborted |-> 0]]
    /\ said = [v \in Vote |-> [opening |-> 0, result |-> 0]]
    /\ asked = {}
    /\ inst = [i \in Instance |-> Gone]
    /\ crashes = 0 /\ stops = 0

Activating == \E i \in Instance : Activate(i)
Publishing == \E i \in Instance : Publish(i)
Unloading == \E i \in Instance : Leave(i) \/ Dispose(i)
Starting == \E i \in Instance, v \in Vote : Start(i, v)
Deciding == \E i \in Instance : Denied(i) \/ Authorized(i)
Announcing == \E i \in Instance, whole \in BOOLEAN : Announced(i, whole)
Closing == \E i \in Instance : Close(i)
Crashing == Crash \/ \E i \in Instance, opened \in BOOLEAN : CrashInStart(i, opened)

Next ==
    \/ Activating \/ Publishing \/ Unloading
    \/ Starting \/ Deciding \/ Announcing \/ Closing
    \/ SafeStop \/ Resume \/ Crashing

Spec == Init /\ [][Next]_vars

\* A crashed host is started again with the plugin, the arbiter answers every
\* request to speak (SpeechArbiter), and timers fire.
RestartedAfterCrash == Alive = {} /\ crashes > 0 /\ Activating
Fairness ==
    /\ WF_vars(RestartedAfterCrash)
    /\ WF_vars(Announcing) /\ WF_vars(Closing)

(***************************************************************************)
(* Properties                                                              *)
(***************************************************************************)
TypeOK ==
    /\ mode \in {"on", "safe-stop"}
    /\ open \in Vote \cup {None}
    /\ intent \in [Vote -> {"none", "unknown", "succeeded", "failed"}]
    /\ facts \in [Vote -> [started : 0 .. 1, ended : 0 .. 1, aborted : 0 .. 1]]
    /\ said \in [Vote -> [opening : 0 .. 1, result : 0 .. 1]]
    /\ asked \subseteq Vote
    /\ inst \in [Instance -> [life : {"gone", "staged", "up", "leaving"},
                              starting : Vote \cup {None}, running : Vote \cup {None},
                              phase : {"none", "announcing", "counting"}]]
    /\ crashes \in 0 .. MaxCrashes /\ stops \in 0 .. MaxStops

\* A vote is open, ended, or aborted: exactly one of them, whatever crashes or
\* replaces the plugin, and its result is spoken if and only if it has ended.
EndedOnce ==
    \A v \in Vote :
        /\ facts[v].started = facts[v].ended + facts[v].aborted + (IF open = v THEN 1 ELSE 0)
        /\ said[v].result = facts[v].ended

\* No vote is open in a safe stop, once the plugin is there to abort it.
NoVoteInSafeStop == mode = "safe-stop" /\ Alive # {} => open = None

\* After a crash the plugin settles what the crash has left unknown, so that votes are
\* possible again: a published instance finds nothing unknown.
UnknownIsReconciled == (\E i \in Instance : inst[i].life = "up") => Allowed

\* A vote does not stay open for ever.
VotesEnd == []<>(open = None)

\* Votes are settled: one at a time is open, each is ended or aborted once, none is
\* left open by a safe stop, and none unknown by a crash (plugin.ts, vote.ts).
VotesAreSettled == TypeOK /\ EndedOnce /\ NoVoteInSafeStop /\ UnknownIsReconciled
=============================================================================
