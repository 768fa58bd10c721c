---------------------------- MODULE TelemetryQueue ----------------------------
(***************************************************************************)
(* The queue of the telemetry (telemetry/src/core.ts) and the file it is   *)
(* written to (file-writer.ts): bounded, written in batches, one at a      *)
(* time; a batch that cannot be written is lost and counted; close()       *)
(* writes what is left.  A record is a span or a sample: only how many     *)
(* there are matters here.                                                 *)
(***************************************************************************)
EXTENDS Naturals

CONSTANTS MaxQueue, BatchSize,  \* TelemetryCoreOptions
          MaxFile,              \* maxFileBytes, in batches
          MaxRecords            \* bound on the records of a behaviour

VARIABLES
    queue,     \* records waiting
    batch,     \* records in the write under way; 0: #writing is undefined
    timer,     \* the next write is scheduled (timer or microtask)
    state,     \* "open", "closing" (#closed is set), "closed"
    accepted, dropped, lost, written,  \* #stats
    file       \* batches in the file that is being written; 0: a new one is opened

vars == <<queue, batch, timer, state, accepted, dropped, lost, written, file>>

Least(a, b) == IF a < b THEN a ELSE b

\* flush(): a batch of n records begins to be written.
Flushing(n) ==
    /\ batch' = Least(n, BatchSize)
    /\ queue' = n - Least(n, BatchSize)
    /\ timer' = FALSE

\* #enqueue: the oldest gives way; a full batch is written at once, less is scheduled,
\* unless a write is under way.
Enqueue ==
    LET n == IF queue >= MaxQueue THEN queue ELSE queue + 1
    IN  /\ state = "open" /\ accepted < MaxRecords
        /\ accepted' = accepted + 1
        /\ dropped' = IF queue >= MaxQueue THEN dropped + 1 ELSE dropped
        /\ IF batch > 0 THEN queue' = n /\ UNCHANGED <<batch, timer>>
           ELSE IF n >= BatchSize THEN Flushing(n)
           ELSE queue' = n /\ timer' = TRUE /\ UNCHANGED batch
        /\ UNCHANGED <<state, lost, written, file>>

\* The timer: flush() does nothing while a write is under way.
TimerFires ==
    /\ timer
    /\ IF batch = 0 /\ queue > 0 THEN Flushing(queue) ELSE timer' = FALSE /\ UNCHANGED <<queue, batch>>
    /\ UNCHANGED <<state, accepted, dropped, lost, written, file>>

\* Mutant of Continue: what is less than a batch waits for the next record.
ContinueFull ==
    IF queue >= BatchSize THEN Flushing(queue)
    ELSE batch' = 0 /\ UNCHANGED <<queue, timer>>

\* #continue after a write: at the end, or with a full batch, on to the next one.
Continue ==
    IF queue > 0 /\ (state = "closing" \/ queue >= BatchSize) THEN Flushing(queue)
    ELSE batch' = 0 /\ timer' = (timer \/ queue > 0) /\ UNCHANGED queue

\* FileWriter.write: a file that is full gives way to a new one.
Writes ==
    /\ batch > 0
    /\ written' = written + batch
    /\ file' = IF file >= MaxFile THEN 1 ELSE file + 1
    /\ Continue
    /\ UNCHANGED <<state, accepted, dropped, lost>>

\* It cannot be opened, encoded or written: the batch is lost, the file not used again.
WriteFails ==
    /\ batch > 0
    /\ lost' = lost + batch
    /\ file' = 0
    /\ Continue
    /\ UNCHANGED <<state, accepted, dropped, written>>

\* close(): no records any more; what waits is written, behind a write under way.
Close ==
    /\ state = "open"
    /\ state' = "closing"
    /\ IF batch = 0 /\ queue > 0 THEN Flushing(queue) ELSE timer' = FALSE /\ UNCHANGED <<queue, batch>>
    /\ UNCHANGED <<accepted, dropped, lost, written, file>>

\* Nothing is left: the output is closed.
Closes ==
    /\ state = "closing" /\ batch = 0 /\ queue = 0
    /\ state' = "closed" /\ file' = 0
    /\ UNCHANGED <<queue, batch, timer, accepted, dropped, lost, written>>

Init ==
    /\ queue = 0 /\ batch = 0 /\ timer = FALSE /\ state = "open"
    /\ accepted = 0 /\ dropped = 0 /\ lost = 0 /\ written = 0 /\ file = 0

Written == Writes \/ WriteFails
Next == Enqueue \/ TimerFires \/ Writes \/ WriteFails \/ Close \/ Closes
Spec == Init /\ [][Next]_vars

\* The timer fires, a write ends, close() goes on.
Fairness == WF_vars(TimerFires) /\ WF_vars(Written) /\ WF_vars(Closes)
FairSpec == Spec /\ Fairness

(***************************************************************************)
(* Properties                                                              *)
(***************************************************************************)
TypeOK ==
    /\ queue \in 0..MaxQueue /\ batch \in 0..BatchSize /\ timer \in BOOLEAN
    /\ state \in {"open", "closing", "closed"}
    /\ {accepted, dropped, lost, written} \subseteq Nat /\ file \in 0..MaxFile

\* Every record is written, waiting, in the write under way, or counted as dropped or
\* lost; none is left behind by close().
EveryRecordCounts ==
    /\ accepted = dropped + lost + written + queue + batch
    /\ state = "closed" => queue = 0 /\ batch = 0

\* What waits is waited for: a write is under way or scheduled.
NothingForgotten == queue > 0 => batch > 0 \/ timer

\* When no more records come, what waits is written; close() returns.
QueueDrains == []<>(queue = 0 /\ state # "closing")

\* The telemetry loses nothing in silence and leaves nothing behind.
RecordsAreAccountedFor == [](TypeOK /\ EveryRecordCounts /\ NothingForgotten) /\ QueueDrains
=============================================================================
