---------------------------- MODULE MemoryOutbox ----------------------------
(***************************************************************************)
(* The write side of the memory plugin (memory/src/plugin.ts) and its      *)
(* ledger (memory/src/ledger.ts): messages wait in a bounded outbox that   *)
(* is rebuilt from events, leave in batches through an authorized intent   *)
(* to Iris, which takes or refuses a batch as a whole, and are retried     *)
(* under the same deduplication key.  Viewers may be forgotten and the     *)
(* plugin may be restarted at any moment.                                  *)
(*                                                                         *)
(* Time is what remains until the timer fires; one unit is both            *)
(* flushDelayMs and the backoff.                                           *)
(***************************************************************************)
EXTENDS Integers, Sequences, FiniteSets, SequencesExt

CONSTANTS Item,         \* messages, by their deduplication keys
          Entry,        \* the event that creates the entry in Iris, an Item
          Viewer,       \* [Item -> viewers or Nobody]: whose message it is
          Nobody,
          Bad,          \* items Iris refuses
          Private,      \* items a change of the privacy rules may forbid
          Capacity,     \* config.write.capacity
          BatchSize,    \* config.write.batchSize
          MaxBody,      \* the longest batch Iris takes
          Backoff, Advised,     \* delays: after a failure, and when Iris asks for more
          MaxQueued,    \* bound: items ever queued
          MaxRestarts,  \* bound
          Idle          \* no batch is under way

Off == -1

VARIABLES
    outbox,     \* ledger.outbox: [item, seq] in order
    tombs,      \* ledger.tombstones
    dropped,    \* items recorded as dropped
    seq,        \* memory.queued events so far
    rules,      \* items the present privacy rules forbid
    ensured,    \* entryEnsured
    call,       \* Idle, or the batch under way and whether it has been sent
    split,      \* size of the next batch, 0 for BatchSize
    due,        \* until the timer fires, or Off
    restarts,
    stored      \* what Iris has

vars == <<outbox, tombs, dropped, seq, rules, ensured, call, split, due, restarts, stored>>
ledger == <<outbox, tombs, dropped, seq>>

Items(entries) == {entries[j].item : j \in DOMAIN entries}
Without(entries, gone) == SelectSeq(entries, LAMBDA e : e \notin gone)

\* schedule(): an earlier timer stays.
Sooner(delay) == IF due # Off /\ due <= delay THEN due ELSE delay

\* The viewer has a tombstone.
Forgotten(i) == Viewer[i] # Nobody /\ Viewer[i] \in tombs

(***************************************************************************)
(* What arrives                                                            *)
(***************************************************************************)
\* How many have to go before one can be queued.
Surplus == Len(outbox) + 1 - Capacity

\* enqueue: the oldest of a full outbox are dropped and recorded, the new item is
\* recorded and the timer set.
Enqueue(i, delay) ==
    LET kept == IF Surplus > 0 THEN SubSeq(outbox, Surplus + 1, Len(outbox)) ELSE outbox
    IN  /\ seq < MaxQueued
        /\ seq' = seq + 1
        /\ outbox' = Append(kept, [item |-> i, seq |-> seq])
        /\ dropped' = dropped \cup (Items(outbox) \ Items(kept))
        /\ due' = Sooner(delay)

\* onDanmaku and onPlayed: the forgotten, what still waits and what the rules
\* forbid is not queued.
Arrives(i) ==
    /\ i # Entry
    /\ ~Forgotten(i) /\ i \notin Items(outbox) /\ i \notin rules
    /\ Enqueue(i, 1)
    /\ UNCHANGED <<tombs, rules, ensured, call, split, restarts, stored>>

\* ensureEntry: a recall has found no entry in Iris.
EnsureEntry ==
    /\ Entry \notin stored
    /\ ~ensured /\ Entry \notin Items(outbox)
    /\ Enqueue(Entry, 0)
    /\ UNCHANGED <<tombs, rules, ensured, call, split, restarts, stored>>

\* The operator records a tombstone; the ledger takes the viewer's items out.
Forget(v) ==
    /\ v \notin tombs
    /\ tombs' = tombs \cup {v}
    /\ outbox' = SelectSeq(outbox, LAMBDA e : Viewer[e.item] # v)
    /\ UNCHANGED <<dropped, seq, rules, ensured, call, split, due, restarts, stored>>

Tick ==
    /\ due > 0
    /\ due' = due - 1
    /\ UNCHANGED <<ledger, rules, ensured, call, split, restarts, stored>>

(***************************************************************************)
(* Batches                                                                 *)
(***************************************************************************)
Limit == IF split > 0 THEN split ELSE BatchSize

\* flush: the timer fires.  The batch is the oldest items that the present rules
\* allow; the forbidden met on the way are dropped and recorded.
Flush ==
    LET ok     == {j \in DOMAIN outbox : outbox[j].item \notin rules}
        chosen == {j \in ok : Cardinality({l \in ok : l < j}) < Limit}
        past   == IF Cardinality(ok) <= Limit THEN DOMAIN outbox
                  ELSE 1 .. (CHOOSE j \in chosen : \A l \in chosen : l <= j)
        banned == {outbox[j] : j \in past \ chosen}
        batch  == SelectSeq(outbox, LAMBDA e : \E j \in chosen : outbox[j] = e)
        left   == Without(outbox, banned)
    IN  /\ due = 0
        /\ IF call # Idle \/ outbox = <<>>
           THEN due' = Off /\ UNCHANGED <<outbox, dropped, call>>
           ELSE /\ outbox' = left
                /\ dropped' = dropped \cup {e.item : e \in banned}
                /\ call' = IF batch = <<>> THEN Idle ELSE [batch |-> batch, sent |-> FALSE]
                /\ due' = IF batch = <<>> /\ left # <<>> THEN 0 ELSE Off
        /\ UNCHANGED <<tombs, seq, rules, ensured, split, restarts, stored>>

\* retryLater
RetryLater(delay) == due' = Sooner(delay)

\* The batch is not authorized, or the store fails on the way.
Denied ==
    /\ call # Idle /\ ~call.sent
    /\ call' = Idle
    /\ RetryLater(Backoff)
    /\ UNCHANGED <<ledger, rules, ensured, split, restarts, stored>>

\* Mutant of Execute: sent as composed.
ExecuteComposed ==
    /\ call # Idle /\ ~call.sent
    /\ call' = [call EXCEPT !.sent = TRUE] /\ UNCHANGED due
    /\ UNCHANGED <<ledger, rules, ensured, split, restarts, stored>>

\* The batch is authorized and its intent executed: sent, unless a viewer in it has
\* been forgotten since, and then the outbox is looked at anew.
Execute ==
    /\ call # Idle /\ ~call.sent
    /\ IF \E i \in Items(call.batch) : Forgotten(i)
       THEN IF outbox # <<>> THEN call' = Idle /\ due' = 0
            ELSE call' = Idle /\ RetryLater(Backoff)
       ELSE call' = [call EXCEPT !.sent = TRUE] /\ UNCHANGED due
    /\ UNCHANGED <<ledger, rules, ensured, split, restarts, stored>>

\* Iris takes a batch as a whole.
Acceptable(batch) == Items(batch) \cap Bad = {} /\ Len(batch) <= MaxBody
Sent == call # Idle /\ call.sent

\* Mutant of Written: everything has been sent.
WrittenAll ==
    /\ Sent /\ Acceptable(call.batch)
    /\ stored' = stored \cup Items(call.batch)
    /\ outbox' = <<>>
    /\ call' = Idle
    /\ split' = 0
    /\ UNCHANGED <<tombs, dropped, seq, rules, restarts, due, ensured>>

\* Taken, and recorded as written by the numbers of the batch.
Written ==
    LET left == Without(outbox, ToSet(call.batch))
    IN  /\ Sent /\ Acceptable(call.batch)
        /\ stored' = stored \cup Items(call.batch)
        /\ outbox' = left
        /\ call' = Idle
        /\ split' = 0
        /\ ensured' = (ensured \/ Entry \in Items(call.batch))
        /\ due' = IF left # <<>> THEN 0 ELSE due
        /\ UNCHANGED <<tombs, dropped, seq, rules, restarts>>

\* Refused: the next batch is half as long; a single item is dropped and recorded.
Refused ==
    /\ Sent /\ ~Acceptable(call.batch)
    /\ IF Len(call.batch) = 1
       THEN /\ outbox' = Without(outbox, ToSet(call.batch))
            /\ dropped' = dropped \cup (Items(outbox) \ Items(outbox'))
            /\ split' = 0
       ELSE /\ split' = (Len(call.batch) + 1) \div 2
            /\ UNCHANGED <<outbox, dropped>>
    /\ call' = Idle
    /\ due' = 0
    /\ UNCHANGED <<tombs, seq, rules, ensured, restarts, stored>>

\* Any other failure, a timeout after Iris has taken the batch among them, or a
\* fault while the result is recorded.
Failed(taken, asked) ==
    /\ Sent
    /\ taken => Acceptable(call.batch)
    /\ stored' = IF taken THEN stored \cup Items(call.batch) ELSE stored
    /\ call' = Idle
    /\ RetryLater(IF asked > 0 THEN asked ELSE Backoff)
    /\ UNCHANGED <<ledger, rules, ensured, split, restarts>>

\* A crash or a restart of the plugin: what was sent may still arrive.  The ledger
\* remains, the rules may have changed, and what waits is sent at once.
Restart(taken, new) ==
    /\ restarts < MaxRestarts
    /\ restarts' = restarts + 1
    /\ taken => Sent /\ Acceptable(call.batch)
    /\ stored' = IF taken THEN stored \cup Items(call.batch) ELSE stored
    /\ call' = Idle
    /\ rules' = new
    /\ ensured' = FALSE
    /\ split' = 0
    /\ due' = IF outbox # <<>> THEN 0 ELSE Off
    /\ UNCHANGED ledger

(***************************************************************************)
Init ==
    /\ outbox = <<>> /\ tombs = {} /\ dropped = {} /\ seq = 0
    /\ rules = {}
    /\ ensured = FALSE
    /\ call = Idle
    /\ split = 0
    /\ due = Off
    /\ restarts = 0
    /\ stored = {}

Arriving == EnsureEntry \/ \E i \in Item : Arrives(i)
Forgetting == \E v \in {Viewer[i] : i \in Item} \ {Nobody} : Forget(v)
Failing == \E taken \in BOOLEAN, asked \in {0, Advised} : Failed(taken, asked)
Restarting == \E taken \in BOOLEAN, new \in SUBSET Private : Restart(taken, new)
Judged == Written \/ Refused

Next ==
    \/ Arriving \/ Forgetting \/ Tick
    \/ Flush \/ Denied \/ Execute \/ Judged \/ Failing \/ Restarting

Spec == Init /\ [][Next]_vars

\* Timers fire, requests end (they have a deadline), and batches that are tried
\* again and again are sometimes authorized and sometimes answered by Iris.
Fairness ==
    /\ WF_vars(Tick) /\ WF_vars(Flush)
    /\ SF_vars(Execute)
    /\ SF_vars(Judged)

FairSpec == Spec /\ Fairness

(***************************************************************************)
(* Properties                                                              *)
(***************************************************************************)
Entries == [item : Item, seq : Nat]

TypeOK ==
    /\ outbox \in Seq(Entries) /\ Len(outbox) <= Capacity
    /\ tombs \subseteq {Viewer[i] : i \in Item} \ {Nobody}
    /\ dropped \subseteq Item /\ rules \subseteq Private /\ stored \subseteq Item
    /\ seq \in 0 .. MaxQueued /\ restarts \in 0 .. MaxRestarts
    /\ ensured \in BOOLEAN
    /\ call \in {Idle} \cup [batch : Seq(Entries) \ {<<>>}, sent : BOOLEAN]
    /\ split \in 0 .. BatchSize
    /\ due \in {Off} \cup 0 .. Advised

\* No batch leaves with a message of a viewer who is forgotten by then, or one that
\* the privacy rules of the moment forbid, although it was composed before
\* (writeBatch looks at the tombstones again when the intent is executed).
TheForgottenDoNotLeave ==
    [][~Sent /\ Sent' => \A i \in Items(call'.batch) : ~Forgotten(i) /\ i \notin rules]_vars

\* What was queued once is waiting, in Iris, recorded as dropped, or its viewer is
\* forgotten: an overflow, a refusal, a restart or the record of a batch that was
\* under way meanwhile never loses a message in silence.
Queued == {i \in Item : \E j \in DOMAIN outbox : outbox[j].item = i} \cup stored \cup dropped
NothingIsLost ==
    [][\A i \in Queued : i \in Queued' \/ (Viewer[i] \in tombs')]_vars

\* Only what Iris refuses by itself is dropped after a refusal.
OnlyTheBadAreRefused ==
    [][Sent /\ ~Sent' /\ restarts' = restarts /\ stored' = stored
        => \A i \in dropped' \ dropped : i \in Bad]_vars

\* One bad message or a batch too long for Iris does not keep the outbox from
\* draining (halving finds it), nor does a viewer forgotten at the wrong moment.
OutboxDrains == []<>(outbox = <<>>)

\* The outbox has its types; what was queued is accounted for, nothing but what Iris
\* refuses is dropped after a refusal, and the outbox drains (#settle, #dropOldest).
MessagesAreAccountedFor == []TypeOK /\ NothingIsLost /\ OnlyTheBadAreRefused /\ OutboxDrains
=============================================================================
