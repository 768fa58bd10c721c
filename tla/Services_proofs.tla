---------------------------- MODULE Services_proofs ----------------------------
(***************************************************************************)
(* Proofs about two services that share nothing, one after the other: the  *)
(* director, whose module is extended, for any pool, number of candidates  *)
(* per call, alarm and number of results awaited (what a call has opened,  *)
(* counted and queued is put right however it ends, and only idle talk     *)
(* gives way); and the client of the live platform, for any limits         *)
(* (however heartbeats, links, requests and stop() cross, sessions are     *)
(* ended, gaps are told and the heartbeat lasts as long as its session).   *)
(***************************************************************************)
EXTENDS Director, Integers, TLAPS

CONSTANTS BeatLimit, LinkLimit                              \* client

VARIABLES run, stop, game, heart, misses, dead, gap, ready, room, unheard

Client == INSTANCE BilibiliClient WITH owed <- unheard

(***************************************************************************)
(* The director                                                            *)
(***************************************************************************)
LimitsAreNumbers ==
    /\ Pool \in Nat /\ MaxTaken \in Nat /\ MaxAwaited \in Nat
    /\ AlarmAfter \in Nat \ {0}

\* The call inflight: it belongs to a run; it has recalled and has begun to speak only
\* when it waits for the model; and it may be cancelled for what comes only when it is
\* about nobody and has not been heard.
CallInOrder ==
    /\ call.step = "none" => call = NoCall
    /\ call # NoCall => running
    /\ call.recall \/ call.opened => call.step = "model"
    /\ call.cancellable => ~call.taken /\ ~call.told /\ ~call.opened

IInv ==
    /\ TypeOK /\ CallInOrder
    /\ StreamsAreClosed /\ RecallsAreReported /\ NothingIsForgotten /\ NoCallOutlives

\* What a step may do to a call: only idle talk is cancelled while the plugin is up.
Yields ==
    call'.cancelled /\ ~call.cancelled /\ life' = "up"
        => ~call.taken /\ ~call.told /\ ~call.opened

CallRecord == [step : {"none", "recall", "model"}, taken : BOOLEAN, told : BOOLEAN,
               cancellable : BOOLEAN, cancelled : BOOLEAN, recall : BOOLEAN,
               opened : BOOLEAN]

\* The fields of no call.
LEMMA NoCallFields ==
    /\ NoCall \in CallRecord
    /\ NoCall.step = "none" /\ ~NoCall.taken /\ ~NoCall.told /\ ~NoCall.cancellable
    /\ ~NoCall.cancelled /\ ~NoCall.recall /\ ~NoCall.opened
BY DEF NoCall, CallRecord

LEMMA InitEstablishes == ASSUME LimitsAreNumbers, Init PROVE IInv
<1>1. TypeOK
    <2>1. call \in CallRecord BY NoCallFields DEF Init
    <2>2. 0 \in 0 .. Pool /\ 0 \in 0 .. AlarmAfter /\ 0 \in 0 .. MaxAwaited
          /\ 0 \in 0 .. MaxAwaited + 1
        BY DEF LimitsAreNumbers
    <2> QED BY <2>1, <2>2 DEF Init, TypeOK, CallRecord
<1>2. CallInOrder BY NoCallFields DEF Init, CallInOrder
<1>3. StreamsAreClosed /\ RecallsAreReported /\ NothingIsForgotten /\ NoCallOutlives
    BY NoCallFields
    DEF Init, StreamsAreClosed, RecallsAreReported, NothingIsForgotten, NoCallOutlives
<1> QED BY <1>1, <1>2, <1>3 DEF IInv

\* A run that begins, or goes on, with any number of candidates that wait.
LEMMA DecideKeeps ==
    ASSUME LimitsAreNumbers, IInv, NEW waiting \in 0 .. Pool, NEW vote \in BOOLEAN,
           call = NoCall, life = "up", Decide(waiting, vote),
           timer' \in BOOLEAN,
           UNCHANGED <<life, stream, streak, awaited, owed>>
    PROVE  IInv' /\ Yields
<1>1. /\ call' \in CallRecord
      /\ call'.step = "recall" /\ ~call'.cancelled /\ ~call'.recall /\ ~call'.opened
      /\ call'.cancellable => ~call'.taken /\ ~call'.told
    <2>1. call' = [step |-> "recall", taken |-> waiting > 0, told |-> vote,
                   cancellable |-> (waiting = 0 /\ ~vote), cancelled |-> FALSE,
                   recall |-> FALSE, opened |-> FALSE]
        BY DEF Decide, NoCall
    <2>2. (waiting > 0) \in BOOLEAN /\ (waiting = 0 => ~(waiting > 0))
        OBVIOUS
    <2> QED BY <2>1, <2>2 DEF CallRecord
<1>2. pool' \in 0 .. Pool BY DEF Decide, LimitsAreNumbers
<1>3. pending' = {} /\ ended' = FALSE /\ running' = TRUE BY DEF Decide
<1>4. TypeOK' BY <1>1, <1>2, <1>3 DEF IInv, TypeOK, CallRecord, streak
<1>5. CallInOrder'
    <2>1. call'.step # "none" BY <1>1
    <2> QED BY <1>1, <1>3, <2>1 DEF CallInOrder
<1>6. ~stream /\ owed = awaited
    BY NoCallFields DEF IInv, TypeOK, StreamsAreClosed, RecallsAreReported
<1>7. StreamsAreClosed' /\ RecallsAreReported'
    BY <1>1, <1>6 DEF IInv, TypeOK, StreamsAreClosed, RecallsAreReported
<1>8. NothingIsForgotten' /\ NoCallOutlives'
    BY <1>3 DEF NothingIsForgotten, NoCallOutlives
<1> QED BY <1>1, <1>4, <1>5, <1>7, <1>8 DEF IInv, Yields

\* A trigger that finds a run at work, or the plugin on its way out.
LEMMA QueueKeeps ==
    ASSUME LimitsAreNumbers, IInv, NEW t \in {"candidates", "vote-ended", "idle"},
           ~Free, Queue(t),
           pool' \in 0 .. Pool, ended' \in BOOLEAN, timer' \in BOOLEAN,
           ended' => ended \/ t = "vote-ended",
           UNCHANGED <<life, running, stream, streak, awaited, owed>>
    PROVE  IInv' /\ Yields
<1>1. /\ call' \in CallRecord
      /\ call'.step = call.step /\ call'.recall = call.recall /\ call'.opened = call.opened
      /\ call'.cancellable = call.cancellable
      /\ call'.taken = call.taken /\ call'.told = call.told
      /\ call.cancelled => call'.cancelled
      /\ call'.cancelled => call.cancelled \/ call.cancellable
      /\ call = NoCall => call' = NoCall
      /\ pending' \subseteq {"candidates", "vote-ended", "idle"}
    <2>1. call \in CallRecord /\ pending \subseteq {"candidates", "vote-ended", "idle"}
        BY DEF IInv, TypeOK, CallRecord
    <2>2. CASE call' = call
        <3>1. pending' \subseteq {"candidates", "vote-ended", "idle"} BY <2>1 DEF Queue
        <3> QED BY <2>1, <2>2, <3>1
    <2>3. CASE call' # call
        <3>1. call.cancellable /\ call' = [call EXCEPT !.cancelled = TRUE] /\ call # NoCall
            BY <2>3, NoCallFields DEF Queue
        <3>2. pending' \subseteq {"candidates", "vote-ended", "idle"} BY <2>1 DEF Queue
        <3> QED BY <2>1, <3>1, <3>2 DEF CallRecord
    <2> QED BY <2>2, <2>3
<1>2. TypeOK' BY <1>1 DEF IInv, TypeOK, CallRecord, streak
<1>3. CallInOrder'
    BY <1>1, NoCallFields DEF IInv, CallInOrder
<1>4. StreamsAreClosed' /\ RecallsAreReported'
    BY <1>1 DEF IInv, StreamsAreClosed, RecallsAreReported
<1>5. NothingIsForgotten'
    <2> SUFFICES ASSUME life' = "up" PROVE NothingIsForgotten' BY DEF NothingIsForgotten
    <2>1. running BY DEF Free
    <2>2. ended' => "vote-ended" \in pending'
        <3>1. CASE t = "idle"
            BY <3>1 DEF Queue, IInv, NothingIsForgotten
        <3>2. CASE t # "idle"
            BY <3>2 DEF Queue, IInv, NothingIsForgotten
        <3> QED BY <3>1, <3>2
    <2> QED BY <2>1, <2>2 DEF NothingIsForgotten
<1>6. NoCallOutlives' BY <1>1 DEF IInv, NoCallOutlives
<1>7. Yields BY <1>1 DEF IInv, CallInOrder, Yields
<1> QED BY <1>2, <1>3, <1>4, <1>5, <1>6, <1>7 DEF IInv
-----------------------------------------------------------------------------
LEMMA PlusZero == ASSUME NEW n \in Int PROVE n + 0 = n
OBVIOUS

\* A call that ends, with what it opened closed and what it recalled reported.
LEMMA EndKeeps ==
    ASSUME LimitsAreNumbers, IInv, call.step = "model", call' = NoCall, ~stream',
           stream' \in BOOLEAN,
           ReportNow \/ ReportLater,
           failures' \in 0 .. AlarmAfter, filler' \in BOOLEAN, alarmed' \in BOOLEAN,
           UNCHANGED <<life, pool, pending, ended, timer, running>>
    PROVE  IInv' /\ Yields
<1>1. awaited' \in 0 .. MaxAwaited /\ owed' = awaited'
    <2>1. awaited \in 0 .. MaxAwaited /\ call.recall \in BOOLEAN
          /\ owed = awaited + (IF call.recall THEN 1 ELSE 0)
        BY DEF IInv, TypeOK, RecallsAreReported
    <2>2. CASE ReportNow BY <2>1, <2>2 DEF ReportNow, LimitsAreNumbers
    <2>3. CASE ReportLater
        <3>1. CASE call.recall BY <2>1, <2>3, <3>1 DEF ReportLater, LimitsAreNumbers
        <3>2. CASE ~call.recall BY <2>1, <2>3, <3>2 DEF ReportLater, LimitsAreNumbers
        <3> QED BY <3>1, <3>2
    <2> QED BY <2>2, <2>3
<1>2. owed' \in 0 .. MaxAwaited + 1 BY <1>1 DEF LimitsAreNumbers
<1>3. TypeOK' BY <1>1, <1>2, NoCallFields DEF IInv, TypeOK, CallRecord
<1>4. CallInOrder' BY NoCallFields DEF CallInOrder
<1>5. StreamsAreClosed' BY DEF StreamsAreClosed
<1>6. RecallsAreReported'
    <2>1. ~call'.recall
        <3>1. call'.recall = FALSE BY DEF NoCall
        <3> QED BY <3>1
    <2>2. awaited' \in Int BY <1>1
    <2>3. awaited' + 0 = awaited' BY <2>2, PlusZero
    <2> QED BY <1>1, <2>1, <2>3 DEF RecallsAreReported
<1>7. NothingIsForgotten' BY DEF IInv, NothingIsForgotten
<1>8. NoCallOutlives' BY DEF NoCallOutlives
<1>9. Yields BY NoCallFields DEF Yields
<1> QED BY <1>3, <1>4, <1>5, <1>6, <1>7, <1>8, <1>9 DEF IInv

\* The count of failures stays within the alarm.
LEMMA FailuresFit ==
    ASSUME LimitsAreNumbers, TypeOK, Failed
    PROVE  failures' \in 0 .. AlarmAfter /\ alarmed' \in BOOLEAN
<1>1. failures' \in 0 .. AlarmAfter BY DEF Failed, TypeOK, LimitsAreNumbers
<1>2. alarmed' \in BOOLEAN BY DEF Failed, TypeOK
<1> QED BY <1>1, <1>2

LEMMA NoFailureFits ==
    ASSUME LimitsAreNumbers, TypeOK, Succeeded
    PROVE  failures' \in 0 .. AlarmAfter /\ alarmed' \in BOOLEAN /\ filler' \in BOOLEAN
<1>1. 0 \in 0 .. AlarmAfter BY DEF LimitsAreNumbers
<1> QED BY <1>1 DEF Succeeded, TypeOK

\* Whatever was opened is closed: a stream is open only for a call that opened it.
LEMMA CloseCloses == ASSUME TypeOK, StreamsAreClosed, Close PROVE ~stream' /\ stream' \in BOOLEAN
BY DEF TypeOK, StreamsAreClosed, Close
-----------------------------------------------------------------------------
LEMMA StepKeeps == ASSUME LimitsAreNumbers, IInv, [Next]_vars PROVE IInv' /\ [Yields]_vars
<1>0. /\ TypeOK /\ CallInOrder /\ StreamsAreClosed /\ RecallsAreReported
      /\ NothingIsForgotten /\ NoCallOutlives
    BY DEF IInv
<1>1. CASE Arriving
    <2>1. PICK merged \in BOOLEAN : Arrives(merged)
        BY <1>1 DEF Arriving
    <2> DEFINE waiting == IF merged \/ pool = Pool THEN pool ELSE pool + 1
    <2>2. waiting \in 0 .. Pool BY <1>0 DEF TypeOK, LimitsAreNumbers
    <2>3. CASE Free
        <3>1. call = NoCall /\ life = "up"
            BY <1>0, <2>3 DEF CallInOrder, Free
        <3>2. Decide(waiting, ended) /\ UNCHANGED <<life, timer, stream, streak, awaited, owed>>
            BY <2>1, <2>3 DEF Arrives
        <3>3. ended \in BOOLEAN /\ timer' \in BOOLEAN
            BY <1>0, <3>2 DEF TypeOK
        <3> HIDE DEF waiting
        <3> QED BY <2>2, <3>1, <3>2, <3>3, DecideKeeps
    <2>4. CASE ~Free
        <3>1. /\ pool' = waiting /\ Queue("candidates")
              /\ UNCHANGED <<life, ended, running, timer, stream, streak, awaited, owed>>
            BY <2>1, <2>4 DEF Arrives
        <3>2. ended' \in BOOLEAN /\ timer' \in BOOLEAN
            BY <1>0, <3>1 DEF TypeOK
        <3> HIDE DEF waiting
        <3> QED BY <2>2, <2>4, <3>1, <3>2, QueueKeeps
    <2> QED BY <2>3, <2>4
<1>2. CASE Expire
    <2>1. pool' \in 0 .. Pool /\ call' = call
        BY <1>0, <1>2 DEF Expire, TypeOK, LimitsAreNumbers
    <2>2. TypeOK' BY <1>0, <1>2, <2>1 DEF Expire, TypeOK, streak
    <2> QED
        BY <1>0, <1>2, <2>1, <2>2
        DEF Expire, IInv, CallInOrder, StreamsAreClosed, RecallsAreReported,
            NothingIsForgotten, NoCallOutlives, Yields
<1>3. CASE VoteEnds
    <2>1. CASE Free
        <3>1. call = NoCall /\ life = "up"
            BY <1>0, <2>1 DEF CallInOrder, Free
        <3>2. Decide(pool, TRUE) /\ UNCHANGED <<life, timer, stream, streak, awaited, owed>>
            BY <1>3, <2>1 DEF VoteEnds
        <3>3. pool \in 0 .. Pool /\ timer' \in BOOLEAN
            BY <1>0, <3>2 DEF TypeOK
        <3> QED BY <3>1, <3>2, <3>3, DecideKeeps
    <2>2. CASE ~Free
        <3>1. /\ ended' = TRUE /\ Queue("vote-ended")
              /\ UNCHANGED <<life, pool, running, timer, stream, streak, awaited, owed>>
            BY <1>3, <2>2 DEF VoteEnds
        <3>2. pool' \in 0 .. Pool /\ timer' \in BOOLEAN
            BY <1>0, <3>1 DEF TypeOK
        <3> QED BY <2>2, <3>1, <3>2, QueueKeeps
    <2> QED BY <2>1, <2>2
<1>4. CASE IdleFires
    <2>1. CASE Free
        <3>1. call = NoCall /\ life = "up"
            BY <1>0, <2>1 DEF CallInOrder, Free
        <3>2. /\ Decide(pool, ended) /\ timer' = FALSE
              /\ UNCHANGED <<life, stream, streak, awaited, owed>>
            BY <1>4, <2>1 DEF IdleFires
        <3>3. pool \in 0 .. Pool /\ ended \in BOOLEAN
            BY <1>0 DEF TypeOK
        <3> QED BY <3>1, <3>2, <3>3, DecideKeeps
    <2>2. CASE ~Free
        <3>1. /\ Queue("idle") /\ timer' = FALSE
              /\ UNCHANGED <<life, pool, ended, running, stream, streak, awaited, owed>>
            BY <1>4, <2>2 DEF IdleFires
        <3>2. pool' \in 0 .. Pool /\ ended' \in BOOLEAN
            BY <1>0, <3>1 DEF TypeOK
        <3> QED BY <2>2, <3>1, <3>2, QueueKeeps
    <2> QED BY <2>1, <2>2
<1>5. CASE RunGoesOn
    <2>1. pool \in 0 .. Pool /\ ended \in BOOLEAN /\ timer \in BOOLEAN
        BY <1>0 DEF TypeOK
    <2> QED BY <1>5, <2>1, DecideKeeps DEF RunGoesOn
<1>6. CASE RunEnds
    <2>1. /\ UNCHANGED <<life, pool, pending, ended, call, stream, streak, awaited, owed>>
          /\ running' = FALSE /\ call = NoCall
          /\ pending = {} \/ life # "up"
        BY <1>6 DEF RunEnds
    <2>2. timer' \in BOOLEAN /\ (life = "up" => timer') BY <1>6 DEF RunEnds
    <2>3. TypeOK'
        <3>1. call' = call /\ UNCHANGED <<failures, filler, alarmed>> BY <2>1 DEF streak
        <3> QED BY <1>0, <2>1, <2>2, <3>1 DEF TypeOK
    <2>4. CallInOrder' BY <1>0, <2>1 DEF CallInOrder
    <2>5. StreamsAreClosed' /\ RecallsAreReported' /\ NoCallOutlives'
        BY <1>0, <2>1 DEF StreamsAreClosed, RecallsAreReported, NoCallOutlives
    <2>6. NothingIsForgotten' BY <1>0, <2>1, <2>2 DEF NothingIsForgotten
    <2> QED BY <2>1, <2>3, <2>4, <2>5, <2>6 DEF IInv, Yields
<1>7. CASE Recalling
    <2>1. CASE RecallCancelled
        <3>1. /\ call.step = "recall" /\ call' = NoCall
              /\ UNCHANGED <<life, pool, pending, ended, timer, running, stream, streak,
                             awaited, owed>>
            BY <2>1 DEF RecallCancelled
        <3>2. ~call.recall /\ ~call.opened /\ call.recall \in BOOLEAN
            BY <1>0, <3>1 DEF CallInOrder, TypeOK
        <3>3. TypeOK' BY <1>0, <3>1, NoCallFields DEF TypeOK, CallRecord, streak
        <3>4. CallInOrder' BY <1>0, <3>1, NoCallFields DEF CallInOrder
        <3>5. StreamsAreClosed' BY <1>0, <3>1, <3>2 DEF StreamsAreClosed
        <3>6. RecallsAreReported' BY <1>0, <3>1, <3>2, NoCallFields DEF RecallsAreReported
        <3>7. NothingIsForgotten' /\ NoCallOutlives'
            BY <1>0, <3>1 DEF NothingIsForgotten, NoCallOutlives
        <3>8. Yields BY <3>1, NoCallFields DEF Yields
        <3> QED BY <3>3, <3>4, <3>5, <3>6, <3>7, <3>8 DEF IInv
    <2>2. CASE \E given \in BOOLEAN : Recalled(given)
        <3>1. PICK given \in BOOLEAN : Recalled(given)
            BY <2>2
        <3>2. /\ call.step = "recall" /\ call' = [call EXCEPT !.step = "model", !.recall = given]
              /\ owed' = IF given THEN owed + 1 ELSE owed
              /\ UNCHANGED <<life, pool, pending, ended, timer, running, stream, streak, awaited>>
            BY <3>1 DEF Recalled
        <3>3. /\ call' \in CallRecord /\ call'.step = "model" /\ call'.recall = given
              /\ call'.taken = call.taken /\ call'.told = call.told
              /\ call'.cancellable = call.cancellable /\ call'.cancelled = call.cancelled
              /\ call'.opened = call.opened
            BY <1>0, <3>2 DEF TypeOK, CallRecord
        <3>4. call # NoCall /\ call' # NoCall
            BY <3>2, <3>3, NoCallFields
        <3>5. ~call.recall BY <1>0, <3>2 DEF CallInOrder
        <3>6. awaited \in 0 .. MaxAwaited /\ owed = awaited
            BY <1>0, <3>5 DEF TypeOK, RecallsAreReported, LimitsAreNumbers
        <3>7. /\ owed' = awaited' + (IF call'.recall THEN 1 ELSE 0)
              /\ owed' \in 0 .. MaxAwaited + 1
            <4>1. CASE given BY <3>2, <3>3, <3>6, <4>1 DEF LimitsAreNumbers
            <4>2. CASE ~given BY <3>2, <3>3, <3>6, <4>2 DEF LimitsAreNumbers
            <4> QED BY <4>1, <4>2
        <3>8. TypeOK' BY <1>0, <3>2, <3>3, <3>7 DEF TypeOK, CallRecord, streak
        <3>9. CallInOrder' BY <1>0, <3>2, <3>3, <3>4 DEF CallInOrder
        <3>10. StreamsAreClosed' /\ NothingIsForgotten' /\ NoCallOutlives'
            BY <1>0, <3>2, <3>3, <3>4 DEF StreamsAreClosed, NothingIsForgotten, NoCallOutlives
        <3>11. RecallsAreReported' BY <3>7 DEF RecallsAreReported
        <3>12. Yields BY <3>3 DEF Yields
        <3> QED BY <3>8, <3>9, <3>10, <3>11, <3>12 DEF IInv
    <2> QED BY <1>7, <2>1, <2>2 DEF Recalling
<1>8. CASE Open
    <2>1. /\ call.step = "model" /\ call' = [call EXCEPT !.opened = TRUE, !.cancellable = FALSE]
          /\ stream' = TRUE
          /\ UNCHANGED <<life, pool, pending, ended, timer, running, streak, awaited, owed>>
        BY <1>8 DEF Open
    <2>2. /\ call' \in CallRecord /\ call'.step = "model" /\ call'.recall = call.recall
          /\ call'.cancelled = call.cancelled /\ call'.opened /\ ~call'.cancellable
        BY <1>0, <2>1 DEF TypeOK, CallRecord
    <2>3. call # NoCall /\ call' # NoCall BY <2>1, <2>2, NoCallFields
    <2>4. TypeOK' BY <1>0, <2>1, <2>2 DEF TypeOK, CallRecord, streak
    <2>5. CallInOrder' BY <1>0, <2>1, <2>2, <2>3 DEF CallInOrder
    <2>6. StreamsAreClosed' /\ NothingIsForgotten' /\ NoCallOutlives'
        BY <1>0, <2>1, <2>2, <2>3 DEF StreamsAreClosed, NothingIsForgotten, NoCallOutlives
    <2>7. RecallsAreReported' BY <1>0, <2>1, <2>2 DEF RecallsAreReported
    <2>8. Yields BY <2>2 DEF Yields
    <2> QED BY <2>4, <2>5, <2>6, <2>7, <2>8 DEF IInv
<1>9. CASE TooLong
    <2>1. /\ stream' = FALSE
          /\ UNCHANGED <<life, pool, pending, ended, timer, running, call, streak, awaited, owed>>
        BY <1>9 DEF TooLong
    <2>2. TypeOK'
        <3>1. stream' \in BOOLEAN /\ UNCHANGED <<failures, filler, alarmed>> BY <2>1 DEF streak
        <3> QED BY <1>0, <2>1, <3>1 DEF TypeOK
    <2> QED
        BY <1>0, <2>1, <2>2
        DEF IInv, CallInOrder, StreamsAreClosed, RecallsAreReported, NothingIsForgotten,
            NoCallOutlives, Yields
<1>10. CASE Answering
    <2>0. failures \in 0 .. AlarmAfter /\ filler \in BOOLEAN /\ alarmed \in BOOLEAN
        BY <1>0 DEF TypeOK
    <2>1. CASE Invalid
        <3>1. ~stream' /\ stream' \in BOOLEAN BY <1>0, <2>1, CloseCloses DEF Invalid
        <3>2. failures' \in 0 .. AlarmAfter /\ alarmed' \in BOOLEAN /\ filler' \in BOOLEAN
            BY <1>0, <2>0, <2>1, FailuresFit DEF Invalid
        <3> QED BY <2>1, <3>1, <3>2, EndKeeps DEF Invalid
    <2>2. CASE Spoken
        <3>1. ~stream' /\ stream' \in BOOLEAN BY <1>0, <2>2, CloseCloses DEF Spoken
        <3>2. failures' \in 0 .. AlarmAfter /\ alarmed' \in BOOLEAN /\ filler' \in BOOLEAN
            BY <1>0, <2>2, NoFailureFits DEF Spoken
        <3> QED BY <2>2, <3>1, <3>2, EndKeeps DEF Spoken
    <2>3. CASE Silent
        <3>1. ~stream' /\ stream' \in BOOLEAN
            BY <1>0, <2>3 DEF Silent, StreamsAreClosed, TypeOK
        <3>2. failures' \in 0 .. AlarmAfter /\ alarmed' \in BOOLEAN /\ filler' \in BOOLEAN
            BY <1>0, <2>3, NoFailureFits DEF Silent
        <3> QED BY <2>3, <3>1, <3>2, EndKeeps DEF Silent
    <2>4. CASE NoAnswer
        <3>1. ~stream' /\ stream' \in BOOLEAN BY <1>0, <2>4, CloseCloses DEF NoAnswer
        <3>2. failures' \in 0 .. AlarmAfter /\ alarmed' \in BOOLEAN /\ filler' \in BOOLEAN
            <4>1. CASE call.cancelled BY <2>0, <2>4, <4>1 DEF NoAnswer, streak
            <4>2. CASE ~call.cancelled
                <5>1. filler' \in BOOLEAN BY <2>0, <2>4, <4>2 DEF NoAnswer
                <5>2. Failed BY <2>4, <4>2 DEF NoAnswer
                <5> QED BY <1>0, <5>1, <5>2, FailuresFit
            <4> QED BY <4>1, <4>2
        <3> QED BY <2>4, <3>1, <3>2, EndKeeps DEF NoAnswer
    <2> QED BY <1>10, <2>1, <2>2, <2>3, <2>4 DEF Answering
<1>11. CASE Result
    <2>1. /\ awaited > 0 /\ awaited' = awaited - 1 /\ owed' = owed - 1
          /\ UNCHANGED <<life, pool, pending, ended, timer, running, call, stream, streak>>
        BY <1>11 DEF Result
    <2>2. /\ awaited \in 0 .. MaxAwaited /\ call.recall \in BOOLEAN
          /\ owed = awaited + (IF call.recall THEN 1 ELSE 0)
        BY <1>0 DEF TypeOK, RecallsAreReported
    <2>3. /\ awaited' \in 0 .. MaxAwaited /\ owed' \in 0 .. MaxAwaited + 1
          /\ owed' = awaited' + (IF call.recall THEN 1 ELSE 0)
        <3>1. CASE call.recall BY <2>1, <2>2, <3>1 DEF LimitsAreNumbers
        <3>2. CASE ~call.recall BY <2>1, <2>2, <3>2 DEF LimitsAreNumbers
        <3> QED BY <3>1, <3>2
    <2>4. TypeOK' BY <1>0, <2>1, <2>3 DEF TypeOK, streak
    <2> QED
        BY <1>0, <2>1, <2>3, <2>4
        DEF IInv, CallInOrder, StreamsAreClosed, RecallsAreReported, NothingIsForgotten,
            NoCallOutlives, Yields
<1>12. CASE Leave
    <2>1. TypeOK' BY <1>0, <1>12 DEF Leave, TypeOK, streak
    <2> QED
        BY <1>0, <1>12, <2>1
        DEF Leave, IInv, CallInOrder, StreamsAreClosed, RecallsAreReported,
            NothingIsForgotten, NoCallOutlives, Yields
<1>13. CASE Dispose
    <2>1. /\ life' = "gone" /\ timer' = FALSE
          /\ call' = IF call # NoCall THEN [call EXCEPT !.cancelled = TRUE] ELSE call
          /\ UNCHANGED <<pool, pending, ended, running, stream, streak, awaited, owed>>
        BY <1>13 DEF Dispose
    <2>2. /\ call' \in CallRecord /\ call'.step = call.step /\ call'.recall = call.recall
          /\ call'.opened = call.opened /\ call'.cancellable = call.cancellable
          /\ call'.taken = call.taken /\ call'.told = call.told
          /\ call = NoCall => call' = NoCall
          /\ call # NoCall => call'.cancelled
        BY <1>0, <2>1 DEF TypeOK, CallRecord
    <2>3. TypeOK' BY <1>0, <2>1, <2>2 DEF TypeOK, CallRecord, streak
    <2>4. CallInOrder' BY <1>0, <2>1, <2>2, NoCallFields DEF CallInOrder
    <2>5. StreamsAreClosed' /\ RecallsAreReported'
        BY <1>0, <2>1, <2>2 DEF StreamsAreClosed, RecallsAreReported
    <2>6. NothingIsForgotten' BY <2>1 DEF NothingIsForgotten
    <2>7. NoCallOutlives' BY <2>1, <2>2 DEF NoCallOutlives
    <2>8. Yields BY <2>1 DEF Yields
    <2> QED BY <2>3, <2>4, <2>5, <2>6, <2>7, <2>8 DEF IInv
<1>14. CASE UNCHANGED vars
    BY <1>0, <1>14
    DEF vars, streak, IInv, TypeOK, CallInOrder, StreamsAreClosed, RecallsAreReported,
        NothingIsForgotten, NoCallOutlives
<1> QED
    BY <1>1, <1>2, <1>3, <1>4, <1>5, <1>6, <1>7, <1>8, <1>9, <1>10, <1>11, <1>12, <1>13,
       <1>14 DEF Next
-----------------------------------------------------------------------------
\* The inductive invariant holds in every behaviour.
THEOREM Invariance == ASSUME LimitsAreNumbers PROVE Spec => []IInv
<1>1. Init => IInv BY InitEstablishes
<1>2. IInv /\ [Next]_vars => IInv' BY StepKeeps
<1> QED BY <1>1, <1>2, PTL DEF Spec

\* However a call ends, every stream it opened is closed, every recall is reported
\* once, no trigger is forgotten and no call outlives the plugin, for any limits.
THEOREM EveryCallIsTidy == ASSUME LimitsAreNumbers PROVE Spec => []CallsAreTidy
<1>1. IInv => CallsAreTidy BY DEF IInv, CallsAreTidy
<1> QED BY <1>1, Invariance, PTL

\* What comes cancels only idle talk that nobody has heard, for any limits.
THEOREM OnlyIdleTalkYields == ASSUME LimitsAreNumbers PROVE Spec => OnlyIdleTalkGivesWay
<1>1. IInv /\ [Next]_vars => [Yields]_vars BY StepKeeps
<1> QED BY <1>1, Invariance, PTL DEF Spec, OnlyIdleTalkGivesWay, Yields

(***************************************************************************)
(* The client of the live platform                                         *)
(***************************************************************************)
LimitsAreCounts == BeatLimit \in Nat \ {0} /\ LinkLimit \in Nat \ {0}

\* What the three properties rest on: a session is recorded (#game) from the moment
\* the platform's answer is there until its end is asked for, and only then; a run
\* is over only after stop(); a client that is stopped beats no more, and a session
\* has a gap unless it receives.
SessionsAreRecorded ==
    /\ Client!InSession => game # "none"
    /\ run \in {"idle", "opening", "waiting", "resting", "ending"} => game = "none"
    /\ unheard => game # "none"
    /\ run = "over" => Client!Aborted
    /\ Client!Aborted => run \in {"idle", "opening", "ending", "over"} /\ heart = "off"
    /\ stop = "ending" => game = "none"
    /\ stop = "done" => game = "none"
    /\ stop \in {"ending", "done"} => run = "over"

ClientInv == Client!TypeOK /\ SessionsAreRecorded /\ Client!GapsBracketSilence /\ Client!HeartbeatLastsAsSession

LEMMA ZeroIsBelow == ASSUME LimitsAreCounts PROVE 0 \in 0 .. BeatLimit - 1 /\ 0 \in 0 .. LinkLimit - 1
BY DEF LimitsAreCounts

LEMMA ClientInitEstablishes == ASSUME LimitsAreCounts, Client!Init PROVE ClientInv
<1>1. Client!TypeOK BY ZeroIsBelow DEF Client!Init, Client!TypeOK
<1>2. SessionsAreRecorded BY DEF Client!Init, SessionsAreRecorded, Client!InSession, Client!Aborted
<1>3. Client!GapsBracketSilence /\ Client!HeartbeatLastsAsSession
    BY DEF Client!Init, Client!GapsBracketSilence, Client!HeartbeatLastsAsSession, Client!InSession, Client!Aborted
<1> QED BY <1>1, <1>2, <1>3 DEF ClientInv

\* A session that is over, whatever it was waiting for.
LEMMA InvalidKeeps == ASSUME ClientInv, Client!InSession, Client!Invalid PROVE ClientInv'
BY DEF Client!Invalid, Client!EndGame, ClientInv, Client!TypeOK, SessionsAreRecorded, Client!GapsBracketSilence,
       Client!HeartbeatLastsAsSession, Client!InSession, Client!Aborted

\* One more failure is still below the limit, or is not counted.
LEMMA OneMoreFits ==
    ASSUME LimitsAreCounts, Client!TypeOK
    PROVE  /\ misses + 1 < BeatLimit => misses + 1 \in 0 .. BeatLimit - 1
           /\ dead + 1 < LinkLimit => dead + 1 \in 0 .. LinkLimit - 1
BY DEF LimitsAreCounts, Client!TypeOK

LEMMA ClientStepKeeps == ASSUME LimitsAreCounts, ClientInv, [Client!Next]_(Client!vars) PROVE ClientInv'
<1>0. 0 \in 0 .. BeatLimit - 1 /\ 0 \in 0 .. LinkLimit - 1
    BY ZeroIsBelow
<1> USE <1>0
<1> USE DEF LimitsAreCounts, ClientInv, Client!TypeOK, SessionsAreRecorded, Client!GapsBracketSilence,
        Client!HeartbeatLastsAsSession, Client!InSession, Client!Aborted
<1>1. CASE Client!Start BY <1>1 DEF Client!Start
<1>2. CASE Client!PlatformOpens BY <1>2 DEF Client!PlatformOpens
<1>3. CASE Client!Opening
    <2>1. PICK named \in BOOLEAN, links \in BOOLEAN : Client!Opened(named, links)
        BY <1>3 DEF Client!Opening
    <2>2. CASE links \/ Client!Aborted
        <3>1. CASE Client!Aborted BY <2>1, <3>1 DEF Client!Opened
        <3>2. CASE ~Client!Aborted BY <2>1, <2>2, <3>2 DEF Client!Opened
        <3> QED BY <3>1, <3>2
    <2>3. CASE ~(links \/ Client!Aborted) BY <2>1, <2>3 DEF Client!Opened
    <2> QED BY <2>2, <2>3
<1>4. CASE Client!OpenFails BY <1>4 DEF Client!OpenFails
<1>5. CASE Client!Again BY <1>5 DEF Client!Again
<1>6. CASE Client!LinkReady BY <1>6 DEF Client!LinkReady
<1>7. CASE Client!Linking
    <2>1. PICK refused \in BOOLEAN : Client!LinkFails(refused)
        BY <1>7 DEF Client!Linking
    <2>2. CASE refused \/ ~(dead + 1 < LinkLimit)
        <3>1. Client!InSession /\ Client!Invalid BY <2>1, <2>2 DEF Client!LinkFails
        <3> QED BY <3>1, InvalidKeeps
    <2>3. CASE ~refused /\ dead + 1 < LinkLimit
        <3>1. ~(dead + 1 >= LinkLimit) BY <2>3
        <3>2. /\ run = "linking" /\ run' = "pausing"
              /\ dead' = dead + 1 /\ gap' = TRUE
              /\ UNCHANGED <<stop, game, heart, misses, ready, room, unheard>>
            BY <2>1, <2>3, <3>1 DEF Client!LinkFails
        <3> QED BY <2>3, <3>2, OneMoreFits
    <2> QED BY <2>2, <2>3
<1>8. CASE Client!LinkLost BY <1>8 DEF Client!LinkLost
<1>9. CASE Client!NextLink BY <1>9 DEF Client!NextLink
<1>10. CASE Client!Beat BY <1>10 DEF Client!Beat
<1>11. CASE Client!BeatOk BY <1>11 DEF Client!BeatOk
<1>12. CASE Client!BeatFails
    <2>1. CASE room # "ours" \/ ~(misses + 1 < BeatLimit)
        <3>1. Client!InSession /\ Client!Invalid BY <1>12, <2>1 DEF Client!BeatFails
        <3> QED BY <3>1, InvalidKeeps
    <2>2. CASE room = "ours" /\ misses + 1 < BeatLimit
        BY <1>12, <2>2, OneMoreFits DEF Client!BeatFails
    <2> QED BY <2>1, <2>2
<1>13. CASE Client!SessionEnds
    BY <1>13, InvalidKeeps DEF Client!SessionEnds
<1>14. CASE Client!PlatformCloses BY <1>14 DEF Client!PlatformCloses
<1>15. CASE Client!Ending BY <1>15 DEF Client!Ending, Client!Ended
<1>16. CASE Client!Stop BY <1>16 DEF Client!Stop
<1>17. CASE Client!StopEnds BY <1>17 DEF Client!StopEnds, Client!EndGame
<1>18. CASE Client!StopEnding
    <2>1. PICK how \in {"empty", "left"} : Client!StopEnded(how)
        BY <1>18 DEF Client!StopEnding
    <2> QED BY <2>1 DEF Client!StopEnded
<1>19. CASE UNCHANGED Client!vars BY <1>19 DEF Client!vars
<1> QED
    BY <1>1, <1>2, <1>3, <1>4, <1>5, <1>6, <1>7, <1>8, <1>9, <1>10, <1>11, <1>12, <1>13,
       <1>14, <1>15, <1>16, <1>17, <1>18, <1>19 DEF Client!Next

\* In every behaviour sessions, what is recorded of them, gaps and heartbeats agree.
THEOREM ClientInvariance == ASSUME LimitsAreCounts PROVE Client!Spec => []ClientInv
<1>1. Client!Init => ClientInv BY ClientInitEstablishes
<1>2. ClientInv /\ [Client!Next]_(Client!vars) => ClientInv' BY ClientStepKeeps
<1> QED BY <1>1, <1>2, PTL DEF Client!Spec

\* A session of the platform is never left without being asked to end, what could not
\* be received is inside a gap, and the heartbeat lasts exactly as long as a session
\* with a number, for any limits: #run and stop() both pass the place where a session
\* is recorded before they look at each other.
THEOREM ClientKeepsSessions == ASSUME LimitsAreCounts PROVE Client!Spec => []Client!SessionsAreKept
<1>1. ClientInv => Client!SessionsAreKept
    BY DEF ClientInv, Client!TypeOK, SessionsAreRecorded, Client!SessionsAreEnded, Client!SessionsAreKept
<1> QED BY <1>1, ClientInvariance, PTL
================================================================================
