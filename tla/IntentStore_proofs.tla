--------------------------- MODULE IntentStore_proofs ---------------------------
(***************************************************************************)
(* Proofs about IntentStore, for any number of intents, targets, callers   *)
(* and crashes.                                                            *)
(***************************************************************************)
EXTENDS IntentStore, SequenceTheorems, TLAPS

-----------------------------------------------------------------------------
(* Type correctness.                                                       *)

LEMMA MoveType ==
    ASSUME TypeOK, NEW k \in Key, NEW to \in IntentState, NEW event \in EventType,
           Move(k, to, event)
    PROVE  /\ row' \in [Key -> [state : IntentState, payload : Payload \cup {None}]]
           /\ history' \in [Key -> Seq(EventType)]
<1>1. Append(history[k], event) \in Seq(EventType)
  BY AppendProperties DEF TypeOK
<1>2. history' \in [Key -> Seq(EventType)]
  BY <1>1 DEF TypeOK, Move
<1>3. row' \in [Key -> [state : IntentState, payload : Payload \cup {None}]]
  BY DEF TypeOK, Move
<1> QED
  BY <1>2, <1>3

LEMMA RecoveryEventsType == \A k \in Key : RecoveryEvents(k) \in Seq(EventType)
<1> TAKE k \in Key
<1>1. /\ <<"abandoned">> \in Seq(EventType)
      /\ <<"orphaned", "interrupted">> \in Seq(EventType)
      /\ <<"orphaned">> \in Seq(EventType)
      /\ << >> \in Seq(EventType)
  BY DEF EventType
<1>2. \/ RecoveryEvents(k) = <<"abandoned">>
      \/ RecoveryEvents(k) = <<"orphaned", "interrupted">>
      \/ RecoveryEvents(k) = <<"orphaned">>
      \/ RecoveryEvents(k) = << >>
  BY Zenon DEF RecoveryEvents
<1> QED BY <1>1, <1>2

LEMMA RecoverType ==
    ASSUME TypeOK, Recover
    PROVE  /\ row' \in [Key -> [state : IntentState, payload : Payload \cup {None}]]
           /\ history' \in [Key -> Seq(EventType)]
<1>1. \A k \in Key : RecoveredState(k) \in IntentState
  BY DEF TypeOK, RecoveredState, IntentState
<1>2. \A k \in Key : RecoveryEvents(k) \in Seq(EventType)
  BY RecoveryEventsType
<1>3. \A k \in Key : history[k] \o RecoveryEvents(k) \in Seq(EventType)
  BY <1>2, ConcatProperties DEF TypeOK
<1>4. row' = [k \in Key |-> [row[k] EXCEPT !.state = RecoveredState(k)]]
  BY DEF Recover
<1>5. row' \in [Key -> [state : IntentState, payload : Payload \cup {None}]]
  BY <1>1, <1>4 DEF TypeOK
<1>6. history' \in [Key -> Seq(EventType)]
  BY <1>3 DEF Recover
<1> QED
  BY <1>5, <1>6

\* What a call holds, by how far it has got.
LEMMA CallShape ==
    ASSUME TypeOK, NEW c \in Caller
    PROVE  /\ call[c] \in CallState
           /\ call[c].pc = "holding" => call[c] = Holding(call[c].key) /\ call[c].key \in Key
           /\ call[c].pc \in {"started", "sent"} =>
                 /\ call[c] \in [pc : {"started", "sent"}, key : Key, payload : Payload]
                 /\ call[c].key \in Key
                 /\ call[c].payload \in Payload
BY DEF TypeOK, CallState, Idle, Holding

\* The four ways the calls change.
LEMMA CallSteps ==
    ASSUME TypeOK, NEW c \in Caller
    PROVE  /\ [call EXCEPT ![c] = Idle] \in [Caller -> CallState]
           /\ \A k \in Key : [call EXCEPT ![c] = Holding(k)] \in [Caller -> CallState]
           /\ \A k \in Key, p \in Payload :
                 [call EXCEPT ![c] = Started(k, p)] \in [Caller -> CallState]
           /\ call[c].pc = "started" =>
                 [call EXCEPT ![c].pc = "sent"] \in [Caller -> CallState]
<1>1. Idle \in CallState /\ \A k \in Key : Holding(k) \in CallState
  BY DEF CallState
<1>2. \A k \in Key, p \in Payload : Started(k, p) \in CallState
  BY DEF CallState, Started
<1>3. ASSUME call[c].pc = "started"
      PROVE  [call EXCEPT ![c].pc = "sent"] \in [Caller -> CallState]
  <2>1. [call[c] EXCEPT !.pc = "sent"]
            \in [pc : {"started", "sent"}, key : Key, payload : Payload]
    <3>1. call[c] \in [pc : {"started", "sent"}, key : Key, payload : Payload]
      BY <1>3, CallShape
    <3> QED BY <3>1
  <2> QED BY <2>1 DEF TypeOK, CallState
<1> QED
  BY <1>1, <1>2, <1>3 DEF TypeOK

LEMMA TypeStep == TypeOK /\ [Next]_vars => TypeOK'
<1> SUFFICES ASSUME TypeOK, [Next]_vars PROVE TypeOK'
  OBVIOUS
<1> USE StoreAssumption DEF durable, outside
<1>1. ASSUME NEW c \in Caller, NEW k \in Key, NEW p \in Payload, Authorize(c, k, p)
      PROVE  TypeOK'
  <2>1. row' \in [Key -> [state : IntentState, payload : Payload \cup {None}]]
    BY <1>1 DEF TypeOK, Authorize, IntentState
  <2>2. history' \in [Key -> Seq(EventType)]
    <3>1. Append(history[k], "authorized") \in Seq(EventType)
      BY AppendProperties DEF TypeOK, EventType
    <3> QED BY <1>1, <3>1 DEF TypeOK, Authorize
  <2> QED BY <1>1, <2>1, <2>2, CallSteps DEF TypeOK, Authorize
<1>2. ASSUME NEW c \in Caller, NEW k \in Key, NEW p \in Payload, Duplicate(c, k, p)
      PROVE  TypeOK'
  BY <1>2, CallSteps DEF TypeOK, Duplicate
<1>3. ASSUME NEW c \in Caller, NEW p \in Payload, Start(c, p) PROVE TypeOK'
  <2>1. call[c].key \in Key
    BY <1>3, CallShape DEF Start
  <2>2. Move(call[c].key, "executing", "started")
    BY <1>3 DEF Start
  <2>3. /\ row' \in [Key -> [state : IntentState, payload : Payload \cup {None}]]
        /\ history' \in [Key -> Seq(EventType)]
    BY <2>1, <2>2, MoveType DEF IntentState, EventType
  <2>4. call' \in [Caller -> CallState]
    BY <1>3, <2>1, CallSteps DEF Start
  <2> QED BY <1>3, <2>3, <2>4 DEF TypeOK, Start
<1>4. ASSUME NEW c \in Caller, Throw(c) \/ StorageFault(c) \/ Refused(c) PROVE TypeOK'
  BY <1>4, CallSteps DEF TypeOK, Throw, StorageFault, Refused
<1>5. ASSUME NEW c \in Caller, Send(c) PROVE TypeOK'
  <2>1. <<call[c].key, call[c].payload>> \in Key \X Payload
    BY <1>5, CallShape DEF Send
  <2>2. call' \in [Caller -> CallState]
    BY <1>5, CallSteps DEF Send
  <2> QED BY <1>5, <2>1, <2>2 DEF TypeOK, Send
<1>6. ASSUME NEW c \in Caller, Succeed(c) \/ Fail(c) PROVE TypeOK'
  <2>1. call[c].key \in Key
    BY <1>6, CallShape DEF Succeed, Fail
  <2>2. \/ Move(call[c].key, "succeeded", "succeeded")
        \/ Move(call[c].key, "failed", "failed")
    BY <1>6 DEF Succeed, Fail
  <2>3. /\ row' \in [Key -> [state : IntentState, payload : Payload \cup {None}]]
        /\ history' \in [Key -> Seq(EventType)]
    BY <2>1, <2>2, MoveType DEF IntentState, EventType
  <2>4. call' \in [Caller -> CallState]
    BY <1>6, CallSteps DEF Succeed, Fail
  <2> QED BY <1>6, <2>3, <2>4 DEF TypeOK, Succeed, Fail
<1>7. ASSUME NEW k \in Key, NEW p \in Payload, Land(k, p) PROVE TypeOK'
  BY <1>7, AppendProperties DEF TypeOK, Land
<1>8. ASSUME NEW k \in Key, NEW ok \in BOOLEAN, NEW by \in {"reconcile", "operator"},
             Resolve(k, ok, by)
      PROVE  TypeOK'
  <2>1. \/ Move(k, "succeeded", "reconciled-ok")
        \/ Move(k, "failed", "reconciled-failed")
    BY <1>8 DEF Resolve
  <2>2. /\ row' \in [Key -> [state : IntentState, payload : Payload \cup {None}]]
        /\ history' \in [Key -> Seq(EventType)]
    BY <2>1, MoveType DEF IntentState, EventType
  <2> QED BY <1>8, <2>2 DEF TypeOK, Resolve
<1>9. CASE Crash \/ Open
  <2>1. [c \in Caller |-> Idle] \in [Caller -> CallState]
    BY DEF CallState
  <2>2. crashes' \in 0..MaxCrashes
    BY <1>9 DEF TypeOK, Crash, Open
  <2> QED BY <1>9, <2>1, <2>2 DEF TypeOK, Crash, Open
<1>10. CASE Recover
  BY <1>10, RecoverType DEF TypeOK, Recover
<1>11. CASE UNCHANGED vars
  BY <1>11 DEF TypeOK, vars
<1> QED
  BY <1>1, <1>2, <1>3, <1>4, <1>5, <1>6, <1>7, <1>8, <1>9, <1>10, <1>11 DEF Next, CallStep

\* Every variable has its type, and a call at work has an intent and a payload.
THEOREM TypeCorrect == Spec => []TypeOK
<1>1. Init => TypeOK
  BY StoreAssumption DEF Init, TypeOK, IntentState, CallState
<1> QED
  BY <1>1, TypeStep, PTL DEF Spec
-----------------------------------------------------------------------------
(* The inductive invariant.  The calls tie the rows to the outside: a call *)
(* at work holds its row in "executing", alone, and until it has sent its  *)
(* request the intent has left no trace outside.                           *)

IInv ==
    /\ TypeOK
    /\ CallsHoldRows
    /\ OneCallPerIntent
    /\ NoTraceBeforeStart
    /\ AtMostOnce
    /\ StartedRowsAreRecorded
    /\ WrittenAheadAsAuthorized

\* What a transaction on one intent does to the rows and the events.
LEMMA MoveRows ==
    ASSUME TypeOK, NEW k \in Key, NEW to \in IntentState, NEW event \in EventType,
           Move(k, to, event)
    PROVE  /\ row'[k].state = to
           /\ \A j \in Key \ {k} : row'[j] = row[j]
           /\ \A j \in Key : row'[j].payload = row[j].payload
           /\ \A j \in Key \ {k} : history'[j] = history[j]
           /\ history'[k] = Append(history[k], event)
BY DEF TypeOK, Move

\* An event is not taken back: what was recorded stays recorded.
LEMMA AppendKeeps ==
    ASSUME NEW S, NEW s \in Seq(S), NEW x \in S
    PROVE  /\ DOMAIN s \subseteq DOMAIN Append(s, x)
           /\ \A i \in DOMAIN s : Append(s, x)[i] = s[i]
           /\ Len(s) + 1 \in DOMAIN Append(s, x)
           /\ Append(s, x)[Len(s) + 1] = x
BY AppendProperties

\* A call keeps its hold when neither it, nor its row, nor the outside of its
\* intent changes.
LEMMA StillHolds ==
    ASSUME NEW c \in Caller, HoldsRow(c), call'[c] = call[c],
           phase' = "up" \/ call[c] = Idle,
           call[c].pc \in {"started", "sent"} => row'[call[c].key] = row[call[c].key],
           call[c].pc = "started" => (Outside(call[c].key)' => Outside(call[c].key))
    PROVE  HoldsRow(c)'
BY DEF HoldsRow, Idle

LEMMA IdleHolds == ASSUME NEW c \in Caller, call'[c] = Idle PROVE HoldsRow(c)'
BY DEF HoldsRow, Idle

\* The outside is seen through `wire` and `performed` only.
LEMMA OutsideSame ==
    ASSUME UNCHANGED outside, NEW k PROVE Outside(k)' <=> Outside(k)
BY DEF outside, Outside

LEMMA CallsStep == IInv /\ [Next]_vars => CallsHoldRows'
<1> SUFFICES ASSUME IInv, [Next]_vars, NEW d \in Caller PROVE HoldsRow(d)'
  BY DEF CallsHoldRows
<1>0. /\ TypeOK
      /\ HoldsRow(d)
      /\ \A c \in Caller : HoldsRow(c)
      /\ OneCallPerIntent
      /\ NoTraceBeforeStart
  BY DEF IInv, CallsHoldRows
<1>1. ASSUME NEW c \in Caller, NEW k \in Key, NEW p \in Payload, Authorize(c, k, p)
      PROVE  HoldsRow(d)'
  <2>1. CASE d = c
    BY <1>0, <1>1, <2>1 DEF TypeOK, Authorize, HoldsRow, Holding
  <2>2. CASE d # c
    <3>1. call'[d] = call[d] /\ phase' = "up" /\ UNCHANGED outside
      BY <1>0, <1>1, <2>2 DEF TypeOK, Authorize
    <3>2. call[d].pc \in {"started", "sent"} => row'[call[d].key] = row[call[d].key]
      BY <1>0, <1>1, CallShape DEF TypeOK, Authorize, HoldsRow
    <3> QED BY <1>0, <3>1, <3>2, StillHolds, OutsideSame
  <2> QED BY <2>1, <2>2
<1>2. ASSUME NEW c \in Caller, NEW k \in Key, NEW p \in Payload, Duplicate(c, k, p)
      PROVE  HoldsRow(d)'
  <2>1. CASE d = c
    BY <1>0, <1>2, <2>1 DEF TypeOK, Duplicate, HoldsRow, Holding
  <2>2. CASE d # c
    BY <1>0, <1>2, <2>2, StillHolds, OutsideSame DEF TypeOK, Duplicate, durable
  <2> QED BY <2>1, <2>2
<1>3. ASSUME NEW c \in Caller, NEW p \in Payload, Start(c, p) PROVE HoldsRow(d)'
  <2>0. PICK k \in Key : k = call[c].key
    BY <1>0, <1>3, CallShape DEF Start
  <2>1. /\ Move(k, "executing", "started")
        /\ p = row[k].payload
        /\ phase' = "up"
        /\ call' = [call EXCEPT ![c] = Started(k, p)]
        /\ UNCHANGED outside
    BY <1>3, <2>0 DEF Start
  <2>2. /\ row'[k].state = "executing"
        /\ row'[k].payload = p
        /\ \A j \in Key \ {k} : row'[j] = row[j]
    BY <1>0, <2>1, MoveRows DEF IntentState, EventType
  <2>3. row[k].state = "pending"
    BY <2>1 DEF Move, Transitions
  <2>4. CASE d = c
    <3>1. call'[d] = Started(k, p)
      BY <1>0, <2>1, <2>4 DEF TypeOK
    <3>2. ~Outside(k)'
      BY <1>0, <2>1, <2>3, OutsideSame DEF NoTraceBeforeStart
    <3> QED BY <2>1, <2>2, <3>1, <3>2 DEF HoldsRow, Started
  <2>5. CASE d # c
    <3>1. call'[d] = call[d]
      BY <1>0, <2>1, <2>5 DEF TypeOK
    <3>2. call[d].pc \in {"started", "sent"} => row'[call[d].key] = row[call[d].key]
      BY <1>0, <2>2, <2>3, CallShape DEF HoldsRow
    <3> QED BY <1>0, <2>1, <3>1, <3>2, StillHolds, OutsideSame
  <2> QED BY <2>4, <2>5
<1>4. ASSUME NEW c \in Caller, Throw(c) \/ StorageFault(c) \/ Refused(c) PROVE HoldsRow(d)'
  <2>1. call' = [call EXCEPT ![c] = Idle] /\ UNCHANGED <<phase, durable, outside>>
    BY <1>4 DEF Throw, StorageFault, Refused
  <2>2. CASE d = c
    BY <1>0, <2>1, <2>2, IdleHolds DEF TypeOK
  <2>3. CASE d # c
    <3>1. call'[d] = call[d]
      BY <1>0, <2>1, <2>3 DEF TypeOK
    <3>2. phase' = "up" \/ call[d] = Idle
      BY <1>0, <2>1 DEF HoldsRow, TypeOK
    <3> QED BY <1>0, <2>1, <3>1, <3>2, StillHolds, OutsideSame DEF durable
  <2> QED BY <2>2, <2>3
<1>5. ASSUME NEW c \in Caller, Send(c) PROVE HoldsRow(d)'
  <2>0. PICK k \in Key : k = call[c].key
    BY <1>0, <1>5, CallShape DEF Send
  <2>1. /\ call' = [call EXCEPT ![c].pc = "sent"]
        /\ wire' = wire \cup {<<k, call[c].payload>>}
        /\ UNCHANGED <<phase, durable, performed>>
        /\ call[c].pc = "started"
        /\ phase = "up"
    BY <1>5, <2>0 DEF Send
  <2>2. CASE d = c
    BY <1>0, <2>0, <2>1, <2>2 DEF TypeOK, HoldsRow, durable
  <2>3. CASE d # c
    <3>1. call'[d] = call[d]
      BY <1>0, <2>1, <2>3 DEF TypeOK
    <3>2. call[d].pc = "started" => call[d].key # k
      BY <1>0, <2>0, <2>1, <2>3, CallShape DEF OneCallPerIntent, Runs
    <3>3. ASSUME call[d].pc = "started", Outside(call[d].key)' PROVE Outside(call[d].key)
      <4>1. PICK j \in Key : j = call[d].key
        BY <1>0, <3>3, CallShape
      <4>2. Outside(j)' => Outside(j)
        BY <2>1, <3>2, <3>3, <4>1 DEF Outside
      <4> QED BY <3>1, <3>3, <4>1, <4>2
    <3>4. row' = row /\ phase' = "up"
      BY <2>1 DEF durable
    <3> QED BY <1>0, <3>1, <3>3, <3>4, StillHolds
  <2> QED BY <2>2, <2>3
<1>6. ASSUME NEW c \in Caller, Succeed(c) \/ Fail(c) PROVE HoldsRow(d)'
  <2>0. PICK k \in Key : k = call[c].key
    BY <1>0, <1>6, CallShape DEF Succeed, Fail
  <2>1. /\ Move(k, "succeeded", "succeeded") \/ Move(k, "failed", "failed")
        /\ call' = [call EXCEPT ![c] = Idle]
        /\ phase = "up"
        /\ UNCHANGED <<phase, outside>>
        /\ call[c].pc \in {"started", "sent"}
    BY <1>6, <2>0 DEF Succeed, Fail
  <2>2. \A j \in Key \ {k} : row'[j] = row[j]
    BY <1>0, <2>1, MoveRows DEF IntentState, EventType
  <2>3. CASE d = c
    BY <1>0, <2>1, <2>3, IdleHolds DEF TypeOK
  <2>4. CASE d # c
    <3>1. call'[d] = call[d]
      BY <1>0, <2>1, <2>4 DEF TypeOK
    <3>2. call[d].pc \in {"started", "sent"} => call[d].key \in Key \ {k}
      BY <1>0, <2>0, <2>1, <2>4, CallShape DEF OneCallPerIntent, Runs
    <3>3. call[d].pc \in {"started", "sent"} => row'[call[d].key] = row[call[d].key]
      BY <2>2, <3>2
    <3>4. phase' = "up" /\ \A j : Outside(j)' <=> Outside(j)
      BY <2>1, OutsideSame
    <3> QED BY <1>0, <3>1, <3>3, <3>4, StillHolds
  <2> QED BY <2>3, <2>4
<1>7. ASSUME NEW k \in Key, NEW p \in Payload, Land(k, p) PROVE HoldsRow(d)'
  <2>1. /\ <<k, p>> \in wire
        /\ wire' = wire \ {<<k, p>>}
        /\ performed' = [performed EXCEPT ![k] = Append(@, p)]
        /\ UNCHANGED <<phase, durable, call>>
    BY <1>7 DEF Land
  <2>2. Outside(k)
    BY <2>1 DEF Outside
  <2>3. \A j \in Key \ {k} : Outside(j)' => Outside(j)
    BY <1>0, <2>1 DEF Outside, TypeOK
  <2>4. phase' = "up" \/ call[d] = Idle
    BY <1>0, <2>1 DEF HoldsRow, TypeOK
  <2> QED BY <1>0, <2>1, <2>2, <2>3, <2>4, CallShape, StillHolds DEF durable
<1>8. ASSUME NEW k \in Key, NEW ok \in BOOLEAN, NEW by \in {"reconcile", "operator"},
             Resolve(k, ok, by)
      PROVE  HoldsRow(d)'
  <2>1. /\ Move(k, "succeeded", "reconciled-ok") \/ Move(k, "failed", "reconciled-failed")
        /\ row[k].state = "unknown"
        /\ phase = "up"
        /\ UNCHANGED <<phase, call, outside>>
    BY <1>8 DEF Resolve
  <2>2. \A j \in Key \ {k} : row'[j] = row[j]
    BY <1>0, <2>1, MoveRows DEF IntentState, EventType
  <2>3. call[d].pc \in {"started", "sent"} => call[d].key \in Key \ {k}
    BY <1>0, <2>1, CallShape DEF HoldsRow
  <2> QED BY <1>0, <2>1, <2>2, <2>3, StillHolds, OutsideSame
<1>9. CASE Crash
  BY <1>9, IdleHolds DEF Crash
<1>10. CASE Open \/ Recover
  BY <1>0, <1>10, IdleHolds DEF Open, Recover, HoldsRow
<1>11. CASE UNCHANGED vars
  BY <1>0, <1>11, OutsideSame DEF vars, outside, HoldsRow
<1> QED
  BY <1>1, <1>2, <1>3, <1>4, <1>5, <1>6, <1>7, <1>8, <1>9, <1>10, <1>11 DEF Next, CallStep

LEMMA OneCallStep == IInv /\ [Next]_vars => OneCallPerIntent'
<1> SUFFICES ASSUME IInv, [Next]_vars PROVE OneCallPerIntent'
  OBVIOUS
<1>0. /\ TypeOK
      /\ \A c \in Caller : HoldsRow(c)
      /\ OneCallPerIntent
  BY DEF IInv, CallsHoldRows
<1>1. ASSUME NEW c \in Caller, call'[c].pc \in {"idle", "holding"},
             \A d \in Caller \ {c} : call'[d] = call[d]
      PROVE  OneCallPerIntent'
  BY <1>0, <1>1 DEF OneCallPerIntent, Runs
<1>2. ASSUME NEW c \in Caller, NEW k \in Key, NEW p \in Payload,
             Authorize(c, k, p) \/ Duplicate(c, k, p)
      PROVE  OneCallPerIntent'
  <2>1. call' = [call EXCEPT ![c] = Holding(k)]
    BY <1>2 DEF Authorize, Duplicate
  <2> QED BY <1>0, <1>1, <2>1 DEF TypeOK, Holding
<1>3. ASSUME NEW c \in Caller, NEW p \in Payload, Start(c, p) PROVE OneCallPerIntent'
  <2>1. /\ row[call[c].key].state = "pending"
        /\ call' = [call EXCEPT ![c] = Started(call[c].key, p)]
    BY <1>3 DEF Start, Move, Transitions
  <2>2. \A d \in Caller : ~Runs(d, call[c].key)
    BY <1>0, <2>1 DEF HoldsRow, Runs
  <2>3. /\ call'[c].key = call[c].key
        /\ \A d \in Caller \ {c} : call'[d] = call[d]
    BY <1>0, <2>1 DEF TypeOK, Started
  <2> QED BY <1>0, <2>2, <2>3 DEF OneCallPerIntent, Runs
<1>4. ASSUME NEW c \in Caller,
             Throw(c) \/ StorageFault(c) \/ Refused(c) \/ Succeed(c) \/ Fail(c)
      PROVE  OneCallPerIntent'
  <2>1. call' = [call EXCEPT ![c] = Idle]
    BY <1>4 DEF Throw, StorageFault, Refused, Succeed, Fail
  <2> QED BY <1>0, <1>1, <2>1 DEF TypeOK, Idle
<1>5. ASSUME NEW c \in Caller, Send(c) PROVE OneCallPerIntent'
  <2>1. call' = [call EXCEPT ![c].pc = "sent"] /\ call[c].pc = "started"
    BY <1>5 DEF Send
  <2>2. \A d \in Caller, k \in Key : Runs(d, k)' <=> Runs(d, k)
    BY <1>0, <2>1, CallShape DEF TypeOK, Runs
  <2> QED BY <1>0, <2>2 DEF OneCallPerIntent
<1>6. CASE UNCHANGED call
  BY <1>0, <1>6 DEF OneCallPerIntent, Runs
<1>7. CASE Crash
  BY <1>7 DEF Crash, Idle, OneCallPerIntent, Runs
<1> QED
  BY <1>2, <1>3, <1>4, <1>5, <1>6, <1>7
  DEF Next, CallStep, Land, Resolve, Open, Recover, vars

\* Rows only enter "none" and "pending" before anything was sent for them.
LEMMA NoTraceStep == IInv /\ [Next]_vars => NoTraceBeforeStart'
<1> SUFFICES ASSUME IInv, [Next]_vars, NEW j \in Key,
                    row'[j].state \in {"none", "pending"}
             PROVE  ~Outside(j)'
  BY DEF NoTraceBeforeStart
<1>0. /\ TypeOK
      /\ \A c \in Caller : HoldsRow(c)
      /\ NoTraceBeforeStart
  BY DEF IInv, CallsHoldRows
<1>1. CASE row[j].state \in {"none", "pending"}
  <2>1. ~Outside(j)
    BY <1>0, <1>1 DEF NoTraceBeforeStart
  <2>2. ASSUME NEW c \in Caller, Send(c) PROVE ~Outside(j)'
    <3>1. call[c].key # j
      BY <1>0, <1>1, <2>2 DEF Send, HoldsRow
    <3> QED BY <2>1, <2>2, <3>1 DEF Send, Outside
  <2>3. ASSUME NEW k \in Key, NEW p \in Payload, Land(k, p) PROVE ~Outside(j)'
    <3>1. k # j
      BY <2>1, <2>3 DEF Land, Outside
    <3> QED BY <1>0, <2>1, <2>3, <3>1 DEF Land, Outside, TypeOK
  <2>4. CASE UNCHANGED outside
    BY <2>1, <2>4, OutsideSame
  <2> QED
    BY <2>2, <2>3, <2>4
    DEF Next, CallStep, Authorize, Duplicate, Start, Throw, Succeed, Fail, StorageFault,
        Refused, Resolve, Crash, Open, Recover, vars, outside
<1>2. CASE row[j].state \notin {"none", "pending"}
  <2>1. ASSUME NEW k \in Key, NEW to \in IntentState \ {"none", "pending"},
               NEW event \in EventType, Move(k, to, event)
        PROVE  FALSE
    BY <1>0, <1>2, <2>1, MoveRows
  <2>2. ASSUME NEW c \in Caller, NEW k \in Key, NEW p \in Payload, Authorize(c, k, p)
        PROVE  FALSE
    BY <1>0, <1>2, <2>2 DEF Authorize, TypeOK
  <2>3. ASSUME NEW c \in Caller, NEW p \in Payload, Start(c, p) PROVE FALSE
    BY <1>0, <2>1, <2>3, CallShape DEF Start, IntentState, EventType
  <2>4. ASSUME NEW c \in Caller, Succeed(c) \/ Fail(c) PROVE FALSE
    BY <1>0, <2>1, <2>4, CallShape DEF Succeed, Fail, IntentState, EventType
  <2>5. ASSUME NEW k \in Key, NEW ok, NEW by, Resolve(k, ok, by) PROVE FALSE
    BY <2>1, <2>5 DEF Resolve, IntentState, EventType
  <2>6. CASE Recover
    BY <1>0, <1>2, <2>6 DEF Recover, RecoveredState, TypeOK
  <2>7. CASE UNCHANGED row
    BY <1>2, <2>7
  <2> QED
    BY <2>2, <2>3, <2>4, <2>5, <2>6, <2>7
    DEF Next, CallStep, Duplicate, Send, Throw, StorageFault, Refused, Land, Crash, Open,
        vars, durable
<1> QED
  BY <1>1, <1>2

LEMMA AtMostOnceStep == IInv /\ [Next]_vars => AtMostOnce'
<1> SUFFICES ASSUME IInv, [Next]_vars PROVE AtMostOnce'
  OBVIOUS
<1>0. /\ TypeOK
      /\ \A c \in Caller : HoldsRow(c)
      /\ AtMostOnce
  BY DEF IInv, CallsHoldRows
<1>1. ASSUME NEW c \in Caller, Send(c) PROVE AtMostOnce'
  <2>1. PICK k \in Key, p \in Payload : k = call[c].key /\ p = call[c].payload
    BY <1>0, <1>1, CallShape DEF Send
  <2>2. ~Outside(k)
    BY <1>0, <1>1, <2>1 DEF Send, HoldsRow
  <2>3. wire' = wire \cup {<<k, p>>} /\ performed' = performed
    BY <1>1, <2>1 DEF Send
  <2> QED BY <1>0, <2>2, <2>3 DEF AtMostOnce, Outside
<1>2. ASSUME NEW k \in Key, NEW p \in Payload, Land(k, p) PROVE AtMostOnce'
  <2>1. /\ <<k, p>> \in wire
        /\ wire' = wire \ {<<k, p>>}
        /\ performed' = [performed EXCEPT ![k] = Append(@, p)]
    BY <1>2 DEF Land
  <2>2. performed[k] = << >> /\ \A q \in Payload : <<k, q>> \notin wire'
    BY <1>0, <2>1 DEF AtMostOnce
  <2>3. Len(performed'[k]) <= 1
    BY <1>0, <2>1, <2>2, AppendProperties DEF TypeOK
  <2>4. \A j \in Key \ {k} : performed'[j] = performed[j]
    BY <1>0, <2>1 DEF TypeOK
  <2> QED BY <1>0, <2>1, <2>2, <2>3, <2>4 DEF AtMostOnce
<1>3. CASE UNCHANGED outside
  BY <1>0, <1>3 DEF outside, AtMostOnce
<1> QED
  BY <1>1, <1>2, <1>3
  DEF Next, CallStep, Authorize, Duplicate, Start, Throw, Succeed, Fail, StorageFault,
      Refused, Resolve, Crash, Open, Recover, vars, outside

\* Events are only ever added at the end.
Recorded(k, event) == \E i \in DOMAIN history[k] : history[k][i] = event

LEMMA RecordedForever ==
    ASSUME TypeOK, [Next]_vars, NEW j \in Key, NEW event, Recorded(j, event)
    PROVE  Recorded(j, event)'
<1>1. PICK i \in DOMAIN history[j] : history[j][i] = event
  BY DEF Recorded
<1>2. ASSUME NEW k \in Key, NEW x \in EventType,
             history' = [history EXCEPT ![k] = Append(@, x)]
      PROVE  Recorded(j, event)'
  <2>1. CASE j = k
    <3>1. history'[j] = Append(history[j], x) /\ history[j] \in Seq(EventType)
      BY <1>2, <2>1 DEF TypeOK
    <3>2. i \in DOMAIN history'[j] /\ history'[j][i] = event
      BY <1>1, <3>1, AppendKeeps
    <3> QED BY <3>2 DEF Recorded
  <2>2. CASE j # k
    BY <1>1, <1>2, <2>2 DEF TypeOK, Recorded
  <2> QED BY <2>1, <2>2
<1>3. ASSUME NEW c \in Caller, NEW k \in Key, NEW p \in Payload, Authorize(c, k, p)
      PROVE  Recorded(j, event)'
  BY <1>2, <1>3 DEF Authorize, EventType
<1>4. ASSUME NEW c \in Caller, NEW p \in Payload, Start(c, p) PROVE Recorded(j, event)'
  BY <1>2, <1>4, CallShape DEF Start, Move, EventType
<1>5. ASSUME NEW c \in Caller, Succeed(c) \/ Fail(c) PROVE Recorded(j, event)'
  BY <1>2, <1>5, CallShape DEF Succeed, Fail, Move, EventType
<1>6. ASSUME NEW k \in Key, NEW ok, NEW by, Resolve(k, ok, by) PROVE Recorded(j, event)'
  BY <1>2, <1>6 DEF Resolve, Move, EventType
<1>7. CASE Recover
  <2>1. history'[j] = history[j] \o RecoveryEvents(j)
    BY <1>7 DEF Recover
  <2>2. RecoveryEvents(j) \in Seq(EventType) /\ history[j] \in Seq(EventType)
    BY RecoveryEventsType DEF TypeOK
  <2>3. i \in DOMAIN history'[j] /\ history'[j][i] = event
    BY <1>1, <2>1, <2>2, ConcatProperties
  <2> QED BY <2>3 DEF Recorded
<1>8. CASE UNCHANGED history
  BY <1>1, <1>8 DEF Recorded
<1> QED
  BY <1>3, <1>4, <1>5, <1>6, <1>7, <1>8
  DEF Next, CallStep, Duplicate, Send, Throw, StorageFault, Refused, Land, Crash, Open,
      vars, durable

\* A row that executes has its start on record; what is outside has too, and
\* carries the payload of its row, which no step changes once it is set.
LEMMA RecordStep ==
    IInv /\ [Next]_vars => (StartedRowsAreRecorded /\ WrittenAheadAsAuthorized)'
<1> SUFFICES ASSUME IInv, [Next]_vars
             PROVE  (StartedRowsAreRecorded /\ WrittenAheadAsAuthorized)'
  OBVIOUS
<1>0. /\ TypeOK
      /\ \A c \in Caller : HoldsRow(c)
      /\ \A j \in Key : row[j].state = "executing" => Recorded(j, "started")
      /\ \A j \in Key, p \in Payload :
            <<j, p>> \in wire \/ (\E i \in DOMAIN performed[j] : performed[j][i] = p)
               => Recorded(j, "started") /\ p = row[j].payload
      /\ NoTraceBeforeStart
  BY DEF IInv, CallsHoldRows, StartedRowsAreRecorded, WrittenAheadAsAuthorized, Recorded
<1>1. ASSUME NEW j \in Key, row'[j].state = "executing" PROVE Recorded(j, "started")'
  <2>1. CASE row[j].state = "executing"
    BY <1>0, <2>1, RecordedForever
  <2>2. CASE row[j].state # "executing"
    <3>1. ASSUME NEW c \in Caller, NEW p \in Payload, Start(c, p)
          PROVE  Recorded(j, "started")'
      <4>1. PICK k \in Key : k = call[c].key
        BY <1>0, <3>1, CallShape DEF Start
      <4>2. Move(k, "executing", "started")
        BY <3>1, <4>1 DEF Start
      <4>3. j = k /\ history'[k] = Append(history[k], "started")
        <5>1. "executing" \in IntentState /\ "started" \in EventType
          BY DEF IntentState, EventType
        <5>2. /\ \A i \in Key \ {k} : row'[i] = row[i]
              /\ history'[k] = Append(history[k], "started")
          BY <1>0, <4>2, <5>1, MoveRows
        <5> QED BY <1>1, <2>2, <5>2
      <4>4. history[k] \in Seq(EventType) /\ "started" \in EventType
        BY <1>0 DEF TypeOK, EventType
      <4> QED BY <4>3, <4>4, AppendKeeps DEF Recorded
    <3>2. ASSUME NEW k \in Key, NEW to \in IntentState \ {"executing"},
                 NEW event \in EventType, Move(k, to, event)
          PROVE  FALSE
      BY <1>0, <1>1, <2>2, <3>2, MoveRows
    <3>3. ASSUME NEW c \in Caller, NEW k \in Key, NEW p \in Payload, Authorize(c, k, p)
          PROVE  FALSE
      BY <1>0, <1>1, <2>2, <3>3 DEF Authorize, TypeOK
    <3>4. ASSUME NEW c \in Caller, Succeed(c) \/ Fail(c) PROVE FALSE
      BY <1>0, <3>2, <3>4, CallShape DEF Succeed, Fail, IntentState, EventType
    <3>5. ASSUME NEW k \in Key, NEW ok, NEW by, Resolve(k, ok, by) PROVE FALSE
      BY <3>2, <3>5 DEF Resolve, IntentState, EventType
    <3>6. CASE Recover
      BY <1>0, <1>1, <2>2, <3>6 DEF Recover, RecoveredState, TypeOK
    <3>7. CASE UNCHANGED row
      BY <1>1, <2>2, <3>7
    <3> QED
      BY <3>1, <3>3, <3>4, <3>5, <3>6, <3>7
      DEF Next, CallStep, Duplicate, Send, Throw, StorageFault, Refused, Land, Crash, Open,
          vars, durable
  <2> QED BY <2>1, <2>2
<1>2. ASSUME NEW j \in Key, row[j].state \notin {"none", "pending"}
      PROVE  row'[j].payload = row[j].payload
  <2>1. ASSUME NEW k \in Key, NEW to \in IntentState, NEW event \in EventType,
               Move(k, to, event)
        PROVE  row'[j].payload = row[j].payload
    BY <1>0, <2>1, MoveRows
  <2>2. ASSUME NEW c \in Caller, NEW k \in Key, NEW p \in Payload, Authorize(c, k, p)
        PROVE  row'[j].payload = row[j].payload
    BY <1>0, <1>2, <2>2 DEF Authorize, TypeOK
  <2>3. ASSUME NEW c \in Caller, NEW p \in Payload, Start(c, p)
        PROVE  row'[j].payload = row[j].payload
    BY <1>0, <2>1, <2>3, CallShape DEF Start, IntentState, EventType
  <2>4. ASSUME NEW c \in Caller, Succeed(c) \/ Fail(c) PROVE row'[j].payload = row[j].payload
    BY <1>0, <2>1, <2>4, CallShape DEF Succeed, Fail, IntentState, EventType
  <2>5. ASSUME NEW k \in Key, NEW ok, NEW by, Resolve(k, ok, by)
        PROVE  row'[j].payload = row[j].payload
    BY <2>1, <2>5 DEF Resolve, IntentState, EventType
  <2>6. CASE Recover
    BY <1>0, <2>6 DEF Recover, TypeOK
  <2>7. CASE UNCHANGED row
    BY <2>7
  <2> QED
    BY <2>2, <2>3, <2>4, <2>5, <2>6, <2>7
    DEF Next, CallStep, Duplicate, Send, Throw, StorageFault, Refused, Land, Crash, Open,
        vars, durable
<1>3. ASSUME NEW j \in Key, NEW p \in Payload,
             <<j, p>> \in wire' \/ (\E i \in DOMAIN performed'[j] : performed'[j][i] = p)
      PROVE  \/ <<j, p>> \in wire \/ (\E i \in DOMAIN performed[j] : performed[j][i] = p)
             \/ row[j].state = "executing" /\ p = row[j].payload
  <2>1. ASSUME NEW c \in Caller, Send(c), <<j, p>> \in wire', <<j, p>> \notin wire
        PROVE  row[j].state = "executing" /\ p = row[j].payload
    <3>1. call[c].pc = "started" /\ j = call[c].key /\ p = call[c].payload
      BY <2>1 DEF Send
    <3> QED BY <1>0, <3>1 DEF HoldsRow
  <2>2. ASSUME NEW k \in Key, NEW q \in Payload, Land(k, q)
        PROVE  <<j, p>> \in wire \/ (\E i \in DOMAIN performed[j] : performed[j][i] = p)
    <3>1. /\ <<k, q>> \in wire
          /\ wire' \subseteq wire
          /\ performed' = [performed EXCEPT ![k] = Append(@, q)]
      BY <2>2 DEF Land
    <3>2. CASE j = k /\ <<j, p>> \notin wire'
      <4>1. performed'[j] = Append(performed[j], q) /\ performed[j] \in Seq(Payload)
        BY <1>0, <3>1, <3>2 DEF TypeOK
      <4>2. PICK i \in DOMAIN performed'[j] : performed'[j][i] = p
        BY <1>3, <3>2
      <4>3. \/ i \in DOMAIN performed[j] /\ performed[j][i] = p
            \/ p = q
        BY <4>1, <4>2, AppendProperties
      <4> QED BY <3>1, <3>2, <4>3
    <3>3. CASE j # k
      BY <1>0, <1>3, <3>1, <3>3 DEF TypeOK
    <3> QED BY <3>1, <3>2, <3>3
  <2>3. CASE UNCHANGED outside
    BY <1>3, <2>3 DEF outside
  <2> QED
    BY <1>3, <2>1, <2>2, <2>3
    DEF Next, CallStep, Authorize, Duplicate, Start, Throw, Succeed, Fail, StorageFault, Send,
        Refused, Resolve, Crash, Open, Recover, vars, outside
<1>4. ASSUME NEW j \in Key, NEW p \in Payload,
             <<j, p>> \in wire' \/ (\E i \in DOMAIN performed'[j] : performed'[j][i] = p)
      PROVE  Recorded(j, "started")' /\ p = row'[j].payload
  <2>1. Recorded(j, "started") /\ p = row[j].payload
    BY <1>0, <1>3, <1>4
  <2>2. row[j].state \notin {"none", "pending"}
    <3>1. CASE row[j].state = "executing"
      BY <3>1
    <3>2. CASE Outside(j)
      BY <1>0, <3>2 DEF NoTraceBeforeStart
    <3>3. ASSUME NEW i \in DOMAIN performed[j] PROVE performed[j] # << >>
      BY <1>0, <3>3, EmptySeq DEF TypeOK
    <3> QED BY <1>3, <1>4, <3>1, <3>2, <3>3 DEF Outside
  <2> QED BY <1>0, <1>2, <2>1, <2>2, RecordedForever
<1> QED
  BY <1>1, <1>4 DEF StartedRowsAreRecorded, WrittenAheadAsAuthorized, Recorded

LEMMA Induction == Spec => []IInv
<1>1. Init => IInv
  <2>1. Init => TypeOK
    BY StoreAssumption DEF Init, TypeOK, IntentState, CallState
  <2> QED
    BY <2>1
    DEF Init, IInv, CallsHoldRows, HoldsRow, Idle, OneCallPerIntent, Runs, NoTraceBeforeStart,
        Outside, AtMostOnce, StartedRowsAreRecorded, WrittenAheadAsAuthorized
<1>2. IInv /\ [Next]_vars => IInv'
  BY TypeStep, CallsStep, OneCallStep, NoTraceStep, AtMostOnceStep, RecordStep DEF IInv
<1> QED
  BY <1>1, <1>2, PTL DEF Spec

-----------------------------------------------------------------------------
(* The results.                                                            *)

\* However the callers interleave, whatever crashes and however often, the
\* request of an intent is made at most once and takes effect at most once.
THEOREM EffectsHappenAtMostOnce == Spec => []AtMostOnce
<1>1. IInv => AtMostOnce
  BY DEF IInv
<1> QED BY <1>1, Induction, PTL

\* Nothing reaches the outside that was not recorded as started before, with
\* the payload that was authorized.
THEOREM EffectsAreWrittenAhead == Spec => []WrittenAheadAsAuthorized
<1>1. IInv => WrittenAheadAsAuthorized
  BY DEF IInv
<1> QED BY <1>1, Induction, PTL

\* Both together, what the runs check of the world outside: no effect of the store
\* is repeated, unrecorded or unauthorized.
THEOREM EffectsAreAsIntended == Spec => []EffectsAsIntended
<1>1. AtMostOnce /\ WrittenAheadAsAuthorized => EffectsAsIntended
  BY DEF EffectsAsIntended
<1> QED BY <1>1, EffectsHappenAtMostOnce, EffectsAreWrittenAhead, PTL

LEMMA QuarantineStep == TypeOK /\ Quarantine /\ [Next]_vars => Quarantine'
<1> SUFFICES ASSUME TypeOK, Quarantine, [Next]_vars PROVE Quarantine'
  OBVIOUS
<1>1. ASSUME NEW k \in Key, NEW to \in IntentState, NEW event \in EventType,
             Move(k, to, event),
             \/ to \in {"succeeded", "failed"}
             \/ to = "executing" /\ row[k].state = "pending"
      PROVE  Quarantine'
  BY <1>1, MoveRows, StoreAssumption DEF Quarantine, In
<1>2. ASSUME NEW c \in Caller, NEW k \in Key, NEW p \in Payload, Authorize(c, k, p)
      PROVE  Quarantine'
  <2>1. /\ \A j \in Key \ {k} : row'[j] = row[j]
        /\ row'[k].state = "pending"
        /\ \A j \in Key : TargetOf[j] = TargetOf[k] => row[j].state # "unknown"
    BY <1>2 DEF Authorize, TypeOK, Isolated, In
  <2> QED BY <2>1 DEF Quarantine, In
<1>3. ASSUME NEW c \in Caller, NEW p \in Payload, Start(c, p) PROVE Quarantine'
  <2>1. Move(call[c].key, "executing", "started") /\ row[call[c].key].state = "pending"
    BY <1>3 DEF Start, Move, Transitions
  <2> QED BY <1>1, <1>3, <2>1, CallShape DEF Start, IntentState, EventType
<1>4. ASSUME NEW c \in Caller, Succeed(c) \/ Fail(c) PROVE Quarantine'
  BY <1>1, <1>4, CallShape DEF Succeed, Fail, IntentState, EventType
<1>5. ASSUME NEW k \in Key, NEW ok, NEW by, Resolve(k, ok, by) PROVE Quarantine'
  BY <1>1, <1>5 DEF Resolve, IntentState, EventType
<1>6. CASE Recover
  <2>1. \A j \in Key : row'[j].state \notin {"pending", "executing"}
    BY <1>6 DEF Recover, RecoveredState, TypeOK
  <2> QED BY <2>1 DEF Quarantine, In
<1>7. CASE UNCHANGED row
  BY <1>7 DEF Quarantine, In
<1> QED
  BY <1>2, <1>3, <1>4, <1>5, <1>6, <1>7
  DEF Next, CallStep, Duplicate, Send, Throw, StorageFault, Refused, Land, Crash, Open,
      vars, durable

\* While the result of an intent is unknown, nothing else is under way on its
\* target: what was pending at the crash was abandoned, and the gate refuses.
THEOREM UnknownQuarantinesItsTarget == Spec => []Quarantine
<1>1. Init => Quarantine
  BY DEF Init, Quarantine, In
<1>2. IInv => TypeOK
  BY DEF IInv
<1> QED
  BY <1>1, <1>2, QuarantineStep, Induction, PTL DEF Spec

LEMMA HasItsCallStep ==
    ASSUME IInv, IInv', ExecutingHasItsCall, [Next]_vars
    PROVE  ExecutingHasItsCall'
<1>0. /\ TypeOK
      /\ OneCallPerIntent
      /\ OneCallPerIntent'
      /\ \A c \in Caller : HoldsRow(c)
  BY DEF IInv, CallsHoldRows
<1> SUFFICES ASSUME NEW j \in Key, phase' = "up", healthy', row'[j].state = "executing"
             PROVE  \E d \in Caller : Runs(d, j)'
  BY <1>0 DEF ExecutingHasItsCall, In
<1>1. ASSUME phase = "up", healthy, row[j].state = "executing"
      PROVE  \E d \in Caller : Runs(d, j)
  BY <1>1 DEF ExecutingHasItsCall, In
<1>2. ASSUME NEW c \in Caller, ~Runs(c, j), \A d \in Caller \ {c} : call'[d] = call[d],
             phase = "up", healthy, row[j].state = "executing"
      PROVE  \E d \in Caller : Runs(d, j)'
  BY <1>1, <1>2 DEF Runs
<1>3. ASSUME NEW c \in Caller, NEW k \in Key, NEW p \in Payload,
             Authorize(c, k, p) \/ Duplicate(c, k, p)
      PROVE  \E d \in Caller : Runs(d, j)'
  <2>1. ~Runs(c, j) /\ phase = "up"
    BY <1>3 DEF Authorize, Duplicate, Runs
  <2>2. \A d \in Caller \ {c} : call'[d] = call[d]
    BY <1>0, <1>3 DEF Authorize, Duplicate, TypeOK
  <2>3. row[j].state = "executing" /\ healthy
    <3>1. CASE Authorize(c, k, p)
      BY <1>0, <3>1 DEF Authorize, TypeOK
    <3>2. CASE Duplicate(c, k, p)
      BY <3>2 DEF Duplicate, durable
    <3> QED BY <1>3, <3>1, <3>2
  <2> QED BY <1>2, <2>1, <2>2, <2>3
<1>4. ASSUME NEW c \in Caller, NEW p \in Payload, Start(c, p)
      PROVE  \E d \in Caller : Runs(d, j)'
  <2>1. PICK k \in Key : k = call[c].key
    BY <1>0, <1>4, CallShape DEF Start
  <2>2. /\ call'[c] = Started(k, p)
        /\ \A d \in Caller \ {c} : call'[d] = call[d]
        /\ Move(k, "executing", "started")
        /\ ~Runs(c, j) /\ phase = "up" /\ healthy
    BY <1>0, <1>4, <2>1 DEF Start, TypeOK, Runs
  <2>3. CASE j = k
    BY <2>2, <2>3 DEF Runs, Started
  <2>4. CASE j # k
    <3>1. row[j].state = "executing"
      BY <1>0, <2>2, <2>4, MoveRows DEF IntentState, EventType
    <3> QED BY <1>2, <2>2, <3>1
  <2> QED BY <2>3, <2>4
<1>5. ASSUME NEW c \in Caller, Throw(c) \/ StorageFault(c) \/ Refused(c)
      PROVE  \E d \in Caller : Runs(d, j)'
  <2>1. Throw(c)
    BY <1>5 DEF StorageFault, Refused
  <2>2. ~Runs(c, j) /\ phase = "up" /\ healthy /\ row[j].state = "executing"
    BY <2>1 DEF Throw, Runs, durable
  <2>3. \A d \in Caller \ {c} : call'[d] = call[d]
    BY <1>0, <2>1 DEF Throw, TypeOK
  <2> QED BY <1>2, <2>2, <2>3
<1>6. ASSUME NEW c \in Caller, Send(c) PROVE \E d \in Caller : Runs(d, j)'
  <2>1. phase = "up" /\ healthy /\ row[j].state = "executing"
    BY <1>6 DEF Send, durable
  <2>2. PICK d \in Caller : Runs(d, j)
    BY <1>1, <2>1
  <2>3. Runs(d, j)'
    BY <1>0, <1>6, <2>2 DEF Send, TypeOK, Runs
  <2> QED BY <2>3
<1>7. ASSUME NEW c \in Caller, Succeed(c) \/ Fail(c) PROVE \E d \in Caller : Runs(d, j)'
  <2>1. PICK k \in Key : k = call[c].key
    BY <1>0, <1>7, CallShape DEF Succeed, Fail
  <2>2. /\ Move(k, "succeeded", "succeeded") \/ Move(k, "failed", "failed")
        /\ phase = "up" /\ healthy
        /\ \A d \in Caller \ {c} : call'[d] = call[d]
    BY <1>0, <1>7, <2>1 DEF Succeed, Fail, TypeOK
  <2>3. j # k /\ row[j].state = "executing"
    BY <1>0, <2>2, MoveRows DEF IntentState, EventType
  <2>4. ~Runs(c, j)
    BY <2>1, <2>3 DEF Runs
  <2> QED BY <1>2, <2>2, <2>3, <2>4
<1>8. ASSUME NEW k \in Key, NEW ok, NEW by, Resolve(k, ok, by)
      PROVE  \E d \in Caller : Runs(d, j)'
  <2>1. /\ Move(k, "succeeded", "reconciled-ok") \/ Move(k, "failed", "reconciled-failed")
        /\ phase = "up" /\ healthy /\ call' = call
    BY <1>8 DEF Resolve
  <2>2. row[j].state = "executing"
    BY <1>0, <2>1, MoveRows DEF IntentState, EventType
  <2> QED BY <1>1, <2>1, <2>2 DEF Runs
<1>9. CASE Recover
  BY <1>0, <1>9 DEF Recover, RecoveredState, TypeOK
<1>10. CASE Crash \/ Open
  BY <1>10 DEF Crash, Open
<1>11. CASE UNCHANGED <<phase, healthy, row, call>>
  BY <1>1, <1>11 DEF Runs
<1> QED
  BY <1>3, <1>4, <1>5, <1>6, <1>7, <1>8, <1>9, <1>10, <1>11
  DEF Next, CallStep, Land, vars, durable

\* No intent hangs in "executing" while the store works: there is a call that
\* will write its result, and only one.
THEOREM EveryExecutionHasItsCall == Spec => []ExecutingHasItsCall
<1>1. Init => ExecutingHasItsCall
  BY DEF Init, ExecutingHasItsCall, OneCallPerIntent, Runs, Idle, In
<1>2. IInv /\ IInv' /\ ExecutingHasItsCall /\ [Next]_vars => ExecutingHasItsCall'
  BY HasItsCallStep
<1> QED
  BY <1>1, <1>2, Induction, PTL DEF Spec

\* Both together: what the table of intents says is so.
THEOREM TheStoreIsSound == Spec => []StoreIsSound
<1>1. TypeOK /\ ExecutingHasItsCall => StoreIsSound
  BY DEF StoreIsSound
<1> QED BY <1>1, TypeCorrect, EveryExecutionHasItsCall, PTL

-----------------------------------------------------------------------------
(* The events tell the table.  What is recorded of one intent is lawful    *)
(* when it begins with its authorization and every event may follow the    *)
(* one before; a transaction appends an event that may follow the last.    *)

Lawful(h) ==
    /\ h # <<>> => h[1] = "authorized"
    /\ \A i \in 2..Len(h) : <<StateAfter(h[i-1]), StateAfter(h[i])>> \in Transitions

\* Every event leaves its intent in some state.
LEMMA StateAfterType == \A e \in EventType : StateAfter(e) \in IntentState \ {"none"}
BY DEF StateAfter, EventType, IntentState

\* One more event that may follow.
LEMMA LawfulAppend ==
    ASSUME NEW h \in Seq(EventType), Lawful(h), NEW e \in EventType,
           \/ h = <<>> /\ e = "authorized"
           \/ <<Replayed(h), StateAfter(e)>> \in Transitions
    PROVE  /\ Append(h, e) \in Seq(EventType)
           /\ Lawful(Append(h, e))
           /\ Replayed(Append(h, e)) = StateAfter(e)
<1> DEFINE t == Append(h, e)
<1>1. PICK n \in Nat : n = Len(h)
  BY LenProperties
<1>2. /\ t \in Seq(EventType) /\ Len(t) = n + 1 /\ t[n + 1] = e
      /\ \A i \in 1..n : t[i] = h[i]
  BY <1>1, AppendProperties
<1> HIDE DEF t
<1>3. t # <<>>
  <2>1. n + 1 # 0
    OBVIOUS
  <2> QED
    BY <1>2, <2>1, EmptySeq
<1>4. Replayed(t) = StateAfter(e)
  BY <1>2, <1>3 DEF Replayed
<1>5. CASE h = <<>>
  <2>1. n = 0
    BY <1>1, <1>5, EmptySeq
  <2>2. Replayed(h) = "none"
    BY <1>5 DEF Replayed
  <2>3. e = "authorized"
    BY <2>2 DEF Transitions
  <2>4. Lawful(t)
    BY <1>2, <2>1, <2>3 DEF Lawful
  <2> QED
    BY <1>2, <1>4, <2>4 DEF t
<1>6. CASE h # <<>>
  <2>1. n \in Nat \ {0}
    BY <1>1, <1>6, EmptySeq
  <2>2. t[1] = "authorized"
    BY <1>2, <1>6, <2>1 DEF Lawful
  <2>3. Replayed(h) = StateAfter(h[n])
    BY <1>1, <1>6 DEF Replayed
  <2>4. ASSUME NEW i \in 2..n + 1
        PROVE  <<StateAfter(t[i - 1]), StateAfter(t[i])>> \in Transitions
    <3>1. CASE i = n + 1
      <4>1. t[i - 1] = h[n] /\ t[i] = e
        BY <1>2, <2>1, <3>1
      <4> QED
        BY <1>6, <2>3, <4>1
    <3>2. CASE i # n + 1
      <4>1. i \in 2..n /\ t[i - 1] = h[i - 1] /\ t[i] = h[i]
        BY <1>2, <2>1, <3>2
      <4> QED
        BY <1>1, <4>1 DEF Lawful
    <3> QED
      BY <3>1, <3>2
  <2>5. Lawful(t)
    BY <1>2, <2>2, <2>4 DEF Lawful
  <2> QED
    BY <1>2, <1>4, <2>5 DEF t
<1> QED
  BY <1>5, <1>6

\* What the restart makes of an intent is what it records of it.
LEMMA LawfulRecovery ==
    ASSUME TypeOK, NEW k \in Key, Lawful(history[k]), row[k].state = Replayed(history[k])
    PROVE  LET h == history[k] \o RecoveryEvents(k)
           IN  Lawful(h) /\ Replayed(h) = RecoveredState(k)
<1> DEFINE h == history[k]
           s == row[k].state
<1>1. h \in Seq(EventType) /\ s \in IntentState /\ s = Replayed(h) /\ Lawful(h)
  BY DEF TypeOK
<1>2. ASSUME NEW e \in EventType PROVE h \o <<e>> = Append(h, e)
  BY <1>1, AppendIsConcat
<1>3. CASE s = "pending"
  <2>1. RecoveryEvents(k) = <<"abandoned">> /\ RecoveredState(k) = "failed"
    BY <1>3 DEF RecoveryEvents, RecoveredState
  <2>2. <<Replayed(h), StateAfter("abandoned")>> \in Transitions
        /\ StateAfter("abandoned") = "failed"
    BY <1>1, <1>3 DEF Transitions, StateAfter
  <2>3. "abandoned" \in EventType
    BY DEF EventType
  <2> HIDE DEF h, s
  <2>4. Lawful(Append(h, "abandoned")) /\ Replayed(Append(h, "abandoned")) = "failed"
    BY <1>1, <2>2, <2>3, LawfulAppend
  <2>5. h \o RecoveryEvents(k) = Append(h, "abandoned")
    BY <1>2, <2>1, <2>3
  <2> QED
    BY <2>1, <2>4, <2>5 DEF h
<1>4. CASE s = "executing" /\ k \notin Interruptible
  <2>1. RecoveryEvents(k) = <<"orphaned">> /\ RecoveredState(k) = "unknown"
    BY <1>4 DEF RecoveryEvents, RecoveredState
  <2>2. <<Replayed(h), StateAfter("orphaned")>> \in Transitions
        /\ StateAfter("orphaned") = "unknown"
    BY <1>1, <1>4 DEF Transitions, StateAfter
  <2>3. "orphaned" \in EventType
    BY DEF EventType
  <2> HIDE DEF h, s
  <2>4. Lawful(Append(h, "orphaned")) /\ Replayed(Append(h, "orphaned")) = "unknown"
    BY <1>1, <2>2, <2>3, LawfulAppend
  <2>5. h \o RecoveryEvents(k) = Append(h, "orphaned")
    BY <1>2, <2>1, <2>3
  <2> QED
    BY <2>1, <2>4, <2>5 DEF h
<1>5. CASE s = "executing" /\ k \in Interruptible
  <2>1. RecoveryEvents(k) = <<"orphaned", "interrupted">> /\ RecoveredState(k) = "failed"
    BY <1>5 DEF RecoveryEvents, RecoveredState
  <2>2. /\ <<Replayed(h), StateAfter("orphaned")>> \in Transitions
        /\ <<StateAfter("orphaned"), StateAfter("interrupted")>> \in Transitions
        /\ StateAfter("interrupted") = "failed"
    BY <1>1, <1>5 DEF Transitions, StateAfter
  <2>3. "orphaned" \in EventType /\ "interrupted" \in EventType
    BY DEF EventType
  <2> HIDE DEF h, s
  <2> DEFINE m == Append(h, "orphaned")
  <2>4. m \in Seq(EventType) /\ Lawful(m) /\ Replayed(m) = StateAfter("orphaned")
    BY <1>1, <2>2, <2>3, LawfulAppend
  <2>5. h \o <<"orphaned", "interrupted">> = Append(m, "interrupted")
    <3>1. <<"orphaned">> \in Seq(EventType) /\ <<"interrupted">> \in Seq(EventType)
      BY <2>3
    <3>2. (h \o <<"orphaned">>) \o <<"interrupted">>
          = h \o (<<"orphaned">> \o <<"interrupted">>)
      BY <1>1, <3>1, ConcatAssociative
    <3>3. <<"orphaned">> \o <<"interrupted">> = <<"orphaned", "interrupted">>
      <4>1. <<"orphaned">> \o <<"interrupted">> = Append(<<"orphaned">>, "interrupted")
        BY <2>3, <3>1, AppendIsConcat
      <4> DEFINE a == Append(<<"orphaned">>, "interrupted")
                 b == <<"orphaned", "interrupted">>
      <4>2. a \in Seq(EventType) /\ Len(a) = 2 /\ a[1] = "orphaned" /\ a[2] = "interrupted"
        BY <2>3, <3>1, AppendProperties
      <4>3. b \in Seq(EventType) /\ Len(b) = 2 /\ b[1] = "orphaned" /\ b[2] = "interrupted"
        BY <2>3
      <4> HIDE DEF a, b
      <4>4. \A i \in 1..2 : a[i] = b[i]
        BY <4>2, <4>3
      <4>5. a = b
        BY <4>2, <4>3, <4>4, SeqEqual
      <4> QED
        BY <4>1, <4>5 DEF a, b
    <3>4. h \o <<"orphaned">> = m
      BY <1>2, <2>3
    <3> HIDE DEF m
    <3>5. m \o <<"interrupted">> = Append(m, "interrupted")
      BY <2>3, <2>4, AppendIsConcat
    <3> QED
      BY <3>2, <3>3, <3>4, <3>5
  <2> HIDE DEF m
  <2>6. Lawful(Append(m, "interrupted"))
        /\ Replayed(Append(m, "interrupted")) = StateAfter("interrupted")
    BY <2>2, <2>3, <2>4, LawfulAppend
  <2> QED
    BY <2>1, <2>2, <2>5, <2>6 DEF h
<1>6. CASE s \notin {"pending", "executing"}
  <2>1. RecoveryEvents(k) = <<>> /\ RecoveredState(k) = s
    BY <1>6 DEF RecoveryEvents, RecoveredState
  <2>2. h \o <<>> = h
    BY <1>1, ConcatEmptySeq
  <2> HIDE DEF h, s
  <2> QED
    BY <1>1, <2>1, <2>2 DEF h
<1> QED
  BY <1>3, <1>4, <1>5, <1>6

\* A transaction on one intent records what it does.
LEMMA MoveIsRecorded ==
    ASSUME TypeOK, TableIsReplayOfEvents,
           NEW k \in Key, NEW to \in IntentState, NEW event \in EventType,
           Move(k, to, event), StateAfter(event) = to
    PROVE  TableIsReplayOfEvents'
<1>1. /\ row'[k].state = to /\ history'[k] = Append(history[k], event)
      /\ \A j \in Key \ {k} : row'[j] = row[j] /\ history'[j] = history[j]
  BY MoveRows
<1>2. /\ history[k] \in Seq(EventType) /\ Lawful(history[k])
      /\ <<Replayed(history[k]), StateAfter(event)>> \in Transitions
  BY DEF TypeOK, TableIsReplayOfEvents, Move, Lawful
<1>3. Lawful(Append(history[k], event)) /\ Replayed(Append(history[k], event)) = to
  BY <1>2, LawfulAppend
<1> SUFFICES ASSUME NEW j \in Key
             PROVE  Lawful(history'[j]) /\ row'[j].state = Replayed(history'[j])
  BY DEF TableIsReplayOfEvents, Lawful, Replayed, StateAfter
<1>4. CASE j = k
  BY <1>1, <1>3, <1>4
<1>5. CASE j # k
  BY <1>1, <1>5 DEF TableIsReplayOfEvents, Lawful
<1> QED
  BY <1>4, <1>5

LEMMA ReplayStep ==
    ASSUME TypeOK, TableIsReplayOfEvents, [Next]_vars PROVE TableIsReplayOfEvents'
<1>1. ASSUME NEW c \in Caller, NEW k \in Key, NEW p \in Payload, Authorize(c, k, p)
      PROVE  TableIsReplayOfEvents'
  <2>1. /\ row'[k].state = "pending" /\ history'[k] = Append(history[k], "authorized")
        /\ \A j \in Key \ {k} : row'[j] = row[j] /\ history'[j] = history[j]
        /\ row[k].state = "none"
    BY <1>1 DEF TypeOK, Authorize
  <2>2. history[k] \in Seq(EventType) /\ Lawful(history[k])
    BY DEF TypeOK, TableIsReplayOfEvents, Lawful
  <2>3. history[k] = <<>>
    <3>1. Replayed(history[k]) = "none"
      BY <2>1 DEF TableIsReplayOfEvents
    <3>2. SUFFICES ASSUME history[k] # <<>> PROVE FALSE
      OBVIOUS
    <3>3. PICK n \in Nat \ {0} : n = Len(history[k])
      BY <2>2, <3>2, EmptySeq
    <3>4. history[k][n] \in EventType
      BY <2>2, <3>3, ElementOfSeq
    <3> QED
      BY <3>1, <3>2, <3>3, <3>4, StateAfterType DEF Replayed
  <2>4. "authorized" \in EventType /\ StateAfter("authorized") = "pending"
    BY DEF EventType, StateAfter
  <2>5. Lawful(Append(history[k], "authorized"))
        /\ Replayed(Append(history[k], "authorized")) = "pending"
    BY <2>2, <2>3, <2>4, LawfulAppend
  <2> SUFFICES ASSUME NEW j \in Key
               PROVE  Lawful(history'[j]) /\ row'[j].state = Replayed(history'[j])
    BY DEF TableIsReplayOfEvents, Lawful, Replayed, StateAfter
  <2>6. CASE j = k
    BY <2>1, <2>5, <2>6
  <2>7. CASE j # k
    BY <2>1, <2>7 DEF TableIsReplayOfEvents, Lawful
  <2> QED
    BY <2>6, <2>7
<1>2. ASSUME NEW c \in Caller, \/ \E p \in Payload : Start(c, p)
                               \/ Succeed(c) \/ Fail(c)
      PROVE  TableIsReplayOfEvents'
  <2>1. PICK k \in Key : k = call[c].key
    BY <1>2, CallShape DEF Start, Succeed, Fail
  <2>2. \/ Move(k, "executing", "started") \/ Move(k, "succeeded", "succeeded")
        \/ Move(k, "failed", "failed")
    BY <1>2, <2>1 DEF Start, Succeed, Fail
  <2> QED
    BY <2>2, MoveIsRecorded DEF IntentState, EventType, StateAfter
<1>3. ASSUME NEW k \in Key, NEW ok \in BOOLEAN, NEW by \in {"reconcile", "operator"},
             Resolve(k, ok, by)
      PROVE  TableIsReplayOfEvents'
  <2>1. Move(k, "succeeded", "reconciled-ok") \/ Move(k, "failed", "reconciled-failed")
    BY <1>3 DEF Resolve
  <2> QED
    BY <2>1, MoveIsRecorded DEF IntentState, EventType, StateAfter
<1>4. CASE Recover
  <2> SUFFICES ASSUME NEW j \in Key
               PROVE  Lawful(history'[j]) /\ row'[j].state = Replayed(history'[j])
    BY DEF TableIsReplayOfEvents, Lawful, Replayed, StateAfter
  <2>1. /\ row'[j].state = RecoveredState(j)
        /\ history'[j] = history[j] \o RecoveryEvents(j)
    BY <1>4 DEF Recover, TypeOK
  <2>2. Lawful(history[j]) /\ row[j].state = Replayed(history[j])
    BY DEF TableIsReplayOfEvents, Lawful
  <2> QED
    BY <2>1, <2>2, LawfulRecovery
<1>5. CASE UNCHANGED durable
  BY <1>5 DEF durable, TableIsReplayOfEvents, Replayed, StateAfter
<1> QED
  BY <1>1, <1>2, <1>3, <1>4, <1>5
  DEF Next, CallStep, Duplicate, Throw, Send, StorageFault, Refused, Land, Crash, Open, vars,
      durable

\* Whatever crashes in between: replaying what was recorded of an intent gives the state
\* its row is in, and every recorded step is one the table allows.
THEOREM EventsTellTheTable == Spec => []TableIsReplayOfEvents
<1>1. Init => TableIsReplayOfEvents
  <2> SUFFICES ASSUME Init, NEW k \in Key
               PROVE  /\ row[k].state = Replayed(history[k])
                      /\ history[k] # <<>> => history[k][1] = "authorized"
                      /\ \A i \in 2..Len(history[k]) :
                            <<StateAfter(history[k][i-1]), StateAfter(history[k][i])>>
                                \in Transitions
    BY DEF TableIsReplayOfEvents
  <2>1. history[k] = <<>> /\ row[k].state = "none" /\ Len(history[k]) = 0
    BY EmptySeq DEF Init
  <2> QED
    BY <2>1 DEF Replayed
<1>2. TypeOK /\ TableIsReplayOfEvents /\ [Next]_vars => TableIsReplayOfEvents'
  BY ReplayStep
<1> QED
  BY <1>1, <1>2, TypeCorrect, PTL DEF Spec

-----------------------------------------------------------------------------
(* The refinement: seen through what was recorded as started, what was     *)
(* done outside and what has a result, the store does what OnceOnly says.  *)

\* A row that may still start has not started yet: what makes Begin possible.
NotYetStarted ==
    \A k \in Key : row[k].state \in {"none", "pending"} => ~Recorded(k, "started")

LEMMA RecordedAfterAppend ==
    ASSUME TypeOK, NEW k \in Key, NEW x \in EventType,
           history' = [history EXCEPT ![k] = Append(@, x)]
    PROVE  \A j \in Key, e \in EventType :
              Recorded(j, e)' <=> Recorded(j, e) \/ (j = k /\ e = x)
<1> TAKE j \in Key, e \in EventType
<1>1. CASE j = k
  <2>1. history'[j] = Append(history[j], x) /\ history[j] \in Seq(EventType)
    BY <1>1 DEF TypeOK
  <2> QED BY <1>1, <2>1, AppendProperties DEF Recorded
<1>2. CASE j # k
  BY <1>2 DEF TypeOK, Recorded
<1> QED BY <1>1, <1>2

LEMMA RecordedAfterRecovery ==
    ASSUME TypeOK, Recover
    PROVE  \A j \in Key : Recorded(j, "started")' <=> Recorded(j, "started")
<1> TAKE j \in Key
<1>1. /\ history'[j] = history[j] \o RecoveryEvents(j)
      /\ RecoveryEvents(j) \in Seq(EventType)
      /\ history[j] \in Seq(EventType)
  BY RecoveryEventsType DEF Recover, TypeOK
<1>2. \A i \in DOMAIN RecoveryEvents(j) : RecoveryEvents(j)[i] # "started"
  <2>1. \/ RecoveryEvents(j) = <<"abandoned">>
        \/ RecoveryEvents(j) = <<"orphaned", "interrupted">>
        \/ RecoveryEvents(j) = <<"orphaned">>
        \/ RecoveryEvents(j) = << >>
    BY Zenon DEF RecoveryEvents
  <2> QED BY <2>1
<1>3. \A i \in DOMAIN history[j] : i \in DOMAIN history'[j] /\ history'[j][i] = history[j][i]
  BY <1>1, ConcatProperties
<1>4. ASSUME NEW i \in DOMAIN history'[j], i \notin DOMAIN history[j]
      PROVE  history'[j][i] # "started"
  <2>1. /\ i - Len(history[j]) \in DOMAIN RecoveryEvents(j)
        /\ history'[j][i] = RecoveryEvents(j)[i - Len(history[j])]
    BY <1>1, <1>4, ConcatProperties, LenProperties
  <2> QED BY <1>2, <2>1
<1> QED BY <1>3, <1>4 DEF Recorded

LEMMA NotYetStartedStep ==
    ASSUME IInv, NotYetStarted, [Next]_vars PROVE NotYetStarted'
<1>0. TypeOK
  BY DEF IInv
<1> SUFFICES ASSUME NEW j \in Key, row'[j].state \in {"none", "pending"}
             PROVE  ~Recorded(j, "started")'
  BY DEF NotYetStarted
<1> "started" \in EventType
  BY DEF EventType
<1>1. row[j].state \in {"none", "pending"} => ~Recorded(j, "started")
  BY DEF NotYetStarted
<1>2. ASSUME NEW k \in Key, NEW to \in {"executing", "succeeded", "failed"},
             NEW event \in EventType, Move(k, to, event)
      PROVE  ~Recorded(j, "started")'
  <2>1. j # k /\ row'[j] = row[j]
    BY <1>0, <1>2, MoveRows DEF IntentState
  <2> QED BY <1>0, <1>1, <1>2, <2>1, RecordedAfterAppend DEF Move
<1>3. ASSUME NEW c \in Caller, NEW k \in Key, NEW p \in Payload, Authorize(c, k, p)
      PROVE  ~Recorded(j, "started")'
  <2>1. row[j].state \in {"none", "pending"}
    BY <1>0, <1>3 DEF Authorize, TypeOK
  <2>2. "authorized" \in EventType /\ "authorized" # "started"
    BY DEF EventType
  <2> QED BY <1>0, <1>1, <1>3, <2>1, <2>2, RecordedAfterAppend DEF Authorize
<1>4. ASSUME NEW c \in Caller, NEW p \in Payload, Start(c, p) PROVE ~Recorded(j, "started")'
  BY <1>0, <1>2, <1>4, CallShape DEF Start, EventType
<1>5. ASSUME NEW c \in Caller, Succeed(c) \/ Fail(c) PROVE ~Recorded(j, "started")'
  BY <1>0, <1>2, <1>5, CallShape DEF Succeed, Fail, EventType
<1>6. ASSUME NEW k \in Key, NEW ok, NEW by, Resolve(k, ok, by) PROVE ~Recorded(j, "started")'
  BY <1>2, <1>6 DEF Resolve, EventType
<1>7. CASE Recover
  <2>1. row[j].state \in {"none", "pending"}
    BY <1>0, <1>7 DEF Recover, RecoveredState, TypeOK
  <2> QED BY <1>0, <1>1, <1>7, <2>1, RecordedAfterRecovery
<1>8. CASE UNCHANGED <<row, history>>
  BY <1>1, <1>8 DEF Recorded
<1> QED
  BY <1>3, <1>4, <1>5, <1>6, <1>7, <1>8
  DEF Next, CallStep, Duplicate, Send, Throw, StorageFault, Refused, Land, Crash, Open,
      vars, durable

begunKeys == {k \in Key : \E i \in DOMAIN history[k] : history[k][i] = "started"}
actedCounts == [k \in Key |-> Len(performed[k])]
closedKeys == In("succeeded") \cup In("failed")

\* A transaction that appends something else than "started" begins nothing.
LEMMA NothingBegun ==
    ASSUME TypeOK, NEW k \in Key, NEW x \in EventType \ {"started"},
           history' = [history EXCEPT ![k] = Append(@, x)]
    PROVE  begunKeys' = begunKeys
<1>1. \A j \in Key : Recorded(j, "started")' <=> Recorded(j, "started")
  BY RecordedAfterAppend DEF EventType
<1> QED BY <1>1 DEF begunKeys, Recorded

LEMMA StepRefines ==
    ASSUME IInv, NotYetStarted, [Next]_vars
    PROVE  [Promise!Next]_(Promise!vars)
<1> USE DEF Promise!Next, Promise!vars, Promise!Begin, Promise!Act, Promise!Close
<1>0. TypeOK /\ AtMostOnce /\ \A c \in Caller : HoldsRow(c)
  BY DEF IInv, CallsHoldRows
<1> DEFINE Same == /\ begunKeys' = begunKeys
                   /\ actedCounts' = actedCounts
                   /\ closedKeys' = closedKeys
           Closes == /\ begunKeys' = begunKeys
                     /\ actedCounts' = actedCounts
                     /\ \E K \in SUBSET Key : closedKeys' = closedKeys \cup K
           Begins == \E k \in Key : /\ k \notin begunKeys \cup closedKeys
                                    /\ begunKeys' = begunKeys \cup {k}
                                    /\ UNCHANGED <<actedCounts, closedKeys>>
           Acts == \E k \in Key : /\ k \in begunKeys
                                  /\ actedCounts[k] = 0
                                  /\ actedCounts' = [actedCounts EXCEPT ![k] = 1]
                                  /\ UNCHANGED <<begunKeys, closedKeys>>
<1> SUFFICES Same \/ Closes \/ Begins \/ Acts
  BY DEF begunKeys, actedCounts, closedKeys
<1>1. ASSUME NEW k \in Key, NEW to \in {"succeeded", "failed"},
             NEW event \in EventType \ {"started"}, Move(k, to, event), UNCHANGED outside
      PROVE  Closes
  <2>1. begunKeys' = begunKeys
    BY <1>0, <1>1, NothingBegun DEF Move
  <2>2. closedKeys' = closedKeys \cup {k}
    BY <1>0, <1>1, MoveRows DEF closedKeys, In, IntentState
  <2> QED BY <1>1, <2>1, <2>2 DEF outside, actedCounts
<1>2. ASSUME NEW c \in Caller, NEW k \in Key, NEW p \in Payload, Authorize(c, k, p)
      PROVE  Same
  <2>1. begunKeys' = begunKeys
    BY <1>0, <1>2, NothingBegun DEF Authorize, EventType
  <2>2. closedKeys' = closedKeys
    BY <1>0, <1>2 DEF Authorize, TypeOK, closedKeys, In
  <2> QED BY <1>2, <2>1, <2>2 DEF Authorize, outside, actedCounts
<1>3. ASSUME NEW c \in Caller, NEW p \in Payload, Start(c, p) PROVE Begins
  <2>1. PICK k \in Key : k = call[c].key
    BY <1>0, <1>3, CallShape DEF Start
  <2>2. Move(k, "executing", "started") /\ row[k].state = "pending" /\ UNCHANGED outside
    BY <1>3, <2>1 DEF Start, Move, Transitions
  <2>3. k \notin begunKeys \cup closedKeys
    BY <2>2 DEF NotYetStarted, Recorded, begunKeys, closedKeys, In
  <2>4. \A j \in Key : Recorded(j, "started")' <=> Recorded(j, "started") \/ j = k
    BY <1>0, <2>2, RecordedAfterAppend DEF Move, EventType
  <2>5. begunKeys' = begunKeys \cup {k}
    BY <2>4 DEF begunKeys, Recorded
  <2>6. closedKeys' = closedKeys
    BY <1>0, <2>2, MoveRows DEF closedKeys, In, IntentState, EventType
  <2> QED BY <2>2, <2>3, <2>5, <2>6 DEF outside, actedCounts
<1>4. ASSUME NEW c \in Caller, Succeed(c) \/ Fail(c) PROVE Closes
  BY <1>0, <1>1, <1>4, CallShape DEF Succeed, Fail, EventType
<1>5. ASSUME NEW k \in Key, NEW ok, NEW by, Resolve(k, ok, by) PROVE Closes
  BY <1>1, <1>5 DEF Resolve, EventType
<1>6. ASSUME NEW k \in Key, NEW p \in Payload, Land(k, p) PROVE Acts
  <2>1. /\ <<k, p>> \in wire
        /\ performed' = [performed EXCEPT ![k] = Append(@, p)]
        /\ UNCHANGED <<row, history>>
    BY <1>6 DEF Land, durable
  <2>2. k \in begunKeys
    BY <2>1 DEF IInv, WrittenAheadAsAuthorized, begunKeys
  <2>3. performed[k] = << >>
    BY <1>0, <2>1 DEF AtMostOnce
  <2>4. performed'[k] = Append(performed[k], p) /\ \A j \in Key \ {k} : performed'[j] = performed[j]
    BY <1>0, <2>1 DEF TypeOK
  <2>5. Len(performed[k]) = 0 /\ Len(performed'[k]) = 1
    BY <1>0, <2>3, <2>4, AppendProperties DEF TypeOK
  <2>6. actedCounts[k] = 0 /\ actedCounts' = [actedCounts EXCEPT ![k] = 1]
    BY <2>4, <2>5 DEF actedCounts
  <2>7. UNCHANGED <<begunKeys, closedKeys>>
    BY <2>1 DEF begunKeys, closedKeys, In
  <2> QED BY <2>2, <2>6, <2>7
<1>7. CASE Recover
  <2>1. begunKeys' = begunKeys
    BY <1>0, <1>7, RecordedAfterRecovery DEF begunKeys, Recorded
  <2>2. closedKeys \subseteq closedKeys' /\ closedKeys' \subseteq Key
    BY <1>0, <1>7 DEF Recover, RecoveredState, closedKeys, In, TypeOK
  <2>3. closedKeys' = closedKeys \cup closedKeys' /\ closedKeys' \in SUBSET Key
    BY <2>2
  <2> QED BY <1>7, <2>1, <2>3 DEF Recover, outside, actedCounts
<1>8. CASE UNCHANGED <<row, history, performed>>
  BY <1>8 DEF begunKeys, closedKeys, actedCounts, In
<1> QED
  BY <1>2, <1>3, <1>4, <1>5, <1>6, <1>7, <1>8
  DEF Next, CallStep, Duplicate, Send, Throw, StorageFault, Refused, Crash, Open,
      vars, durable, outside

\* The store keeps the promise of OnceOnly.
THEOREM StoreImplementsOnceOnly == Spec => ImplementsOnceOnly
<1>1. Init => Promise!Init
  BY DEF Init, Promise!Init, In
<1>2. Init => NotYetStarted
  BY DEF Init, NotYetStarted, Recorded
<1>3. IInv /\ NotYetStarted /\ [Next]_vars => NotYetStarted'
  BY NotYetStartedStep
<1>4. IInv /\ NotYetStarted /\ [Next]_vars => [Promise!Next]_(Promise!vars)
  BY StepRefines
<1> QED
  BY <1>1, <1>2, <1>3, <1>4, Induction, PTL DEF Spec, ImplementsOnceOnly, Promise!Spec
=============================================================================
