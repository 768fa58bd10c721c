------------------------------- MODULE RpcPeer -------------------------------
(***************************************************************************)
(* JSON-RPC over one connection (channel/src/rpc.ts, connection.ts): the   *)
(* calls of one peer and their handlers at the other.  Both peers call in  *)
(* the same way, so that one direction is enough.  A call ends by its      *)
(* answer, its deadline, the caller's abort or the end of the connection,  *)
(* which may cross each other on the wire.                                 *)
(*                                                                         *)
(* The wire is first in, first out; what is on it when a peer closes or    *)
(* the connection breaks may be lost.                                      *)
(***************************************************************************)
EXTENDS Naturals, Sequences, FiniteSets

CONSTANTS Call,         \* calls, by their ids
          MaxInflight,  \* requests served at a time
          Handled       \* BOOLEAN: there is a handler for the method

VARIABLES
    call,       \* [Call -> new, pending, or how it was settled]
    settled,    \* [Call -> how often it was settled]
    serving,    \* [Call -> no, running, aborted (its signal), finished, refused]
    out, back,  \* the wire: requests and cancellations, answers
    here, there \* the connection at the caller and at the other: open, closing, closed

vars == <<call, settled, serving, out, back, here, there>>

Inflight == {c \in Call : serving[c] \in {"running", "aborted"}}

\* settle(): the timer and the listener are cleared, the call is no longer pending.
Settle(c, how) ==
    /\ call' = [call EXCEPT ![c] = how]
    /\ settled' = [settled EXCEPT ![c] = @ + 1]

(***************************************************************************)
(* The caller                                                              *)
(***************************************************************************)
\* request(): sent, or refused by a connection that is not open.
Request(c) ==
    /\ call[c] = "new"
    /\ IF here = "open"
       THEN /\ call' = [call EXCEPT ![c] = "pending"]
            /\ out' = Append(out, [kind |-> "request", id |-> c])
            /\ UNCHANGED settled
       ELSE Settle(c, "closed") /\ UNCHANGED out
    /\ UNCHANGED <<serving, back, here, there>>

\* Its deadline passes, or its caller aborts it.
GiveUp(c, how) ==
    /\ call[c] = "pending"
    /\ Settle(c, how)
    /\ out' = IF here = "open" THEN Append(out, [kind |-> "cancel", id |-> c]) ELSE out
    /\ UNCHANGED <<serving, back, here, there>>

\* An answer arrives; if the call has been given up, it is dropped.
Answered ==
    /\ here = "open" /\ back # <<>>
    /\ back' = Tail(back)
    /\ IF call[Head(back).id] = "pending" THEN Settle(Head(back).id, Head(back).what)
       ELSE UNCHANGED <<call, settled>>
    /\ UNCHANGED <<serving, out, here, there>>

(***************************************************************************)
(* The other peer                                                          *)
(***************************************************************************)
Reply(c, what) == IF there = "open" THEN Append(back, [id |-> c, what |-> what]) ELSE back

\* Mutant of Serve: what is refused is served all the same.
ServeRefused ==
    LET c == Head(out).id
    IN  /\ there = "open" /\ out # <<>> /\ Head(out).kind = "request"
        /\ out' = Tail(out)
        /\ serving' = [serving EXCEPT ![c] = "running"]
        /\ back' = IF Cardinality(Inflight) < MaxInflight THEN back ELSE Reply(c, "refused")
        /\ UNCHANGED <<call, settled, here, there>>

\* #serve: the handler is called, unless there is none or too many are at work.
Serve ==
    LET c == Head(out).id
    IN  /\ there = "open" /\ out # <<>> /\ Head(out).kind = "request"
        /\ out' = Tail(out)
        /\ IF Handled /\ Cardinality(Inflight) < MaxInflight
           THEN serving' = [serving EXCEPT ![c] = "running"] /\ UNCHANGED back
           ELSE serving' = [serving EXCEPT ![c] = "refused"] /\ back' = Reply(c, "refused")
        /\ UNCHANGED <<call, settled, here, there>>

\* rpc.cancel aborts a handler that is at work.
Cancel ==
    LET c == Head(out).id
    IN  /\ there = "open" /\ out # <<>> /\ Head(out).kind = "cancel"
        /\ out' = Tail(out)
        /\ serving' = [serving EXCEPT ![c] = IF @ = "running" THEN "aborted" ELSE @]
        /\ UNCHANGED <<call, settled, back, here, there>>

\* The handler returns or throws, heeding its signal or not, and the answer is sent
\* if the connection is open.
Finish(c) ==
    /\ c \in Inflight
    /\ serving' = [serving EXCEPT ![c] = "finished"]
    /\ back' = Reply(c, "answered")
    /\ UNCHANGED <<call, settled, out, here, there>>

(***************************************************************************)
(* The end of the connection                                               *)
(***************************************************************************)
\* close(): nothing is received any more, the other side reads what was sent first.
CloseHere ==
    /\ here = "open"
    /\ here' = "closing"
    /\ UNCHANGED <<call, settled, serving, out, back, there>>

CloseThere ==
    /\ there = "open"
    /\ there' = "closing"
    /\ UNCHANGED <<call, settled, serving, out, back, here>>

\* The socket ends at the caller: its pending calls fail.
ClosedHere ==
    LET left == {c \in Call : call[c] = "pending"}
    IN  /\ here # "closed"
        /\ here' = "closed" /\ back' = <<>>
        /\ call' = [c \in Call |-> IF c \in left THEN "closed" ELSE call[c]]
        /\ settled' = [c \in Call |-> settled[c] + IF c \in left THEN 1 ELSE 0]
        /\ UNCHANGED <<serving, out, there>>

\* It ends at the other peer: its handlers are aborted.
ClosedThere ==
    /\ there # "closed"
    /\ there' = "closed" /\ out' = <<>>
    /\ serving' = [c \in Call |-> IF serving[c] = "running" THEN "aborted" ELSE serving[c]]
    /\ UNCHANGED <<call, settled, back, here>>

(***************************************************************************)
Init ==
    /\ call = [c \in Call |-> "new"]
    /\ settled = [c \in Call |-> 0]
    /\ serving = [c \in Call |-> "no"]
    /\ out = <<>> /\ back = <<>>
    /\ here = "open" /\ there = "open"

Requesting == \E c \in Call : Request(c)
Deadline == \E c \in Call : GiveUp(c, "timeout")
Aborting == \E c \in Call : GiveUp(c, "aborted")
Finishing == \E c \in Call : Finish(c)

Next ==
    \/ Requesting \/ Deadline \/ Aborting \/ Answered
    \/ Serve \/ Cancel \/ Finishing
    \/ CloseHere \/ CloseThere \/ ClosedHere \/ ClosedThere

Spec == Init /\ [][Next]_vars

\* Deadlines pass, what is sent arrives, and when one side has ended so does the
\* other (a close that gets no answer is forced after a while).
Receiving == Serve \/ Cancel
EndFollows == (here # "open" \/ there # "open") /\ ClosedThere
Fairness == WF_vars(Deadline) /\ WF_vars(Receiving) /\ WF_vars(EndFollows)

(***************************************************************************)
(* Properties                                                              *)
(***************************************************************************)
Outcomes == {"answered", "refused", "timeout", "aborted", "closed"}

TypeOK ==
    /\ call \in [Call -> {"new", "pending"} \cup Outcomes]
    /\ settled \in [Call -> Nat]
    /\ serving \in [Call -> {"no", "running", "aborted", "finished", "refused"}]
    /\ out \in Seq([kind : {"request", "cancel"}, id : Call])
    /\ back \in Seq([id : Call, what : {"answered", "refused"}])
    /\ here \in {"open", "closing", "closed"} /\ there \in {"open", "closing", "closed"}

\* A call settles exactly once, however its answer, its deadline, an abort and the end
\* of the connection cross; none is pending when the connection has ended.
CallsSettleOnce ==
    \A c \in Call :
        /\ settled[c] = (IF call[c] \in {"new", "pending"} THEN 0 ELSE 1)
        /\ here = "closed" => call[c] # "pending"

\* An answer is that of the call's own handler, which ran to its end; what was refused
\* has never run, so that it may be tried again.
AnswersAreTrue ==
    \A c \in Call :
        /\ call[c] = "answered" => serving[c] = "finished"
        /\ call[c] = "refused" => serving[c] = "refused"

\* The other peer never works on more than it allows, cancelled work included.
InflightIsBounded == Cardinality(Inflight) <= MaxInflight

\* What nobody waits for any more is told to stop, or is over.
GivenUp == {c \in Call : call[c] \in {"timeout", "aborted", "closed"} /\ serving[c] = "running"}
GivenUpIsAborted == []<>(GivenUp = {})

\* Every call comes to an end (there are finitely many).
Pending == {c \in Call : call[c] = "pending"}
CallsEnd == []<>(Pending = {})

\* Calls settle once and truly, and no peer works on more than it allows (rpc.ts).
CallsSettleTruly == TypeOK /\ CallsSettleOnce /\ AnswersAreTrue /\ InflightIsBounded

\* Neither a call nor the work on one that was given up goes on for ever.
CallsAreOver == CallsEnd /\ GivenUpIsAborted
=============================================================================
