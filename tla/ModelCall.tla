------------------------------ MODULE ModelCall ------------------------------
(***************************************************************************)
(* A call of the language model (llm/src/client.ts, sse.ts, health.ts,     *)
(* plugin.ts): a request, a streamed answer read chunk by chunk, time      *)
(* limits for each wait, the caller's signal, which may come at any        *)
(* moment, from an observer too, and the count of failures.                *)
(*                                                                         *)
(* What the service sends is on its way in `wire`: chunks and comments.  A *)
(* chunk is one of: talk (reasoning, usage), text (output), stop and cut   *)
(* (with a reason to finish), rubbish, fault, and the end mark.            *)
(***************************************************************************)
EXTENDS Naturals, Sequences

CONSTANTS MaxCalls,     \* bound on the calls
          MaxWire,      \* bound on what is on its way
          MaxText       \* maxOutputChars, in texts

VARIABLES
    phase,    \* complete(): idle, connecting, excerpt, streaming
    wire,     \* what the service has sent and complete() has not read
    timer,    \* what the timer is armed for: none, headers, body, first, next
    failure,  \* the first cause of the end: none, aborted, or another kind
    said,     \* the observer has been told something
    text,     \* texts of the output so far
    reason,   \* finish_reason: none, stop, cut
    result,   \* how the last call ended: none, ok, or a kind
    asked,    \* the caller's signal: none, aborted, deadline
    calls,    \* number of calls
    consecutive, authFailed    \* LlmHealth

vars == <<phase, wire, timer, failure, said, text, reason, result, asked, calls,
          consecutive, authFailed>>
healthVars == <<consecutive, authFailed>>

Kinds == {"auth", "other"}    \* of an answer that is a failure, as far as they matter

\* LlmHealth.succeeded and failed; a call the caller has given up counts only when its
\* deadline was why.
Counted(how) ==
    IF how = "ok" THEN consecutive' = 0 /\ authFailed' = FALSE
    ELSE IF how = "aborted" /\ asked # "deadline" THEN UNCHANGED healthVars
    ELSE consecutive' = consecutive + 1 /\ authFailed' = (authFailed \/ how = "auth")

\* The call ends, by its first cause: its timer is cleared, its connection cut.
Ends(how) ==
    LET kind == IF failure # "none" THEN failure ELSE how
    IN  /\ phase' = "idle" /\ timer' = "none" /\ wire' = <<>>
        /\ result' = kind
        /\ Counted(kind)

Call ==
    /\ phase = "idle" /\ calls < MaxCalls
    /\ calls' = calls + 1
    /\ failure' = "none" /\ said' = FALSE /\ text' = 0 /\ reason' = "none" /\ asked' = "none"
    /\ phase' = "connecting" /\ timer' = "headers" /\ result' = "none"
    /\ UNCHANGED <<wire, healthVars>>

\* The caller's signal, or the plugin's.
Abort ==
    /\ phase # "idle" /\ asked = "none"
    /\ asked' \in {"aborted", "deadline"}
    /\ failure' = IF failure = "none" THEN "aborted" ELSE failure
    /\ UNCHANGED <<phase, wire, timer, said, text, reason, result, calls, healthVars>>

Timeout ==
    /\ timer # "none" /\ timer' = "none"
    /\ failure' = IF failure = "none" THEN "other" ELSE failure
    /\ UNCHANGED <<phase, wire, said, text, reason, result, asked, calls, healthVars>>

Unchanged == UNCHANGED <<failure, said, text, reason, asked, calls>>

\* The headers: of a stream, or of a failure whose text is read first; or none at all.
Headers ==
    /\ phase = "connecting"
    /\ IF failure # "none" THEN Ends(failure)
       ELSE \/ phase' = "streaming" /\ timer' = "first" /\ UNCHANGED <<wire, result, healthVars>>
            \/ phase' = "excerpt" /\ timer' = "body" /\ UNCHANGED <<wire, result, healthVars>>
            \/ Ends("other")
    /\ Unchanged
Excerpt ==
    /\ phase = "excerpt"
    /\ \E kind \in Kinds : Ends(kind)
    /\ Unchanged

Send ==
    /\ phase = "streaming" /\ Len(wire) < MaxWire
    /\ \E kind \in {"comment", "talk", "text", "stop", "cut", "rubbish", "fault", "end"} :
          wire' = Append(wire, kind)
    /\ UNCHANGED <<phase, timer, failure, said, text, reason, result, asked, calls, healthVars>>

\* The end of the stream, by its mark or without it.
Finish ==
    IF failure # "none" THEN Ends(failure)
    ELSE IF reason = "stop" THEN Ends("ok") ELSE Ends("other")

\* Mutant of Chunk: the signal is looked at before the chunk is waited for.
ChunkUnchecked ==
    /\ phase = "streaming" /\ wire # <<>> /\ Head(wire) \in {"talk", "text", "stop", "cut"}
    /\ wire' = Tail(wire) /\ timer' = "next"
    /\ said' = TRUE
    /\ text' = IF Head(wire) = "text" THEN text + 1 ELSE text
    /\ reason' = IF Head(wire) \in {"stop", "cut"} THEN Head(wire) ELSE reason
    /\ UNCHANGED <<phase, failure, result, asked, calls, healthVars>>

\* A chunk, if the call has not ended by then: the time for the next one begins anew, the
\* observer is told, and may abort the call at that.
Chunk ==
    /\ phase = "streaming" /\ wire # <<>> /\ Head(wire) \in {"talk", "text", "stop", "cut"}
    /\ IF failure # "none" \/ (Head(wire) = "text" /\ text = MaxText)
       THEN Ends("other") /\ UNCHANGED <<failure, said, text, reason>>
       ELSE /\ wire' = Tail(wire) /\ timer' = "next"
            /\ said' = TRUE
            /\ text' = IF Head(wire) = "text" THEN text + 1 ELSE text
            /\ reason' = IF Head(wire) \in {"stop", "cut"} THEN Head(wire) ELSE reason
            /\ UNCHANGED <<phase, failure, result, healthVars>>
    /\ UNCHANGED <<asked, calls>>

\* A comment keeps nothing alive.
Comment ==
    /\ phase = "streaming" /\ wire # <<>> /\ Head(wire) = "comment"
    /\ IF failure # "none" THEN Ends(failure)
       ELSE wire' = Tail(wire) /\ UNCHANGED <<phase, timer, result, healthVars>>
    /\ Unchanged

\* What cannot be read, an error of the service, or the end mark.
Last ==
    /\ phase = "streaming" /\ wire # <<>> /\ Head(wire) \in {"rubbish", "fault", "end"}
    /\ CASE Head(wire) = "rubbish" -> Ends("other")
         [] Head(wire) = "fault"   -> \E kind \in Kinds : Ends(kind)
         [] Head(wire) = "end"     -> Finish
    /\ Unchanged

\* The connection ends, well or not, or was cut by the call itself (controller.abort).
StreamEnds ==
    /\ phase = "streaming" /\ wire = <<>>
    /\ Finish \/ Ends("other")
    /\ Unchanged
Cut ==
    /\ phase \in {"connecting", "excerpt", "streaming"} /\ failure # "none"
    /\ Ends(failure)
    /\ Unchanged

Init ==
    /\ phase = "idle" /\ wire = <<>> /\ timer = "none"
    /\ failure = "none" /\ said = FALSE /\ text = 0 /\ reason = "none"
    /\ result = "none" /\ asked = "none" /\ calls = 0
    /\ consecutive = 0 /\ authFailed = FALSE

Reading == Headers \/ Excerpt \/ Chunk \/ Comment \/ Last \/ StreamEnds
Next == Call \/ Abort \/ Timeout \/ Cut \/ Send \/ Reading

Spec == Init /\ [][Next]_vars

\* What is cut ends, and the caller has a deadline (Director).
Fairness == WF_vars(Cut) /\ WF_vars(Abort)
FairSpec == Spec /\ Fairness

(***************************************************************************)
(* Properties                                                              *)
(***************************************************************************)
TypeOK ==
    /\ phase \in {"idle", "connecting", "excerpt", "streaming"}
    /\ Len(wire) <= MaxWire
    /\ timer \in {"none", "headers", "body", "first", "next"}
    /\ failure \in {"none", "aborted", "other"} /\ said \in BOOLEAN /\ text \in 0..MaxText
    /\ reason \in {"none", "stop", "cut"}
    /\ result \in {"none", "ok", "aborted"} \cup Kinds
    /\ asked \in {"none", "aborted", "deadline"} /\ calls \in 0..MaxCalls
    /\ consecutive \in 0..MaxCalls /\ authFailed \in BOOLEAN

\* Whatever the call waits for, there is a limit to it, until it has been cut; none is
\* left when it is over.
WaitsAreLimited ==
    /\ phase # "idle" /\ failure = "none" => timer # "none"
    /\ phase = "idle" => timer = "none" /\ wire = <<>>

\* Once the caller has given it up, or a limit has passed, the observer hears nothing
\* more of the call, and nothing that comes later makes it end well or as if it had
\* failed otherwise.
FirstCauseStands ==
    [][failure # "none" /\ phase # "idle" =>
          /\ text' = text /\ said' = said
          /\ phase' = "idle" => result' = failure]_vars

\* An output is handed over only when the service has said that it is whole.
OutputIsWhole == result = "ok" => reason = "stop" /\ text <= MaxText

\* Every call ends, even when the service talks on.
ModelCallsAreTrue ==
    /\ []TypeOK /\ []WaitsAreLimited /\ []OutputIsWhole /\ FirstCauseStands
    /\ []<>(phase = "idle")
=============================================================================
