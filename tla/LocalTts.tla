------------------------------- MODULE LocalTts -------------------------------
(***************************************************************************)
(* The streams of the local TTS (speech/src/tts-local.ts): one request per *)
(* sentence, its frames sent ahead of the answer over one connection, the  *)
(* consumer that reads them at its own pace or stops, the cancellation,    *)
(* the end of the sidecar and of the plugin.                               *)
(*                                                                         *)
(* A frame is one of the numbered frames of its sentence.  The requests    *)
(* are RpcPeer's: an abort or a deadline ends one at once, whatever the    *)
(* sidecar does with its cancellation.                                     *)
(***************************************************************************)
EXTENDS Naturals, Sequences

CONSTANTS Stream,
          Frames    \* [Stream -> frames of its sentence]

VARIABLES
    request,  \* [Stream -> new, open, over]: tts.synthesize
    live,     \* the plugin's `streams`
    queue,    \* [Stream -> AudioStream.#queue]
    samples,  \* [Stream -> AudioStream.samples, in frames]
    ended, error, waiting,  \* streams with #ended, #error, #waiter
    got,      \* [Stream -> frames the consumer has read]
    outcome,  \* [Stream -> what it was told last: none, done, error]
    unwanted, \* streams that were aborted, or given up by their consumer
    sent,     \* [Stream -> frames the sidecar has sent]
    wire,     \* what is on the way: [of, kind]
    sidecar,  \* the connection to it
    plugin    \* "active", "gone"

vars == <<request, live, queue, samples, ended, error, waiting, got, outcome, unwanted,
          sent, wire, sidecar, plugin>>
readVars == <<queue, samples, got>>

(***************************************************************************)
(* AudioStream                                                             *)
(***************************************************************************)
\* #flush() of the streams S at their end: a consumer that waits is told.
Flush(S, told) ==
    /\ waiting' = waiting \ S
    /\ outcome' = [s \in Stream |->
                      IF s \in S \cap waiting THEN IF s \in told THEN "error" ELSE "done"
                      ELSE outcome[s]]
    /\ error' = (error \cup told) \ (S \cap waiting)

End(s) == /\ ended' = ended \cup {s}
          /\ Flush({s}, {})

Fail(S) == /\ ended' = ended \cup S
           /\ Flush(S \ ended, S \ ended)

\* push(): a consumer that waits gets the frame, else it is queued.
Push(s, n) ==
    IF s \in ended THEN UNCHANGED <<readVars, waiting>>
    ELSE /\ samples' = [samples EXCEPT ![s] = @ + 1]
         /\ IF s \in waiting
            THEN waiting' = waiting \ {s} /\ got' = [got EXCEPT ![s] = Append(@, n)] /\ UNCHANGED queue
            ELSE queue' = [queue EXCEPT ![s] = Append(@, n)] /\ UNCHANGED <<got, waiting>>

\* next(): a frame, the error, the end, or it waits.
Read(s) ==
    /\ request[s] # "new" /\ s \notin waiting /\ s \notin unwanted
    /\ outcome[s] = "none"
    /\ IF queue[s] # <<>>
       THEN /\ got' = [got EXCEPT ![s] = Append(@, Head(queue[s]))]
            /\ queue' = [queue EXCEPT ![s] = Tail(@)]
            /\ UNCHANGED <<error, outcome, waiting>>
       ELSE /\ outcome' = [outcome EXCEPT ![s] = IF s \in error THEN "error"
                                                  ELSE IF s \in ended THEN "done" ELSE @]
            /\ error' = error \ {s}
            /\ waiting' = IF s \in error \cup ended THEN waiting ELSE waiting \cup {s}
            /\ UNCHANGED <<got, queue>>
    /\ UNCHANGED <<request, live, samples, ended, unwanted, sent, wire, sidecar, plugin>>

(***************************************************************************)
(* The engine                                                              *)
(***************************************************************************)
Synthesize(s) ==
    /\ plugin = "active" /\ request[s] = "new"
    /\ request' = [request EXCEPT ![s] = "open"]
    /\ live' = live \cup {s}
    /\ UNCHANGED <<readVars, ended, error, waiting, outcome, unwanted, sent, wire, sidecar, plugin>>

\* The request is settled: the stream is not looked up any more.
Settles(s) == request' = [request EXCEPT ![s] = "over"] /\ live' = live \ {s}

\* The caller aborts it: the request ends at once, and the stream without an error.
Abort(s) ==
    /\ request[s] # "new" /\ s \notin unwanted
    /\ unwanted' = unwanted \cup {s}
    /\ IF request[s] = "open" THEN Settles(s) /\ End(s)
       ELSE UNCHANGED <<request, live, ended, error, waiting, outcome>>
    /\ UNCHANGED <<readVars, sent, wire, sidecar, plugin>>

\* return(): the consumer stops reading, which cancels what is under way.
Return(s) ==
    /\ request[s] # "new" /\ s \notin unwanted
    /\ unwanted' = unwanted \cup {s}
    /\ IF request[s] = "open" THEN Settles(s) ELSE UNCHANGED <<request, live>>
    /\ queue' = [queue EXCEPT ![s] = <<>>]
    /\ ended' = ended \cup {s}
    /\ waiting' = waiting \ {s}
    /\ outcome' = [outcome EXCEPT ![s] = IF s \in waiting THEN "done" ELSE @]
    /\ error' = error \ {s}
    /\ UNCHANGED <<samples, got, sent, wire, sidecar, plugin>>

\* The deadline of the request, or an error in its place.
TimesOut(s) ==
    /\ request[s] = "open"
    /\ Settles(s) /\ Fail({s})
    /\ UNCHANGED <<readVars, unwanted, sent, wire, sidecar, plugin>>

\* A frame: that of a stream that is not looked up any more is dropped.
Frame(s) ==
    /\ wire # <<>> /\ Head(wire) \in [of : {s}, kind : 1..Frames[s]]
    /\ wire' = Tail(wire)
    /\ IF s \in live THEN Push(s, Head(wire).kind) ELSE UNCHANGED <<readVars, waiting>>
    /\ UNCHANGED <<request, live, ended, error, outcome, unwanted, sent, sidecar, plugin>>

\* Mutant of Answered: the number of samples is not compared.
AnsweredUnchecked(s) ==
    /\ wire # <<>> /\ Head(wire).of = s /\ Head(wire).kind = 0
    /\ wire' = Tail(wire)
    /\ IF request[s] = "open" THEN Settles(s) /\ End(s)
       ELSE UNCHANGED <<request, live, ended, error, waiting, outcome>>
    /\ UNCHANGED <<readVars, unwanted, sent, sidecar, plugin>>

\* The answer, behind all frames: the stream ends, if as many have come as were sent.
Answered(s) ==
    /\ wire # <<>> /\ Head(wire).of = s /\ Head(wire).kind = 0
    /\ wire' = Tail(wire)
    /\ IF request[s] = "open"
       THEN /\ Settles(s)
            /\ IF samples[s] = Frames[s] THEN End(s) ELSE Fail({s})
       ELSE UNCHANGED <<request, live, ended, error, waiting, outcome>>
    /\ UNCHANGED <<readVars, unwanted, sent, sidecar, plugin>>

\* The connection ends with all that is on it: every request fails.
Lost ==
    /\ sidecar /\ sidecar' = FALSE
    /\ LET open == {s \in Stream : request[s] = "open"}
       IN  /\ request' = [s \in Stream |-> IF s \in open THEN "over" ELSE request[s]]
           /\ live' = live \ open
           /\ Fail(open)
    /\ wire' = <<>>
    /\ UNCHANGED <<readVars, unwanted, sent, plugin>>

\* The plugin is unloaded: first its streams, then the sidecar (Lost).
Dispose ==
    /\ plugin = "active" /\ plugin' = "gone"
    /\ live' = {} /\ Fail(live)
    /\ UNCHANGED <<request, readVars, unwanted, sent, wire, sidecar>>

(***************************************************************************)
(* The sidecar: it sends the frames, then the answer.  It may miss one.    *)
(***************************************************************************)
Sends(s) ==
    /\ sidecar /\ request[s] = "open" /\ sent[s] <= Frames[s]
    /\ sent' = [sent EXCEPT ![s] = @ + 1]
    /\ LET this == [of |-> s, kind |-> IF sent[s] = Frames[s] THEN 0 ELSE sent[s] + 1]
       IN  \/ wire' = Append(wire, this)
           \/ sent[s] < Frames[s] /\ UNCHANGED wire
    /\ UNCHANGED <<request, live, readVars, ended, error, waiting, outcome, unwanted, sidecar, plugin>>

(***************************************************************************)
Init ==
    /\ request = [s \in Stream |-> "new"] /\ live = {}
    /\ queue = [s \in Stream |-> <<>>] /\ samples = [s \in Stream |-> 0]
    /\ ended = {} /\ error = {} /\ waiting = {}
    /\ got = [s \in Stream |-> <<>>] /\ outcome = [s \in Stream |-> "none"]
    /\ unwanted = {} /\ sent = [s \in Stream |-> 0] /\ wire = <<>>
    /\ sidecar = TRUE /\ plugin = "active"

Deadlines == \E s \in Stream : TimesOut(s)
Next ==
    \/ \E s \in Stream :
        \/ Synthesize(s) \/ Read(s) \/ Abort(s) \/ Return(s)
        \/ Frame(s) \/ Answered(s) \/ Sends(s)
    \/ Deadlines \/ Lost \/ Dispose

Spec == Init /\ [][Next]_vars
FairSpec == Spec /\ WF_vars(Deadlines)

(***************************************************************************)
(* Properties                                                              *)
(***************************************************************************)
TypeOK ==
    /\ request \in [Stream -> {"new", "open", "over"}]
    /\ {live, ended, error, waiting, unwanted} \subseteq SUBSET Stream
    /\ \A s \in Stream : queue[s] \in Seq(1..Frames[s]) /\ got[s] \in Seq(1..Frames[s])
    /\ \A s \in Stream : samples[s] \in 0..Frames[s]
    /\ outcome \in [Stream -> {"none", "done", "error"}]

\* A consumer that has not given the stream up is told of its end only when it has got
\* all of it, in order; it never hears the frames of another, nor gets more than there is.
EndIsTrue ==
    \A s \in Stream :
        /\ outcome[s] = "done" /\ s \notin unwanted => got[s] = [n \in 1..Frames[s] |-> n]
        /\ \A i \in 1..(Len(got[s]) - 1) : got[s][i] < got[s][i + 1]

\* Who waits is told as soon as there is something to tell; a stream is looked up only
\* while its request is open.
NobodyIsForgotten ==
    /\ \A s \in waiting : queue[s] = <<>> /\ s \notin ended
    /\ \A s \in live : request[s] = "open"
    /\ plugin = "gone" => live = {}

EndsAreTrue == TypeOK /\ EndIsTrue /\ NobodyIsForgotten
StaysTrue == [][EndsAreTrue']_vars

\* The ends of streams are true, and nobody waits for ever.
StreamsAreTrue == EndsAreTrue /\ StaysTrue /\ []<>(waiting = {})
=============================================================================
