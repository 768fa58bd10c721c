------------------------------ MODULE AvatarLink ------------------------------
(***************************************************************************)
(* The avatar plugin (avatar/src/vts.ts, client.ts): its session with      *)
(* VTube Studio, the token the maintainer grants or denies, the injection  *)
(* of the mouth, the expressions, and the deactivation at any moment.      *)
(***************************************************************************)
EXTENDS Naturals

CONSTANT Expression    \* the expressions asked for, each once

VARIABLES
    phase,     \* connect(): idle, dialing, trying, asking, saving, proving
    token,     \* the entry of the secret store: "none", "valid", "void"
    socket,    \* the connection to VTS: none, open, closing (by the client's owner)
    client,    \* the session is authenticated
    retry,     \* the timer of the next connect()
    ticker,    \* the timer of the next injection
    injecting, \* injections of this session wait for their answer
    denied, halted,
    plugin,    \* "active", "aborted" (its signal), "disposed"
    safe,      \* the mode produces no output
    step       \* [Expression -> new, sent, done, failed]

vars == <<phase, token, socket, client, retry, ticker, injecting, denied, halted, plugin, safe, step>>
vtsVars == <<denied, halted, plugin, safe>>
mouthVars == <<ticker, injecting>>

Stopped == plugin # "active"

\* scheduleReconnect(), when connect() is not running and there is no client.
Reconnects == retry' = (retry \/ ~(Stopped \/ denied))

\* The requests that wait for an answer when the connection ends.
Unanswered == [e \in Expression |-> IF step[e] = "sent" THEN "failed" ELSE step[e]]

(***************************************************************************)
(* connect()                                                               *)
(***************************************************************************)
\* connect() by the timer: not while there is a client, or after the end.
Dial ==
    /\ retry /\ retry' = FALSE
    /\ phase' = IF Stopped \/ client THEN phase ELSE "dialing"
    /\ UNCHANGED <<token, socket, client, mouthVars, vtsVars, step>>

\* connect() fails, for whatever reason: the connection, if there is one, is closed.
Fails == phase' = "idle" /\ socket' = "none" /\ Reconnects

\* The connection is there, or not in time.
DialOpens ==
    /\ socket' = "open"
    /\ phase' = IF token = "none" THEN "asking" ELSE "trying"
    /\ UNCHANGED retry

\* Mutant of DialEnds: the deactivation is not looked at again.
DialEndsUnchecked ==
    /\ phase = "dialing"
    /\ DialOpens \/ Fails
    /\ UNCHANGED <<token, client, mouthVars, vtsVars, step>>

\* A plugin stopped meanwhile closes the connection; else it says the stored token, or
\* asks for one.
DialEnds ==
    /\ phase = "dialing"
    /\ (~Stopped /\ DialOpens) \/ Fails
    /\ UNCHANGED <<token, client, mouthVars, vtsVars, step>>

\* The session is the client's, unless the plugin has been stopped or the connection
\* has ended since; the first injection leaves at once, unless injecting was given up.
Authenticated ==
    IF Stopped \/ socket # "open"
    THEN Fails /\ UNCHANGED <<client, mouthVars>>
    ELSE /\ client' = TRUE /\ phase' = "idle"
         /\ ticker' = ~halted /\ injecting' = ~halted
         /\ UNCHANGED <<socket, retry>>

\* The stored token is answered: it holds, or is asked for anew.
Tried ==
    /\ phase = "trying"
    /\ \/ token = "valid" /\ Authenticated
       \/ /\ token = "void"
          /\ IF Stopped THEN Fails ELSE phase' = "asking" /\ UNCHANGED <<socket, retry>>
          /\ UNCHANGED <<client, mouthVars>>
    /\ UNCHANGED <<token, vtsVars, step>>

\* The maintainer denies it: this instance does not ask again.
Denies ==
    /\ phase = "asking"
    /\ denied' = TRUE
    /\ phase' = "idle" /\ socket' = "none"
    /\ UNCHANGED <<token, client, retry, mouthVars, halted, plugin, safe, step>>

\* The maintainer allows it: the token is stored, then said.
Allows ==
    /\ phase = "asking"
    /\ phase' = "saving"
    /\ UNCHANGED <<token, socket, client, retry, mouthVars, vtsVars, step>>
Saved ==
    /\ phase = "saving"
    /\ token' = "valid" /\ phase' = "proving"
    /\ UNCHANGED <<socket, client, retry, mouthVars, vtsVars, step>>
Proved ==
    /\ phase = "proving" /\ token = "valid"
    /\ Authenticated
    /\ UNCHANGED <<token, vtsVars, step>>

\* No answer in time, an error, a token that cannot be stored, the end of the connection.
ConnectFails ==
    /\ phase \in {"trying", "asking", "saving", "proving"}
    /\ Fails
    /\ UNCHANGED <<token, client, mouthVars, vtsVars, step>>

(***************************************************************************)
(* The session                                                             *)
(***************************************************************************)
\* The connection ends (VtsClient.#onClose): what waits fails, and the client, if it was
\* this session, is reconnected.
Closes ==
    /\ socket # "none"
    /\ socket' = "none"
    /\ step' = Unanswered
    /\ IF client THEN client' = FALSE /\ ticker' = FALSE /\ injecting' = FALSE /\ Reconnects
       ELSE UNCHANGED <<client, mouthVars, retry>>
    /\ UNCHANGED <<phase, token, vtsVars>>

\* tick(): the mouth is injected and the timer set again, without waiting for the answer;
\* a plugin that has been stopped does neither.
Tick ==
    /\ ticker
    /\ IF Stopped THEN ticker' = FALSE /\ UNCHANGED injecting
       ELSE injecting' = TRUE /\ UNCHANGED ticker
    /\ UNCHANGED <<phase, token, socket, client, retry, vtsVars, step>>

\* VTS answers one of the injections, perhaps the last that waits: it has taken it, or
\* refuses it, which ends the injecting for good, or has been told to forget the plugin:
\* the session is closed.  Once given up, the answer does not matter.
Injected ==
    /\ injecting /\ injecting' \in BOOLEAN
    /\ \/ UNCHANGED <<ticker, halted, socket>>
       \/ ~halted /\ ticker' = FALSE /\ halted' = TRUE /\ UNCHANGED socket
       \/ ~halted /\ socket' = "closing" /\ UNCHANGED <<ticker, halted>>
    /\ UNCHANGED <<phase, token, client, retry, denied, plugin, safe, step>>

\* The user revokes the plugin in VTS.
Revoked ==
    /\ token = "valid" /\ token' = "void"
    /\ UNCHANGED <<phase, socket, client, retry, mouthVars, vtsVars, step>>

\* expression(): the mode and the session are looked at when the request leaves.
Express(e) ==
    /\ step[e] = "new"
    /\ step' = [step EXCEPT ![e] = IF ~Stopped /\ ~safe /\ client THEN "sent" ELSE "failed"]
    /\ UNCHANGED <<phase, token, socket, client, retry, mouthVars, vtsVars>>

\* It is answered, or the time for an answer is over.
Expressed(e) ==
    /\ step[e] = "sent"
    /\ \E how \in {"done", "failed"} : step' = [step EXCEPT ![e] = how]
    /\ UNCHANGED <<phase, token, socket, client, retry, mouthVars, vtsVars>>

SafeStop ==
    /\ safe' = ~safe
    /\ UNCHANGED <<phase, token, socket, client, retry, mouthVars, denied, halted, plugin, step>>

\* The plugin's signal, and its disposer.
Unload ==
    /\ plugin = "active" /\ plugin' = "aborted"
    /\ UNCHANGED <<phase, token, socket, client, retry, mouthVars, denied, halted, safe, step>>
Dispose ==
    /\ plugin = "aborted" /\ plugin' = "disposed"
    /\ retry' = FALSE /\ ticker' = FALSE /\ injecting' = FALSE /\ client' = FALSE
    /\ socket' = "none"
    /\ step' = Unanswered
    /\ UNCHANGED <<phase, token, denied, halted, safe>>

(***************************************************************************)
Init ==
    /\ phase = "dialing" /\ token \in {"none", "valid", "void"}
    /\ socket = "none" /\ client = FALSE /\ retry = FALSE /\ ticker = FALSE
    /\ injecting = FALSE
    /\ denied = FALSE /\ halted = FALSE /\ plugin = "active" /\ safe = FALSE
    /\ step = [e \in Expression |-> "new"]

Connecting == DialEnds \/ Tried \/ Denies \/ Allows \/ Saved \/ Proved \/ ConnectFails
Ending == socket = "closing" /\ Closes
Answering == \E e \in Expression : Expressed(e)

Next ==
    \/ Dial \/ Connecting \/ Closes \/ Tick \/ Injected \/ Revoked
    \/ \E e \in Expression : Express(e)
    \/ Answering
    \/ SafeStop \/ Unload \/ Dispose

Spec == Init /\ [][Next]_vars

\* The timers fire, a connection that is closed ends, every wait has its limit.
Fairness == WF_vars(Dial) /\ WF_vars(Connecting) /\ WF_vars(Ending)
            /\ WF_vars(Answering)
FairSpec == Spec /\ Fairness

(***************************************************************************)
(* Properties                                                              *)
(***************************************************************************)
TypeOK ==
    /\ phase \in {"idle", "dialing", "trying", "asking", "saving", "proving"}
    /\ token \in {"none", "valid", "void"} /\ socket \in {"none", "open", "closing"}
    /\ {client, retry, ticker, injecting, denied, halted, safe} \subseteq BOOLEAN
    /\ plugin \in {"active", "aborted", "disposed"}
    /\ step \in [Expression -> {"new", "sent", "done", "failed"}]

\* One connect(), timer or client at a time; a connection belongs to one of them; the
\* mouth is injected by a client alone, and by that of an active plugin all the time,
\* until VTS refuses it.
OneSession ==
    /\ client => phase = "idle" /\ ~retry /\ socket # "none"
    /\ retry => phase = "idle"
    /\ socket # "none" => client \/ phase \in {"trying", "asking", "saving", "proving"}
    /\ ticker => client /\ ~halted
    /\ plugin = "active" /\ client /\ ~halted => ticker
    /\ injecting => client
    /\ plugin = "disposed" => ~client /\ ~retry /\ socket = "none"

\* It asks and injects only while it is active, and asks never again after a denial; what
\* it has given up it does not take up again; an expression leaves only in a mode with
\* output.
AsksOnce ==
    [][/\ phase' = "asking" /\ phase # "asking" => ~Stopped /\ ~denied
       /\ ~injecting /\ injecting' => ~Stopped
       /\ halted => ~ticker' /\ (injecting' => injecting)
       /\ \A e \in Expression : step[e] # "sent" /\ step'[e] = "sent" => ~safe /\ client
      ]_vars

\* An active plugin that was not denied has a session or tries again and again; one that
\* is stopped leaves no connect() behind; every expression is answered.
KeepsTrying ==
    []<>(/\ client \/ phase # "idle" \/ denied \/ Stopped
         /\ plugin = "disposed" => phase = "idle"
         /\ \A e \in Expression : step[e] # "sent")

AvatarIsInHand == []TypeOK /\ []OneSession /\ AsksOnce /\ KeepsTrying
=============================================================================
