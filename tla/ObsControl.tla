------------------------------ MODULE ObsControl ------------------------------
(***************************************************************************)
(* The OBS control (stage/src/obs-control.ts, obs/src/client.ts): intents  *)
(* carried out one after the other over its own connection, each under a   *)
(* permit of its own that is checked again before the request leaves, and  *)
(* the deactivation of the plugin at any moment.                           *)
(***************************************************************************)
EXTENDS Naturals, Sequences, SequencesExt

CONSTANT Action    \* the actions asked for, each once

VARIABLES
    step,     \* [Action -> new, queued, connecting, sent, done, failed]
    queue,    \* actions in the order of run()
    permit,   \* the action whose permit the safety core calls valid, or "nobody"
    safe,     \* the mode allows no permit
    client,   \* the plugin's ObsClient is connected
    opening,  \* connector.connect() calls under way (`connecting`)
    sockets,  \* connections to OBS that are open
    plugin    \* "active", "aborted" (its signal), "closing" (its disposer waits), "gone"

vars == <<step, queue, permit, safe, client, opening, sockets, plugin>>
linkVars == <<client, opening, sockets>>

Over(a) == step[a] \in {"done", "failed"}
Waiting == SelectSeq(queue, LAMBDA a : ~Over(a))
OnTurn(a) == Waiting # <<>> /\ Head(Waiting) = a

\* perform() ends, well or not: the permit is given back.
Ends(a, how) ==
    /\ step' = [step EXCEPT ![a] = how]
    /\ permit' = IF permit = a THEN "nobody" ELSE permit

\* run(): behind what was asked for before.
Run(a) ==
    /\ step[a] = "new"
    /\ step' = [step EXCEPT ![a] = "queued"]
    /\ queue' = Append(queue, a)
    /\ UNCHANGED <<permit, safe, linkVars, plugin>>

\* The request leaves, unless the plugin is being stopped or the permit has gone.
Leaves(a) ==
    IF plugin = "active" /\ permit' = a
    THEN step' = [step EXCEPT ![a] = "sent"]
    ELSE step' = [step EXCEPT ![a] = "failed"]

\* perform(): a permit, then the connection; a second one is not opened while one is
\* being opened.
Begin(a) ==
    /\ OnTurn(a) /\ step[a] = "queued"
    /\ IF plugin # "active" \/ safe
       THEN step' = [step EXCEPT ![a] = "failed"] /\ UNCHANGED <<permit, linkVars>>
       ELSE /\ permit' = a
            /\ IF client THEN Leaves(a) /\ UNCHANGED linkVars
               ELSE /\ step' = [step EXCEPT ![a] = "connecting"]
                    /\ opening' = IF opening = 0 THEN 1 ELSE opening
                    /\ UNCHANGED <<client, sockets>>
    /\ UNCHANGED <<queue, safe, plugin>>

\* The action that waits for the connection goes on: it sends its request, or gives its
\* permit back.
GoesOn(connected) ==
    LET a == Head(Waiting)
    IN  IF Waiting = <<>> THEN UNCHANGED <<step, permit>>
        ELSE IF step[a] # "connecting" THEN UNCHANGED <<step, permit>>
        ELSE IF connected /\ plugin = "active" /\ permit = a
             THEN step' = [step EXCEPT ![a] = "sent"] /\ UNCHANGED permit
             ELSE Ends(a, "failed")

\* Mutant of Connected: the permit is not checked again.
ConnectedUnchecked ==
    /\ opening > 0
    /\ opening' = opening - 1 /\ client' = TRUE /\ sockets' = sockets + 1
    /\ IF Waiting # <<>> /\ step[Head(Waiting)] = "connecting"
       THEN step' = [step EXCEPT ![Head(Waiting)] = "sent"] ELSE UNCHANGED step
    /\ UNCHANGED <<queue, permit, safe, plugin>>

\* connect() resolves: also after the plugin is gone.
Connected ==
    /\ opening > 0
    /\ opening' = opening - 1 /\ client' = TRUE /\ sockets' = sockets + 1
    /\ GoesOn(TRUE)
    /\ UNCHANGED <<queue, safe, plugin>>

ConnectFails ==
    /\ opening > 0
    /\ opening' = opening - 1
    /\ GoesOn(FALSE)
    /\ UNCHANGED <<queue, safe, client, sockets, plugin>>

\* OBS answers or refuses, in time or not; the intent ends accordingly.
Answered(a) ==
    /\ step[a] = "sent" /\ client
    /\ \E how \in {"done", "failed"} : Ends(a, how)
    /\ UNCHANGED <<queue, safe, linkVars, plugin>>

\* The connection ends: a request without an answer fails.
Drops ==
    /\ client /\ sockets > 0
    /\ client' = FALSE /\ sockets' = sockets - 1
    /\ IF \E a \in Action : step[a] = "sent"
       THEN Ends(CHOOSE a \in Action : step[a] = "sent", "failed")
       ELSE UNCHANGED <<step, permit>>
    /\ UNCHANGED <<queue, safe, opening, plugin>>

\* The safety core: a stop revokes the permit, and none is granted until it is over; a
\* permit also runs out.
Stop ==
    /\ safe' = ~safe
    /\ permit' = IF safe THEN permit ELSE "nobody"
    /\ UNCHANGED <<step, queue, linkVars, plugin>>
Expires ==
    /\ permit # "nobody" /\ permit' = "nobody"
    /\ UNCHANGED <<step, queue, safe, linkVars, plugin>>

\* The kernel unloads the plugin: its signal, its permits, then its disposer, which
\* waits for the queue unless it is forced.
Unload ==
    /\ plugin = "active"
    /\ plugin' = "aborted"
    /\ UNCHANGED <<step, queue, permit, safe, linkVars>>
Revoked ==
    /\ plugin = "aborted"
    /\ plugin' = "closing" /\ permit' = "nobody"
    /\ UNCHANGED <<step, queue, safe, linkVars>>
Disposed ==
    /\ plugin = "closing"
    /\ plugin' = "gone"
    /\ \E forced \in BOOLEAN :
          /\ forced \/ Waiting = <<>>
          /\ IF client
             THEN /\ client' = FALSE /\ sockets' = sockets - 1
                  /\ step' = [a \in Action |-> IF step[a] = "sent" THEN "failed" ELSE step[a]]
             ELSE UNCHANGED <<client, sockets, step>>
    /\ UNCHANGED <<queue, permit, safe, opening>>

\* The activation opens the first connection.
Init ==
    /\ step = [a \in Action |-> "new"] /\ queue = <<>>
    /\ permit = "nobody" /\ safe = FALSE
    /\ client = FALSE /\ opening = 1 /\ sockets = 0
    /\ plugin = "active"

Beginning == \E a \in Action : Begin(a)
Connecting == Connected \/ ConnectFails
Answering == \E a \in Action : Answered(a)

Next ==
    \/ \E a \in Action : Run(a)
    \/ Beginning \/ Connecting \/ Answering
    \/ Drops \/ Stop \/ Expires \/ Unload \/ Revoked \/ Disposed

Spec == Init /\ [][Next]_vars

\* A connection opens or fails, a request is answered or times out, the queue goes on.
Fairness == WF_vars(Beginning) /\ WF_vars(Connecting) /\ WF_vars(Answering)
FairSpec == Spec /\ Fairness

(***************************************************************************)
(* Properties                                                              *)
(***************************************************************************)
TypeOK ==
    /\ step \in [Action -> {"new", "queued", "connecting", "sent", "done", "failed"}]
    /\ queue \in Seq(Action)
    /\ permit \in Action \cup {"nobody"} /\ safe \in BOOLEAN
    /\ client \in BOOLEAN /\ opening \in Nat /\ sockets \in Nat
    /\ plugin \in {"active", "aborted", "closing", "gone"}

\* One connection at a time, and none is forgotten for another.
OneConnection == opening + sockets <= 1 /\ (client <=> sockets = 1)

\* A request leaves only under a permit that holds at that moment and while the plugin
\* is active, whatever has happened since the permit was granted: in turn, one at a time.
SentUnderPermit ==
    [][\A a \in Action : step[a] # "sent" /\ step'[a] = "sent" =>
          permit' = a /\ ~safe /\ plugin = "active" /\ OnTurn(a)]_vars

\* No permit is held when no action is under way.
PermitsGivenBack == permit # "nobody" => ~Over(permit) /\ step[permit] # "new"

\* Every action that was asked for comes to its end.
ActionsEnd == []<>(\A a \in Action : step[a] \in {"new", "done", "failed"})

\* What the control promises OBS and those who ask it.
ObsIsInHand == [](TypeOK /\ OneConnection /\ PermitsGivenBack) /\ SentUnderPermit /\ ActionsEnd
=============================================================================
