-------------------------------- MODULE Watchdog --------------------------------
(***************************************************************************)
(* The external watchdog (packages/watchdog) and the host it watches       *)
(* (packages/host): two processes, a connection that carries heartbeats    *)
(* one way and reports the other, and OBS, which either can make safe.     *)
(*                                                                         *)
(* The host may hang and come back, die, or stop by plan; the watchdog may *)
(* die and be started again by the launcher; the connection may break and  *)
(* lose what is on it.  A process reads the end of a connection after the  *)
(* messages that still came through, so the end is a message here too.     *)
(* The supervision modes are those the watchdog tells apart: real output   *)
(* or not; module SafetyCore has them in full.                             *)
(***************************************************************************)
EXTENDS Naturals, Sequences

CONSTANTS
    MaxUnread,    \* bound on what the host has not read when heartbeats are
                  \* late without reason
    MaxHangs,     \* bound on the times the host hangs
    MaxBreaks,    \* bound on the times the connection breaks by itself
    MaxRestarts,  \* Session.#restarts: bound on restarts of the watchdog
    HostMayDie    \* the host may end without a plan

ASSUME WatchdogAssumption ==
    /\ MaxUnread \in Nat
    /\ MaxHangs \in Nat /\ MaxBreaks \in Nat /\ MaxRestarts \in Nat
    /\ HostMayDie \in BOOLEAN

VARIABLES
    host,        \* see Host
    wd,          \* see Wd
    conn,        \* they are connected
    toHost,      \* on the way to the host, over this connection or an ended one
    toWd,        \* on the way to the watchdog
    obs,         \* "live" or "safe"
    handed,      \* the watchdog made OBS safe in real output, which goes on
    hangs, breaks, restarts

vars == <<host, wd, conn, toHost, toWd, obs, handed, hangs, breaks, restarts>>
bounds == <<hangs, breaks, restarts>>

Host == [
    life : {"up", "hung", "gone"},
    phase : {"serving", "stopping", "announced", "unloaded"},  \* of stop()
    mode : {"safe-stop", "real"},
    asked : BOOLEAN,   \* the operator's request for real output is in preflight
    run : BOOLEAN ]    \* OBS has been asked to mute Stage and show the safe scene

Wd == [
    life : {"up", "down"},
    connected : BOOLEAN,                   \* #host is set
    timer : BOOLEAN,
    planned : BOOLEAN,
    acted : BOOLEAN,                       \* #acted
    acting : SUBSET {"timer", "close"},    \* calls of #act under way
    failed : BOOLEAN,                      \* the last of them failed
    unreported : {"none", "ok", "bad"} ]   \* #unreported

TypeOK ==
    /\ host \in Host /\ wd \in Wd
    /\ conn \in BOOLEAN /\ obs \in {"live", "safe"} /\ handed \in BOOLEAN
    /\ toHost \in Seq({"ok", "bad", "close"})
    /\ toWd \in Seq({"beat", "stopping", "close"})

\* A watchdog process as it starts.
Fresh == [life |-> "up", connected |-> FALSE, timer |-> FALSE, planned |-> FALSE,
          acted |-> FALSE, acting |-> {}, failed |-> FALSE, unreported |-> "none"]

Init ==
    /\ host = [life |-> "up", phase |-> "serving", mode |-> "safe-stop",
               asked |-> FALSE, run |-> FALSE]
    /\ wd = Fresh
    /\ conn = FALSE /\ toHost = <<>> /\ toWd = <<>>
    /\ obs = "safe" /\ handed = FALSE
    /\ hangs = 0 /\ breaks = 0 /\ restarts = 0
-----------------------------------------------------------------------------
(* The connection.                                                         *)

\* The host has a watchdog whose connection has not been seen to end.
WatchdogConnected == conn \/ \E i \in DOMAIN toHost : toHost[i] = "close"

\* What becomes of a queue when the connection ends: it ends after some of it.
Ended(queue) == {SubSeq(queue, 1, n) \o <<"close">> : n \in 0..Len(queue)}

\* The connection ends for both.
End ==
    IF conn THEN /\ conn' = FALSE
                 /\ toWd' \in Ended(toWd)
                 /\ toHost' \in Ended(toHost)
    ELSE UNCHANGED <<conn, toWd, toHost>>

Break ==
    /\ conn /\ breaks < MaxBreaks
    /\ breaks' = breaks + 1
    /\ End
    /\ UNCHANGED <<host, wd, obs, handed, hangs, restarts>>
-----------------------------------------------------------------------------
(* The host.                                                               *)

Stopped(h) == [h EXCEPT !.mode = "safe-stop", !.run = TRUE]

\* The host goes on as h; real output that ends has been handed over.
HostBecomes(h) ==
    /\ host' = h
    /\ handed' = (handed /\ h.mode = "real")

Up == host.life = "up"

HostOnly == UNCHANGED <<wd, conn, toHost, toWd, obs, bounds>>

\* The operator asks for real output; preflight finds the plugins active.
AskMode ==
    /\ Up /\ ~host.asked
    /\ host.mode = "safe-stop" /\ host.phase # "unloaded"
    /\ HostBecomes([host EXCEPT !.asked = TRUE])
    /\ HostOnly

\* Preflight is over: the mode is set if a watchdog is connected, or refused.
ModeAnswered ==
    /\ Up /\ host.asked
    /\ \E mode \in {"safe-stop"} \cup (IF WatchdogConnected THEN {"real"} ELSE {}) :
          HostBecomes([host EXCEPT !.asked = FALSE, !.mode = IF @ = "real" THEN @ ELSE mode])
    /\ HostOnly

\* An emergency stop for a reason of the host's own.
EmergencyStop ==
    /\ Up /\ host.mode = "real"
    /\ HostBecomes(Stopped(host))
    /\ HostOnly

\* OBS does what it was asked, whatever became of the host since.
RunActs ==
    /\ host.run
    /\ host' = [host EXCEPT !.run = FALSE]
    /\ obs' = "safe"
    /\ UNCHANGED <<wd, conn, toHost, toWd, handed, bounds>>

RunFails ==
    /\ host.run
    /\ host' = [host EXCEPT !.run = FALSE]
    /\ UNCHANGED <<wd, conn, toHost, toWd, obs, handed, bounds>>

\* In real output somebody takes OBS to the show.
GoLive ==
    /\ Up /\ host.mode = "real" /\ obs = "safe"
    /\ obs' = "live"
    /\ handed' = FALSE
    /\ UNCHANGED <<host, wd, conn, toHost, toWd, bounds>>

Heartbeat ==
    /\ Up /\ host.phase \in {"serving", "stopping"}
    /\ conn /\ toWd = <<>>
    /\ toWd' = <<"beat">>
    /\ UNCHANGED <<host, wd, conn, toHost, obs, handed, bounds>>

\* stop(): the emergency stop, then...
BeginStop ==
    /\ Up /\ host.phase = "serving"
    /\ HostBecomes(Stopped([host EXCEPT !.phase = "stopping"]))
    /\ HostOnly

\* ... when OBS has answered, the watchdog is told and the heartbeats end, ...
Announce ==
    /\ Up /\ host.phase = "stopping" /\ ~host.run
    /\ HostBecomes([host EXCEPT !.phase = "announced"])
    /\ toWd' = IF conn THEN Append(toWd, "stopping") ELSE toWd
    /\ UNCHANGED <<wd, conn, toHost, obs, bounds>>

\* ... the plugins are unloaded, critical ones that leave real output stop it, ...
Unload ==
    /\ Up /\ host.phase = "announced"
    /\ HostBecomes([(IF host.mode = "real" THEN Stopped(host) ELSE host)
                       EXCEPT !.phase = "unloaded"])
    /\ HostOnly

\* ... and the process ends, its last messages delivered.
Exit ==
    /\ Up /\ host.phase = "unloaded"
    /\ host' = [host EXCEPT !.life = "gone"]
    /\ conn' = FALSE
    /\ toWd' = IF conn THEN Append(toWd, "close") ELSE toWd
    /\ UNCHANGED <<wd, toHost, obs, handed, bounds>>

Hang ==
    /\ Up /\ hangs < MaxHangs
    /\ hangs' = hangs + 1
    /\ host' = [host EXCEPT !.life = "hung"]
    /\ UNCHANGED <<wd, conn, toHost, toWd, obs, handed, breaks, restarts>>

Resume ==
    /\ host.life = "hung"
    /\ host' = [host EXCEPT !.life = "up"]
    /\ HostOnly /\ UNCHANGED handed

Die ==
    /\ HostMayDie /\ host.life # "gone"
    /\ host' = [host EXCEPT !.life = "gone"]
    /\ End
    /\ UNCHANGED <<wd, obs, handed, bounds>>

HostReads(message) ==
    /\ Up
    /\ toHost # <<>> /\ Head(toHost) = message
    /\ toHost' = Tail(toHost)
    /\ UNCHANGED <<wd, conn, toWd, obs, bounds>>

\* watchdogActed
ReadReport(result) ==
    /\ HostReads(result)
    /\ HostBecomes(IF host.mode = "real" \/ result = "bad" THEN Stopped(host) ELSE host)

\* Mutant of ReadClose: only a stop that the watchdog reports is believed.
ReadCloseCalmly ==
    /\ HostReads("close")
    /\ HostBecomes(host)

\* The connection of the watchdog has ended: a stop, unless already stopping.
ReadClose ==
    /\ HostReads("close")
    /\ HostBecomes(IF host.mode = "real" /\ host.phase = "serving" THEN Stopped(host) ELSE host)
-----------------------------------------------------------------------------
(* The watchdog.                                                           *)

Watching == wd.life = "up"

WdOnly == UNCHANGED <<host, conn, obs, handed, bounds>>

\* #report: over the connection if there is one, else kept.
Reported(w) == IF w.connected THEN [w EXCEPT !.unreported = "none"] ELSE w
ReportOf(w) ==
    IF w.connected /\ w.unreported # "none" /\ conn THEN Append(toHost, w.unreported) ELSE toHost

\* #act: nothing if it has acted since the last heartbeat.
Act(w, reason) ==
    IF w.acted THEN w ELSE [w EXCEPT !.acted = TRUE, !.acting = @ \cup {reason}]

\* A connection is made by a host that answers; what is unreported goes first.
Connect ==
    /\ Watching /\ ~wd.connected /\ "close" \notin wd.acting
    /\ Up
    /\ conn' = TRUE
    /\ wd' = [wd EXCEPT !.connected = TRUE, !.timer = TRUE, !.planned = FALSE,
                        !.unreported = "none"]
    /\ toHost' = IF wd.unreported = "none" THEN toHost ELSE Append(toHost, wd.unreported)
    /\ UNCHANGED <<host, toWd, obs, handed, bounds>>

WdReads(message) ==
    /\ Watching
    /\ toWd # <<>> /\ Head(toWd) = message
    /\ toWd' = Tail(toWd)
    /\ UNCHANGED toHost
    /\ WdOnly

ReadHeartbeat ==
    /\ WdReads("beat")
    /\ wd' = [wd EXCEPT !.acted = FALSE, !.failed = FALSE, !.timer = TRUE]

ReadStopping ==
    /\ WdReads("stopping")
    /\ wd' = [wd EXCEPT !.planned = TRUE, !.timer = FALSE]

\* Mutant of ReadEnd: the end is left to the timer, which it clears.
ReadEndQuietly ==
    /\ WdReads("close")
    /\ wd' = [wd EXCEPT !.connected = FALSE, !.timer = FALSE]

ReadEnd ==
    /\ WdReads("close")
    /\ LET w == [wd EXCEPT !.connected = FALSE, !.timer = FALSE]
       IN  wd' = IF w.planned THEN w ELSE Act(w, "close")

\* The heartbeats are late.  What has arrived is read before: the timeout is
\* many heartbeats long.
Timeout ==
    /\ Watching /\ wd.timer /\ toWd = <<>>
    /\ Up => Len(toHost) <= MaxUnread
    /\ wd' = Act([wd EXCEPT !.timer = FALSE], "timer")
    /\ UNCHANGED <<toHost, toWd>>
    /\ WdOnly

\* OBS did what #act asked for, or did not; that is reported.
ActEnds(reason, ok) ==
    LET w == [wd EXCEPT !.acting = @ \ {reason}, !.failed = ~ok,
                        !.unreported = IF ok THEN "ok" ELSE "bad"]
    IN  /\ Watching /\ reason \in wd.acting
        /\ obs' = IF ok THEN "safe" ELSE obs
        /\ handed' = (handed \/ (ok /\ host.mode = "real"))
        /\ wd' = Reported(w)
        /\ toHost' = ReportOf(w)
        /\ UNCHANGED <<host, conn, toWd, bounds>>

\* The process ends; the launcher starts another, a limited number of times.
WdDies ==
    /\ Watching
    /\ wd' = [Fresh EXCEPT !.life = "down"]
    /\ conn' = FALSE
    /\ toHost' \in IF conn THEN Ended(toHost) ELSE {toHost}
    /\ toWd' = <<>>
    /\ UNCHANGED <<host, obs, handed, bounds>>

WdStarts ==
    /\ ~Watching /\ host.phase = "serving" /\ restarts < MaxRestarts
    /\ restarts' = restarts + 1
    /\ wd' = Fresh
    /\ UNCHANGED <<host, conn, toHost, toWd, obs, handed, hangs, breaks>>
-----------------------------------------------------------------------------
HostSteps ==
    \/ AskMode \/ ModeAnswered \/ EmergencyStop \/ RunActs \/ RunFails \/ GoLive
    \/ Heartbeat \/ BeginStop \/ Announce \/ Unload \/ Exit \/ Hang \/ Resume \/ Die
    \/ (\E result \in {"ok", "bad"} : ReadReport(result)) \/ ReadClose

WdActs == \E reason \in {"timer", "close"}, ok \in BOOLEAN : ActEnds(reason, ok)

WdSteps ==
    \/ Connect \/ ReadHeartbeat \/ ReadStopping \/ ReadEnd \/ Timeout \/ WdActs
    \/ WdDies \/ WdStarts

Next == HostSteps \/ WdSteps \/ Break

Spec == Init /\ [][Next]_vars

\* A process that runs reads what arrives; a timer that nothing resets fires
\* when the host is silent; OBS answers within a deadline; a host that answers
\* is connected to.
Fairness ==
    /\ WF_vars((\E result \in {"ok", "bad"} : ReadReport(result)) \/ ReadClose)
    /\ WF_vars(ReadHeartbeat \/ ReadStopping \/ ReadEnd)
    /\ WF_vars(Timeout /\ ~Up)
    /\ WF_vars(WdActs)
    /\ WF_vars(Connect)

FairSpec == Spec /\ Fairness
-----------------------------------------------------------------------------
(* Properties.                                                             *)

\* As long as the host is not stopping, real output has a watchdog whose end the
\* host has yet to read of, at the latest: there is no way to lose it, or to
\* start another, that leaves the output on unwatched (main.ts: onConnection).
OutputHasAWatchdog ==
    host.mode = "real" /\ host.phase = "serving" => WatchdogConnected

\* A watchdog that is set ends the show of a host that hangs or dies, unless
\* the host comes back, its action fails (it is not repeated), or it dies
\* itself (watchdog.ts: #act).
Set == wd.connected /\ wd.timer /\ ~wd.acted
ShowEndsWithItsHost ==
    (~Up /\ host.phase \in {"serving", "stopping"} /\ obs = "live" /\ Set)
        ~> (obs = "safe" \/ Up \/ wd.failed \/ ~Watching)

\* A host that finds itself in real output although its watchdog made OBS safe
\* stops: by the report, or because the connection that lost it ended
\* (watchdog.ts: #report; core.ts: watchdogActed).
HandedOverOutputEnds ==
    (handed /\ Up) ~> (~handed \/ ~Up \/ host.phase # "serving")

\* In every state the program can reach, and as long as the host serves, real
\* output is watched (main.ts, watchdog.ts).
OutputIsWatched == TypeOK /\ OutputHasAWatchdog

\* Output has an end: the watchdog's when the host hangs or dies, the host's when the
\* watchdog has acted although the host works (watchdog.ts: #act, #report).
OutputEnds == ShowEndsWithItsHost /\ HandedOverOutputEnds
=============================================================================
