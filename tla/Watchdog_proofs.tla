---------------------------- MODULE Watchdog_proofs ----------------------------
(***************************************************************************)
(* Proofs about Watchdog, for any number of hangs, broken connections and  *)
(* restarts, and queues of any length: while the host serves, its real     *)
(* output has a watchdog whose end is at most still to be read.            *)
(***************************************************************************)
EXTENDS Watchdog, TLAPS

ToHost == {"ok", "bad", "close"}
ToWd == {"beat", "stopping", "close"}

\* The end of a connection is on its way in a queue.
EndIn(queue) == \E i \in DOMAIN queue : queue[i] = "close"

\* What a connection leaves when it ends is a queue that ends with its end.
LEMMA EndedQueues ==
    ASSUME NEW S, "close" \in S, NEW queue \in Seq(S), NEW rest \in Ended(queue)
    PROVE  rest \in Seq(S) /\ EndIn(rest)
<1>1. PICK n \in 0 .. Len(queue) : rest = SubSeq(queue, 1, n) \o <<"close">> BY DEF Ended
<1>2. SubSeq(queue, 1, n) \in Seq(S) /\ Len(SubSeq(queue, 1, n)) = n BY <1>1
<1>3. <<"close">> \in Seq(S) OBVIOUS
<1>4. rest \in Seq(S) /\ Len(rest) = n + 1 BY <1>1, <1>2, <1>3
<1>5. rest[n + 1] = "close" BY <1>1, <1>2, <1>3
<1> QED BY <1>4, <1>5 DEF EndIn

\* A message behind the end does not hide it.
LEMMA EndStaysWhenAppended ==
    ASSUME NEW S, NEW queue \in Seq(S), NEW message \in S, EndIn(queue)
    PROVE  EndIn(Append(queue, message))
<1>1. PICK i \in DOMAIN queue : queue[i] = "close" BY DEF EndIn
<1>2. i \in DOMAIN Append(queue, message) /\ Append(queue, message)[i] = "close" BY <1>1
<1> QED BY <1>2 DEF EndIn

\* The end is only taken out of the queue by whoever reads it.
LEMMA EndStaysUntilRead ==
    ASSUME NEW S, NEW queue \in Seq(S), queue # <<>>, Head(queue) # "close", EndIn(queue)
    PROVE  EndIn(Tail(queue))
<1>1. PICK i \in DOMAIN queue : queue[i] = "close" BY DEF EndIn
<1>2. i # 1 BY <1>1
<1>3. i - 1 \in DOMAIN Tail(queue) /\ Tail(queue)[i - 1] = "close" BY <1>1, <1>2
<1> QED BY <1>3 DEF EndIn

\* The connection that ends, for whatever reason, leaves its end for the host.
LEMMA EndLeavesItsEnd ==
    ASSUME TypeOK, End
    PROVE  /\ conn' \in BOOLEAN /\ toHost' \in Seq(ToHost) /\ toWd' \in Seq(ToWd)
           /\ WatchdogConnected => WatchdogConnected'
<1>1. CASE conn
    BY <1>1, EndedQueues DEF End, TypeOK, ToHost, ToWd, WatchdogConnected, EndIn
<1>2. CASE ~conn
    BY <1>2 DEF End, TypeOK, ToHost, ToWd, WatchdogConnected
<1> QED BY <1>1, <1>2

-----------------------------------------------------------------------------
\* The state the two processes start in.
LEMMA InitEstablishes == ASSUME Init PROVE OutputIsWatched
<1>1. host \in Host BY DEF Init, Host
<1>2. wd \in Wd BY DEF Init, Fresh, Wd
<1>3. toHost \in Seq({"ok", "bad", "close"}) /\ toWd \in Seq({"beat", "stopping", "close"})
    BY DEF Init
<1>4. TypeOK BY <1>1, <1>2, <1>3 DEF Init, TypeOK
<1>5. OutputHasAWatchdog BY DEF Init, OutputHasAWatchdog
<1> QED BY <1>4, <1>5 DEF OutputIsWatched

\* The host sets the mode, and stops, as the connection allows.
LEMMA HostModesKeep ==
    ASSUME OutputIsWatched,
           AskMode \/ ModeAnswered \/ EmergencyStop \/ BeginStop \/ Announce \/ Unload
    PROVE  OutputIsWatched'
<1> USE DEF OutputIsWatched, TypeOK, OutputHasAWatchdog, WatchdogConnected, HostBecomes,
            HostOnly, Stopped, Host
<1>1. CASE AskMode BY <1>1 DEF AskMode
<1>2. CASE ModeAnswered BY <1>2 DEF ModeAnswered
<1>3. CASE EmergencyStop BY <1>3 DEF EmergencyStop
<1>4. CASE BeginStop BY <1>4 DEF BeginStop
<1>5. CASE Announce BY <1>5 DEF Announce
<1>6. CASE Unload BY <1>6 DEF Unload
<1> QED BY <1>1, <1>2, <1>3, <1>4, <1>5, <1>6

\* The rest of what the host does by itself.
LEMMA HostRunsKeep ==
    ASSUME OutputIsWatched,
           RunActs \/ RunFails \/ GoLive \/ Heartbeat \/ Exit \/ Hang \/ Resume \/ Die
    PROVE  OutputIsWatched'
<1> USE DEF OutputIsWatched, TypeOK, OutputHasAWatchdog, WatchdogConnected, HostOnly, Host
<1>1. CASE RunActs BY <1>1 DEF RunActs
<1>2. CASE RunFails BY <1>2 DEF RunFails
<1>3. CASE GoLive BY <1>3 DEF GoLive
<1>4. CASE Heartbeat BY <1>4 DEF Heartbeat
<1>5. CASE Exit
    <2>1. host' \in Host /\ host'.phase = "unloaded" BY <1>5 DEF Exit
    <2>2. toWd' \in Seq({"beat", "stopping", "close"}) BY <1>5 DEF Exit
    <2> QED BY <1>5, <2>1, <2>2 DEF Exit
<1>6. CASE Hang BY <1>6 DEF Hang
<1>7. CASE Resume BY <1>7 DEF Resume
<1>8. CASE Die
    <2>1. host' = [host EXCEPT !.life = "gone"] /\ End BY <1>8 DEF Die
    <2>2. UNCHANGED <<wd, obs, handed>> BY <1>8 DEF Die
    <2>3. /\ conn' \in BOOLEAN /\ toHost' \in Seq(ToHost) /\ toWd' \in Seq(ToWd)
          /\ WatchdogConnected => WatchdogConnected'
        BY <2>1, EndLeavesItsEnd
    <2> QED BY <2>1, <2>2, <2>3 DEF ToHost, ToWd
<1> QED BY <1>1, <1>2, <1>3, <1>4, <1>5, <1>6, <1>7, <1>8

\* What the host reads: a report leaves the end behind it where it is, and the end
\* itself stops the output of a host that serves.
LEMMA HostReadingKeeps ==
    ASSUME OutputIsWatched, (\E result \in {"ok", "bad"} : ReadReport(result)) \/ ReadClose
    PROVE  OutputIsWatched'
<1> USE DEF OutputIsWatched, TypeOK, HostReads, HostBecomes, Stopped
<1>1. ASSUME NEW result \in {"ok", "bad"}, ReadReport(result) PROVE OutputIsWatched'
    <2>1. TypeOK'
        <3>1. host' \in Host /\ handed' \in BOOLEAN BY <1>1 DEF ReadReport, Host
        <3>2. toHost' \in Seq({"ok", "bad", "close"}) BY <1>1 DEF ReadReport
        <3> QED BY <1>1, <3>1, <3>2 DEF ReadReport
    <2>2. EndIn(toHost) => EndIn(toHost')
        BY <1>1, EndStaysUntilRead, "close" # result DEF ReadReport
    <2>3. conn' = conn /\ host'.phase = host.phase /\ (host'.mode = "real" => host.mode = "real")
        BY <1>1 DEF ReadReport, Host
    <2> QED BY <2>1, <2>2, <2>3 DEF OutputHasAWatchdog, WatchdogConnected, EndIn
<1>2. CASE ReadClose
    <2>1. TypeOK'
        <3>1. host' \in Host /\ handed' \in BOOLEAN BY <1>2 DEF ReadClose, Host
        <3>2. toHost' \in Seq({"ok", "bad", "close"}) BY <1>2 DEF ReadClose
        <3> QED BY <1>2, <3>1, <3>2 DEF ReadClose
    <2>2. ~(host'.mode = "real" /\ host'.phase = "serving") BY <1>2 DEF ReadClose, Host
    <2> QED BY <2>1, <2>2 DEF OutputHasAWatchdog
<1> QED BY <1>1, <1>2

\* The watchdog reads what arrives and waits: nothing of it touches the host's side.
LEMMA WatchingKeeps ==
    ASSUME OutputIsWatched, ReadHeartbeat \/ ReadStopping \/ ReadEnd \/ Timeout \/ WdStarts
    PROVE  OutputIsWatched'
<1> USE DEF OutputIsWatched, TypeOK, OutputHasAWatchdog, WatchdogConnected, WdReads, WdOnly, Wd
<1>1. wd' \in Wd
    <2>1. CASE ReadHeartbeat BY <2>1 DEF ReadHeartbeat
    <2>2. CASE ReadStopping BY <2>2 DEF ReadStopping
    <2>3. CASE ReadEnd BY <2>3 DEF ReadEnd, Act
    <2>4. CASE Timeout BY <2>4 DEF Timeout, Act
    <2>5. CASE WdStarts BY <2>5 DEF WdStarts, Fresh
    <2> QED BY <2>1, <2>2, <2>3, <2>4, <2>5
<1>2. toWd' \in Seq({"beat", "stopping", "close"})
    <2>1. CASE toWd' = toWd BY <2>1
    <2>2. CASE toWd # <<>> /\ toWd' = Tail(toWd) BY <2>2
    <2> QED BY <2>1, <2>2 DEF ReadHeartbeat, ReadStopping, ReadEnd, Timeout, WdStarts
<1>3. UNCHANGED <<host, conn, toHost, obs, handed>>
    BY DEF ReadHeartbeat, ReadStopping, ReadEnd, Timeout, WdStarts
<1> QED BY <1>1, <1>2, <1>3

\* The watchdog connects, acts, reports and dies: the connection is there, or its end
\* is on the way.
LEMMA ConnectionKeeps ==
    ASSUME OutputIsWatched, Connect \/ WdActs \/ WdDies \/ Break
    PROVE  OutputIsWatched'
<1> USE DEF OutputIsWatched
<1>1. CASE Connect
    <2>1. wd' \in Wd BY <1>1 DEF Connect, TypeOK, Wd
    <2>2. toHost' \in Seq(ToHost)
        <3>1. wd.unreported # "none" => wd.unreported \in ToHost BY DEF TypeOK, Wd, ToHost
        <3> QED BY <1>1, <3>1 DEF Connect, TypeOK, ToHost
    <2>3. UNCHANGED <<host, toWd, obs, handed>> /\ conn' BY <1>1 DEF Connect
    <2>4. conn' \in BOOLEAN BY <1>1 DEF Connect
    <2> QED BY <2>1, <2>2, <2>3, <2>4 DEF TypeOK, ToHost, OutputHasAWatchdog, WatchdogConnected
<1>2. ASSUME NEW reason \in {"timer", "close"}, NEW ok \in BOOLEAN, ActEnds(reason, ok)
      PROVE  OutputIsWatched'
    <2> DEFINE w == [wd EXCEPT !.acting = @ \ {reason}, !.failed = ~ok,
                               !.unreported = IF ok THEN "ok" ELSE "bad"]
    <2>1. w \in Wd /\ w.unreported \in ToHost BY <1>2 DEF TypeOK, Wd, ToHost
    <2>2. wd' = Reported(w) /\ toHost' = ReportOf(w) BY <1>2 DEF ActEnds
    <2> HIDE DEF w
    <2>3. wd' \in Wd BY <2>1, <2>2 DEF Reported, Wd
    <2>4. toHost' \in Seq(ToHost) /\ (EndIn(toHost) => EndIn(toHost'))
        <3>1. CASE toHost' = toHost BY <3>1 DEF TypeOK, ToHost
        <3>2. CASE toHost' = Append(toHost, w.unreported)
            BY <3>2, <2>1, EndStaysWhenAppended DEF TypeOK, ToHost
        <3> QED BY <3>1, <3>2, <2>2 DEF ReportOf
    <2>5. UNCHANGED <<host, conn, toWd>> /\ obs' \in {"live", "safe"} /\ handed' \in BOOLEAN
        BY <1>2 DEF ActEnds, TypeOK
    <2> QED BY <2>3, <2>4, <2>5
        DEF TypeOK, ToHost, OutputHasAWatchdog, WatchdogConnected, EndIn
<1>3. CASE WdDies
    <2>1. toHost' \in Seq(ToHost) /\ (WatchdogConnected => WatchdogConnected')
        BY <1>3, EndedQueues DEF WdDies, TypeOK, ToHost, WatchdogConnected, EndIn
    <2>2. wd' \in Wd BY <1>3 DEF WdDies, Fresh, Wd
    <2>3. toWd' \in Seq({"beat", "stopping", "close"}) BY <1>3 DEF WdDies
    <2>4. UNCHANGED <<host, obs, handed>> /\ conn' \in BOOLEAN BY <1>3 DEF WdDies
    <2> QED BY <2>1, <2>2, <2>3, <2>4 DEF TypeOK, ToHost, OutputHasAWatchdog
<1>4. CASE Break
    BY <1>4, EndLeavesItsEnd DEF Break, TypeOK, ToHost, ToWd, OutputHasAWatchdog
<1> QED BY <1>1, <1>2, <1>3, <1>4 DEF WdActs

\* For every number of hangs, breaks and restarts: as long as the host serves, real
\* output has a watchdog that is connected, or whose end the host has yet to read,
\* whichever of the two dies and whatever the connection loses.  Of a host that is
\* stopping this says nothing (main.ts, watchdog.ts).
THEOREM RealOutputIsWatched == Spec => []OutputIsWatched
<1>1. ASSUME OutputIsWatched, [Next]_vars PROVE OutputIsWatched'
    <2>1. CASE HostSteps
        BY <1>1, <2>1, HostModesKeep, HostRunsKeep, HostReadingKeeps DEF HostSteps
    <2>2. CASE WdSteps BY <1>1, <2>2, WatchingKeeps, ConnectionKeeps DEF WdSteps
    <2>3. CASE Break BY <1>1, <2>3, ConnectionKeeps
    <2>4. CASE UNCHANGED vars
        BY <1>1, <2>4
        DEF vars, OutputIsWatched, TypeOK, OutputHasAWatchdog, WatchdogConnected
    <2> QED BY <1>1, <2>1, <2>2, <2>3, <2>4 DEF Next
<1> QED BY <1>1, InitEstablishes, PTL DEF Spec
=============================================================================
