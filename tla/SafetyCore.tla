------------------------------- MODULE SafetyCore -------------------------------
(***************************************************************************)
(* The safety core (packages/safety): supervision modes, automatic         *)
(* downgrade, emergency stop, presence, maintenance, the gate on leases    *)
(* and intents, and the watch on OBS.                                      *)
(*                                                                         *)
(* A method of SafetyCore is synchronous, but it writes to the state store *)
(* on its way, and a write that fails calls back into the core (onFault    *)
(* downgrades) before the method goes on.  So what the core keeps is one   *)
(* record, and its methods are operators from records to records: `fuse`   *)
(* says at which write of a method the store fails.  Between methods       *)
(* anything may happen: OBS answers late, its events arrive late, the      *)
(* watchdog leaves, leases run out.                                        *)
(***************************************************************************)
EXTENDS Naturals

CONSTANTS
    Resource,    \* what is leased
    StageUrl,    \* STAGE_URL, the one resource granted in safe-stop
    Holder,      \* plugin instances
    Critical,    \* the holders of the critical tier
    Intent,      \* requests to authorize
    Exempt,      \* those that only ask for capabilities exempt in safe-stop
    Simulation,  \* SafetyConfig.simulation
    None,        \* no holder
    MaxFuse      \* bound on the write of a method at which the store fails

ASSUME SafetyAssumption ==
    /\ StageUrl \in Resource
    /\ Critical \subseteq Holder
    /\ Exempt \subseteq Intent
    /\ Simulation \in BOOLEAN
    /\ None \notin Holder
    /\ MaxFuse \in Nat \ {0}

VARIABLES
    core,      \* what the process keeps, see Core
    request,   \* [Intent -> RequestState]: the authorize call under way
    watchdog,  \* the watchdog is connected
    stopping,  \* the host's stop() has begun
    link,      \* the emergency connection to OBS: "up" or "down"
    obs,       \* "live", or "safe": safe scene shown or Stage source muted
    notice,    \* an event "OBS became safe" is on its way over the connection
    resync,    \* has the core asked OBS for its state: "no", "asked", "failed"
    pressed    \* OBS was made safe from outside in a real output mode, and
               \* neither the mode nor OBS has changed since

vars == <<core, request, watchdog, stopping, link, obs, notice, resync, pressed>>

outside == <<link, obs, notice, resync>>
-----------------------------------------------------------------------------
Mode == {"safe-stop", "M0", "M1", "M2", "M3"}
RealOutput == {"M1", "M2", "M3"}
Rank(mode) == CASE mode = "safe-stop" -> 0 [] mode = "M0" -> 1 [] mode = "M1" -> 2
                [] mode = "M2" -> 3 [] mode = "M3" -> 4

RequestState == {"idle", "guarded", "checked"}

Core == [
    mode : Mode,
    maintenance : BOOLEAN,
    moderation : BOOLEAN,
    presence : BOOLEAN,                       \* presenceValid()
    timer : BOOLEAN,                          \* #presenceTimer is armed
    healthy : BOOLEAN,                        \* the store accepts writes
    held : [Resource -> Holder \cup {None}],  \* live leases
    run : {"none", "sent", "acted"},          \* #obsRun and how far it got
    told : Mode,                              \* last mode on the control channel
    fuse : 0..MaxFuse ]                       \* writes until the store fails

TypeOK ==
    /\ core \in Core
    /\ request \in [Intent -> RequestState]
    /\ watchdog \in BOOLEAN /\ stopping \in BOOLEAN
    /\ link \in {"up", "down"}
    /\ obs \in {"live", "safe"}
    /\ resync \in {"no", "asked", "failed"}
    /\ notice \in BOOLEAN /\ pressed \in BOOLEAN

Init ==
    /\ core = [mode |-> "safe-stop", maintenance |-> FALSE, moderation |-> FALSE,
               presence |-> FALSE, timer |-> FALSE, healthy |-> TRUE,
               held |-> [r \in Resource |-> None], run |-> "none",
               told |-> "safe-stop", fuse |-> 0]
    /\ request = [i \in Intent |-> "idle"]
    /\ watchdog = FALSE /\ stopping = FALSE
    /\ link = "down"
    /\ obs \in {"live", "safe"}
    /\ notice = FALSE /\ resync = "no" /\ pressed = FALSE
-----------------------------------------------------------------------------
(* Methods of the core, from record to record.  W is what a write to the   *)
(* store does to it: nothing once the store is unavailable (Unwritten),    *)
(* else possibly a fault (Written).                                        *)

Unwritten(s) == s

Output(s) == s.mode # "safe-stop"

\* #outputBlocker is silent.
MayOutput(s, exempt) ==
    /\ s.healthy
    /\ ~s.maintenance
    /\ Output(s) \/ exempt

\* #watchPresence: a timer runs in M2 and only there.
WatchPresence(s) == [s EXCEPT !.timer = (s.mode = "M2")]

\* #setMode: memory, record, broadcast, timer.
SetMode(s, to, W(_)) ==
    WatchPresence([W([s EXCEPT !.mode = to]) EXCEPT !.told = to])

\* Leases.revokeAll: forgotten first, then written.
RevokeAll(s, W(_)) ==
    IF \A r \in Resource : s.held[r] = None THEN s
    ELSE W([s EXCEPT !.held = [r \in Resource |-> None]])

\* emergencyStop, its synchronous part: leases, stop signal, mode, and one run
\* of the OBS actions, joined if one is under way.
EmergencyStop(s, W(_)) ==
    LET revoked == RevokeAll(s, W)
        stopped == IF Output(revoked) THEN SetMode(revoked, "safe-stop", W) ELSE revoked
        noted   == W(stopped)
    IN  [noted EXCEPT !.run = IF @ = "none" THEN "sent" ELSE @]

\* downgradeTarget
DowngradeTarget(s) == IF s.mode \in {"M2", "M3"} /\ s.presence THEN "M1" ELSE "safe-stop"

\* downgrade
Downgrade(s, W(_)) ==
    IF ~Output(s) THEN s
    ELSE IF DowngradeTarget(s) = "safe-stop" THEN EmergencyStop(s, W)
    ELSE SetMode(s, DowngradeTarget(s), W)

\* A write to the store: nothing to be seen, or the fault that makes the store
\* unavailable and, before the writer goes on, downgrades (onFault).
Written(s) ==
    IF ~s.healthy \/ s.fuse = 0 THEN s
    ELSE IF s.fuse = 1
         THEN Downgrade([s EXCEPT !.fuse = 0, !.healthy = FALSE], Unwritten)
         ELSE [s EXCEPT !.fuse = @ - 1]

Stop(s) == EmergencyStop(s, Written)

\* The write of a method at which the store fails; one that has failed before takes none.
Fuse == IF core.healthy THEN 0..MaxFuse ELSE {0}

\* A method begins, with a store that may fail at one of its writes...
Enter(fuse) == [core EXCEPT !.fuse = fuse]

\* ... and is over.
Leave(s) ==
    /\ core' = [s EXCEPT !.fuse = 0]
    /\ pressed' = (pressed /\ s.mode \in RealOutput)

around == <<watchdog, stopping>>

Quietly == UNCHANGED <<request, around, outside>>
-----------------------------------------------------------------------------
(* Supervision: the operator, plugins and timers.                          *)

\* The conditions on an upgrade (the registered gates of M3 are taken as met).
MayUpgrade(s, to) ==
    /\ ~s.maintenance /\ s.healthy /\ link = "up"
    /\ to # "M0" => watchdog
    /\ to = "M2" => s.presence
    /\ to = "M3" => s.moderation

\* upgradeBlocker is silent.
MayRequest(s, to) ==
    /\ to # s.mode
    /\ to # "safe-stop" =>
          /\ Simulation <=> to = "M0"
          /\ Rank(to) >= Rank(s.mode) => MayUpgrade(s, to)

\* requestMode
RequestMode(to, fuse) ==
    LET s == Enter(fuse) IN
    /\ Leave(CASE ~MayRequest(s, to) -> Written(s)
               [] MayRequest(s, to) /\ to = "safe-stop" -> Stop(s)
               [] MayRequest(s, to) /\ to # "safe-stop" -> SetMode(s, to, Written))
    /\ Quietly

\* confirmPresence
ConfirmPresence(fuse) ==
    /\ Leave(WatchPresence(Written([Enter(fuse) EXCEPT !.presence = TRUE])))
    /\ Quietly

\* The confirmation runs out.
PresenceLapses ==
    /\ core.presence
    /\ core' = [core EXCEPT !.presence = FALSE]
    /\ UNCHANGED pressed
    /\ Quietly

\* Mutant of PresenceTimer: when it fires too early it is not armed again.
PresenceTimerOnce(fuse) ==
    LET s == [Enter(fuse) EXCEPT !.timer = FALSE] IN
    /\ core.timer
    /\ Leave(IF s.mode = "M2" /\ ~s.presence THEN Downgrade(s, Written) ELSE s)
    /\ Quietly

\* The presence timer fires: in time, or for a deadline that has moved.
PresenceTimer(fuse) ==
    LET s == [Enter(fuse) EXCEPT !.timer = FALSE] IN
    /\ core.timer
    /\ Leave(IF s.mode = "M2" /\ ~s.presence THEN Downgrade(s, Written)
             ELSE WatchPresence(s))
    /\ Quietly

\* requestDowngrade of a plugin: the fact first, then the rule.
RequestDowngrade(fuse) ==
    LET s == Written(Enter(fuse)) IN
    /\ Leave(Downgrade(s, Written))
    /\ Quietly

\* Mutant of SetModeration: the mode that requires it is left by a plain change
\* of mode.
SetModerationBySwitching(on, fuse) ==
    LET s == Written([Enter(fuse) EXCEPT !.moderation = on]) IN
    /\ core.moderation # on
    /\ Leave(IF ~on /\ s.mode = "M3" THEN SetMode(s, DowngradeTarget(s), Written) ELSE s)
    /\ Quietly

\* setModeration, on a change
SetModeration(on, fuse) ==
    LET s == Written([Enter(fuse) EXCEPT !.moderation = on]) IN
    /\ core.moderation # on
    /\ Leave(IF ~on /\ s.mode = "M3" THEN Downgrade(s, Written) ELSE s)
    /\ Quietly

\* enterMaintenance
EnterMaintenance(fuse) ==
    /\ core.mode = "safe-stop"
    /\ Leave(Written([RevokeAll(Enter(fuse), Written) EXCEPT !.maintenance = TRUE]))
    /\ Quietly

\* exitMaintenance
ExitMaintenance(fuse) ==
    /\ core.maintenance
    /\ Leave(Written([Enter(fuse) EXCEPT !.maintenance = FALSE]))
    /\ Quietly

Supervision(fuse) ==
    \/ \E to \in Mode : RequestMode(to, fuse)
    \/ ConfirmPresence(fuse)
    \/ PresenceTimer(fuse)
    \/ RequestDowngrade(fuse)
    \/ \E on \in BOOLEAN : SetModeration(on, fuse)
    \/ EnterMaintenance(fuse)
    \/ ExitMaintenance(fuse)
-----------------------------------------------------------------------------
(* Leases and intents: what plugins ask for.                               *)

\* Mutant of Grant: the gate is asked before the token is written, and the
\* lease is kept whatever became of the write.
GrantAnyway(h, r, fuse) ==
    LET s == Enter(fuse) IN
    /\ MayOutput(s, r = StageUrl)
    /\ s.held[r] \in {None, h}
    /\ Leave([Written(s) EXCEPT !.held[r] = h])
    /\ Quietly

\* grant to a holder that has the capability: the gate is asked, then the
\* token is written; if that fails, so does the grant.
Grant(h, r, fuse) ==
    LET s == Enter(fuse)
        t == Written(s)
    IN  /\ MayOutput(s, r = StageUrl)
        /\ s.held[r] \in {None, h}
        /\ Leave(IF t.healthy THEN [t EXCEPT !.held[r] = h] ELSE t)
        /\ Quietly

\* The lease of r is given back, or h is disposed of (one write each).
Revoke(R, fuse) ==
    LET s == Enter(fuse) IN
    /\ \E r \in R : s.held[r] # None
    /\ Leave(Written([s EXCEPT !.held = [r \in Resource |-> IF r \in R THEN None ELSE s.held[r]]]))
    /\ Quietly

Release(r, fuse) == Revoke({r}, fuse)
RevokeHolder(h, fuse) == Revoke({r \in Resource : core.held[r] = h}, fuse)

\* A lease that is not renewed runs out.
Expire(r) ==
    /\ core.held[r] # None
    /\ core' = [core EXCEPT !.held[r] = None]
    /\ UNCHANGED pressed
    /\ Quietly

\* authorize, up to the first guard: on to the guards, denied and downgraded for
\* going over the rate limit, or denied.
Submit(i, fuse) ==
    LET s == Enter(fuse) IN
    /\ request[i] = "idle"
    /\ \/ /\ MayOutput(s, i \in Exempt)
          /\ request' = [request EXCEPT ![i] = "guarded"]
          /\ Leave(s)
       \/ /\ MayOutput(s, i \in Exempt)
          /\ Leave(Written(Downgrade(s, Written)))
          /\ UNCHANGED request
       \/ Leave(Written(s)) /\ UNCHANGED request
    /\ UNCHANGED <<around, outside>>

\* The guards answered: the gate is asked again, or one denied.
Guarded(i, fuse) ==
    LET s == Enter(fuse) IN
    /\ request[i] = "guarded"
    /\ \/ /\ MayOutput(s, i \in Exempt)
          /\ request' = [request EXCEPT ![i] = "checked"]
          /\ Leave(s)
       \/ /\ request' = [request EXCEPT ![i] = "idle"]
          /\ Leave(Written(s))
    /\ UNCHANGED <<around, outside>>

\* The continuation of authorize, a turn of the microtask queue later: the
\* intent is written (what becomes of it: IntentStore), or the store refuses it.
Authorized(i, fuse) ==
    /\ request[i] = "checked"
    /\ request' = [request EXCEPT ![i] = "idle"]
    /\ Leave(Written(Enter(fuse)))
    /\ UNCHANGED <<around, outside>>

Plugins(fuse) ==
    \/ \E h \in Holder, r \in Resource : Grant(h, r, fuse)
    \/ \E r \in Resource : Release(r, fuse)
    \/ \E h \in Holder : RevokeHolder(h, fuse)
    \/ \E i \in Intent : Submit(i, fuse) \/ Guarded(i, fuse) \/ Authorized(i, fuse)
-----------------------------------------------------------------------------
(* The plugin kernel, the watchdog and the host around the core.           *)

\* onPluginTransition: a critical plugin leaves "active".
CriticalPluginLeaves(fuse) ==
    LET s == Enter(fuse) IN
    /\ Critical # {}
    /\ Output(s) /\ ~s.maintenance
    /\ Leave(Stop(s))
    /\ Quietly

\* quiesceTimedOut, of a critical plugin or another.
QuiesceTimedOut(h, fuse) ==
    LET s == Written(Enter(fuse)) IN
    /\ Leave(IF h \in Critical THEN Stop(s) ELSE s)
    /\ Quietly

WatchdogConnects ==
    /\ ~watchdog
    /\ watchdog' = TRUE
    /\ UNCHANGED <<core, request, stopping, outside, pressed>>

\* Mutant of WatchdogLeaves: only the attended modes are thought of.
WatchdogLeavesM1(fuse) ==
    LET s == Enter(fuse) IN
    /\ watchdog
    /\ watchdog' = FALSE
    /\ Leave(IF ~stopping /\ s.mode \in {"M2", "M3"} THEN Stop(s) ELSE s)
    /\ UNCHANGED <<request, stopping, outside>>

\* The connection of the watchdog closes: a stop in real output, unless the host is
\* stopping itself.
WatchdogLeaves(fuse) ==
    LET s == Enter(fuse) IN
    /\ watchdog
    /\ watchdog' = FALSE
    /\ Leave(IF ~stopping /\ s.mode \in RealOutput THEN Stop(s) ELSE s)
    /\ UNCHANGED <<request, stopping, outside>>

\* The host stops: an emergency stop first; requests are served for a while yet.
HostStops(fuse) ==
    /\ ~stopping
    /\ stopping' = TRUE
    /\ Leave(Stop(Enter(fuse)))
    /\ UNCHANGED <<request, watchdog, outside>>

\* watchdogActed: a report that its actions on OBS succeeded, or not.
WatchdogActed(ok, fuse) ==
    LET s == Written(Enter(fuse)) IN
    /\ watchdog
    /\ Leave(IF Output(s) \/ ~ok THEN Stop(s) ELSE s)
    /\ Quietly

\* The store fails in a read or a write of somebody else.
StoreFault ==
    /\ core.healthy
    /\ Leave(Written(Enter(1)))
    /\ Quietly

Around(fuse) ==
    \/ CriticalPluginLeaves(fuse)
    \/ \E h \in Holder : QuiesceTimedOut(h, fuse)
    \/ WatchdogLeaves(fuse)
    \/ HostStops(fuse)
    \/ \E ok \in BOOLEAN : WatchdogActed(ok, fuse)
-----------------------------------------------------------------------------
(* OBS and the emergency connection.                                       *)

\* OBS carries out the run's batch; the events of it may come before or after
\* the answer.
RunActs ==
    /\ core.run = "sent" /\ link = "up"
    /\ core' = [core EXCEPT !.run = "acted"]
    /\ obs' = "safe"
    /\ notice' = (notice \/ obs = "live")
    /\ pressed' = FALSE
    /\ UNCHANGED <<request, around, link, resync>>

\* The answer, or a deadline or error instead (before or after OBS acted): the
\* outcome is broadcast and the next stop makes a new run.
RunEnds(fuse) ==
    /\ core.run # "none"
    /\ Leave(Written([Enter(fuse) EXCEPT !.run = "none"]))
    /\ Quietly

\* Somebody makes OBS safe: a hotkey, by hand, another client, the watchdog.
Hotkey ==
    /\ obs = "live"
    /\ obs' = "safe"
    /\ notice' = (notice \/ link = "up")
    /\ pressed' = (core.mode \in RealOutput)
    /\ UNCHANGED <<core, request, around, link, resync>>

\* Somebody takes OBS back to the show.
BackLive ==
    /\ obs = "safe"
    /\ obs' = "live"
    /\ pressed' = FALSE
    /\ UNCHANGED <<core, request, around, link, notice, resync>>

\* #onObsChange
ObsChange(s) ==
    IF s.mode \in RealOutput /\ ~s.maintenance THEN Stop(Written(s)) ELSE s

\* The event arrives.
Notice(fuse) ==
    /\ notice
    /\ notice' = FALSE
    /\ Leave(ObsChange(Enter(fuse)))
    /\ UNCHANGED <<request, around, link, obs, resync>>

\* The connection breaks: events and answers on it are lost.
LinkLost ==
    /\ link = "up"
    /\ link' = "down"
    /\ notice' = FALSE /\ resync' = "no"
    /\ UNCHANGED <<core, request, around, obs, pressed>>

\* The connection is (re)made; #resyncObs asks for the state of OBS in real
\* output.
LinkBack ==
    /\ link = "down"
    /\ link' = "up"
    /\ resync' = IF core.mode \in RealOutput /\ ~core.maintenance THEN "asked" ELSE "no"
    /\ UNCHANGED <<core, request, around, obs, notice, pressed>>

\* The answer arrives, telling the state OBS is in.
Resynced(fuse) ==
    /\ resync = "asked"
    /\ resync' = "no"
    /\ Leave(IF obs = "safe" THEN ObsChange(Enter(fuse)) ELSE Enter(fuse))
    /\ UNCHANGED <<request, around, link, obs, notice>>

\* The enquiry fails on a connection that stays up: logged, and not repeated.
ResyncFails ==
    /\ resync = "asked"
    /\ resync' = "failed"
    /\ UNCHANGED <<core, request, around, link, obs, notice, pressed>>

Obs(fuse) == RunEnds(fuse) \/ Notice(fuse) \/ Resynced(fuse)
-----------------------------------------------------------------------------
Next ==
    \/ \E fuse \in Fuse :
          Supervision(fuse) \/ Plugins(fuse) \/ Around(fuse) \/ Obs(fuse)
    \/ PresenceLapses \/ StoreFault
    \/ \E r \in Resource : Expire(r)
    \/ WatchdogConnects
    \/ RunActs \/ Hotkey \/ BackLive \/ LinkLost \/ LinkBack \/ ResyncFails

Spec == Init /\ [][Next]_vars

\* Timers fire, the connection is made again, events and answers that are not
\* lost arrive, and the connection does not break before every single answer.
Fairness ==
    /\ WF_vars(\E fuse \in Fuse : PresenceTimer(fuse))
    /\ WF_vars(\E fuse \in Fuse : Notice(fuse))
    /\ WF_vars(LinkBack)
    /\ SF_vars(ResyncFails \/ \E fuse \in Fuse : Resynced(fuse))

FairSpec == Spec /\ Fairness
-----------------------------------------------------------------------------
(* Properties.                                                             *)

\* Whatever ends in safe-stop has taken every lease with it but the one on the
\* Stage URL, and maintenance that one too: also when the store fails half-way
\* through the method that was granting (core.ts: emergencyStop, grant).
LeasesFollowTheMode ==
    /\ ~Output(core) => \A r \in Resource \ {StageUrl} : core.held[r] = None
    /\ core.maintenance => \A r \in Resource : core.held[r] = None

\* What a mode was granted for stays true while it lasts: real output has its
\* watchdog, M3 its moderation, M2 a timer on the presence, maintenance is in
\* safe-stop, and M0 is simulation and nothing else is (supervision.ts).  Once the
\* host is stopping the watchdog may leave real output that was asked for since: its
\* end is ignored then (main.ts: onConnection).
ModeStaysEarned ==
    /\ core.mode \in RealOutput => (watchdog \/ stopping) /\ ~Simulation
    /\ core.mode = "M0" => Simulation
    /\ core.mode = "M3" => core.moderation
    /\ core.mode = "M2" <=> core.timer
    /\ core.maintenance => core.mode = "safe-stop"

\* The mode told last on the control channel is the mode.  When the store fails
\* while a mode is being set, the downgrade is told first and the mode that is
\* over afterwards: then, and only then, listeners are left with a mode that is
\* too high (core.ts: #setMode).
ControlTellsTheMode ==
    core.told # core.mode => ~core.healthy /\ Rank(core.told) > Rank(core.mode)

\* The mode only rises by a request whose conditions hold, whatever else is
\* going on and whatever fails on the way (core.ts: requestMode, downgrade).
OnlyRequestsUpgrade ==
    [][Rank(core'.mode) > Rank(core.mode)
         => \E fuse \in Fuse, to \in Mode :
               RequestMode(to, fuse) /\ core.healthy /\ link = "up" /\ ~core.maintenance
               /\ (to # "M0" => watchdog) /\ (to = "M2" => core.presence)]_vars

\* Nothing reaches safe-stop without asking OBS to mute Stage and show the safe
\* scene, by whichever way it came (core.ts: downgrade, emergencyStop).
StopsAreSentToObs ==
    [][Output(core) /\ core'.mode = "safe-stop" => core'.run # "none"]_vars

\* M2 ends once the confirmation of presence has run out, unless it is renewed
\* (core.ts: #watchPresence).
LapsedPresenceEndsM2 == []<>(core.mode # "M2" \/ core.presence)

\* An OBS made safe from outside during real output ends it, if the event is
\* lost with the connection too; except that the enquiry after a reconnection
\* is made once only, and that a host that is stopping closes the connection for good
\* (core.ts: #onObsChange, #resyncObs; main.ts: stop).
HotkeyEndsOutput == []<>(~pressed \/ resync = "failed" \/ stopping)

\* Whatever fails half-way, the core is left in a state it knows, and without
\* output there are no leases of output (core.ts: grant, emergencyStop).
SafetyHolds == TypeOK /\ LeasesFollowTheMode

\* The mode is what it says, and the control channel says it: its conditions
\* still hold, and only a store that failed leaves another mode told last.
ModeIsTrue == ModeStaysEarned /\ ControlTellsTheMode

\* How the mode may move: up by a request that earns it, and never into
\* safe-stop without OBS being asked to mute (core.ts: requestMode, downgrade).
ModeMovesSafely == OnlyRequestsUpgrade /\ StopsAreSentToObs

\* Output nobody vouches for any more ends: that of an operator who is not there, and
\* that which somebody has made safe in OBS (core.ts: #watchPresence, #resyncObs).
UnvouchedOutputEnds == LapsedPresenceEndsM2 /\ HotkeyEndsOutput
=============================================================================
