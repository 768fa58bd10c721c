----------------------------- MODULE SafetyCore_proofs -----------------------------
(***************************************************************************)
(* In safe-stop nothing is leased but the Stage URL, and in maintenance    *)
(* nothing at all, at whichever write of whichever method the store fails. *)
(* What a mode was granted for holds while it lasts (its watchdog while    *)
(* the host is not stopping), the control channel tells it unless the      *)
(* store failed, and it rises only by a request whose conditions hold.     *)
(* The argument is about the methods, from record to record: a write may   *)
(* be a nested downgrade, so each method is followed first with writes     *)
(* that do nothing (what the nested downgrade itself meets), then a write  *)
(* is bounded by that, and then the methods with such writes.              *)
(***************************************************************************)
EXTENDS SafetyCore, TLAPS

\* What every method keeps.
Follow(s) ==
    /\ ~Output(s) => \A r \in Resource \ {StageUrl} : s.held[r] = None
    /\ s.maintenance => ~Output(s) /\ \A r \in Resource : s.held[r] = None

\* t comes from s by steps that grant no lease, leave maintenance alone, do not
\* bring back output and leave everything but the fuse alone unless the store
\* failed.
Lowers(s, t) ==
    /\ t \in Core /\ Follow(t)
    /\ t.maintenance = s.maintenance
    /\ \A r \in Resource : s.held[r] = None => t.held[r] = None
    /\ ~Output(s) => ~Output(t)

\* What a write does: it lowers, and does no more than count if the store is
\* healthy afterwards.
Writes(s, t) ==
    /\ Lowers(s, t)
    /\ t.healthy => s.healthy /\ t.mode = s.mode /\ t.held = s.held

\* Changing the mode, with writes that do nothing.
LEMMA SetModeUnwritten ==
    ASSUME NEW s \in Core, NEW to \in Mode,
           to = "safe-stop" => \A r \in Resource \ {StageUrl} : s.held[r] = None,
           s.maintenance => to = "safe-stop" /\ \A r \in Resource : s.held[r] = None
    PROVE  LET t == SetMode(s, to, Unwritten)
           IN  /\ t \in Core /\ Follow(t) /\ t.mode = to
               /\ t.held = s.held /\ t.maintenance = s.maintenance
               /\ t.healthy = s.healthy
  BY DEF SetMode, Unwritten, WatchPresence, Core, Follow, Output

\* A stop, with writes that do nothing.
LEMMA EmergencyStopUnwritten ==
    ASSUME NEW s \in Core, Follow(s)
    PROVE  LET t == EmergencyStop(s, Unwritten)
           IN  /\ Lowers(s, t) /\ ~Output(t) /\ t.healthy = s.healthy
               /\ \A r \in Resource : t.held[r] = None
<1> DEFINE revoked == RevokeAll(s, Unwritten)
           stopped == IF Output(revoked) THEN SetMode(revoked, "safe-stop", Unwritten)
                      ELSE revoked
<1>1. /\ revoked \in Core /\ revoked.maintenance = s.maintenance
      /\ revoked.mode = s.mode /\ revoked.healthy = s.healthy
      /\ \A r \in Resource : revoked.held[r] = None
  BY DEF RevokeAll, Unwritten, Core
<1>2. /\ stopped \in Core /\ stopped.maintenance = s.maintenance
      /\ stopped.mode = "safe-stop" /\ stopped.healthy = s.healthy
      /\ \A r \in Resource : stopped.held[r] = None
  <2> HIDE DEF revoked
  <2>1. CASE Output(revoked)
    BY <1>1, <2>1, SetModeUnwritten DEF Mode
  <2>2. CASE ~Output(revoked)
    BY <1>1, <2>2 DEF Output
  <2> QED
    BY <2>1, <2>2
<1> DEFINE t == [stopped EXCEPT !.run = IF @ = "none" THEN "sent" ELSE @]
<1>3. EmergencyStop(s, Unwritten) = t
  BY DEF EmergencyStop, Unwritten
<1>4. /\ t \in Core /\ t.maintenance = s.maintenance /\ t.mode = "safe-stop"
      /\ t.healthy = s.healthy /\ \A r \in Resource : t.held[r] = None
  <2> HIDE DEF stopped
  <2> QED
    BY <1>2 DEF Core
<1> QED
  BY <1>3, <1>4 DEF Lowers, Follow, Output

\* A downgrade, with writes that do nothing: what a failing write calls.
LEMMA DowngradeUnwritten ==
    ASSUME NEW s \in Core, Follow(s)
    PROVE  LET t == Downgrade(s, Unwritten)
           IN  Lowers(s, t) /\ t.healthy = s.healthy
<1>1. CASE ~Output(s)
  BY <1>1 DEF Downgrade, Lowers
<1>2. CASE Output(s) /\ DowngradeTarget(s) = "safe-stop"
  BY <1>2, EmergencyStopUnwritten DEF Downgrade
<1>3. CASE Output(s) /\ DowngradeTarget(s) # "safe-stop"
  <2>1. DowngradeTarget(s) = "M1" /\ ~s.maintenance
    BY <1>3 DEF DowngradeTarget, Follow
  <2>2. Downgrade(s, Unwritten) = SetMode(s, "M1", Unwritten)
    BY <1>3, <2>1 DEF Downgrade
  <2> QED
    BY <1>3, <2>1, <2>2, SetModeUnwritten DEF Lowers, Mode
<1> QED
  BY <1>1, <1>2, <1>3

\* A write to the store.
LEMMA WrittenWrites ==
    ASSUME NEW s \in Core, Follow(s)
    PROVE  Writes(s, Written(s))
<1>1. CASE ~s.healthy \/ s.fuse = 0
  BY <1>1 DEF Written, Writes, Lowers
<1>2. CASE s.healthy /\ s.fuse = 1
  <2> DEFINE u == [s EXCEPT !.fuse = 0, !.healthy = FALSE]
  <2>1. /\ u \in Core /\ Follow(u) /\ ~u.healthy /\ u.mode = s.mode
        /\ u.held = s.held /\ u.maintenance = s.maintenance
    <3>1. 0 \in 0..MaxFuse
      BY SafetyAssumption
    <3> QED
      BY <3>1 DEF Core, Follow, Output
  <2>2. Written(s) = Downgrade(u, Unwritten)
    BY <1>2 DEF Written
  <2> HIDE DEF u
  <2> QED
    BY <2>1, <2>2, DowngradeUnwritten DEF Writes, Lowers, Output
<1>3. CASE s.healthy /\ s.fuse # 0 /\ s.fuse # 1
  BY <1>3, SafetyAssumption DEF Written, Writes, Lowers, Core, Follow, Output
<1> QED
  BY <1>1, <1>2, <1>3
\* Changing the mode, with a store that may fail.
LEMMA SetModeWritten ==
    ASSUME NEW s \in Core, NEW to \in Mode,
           to = "safe-stop" => \A r \in Resource \ {StageUrl} : s.held[r] = None,
           s.maintenance => to = "safe-stop" /\ \A r \in Resource : s.held[r] = None
    PROVE  LET t == SetMode(s, to, Written)
           IN  /\ t \in Core /\ Follow(t) /\ t.maintenance = s.maintenance
               /\ \A r \in Resource : s.held[r] = None => t.held[r] = None
               /\ to = "safe-stop" => ~Output(t)
<1> DEFINE v == [s EXCEPT !.mode = to]
           w == Written(v)
           told == [w EXCEPT !.told = to]
           t == [told EXCEPT !.timer = (told.mode = "M2")]
<1>1. /\ v \in Core /\ Follow(v) /\ v.mode = to /\ v.held = s.held
      /\ v.maintenance = s.maintenance
  BY DEF Core, Follow, Output
<1>2. Lowers(v, w)
  <2> HIDE DEF v
  <2> QED
    BY <1>1, WrittenWrites DEF Writes
<1>3. /\ w \in Core /\ Follow(w) /\ w.maintenance = s.maintenance
      /\ \A r \in Resource : s.held[r] = None => w.held[r] = None
      /\ to = "safe-stop" => ~Output(w)
  <2> HIDE DEF v, w
  <2> QED
    BY <1>1, <1>2 DEF Lowers, Output
<1>4. SetMode(s, to, Written) = t
  BY DEF SetMode, WatchPresence
<1>5. /\ t \in Core /\ t.maintenance = w.maintenance /\ t.held = w.held
      /\ t.mode = w.mode
  <2> HIDE DEF w
  <2> QED
    BY <1>3 DEF Core
<1> HIDE DEF t, w
<1> QED
  BY <1>3, <1>4, <1>5 DEF Follow, Output

\* A stop: nothing is held after it and there is no output.
LEMMA StopStops ==
    ASSUME NEW s \in Core, Follow(s)
    PROVE  LET t == Stop(s)
           IN  Lowers(s, t) /\ ~Output(t) /\ \A r \in Resource : t.held[r] = None
<1> DEFINE free == [s EXCEPT !.held = [r \in Resource |-> None]]
           revoked == RevokeAll(s, Written)
           stopped == IF Output(revoked) THEN SetMode(revoked, "safe-stop", Written)
                      ELSE revoked
           noted == Written(stopped)
           t == [noted EXCEPT !.run = IF @ = "none" THEN "sent" ELSE @]
<1>1. /\ revoked \in Core /\ Follow(revoked) /\ revoked.maintenance = s.maintenance
      /\ \A r \in Resource : revoked.held[r] = None
  <2>1. CASE \A r \in Resource : s.held[r] = None
    BY <2>1 DEF RevokeAll
  <2>2. CASE ~\A r \in Resource : s.held[r] = None
    <3>1. /\ free \in Core /\ Follow(free) /\ free.maintenance = s.maintenance
          /\ \A r \in Resource : free.held[r] = None
      BY DEF Core, Follow, Output
    <3>2. revoked = Written(free)
      BY <2>2 DEF RevokeAll
    <3> HIDE DEF free, revoked
    <3> QED
      BY <3>1, <3>2, WrittenWrites DEF Writes, Lowers
  <2> QED
    BY <2>1, <2>2
<1>2. /\ stopped \in Core /\ Follow(stopped) /\ stopped.maintenance = s.maintenance
      /\ ~Output(stopped) /\ \A r \in Resource : stopped.held[r] = None
  <2> HIDE DEF revoked
  <2>1. CASE Output(revoked)
    BY <1>1, <2>1, SetModeWritten DEF Mode
  <2>2. CASE ~Output(revoked)
    BY <1>1, <2>2
  <2> QED
    BY <2>1, <2>2
<1>3. /\ noted \in Core /\ Follow(noted) /\ noted.maintenance = s.maintenance
      /\ ~Output(noted) /\ \A r \in Resource : noted.held[r] = None
  <2> HIDE DEF stopped
  <2> QED
    BY <1>2, WrittenWrites DEF Writes, Lowers
<1>4. Stop(s) = t
  BY DEF Stop, EmergencyStop
<1>5. /\ t \in Core /\ t.maintenance = noted.maintenance /\ t.mode = noted.mode
      /\ t.held = noted.held
  <2> HIDE DEF noted
  <2> QED
    BY <1>3 DEF Core
<1> HIDE DEF t, noted
<1> QED
  BY <1>3, <1>4, <1>5 DEF Lowers, Follow, Output

\* A downgrade, with a store that may fail.
LEMMA DowngradeLowers ==
    ASSUME NEW s \in Core, Follow(s)
    PROVE  Lowers(s, Downgrade(s, Written))
<1>1. CASE ~Output(s)
  BY <1>1 DEF Downgrade, Lowers
<1>2. CASE Output(s) /\ DowngradeTarget(s) = "safe-stop"
  BY <1>2, StopStops DEF Downgrade, Stop
<1>3. CASE Output(s) /\ DowngradeTarget(s) # "safe-stop"
  <2>1. DowngradeTarget(s) = "M1" /\ ~s.maintenance
    BY <1>3 DEF DowngradeTarget, Follow
  <2>2. Downgrade(s, Written) = SetMode(s, "M1", Written)
    BY <1>3, <2>1 DEF Downgrade
  <2> QED
    BY <1>3, <2>1, <2>2, SetModeWritten DEF Lowers, Mode
<1> QED
  BY <1>1, <1>2, <1>3
-----------------------------------------------------------------------------
(* The invariant and the steps.                                            *)

IInv == TypeOK /\ Follow(core)

\* Where a method may meet the fault of the store.
LEMMA FuseBound == Fuse \subseteq 0..MaxFuse /\ 0 \in 0..MaxFuse
  BY SafetyAssumption DEF Fuse

\* A method begins and ends.
LEMMA EnterFollows ==
    ASSUME IInv, NEW fuse \in 0..MaxFuse
    PROVE  LET s == Enter(fuse)
           IN  /\ s \in Core /\ Follow(s)
               /\ s.mode = core.mode /\ s.maintenance = core.maintenance
               /\ s.held = core.held /\ s.healthy = core.healthy
  BY DEF IInv, TypeOK, Enter, Core, Follow, Output

LEMMA LeaveFollows ==
    ASSUME NEW s \in Core, Follow(s), Leave(s)
    PROVE  core' \in Core /\ Follow(core)' /\ pressed' \in BOOLEAN
<1>1. 0 \in 0..MaxFuse
  BY SafetyAssumption
<1> QED
  BY <1>1 DEF Leave, Core, Follow, Output

\* A mode that may be asked for is entered with nothing that forbids it.
LEMMA MayRequestSound ==
    ASSUME NEW s \in Core, Follow(s), NEW to \in Mode, MayRequest(s, to), to # "safe-stop"
    PROVE  ~s.maintenance
<1>1. CASE Rank(to) >= Rank(s.mode)
  BY <1>1 DEF MayRequest, MayUpgrade
<1>2. CASE ~(Rank(to) >= Rank(s.mode))
  <2>1. s.mode # "safe-stop"
    BY <1>2 DEF Rank, Mode
  <2> QED
    BY <2>1 DEF Follow, Output
<1> QED
  BY <1>1, <1>2

LEMMA RequestModeKeeps ==
    ASSUME IInv, NEW fuse \in 0..MaxFuse, NEW to \in Mode, RequestMode(to, fuse)
    PROVE  core' \in Core /\ Follow(core)' /\ pressed' \in BOOLEAN
<1> DEFINE s == Enter(fuse)
<1>1. s \in Core /\ Follow(s)
  BY EnterFollows
<1> HIDE DEF s
<1>2. CASE ~MayRequest(s, to)
  <2>1. Leave(Written(s))
    BY <1>2 DEF RequestMode, s
  <2> QED
    BY <1>1, <2>1, WrittenWrites, LeaveFollows DEF Writes, Lowers
<1>3. CASE MayRequest(s, to) /\ to = "safe-stop"
  <2>1. Leave(Stop(s))
    BY <1>3 DEF RequestMode, s
  <2> QED
    BY <1>1, <2>1, StopStops, LeaveFollows DEF Lowers
<1>4. CASE MayRequest(s, to) /\ to # "safe-stop"
  <2>1. Leave(SetMode(s, to, Written))
    BY <1>4 DEF RequestMode, s
  <2>2. ~s.maintenance
    BY <1>1, <1>4, MayRequestSound
  <2> QED
    BY <1>1, <1>4, <2>1, <2>2, SetModeWritten, LeaveFollows
<1> QED
  BY <1>2, <1>3, <1>4

LEMMA ConfirmPresenceKeeps ==
    ASSUME IInv, NEW fuse \in 0..MaxFuse, ConfirmPresence(fuse)
    PROVE  core' \in Core /\ Follow(core)' /\ pressed' \in BOOLEAN
<1> DEFINE u == [Enter(fuse) EXCEPT !.presence = TRUE]
           w == Written(u)
           t == WatchPresence(w)
<1>1. u \in Core /\ Follow(u)
  BY EnterFollows DEF Core, Follow, Output
<1>2. w \in Core /\ Follow(w)
  <2> HIDE DEF u
  <2> QED
    BY <1>1, WrittenWrites DEF Writes, Lowers
<1>3. t \in Core /\ Follow(t)
  <2> HIDE DEF w
  <2> QED
    BY <1>2 DEF WatchPresence, Core, Follow, Output
<1>4. Leave(t)
  BY DEF ConfirmPresence
<1> HIDE DEF t
<1> QED
  BY <1>3, <1>4, LeaveFollows

LEMMA PresenceTimerKeeps ==
    ASSUME IInv, NEW fuse \in 0..MaxFuse, PresenceTimer(fuse)
    PROVE  core' \in Core /\ Follow(core)' /\ pressed' \in BOOLEAN
<1> DEFINE u == [Enter(fuse) EXCEPT !.timer = FALSE]
<1>1. u \in Core /\ Follow(u)
  BY EnterFollows DEF Core, Follow, Output
<1>2. Leave(IF u.mode = "M2" /\ ~u.presence THEN Downgrade(u, Written) ELSE WatchPresence(u))
  BY DEF PresenceTimer
<1> HIDE DEF u
<1>3. WatchPresence(u) \in Core /\ Follow(WatchPresence(u))
  BY <1>1 DEF WatchPresence, Core, Follow, Output
<1> QED
  BY <1>1, <1>2, <1>3, DowngradeLowers, LeaveFollows DEF Lowers

LEMMA RequestDowngradeKeeps ==
    ASSUME IInv, NEW fuse \in 0..MaxFuse, RequestDowngrade(fuse)
    PROVE  core' \in Core /\ Follow(core)' /\ pressed' \in BOOLEAN
<1> DEFINE s == Written(Enter(fuse))
<1>1. s \in Core /\ Follow(s)
  BY EnterFollows, WrittenWrites DEF Writes, Lowers
<1>2. Leave(Downgrade(s, Written))
  BY DEF RequestDowngrade
<1> HIDE DEF s
<1> QED
  BY <1>1, <1>2, DowngradeLowers, LeaveFollows DEF Lowers

LEMMA SetModerationKeeps ==
    ASSUME IInv, NEW fuse \in 0..MaxFuse, NEW on \in BOOLEAN, SetModeration(on, fuse)
    PROVE  core' \in Core /\ Follow(core)' /\ pressed' \in BOOLEAN
<1> DEFINE u == [Enter(fuse) EXCEPT !.moderation = on]
           s == Written(u)
<1>1. u \in Core /\ Follow(u)
  BY EnterFollows DEF Core, Follow, Output
<1>2. s \in Core /\ Follow(s)
  <2> HIDE DEF u
  <2> QED
    BY <1>1, WrittenWrites DEF Writes, Lowers
<1>3. Leave(IF ~on /\ s.mode = "M3" THEN Downgrade(s, Written) ELSE s)
  BY DEF SetModeration
<1> HIDE DEF s
<1> QED
  BY <1>2, <1>3, DowngradeLowers, LeaveFollows DEF Lowers

LEMMA MaintenanceKeeps ==
    ASSUME IInv, NEW fuse \in 0..MaxFuse, EnterMaintenance(fuse) \/ ExitMaintenance(fuse)
    PROVE  core' \in Core /\ Follow(core)' /\ pressed' \in BOOLEAN
<1> DEFINE s == Enter(fuse)
           free == [s EXCEPT !.held = [r \in Resource |-> None]]
           revoked == RevokeAll(s, Written)
           shut == [revoked EXCEPT !.maintenance = TRUE]
           open == [s EXCEPT !.maintenance = FALSE]
<1>1. s \in Core /\ Follow(s) /\ s.mode = core.mode
  BY EnterFollows
<1>2. CASE EnterMaintenance(fuse)
  <2>1. Leave(Written(shut)) /\ ~Output(s)
    BY <1>1, <1>2 DEF EnterMaintenance, Output
  <2>2. /\ revoked \in Core /\ ~Output(revoked)
        /\ \A r \in Resource : revoked.held[r] = None
    <3> HIDE DEF s
    <3>1. CASE \A r \in Resource : s.held[r] = None
      BY <1>1, <2>1, <3>1 DEF RevokeAll
    <3>2. CASE ~\A r \in Resource : s.held[r] = None
      <4>1. /\ free \in Core /\ Follow(free) /\ ~Output(free)
            /\ \A r \in Resource : free.held[r] = None
        BY <1>1, <2>1 DEF Core, Follow, Output
      <4>2. revoked = Written(free)
        BY <3>2 DEF RevokeAll
      <4> HIDE DEF free, revoked
      <4> QED
        BY <4>1, <4>2, WrittenWrites DEF Writes, Lowers
    <3> QED
      BY <3>1, <3>2
  <2>3. shut \in Core /\ Follow(shut)
    <3> HIDE DEF revoked
    <3> QED
      BY <2>2 DEF Core, Follow, Output
  <2> HIDE DEF shut
  <2> QED
    BY <2>1, <2>3, WrittenWrites, LeaveFollows DEF Writes, Lowers
<1>3. CASE ExitMaintenance(fuse)
  <2>1. Leave(Written(open))
    BY <1>3 DEF ExitMaintenance
  <2>2. open \in Core /\ Follow(open)
    <3> HIDE DEF s
    <3> QED
      BY <1>1 DEF Core, Follow, Output
  <2> HIDE DEF open
  <2> QED
    BY <2>1, <2>2, WrittenWrites, LeaveFollows DEF Writes, Lowers
<1> QED
  BY <1>2, <1>3
LEMMA GrantKeeps ==
    ASSUME IInv, NEW fuse \in 0..MaxFuse, NEW h \in Holder, NEW r \in Resource,
           Grant(h, r, fuse)
    PROVE  core' \in Core /\ Follow(core)' /\ pressed' \in BOOLEAN
<1> DEFINE s == Enter(fuse)
           w == Written(s)
           g == [w EXCEPT !.held[r] = h]
<1>1. /\ s \in Core /\ Follow(s) /\ MayOutput(s, r = StageUrl)
      /\ Leave(IF w.healthy THEN g ELSE w)
  BY EnterFollows DEF Grant
<1>2. Writes(s, w)
  <2> HIDE DEF s
  <2> QED
    BY <1>1, WrittenWrites
<1>3. w.healthy => g \in Core /\ Follow(g)
  <2> SUFFICES ASSUME w.healthy PROVE g \in Core /\ Follow(g)
    OBVIOUS
  <2>1. /\ w \in Core /\ Follow(w) /\ w.mode = s.mode /\ ~w.maintenance
        /\ Output(s) \/ r = StageUrl
    <3> HIDE DEF s, w
    <3> QED
      BY <1>1, <1>2 DEF Writes, Lowers, MayOutput
  <2> HIDE DEF s, w
  <2> QED
    BY <2>1 DEF Core, Follow, Output
<1> HIDE DEF g, w
<1> QED
  BY <1>1, <1>2, <1>3, LeaveFollows DEF Writes, Lowers

LEMMA RevokeKeeps ==
    ASSUME IInv, NEW fuse \in 0..MaxFuse, NEW R, Revoke(R, fuse)
    PROVE  core' \in Core /\ Follow(core)' /\ pressed' \in BOOLEAN
<1> DEFINE s == Enter(fuse)
           u == [s EXCEPT !.held = [r \in Resource |-> IF r \in R THEN None ELSE s.held[r]]]
<1>1. s \in Core /\ Follow(s)
  BY EnterFollows
<1>2. Leave(Written(u))
  BY DEF Revoke
<1>3. u \in Core /\ Follow(u)
  <2> HIDE DEF s
  <2> QED
    BY <1>1 DEF Core, Follow, Output
<1> HIDE DEF u
<1> QED
  BY <1>2, <1>3, WrittenWrites, LeaveFollows DEF Writes, Lowers

\* The three steps of authorize.
LEMMA AuthorizeKeeps ==
    ASSUME IInv, NEW fuse \in 0..MaxFuse, NEW i \in Intent,
           Submit(i, fuse) \/ Guarded(i, fuse) \/ Authorized(i, fuse)
    PROVE  /\ core' \in Core /\ Follow(core)' /\ pressed' \in BOOLEAN
           /\ request' \in [Intent -> RequestState]
<1> DEFINE s == Enter(fuse)
           d == Downgrade(s, Written)
<1>1. s \in Core /\ Follow(s)
  BY EnterFollows
<1>2. d \in Core /\ Follow(d)
  <2> HIDE DEF s
  <2> QED
    BY <1>1, DowngradeLowers DEF Lowers
<1>3. Leave(s) \/ Leave(Written(s)) \/ Leave(Written(d))
  BY DEF Submit, Guarded, Authorized
<1>4. core' \in Core /\ Follow(core)' /\ pressed' \in BOOLEAN
  <2> HIDE DEF s, d
  <2> QED
    BY <1>1, <1>2, <1>3, WrittenWrites, LeaveFollows DEF Writes, Lowers
<1>5. request' \in [Intent -> RequestState]
  <2>1. request \in [Intent -> RequestState]
    BY DEF IInv, TypeOK
  <2>2. \/ request' = request
        \/ \E v \in {"idle", "guarded", "checked"} : request' = [request EXCEPT ![i] = v]
    BY DEF Submit, Guarded, Authorized
  <2> QED
    BY <2>1, <2>2 DEF RequestState
<1> QED
  BY <1>4, <1>5

\* The methods that only write, or write and stop.
LEMMA AroundKeeps ==
    ASSUME IInv, NEW fuse \in 0..MaxFuse, Around(fuse) \/ Obs(fuse)
    PROVE  core' \in Core /\ Follow(core)' /\ pressed' \in BOOLEAN
<1> DEFINE s == Enter(fuse)
           w == Written(s)
           e == [s EXCEPT !.run = "none"]
<1>1. s \in Core /\ Follow(s)
  BY EnterFollows
<1>2. w \in Core /\ Follow(w)
  <2> HIDE DEF s
  <2> QED
    BY <1>1, WrittenWrites DEF Writes, Lowers
<1>3. e \in Core /\ Follow(e)
  <2> HIDE DEF s
  <2> QED
    BY <1>1 DEF Core, Follow, Output
<1>4. \/ Leave(s) \/ Leave(w) \/ Leave(Written(e))
      \/ Leave(Stop(s)) \/ Leave(Stop(w))
  <2>1. CASE Around(fuse)
    BY <2>1 DEF Around, CriticalPluginLeaves, QuiesceTimedOut, WatchdogLeaves,
       HostStops, WatchdogActed
  <2>2. CASE Obs(fuse)
    BY <2>2 DEF Obs, RunEnds, Notice, Resynced, ObsChange
  <2> QED
    BY <2>1, <2>2
<1> HIDE DEF s, w, e
<1> QED
  BY <1>1, <1>2, <1>3, <1>4, WrittenWrites, StopStops, LeaveFollows DEF Writes, Lowers
LEMMA Initially == Init => IInv
<1>1. 0 \in 0..MaxFuse
  BY SafetyAssumption
<1> SUFFICES ASSUME Init PROVE IInv
  OBVIOUS
<1>2. core \in Core /\ Follow(core)
  BY <1>1 DEF Init, Follow, Output, Core, Mode
<1>3. request \in [Intent -> RequestState]
  BY DEF Init, RequestState
<1> QED
  BY <1>2, <1>3 DEF Init, IInv, TypeOK

LEMMA Preserved == IInv /\ [Next]_vars => IInv'
<1> SUFFICES ASSUME IInv, [Next]_vars PROVE IInv'
  OBVIOUS
<1> USE DEF IInv
<1>1. ASSUME NEW fuse \in 0..MaxFuse, Supervision(fuse)
      PROVE  IInv'
  <2>1. core' \in Core /\ Follow(core)' /\ pressed' \in BOOLEAN
    BY <1>1, RequestModeKeeps, ConfirmPresenceKeeps, PresenceTimerKeeps, RequestDowngradeKeeps,
       SetModerationKeeps, MaintenanceKeeps DEF Supervision
  <2>2. UNCHANGED <<request, watchdog, stopping, link, obs, notice, resync>>
    BY <1>1 DEF Supervision, RequestMode, ConfirmPresence, PresenceTimer, RequestDowngrade,
       SetModeration, EnterMaintenance, ExitMaintenance, Quietly, around, outside
  <2> QED
    BY <2>1, <2>2 DEF TypeOK
<1>2. ASSUME NEW fuse \in 0..MaxFuse, Plugins(fuse)
      PROVE  IInv'
  <2>1. CASE \E i \in Intent : Submit(i, fuse) \/ Guarded(i, fuse) \/ Authorized(i, fuse)
    <3>1. /\ core' \in Core /\ Follow(core)' /\ pressed' \in BOOLEAN
          /\ request' \in [Intent -> RequestState]
      BY <2>1, AuthorizeKeeps
    <3>2. UNCHANGED <<watchdog, stopping, link, obs, notice, resync>>
      BY <2>1 DEF Submit, Guarded, Authorized, around, outside
    <3> QED
      BY <3>1, <3>2 DEF TypeOK
  <2>2. CASE \/ \E h \in Holder, r \in Resource : Grant(h, r, fuse)
             \/ \E r \in Resource : Release(r, fuse)
             \/ \E h \in Holder : RevokeHolder(h, fuse)
    <3>1. core' \in Core /\ Follow(core)' /\ pressed' \in BOOLEAN
      BY <2>2, GrantKeeps, RevokeKeeps DEF Release, RevokeHolder
    <3>2. UNCHANGED <<request, watchdog, stopping, link, obs, notice, resync>>
      BY <2>2 DEF Grant, Release, RevokeHolder, Revoke, Quietly, around, outside
    <3> QED
      BY <3>1, <3>2 DEF TypeOK
  <2> QED
    BY <1>2, <2>1, <2>2 DEF Plugins
<1>3. ASSUME NEW fuse \in 0..MaxFuse, Around(fuse) \/ Obs(fuse)
      PROVE  IInv'
  <2>1. core' \in Core /\ Follow(core)' /\ pressed' \in BOOLEAN
    BY <1>3, AroundKeeps
  <2>2. /\ request' = request /\ link' = link /\ obs' = obs
        /\ watchdog' \in {watchdog, FALSE} /\ stopping' \in {stopping, TRUE}
        /\ notice' \in {notice, FALSE}
        /\ resync' \in {resync, "no"}
    BY <1>3 DEF Around, Obs, CriticalPluginLeaves, QuiesceTimedOut, WatchdogLeaves,
       HostStops, WatchdogActed, RunEnds, Notice, Resynced, Quietly, around, outside
  <2> QED
    BY <2>1, <2>2 DEF TypeOK
<1>4. CASE StoreFault
  <2>1. 1 \in 0..MaxFuse
    BY SafetyAssumption
  <2>2. core' \in Core /\ Follow(core)' /\ pressed' \in BOOLEAN
    <3> DEFINE s == Enter(1)
    <3>1. s \in Core /\ Follow(s) /\ Leave(Written(s))
      BY <1>4, <2>1, EnterFollows DEF StoreFault
    <3> HIDE DEF s
    <3> QED
      BY <3>1, WrittenWrites, LeaveFollows DEF Writes, Lowers
  <2>3. UNCHANGED <<request, watchdog, stopping, link, obs, notice, resync>>
    BY <1>4 DEF StoreFault, Quietly, around, outside
  <2> QED
    BY <2>2, <2>3 DEF TypeOK
<1>5. CASE PresenceLapses \/ \E r \in Resource : Expire(r)
  <2>1. core' \in Core /\ Follow(core)'
    <3>1. CASE PresenceLapses
      BY <3>1 DEF PresenceLapses, TypeOK, Core, Follow, Output
    <3>2. ASSUME NEW r \in Resource, Expire(r)
          PROVE  core' \in Core /\ Follow(core)'
      BY <3>2 DEF Expire, TypeOK, Core, Follow, Output
    <3> QED
      BY <1>5, <3>1, <3>2
  <2>2. UNCHANGED <<request, watchdog, stopping, link, obs, notice, resync, pressed>>
    BY <1>5 DEF PresenceLapses, Expire, Quietly, around, outside
  <2> QED
    BY <2>1, <2>2 DEF TypeOK
<1>6. CASE RunActs
  <2>1. core' \in Core /\ Follow(core)'
    BY <1>6 DEF RunActs, TypeOK, Core, Follow, Output
  <2> QED
    BY <1>6, <2>1 DEF RunActs, TypeOK, around
<1>7. CASE WatchdogConnects \/ Hotkey \/ BackLive \/ LinkLost \/ LinkBack \/ ResyncFails
  <2>1. core' = core
    BY <1>7 DEF WatchdogConnects, Hotkey, BackLive, LinkLost, LinkBack, ResyncFails
  <2>2. /\ request' = request /\ watchdog' \in BOOLEAN /\ stopping' = stopping
        /\ link' \in {"up", "down"}
        /\ obs' \in {"live", "safe"} /\ notice' \in BOOLEAN /\ pressed' \in BOOLEAN
        /\ resync' \in {"no", "asked", "failed"}
    <3>1. CASE Hotkey
      <4>1. /\ UNCHANGED <<request, watchdog, stopping, link, resync>> /\ obs' = "safe"
            /\ notice' \in BOOLEAN
        BY <3>1 DEF Hotkey, TypeOK, around
      <4>2. pressed' \in BOOLEAN
        BY <3>1 DEF Hotkey
      <4> QED
        BY <4>1, <4>2 DEF TypeOK
    <3>2. CASE WatchdogConnects \/ BackLive \/ LinkLost \/ LinkBack \/ ResyncFails
      BY <3>2 DEF WatchdogConnects, BackLive, LinkLost, LinkBack, ResyncFails, TypeOK,
         around, outside
    <3> QED
      BY <1>7, <3>1, <3>2
  <2> QED
    BY <2>1, <2>2 DEF TypeOK, Follow, Output
<1>8. CASE UNCHANGED vars
  BY <1>8 DEF vars, outside, TypeOK, Follow, Output
<1> QED
  BY <1>1, <1>2, <1>3, <1>4, <1>5, <1>6, <1>7, <1>8, FuseBound DEF Next

\* The inductive invariant of the safety core.
THEOREM InductiveInvariant == Spec => []IInv
  BY Initially, Preserved, PTL DEF Spec

\* The declared types hold in every reachable state of the safety core.
THEOREM TypeCorrect == Spec => []TypeOK
<1>1. IInv => TypeOK
  BY DEF IInv
<1> QED
  BY <1>1, InductiveInvariant, PTL

\* Safe-stop and maintenance leave no lease of output, for any number of
\* plugins and resources and a store that fails anywhere.
THEOREM LeasesStayWithTheMode == Spec => []LeasesFollowTheMode
<1>1. IInv => LeasesFollowTheMode
  BY DEF IInv, Follow, LeasesFollowTheMode
<1> QED
  BY <1>1, InductiveInvariant, PTL

\* Both together: whatever fails half-way, the core is in a state it knows, and
\* without output it holds no lease of output.
THEOREM TheCoreHolds == Spec => []SafetyHolds
<1>1. TypeOK /\ LeasesFollowTheMode => SafetyHolds
  BY DEF SafetyHolds
<1> QED
  BY <1>1, TypeCorrect, LeasesStayWithTheMode, PTL
-----------------------------------------------------------------------------
(* How the mode moves.  Again the methods are followed from record to      *)
(* record: whatever a write does on its way, the mode either stays, with   *)
(* the timer and what was told of it, or it sinks and both are set anew.   *)

\* The mode is as it was, and an emergency run that was under way still is.
Stays(s, t) ==
    /\ t.mode = s.mode /\ t.timer = s.timer /\ t.told = s.told
    /\ s.run # "none" => t.run # "none"

\* The mode has gone down: nothing is attended any more, another mode was told last only if
\* the store failed, and in safe-stop OBS has been asked to mute.
Sinks(s, t) ==
    /\ t.mode \in {"safe-stop", "M1"} /\ Rank(t.mode) < Rank(s.mode)
    /\ t.timer = FALSE
    /\ t.told # t.mode => ~t.healthy /\ Rank(t.told) > Rank(t.mode)
    /\ t.mode = "safe-stop" => t.run # "none"

\* What all writes, stops and downgrades do to what the mode depends on.
Falls(s, t) ==
    /\ t \in Core
    /\ t.moderation = s.moderation /\ t.presence = s.presence
    /\ t.healthy => s.healthy
    /\ Stays(s, t) \/ Sinks(s, t)

\* Modes have ranks, safe-stop the lowest.
LEMMA RankFacts ==
    /\ \A m \in Mode : Rank(m) \in 0 .. 4 /\ (m # "safe-stop" => Rank(m) > 0)
    /\ Rank("safe-stop") = 0 /\ Rank("M1") = 2 /\ Rank("M2") = 3 /\ Rank("M3") = 4
    /\ \A m \in Mode : Rank("M1") < Rank(m) => m \in {"M2", "M3"}
BY DEF Rank, Mode

\* Two such steps are one.
LEMMA FallsOn ==
    ASSUME NEW s \in Core, NEW t, NEW u, Falls(s, t), Falls(t, u)
    PROVE  Falls(s, u)
<1>1. s.mode \in Mode /\ t.mode \in Mode /\ u.mode \in Mode BY DEF Falls, Core
<1>2. Rank(s.mode) \in 0 .. 4 /\ Rank(t.mode) \in 0 .. 4 /\ Rank(u.mode) \in 0 .. 4
  BY <1>1, RankFacts
<1>3. Stays(s, t) /\ Stays(t, u) => Stays(s, u)
  BY DEF Stays
<1>4. Stays(s, t) /\ Sinks(t, u) => Sinks(s, u)
  BY DEF Stays, Sinks
<1>5. Sinks(s, t) /\ Stays(t, u) => Sinks(s, u)
  BY DEF Stays, Sinks, Falls
<1>6. Sinks(s, t) /\ Sinks(t, u) => Sinks(s, u)
  BY <1>2 DEF Sinks
<1> QED
  BY <1>3, <1>4, <1>5, <1>6 DEF Falls

\* Changing the mode, with writes that do nothing.
LEMMA SetModeMoves ==
    ASSUME NEW s \in Core, NEW to \in Mode
    PROVE  LET t == SetMode(s, to, Unwritten)
           IN  /\ t \in Core /\ t.mode = to /\ t.told = to /\ t.timer = (to = "M2")
               /\ t.moderation = s.moderation /\ t.presence = s.presence
               /\ t.healthy = s.healthy /\ t.run = s.run
  BY DEF SetMode, Unwritten, WatchPresence, Core

\* A stop, with writes that do nothing.
LEMMA EmergencyStopMoves ==
    ASSUME NEW s \in Core
    PROVE  LET t == EmergencyStop(s, Unwritten)
           IN  /\ Falls(s, t) /\ t.mode = "safe-stop" /\ t.run # "none"
               /\ t.healthy = s.healthy
               /\ Output(s) => Sinks(s, t)
<1> DEFINE revoked == RevokeAll(s, Unwritten)
           stopped == IF Output(revoked) THEN SetMode(revoked, "safe-stop", Unwritten)
                      ELSE revoked
           t == [stopped EXCEPT !.run = IF @ = "none" THEN "sent" ELSE @]
<1>1. /\ revoked \in Core /\ Stays(s, revoked) /\ revoked.moderation = s.moderation
      /\ revoked.presence = s.presence /\ revoked.healthy = s.healthy /\ revoked.run = s.run
  BY DEF RevokeAll, Unwritten, Core, Stays
<1>2. /\ stopped \in Core /\ stopped.mode = "safe-stop"
      /\ stopped.moderation = s.moderation /\ stopped.presence = s.presence
      /\ stopped.healthy = s.healthy /\ stopped.run = s.run
      /\ Output(s) => stopped.told = "safe-stop" /\ stopped.timer = FALSE
      /\ ~Output(s) => Stays(s, stopped)
  <2> HIDE DEF revoked
  <2>1. CASE Output(revoked)
    <3> DEFINE m == SetMode(revoked, "safe-stop", Unwritten)
    <3>1. /\ m \in Core /\ m.mode = "safe-stop" /\ m.told = "safe-stop" /\ m.timer = FALSE
          /\ m.moderation = revoked.moderation /\ m.presence = revoked.presence
          /\ m.healthy = revoked.healthy /\ m.run = revoked.run
      <4>1. revoked \in Core BY <1>1
      <4>2. "safe-stop" \in Mode BY DEF Mode
      <4> HIDE DEF revoked
      <4>3. "safe-stop" # "M2" OBVIOUS
      <4> QED BY <4>1, <4>2, <4>3, SetModeMoves
    <3>2. stopped = m /\ Output(s)
      BY <1>1, <2>1 DEF Stays, Output
    <3> HIDE DEF m
    <3> QED
      BY <1>1, <3>1, <3>2
  <2>2. CASE ~Output(revoked)
    BY <1>1, <2>2 DEF Output, Stays
  <2> QED
    BY <2>1, <2>2
<1>3. EmergencyStop(s, Unwritten) = t
  BY DEF EmergencyStop, Unwritten
<1>4. /\ t \in Core /\ t.mode = "safe-stop" /\ t.run # "none"
      /\ t.moderation = s.moderation /\ t.presence = s.presence /\ t.healthy = s.healthy
      /\ t.told = stopped.told /\ t.timer = stopped.timer
  <2> HIDE DEF stopped
  <2> QED
    BY <1>2 DEF Core
<1> HIDE DEF t, stopped
<1>5. Output(s) => Sinks(s, t)
  <2>1. s.mode \in Mode
    BY DEF Core
  <2> QED
    BY <1>2, <1>4, <2>1, RankFacts DEF Sinks, Output
<1>6. ~Output(s) => Stays(s, t)
  BY <1>2, <1>4 DEF Stays
<1> QED
  BY <1>3, <1>4, <1>5, <1>6 DEF Falls

\* A downgrade, with writes that do nothing.
LEMMA DowngradeMoves ==
    ASSUME NEW s \in Core
    PROVE  LET t == Downgrade(s, Unwritten)
           IN  /\ Falls(s, t) /\ t.healthy = s.healthy
               /\ IF Output(s) THEN Sinks(s, t) ELSE t = s
<1>1. CASE ~Output(s)
  BY <1>1 DEF Downgrade, Falls, Stays
<1>2. CASE Output(s) /\ DowngradeTarget(s) = "safe-stop"
  BY <1>2, EmergencyStopMoves DEF Downgrade
<1>3. CASE Output(s) /\ DowngradeTarget(s) # "safe-stop"
  <2>1. DowngradeTarget(s) = "M1" /\ s.mode \in {"M2", "M3"}
    BY <1>3 DEF DowngradeTarget
  <2>2. Downgrade(s, Unwritten) = SetMode(s, "M1", Unwritten)
    BY <1>3, <2>1 DEF Downgrade
  <2> DEFINE t == SetMode(s, "M1", Unwritten)
  <2>3. /\ t \in Core /\ t.mode = "M1" /\ t.told = "M1" /\ t.timer = FALSE
        /\ t.moderation = s.moderation /\ t.presence = s.presence
        /\ t.healthy = s.healthy
    BY SetModeMoves DEF Mode
  <2> HIDE DEF t
  <2>4. Sinks(s, t)
    BY <2>1, <2>3, RankFacts DEF Sinks
  <2> QED
    BY <1>3, <2>2, <2>3, <2>4 DEF Falls, t
<1> QED
  BY <1>1, <1>2, <1>3

\* A write to the store: it moves the mode only if there is output, and only by failing.
LEMMA WrittenMoves ==
    ASSUME NEW s \in Core
    PROVE  LET t == Written(s)
           IN  /\ Falls(s, t)
               /\ ~Output(s) => Stays(s, t)
               /\ t.healthy => Stays(s, t)
               /\ ~Stays(s, t) => ~t.healthy
<1>1. CASE ~s.healthy \/ s.fuse = 0
  BY <1>1 DEF Written, Falls, Stays
<1>2. CASE s.healthy /\ s.fuse = 1
  <2> DEFINE u == [s EXCEPT !.fuse = 0, !.healthy = FALSE]
             t == Downgrade(u, Unwritten)
  <2>1. /\ u \in Core /\ ~u.healthy /\ u.mode = s.mode /\ u.timer = s.timer
        /\ u.told = s.told /\ u.run = s.run
        /\ u.moderation = s.moderation /\ u.presence = s.presence
    <3>1. 0 \in 0..MaxFuse
      BY SafetyAssumption
    <3> QED
      BY <3>1 DEF Core
  <2>2. Written(s) = t
    BY <1>2 DEF Written
  <2> HIDE DEF u
  <2>3. Falls(u, t) /\ t.healthy = u.healthy /\ (IF Output(u) THEN Sinks(u, t) ELSE t = u)
    BY <2>1, DowngradeMoves
  <2> HIDE DEF t
  <2>4. Falls(s, t) /\ ~t.healthy
    BY <1>2, <2>1, <2>3 DEF Falls, Stays, Sinks
  <2>5. ~Output(s) => Stays(s, t)
    BY <2>1, <2>3 DEF Stays, Output
  <2> QED
    BY <2>2, <2>4, <2>5
<1>3. CASE s.healthy /\ s.fuse # 0 /\ s.fuse # 1
  BY <1>3, SafetyAssumption DEF Written, Falls, Stays, Core
<1> QED
  BY <1>1, <1>2, <1>3

\* Changing the mode, with a store that may fail: it changes, or it has sunk below what was
\* meant, and that is what was told last.
LEMMA SetModeArrives ==
    ASSUME NEW s \in Core, NEW to \in Mode
    PROVE  LET t == SetMode(s, to, Written)
           IN  /\ t \in Core /\ t.told = to /\ t.timer = (t.mode = "M2")
               /\ t.moderation = s.moderation /\ t.presence = s.presence
               /\ t.healthy => s.healthy
               /\ \/ t.mode = to /\ (s.run # "none" => t.run # "none")
                  \/ /\ t.mode \in {"safe-stop", "M1"} /\ Rank(t.mode) < Rank(to)
                     /\ ~t.healthy
                     /\ t.mode = "safe-stop" => t.run # "none"
<1> DEFINE v == [s EXCEPT !.mode = to]
           w == Written(v)
           told == [w EXCEPT !.told = to]
           t == [told EXCEPT !.timer = (told.mode = "M2")]
<1>1. /\ v \in Core /\ v.mode = to /\ v.moderation = s.moderation /\ v.presence = s.presence
      /\ v.healthy = s.healthy /\ v.run = s.run
  BY DEF Core
<1> HIDE DEF v
<1>2. Falls(v, w) /\ (~Stays(v, w) => ~w.healthy)
  BY <1>1, WrittenMoves
<1>3. SetMode(s, to, Written) = t
  BY DEF SetMode, WatchPresence, v
<1> HIDE DEF w
<1>4. /\ t \in Core /\ t.told = to /\ t.mode = w.mode /\ t.timer = (w.mode = "M2")
      /\ t.moderation = w.moderation /\ t.presence = w.presence
      /\ t.healthy = w.healthy /\ t.run = w.run
  BY <1>2 DEF Falls, Core
<1> HIDE DEF t
<1>5. CASE Stays(v, w)
  BY <1>1, <1>2, <1>3, <1>4, <1>5 DEF Falls, Stays
<1>6. CASE ~Stays(v, w)
  BY <1>1, <1>2, <1>3, <1>4, <1>6 DEF Falls, Sinks
<1> QED
  BY <1>5, <1>6

\* Taking all leases back, with one write if there is a lease.
LEMMA RevokeAllMoves ==
    ASSUME NEW s \in Core
    PROVE  LET t == RevokeAll(s, Written)
           IN  Falls(s, t) /\ (~Output(s) => Stays(s, t))
<1> DEFINE free == [s EXCEPT !.held = [r \in Resource |-> None]]
           revoked == RevokeAll(s, Written)
<1>1. CASE \A r \in Resource : s.held[r] = None
  BY <1>1 DEF RevokeAll, Falls, Stays
<1>2. CASE ~\A r \in Resource : s.held[r] = None
  <2>1. /\ free \in Core /\ free.mode = s.mode /\ free.timer = s.timer
        /\ free.told = s.told /\ free.run = s.run /\ free.healthy = s.healthy
        /\ free.moderation = s.moderation /\ free.presence = s.presence
    BY DEF Core
  <2>2. revoked = Written(free)
    BY <1>2 DEF RevokeAll
  <2> HIDE DEF free, revoked
  <2>3. Falls(free, revoked) /\ (~Output(free) => Stays(free, revoked))
    BY <2>1, <2>2, WrittenMoves
  <2>4. Falls(s, revoked) /\ (~Output(s) => Stays(s, revoked))
    BY <2>1, <2>3 DEF Falls, Stays, Sinks, Output
  <2> QED
    BY <2>4 DEF revoked
<1> QED
  BY <1>1, <1>2

\* A stop, with a store that may fail at any of its writes.
LEMMA StopMoves ==
    ASSUME NEW s \in Core
    PROVE  LET t == Stop(s)
           IN  /\ Falls(s, t) /\ t.mode = "safe-stop" /\ t.run # "none"
               /\ Output(s) => Sinks(s, t)
<1> DEFINE revoked == RevokeAll(s, Written)
           stopped == IF Output(revoked) THEN SetMode(revoked, "safe-stop", Written)
                      ELSE revoked
           noted == Written(stopped)
           t == [noted EXCEPT !.run = IF @ = "none" THEN "sent" ELSE @]
<1>1. Falls(s, revoked) /\ (~Output(s) => Stays(s, revoked))
  BY RevokeAllMoves
<1> HIDE DEF revoked
<1>2. revoked \in Core /\ revoked.mode \in Mode /\ s.mode \in Mode
  BY <1>1 DEF Falls, Core
<1>3. /\ stopped \in Core /\ stopped.mode = "safe-stop"
      /\ stopped.moderation = s.moderation /\ stopped.presence = s.presence
      /\ stopped.healthy => s.healthy
      /\ Output(s) => /\ stopped.timer = FALSE
                      /\ stopped.told # stopped.mode =>
                            ~stopped.healthy /\ Rank(stopped.told) > Rank(stopped.mode)
      /\ ~Output(s) => Stays(s, stopped)
  <2>1. CASE Output(revoked)
    <3> DEFINE m == SetMode(revoked, "safe-stop", Written)
    <3>1. /\ m \in Core /\ m.told = "safe-stop" /\ m.timer = (m.mode = "M2")
          /\ m.moderation = revoked.moderation /\ m.presence = revoked.presence
          /\ m.healthy => revoked.healthy
          /\ \/ m.mode = "safe-stop"
             \/ m.mode \in {"safe-stop", "M1"} /\ Rank(m.mode) < Rank("safe-stop")
      BY <1>2, SetModeArrives DEF Mode
    <3>2. stopped = m
      BY <2>1
    <3> HIDE DEF m
    <3>3. m.mode = "safe-stop" /\ m.timer = FALSE
      BY <3>1, RankFacts DEF Mode
    <3>4. Output(s)
      BY <1>1, <2>1 DEF Stays, Output
    <3> QED
      BY <1>1, <3>1, <3>2, <3>3, <3>4 DEF Falls
  <2>2. CASE ~Output(revoked)
    <3>1. stopped = revoked /\ stopped.mode = "safe-stop"
      BY <2>2 DEF Output
    <3>2. Output(s) => Sinks(s, revoked)
      BY <1>1, <2>2 DEF Falls, Stays, Output
    <3> QED
      BY <1>1, <1>2, <3>1, <3>2 DEF Falls, Sinks
  <2> QED
    BY <2>1, <2>2
<1>4. Stop(s) = t
  BY DEF Stop, EmergencyStop, revoked
<1> HIDE DEF stopped
<1>5. Falls(stopped, noted) /\ Stays(stopped, noted)
  BY <1>3, WrittenMoves DEF Output
<1> HIDE DEF noted
<1>6. /\ t \in Core /\ t.mode = "safe-stop" /\ t.run # "none"
      /\ t.moderation = s.moderation /\ t.presence = s.presence
      /\ t.healthy => stopped.healthy
      /\ t.timer = stopped.timer /\ t.told = stopped.told
  BY <1>3, <1>5 DEF Falls, Stays, Core
<1> HIDE DEF t
<1>7. Output(s) => Sinks(s, t)
  BY <1>2, <1>3, <1>6, RankFacts DEF Sinks, Output
<1>8. ~Output(s) => Stays(s, t)
  BY <1>3, <1>6 DEF Stays
<1> QED
  BY <1>3, <1>4, <1>6, <1>7, <1>8 DEF Falls

\* A downgrade, with a store that may fail.
LEMMA DowngradeFalls ==
    ASSUME NEW s \in Core
    PROVE  LET t == Downgrade(s, Written)
           IN  Falls(s, t) /\ (Output(s) => Sinks(s, t))
<1>1. CASE ~Output(s)
  BY <1>1 DEF Downgrade, Falls, Stays
<1>2. CASE Output(s) /\ DowngradeTarget(s) = "safe-stop"
  BY <1>2, StopMoves DEF Downgrade, Stop
<1>3. CASE Output(s) /\ DowngradeTarget(s) # "safe-stop"
  <2> DEFINE t == SetMode(s, "M1", Written)
  <2>1. DowngradeTarget(s) = "M1" /\ s.mode \in {"M2", "M3"}
    BY <1>3 DEF DowngradeTarget
  <2>2. Downgrade(s, Written) = t
    BY <1>3, <2>1 DEF Downgrade
  <2>3. /\ t \in Core /\ t.told = "M1" /\ t.timer = (t.mode = "M2")
        /\ t.moderation = s.moderation /\ t.presence = s.presence
        /\ t.healthy => s.healthy
        /\ \/ t.mode = "M1"
           \/ /\ t.mode \in {"safe-stop", "M1"} /\ Rank(t.mode) < Rank("M1")
              /\ ~t.healthy
              /\ t.mode = "safe-stop" => t.run # "none"
    BY SetModeArrives DEF Mode
  <2> HIDE DEF t
  <2>4. Sinks(s, t)
    <3>1. Rank(s.mode) \in {3, 4} /\ Rank("M1") = 2 /\ Rank("safe-stop") = 0
      BY <2>1, RankFacts
    <3>2. t.mode \in {"safe-stop", "M1"} /\ t.timer = FALSE
      BY <2>3
    <3>3. Rank(t.mode) < Rank(s.mode)
      BY <3>1, <3>2
    <3>4. t.told # t.mode => ~t.healthy /\ Rank(t.told) > Rank(t.mode)
      BY <2>3, <3>1, <3>2
    <3> QED
      BY <2>3, <3>2, <3>3, <3>4 DEF Sinks
  <2> QED
    BY <2>2, <2>3, <2>4 DEF Falls
<1> QED
  BY <1>1, <1>2, <1>3

\* Real output may go on, as far as the watchdog is concerned.
Watched == watchdog \/ stopping

\* What a step does to the mode: its conditions hold, the control channel tells it, and
\* it is nowhere higher; safe-stop is only reached with OBS asked to mute.
Lowered ==
    /\ ModeStaysEarned' /\ ControlTellsTheMode'
    /\ Rank(core'.mode) <= Rank(core.mode)
    /\ Output(core) /\ core'.mode = "safe-stop" => core'.run # "none"

MInv == IInv /\ ModeIsTrue

\* A method that ends in t: the mode has sunk, or it is as it was and earned.
LEMMA LeaveLowers ==
    ASSUME MInv, IInv', NEW t \in Core, Leave(t),
           t.healthy => core.healthy,
           core'.mode \in RealOutput /\ Watched => Watched',
           \/ Sinks(core, t)
           \/ /\ t.mode = core.mode /\ t.told = core.told
              /\ t.mode = "M2" <=> t.timer
              /\ t.mode = "M3" => t.moderation
    PROVE  Lowered
<1>1. /\ core'.mode = t.mode /\ core'.timer = t.timer /\ core'.told = t.told
      /\ core'.moderation = t.moderation /\ core'.healthy = t.healthy /\ core'.run = t.run
  BY DEF Leave, Core
<1>2. core'.maintenance => core'.mode = "safe-stop"
  BY DEF IInv, Follow, Output
<1>3. /\ core.mode \in RealOutput => Watched /\ ~Simulation
      /\ core.mode = "M0" => Simulation
      /\ core.told # core.mode => ~core.healthy /\ Rank(core.told) > Rank(core.mode)
  BY DEF MInv, ModeIsTrue, ModeStaysEarned, ControlTellsTheMode, Watched
<1>4. core.mode \in Mode
  BY DEF MInv, IInv, TypeOK, Core
<1>5. CASE /\ t.mode = core.mode /\ t.told = core.told
           /\ t.mode = "M2" <=> t.timer
           /\ t.mode = "M3" => t.moderation
  <2>1. ModeStaysEarned'
    BY <1>1, <1>2, <1>3, <1>5 DEF ModeStaysEarned, Watched
  <2>2. ControlTellsTheMode'
    BY <1>1, <1>3, <1>5 DEF ControlTellsTheMode
  <2> QED
    BY <1>1, <1>4, <1>5, <2>1, <2>2, RankFacts DEF Lowered, Output
<1>6. CASE Sinks(core, t)
  <2>1. /\ core'.mode \in {"safe-stop", "M1"} /\ Rank(core'.mode) < Rank(core.mode)
        /\ core'.timer = FALSE
        /\ core'.told # core'.mode => ~core'.healthy /\ Rank(core'.told) > Rank(core'.mode)
        /\ core'.mode = "safe-stop" => core'.run # "none"
    BY <1>1, <1>6 DEF Sinks
  <2>2. core'.mode = "M1" => core.mode \in {"M2", "M3"}
    BY <1>4, <2>1, RankFacts
  <2>3. ModeStaysEarned'
    BY <1>2, <1>3, <2>1, <2>2 DEF ModeStaysEarned, RealOutput, Watched
  <2>4. ControlTellsTheMode'
    BY <2>1 DEF ControlTellsTheMode
  <2> QED
    BY <1>4, <2>1, <2>3, <2>4, RankFacts DEF Lowered, Mode
<1> QED
  BY <1>5, <1>6

\* s is what the core keeps, as far as the mode depends on it.
Like(s) ==
    /\ s \in Core
    /\ s.mode = core.mode /\ s.timer = core.timer /\ s.told = core.told
    /\ s.moderation = core.moderation /\ s.healthy = core.healthy

\* As a method begins, the core is as it was.
LEMMA EnterIsLike == ASSUME MInv, NEW fuse \in 0..MaxFuse PROVE Like(Enter(fuse))
  BY DEF MInv, IInv, TypeOK, Enter, Core, Like

\* A method that does no more than to write, to stop or to downgrade.
LEMMA FallsLowers ==
    ASSUME MInv, IInv', NEW s, Like(s), NEW t, Falls(s, t), Leave(t),
           core'.mode \in RealOutput /\ Watched => Watched'
    PROVE  Lowered
<1>1. t \in Core /\ (t.healthy => core.healthy)
  BY DEF Falls, Like
<1>2. (core.mode = "M2" <=> core.timer) /\ (core.mode = "M3" => core.moderation)
  BY DEF MInv, ModeIsTrue, ModeStaysEarned
<1>3. CASE Stays(s, t)
  BY <1>1, <1>2, <1>3, LeaveLowers DEF Stays, Falls, Like
<1>4. CASE Sinks(s, t)
  <2>1. Sinks(core, t)
    BY <1>4 DEF Sinks, Like
  <2> QED
    BY <1>1, <2>1, LeaveLowers
<1> QED
  BY <1>3, <1>4 DEF Falls

\* The presence of the operator, confirmed or not, and its timer.
LEMMA PresenceLowers ==
    ASSUME MInv, IInv', NEW fuse \in 0..MaxFuse, ConfirmPresence(fuse) \/ PresenceTimer(fuse)
    PROVE  Lowered
<1>1. Like(Enter(fuse))
  BY EnterIsLike
<1>2. CASE ConfirmPresence(fuse)
  <2> DEFINE u == [Enter(fuse) EXCEPT !.presence = TRUE]
             w == Written(u)
             t == WatchPresence(w)
  <2>1. Leave(t) /\ (Watched => Watched')
    BY <1>2 DEF ConfirmPresence, Quietly, around, Watched
  <2>2. Like(u)
    BY <1>1 DEF Like, Core
  <2> HIDE DEF u
  <2>3. Falls(u, w)
    BY <2>2, WrittenMoves DEF Like
  <2> HIDE DEF w
  <2>4. /\ t \in Core /\ t.mode = w.mode /\ t.told = w.told /\ t.timer = (w.mode = "M2")
        /\ t.moderation = w.moderation /\ t.healthy = w.healthy /\ t.run = w.run
    BY <2>3 DEF WatchPresence, Falls, Core
  <2> HIDE DEF t
  <2>5. t.healthy => core.healthy
    BY <2>2, <2>3, <2>4 DEF Falls, Like
  <2>6. CASE Stays(u, w)
    <3>1. core.mode = "M3" => core.moderation
      BY DEF MInv, ModeIsTrue, ModeStaysEarned
    <3>2. /\ t.mode = core.mode /\ t.told = core.told /\ (t.mode = "M2" <=> t.timer)
          /\ t.mode = "M3" => t.moderation
      BY <2>2, <2>3, <2>4, <2>6, <3>1 DEF Falls, Stays, Like
    <3> QED
      BY <2>1, <2>4, <2>5, <3>2, LeaveLowers
  <2>7. CASE Sinks(u, w)
    <3>1. Sinks(core, t)
      BY <2>2, <2>4, <2>7 DEF Sinks, Like
    <3> QED
      BY <2>1, <2>4, <2>5, <3>1, LeaveLowers
  <2> QED
    BY <2>3, <2>6, <2>7 DEF Falls
<1>3. CASE PresenceTimer(fuse)
  <2> DEFINE u == [Enter(fuse) EXCEPT !.timer = FALSE]
             d == Downgrade(u, Written)
             t == WatchPresence(u)
  <2>1. Leave(IF u.mode = "M2" /\ ~u.presence THEN d ELSE t) /\ (Watched => Watched')
    BY <1>3 DEF PresenceTimer, Quietly, around, Watched
  <2>2. /\ u \in Core /\ u.mode = core.mode /\ u.told = core.told
        /\ u.moderation = core.moderation /\ u.healthy = core.healthy
    BY <1>1 DEF Like, Core
  <2> HIDE DEF u
  <2>3. CASE u.mode = "M2" /\ ~u.presence
    <3>1. Falls(u, d) /\ Sinks(u, d)
      BY <2>2, <2>3, DowngradeFalls DEF Output
    <3> HIDE DEF d
    <3>2. d \in Core /\ Sinks(core, d) /\ (d.healthy => core.healthy) /\ Leave(d)
      BY <2>1, <2>2, <2>3, <3>1 DEF Falls, Sinks
    <3> QED
      BY <2>1, <3>2, LeaveLowers
  <2>4. CASE ~(u.mode = "M2" /\ ~u.presence)
    <3>1. /\ t \in Core /\ t.mode = core.mode /\ t.told = core.told
          /\ t.mode = "M2" <=> t.timer
          /\ t.moderation = core.moderation /\ t.healthy = core.healthy
      BY <2>2 DEF WatchPresence, Core
    <3> HIDE DEF t, d
    <3>2. Leave(t)
      BY <2>1, <2>4
    <3>3. core.mode = "M3" => core.moderation
      BY DEF MInv, ModeIsTrue, ModeStaysEarned
    <3> QED
      BY <2>1, <3>1, <3>2, <3>3, LeaveLowers
  <2> QED
    BY <2>3, <2>4
<1> QED
  BY <1>2, <1>3

\* Plugins: the fact first, then the rule.
LEMMA FactsLower ==
    ASSUME MInv, IInv', NEW fuse \in 0..MaxFuse,
           RequestDowngrade(fuse) \/ \E on \in BOOLEAN : SetModeration(on, fuse)
    PROVE  Lowered
<1>1. Like(Enter(fuse))
  BY EnterIsLike
<1>2. CASE RequestDowngrade(fuse)
  <2> DEFINE s == Written(Enter(fuse))
             d == Downgrade(s, Written)
  <2>1. Leave(d) /\ (Watched => Watched')
    BY <1>2 DEF RequestDowngrade, Quietly, around, Watched
  <2>2. Falls(Enter(fuse), s)
    BY <1>1, WrittenMoves DEF Like
  <2> HIDE DEF s
  <2>3. Falls(s, d)
    BY <2>2, DowngradeFalls DEF Falls
  <2> HIDE DEF d
  <2>4. Falls(Enter(fuse), d)
    BY <1>1, <2>2, <2>3, FallsOn DEF Like
  <2> QED
    BY <1>1, <2>1, <2>4, FallsLowers
<1>3. ASSUME NEW on \in BOOLEAN, SetModeration(on, fuse)
      PROVE  Lowered
  <2> DEFINE u == [Enter(fuse) EXCEPT !.moderation = on]
             s == Written(u)
             d == Downgrade(s, Written)
  <2>1. Leave(IF ~on /\ s.mode = "M3" THEN d ELSE s) /\ (Watched => Watched')
    BY <1>3 DEF SetModeration, Quietly, around, Watched
  <2>2. /\ u \in Core /\ u.mode = core.mode /\ u.timer = core.timer /\ u.told = core.told
        /\ u.moderation = on /\ u.healthy = core.healthy
    BY <1>1 DEF Like, Core
  <2> HIDE DEF u
  <2>3. Falls(u, s)
    BY <2>2, WrittenMoves
  <2> HIDE DEF s
  <2>4. s \in Core /\ (s.healthy => core.healthy) /\ s.moderation = on
    BY <2>2, <2>3 DEF Falls
  <2>5. CASE ~on /\ s.mode = "M3"
    <3>1. Falls(s, d) /\ Sinks(s, d)
      BY <2>4, <2>5, DowngradeFalls DEF Output
    <3> HIDE DEF d
    <3>2. s.mode = core.mode
      BY <2>2, <2>3, <2>5 DEF Falls, Stays, Sinks
    <3>3. d \in Core /\ Sinks(core, d) /\ (d.healthy => core.healthy) /\ Leave(d)
      BY <2>1, <2>4, <2>5, <3>1, <3>2 DEF Falls, Sinks
    <3> QED
      BY <2>1, <3>3, LeaveLowers
  <2>6. CASE ~(~on /\ s.mode = "M3")
    <3>1. Leave(s)
      <4> HIDE DEF d
      <4> QED BY <2>1, <2>6
    <3>2. core.mode = "M2" <=> core.timer
      BY DEF MInv, ModeIsTrue, ModeStaysEarned
    <3>3. \/ Sinks(core, s)
          \/ /\ s.mode = core.mode /\ s.told = core.told
             /\ s.mode = "M2" <=> s.timer
             /\ s.mode = "M3" => s.moderation
      <4>1. CASE Stays(u, s)
        BY <2>2, <2>4, <2>6, <3>2, <4>1 DEF Stays
      <4>2. CASE Sinks(u, s)
        BY <2>2, <4>2 DEF Sinks
      <4> QED
        BY <2>3, <4>1, <4>2 DEF Falls
    <3> QED
      BY <2>1, <2>4, <3>1, <3>3, LeaveLowers
  <2> QED
    BY <2>5, <2>6
<1> QED
  BY <1>2, <1>3

\* Maintenance begins in safe-stop, and ends.
LEMMA MaintenanceLowers ==
    ASSUME MInv, IInv', NEW fuse \in 0..MaxFuse, EnterMaintenance(fuse) \/ ExitMaintenance(fuse)
    PROVE  Lowered
<1>1. Like(Enter(fuse))
  BY EnterIsLike
<1> DEFINE revoked == RevokeAll(Enter(fuse), Written)
<1>2. Falls(Enter(fuse), revoked)
  BY <1>1, RevokeAllMoves DEF Like
<1>3. ASSUME NEW s, Falls(Enter(fuse), s), NEW on \in BOOLEAN,
             Leave(Written([s EXCEPT !.maintenance = on])), Watched => Watched'
      PROVE  Lowered
  <2> DEFINE u == [s EXCEPT !.maintenance = on]
             w == Written(u)
  <2>1. /\ u \in Core /\ u.mode = s.mode /\ u.timer = s.timer /\ u.told = s.told
        /\ u.moderation = s.moderation /\ u.presence = s.presence
        /\ u.healthy = s.healthy /\ u.run = s.run
    BY <1>3 DEF Falls, Core
  <2>2. Leave(w)
    BY <1>3
  <2>3. Falls(Enter(fuse), u)
    BY <1>3, <2>1 DEF Falls, Stays, Sinks
  <2> HIDE DEF u
  <2>4. Falls(u, w)
    BY <2>1, WrittenMoves
  <2> HIDE DEF w
  <2>5. Falls(Enter(fuse), w)
    BY <1>1, <2>3, <2>4, FallsOn DEF Like
  <2> QED
    BY <1>1, <1>3, <2>2, <2>5, FallsLowers
<1>4. Falls(Enter(fuse), Enter(fuse))
  BY <1>1 DEF Like, Falls, Stays
<1>5. CASE EnterMaintenance(fuse)
  <2>1. Leave(Written([revoked EXCEPT !.maintenance = TRUE])) /\ (Watched => Watched')
    BY <1>5 DEF EnterMaintenance, Quietly, around, Watched
  <2> HIDE DEF revoked
  <2> QED
    BY <1>2, <1>3, <2>1
<1>6. CASE ExitMaintenance(fuse)
  <2>1. Leave(Written([Enter(fuse) EXCEPT !.maintenance = FALSE])) /\ (Watched => Watched')
    BY <1>6 DEF ExitMaintenance, Quietly, around, Watched
  <2> QED
    BY <1>3, <1>4, <2>1
<1> QED
  BY <1>5, <1>6

\* What plugins ask for: leases and intents.
LEMMA PluginsLower ==
    ASSUME MInv, IInv', NEW fuse \in 0..MaxFuse, Plugins(fuse)
    PROVE  Lowered
<1> DEFINE s == Enter(fuse)
           w == Written(s)
           d == Downgrade(s, Written)
<1>1. Like(s)
  BY EnterIsLike
<1>2. Watched => Watched'
  BY DEF Plugins, Grant, Release, RevokeHolder, Revoke, Submit, Guarded, Authorized, Quietly, around, Watched
<1>3. Falls(s, s) /\ Falls(s, w) /\ Falls(s, d)
  BY <1>1, WrittenMoves, DowngradeFalls DEF Like, Falls, Stays
<1>4. Falls(s, Written(d))
  <2> HIDE DEF s, d
  <2>1. Falls(d, Written(d))
    BY <1>3, WrittenMoves DEF Falls
  <2> QED
    BY <1>1, <1>3, <2>1, FallsOn DEF Like
<1>5. ASSUME NEW h \in Holder, NEW r \in Resource, Grant(h, r, fuse)
      PROVE  Lowered
  <2> DEFINE g == [w EXCEPT !.held[r] = h]
  <2>1. Leave(IF w.healthy THEN g ELSE w)
    BY <1>5 DEF Grant
  <2> HIDE DEF s, w
  <2>2. Falls(s, g)
    BY <1>3 DEF Falls, Stays, Sinks, Core
  <2> HIDE DEF g
  <2>3. Leave(g) \/ Leave(w)
    BY <2>1
  <2> QED
    BY <1>1, <1>2, <1>3, <2>2, <2>3, FallsLowers
<1>6. ASSUME NEW R, Revoke(R, fuse)
      PROVE  Lowered
  <2> DEFINE u == [s EXCEPT !.held = [r \in Resource |-> IF r \in R THEN None ELSE s.held[r]]]
             v == Written(u)
  <2>1. Leave(v)
    BY <1>6 DEF Revoke
  <2>2. Like(u)
    <3> HIDE DEF s
    <3> QED
      BY <1>1 DEF Like, Core
  <2> HIDE DEF u
  <2>3. Falls(u, v)
    BY <2>2, WrittenMoves DEF Like
  <2> HIDE DEF v
  <2> QED
    BY <1>2, <2>1, <2>2, <2>3, FallsLowers
<1>7. ASSUME NEW i \in Intent, Submit(i, fuse) \/ Guarded(i, fuse) \/ Authorized(i, fuse)
      PROVE  Lowered
  <2>1. Leave(s) \/ Leave(w) \/ Leave(Written(d))
    BY <1>7 DEF Submit, Guarded, Authorized
  <2> HIDE DEF s, w, d
  <2> QED
    BY <1>1, <1>2, <1>3, <1>4, <2>1, FallsLowers
<1> QED
  BY <1>5, <1>6, <1>7 DEF Plugins, Release, RevokeHolder

\* The host, the watchdog and OBS around the core.
LEMMA AroundLowers ==
    ASSUME MInv, IInv', NEW fuse \in 0..MaxFuse, Around(fuse) \/ Obs(fuse)
    PROVE  Lowered
<1> DEFINE s == Enter(fuse)
           w == Written(s)
           e == [s EXCEPT !.run = "none"]
<1>1. Like(s) /\ Like(e)
  <2>1. Like(s)
    BY EnterIsLike
  <2> HIDE DEF s
  <2> QED
    BY <2>1 DEF Like, Core
<1>2. Falls(s, s) /\ Falls(s, w) /\ Falls(s, Stop(s)) /\ Falls(e, Written(e))
  <2> HIDE DEF e
  <2> QED
    BY <1>1, WrittenMoves, StopMoves DEF Like, Falls, Stays
<1>3. Falls(s, Stop(w))
  <2> HIDE DEF s, w
  <2>1. Falls(w, Stop(w))
    BY <1>2, StopMoves DEF Falls
  <2> QED
    BY <1>1, <1>2, <2>1, FallsOn DEF Like
<1>4. CASE WatchdogLeaves(fuse)
  <2>1. /\ Leave(IF ~stopping /\ s.mode \in RealOutput THEN Stop(s) ELSE s)
        /\ stopping' = stopping
    BY <1>4 DEF WatchdogLeaves
  <2> HIDE DEF s
  <2>2. CASE ~stopping /\ s.mode \in RealOutput
    <3>1. Leave(Stop(s)) /\ Stop(s).mode = "safe-stop" /\ Stop(s) \in Core
      BY <1>1, <2>1, <2>2, StopMoves DEF Like, Falls
    <3>2. core'.mode \notin RealOutput
      BY <3>1 DEF Leave, Core, RealOutput
    <3> QED
      BY <1>1, <1>2, <3>1, <3>2, FallsLowers
  <2>3. CASE stopping \/ s.mode \notin RealOutput
    <3>1. Leave(s)
      BY <2>1, <2>3
    <3>2. core'.mode = s.mode
      BY <1>1, <3>1 DEF Leave, Core, Like
    <3>3. core'.mode \in RealOutput /\ Watched => Watched'
      BY <2>1, <2>3, <3>2 DEF Watched
    <3> QED
      BY <1>1, <1>2, <3>1, <3>3, FallsLowers
  <2> QED
    BY <2>2, <2>3
<1>5. CASE Obs(fuse) \/ (Around(fuse) /\ ~WatchdogLeaves(fuse))
  <2>1. Watched => Watched'
    BY <1>5
    DEF Around, Obs, CriticalPluginLeaves, QuiesceTimedOut, HostStops, WatchdogActed, RunEnds,
        Notice, Resynced, Quietly, around, Watched
  <2>2. Leave(s) \/ Leave(w) \/ Leave(Written(e)) \/ Leave(Stop(s)) \/ Leave(Stop(w))
    <3>1. CASE Obs(fuse)
      BY <3>1 DEF Obs, RunEnds, Notice, Resynced, ObsChange
    <3>2. CASE Around(fuse) /\ ~WatchdogLeaves(fuse)
      BY <3>2 DEF Around, CriticalPluginLeaves, QuiesceTimedOut, HostStops, WatchdogActed
    <3> QED
      BY <1>5, <3>1, <3>2
  <2> HIDE DEF s, w, e
  <2> QED
    BY <1>1, <1>2, <1>3, <2>1, <2>2, FallsLowers
<1> QED
  BY <1>4, <1>5

\* The store fails, and what does not go through a method of the core.
LEMMA OthersLower ==
    ASSUME MInv, IInv',
           \/ StoreFault \/ PresenceLapses \/ (\E r \in Resource : Expire(r))
           \/ WatchdogConnects
           \/ RunActs \/ Hotkey \/ BackLive \/ LinkLost \/ LinkBack \/ ResyncFails
           \/ UNCHANGED vars
    PROVE  Lowered
<1>1. CASE StoreFault
  <2> DEFINE s == Enter(1)
  <2>1. 1 \in 0..MaxFuse
    BY SafetyAssumption
  <2>2. Like(s)
    BY <2>1, EnterIsLike
  <2>3. Leave(Written(s)) /\ (Watched => Watched')
    BY <1>1 DEF StoreFault, Quietly, around, Watched
  <2> HIDE DEF s
  <2>4. Falls(s, Written(s))
    BY <2>2, WrittenMoves DEF Like
  <2> QED
    BY <2>2, <2>3, <2>4, FallsLowers
<1>2. CASE ~StoreFault
  <2>1. core \in Core
    BY DEF MInv, IInv, TypeOK
  <2>2. \/ core' = core
        \/ core' = [core EXCEPT !.presence = FALSE]
        \/ \E r \in Resource : core' = [core EXCEPT !.held[r] = None]
        \/ core.run = "sent" /\ core' = [core EXCEPT !.run = "acted"]
    BY <1>2
    DEF PresenceLapses, Expire, WatchdogConnects, RunActs, Hotkey, BackLive, LinkLost,
        LinkBack, ResyncFails, vars
  <2>3. /\ core'.mode = core.mode /\ core'.told = core.told /\ core'.timer = core.timer
        /\ core'.moderation = core.moderation /\ core'.healthy = core.healthy
        /\ core'.maintenance = core.maintenance
    BY <2>1, <2>2 DEF Core
  <2>4. Watched => Watched'
    BY <1>2
    DEF PresenceLapses, Expire, WatchdogConnects, RunActs, Hotkey, BackLive, LinkLost,
        LinkBack, ResyncFails, vars, Quietly, around, Watched
  <2>5. ModeStaysEarned' /\ ControlTellsTheMode'
    BY <2>3, <2>4 DEF MInv, ModeIsTrue, ModeStaysEarned, ControlTellsTheMode, Watched
  <2>6. core.mode \in Mode
    BY <2>1 DEF Core
  <2> QED
    BY <2>3, <2>5, <2>6, RankFacts DEF Lowered, Output
<1> QED
  BY <1>1, <1>2

\* A request for a mode: it is refused, a stop, or a change of mode that is earned, and a
\* rise of the mode is one whose conditions hold.
LEMMA RequestModeEarns ==
    ASSUME MInv, IInv', NEW fuse \in 0..MaxFuse, NEW to \in Mode, RequestMode(to, fuse)
    PROVE  /\ ModeStaysEarned' /\ ControlTellsTheMode'
           /\ Output(core) /\ core'.mode = "safe-stop" => core'.run # "none"
           /\ Rank(core'.mode) > Rank(core.mode) =>
                 /\ core.healthy /\ link = "up" /\ ~core.maintenance
                 /\ to # "M0" => watchdog
                 /\ to = "M2" => core.presence
<1> DEFINE s == Enter(fuse)
           t == SetMode(s, to, Written)
<1>1. Like(s) /\ s.maintenance = core.maintenance /\ s.presence = core.presence
  BY EnterIsLike DEF MInv, IInv, TypeOK, Enter, Core
<1>2. Watched => Watched'
  BY DEF RequestMode, Quietly, around, Watched
<1>3. core.mode \in Mode
  BY DEF MInv, IInv, TypeOK, Core
<1>4. ASSUME Lowered
      PROVE  /\ ModeStaysEarned' /\ ControlTellsTheMode'
             /\ Output(core) /\ core'.mode = "safe-stop" => core'.run # "none"
             /\ ~(Rank(core'.mode) > Rank(core.mode))
  <2>1. core'.mode \in Mode
    BY DEF IInv, TypeOK, Core
  <2>2. Rank(core'.mode) \in 0 .. 4 /\ Rank(core.mode) \in 0 .. 4
    BY <1>3, <2>1, RankFacts
  <2> QED
    BY <1>4, <2>2 DEF Lowered
<1>5. CASE ~MayRequest(s, to)
  <2>1. Leave(Written(s))
    BY <1>5 DEF RequestMode
  <2> HIDE DEF s
  <2>2. Falls(s, Written(s))
    BY <1>1, WrittenMoves DEF Like
  <2>3. Lowered
    BY <1>1, <1>2, <2>1, <2>2, FallsLowers
  <2> QED
    BY <1>4, <2>3
<1>6. CASE MayRequest(s, to) /\ to = "safe-stop"
  <2>1. Leave(Stop(s))
    BY <1>6 DEF RequestMode
  <2> HIDE DEF s
  <2>2. Falls(s, Stop(s))
    BY <1>1, StopMoves DEF Like
  <2>3. Lowered
    BY <1>1, <1>2, <2>1, <2>2, FallsLowers
  <2> QED
    BY <1>4, <2>3
<1>7. CASE MayRequest(s, to) /\ to # "safe-stop"
  <2>1. Leave(t)
    BY <1>7 DEF RequestMode
  <2> HIDE DEF s
  <2>2. /\ t \in Core /\ t.told = to /\ t.timer = (t.mode = "M2")
        /\ t.moderation = s.moderation
        /\ \/ t.mode = to
           \/ /\ t.mode \in {"safe-stop", "M1"} /\ Rank(t.mode) < Rank(to)
              /\ ~t.healthy
              /\ t.mode = "safe-stop" => t.run # "none"
    BY <1>1, SetModeArrives DEF Like
  <2> HIDE DEF t
  <2>3. /\ core'.mode = t.mode /\ core'.timer = t.timer /\ core'.told = t.told
        /\ core'.moderation = t.moderation /\ core'.healthy = t.healthy /\ core'.run = t.run
    BY <2>1, <2>2 DEF Leave, Core
  <2>4. core'.maintenance => core'.mode = "safe-stop"
    BY DEF IInv, Follow, Output
  <2>5. /\ core.mode \in RealOutput => Watched
        /\ s.mode = core.mode /\ s.moderation = core.moderation /\ s.healthy = core.healthy
    BY <1>1 DEF MInv, ModeIsTrue, ModeStaysEarned, Like, Watched
  <2>6. /\ Simulation <=> to = "M0"
        /\ Rank(to) >= Rank(core.mode) =>
              /\ ~core.maintenance /\ core.healthy /\ link = "up"
              /\ to # "M0" => watchdog
              /\ to = "M2" => core.presence
              /\ to = "M3" => core.moderation
    BY <1>1, <1>7, <2>5 DEF MayRequest, MayUpgrade
  <2>7. to \in RealOutput => Watched /\ ~Simulation
    <3>1. SUFFICES ASSUME to \in RealOutput, ~(Rank(to) >= Rank(core.mode))
                   PROVE  core.mode \in RealOutput
      BY <2>5, <2>6 DEF RealOutput, Watched
    <3> QED
      BY <1>3, <3>1 DEF Rank, Mode, RealOutput
  <2>8. to = "M3" => core.moderation
    BY <1>3, <2>6 DEF Rank, Mode
  <2>9. t.mode = "M1" /\ t.mode # to => to \in RealOutput
    BY <2>2, RankFacts DEF RealOutput
  <2>10. ModeStaysEarned'
    <3>1. t.mode \in RealOutput => Watched /\ ~Simulation
      BY <2>2, <2>7, <2>9 DEF RealOutput
    <3>2. t.mode = "M0" => Simulation
      BY <2>2, <2>6
    <3>3. t.mode = "M3" => t.moderation
      BY <2>2, <2>5, <2>8
    <3>4. t.mode = "M2" <=> t.timer
      BY <2>2
    <3> QED
      BY <1>2, <2>3, <2>4, <3>1, <3>2, <3>3, <3>4 DEF ModeStaysEarned, Watched
  <2>11. ControlTellsTheMode'
    <3>1. t.told # t.mode => ~t.healthy /\ Rank(t.told) > Rank(t.mode)
      <4>1. Rank(to) \in 0 .. 4 /\ t.mode \in Mode
        BY <2>2, RankFacts DEF Core
      <4>2. Rank(t.mode) \in 0 .. 4
        BY <4>1, RankFacts
      <4> QED
        BY <2>2, <4>1, <4>2
    <3> QED
      BY <2>3, <3>1 DEF ControlTellsTheMode
  <2>12. core'.mode = "safe-stop" => core'.run # "none"
    BY <1>7, <2>2, <2>3
  <2>13. Rank(core'.mode) > Rank(core.mode) => Rank(to) >= Rank(core.mode)
    <3>1. t.mode \in Mode
      BY <2>2 DEF Core
    <3>2. /\ Rank(t.mode) \in 0 .. 4 /\ Rank(core.mode) \in 0 .. 4 /\ Rank(to) \in 0 .. 4
      BY <1>3, <3>1, RankFacts
    <3> QED
      BY <2>2, <2>3, <3>2
  <2> QED
    BY <2>6, <2>10, <2>11, <2>12, <2>13
<1> QED
  BY <1>5, <1>6, <1>7

\* A step is a request for a mode, or it raises nothing.
LEMMA StepMoves ==
    ASSUME MInv, [Next]_vars
    PROVE  /\ IInv'
           /\ \/ Lowered
              \/ \E fuse \in Fuse, to \in Mode : RequestMode(to, fuse)
<1>1. IInv'
  BY Preserved DEF MInv
<1>2. ASSUME NEW fuse \in Fuse,
             Supervision(fuse) \/ Plugins(fuse) \/ Around(fuse) \/ Obs(fuse)
      PROVE  Lowered \/ \E to \in Mode : RequestMode(to, fuse)
  BY <1>1, <1>2, FuseBound, PresenceLowers, FactsLower, MaintenanceLowers, PluginsLower,
     AroundLowers
  DEF Supervision
<1> QED
  BY <1>1, <1>2, OthersLower DEF Next

\* The mode's invariant is inductive with the one on leases.
LEMMA ModeInvariant == Spec => []MInv
<1>1. Init => MInv
  <2> SUFFICES ASSUME Init PROVE MInv
    OBVIOUS
  <2>1. ModeStaysEarned /\ ControlTellsTheMode
    BY DEF Init, ModeStaysEarned, ControlTellsTheMode, RealOutput
  <2> QED
    BY <2>1, Initially DEF MInv, ModeIsTrue
<1>2. MInv /\ [Next]_vars => MInv'
  <2> SUFFICES ASSUME MInv, [Next]_vars PROVE MInv'
    OBVIOUS
  <2>1. IInv'
    BY StepMoves
  <2>2. CASE Lowered
    BY <2>1, <2>2 DEF Lowered, MInv, ModeIsTrue
  <2>3. ASSUME NEW fuse \in Fuse, NEW to \in Mode, RequestMode(to, fuse)
        PROVE  MInv'
    <3>1. ModeStaysEarned' /\ ControlTellsTheMode'
      BY <2>1, <2>3, FuseBound, RequestModeEarns
    <3> QED
      BY <2>1, <3>1 DEF MInv, ModeIsTrue
  <2> QED
    BY <2>2, <2>3, StepMoves
<1> QED
  BY <1>1, <1>2, PTL DEF Spec

\* At whichever write of whichever method the store fails: what a mode was granted for holds
\* while it lasts - real output has its watchdog, unless the host is stopping, M3 its
\* moderation, M2 its timer, simulation is M0 and nothing else - and the control channel
\* tells the mode, or, after the store failed while a higher one was being set, that one.
THEOREM TheModeIsTrue == Spec => []ModeIsTrue
<1>1. MInv => ModeIsTrue
  BY DEF MInv
<1> QED
  BY <1>1, ModeInvariant, PTL

\* The mode rises only by a request for it whose conditions hold, and reaches safe-stop only
\* with OBS asked to mute and to show the safe scene.
THEOREM TheModeMovesSafely == Spec => ModeMovesSafely
<1>1. MInv /\ [Next]_vars =>
        [Rank(core'.mode) > Rank(core.mode)
           => \E fuse \in Fuse, to \in Mode :
                 RequestMode(to, fuse) /\ core.healthy /\ link = "up" /\ ~core.maintenance
                 /\ (to # "M0" => watchdog) /\ (to = "M2" => core.presence)]_vars
  <2> SUFFICES ASSUME MInv, [Next]_vars, Rank(core'.mode) > Rank(core.mode)
               PROVE  \E fuse \in Fuse, to \in Mode :
                         RequestMode(to, fuse) /\ core.healthy /\ link = "up"
                         /\ ~core.maintenance
                         /\ (to # "M0" => watchdog) /\ (to = "M2" => core.presence)
    OBVIOUS
  <2>1. IInv'
    BY StepMoves
  <2>2. core.mode \in Mode /\ core'.mode \in Mode
    BY <2>1 DEF MInv, IInv, TypeOK, Core
  <2>3. Rank(core.mode) \in 0 .. 4 /\ Rank(core'.mode) \in 0 .. 4
    BY <2>2, RankFacts
  <2>4. ~Lowered
    BY <2>3 DEF Lowered
  <2>5. PICK fuse \in Fuse, to \in Mode : RequestMode(to, fuse)
    BY <2>4, StepMoves
  <2>6. /\ core.healthy /\ link = "up" /\ ~core.maintenance
        /\ to # "M0" => watchdog
        /\ to = "M2" => core.presence
    BY <2>1, <2>5, FuseBound, RequestModeEarns
  <2> QED
    BY <2>5, <2>6
<1>2. MInv /\ [Next]_vars =>
        [Output(core) /\ core'.mode = "safe-stop" => core'.run # "none"]_vars
  <2> SUFFICES ASSUME MInv, [Next]_vars, Output(core), core'.mode = "safe-stop"
               PROVE  core'.run # "none"
    OBVIOUS
  <2>1. CASE Lowered
    BY <2>1 DEF Lowered
  <2>2. ASSUME NEW fuse \in Fuse, NEW to \in Mode, RequestMode(to, fuse)
        PROVE  core'.run # "none"
    BY <2>2, FuseBound, StepMoves, RequestModeEarns
  <2> QED
    BY <2>1, <2>2, StepMoves
<1>3. Spec => OnlyRequestsUpgrade
  BY <1>1, ModeInvariant, PTL DEF Spec, OnlyRequestsUpgrade
<1>4. Spec => StopsAreSentToObs
  BY <1>2, ModeInvariant, PTL DEF Spec, StopsAreSentToObs
<1> QED
  BY <1>3, <1>4, PTL DEF ModeMovesSafely
=============================================================================
