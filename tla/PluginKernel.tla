------------------------------ MODULE PluginKernel ------------------------------
(***************************************************************************)
(* The plugin kernel (packages/kernel, kernel.ts): entries of a profile,   *)
(* each running at most one instance of a plugin, and the services these   *)
(* register.                                                               *)
(*                                                                         *)
(* One lock serialises the jobs that change anything: passes of the        *)
(* reconcile loop, hot replacements, the shutdown.  A job is suspended     *)
(* whenever it waits for a plugin; meanwhile the operator may call the     *)
(* kernel, instances may report a failure and retry timers may fire.       *)
(* An action here is what runs between two such waits.                     *)
(*                                                                         *)
(* Every wait has a deadline, so it ends well or as a failure.  How long   *)
(* an instance has been active (stableAfterMs) is left open.               *)
(***************************************************************************)
EXTENDS Naturals, Sequences, FiniteSetsExt

CONSTANTS
    Plugin,      \* plugin definitions
    Service,     \* names of services
    Provides,    \* [Plugin -> SUBSET Service], of the manifests
    Needs,       \* [Plugin -> SUBSET Service]: inject, without the optional ones
    Profile,     \* the plugin of each entry, in the order of the profile
    Versions,    \* the plugins each entry may be replaced by
    Off,         \* the entries the profile disables
    BadConfig,   \* entries whose configuration does not fit the schema
    Retries,     \* retryDelaysMs.length
    None,
    MaxSwitches, \* bound on the calls of enable and disable
    MaxRepairs,  \* bound on the calls of retry and replace
    MaxFaults    \* bound on what goes wrong

ASSUME PluginKernelAssumption ==
    /\ Provides \in [Plugin -> SUBSET Service]
    /\ Needs \in [Plugin -> SUBSET Service]
    /\ Profile \in Seq(Plugin)
    /\ Versions \in [1..Len(Profile) -> SUBSET Plugin]
    /\ Off \subseteq 1..Len(Profile) /\ BadConfig \subseteq 1..Len(Profile)
    /\ Retries \in Nat
    /\ MaxSwitches \in Nat /\ MaxRepairs \in Nat /\ MaxFaults \in Nat

VARIABLES
    entry,      \* Kernel.#entries
    services,   \* ServiceRegistry.#services: the entry that provides each
    job,        \* what holds the lock
    stack,      \* the calls of #unload under way, the innermost first
    queue,      \* the jobs behind it, in order
    loop,       \* #loop: the reconcile loop runs
    dirty,      \* #dirty
    closing,    \* "no", "closed" (#closed), "done" (shutdown has returned)
    restarts,   \* retries by timer since the count was last cleared
    switches, repairs, faults

vars == <<entry, services, job, stack, queue, loop, dirty, closing, restarts,
          switches, repairs, faults>>
bounds == <<switches, repairs, faults>>

Entry == 1..Len(Profile)

State == {"waiting", "loading", "active", "quiescing", "unloading", "disposed", "failed"}

Instance == [
    lost : BOOLEAN,      \* it has called ctx.fail
    closed : BOOLEAN,
    forced : BOOLEAN,    \* the safety core was told that it did not stop properly
    revoked : BOOLEAN ]  \* its execution leases are

ASSUME NoneAssumption == None \notin Instance \cup Entry

Job ==
    [kind : {"idle"}]
      \cup [kind : {"pass"}, phase : {"stop", "load", "loading"}, at : Nat, lost : BOOLEAN]
      \cup [kind : {"replace"}, entry : Entry, plugin : Plugin,
            phase : {"activating", "swap"}, lost : BOOLEAN]
      \cup [kind : {"shutdown"}, at : Nat]

Request == [kind : {"pass"}] \cup [kind : {"replace"}, entry : Entry, plugin : Plugin]

Frame == [entry : Entry, target : {"waiting", "disposed", "failed"},
          step : {"consumers", "revoke", "quiesce", "dispose", "disposers"}]

TypeOK ==
    /\ entry \in [Entry -> [
            plugin : Plugin,
            misconfigured : BOOLEAN,
            enabled : BOOLEAN,
            state : State,
            inst : Instance \cup {None},
            attempts : 0..Retries + 1,
            retry : BOOLEAN,                          \* a timer is armed
            failure : BOOLEAN ]]                      \* one is reported, not taken up yet
    /\ services \in [Service -> Entry \cup {None}]
    /\ job \in Job /\ stack \in Seq(Frame) /\ queue \in Seq(Request)
    /\ loop \in BOOLEAN /\ dirty \in BOOLEAN
    /\ closing \in {"no", "closed", "done"}
    /\ restarts \in [Entry -> Nat]
    /\ switches \in 0..MaxSwitches /\ repairs \in 0..MaxRepairs /\ faults \in 0..MaxFaults

NoJob == [kind |-> "idle"]

\* After add() with the whole profile.
Init ==
    /\ entry = [e \in Entry |->
          [plugin |-> Profile[e], misconfigured |-> e \in BadConfig, enabled |-> e \notin Off,
           state |-> IF e \in Off THEN "disposed" ELSE "waiting", inst |-> None, attempts |-> 0, retry |-> FALSE,
           failure |-> FALSE]]
    /\ services = [s \in Service |-> None]
    /\ job = NoJob /\ stack = <<>> /\ queue = <<[kind |-> "pass"]>>
    /\ loop = TRUE /\ dirty = FALSE
    /\ closing = "no"
    /\ restarts = [e \in Entry |-> 0]
    /\ switches = 0 /\ repairs = 0 /\ faults = 0
-----------------------------------------------------------------------------
(* Entries.                                                                *)

Registered == {s \in Service : services[s] # None}

\* No blockers: every required service is there.
Supplied(plugin) == Needs[plugin] \subseteq Registered

ProvidedBy(e) == {s \in Service : services[s] = e}

\* Mutant of Failed: the last delay is never used.
FailedOneShort(x) ==
    [x EXCEPT !.state = "failed",
              !.attempts = IF @ > Retries THEN @ ELSE @ + 1,
              !.retry = x.attempts + 1 < Retries]

\* One more failure; beyond Retries the number makes no difference.
Failed(x) ==
    [x EXCEPT !.state = "failed",
              !.attempts = IF @ > Retries THEN @ ELSE @ + 1,
              !.retry = x.attempts < Retries]

\* The operator's second chance, of retry and replace.
GivenAnother(x) == [x EXCEPT !.state = "waiting", !.attempts = 0, !.retry = FALSE]

Disposed(x) == [x EXCEPT !.state = "disposed", !.enabled = FALSE, !.retry = FALSE]

Fresh(lost) == [lost |-> lost, closed |-> FALSE, forced |-> FALSE, revoked |-> FALSE]

\* #requestReconcile: the loop, once started, asks for a pass at once.
RequestReconcile ==
    IF loop THEN dirty' = TRUE /\ UNCHANGED <<loop, queue>>
    ELSE /\ loop' = TRUE /\ dirty' = FALSE
         /\ queue' = Append(queue, [kind |-> "pass"])

NoRequest == UNCHANGED <<loop, dirty, queue>>
-----------------------------------------------------------------------------
(* #unload: quiescing, first the consumers, then the instance itself.      *)

Quiescing(x) == [x EXCEPT !.state = "quiescing", !.failure = FALSE]

\* The synchronous start of #unload, up to the search for consumers.
BeginUnload(e, target, entries) ==
    /\ entry' = [entries EXCEPT ![e] = Quiescing(@)]
    /\ stack' = <<[entry |-> e, target |-> target, step |-> "consumers"]>> \o stack

InStep(step) == stack # <<>> /\ Head(stack).step = step

Unloading == Head(stack).entry

GoTo(step) == stack' = [stack EXCEPT ![1].step = step]

\* Active entries that need what the one being unloaded provides.
Consumers(e) ==
    {c \in Entry \ {e} : entry[c].state = "active"
                         /\ Needs[entry[c].plugin] \cap ProvidedBy(e) # {}}

UnloadConsumer ==
    /\ InStep("consumers") /\ Consumers(Unloading) # {}
    /\ BeginUnload(Max(Consumers(Unloading)), "waiting", entry)
    /\ NoRequest
    /\ UNCHANGED <<services, job, closing, restarts, bounds>>

ConsumersGone ==
    /\ InStep("consumers") /\ Consumers(Unloading) = {}
    /\ GoTo("revoke")
    /\ NoRequest
    /\ UNCHANGED <<entry, services, job, closing, restarts, bounds>>

\* Mutant of Revoke: a failure is swallowed.
RevokeQuietly ==
    /\ InStep("revoke")
    /\ \E ok \in BOOLEAN :
          /\ ~ok => faults < MaxFaults
          /\ faults' = IF ok THEN faults ELSE faults + 1
          /\ entry' = [entry EXCEPT ![Unloading].inst.revoked = ok]
    /\ GoTo("quiesce")
    /\ NoRequest
    /\ UNCHANGED <<services, job, closing, restarts, switches, repairs>>

\* The leases are revoked, or the safety core is told that they are not.
Revoke ==
    /\ InStep("revoke")
    /\ \E ok \in BOOLEAN :
          /\ ~ok => faults < MaxFaults
          /\ faults' = IF ok THEN faults ELSE faults + 1
          /\ entry' = [entry EXCEPT ![Unloading].inst.revoked = ok,
                                    ![Unloading].inst.forced = @ \/ ~ok]
    /\ GoTo("quiesce")
    /\ NoRequest
    /\ UNCHANGED <<services, job, closing, restarts, switches, repairs>>

\* quiesce of the plugin ends, fails or is too late; then #dispose begins.
Quiesce ==
    /\ InStep("quiesce")
    /\ \E ok \in BOOLEAN :
          /\ ~ok => faults < MaxFaults
          /\ faults' = IF ok THEN faults ELSE faults + 1
          /\ entry' = [entry EXCEPT ![Unloading].state = "unloading",
                                    ![Unloading].inst.closed = TRUE,
                                    ![Unloading].inst.forced = @ \/ ~ok]
    /\ GoTo("dispose")
    /\ NoRequest
    /\ UNCHANGED <<services, job, closing, restarts, switches, repairs>>

\* Disposers run last in, first out; the services were registered last.
ServicesWithdrawn ==
    /\ InStep("dispose")
    /\ services' = [s \in Service |-> IF services[s] = Unloading THEN None ELSE services[s]]
    /\ GoTo("disposers")
    /\ NoRequest
    /\ UNCHANGED <<entry, job, closing, restarts, bounds>>

\* The end of #unload: stable says whether the instance was active long enough.
Unloaded(x, target, stable) ==
    LET y == [x EXCEPT !.inst = None,
                       !.attempts = IF stable THEN 0 ELSE @]
    IN IF target = "failed" THEN Failed(y) ELSE [y EXCEPT !.state = target]

DisposersDone ==
    /\ InStep("disposers")
    /\ \E stable \in BOOLEAN :
          /\ entry' = [entry EXCEPT ![Unloading] = Unloaded(@, Head(stack).target, stable)]
          /\ restarts' = [restarts EXCEPT ![Unloading] = IF stable THEN 0 ELSE @]
    /\ stack' = Tail(stack)
    /\ NoRequest
    /\ UNCHANGED <<services, job, closing, bounds>>

UnloadSteps ==
    UnloadConsumer \/ ConsumersGone \/ Revoke \/ Quiesce \/ ServicesWithdrawn \/ DisposersDone
-----------------------------------------------------------------------------
(* A pass of the loop: stop in reverse order, then load in order.          *)

Conflicts(e, plugin) == \E s \in Provides[plugin] : services[s] \notin {None, e}

\* #publish, after the instance of e that was there has withdrawn its own.
Published(e, plugin) ==
    [s \in Service |-> IF s \in Provides[plugin] THEN e ELSE services[s]]

ShouldStop(x) == x.state = "active" /\ (~x.enabled \/ x.failure \/ ~Supplied(x.plugin))

StopTarget(x) ==
    CASE ~x.enabled -> "disposed"
      [] x.enabled /\ x.failure -> "failed"
      [] OTHER -> "waiting"

ShouldLoad(x) ==
    /\ x.enabled /\ x.state \in {"disposed", "waiting"}
    /\ ~x.misconfigured /\ Supplied(x.plugin)

\* What the loading half does with an entry it does not load.
Visited(x) ==
    IF ~x.enabled
    THEN IF x.state \in {"waiting", "failed"} THEN Disposed(x) ELSE x
    ELSE IF x.state \notin {"disposed", "waiting"} THEN x
         ELSE IF x.misconfigured THEN [x EXCEPT !.state = "failed", !.attempts = Retries]
              ELSE [x EXCEPT !.state = "waiting"]

ToStop == {e \in Entry : e < job.at /\ ShouldStop(entry[e])}

StartPass ==
    /\ job = NoJob /\ queue # <<>> /\ Head(queue).kind = "pass" /\ closing = "no"
    /\ job' = [kind |-> "pass", phase |-> "stop", at |-> Len(Profile) + 1, lost |-> FALSE]
    /\ queue' = Tail(queue)
    /\ UNCHANGED <<entry, services, stack, loop, dirty, closing, restarts, bounds>>

InPass(phase) == job.kind = "pass" /\ job.phase = phase /\ stack = <<>>

PassStops ==
    /\ InPass("stop") /\ ToStop # {}
    /\ LET e == Max(ToStop)
       IN /\ BeginUnload(e, StopTarget(entry[e]), entry)
          /\ job' = [job EXCEPT !.at = e]
    /\ NoRequest
    /\ UNCHANGED <<services, closing, restarts, bounds>>

\* Nothing more to stop: the same run of the code begins to load.
Sweeping == InPass("load") \/ (InPass("stop") /\ ToStop = {})
SweepFrom == IF job.phase = "stop" THEN 0 ELSE job.at
StillToLoad == {e \in Entry : e > SweepFrom /\ ShouldLoad(entry[e])}

SweptUpTo(last) ==
    [e \in Entry |-> IF SweepFrom < e /\ e < last THEN Visited(entry[e]) ELSE entry[e]]

PassLoads ==
    /\ Sweeping /\ StillToLoad # {}
    /\ LET e == Min(StillToLoad)
       IN /\ entry' = [SweptUpTo(e) EXCEPT ![e].state = "loading"]
          /\ job' = [job EXCEPT !.phase = "loading", !.at = e, !.lost = FALSE]
    /\ NoRequest
    /\ UNCHANGED <<services, stack, closing, restarts, bounds>>

\* Mutant of PassReturns: what was requested during the pass is forgotten.
PassReturnsAnyway == loop' = FALSE /\ UNCHANGED <<queue, dirty>>

\* The loop asks for another pass if one was requested, or ends.
PassReturns ==
    IF dirty THEN /\ queue' = Append(queue, [kind |-> "pass"])
                  /\ dirty' = FALSE /\ UNCHANGED loop
    ELSE loop' = FALSE /\ UNCHANGED <<queue, dirty>>

PassEnds ==
    /\ Sweeping /\ StillToLoad = {}
    /\ entry' = SweptUpTo(Len(Profile) + 1)
    /\ job' = NoJob
    /\ PassReturns
    /\ UNCHANGED <<services, stack, closing, restarts, bounds>>

\* The plugin is activated and its services are free.
Loads ==
    /\ InPass("loading")
    /\ LET e == job.at
       IN /\ ~Conflicts(e, entry[e].plugin)
          /\ services' = Published(e, entry[e].plugin)
          /\ entry' = [entry EXCEPT ![e].state = "active", ![e].inst = Fresh(job.lost)]
    /\ job' = [job EXCEPT !.phase = "load"]
    /\ dirty' = TRUE
    /\ UNCHANGED <<stack, queue, loop, closing, restarts, bounds>>

\* The activation throws or is too late, or a service is taken.
LoadFails ==
    /\ InPass("loading")
    /\ \/ faults < MaxFaults /\ faults' = faults + 1
       \/ Conflicts(job.at, entry[job.at].plugin) /\ UNCHANGED faults
    /\ entry' = [entry EXCEPT ![job.at] = Failed(@)]
    /\ job' = [job EXCEPT !.phase = "load"]
    /\ dirty' = TRUE
    /\ UNCHANGED <<services, stack, queue, loop, closing, restarts, switches, repairs>>

\* Once the kernel is closed a pass does nothing.
SkipPass ==
    /\ job = NoJob /\ queue # <<>> /\ Head(queue).kind = "pass" /\ closing # "no"
    /\ IF dirty THEN /\ queue' = Append(Tail(queue), [kind |-> "pass"])
                     /\ dirty' = FALSE /\ UNCHANGED loop
       ELSE loop' = FALSE /\ queue' = Tail(queue) /\ UNCHANGED dirty
    /\ UNCHANGED <<entry, services, job, stack, closing, restarts, bounds>>
-----------------------------------------------------------------------------
(* replace: the new version is activated beside the old one, published     *)
(* after it.  Plugins of the critical tier are replaced in maintenance     *)
(* only; a refusal changes nothing and is left out.                        *)

StartReplaceIdle ==
    /\ job = NoJob /\ queue # <<>> /\ Head(queue).kind = "replace"
    /\ LET e == Head(queue).entry
           d == Head(queue).plugin
           \* #requestReconcile, with the request that is taken off the queue
           Request2 == IF loop THEN dirty' = TRUE /\ queue' = Tail(queue) /\ UNCHANGED loop
                       ELSE /\ loop' = TRUE /\ dirty' = FALSE
                            /\ queue' = Append(Tail(queue), [kind |-> "pass"])
       IN /\ closing = "no" /\ entry[e].state # "active"
          /\ entry' = [entry EXCEPT ![e] =
                LET x == [@ EXCEPT !.plugin = d, !.misconfigured = FALSE]
                IN IF x.state = "failed" THEN GivenAnother(x) ELSE x]
          /\ restarts' = [restarts EXCEPT ![e] = IF entry[e].state = "failed" THEN 0 ELSE @]
          /\ Request2
    /\ UNCHANGED <<services, job, stack, closing, bounds>>

StartReplace ==
    /\ job = NoJob /\ queue # <<>> /\ Head(queue).kind = "replace"
    /\ LET e == Head(queue).entry
           d == Head(queue).plugin
       IN /\ closing = "no" => entry[e].state = "active"
          /\ job' = IF closing = "no" /\ Supplied(d)
                    THEN [kind |-> "replace", entry |-> e, plugin |-> d,
                          phase |-> "activating", lost |-> FALSE]
                    ELSE NoJob
    /\ queue' = Tail(queue)
    /\ UNCHANGED <<entry, services, stack, loop, dirty, closing, restarts, bounds>>

InReplace(phase) == job.kind = "replace" /\ job.phase = phase /\ stack = <<>>

\* The old instance stays.
ReplaceFails ==
    /\ InReplace("activating") /\ faults < MaxFaults
    /\ faults' = faults + 1
    /\ job' = NoJob
    /\ NoRequest
    /\ UNCHANGED <<entry, services, stack, closing, restarts, switches, repairs>>

ReplaceUnloads ==
    /\ InReplace("activating")
    /\ BeginUnload(job.entry, "waiting", entry)
    /\ job' = [job EXCEPT !.phase = "swap"]
    /\ NoRequest
    /\ UNCHANGED <<services, closing, restarts, bounds>>

\* The staged instance is published, or dropped if a service of it is taken.
ReplaceSwaps ==
    /\ InReplace("swap")
    /\ LET e == job.entry
       IN IF Conflicts(e, job.plugin) THEN UNCHANGED <<entry, services>>
          ELSE /\ services' = Published(e, job.plugin)
               /\ entry' = [entry EXCEPT ![e].plugin = job.plugin,
                                         ![e].misconfigured = FALSE,
                                         ![e].state = "active",
                                         ![e].inst = Fresh(job.lost)]
    /\ job' = NoJob
    /\ RequestReconcile
    /\ UNCHANGED <<stack, closing, restarts, bounds>>
-----------------------------------------------------------------------------
(* shutdown: when the loop and the jobs have settled.                      *)

Close ==
    /\ closing = "no"
    /\ closing' = "closed"
    /\ NoRequest
    /\ UNCHANGED <<entry, services, job, stack, restarts, bounds>>

Settled == ~loop /\ queue = <<>> /\ job = NoJob

StartShutdown ==
    /\ closing = "closed" /\ Settled
    /\ job' = [kind |-> "shutdown", at |-> Len(Profile) + 1]
    /\ NoRequest
    /\ UNCHANGED <<entry, services, stack, closing, restarts, bounds>>

\* Entries without an instance on the way to the next that has one.
Shut(from, to) ==
    [e \in Entry |-> IF to < e /\ e < from THEN Disposed(entry[e]) ELSE entry[e]]

StillToShut == {e \in Entry : e < job.at /\ entry[e].inst # None}

ShutdownUnloads ==
    /\ job.kind = "shutdown" /\ stack = <<>> /\ StillToShut # {}
    /\ LET e == Max(StillToShut)
       IN /\ BeginUnload(e, "disposed", [Shut(job.at, e) EXCEPT ![e].enabled = FALSE,
                                                               ![e].retry = FALSE])
          /\ job' = [job EXCEPT !.at = e]
    /\ NoRequest
    /\ UNCHANGED <<services, closing, restarts, bounds>>

ShutdownEnds ==
    /\ job.kind = "shutdown" /\ stack = <<>> /\ StillToShut = {}
    /\ entry' = Shut(job.at, 0)
    /\ job' = NoJob
    /\ closing' = "done"
    /\ NoRequest
    /\ UNCHANGED <<services, stack, restarts, bounds>>
-----------------------------------------------------------------------------
(* What happens while the jobs wait.                                       *)

\* The job waits for a plugin, or there is none.  Elsewhere it goes on within
\* the same turn of the event loop: no timer fires, no message is read.
Suspended ==
    \/ stack # <<>> /\ ~InStep("consumers")
    \/ InPass("loading") \/ InReplace("activating")
    \/ job = NoJob /\ queue = <<>>

\* Calls may also be made one right after the other.
Called == closing = "no" /\ (Suspended \/ job = NoJob)

Switch == Called /\ switches < MaxSwitches /\ switches' = switches + 1
Repair == Called /\ repairs < MaxRepairs /\ repairs' = repairs + 1

Enable(e) ==
    /\ Switch /\ ~entry[e].enabled
    /\ entry' = [entry EXCEPT ![e].enabled = TRUE]
    /\ RequestReconcile
    /\ UNCHANGED <<services, job, stack, closing, restarts, repairs, faults>>

Disable(e) ==
    /\ Switch /\ entry[e].enabled
    /\ entry' = [entry EXCEPT ![e].enabled = FALSE]
    /\ RequestReconcile
    /\ UNCHANGED <<services, job, stack, closing, restarts, repairs, faults>>

Retry(e) ==
    /\ Repair /\ entry[e].state = "failed"
    /\ entry' = [entry EXCEPT ![e] = GivenAnother(@)]
    /\ restarts' = [restarts EXCEPT ![e] = 0]
    /\ RequestReconcile
    /\ UNCHANGED <<services, job, stack, closing, switches, faults>>

Replace(e, d) ==
    /\ Repair
    /\ queue' = Append(queue, [kind |-> "replace", entry |-> e, plugin |-> d])
    /\ UNCHANGED <<entry, services, job, stack, loop, dirty, closing, restarts, switches, faults>>

\* The timer of #fail.  The count is left as it is.
RetryFires(e) ==
    /\ Suspended /\ entry[e].retry
    /\ IF entry[e].state = "failed" /\ entry[e].enabled
       THEN /\ entry' = [entry EXCEPT ![e].retry = FALSE, ![e].state = "waiting"]
            /\ restarts' = [restarts EXCEPT ![e] = @ + 1]
            /\ RequestReconcile
       ELSE /\ entry' = [entry EXCEPT ![e].retry = FALSE]
            /\ NoRequest /\ UNCHANGED restarts
    /\ UNCHANGED <<services, job, stack, closing, bounds>>

\* #reportFailure: the instance of an entry calls ctx.fail.
ReportFailure(e) ==
    /\ Suspended /\ faults < MaxFaults
    /\ entry[e].inst # None /\ ~entry[e].inst.closed /\ ~entry[e].failure
    /\ faults' = faults + 1
    /\ entry' = [entry EXCEPT ![e].failure = TRUE, ![e].inst.lost = TRUE]
    /\ RequestReconcile
    /\ UNCHANGED <<services, job, stack, closing, restarts, switches, repairs>>

\* The instance being activated, or staged for a replacement, calls it:
\* it is not the instance of its entry yet, and nobody takes note.
ReportUnheard ==
    /\ Suspended /\ faults < MaxFaults
    /\ InPass("loading") \/ job.kind = "replace"
    /\ ~job.lost
    /\ faults' = faults + 1
    /\ job' = [job EXCEPT !.lost = TRUE]
    /\ NoRequest
    /\ UNCHANGED <<entry, services, stack, closing, restarts, switches, repairs>>
-----------------------------------------------------------------------------
JobSteps ==
    \/ UnloadSteps
    \/ StartPass \/ PassStops \/ PassLoads \/ PassEnds \/ Loads \/ LoadFails \/ SkipPass
    \/ StartReplaceIdle \/ StartReplace \/ ReplaceFails \/ ReplaceUnloads \/ ReplaceSwaps
    \/ StartShutdown \/ ShutdownUnloads \/ ShutdownEnds

Calls ==
    \/ \E e \in Entry :
          Enable(e) \/ Disable(e) \/ Retry(e) \/ \E d \in Versions[e] : Replace(e, d)
    \/ Close

Timers == \E e \in Entry : RetryFires(e)

Reports == ReportUnheard \/ \E e \in Entry : ReportFailure(e)

Next == JobSteps \/ Calls \/ Timers \/ Reports

\* Every wait of a job has a deadline, and the timers of the clock fire.
Fairness == WF_vars(JobSteps) /\ WF_vars(Timers)

Spec == Init /\ [][Next]_vars

FairSpec == Spec /\ Fairness
-----------------------------------------------------------------------------
(* Safety.                                                                 *)

\* Nothing is left to do once the loop has ended: what is active may be,
\* what waits has to, and no entry is left on the way.  An interrupted pass,
\* a call during a wait, a lost wake-up of the loop would show here.
SettledIsFixedPoint ==
    Settled /\ closing = "no" =>
        \A e \in Entry : LET x == entry[e] IN
            /\ x.state \in {"waiting", "active", "disposed", "failed"}
            /\ x.state = "disposed" <=> ~x.enabled
            /\ x.state = "active" => ~ShouldStop(x)
            /\ x.state = "waiting" => ~ShouldLoad(x) /\ ~x.misconfigured
            /\ (x.state = "active") <=> (x.inst # None)

\* The plugins an entry may run.
VersionsOf(e) == {Profile[e]} \cup Versions[e]

\* No version of an entry needs what the entry, or one that needs it, provides: entries
\* can be ordered so that each needs only those below it.
Ordered(level) ==
    \A e, c \in Entry : \A p \in VersionsOf(e), q \in VersionsOf(c) :
        Needs[p] \cap Provides[q] # {} => level[c] < level[e]

Layered == \E level \in [Entry -> Entry] : Ordered(level)

\* A consumer that may still work, or quiesces, has the services it needs:
\* consumers stop before their provider does (the doc of Kernel).
ProvidersOutlive ==
    \A e \in Entry :
        entry[e].inst # None /\ ~entry[e].inst.closed => Supplied(entry[e].plugin)

\* Every registered service is of the instance its entry has, and an active
\* instance has all of its services: registrations neither leak nor get lost
\* in failed publications, replacements and unloads.
RegistryIsTrue ==
    \A e \in Entry :
        /\ entry[e].inst = None => ProvidedBy(e) = {}
        /\ entry[e].state \in {"active", "quiescing"} =>
              ProvidedBy(e) = Provides[entry[e].plugin]

\* Left to itself a failing entry is started again by timer Retries times,
\* then it is left alone (the comment on stableAfterMs).
RestartsAreBounded == \A e \in Entry : restarts[e] <= Retries

\* No instance is disposed of with leases that are neither revoked nor
\* reported to the safety core, and none before its consumers are gone.
DisposedSafely ==
    \A e \in Entry :
        entry[e].inst # None /\ entry[e].inst.closed =>
            /\ entry[e].inst.revoked \/ entry[e].inst.forced
            /\ \A c \in Entry \ {e} :
                  Needs[entry[c].plugin] \cap ProvidedBy(e) # {} =>
                      entry[c].inst = None \/ entry[c].inst.closed

\* After shutdown() nothing runs, nothing is registered, nothing will start.
ShutdownIsFinal ==
    closing = "done" =>
        /\ \A e \in Entry : /\ entry[e].inst = None /\ entry[e].state = "disposed"
                            /\ ~entry[e].retry
        /\ Registered = {}

GaveUp(x) == x.state = "failed" /\ (x.attempts > Retries \/ x.misconfigured)

\* An instance that reported its failure does not stay active.
LostIsNotActive ==
    Settled /\ closing = "no" =>
        \A e \in Entry : entry[e].state = "active" => ~entry[e].inst.lost
-----------------------------------------------------------------------------
(* Liveness.                                                               *)

\* An entry whose timer is spent while it is disabled, and which is enabled again
\* before the next pass, stays FAILED with tries left: the operator's turn.
LeftAlone(x) == x.state = "failed" /\ ~x.retry /\ ~GaveUp(x)

\* That is the only way for tries to be left unused: elsewhere a failed entry that
\* has tries left has its timer.
OnlyIdleTimersAreSpent ==
    [][\A e \in Entry :
          LeftAlone(entry'[e]) /\ ~LeftAlone(entry[e]) => entry[e].retry /\ ~entry[e].enabled]_entry

\* An entry that stays enabled, with its services there, ends up active, out of
\* retries, or left alone by a timer that fired while it was disabled.
ComesBack ==
    \A e \in Entry :
        (<>[](entry[e].enabled /\ Supplied(entry[e].plugin) /\ closing = "no")) =>
            <>[](entry[e].state = "active" \/ GaveUp(entry[e]) \/ LeftAlone(entry[e]))

\* shutdown() returns.
ShutdownReturns == []<>(closing # "closed")

-----------------------------------------------------------------------------
(* What the runs check.                                                    *)

\* The kernel is consistent in every state, whatever it was interrupted by: its
\* types, its registry, the providers of what still works, the count of its
\* restarts, and, when its loop has ended, nothing left to do (kernel.ts).
KernelIsSound ==
    TypeOK /\ SettledIsFixedPoint /\ ProvidersOutlive /\ RegistryIsTrue /\ RestartsAreBounded

\* Whoever leaves, leaves in order: consumers first, leases revoked or the
\* safety core told, and nothing stays after shutdown() (kernel.ts: #unload).
LeavesInOrder == DisposedSafely /\ ShutdownIsFinal

\* The kernel never waits for itself: what is wanted runs again, has used up its
\* retries, or had its timer fire while it was disabled, the one way to stay FAILED
\* with tries left; and shutdown() returns (kernel.ts: #requestReconcile, #fail, shutdown).
KernelGoesOn == ComesBack /\ OnlyIdleTimersAreSpent /\ ShutdownReturns
=============================================================================
