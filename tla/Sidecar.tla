-------------------------------- MODULE Sidecar --------------------------------
(***************************************************************************)
(* Sidecar processes (kernel/src/sidecar.ts, process/src/managed.ts and    *)
(* child.ts): the plugin that starts one, shakes hands with it and answers *)
(* for it, the hub that hands its connection over, the stages of stopping  *)
(* it, and the child, which may be slow, hang, die or be cut off.          *)
(*                                                                         *)
(* The activations of one plugin are numbered; each starts one child.  The *)
(* kernel waits for a disposer only so long: the next activation may begin *)
(* while a child that has its connection is still being stopped.  A child  *)
(* that has none is killed sooner than that.                               *)
(***************************************************************************)
EXTENDS Naturals

CONSTANT MaxRuns    \* bound on the activations

Run == 1..MaxRuns

VARIABLES
    phase,    \* [Run -> the activation: none, waiting, asking, shaken, serving, failed]
    report,   \* [Run -> its report of a lost child: none, heard, dropped]
    disposal, \* [Run -> its disposer: no, shutdown, eof, kill, done]
    waiter,   \* ChannelHub.#waiting: the activation that expects the role, or 0
    peer,     \* [Run -> whose connection the activation was given, or 0]
    gone,     \* activations the kernel has given up (their signal is aborted)
    host,     \* the host process lives
    child,    \* [Run -> none, up, stuck, exited]
    link,     \* [Run -> the child's connection: none, offered, open, closed]
    told      \* children that were asked to stop, by a request or by the end of stdin

vars == <<phase, report, disposal, waiter, peer, gone, host, child, link, told>>

Lives(r) == child[r] \in {"up", "stuck"}
Ends(r) == /\ child' = [child EXCEPT ![r] = "exited"]
           /\ link' = [link EXCEPT ![r] = IF @ = "none" THEN @ ELSE "closed"]

(***************************************************************************)
(* The plugin                                                              *)
(***************************************************************************)
\* The kernel is done with an activation: its disposer has returned or, where the
\* child has a connection, was waited for long enough.
LetGo(r) == r \in gone /\ (disposal[r] = "done" \/ peer[r] # 0)

\* startSidecar: hub.expect(role), then the child is started; if it cannot be, the
\* role is expected no more.
Activate(r) ==
    /\ host /\ phase[r] = "none" /\ waiter = 0
    /\ \A q \in 1..(r - 1) : LetGo(q)
    /\ \/ /\ phase' = [phase EXCEPT ![r] = "waiting"] /\ waiter' = r
          /\ child' = [child EXCEPT ![r] = "up"]
       \/ phase' = [phase EXCEPT ![r] = "failed"] /\ UNCHANGED <<waiter, child>>
    /\ UNCHANGED <<report, disposal, peer, gone, host, link, told>>

\* ChannelHub.accept: a child has connected.  Who expects the role gets the connection;
\* if nobody does, it is cut.
Accept(q) ==
    /\ host /\ link[q] = "offered"
    /\ IF waiter = 0
       THEN link' = [link EXCEPT ![q] = "closed"] /\ UNCHANGED <<phase, waiter, peer>>
       ELSE /\ link' = [link EXCEPT ![q] = "open"]
            /\ peer' = [peer EXCEPT ![waiter] = q]
            /\ phase' = [phase EXCEPT ![waiter] = "asking"]
            /\ waiter' = 0
    /\ UNCHANGED <<report, disposal, gone, host, child, told>>

\* sidecar.describe and sidecar.health are answered as they should be, or the
\* handshake fails: another protocol, no answer in time, the connection has gone.
Shaken(r) ==
    /\ host /\ phase[r] = "asking" /\ r \notin gone
    /\ \/ /\ child[peer[r]] = "up" /\ link[peer[r]] = "open"
          /\ phase' = [phase EXCEPT ![r] = "shaken"]
       \/ phase' = [phase EXCEPT ![r] = "failed"]
    /\ UNCHANGED <<report, disposal, waiter, peer, gone, host, child, link, told>>

\* The rest of the activation: the kernel publishes what it provides and takes it for
\* the instance of its entry (with a replacement: in place of the old one), or it fails.
Serves(r) ==
    /\ host /\ phase[r] = "shaken" /\ r \notin gone
    /\ \E next \in {"serving", "failed"} : phase' = [phase EXCEPT ![r] = next]
    /\ UNCHANGED <<report, disposal, waiter, peer, gone, host, child, link, told>>

\* The child ends before it has connected.
EndsEarly(r) ==
    /\ host /\ phase[r] = "waiting" /\ child[r] = "exited" /\ r \notin gone
    /\ phase' = [phase EXCEPT ![r] = "failed"]
    /\ UNCHANGED <<report, disposal, waiter, peer, gone, host, child, link, told>>

\* Mutant of Dispose: the role is expected for ever.
DisposeExpecting(r, forced) ==
    /\ host /\ phase[r] # "none" /\ r \notin gone
    /\ gone' = gone \cup {r}
    /\ disposal' = [disposal EXCEPT ![r] =
                        IF ~Lives(r) THEN "done" ELSE IF forced THEN "kill" ELSE "eof"]
    /\ told' = IF Lives(r) /\ ~forced THEN told \cup {r} ELSE told
    /\ UNCHANGED <<phase, report, waiter, peer, host, child, link>>

\* The kernel gives the activation up, because it has failed or takes too long, has
\* reported its child lost, or is not wanted any more.  The disposer: the role is expected no
\* more; the child is killed if the unloading is a forced one, else asked to stop, over
\* its connection if it has one.
Dispose(r, forced) ==
    /\ host /\ phase[r] # "none" /\ r \notin gone
    /\ gone' = gone \cup {r}
    /\ waiter' = IF waiter = r THEN 0 ELSE waiter
    /\ IF Lives(r)
       THEN LET first == IF forced THEN "kill" ELSE IF peer[r] # 0 THEN "shutdown" ELSE "eof"
                asked == IF first = "eof" THEN {r}
                         ELSE IF first = "shutdown" /\ link[peer[r]] = "open" THEN {peer[r]} ELSE {}
            IN  disposal' = [disposal EXCEPT ![r] = first] /\ told' = told \cup asked
       ELSE disposal' = [disposal EXCEPT ![r] = "done"] /\ UNCHANGED told
    /\ UNCHANGED <<phase, report, peer, host, child, link>>

\* ManagedProcess.stop: after each time limit the next stage.
Presses(r) ==
    /\ host
    /\ \/ /\ disposal[r] = "shutdown"
          /\ disposal' = [disposal EXCEPT ![r] = "eof"] /\ told' = told \cup {r}
       \/ disposal[r] = "eof" /\ disposal' = [disposal EXCEPT ![r] = "kill"] /\ UNCHANGED told
    /\ UNCHANGED <<phase, report, waiter, peer, gone, host, child, link>>

\* SIGKILL.
Kill(r) ==
    /\ host /\ disposal[r] = "kill" /\ Lives(r)
    /\ Ends(r)
    /\ UNCHANGED <<phase, report, disposal, waiter, peer, gone, host, told>>

\* The child has exited: the disposer cuts the connection and returns.
Stopped(r) ==
    /\ host /\ disposal[r] \in {"shutdown", "eof", "kill"} /\ child[r] = "exited"
    /\ disposal' = [disposal EXCEPT ![r] = "done"]
    /\ link' = IF peer[r] # 0 THEN [link EXCEPT ![peer[r]] = "closed"] ELSE link
    /\ UNCHANGED <<phase, report, waiter, peer, gone, host, child, told>>

\* The child has exited, or its connection has ended, after the handshake.
Lost(r) == phase[r] \in {"shaken", "serving"} /\ (~Lives(r) \/ link[peer[r]] = "closed")

\* lost(): it is reported once, and only the instance of the entry is heard
\* (#reportFailure): what is reported before is dropped.
Reports(r) ==
    /\ host /\ Lost(r) /\ r \notin gone /\ report[r] = "none"
    /\ report' = [report EXCEPT ![r] = IF phase[r] = "serving" THEN "heard" ELSE "dropped"]
    /\ UNCHANGED <<phase, disposal, waiter, peer, gone, host, child, link, told>>

(***************************************************************************)
(* The child (serveSidecar)                                                *)
(***************************************************************************)
\* It has been asked to stop, reads the end of its stdin, or its connection has ended.
Exit(r) ==
    /\ child[r] = "up" /\ (r \in told \/ link[r] = "closed" \/ ~host)
    /\ Ends(r)
    /\ UNCHANGED <<phase, report, disposal, waiter, peer, gone, host, told>>

Connect(r) ==
    /\ child[r] = "up" /\ link[r] = "none" /\ host
    /\ link' = [link EXCEPT ![r] = "offered"]
    /\ UNCHANGED <<phase, report, disposal, waiter, peer, gone, host, child, told>>

\* It dies, hangs, or the connection breaks.
Die(r) ==
    /\ Lives(r) /\ Ends(r)
    /\ UNCHANGED <<phase, report, disposal, waiter, peer, gone, host, told>>
Hang(r) ==
    /\ child[r] = "up"
    /\ child' = [child EXCEPT ![r] = "stuck"]
    /\ UNCHANGED <<phase, report, disposal, waiter, peer, gone, host, link, told>>
Break(r) ==
    /\ link[r] \in {"offered", "open"}
    /\ link' = [link EXCEPT ![r] = "closed"]
    /\ UNCHANGED <<phase, report, disposal, waiter, peer, gone, host, child, told>>

\* The host dies: the system closes the children's stdin and its connections.
HostDies ==
    /\ host
    /\ host' = FALSE /\ told' = Run
    /\ link' = [r \in Run |-> IF link[r] = "none" THEN "none" ELSE "closed"]
    /\ UNCHANGED <<phase, report, disposal, waiter, peer, gone, child>>

(***************************************************************************)
Init ==
    /\ phase = [r \in Run |-> "none"] /\ report = [r \in Run |-> "none"]
    /\ disposal = [r \in Run |-> "no"]
    /\ waiter = 0 /\ peer = [r \in Run |-> 0] /\ gone = {} /\ host = TRUE
    /\ child = [r \in Run |-> "none"] /\ link = [r \in Run |-> "none"] /\ told = {}

GiveUp == \E r \in Run, forced \in BOOLEAN : Dispose(r, forced)
Reporting == \E r \in Run : Reports(r)

\* Activations the kernel gives up of its own accord: a loss was reported and heard, the
\* activation has failed, or its deadline has passed.
Due(r) == report[r] = "heard" \/ phase[r] \in {"waiting", "asking", "shaken", "failed"}
GivenUp == \E r \in Run : Due(r) /\ Dispose(r, FALSE)
Pressing == \E r \in Run : Presses(r) \/ Kill(r) \/ Stopped(r)
Exiting == \E r \in Run : Exit(r)

Next ==
    \/ \E r \in Run : Activate(r) \/ Accept(r) \/ Shaken(r) \/ Serves(r) \/ EndsEarly(r)
    \/ GiveUp \/ Reporting \/ Pressing \/ Exiting
    \/ \E r \in Run : Connect(r) \/ Die(r) \/ Hang(r) \/ Break(r)
    \/ HostDies

Spec == Init /\ [][Next]_vars

\* A loss is reported; the kernel unloads what was reported to it and heard, and what
\* has failed or passed its deadline; every stage of stopping has its time limit; a child
\* that works exits when it is told to.
Fairness ==
    /\ WF_vars(Reporting) /\ WF_vars(GivenUp)
    /\ WF_vars(Pressing) /\ WF_vars(Exiting)
FairSpec == Spec /\ Fairness

(***************************************************************************)
(* Properties                                                              *)
(***************************************************************************)
TypeOK ==
    /\ phase \in [Run -> {"none", "waiting", "asking", "shaken", "serving", "failed"}]
    /\ report \in [Run -> {"none", "heard", "dropped"}]
    /\ disposal \in [Run -> {"no", "shutdown", "eof", "kill", "done"}]
    /\ waiter \in 0..MaxRuns /\ peer \in [Run -> 0..MaxRuns]
    /\ gone \subseteq Run /\ told \subseteq Run /\ host \in BOOLEAN
    /\ child \in [Run -> {"none", "up", "stuck", "exited"}]
    /\ link \in [Run -> {"none", "offered", "open", "closed"}]

\* An activation talks to the child it has started, never to one that an earlier
\* activation has left, and nobody else is expected.
PeersAreOwn ==
    /\ \A r \in Run : peer[r] \in {0, r}
    /\ waiter # 0 => waiter \notin gone

\* Every child that lives belongs to an activation that goes on, or is being stopped.
ChildrenAreOwned ==
    \A r \in Run : Lives(r) /\ r \in gone => disposal[r] \in {"shutdown", "eof", "kill"}

SidecarsAreOwned == TypeOK /\ PeersAreOwn /\ ChildrenAreOwned

\* An activation ends: it serves or is given up.  One that serves and loses its child is
\* given up, unless its one report was dropped because the kernel had not taken it for
\* the instance of its entry yet: such an activation stays, without a child.  A child
\* that was given up ends, even one that hangs, while the host lives to kill it; when the
\* host has died, those that work end.
Settled ==
    \A r \in Run :
        IF host
        THEN /\ phase[r] \notin {"none", "serving"} => r \in gone
             /\ Lost(r) => r \in gone \/ report[r] = "dropped"
             /\ r \in gone => ~Lives(r)
        ELSE child[r] # "up"

SidecarsStayOwned == [][SidecarsAreOwned']_vars

\* No child without an owner, and no end to none.
SidecarsAreInHand == SidecarsAreOwned /\ SidecarsStayOwned /\ []<>Settled
=============================================================================
