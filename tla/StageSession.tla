------------------------------ MODULE StageSession ------------------------------
(***************************************************************************)
(* How the page in OBS is let in (stage/src/obs-page.ts, page/page.js): a  *)
(* token, good for one hello, is written into the URL of the source, the   *)
(* page exchanges it for a session key, and comes back with the key within *)
(* a time limit; else the URL is written again, not too often.             *)
(*                                                                         *)
(* There is one page: writing the URL loads it anew, refreshing it loads   *)
(* it without a token.  A connection is over for the page before it is for *)
(* the host, which meanwhile has its place taken.  Time goes by ticks;     *)
(* what is due may be late.                                                *)
(***************************************************************************)
EXTENDS Integers

CONSTANTS ResumeWindow,     \* resumeWindowMs, in ticks
          RedistributeMin,  \* redistributeMinMs, in ticks
          MaxMishaps        \* bound on what goes wrong: refreshes, breaks, failures, delays

VARIABLES
    page,     \* unloaded, dialling, greeting, welcomed, in, retrying, waiting (for a new URL)
    shows,    \* the token the page still has to show: none, current, old
    key,      \* the page has the session key
    refused,  \* its token was refused
    vain,     \* it waits for a new URL that the host does not know to be needed
    used,     \* tokenUsed
    pending, session, \* the connections of obs-page.ts: none, live, over (for the page)
    resume,   \* ticks until resumeUntil has passed: -1
    writing,  \* distribute(): no, asked, effective (the URL is written, not confirmed)
    spaced,   \* ticks until it may run again
    retry,    \* ticks until the timer `retry` fires, or Never
    gone,     \* the plugin is unloaded
    mishaps

vars == <<page, shows, key, refused, vain, used, pending, session, resume, writing, spaced,
          retry, gone, mishaps>>
hostVars == <<used, resume, writing, spaced, retry>>

Never == -1
Mishap == mishaps < MaxMishaps /\ mishaps' = mishaps + 1

\* What the page's side of a connection being over means to the host, at first nothing.
Over(connection) == IF connection = "live" THEN "over" ELSE connection
Cut == pending' = Over(pending) /\ session' = Over(session)

(***************************************************************************)
(* distribute(), scheduleDistribute()                                      *)
(***************************************************************************)
\* Mutant of Earlier: what is planned stays, whenever it is.
FirstPlanned(planned, delay) == IF planned # Never THEN planned ELSE delay

\* Of two times to run again the earlier one is kept.
Earlier(planned, delay) == IF planned # Never /\ planned <= delay THEN planned ELSE delay

\* distribute(), when the timer is `planned`: nothing, later, or a new token is written.
\* A page that needs another URL than the one that has just been written is overheard.
Distribute(planned) ==
    /\ vain' = (vain \/ (page' = "waiting" /\ writing = "effective"))
    /\ IF writing # "no" \/ session # "none"
       THEN retry' = planned /\ UNCHANGED <<used, writing, spaced, shows>>
       ELSE IF spaced > 0
       THEN retry' = Earlier(planned, spaced) /\ UNCHANGED <<used, writing, spaced, shows>>
       ELSE /\ writing' = "asked" /\ used' = FALSE
            /\ spaced' = RedistributeMin /\ retry' = planned
            /\ shows' = IF shows = "current" THEN "old" ELSE shows

TimerFires ==
    /\ ~gone /\ retry = 0
    /\ UNCHANGED page /\ Distribute(Never)
    /\ UNCHANGED <<key, refused, pending, session, resume, gone, mishaps>>

\* The page is loaded, with or without the token in its address.
Load(with) ==
    /\ page' = "dialling" /\ shows' = with /\ key' = FALSE
    /\ refused' = FALSE /\ vain' = FALSE
    /\ Cut

\* OBS has the new URL.
UrlWritten ==
    /\ writing = "asked"
    /\ writing' = "effective"
    /\ Load("current")
    /\ UNCHANGED <<used, resume, spaced, retry, gone, mishaps>>

\* The action ends; if it fails, it may have had its effect.
Distributed ==
    /\ ~gone /\ writing = "effective" /\ writing' = "no"
    /\ UNCHANGED <<page, shows, key, refused, vain, used, pending, session, resume, spaced,
                   retry, gone, mishaps>>

DistributeFails ==
    /\ ~gone /\ writing # "no" /\ writing' = "no"
    /\ Mishap
    /\ retry' = Earlier(retry, RedistributeMin)
    /\ UNCHANGED <<page, shows, key, refused, vain, used, pending, session, resume, spaced, gone>>

(***************************************************************************)
(* onUpgrade, authenticate, open                                           *)
(***************************************************************************)
\* The page connects.  While the place is taken it is turned away, and tries again only
\* if it has a key; the end of a session will have the URL distributed, that of a
\* connection that was none yet will not.
Connect ==
    /\ page = "dialling"
    /\ IF pending = "none" /\ session = "none" /\ ~gone
       THEN page' = "greeting" /\ pending' = "live" /\ UNCHANGED vain
       ELSE /\ page' = IF key THEN "retrying" ELSE "waiting"
            /\ vain' = (~key /\ session = "none")
            /\ UNCHANGED pending
    /\ UNCHANGED <<shows, key, refused, session, hostVars, gone, mishaps>>

\* reject(): the page does not come back with what it has.
Reject == page' = "waiting" /\ key' = FALSE /\ pending' = "over"

\* hello: with the token of the URL, once; else the URL is distributed again.
Hello ==
    /\ ~gone /\ page = "greeting" /\ pending = "live" /\ ~key
    /\ IF shows = "current" /\ ~used
       THEN /\ page' = "welcomed" /\ shows' = "none"
            /\ used' = TRUE /\ pending' = "none" /\ session' = "live" /\ retry' = Never
            /\ UNCHANGED <<key, refused, vain, writing, spaced>>
       ELSE /\ Reject /\ refused' = TRUE
            /\ Distribute(retry)
            /\ UNCHANGED session
    /\ UNCHANGED <<resume, gone, mishaps>>

\* resume: with the key, within the time limit.
Resume ==
    /\ ~gone /\ page = "greeting" /\ pending = "live" /\ key
    /\ IF resume # -1
       THEN /\ page' = "in" /\ pending' = "none" /\ session' = "live" /\ retry' = Never
            /\ UNCHANGED key
       ELSE Reject /\ UNCHANGED <<session, retry>>
    /\ UNCHANGED <<shows, refused, vain, used, resume, writing, spaced, gone, mishaps>>

\* The first message takes too long.
HelloTimesOut ==
    /\ ~gone /\ page = "greeting" /\ pending = "live"
    /\ Mishap
    /\ Reject /\ vain' = TRUE
    /\ UNCHANGED <<shows, refused, session, hostVars, gone>>

\* The welcome brings the key.
Welcome ==
    /\ page = "welcomed" /\ page' = "in" /\ key' = TRUE
    /\ UNCHANGED <<shows, refused, vain, pending, session, hostVars, gone, mishaps>>

(***************************************************************************)
(* The end of a connection                                                 *)
(***************************************************************************)
\* It breaks, or was idle for too long.
Break ==
    /\ page \in {"greeting", "welcomed", "in"} /\ ~gone
    /\ Mishap
    /\ page' = IF key THEN "retrying" ELSE "waiting"
    /\ vain' = (page = "greeting" /\ ~key)
    /\ Cut
    /\ UNCHANGED <<shows, key, refused, hostVars, gone>>

Reconnect ==
    /\ page = "retrying" /\ ~gone /\ page' = "dialling"
    /\ UNCHANGED <<shows, key, refused, vain, pending, session, hostVars, gone, mishaps>>

\* ws.on('close'): the place is free; if it was a session, the URL is to be distributed
\* when the time to come back is over.
SeesClose ==
    /\ ~gone
    /\ \/ /\ pending = "over" /\ pending' = "none"
          /\ UNCHANGED <<session, resume, retry>>
       \/ /\ session = "over" /\ session' = "none"
          /\ resume' = ResumeWindow
          /\ retry' = Earlier(retry, ResumeWindow)
          /\ UNCHANGED pending
    /\ UNCHANGED <<page, shows, key, refused, vain, used, writing, spaced, gone, mishaps>>

\* Somebody refreshes the source.
Refresh ==
    /\ page # "unloaded" /\ Mishap
    /\ Load("none")
    /\ UNCHANGED <<hostVars, gone>>

Dispose ==
    /\ ~gone /\ gone' = TRUE
    /\ retry' = Never /\ pending' = "none" /\ session' = "none"
    /\ page' = IF page \in {"greeting", "welcomed", "in"} THEN IF key THEN "retrying" ELSE "waiting" ELSE page
    /\ UNCHANGED <<shows, key, refused, vain, used, resume, writing, spaced, mishaps>>

\* OBS confirms what it has done within a tick (requestTimeoutMs).
Tick ==
    /\ ~gone /\ writing # "effective"
    /\ (resume > -1 \/ spaced > 0 \/ retry > 0)
    /\ resume' = IF resume > -1 THEN resume - 1 ELSE -1
    /\ spaced' = IF spaced > 0 THEN spaced - 1 ELSE 0
    /\ retry' = IF retry > 0 THEN retry - 1 ELSE retry
    /\ UNCHANGED <<page, shows, key, refused, vain, used, pending, session, writing, gone, mishaps>>

(***************************************************************************)
\* Nothing is loaded; the first distribution is due.
Init ==
    /\ page = "unloaded" /\ shows = "none" /\ key = FALSE /\ refused = FALSE /\ vain = FALSE
    /\ used = FALSE /\ pending = "none" /\ session = "none" /\ resume = -1
    /\ writing = "no" /\ spaced = 0 /\ retry = 0
    /\ gone = FALSE /\ mishaps = 0

Greeting == Connect \/ Hello \/ Resume \/ Welcome \/ Reconnect
Distributing == TimerFires \/ UrlWritten \/ Distributed

Next ==
    \/ Connect \/ Hello \/ Resume \/ Welcome \/ Reconnect
    \/ TimerFires \/ UrlWritten \/ Distributed \/ DistributeFails
    \/ HelloTimesOut \/ Break \/ SeesClose \/ Refresh \/ Dispose \/ Tick

Spec == Init /\ [][Next]_vars

\* Timers fire, actions of OBS end, the page goes on with what it has begun and the end
\* of a connection is seen.
Fairness == WF_vars(Tick) /\ WF_vars(Greeting) /\ WF_vars(Distributing) /\ WF_vars(SeesClose)
FairSpec == Spec /\ Fairness

(***************************************************************************)
(* Properties                                                              *)
(***************************************************************************)
TypeOK ==
    /\ page \in {"unloaded", "dialling", "greeting", "welcomed", "in", "retrying", "waiting"}
    /\ shows \in {"none", "current", "old"} /\ {pending, session} \subseteq {"none", "live", "over"}
    /\ {key, refused, vain, used, gone} \subseteq BOOLEAN
    /\ resume \in -1..ResumeWindow /\ spaced \in 0..RedistributeMin
    /\ retry \in {Never} \cup 0..ResumeWindow
    /\ writing \in {"no", "asked", "effective"} /\ mishaps \in 0..MaxMishaps

\* There is one session at most, it is the page's, and its key is shown by nobody else.
OneSession ==
    /\ pending = "none" \/ session = "none"
    /\ session = "live" <=> page \in {"welcomed", "in"}
    /\ key => ~refused

\* Whoever waits for a new URL gets one: it is being written, or planned, or will be when
\* the host has seen the session end.
NobodyIsForgotten ==
    page \in {"unloaded", "waiting"} /\ ~vain /\ ~gone =>
        writing # "no" \/ retry # Never \/ session = "over"

\* A page whose token was refused does not wait longer than the distance of two URLs,
\* although one is planned for when a session may no longer come back.
RefusedIsServed ==
    refused /\ ~vain /\ ~gone /\ page = "waiting" => writing # "no" \/ retry \in 0..RedistributeMin

PageIsSound == TypeOK /\ OneSession /\ NobodyIsForgotten /\ RefusedIsServed

\* The page gets in, as long as it does not wait in vain: its hello was too late or cut
\* off, another that said nothing had its place, or it needed another URL than the one
\* being confirmed.
Settled == page = "in" \/ vain \/ gone

\* Whatever happens between the URL and the session (scheduleDistribute, authenticate),
\* the page is or will be given what it needs, and it is let in.
PageStaysSound == [][PageIsSound']_vars
PageIsLetIn == PageIsSound /\ PageStaysSound /\ []<>Settled
=============================================================================
