----------------------------- MODULE MCServices -----------------------------
(***************************************************************************)
(* Six services that share nothing but the safety core and the store, one *)
(* beside the other: a behaviour is one of one of them, the others do not  *)
(* move.  (Together they have the sum of their states, not the product.)   *)
(* The director's is the module that is extended.                          *)
(***************************************************************************)
EXTENDS Director, Integers, Sequences, FiniteSets, TLC

CONSTANTS chat, rude, words, entry, ann, Nobody, Idle,      \* memory
          v1, v2, i1, i2, None,                             \* vote
          c1, c2                                            \* rpc

VARIABLES service,
    outbox, tombs, dropped, seq, rules, ensured, batch, split, due, restarts, stored,
    run, stop, game, heart, misses, dead, gap, ready, room, unheard,
    mode, open, intent, facts, said, asked, inst, crashes, stops,
    request, settled, serving, out, back, here, there,
    output, read, scan, heard

mVars == <<outbox, tombs, dropped, seq, rules, ensured, batch, split, due, restarts,
           stored>>
bVars == <<run, stop, game, heart, misses, dead, gap, ready, room, unheard>>
vVars == <<mode, open, intent, facts, said, asked, inst, crashes, stops>>
rVars == <<request, settled, serving, out, back, here, there>>
nVars == <<output, read, scan, heard>>

\* Items: one of a viewer who may be forgotten, one that Iris refuses, what has been
\* spoken (the rules may forbid it), and the creation of the entry.
M == INSTANCE MemoryOutbox WITH
    Item <- {chat, rude, words, entry}, Entry <- entry,
    Viewer <- (chat :> ann) @@ [i \in {rude, words, entry} |-> Nobody],
    Bad <- {rude}, Private <- {words}, Capacity <- 2, BatchSize <- 2, MaxBody <- 2,
    Backoff <- 1, Advised <- 2, MaxQueued <- 3, MaxRestarts <- 1, call <- batch
B == INSTANCE BilibiliClient WITH BeatLimit <- 2, LinkLimit <- 2, owed <- unheard
V == INSTANCE Vote WITH
    Vote <- {v1, v2}, Instance <- {i1, i2}, MaxCrashes <- 1, MaxStops <- 1
R == INSTANCE RpcPeer WITH Call <- {c1, c2}, MaxInflight <- 1, Handled <- TRUE, call <- request

\* Outputs of the model: two texts with pairs of halves, one of them escaped; nested
\* members, repeated keys, values of all kinds; and each of them with any one character
\* replaced by any other.
Key(k) == <<"\"", k, "\"", ":">>
Quoted(w) == <<"\"">> \o w \o <<"\"">>
Sound == {
    <<"{">> \o Key("A") \o Quoted(<<"a">>) \o <<",">> \o Key("T") \o Quoted(<<"high", "low", "a">>) \o <<"}">>,
    <<"{">> \o Key("T") \o Quoted(<<"\\", "u", "d", "8", "0", "0", "\\", "u", "d", "c", "1", "1">>) \o <<"}">>,
    <<"{">> \o Key("R") \o <<"[", "{">> \o Key("T") \o Quoted(<<"]">>) \o <<"}", ",", "1", "]", ",">>
        \o Key("T") \o <<"n", "u", "l", "l", ",">> \o Key("T") \o Quoted(<<"a">>) \o <<"}">>,
    <<"{">> \o Key("A") \o <<"-", "1", ".", "0", "e", "-", "1", ",">> \o Key("T") \o Quoted(<<"\\", "n">>) \o <<"}">>,
    <<"{">> \o Key("T") \o Quoted(<<"a">>) \o <<",">> \o Key("T") \o Quoted(<<"c">>) \o <<",">>
        \o Key("A") \o <<"n", "u", "l", "l", "}">>,
    <<"space", "{">> \o Key("A") \o <<"{", "}", ",", "newline">> \o Key("A")
        \o <<"[", "t", "r", "u", "e", "]", ",">> \o Key("T") \o <<"0", "}", "space">>}
Characters == {"{", "}", "[", "]", ":", ",", "\"", "\\", "u", "d", "8", "0", "1", "-", ".", "e",
               "n", "t", "space", "newline", "high", "low", "A", "T"}
Outputs == UNION {{[w EXCEPT ![i] = c] : i \in DOMAIN w, c \in Characters} : w \in Sound}
N == INSTANCE IntentScanner WITH Text <- Outputs \cup {<<>>}

ServicesInit ==
    /\ M!Init /\ B!Init /\ V!Init /\ R!Init /\ N!Init /\ Init
    /\ service \in {"memory", "bilibili", "vote", "rpc", "scanner", "director"}
    /\ service # "scanner" => output = <<>>

\* One service moves, the others do not.
Memory == service = "memory" /\ UNCHANGED <<service, bVars, vVars, rVars, nVars, vars>>
Bilibili == service = "bilibili" /\ UNCHANGED <<service, mVars, vVars, rVars, nVars, vars>>
Voting == service = "vote" /\ UNCHANGED <<service, mVars, bVars, rVars, nVars, vars>>
Rpc == service = "rpc" /\ UNCHANGED <<service, mVars, bVars, vVars, nVars, vars>>
Scanning == service = "scanner" /\ UNCHANGED <<service, mVars, bVars, vVars, rVars, vars>>
Directing == service = "director" /\ UNCHANGED <<service, mVars, bVars, vVars, rVars, nVars>>

ServicesNext ==
    \/ Memory /\ M!Next
    \/ Bilibili /\ B!Next
    \/ Voting /\ V!Next
    \/ Rpc /\ R!Next
    \/ Scanning /\ N!Next
    \/ Directing /\ Next

allVars == <<service, mVars, bVars, vVars, rVars, nVars, vars>>
ServicesSpec == ServicesInit /\ [][ServicesNext]_allVars

\* The fairness of the service that moves.  A condition may stand for several of them,
\* since no behaviour has steps of two.
ServicesFairSpec ==
    /\ ServicesSpec
    /\ WF_allVars(\/ Memory /\ M!Tick
                  \/ Bilibili /\ B!RunGoesOn
                  \/ Voting /\ V!RestartedAfterCrash
                  \/ Rpc /\ R!Deadline
                  \/ Directing /\ IdleFires)
    /\ WF_allVars(\/ Memory /\ M!Flush
                  \/ Bilibili /\ B!Beating
                  \/ Voting /\ V!Announcing
                  \/ Rpc /\ R!Receiving
                  \/ Directing /\ Running)
    /\ WF_allVars(\/ Bilibili /\ B!Stopping
                  \/ Voting /\ V!Closing
                  \/ Rpc /\ R!EndFollows)
    /\ WF_allVars(Bilibili /\ B!LeftIsClosed)
    /\ SF_allVars((Memory /\ M!Execute) \/ (Bilibili /\ B!PlatformOpens))
    /\ SF_allVars((Memory /\ M!Judged) \/ (Bilibili /\ B!OpenedWithLinks))
    /\ SF_allVars(Bilibili /\ B!LinkReady)

\* The properties of each, as its module states and explains them.

\* Memory: nothing of a forgotten viewer leaves; nothing is lost in silence, or
\* dropped for another's sake; the outbox drains.
TheForgottenDoNotLeave == M!TheForgottenDoNotLeave
MessagesAreAccountedFor == M!MessagesAreAccountedFor

\* Bilibili: sessions are ended, gaps told, heartbeats last as long as sessions; the
\* client comes back, leaves what is dead, and stops.
SessionsStayKept == [][B!SessionsAreKept']_bVars
SessionsAreKept == B!SessionsAreKept /\ SessionsStayKept /\ B!ClientGoesOn

\* Vote: one at a time, each ended once, none in a safe stop, none unknown after a
\* crash; none for ever.
VotesStaySettled == [][V!VotesAreSettled']_vVars
VotesAreSettled == V!VotesAreSettled /\ VotesStaySettled /\ V!VotesEnd

\* RPC: calls settle once, with a true answer, so many at a time; each comes to its
\* end, and so does the work on it.
CallsStaySettled == [][R!CallsSettleTruly']_rVars
CallsSettleTruly == R!CallsSettleTruly /\ CallsStaySettled /\ R!CallsAreOver

\* Director's scanner: it finds what JSON.parse finds, however the output is cut.
OutputIsScanned == N!OutputIsScanned

\* Director: CallsAreTidy, OnlyIdleTalkGivesWay and ModelDownIsNoticed.
=============================================================================
