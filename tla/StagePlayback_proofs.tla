--------------------------- MODULE StagePlayback_proofs ---------------------------
(***************************************************************************)
(* Proofs about StagePlayback, for any sentences of any length, any number *)
(* of tokens, broken connections and stalls: what play() returns is what   *)
(* was heard, and a page that has read its orders has obeyed them.         *)
(***************************************************************************)
EXTENDS StagePlayback, FiniteSetTheorems, SequenceTheorems, WellFoundedInduction, TLAPS

PageMessage ==
    [kind : {"token"}, token : Token]
      \cup [kind : {"begin", "audio", "end"}, s : Sentence, token : Token]
      \cup [kind : {"truncate"}, s : Sentence]

HostMessage == [kind : {"cursor", "ended", "truncated"}, s : Sentence, n : Nat]

\* What is on the way, and both ends of it: the page has its socket at least as long
\* as the connection lasts, and nothing is on the way to a page without one.
LinkIsTyped ==
    /\ toPage \in Seq(PageMessage) /\ toHost \in Seq(HostMessage)
    /\ conn => session /\ page.socket
    /\ ~page.socket => toPage = <<>>

PermitIsTold == permit.valid => permit.told = permit.count

Kind(k, kind) == toPage[k].kind = kind

\* The k-th message on the way to the page is about the sentence s.
About(k, s) == toPage[k].kind # "token" /\ toPage[k].s = s

OnQueue(s) == \E i \in DOMAIN queue : queue[i].s = s

OnTheWay(s) == \E k \in DOMAIN toPage : Kind(k, "begin") /\ About(k, s)

\* All the audio of s was forwarded.
Whole(s) == spoken[s].forwarded = Chunks[s]

\* Of a sentence that was not played there is nothing anywhere.
NewIsUnheardOf ==
    \A s \in Sentence :
        spoken[s].state = "new" =>
            /\ ~spoken[s].feeding /\ ~spoken[s].cut /\ spoken[s].forwarded = 0
            /\ heard[s] = 0 /\ ~OnQueue(s)
            /\ \A k \in DOMAIN toPage : ~About(k, s)

\* A sentence begins once, before all else that is said of it.
BeginsComeFirst ==
    \A k \in DOMAIN toPage, s \in Sentence :
        Kind(k, "begin") /\ About(k, s) =>
            /\ heard[s] = 0 /\ ~OnQueue(s)
            /\ \A j \in DOMAIN toPage : About(j, s) => k <= j

QueuedOnce == \A i, j \in DOMAIN queue : queue[i].s = queue[j].s => i = j

\* f numbers the chunks on the way: each is one of those forwarded, after those before
\* it and after those the page has got.
Numbers(f) ==
    \A k \in DOMAIN toPage :
        Kind(k, "audio") =>
            /\ 0 < f[k] /\ f[k] <= spoken[toPage[k].s].forwarded
            /\ \A j \in DOMAIN toPage :
                  Kind(j, "audio") /\ toPage[j].s = toPage[k].s /\ j < k => f[j] < f[k]
            /\ \A i \in DOMAIN queue : queue[i].s = toPage[k].s => queue[i].got < f[k]

ChunksComeOnce == \E f \in [DOMAIN toPage -> Nat] : Numbers(f)

QueueIsForwarded ==
    \A i \in DOMAIN queue :
        /\ heard[queue[i].s] <= queue[i].got
        /\ queue[i].got <= spoken[queue[i].s].forwarded
        /\ queue[i].all => Whole(queue[i].s)

HeardIsForwarded ==
    \A s \in Sentence :
        heard[s] <= spoken[s].forwarded /\ spoken[s].forwarded <= Chunks[s]

\* The end of a sentence that was not forwarded whole comes after its truncation.
EndsAreWhole ==
    \A k \in DOMAIN toPage, s \in Sentence :
        Kind(k, "end") /\ About(k, s) /\ (OnQueue(s) \/ OnTheWay(s)) =>
            Whole(s) \/ \E j \in DOMAIN toPage : j < k /\ Kind(j, "truncate") /\ About(j, s)

ReportsAreTrue ==
    \A i \in DOMAIN toHost :
        /\ toHost[i].n <= heard[toHost[i].s]
        /\ toHost[i].kind = "ended" => Whole(toHost[i].s)

QueueHasTheLease == \A i \in DOMAIN queue : queue[i].token = page.lease

\* While it matters, no later token is on the way than the one told last.
LastTokenIsTold ==
    conn \/ (~missed /\ HasSentences) =>
        \A k \in DOMAIN toPage :
            Kind(k, "token") /\ (\A j \in DOMAIN toPage : Kind(j, "token") => j <= k) =>
                toPage[k].token = permit.told

\* A sentence of the page under another token than the one told last, or one that was
\* cut, is about to be ended by an order that comes after its beginning.
TokensArrive ==
    ~missed =>
        /\ \A i \in DOMAIN queue : queue[i].token = permit.told \/ InFlight("token", toPage)
        /\ \A k \in DOMAIN toPage :
              Kind(k, "begin") =>
                  \/ toPage[k].token = permit.told
                  \/ \E j \in DOMAIN toPage : k < j /\ Kind(j, "token")

CutsArrive ==
    ~missed =>
        \A s \in Sentence : spoken[s].cut =>
            /\ OnQueue(s) => \E j \in DOMAIN toPage : Kind(j, "truncate") /\ About(j, s)
            /\ \A k \in DOMAIN toPage :
                  Kind(k, "begin") /\ About(k, s) =>
                      \E j \in DOMAIN toPage : k < j /\ Kind(j, "truncate") /\ About(j, s)

Counted ==
    /\ NewIsUnheardOf /\ BeginsComeFirst /\ QueuedOnce /\ ChunksComeOnce
    /\ QueueIsForwarded /\ HeardIsForwarded /\ EndsAreWhole /\ ReportsAreTrue

Ordered == QueueHasTheLease /\ LastTokenIsTold /\ TokensArrive /\ CutsArrive

IInv == TypeOK /\ LinkIsTyped /\ PermitIsTold /\ Counted /\ ResultsAreHeard /\ Ordered

-----------------------------------------------------------------------------
(* Sequences.                                                              *)

\* A set of natural numbers that is not empty has a least element.
LEMMA LeastElement ==
    ASSUME NEW S \in SUBSET Nat, S # {} PROVE \E m \in S : \A k \in S : m <= k
<1> DEFINE R == {ss \in Nat \X Nat : ss[1] < ss[2]}
<1>1. IsWellFoundedOn(R, Nat) BY NatLessThanWellFounded, Zenon DEF OpToRel
<1>2. PICK m \in S : \A k \in S : ~(<<k, m>> \in R)
    <2> HIDE DEF R
    <2> QED BY <1>1, WFMin
<1>3. \A k \in S : ~(k < m) BY <1>2
<1> QED BY <1>3

LEMMA Indices ==
    ASSUME NEW S, NEW q \in Seq(S)
    PROVE  /\ Len(q) \in Nat /\ DOMAIN q = 1 .. Len(q) /\ DOMAIN q \subseteq Nat
           /\ \A i \in DOMAIN q : q[i] \in S /\ 0 < i
BY LenProperties, ElementOfSeq

\* The first element goes, the others move up.
LEMMA TailFacts ==
    ASSUME NEW S, NEW q \in Seq(S), q # <<>>
    PROVE  /\ Tail(q) \in Seq(S) /\ Head(q) = q[1] /\ 1 \in DOMAIN q
           /\ \A i \in DOMAIN Tail(q) : i + 1 \in DOMAIN q /\ Tail(q)[i] = q[i + 1]
           /\ \A i \in DOMAIN q : 1 < i => i - 1 \in DOMAIN Tail(q) /\ Tail(q)[i - 1] = q[i]
<1>1. Len(q) \in Nat \ {0} /\ DOMAIN q = 1 .. Len(q) BY EmptySeq, LenProperties
<1>2. /\ Tail(q) \in Seq(S) /\ Len(Tail(q)) = Len(q) - 1 /\ DOMAIN Tail(q) = 1 .. Len(Tail(q))
      /\ \A i \in 1 .. Len(Tail(q)) : Tail(q)[i] = q[i + 1]
    BY HeadTailProperties, LenProperties
<1>3. PICK n \in Nat \ {0} : n = Len(q) BY <1>1
<1>4. DOMAIN q = 1 .. n /\ DOMAIN Tail(q) = 1 .. n - 1 BY <1>1, <1>2, <1>3
<1>5. \A i \in 1 .. n : 1 < i => i - 1 \in 1 .. n - 1 /\ (i - 1) + 1 = i BY <1>3
<1>6. \A i \in 1 .. n - 1 : i + 1 \in 1 .. n BY <1>3
<1> QED BY <1>1, <1>2, <1>3, <1>4, <1>5, <1>6

LEMMA ConcatFacts ==
    ASSUME NEW S, NEW p \in Seq(S), NEW q \in Seq(S)
    PROVE  /\ p \o q \in Seq(S)
           /\ \A i \in DOMAIN p : i \in DOMAIN (p \o q) /\ (p \o q)[i] = p[i]
           /\ \A i \in DOMAIN q :
                 Len(p) + i \in DOMAIN (p \o q) /\ (p \o q)[Len(p) + i] = q[i]
           /\ \A i \in DOMAIN (p \o q) :
                 i \in DOMAIN p \/ \E j \in DOMAIN q : i = Len(p) + j
<1> DEFINE r == p \o q
<1>1. PICK m \in Nat, n \in Nat : m = Len(p) /\ n = Len(q) BY LenProperties
<1>2. /\ r \in Seq(S) /\ Len(r) = m + n
      /\ \A i \in 1 .. m + n : r[i] = IF i <= m THEN p[i] ELSE q[i - m]
    BY <1>1, ConcatProperties
<1> HIDE DEF r
<1>3. DOMAIN p = 1 .. m /\ DOMAIN q = 1 .. n /\ DOMAIN r = 1 .. m + n
    BY <1>1, <1>2, LenProperties
<1>4. \A i \in 1 .. m : i \in 1 .. m + n /\ i <= m BY <1>1
<1>5. \A i \in 1 .. n : m + i \in 1 .. m + n /\ ~(m + i <= m) /\ (m + i) - m = i BY <1>1
<1>6. \A i \in 1 .. m + n : i \in 1 .. m \/ (i - m \in 1 .. n /\ i = m + (i - m)) BY <1>1
<1>7. \A i \in DOMAIN p : i \in DOMAIN r /\ r[i] = p[i] BY <1>2, <1>3, <1>4
<1>8. \A i \in DOMAIN q : m + i \in DOMAIN r /\ r[m + i] = q[i] BY <1>2, <1>3, <1>5
<1>9. \A i \in DOMAIN r : i \in DOMAIN p \/ \E j \in DOMAIN q : i = m + j BY <1>3, <1>6
<1> QED BY <1>1, <1>2, <1>7, <1>8, <1>9 DEF r

LEMMA PrefixFacts ==
    ASSUME NEW S, NEW q \in Seq(S), NEW p \in Prefixes(q)
    PROVE  /\ p \in Seq(S)
           /\ \A i \in DOMAIN p : i \in DOMAIN q /\ p[i] = q[i]
           /\ \A i \in DOMAIN p, j \in DOMAIN q : j < i => j \in DOMAIN p
           /\ Len(p) \in Nat /\ \A i \in DOMAIN q : i \in DOMAIN p \/ i \in Len(p) + 1 .. Len(q)
<1>1. PICK n \in 0 .. Len(q) : p = SubSeq(q, 1, n) BY DEF Prefixes
<1>2. PICK len \in Nat : len = Len(q) /\ DOMAIN q = 1 .. len BY LenProperties
<1>3. n \in 0 .. len /\ n \in Int /\ \A i \in 1 .. n : q[i] \in S
    BY <1>1, <1>2, ElementOfSeq
<1>4. /\ p \in Seq(S) /\ Len(p) = IF 1 <= n THEN n - 1 + 1 ELSE 0
      /\ \A i \in 1 .. n - 1 + 1 : p[i] = q[1 + i - 1]
    BY <1>1, <1>3, SubSeqProperties
<1>5. n - 1 + 1 = n /\ \A i \in 1 .. n : 1 + i - 1 = i BY <1>3
<1>6. Len(p) = n /\ \A i \in 1 .. n : p[i] = q[i] BY <1>3, <1>4, <1>5
<1>7. DOMAIN p = 1 .. n BY <1>4, <1>6, LenProperties
<1> QED BY <1>2, <1>3, <1>4, <1>6, <1>7
-----------------------------------------------------------------------------
(* Messages and what is derived from them.                                 *)

\* What is on the way to the page stays, or is lost from its end.
StillOnTheWay ==
    /\ toPage' \in Seq(PageMessage)
    /\ \A k \in DOMAIN toPage' : k \in DOMAIN toPage /\ toPage'[k] = toPage[k]
    /\ \A k \in DOMAIN toPage', j \in DOMAIN toPage : j < k => j \in DOMAIN toPage'

StillOnQueue ==
    /\ QueuedOnce'
    /\ \A i \in DOMAIN queue' : \E j \in DOMAIN queue : queue'[i] = queue[j]

\* Sentences are forwarded further, and no sentence becomes a new one.
GoesForward ==
    \A s \in Sentence :
        /\ spoken'[s].state = "new" => spoken'[s] = spoken[s]
        /\ spoken[s].forwarded <= spoken'[s].forwarded /\ spoken'[s].forwarded <= Chunks[s]

\* The orders on the way are all those there were, and nobody gave another.
NoOrderLost ==
    /\ \A k \in DOMAIN toPage : Order(toPage[k].kind) => k \in DOMAIN toPage'
    /\ permit'.told = permit.told
    /\ \A s \in Sentence : spoken'[s].cut => spoken[s].cut

LEMMA ForwardedIsNat ==
    ASSUME TypeOK
    PROVE  \A s \in Sentence : spoken[s].forwarded \in Nat /\ heard[s] \in Nat /\ Chunks[s] \in Nat
BY StageAssumption DEF TypeOK, Spoken

LEMMA WholeStays ==
    ASSUME TypeOK, TypeOK', HeardIsForwarded, GoesForward
    PROVE  \A s \in Sentence : Whole(s) => spoken'[s].forwarded = Chunks[s]
<1>1. \A s \in Sentence : spoken[s].forwarded \in Nat /\ spoken'[s].forwarded \in Nat /\ Chunks[s] \in Nat
    BY StageAssumption DEF TypeOK, Spoken
<1> QED BY <1>1 DEF GoesForward, Whole

LEMMA MessageFacts ==
    ASSUME LinkIsTyped
    PROVE  /\ DOMAIN toPage \subseteq Nat /\ DOMAIN toHost \subseteq Nat
           /\ \A k \in DOMAIN toPage : toPage[k] \in PageMessage
           /\ \A k \in DOMAIN toPage : toPage[k].kind # "token" => toPage[k].s \in Sentence
           /\ \A k \in DOMAIN toPage :
                 Kind(k, "audio") \/ Kind(k, "begin") =>
                    toPage[k].s \in Sentence /\ toPage[k].token \in Token
           /\ \A i \in DOMAIN toHost : toHost[i].s \in Sentence /\ toHost[i].n \in Nat
<1>1. DOMAIN toPage \subseteq Nat /\ \A k \in DOMAIN toPage : toPage[k] \in PageMessage
    BY Indices DEF LinkIsTyped
<1>2. DOMAIN toHost \subseteq Nat /\ \A k \in DOMAIN toHost : toHost[k] \in HostMessage
    BY Indices DEF LinkIsTyped
<1>3. \A m \in PageMessage :
         /\ m.kind # "token" => m.s \in Sentence
         /\ m.kind \in {"begin", "audio", "end"} => m.token \in Token
    BY DEF PageMessage
<1>4. \A m \in HostMessage : m.s \in Sentence /\ m.n \in Nat BY DEF HostMessage
<1> QED BY <1>1, <1>2, <1>3, <1>4 DEF About, Kind

LEMMA QueueFacts ==
    ASSUME TypeOK
    PROVE  /\ DOMAIN queue \subseteq Nat
           /\ \A i \in DOMAIN queue :
                 /\ queue[i] \in Queued /\ queue[i].s \in Sentence
                 /\ queue[i].token \in Token /\ queue[i].got \in Nat
<1>1. queue \in Seq(Queued) BY DEF TypeOK
<1>2. DOMAIN queue \subseteq Nat /\ \A i \in DOMAIN queue : queue[i] \in Queued BY <1>1, Indices
<1>3. \A q \in Queued : q.s \in Sentence /\ q.token \in Token /\ q.got \in Nat BY DEF Queued
<1> QED BY <1>2, <1>3

LEMMA ForwardedStays ==
    ASSUME TypeOK, TypeOK', QueueIsForwarded, HeardIsForwarded, StillOnQueue, GoesForward,
           heard' = heard
    PROVE  QueueIsForwarded' /\ HeardIsForwarded'
<1>1. \A s \in Sentence :
         /\ spoken[s].forwarded \in Nat /\ spoken'[s].forwarded \in Nat
         /\ heard[s] \in Nat /\ Chunks[s] \in Nat
    BY StageAssumption DEF TypeOK, Spoken
<1>2. \A s \in Sentence : Whole(s) => spoken'[s].forwarded = Chunks[s] BY WholeStays
<1>3. QueueIsForwarded'
    <2> SUFFICES ASSUME NEW i \in DOMAIN queue'
                 PROVE  /\ heard'[queue'[i].s] <= queue'[i].got
                        /\ queue'[i].got <= spoken'[queue'[i].s].forwarded
                        /\ queue'[i].all => spoken'[queue'[i].s].forwarded = Chunks[queue'[i].s]
        BY DEF QueueIsForwarded, Whole
    <2>1. PICK j \in DOMAIN queue : queue'[i] = queue[j] BY DEF StillOnQueue
    <2>2. queue[j].s \in Sentence /\ queue[j].got \in Nat BY QueueFacts
    <2>3. /\ heard[queue[j].s] <= queue[j].got
          /\ queue[j].got <= spoken[queue[j].s].forwarded
          /\ queue[j].all => Whole(queue[j].s)
        BY DEF QueueIsForwarded
    <2>4. queue[j].got <= spoken'[queue[j].s].forwarded
        BY <1>1, <2>2, <2>3 DEF GoesForward
    <2>5. queue[j].all => spoken'[queue[j].s].forwarded = Chunks[queue[j].s]
        BY <1>2, <2>2, <2>3
    <2> QED BY <2>1, <2>3, <2>4, <2>5
<1>4. HeardIsForwarded'
    <2> SUFFICES ASSUME NEW s \in Sentence
                 PROVE  heard'[s] <= spoken'[s].forwarded /\ spoken'[s].forwarded <= Chunks[s]
        BY DEF HeardIsForwarded
    <2>1. heard[s] <= spoken[s].forwarded BY DEF HeardIsForwarded
    <2> QED BY <1>1, <2>1 DEF GoesForward
<1> QED BY <1>3, <1>4

\* The counts of what was forwarded, got and heard stay true while messages and sentences
\* are only lost and more is forwarded.
LEMMA CountedShrinks ==
    ASSUME TypeOK, TypeOK', LinkIsTyped, Counted, StillOnTheWay, StillOnQueue, GoesForward,
           heard' = heard, ReportsAreTrue'
    PROVE  Counted'
<1>1. \A s \in Sentence :
         /\ spoken[s].forwarded \in Nat /\ spoken'[s].forwarded \in Nat
         /\ heard[s] \in Nat /\ Chunks[s] \in Nat
    BY StageAssumption DEF TypeOK, Spoken
<1>2. \A s \in Sentence : Whole(s) => spoken'[s].forwarded = Chunks[s]
    BY WholeStays DEF Counted
<1>3. \A s : OnQueue(s)' => OnQueue(s) BY DEF StillOnQueue, OnQueue
<1>4. \A s : OnTheWay(s)' => OnTheWay(s) BY DEF StillOnTheWay, OnTheWay, Kind, About
<1>5. \A k \in DOMAIN toPage' :
         /\ k \in DOMAIN toPage /\ toPage'[k] = toPage[k]
         /\ \A kind : Kind(k, kind)' <=> Kind(k, kind)
         /\ \A s : About(k, s)' <=> About(k, s)
    BY DEF StillOnTheWay, Kind, About
<1>6. NewIsUnheardOf'
    BY <1>3, <1>5 DEF Counted, NewIsUnheardOf, GoesForward
<1>7. BeginsComeFirst'
    BY <1>3, <1>5 DEF Counted, BeginsComeFirst
<1>8. QueuedOnce' BY DEF StillOnQueue
<1>9. ChunksComeOnce'
    <2>1. PICK f \in [DOMAIN toPage -> Nat] : Numbers(f) BY DEF Counted, ChunksComeOnce
    <2>2. PICK g \in [DOMAIN toPage' -> Nat] : \A k \in DOMAIN toPage' : g[k] = f[k]
        <3>1. [k \in DOMAIN toPage' |-> f[k]] \in [DOMAIN toPage' -> Nat] BY <1>5, <2>1
        <3> QED BY <3>1
    <2>3. Numbers(g)'
        <3> SUFFICES ASSUME NEW k \in DOMAIN toPage', Kind(k, "audio")'
                     PROVE  /\ 0 < g[k] /\ g[k] <= spoken'[toPage'[k].s].forwarded
                            /\ \A j \in DOMAIN toPage' :
                                  Kind(j, "audio")' /\ toPage'[j].s = toPage'[k].s /\ j < k
                                     => g[j] < g[k]
                            /\ \A i \in DOMAIN queue' :
                                  queue'[i].s = toPage'[k].s => queue'[i].got < g[k]
            BY DEF Numbers
        <3>1. k \in DOMAIN toPage /\ toPage'[k] = toPage[k] /\ Kind(k, "audio") BY <1>5
        <3>2. toPage[k].s \in Sentence BY <3>1, MessageFacts
        <3>3. /\ 0 < f[k] /\ f[k] <= spoken[toPage[k].s].forwarded /\ f[k] \in Nat
              /\ \A j \in DOMAIN toPage :
                    Kind(j, "audio") /\ toPage[j].s = toPage[k].s /\ j < k => f[j] < f[k]
              /\ \A i \in DOMAIN queue : queue[i].s = toPage[k].s => queue[i].got < f[k]
            BY <2>1, <3>1 DEF Numbers
        <3>4. g[k] <= spoken'[toPage'[k].s].forwarded
            BY <1>1, <2>2, <3>1, <3>2, <3>3 DEF GoesForward
        <3>5. \A j \in DOMAIN toPage' :
                 Kind(j, "audio")' /\ toPage'[j].s = toPage'[k].s /\ j < k => g[j] < g[k]
            BY <1>5, <2>2, <3>1, <3>3
        <3>6. \A i \in DOMAIN queue' : queue'[i].s = toPage'[k].s => queue'[i].got < g[k]
            BY <2>2, <3>1, <3>3 DEF StillOnQueue
        <3> QED BY <2>2, <3>3, <3>4, <3>5, <3>6
    <2> QED BY <2>2, <2>3 DEF ChunksComeOnce
<1>10. QueueIsForwarded' /\ HeardIsForwarded' BY ForwardedStays DEF Counted
<1>12. EndsAreWhole'
    <2> SUFFICES ASSUME NEW k \in DOMAIN toPage', NEW s \in Sentence,
                        Kind(k, "end")', About(k, s)', OnQueue(s)' \/ OnTheWay(s)',
                        spoken'[s].forwarded # Chunks[s]
                 PROVE  \E j \in DOMAIN toPage' : j < k /\ Kind(j, "truncate")' /\ About(j, s)'
        BY DEF EndsAreWhole, Whole
    <2>1. PICK j \in DOMAIN toPage : j < k /\ Kind(j, "truncate") /\ About(j, s)
        BY <1>2, <1>3, <1>4, <1>5 DEF Counted, EndsAreWhole
    <2>2. j \in DOMAIN toPage' BY <2>1 DEF StillOnTheWay
    <2> QED BY <1>5, <2>1, <2>2
<1> QED
    BY <1>6, <1>7, <1>8, <1>9, <1>10, <1>12 DEF Counted

\* The orders stay what they are if, as long as it matters, none is lost.
LEMMA OrderedShrinks ==
    ASSUME TypeOK, LinkIsTyped, Ordered, StillOnTheWay, StillOnQueue, QueueHasTheLease',
           conn' => toPage' = <<>> \/ (conn /\ toPage' = toPage /\ permit'.told = permit.told),
           ~missed' /\ HasSentences' => ~missed /\ HasSentences /\ NoOrderLost
    PROVE  Ordered'
<1>1. \A k \in DOMAIN toPage' :
         /\ k \in DOMAIN toPage /\ toPage'[k] = toPage[k]
         /\ \A kind : Kind(k, kind)' <=> Kind(k, kind)
         /\ \A s : About(k, s)' <=> About(k, s)
    BY DEF StillOnTheWay, Kind, About
<1>2. \A s : OnQueue(s)' => OnQueue(s) BY DEF StillOnQueue, OnQueue
<1>3. \A k \in DOMAIN toPage :
         NoOrderLost /\ (Kind(k, "token") \/ Kind(k, "truncate")) =>
            k \in DOMAIN toPage'
    BY DEF NoOrderLost, Order, Kind
<1>4. LastTokenIsTold'
    <2> SUFFICES ASSUME NEW k \in DOMAIN toPage', Kind(k, "token")',
                        \A j \in DOMAIN toPage' : Kind(j, "token")' => j <= k,
                        conn' \/ (~missed' /\ HasSentences')
                 PROVE  toPage'[k].token = permit'.told
        BY DEF LastTokenIsTold
    <2>1. toPage' # <<>> BY DEF StillOnTheWay
    <2>2. CASE conn'
        <3>1. conn /\ toPage' = toPage /\ permit'.told = permit.told BY <2>1, <2>2
        <3> QED BY <1>1, <3>1 DEF Ordered, LastTokenIsTold
    <2>3. CASE ~missed' /\ HasSentences'
        <3>1. ~missed /\ HasSentences /\ NoOrderLost BY <2>3
        <3>2. \A j \in DOMAIN toPage : Kind(j, "token") => j <= k BY <1>1, <1>3, <3>1
        <3>3. toPage[k].token = permit.told BY <1>1, <3>1, <3>2 DEF Ordered, LastTokenIsTold
        <3> QED BY <1>1, <3>1, <3>3 DEF NoOrderLost
    <2> QED BY <2>2, <2>3
<1>5. \A k \in DOMAIN toPage' : Kind(k, "begin")' => HasSentences'
    BY DEF HasSentences, InFlight, Kind
<1>6. \A i \in DOMAIN queue' : HasSentences' BY DEF HasSentences
<1>7. TokensArrive'
    <2> SUFFICES ASSUME ~missed'
                 PROVE  /\ \A i \in DOMAIN queue' :
                              \/ queue'[i].token = permit'.told
                              \/ \E j \in DOMAIN toPage' : Kind(j, "token")'
                        /\ \A k \in DOMAIN toPage' :
                              Kind(k, "begin")' =>
                                 \/ toPage'[k].token = permit'.told
                                 \/ \E j \in DOMAIN toPage' : k < j /\ Kind(j, "token")'
        BY DEF TokensArrive, InFlight, Kind
    <2>1. ASSUME NEW i \in DOMAIN queue'
          PROVE  queue'[i].token = permit'.told \/ \E j \in DOMAIN toPage' : Kind(j, "token")'
        <3>1. ~missed /\ NoOrderLost BY <1>6, <2>1
        <3>2. PICK j \in DOMAIN queue : queue'[i] = queue[j] BY <2>1 DEF StillOnQueue
        <3>3. queue[j].token = permit.told \/ \E l \in DOMAIN toPage : Kind(l, "token")
            BY <3>1 DEF Ordered, TokensArrive, InFlight, Kind
        <3> QED BY <1>1, <1>3, <3>1, <3>2, <3>3 DEF NoOrderLost
    <2>2. ASSUME NEW k \in DOMAIN toPage', Kind(k, "begin")'
          PROVE  \/ toPage'[k].token = permit'.told
                 \/ \E j \in DOMAIN toPage' : k < j /\ Kind(j, "token")'
        <3>1. ~missed /\ NoOrderLost BY <1>5, <2>2
        <3>2. toPage[k].token = permit.told \/ \E l \in DOMAIN toPage : k < l /\ Kind(l, "token")
            BY <1>1, <2>2, <3>1 DEF Ordered, TokensArrive
        <3> QED BY <1>1, <1>3, <3>1, <3>2 DEF NoOrderLost
    <2> QED BY <2>1, <2>2
<1>8. CutsArrive'
    <2> SUFFICES ASSUME ~missed', NEW s \in Sentence, spoken'[s].cut
                 PROVE  /\ OnQueue(s)' =>
                              \E j \in DOMAIN toPage' : Kind(j, "truncate")' /\ About(j, s)'
                        /\ \A k \in DOMAIN toPage' :
                              Kind(k, "begin")' /\ About(k, s)' =>
                                 \E j \in DOMAIN toPage' :
                                    k < j /\ Kind(j, "truncate")' /\ About(j, s)'
        BY DEF CutsArrive
    <2>1. OnQueue(s)' => HasSentences' BY <1>6 DEF OnQueue
    <2>2. ASSUME OnQueue(s)'
          PROVE  \E j \in DOMAIN toPage' : Kind(j, "truncate")' /\ About(j, s)'
        <3>1. ~missed /\ NoOrderLost /\ spoken[s].cut BY <2>1, <2>2 DEF NoOrderLost
        <3>2. PICK j \in DOMAIN toPage : Kind(j, "truncate") /\ About(j, s)
            BY <1>2, <2>2, <3>1 DEF Ordered, CutsArrive
        <3> QED BY <1>1, <1>3, <3>1, <3>2
    <2>3. ASSUME NEW k \in DOMAIN toPage', Kind(k, "begin")', About(k, s)'
          PROVE  \E j \in DOMAIN toPage' : k < j /\ Kind(j, "truncate")' /\ About(j, s)'
        <3>1. ~missed /\ NoOrderLost /\ spoken[s].cut BY <1>5, <2>3 DEF NoOrderLost
        <3>2. PICK j \in DOMAIN toPage : k < j /\ Kind(j, "truncate") /\ About(j, s)
            BY <1>1, <2>3, <3>1 DEF Ordered, CutsArrive
        <3> QED BY <1>1, <1>3, <3>1, <3>2
    <2> QED BY <2>2, <2>3
<1> QED BY <1>4, <1>7, <1>8 DEF Ordered
-----------------------------------------------------------------------------
(* Steps that leave what is on the way to the page, and on the page, alone. *)

\* A sentence is left as it is, or ends, or is reported.
Settles ==
    \A s \in Sentence :
        \/ spoken'[s] = spoken[s]
        \/ /\ spoken'[s].state # "new"
           /\ spoken'[s].forwarded = spoken[s].forwarded
           /\ spoken'[s].cut = spoken[s].cut

LEMMA SettlingGoesForward ==
    ASSUME TypeOK, HeardIsForwarded, Settles PROVE GoesForward
<1>1. \A s \in Sentence :
         spoken'[s].forwarded = spoken[s].forwarded /\ spoken[s].forwarded \in Nat
    BY ForwardedIsNat DEF Settles
<1> QED BY <1>1 DEF Settles, GoesForward, HeardIsForwarded

\* Reports are read, or lost from the end of what is on the way.
StillReported ==
    /\ toHost' \in Seq(HostMessage)
    /\ \A i \in DOMAIN toHost' : \E j \in DOMAIN toHost : toHost'[i] = toHost[j]

LEMMA ReportsStayTrue ==
    ASSUME TypeOK, TypeOK', LinkIsTyped, ReportsAreTrue, HeardIsForwarded, StillReported,
           GoesForward, \A s \in Sentence : heard'[s] >= heard[s]
    PROVE  ReportsAreTrue'
<1> SUFFICES ASSUME NEW i \in DOMAIN toHost'
             PROVE  /\ toHost'[i].n <= heard'[toHost'[i].s]
                    /\ toHost'[i].kind = "ended" =>
                          spoken'[toHost'[i].s].forwarded = Chunks[toHost'[i].s]
    BY DEF ReportsAreTrue, Whole
<1>1. PICK j \in DOMAIN toHost : toHost'[i] = toHost[j] BY DEF StillReported
<1>2. toHost[j].s \in Sentence /\ toHost[j].n \in Nat BY MessageFacts
<1>3. toHost[j].n <= heard[toHost[j].s] /\ (toHost[j].kind = "ended" => Whole(toHost[j].s))
    BY DEF ReportsAreTrue
<1>4. heard[toHost[j].s] \in Nat /\ heard'[toHost[j].s] \in Nat BY <1>2 DEF TypeOK
<1>5. toHost[j].n <= heard'[toHost[j].s] BY <1>2, <1>3, <1>4
<1> QED BY <1>1, <1>2, <1>3, <1>5, WholeStays

LEMMA UnchangedStays ==
    ASSUME IInv, UNCHANGED <<toPage, queue>> PROVE StillOnTheWay /\ StillOnQueue
BY DEF IInv, LinkIsTyped, Counted, StillOnTheWay, StillOnQueue, QueuedOnce

LEMMA HeardIsNotLess ==
    ASSUME TypeOK, heard' = heard PROVE \A s \in Sentence : heard'[s] >= heard[s]
BY ForwardedIsNat

LEMMA QuietKeeps ==
    ASSUME IInv, TypeOK', UNCHANGED <<toPage, queue, heard, missed>>, StillReported,
           page'.socket = page.socket, page'.lease = page.lease,
           conn' = conn, conn => session',
           permit'.told = permit.told,
           permit'.valid => permit.valid /\ permit'.count = permit.count,
           Settles, ResultsAreHeard'
    PROVE  IInv'
<1>1. TypeOK /\ LinkIsTyped /\ PermitIsTold /\ Counted /\ Ordered BY DEF IInv
<1>2. GoesForward BY <1>1, SettlingGoesForward DEF Counted
<1>3. ReportsAreTrue' BY <1>1, <1>2, ReportsStayTrue, HeardIsNotLess DEF Counted
<1>4. StillOnTheWay /\ StillOnQueue BY UnchangedStays
<1>5. Counted' BY <1>1, <1>2, <1>3, <1>4, CountedShrinks
<1>6. QueueHasTheLease' BY <1>1 DEF Ordered, QueueHasTheLease
<1>7. NoOrderLost
    <2>1. \A s \in Sentence : spoken'[s].cut => spoken[s].cut BY DEF Settles
    <2> QED BY <2>1 DEF NoOrderLost
<1>8. HasSentences' = HasSentences BY DEF HasSentences, InFlight
<1>9. conn' => conn /\ toPage' = toPage /\ permit'.told = permit.told OBVIOUS
<1>10. Ordered' BY <1>1, <1>4, <1>6, <1>7, <1>8, <1>9, OrderedShrinks
<1>11. LinkIsTyped' BY <1>1 DEF LinkIsTyped, StillReported
<1>12. PermitIsTold' BY <1>1 DEF PermitIsTold
<1> QED BY <1>5, <1>10, <1>11, <1>12 DEF IInv

LEMMA SameReports == ASSUME IInv, toHost' = toHost PROVE StillReported
BY DEF IInv, LinkIsTyped, StillReported

LEMMA SameSentences ==
    ASSUME IInv, spoken' = spoken, heard' = heard PROVE Settles /\ ResultsAreHeard'
BY DEF IInv, Settles, ResultsAreHeard

LEMMA FinishedFacts ==
    ASSUME NEW x \in Spoken, NEW n \in Nat, NEW complete \in BOOLEAN
    PROVE  LET y == Finished(x, n, complete)
           IN  /\ y \in Spoken /\ y.forwarded = x.forwarded /\ y.cut = x.cut
               /\ x.state # "playing" => y = x
               /\ x.state = "playing" => y.state = "done" /\ y.played = n /\ y.complete = complete
BY DEF Finished, Spoken

\* Every sentence ends with what was reported.
LEMMA AllFinished ==
    ASSUME IInv, heard' = heard,
           spoken' = [s \in Sentence |-> Finished(spoken[s], spoken[s].played, FALSE)]
    PROVE  spoken' \in [Sentence -> Spoken] /\ Settles /\ ResultsAreHeard'
<1>1. \A s \in Sentence : spoken[s] \in Spoken /\ spoken[s].played \in Nat
    BY DEF IInv, TypeOK, Spoken
<1>2. \A s \in Sentence :
         /\ spoken'[s] \in Spoken /\ spoken'[s].forwarded = spoken[s].forwarded
         /\ spoken'[s].cut = spoken[s].cut
         /\ spoken[s].state # "playing" => spoken'[s] = spoken[s]
         /\ spoken[s].state = "playing" =>
               /\ spoken'[s].state = "done" /\ spoken'[s].played = spoken[s].played
               /\ ~spoken'[s].complete
    <2> TAKE s \in Sentence
    <2>1. spoken'[s] = Finished(spoken[s], spoken[s].played, FALSE) OBVIOUS
    <2> QED BY <1>1, <2>1 DEF Finished, Spoken
<1>3. Settles BY <1>2 DEF Settles
<1>4. ResultsAreHeard' BY <1>2 DEF IInv, ResultsAreHeard
<1>5. spoken' \in [Sentence -> Spoken] BY <1>2
<1> QED BY <1>3, <1>4, <1>5

LEMMA PermitKeeps ==
    ASSUME IInv, GoOutput \/ Expire \/ StopOutput
    PROVE  IInv'
<1>1. /\ UNCHANGED <<service, spoken, session, conn, toPage, toHost, page, queue, heard, missed,
                     gap, absent, breaks, stalls>>
      /\ permit' = permit \/ permit' = [permit EXCEPT !.valid = FALSE]
      /\ output' \in BOOLEAN
    BY DEF IInv, TypeOK, GoOutput, Expire, StopOutput, PermitOnly, HostOnly, linkSide, pageSide,
           sights, bounds
<1>2. /\ permit' \in [count : Token, valid : BOOLEAN, told : Token]
      /\ permit'.told = permit.told
      /\ permit'.valid => permit.valid /\ permit'.count = permit.count
    BY <1>1 DEF IInv, TypeOK
<1>3. TypeOK' BY <1>1, <1>2 DEF IInv, TypeOK
<1>4. conn => session' BY <1>1 DEF IInv, LinkIsTyped
<1> QED BY <1>1, <1>2, <1>3, <1>4, QuietKeeps, SameReports, SameSentences

LEMMA BeatsKeep ==
    ASSUME IInv, BeatSteps \/ Stall
    PROVE  IInv'
<1>1. /\ UNCHANGED <<output, permit, session, conn, toPage, toHost, queue, heard, missed>>
      /\ UNCHANGED gap /\ absent' \in BOOLEAN
      /\ page' = page \/ page' = [page EXCEPT !.muted = FALSE]
      /\ \/ spoken' = spoken
         \/ spoken' = [s \in Sentence |-> Finished(spoken[s], spoken[s].played, FALSE)]
    BY DEF IInv, TypeOK, BeatSteps, Beat, BeatWithoutPage, BeatLate, PageFails, Stall, SendBeat,
           Beats, linkSide, bounds, pageSide, sights, Responsive
<1>2. service' \in Service
    <2>1. service \in Service /\ Patience \in Nat BY StageAssumption DEF IInv, TypeOK
    <2>2. service.silence \in 0 .. Patience + 1 BY <2>1 DEF Service
    <2>3. ASSUME Beat PROVE service' \in Service
        <3>1. service.silence + 1 \in 0 .. Patience + 1 BY <2>1, <2>2, <2>3 DEF Beat
        <3>2. PICK n \in 0 .. Patience + 1 : n = IF Responsive THEN 0 ELSE service.silence + 1
            BY <2>1, <3>1
        <3>3. service' = [service EXCEPT !.silence = n, !.late = FALSE]
            BY <2>3, <3>2 DEF Beat, SendBeat
        <3> QED BY <2>1, <3>2, <3>3 DEF Service
    <2>4. 0 \in 0 .. Patience + 1 /\ Patience + 1 \in 0 .. Patience + 1 BY <2>1
    <2>5. ASSUME BeatWithoutPage \/ BeatLate \/ PageFails PROVE service' \in Service
        BY <2>1, <2>4, <2>5 DEF BeatWithoutPage, BeatLate, PageFails, SendBeat, Service
    <2>6. ASSUME Stall PROVE service' \in Service
        <3>1. PICK n \in 0 .. Patience + 1 : n = Patience + 1 BY <2>4
        <3>2. service' = [service EXCEPT !.silence = n, !.late = TRUE] BY <2>6, <3>1 DEF Stall
        <3> QED BY <2>1, <3>1, <3>2 DEF Service
    <2> QED BY <2>3, <2>5, <2>6 DEF BeatSteps
<1>3. page' \in Page /\ page'.socket = page.socket /\ page'.lease = page.lease
    BY <1>1 DEF IInv, TypeOK, Page
<1>4. spoken' \in [Sentence -> Spoken] /\ Settles /\ ResultsAreHeard'
    BY <1>1, AllFinished, SameSentences DEF IInv, TypeOK
<1>5. TypeOK' BY <1>1, <1>2, <1>3, <1>4 DEF IInv, TypeOK
<1>6. conn => session' BY <1>1 DEF IInv, LinkIsTyped
<1>7. permit'.valid => permit.valid /\ permit'.count = permit.count BY <1>1
<1> QED BY <1>1, <1>3, <1>4, <1>5, <1>6, <1>7, QuietKeeps, SameReports

LEMMA HangKeeps ==
    ASSUME IInv, Hang \/ GoesOn \/ HostSeesClose
    PROVE  IInv'
<1>1. /\ UNCHANGED <<output, permit, service, spoken, conn, toPage, toHost, queue, heard, missed,
                     gap, absent>>
      /\ page' = page \/ page' = [page EXCEPT !.hung = TRUE] \/ page' = [page EXCEPT !.hung = FALSE]
      /\ session' = session \/ (session' = FALSE /\ ~conn)
    BY DEF Hang, GoesOn, HostSeesClose, WorkletOnly, PageOnly, hostSide, linkSide, pageSide,
           sights, bounds
<1>2. page' \in Page /\ page'.socket = page.socket /\ page'.lease = page.lease
    BY <1>1 DEF IInv, TypeOK, Page
<1>3. TypeOK' BY <1>1, <1>2 DEF IInv, TypeOK
<1>4. conn => session' BY <1>1 DEF IInv, LinkIsTyped
<1>5. permit'.valid => permit.valid /\ permit'.count = permit.count BY <1>1
<1> QED
    BY <1>1, <1>2, <1>3, <1>4, <1>5, QuietKeeps, SameReports, SameSentences
-----------------------------------------------------------------------------
(* Reports.                                                                *)

LEMMA ReportKeeps ==
    ASSUME IInv, NEW s \in Sentence, NEW y \in Spoken,
           StillReported, spoken' = [spoken EXCEPT ![s] = y],
           \/ y = spoken[s]
           \/ /\ y.state # "new" /\ y.forwarded = spoken[s].forwarded /\ y.cut = spoken[s].cut
              /\ y.played <= heard[s] /\ (y.complete => heard[s] = Chunks[s]),
           UNCHANGED <<output, permit, service, session, conn, toPage, page, queue, heard, missed,
                       gap, absent>>
    PROVE  IInv'
<1>1. \A t \in Sentence : spoken'[t] = IF t = s THEN y ELSE spoken[t]
    BY DEF IInv, TypeOK
<1>2. TypeOK' BY DEF IInv, TypeOK
<1>3. Settles BY <1>1 DEF Settles
<1>4. ResultsAreHeard' BY <1>1 DEF IInv, ResultsAreHeard
<1>5. conn => session' BY DEF IInv, LinkIsTyped
<1> QED BY <1>2, <1>3, <1>4, <1>5, QuietKeeps

\* What the host reads next.
LEMMA ReadsFacts ==
    ASSUME IInv, NEW kind, Reads(kind)
    PROVE  /\ StillReported
           /\ UNCHANGED <<output, permit, service, session, conn, toPage, page, queue, heard,
                          missed, gap, absent>>
           /\ Head(toHost).s \in Sentence /\ Head(toHost).n \in Nat /\ Head(toHost).kind = kind
           /\ Head(toHost).n <= heard[Head(toHost).s]
           /\ kind = "ended" => Whole(Head(toHost).s)
<1>1. /\ toHost # <<>> /\ Head(toHost).kind = kind /\ toHost' = Tail(toHost)
      /\ UNCHANGED <<output, permit, service, session, conn, toPage, page, queue, heard, missed,
                     gap, absent>>
    BY DEF Reads, HostOnly, linkSide, pageSide, sights, bounds
<1>2. toHost \in Seq(HostMessage) /\ LinkIsTyped BY DEF IInv, LinkIsTyped
<1>3. /\ Tail(toHost) \in Seq(HostMessage) /\ Head(toHost) = toHost[1] /\ 1 \in DOMAIN toHost
      /\ \A i \in DOMAIN Tail(toHost) :
            i + 1 \in DOMAIN toHost /\ Tail(toHost)[i] = toHost[i + 1]
    BY <1>1, <1>2, TailFacts
<1>4. StillReported BY <1>1, <1>3 DEF StillReported
<1>5. toHost[1].s \in Sentence /\ toHost[1].n \in Nat BY <1>2, <1>3, MessageFacts
<1>6. toHost[1].n <= heard[toHost[1].s] /\ (toHost[1].kind = "ended" => Whole(toHost[1].s))
    BY <1>3 DEF IInv, Counted, ReportsAreTrue
<1> QED BY <1>1, <1>3, <1>4, <1>5, <1>6

LEMMA HostReadsKeeps ==
    ASSUME IInv, HostReads
    PROVE  IInv'
<1> DEFINE m == Head(toHost)
<1>1. ASSUME NEW kind \in {"cursor", "ended", "truncated"}, Reads(kind),
             NEW y, y = CASE kind = "cursor" -> Cursor(spoken[m.s], m.n)
                          [] kind = "ended" -> Ended(spoken[m.s], m.n)
                          [] kind = "truncated" -> Cut(spoken[m.s], m.n),
             spoken' = spoken \/ spoken' = [spoken EXCEPT ![m.s] = y]
      PROVE  IInv'
    <2>1. /\ StillReported
          /\ UNCHANGED <<output, permit, service, session, conn, toPage, page, queue, heard,
                         missed, gap, absent>>
          /\ m.s \in Sentence /\ m.n \in Nat /\ m.kind = kind
          /\ m.n <= heard[m.s] /\ (kind = "ended" => Whole(m.s))
        BY <1>1, ReadsFacts
    <2> HIDE DEF m
    <2>2. PICK s \in Sentence, n \in Nat : s = m.s /\ n = m.n BY <2>1
    <2>3. spoken \in [Sentence -> Spoken] BY DEF IInv, TypeOK
    <2>4. PICK x \in Spoken : x = spoken[s] BY <2>3
    <2>5. heard[s] \in Nat /\ Chunks[s] \in Nat /\ heard[s] <= Chunks[s] /\ n <= heard[s]
        <3>1. heard[s] \in Nat /\ Chunks[s] \in Nat /\ spoken[s].forwarded \in Nat
            BY ForwardedIsNat DEF IInv
        <3>2. heard[s] <= spoken[s].forwarded /\ spoken[s].forwarded <= Chunks[s]
            BY DEF IInv, Counted, HeardIsForwarded
        <3>3. n <= heard[s] BY <2>1, <2>2
        <3> QED BY <3>1, <3>2, <3>3
    <2>6. kind = "ended" /\ n >= x.forwarded => heard[s] = Chunks[s]
        <3>1. kind = "ended" => x.forwarded = Chunks[s] BY <2>1, <2>2, <2>4 DEF Whole
        <3> QED BY <2>5, <3>1
    <2>7. x.state = "playing" =>
             /\ y \in Spoken /\ y.state # "new" /\ y.forwarded = x.forwarded /\ y.cut = x.cut
             /\ y.played = n /\ (y.complete => heard[s] = Chunks[s])
        <3>1. CASE kind = "cursor"
            <4>1. y = Cursor(x, n) BY <1>1, <2>2, <2>4, <3>1
            <4>2. x.complete => heard[s] = Chunks[s] BY <2>4 DEF IInv, ResultsAreHeard
            <4> QED BY <4>1, <4>2 DEF Cursor, Spoken
        <3>2. CASE kind = "ended"
            <4>1. y = Finished(x, n, n >= x.forwarded) BY <1>1, <2>2, <2>4, <3>2 DEF Ended
            <4>2. PICK c \in BOOLEAN : c = (n >= x.forwarded)
                <5>1. (n >= x.forwarded) \in BOOLEAN BY <2>2, <2>4 DEF Spoken
                <5> QED BY <5>1, Zenon
            <4>3. c => heard[s] = Chunks[s] BY <2>6, <3>2, <4>2
            <4>4. y = Finished(x, n, c) BY <4>1, <4>2
            <4> QED BY <4>3, <4>4 DEF Finished, Spoken
        <3>3. CASE kind = "truncated"
            <4>1. y = Finished(x, n, FALSE) BY <1>1, <2>2, <2>4, <3>3 DEF Cut
            <4> QED BY <4>1 DEF Finished, Spoken
        <3> QED BY <1>1, <3>1, <3>2, <3>3
    <2>8. x.state # "playing" => y = x
        BY <1>1, <2>2, <2>4 DEF Cursor, Ended, Cut, Finished
    <2>9. CASE spoken' = spoken
        <3>1. [spoken EXCEPT ![s] = x] = spoken BY <2>3, <2>4
        <3> QED BY <2>1, <2>4, <2>9, <3>1, ReportKeeps
    <2>10. CASE spoken' = [spoken EXCEPT ![s] = y]
        <3>1. y \in Spoken BY <2>7, <2>8
        <3>2. \/ y = spoken[s]
              \/ /\ y.state # "new" /\ y.forwarded = spoken[s].forwarded /\ y.cut = spoken[s].cut
                 /\ y.played <= heard[s] /\ (y.complete => heard[s] = Chunks[s])
            BY <2>4, <2>5, <2>7, <2>8
        <3> QED BY <2>1, <2>10, <3>1, <3>2, ReportKeeps
    <2> QED BY <1>1, <2>2, <2>9, <2>10
<1>2. ASSUME ReadReport("cursor", Cursor) PROVE IInv'
    <2>1. Reads("cursor") /\ (spoken' = spoken \/ spoken' = [spoken EXCEPT ![m.s] = Cursor(@, m.n)])
        BY <1>2 DEF ReadReport
    <2>2. spoken' = spoken \/ spoken' = [spoken EXCEPT ![m.s] = Cursor(spoken[m.s], m.n)] BY <2>1
    <2> QED BY <1>1, <2>1, <2>2
<1>3. ASSUME ReadReport("ended", Ended) PROVE IInv'
    <2>1. Reads("ended") /\ (spoken' = spoken \/ spoken' = [spoken EXCEPT ![m.s] = Ended(@, m.n)])
        BY <1>3 DEF ReadReport
    <2>2. spoken' = spoken \/ spoken' = [spoken EXCEPT ![m.s] = Ended(spoken[m.s], m.n)] BY <2>1
    <2> QED BY <1>1, <2>1, <2>2
<1>4. ASSUME ReadReport("truncated", Cut) PROVE IInv'
    <2>1. Reads("truncated") /\ (spoken' = spoken \/ spoken' = [spoken EXCEPT ![m.s] = Cut(@, m.n)])
        BY <1>4 DEF ReadReport
    <2>2. spoken' = spoken \/ spoken' = [spoken EXCEPT ![m.s] = Cut(spoken[m.s], m.n)] BY <2>1
    <2> QED BY <1>1, <2>1, <2>2
<1> QED BY <1>2, <1>3, <1>4 DEF HostReads
-----------------------------------------------------------------------------
(* The page by itself, and the connection.                                 *)

LEMMA ReportedFacts ==
    ASSUME LinkIsTyped, NEW reports \in Seq(HostMessage), toHost' = Reported(reports)
    PROVE  /\ toHost' \in Seq(HostMessage)
           /\ \A i \in DOMAIN toHost' :
                 \/ \E j \in DOMAIN toHost : toHost'[i] = toHost[j]
                 \/ \E j \in DOMAIN reports : toHost'[i] = reports[j]
<1>1. toHost \in Seq(HostMessage) BY DEF LinkIsTyped
<1>2. CASE toHost' = toHost BY <1>1, <1>2
<1>3. CASE toHost' = toHost \o reports
    <2>1. /\ toHost \o reports \in Seq(HostMessage)
          /\ \A i \in DOMAIN toHost : (toHost \o reports)[i] = toHost[i]
          /\ \A i \in DOMAIN reports : (toHost \o reports)[Len(toHost) + i] = reports[i]
          /\ \A i \in DOMAIN (toHost \o reports) :
                i \in DOMAIN toHost \/ \E j \in DOMAIN reports : i = Len(toHost) + j
        BY <1>1, ConcatFacts
    <2> DEFINE all == toHost \o reports
    <2>2. all = toHost' BY <1>3
    <2> HIDE DEF all
    <2> QED BY <2>1, <2>2 DEF all
<1> QED BY <1>2, <1>3 DEF Reported

\* A true report.
True(m) == m.n <= heard[m.s] /\ (m.kind = "ended" => Whole(m.s))

\* The page reports what it knows to be so, and the host's side does not move.
LEMMA TrueReports ==
    ASSUME IInv, NEW reports \in Seq(HostMessage), toHost' = Reported(reports),
           \A j \in DOMAIN reports : True(reports[j]), UNCHANGED <<spoken, heard>>
    PROVE  toHost' \in Seq(HostMessage) /\ ReportsAreTrue'
<1>1. /\ toHost' \in Seq(HostMessage)
      /\ \A i \in DOMAIN toHost' :
            \/ \E j \in DOMAIN toHost : toHost'[i] = toHost[j]
            \/ \E j \in DOMAIN reports : toHost'[i] = reports[j]
    BY ReportedFacts DEF IInv
<1>2. \A j \in DOMAIN toHost : True(toHost[j]) BY DEF IInv, Counted, ReportsAreTrue, True
<1>3. \A i \in DOMAIN toHost' : True(toHost'[i]) BY <1>1, <1>2
<1> QED BY <1>1, <1>3 DEF ReportsAreTrue, True, Whole

LEMMA OneReport ==
    ASSUME NEW m \in HostMessage
    PROVE  <<m>> \in Seq(HostMessage) /\ \A j \in DOMAIN <<m>> : <<m>>[j] = m
OBVIOUS

LEMMA NoReports == <<>> \in Seq(HostMessage) /\ \A j \in DOMAIN <<>> : FALSE
BY EmptySeq

\* What is on the page is reported as it was heard.
LEMMA TruncatedIsTrue ==
    ASSUME IInv, NEW s \in Sentence
    PROVE  Truncated(s) \in HostMessage /\ True(Truncated(s))
<1>1. heard[s] \in Nat BY ForwardedIsNat DEF IInv
<1> QED BY <1>1 DEF Truncated, HostMessage, True

LEMMA TruncatedAllIsTrue ==
    ASSUME IInv
    PROVE  /\ TruncatedAll(queue) \in Seq(HostMessage)
           /\ \A j \in DOMAIN TruncatedAll(queue) : True(TruncatedAll(queue)[j])
<1>1. queue \in Seq(Queued) /\ TypeOK BY DEF IInv, TypeOK
<1>2. PICK n \in Nat : n = Len(queue) /\ DOMAIN queue = 1 .. n BY <1>1, LenProperties
<1>3. \A i \in 1 .. n : queue[i].s \in Sentence BY <1>1, <1>2, QueueFacts
<1>4. TruncatedAll(queue) = [i \in 1 .. n |-> Truncated(queue[i].s)]
    BY <1>2 DEF TruncatedAll
<1>5. \A i \in 1 .. n :
         Truncated(queue[i].s) \in HostMessage /\ True(Truncated(queue[i].s))
    BY <1>3, TruncatedIsTrue
<1> HIDE DEF True
<1>6. TruncatedAll(queue) \in [1 .. n -> HostMessage] BY <1>4, <1>5
<1>7. TruncatedAll(queue) \in Seq(HostMessage) BY <1>6, SeqDef
<1>8. DOMAIN TruncatedAll(queue) = 1 .. n /\
      \A i \in 1 .. n : TruncatedAll(queue)[i] = Truncated(queue[i].s)
    BY <1>4
<1> QED BY <1>5, <1>7, <1>8

LEMMA NothingQueued ==
    ASSUME queue' = <<>>
    PROVE  /\ StillOnQueue /\ QueueHasTheLease' /\ queue' \in Seq(Queued)
           /\ DOMAIN queue' = {} /\ \A s : ~OnQueue(s)'
BY EmptySeq DEF StillOnQueue, QueuedOnce, QueueHasTheLease, OnQueue

\* Sentences leave the page, which reports it; what is on the way to it stays.
LEMMA PageStepKeeps ==
    ASSUME IInv, NEW reports \in Seq(HostMessage), toHost' = Reported(reports),
           \A j \in DOMAIN reports : True(reports[j]),
           UNCHANGED <<output, permit, service, spoken, session, conn, toPage, heard, gap, absent>>,
           page' \in Page, page'.socket = page.socket, page'.lease = page.lease,
           queue' \in Seq(Queued), StillOnQueue, missed' \in BOOLEAN,
           ~missed' /\ HasSentences' => ~missed
    PROVE  IInv'
<1>1. TypeOK /\ LinkIsTyped /\ Counted /\ Ordered BY DEF IInv
<1>2. TypeOK' BY <1>1 DEF TypeOK
<1>3. toHost' \in Seq(HostMessage) /\ ReportsAreTrue' BY <1>2, TrueReports
<1>4. StillOnTheWay BY <1>1 DEF LinkIsTyped, StillOnTheWay
<1>5. GoesForward BY <1>1, SettlingGoesForward DEF Counted, Settles
<1>6. Counted' BY <1>1, <1>2, <1>3, <1>4, <1>5, CountedShrinks
<1>7. QueueHasTheLease' BY <1>1 DEF Ordered, QueueHasTheLease, StillOnQueue
<1>8. NoOrderLost BY DEF NoOrderLost
<1>9. HasSentences' => HasSentences
    <2>1. DOMAIN queue' # {} => DOMAIN queue # {} BY DEF StillOnQueue
    <2>2. \A q \in Seq(Queued) : q = <<>> <=> DOMAIN q = {}
        <3> TAKE q \in Seq(Queued)
        <3>1. q # <<>> => 1 \in DOMAIN q BY TailFacts
        <3> QED BY <3>1
    <2>3. queue \in Seq(Queued) BY <1>1 DEF TypeOK
    <2> QED BY <2>1, <2>2, <2>3 DEF HasSentences, InFlight
<1>10. conn' => conn /\ toPage' = toPage /\ permit'.told = permit.told OBVIOUS
<1>11. Ordered' BY <1>1, <1>4, <1>7, <1>8, <1>9, <1>10, OrderedShrinks
<1>12. LinkIsTyped' /\ PermitIsTold' /\ ResultsAreHeard'
    BY <1>1, <1>3 DEF IInv, LinkIsTyped, PermitIsTold, ResultsAreHeard
<1> QED BY <1>2, <1>6, <1>11, <1>12 DEF IInv

LEMMA ReportCursorKeeps ==
    ASSUME IInv, ReportCursor
    PROVE  IInv'
<1> DEFINE s == Head(queue).s
           m == [kind |-> "cursor", s |-> s, n |-> heard[s]]
<1>1. /\ queue # <<>> /\ toHost' = Reported(<<m>>)
      /\ UNCHANGED <<output, permit, service, spoken, session, conn, toPage, page, queue, heard,
                     missed, gap, absent>>
    BY DEF ReportCursor, WorkletOnly, PageOnly, hostSide, linkSide, sights, bounds
<1>2. TypeOK /\ queue \in Seq(Queued) /\ page \in Page /\ missed \in BOOLEAN BY DEF IInv, TypeOK
<1>3. s \in Sentence /\ heard[s] \in Nat
    <2>1. Head(queue) \in Queued BY <1>1, <1>2, HeadTailProperties
    <2> QED BY <1>2, <2>1, ForwardedIsNat DEF Queued
<1>4. m \in HostMessage /\ True(m) BY <1>3 DEF HostMessage, True
<1> HIDE DEF m, True
<1>5. <<m>> \in Seq(HostMessage) /\ \A j \in DOMAIN <<m>> : True(<<m>>[j])
    BY <1>4, OneReport
<1>6. StillOnQueue BY <1>1, UnchangedStays
<1> QED BY <1>1, <1>2, <1>5, <1>6, PageStepKeeps

LEMMA HeadEndsKeeps ==
    ASSUME IInv, HeadEnds
    PROVE  IInv'
<1> DEFINE q == Head(queue)
           m == [kind |-> "ended", s |-> q.s, n |-> q.got]
<1>1. /\ queue # <<>> /\ q.all /\ heard[q.s] = q.got
      /\ queue' = Tail(queue) /\ toHost' = Reported(<<m>>)
      /\ UNCHANGED <<output, permit, service, spoken, session, conn, toPage, page, heard,
                     missed, gap, absent>>
    BY DEF HeadEnds, WorkletOnly, PageOnly, hostSide, linkSide, sights, bounds
<1>2. TypeOK /\ queue \in Seq(Queued) /\ page \in Page /\ missed \in BOOLEAN BY DEF IInv, TypeOK
<1>3. /\ Tail(queue) \in Seq(Queued) /\ q = queue[1] /\ 1 \in DOMAIN queue
      /\ \A i \in DOMAIN Tail(queue) :
            i + 1 \in DOMAIN queue /\ Tail(queue)[i] = queue[i + 1]
    BY <1>1, <1>2, TailFacts
<1>4. q.s \in Sentence /\ q.got \in Nat /\ heard[q.s] \in Nat BY <1>2, <1>3, QueueFacts, ForwardedIsNat
<1>5. Whole(q.s) BY <1>1, <1>3 DEF IInv, Counted, QueueIsForwarded
<1>6. m \in HostMessage /\ True(m) BY <1>1, <1>4, <1>5 DEF HostMessage, True
<1> HIDE DEF m, q, True
<1>7. <<m>> \in Seq(HostMessage) /\ \A j \in DOMAIN <<m>> : True(<<m>>[j])
    BY <1>6, OneReport
<1>8. StillOnQueue
    <2>1. QueuedOnce /\ DOMAIN queue \subseteq Nat BY <1>2, QueueFacts DEF IInv, Counted
    <2>2. DOMAIN Tail(queue) \subseteq Nat BY <1>3, Indices
    <2>3. QueuedOnce'
        <3> SUFFICES ASSUME NEW i \in DOMAIN queue', NEW j \in DOMAIN queue',
                            queue'[i].s = queue'[j].s
                     PROVE  i = j
            BY DEF QueuedOnce
        <3>1. i \in Nat /\ j \in Nat BY <1>1, <2>2
        <3>2. i + 1 = j + 1 BY <1>1, <1>3, <2>1 DEF QueuedOnce
        <3> QED BY <3>1, <3>2
    <2> QED BY <1>1, <1>3, <2>3 DEF StillOnQueue
<1> QED BY <1>1, <1>2, <1>3, <1>7, <1>8, PageStepKeeps

\* The page falls silent by itself.
LEMMA FallSilentKeeps ==
    ASSUME IInv, Mute \/ LeaseRunsOut
    PROVE  IInv'
<1>1. /\ queue' = <<>> /\ toHost' = Reported(TruncatedAll(queue))
      /\ missed' = (missed /\ InFlight("begin", toPage))
      /\ page' = [page EXCEPT !.muted = TRUE] \/ page' = [page EXCEPT !.leased = FALSE]
      /\ UNCHANGED <<output, permit, service, spoken, session, conn, toPage, heard, gap, absent>>
    BY DEF Mute, LeaseRunsOut, FallSilent, WorkletOnly, PageOnly, hostSide, linkSide, sights, bounds
<1>2. page' \in Page /\ page'.socket = page.socket /\ page'.lease = page.lease
    BY <1>1 DEF IInv, TypeOK, Page
<1>3. missed' \in BOOLEAN /\ (~missed' /\ HasSentences' => ~missed)
    BY <1>1 DEF IInv, TypeOK, HasSentences, InFlight
<1>4. StillOnQueue /\ queue' \in Seq(Queued) BY <1>1, NothingQueued
<1> QED BY <1>1, <1>2, <1>3, <1>4, TruncatedAllIsTrue, PageStepKeeps

\* A chunk of the sentence at the head is heard: it was forwarded.
LEMMA RenderKeeps ==
    ASSUME IInv, Render
    PROVE  IInv'
<1> DEFINE s == Head(queue).s
<1>1. /\ queue # <<>> /\ heard[s] < Head(queue).got /\ heard' = [heard EXCEPT ![s] = @ + 1]
      /\ UNCHANGED <<output, permit, service, spoken, session, conn, toPage, toHost, page, queue,
                     missed, gap, absent>>
    BY DEF Render, WorkletOnly, PageOnly, hostSide, linkSide, sights, bounds
<1>2. TypeOK /\ LinkIsTyped /\ Counted /\ Ordered /\ queue \in Seq(Queued) BY DEF IInv, TypeOK
<1>3. Head(queue) = queue[1] /\ 1 \in DOMAIN queue BY <1>1, <1>2, TailFacts
<1>4. s \in Sentence /\ queue[1].got \in Nat BY <1>2, <1>3, QueueFacts
<1>5. OnQueue(s) BY <1>3 DEF OnQueue
<1>6. heard[s] < queue[1].got BY <1>1, <1>3
<1>7. queue[1].got <= spoken[s].forwarded BY <1>2, <1>3 DEF Counted, QueueIsForwarded
<1> HIDE DEF s
<1>8. \A t \in Sentence :
         /\ spoken[t].forwarded \in Nat /\ heard[t] \in Nat /\ Chunks[t] \in Nat
         /\ spoken[t].played \in Nat
    BY <1>2, ForwardedIsNat DEF TypeOK, Spoken
<1>9. \A t \in Sentence : heard'[t] = IF t = s THEN heard[s] + 1 ELSE heard[t]
    BY <1>1, <1>2 DEF TypeOK
<1>10. heard' \in [Sentence -> Nat] /\ \A t \in Sentence : heard'[t] >= heard[t]
    <2>1. heard[s] + 1 \in Nat /\ heard[s] + 1 >= heard[s] BY <1>4, <1>8
    <2>2. heard \in [Sentence -> Nat] BY <1>2 DEF TypeOK
    <2>3. heard' \in [Sentence -> Nat] BY <1>1, <2>1, <2>2
    <2> QED BY <1>8, <1>9, <2>1, <2>3
<1>11. TypeOK' BY <1>1, <1>2, <1>10 DEF TypeOK
<1>12. \A t : OnQueue(t)' <=> OnQueue(t) BY <1>1 DEF OnQueue
<1>13. NewIsUnheardOf'
    BY <1>1, <1>2, <1>5, <1>9, <1>12 DEF Counted, NewIsUnheardOf, About
<1>14. BeginsComeFirst'
    BY <1>1, <1>2, <1>5, <1>9, <1>12 DEF Counted, BeginsComeFirst, Kind, About
<1>15. QueuedOnce' /\ ChunksComeOnce' /\ EndsAreWhole'
    BY <1>1, <1>2
    DEF Counted, QueuedOnce, ChunksComeOnce, Numbers, EndsAreWhole, OnQueue, OnTheWay, Kind, About,
        Whole
<1>16. QueueIsForwarded'
    <2> SUFFICES ASSUME NEW i \in DOMAIN queue
                 PROVE  /\ heard'[queue[i].s] <= queue[i].got
                        /\ queue[i].got <= spoken[queue[i].s].forwarded
                        /\ queue[i].all => Whole(queue[i].s)
        BY <1>1 DEF QueueIsForwarded, Whole
    <2>1. queue[i].s \in Sentence /\ queue[i].got \in Nat BY <1>2, QueueFacts
    <2>2. /\ heard[queue[i].s] <= queue[i].got
          /\ queue[i].got <= spoken[queue[i].s].forwarded
          /\ queue[i].all => Whole(queue[i].s)
        BY <1>2 DEF Counted, QueueIsForwarded
    <2>3. queue[i].s = s => i = 1 BY <1>2, <1>3 DEF Counted, QueuedOnce, s
    <2>4. CASE queue[i].s = s
        <3>1. heard'[s] <= queue[1].got BY <1>4, <1>6, <1>8, <1>9
        <3> QED BY <2>2, <2>3, <2>4, <3>1
    <2>5. CASE queue[i].s # s BY <1>9, <2>1, <2>2, <2>5
    <2> QED BY <2>4, <2>5
<1>17. HeardIsForwarded'
    <2> SUFFICES ASSUME NEW t \in Sentence
                 PROVE  heard'[t] <= spoken[t].forwarded /\ spoken[t].forwarded <= Chunks[t]
        BY <1>1 DEF HeardIsForwarded
    <2>1. heard[t] <= spoken[t].forwarded /\ spoken[t].forwarded <= Chunks[t]
        BY <1>2 DEF Counted, HeardIsForwarded
    <2>2. heard[s] + 1 <= spoken[s].forwarded BY <1>4, <1>6, <1>7, <1>8
    <2> QED BY <1>9, <2>1, <2>2
<1>18. Settles BY <1>1 DEF Settles
<1>19. ReportsAreTrue'
    BY <1>1, <1>2, <1>10, <1>11, <1>18, SettlingGoesForward, SameReports, ReportsStayTrue
    DEF Counted
<1>20. Counted'
    BY <1>13, <1>14, <1>15, <1>16, <1>17, <1>19 DEF Counted
<1>21. Ordered'
    BY <1>1, <1>2
    DEF Ordered, QueueHasTheLease, LastTokenIsTold, TokensArrive, CutsArrive, HasSentences,
        InFlight, OnQueue, Kind, About
<1>22. ResultsAreHeard'
    <2> SUFFICES ASSUME NEW t \in Sentence
                 PROVE  spoken[t].played <= heard'[t] /\ (spoken[t].complete => heard'[t] = Chunks[t])
        BY <1>1 DEF ResultsAreHeard
    <2>1. spoken[t].played <= heard[t] /\ (spoken[t].complete => heard[t] = Chunks[t])
        BY DEF IInv, ResultsAreHeard
    <2>2. heard'[t] <= Chunks[t] /\ heard'[t] \in Nat
        BY <1>1, <1>8, <1>10, <1>17 DEF HeardIsForwarded
    <2>3. heard[t] <= heard'[t] BY <1>10, <1>8, <2>2
    <2> QED BY <1>8, <2>1, <2>2, <2>3
<1>23. LinkIsTyped' /\ PermitIsTold' BY <1>1 DEF IInv, LinkIsTyped, PermitIsTold
<1> QED BY <1>11, <1>20, <1>21, <1>22, <1>23 DEF IInv

\* The connection, or the page, changes: messages are lost from the end, sentences with
\* the page that had them.
LEMMA LinkStepKeeps ==
    ASSUME IInv, UNCHANGED <<output, permit, service, spoken, heard>>,
           session' \in BOOLEAN, conn' \in BOOLEAN, conn' => session' /\ page'.socket,
           page' \in Page, ~page'.socket => toPage' = <<>>,
           {missed', gap', absent'} \subseteq BOOLEAN,
           StillOnTheWay, StillReported, StillOnQueue, QueueHasTheLease', queue' \in Seq(Queued),
           conn' => toPage' = <<>>,
           ~missed' /\ HasSentences' => ~missed /\ HasSentences /\ NoOrderLost
    PROVE  IInv'
<1>1. TypeOK /\ LinkIsTyped /\ Counted /\ Ordered BY DEF IInv
<1>2. TypeOK' BY <1>1 DEF TypeOK
<1>3. GoesForward BY <1>1, SettlingGoesForward DEF Counted, Settles
<1>4. ReportsAreTrue' BY <1>1, <1>2, <1>3, ReportsStayTrue, HeardIsNotLess DEF Counted
<1>5. Counted' BY <1>1, <1>2, <1>3, <1>4, CountedShrinks
<1>6. Ordered' BY <1>1, OrderedShrinks
<1>7. LinkIsTyped' /\ PermitIsTold' /\ ResultsAreHeard'
    BY DEF IInv, LinkIsTyped, PermitIsTold, ResultsAreHeard, StillOnTheWay, StillReported
<1> QED BY <1>2, <1>5, <1>6, <1>7 DEF IInv

LEMMA NoMessages ==
    ASSUME toPage' = <<>>
    PROVE  StillOnTheWay /\ DOMAIN toPage' = {} /\ ~InFlight("begin", toPage)'
BY EmptySeq DEF StillOnTheWay, InFlight

LEMMA LosingReports ==
    ASSUME IInv, toHost' = toHost \/ toHost' \in Prefixes(toHost) \/ toHost' = <<>>
    PROVE  StillReported
<1>1. toHost \in Seq(HostMessage) BY DEF IInv, LinkIsTyped
<1>2. CASE toHost' = toHost BY <1>1, <1>2 DEF StillReported
<1>3. CASE toHost' \in Prefixes(toHost) BY <1>1, <1>3, PrefixFacts DEF StillReported
<1>4. CASE toHost' = <<>> BY <1>4, EmptySeq DEF StillReported
<1> QED BY <1>2, <1>3, <1>4

LEMMA OpenKeeps ==
    ASSUME IInv, Open
    PROVE  IInv'
<1>1. /\ ~page.socket /\ session' = TRUE /\ conn' = TRUE
      /\ page' = [page EXCEPT !.socket = TRUE] /\ toPage' = <<>> /\ toHost' = <<>>
      /\ gap' \in BOOLEAN
      /\ UNCHANGED <<output, permit, service, spoken, queue, heard, missed, absent>>
    BY DEF Open, hostSide, bounds, IInv, TypeOK
<1>2. toPage' = toPage BY <1>1 DEF IInv, LinkIsTyped
<1>3. page' \in Page /\ page'.socket /\ page'.lease = page.lease BY <1>1 DEF IInv, TypeOK, Page
<1>4. StillOnTheWay /\ StillOnQueue BY <1>1, <1>2, UnchangedStays
<1>5. StillReported BY <1>1, LosingReports
<1>6. QueueHasTheLease' BY <1>1, <1>3 DEF IInv, Ordered, QueueHasTheLease
<1>7. HasSentences' = HasSentences /\ NoOrderLost
    BY <1>1, <1>2 DEF HasSentences, InFlight, NoOrderLost
<1>8. queue' \in Seq(Queued) /\ {missed', gap', absent'} \subseteq BOOLEAN
    BY <1>1 DEF IInv, TypeOK
<1> QED BY <1>1, <1>3, <1>4, <1>5, <1>6, <1>7, <1>8, LinkStepKeeps

LEMMA LoadKeeps ==
    ASSUME IInv, Load
    PROVE  IInv'
<1>1. /\ page' = Loaded /\ queue' = <<>> /\ conn' = FALSE /\ toPage' = <<>> /\ missed' = FALSE
      /\ toHost' = toHost \/ toHost' \in Prefixes(toHost)
      /\ UNCHANGED <<output, permit, service, spoken, session, heard, gap, absent>>
    BY DEF Load, hostSide, sights
<1>2. page' \in Page BY <1>1, StageAssumption DEF Loaded, Page, Token
<1>3. StillOnQueue /\ QueueHasTheLease' /\ queue' \in Seq(Queued) BY <1>1, NothingQueued
<1>4. StillOnTheWay /\ ~HasSentences' BY <1>1, NoMessages DEF HasSentences, InFlight
<1>5. StillReported BY <1>1, LosingReports
<1>6. session' \in BOOLEAN /\ {missed', gap', absent'} \subseteq BOOLEAN
    BY <1>1 DEF IInv, TypeOK
<1> QED BY <1>1, <1>2, <1>3, <1>4, <1>5, <1>6, LinkStepKeeps

LEMMA PageSeesCloseKeeps ==
    ASSUME IInv, PageSeesClose
    PROVE  IInv'
<1>1. /\ ~conn /\ toPage = <<>> /\ page' = [page EXCEPT !.socket = FALSE]
      /\ UNCHANGED <<output, permit, service, spoken, session, conn, toPage, toHost, queue, heard,
                     missed, gap, absent>>
    BY DEF PageSeesClose, hostSide, linkSide, sights, bounds
<1>2. page' \in Page /\ page'.lease = page.lease BY <1>1 DEF IInv, TypeOK, Page
<1>3. StillOnTheWay /\ StillOnQueue /\ StillReported BY <1>1, UnchangedStays, SameReports
<1>4. QueueHasTheLease' BY <1>1, <1>2 DEF IInv, Ordered, QueueHasTheLease
<1>5. HasSentences' = HasSentences /\ NoOrderLost
    BY <1>1 DEF HasSentences, InFlight, NoOrderLost
<1>6. /\ queue' \in Seq(Queued) /\ session' \in BOOLEAN /\ conn' \in BOOLEAN
      /\ {missed', gap', absent'} \subseteq BOOLEAN
    BY <1>1 DEF IInv, TypeOK
<1> QED BY <1>1, <1>2, <1>3, <1>4, <1>5, <1>6, LinkStepKeeps

LEMMA BreaksKeeps ==
    ASSUME IInv, Break \/ Idle
    PROVE  IInv'
<1>1. /\ conn /\ conn' = FALSE /\ toPage' \in Prefixes(toPage) /\ toHost' \in Prefixes(toHost)
      /\ missed' = (missed \/ (HasSentences /\ LosesOrder(toPage')))
      /\ UNCHANGED <<output, permit, service, spoken, session, page, queue, heard, gap, absent>>
    BY DEF Break, Idle, Breaks, hostSide, pageSide, sights
<1>2. toPage \in Seq(PageMessage) /\ page.socket BY <1>1 DEF IInv, LinkIsTyped
<1>3. /\ toPage' \in Seq(PageMessage)
      /\ \A i \in DOMAIN toPage' : i \in DOMAIN toPage /\ toPage'[i] = toPage[i]
      /\ \A i \in DOMAIN toPage', j \in DOMAIN toPage : j < i => j \in DOMAIN toPage'
      /\ \A i \in DOMAIN toPage : i \in DOMAIN toPage' \/ i \in Len(toPage') + 1 .. Len(toPage)
    BY <1>1, <1>2, PrefixFacts
<1>4. StillOnTheWay BY <1>3 DEF StillOnTheWay
<1>5. StillOnQueue BY <1>1 DEF IInv, Counted, StillOnQueue, QueuedOnce
<1>6. StillReported BY <1>1, LosingReports
<1>7. QueueHasTheLease' BY <1>1 DEF IInv, Ordered, QueueHasTheLease
<1>8. HasSentences' => HasSentences BY <1>1, <1>3 DEF HasSentences, InFlight
<1>9. ~LosesOrder(toPage') => NoOrderLost
    BY <1>1, <1>3 DEF LosesOrder, NoOrderLost
<1>10. /\ queue' \in Seq(Queued) /\ page' \in Page /\ session' \in BOOLEAN
       /\ {missed', gap', absent'} \subseteq BOOLEAN
    BY <1>1 DEF IInv, TypeOK
<1>11. ~missed' /\ HasSentences' => ~missed /\ HasSentences /\ NoOrderLost
    BY <1>1, <1>8, <1>9
<1> QED BY <1>1, <1>2, <1>4, <1>5, <1>6, <1>7, <1>10, <1>11, LinkStepKeeps
-----------------------------------------------------------------------------
(* What the host tells the page.                                           *)

\* The messages fit what is known of their sentences, and of the permit.
Sayable(ms) ==
    /\ \A k \in DOMAIN ms :
          ms[k].kind # "token" => ms[k].s \in Sentence /\ spoken'[ms[k].s].state # "new"
    /\ \A k \in DOMAIN ms :
          ms[k].kind = "begin" =>
              /\ DOMAIN ms = {1} /\ spoken[ms[k].s].state = "new"
              /\ ms[k].token = permit'.told /\ ~spoken'[ms[k].s].cut
    /\ \A k \in DOMAIN ms :
          ms[k].kind = "audio" =>
              DOMAIN ms = {1} /\ spoken'[ms[k].s].forwarded = spoken[ms[k].s].forwarded + 1
    /\ \A k \in DOMAIN ms :
          ms[k].kind = "end" =>
              \/ spoken'[ms[k].s].forwarded = Chunks[ms[k].s]
              \/ \E j \in DOMAIN ms : j < k /\ ms[j].kind = "truncate" /\ ms[j].s = ms[k].s
    /\ \/ permit'.told = permit.told /\ \A k \in DOMAIN ms : ms[k].kind # "token"
       \/ DOMAIN ms = {1} /\ ms[1].kind = "token" /\ ms[1].token = permit'.told
    /\ \A s \in Sentence :
          spoken'[s].cut =>
             spoken[s].cut \/ \E k \in DOMAIN ms : ms[k].kind = "truncate" /\ ms[k].s = s

\* Messages come after those on the way.
ComesAfter(ms, n) ==
    /\ toPage' \in Seq(PageMessage) /\ n \in Nat
    /\ \A k \in DOMAIN toPage : k \in DOMAIN toPage' /\ toPage'[k] = toPage[k] /\ k <= n
    /\ \A k \in DOMAIN ms : n + k \in DOMAIN toPage' /\ toPage'[n + k] = ms[k]
    /\ \A k \in DOMAIN toPage' : k \in DOMAIN toPage \/ \E j \in DOMAIN ms : k = n + j
    /\ DOMAIN ms \subseteq Nat /\ \A k \in DOMAIN ms : 0 < k

LEMMA TellFacts ==
    ASSUME IInv, NEW ms \in Seq(PageMessage), Tell(ms)
    PROVE  /\ toHost' = toHost /\ missed' \in BOOLEAN
           /\ \/ conn /\ missed' = missed /\ \E n : ComesAfter(ms, n)
              \/ /\ ~conn /\ toPage' = toPage
                 /\ missed' = (missed \/ (HasSentences /\ \E k \in DOMAIN ms : Order(ms[k].kind)))
<1>1. toPage \in Seq(PageMessage) /\ (conn => session) /\ missed \in BOOLEAN
    BY DEF IInv, LinkIsTyped, TypeOK
<1>2. toHost' = toHost BY DEF Tell
<1>3. CASE conn
    <2>1. toPage' = toPage \o ms /\ missed' = missed BY <1>1, <1>3 DEF Tell
    <2> DEFINE all == toPage \o ms
    <2>2. /\ all \in Seq(PageMessage)
          /\ \A i \in DOMAIN toPage : i \in DOMAIN all /\ all[i] = toPage[i]
          /\ \A i \in DOMAIN ms : Len(toPage) + i \in DOMAIN all /\ all[Len(toPage) + i] = ms[i]
          /\ \A i \in DOMAIN all : i \in DOMAIN toPage \/ \E j \in DOMAIN ms : i = Len(toPage) + j
        BY <1>1, ConcatFacts
    <2>3. toPage' = all BY <2>1
    <2> HIDE DEF all
    <2>4. /\ Len(toPage) \in Nat /\ \A k \in DOMAIN toPage : k <= Len(toPage)
          /\ DOMAIN ms \subseteq Nat /\ \A k \in DOMAIN ms : 0 < k
        <3>1. DOMAIN toPage = 1 .. Len(toPage) /\ Len(toPage) \in Nat BY <1>1, Indices
        <3>2. DOMAIN ms \subseteq Nat /\ \A k \in DOMAIN ms : 0 < k BY Indices
        <3> QED BY <3>1, <3>2
    <2>5. ComesAfter(ms, Len(toPage)) BY <2>2, <2>3, <2>4 DEF ComesAfter
    <2> QED BY <1>1, <1>2, <1>3, <2>1, <2>5
<1>4. CASE ~conn
    <2>1. toPage' = toPage
          /\ missed' = (missed \/ (HasSentences /\ \E i \in DOMAIN ms : Order(ms[i].kind)))
        BY <1>4 DEF Tell
    <2> QED BY <1>1, <1>2, <1>4, <2>1
<1> QED BY <1>3, <1>4

\* Counts, when messages are added to those on the way.
LEMMA CountedGrows ==
    ASSUME IInv, TypeOK', NEW ms \in Seq(PageMessage), NEW n, ComesAfter(ms, n), Sayable(ms),
           GoesForward, UNCHANGED <<queue, heard, toHost>>
    PROVE  Counted'
<1>1. TypeOK /\ LinkIsTyped /\ Counted BY DEF IInv
<1>2. \A s \in Sentence :
         /\ spoken[s].forwarded \in Nat /\ spoken'[s].forwarded \in Nat
         /\ heard[s] \in Nat /\ Chunks[s] \in Nat
         /\ spoken[s].forwarded <= spoken'[s].forwarded
    BY <1>1, StageAssumption DEF TypeOK, Spoken, GoesForward
<1>3. \A s \in Sentence : Whole(s) => spoken'[s].forwarded = Chunks[s]
    BY <1>1, WholeStays DEF Counted
<1>4. StillOnQueue BY <1>1 DEF Counted, StillOnQueue, QueuedOnce
<1>5. QueueIsForwarded' /\ HeardIsForwarded' BY <1>1, <1>4, ForwardedStays DEF Counted
<1>6. \A s : OnQueue(s)' <=> OnQueue(s) BY DEF OnQueue
<1>7. \A k \in DOMAIN toPage :
         /\ k \in DOMAIN toPage' /\ toPage'[k] = toPage[k] /\ k <= n /\ k \in Nat
         /\ \A kind : Kind(k, kind)' <=> Kind(k, kind)
         /\ \A s : About(k, s)' <=> About(k, s)
    BY <1>1, MessageFacts DEF ComesAfter, Kind, About
<1>8. \A i \in DOMAIN ms :
         /\ n + i \in DOMAIN toPage' /\ toPage'[n + i] = ms[i] /\ n < n + i /\ n + i \in Nat
         /\ \A kind : toPage'[n + i].kind = kind <=> ms[i].kind = kind
         /\ \A s : toPage'[n + i].s = s <=> ms[i].s = s
    BY DEF ComesAfter
<1>9. n \in Nat /\ \A k \in DOMAIN toPage' : k \in DOMAIN toPage \/ \E i \in DOMAIN ms : k = n + i
    BY DEF ComesAfter
<1>10. \A s \in Sentence : spoken'[s].state = "new" => spoken'[s] = spoken[s] BY DEF GoesForward
<1>11. NewIsUnheardOf'
    <2> SUFFICES ASSUME NEW s \in Sentence, spoken'[s].state = "new"
                 PROVE  /\ ~spoken'[s].feeding /\ ~spoken'[s].cut /\ spoken'[s].forwarded = 0
                        /\ heard'[s] = 0 /\ ~OnQueue(s)'
                        /\ \A k \in DOMAIN toPage' : ~About(k, s)'
        BY DEF NewIsUnheardOf
    <2>1. /\ ~spoken'[s].feeding /\ ~spoken'[s].cut /\ spoken'[s].forwarded = 0
          /\ heard[s] = 0 /\ ~OnQueue(s)
          /\ \A k \in DOMAIN toPage : ~About(k, s)
        BY <1>1, <1>10 DEF Counted, NewIsUnheardOf
    <2>2. \A i \in DOMAIN ms : ms[i].kind # "token" => ms[i].s # s BY DEF Sayable
    <2>3. \A k \in DOMAIN toPage' : ~About(k, s)'
        BY <1>7, <1>8, <1>9, <2>1, <2>2 DEF About
    <2> QED BY <1>6, <2>1, <2>3
<1>12. BeginsComeFirst'
    <2> SUFFICES ASSUME NEW k \in DOMAIN toPage', NEW s \in Sentence,
                        Kind(k, "begin")', About(k, s)'
                 PROVE  /\ heard[s] = 0 /\ ~OnQueue(s)
                        /\ \A j \in DOMAIN toPage' : About(j, s)' => k <= j
        BY <1>6 DEF BeginsComeFirst
    <2>1. CASE k \in DOMAIN toPage
        <3>1. /\ heard[s] = 0 /\ ~OnQueue(s)
              /\ \A j \in DOMAIN toPage : About(j, s) => k <= j
            BY <1>1, <1>7, <2>1 DEF Counted, BeginsComeFirst
        <3>2. \A j \in DOMAIN ms : k <= n + j BY <1>7, <1>8, <1>9, <2>1
        <3> QED BY <1>7, <1>9, <3>1, <3>2
    <2>2. ASSUME NEW i \in DOMAIN ms, k = n + i
          PROVE  /\ heard[s] = 0 /\ ~OnQueue(s)
                 /\ \A j \in DOMAIN toPage' : About(j, s)' => k <= j
        <3>1. ms[i].kind = "begin" /\ ms[i].s = s BY <1>8, <2>2 DEF Kind, About
        <3>2. DOMAIN ms = {1} /\ spoken[s].state = "new" BY <3>1 DEF Sayable
        <3>3. heard[s] = 0 /\ ~OnQueue(s) /\ \A j \in DOMAIN toPage : ~About(j, s)
            BY <1>1, <3>2 DEF Counted, NewIsUnheardOf
        <3>4. k \in Nat BY <1>8, <2>2
        <3> QED BY <1>7, <1>9, <2>2, <3>2, <3>3, <3>4
    <2> QED BY <1>9, <2>1, <2>2
<1>13. ChunksComeOnce'
    <2>1. PICK f \in [DOMAIN toPage -> Nat] : Numbers(f) BY <1>1 DEF Counted, ChunksComeOnce
    <2>2. PICK g \in [DOMAIN toPage' -> Nat] :
             /\ \A k \in DOMAIN toPage : g[k] = f[k]
             /\ \A i \in DOMAIN ms :
                   ms[i].kind = "audio" => g[n + i] = spoken[ms[i].s].forwarded + 1
        <3> DEFINE g == [k \in DOMAIN toPage' |->
                            IF k \in DOMAIN toPage THEN f[k]
                            ELSE IF toPage'[k].kind = "audio"
                                 THEN spoken[toPage'[k].s].forwarded + 1 ELSE 0]
        <3>1. ASSUME NEW k \in DOMAIN toPage', k \notin DOMAIN toPage, toPage'[k].kind = "audio"
              PROVE  spoken[toPage'[k].s].forwarded + 1 \in Nat
            <4>1. PICK i \in DOMAIN ms : k = n + i BY <1>9, <3>1
            <4>2. ms[i].s \in Sentence /\ toPage'[k].s = ms[i].s
                BY <1>8, <3>1, <4>1 DEF Sayable
            <4> QED BY <1>2, <4>2
        <3>2. g \in [DOMAIN toPage' -> Nat] BY <2>1, <3>1
        <3>3. \A k \in DOMAIN toPage : g[k] = f[k] BY <1>7
        <3>4. \A i \in DOMAIN ms :
                 ms[i].kind = "audio" => g[n + i] = spoken[ms[i].s].forwarded + 1
            <4> TAKE i \in DOMAIN ms
            <4>1. n + i \notin DOMAIN toPage BY <1>7, <1>8, <1>9
            <4> QED BY <1>8, <4>1
        <3> HIDE DEF g
        <3> QED BY <3>2, <3>3, <3>4
    <2>3. Numbers(g)'
        <3> SUFFICES ASSUME NEW k \in DOMAIN toPage', Kind(k, "audio")'
                     PROVE  /\ 0 < g[k] /\ g[k] <= spoken'[toPage'[k].s].forwarded
                            /\ \A j \in DOMAIN toPage' :
                                  Kind(j, "audio")' /\ toPage'[j].s = toPage'[k].s /\ j < k
                                     => g[j] < g[k]
                            /\ \A i \in DOMAIN queue :
                                  queue[i].s = toPage'[k].s => queue[i].got < g[k]
            BY DEF Numbers
        <3>1. CASE k \in DOMAIN toPage
            <4>1. toPage'[k] = toPage[k] /\ Kind(k, "audio") /\ g[k] = f[k] BY <1>7, <2>2, <3>1
            <4>2. toPage[k].s \in Sentence BY <1>1, <3>1, <4>1, MessageFacts
            <4>3. /\ 0 < f[k] /\ f[k] <= spoken[toPage[k].s].forwarded /\ f[k] \in Nat
                  /\ \A j \in DOMAIN toPage :
                        Kind(j, "audio") /\ toPage[j].s = toPage[k].s /\ j < k => f[j] < f[k]
                  /\ \A i \in DOMAIN queue : queue[i].s = toPage[k].s => queue[i].got < f[k]
                BY <2>1, <3>1, <4>1 DEF Numbers
            <4>4. \A j \in DOMAIN toPage' : j < k => j \in DOMAIN toPage
                BY <1>7, <1>8, <1>9, <3>1
            <4>5. \A j \in DOMAIN toPage' :
                     Kind(j, "audio")' /\ toPage'[j].s = toPage'[k].s /\ j < k => g[j] < g[k]
                BY <1>7, <2>2, <4>1, <4>3, <4>4
            <4>6. f[k] <= spoken'[toPage[k].s].forwarded BY <1>2, <4>2, <4>3
            <4> QED BY <4>1, <4>3, <4>5, <4>6
        <3>2. ASSUME NEW i \in DOMAIN ms, k = n + i
              PROVE  /\ 0 < g[k] /\ g[k] <= spoken'[toPage'[k].s].forwarded
                     /\ \A j \in DOMAIN toPage' :
                           Kind(j, "audio")' /\ toPage'[j].s = toPage'[k].s /\ j < k
                              => g[j] < g[k]
                     /\ \A q \in DOMAIN queue :
                           queue[q].s = toPage'[k].s => queue[q].got < g[k]
            <4>1. ms[i].kind = "audio" BY <1>8, <3>2 DEF Kind
            <4>2. /\ DOMAIN ms = {1} /\ ms[i].s \in Sentence
                  /\ spoken'[ms[i].s].forwarded = spoken[ms[i].s].forwarded + 1
                BY <4>1 DEF Sayable
            <4>3. PICK s \in Sentence : s = ms[i].s /\ toPage'[k].s = s BY <1>8, <3>2, <4>2
            <4>4. PICK c \in Nat : c = spoken[s].forwarded BY <1>2
            <4>5. g[k] = c + 1 /\ spoken'[toPage'[k].s].forwarded = c + 1
                BY <2>2, <3>2, <4>1, <4>2, <4>3, <4>4
            <4>6. \A j \in DOMAIN toPage' : j < k => j \in DOMAIN toPage
                <5>1. i = 1 /\ k = n + 1 BY <3>2, <4>2
                <5>2. \A j \in DOMAIN ms : n + j = n + 1 BY <4>2
                <5> QED BY <1>8, <1>9, <5>1, <5>2
            <4>7. ASSUME NEW j \in DOMAIN toPage', Kind(j, "audio")', toPage'[j].s = s, j < k
                  PROVE  g[j] < g[k]
                <5>1. j \in DOMAIN toPage /\ Kind(j, "audio") /\ toPage[j].s = s
                    BY <1>7, <4>6, <4>7
                <5>2. f[j] <= c /\ f[j] \in Nat BY <2>1, <4>4, <5>1 DEF Numbers
                <5>3. g[j] = f[j] BY <2>2, <5>1
                <5> QED BY <4>5, <5>2, <5>3
            <4>8. ASSUME NEW q \in DOMAIN queue, queue[q].s = s PROVE queue[q].got < g[k]
                <5>1. queue[q].got <= c /\ queue[q].got \in Nat
                    BY <1>1, <4>4, <4>8, QueueFacts DEF Counted, QueueIsForwarded
                <5> QED BY <4>5, <5>1
            <4> QED BY <4>3, <4>5, <4>7, <4>8
        <3> QED BY <1>9, <3>1, <3>2
    <2> QED BY <2>2, <2>3 DEF ChunksComeOnce
<1>14. EndsAreWhole'
    <2> SUFFICES ASSUME NEW k \in DOMAIN toPage', NEW s \in Sentence,
                        Kind(k, "end")', About(k, s)', OnQueue(s)' \/ OnTheWay(s)',
                        spoken'[s].forwarded # Chunks[s]
                 PROVE  \E j \in DOMAIN toPage' : j < k /\ Kind(j, "truncate")' /\ About(j, s)'
        BY DEF EndsAreWhole, Whole
    <2>1. CASE k \in DOMAIN toPage
        <3>1. Kind(k, "end") /\ About(k, s) BY <1>7, <2>1
        <3>2. OnTheWay(s)' => OnTheWay(s)
            <4> SUFFICES ASSUME NEW j \in DOMAIN toPage', Kind(j, "begin")', About(j, s)'
                         PROVE  OnTheWay(s)
                BY DEF OnTheWay
            <4>1. CASE j \in DOMAIN toPage BY <1>7, <4>1 DEF OnTheWay
            <4>2. ASSUME NEW i \in DOMAIN ms, j = n + i PROVE FALSE
                <5>1. ms[i].kind = "begin" /\ ms[i].s = s BY <1>8, <4>2 DEF Kind, About
                <5>2. spoken[s].state = "new" BY <5>1 DEF Sayable
                <5> QED BY <1>1, <2>1, <3>1, <5>2 DEF Counted, NewIsUnheardOf
            <4> QED BY <1>9, <4>1, <4>2
        <3>3. PICK j \in DOMAIN toPage : j < k /\ Kind(j, "truncate") /\ About(j, s)
            BY <1>1, <1>3, <1>6, <2>1, <3>1, <3>2 DEF Counted, EndsAreWhole
        <3> QED BY <1>7, <3>3
    <2>2. ASSUME NEW i \in DOMAIN ms, k = n + i
          PROVE  \E j \in DOMAIN toPage' : j < k /\ Kind(j, "truncate")' /\ About(j, s)'
        <3>1. ms[i].kind = "end" /\ ms[i].s = s BY <1>8, <2>2 DEF Kind, About
        <3>2. PICK j \in DOMAIN ms : j < i /\ ms[j].kind = "truncate" /\ ms[j].s = s
            BY <3>1 DEF Sayable
        <3>3. n + j < k
            <4>1. i \in Nat /\ j \in Nat BY DEF ComesAfter
            <4> QED BY <1>9, <2>2, <3>2, <4>1
        <3> QED BY <1>8, <3>2, <3>3 DEF Kind, About
    <2> QED BY <1>9, <2>1, <2>2
<1>15. ReportsAreTrue'
    BY <1>1, SameReports, HeardIsNotLess, ReportsStayTrue DEF Counted
<1>16. QueuedOnce' BY <1>4 DEF StillOnQueue
<1> QED BY <1>5, <1>11, <1>12, <1>13, <1>14, <1>15, <1>16 DEF Counted

\* Orders, when messages are added to those on the way.
LEMMA OrderedGrows ==
    ASSUME IInv, NEW ms \in Seq(PageMessage), NEW n, ComesAfter(ms, n), Sayable(ms),
           conn, UNCHANGED <<page, queue, missed>>
    PROVE  Ordered'
<1>1. TypeOK /\ LinkIsTyped /\ Counted /\ Ordered BY DEF IInv
<1>2. \A s : OnQueue(s)' <=> OnQueue(s) BY DEF OnQueue
<1>3. \A k \in DOMAIN toPage :
         /\ k \in DOMAIN toPage' /\ toPage'[k] = toPage[k] /\ k <= n /\ k \in Nat
         /\ \A kind : Kind(k, kind)' <=> Kind(k, kind)
         /\ \A s : About(k, s)' <=> About(k, s)
    BY <1>1, MessageFacts DEF ComesAfter, Kind, About
<1>4. \A i \in DOMAIN ms :
         /\ n + i \in DOMAIN toPage' /\ toPage'[n + i] = ms[i] /\ n < n + i /\ n + i \in Nat
         /\ \A kind : Kind(n + i, kind)' <=> ms[i].kind = kind
         /\ \A s : About(n + i, s)' <=> ms[i].kind # "token" /\ ms[i].s = s
    BY DEF ComesAfter, Kind, About
<1>5. n \in Nat /\ \A k \in DOMAIN toPage' : k \in DOMAIN toPage \/ \E i \in DOMAIN ms : k = n + i
    BY DEF ComesAfter
<1>6. \/ permit'.told = permit.told /\ \A k \in DOMAIN ms : ms[k].kind # "token"
      \/ DOMAIN ms = {1} /\ ms[1].kind = "token" /\ ms[1].token = permit'.told
    BY DEF Sayable
<1>7. \A k \in DOMAIN toPage, i \in DOMAIN ms : k < n + i /\ ~(n + i <= k)
    BY <1>3, <1>4, <1>5
<1>8. LastTokenIsTold'
    <2> SUFFICES ASSUME NEW k \in DOMAIN toPage', Kind(k, "token")',
                        \A j \in DOMAIN toPage' : Kind(j, "token")' => j <= k
                 PROVE  toPage'[k].token = permit'.told
        BY DEF LastTokenIsTold
    <2>1. CASE k \in DOMAIN toPage
        <3>1. \A i \in DOMAIN ms : ms[i].kind # "token" BY <1>4, <1>7, <2>1
        <3>2. permit'.told = permit.told BY <1>6, <3>1
        <3>3. \A j \in DOMAIN toPage : Kind(j, "token") => j <= k BY <1>3
        <3>4. toPage[k].token = permit.told
            BY <1>1, <1>3, <2>1, <3>3 DEF Ordered, LastTokenIsTold
        <3> QED BY <1>3, <2>1, <3>2, <3>4
    <2>2. ASSUME NEW i \in DOMAIN ms, k = n + i PROVE toPage'[k].token = permit'.told
        <3>1. ms[i].kind = "token" BY <1>4, <2>2
        <3> QED BY <1>4, <1>6, <2>2, <3>1
    <2> QED BY <1>5, <2>1, <2>2
<1>9. QueueHasTheLease' BY <1>1 DEF Ordered, QueueHasTheLease
<1>10. TokensArrive'
    <2> SUFFICES ASSUME ~missed
                 PROVE  /\ \A i \in DOMAIN queue :
                              \/ queue[i].token = permit'.told
                              \/ \E j \in DOMAIN toPage' : Kind(j, "token")'
                        /\ \A k \in DOMAIN toPage' :
                              Kind(k, "begin")' =>
                                 \/ toPage'[k].token = permit'.told
                                 \/ \E j \in DOMAIN toPage' : k < j /\ Kind(j, "token")'
        BY DEF TokensArrive, InFlight, Kind
    <2>1. CASE \E i \in DOMAIN ms : ms[i].kind = "token"
        <3>1. DOMAIN ms = {1} /\ ms[1].kind = "token" BY <1>6, <2>1
        <3>2. n + 1 \in DOMAIN toPage' /\ Kind(n + 1, "token")' BY <1>4, <3>1
        <3>3. \A k \in DOMAIN toPage : k < n + 1 BY <1>7, <3>1
        <3>4. \A k \in DOMAIN toPage' : Kind(k, "begin")' => k \in DOMAIN toPage
            BY <1>4, <1>5, <3>1
        <3> QED BY <3>2, <3>3, <3>4
    <2>2. CASE \A i \in DOMAIN ms : ms[i].kind # "token"
        <3>1. permit'.told = permit.told BY <1>6, <2>2
        <3>2. /\ \A i \in DOMAIN queue :
                    queue[i].token = permit.told \/ \E j \in DOMAIN toPage : Kind(j, "token")
              /\ \A k \in DOMAIN toPage :
                    Kind(k, "begin") =>
                       toPage[k].token = permit.told \/ \E j \in DOMAIN toPage : k < j /\ Kind(j, "token")
            BY <1>1 DEF Ordered, TokensArrive, InFlight, Kind
        <3>3. \A i \in DOMAIN ms : ms[i].kind = "begin" => ms[i].token = permit'.told
            BY DEF Sayable
        <3>4. \A i \in DOMAIN queue :
                 queue[i].token = permit'.told \/ \E j \in DOMAIN toPage' : Kind(j, "token")'
            BY <1>3, <3>1, <3>2
        <3>5. ASSUME NEW k \in DOMAIN toPage', Kind(k, "begin")'
              PROVE  \/ toPage'[k].token = permit'.told
                     \/ \E j \in DOMAIN toPage' : k < j /\ Kind(j, "token")'
            <4>1. CASE k \in DOMAIN toPage BY <1>3, <3>1, <3>2, <3>5, <4>1
            <4>2. ASSUME NEW i \in DOMAIN ms, k = n + i PROVE toPage'[k].token = permit'.told
                BY <1>4, <3>3, <3>5, <4>2
            <4> QED BY <1>5, <4>1, <4>2
        <3> QED BY <3>4, <3>5
    <2> QED BY <2>1, <2>2
<1>11. CutsArrive'
    <2> SUFFICES ASSUME ~missed, NEW s \in Sentence, spoken'[s].cut
                 PROVE  /\ OnQueue(s) =>
                              \E j \in DOMAIN toPage' : Kind(j, "truncate")' /\ About(j, s)'
                        /\ \A k \in DOMAIN toPage' :
                              Kind(k, "begin")' /\ About(k, s)' =>
                                 \E j \in DOMAIN toPage' :
                                    k < j /\ Kind(j, "truncate")' /\ About(j, s)'
        BY <1>2 DEF CutsArrive
    <2>1. \A i \in DOMAIN ms :
             ms[i].kind = "begin" => DOMAIN ms = {1} /\ ~spoken'[ms[i].s].cut
        BY DEF Sayable
    <2>2. ASSUME NEW k \in DOMAIN toPage', Kind(k, "begin")', About(k, s)'
          PROVE  k \in DOMAIN toPage /\ Kind(k, "begin") /\ About(k, s)
        <3>1. ASSUME NEW i \in DOMAIN ms, k = n + i PROVE FALSE
            BY <1>4, <2>1, <2>2, <3>1
        <3> QED BY <1>3, <1>5, <2>2, <3>1
    <2>3. CASE \E i \in DOMAIN ms : ms[i].kind = "truncate" /\ ms[i].s = s
        <3>1. PICK i \in DOMAIN ms : ms[i].kind = "truncate" /\ ms[i].s = s BY <2>3
        <3>2. n + i \in DOMAIN toPage' /\ Kind(n + i, "truncate")' /\ About(n + i, s)'
            BY <1>4, <3>1
        <3> QED BY <1>7, <2>2, <3>2
    <2>4. CASE spoken[s].cut
        <3>1. /\ OnQueue(s) => \E j \in DOMAIN toPage : Kind(j, "truncate") /\ About(j, s)
              /\ \A k \in DOMAIN toPage :
                    Kind(k, "begin") /\ About(k, s) =>
                        \E j \in DOMAIN toPage : k < j /\ Kind(j, "truncate") /\ About(j, s)
            BY <1>1, <2>4 DEF Ordered, CutsArrive
        <3> QED BY <1>3, <2>2, <3>1
    <2> QED BY <2>3, <2>4 DEF Sayable
<1> QED BY <1>8, <1>9, <1>10, <1>11 DEF Ordered

LEMMA TellKeeps ==
    ASSUME IInv, TypeOK', NEW ms \in Seq(PageMessage), Tell(ms), Sayable(ms), GoesForward,
           UNCHANGED <<session, conn, page, queue, heard>>, ResultsAreHeard', PermitIsTold'
    PROVE  IInv'
<1>1. TypeOK /\ LinkIsTyped /\ Counted /\ Ordered BY DEF IInv
<1>2. toHost' = toHost BY TellFacts
<1>3. ASSUME conn, missed' = missed, NEW n, ComesAfter(ms, n)
      PROVE  IInv'
    <2>1. Counted' /\ Ordered' BY <1>2, <1>3, CountedGrows, OrderedGrows
    <2>2. LinkIsTyped' BY <1>1, <1>2, <1>3 DEF LinkIsTyped, ComesAfter
    <2> QED BY <2>1, <2>2 DEF IInv
<1>4. ASSUME ~conn, toPage' = toPage,
             missed' = (missed \/ (HasSentences /\ \E k \in DOMAIN ms : Order(ms[k].kind)))
      PROVE  IInv'
    <2>1. StillOnTheWay /\ StillOnQueue BY <1>4, UnchangedStays
    <2>2. ReportsAreTrue'
        BY <1>1, <1>2, SameReports, HeardIsNotLess, ReportsStayTrue DEF Counted
    <2>3. Counted' BY <1>1, <2>1, <2>2, CountedShrinks
    <2>4. QueueHasTheLease' BY <1>1 DEF Ordered, QueueHasTheLease
    <2>5. HasSentences' = HasSentences BY <1>4 DEF HasSentences, InFlight
    <2>6. (\A k \in DOMAIN ms : ~Order(ms[k].kind)) => NoOrderLost
        <3> SUFFICES ASSUME \A k \in DOMAIN ms : ms[k].kind \notin {"token", "truncate"}
                     PROVE  NoOrderLost
            BY DEF Order
        <3>1. permit'.told = permit.told BY DEF Sayable
        <3>2. \A s \in Sentence : spoken'[s].cut => spoken[s].cut BY DEF Sayable
        <3> QED BY <1>4, <3>1, <3>2 DEF NoOrderLost
    <2>7. ~missed' /\ HasSentences' => ~missed /\ HasSentences /\ NoOrderLost
        BY <1>4, <2>5, <2>6
    <2>8. Ordered' BY <1>1, <1>4, <2>1, <2>4, <2>7, OrderedShrinks
    <2>9. LinkIsTyped' BY <1>1, <1>2, <1>4 DEF LinkIsTyped
    <2> QED BY <2>3, <2>8, <2>9 DEF IInv
<1> QED BY <1>3, <1>4, TellFacts

LEMMA OneMessage ==
    ASSUME NEW m \in PageMessage
    PROVE  <<m>> \in Seq(PageMessage) /\ DOMAIN <<m>> = {1} /\ <<m>>[1] = m
OBVIOUS

\* A token is granted, told again or withdrawn.
LEMMA TokenTold ==
    ASSUME IInv, NEW t \in Token, Tell(<<TokenMessage(t)>>), permit'.told = t,
           permit' \in [count : Token, valid : BOOLEAN, told : Token], output' \in BOOLEAN,
           UNCHANGED <<service, spoken, session, conn, page, queue, heard, gap, absent>>,
           PermitIsTold'
    PROVE  IInv'
<1> DEFINE m == TokenMessage(t)
<1>1. m \in PageMessage /\ m.kind = "token" /\ m.token = t BY DEF TokenMessage, PageMessage
<1> HIDE DEF m
<1>2. /\ <<m>> \in Seq(PageMessage) /\ DOMAIN <<m>> = {1} /\ <<m>>[1] = m
    BY <1>1, OneMessage
<1>3. Sayable(<<m>>) BY <1>1, <1>2 DEF Sayable
<1>4. Tell(<<m>>) BY DEF m
<1>5. missed' \in BOOLEAN BY <1>2, <1>4, TellFacts
<1>6. TypeOK' BY <1>5 DEF IInv, TypeOK
<1>7. GoesForward BY SettlingGoesForward DEF IInv, Counted, Settles
<1>8. ResultsAreHeard' BY SameSentences
<1> QED BY <1>2, <1>3, <1>4, <1>6, <1>7, <1>8, TellKeeps

LEMMA TokensKeep ==
    ASSUME IInv, Grant \/ Renew \/ Revoke
    PROVE  IInv'
<1>1. /\ permit \in [count : Token, valid : BOOLEAN, told : Token]
      /\ permit.count \in Token /\ output \in BOOLEAN
    BY DEF IInv, TypeOK
<1>2. 0 \in Token /\ (permit.count < MaxToken => permit.count + 1 \in Token)
    <2>1. MaxToken \in Nat BY StageAssumption
    <2> QED BY <1>1, <2>1 DEF Token
<1>3. ASSUME Grant PROVE IInv'
    <2>1. PICK t \in Token : t = permit.count + 1 BY <1>2, <1>3 DEF Grant
    <2>2. /\ permit' = [count |-> t, valid |-> TRUE, told |-> t] /\ Tell(<<TokenMessage(t)>>)
          /\ UNCHANGED <<output, service, spoken, session, conn, page, queue, heard, gap, absent>>
        BY <1>3, <2>1 DEF Grant, PermitOnly, HostOnly, linkSide, pageSide, sights
    <2>3. /\ permit'.told = t /\ PermitIsTold'
          /\ permit' \in [count : Token, valid : BOOLEAN, told : Token]
        BY <2>2 DEF PermitIsTold
    <2> QED BY <1>1, <2>2, <2>3, TokenTold
<1>4. ASSUME Renew PROVE IInv'
    <2>1. /\ permit.valid /\ permit' = permit /\ Tell(<<TokenMessage(permit.count)>>)
          /\ UNCHANGED <<output, service, spoken, session, conn, page, queue, heard, gap, absent>>
        BY <1>4 DEF Renew, PermitOnly, HostOnly, linkSide, pageSide, sights
    <2>2. permit'.told = permit.count /\ PermitIsTold' BY <2>1 DEF IInv, PermitIsTold
    <2> QED BY <1>1, <2>1, <2>2, TokenTold
<1>5. ASSUME Revoke PROVE IInv'
    <2>1. /\ permit' = [permit EXCEPT !.valid = FALSE, !.told = 0] /\ Tell(<<TokenMessage(0)>>)
          /\ output' \in {output, FALSE}
          /\ UNCHANGED <<service, spoken, session, conn, page, queue, heard, gap, absent>>
        BY <1>5 DEF Revoke, PermitOnly, HostOnly, linkSide, pageSide, sights
    <2>2. /\ permit'.told = 0 /\ PermitIsTold'
          /\ permit' \in [count : Token, valid : BOOLEAN, told : Token]
        BY <1>1, <1>2, <2>1 DEF PermitIsTold
    <2> QED BY <1>1, <1>2, <2>1, <2>2, TokenTold
<1> QED BY <1>3, <1>4, <1>5

\* What is told of the sentence s, which is changed to y.
LEMMA SentenceTold ==
    ASSUME IInv, NEW s \in Sentence, NEW y \in Spoken, spoken' = [spoken EXCEPT ![s] = y],
           y.state # "new", y.played = spoken[s].played,
           y.complete => spoken[s].complete,
           spoken[s].forwarded <= y.forwarded, y.forwarded <= Chunks[s],
           NEW ms \in Seq(PageMessage), Tell(ms), Sayable(ms),
           UNCHANGED <<output, permit, service, session, conn, page, queue, heard, gap, absent>>
    PROVE  IInv'
<1>1. \A t \in Sentence : spoken'[t] = IF t = s THEN y ELSE spoken[t]
    BY DEF IInv, TypeOK
<1>2. missed' \in BOOLEAN BY TellFacts
<1>3. TypeOK' BY <1>2 DEF IInv, TypeOK
<1>4. GoesForward
    <2> SUFFICES ASSUME NEW t \in Sentence
                 PROVE  /\ spoken'[t].state = "new" => spoken'[t] = spoken[t]
                        /\ spoken[t].forwarded <= spoken'[t].forwarded
                        /\ spoken'[t].forwarded <= Chunks[t]
        BY DEF GoesForward
    <2>1. spoken[t].forwarded \in Nat /\ spoken[t].forwarded <= Chunks[t]
        BY ForwardedIsNat DEF IInv, Counted, HeardIsForwarded
    <2> QED BY <1>1, <2>1
<1>5. ResultsAreHeard' BY <1>1 DEF IInv, ResultsAreHeard
<1>6. PermitIsTold' BY DEF IInv, PermitIsTold
<1> QED BY <1>2, <1>3, <1>4, <1>5, <1>6, TellKeeps

LEMMA SentenceFacts ==
    ASSUME IInv, NEW s \in Sentence
    PROVE  /\ spoken \in [Sentence -> Spoken] /\ spoken[s] \in Spoken
           /\ spoken[s].forwarded \in Nat /\ heard[s] \in Nat /\ Chunks[s] \in Nat
           /\ spoken[s].forwarded <= Chunks[s] /\ spoken[s].token \in Token
           /\ spoken[s].played \in Nat /\ spoken[s].played <= heard[s]
           /\ spoken[s].complete => heard[s] = Chunks[s]
           /\ spoken[s].state = "new" =>
                 ~spoken[s].cut /\ spoken[s].forwarded = 0 /\ heard[s] = 0
BY ForwardedIsNat
DEF IInv, TypeOK, Spoken, Counted, HeardIsForwarded, ResultsAreHeard, NewIsUnheardOf

LEMMA PlayKeeps ==
    ASSUME IInv, NEW s \in Sentence, Play(s)
    PROVE  IInv'
<1> DEFINE y == [spoken[s] EXCEPT !.state = "playing", !.token = permit.count, !.feeding = TRUE]
           m == [kind |-> "begin", s |-> s, token |-> permit.count]
<1>1. /\ spoken[s].state = "new"
      /\ UNCHANGED <<output, permit, service, session, conn, page, queue, heard, gap, absent>>
      /\ \/ /\ permit.valid /\ spoken' = [spoken EXCEPT ![s] = y] /\ Tell(<<m>>)
         \/ /\ spoken' = [spoken EXCEPT ![s] = Finished(y, 0, FALSE)]
            /\ UNCHANGED <<toPage, toHost, missed>>
    BY DEF Play, SpokenOnly, HostOnly, linkSide, pageSide, sights
<1>2. PICK x \in Spoken : x = spoken[s] BY SentenceFacts
<1>3. permit.count \in Token /\ (permit.valid => permit.told = permit.count)
    BY DEF IInv, TypeOK, PermitIsTold
<1>4. /\ y \in Spoken /\ y.state = "playing" /\ y.played = x.played /\ y.complete = x.complete
      /\ y.forwarded = x.forwarded /\ y.cut = x.cut
    BY <1>2, <1>3 DEF Spoken
<1>5. /\ m \in PageMessage /\ m.kind = "begin" /\ m.s = s /\ m.token = permit.count
    BY <1>3 DEF PageMessage
<1>6. ~x.cut /\ x.forwarded \in Nat /\ x.forwarded <= Chunks[s] /\ heard[s] \in Nat
    BY <1>1, <1>2, SentenceFacts
<1> HIDE DEF y, m
<1>7. CASE permit.valid /\ spoken' = [spoken EXCEPT ![s] = y] /\ Tell(<<m>>)
    <2>1. <<m>> \in Seq(PageMessage) /\ DOMAIN <<m>> = {1} /\ <<m>>[1] = m BY <1>5, OneMessage
    <2>2. spoken'[s] = y /\ \A t \in Sentence : t # s => spoken'[t] = spoken[t]
        BY <1>7, SentenceFacts
    <2>3. \A t \in Sentence : spoken'[t].cut => spoken[t].cut BY <1>4, <1>6, <2>2
    <2>4. Sayable(<<m>>)
        BY <1>1, <1>3, <1>4, <1>5, <1>6, <1>7, <2>1, <2>2, <2>3 DEF Sayable
    <2>5. /\ y.state # "new" /\ y.played = spoken[s].played /\ (y.complete => spoken[s].complete)
          /\ spoken[s].forwarded <= y.forwarded /\ y.forwarded <= Chunks[s]
        BY <1>2, <1>4, <1>6
    <2> QED BY <1>1, <1>4, <1>7, <2>1, <2>4, <2>5, SentenceTold
<1>8. CASE /\ spoken' = [spoken EXCEPT ![s] = Finished(y, 0, FALSE)]
           /\ UNCHANGED <<toPage, toHost, missed>>
    <2>1. PICK z \in Spoken : z = [y EXCEPT !.state = "done", !.feeding = FALSE, !.played = 0,
                                           !.complete = FALSE]
        BY <1>4 DEF Spoken
    <2>2. z = Finished(y, 0, FALSE) BY <1>4, <2>1 DEF Finished
    <2>3. /\ z.state # "new" /\ z.forwarded = x.forwarded /\ z.cut = x.cut
          /\ z.played = 0 /\ ~z.complete
        BY <1>4, <2>1 DEF Spoken
    <2>4. z.played <= heard[s] BY <1>6, <2>3
    <2>5. StillReported BY <1>8, SameReports
    <2> QED BY <1>1, <1>2, <1>8, <2>2, <2>3, <2>4, <2>5, ReportKeeps
<1> QED BY <1>1, <1>7, <1>8

LEMMA ForwardKeeps ==
    ASSUME IInv, NEW s \in Sentence, Forward(s)
    PROVE  IInv'
<1> DEFINE m == [kind |-> "audio", s |-> s, token |-> spoken[s].token]
<1>1. /\ spoken[s].feeding /\ spoken[s].forwarded < Chunks[s]
      /\ spoken' = [spoken EXCEPT ![s].forwarded = @ + 1] /\ Tell(<<m>>)
      /\ UNCHANGED <<output, permit, service, session, conn, page, queue, heard, gap, absent>>
    BY DEF Forward, SpokenOnly, HostOnly, linkSide, pageSide, sights
<1>2. PICK x \in Spoken : x = spoken[s] BY SentenceFacts
<1>3. PICK c \in Nat : c = x.forwarded /\ c + 1 \in Nat BY <1>2 DEF Spoken
<1>4. Chunks[s] \in Nat /\ x.token \in Token BY <1>2, SentenceFacts
<1>5. PICK y \in Spoken : y = [x EXCEPT !.forwarded = c + 1] BY <1>3 DEF Spoken
<1>6. /\ y.state = x.state /\ y.played = x.played /\ y.complete = x.complete /\ y.cut = x.cut
      /\ y.forwarded = c + 1
    BY <1>2, <1>3, <1>5 DEF Spoken
<1>7. spoken' = [spoken EXCEPT ![s] = y]
    BY <1>1, <1>2, <1>3, <1>5
<1>8. x.state # "new" BY <1>1, <1>2 DEF IInv, Counted, NewIsUnheardOf
<1>9. m \in PageMessage /\ m.kind = "audio" /\ m.s = s BY <1>2, <1>4 DEF PageMessage
<1> HIDE DEF m
<1>10. <<m>> \in Seq(PageMessage) /\ DOMAIN <<m>> = {1} /\ <<m>>[1] = m BY <1>9, OneMessage
<1>11. spoken'[s] = y /\ \A t \in Sentence : t # s => spoken'[t] = spoken[t]
    BY <1>7, SentenceFacts
<1>12. \A t \in Sentence : spoken'[t].cut => spoken[t].cut BY <1>2, <1>6, <1>11
<1>13. y.state # "new" /\ y.forwarded = spoken[s].forwarded + 1 BY <1>2, <1>3, <1>6, <1>8
<1>14. Sayable(<<m>>)
    BY <1>1, <1>9, <1>10, <1>11, <1>12, <1>13 DEF Sayable
<1>15. spoken[s].forwarded <= y.forwarded /\ y.forwarded <= Chunks[s]
    BY <1>1, <1>2, <1>3, <1>4, <1>6
<1> QED BY <1>1, <1>2, <1>6, <1>7, <1>10, <1>13, <1>14, <1>15, SentenceTold

LEMMA TwoMessages ==
    ASSUME NEW a \in PageMessage, NEW b \in PageMessage
    PROVE  /\ <<a, b>> \in Seq(PageMessage) /\ DOMAIN <<a, b>> = {1, 2}
           /\ <<a, b>>[1] = a /\ <<a, b>>[2] = b
<1> DEFINE q == [i \in 1 .. 2 |-> IF i = 1 THEN a ELSE b]
<1>1. q \in Seq(PageMessage) BY SeqDef
<1>2. <<a, b>> = q OBVIOUS
<1> QED BY <1>1, <1>2

\* The sentence s is cut, and the page is told so, or that nothing more comes of it.
LEMMA SentenceLeft ==
    ASSUME IInv, NEW s \in Sentence, NEW y \in Spoken, spoken' = [spoken EXCEPT ![s] = y],
           spoken[s].state # "new", y.state # "new", y.played = spoken[s].played,
           y.complete => spoken[s].complete, y.forwarded = spoken[s].forwarded,
           UNCHANGED <<output, permit, service, session, conn, page, queue, heard, gap, absent>>,
           \/ Tell(<<[kind |-> "truncate", s |-> s]>>)
           \/ Tell(<<[kind |-> "truncate", s |-> s], EndMessage(s)>>)
           \/ Tell(<<EndMessage(s)>>) /\ y.cut = spoken[s].cut /\ Whole(s)
    PROVE  IInv'
<1> DEFINE cut == [kind |-> "truncate", s |-> s]
           end == EndMessage(s)
<1>1. /\ cut \in PageMessage /\ cut.kind = "truncate" /\ cut.s = s
      /\ end \in PageMessage /\ end.kind = "end" /\ end.s = s
    BY SentenceFacts DEF PageMessage, EndMessage
<1>2. spoken'[s] = y /\ \A t \in Sentence : t # s => spoken'[t] = spoken[t]
    BY SentenceFacts
<1>3. \A t \in Sentence : t # s => (spoken'[t].cut => spoken[t].cut) BY <1>2
<1>4. spoken[s].forwarded <= y.forwarded /\ y.forwarded <= Chunks[s]
    BY SentenceFacts
<1> HIDE DEF cut, end
<1>5. /\ <<cut>> \in Seq(PageMessage) /\ DOMAIN <<cut>> = {1} /\ <<cut>>[1] = cut
      /\ <<end>> \in Seq(PageMessage) /\ DOMAIN <<end>> = {1} /\ <<end>>[1] = end
      /\ <<cut, end>> \in Seq(PageMessage) /\ DOMAIN <<cut, end>> = {1, 2}
      /\ <<cut, end>>[1] = cut /\ <<cut, end>>[2] = end
    BY <1>1, OneMessage, TwoMessages
<1>6. PICK ms \in Seq(PageMessage) :
         /\ Tell(ms)
         /\ \/ DOMAIN ms = {1} /\ ms[1] = cut
            \/ DOMAIN ms = {1, 2} /\ ms[1] = cut /\ ms[2] = end
            \/ DOMAIN ms = {1} /\ ms[1] = end /\ y.cut = spoken[s].cut /\ Whole(s)
    <2>1. CASE Tell(<<cut>>) BY <1>5, <2>1
    <2>2. CASE Tell(<<cut, end>>) BY <1>5, <2>2
    <2>3. CASE Tell(<<end>>) /\ y.cut = spoken[s].cut /\ Whole(s) BY <1>5, <2>3
    <2> QED BY <2>1, <2>2, <2>3 DEF cut, end
<1>7. Sayable(ms)
    <2>1. \A k \in DOMAIN ms : (ms[k].kind = "truncate" \/ ms[k].kind = "end") /\ ms[k].s = s
        BY <1>1, <1>6
    <2>2. \A k \in DOMAIN ms :
             ms[k].kind = "end" =>
                \/ spoken'[ms[k].s].forwarded = Chunks[ms[k].s]
                \/ \E j \in DOMAIN ms : j < k /\ ms[j].kind = "truncate" /\ ms[j].s = ms[k].s
        <3>1. Whole(s) => spoken'[s].forwarded = Chunks[s] BY <1>2 DEF Whole
        <3> QED BY <1>1, <1>6, <3>1
    <2>3. \A t \in Sentence :
             spoken'[t].cut =>
                spoken[t].cut \/ \E k \in DOMAIN ms : ms[k].kind = "truncate" /\ ms[k].s = t
        BY <1>1, <1>2, <1>3, <1>6
    <2> QED BY <1>2, <2>1, <2>2, <2>3 DEF Sayable
<1> QED BY <1>4, <1>6, <1>7, SentenceTold

LEMMA FeedsKeeps ==
    ASSUME IInv, NEW s \in Sentence, ForwardStops(s) \/ ForwardEnds(s) \/ ForwardFails(s)
    PROVE  IInv'
<1>1. /\ spoken[s].feeding
      /\ UNCHANGED <<output, permit, service, session, conn, page, queue, heard, gap, absent>>
    BY DEF ForwardStops, ForwardEnds, ForwardFails, SpokenOnly, HostOnly, linkSide, pageSide, sights
<1>2. PICK x \in Spoken : x = spoken[s] BY SentenceFacts
<1>3. x.state # "new" BY <1>1, <1>2 DEF IInv, Counted, NewIsUnheardOf
<1>4. x.played \in Nat /\ spoken \in [Sentence -> Spoken] BY <1>2, SentenceFacts
<1>5. ASSUME ForwardStops(s) PROVE IInv'
    <2>1. PICK y \in Spoken : y = [x EXCEPT !.feeding = FALSE, !.cut = TRUE] BY DEF Spoken
    <2>2. spoken' = [spoken EXCEPT ![s] = y] BY <1>2, <1>5, <2>1 DEF ForwardStops
    <2>3. /\ y.state = x.state /\ y.played = x.played /\ y.complete = x.complete
          /\ y.forwarded = x.forwarded
        BY <2>1 DEF Spoken
    <2>4. Tell(<<[kind |-> "truncate", s |-> s], EndMessage(s)>>) BY <1>5 DEF ForwardStops
    <2> QED BY <1>1, <1>2, <1>3, <2>2, <2>3, <2>4, SentenceLeft
<1>6. ASSUME ForwardEnds(s) PROVE IInv'
    <2>1. PICK y \in Spoken : y = [x EXCEPT !.feeding = FALSE] BY DEF Spoken
    <2>2. spoken' = [spoken EXCEPT ![s] = y] BY <1>2, <1>6, <2>1 DEF ForwardEnds
    <2>3. /\ y.state = x.state /\ y.played = x.played /\ y.complete = x.complete
          /\ y.forwarded = x.forwarded /\ y.cut = x.cut
        BY <2>1 DEF Spoken
    <2>4. Tell(<<EndMessage(s)>>) /\ Whole(s) BY <1>6 DEF ForwardEnds, Whole
    <2> QED BY <1>1, <1>2, <1>3, <2>2, <2>3, <2>4, SentenceLeft
<1>7. ASSUME ForwardFails(s) PROVE IInv'
    <2>1. PICK y \in Spoken : y = Finished(x, x.played, FALSE) BY <1>4, FinishedFacts
    <2>2. spoken' = [spoken EXCEPT ![s] = y] BY <1>2, <1>7, <2>1 DEF ForwardFails
    <2>3. /\ y.state # "new" /\ y.played = x.played /\ (y.complete => x.complete)
          /\ y.forwarded = x.forwarded
        BY <1>3, <1>4, <2>1 DEF Finished, Spoken
    <2>4. Tell(<<[kind |-> "truncate", s |-> s]>>) BY <1>7 DEF ForwardFails
    <2> QED BY <1>1, <1>2, <1>3, <2>2, <2>3, <2>4, SentenceLeft
<1> QED BY <1>5, <1>6, <1>7

LEMMA TruncateKeeps ==
    ASSUME IInv, NEW s \in Sentence, Truncate(s)
    PROVE  IInv'
<1>1. /\ spoken[s].state = "playing" /\ spoken' = [spoken EXCEPT ![s].cut = TRUE]
      /\ Tell(<<[kind |-> "truncate", s |-> s]>>)
      /\ UNCHANGED <<output, permit, service, session, conn, page, queue, heard, gap, absent>>
    BY DEF Truncate, Playing, SpokenOnly, HostOnly, linkSide, pageSide, sights
<1>2. PICK x \in Spoken : x = spoken[s] BY SentenceFacts
<1>3. PICK y \in Spoken : y = [x EXCEPT !.cut = TRUE] BY DEF Spoken
<1>4. spoken' = [spoken EXCEPT ![s] = y] BY <1>1, <1>2, <1>3
<1>5. /\ y.state = x.state /\ y.played = x.played /\ y.complete = x.complete
      /\ y.forwarded = x.forwarded
    BY <1>3 DEF Spoken
<1> QED BY <1>1, <1>2, <1>4, <1>5, SentenceLeft

\* Only finitely many sentences play at a time: dispose() can tell the page of each.
FewPlay == IsFiniteSet({s \in Sentence : Playing(s)})

LEMMA FewPlayStays ==
    ASSUME TypeOK, FewPlay, Next
    PROVE  FewPlay'
<1> DEFINE left == {s \in Sentence : Playing(s)}
<1>1. spoken \in [Sentence -> Spoken] /\ IsFiniteSet(left) BY DEF TypeOK, FewPlay
<1>2. ASSUME NEW t, \A s \in Sentence : s # t => spoken'[s] = spoken[s] PROVE FewPlay'
    <2>1. left' \subseteq left \cup {t} BY <1>2 DEF Playing
    <2>2. IsFiniteSet(left \cup {t}) BY <1>1, FS_AddElement
    <2> HIDE DEF left
    <2>3. IsFiniteSet(left') BY <2>1, <2>2, FS_Subset
    <2> QED BY <2>3 DEF FewPlay, left
<1>3. ASSUME spoken' = spoken PROVE FewPlay' BY <1>2, <1>3
<1>4. ASSUME NEW t, NEW y, spoken' = [spoken EXCEPT ![t] = y] PROVE FewPlay'
    BY <1>1, <1>2, <1>4
<1>5. ASSUME spoken' = [s \in Sentence |-> Finished(spoken[s], spoken[s].played, FALSE)]
      PROVE  FewPlay'
    <2>1. \A s \in Sentence : spoken'[s].state = "playing" => spoken[s].state = "playing"
        BY <1>1, <1>5 DEF Finished, Spoken
    <2>2. left' \subseteq left BY <2>1 DEF Playing
    <2> HIDE DEF left
    <2>3. IsFiniteSet(left') BY <1>1, <2>2, FS_Subset
    <2> QED BY <2>3 DEF FewPlay, left
<1>6. ASSUME PermitSteps PROVE FewPlay'
    BY <1>3, <1>6
    DEF PermitSteps, GoOutput, Grant, Renew, Expire, Revoke, StopOutput, PermitOnly
<1>7. ASSUME NEW s \in Sentence, Play(s) \/ Feeds(s) \/ Truncate(s) PROVE FewPlay'
    <2>1. \A t \in Sentence : t # s => spoken'[t] = spoken[t]
        BY <1>1, <1>7
        DEF Play, Feeds, Forward, ForwardStops, ForwardEnds, ForwardFails, Truncate
    <2> QED BY <1>2, <2>1
<1>8. ASSUME HostReads PROVE FewPlay'
    <2>1. \A t \in Sentence : t # Head(toHost).s => spoken'[t] = spoken[t]
        BY <1>1, <1>8 DEF HostReads, ReadReport
    <2> QED BY <1>2, <2>1
<1>9. ASSUME BeatSteps \/ Stall \/ Dispose PROVE FewPlay'
    <2>1. \/ spoken' = spoken
          \/ spoken' = [s \in Sentence |-> Finished(spoken[s], spoken[s].played, FALSE)]
        BY <1>9
        DEF BeatSteps, Beat, BeatWithoutPage, BeatLate, PageFails, SendBeat, Stall, Dispose
    <2> QED BY <1>3, <1>5, <2>1
<1>10. ASSUME PageSteps PROVE FewPlay'
    BY <1>3, <1>10
    DEF PageSteps, PageHandles, NewToken, Begin, Audio, TruncateOne, Handles, Plays, Render,
        HeadEnds, ReportCursor, Mute, LeaseRunsOut, FallSilent, Hang, GoesOn, WorkletOnly,
        PageOnly, hostSide
<1>11. ASSUME LinkSteps PROVE FewPlay'
    BY <1>3, <1>11
    DEF LinkSteps, Break, Idle, Breaks, HostSeesClose, PageSeesClose, Open, Load, hostSide
<1> QED BY <1>6, <1>7, <1>8, <1>9, <1>10, <1>11 DEF Next, ServiceSteps

\* The service is unloaded: all that plays is cut.
LEMMA DisposeKeeps ==
    ASSUME IInv, FewPlay, Dispose
    PROVE  IInv'
<1> DEFINE left == {s \in Sentence : Playing(s)}
<1>1. /\ service' = [service EXCEPT !.phase = "off"]
      /\ spoken' = [s \in Sentence |-> Finished(spoken[s], spoken[s].played, FALSE)]
      /\ \E order \in [1 .. Cardinality(left) -> left] :
            Tell([i \in DOMAIN order |-> [kind |-> "truncate", s |-> order[i]]])
      /\ UNCHANGED <<output, permit, session, conn, page, queue, heard, gap, absent>>
    BY DEF Dispose, HostOnly, linkSide, pageSide, sights
<1>2. PICK n \in Nat : n = Cardinality(left) BY FS_CardinalityType DEF FewPlay
<1> HIDE DEF left
<1>3. PICK order \in [1 .. n -> left] :
         Tell([i \in DOMAIN order |-> [kind |-> "truncate", s |-> order[i]]])
    BY <1>1, <1>2
<1>4. \A s \in left : s \in Sentence /\ spoken[s].state = "playing" BY DEF left, Playing
<1>5. PICK ms \in Seq(PageMessage) :
         /\ Tell(ms)
         /\ \A i \in DOMAIN ms : ms[i].kind = "truncate" /\ ms[i].s \in left
    <2> DEFINE ms == [i \in 1 .. n |-> [kind |-> "truncate", s |-> order[i]]]
    <2>1. \A i \in 1 .. n : [kind |-> "truncate", s |-> order[i]] \in PageMessage
        BY <1>4 DEF PageMessage
    <2>2. ms \in Seq(PageMessage) BY <2>1, SeqDef
    <2>3. Tell(ms) BY <1>3
    <2>4. \A i \in DOMAIN ms : ms[i].kind = "truncate" /\ ms[i].s \in left OBVIOUS
    <2> HIDE DEF ms
    <2> QED BY <2>2, <2>3, <2>4
<1>6. spoken' \in [Sentence -> Spoken] /\ Settles /\ ResultsAreHeard' BY <1>1, AllFinished
<1>7. \A s \in left : spoken'[s].state # "new"
    <2> TAKE s \in left
    <2>1. spoken'[s] = Finished(spoken[s], spoken[s].played, FALSE) BY <1>1, <1>4
    <2>2. spoken[s] \in Spoken /\ spoken[s].played \in Nat BY <1>4, SentenceFacts
    <2> QED BY <1>4, <2>1, <2>2 DEF Finished, Spoken
<1>8. Sayable(ms)
    <2>1. \A s \in Sentence : spoken'[s].cut => spoken[s].cut BY <1>6 DEF Settles
    <2> QED BY <1>1, <1>4, <1>5, <1>7, <2>1 DEF Sayable
<1>9. missed' \in BOOLEAN BY <1>5, TellFacts
<1>10. service' \in Service BY <1>1 DEF IInv, TypeOK, Service
<1>11. TypeOK' BY <1>1, <1>6, <1>9, <1>10 DEF IInv, TypeOK
<1>12. GoesForward BY <1>6, SettlingGoesForward DEF IInv, Counted
<1>13. PermitIsTold' BY <1>1 DEF IInv, PermitIsTold
<1> QED BY <1>1, <1>5, <1>6, <1>8, <1>11, <1>12, <1>13, TellKeeps
-----------------------------------------------------------------------------
(* What the page reads.                                                    *)

\* The first message on the way to the page is gone, the others move up.
MovesUp ==
    /\ toPage' \in Seq(PageMessage) /\ 1 \in DOMAIN toPage
    /\ \A k \in DOMAIN toPage' :
          k \in Nat /\ 0 < k /\ k + 1 \in DOMAIN toPage /\ toPage'[k] = toPage[k + 1]
    /\ \A k \in DOMAIN toPage : k = 1 \/ \E l \in DOMAIN toPage' : k = l + 1

\* What the first message makes of the sentences on the page.
QueueHandled ==
    /\ QueuedOnce'
    /\ \A i \in DOMAIN queue' :
          \/ \E j \in DOMAIN queue :
                /\ queue'[i].s = queue[j].s /\ queue'[i].token = queue[j].token
                /\ \/ queue'[i].got = queue[j].got
                   \/ /\ Kind(1, "audio") /\ About(1, queue[j].s)
                      /\ queue'[i].got = queue[j].got + 1
                /\ queue'[i].all => queue[j].all \/ (Kind(1, "end") /\ About(1, queue[j].s))
          \/ /\ Kind(1, "begin") /\ About(1, queue'[i].s) /\ queue'[i].got = 0
             /\ ~queue'[i].all /\ queue'[i].token = toPage[1].token
    /\ Kind(1, "truncate") => \A s : About(1, s) => ~OnQueue(s)'
    /\ Kind(1, "token") => page'.lease = toPage[1].token

LEMMA HandlesFacts ==
    ASSUME IInv, NEW kind, Handles(kind)
    PROVE  /\ page.socket /\ Kind(1, kind) /\ Head(toPage) = toPage[1] /\ toPage[1] \in PageMessage
           /\ UNCHANGED <<output, permit, service, spoken, session, conn, heard, missed, gap,
                          absent>>
           /\ MovesUp
<1>1. /\ page.socket /\ toPage # <<>> /\ Head(toPage).kind = kind /\ toPage' = Tail(toPage)
      /\ UNCHANGED <<output, permit, service, spoken, session, conn, heard, missed, gap, absent>>
    BY DEF Handles, PageOnly, hostSide, linkSide, sights
<1>2. toPage \in Seq(PageMessage) BY DEF IInv, LinkIsTyped
<1>3. /\ toPage' \in Seq(PageMessage) /\ Head(toPage) = toPage[1] /\ 1 \in DOMAIN toPage
      /\ \A i \in DOMAIN toPage' : i + 1 \in DOMAIN toPage /\ toPage'[i] = toPage[i + 1]
      /\ \A i \in DOMAIN toPage : 1 < i => i - 1 \in DOMAIN toPage' /\ toPage'[i - 1] = toPage[i]
    BY <1>1, <1>2, TailFacts
<1>4. /\ DOMAIN toPage \subseteq Nat /\ \A i \in DOMAIN toPage : toPage[i] \in PageMessage /\ 0 < i
      /\ DOMAIN toPage' \subseteq Nat /\ \A i \in DOMAIN toPage' : 0 < i
    BY <1>2, <1>3, Indices
<1>5. \A k \in DOMAIN toPage : k = 1 \/ \E l \in DOMAIN toPage' : k = l + 1
    <2> TAKE k \in DOMAIN toPage
    <2>1. k \in Nat /\ 0 < k BY <1>4
    <2>2. CASE 1 < k
        <3>1. k - 1 \in DOMAIN toPage' /\ k = (k - 1) + 1 BY <1>3, <2>1, <2>2
        <3> QED BY <3>1
    <2> QED BY <2>1, <2>2
<1>6. MovesUp BY <1>3, <1>4, <1>5 DEF MovesUp
<1> QED BY <1>1, <1>3, <1>4, <1>6 DEF Kind

\* The counts, when the page has read a message.
LEMMA CountedHandled ==
    ASSUME IInv, TypeOK', MovesUp, QueueHandled, UNCHANGED <<spoken, heard>>, ReportsAreTrue'
    PROVE  Counted'
<1>1. TypeOK /\ LinkIsTyped /\ Counted BY DEF IInv
<1>2. \A s \in Sentence :
         spoken[s].forwarded \in Nat /\ heard[s] \in Nat /\ Chunks[s] \in Nat
    BY <1>1, ForwardedIsNat
<1>3. \A k \in DOMAIN toPage' :
         /\ k \in Nat /\ 0 < k /\ k + 1 \in DOMAIN toPage /\ toPage'[k] = toPage[k + 1]
         /\ \A kind : Kind(k, kind)' <=> Kind(k + 1, kind)
         /\ \A s : About(k, s)' <=> About(k + 1, s)
    BY DEF MovesUp, Kind, About
<1>4. 1 \in DOMAIN toPage /\ \A k \in DOMAIN toPage : k = 1 \/ \E l \in DOMAIN toPage' : k = l + 1
    BY DEF MovesUp
<1>5. \A s : OnQueue(s)' => OnQueue(s) \/ (Kind(1, "begin") /\ About(1, s))
    BY DEF QueueHandled, OnQueue
<1>6. NewIsUnheardOf' BY <1>1, <1>3, <1>4, <1>5 DEF Counted, NewIsUnheardOf
<1>7. BeginsComeFirst'
    <2> SUFFICES ASSUME NEW k \in DOMAIN toPage', NEW s \in Sentence,
                        Kind(k, "begin")', About(k, s)'
                 PROVE  /\ heard[s] = 0 /\ ~OnQueue(s)'
                        /\ \A j \in DOMAIN toPage' : About(j, s)' => k <= j
        BY DEF BeginsComeFirst
    <2>1. /\ heard[s] = 0 /\ ~OnQueue(s)
          /\ \A j \in DOMAIN toPage : About(j, s) => k + 1 <= j
        BY <1>1, <1>3 DEF Counted, BeginsComeFirst
    <2>2. k \in Nat /\ 0 < k BY <1>3
    <2>3. ~About(1, s) BY <1>4, <2>1, <2>2
    <2>4. ~OnQueue(s)' BY <1>5, <2>1, <2>3
    <2>5. ASSUME NEW j \in DOMAIN toPage', About(j, s)' PROVE k <= j
        <3>1. k + 1 <= j + 1 /\ j \in Nat BY <1>3, <2>1, <2>5
        <3> QED BY <2>2, <3>1
    <2> QED BY <2>1, <2>4, <2>5
<1>8. PICK f \in [DOMAIN toPage -> Nat] : Numbers(f) BY <1>1 DEF Counted, ChunksComeOnce
<1>9. \A k \in DOMAIN toPage :
         Kind(k, "audio") =>
            /\ 0 < f[k] /\ f[k] <= spoken[toPage[k].s].forwarded /\ f[k] \in Nat
            /\ \A j \in DOMAIN toPage :
                  Kind(j, "audio") /\ toPage[j].s = toPage[k].s /\ j < k => f[j] < f[k]
            /\ \A i \in DOMAIN queue : queue[i].s = toPage[k].s => queue[i].got < f[k]
    BY <1>8 DEF Numbers
<1>10. ASSUME NEW j \in DOMAIN queue, Kind(1, "audio"), About(1, queue[j].s)
       PROVE  queue[j].got < f[1] /\ f[1] <= spoken[queue[j].s].forwarded /\ f[1] \in Nat
    BY <1>4, <1>9, <1>10 DEF About
<1>11. ChunksComeOnce'
    <2>1. PICK g \in [DOMAIN toPage' -> Nat] : \A k \in DOMAIN toPage' : g[k] = f[k + 1]
        <3>1. [k \in DOMAIN toPage' |-> f[k + 1]] \in [DOMAIN toPage' -> Nat] BY <1>3, <1>8
        <3> QED BY <3>1
    <2>2. Numbers(g)'
        <3> SUFFICES ASSUME NEW k \in DOMAIN toPage', Kind(k, "audio")'
                     PROVE  /\ 0 < g[k] /\ g[k] <= spoken[toPage'[k].s].forwarded
                            /\ \A j \in DOMAIN toPage' :
                                  Kind(j, "audio")' /\ toPage'[j].s = toPage'[k].s /\ j < k
                                     => g[j] < g[k]
                            /\ \A i \in DOMAIN queue' :
                                  queue'[i].s = toPage'[k].s => queue'[i].got < g[k]
            BY DEF Numbers
        <3>1. k \in Nat /\ 0 < k /\ k + 1 \in DOMAIN toPage /\ toPage'[k] = toPage[k + 1]
              /\ Kind(k + 1, "audio")
            BY <1>3
        <3>2. PICK s \in Sentence, c \in Nat :
                 s = toPage[k + 1].s /\ c = f[k + 1] /\ toPage'[k].s = s /\ g[k] = c
            BY <1>1, <1>9, <2>1, <3>1, MessageFacts
        <3>3. 0 < c /\ c <= spoken[s].forwarded BY <1>9, <3>1, <3>2
        <3>4. ASSUME NEW j \in DOMAIN toPage', Kind(j, "audio")', toPage'[j].s = s, j < k
              PROVE  g[j] < c
            <4>1. j + 1 \in DOMAIN toPage /\ Kind(j + 1, "audio") /\ toPage[j + 1].s = s
                BY <1>3, <3>4
            <4>2. j + 1 < k + 1 BY <1>3, <3>1, <3>4
            <4>3. f[j + 1] < c BY <1>9, <3>1, <3>2, <4>1, <4>2
            <4> QED BY <2>1, <4>3
        <3>5. ASSUME NEW i \in DOMAIN queue', queue'[i].s = s PROVE queue'[i].got < c
            <4>1. CASE \E j \in DOMAIN queue :
                          /\ queue'[i].s = queue[j].s
                          /\ \/ queue'[i].got = queue[j].got
                             \/ /\ Kind(1, "audio") /\ About(1, queue[j].s)
                                /\ queue'[i].got = queue[j].got + 1
                <5>1. PICK j \in DOMAIN queue :
                         /\ queue'[i].s = queue[j].s
                         /\ \/ queue'[i].got = queue[j].got
                            \/ /\ Kind(1, "audio") /\ About(1, queue[j].s)
                               /\ queue'[i].got = queue[j].got + 1
                    BY <4>1
                <5>2. queue[j].got \in Nat /\ queue[j].s = s BY <1>1, <3>5, <5>1, QueueFacts
                <5>3. CASE queue'[i].got = queue[j].got
                    BY <1>9, <3>1, <3>2, <5>2, <5>3
                <5>4. CASE /\ Kind(1, "audio") /\ About(1, queue[j].s)
                           /\ queue'[i].got = queue[j].got + 1
                    <6>1. queue[j].got < f[1] /\ f[1] \in Nat BY <1>10, <5>4
                    <6>2. toPage[1].s = s BY <5>2, <5>4 DEF About
                    <6>3. 1 < k + 1 BY <3>1
                    <6>4. f[1] < c BY <1>4, <1>9, <3>1, <3>2, <5>4, <6>2, <6>3
                    <6> QED BY <5>2, <5>4, <6>1, <6>4
                <5> QED BY <5>1, <5>3, <5>4
            <4>2. CASE queue'[i].got = 0 BY <3>3, <4>2
            <4> QED BY <4>1, <4>2 DEF QueueHandled
        <3> QED BY <3>2, <3>3, <3>4, <3>5
    <2> QED BY <2>1, <2>2 DEF ChunksComeOnce
<1>12. QueueIsForwarded'
    <2> SUFFICES ASSUME NEW i \in DOMAIN queue'
                 PROVE  /\ heard[queue'[i].s] <= queue'[i].got
                        /\ queue'[i].got <= spoken[queue'[i].s].forwarded
                        /\ queue'[i].all => spoken[queue'[i].s].forwarded = Chunks[queue'[i].s]
        BY DEF QueueIsForwarded, Whole
    <2>1. ASSUME NEW j \in DOMAIN queue, queue'[i].s = queue[j].s,
                 \/ queue'[i].got = queue[j].got
                 \/ Kind(1, "audio") /\ About(1, queue[j].s) /\ queue'[i].got = queue[j].got + 1,
                 queue'[i].all => queue[j].all \/ (Kind(1, "end") /\ About(1, queue[j].s))
          PROVE  /\ heard[queue[j].s] <= queue'[i].got
                 /\ queue'[i].got <= spoken[queue[j].s].forwarded
                 /\ queue'[i].all => spoken[queue[j].s].forwarded = Chunks[queue[j].s]
        <3>1. PICK s \in Sentence, c \in Nat : s = queue[j].s /\ c = queue[j].got
            BY <1>1, QueueFacts
        <3>2. /\ heard[s] <= c /\ c <= spoken[s].forwarded /\ heard[s] \in Nat
              /\ spoken[s].forwarded \in Nat
              /\ queue[j].all => spoken[s].forwarded = Chunks[s]
            BY <1>1, <1>2, <3>1 DEF Counted, QueueIsForwarded, Whole
        <3>3. queue'[i].got = c \/ (queue'[i].got = c + 1 /\ c + 1 <= spoken[s].forwarded)
            <4>1. CASE Kind(1, "audio") /\ About(1, queue[j].s) /\ queue'[i].got = queue[j].got + 1
                <5>1. c < f[1] /\ f[1] <= spoken[s].forwarded /\ f[1] \in Nat
                    BY <1>10, <3>1, <4>1
                <5> QED BY <3>1, <3>2, <4>1, <5>1
            <4> QED BY <2>1, <3>1, <4>1
        <3>4. Kind(1, "end") /\ About(1, s) => spoken[s].forwarded = Chunks[s]
            <4>1. OnQueue(s) BY <3>1 DEF OnQueue
            <4>2. \A k \in DOMAIN toPage : ~(k < 1) BY <1>3, <1>4
            <4> QED BY <1>1, <1>4, <4>1, <4>2 DEF Counted, EndsAreWhole, Whole
        <3>5. heard[s] <= queue'[i].got /\ queue'[i].got <= spoken[s].forwarded
            BY <3>2, <3>3
        <3> QED BY <2>1, <3>1, <3>2, <3>4, <3>5
    <2>2. ASSUME Kind(1, "begin"), About(1, queue'[i].s), queue'[i].got = 0, ~queue'[i].all
          PROVE  /\ heard[queue'[i].s] <= queue'[i].got
                 /\ queue'[i].got <= spoken[queue'[i].s].forwarded
        <3>1. PICK s \in Sentence : s = queue'[i].s BY <1>1, <1>4, <2>2, MessageFacts DEF About
        <3>2. heard[s] = 0 BY <1>1, <1>4, <2>2, <3>1 DEF Counted, BeginsComeFirst
        <3> QED BY <1>2, <2>2, <3>1, <3>2
    <2> QED BY <2>1, <2>2 DEF QueueHandled
<1>13. EndsAreWhole'
    <2> SUFFICES ASSUME NEW k \in DOMAIN toPage', NEW s \in Sentence,
                        Kind(k, "end")', About(k, s)', OnQueue(s)' \/ OnTheWay(s)', ~Whole(s)
                 PROVE  \E j \in DOMAIN toPage' : j < k /\ Kind(j, "truncate")' /\ About(j, s)'
        BY DEF EndsAreWhole, Whole
    <2>1. OnTheWay(s)' => OnTheWay(s) /\ ~About(1, s)
        <3> SUFFICES ASSUME NEW j \in DOMAIN toPage', Kind(j, "begin")', About(j, s)'
                     PROVE  OnTheWay(s) /\ ~About(1, s)
            BY DEF OnTheWay
        <3>1. j + 1 \in DOMAIN toPage /\ Kind(j + 1, "begin") /\ About(j + 1, s) /\ ~(j + 1 <= 1)
            BY <1>3
        <3> QED BY <1>1, <1>4, <3>1 DEF Counted, BeginsComeFirst, OnTheWay
    <2>2. OnQueue(s) \/ OnTheWay(s) BY <1>4, <1>5, <2>1 DEF OnTheWay
    <2>3. PICK j \in DOMAIN toPage : j < k + 1 /\ Kind(j, "truncate") /\ About(j, s)
        BY <1>1, <1>3, <2>2 DEF Counted, EndsAreWhole
    <2>4. j # 1
        <3> SUFFICES ASSUME j = 1 PROVE FALSE OBVIOUS
        <3>1. ~OnQueue(s)' BY <2>3 DEF QueueHandled
        <3> QED BY <2>1, <2>3, <3>1
    <2>5. PICK l \in DOMAIN toPage' : j = l + 1 BY <1>4, <2>4
    <2>6. l < k BY <1>3, <2>3, <2>5
    <2> QED BY <1>3, <2>3, <2>5, <2>6
<1>14. HeardIsForwarded' BY <1>1 DEF Counted, HeardIsForwarded
<1> QED BY <1>6, <1>7, <1>11, <1>12, <1>13, <1>14 DEF Counted, QueueHandled

\* The orders, when the page has read a message.
LEMMA OrderedHandled ==
    ASSUME IInv, queue' \in Seq(Queued), MovesUp, QueueHandled, QueueHasTheLease',
           UNCHANGED <<permit, spoken, conn, missed>>
    PROVE  Ordered'
<1>1. TypeOK /\ LinkIsTyped /\ Ordered BY DEF IInv
<1>2. \A k \in DOMAIN toPage' :
         /\ k \in Nat /\ 0 < k /\ k + 1 \in DOMAIN toPage /\ toPage'[k] = toPage[k + 1]
         /\ \A kind : Kind(k, kind)' <=> Kind(k + 1, kind)
         /\ \A s : About(k, s)' <=> About(k + 1, s)
    BY DEF MovesUp, Kind, About
<1>3. 1 \in DOMAIN toPage /\ \A k \in DOMAIN toPage : k = 1 \/ \E l \in DOMAIN toPage' : k = l + 1
    BY DEF MovesUp
<1>4. \A i \in DOMAIN queue' :
         \/ \E j \in DOMAIN queue : queue'[i].s = queue[j].s /\ queue'[i].token = queue[j].token
         \/ /\ Kind(1, "begin") /\ About(1, queue'[i].s)
            /\ queue'[i].token = toPage[1].token
    BY DEF QueueHandled
<1>5. \A i \in DOMAIN queue : HasSentences BY DEF HasSentences
<1>6. HasSentences' => HasSentences
    <2>1. InFlight("begin", toPage)' => InFlight("begin", toPage) BY <1>2 DEF InFlight, Kind
    <2>2. Kind(1, "begin") => InFlight("begin", toPage) BY <1>3 DEF InFlight, Kind
    <2>3. ASSUME queue' # <<>> PROVE HasSentences
        <3>1. 1 \in DOMAIN queue' BY <2>3, TailFacts
        <3>2. DOMAIN queue # {} \/ Kind(1, "begin") BY <1>4, <3>1
        <3> QED BY <1>5, <2>2, <3>2 DEF HasSentences
    <2> QED BY <2>1, <2>3 DEF HasSentences
<1>7. \A k \in DOMAIN toPage : Kind(k, "begin") => HasSentences
    BY DEF HasSentences, InFlight, Kind
<1>8. LastTokenIsTold'
    <2> SUFFICES ASSUME NEW k \in DOMAIN toPage', Kind(k, "token")',
                        \A j \in DOMAIN toPage' : Kind(j, "token")' => j <= k,
                        conn \/ (~missed /\ HasSentences)
                 PROVE  toPage'[k].token = permit.told
        BY <1>6 DEF LastTokenIsTold
    <2>1. \A j \in DOMAIN toPage : Kind(j, "token") => j <= k + 1
        <3> SUFFICES ASSUME NEW j \in DOMAIN toPage, Kind(j, "token") PROVE j <= k + 1
            OBVIOUS
        <3>1. k \in Nat BY <1>2
        <3>2. CASE j = 1 BY <3>1, <3>2
        <3>3. ASSUME NEW l \in DOMAIN toPage', j = l + 1 PROVE j <= k + 1
            <4>1. l <= k /\ l \in Nat BY <1>2, <3>3
            <4> QED BY <3>1, <3>3, <4>1
        <3> QED BY <1>3, <3>2, <3>3
    <2> QED BY <1>1, <1>2, <2>1 DEF Ordered, LastTokenIsTold
<1>9. TokensArrive'
    <2> SUFFICES ASSUME ~missed
                 PROVE  /\ \A i \in DOMAIN queue' :
                              \/ queue'[i].token = permit.told
                              \/ \E j \in DOMAIN toPage' : Kind(j, "token")'
                        /\ \A k \in DOMAIN toPage' :
                              Kind(k, "begin")' =>
                                 \/ toPage'[k].token = permit.told
                                 \/ \E j \in DOMAIN toPage' : k < j /\ Kind(j, "token")'
        BY DEF TokensArrive, InFlight, Kind
    <2>1. \A k \in DOMAIN toPage :
             Kind(k, "begin") =>
                toPage[k].token = permit.told \/ \E j \in DOMAIN toPage : k < j /\ Kind(j, "token")
        BY <1>1 DEF Ordered, TokensArrive
    <2>2. ASSUME NEW i \in DOMAIN queue', ~\E j \in DOMAIN toPage' : Kind(j, "token")'
          PROVE  queue'[i].token = permit.told
        <3>1. \A j \in DOMAIN toPage : Kind(j, "token") => j = 1 BY <1>2, <1>3, <2>2
        <3>2. ASSUME NEW j \in DOMAIN queue, queue'[i].token = queue[j].token
              PROVE  queue'[i].token = permit.told
            <4>1. CASE Kind(1, "token")
                <5>1. toPage[1].token = permit.told
                    <6>1. \A l \in DOMAIN toPage : Kind(l, "token") => l <= 1 BY <3>1
                    <6> QED BY <1>1, <1>3, <1>5, <4>1, <6>1 DEF Ordered, LastTokenIsTold
                <5> QED BY <4>1, <5>1 DEF QueueHandled, QueueHasTheLease
            <4>2. CASE ~Kind(1, "token")
                <5>1. \A l \in DOMAIN toPage : ~Kind(l, "token") BY <3>1, <4>2
                <5>2. queue[j].token = permit.told
                    BY <1>1, <5>1 DEF Ordered, TokensArrive, InFlight, Kind
                <5> QED BY <3>2, <5>2
            <4> QED BY <4>1, <4>2
        <3>3. ASSUME Kind(1, "begin"), queue'[i].token = toPage[1].token
              PROVE  queue'[i].token = permit.told
            BY <1>3, <2>1, <3>1, <3>3
        <3> QED BY <1>4, <3>2, <3>3
    <2>3. ASSUME NEW k \in DOMAIN toPage', Kind(k, "begin")'
          PROVE  \/ toPage'[k].token = permit.told
                 \/ \E j \in DOMAIN toPage' : k < j /\ Kind(j, "token")'
        <3>1. k \in Nat /\ toPage'[k] = toPage[k + 1] BY <1>2
        <3>2. \/ toPage[k + 1].token = permit.told
              \/ \E j \in DOMAIN toPage : k + 1 < j /\ Kind(j, "token")
            BY <1>2, <2>1, <2>3
        <3>3. ASSUME NEW j \in DOMAIN toPage, k + 1 < j, Kind(j, "token")
              PROVE  \E l \in DOMAIN toPage' : k < l /\ Kind(l, "token")'
            <4>1. PICK l \in DOMAIN toPage' : j = l + 1 BY <1>3, <3>1, <3>3
            <4>2. k < l BY <1>2, <3>1, <3>3, <4>1
            <4> QED BY <1>2, <3>3, <4>1, <4>2
        <3> QED BY <3>1, <3>2, <3>3
    <2> QED BY <2>2, <2>3
<1>10. CutsArrive'
    <2> SUFFICES ASSUME ~missed, NEW s \in Sentence, spoken[s].cut
                 PROVE  /\ OnQueue(s)' =>
                              \E j \in DOMAIN toPage' : Kind(j, "truncate")' /\ About(j, s)'
                        /\ \A k \in DOMAIN toPage' :
                              Kind(k, "begin")' /\ About(k, s)' =>
                                 \E j \in DOMAIN toPage' :
                                    k < j /\ Kind(j, "truncate")' /\ About(j, s)'
        BY DEF CutsArrive
    <2>1. /\ OnQueue(s) => \E j \in DOMAIN toPage : Kind(j, "truncate") /\ About(j, s)
          /\ \A k \in DOMAIN toPage :
                Kind(k, "begin") /\ About(k, s) =>
                   \E j \in DOMAIN toPage : k < j /\ Kind(j, "truncate") /\ About(j, s)
        BY <1>1 DEF Ordered, CutsArrive
    <2>2. ASSUME OnQueue(s)'
          PROVE  \E j \in DOMAIN toPage' : Kind(j, "truncate")' /\ About(j, s)'
        <3>1. OnQueue(s) \/ (Kind(1, "begin") /\ About(1, s))
            BY <1>4, <2>2 DEF OnQueue
        <3>2. PICK j \in DOMAIN toPage : Kind(j, "truncate") /\ About(j, s)
            BY <1>3, <2>1, <3>1
        <3>3. j # 1 BY <2>2, <3>2 DEF QueueHandled
        <3>4. PICK l \in DOMAIN toPage' : j = l + 1 BY <1>3, <3>3
        <3> QED BY <1>2, <3>2, <3>4
    <2>3. ASSUME NEW k \in DOMAIN toPage', Kind(k, "begin")', About(k, s)'
          PROVE  \E j \in DOMAIN toPage' : k < j /\ Kind(j, "truncate")' /\ About(j, s)'
        <3>1. PICK j \in DOMAIN toPage : k + 1 < j /\ Kind(j, "truncate") /\ About(j, s)
            BY <1>2, <2>1, <2>3
        <3>2. k \in Nat BY <1>2
        <3>3. PICK l \in DOMAIN toPage' : j = l + 1 BY <1>3, <3>1, <3>2
        <3>4. k < l BY <1>2, <3>1, <3>2, <3>3
        <3> QED BY <1>2, <3>1, <3>3, <3>4
    <2> QED BY <2>2, <2>3
<1> QED BY <1>8, <1>9, <1>10 DEF Ordered

LEMMA HandlesKeeps ==
    ASSUME IInv, NEW kind, Handles(kind), page' \in Page, page'.socket = page.socket,
           queue' \in Seq(Queued), QueueHandled, QueueHasTheLease',
           \/ toHost' = toHost
           \/ \E reports \in Seq(HostMessage) :
                 /\ toHost' = Reported(reports) /\ \A j \in DOMAIN reports : True(reports[j])
    PROVE  IInv'
<1>1. /\ page.socket /\ MovesUp
      /\ UNCHANGED <<output, permit, service, spoken, session, conn, heard, missed, gap, absent>>
    BY HandlesFacts
<1>2. TypeOK' BY <1>1 DEF IInv, TypeOK
<1>3. toHost' \in Seq(HostMessage) /\ ReportsAreTrue'
    <2>1. CASE toHost' = toHost
        BY <1>1, <2>1 DEF IInv, LinkIsTyped, Counted, ReportsAreTrue, Whole
    <2>2. ASSUME NEW reports \in Seq(HostMessage), toHost' = Reported(reports),
                 \A j \in DOMAIN reports : True(reports[j])
          PROVE  toHost' \in Seq(HostMessage) /\ ReportsAreTrue'
        BY <1>1, <2>2, TrueReports
    <2> QED BY <2>1, <2>2
<1>4. Counted' BY <1>1, <1>2, <1>3, CountedHandled
<1>5. Ordered' BY <1>1, OrderedHandled
<1>6. LinkIsTyped' /\ PermitIsTold' /\ ResultsAreHeard'
    BY <1>1, <1>3 DEF IInv, LinkIsTyped, PermitIsTold, ResultsAreHeard, MovesUp
<1> QED BY <1>2, <1>4, <1>5, <1>6 DEF IInv

LEMMA NewTokenKeeps ==
    ASSUME IInv, NewToken
    PROVE  IInv'
<1> DEFINE t == Head(toPage).token
<1>1. /\ Handles("token") /\ page' = [page EXCEPT !.lease = t, !.leased = (t # 0)]
      /\ \/ queue' = <<>> /\ toHost' = Reported(TruncatedAll(queue))
         \/ t = page.lease /\ queue' = queue /\ toHost' = Reported(<<>>)
    BY DEF NewToken
<1>2. Kind(1, "token") /\ t = toPage[1].token /\ toPage[1] \in PageMessage
    BY <1>1, HandlesFacts
<1>3. t \in Token BY <1>2 DEF Kind, PageMessage
<1> HIDE DEF t
<1>4. PICK leased \in BOOLEAN : leased = (t # 0) BY Zenon
<1>5. page' \in Page /\ page'.socket = page.socket /\ page'.lease = t
    <2>1. page' = [page EXCEPT !.lease = t, !.leased = leased] BY <1>1, <1>4
    <2> QED BY <1>3, <2>1 DEF IInv, TypeOK, Page
<1>6. /\ queue' \in Seq(Queued) /\ QueuedOnce' /\ QueueHasTheLease'
      /\ \A i \in DOMAIN queue' : \E j \in DOMAIN queue : queue'[i] = queue[j]
    <2>1. CASE queue' = <<>> BY <2>1, NothingQueued DEF StillOnQueue
    <2>2. CASE t = page.lease /\ queue' = queue
        BY <1>5, <2>2
        DEF IInv, TypeOK, Counted, QueuedOnce, Ordered, QueueHasTheLease
    <2> QED BY <1>1, <2>1, <2>2
<1>7. QueueHandled BY <1>2, <1>5, <1>6 DEF QueueHandled, Kind
<1>8. \E reports \in Seq(HostMessage) :
         toHost' = Reported(reports) /\ \A j \in DOMAIN reports : True(reports[j])
    BY <1>1, TruncatedAllIsTrue, NoReports
<1> QED BY <1>1, <1>5, <1>6, <1>7, <1>8, HandlesKeeps

\* The page takes a sentence to play under its own token, or reports it cut.
LEMMA BeginKeeps ==
    ASSUME IInv, Begin
    PROVE  IInv'
<1> DEFINE m == Head(toPage)
           new == [s |-> m.s, token |-> m.token, got |-> 0, all |-> FALSE]
<1>1. /\ Handles("begin") /\ page' = page
      /\ \/ m.token = page.lease /\ queue' = Append(queue, new) /\ toHost' = Reported(<<>>)
         \/ queue' = queue /\ toHost' = Reported(<<Truncated(m.s)>>)
    BY DEF Begin
<1>2. Kind(1, "begin") /\ m = toPage[1] /\ m \in PageMessage /\ MovesUp
    BY <1>1, HandlesFacts
<1>3. m.s \in Sentence /\ m.token \in Token /\ About(1, m.s)
    BY <1>2 DEF Kind, About, PageMessage
<1>4. new \in Queued /\ new.s = m.s /\ new.token = m.token /\ new.got = 0 /\ ~new.all
    BY <1>3 DEF Queued
<1> HIDE DEF m, new
<1>5. page' \in Page /\ page'.socket = page.socket BY <1>1 DEF IInv, TypeOK
<1>6. queue \in Seq(Queued) /\ QueuedOnce /\ QueueHasTheLease
    BY DEF IInv, TypeOK, Counted, Ordered
<1>7. ~OnQueue(m.s) BY <1>2, <1>3 DEF IInv, Counted, BeginsComeFirst, MovesUp
<1>8. CASE m.token = page.lease /\ queue' = Append(queue, new) /\ toHost' = Reported(<<>>)
    <2>1. PICK n \in Nat : n = Len(queue) /\ DOMAIN queue = 1 .. n BY <1>6, LenProperties
    <2>2. /\ queue' \in Seq(Queued) /\ Len(queue') = n + 1
          /\ \A i \in 1 .. n : queue'[i] = queue[i]
          /\ queue'[n + 1] = new
        BY <1>4, <1>6, <1>8, <2>1, AppendProperties
    <2>3. DOMAIN queue' = 1 .. n + 1 BY <2>2, LenProperties
    <2>4. \A i \in DOMAIN queue' : i \in DOMAIN queue \/ i = n + 1 BY <2>1, <2>3
    <2>5. QueuedOnce'
        BY <1>4, <1>6, <1>7, <2>1, <2>2, <2>4 DEF QueuedOnce, OnQueue
    <2>6. QueueHasTheLease' BY <1>1, <1>4, <1>6, <1>8, <2>1, <2>2, <2>4 DEF QueueHasTheLease
    <2>7. QueueHandled
        <3>1. \A i \in DOMAIN queue' :
                 \/ \E j \in DOMAIN queue : queue'[i] = queue[j]
                 \/ queue'[i] = new
            BY <2>1, <2>2, <2>4
        <3> QED BY <1>2, <1>3, <1>4, <2>5, <3>1 DEF QueueHandled, Kind
    <2> QED BY <1>1, <1>5, <1>8, <2>2, <2>6, <2>7, NoReports, HandlesKeeps
<1>9. CASE queue' = queue /\ toHost' = Reported(<<Truncated(m.s)>>)
    <2>1. QueuedOnce' /\ QueueHasTheLease'
        BY <1>1, <1>6, <1>9 DEF QueuedOnce, QueueHasTheLease
    <2>2. QueueHandled BY <1>2, <1>9, <2>1 DEF QueueHandled, Kind
    <2>3. Truncated(m.s) \in HostMessage /\ True(Truncated(m.s)) BY <1>3, TruncatedIsTrue
    <2>4. /\ <<Truncated(m.s)>> \in Seq(HostMessage)
          /\ \A j \in DOMAIN <<Truncated(m.s)>> : <<Truncated(m.s)>>[j] = Truncated(m.s)
        BY <2>3, OneReport
    <2>5. \A j \in DOMAIN <<Truncated(m.s)>> : True(<<Truncated(m.s)>>[j]) BY <2>3, <2>4
    <2> QED BY <1>1, <1>5, <1>6, <1>9, <2>1, <2>2, <2>4, <2>5, HandlesKeeps
<1> QED BY <1>1, <1>8, <1>9

\* A chunk, or the end, for a sentence on the page under its token.
LEMMA AudioKeeps ==
    ASSUME IInv, Audio("audio") \/ Audio("end")
    PROVE  IInv'
<1> DEFINE m == Head(toPage)
<1>1. PICK kind \in {"audio", "end"} :
         /\ Handles(kind) /\ page' = page /\ toHost' = toHost
         /\ queue' = [i \in DOMAIN queue |-> Updated(m, queue[i])]
    BY DEF Audio
<1>2. Kind(1, kind) /\ m = toPage[1] /\ m \in PageMessage /\ m.kind = kind
    BY <1>1, HandlesFacts DEF Kind
<1>3. About(1, m.s) BY <1>1, <1>2 DEF About
<1> HIDE DEF m
<1>4. page' \in Page /\ page'.socket = page.socket BY <1>1 DEF IInv, TypeOK
<1>5. queue \in Seq(Queued) /\ TypeOK /\ QueuedOnce /\ QueueHasTheLease
    BY DEF IInv, TypeOK, Counted, Ordered
<1>6. ASSUME NEW i \in DOMAIN queue
      PROVE  LET q == Updated(m, queue[i])
             IN  /\ q \in Queued /\ q.s = queue[i].s /\ q.token = queue[i].token
                 /\ \/ q.got = queue[i].got
                    \/ kind = "audio" /\ queue[i].s = m.s /\ q.got = queue[i].got + 1
                 /\ q.all => queue[i].all \/ (kind = "end" /\ queue[i].s = m.s)
    <2>1. PICK x \in Queued : x = queue[i] /\ x.got \in Nat BY <1>5, QueueFacts
    <2>2. CASE Updated(m, queue[i]) = x BY <2>1, <2>2
    <2>3. CASE x.s = m.s /\ kind = "audio" /\ Updated(m, queue[i]) = [x EXCEPT !.got = @ + 1]
        <3>1. PICK c \in Nat : c = x.got + 1 BY <2>1
        <3>2. Updated(m, queue[i]) = [x EXCEPT !.got = c] BY <2>3, <3>1
        <3> QED BY <2>1, <2>3, <3>1, <3>2 DEF Queued
    <2>4. CASE x.s = m.s /\ kind = "end" /\ Updated(m, queue[i]) = [x EXCEPT !.all = TRUE]
        BY <2>1, <2>4 DEF Queued
    <2> QED BY <1>1, <1>2, <2>1, <2>2, <2>3, <2>4 DEF Updated
<1>7. DOMAIN queue' = DOMAIN queue /\ \A i \in DOMAIN queue : queue'[i] = Updated(m, queue[i])
    BY <1>1
<1>8. queue' \in Seq(Queued)
    <2>1. PICK n \in Nat : DOMAIN queue = 1 .. n BY <1>5, LenProperties
    <2>2. queue' \in [1 .. n -> Queued] BY <1>1, <1>6, <2>1
    <2> QED BY <2>2, SeqDef
<1>9. QueuedOnce' BY <1>5, <1>6, <1>7 DEF QueuedOnce
<1>10. QueueHasTheLease' BY <1>1, <1>5, <1>6, <1>7 DEF QueueHasTheLease
<1>11. QueueHandled
    <2>1. \A i \in DOMAIN queue' :
             /\ i \in DOMAIN queue
             /\ queue'[i].s = queue[i].s /\ queue'[i].token = queue[i].token
             /\ \/ queue'[i].got = queue[i].got
                \/ /\ Kind(1, "audio") /\ About(1, queue[i].s)
                   /\ queue'[i].got = queue[i].got + 1
             /\ queue'[i].all => queue[i].all \/ (Kind(1, "end") /\ About(1, queue[i].s))
        BY <1>2, <1>3, <1>6, <1>7
    <2> QED BY <1>1, <1>2, <1>9, <2>1 DEF QueueHandled, Kind
<1> QED BY <1>1, <1>4, <1>8, <1>10, <1>11, HandlesKeeps

\* One element is spliced out.
LEMMA RemoveAtFacts ==
    ASSUME NEW S, NEW q \in Seq(S), NEW n \in DOMAIN q
    PROVE  /\ RemoveAt(q, n) \in Seq(S)
           /\ \A i \in DOMAIN RemoveAt(q, n) :
                 \E j \in DOMAIN q :
                    /\ RemoveAt(q, n)[i] = q[j] /\ j # n
                    /\ j = IF i < n THEN i ELSE i + 1
<1> DEFINE a == SubSeq(q, 1, n - 1)
           b == SubSeq(q, n + 1, Len(q))
<1>1. PICK len \in Nat : len = Len(q) /\ DOMAIN q = 1 .. len BY LenProperties
<1>2. n \in 1 .. len /\ n - 1 \in Int /\ n + 1 \in Int /\ len \in Int /\ 1 \in Int BY <1>1
<1>3. \A i \in 1 .. len : q[i] \in S BY <1>1, ElementOfSeq
<1>4. (\A i \in 1 .. n - 1 : q[i] \in S) /\ (\A i \in n + 1 .. len : q[i] \in S)
    BY <1>2, <1>3
<1>5. /\ a \in Seq(S) /\ Len(a) = IF 1 <= n - 1 THEN (n - 1) - 1 + 1 ELSE 0
      /\ \A i \in 1 .. (n - 1) - 1 + 1 : a[i] = q[1 + i - 1]
    BY <1>2, <1>4, SubSeqProperties
<1>6. /\ b \in Seq(S) /\ Len(b) = IF n + 1 <= len THEN len - (n + 1) + 1 ELSE 0
      /\ \A i \in 1 .. len - (n + 1) + 1 : b[i] = q[(n + 1) + i - 1]
    BY <1>1, <1>2, <1>4, SubSeqProperties
<1> HIDE DEF a, b
<1>7. (n - 1) - 1 + 1 = n - 1 /\ len - (n + 1) + 1 = len - n BY <1>2
<1>8. Len(a) = n - 1 /\ Len(b) = len - n
    <2>1. PICK la, lb : la = Len(a) /\ lb = Len(b) OBVIOUS
    <2>2. /\ la = IF 1 <= n - 1 THEN (n - 1) - 1 + 1 ELSE 0
          /\ lb = IF n + 1 <= len THEN len - (n + 1) + 1 ELSE 0
        BY <1>5, <1>6, <2>1
    <2>3. la = n - 1 /\ lb = len - n BY <1>2, <2>2
    <2> QED BY <2>1, <2>3
<1>9. \A i \in 1 .. n - 1 : a[i] = q[i]
    <2>1. \A i \in 1 .. n - 1 : 1 + i - 1 = i BY <1>2
    <2> QED BY <1>5, <1>7, <2>1
<1>10. \A i \in 1 .. len - n : b[i] = q[n + i]
    <2>1. \A i \in 1 .. len - n : (n + 1) + i - 1 = n + i BY <1>2
    <2> QED BY <1>6, <1>7, <2>1
<1>11. RemoveAt(q, n) = a \o b BY DEF RemoveAt, a, b
<1>12. PICK r : r = a \o b OBVIOUS
<1>13. /\ r \in Seq(S) /\ Len(r) = Len(a) + Len(b)
       /\ \A i \in 1 .. Len(a) + Len(b) : r[i] = IF i <= Len(a) THEN a[i] ELSE b[i - Len(a)]
    BY <1>5, <1>6, <1>12, ConcatProperties
<1>14. Len(a) + Len(b) = len - 1 BY <1>2, <1>8
<1>15. DOMAIN r = 1 .. len - 1 BY <1>13, <1>14, LenProperties
<1>16. ASSUME NEW i \in 1 .. len - 1
       PROVE  \E j \in 1 .. len : r[i] = q[j] /\ j # n /\ j = IF i < n THEN i ELSE i + 1
    <2>1. r[i] = IF i <= n - 1 THEN a[i] ELSE b[i - (n - 1)] BY <1>8, <1>13, <1>14
    <2>2. CASE i < n
        <3>1. i <= n - 1 /\ i \in 1 .. n - 1 /\ i \in 1 .. len /\ i # n BY <1>2, <2>2
        <3>2. r[i] = q[i] BY <1>9, <2>1, <3>1
        <3> QED BY <2>2, <3>1, <3>2
    <2>3. CASE ~(i < n)
        <3>1. /\ ~(i <= n - 1) /\ i - (n - 1) \in 1 .. len - n
              /\ n + (i - (n - 1)) = i + 1 /\ i + 1 \in 1 .. len /\ i + 1 # n
            BY <1>2, <2>3
        <3>2. r[i] = q[i + 1] BY <1>10, <2>1, <3>1
        <3> QED BY <2>3, <3>1, <3>2
    <2> QED BY <2>2, <2>3
<1> QED BY <1>1, <1>11, <1>12, <1>13, <1>15, <1>16

\* The sentence that is cut is gone, the others are still there.
LEMMA WithoutFacts ==
    ASSUME TypeOK, QueuedOnce, NEW s
    PROVE  LET q == Without(s)
           IN  /\ q \in Seq(Queued)
               /\ \A i \in DOMAIN q : \E j \in DOMAIN queue : q[i] = queue[j]
               /\ \A i, j \in DOMAIN q : q[i].s = q[j].s => i = j
               /\ \A i \in DOMAIN q : q[i].s # s
<1>1. queue \in Seq(Queued) BY DEF TypeOK
<1>2. PICK len \in Nat : len = Len(queue) /\ DOMAIN queue = 1 .. len BY <1>1, LenProperties
<1> DEFINE here == {i \in 1 .. len : queue[i].s = s}
<1>3. CASE here = {}
    <2>1. Without(s) = queue BY <1>2, <1>3 DEF Without, RemoveFirstMatch
    <2> QED BY <1>1, <1>2, <1>3, <2>1 DEF QueuedOnce
<1>4. CASE here # {}
    <2>1. PICK n : n = Min(here) OBVIOUS
    <2>2. n \in here
        <3>1. here \in SUBSET Nat BY <1>2
        <3>2. \E m \in here : \A k \in here : m <= k BY <1>4, <3>1, LeastElement
        <3> HIDE DEF here
        <3> QED BY <2>1, <3>2 DEF Min
    <2>3. Without(s) = RemoveAt(queue, n)
        <3>1. \E i \in 1 .. Len(queue) : queue[i].s = s BY <1>2, <1>4
        <3>2. Without(s) = RemoveAt(queue, SelectInSeq(queue, LAMBDA q : q.s = s))
            BY <3>1 DEF Without, RemoveFirstMatch
        <3>3. SelectInSeq(queue, LAMBDA q : q.s = s) = Min(here)
            BY <1>2, <1>4 DEF SelectInSeq
        <3> QED BY <2>1, <3>2, <3>3
    <2>4. n \in DOMAIN queue /\ queue[n].s = s /\ n \in Nat BY <1>2, <2>2
    <2>5. PICK q : q = RemoveAt(queue, n) OBVIOUS
    <2>6. /\ q \in Seq(Queued)
          /\ \A i \in DOMAIN q :
                \E j \in DOMAIN queue : q[i] = queue[j] /\ j # n /\ j = IF i < n THEN i ELSE i + 1
        BY <1>1, <2>4, <2>5, RemoveAtFacts
    <2>7. DOMAIN q \subseteq Nat BY <2>6, Indices
    <2>8. \A i \in DOMAIN q : q[i].s # s BY <2>4, <2>6 DEF QueuedOnce
    <2>9. ASSUME NEW i \in DOMAIN q, NEW j \in DOMAIN q, q[i].s = q[j].s PROVE i = j
        <3>1. PICK k \in DOMAIN queue : q[i] = queue[k] /\ k = IF i < n THEN i ELSE i + 1
            BY <2>6
        <3>2. PICK l \in DOMAIN queue : q[j] = queue[l] /\ l = IF j < n THEN j ELSE j + 1
            BY <2>6
        <3>3. k = l BY <2>9, <3>1, <3>2 DEF QueuedOnce
        <3>4. i \in Nat /\ j \in Nat BY <2>7
        <3> QED BY <2>4, <3>1, <3>2, <3>3, <3>4
    <2> QED BY <2>3, <2>5, <2>6, <2>8, <2>9
<1> QED BY <1>3, <1>4

LEMMA TruncateOneKeeps ==
    ASSUME IInv, TruncateOne
    PROVE  IInv'
<1>1. PICK s : s = Head(toPage).s OBVIOUS
<1>2. /\ Handles("truncate") /\ page' = page /\ queue' = Without(s)
      /\ toHost' = Reported(<<Truncated(s)>>) \/ toHost' = Reported(<<>>)
    BY <1>1 DEF TruncateOne
<1>3. Kind(1, "truncate") /\ s = toPage[1].s /\ toPage[1] \in PageMessage
    BY <1>1, <1>2, HandlesFacts
<1>4. s \in Sentence /\ \A t : About(1, t) => t = s BY <1>3 DEF Kind, About, PageMessage
<1>5. page' \in Page /\ page'.socket = page.socket BY <1>2 DEF IInv, TypeOK
<1>6. /\ queue' \in Seq(Queued)
      /\ \A i \in DOMAIN queue' : \E j \in DOMAIN queue : queue'[i] = queue[j]
      /\ \A i, j \in DOMAIN queue' : queue'[i].s = queue'[j].s => i = j
      /\ \A i \in DOMAIN queue' : queue'[i].s # s
    BY <1>2, WithoutFacts DEF IInv, Counted
<1>7. QueueHasTheLease' BY <1>2, <1>6 DEF IInv, Ordered, QueueHasTheLease
<1>8. ~OnQueue(s)' BY <1>6 DEF OnQueue
<1>9. QueueHandled BY <1>3, <1>4, <1>6, <1>8 DEF QueueHandled, QueuedOnce, Kind
<1>10. Truncated(s) \in HostMessage /\ True(Truncated(s)) BY <1>4, TruncatedIsTrue
<1>11. /\ <<Truncated(s)>> \in Seq(HostMessage)
       /\ \A j \in DOMAIN <<Truncated(s)>> : <<Truncated(s)>>[j] = Truncated(s)
    BY <1>10, OneReport
<1>12. \A j \in DOMAIN <<Truncated(s)>> : True(<<Truncated(s)>>[j]) BY <1>10, <1>11
<1>13. \E reports \in Seq(HostMessage) :
          toHost' = Reported(reports) /\ \A j \in DOMAIN reports : True(reports[j])
    BY <1>2, <1>11, <1>12, NoReports
<1> QED BY <1>2, <1>5, <1>6, <1>7, <1>9, <1>13, HandlesKeeps
-----------------------------------------------------------------------------
LEMMA InitEstablishes ==
    ASSUME Init
    PROVE  IInv /\ FewPlay
<1>1. MaxToken \in Nat /\ Patience \in Nat /\ Chunks \in [Sentence -> Nat] BY StageAssumption
<1>2. 0 \in Token /\ 0 \in 0 .. Patience + 1 BY <1>1 DEF Token
<1>3. /\ DOMAIN toPage = {} /\ DOMAIN toHost = {} /\ DOMAIN queue = {}
      /\ toPage \in Seq(PageMessage) /\ toHost \in Seq(HostMessage) /\ queue \in Seq(Queued)
    BY EmptySeq DEF Init
<1>4. TypeOK BY <1>2, <1>3 DEF Init, TypeOK, Service, Spoken, Loaded, Page
<1>5. LinkIsTyped /\ PermitIsTold BY <1>3 DEF Init, LinkIsTyped, PermitIsTold
<1>6. NewIsUnheardOf /\ BeginsComeFirst /\ QueuedOnce /\ EndsAreWhole /\ ReportsAreTrue
    BY <1>3
    DEF Init, NewIsUnheardOf, BeginsComeFirst, QueuedOnce, EndsAreWhole, ReportsAreTrue, OnQueue
<1>7. ChunksComeOnce
    <2>1. PICK f : f \in [DOMAIN toPage -> Nat]
        <3>1. [k \in DOMAIN toPage |-> 0] \in [DOMAIN toPage -> Nat] OBVIOUS
        <3> QED BY <3>1
    <2>2. Numbers(f) BY <1>3 DEF Numbers
    <2> QED BY <2>1, <2>2 DEF ChunksComeOnce
<1>8. QueueIsForwarded /\ HeardIsForwarded
    <2>1. \A s \in Sentence : heard[s] = 0 /\ spoken[s].forwarded = 0 /\ Chunks[s] \in Nat
        BY <1>1 DEF Init
    <2> QED BY <1>3, <2>1 DEF QueueIsForwarded, HeardIsForwarded
<1>9. ResultsAreHeard BY DEF Init, ResultsAreHeard
<1>10. Ordered
    BY <1>3
    DEF Init, Ordered, QueueHasTheLease, LastTokenIsTold, TokensArrive, CutsArrive, OnQueue
<1>11. FewPlay
    <2>1. {s \in Sentence : Playing(s)} = {} BY DEF Init, Playing
    <2> QED BY <2>1, FS_EmptySet DEF FewPlay
<1> QED BY <1>4, <1>5, <1>6, <1>7, <1>8, <1>9, <1>10, <1>11 DEF IInv, Counted

LEMMA NextKeeps ==
    ASSUME IInv, FewPlay, Next
    PROVE  IInv' /\ FewPlay'
<1>1. ASSUME PermitSteps PROVE IInv' BY <1>1, PermitKeeps, TokensKeep DEF PermitSteps
<1>2. ASSUME NEW s \in Sentence, Play(s) \/ Feeds(s) \/ Truncate(s) PROVE IInv'
    BY <1>2, PlayKeeps, ForwardKeeps, FeedsKeeps, TruncateKeeps DEF Feeds
<1>3. ASSUME HostReads \/ BeatSteps \/ Stall \/ Dispose PROVE IInv'
    BY <1>3, HostReadsKeeps, BeatsKeep, DisposeKeeps
<1>4. ASSUME PageSteps PROVE IInv'
    BY <1>4, NewTokenKeeps, BeginKeeps, AudioKeeps, TruncateOneKeeps, RenderKeeps, HeadEndsKeeps,
       ReportCursorKeeps, FallSilentKeeps, HangKeeps
    DEF PageSteps, PageHandles, Plays
<1>5. ASSUME LinkSteps PROVE IInv'
    BY <1>5, BreaksKeeps, HangKeeps, PageSeesCloseKeeps, OpenKeeps, LoadKeeps DEF LinkSteps
<1>6. IInv' BY <1>1, <1>2, <1>3, <1>4, <1>5 DEF Next, ServiceSteps
<1>7. FewPlay' BY FewPlayStays DEF IInv
<1> QED BY <1>6, <1>7

LEMMA StutterKeeps ==
    ASSUME IInv, FewPlay, UNCHANGED vars
    PROVE  IInv' /\ FewPlay'
<1>1. UNCHANGED <<output, permit, service, spoken, session, conn, toPage, toHost, page, queue,
                  heard, missed, gap, absent>>
    BY DEF vars, hostSide, linkSide, pageSide, sights
<1>2. FewPlay' BY <1>1 DEF FewPlay, Playing
<1>3. TypeOK' BY <1>1 DEF IInv, TypeOK
<1>4. conn => session' BY <1>1 DEF IInv, LinkIsTyped
<1>5. IInv' BY <1>1, <1>3, <1>4, QuietKeeps, SameReports, SameSentences
<1> QED BY <1>2, <1>5

\* Orders that are not on the way any more were obeyed, because what the page still has
\* against an order has that order on its way to it.
LEMMA OrdersWereObeyed ==
    ASSUME IInv PROVE OrdersAreObeyed
<1> SUFFICES ASSUME ~missed, ~InFlight("token", toPage), ~InFlight("truncate", toPage),
                    NEW i \in DOMAIN queue
             PROVE  queue[i].token = permit.told /\ ~spoken[queue[i].s].cut
    BY DEF OrdersAreObeyed
<1>1. queue[i].token = permit.told BY DEF IInv, Ordered, TokensArrive
<1>2. queue[i].s \in Sentence BY QueueFacts DEF IInv
<1>3. OnQueue(queue[i].s) BY DEF OnQueue
<1>4. ~spoken[queue[i].s].cut BY <1>2, <1>3 DEF IInv, Ordered, CutsArrive, InFlight, Kind
<1> QED BY <1>1, <1>4

\* Whatever connections break, pages hang or are loaded anew, and the host stalls: what
\* play() returns is never more than was heard, and complete only when all the audio was
\* heard; and a page that has read its orders plays only what is under the token told
\* last and was not cut, unless an order to it was lost (service.ts: onMessage; page.js).
THEOREM PlayingIsHeardAndObeyed == Spec => []PlaybackIsTrue
<1>1. Init => IInv /\ FewPlay BY InitEstablishes
<1>2. IInv /\ FewPlay /\ [Next]_vars => IInv' /\ FewPlay' BY NextKeeps, StutterKeeps
<1>3. IInv /\ FewPlay => PlaybackIsTrue BY OrdersWereObeyed DEF IInv, PlaybackIsTrue
<1> QED BY <1>1, <1>2, <1>3, PTL DEF Spec
-----------------------------------------------------------------------------
(* A page that fails the service.                                          *)

\* A silence is counted from heartbeats that were not answered, or is the host's own.
SilenceIsSomebodys == service.silence = 0 \/ service.late \/ absent

LEMMA SilenceStepKeeps ==
    ASSUME TypeOK, SilenceIsSomebodys, [Next]_vars
    PROVE  /\ SilenceIsSomebodys'
           /\ service.phase = "up" /\ service'.phase = "failed" => absent
<1>1. service \in Service BY DEF TypeOK
<1>2. ASSUME UNCHANGED absent, service' = service \/ Stall \/ Dispose
      PROVE  /\ SilenceIsSomebodys'
             /\ service.phase = "up" /\ service'.phase = "failed" => absent
    <2>1. CASE service' = service BY <1>2, <2>1 DEF SilenceIsSomebodys
    <2>2. CASE Stall BY <1>1, <1>2, <2>2 DEF SilenceIsSomebodys, Stall, Service
    <2>3. CASE Dispose BY <1>1, <1>2, <2>3 DEF SilenceIsSomebodys, Dispose, Service
    <2> QED BY <1>2, <2>1, <2>2, <2>3
<1>3. CASE PermitSteps \/ UNCHANGED vars
    BY <1>2, <1>3
    DEF PermitSteps, GoOutput, Grant, Renew, Expire, Revoke, StopOutput, PermitOnly, HostOnly,
        vars, hostSide, sights
<1>4. ASSUME NEW s \in Sentence, Play(s) \/ Feeds(s) \/ Truncate(s)
      PROVE  UNCHANGED <<service, absent>>
    BY <1>4
    DEF Play, Feeds, Forward, ForwardStops, ForwardEnds, ForwardFails, Truncate, SpokenOnly,
        HostOnly, sights
<1>5. CASE HostReads
    BY <1>2, <1>5 DEF HostReads, ReadReport, Reads, HostOnly, sights
<1>6. CASE Stall \/ Dispose BY <1>2, <1>6 DEF Stall, Dispose, HostOnly, sights
<1>7. CASE Beat \/ BeatLate
    BY <1>1, <1>7 DEF Beat, BeatLate, SendBeat, SilenceIsSomebodys, Service
<1>8. CASE BeatWithoutPage
    BY <1>1, <1>8 DEF BeatWithoutPage, SilenceIsSomebodys, Service
<1>9. CASE PageFails
    <2>1. Patience \in Nat BY StageAssumption
    <2>2. service.silence # 0 /\ ~service.late BY <1>1, <1>9, <2>1 DEF PageFails, Service
    <2>3. /\ absent' = absent /\ service'.silence = service.silence
          /\ service'.late = service.late
        BY <1>1, <1>9 DEF PageFails, Service
    <2> QED BY <2>2, <2>3 DEF SilenceIsSomebodys
<1>10. CASE PageSteps
    BY <1>2, <1>10
    DEF PageSteps, PageHandles, NewToken, Begin, Audio, TruncateOne, Handles, Plays, Render,
        HeadEnds, ReportCursor, Mute, LeaseRunsOut, FallSilent, Hang, GoesOn, WorkletOnly,
        PageOnly, hostSide, sights
<1>11. CASE LinkSteps
    BY <1>2, <1>11
    DEF LinkSteps, Break, Idle, Breaks, HostSeesClose, PageSeesClose, Open, Load, hostSide, sights
<1> QED
    BY <1>2, <1>3, <1>4, <1>5, <1>6, <1>7, <1>8, <1>9, <1>10, <1>11
    DEF Next, ServiceSteps, BeatSteps

\* However long the host was stalled, the page fails the service only when it has not
\* answered the last heartbeat (service.ts: beat).
THEOREM TheSilentPageFails == Spec => OnlySilentPagesFail
<1>1. Init => IInv /\ FewPlay /\ SilenceIsSomebodys
    <2>1. Init => SilenceIsSomebodys BY DEF Init, SilenceIsSomebodys
    <2> QED BY <2>1, InitEstablishes
<1>2. IInv /\ FewPlay /\ SilenceIsSomebodys /\ [Next]_vars =>
         /\ IInv' /\ FewPlay' /\ SilenceIsSomebodys'
         /\ [service.phase = "up" /\ service'.phase = "failed" => absent]_vars
    BY NextKeeps, StutterKeeps, SilenceStepKeeps DEF IInv
<1> QED BY <1>1, <1>2, PTL DEF Spec, OnlySilentPagesFail
=============================================================================
