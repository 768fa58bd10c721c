--------------------------- MODULE SpeechArbiter_proofs ---------------------------
(***************************************************************************)
(* Proofs about SpeechArbiter, for any utterances, any ranks, any number   *)
(* of sentences and any length of the queue: each request is waiting,      *)
(* speaking or answered, there is one voice, and it says what it may.      *)
(***************************************************************************)
EXTENDS SpeechArbiter, FiniteSetTheorems, SequenceTheorems, WellFoundedInduction, TLAPS

\* r waits in the queue q.
WaitsIn(q, r) == \E j \in DOMAIN q : q[j] = r

\* Nobody waits twice in q.
Distinct(q) == \A i, j \in DOMAIN q : q[i] = q[j] => i = j

\* Of all who have asked each waits in q, is one of speaking, or was told once.
Accounted(q, speaking, told, all) ==
    \A r \in Request :
        /\ told[r] \in {0, 1}
        /\ r \in all <=> WaitsIn(q, r) \/ r \in speaking \/ told[r] = 1
        /\ WaitsIn(q, r) => r \notin speaking /\ told[r] = 0
        /\ r \in speaking => told[r] = 0

Speaking == IF Idle THEN {} ELSE {active.r}

\* The queue and who has the turn.
QueueInOrder ==
    /\ Distinct(queue) /\ Ranked(queue)
    /\ Accounted(queue, Speaking, answers, asked)
    /\ running = "no" => queue = <<>>

\* Who was found unsaid by a stop or a preemption has the turn, and is halted.
SilencedAreHalted == \A r \in silenced : ~Idle /\ active.r = r /\ Halted

\* When the plugin has stopped for good nobody waits, and who speaks is stopped.
LeavingIsStopped ==
    life \in {"quiesced", "gone"} => queue = <<>> /\ (~Idle => active.stopped)

\* Beyond the check there is only what was let pass.
SpeaksAsPassed ==
    At("authorize") \/ At("synth") \/ At("play") => active.verdict \in {"passed", "released"}

IInv ==
    /\ TypeOK /\ QueueInOrder /\ PreemptedForABetter /\ SilencedAreHalted
    /\ LeavingIsStopped /\ OneMouth /\ PermitOnlyWhileRunning /\ SpeaksAsPassed

-----------------------------------------------------------------------------
(* Queues.                                                                 *)

\* A set of natural numbers that is not empty has a least element.
LEMMA LeastElement ==
    ASSUME NEW S \in SUBSET Nat, S # {} PROVE \E m \in S : \A k \in S : m <= k
<1> DEFINE R == {ss \in Nat \X Nat : ss[1] < ss[2]}
<1>1. IsWellFoundedOn(R, Nat) BY NatLessThanWellFounded, Zenon DEF OpToRel
<1>2. PICK m \in S : \A k \in S : ~(<<k, m>> \in R)
    <2> HIDE DEF R
    <2> QED BY <1>1, WFMin
<1>3. \A k \in S : ~(k < m) BY <1>2
<1> QED BY <1>3

\* Ranks are numbers.
LEMMA RankIsNat == \A r \in Request : Rank(r) \in Nat
<1>1. \A s \in DOMAIN Priority : Priority[s] \in Nat BY DEF Priority
<1> QED BY <1>1, RequestAssumption DEF Rank

\* What stands where after an insertion.
LEMMA InsertFacts ==
    ASSUME NEW S, NEW q \in Seq(S), NEW p \in 1 .. Len(q) + 1, NEW e \in S
    PROVE  /\ InsertAt(q, p, e) \in Seq(S)
           /\ Len(InsertAt(q, p, e)) = Len(q) + 1
           /\ \A j \in 1 .. Len(q) + 1 :
                 InsertAt(q, p, e)[j] = IF j < p THEN q[j] ELSE IF j = p THEN e ELSE q[j - 1]
<1> DEFINE front == SubSeq(q, 1, p - 1)
           back == SubSeq(q, p, Len(q))
<1>1. /\ front \in Seq(S) /\ Len(front) = p - 1
      /\ \A j \in 1 .. p - 1 : front[j] = q[j]
    BY SubSeqProperties, ElementOfSeq, LenProperties
<1>2. /\ back \in Seq(S) /\ Len(back) = Len(q) - p + 1
      /\ \A j \in 1 .. Len(q) - p + 1 : back[j] = q[p + j - 1]
    BY SubSeqProperties, ElementOfSeq, LenProperties
<1>3. <<e>> \in Seq(S) /\ Len(<<e>>) = 1 /\ <<e>>[1] = e OBVIOUS
<1>4. InsertAt(q, p, e) = (front \o <<e>>) \o back BY DEF InsertAt
<1> HIDE DEF front, back
<1>5. /\ front \o <<e>> \in Seq(S) /\ Len(front \o <<e>>) = p
      /\ \A j \in 1 .. p : (front \o <<e>>)[j] = IF j < p THEN q[j] ELSE e
    BY <1>1, <1>3, ConcatProperties
<1>6. /\ InsertAt(q, p, e) \in Seq(S)
      /\ Len(InsertAt(q, p, e)) = Len(q) + 1
      /\ \A j \in 1 .. Len(q) + 1 :
            InsertAt(q, p, e)[j] = IF j <= p THEN (front \o <<e>>)[j] ELSE back[j - p]
    BY <1>2, <1>4, <1>5, ConcatProperties
<1>7. ASSUME NEW j \in 1 .. Len(q) + 1
      PROVE  InsertAt(q, p, e)[j] = IF j < p THEN q[j] ELSE IF j = p THEN e ELSE q[j - 1]
    <2>1. CASE j <= p BY <1>5, <1>6, <2>1
    <2>2. CASE j > p
        <3>1. back[j - p] = q[p + (j - p) - 1] BY <1>2, <2>2, LenProperties
        <3> QED BY <1>6, <2>2, <3>1, LenProperties
    <2> QED BY <2>1, <2>2, LenProperties
<1> QED BY <1>6, <1>7

\* Whoever is queued stands behind all of its rank or a higher one, and before the rest.
LEMMA EnqueueFacts ==
    ASSUME queue \in Seq(Request), Ranked(queue), NEW r \in Request
    PROVE  \E p \in 1 .. Len(queue) + 1 :
              /\ \A j \in 1 .. Len(queue) : j < p <=> Rank(queue[j]) >= Rank(r)
              /\ Enqueue(r) \in Seq(Request) /\ Len(Enqueue(r)) = Len(queue) + 1
              /\ \A j \in 1 .. Len(queue) + 1 :
                    Enqueue(r)[j] =
                        IF j < p THEN queue[j] ELSE IF j = p THEN r ELSE queue[j - 1]
<1> DEFINE before == {j \in DOMAIN queue : Rank(queue[j]) >= Rank(r)}
           after == {j \in 1 .. Len(queue) + 1 : j \notin before}
<1>1. Len(queue) \in Nat /\ DOMAIN queue = 1 .. Len(queue) BY LenProperties
<1>2. Len(queue) + 1 \in after /\ after \in SUBSET Nat BY <1>1
<1>3. PICK p \in after : \A k \in after : p <= k BY <1>2, LeastElement
<1>4. p \in 1 .. Len(queue) + 1 /\ p \notin before BY <1>3
<1>5. \A j \in 1 .. p - 1 : j \in before BY <1>1, <1>3, <1>4
<1>6. \A j \in before : j < p
    <2>1. SUFFICES ASSUME NEW j \in before, j >= p PROVE FALSE BY <1>1, <1>4
    <2>2. p \in DOMAIN queue /\ queue[p] \in Request /\ queue[j] \in Request
        BY <1>1, <1>4, <2>1, ElementOfSeq
    <2>3. Rank(queue[p]) >= Rank(queue[j]) BY <1>1, <1>4, <2>1, <2>2 DEF Ranked
    <2>4. Rank(queue[p]) >= Rank(r) BY <2>1, <2>2, <2>3, RankIsNat
    <2> QED BY <1>4, <2>2, <2>4
<1>7. before = 1 .. p - 1 BY <1>1, <1>4, <1>5, <1>6
<1>8. Cardinality(before) + 1 = p
    <2>1. p - 1 \in Nat BY <1>1, <1>4
    <2>2. Cardinality(1 .. p - 1) = p - 1 BY <2>1, FS_Interval
    <2> HIDE DEF before
    <2> QED BY <1>7, <2>1, <2>2
<1>9. Enqueue(r) = InsertAt(queue, p, r) BY <1>8 DEF Enqueue
<1>10. \A j \in 1 .. Len(queue) : j < p <=> Rank(queue[j]) >= Rank(r)
    BY <1>1, <1>4, <1>5, <1>6
<1> HIDE DEF before, after
<1>11. /\ InsertAt(queue, p, r) \in Seq(Request)
       /\ Len(InsertAt(queue, p, r)) = Len(queue) + 1
       /\ \A j \in 1 .. Len(queue) + 1 :
             InsertAt(queue, p, r)[j] =
                IF j < p THEN queue[j] ELSE IF j = p THEN r ELSE queue[j - 1]
    BY <1>4, InsertFacts
<1> QED BY <1>4, <1>9, <1>10, <1>11

\* Queued, one waits besides all who wait already, in the order of ranks.
LEMMA EnqueueKeepsOrder ==
    ASSUME queue \in Seq(Request), Ranked(queue), Distinct(queue),
           NEW r \in Request, ~WaitsIn(queue, r)
    PROVE  /\ Enqueue(r) \in Seq(Request) /\ Len(Enqueue(r)) = Len(queue) + 1
           /\ Ranked(Enqueue(r)) /\ Distinct(Enqueue(r))
           /\ \A x \in Request : WaitsIn(Enqueue(r), x) <=> x = r \/ WaitsIn(queue, x)
<1> DEFINE q == Enqueue(r)
<1>1. PICK p \in 1 .. Len(queue) + 1 :
         /\ \A j \in 1 .. Len(queue) : j < p <=> Rank(queue[j]) >= Rank(r)
         /\ q \in Seq(Request) /\ Len(q) = Len(queue) + 1
         /\ \A j \in 1 .. Len(queue) + 1 :
               q[j] = IF j < p THEN queue[j] ELSE IF j = p THEN r ELSE queue[j - 1]
    BY EnqueueFacts
<1>2. /\ Len(queue) \in Nat /\ DOMAIN queue = 1 .. Len(queue)
      /\ DOMAIN q = 1 .. Len(queue) + 1
    BY <1>1, LenProperties
<1> HIDE DEF q
<1>3. \A j \in 1 .. Len(queue) : queue[j] \in Request /\ Rank(queue[j]) \in Nat
    BY ElementOfSeq, RankIsNat
<1>4. Rank(r) \in Nat BY RankIsNat
<1>5. Ranked(q)
    <2> SUFFICES ASSUME NEW i \in DOMAIN q, NEW j \in DOMAIN q, i <= j
                 PROVE  Rank(q[i]) >= Rank(q[j])
        BY DEF Ranked
    <2>1. \A k, l \in 1 .. Len(queue) : k <= l => Rank(queue[k]) >= Rank(queue[l])
        BY <1>2 DEF Ranked
    <2>2. CASE i = j
        <3>1. q[i] \in Request BY <1>1, <1>2, ElementOfSeq
        <3> QED BY <2>2, <3>1, RankIsNat
    <2>3. CASE i < j /\ j < p BY <1>1, <1>2, <2>1, <2>3
    <2>4. CASE i < j /\ j = p BY <1>1, <1>2, <1>3, <1>4, <2>4
    <2>5. CASE i = p /\ p < j
        <3>1. j - 1 \in 1 .. Len(queue) /\ ~(j - 1 < p) BY <1>1, <1>2, <2>5
        <3> QED BY <1>1, <1>2, <1>3, <1>4, <2>5, <3>1
    <2>6. CASE i < p /\ p < j
        <3>1. i \in 1 .. Len(queue) /\ j - 1 \in 1 .. Len(queue) /\ i <= j - 1
            BY <1>1, <1>2, <2>6
        <3> QED BY <1>1, <1>2, <2>1, <2>6, <3>1
    <2>7. CASE p < i /\ i < j
        <3>1. i - 1 \in 1 .. Len(queue) /\ j - 1 \in 1 .. Len(queue) /\ i - 1 <= j - 1
            BY <1>1, <1>2, <2>7
        <3> QED BY <1>1, <1>2, <2>1, <2>7, <3>1
    <2> QED BY <1>1, <1>2, <2>2, <2>3, <2>4, <2>5, <2>6, <2>7
<1>6. Distinct(q)
    <2> SUFFICES ASSUME NEW i \in DOMAIN q, NEW j \in DOMAIN q, i < j, q[i] = q[j]
                 PROVE  FALSE
        BY <1>2 DEF Distinct
    <2>1. \A k, l \in 1 .. Len(queue) : queue[k] = queue[l] => k = l
        BY <1>2 DEF Distinct
    <2>2. \A k \in 1 .. Len(queue) : queue[k] # r BY <1>2 DEF WaitsIn
    <2>3. CASE i = p \/ j = p
        <3>1. CASE i = p
            BY <1>1, <1>2, <2>2, <3>1, j - 1 \in 1 .. Len(queue)
        <3>2. CASE j = p
            BY <1>1, <1>2, <2>2, <3>2, i \in 1 .. Len(queue)
        <3> QED BY <2>3, <3>1, <3>2
    <2>4. CASE j < p BY <1>1, <1>2, <2>1, <2>4
    <2>5. CASE i < p /\ p < j
        <3>1. q[i] = queue[i] /\ q[j] = queue[j - 1] BY <1>1, <1>2, <2>5
        <3>2. i \in 1 .. Len(queue) /\ j - 1 \in 1 .. Len(queue) BY <1>1, <1>2, <2>5
        <3>3. i = j - 1 BY <2>1, <3>1, <3>2
        <3> QED BY <1>1, <1>2, <2>5, <3>3
    <2>6. CASE p < i
        <3>1. i - 1 \in 1 .. Len(queue) /\ j - 1 \in 1 .. Len(queue) BY <1>1, <1>2, <2>6
        <3>2. q[i] = queue[i - 1] /\ q[j] = queue[j - 1] BY <1>1, <1>2, <2>6
        <3>3. i - 1 = j - 1 BY <2>1, <3>1, <3>2
        <3> QED BY <1>2, <3>3
    <2> QED BY <1>1, <1>2, <2>3, <2>4, <2>5, <2>6
<1>7. ASSUME NEW x \in Request PROVE WaitsIn(q, x) <=> x = r \/ WaitsIn(queue, x)
    <2>1. ASSUME WaitsIn(q, x) PROVE x = r \/ WaitsIn(queue, x)
        <3>1. PICK j \in 1 .. Len(queue) + 1 : q[j] = x BY <1>2, <2>1 DEF WaitsIn
        <3>2. CASE j < p BY <1>1, <1>2, <3>1, <3>2, j \in DOMAIN queue DEF WaitsIn
        <3>3. CASE j = p BY <1>1, <1>2, <3>1, <3>3
        <3>4. CASE j > p
            <4>1. q[j] = queue[j - 1] BY <1>1, <1>2, <3>4
            <4>2. j - 1 \in DOMAIN queue BY <1>1, <1>2, <3>4
            <4> QED BY <3>1, <4>1, <4>2 DEF WaitsIn
        <3> QED BY <1>1, <1>2, <3>2, <3>3, <3>4
    <2>2. WaitsIn(q, r) BY <1>1, <1>2 DEF WaitsIn
    <2>3. ASSUME WaitsIn(queue, x) PROVE WaitsIn(q, x)
        <3>1. PICK j \in 1 .. Len(queue) : queue[j] = x BY <1>2, <2>3 DEF WaitsIn
        <3>2. CASE j < p BY <1>1, <1>2, <3>1, <3>2, j \in DOMAIN q DEF WaitsIn
        <3>3. CASE j >= p
            <4>1. q[j + 1] = x BY <1>1, <1>2, <3>1, <3>3
            <4> QED BY <1>2, <4>1, j + 1 \in DOMAIN q DEF WaitsIn
        <3> QED BY <1>1, <1>2, <3>2, <3>3
    <2> QED BY <2>1, <2>2, <2>3
<1> QED BY <1>1, <1>5, <1>6, <1>7 DEF q

\* Without its last a queue keeps its order, and nobody else leaves it.
LEMMA FrontKeepsOrder ==
    ASSUME NEW q \in Seq(Request), q # <<>>, Ranked(q), Distinct(q)
    PROVE  /\ Front(q) \in Seq(Request) /\ Len(Front(q)) = Len(q) - 1
           /\ \A j \in 1 .. Len(q) - 1 : Front(q)[j] = q[j]
           /\ Last(q) \in Request /\ Ranked(Front(q)) /\ Distinct(Front(q))
           /\ \A x \in Request : WaitsIn(Front(q), x) <=> WaitsIn(q, x) /\ x # Last(q)
<1> DEFINE f == Front(q)
<1>1. Len(q) \in Nat \ {0} /\ DOMAIN q = 1 .. Len(q) BY EmptySeq, LenProperties
<1>2. /\ f \in Seq(Request) /\ Len(f) = Len(q) - 1
      /\ \A j \in 1 .. Len(q) - 1 : f[j] = q[j]
    BY <1>1, SubSeqProperties, ElementOfSeq DEF Front
<1>3. DOMAIN f = 1 .. Len(q) - 1 BY <1>2, LenProperties
<1>4. Last(q) = q[Len(q)] /\ Last(q) \in Request BY <1>1, ElementOfSeq DEF Last
<1> HIDE DEF f
<1>5. Ranked(f) BY <1>1, <1>2, <1>3 DEF Ranked
<1>6. Distinct(f) BY <1>1, <1>2, <1>3 DEF Distinct
<1>7. ASSUME NEW x \in Request PROVE WaitsIn(f, x) <=> WaitsIn(q, x) /\ x # Last(q)
    <2>1. ASSUME NEW j \in DOMAIN f, f[j] = x PROVE WaitsIn(q, x) /\ x # Last(q)
        <3>1. j \in DOMAIN q /\ j # Len(q) /\ q[j] = x BY <1>1, <1>2, <1>3, <2>1
        <3>2. Len(q) \in DOMAIN q BY <1>1
        <3> QED BY <1>4, <3>1, <3>2 DEF WaitsIn, Distinct
    <2>2. ASSUME NEW j \in DOMAIN q, q[j] = x, x # Last(q) PROVE WaitsIn(f, x)
        <3>1. j # Len(q) BY <1>4, <2>2
        <3>2. j \in DOMAIN f /\ f[j] = x BY <1>1, <1>2, <1>3, <2>2, <3>1
        <3> QED BY <3>2 DEF WaitsIn
    <2> QED BY <2>1, <2>2 DEF WaitsIn
<1> QED BY <1>2, <1>4, <1>5, <1>6, <1>7 DEF f

\* What is behind the nth keeps its order, and whoever stood before has left.
LEMMA RestKeepsOrder ==
    ASSUME NEW q \in Seq(Request), Ranked(q), Distinct(q), NEW n \in 1 .. Len(q) + 1
    PROVE  LET rest == SubSeq(q, n + 1, Len(q))
           IN  /\ rest \in Seq(Request) /\ Ranked(rest) /\ Distinct(rest)
               /\ Len(rest) = IF n <= Len(q) THEN Len(q) - n ELSE 0
               /\ \A x \in Request :
                     WaitsIn(rest, x) <=> \E j \in DOMAIN q : n < j /\ q[j] = x
<1> DEFINE rest == SubSeq(q, n + 1, Len(q))
<1>1. Len(q) \in Nat /\ DOMAIN q = 1 .. Len(q) BY LenProperties
<1>2. \A i \in n + 1 .. Len(q) : q[i] \in Request BY <1>1, ElementOfSeq
<1>3. /\ rest \in Seq(Request)
      /\ Len(rest) = IF n + 1 <= Len(q) THEN Len(q) - (n + 1) + 1 ELSE 0
      /\ \A i \in 1 .. Len(q) - (n + 1) + 1 : rest[i] = q[(n + 1) + i - 1]
    BY <1>1, <1>2, SubSeqProperties
<1> HIDE DEF rest
<1>4. /\ Len(rest) = IF n <= Len(q) THEN Len(q) - n ELSE 0
      /\ DOMAIN rest = 1 .. Len(rest)
      /\ \A i \in DOMAIN rest : n + i \in DOMAIN q /\ rest[i] = q[n + i]
    <2>1. PICK len \in Nat : len = Len(q) BY <1>1
    <2>2. PICK left : left = Len(rest) OBVIOUS
    <2>3. n \in Nat \ {0} /\ n <= len + 1 BY <2>1
    <2>4. left = IF n + 1 <= len THEN len - (n + 1) + 1 ELSE 0 BY <1>3, <2>1, <2>2
    <2>5. left = IF n <= len THEN len - n ELSE 0 BY <2>3, <2>4
    <2>6. DOMAIN rest = 1 .. left BY <1>3, <2>2, LenProperties
    <2>7. ASSUME NEW i \in DOMAIN rest PROVE n + i \in DOMAIN q /\ rest[i] = q[n + i]
        <3>1. i \in 1 .. left BY <2>6
        <3>2. i \in 1 .. len - (n + 1) + 1 /\ (n + 1) + i - 1 = n + i /\ n + i \in 1 .. len
            BY <2>3, <2>5, <3>1
        <3> QED BY <1>1, <1>3, <2>1, <3>2
    <2> QED BY <2>1, <2>2, <2>5, <2>6, <2>7
<1>5. Ranked(rest)
    <2> SUFFICES ASSUME NEW i \in DOMAIN rest, NEW j \in DOMAIN rest, i <= j
                 PROVE  Rank(rest[i]) >= Rank(rest[j])
        BY DEF Ranked
    <2>1. n + i <= n + j BY <1>1, <1>4
    <2> QED BY <1>4, <2>1 DEF Ranked
<1>6. Distinct(rest)
    <2> SUFFICES ASSUME NEW i \in DOMAIN rest, NEW j \in DOMAIN rest, rest[i] = rest[j]
                 PROVE  i = j
        BY DEF Distinct
    <2>1. n + i = n + j BY <1>4 DEF Distinct
    <2>2. i \in Nat /\ j \in Nat BY <1>4
    <2>3. n \in Nat BY <1>1
    <2> QED BY <2>1, <2>2, <2>3
<1>7. ASSUME NEW x \in Request
      PROVE  WaitsIn(rest, x) <=> \E j \in DOMAIN q : n < j /\ q[j] = x
    <2>1. ASSUME NEW i \in DOMAIN rest, rest[i] = x
          PROVE  \E j \in DOMAIN q : n < j /\ q[j] = x
        <3>1. n + i \in DOMAIN q /\ q[n + i] = x BY <1>4, <2>1
        <3>2. i \in Nat \ {0} BY <1>3, LenProperties
        <3>3. n \in Nat BY <1>1
        <3> QED BY <3>1, <3>2, <3>3
    <2>2. ASSUME NEW j \in DOMAIN q, n < j, q[j] = x PROVE WaitsIn(rest, x)
        <3>1. PICK len \in Nat : len = Len(q) BY <1>1
        <3>2. PICK left : left = Len(rest) OBVIOUS
        <3>3. left = IF n <= len THEN len - n ELSE 0 BY <1>4, <3>1, <3>2
        <3>4. n \in Nat /\ j \in 1 .. len BY <1>1, <3>1
        <3>5. j - n \in 1 .. left /\ n + (j - n) = j BY <2>2, <3>3, <3>4
        <3>6. j - n \in DOMAIN rest BY <1>4, <3>2, <3>5
        <3>7. rest[j - n] = x BY <1>4, <2>2, <3>5, <3>6
        <3> QED BY <3>6, <3>7 DEF WaitsIn
    <2> QED BY <2>1, <2>2 DEF WaitsIn
<1> QED BY <1>3, <1>4, <1>5, <1>6, <1>7 DEF rest

-----------------------------------------------------------------------------
(* The loop of run().                                                      *)

\* The loop stops at the first that has not expired, or behind the last.
LEMMA RunOnFacts ==
    ASSUME NEW q \in Seq(Request), NEW ended, RunOn(q, ended)
    PROVE  \E n \in 1 .. Len(q) + 1 :
              /\ answers' = Told(ended \cup {q[j] : j \in 1 .. n - 1})
              /\ silenced' = silenced \ (ended \cup {q[j] : j \in 1 .. n - 1})
              /\ queue' = SubSeq(q, n + 1, Len(q))
              /\ n = Len(q) + 1 =>
                    active' = Nobody /\ running' = "ending" /\ permit' = "none"
              /\ n # Len(q) + 1 =>
                    active' = Utterance(q[n]) /\ running' = "yes" /\ permit' = permit
<1> DEFINE live == {j \in DOMAIN q : q[j] \notin expired}
<1>1. Len(q) \in Nat /\ DOMAIN q = 1 .. Len(q) BY LenProperties
<1>2. CASE live = {}
    <2>1. Len(q) + 1 \in 1 .. Len(q) + 1 BY <1>1
    <2> QED BY <1>2, <2>1 DEF RunOn
<1>3. CASE live # {}
    <2> DEFINE n == CHOOSE j \in live : \A l \in live : j <= l
    <2>1. \E j \in live : \A l \in live : j <= l
        <3>1. live \in SUBSET Nat BY <1>1
        <3> HIDE DEF live
        <3> QED BY <1>3, <3>1, LeastElement
    <2>2. n \in live BY <2>1
    <2>3. n \in 1 .. Len(q) + 1 /\ n # Len(q) + 1
        <3> HIDE DEF n
        <3> QED BY <1>1, <2>2
    <2>4. /\ answers' = Told(ended \cup {q[j] : j \in 1 .. n - 1})
          /\ silenced' = silenced \ (ended \cup {q[j] : j \in 1 .. n - 1})
          /\ queue' = SubSeq(q, n + 1, Len(q))
          /\ active' = Utterance(q[n]) /\ running' = "yes" /\ permit' = permit
        BY <1>3 DEF RunOn
    <2> QED BY <2>3, <2>4
<1> QED BY <1>2, <1>3

\* An utterance as it gets the turn.
LEMMA UtteranceFacts ==
    ASSUME NEW r \in Request
    PROVE  LET u == Utterance(r)
           IN  /\ u \in Utterances /\ u # Nobody /\ u.r = r /\ u.at = "text"
               /\ ~u.stopped /\ ~u.preempted
<1> DEFINE u == Utterance(r)
<1>1. u \in Utterances /\ u.r = r /\ u.at = "text" /\ ~u.stopped /\ ~u.preempted
    BY DEF Utterance, Utterances
<1> HIDE DEF u
<1> QED BY <1>1, RequestAssumption DEF u

\* Nobody is not an utterance.
LEMMA NobodyIsNoUtterance == \A u \in Utterances : u # Nobody
BY RequestAssumption

-----------------------------------------------------------------------------
(* Steps by their kind.                                                    *)

\* The types of what the loop does not own.
Surroundings ==
    /\ mode \in {"M1", "M2", "safe-stop"} /\ changes \in 0 .. MaxChanges
    /\ expired \subseteq Request /\ cancelled \subseteq Request
    /\ checks \subseteq Request \X Nat /\ holds \subseteq Request \X Nat
    /\ reviewUp \in BOOLEAN

\* The invariant without what it says of the loop is about types only.
LEMMA TypeParts ==
    ASSUME TypeOK
    PROVE  /\ Surroundings
           /\ asked \in SUBSET Request /\ silenced \in SUBSET Request
           /\ answers \in [Request -> Nat]
           /\ queue \in Seq(Request) /\ Len(queue) \in Nat /\ Len(queue) <= MaxQueue
           /\ ~Idle => active \in Utterances /\ running = "yes"
           /\ Idle => running \in {"no", "ending"}
           /\ onStage \subseteq Request \X Nat
BY LenProperties DEF TypeOK, Surroundings, Idle

\* Who is told is told once more.
LEMMA ToldFacts ==
    ASSUME answers \in [Request -> Nat], NEW rs
    PROVE  /\ Told(rs) \in [Request -> Nat]
           /\ \A r \in Request :
                 Told(rs)[r] = IF r \in rs THEN answers[r] + 1 ELSE answers[r]
BY DEF Told

\* The loop goes on with q: those it passes over are told with those who ended, the next
\* that is left has the turn, and the account stays right.
LEMMA RunOnKeeps ==
    ASSUME TypeOK, LeavingIsStopped,
           NEW q \in Seq(Request), Len(q) <= MaxQueue, Ranked(q), Distinct(q),
           NEW ended \in SUBSET Request, silenced \subseteq ended,
           Accounted(q, ended, answers, asked'), asked' \subseteq Request,
           life' = life, life \in {"quiesced", "gone"} => q = <<>>,
           permit # "none" => life # "gone",
           Surroundings', onStage' = {}, RunOn(q, ended)
    PROVE  IInv'
<1>1. Len(q) \in Nat /\ DOMAIN q = 1 .. Len(q) BY LenProperties
<1>2. PICK n \in 1 .. Len(q) + 1 :
         /\ answers' = Told(ended \cup {q[j] : j \in 1 .. n - 1})
         /\ silenced' = silenced \ (ended \cup {q[j] : j \in 1 .. n - 1})
         /\ queue' = SubSeq(q, n + 1, Len(q))
         /\ n = Len(q) + 1 => active' = Nobody /\ running' = "ending" /\ permit' = "none"
         /\ n # Len(q) + 1 =>
               active' = Utterance(q[n]) /\ running' = "yes" /\ permit' = permit
    BY RunOnFacts
<1> DEFINE over == ended \cup {q[j] : j \in 1 .. n - 1}
<1>3. answers' = Told(over) /\ silenced' = {} BY <1>2
<1>4. /\ queue' \in Seq(Request) /\ Ranked(queue)' /\ Distinct(queue)'
      /\ Len(queue') = IF n <= Len(q) THEN Len(q) - n ELSE 0
      /\ \A x \in Request : WaitsIn(queue, x)' <=> \E j \in DOMAIN q : n < j /\ q[j] = x
    <2> DEFINE rest == SubSeq(q, n + 1, Len(q))
    <2>1. /\ rest \in Seq(Request) /\ Ranked(rest) /\ Distinct(rest)
          /\ Len(rest) = IF n <= Len(q) THEN Len(q) - n ELSE 0
          /\ \A x \in Request : WaitsIn(rest, x) <=> \E j \in DOMAIN q : n < j /\ q[j] = x
        BY RestKeepsOrder
    <2>2. queue' = rest BY <1>2
    <2> HIDE DEF rest
    <2> QED BY <2>1, <2>2 DEF Ranked, Distinct, WaitsIn, Rank
<1>5. /\ answers' \in [Request -> Nat]
      /\ \A r \in Request :
            answers'[r] = IF r \in over THEN answers[r] + 1 ELSE answers[r]
    <2>1. answers \in [Request -> Nat] BY TypeParts
    <2> HIDE DEF over
    <2> QED BY <1>3, <2>1, ToldFacts
<1>6. n # Len(q) + 1 => n \in DOMAIN q /\ q[n] \in Request BY <1>1, ElementOfSeq
<1>7. /\ active' = Nobody \/ (active' \in Utterances /\ active'.at = "text"
                              /\ ~active'.stopped /\ ~active'.preempted)
      /\ running' \in {"yes", "ending"} /\ (running' = "yes" <=> active' # Nobody)
      /\ permit' \in {"none", "held", "stale"}
      /\ permit' # "none" => running' = "yes" /\ permit # "none"
    BY <1>2, <1>6, UtteranceFacts DEF TypeOK
<1>8. Speaking' = IF n = Len(q) + 1 THEN {} ELSE {q[n]}
    BY <1>2, <1>6, UtteranceFacts DEF Speaking, Idle
<1>9. Len(queue') <= MaxQueue
    <2>1. PICK len \in Nat : len = Len(q) BY <1>1
    <2>2. PICK left : left = Len(queue') OBVIOUS
    <2>3. left = IF n <= len THEN len - n ELSE 0 BY <1>4, <2>1, <2>2
    <2>4. n \in Nat /\ len <= MaxQueue /\ MaxQueue \in Nat
        BY <1>1, <2>1, BoundAssumption
    <2> QED BY <2>2, <2>3, <2>4
<1>10. TypeOK'
    <2>1. life' \in {"up", "leaving", "quiesced", "gone"} /\ asked' \subseteq Request
        BY DEF TypeOK
    <2>2. answers' \in [Request -> Nat] /\ silenced' \subseteq Request BY <1>3, <1>5
    <2>3. queue' \in Seq(Request) /\ Len(queue') <= MaxQueue BY <1>4, <1>9
    <2>4. active' \in {Nobody} \cup Utterances BY <1>7
    <2>5. \A ks \in {checks', holds', onStage'} : ks \subseteq Request \X Nat
        BY DEF Surroundings
    <2> QED BY <1>7, <2>1, <2>2, <2>3, <2>4, <2>5 DEF TypeOK, Surroundings, Idle
<1>11. Accounted(queue, Speaking, answers, asked)'
    <2> SUFFICES ASSUME NEW r \in Request
                 PROVE  /\ answers'[r] \in {0, 1}
                        /\ r \in asked' <=>
                              WaitsIn(queue, r)' \/ r \in Speaking' \/ answers'[r] = 1
                        /\ WaitsIn(queue, r)' => r \notin Speaking' /\ answers'[r] = 0
                        /\ r \in Speaking' => answers'[r] = 0
        BY DEF Accounted, WaitsIn
    <2>1. /\ answers[r] \in {0, 1}
          /\ r \in asked' <=> WaitsIn(q, r) \/ r \in ended \/ answers[r] = 1
          /\ WaitsIn(q, r) => r \notin ended /\ answers[r] = 0
          /\ r \in ended => answers[r] = 0
        BY DEF Accounted
    <2>2. CASE \E j \in DOMAIN q : q[j] = r
        <3>1. PICK j \in DOMAIN q : q[j] = r BY <2>2
        <3>2. \A k \in DOMAIN q : q[k] = r => k = j BY <3>1 DEF Distinct
        <3>3. r \in asked' /\ r \notin ended /\ answers[r] = 0 BY <2>1, <3>1 DEF WaitsIn
        <3>4. j \in Nat /\ n \in Nat /\ j <= Len(q) BY <1>1
        <3>5. WaitsIn(queue, r)' <=> n < j BY <1>4, <3>1, <3>2
        <3>6. r \in Speaking' <=> n = j
            BY <1>1, <1>6, <1>8, <3>1, <3>2, <3>4
        <3>7. r \in over <=> j < n
            <4>1. j < n => j \in 1 .. n - 1 BY <1>1, <3>4
            <4>2. \A k \in 1 .. n - 1 : k \in DOMAIN q BY <1>1
            <4>3. \A k \in 1 .. n - 1 : k < n BY <3>4
            <4> QED BY <3>1, <3>2, <3>3, <4>1, <4>2, <4>3
        <3>8. answers'[r] = IF j < n THEN 1 ELSE 0 BY <1>5, <3>3, <3>7
        <3> QED BY <3>3, <3>4, <3>5, <3>6, <3>8
    <2>3. CASE ~ \E j \in DOMAIN q : q[j] = r
        <3>1. ~WaitsIn(queue, r)' BY <1>4, <2>3
        <3>2. r \notin Speaking' BY <1>6, <1>8, <2>3
        <3>3. r \in over <=> r \in ended
            <4>1. \A k \in 1 .. n - 1 : k \in DOMAIN q BY <1>1
            <4> QED BY <2>3, <4>1
        <3>4. ~WaitsIn(q, r) BY <2>3 DEF WaitsIn
        <3> QED BY <1>5, <2>1, <3>1, <3>2, <3>3, <3>4
    <2> QED BY <2>2, <2>3
<1>12. QueueInOrder' BY <1>4, <1>7, <1>11 DEF QueueInOrder
<1>13. PreemptedForABetter' /\ SilencedAreHalted'
    BY <1>3, <1>7 DEF PreemptedForABetter, SilencedAreHalted, Idle
<1>14. LeavingIsStopped'
    <2>1. CASE life \in {"quiesced", "gone"}
        <3>1. q = <<>> BY <2>1
        <3>2. Len(q) = 0 BY <3>1, EmptySeq
        <3>3. n = Len(q) + 1 BY <3>2
        <3>4. Len(queue') = 0 BY <1>4, <3>2, <3>3
        <3> QED BY <1>2, <1>4, <3>3, <3>4, EmptySeq DEF LeavingIsStopped, Idle
    <2>2. CASE life \notin {"quiesced", "gone"} BY <2>2 DEF LeavingIsStopped
    <2> QED BY <2>1, <2>2
<1>15. OneMouth' /\ PermitOnlyWhileRunning' /\ SpeaksAsPassed'
    BY <1>7 DEF OneMouth, PermitOnlyWhileRunning, SpeaksAsPassed, At, Idle
<1> QED BY <1>10, <1>12, <1>13, <1>14, <1>15 DEF IInv

\* speak() returns, from any wait, with nothing left on the stage.
LEMMA FinishKeeps ==
    ASSUME IInv, ~Idle, Finish, UNCHANGED <<asked, life>>, Surroundings', onStage' = {}
    PROVE  IInv'
<1>1. TypeOK /\ LeavingIsStopped /\ Ranked(queue) /\ Distinct(queue)
    BY DEF IInv, QueueInOrder
<1>2. active \in Utterances /\ active.r \in Request BY <1>1, TypeParts DEF Utterances
<1>3. silenced \subseteq {active.r} BY DEF IInv, SilencedAreHalted
<1>4. Accounted(queue, {active.r}, answers, asked') BY DEF IInv, QueueInOrder, Speaking
<1>5. life \in {"quiesced", "gone"} => queue = <<>> BY <1>1 DEF LeavingIsStopped
<1>6. permit # "none" => life # "gone" BY DEF IInv, PermitOnlyWhileRunning
<1>7. asked' \subseteq Request BY <1>1, TypeParts
<1> QED
    BY <1>1, <1>2, <1>3, <1>4, <1>5, <1>6, <1>7, TypeParts, RunOnKeeps DEF Finish

\* The same utterance has the turn, and nothing more is asked of it.
SameTurn ==
    IF Idle THEN active' = Nobody
    ELSE /\ active' \in Utterances /\ active'.r = active.r
         /\ active'.stopped = active.stopped /\ active'.preempted = active.preempted

\* A step that leaves the queue and the turn alone keeps what is said of them.
LEMMA MovesKeep ==
    ASSUME IInv, SameTurn, UNCHANGED <<asked, answers, queue, running, silenced>>,
           life' \in {life, "leaving"},
           permit' \in {"none", "held", "stale"},
           permit' # "none" => running = "yes" /\ life' # "gone",
           Surroundings', onStage' \subseteq Request \X Nat, OneMouth', SpeaksAsPassed'
    PROVE  IInv'
<1>1. TypeOK BY DEF IInv
<1>2. Idle' = Idle /\ (~Idle => active'.r = active.r /\ active'.stopped = active.stopped
                                /\ active'.preempted = active.preempted)
    BY <1>1, NobodyIsNoUtterance, TypeParts DEF SameTurn, Idle
<1>3. active' \in {Nobody} \cup Utterances BY DEF SameTurn
<1>4. \A ks \in {checks', holds', onStage'} : ks \subseteq Request \X Nat BY DEF Surroundings
<1>5. TypeOK' BY <1>1, <1>2, <1>3, <1>4 DEF TypeOK, Surroundings
<1>6. Speaking' = Speaking BY <1>2 DEF Speaking
<1>7. QueueInOrder'
    BY <1>6 DEF IInv, QueueInOrder, Ranked, Distinct, Accounted, WaitsIn, Rank
<1>8. PreemptedForABetter' BY <1>2 DEF IInv, PreemptedForABetter, Rank
<1>9. SilencedAreHalted' BY <1>2 DEF IInv, SilencedAreHalted, Halted
<1>10. LeavingIsStopped' BY <1>2 DEF IInv, LeavingIsStopped
<1>11. PermitOnlyWhileRunning' BY DEF PermitOnlyWhileRunning
<1> QED BY <1>5, <1>7, <1>8, <1>9, <1>10, <1>11 DEF IInv

\* The same utterance has the turn, where it was, and is stopped.
StoppedTurn ==
    IF Idle THEN active' = Nobody
    ELSE /\ active' \in Utterances /\ active'.r = active.r /\ active'.stopped
         /\ active'.i = active.i /\ active'.at = active.at
         /\ active'.verdict = active.verdict

\* A stop: who waited is told, and who speaks is the only one unsaid.
LEMMA StopKeeps ==
    ASSUME IInv, StopQueue(active'), StoppedTurn, UNCHANGED <<asked, running, onStage>>,
           life' \in {"up", "leaving", "quiesced", "gone"},
           permit' \in {"none", "held", "stale"},
           permit' # "none" => running = "yes" /\ life' # "gone",
           Surroundings'
    PROVE  IInv'
<1>1. TypeOK /\ QueueInOrder BY DEF IInv
<1>2. Idle' = Idle /\ (~Idle => active'.r = active.r /\ active'.stopped)
    BY <1>1, NobodyIsNoUtterance, TypeParts DEF StoppedTurn, Idle
<1>3. queue' = <<>> /\ answers' = Told(ToSet(queue)) /\ silenced' = Unsaid \ ToSet(queue)
    BY DEF StopQueue
<1>4. \A r \in Request : r \in ToSet(queue) <=> WaitsIn(queue, r) BY DEF ToSet, WaitsIn
<1>5. /\ answers' \in [Request -> Nat]
      /\ \A r \in Request :
            answers'[r] = IF WaitsIn(queue, r) THEN answers[r] + 1 ELSE answers[r]
    <2>1. answers \in [Request -> Nat] BY <1>1, TypeParts
    <2> QED BY <1>3, <1>4, <2>1, ToldFacts
<1>6. \A r \in Request :
         /\ answers[r] \in {0, 1}
         /\ r \in asked <=> WaitsIn(queue, r) \/ r \in Speaking \/ answers[r] = 1
         /\ WaitsIn(queue, r) => r \notin Speaking /\ answers[r] = 0
         /\ r \in Speaking => answers[r] = 0
    BY <1>1 DEF QueueInOrder, Accounted
<1>7. silenced' \subseteq Request /\ \A r \in silenced' : r \in Speaking
    <2>1. asked \subseteq Request BY <1>1, TypeParts
    <2> QED BY <1>3, <1>4, <1>6, <2>1 DEF Unsaid
<1>8. TypeOK'
    <2>1. active' \in {Nobody} \cup Utterances BY DEF StoppedTurn
    <2>2. queue' \in Seq(Request) /\ Len(queue') <= MaxQueue
        BY <1>3, EmptySeq, BoundAssumption
    <2>3. \A ks \in {checks', holds', onStage'} : ks \subseteq Request \X Nat
        BY <1>1, TypeParts DEF Surroundings
    <2> QED BY <1>1, <1>2, <1>5, <1>7, <2>1, <2>2, <2>3 DEF TypeOK, Surroundings
<1>9. Speaking' = Speaking BY <1>2 DEF Speaking
<1>10. DOMAIN queue' = {} BY <1>3
<1>11. QueueInOrder'
    <2>1. Ranked(queue)' /\ Distinct(queue)' BY <1>10 DEF Ranked, Distinct
    <2>2. \A r \in Request : ~WaitsIn(queue, r)' BY <1>10 DEF WaitsIn
    <2>3. Accounted(queue, Speaking, answers, asked)'
        BY <1>5, <1>6, <1>9, <2>2 DEF Accounted
    <2> QED BY <1>3, <2>1, <2>3 DEF QueueInOrder
<1>12. PreemptedForABetter' BY <1>2 DEF PreemptedForABetter
<1>13. SilencedAreHalted' BY <1>2, <1>7 DEF SilencedAreHalted, Halted, Speaking
<1>14. LeavingIsStopped' BY <1>2, <1>3 DEF LeavingIsStopped
<1>15. PermitOnlyWhileRunning' BY DEF PermitOnlyWhileRunning
<1>16. OneMouth' /\ SpeaksAsPassed'
    BY <1>2 DEF IInv, OneMouth, SpeaksAsPassed, At, Sentence, StoppedTurn
<1> QED BY <1>8, <1>11, <1>12, <1>13, <1>14, <1>15, <1>16 DEF IInv

-----------------------------------------------------------------------------
(* Requests.                                                               *)

\* A request that is refused is told so, once.
LEMMA RefuseKeeps ==
    ASSUME IInv, NEW r \in Request, Refuse(r) PROVE IInv'
<1>1. TypeOK /\ QueueInOrder BY DEF IInv
<1>2. /\ r \notin asked /\ asked' = asked \cup {r} /\ answers' = Told({r})
      /\ UNCHANGED <<mode, changes, life, expired, queue, active, running, permit, silenced,
                     reviewVars, onStage>>
    BY DEF Refuse, Ask
<1>3. /\ answers' \in [Request -> Nat]
      /\ \A x \in Request : answers'[x] = IF x = r THEN answers[x] + 1 ELSE answers[x]
    <2>1. answers \in [Request -> Nat] BY <1>1, TypeParts
    <2> QED BY <1>2, <2>1, ToldFacts
<1>4. TypeOK' BY <1>1, <1>2, <1>3 DEF TypeOK, reviewVars, Idle
<1>5. Speaking' = Speaking BY <1>2 DEF Speaking, Idle
<1>6. Accounted(queue, Speaking, answers, asked)'
    <2> SUFFICES ASSUME NEW x \in Request
                 PROVE  /\ answers'[x] \in {0, 1}
                        /\ x \in asked' <=>
                              WaitsIn(queue, x) \/ x \in Speaking \/ answers'[x] = 1
                        /\ WaitsIn(queue, x) => x \notin Speaking /\ answers'[x] = 0
                        /\ x \in Speaking => answers'[x] = 0
        BY <1>2, <1>5 DEF Accounted, WaitsIn
    <2>1. /\ answers[x] \in {0, 1}
          /\ x \in asked <=> WaitsIn(queue, x) \/ x \in Speaking \/ answers[x] = 1
          /\ WaitsIn(queue, x) => x \notin Speaking /\ answers[x] = 0
          /\ x \in Speaking => answers[x] = 0
        BY <1>1 DEF QueueInOrder, Accounted
    <2> QED BY <1>2, <1>3, <2>1
<1>7. QueueInOrder' BY <1>1, <1>2, <1>6 DEF QueueInOrder, Ranked, Distinct, Rank
<1>8. PreemptedForABetter' /\ SilencedAreHalted' /\ LeavingIsStopped'
    BY <1>2 DEF IInv, PreemptedForABetter, SilencedAreHalted, LeavingIsStopped, Halted, Idle, Rank
<1>9. OneMouth' /\ PermitOnlyWhileRunning' /\ SpeaksAsPassed'
    BY <1>2
    DEF IInv, OneMouth, PermitOnlyWhileRunning, SpeaksAsPassed, At, Idle, Sentence, reviewVars
<1> QED BY <1>4, <1>7, <1>8, <1>9 DEF IInv

\* When nobody speaks, nothing plays and nobody is silenced.
LEMMA IdleIsQuiet == ASSUME IInv, Idle PROVE silenced = {} /\ onStage = {} /\ permit = "none"
<1>1. silenced = {} BY DEF IInv, SilencedAreHalted
<1>2. onStage = {} BY DEF IInv, OneMouth, At
<1>3. permit = "none" BY DEF IInv, PermitOnlyWhileRunning, TypeOK
<1> QED BY <1>1, <1>2, <1>3

\* The first request after a silence has the turn at once.
LEMMA AskIdleKeeps ==
    ASSUME IInv, NEW r \in Request, AskIdle(r) PROVE IInv'
<1>1. TypeOK /\ QueueInOrder /\ LeavingIsStopped BY DEF IInv
<1>2. /\ r \notin asked /\ asked' = asked \cup {r} /\ life = "up" /\ running = "no"
      /\ RunOn(<<r>>, {})
      /\ UNCHANGED <<mode, changes, life, expired, reviewVars, onStage>>
    BY DEF AskIdle, Ask
<1>3. Idle /\ queue = <<>> BY <1>1, <1>2, TypeParts DEF QueueInOrder
<1>4. silenced = {} /\ onStage = {} /\ permit = "none" BY <1>3, IdleIsQuiet
<1> DEFINE q == <<r>>
<1>5. q \in Seq(Request) /\ Len(q) = 1 /\ DOMAIN q = {1} /\ q[1] = r OBVIOUS
<1> HIDE DEF q
<1>6. Len(q) <= MaxQueue BY <1>5, BoundAssumption
<1>7. Distinct(q) BY <1>5 DEF Distinct
<1>8. Ranked(q) BY <1>5, RankIsNat DEF Ranked
<1>9. Accounted(q, {}, answers, asked')
    <2>1. \A x \in Request : WaitsIn(q, x) <=> x = r BY <1>5 DEF WaitsIn
    <2>2. \A x \in Request : ~WaitsIn(queue, x) /\ x \notin Speaking
        BY <1>3 DEF WaitsIn, Speaking
    <2> QED BY <1>1, <1>2, <2>1, <2>2 DEF QueueInOrder, Accounted
<1>10. asked' \subseteq Request /\ Surroundings' /\ RunOn(q, {})
    BY <1>1, <1>2, TypeParts DEF Surroundings, reviewVars, q
<1> QED
    BY <1>1, <1>2, <1>4, <1>5, <1>6, <1>7, <1>8, <1>9, <1>10, RunOnKeeps

\* What has queued while the loop ended is taken up.
LEMMA RunClearedKeeps ==
    ASSUME IInv, RunCleared PROVE IInv'
<1>1. TypeOK /\ QueueInOrder /\ LeavingIsStopped BY DEF IInv
<1>2. running = "ending" /\ UNCHANGED <<otherVars, reviewVars, onStage>> BY DEF RunCleared
<1>3. Idle BY <1>1, <1>2, TypeParts
<1>4. silenced = {} /\ onStage = {} /\ permit = "none" BY <1>3, IdleIsQuiet
<1>5. CASE queue = <<>>
    <2>1. running' = "no" /\ UNCHANGED <<answers, queue, active, permit, silenced>>
        BY <1>5 DEF RunCleared
    <2>2. TypeOK' BY <1>1, <1>2, <1>3, <2>1 DEF TypeOK, otherVars, reviewVars, Idle
    <2>3. QueueInOrder'
        BY <1>1, <1>2, <1>5, <2>1
        DEF QueueInOrder, Ranked, Distinct, Accounted, WaitsIn, Speaking, Idle, Rank, otherVars
    <2>4. PreemptedForABetter' /\ SilencedAreHalted' /\ LeavingIsStopped'
        BY <1>2, <2>1
        DEF IInv, PreemptedForABetter, SilencedAreHalted, LeavingIsStopped, Halted, Idle, Rank,
            otherVars
    <2>5. OneMouth' /\ PermitOnlyWhileRunning' /\ SpeaksAsPassed'
        BY <1>2, <1>3, <1>4, <2>1
        DEF OneMouth, PermitOnlyWhileRunning, SpeaksAsPassed, At, Idle
    <2> QED BY <2>2, <2>3, <2>4, <2>5 DEF IInv
<1>6. CASE queue # <<>>
    <2>1. RunOn(queue, {}) BY <1>6 DEF RunCleared
    <2>2. Ranked(queue) /\ Distinct(queue) /\ Accounted(queue, {}, answers, asked')
        BY <1>1, <1>2, <1>3 DEF QueueInOrder, Speaking, otherVars
    <2>3. asked' \subseteq Request /\ Surroundings' /\ life' = life /\ onStage' = {}
        BY <1>1, <1>2, <1>4, TypeParts DEF Surroundings, otherVars, reviewVars
    <2>4. life \in {"quiesced", "gone"} => queue = <<>> BY <1>1 DEF LeavingIsStopped
    <2> QED
        BY <1>1, <1>4, <2>1, <2>2, <2>3, <2>4, TypeParts, RunOnKeeps
<1> QED BY <1>5, <1>6

\* A request while somebody speaks: it waits in its place, or whoever is last in a full
\* queue is told; and if it outranks who speaks that one is preempted, for one that waits.
LEMMA AskBusyKeeps ==
    ASSUME IInv, NEW r \in Request, AskBusy(r) PROVE IInv'
<1> DEFINE q == Enqueue(r)
           full == Overflows(q)
           kept == IF full THEN Front(q) ELSE q
           dropped == IF full THEN {Last(q)} ELSE {}
<1>1. TypeOK /\ QueueInOrder /\ LeavingIsStopped BY DEF IInv
<1>2. /\ r \notin asked /\ asked' = asked \cup {r} /\ life = "up" /\ running # "no"
      /\ queue' = kept /\ answers' = Told(dropped)
      /\ UNCHANGED <<mode, changes, life, expired, running, permit, reviewVars, onStage>>
    BY DEF AskBusy, Ask
<1>3. \/ /\ Preempts(r) /\ active' = [active EXCEPT !.preempted = TRUE]
         /\ silenced' = silenced \cup {active.r}
      \/ ~Preempts(r) /\ active' = active /\ silenced' = silenced
    BY DEF AskBusy
<1>4. \A x \in Request :
         /\ answers[x] \in {0, 1}
         /\ x \in asked <=> WaitsIn(queue, x) \/ x \in Speaking \/ answers[x] = 1
         /\ WaitsIn(queue, x) => x \notin Speaking /\ answers[x] = 0
         /\ x \in Speaking => answers[x] = 0
    BY <1>1 DEF QueueInOrder, Accounted
<1>5. /\ q \in Seq(Request) /\ Len(q) = Len(queue) + 1 /\ Ranked(q) /\ Distinct(q)
      /\ \A x \in Request : WaitsIn(q, x) <=> x = r \/ WaitsIn(queue, x)
    <2>1. ~WaitsIn(queue, r) BY <1>2, <1>4
    <2> QED BY <1>1, <2>1, TypeParts, EnqueueKeepsOrder DEF QueueInOrder
<1>6. Len(q) \in Nat \ {0} /\ q # <<>>
    <2>1. Len(q) \in Nat \ {0} BY <1>1, <1>5, TypeParts
    <2> HIDE DEF q
    <2> QED BY <2>1, EmptySeq
<1>7. /\ kept \in Seq(Request) /\ Len(kept) <= MaxQueue /\ Ranked(kept) /\ Distinct(kept)
      /\ \A x \in Request : WaitsIn(kept, x) <=> WaitsIn(q, x) /\ x \notin dropped
      /\ dropped \subseteq Request /\ \A x \in dropped : WaitsIn(q, x)
    <2> HIDE DEF q
    <2>1. CASE full
        <3>1. /\ Front(q) \in Seq(Request) /\ Len(Front(q)) = Len(q) - 1
              /\ Last(q) \in Request /\ Ranked(Front(q)) /\ Distinct(Front(q))
              /\ \A x \in Request : WaitsIn(Front(q), x) <=> WaitsIn(q, x) /\ x # Last(q)
            BY <1>5, <1>6, FrontKeepsOrder
        <3>2. Len(Front(q)) <= MaxQueue
            BY <1>1, <1>5, <3>1, TypeParts, BoundAssumption
        <3>3. WaitsIn(q, Last(q))
            BY <1>5, <1>6, LenProperties DEF WaitsIn, Last
        <3> QED BY <2>1, <3>1, <3>2, <3>3
    <2>2. CASE ~full
        <3>1. Len(q) <= MaxQueue BY <1>6, <2>2, BoundAssumption DEF Overflows
        <3> QED BY <1>5, <2>2, <3>1
    <2> QED BY <2>1, <2>2
<1> HIDE DEF q, full, kept, dropped
<1>8. /\ answers' \in [Request -> Nat]
      /\ \A x \in Request : answers'[x] = IF x \in dropped THEN answers[x] + 1 ELSE answers[x]
    <2>1. answers \in [Request -> Nat] BY <1>1, TypeParts
    <2> QED BY <1>2, <2>1, ToldFacts
<1>9. /\ Idle' = Idle /\ (Idle => active' = active)
      /\ ~Idle => /\ active' \in Utterances /\ active'.r = active.r
                  /\ active'.stopped = active.stopped
                  /\ active'.i = active.i /\ active'.at = active.at
                  /\ active'.verdict = active.verdict
                  /\ active'.preempted <=> (active.preempted \/ Preempts(r))
    <2>1. ~Idle => active \in Utterances BY <1>1, TypeParts
    <2>2. CASE Preempts(r)
        <3>1. ~Idle BY <2>2 DEF Preempts
        <3>2. active' = [active EXCEPT !.preempted = TRUE] BY <1>3, <2>2
        <3>3. active' \in Utterances BY <2>1, <3>1, <3>2 DEF Utterances
        <3>4. active' # Nobody BY <3>3, NobodyIsNoUtterance
        <3> QED BY <2>1, <2>2, <3>1, <3>2, <3>3, <3>4 DEF Utterances, Idle
    <2>3. CASE ~Preempts(r)
        <3>1. active' = active BY <1>3, <2>3
        <3> QED BY <2>1, <2>3, <3>1 DEF Utterances, Idle
    <2> QED BY <2>2, <2>3
<1>10. Speaking' = Speaking BY <1>9 DEF Speaking
<1>11. TypeOK'
    <2>1. active' \in {Nobody} \cup Utterances BY <1>1, <1>9, TypeParts DEF Idle
    <2>2. silenced' \subseteq Request
        <3>1. ~Idle => active.r \in Request BY <1>1, TypeParts DEF Utterances
        <3> QED BY <1>1, <1>3, <3>1, TypeParts DEF Preempts
    <2>3. queue' \in Seq(Request) /\ Len(queue') <= MaxQueue BY <1>2, <1>7
    <2> QED BY <1>1, <1>2, <1>8, <1>9, <2>1, <2>2, <2>3 DEF TypeOK, reviewVars
<1>12. QueueInOrder'
    <2>1. Ranked(queue)' /\ Distinct(queue)'
        BY <1>2, <1>7 DEF Ranked, Distinct, Rank
    <2>2. Accounted(queue, Speaking, answers, asked)'
        <3> SUFFICES ASSUME NEW x \in Request
                     PROVE  /\ answers'[x] \in {0, 1}
                            /\ x \in asked' <=>
                                  WaitsIn(kept, x) \/ x \in Speaking \/ answers'[x] = 1
                            /\ WaitsIn(kept, x) => x \notin Speaking /\ answers'[x] = 0
                            /\ x \in Speaking => answers'[x] = 0
            BY <1>2, <1>10 DEF Accounted, WaitsIn
        <3>1. /\ answers[x] \in {0, 1}
              /\ x \in asked <=> WaitsIn(queue, x) \/ x \in Speaking \/ answers[x] = 1
              /\ WaitsIn(queue, x) => x \notin Speaking /\ answers[x] = 0
              /\ x \in Speaking => answers[x] = 0
            BY <1>4
        <3>2. x \in dropped => x = r \/ WaitsIn(queue, x) BY <1>5, <1>7
        <3>3. WaitsIn(kept, x) <=> (x = r \/ WaitsIn(queue, x)) /\ x \notin dropped
            BY <1>5, <1>7
        <3>4. answers'[x] = IF x \in dropped THEN answers[x] + 1 ELSE answers[x] BY <1>8
        <3>5. x = r => x \notin asked BY <1>2
        <3> QED BY <1>2, <3>1, <3>2, <3>3, <3>4, <3>5
    <2> QED BY <1>2, <2>1, <2>2 DEF QueueInOrder
<1>13. SilencedAreHalted'
    BY <1>3, <1>9 DEF IInv, SilencedAreHalted, Halted, Preempts
<1>14. LeavingIsStopped' BY <1>2 DEF LeavingIsStopped
<1>15. OneMouth' /\ PermitOnlyWhileRunning' /\ SpeaksAsPassed'
    BY <1>2, <1>9
    DEF IInv, OneMouth, PermitOnlyWhileRunning, SpeaksAsPassed, At, Sentence
<1>16. PreemptedForABetter'
    <2> SUFFICES ASSUME ~Idle, active'.preempted, ~active.stopped
                 PROVE  \E j \in DOMAIN kept : Rank(kept[j]) > Rank(active.r)
        BY <1>2, <1>9 DEF PreemptedForABetter, Rank
    <2>1. active.r \in Request BY <1>1, TypeParts DEF Utterances
    <2>2. \E x \in Request : WaitsIn(q, x) /\ Rank(x) > Rank(active.r)
        <3>1. CASE Preempts(r) BY <1>5, <3>1 DEF Preempts
        <3>2. CASE active.preempted
            <4>1. PICK j \in DOMAIN queue : Rank(queue[j]) > Rank(active.r)
                BY <3>2 DEF IInv, PreemptedForABetter
            <4>2. queue[j] \in Request BY <1>1, TypeParts, LenProperties, ElementOfSeq
            <4> QED BY <1>5, <4>1, <4>2 DEF WaitsIn
        <3> QED BY <1>9, <3>1, <3>2
    <2>3. PICK j \in DOMAIN q : Rank(q[j]) > Rank(active.r) BY <2>2 DEF WaitsIn
    <2>4. DOMAIN q = 1 .. Len(q) BY <1>5, LenProperties
    <2>5. CASE ~full BY <2>3, <2>5 DEF kept
    <2>6. CASE full
        <3>1. Len(q) > MaxQueue BY <2>6 DEF full, Overflows
        <3>2. Len(q) - 1 \in Nat \ {0}
            <4>1. PICK len \in Nat : len = Len(q) BY <1>6
            <4>2. len > MaxQueue /\ MaxQueue \in Nat \ {0} BY <3>1, <4>1, BoundAssumption
            <4>3. len - 1 \in Nat \ {0} BY <4>2
            <4> QED BY <4>1, <4>3
        <3>3. /\ kept \in Seq(Request) /\ Len(kept) = Len(q) - 1
              /\ \A k \in 1 .. Len(q) - 1 : kept[k] = q[k]
            BY <1>5, <1>6, <2>6, FrontKeepsOrder DEF kept
        <3>4. 1 \in DOMAIN kept /\ kept[1] = q[1] BY <3>2, <3>3, LenProperties
        <3>5. Rank(q[1]) >= Rank(q[j]) BY <1>5, <1>6, <2>4 DEF Ranked
        <3>6. q[1] \in Request /\ q[j] \in Request BY <1>5, <1>6, <2>4, ElementOfSeq
        <3>7. Rank(q[1]) > Rank(active.r) BY <2>1, <2>3, <3>5, <3>6, RankIsNat
        <3> QED BY <3>4, <3>7
    <2> QED BY <2>5, <2>6
<1> QED BY <1>11, <1>12, <1>13, <1>14, <1>15, <1>16 DEF IInv

-----------------------------------------------------------------------------
(* speak() and the review.                                                 *)

\* The fields of the utterance that has the turn.
LEMMA ActiveFacts ==
    ASSUME IInv, ~Idle
    PROVE  /\ active \in Utterances /\ active.r \in Request /\ active.i \in Nat
           /\ running = "yes" /\ Sentence \in Request \X Nat
           /\ active.at # "play" => onStage = {}
           /\ onStage \subseteq {Sentence}
           /\ permit \in {"none", "held", "stale"} /\ (permit # "none" => life # "gone")
<1>1. active \in Utterances /\ running = "yes" BY TypeParts DEF IInv
<1>2. active.r \in Request /\ active.i \in Nat BY <1>1 DEF Utterances
<1>3. active.at # "play" => onStage = {} BY DEF IInv, OneMouth, At
<1>4. onStage \subseteq {Sentence} BY DEF IInv, OneMouth
<1>5. permit \in {"none", "held", "stale"} /\ (permit # "none" => life # "gone")
    BY DEF IInv, TypeOK, PermitOnlyWhileRunning
<1> QED BY <1>1, <1>2, <1>3, <1>4, <1>5 DEF Sentence

\* speak() goes on to another wait that nothing is on the stage for.
LEMMA GoKeeps ==
    ASSUME IInv, ~Idle,
           NEW where \in {"text", "check", "authorize", "synth", "writeback"},
           active' \in Utterances, active'.r = active.r, active'.at = where,
           active'.stopped = active.stopped, active'.preempted = active.preempted,
           where \in {"authorize", "synth"} => active'.verdict \in {"passed", "released"},
           UNCHANGED <<asked, life, answers, queue, running, silenced>>,
           permit' \in {"none", "held", "stale"},
           permit' # "none" => life # "gone",
           Surroundings', onStage' = {}
    PROVE  IInv'
<1>1. running = "yes" BY ActiveFacts
<1>2. SameTurn BY DEF SameTurn
<1>3. OneMouth' BY DEF OneMouth
<1>4. SpeaksAsPassed' BY DEF SpeaksAsPassed, At
<1> QED BY <1>1, <1>2, <1>3, <1>4, MovesKeep

\* The waits of speak(), in their order.
LEMMA SpeakKeeps ==
    ASSUME IInv,
           \/ SentenceComes \/ TextEnds \/ CheckOver \/ Authorized \/ Voiced \/ Unvoiced
           \/ Reporting \/ WrittenBack
    PROVE  IInv'
<1>0. ~Idle
    BY DEF SentenceComes, TextEnds, CheckOver, Authorized, Voiced, Unvoiced, Reporting,
           StageReports, WrittenBack, At
<1>1. /\ active \in Utterances /\ active.r \in Request /\ active.i \in Nat
      /\ running = "yes" /\ Sentence \in Request \X Nat
      /\ active.at # "play" => onStage = {}
      /\ onStage \subseteq {Sentence}
      /\ permit \in {"none", "held", "stale"} /\ (permit # "none" => life # "gone")
    BY <1>0, ActiveFacts
<1>2. Surroundings /\ asked \subseteq Request BY TypeParts DEF IInv
<1>3. UNCHANGED <<otherVars, reviewVars>> => Surroundings' /\ UNCHANGED <<asked, life>>
    BY <1>2 DEF otherVars, reviewVars, Surroundings
<1>4. ASSUME Finish, UNCHANGED <<otherVars, reviewVars>>, onStage' = {} PROVE IInv'
    BY <1>0, <1>3, <1>4, FinishKeeps
<1>5. ASSUME NEW where \in {"text", "synth", "writeback"}, Go(where),
             where = "synth" => active.verdict \in {"passed", "released"},
             UNCHANGED <<otherVars, reviewVars>>, onStage' = {}
      PROVE  IInv'
    <2>1. /\ active' = [active EXCEPT !.at = where]
          /\ UNCHANGED <<answers, queue, running, permit, silenced>>
        BY <1>5 DEF Go
    <2>2. /\ active' \in Utterances /\ active'.r = active.r /\ active'.at = where
          /\ active'.stopped = active.stopped /\ active'.preempted = active.preempted
          /\ active'.verdict = active.verdict
        BY <1>1, <2>1 DEF Utterances
    <2> QED BY <1>0, <1>1, <1>3, <1>5, <2>1, <2>2, GoKeeps
<1>6. ASSUME SentenceComes PROVE IInv'
    <2>1. active.at = "text" /\ UNCHANGED <<otherVars, holds, cancelled, reviewUp, onStage>>
        BY <1>6 DEF SentenceComes, At
    <2>2. onStage' = {} BY <1>1, <2>1
    <2>3. CASE Finish /\ UNCHANGED checks
        <3>1. UNCHANGED reviewVars BY <2>1, <2>3 DEF reviewVars
        <3> QED BY <1>4, <2>1, <2>2, <2>3, <3>1
    <2>4. CASE /\ active' = [active EXCEPT !.i = @ + 1, !.at = "check", !.verdict = "none"]
               /\ checks' = checks \cup {<<active.r, active.i + 1>>}
               /\ UNCHANGED <<answers, queue, running, permit, silenced>>
        <3>1. /\ active' \in Utterances /\ active'.r = active.r /\ active'.at = "check"
              /\ active'.stopped = active.stopped /\ active'.preempted = active.preempted
            <4>1. PICK next \in Nat : next = active.i + 1 BY <1>1
            <4>2. active' = [active EXCEPT !.i = next, !.at = "check", !.verdict = "none"]
                BY <2>4, <4>1
            <4> QED BY <1>1, <4>2 DEF Utterances
        <3>2. Surroundings' /\ UNCHANGED <<asked, life>>
            BY <1>1, <1>2, <2>1, <2>4 DEF Surroundings, otherVars
        <3> QED BY <1>0, <1>1, <2>2, <2>4, <3>1, <3>2, GoKeeps
    <2> QED BY <1>6, <2>3, <2>4 DEF SentenceComes
<1>7. ASSUME TextEnds PROVE IInv'
    BY <1>1, <1>4, <1>7 DEF TextEnds, At
<1>8. ASSUME CheckOver PROVE IInv'
    <2>1. active.at = "check" /\ UNCHANGED <<otherVars, reviewVars, onStage>>
        BY <1>8 DEF CheckOver, At
    <2>2. onStage' = {} BY <1>1, <2>1
    <2>3. CASE Finish BY <1>4, <2>1, <2>2, <2>3
    <2>4. CASE Go("text") BY <1>5, <2>1, <2>2, <2>4
    <2>5. CASE /\ ~Halted /\ active.verdict \in {"passed", "released"}
               /\ permit = "held" \/ mode # "safe-stop"
               /\ permit' = "held"
               /\ active' = [active EXCEPT !.at = "authorize", !.token = TRUE]
               /\ UNCHANGED <<answers, queue, running, silenced>>
        <3>1. /\ active' \in Utterances /\ active'.r = active.r /\ active'.at = "authorize"
              /\ active'.stopped = active.stopped /\ active'.preempted = active.preempted
              /\ active'.verdict = active.verdict
            BY <1>1, <2>5 DEF Utterances
        <3>2. life # "gone"
            BY <1>0, <2>5 DEF IInv, LeavingIsStopped, Halted
        <3> QED BY <1>0, <1>3, <2>1, <2>2, <2>5, <3>1, <3>2, GoKeeps
    <2> QED BY <1>8, <2>3, <2>4, <2>5 DEF CheckOver
<1>9. ASSUME Authorized PROVE IInv'
    <2>1. active.at = "authorize" /\ UNCHANGED <<otherVars, reviewVars, onStage>>
        BY <1>9 DEF Authorized, At
    <2>2. onStage' = {} BY <1>1, <2>1
    <2>3. active.verdict \in {"passed", "released"}
        BY <1>0, <2>1 DEF IInv, SpeaksAsPassed, At
    <2> QED BY <1>4, <1>5, <1>9, <2>1, <2>2, <2>3 DEF Authorized
<1>10. ASSUME Voiced PROVE IInv'
    <2>1. active.at = "synth" /\ UNCHANGED <<otherVars, reviewVars>>
        BY <1>10 DEF Voiced, At
    <2>2. onStage = {} BY <1>1, <2>1
    <2>3. CASE Finish /\ UNCHANGED onStage BY <1>4, <2>1, <2>2, <2>3
    <2>4. CASE Go("play") /\ onStage' = onStage \cup {Sentence}
        <3>1. /\ active' = [active EXCEPT !.at = "play"]
              /\ UNCHANGED <<answers, queue, running, permit, silenced>>
            BY <2>4 DEF Go
        <3>2. /\ active' \in Utterances /\ active'.r = active.r /\ active'.at = "play"
              /\ active'.i = active.i /\ active'.verdict = active.verdict
              /\ active'.stopped = active.stopped /\ active'.preempted = active.preempted
            BY <1>1, <3>1 DEF Utterances
        <3>3. active' # Nobody BY <3>2, NobodyIsNoUtterance
        <3>4. onStage' = {Sentence} /\ Sentence' = Sentence BY <2>2, <2>4, <3>2 DEF Sentence
        <3>5. OneMouth' BY <3>2, <3>3, <3>4 DEF OneMouth, At, Idle
        <3>6. SpeaksAsPassed'
            BY <1>0, <2>1, <3>2 DEF IInv, SpeaksAsPassed, At
        <3>7. SameTurn BY <1>0, <3>2 DEF SameTurn
        <3> QED BY <1>1, <1>3, <2>1, <3>1, <3>4, <3>5, <3>6, <3>7, MovesKeep
    <2> QED BY <1>10, <2>3, <2>4 DEF Voiced
<1>11. ASSUME Unvoiced PROVE IInv'
    BY <1>1, <1>4, <1>11 DEF Unvoiced, At
<1>12. ASSUME NEW complete \in BOOLEAN, StageReports(complete) PROVE IInv'
    <2>1. UNCHANGED <<otherVars, reviewVars>> /\ onStage' = {}
        BY <1>1, <1>12 DEF StageReports
    <2>2. Finish \/ Go("text") \/ Go("writeback") BY <1>12 DEF StageReports
    <2> QED BY <1>4, <1>5, <2>1, <2>2
<1>13. ASSUME WrittenBack PROVE IInv'
    BY <1>1, <1>4, <1>13 DEF WrittenBack, At
<1> QED
    BY <1>6, <1>7, <1>8, <1>9, <1>10, <1>11, <1>12, <1>13 DEF Reporting

\* The same utterance has the turn, in the same wait, and has at most heard a verdict
\* there, lost its token or been told that the emergency is over.
QuietTurn ==
    IF Idle THEN active' = Nobody
    ELSE /\ active' \in Utterances /\ active'.r = active.r /\ active'.i = active.i
         /\ active'.at = active.at
         /\ active'.stopped = active.stopped /\ active'.preempted = active.preempted
         /\ active.at # "check" => active'.verdict = active.verdict

\* What happens around the utterance that speaks, and what it hears of it.
LEMMA QuietKeeps ==
    ASSUME IInv, QuietTurn, UNCHANGED <<asked, answers, queue, running, silenced, onStage>>,
           life' \in {life, "leaving"},
           permit' \in {"none", "held", "stale"}, permit' # "none" => permit # "none",
           Surroundings'
    PROVE  IInv'
<1>1. SameTurn BY DEF QuietTurn, SameTurn
<1>2. permit' # "none" => running = "yes" /\ life' # "gone"
    BY DEF IInv, PermitOnlyWhileRunning
<1>3. onStage' \subseteq Request \X Nat BY TypeParts DEF IInv
<1>4. ~Idle => ~Idle' BY NobodyIsNoUtterance DEF QuietTurn, Idle
<1>5. OneMouth'
    BY <1>4 DEF IInv, OneMouth, At, Sentence, QuietTurn
<1>6. SpeaksAsPassed'
    BY <1>4 DEF IInv, SpeaksAsPassed, At, Idle, QuietTurn
<1> QED BY <1>1, <1>2, <1>3, <1>5, <1>6, MovesKeep

\* A verdict reaches at most the utterance that waits for it.
LEMMA HearsIsQuiet ==
    ASSUME IInv, NEW ks, NEW how \in {"passed", "blocked", "released", "vetoed", "withdrawn"},
           Hears(ks, how)
    PROVE  QuietTurn
<1>1. ~Idle => active \in Utterances BY ActiveFacts
<1>2. CASE At("check") /\ Sentence \in ks /\ active.verdict = "none"
    <2>1. active' = [active EXCEPT !.verdict = how] /\ ~Idle /\ active.at = "check"
        BY <1>2 DEF Hears, At
    <2> QED BY <1>1, <2>1 DEF QuietTurn, Utterances
<1>3. CASE ~(At("check") /\ Sentence \in ks /\ active.verdict = "none")
    BY <1>1, <1>3 DEF Hears, QuietTurn, Idle
<1> QED BY <1>2, <1>3

\* A token that is void is all that the utterance loses with its permit.
LEMMA LostIsQuiet ==
    ASSUME IInv, active' = Lost(active) PROVE QuietTurn
<1>1. ~Idle => active \in Utterances BY ActiveFacts
<1> QED BY <1>1 DEF Lost, QuietTurn, Idle, Utterances

\* The check, the review, the clock and the permit, each by itself.
LEMMA ReviewKeeps ==
    ASSUME IInv,
           \/ (\E r \in Perishable : Expires(r)) \/ Checking \/ HoldTimers \/ ReviewUnloaded
           \/ (\E to \in {"M1", "M2"} : SetMode(to))
           \/ (\E k \in holds, how \in {"released", "vetoed"} : HoldEnds(k, how))
           \/ EmergencySettles \/ PermitLost \/ RenewalFails \/ Leave
    PROVE  IInv'
<1>1. /\ Surroundings /\ permit \in {"none", "held", "stale"}
      /\ ~Idle => active \in Utterances
    BY TypeParts DEF IInv, TypeOK
<1>2. active' = active => QuietTurn BY <1>1 DEF QuietTurn, Idle
<1>3. ASSUME NEW r \in Perishable, Expires(r) PROVE IInv'
    <2>1. /\ expired' = expired \cup {r}
          /\ UNCHANGED <<mode, changes, life, asked, loopVars, reviewVars, onStage>>
        BY <1>3 DEF Expires
    <2>2. Surroundings' BY <1>1, <2>1, RequestAssumption DEF Surroundings, reviewVars
    <2> QED BY <1>1, <1>2, <2>1, <2>2, QuietKeeps DEF loopVars
<1>4. ASSUME NEW k \in checks, NEW blocked \in BOOLEAN, CheckReturns(k, blocked) PROVE IInv'
    <2>1. /\ checks' = checks \ {k} /\ cancelled' = cancelled \ {k[1]}
          /\ holds' \subseteq holds \cup {k}
          /\ UNCHANGED <<otherVars, answers, queue, running, permit, silenced, reviewUp, onStage>>
        BY <1>4 DEF CheckReturns
    <2>2. QuietTurn BY <1>4, HearsIsQuiet DEF CheckReturns
    <2>3. Surroundings' BY <1>1, <2>1 DEF Surroundings, otherVars
    <2> QED BY <1>1, <2>1, <2>2, <2>3, QuietKeeps DEF otherVars
<1>5. ASSUME NEW k \in holds, NEW how \in {"released", "vetoed", "withdrawn"}, HoldEnds(k, how)
      PROVE  IInv'
    <2>1. /\ holds' = holds \ {k} /\ Hears({k}, how)
          /\ UNCHANGED <<otherVars, answers, queue, running, permit, silenced, checks,
                         cancelled, reviewUp, onStage>>
        BY <1>5 DEF HoldEnds, Settle
    <2>2. QuietTurn BY <2>1, HearsIsQuiet
    <2>3. Surroundings' BY <1>1, <2>1 DEF Surroundings, otherVars
    <2> QED BY <1>1, <2>1, <2>2, <2>3, QuietKeeps DEF otherVars
<1>6. ASSUME ReviewUnloaded PROVE IInv'
    <2>1. /\ reviewUp' = FALSE /\ holds' = {} /\ Hears(holds, "withdrawn")
          /\ UNCHANGED <<otherVars, answers, queue, running, permit, silenced, checks,
                         cancelled, onStage>>
        BY <1>6 DEF ReviewUnloaded, Settle
    <2>2. QuietTurn BY <2>1, HearsIsQuiet
    <2>3. Surroundings' BY <1>1, <2>1 DEF Surroundings, otherVars
    <2> QED BY <1>1, <2>1, <2>2, <2>3, QuietKeeps DEF otherVars
<1>7. ASSUME NEW to \in {"M1", "M2"}, SetMode(to) PROVE IInv'
    <2>1. /\ changes < MaxChanges /\ mode' = to /\ changes' = changes + 1
          /\ holds' \subseteq holds
          /\ UNCHANGED <<life, expired, asked, answers, queue, running, permit, silenced,
                         checks, cancelled, reviewUp, onStage>>
        BY <1>7 DEF SetMode, Settle
    <2>2. QuietTurn BY <1>2, <1>7, HearsIsQuiet DEF SetMode, Settle
    <2>3. changes' \in 0 .. MaxChanges BY <1>1, <2>1, BoundAssumption DEF Surroundings
    <2>4. Surroundings' BY <1>1, <2>1, <2>3 DEF Surroundings
    <2> QED BY <1>1, <2>1, <2>2, <2>4, QuietKeeps
<1>8. ASSUME EmergencySettles PROVE IInv'
    <2>1. /\ ~Idle /\ active' = [active EXCEPT !.emergency = FALSE]
          /\ UNCHANGED <<otherVars, answers, queue, running, permit, silenced, reviewVars,
                         onStage>>
        BY <1>8 DEF EmergencySettles
    <2>2. QuietTurn BY <1>1, <2>1 DEF QuietTurn, Utterances
    <2>3. Surroundings' BY <1>1, <2>1 DEF Surroundings, otherVars, reviewVars
    <2> QED BY <1>1, <2>1, <2>2, <2>3, QuietKeeps DEF otherVars
<1>9. ASSUME PermitLost PROVE IInv'
    <2>1. /\ permit = "held" /\ permit' = "stale" /\ active' = Lost(active)
          /\ UNCHANGED <<otherVars, answers, queue, running, silenced, reviewVars, onStage>>
        BY <1>9 DEF PermitLost
    <2>2. Surroundings' BY <1>1, <2>1 DEF Surroundings, otherVars, reviewVars
    <2> QED BY <2>1, <2>2, LostIsQuiet, QuietKeeps DEF otherVars
<1>10. ASSUME RenewalFails PROVE IInv'
    <2>1. /\ permit' = "none"
          /\ UNCHANGED <<otherVars, answers, queue, active, running, silenced, reviewVars,
                         onStage>>
        BY <1>10 DEF RenewalFails
    <2>2. Surroundings' BY <1>1, <2>1 DEF Surroundings, otherVars, reviewVars
    <2> QED BY <1>2, <2>1, <2>2, QuietKeeps DEF otherVars
<1>11. ASSUME Leave PROVE IInv'
    <2>1. /\ life' = "leaving" /\ permit' = StalePermit /\ active' = Lost(active)
          /\ UNCHANGED <<mode, changes, expired, asked, answers, queue, running, silenced,
                         reviewVars, onStage>>
        BY <1>11 DEF Leave
    <2>2. Surroundings' BY <1>1, <2>1 DEF Surroundings, reviewVars
    <2>3. permit' \in {"none", "held", "stale"} /\ (permit' # "none" => permit # "none")
        BY <1>1, <2>1 DEF StalePermit
    <2> QED BY <2>1, <2>2, <2>3, LostIsQuiet, QuietKeeps
<1>12. ASSUME HoldTimers PROVE IInv'
    BY <1>5, <1>12 DEF HoldTimers, HoldTimer
<1> QED
    BY <1>3, <1>4, <1>5, <1>6, <1>7, <1>8, <1>9, <1>10, <1>11, <1>12 DEF Checking

\* Stops of every kind, and the plugin that leaves.
LEMMA StopsKeep ==
    ASSUME IInv, SoftStop \/ EmergencyStop \/ Quiesce \/ Dispose
    PROVE  IInv'
<1>1. /\ Surroundings /\ permit \in {"none", "held", "stale"}
      /\ life \in {"up", "leaving", "quiesced", "gone"}
      /\ ~Idle => active \in Utterances
      /\ permit # "none" => running = "yes" /\ life # "gone"
    BY TypeParts DEF IInv, TypeOK, PermitOnlyWhileRunning
<1>2. /\ Idle => Stopped = Nobody
      /\ ~Idle => /\ Stopped \in Utterances /\ Stopped.r = active.r /\ Stopped.stopped
                  /\ Stopped.i = active.i /\ Stopped.at = active.at
                  /\ Stopped.verdict = active.verdict
    BY <1>1 DEF Stopped, Utterances, Idle
<1>3. active' = Stopped => StoppedTurn BY <1>2 DEF StoppedTurn
<1>4. ASSUME SoftStop PROVE IInv'
    <2>1. StopQueue(Stopped) /\ UNCHANGED <<otherVars, running, permit, reviewVars, onStage>>
        BY <1>4 DEF SoftStop
    <2>2. active' = Stopped BY <2>1 DEF StopQueue
    <2>3. Surroundings' BY <1>1, <2>1 DEF Surroundings, otherVars, reviewVars
    <2> QED BY <1>1, <1>3, <2>1, <2>2, <2>3, StopKeeps DEF otherVars
<1>5. ASSUME NEW a, HardStop(a) PROVE StopQueue(a) /\ active' = a /\ cancelled' \subseteq Request
    BY <1>1, <1>5 DEF HardStop, StopQueue, Surroundings
<1>6. ASSUME EmergencyStop PROVE IInv'
    <2> DEFINE a == IF Idle THEN active
                    ELSE Lost([Stopped EXCEPT !.emergency = @ \/ active.at = "play"])
    <2>1. /\ HardStop(a) /\ mode' = "safe-stop" /\ permit' = StalePermit /\ holds' = {}
          /\ UNCHANGED <<changes, life, expired, asked, running, checks, reviewUp, onStage>>
        BY <1>6 DEF EmergencyStop
    <2>2. IF Idle THEN a = Nobody
          ELSE /\ a \in Utterances /\ a.r = active.r /\ a.stopped
               /\ a.i = active.i /\ a.at = active.at /\ a.verdict = active.verdict
        <3>1. CASE Idle BY <3>1 DEF Idle
        <3>2. CASE ~Idle
            <4> DEFINE s == [Stopped EXCEPT !.emergency = @ \/ active.at = "play"]
            <4>1. (Stopped.emergency \/ active.at = "play") \in BOOLEAN
                BY <1>2, <3>2 DEF Utterances
            <4>2. /\ s \in Utterances /\ s.r = active.r /\ s.stopped
                  /\ s.i = active.i /\ s.at = active.at /\ s.verdict = active.verdict
                BY <1>2, <3>2, <4>1 DEF Utterances
            <4>3. a = Lost(s) BY <3>2
            <4> HIDE DEF s, a
            <4>4. a = [s EXCEPT !.token = FALSE]
                BY <4>2, <4>3, NobodyIsNoUtterance DEF Lost
            <4> QED BY <3>2, <4>2, <4>4 DEF Utterances
        <3> QED BY <3>1, <3>2
    <2> HIDE DEF a
    <2>3. StopQueue(a) /\ active' = a /\ cancelled' \subseteq Request BY <1>5, <2>1
    <2>4. StoppedTurn BY <2>2, <2>3 DEF StoppedTurn
    <2>5. Surroundings' BY <1>1, <2>1, <2>3 DEF Surroundings
    <2>6. permit' \in {"none", "held", "stale"} /\ (permit' # "none" => permit # "none")
        BY <1>1, <2>1 DEF StalePermit
    <2> QED BY <1>1, <2>1, <2>3, <2>4, <2>5, <2>6, StopKeeps
<1>7. ASSUME Quiesce PROVE IInv'
    <2>1. /\ life' = "quiesced" /\ HardStop(Stopped) /\ holds' \subseteq holds
          /\ UNCHANGED <<mode, changes, expired, asked, running, permit, checks, reviewUp,
                         onStage>>
        BY <1>7 DEF Quiesce
    <2>2. StopQueue(Stopped) /\ active' = Stopped /\ cancelled' \subseteq Request
        BY <1>5, <2>1
    <2>3. Surroundings' BY <1>1, <2>1, <2>2 DEF Surroundings
    <2> QED BY <1>1, <1>3, <2>1, <2>2, <2>3, StopKeeps
<1>8. ASSUME Dispose PROVE IInv'
    <2> DEFINE a == IF Idle THEN active ELSE Lost([Stopped EXCEPT !.emergency = FALSE])
    <2>1. /\ HardStop(a) /\ life' = "gone" /\ permit' = "none" /\ holds' \subseteq holds
          /\ UNCHANGED <<mode, changes, expired, asked, running, checks, reviewUp, onStage>>
        BY <1>8 DEF Dispose
    <2>2. IF Idle THEN a = Nobody
          ELSE /\ a \in Utterances /\ a.r = active.r /\ a.stopped
               /\ a.i = active.i /\ a.at = active.at /\ a.verdict = active.verdict
        <3>1. CASE Idle BY <3>1 DEF Idle
        <3>2. CASE ~Idle
            <4> DEFINE s == [Stopped EXCEPT !.emergency = FALSE]
            <4>1. /\ s \in Utterances /\ s.r = active.r /\ s.stopped
                  /\ s.i = active.i /\ s.at = active.at /\ s.verdict = active.verdict
                BY <1>2, <3>2 DEF Utterances
            <4>2. a = Lost(s) BY <3>2
            <4> HIDE DEF s, a
            <4>3. a = [s EXCEPT !.token = FALSE]
                BY <4>1, <4>2, NobodyIsNoUtterance DEF Lost
            <4> QED BY <3>2, <4>1, <4>3 DEF Utterances
        <3> QED BY <3>1, <3>2
    <2> HIDE DEF a
    <2>3. StopQueue(a) /\ active' = a /\ cancelled' \subseteq Request BY <1>5, <2>1
    <2>4. StoppedTurn BY <2>2, <2>3 DEF StoppedTurn
    <2>5. Surroundings' BY <1>1, <2>1, <2>3 DEF Surroundings
    <2> QED BY <2>1, <2>3, <2>4, <2>5, StopKeeps
<1> QED BY <1>4, <1>6, <1>7, <1>8

-----------------------------------------------------------------------------
(* The theorems.                                                           *)

\* The invariant holds when the plugin has been loaded.
LEMMA InitEstablishes == ASSUME Init PROVE IInv
<1>1. Idle /\ queue = <<>> /\ running = "no" /\ life = "up" /\ permit = "none"
    BY DEF Init, Idle
<1>2. answers \in [Request -> Nat] /\ \A r \in Request : answers[r] = 0 BY DEF Init
<1>3. queue \in Seq(Request) /\ Len(queue) <= MaxQueue /\ DOMAIN queue = {}
    BY <1>1, EmptySeq, BoundAssumption
<1>4. TypeOK
    <2>1. active \in {Nobody} \cup Utterances BY DEF Init
    <2>2. changes \in 0 .. MaxChanges BY BoundAssumption DEF Init
    <2>3. \A ks \in {checks, holds, onStage} : ks \subseteq Request \X Nat BY DEF Init
    <2> QED BY <1>1, <1>2, <1>3, <2>1, <2>2, <2>3 DEF TypeOK, Init
<1>5. QueueInOrder
    <2>1. Distinct(queue) /\ Ranked(queue) BY <1>3 DEF Distinct, Ranked
    <2>2. Accounted(queue, Speaking, answers, asked)
        BY <1>1, <1>2, <1>3 DEF Accounted, WaitsIn, Speaking, Init
    <2> QED BY <1>1, <2>1, <2>2 DEF QueueInOrder
<1>6. PreemptedForABetter /\ SilencedAreHalted /\ LeavingIsStopped
    BY <1>1 DEF PreemptedForABetter, SilencedAreHalted, LeavingIsStopped, Init
<1>7. OneMouth /\ PermitOnlyWhileRunning /\ SpeaksAsPassed
    BY <1>1 DEF OneMouth, PermitOnlyWhileRunning, SpeaksAsPassed, At, Init
<1> QED BY <1>4, <1>5, <1>6, <1>7 DEF IInv

\* Every step keeps it.
LEMMA StepKeeps == ASSUME IInv, [Next]_vars PROVE IInv'
<1>1. CASE Next
    <2>1. CASE Asking
        BY <2>1, RefuseKeeps, AskIdleKeeps, AskBusyKeeps DEF Asking
    <2>2. CASE RunCleared BY <2>2, RunClearedKeeps
    <2>3. CASE \/ SentenceComes \/ TextEnds \/ CheckOver \/ Authorized \/ Voiced \/ Unvoiced
               \/ Reporting \/ WrittenBack
        BY <2>3, SpeakKeeps
    <2>4. CASE \/ (\E r \in Perishable : Expires(r)) \/ Checking \/ HoldTimers \/ ReviewUnloaded
               \/ EmergencySettles \/ PermitLost \/ RenewalFails \/ Leave
        BY <2>4, ReviewKeeps
    <2>5. CASE Quiesce \/ Dispose BY <2>5, StopsKeep
    <2>6. CASE Operator BY <2>6, ReviewKeeps, StopsKeep DEF Operator
    <2> QED BY <1>1, <2>1, <2>2, <2>3, <2>4, <2>5, <2>6 DEF Next
<1>2. CASE UNCHANGED vars
    <2>1. UNCHANGED <<mode, changes, life, expired, asked, answers, queue, active, running,
                      permit, silenced, checks, holds, cancelled, reviewUp, onStage>>
        BY <1>2 DEF vars, otherVars, loopVars, reviewVars
    <2>2. TypeOK' /\ QueueInOrder'
        BY <2>1
        DEF IInv, TypeOK, QueueInOrder, Distinct, Ranked, Accounted, WaitsIn, Speaking, Idle, Rank
    <2>3. PreemptedForABetter' /\ SilencedAreHalted' /\ LeavingIsStopped'
        BY <2>1
        DEF IInv, PreemptedForABetter, SilencedAreHalted, LeavingIsStopped, Halted, Idle, Rank
    <2>4. OneMouth' /\ PermitOnlyWhileRunning' /\ SpeaksAsPassed'
        BY <2>1
        DEF IInv, OneMouth, PermitOnlyWhileRunning, SpeaksAsPassed, At, Idle, Sentence
    <2> QED BY <2>2, <2>3, <2>4 DEF IInv
<1> QED BY <1>1, <1>2

\* The invariant holds in every state.
LEMMA ArbiterInvariant == Spec => []IInv
<1>1. Init => IInv BY InitEstablishes
<1>2. IInv /\ [Next]_vars => IInv' BY StepKeeps
<1> QED BY <1>1, <1>2, PTL DEF Spec

\* Whoever waits at most once, or speaks, or was told, is in exactly one place.
LEMMA AccountedOnce == ASSUME IInv PROVE AnsweredOnce
<1>1. QueueInOrder BY DEF IInv
<1> SUFFICES ASSUME NEW r \in Request
             PROVE  Cardinality({j \in DOMAIN queue : queue[j] = r})
                    + (IF ~Idle /\ active.r = r THEN 1 ELSE 0) + answers[r]
                    = (IF r \in asked THEN 1 ELSE 0)
    BY DEF AnsweredOnce
<1> DEFINE places == {j \in DOMAIN queue : queue[j] = r}
<1>2. /\ answers[r] \in {0, 1}
      /\ r \in asked <=> WaitsIn(queue, r) \/ r \in Speaking \/ answers[r] = 1
      /\ WaitsIn(queue, r) => r \notin Speaking /\ answers[r] = 0
      /\ r \in Speaking => answers[r] = 0
    BY <1>1 DEF QueueInOrder, Accounted
<1>3. Cardinality(places) = IF WaitsIn(queue, r) THEN 1 ELSE 0
    <2>1. CASE WaitsIn(queue, r)
        <3>1. PICK j \in DOMAIN queue : queue[j] = r BY <2>1 DEF WaitsIn
        <3>2. places = {j} BY <1>1, <3>1 DEF QueueInOrder, Distinct
        <3> HIDE DEF places
        <3> QED BY <2>1, <3>2, FS_Singleton
    <2>2. CASE ~WaitsIn(queue, r)
        <3>1. places = {} BY <2>2 DEF WaitsIn
        <3> HIDE DEF places
        <3> QED BY <2>2, <3>1, FS_EmptySet
    <2> QED BY <2>1, <2>2
<1>4. r \in Speaking <=> ~Idle /\ active.r = r BY DEF Speaking
<1> HIDE DEF places
<1>5. Cardinality(places) + (IF ~Idle /\ active.r = r THEN 1 ELSE 0) + answers[r]
      = (IF r \in asked THEN 1 ELSE 0)
    <2>1. PICK told \in {0, 1} : told = answers[r] BY <1>2
    <2>2. PICK waits : waits = Cardinality(places) OBVIOUS
    <2> QED BY <1>2, <1>3, <1>4, <2>1, <2>2
<1> QED BY <1>5 DEF places

\* Of everything that ever asked to speak each waits, speaks, or was told its end, and
\* never two of these or one of them twice; who waits stands in the order of ranks, and
\* waits only while the loop runs (item.resolve in request, run and the stops).
THEOREM RequestsAreAlwaysKept == Spec => []RequestsAreKept
<1>1. IInv => RequestsAreKept
    BY AccountedOnce DEF IInv, QueueInOrder, WaitsByRank, RequestsAreKept
<1> QED BY <1>1, ArbiterInvariant, PTL

\* What begins to play is the sentence of whoever has the turn, it has passed its review,
\* and no stop or preemption has found it unsaid.
LEMMA StartsAreAllowed ==
    ASSUME IInv, [Next]_vars, NEW k \in onStage' \ onStage
    PROVE  k[1] \notin silenced /\ k = Sentence /\ active.verdict \in {"passed", "released"}
<1>1. At("synth") /\ ~Halted /\ onStage' = onStage \cup {Sentence}
    <2>1. CASE Voiced BY <2>1 DEF Voiced
    <2>2. CASE Reporting BY <2>2 DEF Reporting, StageReports
    <2>3. CASE Asking \/ RunCleared \/ (\E r \in Perishable : Expires(r))
        BY <2>3 DEF Asking, Refuse, AskIdle, AskBusy, RunCleared, Expires
    <2>4. CASE SentenceComes \/ TextEnds \/ CheckOver \/ Authorized \/ Unvoiced \/ WrittenBack
        BY <2>4 DEF SentenceComes, TextEnds, CheckOver, Authorized, Unvoiced, WrittenBack
    <2>5. CASE Checking \/ HoldTimers \/ ReviewUnloaded \/ EmergencySettles
        BY <2>5
        DEF Checking, CheckReturns, HoldTimers, HoldTimer, HoldEnds, ReviewUnloaded,
            EmergencySettles
    <2>6. CASE Operator \/ PermitLost \/ RenewalFails \/ Leave \/ Quiesce \/ Dispose
        BY <2>6
        DEF Operator, SoftStop, EmergencyStop, SetMode, HoldEnds, PermitLost, RenewalFails,
            Leave, Quiesce, Dispose
    <2>7. CASE UNCHANGED vars BY <2>7 DEF vars
    <2> QED BY <2>1, <2>2, <2>3, <2>4, <2>5, <2>6, <2>7 DEF Next
<1>2. k = Sentence BY <1>1
<1>3. k[1] = active.r BY <1>2 DEF Sentence
<1>4. active.r \notin silenced BY <1>1 DEF IInv, SilencedAreHalted
<1>5. active.verdict \in {"passed", "released"} BY <1>1 DEF IInv, SpeaksAsPassed
<1> QED BY <1>2, <1>3, <1>4, <1>5

\* At all times there is one voice that gives way only to a higher rank and holds the
\* permit only while it speaks, and what begins to play has passed its review and was
\* not silenced before, in whichever wait of speak() that came.
THEOREM OneVoiceSaysWhatItMay == Spec => OneAllowedVoice
<1>1. IInv => OneVoice BY DEF IInv, OneVoice
<1>2. IInv /\ [Next]_vars => [\A k \in onStage' \ onStage : k[1] \notin silenced]_vars
    BY StartsAreAllowed
<1>3. IInv /\ [Next]_vars =>
         [\A k \in onStage' \ onStage :
              k = Sentence /\ active.verdict \in {"passed", "released"}]_vars
    BY StartsAreAllowed
<1>4. Spec => []OneVoice BY <1>1, ArbiterInvariant, PTL
<1>5. Spec => SilencedStaysSilent
    BY <1>2, ArbiterInvariant, PTL DEF Spec, SilencedStaysSilent
<1>6. Spec => PlayedAsPassed BY <1>3, ArbiterInvariant, PTL DEF Spec, PlayedAsPassed
<1> QED BY <1>4, <1>5, <1>6, PTL DEF OneAllowedVoice, OnlyTheAllowedPlays
=============================================================================
