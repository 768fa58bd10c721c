-------------------------- MODULE PluginKernel_proofs --------------------------
(***************************************************************************)
(* Proofs about PluginKernel, for any profile and any plugins, any number  *)
(* of calls, faults and retries: the kernel settles only when nothing is   *)
(* left to do, registrations are of instances, and whoever leaves leaves   *)
(* in order.                                                               *)
(***************************************************************************)
EXTENDS PluginKernel, FiniteSetTheorems, SequenceTheorems, WellFoundedInduction, TLAPS

EntryType == [
    plugin : Plugin, misconfigured : BOOLEAN, enabled : BOOLEAN, state : State,
    inst : Instance \cup {None}, attempts : 0 .. Retries + 1, retry : BOOLEAN,
    failure : BOOLEAN ]

Has(e) == entry[e].inst # None

\* An entry has an instance from its publication to the end of its disposal, and the
\* instance is closed for the disposal.
InstancesAreHeld ==
    \A e \in Entry :
        /\ Has(e) <=> entry[e].state \in {"active", "quiescing", "unloading"}
        /\ Has(e) => (entry[e].inst.closed <=> entry[e].state = "unloading")

\* A timer is armed for a failure only, and while restarts are left.
RetryIsCounted(x, n) ==
    /\ n <= x.attempts /\ n <= Retries
    /\ x.retry => x.state = "failed" /\ n < x.attempts /\ n < Retries

RetriesAreCounted == \A e \in Entry : RetryIsCounted(entry[e], restarts[e])

\* Who provides what: all of it until it is withdrawn, nothing without an instance.
RegistryIsHeld ==
    \A e \in Entry :
        /\ ProvidedBy(e) \subseteq Provides[entry[e].plugin]
        /\ ~Has(e) => ProvidedBy(e) = {}
        /\ entry[e].state \in {"active", "quiescing"} =>
              ProvidedBy(e) = Provides[entry[e].plugin]

\* The frame of an entry says what has been done of its unloading; frames behind the
\* first wait for their consumers.
FramesAreTrue ==
    \A i \in DOMAIN stack : LET e == stack[i].entry  step == stack[i].step IN
        /\ i # 1 => step = "consumers"
        /\ step \in {"consumers", "revoke", "quiesce"} => entry[e].state = "quiescing"
        /\ step \in {"dispose", "disposers"} => entry[e].state = "unloading"
        /\ step \in {"quiesce", "dispose", "disposers"} =>
              entry[e].inst.revoked \/ entry[e].inst.forced
        /\ step \in {"revoke", "quiesce", "dispose"} => Consumers(e) = {}
        /\ step = "disposers" => ProvidedBy(e) = {}

\* Whoever is on the way out has one frame.
OnStack(e) == \E i \in DOMAIN stack : stack[i].entry = e

LeavingAreOnStack ==
    /\ \A i, j \in DOMAIN stack : stack[i].entry = stack[j].entry => i = j
    /\ \A e \in Entry : entry[e].state \in {"quiescing", "unloading"} => OnStack(e)

Target(e, target) == \A i \in DOMAIN stack : stack[i].entry = e => stack[i].target = target

PassIn(phase) == job.kind = "pass" /\ job.phase = phase
ReplaceIn(phase) == job.kind = "replace" /\ job.phase = phase

\* Where the job is, and what that says of the entries.
JobIsTrue ==
    /\ stack # <<>> => PassIn("stop") \/ ReplaceIn("swap") \/ job.kind = "shutdown"
    /\ \A e \in Entry : entry[e].state = "loading" <=> PassIn("loading") /\ job.at = e
    /\ PassIn("loading") => job.at \in Entry
    /\ ReplaceIn("activating") => entry[job.entry].state = "active"
    /\ ReplaceIn("swap") =>
          /\ entry[job.entry].state \in {"quiescing", "unloading", "waiting"}
          /\ Target(job.entry, "waiting")
    /\ job.kind = "shutdown" =>
          /\ closing = "closed"
          /\ \A e \in Entry : e >= job.at =>
                /\ ~entry[e].enabled /\ ~entry[e].retry
                /\ entry[e].state \in {"quiescing", "unloading", "disposed"}
                /\ Target(e, "disposed")
    /\ closing = "done" =>
          job = NoJob /\ \A e \in Entry : entry[e].state = "disposed" /\ ~entry[e].retry

IsPass(i) == queue[i].kind = "pass"

\* One pass at a time is wanted or under way while the loop runs, none otherwise; what
\* was loaded makes the loop go round again.
LoopIsTrue ==
    /\ ~loop \/ job.kind = "pass" => \A i \in DOMAIN queue : ~IsPass(i)
    /\ \A i, j \in DOMAIN queue : IsPass(i) /\ IsPass(j) => i = j
    /\ job.kind = "pass" => loop
    /\ PassIn("load") => dirty

\* Nothing is to be done with an entry.
Fixed(x) ==
    /\ x.state \in {"waiting", "active", "disposed", "failed"}
    /\ x.state = "disposed" <=> ~x.enabled
    /\ ~ShouldStop(x)
    /\ x.state = "waiting" => ~ShouldLoad(x) /\ ~x.misconfigured

\* Without a request nothing is to be done, nor behind the place of the pass that stops.
NothingIsLeft ==
    closing = "no" =>
        /\ ~loop /\ ~ReplaceIn("swap") => \A e \in Entry : Fixed(entry[e])
        /\ PassIn("stop") /\ ~dirty => \A e \in Entry : e >= job.at => ~ShouldStop(entry[e])

IInv ==
    /\ TypeOK /\ InstancesAreHeld /\ RetriesAreCounted /\ RegistryIsHeld
    /\ FramesAreTrue /\ LeavingAreOnStack /\ JobIsTrue /\ LoopIsTrue /\ NothingIsLeft

\* Only the versions of an entry run in it.
OnlyVersionsRun ==
    /\ \A e \in Entry : entry[e].plugin \in VersionsOf(e)
    /\ job.kind = "replace" => job.plugin \in VersionsOf(job.entry)
    /\ \A i \in DOMAIN queue : queue[i].kind = "replace" =>
          queue[i].plugin \in VersionsOf(queue[i].entry)

\* What leaves is further up than what waits for it, and not below what is replaced.
FramesAreLayered(level) ==
    /\ \A i, j \in DOMAIN stack : i < j => level[stack[j].entry] < level[stack[i].entry]
    /\ ReplaceIn("swap") =>
          \A i \in DOMAIN stack : level[job.entry] <= level[stack[i].entry]

\* What works, or still will, has what it needs.
NeedsAreMet ==
    /\ \A e \in Entry :
          entry[e].state \in {"loading", "active", "quiescing"} => Supplied(entry[e].plugin)
    /\ job.kind = "replace" => Supplied(job.plugin)

LInv(level) == IInv /\ OnlyVersionsRun /\ FramesAreLayered(level) /\ NeedsAreMet

-----------------------------------------------------------------------------
(* Sequences and sets of entries.                                          *)

LEMMA Indices ==
    ASSUME NEW S, NEW q \in Seq(S)
    PROVE  /\ Len(q) \in Nat /\ DOMAIN q = 1 .. Len(q) /\ DOMAIN q \subseteq Nat
           /\ \A i \in DOMAIN q : q[i] \in S /\ 0 < i
BY LenProperties, ElementOfSeq

\* The first element goes, the others move up.
LEMMA TailFacts ==
    ASSUME NEW S, NEW q \in Seq(S), q # <<>>
    PROVE  /\ Tail(q) \in Seq(S) /\ Head(q) = q[1] /\ 1 \in DOMAIN q
           /\ \A i \in DOMAIN Tail(q) :
                 i \in Nat /\ 0 < i /\ i + 1 \in DOMAIN q /\ Tail(q)[i] = q[i + 1]
           /\ \A i \in DOMAIN q : i # 1 => i - 1 \in DOMAIN Tail(q) /\ Tail(q)[i - 1] = q[i]
<1>1. Len(q) \in Nat \ {0} /\ DOMAIN q = 1 .. Len(q) BY EmptySeq, LenProperties
<1>2. /\ Tail(q) \in Seq(S) /\ Len(Tail(q)) = Len(q) - 1 /\ DOMAIN Tail(q) = 1 .. Len(Tail(q))
      /\ \A i \in 1 .. Len(Tail(q)) : Tail(q)[i] = q[i + 1]
    BY HeadTailProperties, LenProperties
<1>3. PICK n \in Nat \ {0} : n = Len(q) BY <1>1
<1>4. DOMAIN q = 1 .. n /\ DOMAIN Tail(q) = 1 .. n - 1 BY <1>1, <1>2, <1>3
<1>5. \A i \in 1 .. n : i # 1 => i - 1 \in 1 .. n - 1 /\ (i - 1) + 1 = i BY <1>3
<1>6. \A i \in 1 .. n - 1 : i \in Nat /\ 0 < i /\ i + 1 \in 1 .. n BY <1>3
<1> QED BY <1>1, <1>2, <1>3, <1>4, <1>5, <1>6

\* One more behind the others.
LEMMA AppendFacts ==
    ASSUME NEW S, NEW q \in Seq(S), NEW x \in S
    PROVE  /\ Append(q, x) \in Seq(S)
           /\ \A i \in DOMAIN q : i \in DOMAIN Append(q, x) /\ Append(q, x)[i] = q[i]
           /\ \A i \in DOMAIN Append(q, x) :
                 (i \in DOMAIN q /\ Append(q, x)[i] = q[i]) \/ (i = Len(q) + 1 /\ Append(q, x)[i] = x)
<1>1. PICK n \in Nat : n = Len(q) /\ DOMAIN q = 1 .. n BY LenProperties
<1>2. /\ Append(q, x) \in Seq(S) /\ Len(Append(q, x)) = n + 1 /\ Append(q, x)[n + 1] = x
      /\ \A i \in 1 .. n : Append(q, x)[i] = q[i]
    BY <1>1, AppendProperties
<1>3. DOMAIN Append(q, x) = 1 .. n + 1 BY <1>2, LenProperties
<1>4. \A i \in 1 .. n + 1 : i \in 1 .. n \/ i = n + 1 BY <1>1
<1>5. \A i \in 1 .. n : i \in 1 .. n + 1 BY <1>1
<1> QED BY <1>1, <1>2, <1>3, <1>4, <1>5

\* One more in front of them.
LEMMA PushFacts ==
    ASSUME NEW S, NEW q \in Seq(S), NEW x \in S
    PROVE  /\ <<x>> \o q \in Seq(S) /\ <<x>> \o q # <<>>
           /\ 1 \in DOMAIN (<<x>> \o q) /\ (<<x>> \o q)[1] = x
           /\ \A i \in DOMAIN q : i + 1 \in DOMAIN (<<x>> \o q) /\ (<<x>> \o q)[i + 1] = q[i]
           /\ \A i \in DOMAIN (<<x>> \o q) :
                 i \in Nat /\ 0 < i /\ (i # 1 => i - 1 \in DOMAIN q /\ (<<x>> \o q)[i] = q[i - 1])
<1>1. PICK n \in Nat : n = Len(q) /\ DOMAIN q = 1 .. n BY LenProperties
<1>2. <<x>> \in Seq(S) /\ Len(<<x>>) = 1 /\ <<x>>[1] = x OBVIOUS
<1>3. PICK r : r = <<x>> \o q OBVIOUS
<1>4. /\ r \in Seq(S) /\ Len(r) = 1 + n
      /\ \A i \in 1 .. 1 + n : r[i] = IF i <= 1 THEN <<x>>[i] ELSE q[i - 1]
    BY <1>1, <1>2, <1>3, ConcatProperties
<1>5. DOMAIN r = 1 .. 1 + n BY <1>4, LenProperties
<1>6. \A i \in 1 .. n : i + 1 \in 1 .. 1 + n /\ ~(i + 1 <= 1) /\ (i + 1) - 1 = i BY <1>1
<1>7. \A i \in 1 .. 1 + n : i \in Nat /\ 0 < i /\ (i # 1 => i - 1 \in 1 .. n /\ ~(i <= 1)) BY <1>1
<1>8. 1 \in 1 .. 1 + n /\ 1 <= 1 BY <1>1
<1>9. r # <<>>
    <2>1. 1 + n # 0 BY <1>1
    <2> QED BY <1>4, <2>1, EmptySeq
<1>10. r[1] = x BY <1>2, <1>4, <1>8
<1>11. \A i \in DOMAIN q : i + 1 \in DOMAIN r /\ r[i + 1] = q[i] BY <1>1, <1>4, <1>5, <1>6
<1>12. \A i \in DOMAIN r : i \in Nat /\ 0 < i /\ (i # 1 => i - 1 \in DOMAIN q /\ r[i] = q[i - 1])
    BY <1>1, <1>4, <1>5, <1>7
<1> QED BY <1>3, <1>4, <1>5, <1>8, <1>9, <1>10, <1>11, <1>12

\* A set of natural numbers that is not empty has a least element.
LEMMA LeastElement ==
    ASSUME NEW S \in SUBSET Nat, S # {} PROVE \E m \in S : \A k \in S : m <= k
<1> DEFINE R == {ss \in Nat \X Nat : ss[1] < ss[2]}
<1>1. IsWellFoundedOn(R, Nat) BY NatLessThanWellFounded, Zenon DEF OpToRel
<1>2. PICK m \in S : \A k \in S : ~(<<k, m>> \in R)
    <2> HIDE DEF R
    <2> QED BY <1>1, WFMin
<1>3. \A k \in S : ~(k < m) BY <1>2
<1> QED BY <1>3

LEMMA EntriesAreNumbers == Len(Profile) \in Nat /\ \A e \in Entry : e \in Nat /\ 0 < e /\ e < Len(Profile) + 1
<1>1. Len(Profile) \in Nat BY PluginKernelAssumption, LenProperties
<1> QED BY <1>1 DEF Entry

LEMMA MinFacts ==
    ASSUME NEW S \in SUBSET Entry, S # {}
    PROVE  Min(S) \in S /\ \A e \in S : Min(S) <= e
<1>1. S \in SUBSET Nat BY EntriesAreNumbers
<1>2. \E m \in S : \A k \in S : m <= k BY <1>1, LeastElement
<1> QED BY <1>2 DEF Min

LEMMA MaxFacts ==
    ASSUME NEW S \in SUBSET Entry, S # {}
    PROVE  Max(S) \in S /\ \A e \in S : Max(S) >= e
<1>1. PICK n \in Nat : n = Len(Profile) BY EntriesAreNumbers
<1>2. \A e \in S : e \in Nat /\ n - e \in Nat BY <1>1 DEF Entry
<1> DEFINE below == {n - e : e \in S}
<1>3. below \in SUBSET Nat /\ below # {} BY <1>2
<1>4. PICK m \in below : \A k \in below : m <= k
    <2> HIDE DEF below
    <2> QED BY <1>3, LeastElement
<1>5. PICK e \in S : m = n - e BY <1>4
<1>6. \A c \in S : e >= c
    <2> SUFFICES ASSUME NEW c \in S PROVE e >= c OBVIOUS
    <2>1. m <= n - c BY <1>4
    <2> QED BY <1>1, <1>2, <1>5, <2>1
<1> QED BY <1>6 DEF Max
-----------------------------------------------------------------------------
(* Entries, one at a time.                                                 *)

LEMMA EntriesAreTyped ==
    ASSUME TypeOK
    PROVE  /\ entry \in [Entry -> EntryType] /\ services \in [Service -> Entry \cup {None}]
           /\ restarts \in [Entry -> Nat] /\ Retries \in Nat
BY PluginKernelAssumption DEF TypeOK, EntryType

\* What a change of one entry makes of all.
LEMMA OneEntryChanges ==
    ASSUME TypeOK, NEW e \in Entry, NEW x \in EntryType, entry' = [entry EXCEPT ![e] = x]
    PROVE  /\ entry' \in [Entry -> EntryType]
           /\ entry'[e] = x /\ \A c \in Entry \ {e} : entry'[c] = entry[c]
BY EntriesAreTyped

LEMMA FailedFacts ==
    ASSUME NEW x \in EntryType
    PROVE  /\ Failed(x) \in EntryType /\ Failed(x).state = "failed"
           /\ Failed(x).plugin = x.plugin /\ Failed(x).inst = x.inst
           /\ Failed(x).enabled = x.enabled
           /\ Failed(x).retry \/ Failed(x).attempts > Retries
           /\ \A n \in Nat : n <= x.attempts /\ n <= Retries => RetryIsCounted(Failed(x), n)
<1>1. Retries \in Nat /\ x.attempts \in 0 .. Retries + 1 BY PluginKernelAssumption DEF EntryType
<1>2. PICK a : a = IF x.attempts > Retries THEN x.attempts ELSE x.attempts + 1 OBVIOUS
<1>3. a \in 0 .. Retries + 1 /\ x.attempts <= a /\ (x.attempts < Retries => x.attempts < a)
    BY <1>1, <1>2
<1>4. PICK r \in BOOLEAN : r <=> x.attempts < Retries
    <2>1. CASE x.attempts < Retries BY <2>1
    <2>2. CASE ~(x.attempts < Retries) BY <2>2
    <2> QED BY <2>1, <2>2
<1>5. Failed(x) = [x EXCEPT !.state = "failed", !.attempts = a, !.retry = r]
    <2>1. CASE r
        <3>1. r = TRUE /\ (x.attempts < Retries) = TRUE BY <1>4, <2>1
        <3> QED BY <1>2, <3>1 DEF Failed
    <2>2. CASE ~r
        <3>1. r = FALSE /\ (x.attempts < Retries) = FALSE BY <1>4, <2>2
        <3> QED BY <1>2, <3>1 DEF Failed
    <2> QED BY <2>1, <2>2
<1>6. /\ Failed(x) \in EntryType /\ Failed(x).state = "failed"
      /\ Failed(x).plugin = x.plugin /\ Failed(x).inst = x.inst
      /\ Failed(x).enabled = x.enabled /\ Failed(x).attempts = a /\ Failed(x).retry = r
    BY <1>3, <1>5 DEF EntryType, State
<1>7. ASSUME NEW n \in Nat, n <= x.attempts, n <= Retries
      PROVE  n <= a /\ (r => n < a /\ n < Retries)
    BY <1>1, <1>3, <1>4, <1>7
<1>8. \A n \in Nat : n <= x.attempts /\ n <= Retries => RetryIsCounted(Failed(x), n)
    BY <1>6, <1>7 DEF RetryIsCounted
<1>9. r \/ a > Retries BY <1>1, <1>2, <1>4
<1> QED BY <1>6, <1>8, <1>9

LEMMA DisposedFacts ==
    ASSUME NEW x \in EntryType
    PROVE  /\ Disposed(x) \in EntryType /\ Disposed(x).state = "disposed"
           /\ Disposed(x).plugin = x.plugin /\ Disposed(x).inst = x.inst
           /\ ~Disposed(x).enabled /\ ~Disposed(x).retry
           /\ \A n \in Nat : RetryIsCounted(x, n) => RetryIsCounted(Disposed(x), n)
BY DEF Disposed, EntryType, State, RetryIsCounted

LEMMA GivenAnotherFacts ==
    ASSUME NEW x \in EntryType
    PROVE  /\ GivenAnother(x) \in EntryType /\ GivenAnother(x).state = "waiting"
           /\ GivenAnother(x).plugin = x.plugin /\ GivenAnother(x).inst = x.inst
           /\ RetryIsCounted(GivenAnother(x), 0)
<1>1. Retries \in Nat /\ 0 \in 0 .. Retries + 1 BY PluginKernelAssumption
<1>2. /\ GivenAnother(x) \in EntryType /\ GivenAnother(x).state = "waiting"
      /\ GivenAnother(x).plugin = x.plugin /\ GivenAnother(x).inst = x.inst
      /\ GivenAnother(x).attempts = 0 /\ ~GivenAnother(x).retry
    BY <1>1 DEF GivenAnother, EntryType, State
<1> QED BY <1>1, <1>2 DEF RetryIsCounted

\* Whom a pass does not load stays, or waits, fails or is disposed of.
LEMMA VisitedFacts ==
    ASSUME NEW x \in EntryType
    PROVE  /\ Visited(x) \in EntryType
           /\ Visited(x).plugin = x.plugin /\ Visited(x).inst = x.inst
           /\ Visited(x).enabled = x.enabled
           /\ \/ Visited(x) = x
              \/ /\ x.state \in {"waiting", "failed", "disposed"}
                 /\ Visited(x).state \in {"waiting", "failed", "disposed"}
           /\ \A n \in Nat : RetryIsCounted(x, n) => RetryIsCounted(Visited(x), n)
<1>1. Retries \in Nat BY PluginKernelAssumption
<1>2. CASE ~x.enabled
    <2>1. Disposed(x).enabled = x.enabled BY <1>2, DisposedFacts DEF EntryType
    <2> QED BY <1>2, <2>1, DisposedFacts DEF Visited
<1>3. CASE x.enabled
    <2>1. CASE x.state \notin {"disposed", "waiting"} BY <1>3, <2>1 DEF Visited
    <2>2. CASE x.state \in {"disposed", "waiting"} /\ x.misconfigured
        <3> DEFINE y == [x EXCEPT !.state = "failed", !.attempts = Retries]
        <3>0. Retries \in 0 .. Retries + 1 BY <1>1
        <3>1. Visited(x) = y BY <1>3, <2>2 DEF Visited
        <3>2. /\ y \in EntryType /\ y.plugin = x.plugin /\ y.inst = x.inst
              /\ y.enabled = x.enabled /\ y.state = "failed" /\ y.attempts = Retries
              /\ y.retry = x.retry
            BY <3>0 DEF EntryType, State
        <3>3. \A n \in Nat : RetryIsCounted(x, n) => RetryIsCounted(y, n)
            BY <1>1, <2>2, <3>2 DEF RetryIsCounted
        <3> HIDE DEF y
        <3> QED BY <2>2, <3>1, <3>2, <3>3
    <2>3. CASE x.state \in {"disposed", "waiting"} /\ ~x.misconfigured
        <3> DEFINE y == [x EXCEPT !.state = "waiting"]
        <3>1. Visited(x) = y BY <1>3, <2>3 DEF Visited
        <3>2. /\ y \in EntryType /\ y.plugin = x.plugin /\ y.inst = x.inst
              /\ y.enabled = x.enabled /\ y.state = "waiting" /\ y.attempts = x.attempts
              /\ y.retry = x.retry
            BY DEF EntryType, State
        <3>3. \A n \in Nat : RetryIsCounted(x, n) => RetryIsCounted(y, n)
            BY <2>3, <3>2 DEF RetryIsCounted
        <3> HIDE DEF y
        <3> QED BY <2>3, <3>1, <3>2, <3>3
    <2> QED BY <2>1, <2>2, <2>3
<1> QED BY <1>2, <1>3 DEF EntryType

\* The end of an unloading.
LEMMA UnloadedFacts ==
    ASSUME NEW x \in EntryType, NEW target \in {"waiting", "disposed", "failed"},
           NEW stable \in BOOLEAN, ~x.retry
    PROVE  /\ Unloaded(x, target, stable) \in EntryType
           /\ Unloaded(x, target, stable).state = target
           /\ Unloaded(x, target, stable).inst = None
           /\ Unloaded(x, target, stable).plugin = x.plugin
           /\ Unloaded(x, target, stable).enabled = x.enabled
           /\ target # "failed" => ~Unloaded(x, target, stable).retry
           /\ \A n \in Nat :
                 RetryIsCounted(x, n) =>
                    RetryIsCounted(Unloaded(x, target, stable), IF stable THEN 0 ELSE n)
<1>1. Retries \in Nat /\ 0 \in 0 .. Retries + 1 BY PluginKernelAssumption
<1> DEFINE y == [x EXCEPT !.inst = None, !.attempts = IF stable THEN 0 ELSE @]
<1>2. /\ y \in EntryType /\ y.inst = None /\ y.plugin = x.plugin /\ y.enabled = x.enabled
      /\ ~y.retry /\ y.attempts = IF stable THEN 0 ELSE x.attempts
    <2>1. CASE stable BY <1>1, <2>1 DEF EntryType
    <2>2. CASE ~stable BY <1>1, <2>2 DEF EntryType
    <2> QED BY <2>1, <2>2
<1> HIDE DEF y
<1>5. \A n \in Nat : RetryIsCounted(x, n) => RetryIsCounted(y, IF stable THEN 0 ELSE n)
    BY <1>1, <1>2 DEF RetryIsCounted
<1>3. CASE target = "failed"
    <2>1. Unloaded(x, target, stable) = Failed(y) BY <1>3 DEF Unloaded, y
    <2>2. ASSUME NEW n \in Nat, RetryIsCounted(x, n)
          PROVE  RetryIsCounted(Failed(y), IF stable THEN 0 ELSE n)
        <3>1. PICK m \in Nat : m = IF stable THEN 0 ELSE n OBVIOUS
        <3>2. RetryIsCounted(y, m) BY <1>5, <2>2, <3>1
        <3>3. RetryIsCounted(Failed(y), m) BY <1>2, <3>2, FailedFacts DEF RetryIsCounted
        <3> QED BY <3>1, <3>3
    <2> QED BY <1>2, <1>3, <2>1, <2>2, FailedFacts
<1>4. CASE target # "failed"
    <2>1. Unloaded(x, target, stable) = [y EXCEPT !.state = target] BY <1>4 DEF Unloaded, y
    <2>2. /\ [y EXCEPT !.state = target] \in EntryType
          /\ [y EXCEPT !.state = target].state = target
          /\ [y EXCEPT !.state = target].inst = None
          /\ [y EXCEPT !.state = target].plugin = x.plugin
          /\ [y EXCEPT !.state = target].enabled = x.enabled
          /\ ~[y EXCEPT !.state = target].retry
          /\ \A n \in Nat : RetryIsCounted(y, n) => RetryIsCounted([y EXCEPT !.state = target], n)
        BY <1>2 DEF EntryType, State, RetryIsCounted
    <2> QED BY <1>2, <1>5, <2>1, <2>2
<1> QED BY <1>3, <1>4

LEMMA FreshFacts ==
    ASSUME NEW lost \in BOOLEAN
    PROVE  Fresh(lost) \in Instance /\ Fresh(lost) # None /\ ~Fresh(lost).closed
<1>1. Fresh(lost) \in Instance /\ ~Fresh(lost).closed BY DEF Fresh, Instance
<1> QED BY <1>1, NoneAssumption
-----------------------------------------------------------------------------
(* The job, the loop and the queue.                                        *)

LEMMA JobFacts ==
    ASSUME TypeOK
    PROVE  /\ job.kind \in {"idle", "pass", "replace", "shutdown"}
           /\ job.kind = "pass" =>
                 /\ job \in [kind : {"pass"}, phase : {"stop", "load", "loading"}, at : Nat,
                             lost : BOOLEAN]
                 /\ job.phase \in {"stop", "load", "loading"} /\ job.at \in Nat
                 /\ job.lost \in BOOLEAN
           /\ job.kind = "replace" =>
                 /\ job \in [kind : {"replace"}, entry : Entry, plugin : Plugin,
                             phase : {"activating", "swap"}, lost : BOOLEAN]
                 /\ job.entry \in Entry /\ job.plugin \in Plugin
                 /\ job.phase \in {"activating", "swap"} /\ job.lost \in BOOLEAN
           /\ job.kind = "shutdown" =>
                 job \in [kind : {"shutdown"}, at : Nat] /\ job.at \in Nat
           /\ job.kind = "idle" => job = NoJob
           /\ NoJob \in Job /\ NoJob.kind = "idle"
BY DEF TypeOK, Job, NoJob

LEMMA RequestFacts ==
    ASSUME TypeOK
    PROVE  /\ queue \in Seq(Request) /\ [kind |-> "pass"] \in Request
           /\ \A i \in DOMAIN queue :
                 /\ queue[i].kind \in {"pass", "replace"}
                 /\ ~IsPass(i) => queue[i].entry \in Entry /\ queue[i].plugin \in Plugin
<1>1. queue \in Seq(Request) BY DEF TypeOK
<1>2. \A r \in Request :
         /\ r.kind \in {"pass", "replace"}
         /\ r.kind # "pass" => r.entry \in Entry /\ r.plugin \in Plugin
    BY DEF Request
<1> QED BY <1>1, <1>2, Indices DEF Request, IsPass

\* A request keeps one pass wanted, and leaves nothing to be said of what is left.
LEMMA RequestKeeps ==
    ASSUME TypeOK, LoopIsTrue, RequestReconcile, UNCHANGED closing, job' = job \/ job' = NoJob
    PROVE  /\ loop' \in BOOLEAN /\ dirty' \in BOOLEAN /\ queue' \in Seq(Request)
           /\ LoopIsTrue' /\ NothingIsLeft'
           /\ loop'
           /\ OnlyVersionsRun => \A i \in DOMAIN queue' :
                 queue'[i].kind = "replace" => queue'[i].plugin \in VersionsOf(queue'[i].entry)
<1>0. /\ job'.kind = "pass" => job.kind = "pass"
      /\ \A phase : PassIn(phase)' => PassIn(phase)
    BY DEF NoJob, PassIn
<1>1. queue \in Seq(Request) /\ loop \in BOOLEAN /\ dirty \in BOOLEAN BY DEF TypeOK
<1>2. CASE loop
    <2>1. dirty' /\ dirty' \in BOOLEAN /\ loop' = loop /\ queue' = queue
        BY <1>2 DEF RequestReconcile
    <2>2. LoopIsTrue' BY <1>0, <1>2, <2>1 DEF LoopIsTrue, IsPass
    <2>3. NothingIsLeft' BY <1>2, <2>1 DEF NothingIsLeft
    <2> QED BY <1>1, <1>2, <2>1, <2>2, <2>3 DEF OnlyVersionsRun, VersionsOf
<1>3. CASE ~loop
    <2>1. loop' /\ dirty' = FALSE /\ queue' = Append(queue, [kind |-> "pass"])
        BY <1>3 DEF RequestReconcile
    <2>2. /\ queue' \in Seq(Request)
          /\ \A i \in DOMAIN queue' :
                (i \in DOMAIN queue /\ queue'[i] = queue[i])
                  \/ (i = Len(queue) + 1 /\ queue'[i] = [kind |-> "pass"])
        BY <1>1, <2>1, AppendFacts, RequestFacts
    <2>3. job.kind # "pass" /\ \A i \in DOMAIN queue : ~IsPass(i) BY <1>3 DEF LoopIsTrue
    <2>4. \A i \in DOMAIN queue' : queue'[i].kind = "pass" => i = Len(queue) + 1
        BY <2>2, <2>3 DEF IsPass
    <2>5. [kind |-> "pass"].kind # "replace" OBVIOUS
    <2>6. LoopIsTrue' BY <1>0, <2>1, <2>3, <2>4 DEF LoopIsTrue, PassIn, IsPass
    <2>7. NothingIsLeft' BY <1>0, <2>1, <2>3 DEF NothingIsLeft, PassIn
    <2>8. OnlyVersionsRun => \A i \in DOMAIN queue' :
             queue'[i].kind = "replace" => queue'[i].plugin \in VersionsOf(queue'[i].entry)
        BY <2>2, <2>5 DEF OnlyVersionsRun, VersionsOf
    <2> QED BY <2>1, <2>2, <2>3, <2>6, <2>7, <2>8
<1> QED BY <1>1, <1>2, <1>3
-----------------------------------------------------------------------------
(* Instances and their services, when none comes and none goes.            *)

\* Instances stay what they are in what their unloading depends on.
NobodyComesOrGoes ==
    \A c \in Entry :
        /\ Has(c)' <=> Has(c)
        /\ entry'[c].state # entry[c].state => ~Has(c)
        /\ Has(c) => /\ entry'[c].plugin = entry[c].plugin
                     /\ entry'[c].inst.closed = entry[c].inst.closed
                     /\ entry'[c].inst.revoked = entry[c].inst.revoked
                     /\ entry'[c].inst.forced = entry[c].inst.forced
        /\ ~Has(c) => entry'[c].state \notin {"active", "quiescing", "unloading"}

LEMMA FrameFacts ==
    ASSUME TypeOK
    PROVE  /\ DOMAIN stack \subseteq Nat
           /\ \A i \in DOMAIN stack :
                 /\ stack[i] \in Frame /\ stack[i].entry \in Entry /\ 0 < i
                 /\ stack[i].target \in {"waiting", "disposed", "failed"}
                 /\ stack[i].step \in {"consumers", "revoke", "quiesce", "dispose", "disposers"}
           /\ stack # <<>> => Head(stack) = stack[1] /\ 1 \in DOMAIN stack
<1>1. stack \in Seq(Frame) BY DEF TypeOK
<1>2. \A f \in Frame : /\ f.entry \in Entry /\ f.target \in {"waiting", "disposed", "failed"}
                       /\ f.step \in {"consumers", "revoke", "quiesce", "dispose", "disposers"}
    BY DEF Frame
<1> QED BY <1>1, <1>2, Indices, TailFacts

LEMMA QuietKeeps ==
    ASSUME IInv, NobodyComesOrGoes, UNCHANGED <<services, stack>>
    PROVE  InstancesAreHeld' /\ RegistryIsHeld' /\ FramesAreTrue' /\ LeavingAreOnStack'
<1>0. TypeOK /\ InstancesAreHeld /\ RegistryIsHeld /\ FramesAreTrue /\ LeavingAreOnStack
    BY DEF IInv
<1>1. \A c \in Entry : ProvidedBy(c)' = ProvidedBy(c) BY DEF ProvidedBy
<1>2. \A c \in Entry :
         entry'[c].state \in {"active", "quiescing", "unloading"} => entry'[c].state = entry[c].state
    BY <1>0 DEF NobodyComesOrGoes, InstancesAreHeld
<1>3. InstancesAreHeld' BY <1>0, <1>2 DEF NobodyComesOrGoes, InstancesAreHeld, Has
<1>4. RegistryIsHeld'
    <2> SUFFICES ASSUME NEW c \in Entry
                 PROVE  /\ ProvidedBy(c) \subseteq Provides[entry'[c].plugin]
                        /\ ~Has(c)' => ProvidedBy(c) = {}
                        /\ entry'[c].state \in {"active", "quiescing"} =>
                              ProvidedBy(c) = Provides[entry'[c].plugin]
        BY <1>1 DEF RegistryIsHeld
    <2>1. CASE Has(c) BY <1>0, <1>2, <2>1 DEF NobodyComesOrGoes, RegistryIsHeld
    <2>2. CASE ~Has(c) BY <1>0, <2>2 DEF NobodyComesOrGoes, RegistryIsHeld
    <2> QED BY <2>1, <2>2
<1>5. \A c \in Entry : Consumers(c)' = Consumers(c)
    <2> SUFFICES ASSUME NEW c \in Entry, NEW d \in Entry
                 PROVE  (entry'[d].state = "active" /\ Needs[entry'[d].plugin] \cap ProvidedBy(c) # {})
                          <=> (entry[d].state = "active" /\ Needs[entry[d].plugin] \cap ProvidedBy(c) # {})
        BY <1>1 DEF Consumers
    <2> QED BY <1>0, <1>2 DEF NobodyComesOrGoes, InstancesAreHeld
<1>6. \A i \in DOMAIN stack : stack[i].entry \in Entry /\ Has(stack[i].entry)
    <2>1. \A i \in DOMAIN stack : stack[i].entry \in Entry BY <1>0, FrameFacts
    <2>2. \A i \in DOMAIN stack : entry[stack[i].entry].state \in {"quiescing", "unloading"}
        BY <1>0, FrameFacts DEF FramesAreTrue
    <2> QED BY <1>0, <2>1, <2>2 DEF InstancesAreHeld
<1>7. FramesAreTrue'
    <2> SUFFICES ASSUME NEW i \in DOMAIN stack
                 PROVE  LET e == stack[i].entry  step == stack[i].step IN
                    /\ i # 1 => step = "consumers"
                    /\ step \in {"consumers", "revoke", "quiesce"} => entry'[e].state = "quiescing"
                    /\ step \in {"dispose", "disposers"} => entry'[e].state = "unloading"
                    /\ step \in {"quiesce", "dispose", "disposers"} =>
                          entry'[e].inst.revoked \/ entry'[e].inst.forced
                    /\ step \in {"revoke", "quiesce", "dispose"} => Consumers(e)' = {}
                    /\ step = "disposers" => ProvidedBy(e)' = {}
        BY DEF FramesAreTrue
    <2>1. PICK e \in Entry : e = stack[i].entry /\ Has(e) BY <1>6
    <2>2. /\ entry'[e].state = entry[e].state
          /\ entry'[e].inst.revoked = entry[e].inst.revoked
          /\ entry'[e].inst.forced = entry[e].inst.forced
        BY <2>1 DEF NobodyComesOrGoes
    <2> QED BY <1>0, <1>1, <1>5, <2>1, <2>2 DEF FramesAreTrue
<1>8. LeavingAreOnStack' BY <1>0, <1>2 DEF LeavingAreOnStack, OnStack
<1> QED BY <1>3, <1>4, <1>7, <1>8
-----------------------------------------------------------------------------
(* Steps in which no entry changes.                                        *)

LEMMA SameEntriesKeep ==
    ASSUME IInv, UNCHANGED <<entry, services, stack, restarts>>
    PROVE  /\ InstancesAreHeld' /\ RegistryIsHeld' /\ FramesAreTrue' /\ LeavingAreOnStack'
           /\ RetriesAreCounted'
           /\ \A e \in Entry : /\ ShouldStop(entry[e])' <=> ShouldStop(entry[e])
                               /\ Fixed(entry[e])' <=> Fixed(entry[e])
<1>1. NobodyComesOrGoes BY DEF NobodyComesOrGoes, IInv, InstancesAreHeld, Has
<1>2. RetriesAreCounted' BY DEF IInv, RetriesAreCounted
<1>3. \A e \in Entry : /\ ShouldStop(entry[e])' <=> ShouldStop(entry[e])
                       /\ Fixed(entry[e])' <=> Fixed(entry[e])
    BY DEF ShouldStop, Fixed, ShouldLoad, Supplied, Registered
<1> QED BY <1>1, <1>2, <1>3, QuietKeeps

\* Between jobs there is no unloading and nothing is being loaded.
LEMMA NoJobFacts ==
    ASSUME IInv, job = NoJob \/ ReplaceIn("activating")
    PROVE  /\ stack = <<>>
           /\ \A e \in Entry : entry[e].state \in {"waiting", "active", "disposed", "failed"}
<1>1. /\ ~PassIn("stop") /\ ~PassIn("loading") /\ ~ReplaceIn("swap") /\ job.kind # "shutdown"
    BY DEF NoJob, PassIn, ReplaceIn
<1>2. stack = <<>> BY <1>1 DEF IInv, JobIsTrue
<1>3. \A e \in Entry : ~OnStack(e) BY <1>2 DEF OnStack
<1>4. \A e \in Entry : entry[e].state \in State BY DEF IInv, TypeOK
<1> QED BY <1>1, <1>2, <1>3, <1>4 DEF IInv, JobIsTrue, LeavingAreOnStack, State

LEMMA CloseKeeps == ASSUME IInv, Close PROVE IInv'
<1>1. /\ closing' = "closed" /\ closing = "no"
      /\ UNCHANGED <<entry, services, stack, restarts, job, loop, dirty, queue, switches, repairs, faults>>
    BY DEF Close, NoRequest, bounds
<1>2. TypeOK' BY <1>1 DEF IInv, TypeOK
<1>3. JobIsTrue' BY <1>1 DEF IInv, JobIsTrue, PassIn, ReplaceIn, Target
<1>4. LoopIsTrue' BY <1>1 DEF IInv, LoopIsTrue, PassIn, IsPass
<1>5. NothingIsLeft' BY <1>1 DEF NothingIsLeft
<1> QED BY <1>1, <1>2, <1>3, <1>4, <1>5, SameEntriesKeep DEF IInv

LEMMA ReplaceKeeps ==
    ASSUME IInv, NEW e \in Entry, NEW d \in Versions[e], Replace(e, d) PROVE IInv'
<1> DEFINE r == [kind |-> "replace", entry |-> e, plugin |-> d]
<1>1. /\ queue' = Append(queue, r) /\ repairs' = repairs + 1 /\ repairs < MaxRepairs
      /\ UNCHANGED <<entry, services, stack, restarts, job, loop, dirty, closing, switches, faults>>
    BY DEF Replace, Repair
<1>2. r \in Request /\ r.kind = "replace"
    BY PluginKernelAssumption DEF Request, Entry
<1>3. queue \in Seq(Request) /\ repairs \in 0 .. MaxRepairs /\ MaxRepairs \in Nat
    BY PluginKernelAssumption DEF IInv, TypeOK
<1> HIDE DEF r
<1>4. /\ queue' \in Seq(Request)
      /\ \A i \in DOMAIN queue' : (i \in DOMAIN queue /\ queue'[i] = queue[i]) \/ queue'[i] = r
    BY <1>1, <1>2, <1>3, AppendFacts
<1>5. repairs' \in 0 .. MaxRepairs BY <1>1, <1>3
<1>6. TypeOK' BY <1>1, <1>4, <1>5 DEF IInv, TypeOK
<1>7. JobIsTrue' BY <1>1 DEF IInv, JobIsTrue, PassIn, ReplaceIn, Target
<1>8. \A i \in DOMAIN queue' : IsPass(i)' => i \in DOMAIN queue /\ IsPass(i)
    BY <1>2, <1>4 DEF IsPass
<1>9. LoopIsTrue' BY <1>1, <1>8 DEF IInv, LoopIsTrue, PassIn
<1>10. NothingIsLeft' BY <1>1, SameEntriesKeep DEF IInv, NothingIsLeft, PassIn, ReplaceIn
<1> QED BY <1>1, <1>6, <1>7, <1>9, <1>10, SameEntriesKeep DEF IInv

LEMMA ReportUnheardKeeps == ASSUME IInv, ReportUnheard PROVE IInv'
<1>1. /\ job' = [job EXCEPT !.lost = TRUE] /\ faults < MaxFaults /\ faults' = faults + 1
      /\ PassIn("loading") \/ job.kind = "replace"
      /\ UNCHANGED <<entry, services, stack, restarts, loop, dirty, queue, closing, switches, repairs>>
    BY DEF ReportUnheard, NoRequest, InPass, PassIn
<1>2. TypeOK BY DEF IInv
<1>3. /\ job' \in Job /\ job'.kind = job.kind /\ job'.phase = job.phase /\ job' # NoJob
      /\ job.kind = "pass" => job'.at = job.at
      /\ job.kind = "replace" => job'.entry = job.entry /\ job'.plugin = job.plugin
    <2>1. CASE job.kind = "pass" BY <1>1, <1>2, <2>1, JobFacts DEF Job, NoJob
    <2>2. CASE job.kind = "replace" BY <1>1, <1>2, <2>2, JobFacts DEF Job, NoJob
    <2> QED BY <1>1, <2>1, <2>2 DEF PassIn
<1>4. faults' \in 0 .. MaxFaults BY <1>1, <1>2, PluginKernelAssumption DEF TypeOK
<1>5. TypeOK' BY <1>1, <1>2, <1>3, <1>4 DEF TypeOK
<1>6. job.kind # "shutdown" /\ job # NoJob BY <1>1 DEF PassIn, NoJob
<1>7. JobIsTrue' BY <1>1, <1>3, <1>6 DEF IInv, JobIsTrue, PassIn, ReplaceIn, Target
<1>8. LoopIsTrue' BY <1>1, <1>3 DEF IInv, LoopIsTrue, PassIn, IsPass
<1>9. NothingIsLeft' BY <1>1, <1>3, SameEntriesKeep DEF IInv, NothingIsLeft, PassIn, ReplaceIn
<1> QED BY <1>1, <1>5, <1>7, <1>8, <1>9, SameEntriesKeep DEF IInv

\* The queue without its first request.
LEMMA DequeueFacts ==
    ASSUME IInv, queue # <<>>
    PROVE  /\ Tail(queue) \in Seq(Request) /\ 1 \in DOMAIN queue /\ Head(queue) = queue[1]
           /\ \A i \in DOMAIN Tail(queue) : i + 1 \in DOMAIN queue /\ Tail(queue)[i] = queue[i + 1]
           /\ \A i, j \in DOMAIN Tail(queue) :
                 Tail(queue)[i].kind = "pass" /\ Tail(queue)[j].kind = "pass" => i = j
           /\ ~loop => \A i \in DOMAIN Tail(queue) : Tail(queue)[i].kind # "pass"
           /\ IsPass(1) => loop /\ \A i \in DOMAIN Tail(queue) : Tail(queue)[i].kind # "pass"
<1>1. queue \in Seq(Request) BY DEF IInv, TypeOK
<1>2. /\ Tail(queue) \in Seq(Request) /\ Head(queue) = queue[1] /\ 1 \in DOMAIN queue
      /\ \A i \in DOMAIN Tail(queue) :
            i \in Nat /\ 0 < i /\ i + 1 \in DOMAIN queue /\ Tail(queue)[i] = queue[i + 1]
    BY <1>1, TailFacts
<1>3. \A i, j \in DOMAIN Tail(queue) :
         Tail(queue)[i].kind = "pass" /\ Tail(queue)[j].kind = "pass" => i = j
    <2> SUFFICES ASSUME NEW i \in DOMAIN Tail(queue), NEW j \in DOMAIN Tail(queue),
                        Tail(queue)[i].kind = "pass", Tail(queue)[j].kind = "pass"
                 PROVE  i = j
        OBVIOUS
    <2>1. i + 1 = j + 1 BY <1>2 DEF IInv, LoopIsTrue, IsPass
    <2> QED BY <1>2, <2>1
<1>4. ~loop => \A i \in DOMAIN Tail(queue) : Tail(queue)[i].kind # "pass"
    BY <1>2 DEF IInv, LoopIsTrue, IsPass
<1>5. ASSUME IsPass(1) PROVE loop /\ \A i \in DOMAIN Tail(queue) : Tail(queue)[i].kind # "pass"
    <2>1. loop BY <1>2, <1>5 DEF IInv, LoopIsTrue
    <2>2. \A i \in DOMAIN Tail(queue) : i + 1 # 1 BY <1>2
    <2> QED BY <1>2, <1>5, <2>1, <2>2 DEF IInv, LoopIsTrue, IsPass
<1> QED BY <1>2, <1>3, <1>4, <1>5

LEMMA StartPassKeeps == ASSUME IInv, StartPass PROVE IInv'
<1>1. /\ job = NoJob /\ queue # <<>> /\ Head(queue).kind = "pass" /\ closing = "no"
      /\ job' = [kind |-> "pass", phase |-> "stop", at |-> Len(Profile) + 1, lost |-> FALSE]
      /\ queue' = Tail(queue)
      /\ UNCHANGED <<entry, services, stack, loop, dirty, closing, restarts, switches, repairs, faults>>
    BY DEF StartPass, bounds
<1>2. /\ queue' \in Seq(Request) /\ loop /\ \A i \in DOMAIN queue' : ~IsPass(i)'
    BY <1>1, DequeueFacts DEF IsPass
<1>3. Len(Profile) + 1 \in Nat /\ \A e \in Entry : ~(e >= Len(Profile) + 1)
    BY EntriesAreNumbers
<1>4. job' \in Job /\ job'.kind = "pass" /\ job'.phase = "stop" /\ job'.at = Len(Profile) + 1
    BY <1>1, <1>3 DEF Job
<1>5. TypeOK' BY <1>1, <1>2, <1>4 DEF IInv, TypeOK
<1>6. JobIsTrue'
    BY <1>1, <1>4, NoJobFacts DEF JobIsTrue, PassIn, ReplaceIn
<1>7. LoopIsTrue' BY <1>1, <1>2, <1>4 DEF LoopIsTrue, PassIn
<1>8. NothingIsLeft' BY <1>1, <1>2, <1>3, <1>4 DEF NothingIsLeft, PassIn
<1> QED BY <1>1, <1>5, <1>6, <1>7, <1>8, SameEntriesKeep DEF IInv

LEMMA SkipPassKeeps == ASSUME IInv, SkipPass PROVE IInv'
<1>1. /\ job = NoJob /\ queue # <<>> /\ Head(queue).kind = "pass" /\ closing # "no"
      /\ UNCHANGED <<entry, services, job, stack, closing, restarts, switches, repairs, faults>>
    BY DEF SkipPass, bounds
<1>2. /\ Tail(queue) \in Seq(Request) /\ loop
      /\ \A i \in DOMAIN Tail(queue) : Tail(queue)[i].kind # "pass"
    BY <1>1, DequeueFacts DEF IsPass
<1>3. /\ queue' \in Seq(Request) /\ loop' \in BOOLEAN /\ dirty' \in BOOLEAN
      /\ \A i, j \in DOMAIN queue' : IsPass(i)' /\ IsPass(j)' => i = j
      /\ ~loop' => \A i \in DOMAIN queue' : ~IsPass(i)'
    <2>1. CASE dirty
        <3>1. queue' = Append(Tail(queue), [kind |-> "pass"]) /\ dirty' = FALSE /\ loop' = loop
            BY <2>1 DEF SkipPass
        <3>2. [kind |-> "pass"] \in Request BY DEF Request
        <3>3. /\ queue' \in Seq(Request)
              /\ \A i \in DOMAIN queue' :
                    (i \in DOMAIN Tail(queue) /\ queue'[i] = Tail(queue)[i])
                      \/ i = Len(Tail(queue)) + 1
            BY <1>2, <3>1, <3>2, AppendFacts
        <3> QED BY <1>2, <3>1, <3>3 DEF IsPass, IInv, TypeOK
    <2>2. CASE ~dirty
        <3>1. queue' = Tail(queue) /\ loop' = FALSE /\ dirty' = dirty BY <2>2 DEF SkipPass
        <3> QED BY <1>2, <3>1 DEF IsPass, IInv, TypeOK
    <2> QED BY <2>1, <2>2
<1>4. TypeOK' BY <1>1, <1>3 DEF IInv, TypeOK
<1>5. JobIsTrue' BY <1>1 DEF IInv, JobIsTrue, PassIn, ReplaceIn, Target
<1>6. LoopIsTrue' BY <1>1, <1>3 DEF LoopIsTrue, PassIn, NoJob
<1>7. NothingIsLeft' BY <1>1 DEF NothingIsLeft
<1> QED BY <1>1, <1>4, <1>5, <1>6, <1>7, SameEntriesKeep DEF IInv

LEMMA StartReplaceKeeps == ASSUME IInv, StartReplace PROVE IInv'
<1>1. PICK e, d : e = Head(queue).entry /\ d = Head(queue).plugin OBVIOUS
<1>2. /\ job = NoJob /\ queue # <<>> /\ Head(queue).kind = "replace"
      /\ closing = "no" => entry[e].state = "active"
      /\ job' = IF closing = "no" /\ Supplied(d)
                THEN [kind |-> "replace", entry |-> e, plugin |-> d, phase |-> "activating",
                      lost |-> FALSE]
                ELSE NoJob
      /\ queue' = Tail(queue)
      /\ UNCHANGED <<entry, services, stack, loop, dirty, closing, restarts, switches, repairs, faults>>
    BY <1>1 DEF StartReplace, bounds
<1>3. /\ Tail(queue) \in Seq(Request) /\ Head(queue) = queue[1] /\ 1 \in DOMAIN queue
      /\ \A i, j \in DOMAIN queue' : IsPass(i)' /\ IsPass(j)' => i = j
      /\ ~loop => \A i \in DOMAIN queue' : ~IsPass(i)'
    BY <1>2, DequeueFacts DEF IsPass
<1>4. e \in Entry /\ d \in Plugin BY <1>1, <1>2, <1>3, RequestFacts DEF IInv, IsPass
<1>5. \/ job' = NoJob
      \/ /\ job' \in Job /\ job'.kind = "replace" /\ job'.entry = e /\ job'.phase = "activating"
         /\ closing = "no"
    BY <1>2, <1>4 DEF Job
<1>6. NoJob \in Job /\ NoJob.kind = "idle" BY JobFacts DEF IInv
<1>7. TypeOK' BY <1>2, <1>3, <1>5, <1>6 DEF IInv, TypeOK
<1>8. JobIsTrue'
    BY <1>2, <1>5, <1>6, NoJobFacts DEF IInv, JobIsTrue, PassIn, ReplaceIn, Target
<1>9. LoopIsTrue' BY <1>2, <1>3, <1>5, <1>6 DEF LoopIsTrue, PassIn
<1>10. NothingIsLeft'
    BY <1>2, <1>5, <1>6, SameEntriesKeep DEF IInv, NothingIsLeft, PassIn, ReplaceIn
<1> QED BY <1>2, <1>7, <1>8, <1>9, <1>10, SameEntriesKeep DEF IInv

LEMMA ReplaceFailsKeeps == ASSUME IInv, ReplaceFails PROVE IInv'
<1>1. /\ ReplaceIn("activating") /\ job' = NoJob /\ faults < MaxFaults /\ faults' = faults + 1
      /\ UNCHANGED <<entry, services, stack, loop, dirty, queue, closing, restarts, switches, repairs>>
    BY DEF ReplaceFails, InReplace, ReplaceIn, NoRequest
<1>2. NoJob \in Job /\ NoJob.kind = "idle" BY JobFacts DEF IInv
<1>3. faults' \in 0 .. MaxFaults BY <1>1, PluginKernelAssumption DEF IInv, TypeOK
<1>4. TypeOK' BY <1>1, <1>2, <1>3 DEF IInv, TypeOK
<1>5. JobIsTrue' BY <1>1, <1>2, NoJobFacts DEF IInv, JobIsTrue, PassIn, ReplaceIn, NoJob
<1>6. LoopIsTrue' BY <1>1, <1>2 DEF IInv, LoopIsTrue, PassIn, IsPass
<1>7. NothingIsLeft'
    BY <1>1, <1>2, SameEntriesKeep DEF IInv, NothingIsLeft, PassIn, ReplaceIn
<1> QED BY <1>1, <1>4, <1>5, <1>6, <1>7, SameEntriesKeep DEF IInv

LEMMA StartShutdownKeeps == ASSUME IInv, StartShutdown PROVE IInv'
<1>1. /\ closing = "closed" /\ job = NoJob /\ ~loop /\ queue = <<>>
      /\ job' = [kind |-> "shutdown", at |-> Len(Profile) + 1]
      /\ UNCHANGED <<entry, services, stack, loop, dirty, queue, closing, restarts, switches,
                     repairs, faults>>
    BY DEF StartShutdown, Settled, NoRequest, bounds
<1>2. Len(Profile) + 1 \in Nat /\ \A e \in Entry : ~(e >= Len(Profile) + 1)
    BY EntriesAreNumbers
<1>3. job' \in Job /\ job'.kind = "shutdown" /\ job'.at = Len(Profile) + 1
    BY <1>1, <1>2 DEF Job
<1>4. TypeOK' BY <1>1, <1>3 DEF IInv, TypeOK
<1>5. JobIsTrue' BY <1>1, <1>2, <1>3, NoJobFacts DEF JobIsTrue, PassIn, ReplaceIn
<1>6. LoopIsTrue' BY <1>1, <1>3 DEF IInv, LoopIsTrue, PassIn, IsPass
<1>7. NothingIsLeft' BY <1>1 DEF NothingIsLeft
<1> QED BY <1>1, <1>4, <1>5, <1>6, <1>7, SameEntriesKeep DEF IInv
-----------------------------------------------------------------------------
(* Calls, timers and reports: one entry changes, and no instance.          *)

\* x is the entry e as a call, a timer or a report leaves it.
Marked(e, x) ==
    /\ x \in EntryType
    /\ x.plugin = entry[e].plugin
    /\ x.state = entry[e].state \/ (entry[e].state = "failed" /\ x.state = "waiting")
    /\ x.inst # None <=> Has(e)
    /\ Has(e) => /\ x.inst.closed = entry[e].inst.closed
                 /\ x.inst.revoked = entry[e].inst.revoked
                 /\ x.inst.forced = entry[e].inst.forced
    /\ x.retry => entry[e].retry
    /\ x.enabled = entry[e].enabled \/ closing = "no"
    /\ x.state = entry[e].state \/ closing # "done"

LEMMA MarkedKeeps ==
    ASSUME IInv, NEW e \in Entry, NEW x, Marked(e, x), entry' = [entry EXCEPT ![e] = x],
           RetryIsCounted(x, restarts'[e]), \A c \in Entry \ {e} : restarts'[c] = restarts[c],
           UNCHANGED <<services, stack, job, closing>>
    PROVE  /\ entry' \in [Entry -> EntryType]
           /\ InstancesAreHeld' /\ RetriesAreCounted' /\ RegistryIsHeld' /\ FramesAreTrue'
           /\ LeavingAreOnStack' /\ JobIsTrue'
<1>1. /\ entry' \in [Entry -> EntryType]
      /\ entry'[e] = x /\ \A c \in Entry \ {e} : entry'[c] = entry[c]
    BY OneEntryChanges DEF Marked, IInv
<1>2. NobodyComesOrGoes
    BY <1>1 DEF NobodyComesOrGoes, Marked, IInv, InstancesAreHeld, Has
<1>3. RetriesAreCounted' BY <1>1 DEF IInv, RetriesAreCounted
<1>4. \A c \in Entry :
         /\ entry'[c].state = entry[c].state
              \/ (entry[c].state = "failed" /\ entry'[c].state = "waiting" /\ closing # "done")
         /\ entry'[c].retry => entry[c].retry
         /\ entry'[c].enabled = entry[c].enabled \/ closing = "no"
    BY <1>1 DEF Marked
<1>5. JobIsTrue'
    <2>1. \A c \in Entry : entry'[c].state = "loading" <=> entry[c].state = "loading" BY <1>4
    <2>2. ReplaceIn("activating") => entry'[job.entry].state = "active"
        BY <1>4, JobFacts DEF IInv, JobIsTrue, ReplaceIn
    <2>3. ReplaceIn("swap") => entry'[job.entry].state \in {"quiescing", "unloading", "waiting"}
        BY <1>4, JobFacts DEF IInv, JobIsTrue, ReplaceIn
    <2>4. job.kind = "shutdown" => \A c \in Entry : c >= job.at =>
             /\ ~entry'[c].enabled /\ ~entry'[c].retry
             /\ entry'[c].state \in {"quiescing", "unloading", "disposed"}
        BY <1>4 DEF IInv, JobIsTrue
    <2>5. closing = "done" => \A c \in Entry : entry'[c].state = "disposed" /\ ~entry'[c].retry
        BY <1>4 DEF IInv, JobIsTrue
    <2> QED BY <2>1, <2>2, <2>3, <2>4, <2>5 DEF IInv, JobIsTrue, PassIn, ReplaceIn, Target
<1> QED BY <1>1, <1>2, <1>3, <1>5, QuietKeeps

\* What counts and what the clock adds is typed.
LEMMA BoundsKeep ==
    ASSUME TypeOK
    PROVE  /\ switches < MaxSwitches => switches + 1 \in 0 .. MaxSwitches
           /\ repairs < MaxRepairs => repairs + 1 \in 0 .. MaxRepairs
           /\ faults < MaxFaults => faults + 1 \in 0 .. MaxFaults
BY PluginKernelAssumption DEF TypeOK

LEMMA EntryFacts ==
    ASSUME IInv, NEW e \in Entry
    PROVE  /\ entry[e] \in EntryType /\ restarts[e] \in Nat
           /\ RetryIsCounted(entry[e], restarts[e])
           /\ entry[e].inst \in Instance \cup {None}
           /\ Has(e) => entry[e].inst \in Instance
BY EntriesAreTyped DEF IInv, RetriesAreCounted, EntryType, Has

LEMMA SwitchKeeps ==
    ASSUME IInv, NEW e \in Entry, Enable(e) \/ Disable(e) PROVE IInv'
<1>1. PICK on \in BOOLEAN : entry' = [entry EXCEPT ![e].enabled = on]
    BY DEF Enable, Disable
<1>2. /\ closing = "no" /\ switches < MaxSwitches /\ switches' = switches + 1
      /\ RequestReconcile
      /\ UNCHANGED <<services, job, stack, closing, restarts, repairs, faults>>
    BY DEF Enable, Disable, Switch, Called
<1> DEFINE x == [entry[e] EXCEPT !.enabled = on]
<1>3. entry' = [entry EXCEPT ![e] = x] BY <1>1
<1>4. Marked(e, x) /\ RetryIsCounted(x, restarts[e])
    BY <1>2, EntryFacts DEF Marked, EntryType, RetryIsCounted, Has
<1> HIDE DEF x
<1>5. /\ entry' \in [Entry -> EntryType]
      /\ InstancesAreHeld' /\ RetriesAreCounted' /\ RegistryIsHeld' /\ FramesAreTrue'
      /\ LeavingAreOnStack' /\ JobIsTrue'
    BY <1>2, <1>3, <1>4, MarkedKeeps
<1>6. /\ loop' \in BOOLEAN /\ dirty' \in BOOLEAN /\ queue' \in Seq(Request)
      /\ LoopIsTrue' /\ NothingIsLeft'
    BY <1>2, RequestKeeps DEF IInv
<1>7. TypeOK' BY <1>2, <1>5, <1>6, BoundsKeep DEF IInv, TypeOK, EntryType
<1> QED BY <1>5, <1>6, <1>7 DEF IInv

LEMMA RetryKeeps ==
    ASSUME IInv, NEW e \in Entry, Retry(e) PROVE IInv'
<1>1. /\ closing = "no" /\ repairs < MaxRepairs /\ repairs' = repairs + 1
      /\ entry[e].state = "failed"
      /\ entry' = [entry EXCEPT ![e] = GivenAnother(entry[e])]
      /\ restarts' = [restarts EXCEPT ![e] = 0]
      /\ RequestReconcile
      /\ UNCHANGED <<services, job, stack, closing, switches, faults>>
    BY DEF Retry, Repair, Called
<1>2. Marked(e, GivenAnother(entry[e]))
    <2>1. GivenAnother(entry[e]).enabled = entry[e].enabled /\ ~GivenAnother(entry[e]).retry
        BY EntryFacts DEF GivenAnother, EntryType
    <2> QED BY <1>1, <2>1, EntryFacts, GivenAnotherFacts DEF Marked, Has
<1>3. /\ restarts' \in [Entry -> Nat] /\ restarts'[e] = 0
      /\ \A c \in Entry \ {e} : restarts'[c] = restarts[c]
    BY <1>1, EntriesAreTyped DEF IInv
<1>4. RetryIsCounted(GivenAnother(entry[e]), restarts'[e])
    BY <1>3, EntryFacts, GivenAnotherFacts
<1>5. /\ entry' \in [Entry -> EntryType]
      /\ InstancesAreHeld' /\ RetriesAreCounted' /\ RegistryIsHeld' /\ FramesAreTrue'
      /\ LeavingAreOnStack' /\ JobIsTrue'
    BY <1>1, <1>2, <1>3, <1>4, MarkedKeeps
<1>6. /\ loop' \in BOOLEAN /\ dirty' \in BOOLEAN /\ queue' \in Seq(Request)
      /\ LoopIsTrue' /\ NothingIsLeft'
    BY <1>1, RequestKeeps DEF IInv
<1>7. TypeOK' BY <1>1, <1>3, <1>5, <1>6, BoundsKeep DEF IInv, TypeOK, EntryType
<1> QED BY <1>5, <1>6, <1>7 DEF IInv

LEMMA ReportFailureKeeps ==
    ASSUME IInv, NEW e \in Entry, ReportFailure(e) PROVE IInv'
<1>1. /\ faults < MaxFaults /\ faults' = faults + 1 /\ Has(e)
      /\ entry' = [entry EXCEPT ![e].failure = TRUE, ![e].inst.lost = TRUE]
      /\ RequestReconcile
      /\ UNCHANGED <<services, job, stack, closing, restarts, switches, repairs>>
    BY DEF ReportFailure, Has
<1> DEFINE i == [entry[e].inst EXCEPT !.lost = TRUE]
           x == [entry[e] EXCEPT !.failure = TRUE, !.inst = i]
<1>2. /\ i \in Instance /\ i.closed = entry[e].inst.closed
      /\ i.revoked = entry[e].inst.revoked /\ i.forced = entry[e].inst.forced
    BY <1>1, EntryFacts DEF Instance
<1>3. i # None BY <1>2, NoneAssumption
<1>4. entry' = [entry EXCEPT ![e] = x] BY <1>1, EntriesAreTyped DEF IInv, EntryType
<1> HIDE DEF i
<1>5. Marked(e, x) /\ RetryIsCounted(x, restarts[e])
    BY <1>1, <1>2, <1>3, EntryFacts DEF Marked, EntryType, RetryIsCounted, Has
<1> HIDE DEF x
<1>6. /\ entry' \in [Entry -> EntryType]
      /\ InstancesAreHeld' /\ RetriesAreCounted' /\ RegistryIsHeld' /\ FramesAreTrue'
      /\ LeavingAreOnStack' /\ JobIsTrue'
    BY <1>1, <1>4, <1>5, MarkedKeeps
<1>7. /\ loop' \in BOOLEAN /\ dirty' \in BOOLEAN /\ queue' \in Seq(Request)
      /\ LoopIsTrue' /\ NothingIsLeft'
    BY <1>1, RequestKeeps DEF IInv
<1>8. TypeOK' BY <1>1, <1>6, <1>7, BoundsKeep DEF IInv, TypeOK, EntryType
<1> QED BY <1>6, <1>7, <1>8 DEF IInv

LEMMA RetryFiresKeeps ==
    ASSUME IInv, NEW e \in Entry, RetryFires(e) PROVE IInv'
<1>1. /\ entry[e].retry
      /\ UNCHANGED <<services, job, stack, closing, switches, repairs, faults>>
    BY DEF RetryFires, bounds
<1>2. entry[e].state = "failed" /\ restarts[e] < entry[e].attempts /\ restarts[e] < Retries
    BY <1>1, EntryFacts DEF RetryIsCounted
<1>3. closing # "done" BY <1>1 DEF IInv, JobIsTrue
<1>4. /\ Retries \in Nat /\ restarts \in [Entry -> Nat] /\ restarts[e] \in Nat
      /\ entry[e].attempts \in 0 .. Retries + 1 /\ entry[e] \in EntryType
    BY EntriesAreTyped, EntryFacts DEF IInv, EntryType
<1>5. CASE entry[e].enabled
    <2> DEFINE x == [entry[e] EXCEPT !.retry = FALSE, !.state = "waiting"]
    <2>1. /\ entry' = [entry EXCEPT ![e].retry = FALSE, ![e].state = "waiting"]
          /\ restarts' = [restarts EXCEPT ![e] = @ + 1]
          /\ RequestReconcile
        BY <1>2, <1>5 DEF RetryFires
    <2>2. entry' = [entry EXCEPT ![e] = x] BY <1>4, <2>1, EntriesAreTyped DEF IInv, EntryType
    <2>3. /\ restarts' \in [Entry -> Nat] /\ restarts'[e] = restarts[e] + 1
          /\ \A c \in Entry \ {e} : restarts'[c] = restarts[c]
        BY <1>4, <2>1
    <2>4. Marked(e, x) BY <1>2, <1>3, <1>4 DEF Marked, EntryType, State, Has
    <2>5. RetryIsCounted(x, restarts'[e])
        <3>1. x.attempts = entry[e].attempts /\ ~x.retry BY <1>4 DEF EntryType
        <3> QED BY <1>2, <1>4, <2>3, <3>1 DEF RetryIsCounted
    <2> HIDE DEF x
    <2>6. /\ entry' \in [Entry -> EntryType]
          /\ InstancesAreHeld' /\ RetriesAreCounted' /\ RegistryIsHeld' /\ FramesAreTrue'
          /\ LeavingAreOnStack' /\ JobIsTrue'
        BY <1>1, <2>2, <2>3, <2>4, <2>5, MarkedKeeps
    <2>7. /\ loop' \in BOOLEAN /\ dirty' \in BOOLEAN /\ queue' \in Seq(Request)
          /\ LoopIsTrue' /\ NothingIsLeft'
        BY <1>1, <2>1, RequestKeeps DEF IInv
    <2>8. TypeOK' BY <1>1, <2>3, <2>6, <2>7 DEF IInv, TypeOK, EntryType
    <2> QED BY <2>6, <2>7, <2>8 DEF IInv
<1>6. CASE ~entry[e].enabled
    <2> DEFINE x == [entry[e] EXCEPT !.retry = FALSE]
    <2>1. /\ entry' = [entry EXCEPT ![e].retry = FALSE]
          /\ UNCHANGED <<loop, dirty, queue, restarts>>
        BY <1>6 DEF RetryFires, NoRequest
    <2>2. entry' = [entry EXCEPT ![e] = x] BY <1>4, <2>1, EntriesAreTyped DEF IInv, EntryType
    <2>3. Marked(e, x) /\ RetryIsCounted(x, restarts[e])
        BY <1>4, EntryFacts DEF Marked, EntryType, RetryIsCounted, Has
    <2>4. /\ x.plugin = entry[e].plugin /\ x.state = entry[e].state
          /\ x.enabled = entry[e].enabled /\ x.failure = entry[e].failure
          /\ x.misconfigured = entry[e].misconfigured
        BY <1>4 DEF EntryType
    <2> HIDE DEF x
    <2>5. /\ entry' \in [Entry -> EntryType]
          /\ InstancesAreHeld' /\ RetriesAreCounted' /\ RegistryIsHeld' /\ FramesAreTrue'
          /\ LeavingAreOnStack' /\ JobIsTrue'
        BY <1>1, <2>1, <2>2, <2>3, MarkedKeeps
    <2>6. \A c \in Entry : /\ ShouldStop(entry[c])' <=> ShouldStop(entry[c])
                           /\ Fixed(entry[c])' <=> Fixed(entry[c])
        <3> SUFFICES ASSUME NEW c \in Entry
                     PROVE  /\ ShouldStop(entry[c])' <=> ShouldStop(entry[c])
                            /\ Fixed(entry[c])' <=> Fixed(entry[c])
            OBVIOUS
        <3>1. /\ entry'[c].plugin = entry[c].plugin /\ entry'[c].state = entry[c].state
              /\ entry'[c].enabled = entry[c].enabled /\ entry'[c].failure = entry[c].failure
              /\ entry'[c].misconfigured = entry[c].misconfigured
            BY <2>2, <2>4, EntriesAreTyped DEF IInv
        <3> QED BY <1>1, <3>1 DEF ShouldStop, Fixed, ShouldLoad, Supplied, Registered
    <2>7. LoopIsTrue' BY <1>1, <2>1 DEF IInv, LoopIsTrue, PassIn, IsPass
    <2>8. NothingIsLeft' BY <1>1, <2>1, <2>6 DEF IInv, NothingIsLeft, PassIn, ReplaceIn
    <2>9. TypeOK' BY <1>1, <2>1, <2>5 DEF IInv, TypeOK, EntryType
    <2> QED BY <2>5, <2>7, <2>8, <2>9 DEF IInv
<1> QED BY <1>4, <1>5, <1>6 DEF EntryType
-----------------------------------------------------------------------------
(* Unloading.                                                              *)

\* An unloading that goes on requests nothing and leaves nothing more to stop.
LEMMA UnloadingLeavesNothing ==
    ASSUME IInv, stack # <<>>, UNCHANGED <<job, closing, loop, dirty, queue>>,
           \A c \in Entry : ShouldStop(entry[c])' => ShouldStop(entry[c])
    PROVE  LoopIsTrue' /\ NothingIsLeft' /\ closing # "done"
<1>1. PassIn("stop") \/ ReplaceIn("swap") \/ job.kind = "shutdown" BY DEF IInv, JobIsTrue
<1>2. job.kind = "pass" => loop BY DEF IInv, LoopIsTrue
<1>3. job.kind = "shutdown" => closing # "no" BY DEF IInv, JobIsTrue
<1>4. LoopIsTrue' BY DEF IInv, LoopIsTrue, PassIn, IsPass
<1>5. NothingIsLeft' BY <1>1, <1>2, <1>3 DEF IInv, NothingIsLeft, PassIn, ReplaceIn
<1>6. closing # "done" BY <1>1 DEF IInv, JobIsTrue, NoJob, PassIn, ReplaceIn
<1> QED BY <1>4, <1>5, <1>6

\* The entry whose unloading is under way.
LEMMA HeadFacts ==
    ASSUME IInv, stack # <<>>
    PROVE  /\ Unloading = stack[1].entry /\ 1 \in DOMAIN stack /\ Head(stack) = stack[1]
           /\ Unloading \in Entry /\ Has(Unloading)
           /\ entry[Unloading] \in EntryType /\ entry[Unloading].inst \in Instance
           /\ entry[Unloading].state \in {"quiescing", "unloading"}
           /\ ~entry[Unloading].retry
           /\ \A i \in DOMAIN stack : i # 1 => stack[i].entry # Unloading
<1>1. /\ Unloading = stack[1].entry /\ 1 \in DOMAIN stack /\ Head(stack) = stack[1]
      /\ Unloading \in Entry
      /\ stack[1].step \in {"consumers", "revoke", "quiesce", "dispose", "disposers"}
    BY FrameFacts DEF IInv, Unloading
<1>2. entry[Unloading].state \in {"quiescing", "unloading"} BY <1>1 DEF IInv, FramesAreTrue
<1>3. Has(Unloading) BY <1>1, <1>2 DEF IInv, InstancesAreHeld
<1>4. ~entry[Unloading].retry BY <1>1, <1>2, EntryFacts DEF RetryIsCounted
<1>5. \A i \in DOMAIN stack : i # 1 => stack[i].entry # Unloading
    BY <1>1 DEF IInv, LeavingAreOnStack
<1> QED BY <1>1, <1>2, <1>3, <1>4, <1>5, EntryFacts

LEMMA GoToFacts ==
    ASSUME TypeOK, stack # <<>>, NEW step \in {"consumers", "revoke", "quiesce", "dispose", "disposers"},
           GoTo(step)
    PROVE  /\ stack' \in Seq(Frame) /\ DOMAIN stack' = DOMAIN stack
           /\ stack'[1].entry = stack[1].entry /\ stack'[1].target = stack[1].target
           /\ stack'[1].step = step
           /\ \A i \in DOMAIN stack : i # 1 => stack'[i] = stack[i]
           /\ \A i \in DOMAIN stack :
                 stack'[i].entry = stack[i].entry /\ stack'[i].target = stack[i].target
<1>1. stack \in Seq(Frame) /\ 1 \in DOMAIN stack /\ stack[1] \in Frame BY FrameFacts DEF TypeOK
<1>2. PICK f : f = [stack[1] EXCEPT !.step = step] OBVIOUS
<1>3. f \in Frame /\ f.entry = stack[1].entry /\ f.target = stack[1].target /\ f.step = step
    BY <1>1, <1>2 DEF Frame
<1>4. stack' = [stack EXCEPT ![1] = f] BY <1>1, <1>2 DEF GoTo
<1>5. stack' \in Seq(Frame) /\ Len(stack') = Len(stack) BY <1>1, <1>3, <1>4, ExceptSeq
<1>6. DOMAIN stack' = DOMAIN stack /\ stack'[1] = f /\ \A i \in DOMAIN stack : i # 1 => stack'[i] = stack[i]
    BY <1>1, <1>4
<1> QED BY <1>3, <1>5, <1>6

\* h is taken one step further: x is what becomes of its entry.
Advanced(h, step, x) ==
    /\ h = Unloading /\ Consumers(h) = {}
    /\ step \in {"revoke", "quiesce", "dispose", "disposers"} /\ GoTo(step)
    /\ x \in EntryType /\ entry' = [entry EXCEPT ![h] = x]
    /\ x.plugin = entry[h].plugin /\ x.enabled = entry[h].enabled
    /\ x.retry = entry[h].retry /\ x.attempts = entry[h].attempts /\ x.inst # None
    /\ x.state = IF step \in {"revoke", "quiesce"} THEN "quiescing" ELSE "unloading"
    /\ x.state = "quiescing" => entry[h].state = "quiescing"
    /\ x.inst.closed <=> x.state = "unloading"
    /\ step # "revoke" => x.inst.revoked \/ x.inst.forced
    /\ services' = IF step = "disposers"
                   THEN [s \in Service |-> IF services[s] = h THEN None ELSE services[s]]
                   ELSE services

\* What the others provide stays, and h provides nothing at the end.
LEMMA WithdrawnFacts ==
    ASSUME TypeOK, NEW h \in Entry,
           services' = [s \in Service |-> IF services[s] = h THEN None ELSE services[s]]
    PROVE  /\ services' \in [Service -> Entry \cup {None}]
           /\ ProvidedBy(h)' = {}
           /\ \A c \in Entry \ {h} : ProvidedBy(c)' = ProvidedBy(c)
           /\ Registered' = Registered \ ProvidedBy(h)
<1>1. services \in [Service -> Entry \cup {None}] /\ None \notin Entry
    BY NoneAssumption DEF TypeOK
<1> QED BY <1>1 DEF ProvidedBy, Registered

LEMMA AdvancedKeeps ==
    ASSUME IInv, stack # <<>>, NEW h, NEW step, NEW x, Advanced(h, step, x),
           UNCHANGED <<job, closing, restarts, switches, repairs, loop, dirty, queue>>,
           faults' \in 0 .. MaxFaults
    PROVE  IInv'
<1>1. /\ h = stack[1].entry /\ h \in Entry /\ 1 \in DOMAIN stack /\ Has(h)
      /\ entry[h].state \in {"quiescing", "unloading"}
      /\ \A i \in DOMAIN stack : i # 1 => stack[i].entry # h
    BY HeadFacts DEF Advanced
<1>2. /\ stack' \in Seq(Frame) /\ DOMAIN stack' = DOMAIN stack /\ stack'[1].entry = h
      /\ stack'[1].step = step
      /\ \A i \in DOMAIN stack : i # 1 => stack'[i] = stack[i]
      /\ \A i \in DOMAIN stack :
            stack'[i].entry = stack[i].entry /\ stack'[i].target = stack[i].target
    BY <1>1, GoToFacts DEF Advanced, IInv
<1>3. /\ entry' \in [Entry -> EntryType]
      /\ entry'[h] = x /\ \A c \in Entry \ {h} : entry'[c] = entry[c]
    BY <1>1, OneEntryChanges DEF Advanced, IInv
<1>4. /\ services' \in [Service -> Entry \cup {None}]
      /\ step = "disposers" => ProvidedBy(h)' = {}
      /\ step # "disposers" => ProvidedBy(h)' = ProvidedBy(h)
      /\ \A c \in Entry \ {h} : ProvidedBy(c)' = ProvidedBy(c)
      /\ Registered' = IF step = "disposers" THEN Registered \ ProvidedBy(h) ELSE Registered
    <2>1. CASE step = "disposers" BY <1>1, <2>1, WithdrawnFacts DEF Advanced, IInv
    <2>2. CASE step # "disposers"
        BY <2>2 DEF Advanced, IInv, TypeOK, ProvidedBy, Registered
    <2> QED BY <2>1, <2>2
<1>5. x.state \in {"quiescing", "unloading"} BY DEF Advanced
<1>6. TypeOK' BY <1>2, <1>3, <1>4 DEF IInv, TypeOK, EntryType
<1>7. InstancesAreHeld' BY <1>1, <1>3, <1>5 DEF Advanced, IInv, InstancesAreHeld, Has
<1>8. RetriesAreCounted'
    <2>1. RetryIsCounted(x, restarts[h])
        BY <1>1, HeadFacts, EntryFacts DEF Advanced, RetryIsCounted
    <2> QED BY <1>3, <2>1 DEF IInv, RetriesAreCounted
<1>9. RegistryIsHeld'
    <2> SUFFICES ASSUME NEW c \in Entry
                 PROVE  /\ ProvidedBy(c)' \subseteq Provides[entry'[c].plugin]
                        /\ ~Has(c)' => ProvidedBy(c)' = {}
                        /\ entry'[c].state \in {"active", "quiescing"} =>
                              ProvidedBy(c)' = Provides[entry'[c].plugin]
        BY DEF RegistryIsHeld
    <2>1. CASE c # h BY <1>3, <1>4, <2>1 DEF IInv, RegistryIsHeld, Has
    <2>2. CASE c = h
        <3>1. entry'[h].plugin = entry[h].plugin /\ Has(h)' BY <1>3 DEF Advanced, Has
        <3>2. ProvidedBy(h)' \subseteq Provides[entry[h].plugin]
            BY <1>1, <1>4 DEF IInv, RegistryIsHeld
        <3>3. CASE x.state = "quiescing"
            <4>1. step \in {"revoke", "quiesce"} BY <3>3 DEF Advanced
            <4>2. entry[h].state = "quiescing" BY <3>3 DEF Advanced
            <4> QED BY <1>1, <1>4, <2>2, <3>1, <3>2, <4>1, <4>2 DEF IInv, RegistryIsHeld
        <3>4. CASE x.state = "unloading" BY <1>3, <2>2, <3>1, <3>2, <3>4
        <3> QED BY <1>5, <3>3, <3>4
    <2> QED BY <2>1, <2>2
<1>10. \A c \in Entry, d \in Entry : d \in Consumers(c)' => d \in Consumers(c)
    <2> SUFFICES ASSUME NEW c \in Entry, NEW d \in Entry, d \in Consumers(c)'
                 PROVE  d \in Consumers(c)
        OBVIOUS
    <2>1. d # h BY <1>3, <1>5 DEF Consumers
    <2>2. entry'[d] = entry[d] /\ ProvidedBy(c)' \subseteq ProvidedBy(c) BY <1>3, <1>4, <2>1
    <2> QED BY <2>2 DEF Consumers
<1>11. \A c \in Entry : Consumers(c)' \subseteq Consumers(c)
    <2>1. \A c : Consumers(c)' \subseteq Entry BY DEF Consumers
    <2> QED BY <1>10, <2>1
<1>12. FramesAreTrue'
    <2> SUFFICES ASSUME NEW i \in DOMAIN stack', NEW e, NEW s,
                        e = stack'[i].entry, s = stack'[i].step
                 PROVE  /\ i # 1 => s = "consumers"
                        /\ s \in {"consumers", "revoke", "quiesce"} => entry'[e].state = "quiescing"
                        /\ s \in {"dispose", "disposers"} => entry'[e].state = "unloading"
                        /\ s \in {"quiesce", "dispose", "disposers"} =>
                              entry'[e].inst.revoked \/ entry'[e].inst.forced
                        /\ s \in {"revoke", "quiesce", "dispose"} => Consumers(e)' = {}
                        /\ s = "disposers" => ProvidedBy(e)' = {}
        BY DEF FramesAreTrue
    <2>0. i \in DOMAIN stack BY <1>2
    <2>1. CASE i = 1
        <3>1. e = h /\ s = step /\ entry'[h] = x BY <1>2, <1>3, <2>1
        <3>2. Consumers(h)' = {} BY <1>1, <1>11 DEF Advanced
        <3>3. step \in {"revoke", "quiesce", "dispose", "disposers"} BY DEF Advanced
        <3>4. x.state = IF step \in {"revoke", "quiesce"} THEN "quiescing" ELSE "unloading"
            BY DEF Advanced
        <3>5. step # "revoke" => x.inst.revoked \/ x.inst.forced BY DEF Advanced
        <3> QED BY <1>4, <2>1, <3>1, <3>2, <3>3, <3>4, <3>5
    <2>2. CASE i # 1
        <3>1. /\ stack'[i] = stack[i] /\ stack[i].step = "consumers"
              /\ stack[i].entry \in Entry \ {h}
            BY <1>1, <1>2, <2>0, <2>2, FrameFacts DEF IInv, FramesAreTrue
        <3>2. entry[e].state = "quiescing" BY <2>0, <3>1 DEF IInv, FramesAreTrue
        <3> QED BY <1>3, <2>2, <3>1, <3>2
    <2> QED BY <2>1, <2>2
<1>13. LeavingAreOnStack'
    <2>1. \A c \in Entry : OnStack(c)' <=> OnStack(c) BY <1>2 DEF OnStack
    <2>2. OnStack(h) BY <1>1 DEF OnStack
    <2>3. \A i, j \in DOMAIN stack' : stack'[i].entry = stack'[j].entry => i = j
        BY <1>2 DEF IInv, LeavingAreOnStack
    <2> QED BY <1>3, <2>1, <2>2, <2>3 DEF IInv, LeavingAreOnStack
<1>14. \A c \in Entry : ShouldStop(entry[c])' => ShouldStop(entry[c])
    <2> SUFFICES ASSUME NEW c \in Entry, ShouldStop(entry[c])' PROVE ShouldStop(entry[c])
        OBVIOUS
    <2>1. entry'[c].state = "active" BY DEF ShouldStop
    <2>2. c # h /\ entry'[c] = entry[c] BY <1>3, <1>5, <2>1
    <2>3. c \notin Consumers(h) BY DEF Advanced
    <2>4. Needs[entry[c].plugin] \cap ProvidedBy(h) = {} BY <2>1, <2>2, <2>3 DEF Consumers
    <2>5. Supplied(entry[c].plugin) => Supplied(entry[c].plugin)'
        BY <1>4, <2>2, <2>4 DEF Supplied
    <2> QED BY <2>2, <2>5 DEF ShouldStop
<1>15. LoopIsTrue' /\ NothingIsLeft' /\ closing # "done" BY <1>14, UnloadingLeavesNothing
<1>16. JobIsTrue'
    <2>1. \A c \in Entry : /\ entry'[c].state = entry[c].state
                              \/ {entry'[c].state, entry[c].state} \subseteq {"quiescing", "unloading"}
                           /\ entry'[c].enabled = entry[c].enabled /\ entry'[c].retry = entry[c].retry
        BY <1>1, <1>3, <1>5 DEF Advanced
    <2>2. \A c, target : Target(c, target)' <=> Target(c, target) BY <1>2 DEF Target
    <2>3. \A c \in Entry : entry'[c].state = "loading" <=> entry[c].state = "loading" BY <2>1
    <2>4. ReplaceIn("activating") => entry'[job.entry].state = "active"
        BY <2>1, JobFacts DEF IInv, JobIsTrue, ReplaceIn
    <2>5. ReplaceIn("swap") => entry'[job.entry].state \in {"quiescing", "unloading", "waiting"}
        BY <2>1, JobFacts DEF IInv, JobIsTrue, ReplaceIn
    <2>6. job.kind = "shutdown" => \A c \in Entry : c >= job.at =>
             /\ ~entry'[c].enabled /\ ~entry'[c].retry
             /\ entry'[c].state \in {"quiescing", "unloading", "disposed"}
        BY <2>1 DEF IInv, JobIsTrue
    <2> QED
        BY <1>15, <2>2, <2>3, <2>4, <2>5, <2>6 DEF IInv, JobIsTrue, PassIn, ReplaceIn
<1> QED BY <1>6, <1>7, <1>8, <1>9, <1>12, <1>13, <1>15, <1>16 DEF IInv

LEMMA ConsumersGoneKeeps == ASSUME IInv, ConsumersGone PROVE IInv'
<1>1. /\ stack # <<>> /\ Head(stack).step = "consumers" /\ Consumers(Unloading) = {}
      /\ GoTo("revoke")
      /\ UNCHANGED <<entry, services, job, closing, restarts, loop, dirty, queue, switches, repairs, faults>>
    BY DEF ConsumersGone, InStep, NoRequest, bounds
<1>2. PICK h : h = Unloading OBVIOUS
<1>3. /\ h \in Entry /\ Has(h) /\ entry[h] \in EntryType /\ stack[1].step = "consumers"
      /\ h = stack[1].entry /\ 1 \in DOMAIN stack
    BY <1>1, <1>2, HeadFacts
<1>4. entry[h].state = "quiescing" BY <1>3 DEF IInv, FramesAreTrue
<1>5. ~entry[h].inst.closed BY <1>3, <1>4 DEF IInv, InstancesAreHeld
<1>6. entry' = [entry EXCEPT ![h] = entry[h]] BY <1>1, <1>3, EntriesAreTyped DEF IInv
<1>7. Advanced(h, "revoke", entry[h])
    BY <1>1, <1>2, <1>3, <1>4, <1>5, <1>6 DEF Advanced, Has
<1>8. faults' \in 0 .. MaxFaults BY <1>1 DEF IInv, TypeOK
<1> QED BY <1>1, <1>7, <1>8, AdvancedKeeps

\* A wait for a plugin may end badly.
LEMMA OutcomeFacts ==
    ASSUME IInv, NEW ok \in BOOLEAN, ~ok => faults < MaxFaults,
           faults' = IF ok THEN faults ELSE faults + 1
    PROVE  faults' \in 0 .. MaxFaults
<1>1. CASE ok BY <1>1 DEF IInv, TypeOK
<1>2. CASE ~ok BY <1>2, BoundsKeep DEF IInv
<1> QED BY <1>1, <1>2

LEMMA RevokeKeeps == ASSUME IInv, Revoke PROVE IInv'
<1>1. PICK ok \in BOOLEAN :
         /\ stack # <<>> /\ Head(stack).step = "revoke" /\ GoTo("quiesce")
         /\ ~ok => faults < MaxFaults
         /\ faults' = IF ok THEN faults ELSE faults + 1
         /\ entry' = [entry EXCEPT ![Unloading].inst.revoked = ok,
                                   ![Unloading].inst.forced = @ \/ ~ok]
         /\ UNCHANGED <<services, job, closing, restarts, loop, dirty, queue, switches, repairs>>
    BY DEF Revoke, InStep, NoRequest
<1>2. PICK h : h = Unloading OBVIOUS
<1>3. /\ h \in Entry /\ Has(h) /\ entry[h] \in EntryType /\ stack[1].step = "revoke"
      /\ h = stack[1].entry /\ 1 \in DOMAIN stack /\ entry[h].inst \in Instance
    BY <1>1, <1>2, HeadFacts
<1>4. entry[h].state = "quiescing" /\ Consumers(h) = {} BY <1>3 DEF IInv, FramesAreTrue
<1>5. ~entry[h].inst.closed BY <1>3, <1>4 DEF IInv, InstancesAreHeld
<1>6. PICK f \in BOOLEAN : f = (entry[h].inst.forced \/ ~ok)
    BY <1>3 DEF Instance
<1>7. PICK i : i = [entry[h].inst EXCEPT !.revoked = ok, !.forced = f] OBVIOUS
<1>8. i \in Instance /\ i.revoked = ok /\ i.forced = f /\ i.closed = entry[h].inst.closed
    BY <1>3, <1>7 DEF Instance
<1>9. i # None BY <1>8, NoneAssumption
<1>10. PICK x : x = [entry[h] EXCEPT !.inst = i] OBVIOUS
<1>11. /\ x \in EntryType /\ x.inst = i /\ x.plugin = entry[h].plugin
       /\ x.enabled = entry[h].enabled /\ x.retry = entry[h].retry
       /\ x.attempts = entry[h].attempts /\ x.state = entry[h].state
    BY <1>3, <1>8, <1>10 DEF EntryType
<1>12. entry' = [entry EXCEPT ![h] = x]
    <2>1. entry' = [entry EXCEPT ![h] = [entry[h] EXCEPT !.inst = [entry[h].inst EXCEPT !.revoked = ok,
                                             !.forced = (entry[h].inst.forced \/ ~ok)]]]
        BY <1>1, <1>2, <1>3, EntriesAreTyped DEF IInv, EntryType, Instance
    <2> QED BY <1>6, <1>7, <1>10, <2>1
<1>13. Advanced(h, "quiesce", x)
    BY <1>1, <1>2, <1>4, <1>5, <1>6, <1>8, <1>9, <1>11, <1>12 DEF Advanced
<1>14. faults' \in 0 .. MaxFaults BY <1>1, OutcomeFacts
<1> QED BY <1>1, <1>13, <1>14, AdvancedKeeps

LEMMA QuiesceKeeps == ASSUME IInv, Quiesce PROVE IInv'
<1>1. PICK ok \in BOOLEAN :
         /\ stack # <<>> /\ Head(stack).step = "quiesce" /\ GoTo("dispose")
         /\ ~ok => faults < MaxFaults
         /\ faults' = IF ok THEN faults ELSE faults + 1
         /\ entry' = [entry EXCEPT ![Unloading].state = "unloading",
                                   ![Unloading].inst.closed = TRUE,
                                   ![Unloading].inst.forced = @ \/ ~ok]
         /\ UNCHANGED <<services, job, closing, restarts, loop, dirty, queue, switches, repairs>>
    BY DEF Quiesce, InStep, NoRequest
<1>2. PICK h : h = Unloading OBVIOUS
<1>3. /\ h \in Entry /\ Has(h) /\ entry[h] \in EntryType /\ stack[1].step = "quiesce"
      /\ h = stack[1].entry /\ 1 \in DOMAIN stack /\ entry[h].inst \in Instance
    BY <1>1, <1>2, HeadFacts
<1>4. Consumers(h) = {} /\ (entry[h].inst.revoked \/ entry[h].inst.forced)
    BY <1>3 DEF IInv, FramesAreTrue
<1>6. PICK f \in BOOLEAN : f = (entry[h].inst.forced \/ ~ok)
    BY <1>3 DEF Instance
<1>7. PICK i : i = [entry[h].inst EXCEPT !.closed = TRUE, !.forced = f] OBVIOUS
<1>8. i \in Instance /\ i.revoked = entry[h].inst.revoked /\ i.forced = f /\ i.closed = TRUE
    BY <1>3, <1>7 DEF Instance
<1>9. i # None BY <1>8, NoneAssumption
<1>10. PICK x : x = [entry[h] EXCEPT !.state = "unloading", !.inst = i] OBVIOUS
<1>11. /\ x \in EntryType /\ x.inst = i /\ x.plugin = entry[h].plugin
       /\ x.enabled = entry[h].enabled /\ x.retry = entry[h].retry
       /\ x.attempts = entry[h].attempts /\ x.state = "unloading"
    BY <1>3, <1>8, <1>10 DEF EntryType, State
<1>12. entry' = [entry EXCEPT ![h] = x]
    <2>1. entry' = [entry EXCEPT ![h] = [entry[h] EXCEPT !.state = "unloading",
                         !.inst = [entry[h].inst EXCEPT !.closed = TRUE,
                                             !.forced = (entry[h].inst.forced \/ ~ok)]]]
        BY <1>1, <1>2, <1>3, EntriesAreTyped DEF IInv, EntryType, Instance
    <2> QED BY <1>6, <1>7, <1>10, <2>1
<1>13. Advanced(h, "dispose", x)
    <2>1. i.revoked \/ i.forced BY <1>4, <1>6, <1>8, Zenon
    <2>2. x.inst.closed /\ x.inst # None BY <1>8, <1>9, <1>11
    <2> QED BY <1>1, <1>2, <1>4, <1>11, <1>12, <2>1, <2>2 DEF Advanced
<1>14. faults' \in 0 .. MaxFaults BY <1>1, OutcomeFacts
<1> QED BY <1>1, <1>13, <1>14, AdvancedKeeps

LEMMA ServicesWithdrawnKeeps == ASSUME IInv, ServicesWithdrawn PROVE IInv'
<1>1. /\ stack # <<>> /\ Head(stack).step = "dispose" /\ GoTo("disposers")
      /\ services' = [s \in Service |-> IF services[s] = Unloading THEN None ELSE services[s]]
      /\ UNCHANGED <<entry, job, closing, restarts, loop, dirty, queue, switches, repairs, faults>>
    BY DEF ServicesWithdrawn, InStep, NoRequest, bounds
<1>2. PICK h : h = Unloading OBVIOUS
<1>3. /\ h \in Entry /\ Has(h) /\ entry[h] \in EntryType /\ stack[1].step = "dispose"
      /\ h = stack[1].entry /\ 1 \in DOMAIN stack
    BY <1>1, <1>2, HeadFacts
<1>4. /\ entry[h].state = "unloading" /\ Consumers(h) = {}
      /\ entry[h].inst.revoked \/ entry[h].inst.forced
    BY <1>3 DEF IInv, FramesAreTrue
<1>5. entry[h].inst.closed BY <1>3, <1>4 DEF IInv, InstancesAreHeld
<1>6. entry' = [entry EXCEPT ![h] = entry[h]] BY <1>1, <1>3, EntriesAreTyped DEF IInv
<1>7. Advanced(h, "disposers", entry[h])
    BY <1>1, <1>2, <1>3, <1>4, <1>5, <1>6 DEF Advanced, Has
<1>8. faults' \in 0 .. MaxFaults BY <1>1 DEF IInv, TypeOK
<1> QED BY <1>1, <1>7, <1>8, AdvancedKeeps

LEMMA DisposersDoneKeeps == ASSUME IInv, DisposersDone PROVE IInv'
<1>1. PICK stable \in BOOLEAN :
         /\ stack # <<>> /\ Head(stack).step = "disposers" /\ stack' = Tail(stack)
         /\ entry' = [entry EXCEPT ![Unloading] =
                         Unloaded(entry[Unloading], Head(stack).target, stable)]
         /\ restarts' = [restarts EXCEPT ![Unloading] =
                            IF stable THEN 0 ELSE restarts[Unloading]]
         /\ UNCHANGED <<services, job, closing, loop, dirty, queue, switches, repairs, faults>>
    BY DEF DisposersDone, InStep, NoRequest, bounds
<1>2. PICK h, target : h = Unloading /\ target = stack[1].target OBVIOUS
<1>3. /\ h \in Entry /\ Has(h) /\ entry[h] \in EntryType /\ stack[1].step = "disposers"
      /\ h = stack[1].entry /\ 1 \in DOMAIN stack /\ ~entry[h].retry
      /\ Head(stack) = stack[1] /\ \A i \in DOMAIN stack : i # 1 => stack[i].entry # h
    BY <1>1, <1>2, HeadFacts
<1>4. entry[h].state = "unloading" /\ ProvidedBy(h) = {} BY <1>3 DEF IInv, FramesAreTrue
<1>5. target \in {"waiting", "disposed", "failed"} BY <1>2, <1>3, FrameFacts DEF IInv
<1>6. PICK x : x = Unloaded(entry[h], target, stable) OBVIOUS
<1>7. PICK n : n = IF stable THEN 0 ELSE restarts[h] OBVIOUS
<1>8. /\ x \in EntryType /\ x.state = target /\ x.inst = None /\ x.plugin = entry[h].plugin
      /\ x.enabled = entry[h].enabled /\ (target # "failed" => ~x.retry)
    BY <1>3, <1>5, <1>6, UnloadedFacts
<1>9. n \in Nat /\ RetryIsCounted(x, n)
    BY <1>3, <1>5, <1>6, <1>7, EntryFacts, UnloadedFacts
<1>10. /\ entry' \in [Entry -> EntryType] /\ entry'[h] = x
       /\ \A c \in Entry \ {h} : entry'[c] = entry[c]
    <2>1. entry' = [entry EXCEPT ![h] = x] BY <1>1, <1>2, <1>3, <1>6
    <2> QED BY <1>3, <1>8, <2>1, OneEntryChanges DEF IInv
<1>11. /\ restarts' \in [Entry -> Nat] /\ restarts'[h] = n
       /\ \A c \in Entry \ {h} : restarts'[c] = restarts[c]
    <2>1. restarts' = [restarts EXCEPT ![h] = n] BY <1>1, <1>2, <1>7
    <2> QED BY <1>3, <1>9, <2>1, EntriesAreTyped DEF IInv
<1>12. /\ stack' \in Seq(Frame)
       /\ \A i \in DOMAIN stack' :
             /\ i \in Nat /\ i + 1 \in DOMAIN stack /\ i + 1 # 1 /\ stack'[i] = stack[i + 1]
       /\ \A i \in DOMAIN stack : i # 1 => i - 1 \in DOMAIN stack' /\ stack'[i - 1] = stack[i]
    <2>1. stack \in Seq(Frame) BY DEF IInv, TypeOK
    <2>2. \A i \in Nat : 0 < i => i + 1 # 1 OBVIOUS
    <2> QED BY <1>1, <2>1, <2>2, TailFacts
<1>13. \A c \in Entry : ProvidedBy(c)' = ProvidedBy(c) BY <1>1 DEF ProvidedBy
<1>14. TypeOK' BY <1>1, <1>10, <1>11, <1>12 DEF IInv, TypeOK, EntryType
<1>15. InstancesAreHeld' BY <1>5, <1>8, <1>10 DEF IInv, InstancesAreHeld, Has
<1>16. RetriesAreCounted' BY <1>9, <1>10, <1>11 DEF IInv, RetriesAreCounted
<1>17. RegistryIsHeld'
    <2> SUFFICES ASSUME NEW c \in Entry
                 PROVE  /\ ProvidedBy(c) \subseteq Provides[entry'[c].plugin]
                        /\ entry'[c].inst = None => ProvidedBy(c) = {}
                        /\ entry'[c].state \in {"active", "quiescing"} =>
                              ProvidedBy(c) = Provides[entry'[c].plugin]
        BY <1>13 DEF RegistryIsHeld, Has
    <2>1. CASE c # h BY <1>10, <2>1 DEF IInv, RegistryIsHeld, Has
    <2>2. CASE c = h BY <1>4, <1>5, <1>8, <1>10, <2>2
    <2> QED BY <2>1, <2>2
<1>18. FramesAreTrue'
    <2> SUFFICES ASSUME NEW i \in DOMAIN stack'
                 PROVE  /\ stack'[i].step = "consumers"
                        /\ entry'[stack'[i].entry].state = "quiescing"
        BY DEF FramesAreTrue
    <2>1. i + 1 \in DOMAIN stack /\ i + 1 # 1 /\ stack'[i] = stack[i + 1] BY <1>12
    <2>2. stack[i + 1].step = "consumers" /\ entry[stack[i + 1].entry].state = "quiescing"
        BY <2>1 DEF IInv, FramesAreTrue
    <2>3. stack[i + 1].entry \in Entry \ {h} BY <1>3, <2>1, FrameFacts DEF IInv
    <2> QED BY <1>10, <2>1, <2>2, <2>3
<1>19. LeavingAreOnStack'
    <2>1. ASSUME NEW i \in DOMAIN stack', NEW j \in DOMAIN stack',
                 stack'[i].entry = stack'[j].entry
          PROVE  i = j
        <3>1. i + 1 = j + 1 BY <1>12, <2>1 DEF IInv, LeavingAreOnStack
        <3> QED BY <1>12, <3>1
    <2>2. ASSUME NEW c \in Entry, entry'[c].state \in {"quiescing", "unloading"}
          PROVE  OnStack(c)'
        <3>1. c # h /\ entry'[c] = entry[c] BY <1>5, <1>8, <1>10, <2>2
        <3>2. PICK i \in DOMAIN stack : stack[i].entry = c
            BY <2>2, <3>1 DEF IInv, LeavingAreOnStack, OnStack
        <3>3. i - 1 \in DOMAIN stack' /\ stack'[i - 1] = stack[i] BY <1>3, <1>12, <3>1, <3>2
        <3> QED BY <3>2, <3>3 DEF OnStack
    <2> QED BY <2>1, <2>2 DEF LeavingAreOnStack
<1>20. \A c \in Entry : ShouldStop(entry[c])' => ShouldStop(entry[c])
    BY <1>1, <1>5, <1>8, <1>10 DEF ShouldStop, Supplied, Registered
<1>21. LoopIsTrue' /\ NothingIsLeft' /\ closing # "done"
    BY <1>1, <1>20, UnloadingLeavesNothing
<1>22. JobIsTrue'
    <2>1. stack # <<>> BY <1>1
    <2>2. \A c, t : Target(c, t) => Target(c, t)' BY <1>12 DEF Target
    <2>3. \A t : Target(h, t) => target = t BY <1>2, <1>3 DEF Target
    <2>4. \A c \in Entry : entry'[c].state = "loading" <=> entry[c].state = "loading"
        BY <1>4, <1>5, <1>8, <1>10
    <2>5. ReplaceIn("activating") => entry'[job.entry].state = "active"
        BY <1>4, <1>10, JobFacts DEF IInv, JobIsTrue, ReplaceIn
    <2>6. ReplaceIn("swap") => entry'[job.entry].state \in {"quiescing", "unloading", "waiting"}
        BY <1>8, <1>10, <2>3, JobFacts DEF IInv, JobIsTrue, ReplaceIn
    <2>7. job.kind = "shutdown" => \A c \in Entry : c >= job.at =>
             /\ ~entry'[c].enabled /\ ~entry'[c].retry
             /\ entry'[c].state \in {"quiescing", "unloading", "disposed"}
        BY <1>8, <1>10, <2>3 DEF IInv, JobIsTrue
    <2> QED
        BY <1>1, <1>21, <2>1, <2>2, <2>4, <2>5, <2>6, <2>7 DEF IInv, JobIsTrue, PassIn, ReplaceIn
<1> QED BY <1>14, <1>15, <1>16, <1>17, <1>18, <1>19, <1>21, <1>22 DEF IInv

\* An active entry h begins to leave; entries without an instance may be disposed of.
Pushed(h, target) ==
    /\ h \in Entry /\ entry[h].state = "active"
    /\ stack # <<>> => stack[1].step = "consumers"
    /\ target \in {"waiting", "disposed", "failed"}
    /\ stack' = <<[entry |-> h, target |-> target, step |-> "consumers"]>> \o stack
    /\ entry' \in [Entry -> EntryType]
    /\ entry'[h].state = "quiescing" /\ entry'[h].plugin = entry[h].plugin
    /\ entry'[h].inst = entry[h].inst /\ ~entry'[h].retry
    /\ entry'[h].attempts = entry[h].attempts
    /\ \A c \in Entry \ {h} :
          entry'[c] = entry[c] \/ (~Has(c) /\ entry'[c] = Disposed(entry[c]))

LEMMA PushedKeeps ==
    ASSUME IInv, NEW h, NEW target, Pushed(h, target), UNCHANGED <<services, restarts>>
    PROVE  /\ stack' \in Seq(Frame) /\ stack' # <<>>
           /\ InstancesAreHeld' /\ RetriesAreCounted' /\ RegistryIsHeld' /\ FramesAreTrue'
           /\ LeavingAreOnStack'
           /\ Target(h, target)'
           /\ \A c \in Entry \ {h}, t \in {"waiting", "disposed"} : Target(c, t) => Target(c, t)'
           /\ \A c \in Entry : ShouldStop(entry[c])' => c # h /\ ShouldStop(entry[c])
<1>1. /\ h \in Entry /\ entry[h].state = "active"
      /\ stack # <<>> => stack[1].step = "consumers"
      /\ target \in {"waiting", "disposed", "failed"}
      /\ entry' \in [Entry -> EntryType]
      /\ entry'[h].state = "quiescing" /\ entry'[h].plugin = entry[h].plugin
      /\ entry'[h].inst = entry[h].inst /\ ~entry'[h].retry
      /\ entry'[h].attempts = entry[h].attempts
    BY DEF Pushed
<1>2. PICK f : f = [entry |-> h, target |-> target, step |-> "consumers"] OBVIOUS
<1>3. f \in Frame /\ f.entry = h /\ f.target = target /\ f.step = "consumers"
    BY <1>1, <1>2 DEF Frame
<1>4. /\ stack' \in Seq(Frame) /\ stack' # <<>> /\ 1 \in DOMAIN stack' /\ stack'[1] = f
      /\ \A i \in DOMAIN stack : i + 1 \in DOMAIN stack' /\ stack'[i + 1] = stack[i]
      /\ \A i \in DOMAIN stack' :
            i \in Nat /\ 0 < i /\ (i # 1 => i - 1 \in DOMAIN stack /\ stack'[i] = stack[i - 1])
    <2>1. stack \in Seq(Frame) /\ stack' = <<f>> \o stack BY <1>2 DEF IInv, TypeOK, Pushed
    <2> QED BY <1>3, <2>1, PushFacts
<1>5. \A c \in Entry :
         /\ entry'[c].plugin = entry[c].plugin /\ entry'[c].inst = entry[c].inst
         /\ Has(c) /\ c # h => entry'[c] = entry[c]
         /\ ~Has(c) => entry'[c] = entry[c] \/ entry'[c].state = "disposed"
         /\ RetryIsCounted(entry'[c], restarts[c])
    <2> SUFFICES ASSUME NEW c \in Entry
                 PROVE  /\ entry'[c].plugin = entry[c].plugin /\ entry'[c].inst = entry[c].inst
                        /\ Has(c) /\ c # h => entry'[c] = entry[c]
                        /\ ~Has(c) => entry'[c] = entry[c] \/ entry'[c].state = "disposed"
                        /\ RetryIsCounted(entry'[c], restarts[c])
        OBVIOUS
    <2>1. CASE c = h
        <3>1. Has(h) BY <1>1 DEF IInv, InstancesAreHeld
        <3> QED BY <1>1, <2>1, <3>1, EntryFacts DEF RetryIsCounted
    <2>2. CASE c # h
        BY <2>2, EntryFacts, DisposedFacts DEF Pushed
    <2> QED BY <2>1, <2>2
<1>6. Has(h) BY <1>1 DEF IInv, InstancesAreHeld
<1>7. \A c \in Entry : Has(c)' <=> Has(c) BY <1>5 DEF Has
<1>8. \A i \in DOMAIN stack :
         /\ stack[i].entry \in Entry \ {h} /\ Has(stack[i].entry)
         /\ entry'[stack[i].entry] = entry[stack[i].entry]
         /\ i \in Nat /\ 0 < i
         /\ stack[i].step = "consumers" /\ entry[stack[i].entry].state = "quiescing"
    <2> SUFFICES ASSUME NEW i \in DOMAIN stack
                 PROVE  /\ stack[i].entry \in Entry \ {h} /\ Has(stack[i].entry)
                        /\ entry'[stack[i].entry] = entry[stack[i].entry]
                        /\ i \in Nat /\ 0 < i
                        /\ stack[i].step = "consumers" /\ entry[stack[i].entry].state = "quiescing"
        OBVIOUS
    <2>1. stack[i].entry \in Entry /\ i \in Nat /\ 0 < i BY FrameFacts DEF IInv
    <2>2. stack # <<>> OBVIOUS
    <2>3. stack[i].step = "consumers"
        <3>1. CASE i = 1 BY <1>1, <2>2, <3>1
        <3>2. CASE i # 1 BY <3>2 DEF IInv, FramesAreTrue
        <3> QED BY <3>1, <3>2
    <2>4. entry[stack[i].entry].state = "quiescing" BY <2>3 DEF IInv, FramesAreTrue
    <2>5. Has(stack[i].entry) BY <2>1, <2>4 DEF IInv, InstancesAreHeld
    <2>6. stack[i].entry # h BY <1>1, <2>4
    <2> QED BY <1>5, <2>1, <2>3, <2>4, <2>5, <2>6
<1>9. InstancesAreHeld'
    <2> SUFFICES ASSUME NEW c \in Entry
                 PROVE  /\ Has(c)' <=> entry'[c].state \in {"active", "quiescing", "unloading"}
                        /\ Has(c)' => (entry'[c].inst.closed <=> entry'[c].state = "unloading")
        BY DEF InstancesAreHeld
    <2>1. CASE c = h BY <1>1, <1>5, <1>6, <1>7, <2>1 DEF IInv, InstancesAreHeld
    <2>2. CASE c # h BY <1>5, <1>7, <2>2 DEF IInv, InstancesAreHeld
    <2> QED BY <2>1, <2>2
<1>10. RetriesAreCounted' BY <1>5 DEF RetriesAreCounted
<1>11. RegistryIsHeld'
    <2> SUFFICES ASSUME NEW c \in Entry
                 PROVE  /\ ProvidedBy(c) \subseteq Provides[entry'[c].plugin]
                        /\ ~Has(c) => ProvidedBy(c) = {}
                        /\ entry'[c].state \in {"active", "quiescing"} =>
                              ProvidedBy(c) = Provides[entry'[c].plugin]
        BY <1>7 DEF RegistryIsHeld, ProvidedBy
    <2>1. CASE c = h BY <1>1, <1>5, <2>1 DEF IInv, RegistryIsHeld
    <2>2. CASE c # h BY <1>5, <2>2 DEF IInv, RegistryIsHeld
    <2> QED BY <2>1, <2>2
<1>12. FramesAreTrue'
    <2> SUFFICES ASSUME NEW i \in DOMAIN stack'
                 PROVE  /\ stack'[i].step = "consumers"
                        /\ entry'[stack'[i].entry].state = "quiescing"
        BY DEF FramesAreTrue
    <2>1. CASE i = 1 BY <1>1, <1>3, <1>4, <2>1
    <2>2. CASE i # 1
        <3>1. i - 1 \in DOMAIN stack /\ stack'[i] = stack[i - 1] BY <1>4, <2>2
        <3> QED BY <1>8, <3>1
    <2> QED BY <2>1, <2>2
<1>13. LeavingAreOnStack'
    <2>1. ASSUME NEW i \in DOMAIN stack', NEW j \in DOMAIN stack',
                 stack'[i].entry = stack'[j].entry
          PROVE  i = j
        <3>1. \A k \in DOMAIN stack' : k # 1 =>
                 k - 1 \in DOMAIN stack /\ stack'[k].entry = stack[k - 1].entry /\ stack'[k].entry # h
            <4> SUFFICES ASSUME NEW k \in DOMAIN stack', k # 1
                         PROVE  /\ k - 1 \in DOMAIN stack /\ stack'[k].entry = stack[k - 1].entry
                                /\ stack'[k].entry # h
                OBVIOUS
            <4>1. k - 1 \in DOMAIN stack /\ stack'[k] = stack[k - 1] BY <1>4
            <4> QED BY <1>8, <4>1
        <3>2. stack'[1].entry = h BY <1>3, <1>4
        <3>3. i = 1 <=> j = 1 BY <2>1, <3>1, <3>2
        <3>4. CASE i # 1
            <4>1. j # 1 BY <3>3, <3>4
            <4>2. i - 1 = j - 1 BY <2>1, <3>1, <3>4, <4>1 DEF IInv, LeavingAreOnStack
            <4>3. i \in Nat /\ j \in Nat BY <1>4
            <4> QED BY <4>2, <4>3
        <3> QED BY <3>3, <3>4
    <2>2. ASSUME NEW c \in Entry, entry'[c].state \in {"quiescing", "unloading"}
          PROVE  OnStack(c)'
        <3>1. CASE c = h BY <1>3, <1>4, <3>1 DEF OnStack
        <3>2. CASE c # h
            <4>1. entry'[c] = entry[c] BY <1>5, <2>2, <3>2
            <4>2. PICK i \in DOMAIN stack : stack[i].entry = c
                BY <2>2, <4>1 DEF IInv, LeavingAreOnStack, OnStack
            <4>3. i + 1 \in DOMAIN stack' /\ stack'[i + 1] = stack[i] BY <1>4, <4>2
            <4> QED BY <4>2, <4>3 DEF OnStack
        <3> QED BY <3>1, <3>2
    <2> QED BY <2>1, <2>2 DEF LeavingAreOnStack
<1>14. Target(h, target)'
    <2> SUFFICES ASSUME NEW i \in DOMAIN stack', stack'[i].entry = h PROVE stack'[i].target = target
        BY DEF Target
    <2>1. i = 1 BY <1>4, <1>8
    <2> QED BY <1>3, <1>4, <2>1
<1>15. ASSUME NEW c \in Entry \ {h}, NEW t, Target(c, t) PROVE Target(c, t)'
    <2> SUFFICES ASSUME NEW i \in DOMAIN stack', stack'[i].entry = c PROVE stack'[i].target = t
        BY DEF Target
    <2>1. i # 1 BY <1>3, <1>4
    <2>2. i - 1 \in DOMAIN stack /\ stack'[i] = stack[i - 1] BY <1>4, <2>1
    <2> QED BY <1>15, <2>2 DEF Target
<1>16. \A c \in Entry : ShouldStop(entry[c])' => c # h /\ ShouldStop(entry[c])
    <2> SUFFICES ASSUME NEW c \in Entry, ShouldStop(entry[c])' PROVE c # h /\ ShouldStop(entry[c])
        OBVIOUS
    <2>1. entry'[c].state = "active" BY DEF ShouldStop
    <2>2. c # h BY <1>1, <2>1
    <2>3. entry'[c] = entry[c] BY <1>5, <2>1, <2>2
    <2> QED BY <2>2, <2>3 DEF ShouldStop, Supplied, Registered
<1> QED BY <1>4, <1>9, <1>10, <1>11, <1>12, <1>13, <1>14, <1>15, <1>16

LEMMA BeginFacts ==
    ASSUME IInv, NEW h \in Entry, entry[h].state = "active",
           NEW target \in {"waiting", "disposed", "failed"},
           stack # <<>> => stack[1].step = "consumers", BeginUnload(h, target, entry)
    PROVE  /\ Pushed(h, target)
           /\ entry'[h].enabled = entry[h].enabled
           /\ \A c \in Entry \ {h} : entry'[c] = entry[c]
<1>1. entry[h] \in EntryType /\ ~entry[h].retry BY EntryFacts DEF RetryIsCounted
<1>2. PICK x : x = Quiescing(entry[h]) OBVIOUS
<1>3. /\ x \in EntryType /\ x.state = "quiescing" /\ x.plugin = entry[h].plugin
      /\ x.inst = entry[h].inst /\ ~x.retry /\ x.attempts = entry[h].attempts
      /\ x.enabled = entry[h].enabled
    BY <1>1, <1>2 DEF Quiescing, EntryType, State
<1>4. entry' = [entry EXCEPT ![h] = x] BY <1>2 DEF BeginUnload
<1>5. /\ entry' \in [Entry -> EntryType] /\ entry'[h] = x
      /\ \A c \in Entry \ {h} : entry'[c] = entry[c]
    BY <1>3, <1>4, OneEntryChanges DEF IInv
<1> QED BY <1>3, <1>5 DEF Pushed, BeginUnload

LEMMA UnloadConsumerKeeps == ASSUME IInv, UnloadConsumer PROVE IInv'
<1>1. PICK h : h = Max(Consumers(Unloading)) OBVIOUS
<1>2. /\ stack # <<>> /\ Head(stack).step = "consumers" /\ Consumers(Unloading) # {}
      /\ BeginUnload(h, "waiting", entry)
      /\ UNCHANGED <<services, job, closing, restarts, loop, dirty, queue, switches, repairs, faults>>
    BY <1>1 DEF UnloadConsumer, InStep, NoRequest, bounds
<1>3. Consumers(Unloading) \subseteq Entry BY DEF Consumers
<1>4. h \in Entry /\ h \in Consumers(Unloading) BY <1>1, <1>2, <1>3, MaxFacts
<1>5. entry[h].state = "active" BY <1>4 DEF Consumers
<1>6. stack[1].step = "consumers" BY <1>2, HeadFacts
<1>7. Pushed(h, "waiting") /\ \A c \in Entry \ {h} : entry'[c] = entry[c]
    BY <1>2, <1>4, <1>5, <1>6, BeginFacts
<1>8. /\ stack' \in Seq(Frame) /\ stack' # <<>>
      /\ InstancesAreHeld' /\ RetriesAreCounted' /\ RegistryIsHeld' /\ FramesAreTrue'
      /\ LeavingAreOnStack'
      /\ \A c \in Entry \ {h}, t \in {"waiting", "disposed"} : Target(c, t) => Target(c, t)'
      /\ \A c \in Entry : ShouldStop(entry[c])' => ShouldStop(entry[c])
    BY <1>2, <1>7, PushedKeeps
<1>9. TypeOK' BY <1>2, <1>7, <1>8 DEF IInv, TypeOK, Pushed, EntryType
<1>10. LoopIsTrue' /\ NothingIsLeft' /\ closing # "done" BY <1>2, <1>8, UnloadingLeavesNothing
<1>11. JobIsTrue'
    <2>1. \A c \in Entry : entry'[c].state = "loading" <=> entry[c].state = "loading"
        BY <1>5, <1>7 DEF Pushed
    <2>2. ~ReplaceIn("activating") BY <1>2 DEF IInv, JobIsTrue, PassIn, ReplaceIn
    <2>3. ReplaceIn("swap") =>
             /\ entry'[job.entry].state \in {"quiescing", "unloading", "waiting"}
             /\ Target(job.entry, "waiting")'
        <3> SUFFICES ASSUME ReplaceIn("swap")
                     PROVE  /\ entry'[job.entry].state \in {"quiescing", "unloading", "waiting"}
                            /\ Target(job.entry, "waiting")'
            OBVIOUS
        <3>1. /\ job.entry \in Entry /\ Target(job.entry, "waiting")
              /\ entry[job.entry].state \in {"quiescing", "unloading", "waiting"}
            BY JobFacts DEF IInv, JobIsTrue, ReplaceIn
        <3>2. job.entry # h BY <1>5, <3>1
        <3> QED BY <1>2, <1>7, <1>8, <3>1, <3>2
    <2>4. job.kind = "shutdown" => \A c \in Entry : c >= job.at =>
             /\ ~entry'[c].enabled /\ ~entry'[c].retry
             /\ entry'[c].state \in {"quiescing", "unloading", "disposed"}
             /\ Target(c, "disposed")'
        <3> SUFFICES ASSUME job.kind = "shutdown", NEW c \in Entry, c >= job.at
                     PROVE  /\ ~entry'[c].enabled /\ ~entry'[c].retry
                            /\ entry'[c].state \in {"quiescing", "unloading", "disposed"}
                            /\ Target(c, "disposed")'
            OBVIOUS
        <3>1. /\ ~entry[c].enabled /\ ~entry[c].retry /\ Target(c, "disposed")
              /\ entry[c].state \in {"quiescing", "unloading", "disposed"}
            BY DEF IInv, JobIsTrue
        <3>2. c # h BY <1>5, <3>1
        <3> QED BY <1>7, <1>8, <3>1, <3>2
    <2>5. PassIn("stop") \/ ReplaceIn("swap") \/ job.kind = "shutdown"
        BY <1>2 DEF IInv, JobIsTrue
    <2>6. ~PassIn("loading") BY <2>5 DEF PassIn, ReplaceIn
    <2>7. /\ \A c \in Entry : entry[c].state # "loading"
          /\ job.kind = "shutdown" => closing = "closed"
        BY <2>6 DEF IInv, JobIsTrue
    <2> QED
        BY <1>2, <1>10, <2>1, <2>2, <2>3, <2>4, <2>5, <2>6, <2>7 DEF JobIsTrue, PassIn, ReplaceIn
<1> QED BY <1>8, <1>9, <1>10, <1>11 DEF IInv

LEMMA PassStopsKeeps == ASSUME IInv, PassStops PROVE IInv'
<1>1. PICK h : h = Max(ToStop) OBVIOUS
<1>2. PICK target : target = StopTarget(entry[h]) OBVIOUS
<1>3. /\ PassIn("stop") /\ stack = <<>> /\ ToStop # {}
      /\ BeginUnload(h, target, entry) /\ job' = [job EXCEPT !.at = h]
      /\ UNCHANGED <<services, closing, restarts, loop, dirty, queue, switches, repairs, faults>>
    BY <1>1, <1>2 DEF PassStops, InPass, PassIn, NoRequest, bounds
<1>4. ToStop \subseteq Entry BY DEF ToStop
<1>5. h \in ToStop /\ h \in Entry /\ \A c \in ToStop : h >= c BY <1>1, <1>3, <1>4, MaxFacts
<1>6. entry[h].state = "active" BY <1>5 DEF ToStop, ShouldStop
<1>7. target \in {"waiting", "disposed", "failed"}
    <2>1. CASE ~entry[h].enabled BY <1>2, <2>1 DEF StopTarget
    <2>2. CASE entry[h].enabled /\ entry[h].failure BY <1>2, <2>2 DEF StopTarget
    <2>3. CASE entry[h].enabled /\ ~entry[h].failure BY <1>2, <2>3 DEF StopTarget
    <2> QED BY <2>1, <2>2, <2>3
<1>8. Pushed(h, target) /\ \A c \in Entry \ {h} : entry'[c] = entry[c]
    BY <1>3, <1>5, <1>6, <1>7, BeginFacts
<1>9. /\ stack' \in Seq(Frame)
      /\ InstancesAreHeld' /\ RetriesAreCounted' /\ RegistryIsHeld' /\ FramesAreTrue'
      /\ LeavingAreOnStack'
      /\ \A c \in Entry : ShouldStop(entry[c])' => c # h /\ ShouldStop(entry[c])
    BY <1>3, <1>8, PushedKeeps
<1>10. /\ job' \in Job /\ job'.kind = "pass" /\ job'.phase = "stop" /\ job'.at = h
       /\ h \in Nat /\ job.at \in Nat
    <2>1. job \in [kind : {"pass"}, phase : {"stop", "load", "loading"}, at : Nat, lost : BOOLEAN]
        BY <1>3, JobFacts DEF PassIn, IInv
    <2>2. h \in Nat BY <1>5, EntriesAreNumbers
    <2> QED BY <1>3, <2>1, <2>2 DEF PassIn, Job
<1>11. TypeOK' BY <1>3, <1>8, <1>9, <1>10 DEF IInv, TypeOK, Pushed, EntryType
<1>12. \A c \in Entry : entry[c].state # "loading" BY <1>3 DEF IInv, JobIsTrue, PassIn
<1>13. \A c \in Entry : entry'[c].state # "loading" BY <1>8, <1>12 DEF Pushed
<1>14. closing # "done" BY <1>3 DEF IInv, JobIsTrue, PassIn, NoJob
<1>15. JobIsTrue' BY <1>3, <1>10, <1>13, <1>14 DEF JobIsTrue, PassIn, ReplaceIn
<1>16. LoopIsTrue' BY <1>3, <1>10 DEF IInv, LoopIsTrue, PassIn, IsPass
<1>17. NothingIsLeft'
    <2>1. loop BY <1>3 DEF IInv, LoopIsTrue, PassIn
    <2> SUFFICES ASSUME closing = "no", ~dirty, NEW c \in Entry, c >= h, ShouldStop(entry[c])'
                 PROVE  FALSE
        BY <1>3, <1>10, <2>1 DEF NothingIsLeft
    <2>2. c # h /\ ShouldStop(entry[c]) BY <1>9
    <2>3. ~(c >= job.at) BY <1>3, <2>2 DEF IInv, NothingIsLeft
    <2>4. c \in Nat BY EntriesAreNumbers
    <2>5. c < job.at BY <1>10, <2>3, <2>4
    <2>6. c \in ToStop BY <2>2, <2>5 DEF ToStop
    <2>7. h >= c BY <1>5, <2>6
    <2> QED BY <1>10, <2>2, <2>4, <2>7
<1> QED BY <1>9, <1>11, <1>15, <1>16, <1>17 DEF IInv

LEMMA ReplaceUnloadsKeeps == ASSUME IInv, ReplaceUnloads PROVE IInv'
<1>1. PICK h : h = job.entry OBVIOUS
<1>2. /\ ReplaceIn("activating") /\ stack = <<>>
      /\ BeginUnload(h, "waiting", entry) /\ job' = [job EXCEPT !.phase = "swap"]
      /\ UNCHANGED <<services, closing, restarts, loop, dirty, queue, switches, repairs, faults>>
    BY <1>1 DEF ReplaceUnloads, InReplace, ReplaceIn, NoRequest, bounds
<1>3. h \in Entry BY <1>1, <1>2, JobFacts DEF ReplaceIn, IInv
<1>4. entry[h].state = "active" BY <1>1, <1>2 DEF IInv, JobIsTrue
<1>5. Pushed(h, "waiting") /\ \A c \in Entry \ {h} : entry'[c] = entry[c]
    BY <1>2, <1>3, <1>4, BeginFacts
<1>6. /\ stack' \in Seq(Frame)
      /\ InstancesAreHeld' /\ RetriesAreCounted' /\ RegistryIsHeld' /\ FramesAreTrue'
      /\ LeavingAreOnStack' /\ Target(h, "waiting")'
    BY <1>2, <1>5, PushedKeeps
<1>7. job' \in Job /\ job'.kind = "replace" /\ job'.phase = "swap" /\ job'.entry = h
    <2>1. job \in [kind : {"replace"}, entry : Entry, plugin : Plugin,
                   phase : {"activating", "swap"}, lost : BOOLEAN]
        BY <1>2, JobFacts DEF ReplaceIn, IInv
    <2> QED BY <1>1, <1>2, <2>1 DEF Job
<1>8. TypeOK' BY <1>2, <1>5, <1>6, <1>7 DEF IInv, TypeOK, Pushed, EntryType
<1>9. \A c \in Entry : entry'[c].state # "loading"
    BY <1>2, <1>5 DEF IInv, JobIsTrue, PassIn, ReplaceIn, Pushed
<1>10. closing # "done" BY <1>2 DEF IInv, JobIsTrue, ReplaceIn, NoJob
<1>11. entry'[h].state = "quiescing" BY <1>5 DEF Pushed
<1>12. JobIsTrue' BY <1>2, <1>6, <1>7, <1>9, <1>10, <1>11 DEF JobIsTrue, PassIn, ReplaceIn
<1>13. LoopIsTrue' BY <1>2, <1>7 DEF IInv, LoopIsTrue, PassIn, ReplaceIn, IsPass
<1>14. NothingIsLeft' BY <1>7 DEF NothingIsLeft, PassIn, ReplaceIn
<1> QED BY <1>6, <1>8, <1>12, <1>13, <1>14 DEF IInv

\* While nothing is unloaded, whoever has an instance is active.
LEMMA IdleFacts ==
    ASSUME IInv, stack = <<>>, NEW c \in Entry
    PROVE  /\ Has(c) <=> entry[c].state = "active"
           /\ entry[c].state \in {"waiting", "loading", "active", "disposed", "failed"}
<1>1. ~OnStack(c) BY DEF OnStack
<1>2. entry[c].state \in State BY DEF IInv, TypeOK
<1> QED BY <1>1, <1>2 DEF IInv, LeavingAreOnStack, InstancesAreHeld, State

LEMMA ShutdownUnloadsKeeps == ASSUME IInv, ShutdownUnloads PROVE IInv'
<1>1. PICK h : h = Max(StillToShut) OBVIOUS
<1>2. PICK entries : entries = [Shut(job.at, h) EXCEPT ![h].enabled = FALSE, ![h].retry = FALSE]
    OBVIOUS
<1>3. /\ job.kind = "shutdown" /\ stack = <<>> /\ StillToShut # {}
      /\ BeginUnload(h, "disposed", entries) /\ job' = [job EXCEPT !.at = h]
      /\ UNCHANGED <<services, closing, restarts, loop, dirty, queue, switches, repairs, faults>>
    BY <1>1, <1>2 DEF ShutdownUnloads, NoRequest, bounds
<1>4. StillToShut \subseteq Entry BY DEF StillToShut
<1>5. h \in StillToShut /\ h \in Entry /\ \A c \in StillToShut : h >= c
    BY <1>1, <1>3, <1>4, MaxFacts
<1>6. Has(h) /\ h < job.at BY <1>5 DEF StillToShut, Has
<1>7. entry[h].state = "active" BY <1>3, <1>5, <1>6, IdleFacts
<1>8. h \in Nat /\ job.at \in Nat /\ closing = "closed" /\ \A c \in Entry : c \in Nat
    BY <1>3, <1>5, EntriesAreNumbers, JobFacts DEF IInv, JobIsTrue
<1>9. entry[h] \in EntryType BY <1>5, EntryFacts
<1>10. PICK x : x = Quiescing([entry[h] EXCEPT !.enabled = FALSE, !.retry = FALSE]) OBVIOUS
<1>11. /\ x \in EntryType /\ x.state = "quiescing" /\ x.plugin = entry[h].plugin
       /\ x.inst = entry[h].inst /\ ~x.retry /\ ~x.enabled /\ x.attempts = entry[h].attempts
    BY <1>9, <1>10 DEF Quiescing, EntryType, State
<1>12. PICK shut : shut = Shut(job.at, h) OBVIOUS
<1>13. /\ shut \in [Entry -> EntryType] /\ shut[h] = entry[h]
       /\ \A c \in Entry : shut[c] = IF h < c /\ c < job.at THEN Disposed(entry[c]) ELSE entry[c]
    <2>1. shut = [c \in Entry |-> IF h < c /\ c < job.at THEN Disposed(entry[c]) ELSE entry[c]]
        BY <1>12 DEF Shut
    <2>2. ~(h < h) BY <1>8
    <2>3. \A c \in Entry : entry[c] \in EntryType /\ Disposed(entry[c]) \in EntryType
        BY EntryFacts, DisposedFacts
    <2> QED BY <1>5, <2>1, <2>2, <2>3
<1>14. entry' = [shut EXCEPT ![h] = x]
    <2>1. entry' = [entries EXCEPT ![h] = Quiescing(entries[h])] BY <1>3 DEF BeginUnload
    <2>2. entries = [shut EXCEPT ![h] = [entry[h] EXCEPT !.enabled = FALSE, !.retry = FALSE]]
        BY <1>2, <1>5, <1>12, <1>13
    <2>3. entries[h] = [entry[h] EXCEPT !.enabled = FALSE, !.retry = FALSE]
        BY <1>5, <1>13, <2>2
    <2> QED BY <1>10, <1>13, <2>1, <2>2, <2>3
<1>15. /\ entry' \in [Entry -> EntryType] /\ entry'[h] = x
       /\ \A c \in Entry \ {h} : entry'[c] = shut[c]
    BY <1>5, <1>11, <1>13, <1>14
<1>16. \A c \in Entry \ {h} : entry'[c] = entry[c] \/ (~Has(c) /\ entry'[c] = Disposed(entry[c]))
    <2> SUFFICES ASSUME NEW c \in Entry, c # h, h < c, c < job.at PROVE ~Has(c)
        BY <1>13, <1>15
    <2>1. ~(h >= c) BY <1>8
    <2> QED BY <1>5, <2>1 DEF StillToShut, Has
<1>17. Pushed(h, "disposed")
    BY <1>3, <1>5, <1>7, <1>11, <1>15, <1>16 DEF Pushed, BeginUnload
<1>18. /\ stack' \in Seq(Frame) /\ stack' # <<>>
       /\ InstancesAreHeld' /\ RetriesAreCounted' /\ RegistryIsHeld' /\ FramesAreTrue'
       /\ LeavingAreOnStack' /\ Target(h, "disposed")'
       /\ \A c \in Entry \ {h} : Target(c, "disposed") => Target(c, "disposed")'
    BY <1>3, <1>17, PushedKeeps
<1>19. job' \in Job /\ job'.kind = "shutdown" /\ job'.at = h
    <2>1. job \in [kind : {"shutdown"}, at : Nat] BY <1>3, JobFacts DEF IInv
    <2> QED BY <1>3, <1>8, <2>1 DEF Job
<1>20. TypeOK' BY <1>3, <1>15, <1>18, <1>19 DEF IInv, TypeOK, EntryType
<1>21. \A c \in Entry : c >= h =>
          /\ ~entry'[c].enabled /\ ~entry'[c].retry
          /\ entry'[c].state \in {"quiescing", "unloading", "disposed"}
          /\ Target(c, "disposed")'
    <2> SUFFICES ASSUME NEW c \in Entry, c >= h
                 PROVE  /\ ~entry'[c].enabled /\ ~entry'[c].retry
                        /\ entry'[c].state \in {"quiescing", "unloading", "disposed"}
                        /\ Target(c, "disposed")'
        OBVIOUS
    <2>1. CASE c = h BY <1>11, <1>15, <1>18, <2>1
    <2>2. CASE c # h
        <3>1. h < c BY <1>8, <2>2
        <3>2. Target(c, "disposed")' BY <1>3, <1>18, <2>2 DEF Target
        <3>3. CASE c < job.at
            <4>1. entry'[c] = Disposed(entry[c]) BY <1>13, <1>15, <2>2, <3>1, <3>3
            <4> QED BY <3>2, <4>1, EntryFacts, DisposedFacts
        <3>4. CASE ~(c < job.at)
            <4>1. entry'[c] = entry[c] BY <1>13, <1>15, <2>2, <3>4
            <4>2. c >= job.at BY <1>8, <3>4
            <4> QED BY <1>3, <3>2, <4>1, <4>2 DEF IInv, JobIsTrue
        <3> QED BY <3>3, <3>4
    <2> QED BY <2>1, <2>2
<1>22. \A c \in Entry : entry'[c].state # "loading"
    <2>1. \A c \in Entry : entry[c].state # "loading" BY <1>3 DEF IInv, JobIsTrue, PassIn
    <2> QED BY <1>11, <1>15, <1>16, <2>1, EntryFacts, DisposedFacts
<1>23. JobIsTrue' BY <1>3, <1>8, <1>19, <1>21, <1>22 DEF JobIsTrue, PassIn, ReplaceIn
<1>24. LoopIsTrue' BY <1>3, <1>19 DEF IInv, LoopIsTrue, PassIn, IsPass
<1>25. NothingIsLeft' BY <1>3, <1>8 DEF NothingIsLeft
<1> QED BY <1>18, <1>20, <1>23, <1>24, <1>25 DEF IInv

LEMMA ShutdownEndsKeeps == ASSUME IInv, ShutdownEnds PROVE IInv'
<1>1. /\ job.kind = "shutdown" /\ stack = <<>> /\ StillToShut = {}
      /\ entry' = Shut(job.at, 0) /\ job' = NoJob /\ closing' = "done"
      /\ UNCHANGED <<services, stack, restarts, loop, dirty, queue, switches, repairs, faults>>
    BY DEF ShutdownEnds, NoRequest, bounds
<1>2. /\ job.at \in Nat /\ \A c \in Entry : c \in Nat /\ 0 < c
    BY <1>1, EntriesAreNumbers, JobFacts DEF IInv
<1>3. /\ entry' \in [Entry -> EntryType]
      /\ \A c \in Entry :
            /\ entry'[c] = IF c < job.at THEN Disposed(entry[c]) ELSE entry[c]
            /\ entry[c] \in EntryType
    <2>1. entry' = [c \in Entry |-> IF 0 < c /\ c < job.at THEN Disposed(entry[c]) ELSE entry[c]]
        BY <1>1 DEF Shut
    <2>2. \A c \in Entry : entry[c] \in EntryType /\ Disposed(entry[c]) \in EntryType
        BY EntryFacts, DisposedFacts
    <2> QED BY <1>2, <2>1, <2>2
<1>4. \A c \in Entry :
         /\ entry'[c].state = "disposed" /\ ~entry'[c].retry /\ ~Has(c)
         /\ entry'[c].inst = entry[c].inst /\ RetryIsCounted(entry'[c], restarts[c])
    <2> SUFFICES ASSUME NEW c \in Entry
                 PROVE  /\ entry'[c].state = "disposed" /\ ~entry'[c].retry /\ ~Has(c)
                        /\ entry'[c].inst = entry[c].inst /\ RetryIsCounted(entry'[c], restarts[c])
        OBVIOUS
    <2>1. CASE c < job.at
        <3>1. ~Has(c) BY <1>1, <2>1 DEF StillToShut, Has
        <3> QED BY <1>3, <2>1, <3>1, EntryFacts, DisposedFacts
    <2>2. CASE ~(c < job.at)
        <3>1. c >= job.at BY <1>2, <2>2
        <3>2. /\ ~entry[c].retry /\ entry[c].state \in {"quiescing", "unloading", "disposed"}
            BY <1>1, <3>1 DEF IInv, JobIsTrue
        <3>3. entry[c].state = "disposed" /\ ~Has(c) BY <1>1, <3>2, IdleFacts
        <3> QED BY <1>3, <2>2, <3>2, <3>3, EntryFacts
    <2> QED BY <2>1, <2>2
<1>5. NobodyComesOrGoes BY <1>4 DEF NobodyComesOrGoes, Has
<1>6. InstancesAreHeld' /\ RegistryIsHeld' /\ FramesAreTrue' /\ LeavingAreOnStack'
    BY <1>1, <1>5, QuietKeeps
<1>7. RetriesAreCounted' BY <1>1, <1>4 DEF RetriesAreCounted
<1>8. NoJob \in Job /\ NoJob.kind = "idle" BY JobFacts DEF IInv
<1>9. TypeOK' BY <1>1, <1>3, <1>8 DEF IInv, TypeOK, EntryType
<1>10. JobIsTrue' BY <1>1, <1>4, <1>8 DEF JobIsTrue, PassIn, ReplaceIn
<1>11. LoopIsTrue' BY <1>1, <1>8 DEF IInv, LoopIsTrue, PassIn, IsPass
<1>12. NothingIsLeft' BY <1>1 DEF NothingIsLeft
<1> QED BY <1>6, <1>7, <1>9, <1>10, <1>11, <1>12 DEF IInv
-----------------------------------------------------------------------------
(* Passes.                                                                 *)

\* Whom the pass has been at is as it has to be.
LEMMA VisitedIsFixed ==
    ASSUME TypeOK, NEW x \in EntryType,
           x.state \in {"waiting", "active", "disposed", "failed"},
           ~ShouldStop(x), ~ShouldLoad(x)
    PROVE  Fixed(Visited(x))
<1>1. CASE ~x.enabled
    <2>1. x.state # "active" BY <1>1 DEF ShouldStop
    <2>2. CASE x.state = "disposed"
        <3>1. Visited(x) = x BY <1>1, <2>2 DEF Visited
        <3> QED BY <1>1, <2>2, <3>1 DEF Fixed, ShouldStop
    <2>3. CASE x.state \in {"waiting", "failed"}
        <3>1. Visited(x) = Disposed(x) BY <1>1, <2>3 DEF Visited
        <3>2. Disposed(x).state = "disposed" /\ ~Disposed(x).enabled BY DisposedFacts
        <3> QED BY <3>1, <3>2 DEF Fixed, ShouldStop
    <2> QED BY <2>1, <2>2, <2>3
<1>2. CASE x.enabled
    <2>1. CASE x.state \in {"active", "failed"}
        <3>1. Visited(x) = x BY <1>2, <2>1 DEF Visited
        <3> QED BY <1>2, <2>1, <3>1 DEF Fixed
    <2>2. CASE x.state \in {"disposed", "waiting"} /\ x.misconfigured
        <3>1. Visited(x) = [x EXCEPT !.state = "failed", !.attempts = Retries]
            BY <1>2, <2>2 DEF Visited
        <3>2. Visited(x).state = "failed" /\ Visited(x).enabled BY <1>2, <3>1 DEF EntryType
        <3> QED BY <3>2 DEF Fixed, ShouldStop
    <2>3. CASE x.state \in {"disposed", "waiting"} /\ ~x.misconfigured
        <3>1. Visited(x) = [x EXCEPT !.state = "waiting"] BY <1>2, <2>3 DEF Visited
        <3>2. /\ Visited(x).state = "waiting" /\ Visited(x).enabled
              /\ ~Visited(x).misconfigured /\ Visited(x).plugin = x.plugin
            BY <1>2, <2>3, <3>1 DEF EntryType
        <3>3. ~Supplied(x.plugin) BY <1>2, <2>3 DEF ShouldLoad
        <3> QED BY <3>2, <3>3 DEF Fixed, ShouldStop, ShouldLoad
    <2> QED BY <2>1, <2>2, <2>3
<1> QED BY <1>1, <1>2

\* The pass has come to loading: who it looks at, and what becomes of those it passes.
LEMMA SweepFacts ==
    ASSUME IInv, Sweeping, NEW last \in Nat
    PROVE  /\ job.kind = "pass" /\ ~PassIn("loading") /\ stack = <<>> /\ loop
           /\ closing # "done" /\ SweepFrom \in Nat
           /\ SweptUpTo(last) \in [Entry -> EntryType]
           /\ \A c \in Entry :
                 /\ SweptUpTo(last)[c] =
                       IF SweepFrom < c /\ c < last THEN Visited(entry[c]) ELSE entry[c]
                 /\ SweptUpTo(last)[c].inst = entry[c].inst
                 /\ SweptUpTo(last)[c].plugin = entry[c].plugin
                 /\ \/ SweptUpTo(last)[c].state = entry[c].state
                    \/ /\ entry[c].state \in {"waiting", "failed", "disposed"}
                       /\ SweptUpTo(last)[c].state \in {"waiting", "failed", "disposed"}
                 /\ RetryIsCounted(SweptUpTo(last)[c], restarts[c])
                 /\ entry[c].state \in {"waiting", "active", "disposed", "failed"}
<1>1. job.kind = "pass" /\ ~PassIn("loading") /\ stack = <<>>
    BY DEF Sweeping, InPass, PassIn
<1>2. loop /\ closing # "done" /\ SweepFrom \in Nat
    BY <1>1, JobFacts DEF IInv, LoopIsTrue, JobIsTrue, NoJob, SweepFrom
<1>3. \A c \in Entry :
         /\ entry[c] \in EntryType /\ RetryIsCounted(entry[c], restarts[c])
         /\ restarts[c] \in Nat
         /\ entry[c].state \in {"waiting", "active", "disposed", "failed"}
    <2>1. \A c \in Entry : entry[c].state # "loading" BY <1>1 DEF IInv, JobIsTrue
    <2> QED BY <1>1, <2>1, EntryFacts, IdleFacts
<1>4. PICK from : from = SweepFrom OBVIOUS
<1>5. PICK swept : swept = SweptUpTo(last) OBVIOUS
<1>6. swept = [c \in Entry |-> IF from < c /\ c < last THEN Visited(entry[c]) ELSE entry[c]]
    BY <1>4, <1>5 DEF SweptUpTo
<1>7. \A c \in Entry : swept[c] = IF from < c /\ c < last THEN Visited(entry[c]) ELSE entry[c]
    BY <1>6
<1>8. \A c \in Entry :
         /\ swept[c] \in EntryType
         /\ swept[c].inst = entry[c].inst
         /\ swept[c].plugin = entry[c].plugin
         /\ \/ swept[c].state = entry[c].state
            \/ /\ entry[c].state \in {"waiting", "failed", "disposed"}
               /\ swept[c].state \in {"waiting", "failed", "disposed"}
         /\ RetryIsCounted(swept[c], restarts[c])
    BY <1>3, <1>7, VisitedFacts
<1>9. swept \in [Entry -> EntryType] BY <1>6, <1>8
<1> QED BY <1>1, <1>2, <1>3, <1>4, <1>5, <1>7, <1>8, <1>9

LEMMA PassEndsKeeps == ASSUME IInv, PassEnds PROVE IInv'
<1>1. PICK last : last = Len(Profile) + 1 OBVIOUS
<1>2. /\ Sweeping /\ StillToLoad = {} /\ entry' = SweptUpTo(last) /\ job' = NoJob
      /\ PassReturns
      /\ UNCHANGED <<services, stack, closing, restarts, switches, repairs, faults>>
    BY <1>1 DEF PassEnds, bounds
<1>3. last \in Nat /\ \A c \in Entry : c \in Nat /\ 0 < c /\ c < last
    BY <1>1, EntriesAreNumbers
<1>4. /\ job.kind = "pass" /\ ~PassIn("loading") /\ stack = <<>> /\ loop
      /\ closing # "done" /\ SweepFrom \in Nat
      /\ entry' \in [Entry -> EntryType]
      /\ \A c \in Entry :
            /\ entry'[c] = IF SweepFrom < c /\ c < last THEN Visited(entry[c]) ELSE entry[c]
            /\ entry'[c].inst = entry[c].inst
            /\ entry'[c].plugin = entry[c].plugin
            /\ \/ entry'[c].state = entry[c].state
               \/ /\ entry[c].state \in {"waiting", "failed", "disposed"}
                  /\ entry'[c].state \in {"waiting", "failed", "disposed"}
            /\ RetryIsCounted(entry'[c], restarts[c])
            /\ entry[c].state \in {"waiting", "active", "disposed", "failed"}
    BY <1>2, <1>3, SweepFacts
<1>5. NobodyComesOrGoes BY <1>4 DEF NobodyComesOrGoes, Has, IInv, InstancesAreHeld
<1>6. InstancesAreHeld' /\ RegistryIsHeld' /\ FramesAreTrue' /\ LeavingAreOnStack'
    BY <1>2, <1>5, QuietKeeps
<1>7. RetriesAreCounted' BY <1>2, <1>4 DEF RetriesAreCounted
<1>8. NoJob \in Job /\ NoJob.kind = "idle" BY JobFacts DEF IInv
<1>9. \A i \in DOMAIN queue : ~IsPass(i) BY <1>4 DEF IInv, LoopIsTrue
<1>10. /\ queue' \in Seq(Request) /\ loop' \in BOOLEAN /\ dirty' \in BOOLEAN
       /\ \A i, j \in DOMAIN queue' : IsPass(i)' /\ IsPass(j)' => i = j
       /\ ~loop' => ~dirty /\ \A i \in DOMAIN queue' : ~IsPass(i)'
    <2>1. CASE dirty
        <3>1. queue' = Append(queue, [kind |-> "pass"]) /\ dirty' = FALSE /\ loop' = loop
            BY <1>2, <2>1 DEF PassReturns
        <3>2. /\ queue' \in Seq(Request)
              /\ \A i \in DOMAIN queue' :
                    (i \in DOMAIN queue /\ queue'[i] = queue[i]) \/ i = Len(queue) + 1
            BY <3>1, RequestFacts, AppendFacts DEF IInv
        <3>3. \A i \in DOMAIN queue' : IsPass(i)' => i = Len(queue) + 1
            BY <1>9, <3>2 DEF IsPass
        <3>4. \A i, j \in DOMAIN queue' : IsPass(i)' /\ IsPass(j)' => i = j BY <3>3
        <3>5. loop' /\ loop' \in BOOLEAN /\ dirty' \in BOOLEAN BY <1>4, <3>1 DEF IInv, TypeOK
        <3> QED BY <3>2, <3>4, <3>5
    <2>2. CASE ~dirty
        <3>1. loop' = FALSE /\ queue' = queue /\ dirty' = dirty
            BY <1>2, <2>2 DEF PassReturns
        <3> QED BY <1>9, <2>2, <3>1 DEF IsPass, IInv, TypeOK
    <2> QED BY <2>1, <2>2
<1>11. TypeOK' BY <1>2, <1>4, <1>8, <1>10 DEF IInv, TypeOK, EntryType
<1>12. \A c \in Entry : entry'[c].state # "loading" BY <1>4
<1>13. JobIsTrue' BY <1>2, <1>4, <1>8, <1>12 DEF JobIsTrue, PassIn, ReplaceIn
<1>14. LoopIsTrue' BY <1>2, <1>8, <1>10 DEF LoopIsTrue, PassIn
<1>15. NothingIsLeft'
    <2> SUFFICES ASSUME closing = "no", ~loop', NEW c \in Entry PROVE Fixed(entry[c])'
        BY <1>2, <1>8 DEF NothingIsLeft, PassIn
    <2>1. ~dirty BY <1>10
    <2>2. job.phase = "stop" /\ PassIn("stop") /\ ToStop = {}
        BY <1>2, <1>4, <2>1, JobFacts DEF IInv, LoopIsTrue, PassIn, Sweeping, InPass
    <2>3. SweepFrom = 0 BY <2>2 DEF SweepFrom
    <2>4. entry'[c] = Visited(entry[c]) BY <1>3, <1>4, <2>3
    <2>5. ~ShouldLoad(entry[c]) BY <1>2, <1>3, <2>3 DEF StillToLoad
    <2>6. ~ShouldStop(entry[c])
        <3>1. CASE c >= job.at BY <2>1, <2>2, <3>1 DEF IInv, NothingIsLeft
        <3>2. CASE ~(c >= job.at)
            <4>1. job.at \in Nat BY <1>4, JobFacts DEF IInv
            <4>2. c < job.at BY <1>3, <3>2, <4>1
            <4> QED BY <2>2, <4>2 DEF ToStop
        <3> QED BY <3>1, <3>2
    <2>7. Fixed(Visited(entry[c])) BY <1>4, <2>5, <2>6, EntryFacts, VisitedIsFixed DEF IInv
    <2> QED
        BY <1>2, <2>4, <2>7 DEF Fixed, ShouldStop, ShouldLoad, Supplied, Registered
<1> QED BY <1>6, <1>7, <1>11, <1>13, <1>14, <1>15 DEF IInv

LEMMA PassLoadsKeeps == ASSUME IInv, PassLoads PROVE IInv'
<1>1. PICK h : h = Min(StillToLoad) OBVIOUS
<1>2. /\ Sweeping /\ StillToLoad # {}
      /\ entry' = [SweptUpTo(h) EXCEPT ![h].state = "loading"]
      /\ job' = [job EXCEPT !.phase = "loading", !.at = h, !.lost = FALSE]
      /\ UNCHANGED <<services, stack, closing, restarts, loop, dirty, queue, switches, repairs, faults>>
    BY <1>1 DEF PassLoads, NoRequest, bounds
<1>3. StillToLoad \subseteq Entry BY DEF StillToLoad
<1>4. h \in StillToLoad /\ h \in Entry BY <1>1, <1>2, <1>3, MinFacts
<1>5. h \in Nat /\ ShouldLoad(entry[h]) BY <1>4, EntriesAreNumbers DEF StillToLoad
<1>6. PICK swept : swept = SweptUpTo(h) OBVIOUS
<1>7. /\ job.kind = "pass" /\ ~PassIn("loading") /\ stack = <<>> /\ loop
      /\ closing # "done"
      /\ swept \in [Entry -> EntryType]
      /\ \A c \in Entry :
            /\ swept[c] = IF SweepFrom < c /\ c < h THEN Visited(entry[c]) ELSE entry[c]
            /\ swept[c].inst = entry[c].inst
            /\ swept[c].plugin = entry[c].plugin
            /\ \/ swept[c].state = entry[c].state
               \/ /\ entry[c].state \in {"waiting", "failed", "disposed"}
                  /\ swept[c].state \in {"waiting", "failed", "disposed"}
            /\ RetryIsCounted(swept[c], restarts[c])
            /\ entry[c].state \in {"waiting", "active", "disposed", "failed"}
    BY <1>2, <1>5, <1>6, SweepFacts
<1>8. swept[h] = entry[h]
    <2>1. ~(h < h) BY <1>5
    <2> QED BY <1>4, <1>7, <2>1
<1>9. PICK x : x = [entry[h] EXCEPT !.state = "loading"] OBVIOUS
<1>10. /\ x \in EntryType /\ x.state = "loading" /\ x.inst = entry[h].inst
       /\ x.plugin = entry[h].plugin /\ x.attempts = entry[h].attempts
       /\ x.retry = entry[h].retry
    BY <1>4, <1>9, EntryFacts DEF EntryType, State
<1>11. /\ entry' \in [Entry -> EntryType] /\ entry'[h] = x
       /\ \A c \in Entry \ {h} : entry'[c] = swept[c]
    <2>1. entry' = [swept EXCEPT ![h] = x] BY <1>2, <1>4, <1>6, <1>7, <1>8, <1>9
    <2> QED BY <1>4, <1>7, <1>10, <2>1
<1>12. entry[h].state \in {"disposed", "waiting"} BY <1>5 DEF ShouldLoad
<1>13. RetryIsCounted(x, restarts[h])
    <2>1. RetryIsCounted(entry[h], restarts[h]) BY <1>4, EntryFacts
    <2> QED BY <1>10, <1>12, <2>1 DEF RetryIsCounted
<1>14. \A c \in Entry :
          /\ entry'[c].inst = entry[c].inst /\ entry'[c].plugin = entry[c].plugin
          /\ entry'[c].state = "loading" <=> c = h
          /\ \/ entry'[c].state = entry[c].state
             \/ /\ entry[c].state \in {"waiting", "failed", "disposed"}
                /\ entry'[c].state \in {"waiting", "failed", "disposed", "loading"}
          /\ RetryIsCounted(entry'[c], restarts[c])
    <2> SUFFICES ASSUME NEW c \in Entry
                 PROVE  /\ entry'[c].inst = entry[c].inst /\ entry'[c].plugin = entry[c].plugin
                        /\ entry'[c].state = "loading" <=> c = h
                        /\ \/ entry'[c].state = entry[c].state
                           \/ /\ entry[c].state \in {"waiting", "failed", "disposed"}
                              /\ entry'[c].state \in {"waiting", "failed", "disposed", "loading"}
                        /\ RetryIsCounted(entry'[c], restarts[c])
        OBVIOUS
    <2>1. CASE c = h BY <1>10, <1>11, <1>12, <1>13, <2>1
    <2>2. CASE c # h BY <1>7, <1>11, <2>2
    <2> QED BY <2>1, <2>2
<1>15. NobodyComesOrGoes BY <1>7, <1>14 DEF NobodyComesOrGoes, Has, IInv, InstancesAreHeld
<1>16. InstancesAreHeld' /\ RegistryIsHeld' /\ FramesAreTrue' /\ LeavingAreOnStack'
    BY <1>2, <1>15, QuietKeeps
<1>17. RetriesAreCounted' BY <1>2, <1>14 DEF RetriesAreCounted
<1>18. job' \in Job /\ job'.kind = "pass" /\ job'.phase = "loading" /\ job'.at = h
    <2>1. job \in [kind : {"pass"}, phase : {"stop", "load", "loading"}, at : Nat, lost : BOOLEAN]
        BY <1>7, JobFacts DEF IInv
    <2> QED BY <1>2, <1>5, <2>1 DEF Job
<1>19. TypeOK' BY <1>2, <1>11, <1>18 DEF IInv, TypeOK, EntryType
<1>20. JobIsTrue' BY <1>2, <1>4, <1>7, <1>14, <1>18 DEF JobIsTrue, PassIn, ReplaceIn
<1>21. LoopIsTrue' BY <1>2, <1>7, <1>18 DEF IInv, LoopIsTrue, PassIn, IsPass
<1>22. NothingIsLeft' BY <1>2, <1>7, <1>18 DEF NothingIsLeft, PassIn
<1> QED BY <1>16, <1>17, <1>19, <1>20, <1>21, <1>22 DEF IInv

LEMMA LoadFailsKeeps == ASSUME IInv, LoadFails PROVE IInv'
<1>1. PICK h : h = job.at OBVIOUS
<1>2. /\ PassIn("loading") /\ stack = <<>>
      /\ entry' = [entry EXCEPT ![h] = Failed(entry[h])]
      /\ job' = [job EXCEPT !.phase = "load"] /\ dirty' = TRUE
      /\ faults' = faults \/ (faults < MaxFaults /\ faults' = faults + 1)
      /\ UNCHANGED <<services, stack, queue, loop, closing, restarts, switches, repairs>>
    BY <1>1 DEF LoadFails, InPass, PassIn
<1>3. h \in Entry /\ entry[h].state = "loading" BY <1>1, <1>2 DEF IInv, JobIsTrue
<1>4. /\ entry' \in [Entry -> EntryType] /\ entry'[h] = Failed(entry[h])
      /\ \A c \in Entry \ {h} : entry'[c] = entry[c]
    BY <1>2, <1>3, EntryFacts, FailedFacts, OneEntryChanges DEF IInv
<1>5. /\ entry'[h].state = "failed" /\ entry'[h].inst = entry[h].inst
      /\ RetryIsCounted(entry'[h], restarts[h])
    BY <1>3, <1>4, EntryFacts, FailedFacts DEF RetryIsCounted
<1>6. NobodyComesOrGoes
    BY <1>3, <1>4, <1>5 DEF NobodyComesOrGoes, Has, IInv, InstancesAreHeld
<1>7. InstancesAreHeld' /\ RegistryIsHeld' /\ FramesAreTrue' /\ LeavingAreOnStack'
    BY <1>2, <1>6, QuietKeeps
<1>8. RetriesAreCounted' BY <1>2, <1>4, <1>5 DEF IInv, RetriesAreCounted
<1>9. job' \in Job /\ job'.kind = "pass" /\ job'.phase = "load"
    <2>1. job \in [kind : {"pass"}, phase : {"stop", "load", "loading"}, at : Nat, lost : BOOLEAN]
        BY <1>2, JobFacts DEF IInv, PassIn
    <2> QED BY <1>2, <2>1 DEF Job
<1>10. faults' \in 0 .. MaxFaults BY <1>2, BoundsKeep DEF IInv, TypeOK
<1>11. TypeOK' BY <1>2, <1>4, <1>9, <1>10 DEF IInv, TypeOK, EntryType
<1>12. \A c \in Entry : entry'[c].state # "loading"
    BY <1>1, <1>2, <1>4, <1>5 DEF IInv, JobIsTrue
<1>13. closing # "done" /\ loop
    BY <1>2 DEF IInv, JobIsTrue, LoopIsTrue, PassIn, NoJob
<1>14. JobIsTrue' BY <1>2, <1>9, <1>12, <1>13 DEF JobIsTrue, PassIn, ReplaceIn
<1>15. LoopIsTrue' BY <1>2, <1>9, <1>13 DEF IInv, LoopIsTrue, PassIn, IsPass
<1>16. NothingIsLeft' BY <1>2, <1>9, <1>13 DEF NothingIsLeft, PassIn
<1> QED BY <1>7, <1>8, <1>11, <1>14, <1>15, <1>16 DEF IInv
-----------------------------------------------------------------------------
(* Publication.                                                            *)

\* The plugin of an entry without an instance becomes its instance, its services free.
LEMMA PublishedKeeps ==
    ASSUME IInv, stack = <<>>, NEW h \in Entry, ~Has(h), NEW plugin \in Plugin,
           ~Conflicts(h, plugin), services' = Published(h, plugin),
           NEW lost \in BOOLEAN, NEW x \in EntryType, x.plugin = plugin, x.state = "active",
           x.inst = Fresh(lost), x.attempts = entry[h].attempts, ~x.retry,
           entry' = [entry EXCEPT ![h] = x], UNCHANGED <<stack, restarts>>
    PROVE  /\ services' \in [Service -> Entry \cup {None}]
           /\ Registered' = Registered \cup Provides[plugin]
           /\ entry' \in [Entry -> EntryType] /\ entry'[h] = x
           /\ \A c \in Entry \ {h} : entry'[c] = entry[c]
           /\ InstancesAreHeld' /\ RetriesAreCounted' /\ RegistryIsHeld' /\ FramesAreTrue'
           /\ LeavingAreOnStack'
<1>1. /\ services \in [Service -> Entry \cup {None}] /\ None \notin Entry
      /\ Provides[plugin] \subseteq Service
    BY NoneAssumption, PluginKernelAssumption DEF IInv, TypeOK
<1>2. /\ services' = [s \in Service |-> IF s \in Provides[plugin] THEN h ELSE services[s]]
      /\ \A s \in Provides[plugin] : services[s] \in {None, h}
    BY DEF Published, Conflicts
<1>3. ProvidedBy(h) = {} BY DEF IInv, RegistryIsHeld
<1>4. services' \in [Service -> Entry \cup {None}] BY <1>1, <1>2
<1>5. Registered' = Registered \cup Provides[plugin] BY <1>1, <1>2 DEF Registered
<1>6. ProvidedBy(h)' = Provides[plugin] BY <1>1, <1>2, <1>3 DEF ProvidedBy
<1>7. \A c \in Entry \ {h} : ProvidedBy(c)' = ProvidedBy(c) BY <1>1, <1>2 DEF ProvidedBy
<1>8. /\ entry' \in [Entry -> EntryType] /\ entry'[h] = x
      /\ \A c \in Entry \ {h} : entry'[c] = entry[c]
    BY OneEntryChanges DEF IInv
<1>9. x.inst # None /\ ~x.inst.closed BY FreshFacts
<1>10. InstancesAreHeld'
    <2> SUFFICES ASSUME NEW c \in Entry
                 PROVE  /\ Has(c)' <=> entry'[c].state \in {"active", "quiescing", "unloading"}
                        /\ Has(c)' => (entry'[c].inst.closed <=> entry'[c].state = "unloading")
        BY DEF InstancesAreHeld
    <2>1. CASE c = h BY <1>8, <1>9, <2>1 DEF Has
    <2>2. CASE c # h BY <1>8, <2>2 DEF IInv, InstancesAreHeld, Has
    <2> QED BY <2>1, <2>2
<1>11. RetriesAreCounted'
    <2>1. RetryIsCounted(x, restarts[h]) BY EntryFacts DEF RetryIsCounted
    <2> QED BY <1>8, <2>1 DEF IInv, RetriesAreCounted
<1>12. RegistryIsHeld'
    <2> SUFFICES ASSUME NEW c \in Entry
                 PROVE  /\ ProvidedBy(c)' \subseteq Provides[entry'[c].plugin]
                        /\ ~Has(c)' => ProvidedBy(c)' = {}
                        /\ entry'[c].state \in {"active", "quiescing"} =>
                              ProvidedBy(c)' = Provides[entry'[c].plugin]
        BY DEF RegistryIsHeld
    <2>1. CASE c = h BY <1>6, <1>8, <1>9, <2>1 DEF Has
    <2>2. CASE c # h BY <1>7, <1>8, <2>2 DEF IInv, RegistryIsHeld, Has
    <2> QED BY <2>1, <2>2
<1>13. FramesAreTrue' BY DEF FramesAreTrue
<1>14. LeavingAreOnStack'
    <2>1. \A c \in Entry : entry'[c].state \notin {"quiescing", "unloading"}
        BY <1>8, IdleFacts
    <2> QED BY <2>1 DEF LeavingAreOnStack
<1> QED BY <1>4, <1>5, <1>8, <1>10, <1>11, <1>12, <1>13, <1>14

LEMMA LoadsKeeps == ASSUME IInv, Loads PROVE IInv'
<1>1. PICK h, plugin : h = job.at /\ plugin = entry[h].plugin OBVIOUS
<1>2. /\ PassIn("loading") /\ stack = <<>>
      /\ ~Conflicts(h, plugin) /\ services' = Published(h, plugin)
      /\ entry' = [entry EXCEPT ![h].state = "active", ![h].inst = Fresh(job.lost)]
      /\ job' = [job EXCEPT !.phase = "load"] /\ dirty' = TRUE
      /\ UNCHANGED <<stack, queue, loop, closing, restarts, switches, repairs, faults>>
    BY <1>1 DEF Loads, InPass, PassIn, bounds
<1>3. h \in Entry /\ entry[h].state = "loading" /\ ~Has(h)
    BY <1>1, <1>2 DEF IInv, JobIsTrue, InstancesAreHeld
<1>4. entry[h] \in EntryType /\ plugin \in Plugin /\ ~entry[h].retry
    BY <1>1, <1>3, EntryFacts DEF RetryIsCounted, EntryType
<1>5. PICK lost \in BOOLEAN : lost = job.lost BY <1>2, JobFacts DEF IInv, PassIn
<1>6. PICK x : x = [entry[h] EXCEPT !.state = "active", !.inst = Fresh(lost)] OBVIOUS
<1>7. /\ x \in EntryType /\ x.plugin = plugin /\ x.state = "active" /\ x.inst = Fresh(lost)
      /\ x.attempts = entry[h].attempts /\ ~x.retry
    BY <1>1, <1>4, <1>6, FreshFacts DEF EntryType, State
<1>8. entry' = [entry EXCEPT ![h] = x]
    BY <1>2, <1>3, <1>5, <1>6, EntriesAreTyped DEF IInv, EntryType
<1>9. /\ services' \in [Service -> Entry \cup {None}]
      /\ entry' \in [Entry -> EntryType] /\ entry'[h] = x
      /\ \A c \in Entry \ {h} : entry'[c] = entry[c]
      /\ InstancesAreHeld' /\ RetriesAreCounted' /\ RegistryIsHeld' /\ FramesAreTrue'
      /\ LeavingAreOnStack'
    BY <1>2, <1>3, <1>4, <1>7, <1>8, PublishedKeeps
<1>10. job' \in Job /\ job'.kind = "pass" /\ job'.phase = "load"
    <2>1. job \in [kind : {"pass"}, phase : {"stop", "load", "loading"}, at : Nat, lost : BOOLEAN]
        BY <1>2, JobFacts DEF IInv, PassIn
    <2> QED BY <1>2, <2>1 DEF Job
<1>11. TypeOK' BY <1>2, <1>9, <1>10 DEF IInv, TypeOK, EntryType
<1>12. \A c \in Entry : entry'[c].state # "loading"
    BY <1>1, <1>2, <1>7, <1>9 DEF IInv, JobIsTrue
<1>13. closing # "done" /\ loop
    BY <1>2 DEF IInv, JobIsTrue, LoopIsTrue, PassIn, NoJob
<1>14. JobIsTrue' BY <1>2, <1>10, <1>12, <1>13 DEF JobIsTrue, PassIn, ReplaceIn
<1>15. LoopIsTrue' BY <1>2, <1>10, <1>13 DEF IInv, LoopIsTrue, PassIn, IsPass
<1>16. NothingIsLeft' BY <1>2, <1>10, <1>13 DEF NothingIsLeft, PassIn
<1> QED BY <1>9, <1>11, <1>14, <1>15, <1>16 DEF IInv

LEMMA ReplaceSwapsKeeps == ASSUME IInv, ReplaceSwaps PROVE IInv'
<1>1. PICK h, plugin : h = job.entry /\ plugin = job.plugin OBVIOUS
<1>2. /\ ReplaceIn("swap") /\ stack = <<>> /\ job' = NoJob /\ RequestReconcile
      /\ UNCHANGED <<stack, closing, restarts, switches, repairs, faults>>
    BY DEF ReplaceSwaps, InReplace, ReplaceIn, bounds
<1>3. h \in Entry /\ plugin \in Plugin /\ job.lost \in BOOLEAN
    BY <1>1, <1>2, JobFacts DEF IInv, ReplaceIn
<1>4. entry[h].state = "waiting" /\ ~Has(h)
    <2>1. entry[h].state \in {"quiescing", "unloading", "waiting"}
        BY <1>1, <1>2 DEF IInv, JobIsTrue
    <2> QED BY <1>2, <1>3, <2>1, IdleFacts
<1>5. /\ loop' \in BOOLEAN /\ dirty' \in BOOLEAN /\ queue' \in Seq(Request)
      /\ LoopIsTrue' /\ NothingIsLeft'
    BY <1>2, RequestKeeps DEF IInv
<1>6. NoJob \in Job /\ NoJob.kind = "idle" BY JobFacts DEF IInv
<1>7. \A c \in Entry : entry[c].state # "loading"
    BY <1>2 DEF IInv, JobIsTrue, PassIn, ReplaceIn
<1>8. closing # "done" BY <1>2 DEF IInv, JobIsTrue, ReplaceIn, NoJob
<1>9. CASE Conflicts(h, plugin)
    <2>1. UNCHANGED <<entry, services>> BY <1>1, <1>9 DEF ReplaceSwaps
    <2>2. TypeOK' BY <1>2, <1>5, <1>6, <2>1 DEF IInv, TypeOK
    <2>3. JobIsTrue' BY <1>2, <1>6, <1>7, <1>8, <2>1 DEF JobIsTrue, PassIn, ReplaceIn
    <2> QED BY <1>2, <1>5, <2>1, <2>2, <2>3, SameEntriesKeep DEF IInv
<1>10. CASE ~Conflicts(h, plugin)
    <2>1. /\ services' = Published(h, plugin)
          /\ entry' = [entry EXCEPT ![h].plugin = plugin, ![h].misconfigured = FALSE,
                                    ![h].state = "active", ![h].inst = Fresh(job.lost)]
        BY <1>1, <1>10 DEF ReplaceSwaps
    <2>2. entry[h] \in EntryType /\ ~entry[h].retry
        BY <1>3, <1>4, EntryFacts DEF RetryIsCounted
    <2>3. PICK lost \in BOOLEAN : lost = job.lost BY <1>3
    <2>4. PICK x : x = [entry[h] EXCEPT !.plugin = plugin, !.misconfigured = FALSE,
                                        !.state = "active", !.inst = Fresh(lost)]
        OBVIOUS
    <2>5. /\ x \in EntryType /\ x.plugin = plugin /\ x.state = "active" /\ x.inst = Fresh(lost)
          /\ x.attempts = entry[h].attempts /\ ~x.retry
        BY <1>3, <2>2, <2>4, FreshFacts DEF EntryType, State
    <2>6. entry' = [entry EXCEPT ![h] = x]
        BY <1>3, <2>1, <2>3, <2>4, EntriesAreTyped DEF IInv, EntryType
    <2>7. /\ services' \in [Service -> Entry \cup {None}]
          /\ entry' \in [Entry -> EntryType] /\ entry'[h] = x
          /\ \A c \in Entry \ {h} : entry'[c] = entry[c]
          /\ InstancesAreHeld' /\ RetriesAreCounted' /\ RegistryIsHeld' /\ FramesAreTrue'
          /\ LeavingAreOnStack'
        BY <1>2, <1>3, <1>4, <1>10, <2>1, <2>5, <2>6, PublishedKeeps
    <2>8. TypeOK' BY <1>2, <1>5, <1>6, <2>7 DEF IInv, TypeOK, EntryType
    <2>9. \A c \in Entry : entry'[c].state # "loading" BY <1>7, <2>5, <2>7
    <2>10. JobIsTrue' BY <1>2, <1>6, <1>8, <2>9 DEF JobIsTrue, PassIn, ReplaceIn
    <2> QED BY <1>5, <2>7, <2>8, <2>10 DEF IInv
<1> QED BY <1>9, <1>10

LEMMA StartReplaceIdleKeeps == ASSUME IInv, StartReplaceIdle PROVE IInv'
<1>1. PICK h, d : h = Head(queue).entry /\ d = Head(queue).plugin OBVIOUS
<1>2. PICK y : y = [entry[h] EXCEPT !.plugin = d, !.misconfigured = FALSE] OBVIOUS
<1>3. PICK x : x = IF y.state = "failed" THEN GivenAnother(y) ELSE y OBVIOUS
<1>4. PICK n : n = IF entry[h].state = "failed" THEN 0 ELSE restarts[h] OBVIOUS
<1>5. /\ job = NoJob /\ queue # <<>> /\ Head(queue).kind = "replace"
      /\ closing = "no" /\ entry[h].state # "active"
      /\ entry' = [entry EXCEPT ![h] = x]
      /\ restarts' = [restarts EXCEPT ![h] = n]
      /\ IF loop THEN dirty' = TRUE /\ queue' = Tail(queue) /\ loop' = loop
         ELSE /\ loop' = TRUE /\ dirty' = FALSE
              /\ queue' = Append(Tail(queue), [kind |-> "pass"])
      /\ UNCHANGED <<services, job, stack, closing, switches, repairs, faults>>
    BY <1>1, <1>2, <1>3, <1>4 DEF StartReplaceIdle, bounds
<1>6. /\ Tail(queue) \in Seq(Request) /\ Head(queue) = queue[1] /\ 1 \in DOMAIN queue
      /\ \A i, j \in DOMAIN Tail(queue) :
            Tail(queue)[i].kind = "pass" /\ Tail(queue)[j].kind = "pass" => i = j
      /\ ~loop => \A i \in DOMAIN Tail(queue) : Tail(queue)[i].kind # "pass"
    BY <1>5, DequeueFacts
<1>7. h \in Entry /\ d \in Plugin BY <1>1, <1>5, <1>6, RequestFacts DEF IInv, IsPass
<1>8. /\ stack = <<>> /\ ~Has(h)
      /\ \A c \in Entry : entry[c].state \in {"waiting", "active", "disposed", "failed"}
    BY <1>5, <1>7, NoJobFacts DEF IInv, InstancesAreHeld
<1>9. entry[h] \in EntryType /\ RetryIsCounted(entry[h], restarts[h]) /\ restarts[h] \in Nat
    BY <1>7, EntryFacts
<1>10. /\ y \in EntryType /\ y.state = entry[h].state /\ y.inst = entry[h].inst
       /\ y.attempts = entry[h].attempts /\ y.retry = entry[h].retry
    BY <1>2, <1>7, <1>9 DEF EntryType
<1>11. /\ x \in EntryType /\ x.inst = entry[h].inst /\ n \in Nat /\ RetryIsCounted(x, n)
       /\ x.state \in {"waiting", "disposed", "failed"}
    <2>1. CASE y.state = "failed"
        BY <1>3, <1>4, <1>10, <2>1, GivenAnotherFacts
    <2>2. CASE y.state # "failed"
        BY <1>3, <1>4, <1>5, <1>7, <1>8, <1>9, <1>10, <2>2 DEF RetryIsCounted
    <2> QED BY <2>1, <2>2
<1>12. /\ entry' \in [Entry -> EntryType] /\ entry'[h] = x
       /\ \A c \in Entry \ {h} : entry'[c] = entry[c]
    BY <1>5, <1>7, <1>11, OneEntryChanges DEF IInv
<1>13. /\ restarts' \in [Entry -> Nat] /\ restarts'[h] = n
       /\ \A c \in Entry \ {h} : restarts'[c] = restarts[c]
    BY <1>5, <1>7, <1>11, EntriesAreTyped DEF IInv
<1>14. NobodyComesOrGoes
    BY <1>8, <1>11, <1>12 DEF NobodyComesOrGoes, Has, IInv, InstancesAreHeld
<1>15. InstancesAreHeld' /\ RegistryIsHeld' /\ FramesAreTrue' /\ LeavingAreOnStack'
    BY <1>5, <1>14, QuietKeeps
<1>16. RetriesAreCounted' BY <1>11, <1>12, <1>13 DEF IInv, RetriesAreCounted
<1>17. /\ queue' \in Seq(Request) /\ loop' /\ loop' \in BOOLEAN /\ dirty' \in BOOLEAN
       /\ \A i, j \in DOMAIN queue' : IsPass(i)' /\ IsPass(j)' => i = j
    <2>1. CASE loop BY <1>5, <1>6, <2>1 DEF IInv, TypeOK, IsPass
    <2>2. CASE ~loop
        <3>1. /\ queue' \in Seq(Request)
              /\ \A i \in DOMAIN queue' :
                    (i \in DOMAIN Tail(queue) /\ queue'[i] = Tail(queue)[i])
                      \/ i = Len(Tail(queue)) + 1
            <4>1. [kind |-> "pass"] \in Request BY DEF Request
            <4>2. queue' = Append(Tail(queue), [kind |-> "pass"]) BY <1>5, <2>2
            <4> QED BY <1>6, <4>1, <4>2, AppendFacts
        <3>2. \A i \in DOMAIN queue' : IsPass(i)' => i = Len(Tail(queue)) + 1
            BY <1>6, <2>2, <3>1 DEF IsPass
        <3>3. \A i, j \in DOMAIN queue' : IsPass(i)' /\ IsPass(j)' => i = j BY <3>2
        <3> QED BY <1>5, <2>2, <3>1, <3>3
    <2> QED BY <2>1, <2>2
<1>18. TypeOK' BY <1>5, <1>12, <1>13, <1>17 DEF IInv, TypeOK, EntryType
<1>19. \A c \in Entry : entry'[c].state # "loading" BY <1>8, <1>11, <1>12
<1>20. JobIsTrue' BY <1>5, <1>8, <1>19 DEF JobIsTrue, PassIn, ReplaceIn, NoJob
<1>21. LoopIsTrue' BY <1>5, <1>17 DEF LoopIsTrue, PassIn, NoJob
<1>22. NothingIsLeft' BY <1>5, <1>17 DEF NothingIsLeft, PassIn, NoJob
<1> QED BY <1>15, <1>16, <1>18, <1>20, <1>21, <1>22 DEF IInv
-----------------------------------------------------------------------------
(* What holds whatever the plugins need of each other.                     *)

LEMMA InitHolds == ASSUME Init PROVE IInv
<1>1. /\ Profile \in Seq(Plugin) /\ Retries \in Nat
      /\ MaxSwitches \in Nat /\ MaxRepairs \in Nat /\ MaxFaults \in Nat
      /\ \A e \in Entry : Profile[e] \in Plugin
    BY PluginKernelAssumption DEF Entry
<1>2. \A e \in Entry :
         /\ entry[e] \in EntryType /\ entry[e].state \in {"waiting", "disposed"}
         /\ entry[e].inst = None /\ entry[e].attempts = 0 /\ ~entry[e].retry
         /\ restarts[e] = 0
    BY <1>1 DEF Init, EntryType, State
<1>3. entry \in [Entry -> EntryType] /\ restarts \in [Entry -> Nat]
    <2>1. DOMAIN entry = Entry /\ entry = [e \in Entry |-> entry[e]] BY DEF Init
    <2> QED BY <1>2, <2>1 DEF Init
<1>4. /\ stack = <<>> /\ job = NoJob /\ loop = TRUE /\ dirty = FALSE /\ closing = "no"
      /\ switches = 0 /\ repairs = 0 /\ faults = 0
      /\ queue = <<[kind |-> "pass"]>>
    BY DEF Init
<1>5. services \in [Service -> Entry \cup {None}] BY DEF Init
<1>6. stack \in Seq(Frame) BY <1>4
<1>7. queue \in Seq(Request) /\ DOMAIN queue = {1} BY <1>4 DEF Request
<1>8. job \in Job BY <1>4 DEF Job, NoJob
<1>9. TypeOK
    <2>1. switches \in 0 .. MaxSwitches /\ repairs \in 0 .. MaxRepairs /\ faults \in 0 .. MaxFaults
        BY <1>1, <1>4
    <2>2. loop \in BOOLEAN /\ dirty \in BOOLEAN /\ closing \in {"no", "closed", "done"}
        BY <1>4
    <2> QED BY <1>3, <1>5, <1>6, <1>7, <1>8, <2>1, <2>2 DEF TypeOK, EntryType
<1>10. InstancesAreHeld BY <1>2 DEF InstancesAreHeld, Has
<1>11. RetriesAreCounted BY <1>1, <1>2 DEF RetriesAreCounted, RetryIsCounted
<1>12. RegistryIsHeld
    <2>1. \A e \in Entry : ProvidedBy(e) = {} BY NoneAssumption DEF Init, ProvidedBy
    <2> QED BY <1>2, <2>1 DEF RegistryIsHeld
<1>13. FramesAreTrue /\ LeavingAreOnStack
    BY <1>2, <1>4 DEF FramesAreTrue, LeavingAreOnStack
<1>14. JobIsTrue BY <1>2, <1>4 DEF JobIsTrue, PassIn, ReplaceIn, NoJob
<1>15. LoopIsTrue BY <1>4, <1>7 DEF LoopIsTrue, PassIn, NoJob
<1>16. NothingIsLeft BY <1>4 DEF NothingIsLeft, PassIn, NoJob
<1> QED BY <1>9, <1>10, <1>11, <1>12, <1>13, <1>14, <1>15, <1>16 DEF IInv

LEMMA StutterKeeps == ASSUME IInv, UNCHANGED vars PROVE IInv'
<1>1. UNCHANGED <<entry, services, job, stack, queue, loop, dirty, closing, restarts,
                  switches, repairs, faults>>
    BY DEF vars
<1>2. TypeOK' BY <1>1 DEF IInv, TypeOK
<1>3. JobIsTrue' BY <1>1 DEF IInv, JobIsTrue, PassIn, ReplaceIn, Target
<1>4. LoopIsTrue' BY <1>1 DEF IInv, LoopIsTrue, PassIn, IsPass
<1>5. NothingIsLeft' BY <1>1, SameEntriesKeep DEF IInv, NothingIsLeft, PassIn, ReplaceIn
<1> QED BY <1>1, <1>2, <1>3, <1>4, <1>5, SameEntriesKeep DEF IInv

LEMMA NextKeeps == ASSUME IInv, [Next]_vars PROVE IInv'
<1>1. CASE UnloadSteps
    BY <1>1, UnloadConsumerKeeps, ConsumersGoneKeeps, RevokeKeeps, QuiesceKeeps,
       ServicesWithdrawnKeeps, DisposersDoneKeeps DEF UnloadSteps
<1>2. CASE JobSteps
    BY <1>1, <1>2, StartPassKeeps, PassStopsKeeps, PassLoadsKeeps, PassEndsKeeps, LoadsKeeps,
       LoadFailsKeeps, SkipPassKeeps, StartReplaceIdleKeeps, StartReplaceKeeps,
       ReplaceFailsKeeps, ReplaceUnloadsKeeps, ReplaceSwapsKeeps, StartShutdownKeeps,
       ShutdownUnloadsKeeps, ShutdownEndsKeeps
    DEF JobSteps
<1>3. CASE Calls BY <1>3, SwitchKeeps, RetryKeeps, ReplaceKeeps, CloseKeeps DEF Calls
<1>4. CASE Timers BY <1>4, RetryFiresKeeps DEF Timers
<1>5. CASE Reports BY <1>5, ReportUnheardKeeps, ReportFailureKeeps DEF Reports
<1>6. CASE UNCHANGED vars BY <1>6, StutterKeeps
<1> QED BY <1>2, <1>3, <1>4, <1>5, <1>6 DEF Next
-----------------------------------------------------------------------------
(* Tries that are left.                                                    *)

\* What may become of an entry in a step.
TriesStay(x, y) == LeftAlone(y) /\ ~LeftAlone(x) => x.retry /\ ~x.enabled
AllTriesStay == \A c \in Entry : TriesStay(entry[c], entry'[c])

\* Whoever has failed once more has its timer, or no tries left.
LEMMA FailedIsNotAlone == ASSUME NEW x \in EntryType PROVE ~LeftAlone(Failed(x))
BY FailedFacts DEF LeftAlone, GaveUp

LEMMA UnloadedIsNotAlone ==
    ASSUME NEW x \in EntryType, NEW target \in {"waiting", "disposed", "failed"},
           NEW stable \in BOOLEAN
    PROVE  ~LeftAlone(Unloaded(x, target, stable))
<1>1. PICK a \in 0 .. Retries + 1 : a = IF stable THEN 0 ELSE x.attempts
    BY PluginKernelAssumption DEF EntryType
<1>2. PICK y \in EntryType : y = [x EXCEPT !.inst = None, !.attempts = a] BY DEF EntryType
<1>3. Unloaded(x, target, stable) =
         IF target = "failed" THEN Failed(y) ELSE [y EXCEPT !.state = target]
    BY <1>1, <1>2 DEF Unloaded
<1>4. CASE target = "failed" BY <1>3, <1>4, FailedIsNotAlone
<1>5. CASE target # "failed" BY <1>3, <1>5 DEF LeftAlone, EntryType
<1> QED BY <1>4, <1>5

LEMMA VisitedTriesOn == ASSUME NEW x \in EntryType PROVE TriesStay(x, Visited(x))
BY DEF Visited, Disposed, TriesStay, LeftAlone, GaveUp, EntryType

LEMMA DisposedTriesOn == ASSUME NEW x \in EntryType PROVE ~LeftAlone(Disposed(x))
BY DEF Disposed, LeftAlone, EntryType

LEMMA UnloadingTriesOn == ASSUME IInv, UnloadSteps PROVE AllTriesStay
<1>1. PICK h : h = Unloading OBVIOUS
<1>2. /\ stack # <<>> /\ h \in Entry /\ entry[h] \in EntryType /\ entry \in [Entry -> EntryType]
      /\ Head(stack).target \in {"waiting", "disposed", "failed"}
    BY <1>1, HeadFacts, EntriesAreTyped, FrameFacts
    DEF UnloadSteps, UnloadConsumer, ConsumersGone, Revoke, Quiesce, ServicesWithdrawn,
        DisposersDone, InStep, IInv
<1>3. CASE UnloadConsumer
    <2>1. PICK k : k = Max(Consumers(Unloading)) OBVIOUS
    <2>2. entry' = [entry EXCEPT ![k] = Quiescing(@)]
        BY <1>3, <2>1 DEF UnloadConsumer, BeginUnload
    <2> QED
        BY <1>2, <2>2 DEF Quiescing, AllTriesStay, TriesStay, LeftAlone, GaveUp, EntryType
<1>4. CASE ConsumersGone \/ ServicesWithdrawn
    BY <1>4 DEF ConsumersGone, ServicesWithdrawn, AllTriesStay, TriesStay
<1>5. CASE Revoke
    BY <1>1, <1>2, <1>5 DEF Revoke, AllTriesStay, TriesStay, LeftAlone, GaveUp, EntryType
<1>6. CASE Quiesce
    BY <1>1, <1>2, <1>6 DEF Quiesce, AllTriesStay, TriesStay, LeftAlone, GaveUp, EntryType
<1>7. CASE DisposersDone
    <2>1. PICK stable \in BOOLEAN :
             entry' = [entry EXCEPT ![h] = Unloaded(entry[h], Head(stack).target, stable)]
        BY <1>1, <1>7 DEF DisposersDone
    <2>2. PICK x : x = Unloaded(entry[h], Head(stack).target, stable) OBVIOUS
    <2>3. ~LeftAlone(x) BY <1>2, <2>2, UnloadedIsNotAlone
    <2> QED BY <1>2, <2>1, <2>2, <2>3 DEF AllTriesStay, TriesStay
<1> QED BY <1>3, <1>4, <1>5, <1>6, <1>7 DEF UnloadSteps

LEMMA JobsTryOn == ASSUME IInv, JobSteps PROVE AllTriesStay
<1>1. entry \in [Entry -> EntryType] BY EntriesAreTyped DEF IInv
<1>2. CASE StartPass \/ SkipPass \/ StartReplace \/ ReplaceFails \/ StartShutdown
    BY <1>2
    DEF StartPass, SkipPass, StartReplace, ReplaceFails, StartShutdown, AllTriesStay, TriesStay
<1>3. ASSUME NEW k, NEW entries \in [Entry -> EntryType],
             \A c \in Entry : TriesStay(entry[c], entries[c]),
             entry' = [entries EXCEPT ![k] = Quiescing(@)]
      PROVE  AllTriesStay
    BY <1>1, <1>3 DEF Quiescing, AllTriesStay, TriesStay, LeftAlone, EntryType
<1>4. \A c \in Entry : TriesStay(entry[c], entry[c]) BY DEF TriesStay
<1>5. CASE PassStops \/ ReplaceUnloads
    BY <1>1, <1>3, <1>4, <1>5 DEF PassStops, ReplaceUnloads, BeginUnload
<1>6. ASSUME NEW last \in Nat, Sweeping, NEW c \in Entry
      PROVE  TriesStay(entry[c], SweptUpTo(last)[c])
    BY <1>1, <1>4, <1>6, SweepFacts, VisitedTriesOn
<1>7. CASE PassEnds
    <2>1. Len(Profile) + 1 \in Nat /\ Sweeping /\ entry' = SweptUpTo(Len(Profile) + 1)
        BY <1>7, EntriesAreNumbers DEF PassEnds
    <2> QED BY <1>6, <2>1 DEF AllTriesStay
<1>8. CASE PassLoads
    <2>1. PICK m : m = Min(StillToLoad) OBVIOUS
    <2>2. Sweeping /\ StillToLoad # {} /\ entry' = [SweptUpTo(m) EXCEPT ![m].state = "loading"]
        BY <1>8, <2>1 DEF PassLoads
    <2>3. StillToLoad \subseteq Entry BY DEF StillToLoad
    <2>4. m \in Nat BY <2>1, <2>2, <2>3, MinFacts, EntriesAreNumbers
    <2>5. SweptUpTo(m) \in [Entry -> EntryType] BY <2>2, <2>4, SweepFacts
    <2>6. \A c \in Entry : TriesStay(entry[c], SweptUpTo(m)[c]) BY <1>6, <2>2, <2>4
    <2> QED BY <2>2, <2>5, <2>6 DEF AllTriesStay, TriesStay, LeftAlone, EntryType
<1>9. CASE Loads
    <2>1. \E at : entry' = [entry EXCEPT ![at].state = "active", ![at].inst = Fresh(job.lost)]
        BY <1>9 DEF Loads
    <2> QED BY <1>1, <2>1 DEF AllTriesStay, TriesStay, LeftAlone, EntryType
<1>10. CASE LoadFails
    <2>1. job.at \in Entry BY <1>10 DEF LoadFails, InPass, IInv, JobIsTrue, PassIn
    <2>2. entry' = [entry EXCEPT ![job.at] = Failed(entry[job.at])] BY <1>10 DEF LoadFails
    <2>3. ~LeftAlone(Failed(entry[job.at])) BY <1>1, <2>1, FailedIsNotAlone
    <2>4. PICK x : x = Failed(entry[job.at]) OBVIOUS
    <2> QED BY <1>1, <2>1, <2>2, <2>3, <2>4 DEF AllTriesStay, TriesStay
<1>11. CASE StartReplaceIdle
    <2>1. PICK at, d :
             entry' = [entry EXCEPT ![at] =
                LET x == [@ EXCEPT !.plugin = d, !.misconfigured = FALSE]
                IN IF x.state = "failed" THEN GivenAnother(x) ELSE x]
        BY <1>11 DEF StartReplaceIdle
    <2> QED BY <1>1, <2>1 DEF GivenAnother, AllTriesStay, TriesStay, LeftAlone, EntryType
<1>12. CASE ReplaceSwaps
    <2>1. PICK at : at = job.entry OBVIOUS
    <2>2. CASE entry' = entry BY <1>4, <2>2 DEF AllTriesStay
    <2>3. CASE entry' = [entry EXCEPT ![at].plugin = job.plugin, ![at].misconfigured = FALSE,
                                      ![at].state = "active", ![at].inst = Fresh(job.lost)]
        BY <1>1, <2>3 DEF AllTriesStay, TriesStay, LeftAlone, EntryType
    <2> QED BY <1>12, <2>1, <2>2, <2>3 DEF ReplaceSwaps
<1>13. ASSUME NEW from, NEW to, NEW c \in Entry
       PROVE  Shut(from, to) \in [Entry -> EntryType] /\ TriesStay(entry[c], Shut(from, to)[c])
    BY <1>1, <1>4, DisposedFacts, DisposedTriesOn DEF Shut, TriesStay
<1>14. CASE ShutdownEnds BY <1>13, <1>14 DEF ShutdownEnds, AllTriesStay
<1>15. CASE ShutdownUnloads
    <2>1. PICK k, shut : k = Max(StillToShut) /\ shut = Shut(job.at, k) OBVIOUS
    <2>2. entry' = [[shut EXCEPT ![k].enabled = FALSE, ![k].retry = FALSE]
                       EXCEPT ![k] = Quiescing(@)]
        BY <1>15, <2>1 DEF ShutdownUnloads, BeginUnload
    <2>3. \A c \in Entry : TriesStay(entry[c], shut[c]) BY <1>13, <2>1
    <2>4. shut \in [Entry -> EntryType] BY <2>1, <1>1, DisposedFacts DEF Shut
    <2> QED BY <2>2, <2>3, <2>4 DEF Quiescing, AllTriesStay, TriesStay, LeftAlone, EntryType
<1> QED
    BY <1>2, <1>5, <1>7, <1>8, <1>9, <1>10, <1>11, <1>12, <1>14, <1>15, UnloadingTriesOn
    DEF JobSteps

LEMMA CallsTryOn == ASSUME IInv, Calls \/ Timers \/ Reports PROVE AllTriesStay
<1>1. entry \in [Entry -> EntryType] BY EntriesAreTyped DEF IInv
<1>2. ASSUME NEW e \in Entry, Enable(e) \/ Disable(e) \/ ReportFailure(e) PROVE AllTriesStay
    BY <1>1, <1>2
    DEF Enable, Disable, ReportFailure, AllTriesStay, TriesStay, LeftAlone, GaveUp, EntryType
<1>3. ASSUME NEW e \in Entry, Retry(e) PROVE AllTriesStay
    BY <1>1, <1>3 DEF Retry, GivenAnother, AllTriesStay, TriesStay, LeftAlone, EntryType
<1>4. ASSUME NEW e \in Entry, NEW d, Replace(e, d) PROVE AllTriesStay
    BY <1>4 DEF Replace, AllTriesStay, TriesStay
<1>5. CASE Close \/ ReportUnheard BY <1>5 DEF Close, ReportUnheard, AllTriesStay, TriesStay
<1>6. ASSUME NEW e \in Entry, RetryFires(e) PROVE AllTriesStay
    BY <1>1, <1>6 DEF RetryFires, AllTriesStay, TriesStay, LeftAlone, GaveUp, EntryType
<1> QED BY <1>2, <1>3, <1>4, <1>5, <1>6 DEF Calls, Timers, Reports
-----------------------------------------------------------------------------
(* What holds when the plugins are layered.                                *)

Running == {"loading", "active", "quiescing"}

\* Nobody gets another plugin, and nobody begins to run.
Calm ==
    \A c \in Entry : /\ entry'[c].plugin = entry[c].plugin
                     /\ entry'[c].state \in Running => entry[c].state \in Running

LEMMA OneIsCalm ==
    ASSUME TypeOK, NEW h \in Entry, NEW x \in EntryType, entry' = [entry EXCEPT ![h] = x],
           x.plugin = entry[h].plugin,
           x.state \in Running => entry[h].state \in Running
    PROVE  Calm
BY OneEntryChanges DEF Calm

LEMMA UnloadingIsCalm == ASSUME IInv, UnloadSteps PROVE Calm
<1>1. PICK h : h = Unloading OBVIOUS
<1>2. /\ stack # <<>> /\ h \in Entry /\ entry[h] \in EntryType /\ entry \in [Entry -> EntryType]
      /\ Head(stack).target \in {"waiting", "disposed", "failed"}
    BY <1>1, HeadFacts, EntriesAreTyped, FrameFacts
    DEF UnloadSteps, UnloadConsumer, ConsumersGone, Revoke, Quiesce, ServicesWithdrawn,
        DisposersDone, InStep, IInv
<1>3. CASE UnloadConsumer
    <2>1. PICK k : k = Max(Consumers(Unloading)) OBVIOUS
    <2>2. BeginUnload(k, "waiting", entry) /\ Consumers(Unloading) # {}
        BY <1>3, <2>1 DEF UnloadConsumer
    <2>3. Consumers(Unloading) \subseteq Entry BY DEF Consumers
    <2>4. k \in Entry /\ entry[k].state = "active"
        BY <2>1, <2>2, <2>3, MaxFacts DEF Consumers
    <2> QED BY <1>2, <2>2, <2>4 DEF BeginUnload, Quiescing, Calm, Running, EntryType
<1>4. CASE ConsumersGone \/ ServicesWithdrawn
    BY <1>4 DEF ConsumersGone, ServicesWithdrawn, Calm
<1>5. CASE Revoke BY <1>1, <1>2, <1>5 DEF Revoke, Calm, EntryType
<1>6. CASE Quiesce BY <1>1, <1>2, <1>6 DEF Quiesce, Calm, Running, EntryType
<1>7. CASE DisposersDone
    <2>1. PICK stable \in BOOLEAN :
             entry' = [entry EXCEPT ![h] = Unloaded(entry[h], Head(stack).target, stable)]
        BY <1>1, <1>7 DEF DisposersDone
    <2>2. ~entry[h].retry BY <1>1, <1>2, HeadFacts
    <2>3. PICK x : x = Unloaded(entry[h], Head(stack).target, stable) OBVIOUS
    <2>4. x \in EntryType /\ x.plugin = entry[h].plugin /\ x.state = Head(stack).target
        BY <1>2, <2>2, <2>3, UnloadedFacts
    <2> QED BY <1>2, <2>1, <2>3, <2>4, OneIsCalm DEF IInv, Running
<1> QED BY <1>3, <1>4, <1>5, <1>6, <1>7 DEF UnloadSteps

LEMMA JobsAreCalm ==
    ASSUME IInv, \/ StartPass \/ PassStops \/ PassEnds \/ Loads \/ LoadFails \/ SkipPass
                 \/ StartReplace \/ ReplaceFails \/ ReplaceUnloads \/ StartShutdown
                 \/ ShutdownUnloads \/ ShutdownEnds
    PROVE  Calm
<1>1. entry \in [Entry -> EntryType] BY EntriesAreTyped DEF IInv
<1>2. CASE StartPass \/ SkipPass \/ StartReplace \/ ReplaceFails \/ StartShutdown
    BY <1>2 DEF StartPass, SkipPass, StartReplace, ReplaceFails, StartShutdown, Calm
<1>3. CASE PassStops
    <2>1. PICK k : k = Max(ToStop) OBVIOUS
    <2>2. ToStop # {} /\ entry' = [entry EXCEPT ![k] = Quiescing(@)]
        BY <1>3, <2>1 DEF PassStops, BeginUnload
    <2>3. ToStop \subseteq Entry BY DEF ToStop
    <2>4. k \in Entry /\ entry[k].state = "active"
        BY <2>1, <2>2, <2>3, MaxFacts DEF ToStop, ShouldStop
    <2> QED BY <1>1, <2>2, <2>4 DEF Quiescing, Calm, Running, EntryType
<1>4. CASE PassEnds
    <2>1. Len(Profile) + 1 \in Nat /\ Sweeping /\ entry' = SweptUpTo(Len(Profile) + 1)
        BY <1>4, EntriesAreNumbers DEF PassEnds
    <2> QED BY <2>1, SweepFacts DEF Calm, Running
<1>5. CASE Loads
    <2>1. job.at \in Entry /\ entry[job.at].state = "loading"
        BY <1>5 DEF Loads, InPass, IInv, JobIsTrue, PassIn
    <2> QED BY <1>1, <1>5, <2>1 DEF Loads, Calm, Running, EntryType
<1>6. CASE LoadFails
    <2>1. job.at \in Entry BY <1>6 DEF LoadFails, InPass, IInv, JobIsTrue, PassIn
    <2>2. entry' = [entry EXCEPT ![job.at] = Failed(entry[job.at])] BY <1>6 DEF LoadFails
    <2> QED BY <2>1, <2>2, EntryFacts, FailedFacts, OneIsCalm DEF IInv, Running
<1>7. CASE ReplaceUnloads
    <2>1. entry' = [entry EXCEPT ![job.entry] = Quiescing(@)] /\ ReplaceIn("activating")
        BY <1>7 DEF ReplaceUnloads, BeginUnload, InReplace, ReplaceIn
    <2>2. job.entry \in Entry /\ entry[job.entry].state = "active"
        BY <2>1, JobFacts DEF IInv, JobIsTrue, ReplaceIn
    <2> QED BY <1>1, <2>1, <2>2 DEF Quiescing, Calm, Running, EntryType
<1>8. CASE ShutdownUnloads
    <2>1. PICK k : k = Max(StillToShut) OBVIOUS
    <2>2. PICK shut : shut = Shut(job.at, k) OBVIOUS
    <2>3. /\ StillToShut # {} /\ stack = <<>>
          /\ entry' = [[shut EXCEPT ![k].enabled = FALSE, ![k].retry = FALSE]
                          EXCEPT ![k] = Quiescing(@)]
        BY <1>8, <2>1, <2>2 DEF ShutdownUnloads, BeginUnload
    <2>4. StillToShut \subseteq Entry BY DEF StillToShut
    <2>5. k \in Entry /\ Has(k)
        <3>1. k \in StillToShut BY <2>1, <2>3, <2>4, MaxFacts
        <3> QED BY <2>4, <3>1 DEF StillToShut, Has
    <2>6. entry[k].state = "active" BY <2>3, <2>5, IdleFacts
    <2>7. /\ shut = [c \in Entry |-> IF k < c /\ c < job.at THEN Disposed(entry[c]) ELSE entry[c]]
          /\ \A c \in Entry :
                /\ Disposed(entry[c]) \in EntryType /\ Disposed(entry[c]).state = "disposed"
                /\ Disposed(entry[c]).plugin = entry[c].plugin /\ entry[c] \in EntryType
        BY <2>2, EntryFacts, DisposedFacts DEF Shut
    <2>8. /\ shut \in [Entry -> EntryType]
          /\ \A c \in Entry : /\ shut[c].plugin = entry[c].plugin
                              /\ shut[c].state \in Running => entry[c].state \in Running
        BY <2>7 DEF Running
    <2> QED BY <2>3, <2>5, <2>6, <2>8 DEF Quiescing, Calm, Running, EntryType
<1>9. CASE ShutdownEnds
    <2>1. entry' = Shut(job.at, 0) BY <1>9 DEF ShutdownEnds
    <2>2. \A c \in Entry : Disposed(entry[c]).state = "disposed" /\ Disposed(entry[c]).plugin = entry[c].plugin
        BY EntryFacts, DisposedFacts
    <2> QED BY <2>1, <2>2 DEF Shut, Calm, Running
<1> QED BY <1>2, <1>3, <1>4, <1>5, <1>6, <1>7, <1>8, <1>9

LEMMA CallsAreCalm == ASSUME IInv, Calls \/ Timers \/ Reports PROVE Calm
<1>1. entry \in [Entry -> EntryType] BY EntriesAreTyped DEF IInv
<1>2. ASSUME NEW e \in Entry, Enable(e) \/ Disable(e) PROVE Calm
    BY <1>1, <1>2 DEF Enable, Disable, Calm, EntryType
<1>3. ASSUME NEW e \in Entry, Retry(e) PROVE Calm
    <2>1. entry' = [entry EXCEPT ![e] = GivenAnother(entry[e])] BY <1>3 DEF Retry
    <2> QED BY <1>3, <2>1, EntryFacts, GivenAnotherFacts, OneIsCalm DEF IInv, Running
<1>4. CASE Close \/ ReportUnheard \/ \E e \in Entry, d \in UNION {Versions[c] : c \in Entry} : Replace(e, d)
    BY <1>4 DEF Close, ReportUnheard, Replace, Calm
<1>5. ASSUME NEW e \in Entry, RetryFires(e) PROVE Calm
    BY <1>1, <1>5 DEF RetryFires, Calm, Running, EntryType
<1>6. ASSUME NEW e \in Entry, ReportFailure(e) PROVE Calm
    BY <1>1, <1>6 DEF ReportFailure, Calm, EntryType
<1> QED BY <1>2, <1>3, <1>4, <1>5, <1>6 DEF Calls, Timers, Reports

\* No replacement is wanted that was not.
SameRequests ==
    \A i \in DOMAIN queue' : queue'[i].kind = "replace" =>
        \E j \in DOMAIN queue : queue[j] = queue'[i]

LEMMA RequestsStay ==
    ASSUME IInv, \/ queue' = queue
                 \/ queue' = Append(queue, [kind |-> "pass"])
                 \/ queue # <<>> /\ queue' = Tail(queue)
                 \/ queue # <<>> /\ queue' = Append(Tail(queue), [kind |-> "pass"])
    PROVE  SameRequests
<1>0. queue \in Seq(Request) /\ [kind |-> "pass"] \in Request BY RequestFacts DEF IInv
<1>1. CASE queue' = queue BY <1>1 DEF SameRequests
<1>2. CASE queue' = Append(queue, [kind |-> "pass"])
    BY <1>0, <1>2, AppendFacts DEF SameRequests
<1>3. CASE queue # <<>> /\ queue' = Tail(queue)
    BY <1>0, <1>3, TailFacts DEF SameRequests
<1>4. CASE queue # <<>> /\ queue' = Append(Tail(queue), [kind |-> "pass"])
    <2>1. /\ Tail(queue) \in Seq(Request)
          /\ \A i \in DOMAIN Tail(queue) : i + 1 \in DOMAIN queue /\ Tail(queue)[i] = queue[i + 1]
        BY <1>0, <1>4, TailFacts
    <2>2. \A i \in DOMAIN queue' :
             \/ i \in DOMAIN Tail(queue) /\ queue'[i] = Tail(queue)[i]
             \/ queue'[i] = [kind |-> "pass"]
        BY <1>0, <1>4, <2>1, AppendFacts
    <2> QED BY <2>1, <2>2 DEF SameRequests
<1> QED BY <1>1, <1>2, <1>3, <1>4

\* A replacement under way is of the same entry by the same plugin.
SameJob ==
    job'.kind = "replace" =>
        job.kind = "replace" /\ job'.entry = job.entry /\ job'.plugin = job.plugin

LEMMA JobsStay ==
    ASSUME TypeOK, \/ job' = job \/ job'.kind # "replace"
                   \/ job' = [job EXCEPT !.phase = "swap"] \/ job' = [job EXCEPT !.lost = TRUE]
    PROVE  SameJob
<1>1. CASE job.kind \in {"idle", "shutdown"}
    BY <1>1, JobFacts DEF SameJob, NoJob
<1>2. CASE job.kind = "pass"
    <2>1. job \in [kind : {"pass"}, phase : {"stop", "load", "loading"}, at : Nat, lost : BOOLEAN]
        BY <1>2, JobFacts
    <2> QED BY <1>2, <2>1 DEF SameJob
<1>3. CASE job.kind = "replace"
    <2>1. job \in [kind : {"replace"}, entry : Entry, plugin : Plugin,
                   phase : {"activating", "swap"}, lost : BOOLEAN]
        BY <1>3, JobFacts
    <2> QED BY <1>3, <2>1 DEF SameJob
<1> QED BY <1>1, <1>2, <1>3, JobFacts

\* What is calm keeps its versions and its needs.
LEMMA CalmKeeps ==
    ASSUME OnlyVersionsRun, NeedsAreMet, TypeOK, TypeOK', Calm, SameJob, SameRequests,
           Registered \subseteq Registered'
    PROVE  OnlyVersionsRun' /\ NeedsAreMet'
<1>1. \A e \in Entry : entry'[e].plugin \in VersionsOf(e) BY DEF OnlyVersionsRun, Calm
<1>2. job'.kind = "replace" => job'.plugin \in VersionsOf(job'.entry)
    BY DEF OnlyVersionsRun, SameJob
<1>3. \A i \in DOMAIN queue' : queue'[i].kind = "replace" =>
         queue'[i].plugin \in VersionsOf(queue'[i].entry)
    BY DEF OnlyVersionsRun, SameRequests
<1>5. \A e \in Entry : entry'[e].state \in Running => Needs[entry'[e].plugin] \subseteq Registered'
    BY DEF NeedsAreMet, Supplied, Calm, Running
<1>6. job'.kind = "replace" => Needs[job'.plugin] \subseteq Registered'
    BY DEF NeedsAreMet, Supplied, SameJob
<1>7. OnlyVersionsRun' BY <1>1, <1>2, <1>3 DEF OnlyVersionsRun, VersionsOf
<1> QED BY <1>5, <1>6, <1>7 DEF NeedsAreMet, Supplied, Running

\* Steps in which nobody begins to run, nothing is withdrawn, no replacement is wanted
\* or begun.
LEMMA PlainStepsKeep ==
    ASSUME IInv, IInv', OnlyVersionsRun, NeedsAreMet, Next,
           ~PassLoads, ~StartReplaceIdle, ~ReplaceSwaps, ~StartReplace, ~ServicesWithdrawn,
           ~\E e \in Entry : \E d \in Versions[e] : Replace(e, d)
    PROVE  OnlyVersionsRun' /\ NeedsAreMet'
<1>0. TypeOK /\ TypeOK' BY DEF IInv
<1>1. CASE UnloadConsumer \/ ConsumersGone \/ Revoke \/ Quiesce \/ DisposersDone
    <2>1. job' = job /\ queue' = queue /\ services' = services
        BY <1>1 DEF UnloadConsumer, ConsumersGone, Revoke, Quiesce, DisposersDone, NoRequest
    <2>2. Calm BY <1>1, UnloadingIsCalm DEF UnloadSteps
    <2> QED BY <1>0, <2>1, <2>2, CalmKeeps, JobsStay, RequestsStay DEF Registered
<1>2. CASE StartPass \/ SkipPass
    <2>1. /\ services' = services /\ queue # <<>>
          /\ \/ queue' = Tail(queue)
             \/ queue' = Append(Tail(queue), [kind |-> "pass"])
          /\ job' = job \/ job'.kind # "replace"
        BY <1>2 DEF StartPass, SkipPass
    <2>2. Calm BY <1>2, JobsAreCalm
    <2> QED BY <1>0, <2>1, <2>2, CalmKeeps, JobsStay, RequestsStay DEF Registered
<1>3. CASE PassStops \/ PassEnds \/ Loads \/ LoadFails
    <2>1. job.kind = "pass"
        BY <1>3 DEF PassStops, PassEnds, Loads, LoadFails, InPass, Sweeping
    <2>2. SameJob
        <3>1. job \in [kind : {"pass"}, phase : {"stop", "load", "loading"}, at : Nat, lost : BOOLEAN]
            BY <1>0, <2>1, JobFacts
        <3>2. job'.kind # "replace"
            BY <1>3, <3>1 DEF PassStops, PassEnds, Loads, LoadFails, NoJob
        <3> QED BY <3>2 DEF SameJob
    <2>3. queue' = queue \/ queue' = Append(queue, [kind |-> "pass"])
        BY <1>3 DEF PassStops, PassEnds, PassReturns, Loads, LoadFails, NoRequest
    <2>4. Registered \subseteq Registered'
        <3>1. CASE ~Loads
            BY <1>3, <3>1 DEF PassStops, PassEnds, LoadFails, Registered
        <3>2. CASE Loads
            <4>1. job.at \in Entry BY <3>2 DEF Loads, InPass, IInv, JobIsTrue, PassIn
            <4>2. services' = Published(job.at, entry[job.at].plugin) BY <3>2 DEF Loads
            <4> QED BY <4>1, <4>2, NoneAssumption DEF Published, Registered
        <3> QED BY <3>1, <3>2
    <2>5. Calm BY <1>3, JobsAreCalm
    <2> QED BY <1>0, <2>2, <2>3, <2>4, <2>5, CalmKeeps, RequestsStay
<1>4. CASE ReplaceFails \/ ReplaceUnloads \/ StartShutdown \/ ShutdownUnloads \/ ShutdownEnds
    <2>1. services' = services /\ queue' = queue
        BY <1>4 DEF ReplaceFails, ReplaceUnloads, StartShutdown, ShutdownUnloads, ShutdownEnds, NoRequest
    <2>2. SameJob
        <3>1. CASE ShutdownUnloads
            <4>1. job.kind = "shutdown" /\ job' = [job EXCEPT !.at = Max(StillToShut)]
                BY <3>1 DEF ShutdownUnloads
            <4>2. job \in [kind : {"shutdown"}, at : Nat] BY <1>0, <4>1, JobFacts
            <4> QED BY <4>1, <4>2 DEF SameJob
        <3>2. CASE ~ShutdownUnloads
            <4>1. job' = NoJob \/ job'.kind = "shutdown" \/ job' = [job EXCEPT !.phase = "swap"]
                BY <1>4, <3>2 DEF ReplaceFails, ReplaceUnloads, StartShutdown, ShutdownEnds
            <4> QED BY <1>0, <4>1, JobsStay, JobFacts
        <3> QED BY <3>1, <3>2
    <2>3. Calm BY <1>4, JobsAreCalm
    <2> QED BY <1>0, <2>1, <2>2, <2>3, CalmKeeps, RequestsStay DEF Registered
<1>5. CASE Calls \/ Timers \/ Reports
    <2>1. Calm BY <1>5, CallsAreCalm
    <2>2. services' = services
        BY <1>5 DEF Calls, Timers, Reports, Enable, Disable, Retry, Close, RetryFires,
           ReportFailure, ReportUnheard
    <2>3. job' = job \/ job' = [job EXCEPT !.lost = TRUE]
        BY <1>5 DEF Calls, Timers, Reports, Enable, Disable, Retry, Close, RetryFires,
           ReportFailure, ReportUnheard
    <2>4. queue' = queue \/ queue' = Append(queue, [kind |-> "pass"])
        BY <1>5 DEF Calls, Timers, Reports, Enable, Disable, Retry, Close, RetryFires,
           ReportFailure, ReportUnheard, RequestReconcile, NoRequest
    <2> QED BY <1>0, <2>1, <2>2, <2>3, <2>4, CalmKeeps, JobsStay, RequestsStay DEF Registered
<1> QED BY <1>1, <1>2, <1>3, <1>4, <1>5 DEF Next, JobSteps, UnloadSteps

LEMMA PassLoadsSupplied ==
    ASSUME IInv, OnlyVersionsRun, NeedsAreMet, PassLoads PROVE OnlyVersionsRun' /\ NeedsAreMet'
<1>0. TypeOK BY DEF IInv
<1>1. PICK h : h = Min(StillToLoad) OBVIOUS
<1>2. /\ Sweeping /\ StillToLoad # {}
      /\ entry' = [SweptUpTo(h) EXCEPT ![h].state = "loading"]
      /\ job' = [job EXCEPT !.phase = "loading", !.at = h, !.lost = FALSE]
      /\ queue' = queue /\ services' = services
    BY <1>1 DEF PassLoads, NoRequest
<1>3. StillToLoad \subseteq Entry BY DEF StillToLoad
<1>4. h \in StillToLoad /\ h \in Entry BY <1>1, <1>2, <1>3, MinFacts
<1>5. h \in Nat /\ Supplied(entry[h].plugin) BY <1>4, EntriesAreNumbers DEF StillToLoad, ShouldLoad
<1>6. PICK swept : swept = SweptUpTo(h) OBVIOUS
<1>7. /\ job.kind = "pass" /\ swept \in [Entry -> EntryType]
      /\ \A c \in Entry : /\ swept[c].plugin = entry[c].plugin
                          /\ swept[c].state \in Running => entry[c].state \in Running
    BY <1>2, <1>5, <1>6, SweepFacts DEF Running
<1>8. \A c \in Entry : /\ entry'[c].plugin = entry[c].plugin
                       /\ c # h => entry'[c] = swept[c]
    BY <1>2, <1>4, <1>6, <1>7 DEF EntryType
<1>9. \A c \in Entry : entry'[c].plugin \in VersionsOf(c) BY <1>8 DEF OnlyVersionsRun
<1>10. \A c \in Entry : entry'[c].state \in Running => Needs[entry'[c].plugin] \subseteq Registered
    BY <1>5, <1>7, <1>8 DEF NeedsAreMet, Supplied, Running
<1>11. job'.kind = "pass"
    <2>1. job \in [kind : {"pass"}, phase : {"stop", "load", "loading"}, at : Nat, lost : BOOLEAN]
        BY <1>0, <1>7, JobFacts
    <2> QED BY <1>2, <2>1
<1>12. OnlyVersionsRun' BY <1>2, <1>9, <1>11 DEF OnlyVersionsRun, VersionsOf
<1> QED BY <1>2, <1>10, <1>11, <1>12 DEF NeedsAreMet, Supplied, Registered, Running

\* The plugin asked for is a version of the entry it is asked for.
LEMMA AskedFor ==
    ASSUME IInv, OnlyVersionsRun, queue # <<>>, Head(queue).kind = "replace"
    PROVE  /\ Head(queue).entry \in Entry /\ Head(queue).plugin \in Plugin
           /\ Head(queue).plugin \in VersionsOf(Head(queue).entry)
<1>1. Head(queue) = queue[1] /\ 1 \in DOMAIN queue BY DequeueFacts
<1> QED BY <1>1, RequestFacts DEF IInv, IsPass, OnlyVersionsRun

LEMMA StartReplaceIdleSupplied ==
    ASSUME IInv, OnlyVersionsRun, NeedsAreMet, StartReplaceIdle
    PROVE  OnlyVersionsRun' /\ NeedsAreMet'
<1>1. PICK h, d : h = Head(queue).entry /\ d = Head(queue).plugin OBVIOUS
<1>2. PICK y : y = [entry[h] EXCEPT !.plugin = d, !.misconfigured = FALSE] OBVIOUS
<1>3. PICK x : x = IF y.state = "failed" THEN GivenAnother(y) ELSE y OBVIOUS
<1>4. /\ job = NoJob /\ queue # <<>> /\ Head(queue).kind = "replace" /\ entry[h].state # "active"
      /\ entry' = [entry EXCEPT ![h] = x]
      /\ queue' = Tail(queue) \/ queue' = Append(Tail(queue), [kind |-> "pass"])
      /\ services' = services /\ job' = job
    BY <1>1, <1>2, <1>3 DEF StartReplaceIdle
<1>5. h \in Entry /\ d \in Plugin /\ d \in VersionsOf(h) BY <1>1, <1>4, AskedFor
<1>6. y \in EntryType /\ y.plugin = d /\ y.state = entry[h].state
    BY <1>2, <1>5, EntryFacts DEF EntryType
<1>7. entry[h].state \in {"waiting", "disposed", "failed"} BY <1>4, <1>5, NoJobFacts
<1>8. x \in EntryType /\ x.plugin = d /\ x.state \notin Running
    BY <1>3, <1>6, <1>7, GivenAnotherFacts DEF Running
<1>9. entry'[h] = x /\ \A c \in Entry \ {h} : entry'[c] = entry[c]
    BY <1>4, <1>5, <1>8, OneEntryChanges DEF IInv
<1>10. \A c \in Entry : entry'[c].plugin \in VersionsOf(c)
    BY <1>5, <1>8, <1>9 DEF OnlyVersionsRun
<1>11. SameRequests BY <1>4, RequestsStay
<1>12. \A i \in DOMAIN queue' : queue'[i].kind = "replace" =>
          queue'[i].plugin \in VersionsOf(queue'[i].entry)
    BY <1>11 DEF OnlyVersionsRun, SameRequests
<1>13. job'.kind = "idle" BY <1>4 DEF NoJob
<1>14. OnlyVersionsRun' BY <1>10, <1>12, <1>13 DEF OnlyVersionsRun, VersionsOf
<1>15. \A c \in Entry : entry'[c].state \in Running => Needs[entry'[c].plugin] \subseteq Registered
    BY <1>8, <1>9 DEF NeedsAreMet, Supplied, Running
<1> QED BY <1>4, <1>13, <1>14, <1>15 DEF NeedsAreMet, Supplied, Registered, Running

LEMMA StartReplaceSupplied ==
    ASSUME IInv, OnlyVersionsRun, NeedsAreMet, StartReplace
    PROVE  OnlyVersionsRun' /\ NeedsAreMet'
<1>1. PICK h, d : h = Head(queue).entry /\ d = Head(queue).plugin OBVIOUS
<1>2. /\ queue # <<>> /\ Head(queue).kind = "replace" /\ queue' = Tail(queue)
      /\ \/ job' = NoJob
         \/ /\ Supplied(d)
            /\ job' = [kind |-> "replace", entry |-> h, plugin |-> d, phase |-> "activating",
                       lost |-> FALSE]
      /\ services' = services /\ entry' = entry
    BY <1>1 DEF StartReplace
<1>3. d \in VersionsOf(h) BY <1>1, <1>2, AskedFor
<1>4. \/ job'.kind = "idle"
      \/ Supplied(d) /\ job'.entry = h /\ job'.plugin = d
    BY <1>2 DEF NoJob
<1>5. SameRequests BY <1>2, RequestsStay
<1>6. \A i \in DOMAIN queue' : queue'[i].kind = "replace" =>
         queue'[i].plugin \in VersionsOf(queue'[i].entry)
    BY <1>5 DEF OnlyVersionsRun, SameRequests
<1>7. OnlyVersionsRun' BY <1>2, <1>3, <1>4, <1>6 DEF OnlyVersionsRun, VersionsOf
<1> QED BY <1>2, <1>4, <1>7 DEF NeedsAreMet, Supplied, Registered

LEMMA ReplaceSupplied ==
    ASSUME IInv, OnlyVersionsRun, NeedsAreMet, NEW e \in Entry, NEW d \in Versions[e], Replace(e, d)
    PROVE  OnlyVersionsRun' /\ NeedsAreMet'
<1>1. PICK r : r = [kind |-> "replace", entry |-> e, plugin |-> d] OBVIOUS
<1>2. /\ queue' = Append(queue, r) /\ UNCHANGED <<entry, services, job>>
    BY <1>1 DEF Replace
<1>3. r \in Request /\ r.entry = e /\ r.plugin = d
    BY <1>1, PluginKernelAssumption DEF Request, Entry
<1>4. queue \in Seq(Request) BY DEF IInv, TypeOK
<1>5. \A i \in DOMAIN queue' : (i \in DOMAIN queue /\ queue'[i] = queue[i]) \/ queue'[i] = r
    BY <1>2, <1>3, <1>4, AppendFacts
<1>6. d \in VersionsOf(e) BY DEF VersionsOf
<1>7. \A i \in DOMAIN queue' : queue'[i].kind = "replace" =>
         queue'[i].plugin \in VersionsOf(queue'[i].entry)
    BY <1>3, <1>5, <1>6 DEF OnlyVersionsRun
<1>8. OnlyVersionsRun' BY <1>2, <1>7 DEF OnlyVersionsRun, VersionsOf
<1> QED BY <1>2, <1>8 DEF NeedsAreMet, Supplied, Registered

LEMMA ReplaceSwapsSupplied ==
    ASSUME IInv, OnlyVersionsRun, NeedsAreMet, ReplaceSwaps
    PROVE  OnlyVersionsRun' /\ NeedsAreMet'
<1>1. PICK h, plugin : h = job.entry /\ plugin = job.plugin OBVIOUS
<1>2. /\ ReplaceIn("swap") /\ job' = NoJob /\ RequestReconcile
    BY DEF ReplaceSwaps, InReplace, ReplaceIn
<1>3. h \in Entry /\ plugin \in Plugin /\ plugin \in VersionsOf(h) /\ Supplied(plugin)
    BY <1>1, <1>2, JobFacts DEF IInv, ReplaceIn, OnlyVersionsRun, NeedsAreMet
<1>4. queue' = queue \/ queue' = Append(queue, [kind |-> "pass"]) BY <1>2 DEF RequestReconcile
<1>5. SameRequests BY <1>4, RequestsStay
<1>6. \A i \in DOMAIN queue' : queue'[i].kind = "replace" =>
         queue'[i].plugin \in VersionsOf(queue'[i].entry)
    BY <1>5 DEF OnlyVersionsRun, SameRequests
<1>7. job'.kind = "idle" BY <1>2 DEF NoJob
<1>8. /\ Registered \subseteq Registered'
      /\ \A c \in Entry :
            \/ entry'[c] = entry[c]
            \/ c = h /\ entry'[c].plugin = plugin
    <2>1. CASE Conflicts(h, plugin)
        <3>1. entry' = entry /\ services' = services BY <1>1, <2>1 DEF ReplaceSwaps
        <3> QED BY <3>1 DEF Registered
    <2>2. CASE ~Conflicts(h, plugin)
        <3>1. /\ services' = Published(h, plugin)
              /\ entry' = [entry EXCEPT ![h].plugin = plugin, ![h].misconfigured = FALSE,
                                        ![h].state = "active", ![h].inst = Fresh(job.lost)]
            BY <1>1, <2>2 DEF ReplaceSwaps
        <3>2. Registered \subseteq Registered'
            BY <1>3, <3>1, NoneAssumption DEF Published, Registered
        <3>3. entry \in [Entry -> EntryType] BY EntriesAreTyped DEF IInv
        <3> QED BY <1>3, <3>1, <3>2, <3>3 DEF EntryType
    <2> QED BY <2>1, <2>2
<1>9. \A c \in Entry : entry'[c].plugin \in VersionsOf(c) BY <1>3, <1>8 DEF OnlyVersionsRun
<1>10. \A c \in Entry : entry'[c].state \in Running => Needs[entry'[c].plugin] \subseteq Registered'
    BY <1>3, <1>8 DEF NeedsAreMet, Supplied, Running
<1>11. OnlyVersionsRun' BY <1>6, <1>7, <1>9 DEF OnlyVersionsRun, VersionsOf
<1> QED BY <1>7, <1>10, <1>11 DEF NeedsAreMet, Supplied, Running

\* Whoever is needed by what still runs has not got to withdrawing its services.
LEMMA WithdrawnSupplied ==
    ASSUME NEW level \in [Entry -> Entry], Ordered(level), LInv(level), ServicesWithdrawn
    PROVE  OnlyVersionsRun' /\ NeedsAreMet'
<1>0. IInv /\ OnlyVersionsRun /\ FramesAreLayered(level) /\ NeedsAreMet BY DEF LInv
<1>1. /\ stack # <<>> /\ Head(stack).step = "dispose"
      /\ services' = [s \in Service |-> IF services[s] = Unloading THEN None ELSE services[s]]
      /\ UNCHANGED <<entry, job, queue>>
    BY DEF ServicesWithdrawn, InStep, NoRequest
<1>2. PICK h : h = Unloading OBVIOUS
<1>3. /\ h \in Entry /\ stack[1].step = "dispose" /\ h = stack[1].entry /\ 1 \in DOMAIN stack
    BY <1>0, <1>1, <1>2, HeadFacts
<1>4. /\ entry[h].state = "unloading" /\ Consumers(h) = {}
      /\ ProvidedBy(h) \subseteq Provides[entry[h].plugin]
    BY <1>0, <1>3 DEF IInv, FramesAreTrue, RegistryIsHeld
<1>5. Registered' = Registered \ ProvidedBy(h)
    BY <1>0, <1>1, <1>2, <1>3, WithdrawnFacts DEF IInv
<1>6. \A c \in Entry : level[c] \in Nat BY EntriesAreNumbers
<1>7. entry[h].plugin \in VersionsOf(h) BY <1>0, <1>3 DEF OnlyVersionsRun
<1>8. ASSUME NEW c \in Entry, NEW p \in VersionsOf(c), level[c] <= level[h]
      PROVE  Needs[p] \cap ProvidedBy(h) = {}
    <2>1. Needs[p] \cap Provides[entry[h].plugin] # {} => level[h] < level[c]
        BY <1>3, <1>7 DEF Ordered
    <2>2. ~(level[h] < level[c]) BY <1>3, <1>6, <1>8
    <2> QED BY <1>4, <2>1, <2>2
<1>9. PassIn("stop") \/ ReplaceIn("swap") \/ job.kind = "shutdown"
    BY <1>0, <1>1 DEF IInv, JobIsTrue
<1>10. \A c \in Entry : entry[c].state # "loading"
    BY <1>0, <1>9 DEF IInv, JobIsTrue, PassIn, ReplaceIn
<1>11. ASSUME NEW c \in Entry, entry[c].state \in Running
       PROVE  Needs[entry[c].plugin] \subseteq Registered'
    <2>1. Needs[entry[c].plugin] \subseteq Registered
        BY <1>0, <1>11 DEF NeedsAreMet, Supplied, Running
    <2>2. CASE entry[c].state = "active"
        <3>1. c # h /\ c \notin Consumers(h) BY <1>4, <2>2
        <3> QED BY <1>5, <2>1, <2>2, <3>1 DEF Consumers
    <2>3. CASE entry[c].state = "quiescing"
        <3>1. PICK i \in DOMAIN stack : stack[i].entry = c
            BY <1>0, <2>3 DEF IInv, LeavingAreOnStack, OnStack
        <3>2. i # 1 BY <1>3, <1>4, <2>3, <3>1
        <3>3. 1 < i BY <1>0, <3>1, <3>2, FrameFacts DEF IInv
        <3>4. level[c] < level[h] BY <1>0, <1>3, <3>1, <3>3 DEF FramesAreLayered
        <3>5. level[c] <= level[h] BY <1>3, <1>6, <3>4
        <3>6. entry[c].plugin \in VersionsOf(c) BY <1>0 DEF OnlyVersionsRun
        <3>7. Needs[entry[c].plugin] \cap ProvidedBy(h) = {} BY <1>8, <3>5, <3>6
        <3> QED BY <1>5, <2>1, <3>7
    <2> QED BY <1>10, <1>11, <2>2, <2>3 DEF Running
<1>12. ASSUME job.kind = "replace" PROVE Needs[job.plugin] \subseteq Registered'
    <2>1. ReplaceIn("swap") /\ job.entry \in Entry
        BY <1>0, <1>9, <1>12, JobFacts DEF PassIn, IInv
    <2>2. level[job.entry] <= level[h] BY <1>0, <1>3, <2>1 DEF FramesAreLayered
    <2>3. job.plugin \in VersionsOf(job.entry) BY <1>0, <1>12 DEF OnlyVersionsRun
    <2>4. Needs[job.plugin] \cap ProvidedBy(h) = {} BY <1>8, <2>1, <2>2, <2>3
    <2> QED BY <1>0, <1>5, <1>12, <2>4 DEF NeedsAreMet, Supplied
<1>13. OnlyVersionsRun' BY <1>0, <1>1 DEF OnlyVersionsRun, VersionsOf
<1> QED BY <1>1, <1>11, <1>12, <1>13 DEF NeedsAreMet, Supplied, Running

\* The frames, when no entry begins to leave.
LEMMA FramesStayLayered ==
    ASSUME NEW level \in [Entry -> Entry], FramesAreLayered(level),
           \/ DOMAIN stack' = DOMAIN stack
              /\ \A i \in DOMAIN stack : stack'[i].entry = stack[i].entry
           \/ \A i \in DOMAIN stack' :
                 i \in Nat /\ i + 1 \in DOMAIN stack /\ stack'[i].entry = stack[i + 1].entry,
           ReplaceIn("swap")' => ReplaceIn("swap") /\ job'.entry = job.entry
    PROVE  FramesAreLayered(level)'
<1>1. \A i, j \in DOMAIN stack' : i < j => level[stack'[j].entry] < level[stack'[i].entry]
    <2> SUFFICES ASSUME NEW i \in DOMAIN stack', NEW j \in DOMAIN stack', i < j
                 PROVE  level[stack'[j].entry] < level[stack'[i].entry]
        OBVIOUS
    <2>1. CASE DOMAIN stack' = DOMAIN stack /\ \A k \in DOMAIN stack : stack'[k].entry = stack[k].entry
        BY <2>1 DEF FramesAreLayered
    <2>2. CASE \A k \in DOMAIN stack' :
                  k \in Nat /\ k + 1 \in DOMAIN stack /\ stack'[k].entry = stack[k + 1].entry
        <3>1. i + 1 < j + 1 BY <2>2
        <3> QED BY <2>2, <3>1 DEF FramesAreLayered
    <2> QED BY <2>1, <2>2
<1>2. ReplaceIn("swap")' => \A i \in DOMAIN stack' : level[job'.entry] <= level[stack'[i].entry]
    BY DEF FramesAreLayered
<1> QED BY <1>1, <1>2 DEF FramesAreLayered, ReplaceIn

\* A job that begins to unload an entry has only that on its stack.
LEMMA FirstIsLayered ==
    ASSUME NEW level \in [Entry -> Entry], TypeOK, stack = <<>>, NEW h \in Entry,
           NEW target \in {"waiting", "disposed", "failed"}, NEW entries,
           BeginUnload(h, target, entries), ReplaceIn("swap")' => job'.entry = h
    PROVE  FramesAreLayered(level)'
<1>1. PICK f : f = [entry |-> h, target |-> target, step |-> "consumers"] OBVIOUS
<1>2. stack' = <<f>> \o <<>> /\ f.entry = h BY <1>1 DEF BeginUnload
<1>3. stack' = <<f>> BY <1>2
<1>4. DOMAIN stack' = {1} /\ stack'[1] = f BY <1>3
<1>5. level[h] <= level[h] BY EntriesAreNumbers
<1>6. ~(1 < 1) OBVIOUS
<1>7. \A i, j \in DOMAIN stack' : i < j => level[stack'[j].entry] < level[stack'[i].entry]
    BY <1>4, <1>6
<1>8. ReplaceIn("swap")' => \A i \in DOMAIN stack' : level[job'.entry] <= level[stack'[i].entry]
    BY <1>2, <1>4, <1>5
<1> QED BY <1>7, <1>8 DEF FramesAreLayered, ReplaceIn

\* A consumer is further up than what it needs.
LEMMA ConsumerIsLayered ==
    ASSUME NEW level \in [Entry -> Entry], Ordered(level), LInv(level), UnloadConsumer
    PROVE  FramesAreLayered(level)'
<1>0. IInv /\ OnlyVersionsRun /\ FramesAreLayered(level) BY DEF LInv
<1>1. PICK h : h = Max(Consumers(Unloading)) OBVIOUS
<1>2. /\ stack # <<>> /\ Consumers(Unloading) # {} /\ BeginUnload(h, "waiting", entry) /\ job' = job
    BY <1>1 DEF UnloadConsumer, InStep
<1>3. Consumers(Unloading) \subseteq Entry BY DEF Consumers
<1>4. h \in Entry /\ h \in Consumers(Unloading) BY <1>1, <1>2, <1>3, MaxFacts
<1>5. PICK u : u = Unloading OBVIOUS
<1>6. u \in Entry /\ u = stack[1].entry /\ 1 \in DOMAIN stack BY <1>0, <1>2, <1>5, HeadFacts
<1>7. level[u] < level[h]
    <2>1. Needs[entry[h].plugin] \cap ProvidedBy(u) # {} BY <1>4, <1>5 DEF Consumers
    <2>2. ProvidedBy(u) \subseteq Provides[entry[u].plugin] BY <1>0, <1>6 DEF IInv, RegistryIsHeld
    <2>3. Needs[entry[h].plugin] \cap Provides[entry[u].plugin] # {} BY <2>1, <2>2
    <2>4. entry[h].plugin \in VersionsOf(h) /\ entry[u].plugin \in VersionsOf(u)
        BY <1>0, <1>4, <1>6 DEF OnlyVersionsRun
    <2> QED BY <1>4, <1>6, <2>3, <2>4 DEF Ordered
<1>8. PICK f : f = [entry |-> h, target |-> "waiting", step |-> "consumers"] OBVIOUS
<1>9. f \in Frame /\ f.entry = h /\ stack' = <<f>> \o stack /\ stack \in Seq(Frame)
    BY <1>0, <1>2, <1>4, <1>8 DEF BeginUnload, Frame, IInv, TypeOK
<1>10. /\ stack'[1] = f
       /\ \A i \in DOMAIN stack' :
             i \in Nat /\ 0 < i /\ (i # 1 => i - 1 \in DOMAIN stack /\ stack'[i] = stack[i - 1])
    BY <1>9, PushFacts
<1>11. \A c \in Entry : level[c] \in Nat BY EntriesAreNumbers
<1>12. \A i \in DOMAIN stack :
          /\ stack[i].entry \in Entry /\ i \in Nat /\ 0 < i
          /\ level[stack[i].entry] <= level[u]
    <2> SUFFICES ASSUME NEW i \in DOMAIN stack
                 PROVE  /\ stack[i].entry \in Entry /\ i \in Nat /\ 0 < i
                        /\ level[stack[i].entry] <= level[u]
        OBVIOUS
    <2>1. stack[i].entry \in Entry /\ i \in Nat /\ 0 < i BY <1>0, FrameFacts DEF IInv
    <2>2. CASE i = 1 BY <1>6, <1>11, <2>1, <2>2
    <2>3. CASE i # 1
        <3>1. 1 < i BY <2>1, <2>3
        <3>2. level[stack[i].entry] < level[stack[1].entry]
            BY <1>0, <1>6, <3>1 DEF FramesAreLayered
        <3> QED BY <1>6, <1>11, <2>1, <3>2
    <2> QED BY <2>2, <2>3
<1>13. \A i \in DOMAIN stack : level[stack[i].entry] < level[h]
    <2> SUFFICES ASSUME NEW i \in DOMAIN stack PROVE level[stack[i].entry] < level[h] OBVIOUS
    <2>1. PICK a \in Nat, b \in Nat, d \in Nat :
             a = level[stack[i].entry] /\ b = level[u] /\ d = level[h]
        BY <1>4, <1>6, <1>11, <1>12
    <2> QED BY <1>7, <1>12, <2>1
<1>14. ASSUME NEW i \in DOMAIN stack', NEW j \in DOMAIN stack', i < j
       PROVE  level[stack'[j].entry] < level[stack'[i].entry]
    <2>1. i \in Nat /\ j \in Nat /\ 0 < i /\ j # 1 BY <1>10, <1>14
    <2>2. j - 1 \in DOMAIN stack /\ stack'[j] = stack[j - 1] BY <1>10, <2>1
    <2>3. CASE i = 1 BY <1>9, <1>10, <1>13, <2>2, <2>3
    <2>4. CASE i # 1
        <3>1. i - 1 \in DOMAIN stack /\ stack'[i] = stack[i - 1] BY <1>10, <2>4
        <3>2. i - 1 < j - 1 BY <1>14, <2>1
        <3> QED BY <1>0, <2>2, <3>1, <3>2 DEF FramesAreLayered
    <2> QED BY <2>3, <2>4
<1>15. ASSUME ReplaceIn("swap"), NEW i \in DOMAIN stack'
       PROVE  level[job.entry] <= level[stack'[i].entry]
    <2>1. job.entry \in Entry BY <1>0, <1>15, JobFacts DEF IInv, ReplaceIn
    <2>2. CASE i = 1
        <3>1. level[job.entry] <= level[u] BY <1>0, <1>6, <1>15 DEF FramesAreLayered
        <3>2. PICK a \in Nat, b \in Nat, d \in Nat :
                 a = level[job.entry] /\ b = level[u] /\ d = level[h]
            BY <1>4, <1>6, <1>11, <2>1
        <3>3. a <= d BY <1>7, <3>1, <3>2
        <3> QED BY <1>9, <1>10, <2>2, <3>2, <3>3
    <2>3. CASE i # 1
        <3>1. i - 1 \in DOMAIN stack /\ stack'[i] = stack[i - 1] BY <1>10, <2>3
        <3> QED BY <1>0, <1>15, <3>1 DEF FramesAreLayered
    <2> QED BY <2>2, <2>3
<1>16. ReplaceIn("swap")' => ReplaceIn("swap") /\ job'.entry = job.entry
    BY <1>2 DEF ReplaceIn
<1> QED BY <1>2, <1>14, <1>15, <1>16 DEF FramesAreLayered

LEMMA LayersKeep ==
    ASSUME NEW level \in [Entry -> Entry], Ordered(level), LInv(level), [Next]_vars
    PROVE  FramesAreLayered(level)'
<1>0. IInv /\ FramesAreLayered(level) /\ TypeOK BY DEF LInv, IInv
<1>1. CASE UnloadConsumer BY <1>1, ConsumerIsLayered
<1>2. CASE ConsumersGone \/ Revoke \/ Quiesce \/ ServicesWithdrawn
    <2>1. /\ stack # <<>> /\ job' = job
          /\ \E step \in {"revoke", "quiesce", "dispose", "disposers"} : GoTo(step)
        BY <1>2 DEF ConsumersGone, Revoke, Quiesce, ServicesWithdrawn, InStep
    <2>2. DOMAIN stack' = DOMAIN stack /\ \A i \in DOMAIN stack : stack'[i].entry = stack[i].entry
        BY <1>0, <2>1, GoToFacts
    <2> QED BY <1>0, <2>1, <2>2, FramesStayLayered DEF ReplaceIn
<1>3. CASE DisposersDone
    <2>1. stack # <<>> /\ job' = job /\ stack' = Tail(stack)
        BY <1>3 DEF DisposersDone, InStep
    <2>2. stack \in Seq(Frame) BY <1>0 DEF TypeOK
    <2>3. \A i \in DOMAIN stack' :
             i \in Nat /\ i + 1 \in DOMAIN stack /\ stack'[i] = stack[i + 1]
        BY <2>1, <2>2, TailFacts
    <2> QED BY <1>0, <2>1, <2>3, FramesStayLayered DEF ReplaceIn
<1>4. CASE PassStops
    <2>1. PICK h : h = Max(ToStop) OBVIOUS
    <2>2. /\ job.kind = "pass" /\ stack = <<>> /\ ToStop # {}
          /\ BeginUnload(h, StopTarget(entry[h]), entry) /\ job' = [job EXCEPT !.at = h]
        BY <1>4, <2>1 DEF PassStops, InPass
    <2>3. ToStop \subseteq Entry BY DEF ToStop
    <2>4. h \in Entry BY <2>1, <2>2, <2>3, MaxFacts
    <2>5. StopTarget(entry[h]) \in {"waiting", "disposed", "failed"}
        <3>1. CASE ~entry[h].enabled BY <3>1 DEF StopTarget
        <3>2. CASE entry[h].enabled /\ entry[h].failure BY <3>2 DEF StopTarget
        <3>3. CASE entry[h].enabled /\ ~entry[h].failure BY <3>3 DEF StopTarget
        <3> QED BY <3>1, <3>2, <3>3
    <2>6. job'.kind = "pass"
        <3>1. job \in [kind : {"pass"}, phase : {"stop", "load", "loading"}, at : Nat, lost : BOOLEAN]
            BY <1>0, <2>2, JobFacts
        <3> QED BY <2>2, <3>1
    <2> QED BY <1>0, <2>2, <2>4, <2>5, <2>6, FirstIsLayered DEF ReplaceIn
<1>5. CASE ReplaceUnloads
    <2>1. /\ ReplaceIn("activating") /\ stack = <<>> /\ BeginUnload(job.entry, "waiting", entry)
          /\ job' = [job EXCEPT !.phase = "swap"]
        BY <1>5 DEF ReplaceUnloads, InReplace, ReplaceIn
    <2>2. job.entry \in Entry /\ job'.entry = job.entry
        <3>1. job \in [kind : {"replace"}, entry : Entry, plugin : Plugin,
                       phase : {"activating", "swap"}, lost : BOOLEAN]
            BY <1>0, <2>1, JobFacts DEF ReplaceIn
        <3> QED BY <2>1, <3>1
    <2> QED BY <1>0, <2>1, <2>2, FirstIsLayered
<1>6. CASE ShutdownUnloads
    <2>1. PICK h : h = Max(StillToShut) OBVIOUS
    <2>2. /\ job.kind = "shutdown" /\ stack = <<>> /\ StillToShut # {}
          /\ BeginUnload(h, "disposed", [Shut(job.at, h) EXCEPT ![h].enabled = FALSE, ![h].retry = FALSE])
          /\ job' = [job EXCEPT !.at = h]
        BY <1>6, <2>1 DEF ShutdownUnloads
    <2>3. StillToShut \subseteq Entry BY DEF StillToShut
    <2>4. h \in Entry BY <2>1, <2>2, <2>3, MaxFacts
    <2>5. job'.kind = "shutdown"
        <3>1. job \in [kind : {"shutdown"}, at : Nat] BY <1>0, <2>2, JobFacts
        <3> QED BY <2>2, <3>1
    <2> QED BY <1>0, <2>2, <2>4, <2>5, FirstIsLayered DEF ReplaceIn
<1>7. ASSUME stack' = stack, ReplaceIn("swap")' => ReplaceIn("swap") /\ job'.entry = job.entry
      PROVE  FramesAreLayered(level)'
    BY <1>0, <1>7, FramesStayLayered
<1>8. CASE StartPass \/ PassLoads \/ PassEnds \/ Loads \/ LoadFails \/ SkipPass
    <2>1. job.kind \in {"idle", "pass"} /\ stack' = stack
        BY <1>8 DEF StartPass, PassLoads, PassEnds, Loads, LoadFails, SkipPass, InPass,
           Sweeping, NoJob
    <2>2. job'.kind # "replace"
        <3>1. CASE job.kind = "pass"
            <4>1. job \in [kind : {"pass"}, phase : {"stop", "load", "loading"}, at : Nat,
                           lost : BOOLEAN]
                BY <1>0, <3>1, JobFacts
            <4>2. CASE PassEnds BY <4>2 DEF PassEnds, NoJob
            <4>3. CASE PassLoads BY <4>1, <4>3 DEF PassLoads
            <4>4. CASE Loads BY <4>1, <4>4 DEF Loads
            <4>5. CASE LoadFails BY <4>1, <4>5 DEF LoadFails
            <4>6. CASE StartPass \/ SkipPass BY <3>1, <4>6 DEF StartPass, SkipPass, NoJob
            <4> QED BY <1>8, <4>2, <4>3, <4>4, <4>5, <4>6
        <3>2. CASE job.kind = "idle"
            BY <1>8, <3>2
            DEF StartPass, PassLoads, PassEnds, Loads, LoadFails, SkipPass, NoJob, InPass, Sweeping
        <3> QED BY <2>1, <3>1, <3>2
    <2> QED BY <1>7, <2>1, <2>2 DEF ReplaceIn
<1>9. CASE StartReplaceIdle \/ StartReplace \/ ReplaceFails \/ ReplaceSwaps \/ StartShutdown
           \/ ShutdownEnds
    <2>1. /\ stack' = stack
          /\ job'.kind # "replace" \/ job'.phase = "activating"
        BY <1>9 DEF StartReplaceIdle, StartReplace, ReplaceFails, ReplaceSwaps, StartShutdown,
           ShutdownEnds, NoJob
    <2> QED BY <1>7, <2>1 DEF ReplaceIn
<1>10. CASE Calls \/ Timers \/ Reports
    <2>1. stack' = stack /\ (job' = job \/ job' = [job EXCEPT !.lost = TRUE])
        BY <1>10 DEF Calls, Timers, Reports, Enable, Disable, Retry, Replace, Close, RetryFires,
           ReportFailure, ReportUnheard
    <2>2. ReplaceIn("swap")' => ReplaceIn("swap") /\ job'.entry = job.entry
        <3>1. SameJob BY <1>0, <2>1, JobsStay
        <3> QED BY <1>0, <2>1, <3>1, JobFacts DEF SameJob, ReplaceIn
    <2> QED BY <1>7, <2>1, <2>2
<1>11. CASE UNCHANGED vars BY <1>7, <1>11 DEF vars, ReplaceIn
<1> QED
    BY <1>1, <1>2, <1>3, <1>4, <1>5, <1>6, <1>8, <1>9, <1>10, <1>11
    DEF Next, JobSteps, UnloadSteps

LEMMA LayeredNextKeeps ==
    ASSUME NEW level \in [Entry -> Entry], Ordered(level), LInv(level), [Next]_vars
    PROVE  LInv(level)'
<1>0. IInv /\ OnlyVersionsRun /\ NeedsAreMet BY DEF LInv
<1>1. IInv' BY <1>0, NextKeeps
<1>2. FramesAreLayered(level)' BY LayersKeep
<1>3. OnlyVersionsRun' /\ NeedsAreMet'
    <2>1. CASE UNCHANGED vars
        BY <1>0, <2>1 DEF vars, OnlyVersionsRun, VersionsOf, NeedsAreMet, Supplied, Registered
    <2>2. CASE Next
        BY <1>0, <1>1, <2>2, PlainStepsKeep, PassLoadsSupplied, StartReplaceIdleSupplied,
           ReplaceSwapsSupplied, StartReplaceSupplied, WithdrawnSupplied, ReplaceSupplied
    <2> QED BY <2>1, <2>2
<1> QED BY <1>1, <1>2, <1>3 DEF LInv

LEMMA LayeredInitHolds ==
    ASSUME NEW level \in [Entry -> Entry], Init PROVE LInv(level)
<1>1. IInv BY InitHolds
<1>2. /\ \A e \in Entry : /\ entry[e].plugin = Profile[e]
                          /\ entry[e].state \notin Running
      /\ job = NoJob /\ stack = <<>> /\ queue = <<[kind |-> "pass"]>>
    BY DEF Init, Running
<1>3. \A i \in DOMAIN queue : queue[i].kind # "replace" BY <1>2
<1>4. NoJob.kind = "idle" BY DEF NoJob
<1>5. OnlyVersionsRun BY <1>2, <1>3, <1>4 DEF OnlyVersionsRun, VersionsOf
<1>6. DOMAIN stack = {} BY <1>2
<1>7. FramesAreLayered(level) BY <1>6 DEF FramesAreLayered
<1>8. NeedsAreMet BY <1>2, <1>4 DEF NeedsAreMet, Running
<1> QED BY <1>1, <1>5, <1>7, <1>8 DEF LInv
-----------------------------------------------------------------------------
(* The theorems.                                                           *)

LEMMA SettledFixed == ASSUME IInv PROVE SettledIsFixedPoint
<1> SUFFICES ASSUME Settled, closing = "no", NEW e \in Entry
             PROVE  LET x == entry[e] IN
                    /\ x.state \in {"waiting", "active", "disposed", "failed"}
                    /\ x.state = "disposed" <=> ~x.enabled
                    /\ x.state = "active" => ~ShouldStop(x)
                    /\ x.state = "waiting" => ~ShouldLoad(x) /\ ~x.misconfigured
                    /\ (x.state = "active") <=> (x.inst # None)
    BY DEF SettledIsFixedPoint
<1>1. ~loop /\ job = NoJob BY DEF Settled
<1>2. ~ReplaceIn("swap") BY <1>1 DEF ReplaceIn, NoJob
<1>3. Fixed(entry[e]) BY <1>1, <1>2 DEF IInv, NothingIsLeft
<1>4. stack = <<>> BY <1>1, NoJobFacts
<1>5. Has(e) <=> entry[e].state = "active" BY <1>4, IdleFacts
<1> QED BY <1>3, <1>5 DEF Fixed, Has

LEMMA RegistryTrue == ASSUME IInv PROVE RegistryIsTrue
BY DEF IInv, RegistryIsHeld, RegistryIsTrue, Has

LEMMA RestartsBounded == ASSUME IInv PROVE RestartsAreBounded
BY DEF IInv, RetriesAreCounted, RetryIsCounted, RestartsAreBounded

LEMMA ShutdownFinal == ASSUME IInv PROVE ShutdownIsFinal
<1> SUFFICES ASSUME closing = "done"
             PROVE  /\ \A e \in Entry : /\ entry[e].inst = None /\ entry[e].state = "disposed"
                                        /\ ~entry[e].retry
                    /\ Registered = {}
    BY DEF ShutdownIsFinal
<1>1. \A e \in Entry : entry[e].state = "disposed" /\ ~entry[e].retry BY DEF IInv, JobIsTrue
<1>2. \A e \in Entry : ~Has(e) BY <1>1 DEF IInv, InstancesAreHeld
<1>3. \A e \in Entry : ProvidedBy(e) = {} BY <1>2 DEF IInv, RegistryIsHeld
<1>4. services \in [Service -> Entry \cup {None}] BY DEF IInv, TypeOK
<1>5. Registered = {} BY <1>3, <1>4 DEF Registered, ProvidedBy
<1> QED BY <1>1, <1>2, <1>5 DEF Has

LEMMA ProvidersStay == ASSUME IInv, NeedsAreMet PROVE ProvidersOutlive
<1> SUFFICES ASSUME NEW e \in Entry, entry[e].inst # None, ~entry[e].inst.closed
             PROVE  Supplied(entry[e].plugin)
    BY DEF ProvidersOutlive
<1>1. entry[e].state \in {"active", "quiescing"} BY DEF IInv, InstancesAreHeld, Has
<1> QED BY <1>1 DEF NeedsAreMet

LEMMA DisposedInOrder ==
    ASSUME NEW level \in [Entry -> Entry], Ordered(level), LInv(level) PROVE DisposedSafely
<1>0. IInv /\ OnlyVersionsRun /\ FramesAreLayered(level) BY DEF LInv
<1> SUFFICES ASSUME NEW e \in Entry, entry[e].inst # None, entry[e].inst.closed
             PROVE  /\ entry[e].inst.revoked \/ entry[e].inst.forced
                    /\ \A c \in Entry \ {e} :
                          Needs[entry[c].plugin] \cap ProvidedBy(e) # {} =>
                             entry[c].inst = None \/ entry[c].inst.closed
    BY DEF DisposedSafely
<1>1. entry[e].state = "unloading" BY <1>0 DEF IInv, InstancesAreHeld, Has
<1>2. PICK i \in DOMAIN stack : stack[i].entry = e
    BY <1>0, <1>1 DEF IInv, LeavingAreOnStack, OnStack
<1>3. stack[i].step \in {"dispose", "disposers"}
    BY <1>0, <1>1, <1>2, FrameFacts DEF IInv, FramesAreTrue
<1>4. i = 1 BY <1>0, <1>3 DEF IInv, FramesAreTrue
<1>5. entry[e].inst.revoked \/ entry[e].inst.forced
    BY <1>0, <1>2, <1>3 DEF IInv, FramesAreTrue
<1>6. ASSUME NEW c \in Entry \ {e}, Needs[entry[c].plugin] \cap ProvidedBy(e) # {}
      PROVE  entry[c].inst = None \/ entry[c].inst.closed
    <2>1. ProvidedBy(e) # {} BY <1>6
    <2>2. stack[i].step = "dispose" BY <1>0, <1>2, <1>3, <2>1 DEF IInv, FramesAreTrue
    <2>3. Consumers(e) = {} BY <1>0, <1>2, <2>2 DEF IInv, FramesAreTrue
    <2>4. entry[c].state # "active" BY <1>6, <2>3 DEF Consumers
    <2>5. entry[c].state # "quiescing"
        <3> SUFFICES ASSUME entry[c].state = "quiescing" PROVE FALSE
            OBVIOUS
        <3>1. PICK j \in DOMAIN stack : stack[j].entry = c
            BY <1>0 DEF IInv, LeavingAreOnStack, OnStack
        <3>2. i < j
            <4>1. j # 1 BY <1>2, <1>4, <1>6, <3>1
            <4> QED BY <1>0, <1>4, <3>1, <4>1, FrameFacts DEF IInv
        <3>3. level[c] < level[e] BY <1>0, <1>2, <3>1, <3>2 DEF FramesAreLayered
        <3>4. ProvidedBy(e) \subseteq Provides[entry[e].plugin] BY <1>0 DEF IInv, RegistryIsHeld
        <3>5. Needs[entry[c].plugin] \cap Provides[entry[e].plugin] # {} BY <1>6, <3>4
        <3>6. entry[c].plugin \in VersionsOf(c) /\ entry[e].plugin \in VersionsOf(e)
            BY <1>0 DEF OnlyVersionsRun
        <3>7. level[e] < level[c] BY <3>5, <3>6 DEF Ordered
        <3>8. level[c] \in Nat /\ level[e] \in Nat BY EntriesAreNumbers
        <3> QED BY <3>3, <3>7, <3>8
    <2> QED BY <1>0, <2>4, <2>5 DEF IInv, InstancesAreHeld, Has
<1> QED BY <1>5, <1>6

\* Whatever the plugins need of each other: when the loop has ended no entry is left to
\* load or to stop, registered services are of instances, restarts are counted, and after
\* shutdown() nothing is left (kernel.ts: #reconcileLocked, #fail, shutdown).  Of an entry
\* that has failed this says no more than that it is enabled: TimersAreKept does.
THEOREM KernelSettles ==
    Spec => [](TypeOK /\ SettledIsFixedPoint /\ RegistryIsTrue /\ RestartsAreBounded
                 /\ ShutdownIsFinal)
<1>1. Init => IInv BY InitHolds
<1>2. IInv /\ [Next]_vars => IInv' BY NextKeeps
<1>3. IInv => /\ TypeOK /\ SettledIsFixedPoint /\ RegistryIsTrue /\ RestartsAreBounded
              /\ ShutdownIsFinal
    BY SettledFixed, RegistryTrue, RestartsBounded, ShutdownFinal DEF IInv
<1> QED BY <1>1, <1>2, <1>3, PTL DEF Spec

\* A failed entry has its timer or has used up its tries, whatever was replaced, disabled
\* or lost on the way; but for the one whose timer fired while it was disabled, which
\* is left to the operator if it is enabled again (kernel.ts: #fail).
THEOREM TimersAreKept == Spec => OnlyIdleTimersAreSpent
<1>1. Init => IInv BY InitHolds
<1>2. IInv /\ [Next]_vars => IInv' BY NextKeeps
<1>3. IInv /\ [Next]_vars =>
         [\A e \in Entry :
             LeftAlone(entry'[e]) /\ ~LeftAlone(entry[e]) => entry[e].retry /\ ~entry[e].enabled]_entry
    BY JobsTryOn, CallsTryOn DEF Next, vars, AllTriesStay, TriesStay
<1> QED BY <1>1, <1>2, <1>3, PTL DEF Spec, OnlyIdleTimersAreSpent

\* When the plugins are layered, what works, or is being asked to stop, has the services
\* it needs besides (kernel.ts: #unload, consumers first).
THEOREM KernelStaysSound == ASSUME Layered PROVE Spec => []KernelIsSound
<1>1. PICK level \in [Entry -> Entry] : Ordered(level) BY DEF Layered
<1>2. Init => LInv(level) BY LayeredInitHolds
<1>3. LInv(level) /\ [Next]_vars => LInv(level)' BY <1>1, LayeredNextKeeps
<1>4. LInv(level) => KernelIsSound
    BY SettledFixed, RegistryTrue, RestartsBounded, ProvidersStay DEF LInv, IInv, KernelIsSound
<1> QED BY <1>2, <1>3, <1>4, PTL DEF Spec

\* When the plugins are layered, nobody is disposed of while a consumer still works, nor
\* with leases of which nobody was told; nothing stays (kernel.ts: #unload, #dispose).
THEOREM KernelLeavesInOrder == ASSUME Layered PROVE Spec => []LeavesInOrder
<1>1. PICK level \in [Entry -> Entry] : Ordered(level) BY DEF Layered
<1>2. Init => LInv(level) BY LayeredInitHolds
<1>3. LInv(level) /\ [Next]_vars => LInv(level)' BY <1>1, LayeredNextKeeps
<1>4. LInv(level) => LeavesInOrder
    BY <1>1, DisposedInOrder, ShutdownFinal DEF LInv, LeavesInOrder
<1> QED BY <1>2, <1>3, <1>4, PTL DEF Spec
=============================================================================
