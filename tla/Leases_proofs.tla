------------------------------ MODULE Leases_proofs ------------------------------
(***************************************************************************)
(* Proofs about Leases, for any resources, holders and times to live.      *)
(***************************************************************************)
EXTENDS Leases, TLAPS

\* Typed, tokens counted, and told as it is: what the subscribers were told is
\* what the host holds, and a host that is down holds nothing.
ToldAsHeld ==
    \A r \in Resource :
        /\ up => told[r] = active[r]
        /\ ~up => active[r] = None

IInv == TypeOK /\ TokensAreCounted /\ ToldAsHeld
-----------------------------------------------------------------------------
(* What the helpers do to the invariant.                                   *)

\* Forgetting keeps the types, and keeps or forgets each lease on both sides.
LEMMA ForgetKeepsTyped ==
    ASSUME TypeOK, NEW R \in SUBSET Resource, Forget(R)
    PROVE  /\ active' \in [Resource -> Lease \cup {None}]
           /\ told' \in [Resource -> Lease \cup {None}]
           /\ \A r \in Resource : active'[r] \in {active[r], None}
           /\ \A r \in Resource : told'[r] \in {told[r], None}
           /\ \A r \in Resource : told[r] = active[r] => told'[r] = active'[r]
BY DEF TypeOK, Forget

\* Using tokens up only counts on.
LEMMA UseUpOnlyCounts ==
    ASSUME TypeOK, NEW R \in SUBSET Resource, UseUp(R)
    PROVE  /\ counter' \in [Resource -> Nat]
           /\ \A r \in Resource : counter'[r] >= counter[r]
BY DEF TypeOK, UseUp

\* Leases that are kept or forgotten, under counters that only grow, are still
\* counted.
LEMMA StillCounted ==
    ASSUME TypeOK, TokensAreCounted,
           counter' \in [Resource -> Nat],
           \A r \in Resource : counter'[r] >= counter[r],
           \A r \in Resource : active'[r] \in {active[r], None},
           \A r \in Resource : told'[r] \in {told[r], None}
    PROVE  TokensAreCounted'
<1> SUFFICES ASSUME NEW r \in Resource
             PROVE  /\ active'[r] # None => active'[r].token <= counter'[r]
                    /\ told'[r] # None => told'[r].token <= counter'[r]
    BY DEF TokensAreCounted
<1> counter[r] \in Nat /\ counter'[r] \in Nat /\ counter'[r] >= counter[r]
    BY DEF TypeOK
<1>1. ASSUME active'[r] # None PROVE active'[r].token <= counter'[r]
    <2>1. active'[r] = active[r] BY <1>1
    <2>2. active[r].token \in Nat BY <1>1, <2>1 DEF TypeOK, Lease
    <2>3. active[r].token <= counter[r] BY <1>1, <2>1 DEF TokensAreCounted
    <2> QED BY <2>1, <2>2, <2>3
<1>2. ASSUME told'[r] # None PROVE told'[r].token <= counter'[r]
    <2>1. told'[r] = told[r] BY <1>2
    <2>2. told[r].token \in Nat BY <1>2, <2>1 DEF TypeOK, Lease
    <2>3. told[r].token <= counter[r] BY <1>2, <2>1 DEF TokensAreCounted
    <2> QED BY <2>1, <2>2, <2>3
<1> QED BY <1>1, <1>2

\* Revoking, whether its writes succeed or not, keeps the invariant, keeps or
\* forgets each lease, and never lowers a counter.
LEMMA RevokeKeeps ==
    ASSUME IInv, NEW R \in SUBSET Resource, Revoke(R)
    PROVE  /\ IInv'
           /\ up' = up /\ now' = now
           /\ \A r \in Resource : active'[r] \in {active[r], None}
           /\ \A r \in Resource : told'[r] \in {told[r], None}
<1>1. CASE RevokeEach(R)
    <2>1. Forget(R) /\ UNCHANGED <<up, healthy, now, crashes>> BY <1>1 DEF RevokeEach
    <2>2. PICK S \in SUBSET Resource : UseUp(S) BY <1>1 DEF RevokeEach
    <2>3. counter' \in [Resource -> Nat] /\ \A r \in Resource : counter'[r] >= counter[r]
        BY <2>2, UseUpOnlyCounts DEF IInv
    <2>4. /\ active' \in [Resource -> Lease \cup {None}]
          /\ told' \in [Resource -> Lease \cup {None}]
          /\ \A r \in Resource : active'[r] \in {active[r], None}
          /\ \A r \in Resource : told'[r] \in {told[r], None}
          /\ \A r \in Resource : told[r] = active[r] => told'[r] = active'[r]
        BY <2>1, ForgetKeepsTyped DEF IInv
    <2>5. TypeOK' BY <2>1, <2>3, <2>4 DEF IInv, TypeOK
    <2>6. TokensAreCounted' BY <2>3, <2>4, StillCounted DEF IInv
    <2>7. ToldAsHeld' BY <2>1, <2>4 DEF IInv, ToldAsHeld
    <2> QED BY <2>1, <2>4, <2>5, <2>6, <2>7 DEF IInv
<1>2. CASE RevokeEachFaulting(R)
    <2>1. healthy' = FALSE /\ UNCHANGED <<up, now, crashes>> BY <1>2 DEF RevokeEachFaulting
    <2>2. PICK S \in SUBSET Resource : UseUp(S) BY <1>2 DEF RevokeEachFaulting
    <2>3. counter' \in [Resource -> Nat] /\ \A r \in Resource : counter'[r] >= counter[r]
        BY <2>2, UseUpOnlyCounts DEF IInv
    <2>4. PICK F \in SUBSET Resource : Forget(F) BY <1>2 DEF RevokeEachFaulting, Leased
    <2>5. /\ active' \in [Resource -> Lease \cup {None}]
          /\ told' \in [Resource -> Lease \cup {None}]
          /\ \A r \in Resource : active'[r] \in {active[r], None}
          /\ \A r \in Resource : told'[r] \in {told[r], None}
          /\ \A r \in Resource : told[r] = active[r] => told'[r] = active'[r]
        BY <2>4, ForgetKeepsTyped DEF IInv
    <2>6. TypeOK' BY <2>1, <2>3, <2>5 DEF IInv, TypeOK
    <2>7. TokensAreCounted' BY <2>3, <2>5, StillCounted DEF IInv
    <2>8. ToldAsHeld' BY <2>1, <2>5 DEF IInv, ToldAsHeld
    <2> QED BY <2>1, <2>5, <2>6, <2>7, <2>8 DEF IInv
<1> QED BY <1>1, <1>2 DEF Revoke
-----------------------------------------------------------------------------
(* The steps.                                                              *)

\* A grant makes a lease whose token exceeds every token issued before.
LEMMA GrantKeeps ==
    ASSUME IInv, NEW h \in Holder, NEW r \in Resource, Grant(h, r)
    PROVE  /\ IInv'
           /\ up' = up /\ now' = now
           /\ active'[r] = told'[r] /\ active'[r].token = counter[r] + 1
           /\ \A q \in Resource \ {r} : active'[q] = active[q] /\ told'[q] = told[q]
<1> DEFINE lease == [holder |-> h, token |-> counter[r] + 1, expires |-> now + Ttl[r]]
<1>1. counter[r] \in Nat /\ now \in Nat /\ Ttl[r] \in Nat
    BY LeasesAssumption DEF IInv, TypeOK
<1>2. lease \in Lease BY <1>1 DEF Lease
<1>3. /\ up /\ active' = [active EXCEPT ![r] = lease] /\ told' = [told EXCEPT ![r] = lease]
      /\ counter' = [counter EXCEPT ![r] = counter[r] + 1]
      /\ UNCHANGED <<up, healthy, now, crashes>>
    BY DEF Grant, Publish
<1>4. /\ active'[r] = lease /\ told'[r] = lease
      /\ \A q \in Resource \ {r} : active'[q] = active[q] /\ told'[q] = told[q]
    BY <1>3 DEF IInv, TypeOK
<1>5. TypeOK' BY <1>1, <1>2, <1>3 DEF IInv, TypeOK
<1>6. TokensAreCounted'
    <2> SUFFICES ASSUME NEW q \in Resource
                 PROVE  /\ active'[q] # None => active'[q].token <= counter'[q]
                        /\ told'[q] # None => told'[q].token <= counter'[q]
        BY DEF TokensAreCounted
    <2>1. CASE q = r
        <3>1. counter'[r] = counter[r] + 1 BY <1>3 DEF IInv, TypeOK
        <3>2. active'[r].token = counter[r] + 1 /\ told'[r].token = counter[r] + 1 BY <1>4
        <3> QED BY <1>1, <2>1, <3>1, <3>2
    <2>2. CASE q # r
        <3>1. counter'[q] = counter[q] BY <1>3, <2>2 DEF IInv, TypeOK
        <3>2. active'[q] = active[q] /\ told'[q] = told[q] BY <1>4, <2>2
        <3> QED BY <3>1, <3>2 DEF IInv, TokensAreCounted
    <2> QED BY <2>1, <2>2
<1>7. ToldAsHeld'
    <2> SUFFICES ASSUME NEW q \in Resource PROVE told'[q] = active'[q]
        BY <1>3 DEF ToldAsHeld
    <2>1. CASE q = r BY <1>4, <2>1
    <2>2. CASE q # r BY <1>3, <1>4, <2>2 DEF IInv, ToldAsHeld
    <2> QED BY <2>1, <2>2
<1> QED BY <1>3, <1>4, <1>5, <1>6, <1>7 DEF IInv

\* Renewing changes nothing but the moment of expiry of a live lease.
LEMMA RenewKeeps ==
    ASSUME IInv, NEW r \in Resource, Renew(r)
    PROVE  /\ IInv'
           /\ up' = up /\ now' = now
           /\ active[r] # None /\ now < active[r].expires /\ told[r] = active[r]
           /\ active'[r] = told'[r] /\ active'[r].token = active[r].token
           /\ \A q \in Resource \ {r} : active'[q] = active[q] /\ told'[q] = told[q]
<1>1. /\ up /\ active[r] # None /\ now < active[r].expires
      /\ active' = [active EXCEPT ![r].expires = now + Ttl[r]]
      /\ told' = [told EXCEPT ![r] = active'[r]]
      /\ UNCHANGED <<up, healthy, now, counter, crashes>>
    BY DEF Renew, Live, Publish
<1>2. now \in Nat /\ Ttl[r] \in Nat /\ active[r] \in Lease
    <2>1. now \in Nat /\ Ttl[r] \in Nat BY LeasesAssumption DEF IInv, TypeOK
    <2>2. active[r] \in Lease BY <1>1 DEF IInv, TypeOK
    <2> QED BY <2>1, <2>2
<1>3. /\ active'[r] = [active[r] EXCEPT !.expires = now + Ttl[r]]
      /\ \A q \in Resource \ {r} : active'[q] = active[q] /\ told'[q] = told[q]
      /\ told'[r] = active'[r]
    BY <1>1 DEF IInv, TypeOK
<1>4. active'[r] \in Lease /\ active'[r].token = active[r].token BY <1>2, <1>3 DEF Lease
<1>5. TypeOK'
    <2>1. active' \in [Resource -> Lease \cup {None}]
        <3>1. active' = [active EXCEPT ![r] = active'[r]] BY <1>1, <1>3 DEF IInv, TypeOK
        <3> QED BY <3>1, <1>4 DEF IInv, TypeOK
    <2>2. told' \in [Resource -> Lease \cup {None}] BY <1>1, <1>4 DEF IInv, TypeOK
    <2> QED BY <1>1, <2>1, <2>2 DEF IInv, TypeOK
<1>6. TokensAreCounted'
    <2> SUFFICES ASSUME NEW q \in Resource
                 PROVE  /\ active'[q] # None => active'[q].token <= counter[q]
                        /\ told'[q] # None => told'[q].token <= counter[q]
        BY <1>1 DEF TokensAreCounted
    <2>1. CASE q = r BY <1>1, <1>3, <1>4, <2>1 DEF IInv, TokensAreCounted
    <2>2. CASE q # r BY <1>3, <2>2 DEF IInv, TokensAreCounted
    <2> QED BY <2>1, <2>2
<1>7. ToldAsHeld'
    <2> SUFFICES ASSUME NEW q \in Resource PROVE told'[q] = active'[q]
        BY <1>1 DEF ToldAsHeld
    <2>1. CASE q = r BY <1>3, <2>1
    <2>2. CASE q # r BY <1>1, <1>3, <2>2 DEF IInv, ToldAsHeld
    <2> QED BY <2>1, <2>2
<1> QED BY <1>1, <1>3, <1>4, <1>5, <1>6, <1>7 DEF IInv, ToldAsHeld

\* The other steps keep every lease or forget it, whichever side holds it.
LEMMA OthersKeep ==
    ASSUME IInv, StoreFault \/ Tick \/ Crash \/ Restart
    PROVE  /\ IInv'
           /\ now' \in Nat /\ now' >= now
           /\ \A r \in Resource : active'[r] \in {active[r], None}
           /\ \A r \in Resource : told'[r] \in {told[r], None}
<1> USE LeasesAssumption
<1>1. CASE StoreFault
    <2>1. PICK F \in SUBSET Resource : Forget(F) BY <1>1 DEF StoreFault, Leased
    <2>2. /\ active' \in [Resource -> Lease \cup {None}]
          /\ told' \in [Resource -> Lease \cup {None}]
          /\ \A r \in Resource : active'[r] \in {active[r], None}
          /\ \A r \in Resource : told'[r] \in {told[r], None}
          /\ \A r \in Resource : told[r] = active[r] => told'[r] = active'[r]
        BY <2>1, ForgetKeepsTyped DEF IInv
    <2>3. TypeOK' BY <1>1, <2>2 DEF IInv, TypeOK, StoreFault
    <2>4. TokensAreCounted'
        <3>1. counter' = counter BY <1>1 DEF StoreFault
        <3> QED BY <2>2, <3>1, StillCounted DEF IInv, TypeOK
    <2>5. ToldAsHeld' BY <1>1, <2>2 DEF IInv, ToldAsHeld, StoreFault
    <2> QED BY <1>1, <2>2, <2>3, <2>4, <2>5 DEF IInv, TypeOK, StoreFault
<1>2. CASE Tick
    <2>1. now' = now + 1 /\ now < MaxTime BY <1>2 DEF Tick
    <2>2. now \in Nat /\ now' \in 0..MaxTime BY <2>1 DEF IInv, TypeOK
    <2>3. TypeOK' BY <1>2, <2>2 DEF IInv, TypeOK, Tick
    <2>4. TokensAreCounted' BY <1>2 DEF IInv, TokensAreCounted, Tick
    <2>5. ToldAsHeld' BY <1>2 DEF IInv, ToldAsHeld, Tick
    <2> QED BY <1>2, <2>1, <2>2, <2>3, <2>4, <2>5 DEF IInv, Tick
<1>3. CASE Crash
    <2>0. crashes' \in 0..MaxCrashes /\ active' \in [Resource -> Lease \cup {None}]
        BY <1>3 DEF IInv, TypeOK, Crash
    <2>1. TypeOK' BY <1>3, <2>0 DEF IInv, TypeOK, Crash
    <2>2. TokensAreCounted' BY <1>3 DEF IInv, TokensAreCounted, Crash
    <2>3. ToldAsHeld' BY <1>3 DEF ToldAsHeld, Crash
    <2> QED BY <1>3, <2>1, <2>2, <2>3 DEF IInv, TypeOK, Crash
<1>4. CASE Restart
    <2>1. TypeOK' BY <1>4 DEF IInv, TypeOK, Restart
    <2>2. TokensAreCounted' BY <1>4 DEF IInv, TokensAreCounted, Restart
    <2>3. ToldAsHeld' BY <1>4 DEF IInv, ToldAsHeld, Restart
    <2> QED BY <1>4, <2>1, <2>2, <2>3 DEF IInv, TypeOK, Restart
<1> QED BY <1>1, <1>2, <1>3, <1>4

\* Every step keeps the invariant, and makes no token valid that was not.
LEMMA NextKeeps ==
    ASSUME IInv, [Next]_vars
    PROVE  /\ IInv'
           /\ \A r \in Resource : \A token \in 1..counter[r] :
                 /\ ~Valid(r, token) => ~Valid(r, token)'
                 /\ ~DeviceAccepts(r, token) => ~DeviceAccepts(r, token)'
<1> DEFINE Stale ==
        \A r \in Resource : \A token \in 1..counter[r] :
            /\ ~Valid(r, token) => ~Valid(r, token)'
            /\ ~DeviceAccepts(r, token) => ~DeviceAccepts(r, token)'
<1>0. ASSUME now \in Nat, now' \in Nat, now' >= now,
             \A r \in Resource : active'[r] \in {active[r], None},
             \A r \in Resource : told'[r] \in {told[r], None},
             TypeOK
      PROVE  Stale
    <2> SUFFICES ASSUME NEW r \in Resource, NEW token \in 1..counter[r]
                 PROVE  /\ ~Valid(r, token) => ~Valid(r, token)'
                        /\ ~DeviceAccepts(r, token) => ~DeviceAccepts(r, token)'
        OBVIOUS
    <2>1. ASSUME Valid(r, token)' PROVE Valid(r, token)
        <3>1. active'[r] = active[r] /\ active[r] # None
            BY <1>0, <2>1 DEF Valid, Live
        <3>2. active[r].expires \in Nat BY <1>0, <3>1 DEF TypeOK, Lease
        <3>3. now' < active[r].expires /\ active[r].token = token
            BY <2>1, <3>1 DEF Valid, Live
        <3> QED BY <1>0, <3>1, <3>2, <3>3 DEF Valid, Live
    <2>2. ASSUME DeviceAccepts(r, token)' PROVE DeviceAccepts(r, token)
        <3>1. told'[r] = told[r] /\ told[r] # None
            BY <1>0, <2>2 DEF DeviceAccepts
        <3>2. told[r].expires \in Nat BY <1>0, <3>1 DEF TypeOK, Lease
        <3>3. now' < told[r].expires /\ told[r].token = token
            BY <2>2, <3>1 DEF DeviceAccepts
        <3> QED BY <1>0, <3>1, <3>2, <3>3 DEF DeviceAccepts
    <2> QED BY <2>1, <2>2
<1>n. TypeOK /\ now \in Nat BY LeasesAssumption DEF IInv, TypeOK
<1>1. ASSUME NEW h \in Holder, NEW r \in Resource, Grant(h, r) PROVE IInv' /\ Stale
    <2>1. /\ IInv' /\ now' = now
          /\ active'[r] = told'[r] /\ active'[r].token = counter[r] + 1
          /\ \A q \in Resource \ {r} : active'[q] = active[q] /\ told'[q] = told[q]
        BY <1>1, GrantKeeps
    <2>2. Stale
        <3> SUFFICES ASSUME NEW q \in Resource, NEW token \in 1..counter[q]
                     PROVE  /\ ~Valid(q, token) => ~Valid(q, token)'
                            /\ ~DeviceAccepts(q, token) => ~DeviceAccepts(q, token)'
            OBVIOUS
        <3>1. CASE q = r
            <4>1. counter[r] \in Nat BY <1>n DEF TypeOK
            <4>2. token # counter[r] + 1 BY <3>1, <4>1
            <4> QED BY <2>1, <3>1, <4>2 DEF Valid, Live, DeviceAccepts
        <3>2. CASE q # r BY <2>1, <3>2 DEF Valid, Live, DeviceAccepts
        <3> QED BY <3>1, <3>2
    <2> QED BY <2>1, <2>2
<1>2. ASSUME NEW r \in Resource, Renew(r) PROVE IInv' /\ Stale
    <2>1. /\ IInv' /\ now' = now
          /\ active[r] # None /\ now < active[r].expires /\ told[r] = active[r]
          /\ active'[r] = told'[r] /\ active'[r].token = active[r].token
          /\ \A q \in Resource \ {r} : active'[q] = active[q] /\ told'[q] = told[q]
        BY <1>2, RenewKeeps
    <2>2. Stale
        <3> SUFFICES ASSUME NEW q \in Resource, NEW token \in 1..counter[q]
                     PROVE  /\ ~Valid(q, token) => ~Valid(q, token)'
                            /\ ~DeviceAccepts(q, token) => ~DeviceAccepts(q, token)'
            OBVIOUS
        <3>1. CASE q = r BY <2>1, <3>1 DEF Valid, Live, DeviceAccepts
        <3>2. CASE q # r BY <2>1, <3>2 DEF Valid, Live, DeviceAccepts
        <3> QED BY <3>1, <3>2
    <2> QED BY <2>1, <2>2
<1>3. ASSUME NEW R \in SUBSET Resource, Revoke(R) PROVE IInv' /\ Stale
    <2>1. /\ IInv' /\ now' = now
          /\ \A r \in Resource : active'[r] \in {active[r], None}
          /\ \A r \in Resource : told'[r] \in {told[r], None}
        BY <1>3, RevokeKeeps
    <2> QED BY <1>0, <1>n, <2>1
<1>4. CASE StoreFault \/ Tick \/ Crash \/ Restart
    <2>1. /\ IInv' /\ now' \in Nat /\ now' >= now
          /\ \A r \in Resource : active'[r] \in {active[r], None}
          /\ \A r \in Resource : told'[r] \in {told[r], None}
        BY <1>4, OthersKeep
    <2> QED BY <1>0, <1>n, <2>1
<1>5. CASE UNCHANGED vars
    BY <1>5 DEF vars, IInv, TypeOK, TokensAreCounted, ToldAsHeld, Valid, Live, DeviceAccepts
<1>6. ASSUME NEW h \in Holder, NEW r \in Resource, Release(h, r) PROVE IInv' /\ Stale
    BY <1>3, <1>6 DEF Release
<1>7. ASSUME NEW h \in Holder, RevokeHolder(h) PROVE IInv' /\ Stale
    BY <1>3, <1>7 DEF RevokeHolder, Held
<1>8. CASE RevokeAll BY <1>3, <1>8 DEF RevokeAll, Leased
<1> QED BY <1>1, <1>2, <1>4, <1>5, <1>6, <1>7, <1>8 DEF Next
-----------------------------------------------------------------------------
\* In every reachable state the invariant holds.
THEOREM InductiveInvariant == Spec => []IInv
<1>1. Init => IInv
    BY LeasesAssumption DEF Init, IInv, TypeOK, TokensAreCounted, ToldAsHeld
<1>2. IInv /\ [Next]_vars => IInv' BY NextKeeps
<1> QED BY <1>1, <1>2, PTL DEF Spec

\* Every reachable state of the leases has its declared types.
THEOREM TypeCorrect == Spec => []TypeOK
<1>1. IInv => TypeOK BY DEF IInv
<1> QED BY <1>1, InductiveInvariant, PTL

\* The tokens in use all come from the durable counter.
THEOREM TokensStayCounted == Spec => []TokensAreCounted
<1>1. IInv => TokensAreCounted BY DEF IInv
<1> QED BY <1>1, InductiveInvariant, PTL

\* While the host runs a device accepts exactly what the host calls valid.
THEOREM DevicesJudgeAsTheHost == Spec => []DevicesAgreeWithHost
<1>1. IInv => DevicesAgreeWithHost
    BY DEF IInv, ToldAsHeld, DevicesAgreeWithHost, DeviceAccepts, Valid, Live
<1> QED BY <1>1, InductiveInvariant, PTL

\* All three together: host, devices and store agree.
THEOREM TheLeasesAreSound == Spec => []LeasesAreSound
<1>1. TypeOK /\ TokensAreCounted /\ DevicesAgreeWithHost => LeasesAreSound
    BY DEF LeasesAreSound
<1> QED BY <1>1, TypeCorrect, TokensStayCounted, DevicesJudgeAsTheHost, PTL

\* A token that is not valid any more is never valid again.
THEOREM StaleForGood == Spec => StaleTokensStayStale
<1>1. IInv /\ [Next]_vars =>
        [\A r \in Resource : \A token \in 1..counter[r] :
            /\ ~Valid(r, token) => ~Valid(r, token)'
            /\ ~DeviceAccepts(r, token) => ~DeviceAccepts(r, token)']_vars
    BY NextKeeps
<1> QED BY <1>1, InductiveInvariant, PTL DEF Spec, StaleTokensStayStale
=============================================================================
