--------------------------------- MODULE Leases ---------------------------------
(***************************************************************************)
(* Execution leases of the safety core (packages/safety, leases.ts).       *)
(*                                                                         *)
(* A resource has at most one holder, for a limited time.  Every grant has *)
(* a token from a durable counter; a device acts only under the token it   *)
(* was told last, and judges by itself when that expires.  Revoking takes  *)
(* effect in memory first and persists its token if the store lets it; the *)
(* leases themselves are lost with the process.                            *)
(*                                                                         *)
(* Whether a grant is allowed at all (mode, permissions) is SafetyCore's.  *)
(***************************************************************************)
EXTENDS Naturals

CONSTANTS
    Resource,    \* what is leased: "stage.audio", "obs.control", ...
    Holder,      \* plugin instances
    Ttl,         \* SafetyConfig.leaseTtlMs: [Resource -> Nat \ {0}]
    None,        \* no lease
    MaxTime,     \* bound on the clock
    MaxToken,    \* bound on the grants of a resource
    MaxCrashes   \* bound on the number of crashes

ASSUME LeasesAssumption ==
    /\ Ttl \in [Resource -> Nat \ {0}]
    /\ MaxTime \in Nat
    /\ MaxToken \in Nat
    /\ MaxCrashes \in Nat

VARIABLES
    up,        \* the host process runs
    healthy,   \* the state store accepts transactions
    now,       \* the host's monotonic clock
    counter,   \* lease_tokens in the store
    active,    \* Leases.#active: the lease of each resource, expired ones too
    told,      \* the update the subscribers (the devices) were given last
    crashes    \* number of crashes so far

vars == <<up, healthy, now, counter, active, told, crashes>>

Lease == [holder : Holder, token : Nat, expires : Nat]

TypeOK ==
    /\ up \in BOOLEAN
    /\ healthy \in BOOLEAN
    /\ now \in 0..MaxTime
    /\ counter \in [Resource -> Nat]
    /\ active \in [Resource -> Lease \cup {None}]
    /\ told \in [Resource -> Lease \cup {None}]
    /\ crashes \in 0..MaxCrashes

Init ==
    /\ up = TRUE
    /\ healthy = TRUE
    /\ now = 0
    /\ counter = [r \in Resource |-> 0]
    /\ active = [r \in Resource |-> None]
    /\ told = [r \in Resource |-> None]
    /\ crashes = 0
-----------------------------------------------------------------------------
\* #live: the lease of r, while it has not expired.
Live(r) == active[r] # None /\ now < active[r].expires

\* isValid
Valid(r, token) == Live(r) /\ active[r].token = token

\* What a device concludes from the update it was given last.
DeviceAccepts(r, token) ==
    /\ told[r] # None
    /\ told[r].token = token
    /\ now < told[r].expires

Held(h) == {r \in Resource : active[r] # None /\ active[r].holder = h}
Leased == {r \in Resource : active[r] # None}

\* #publish: the subscribers are told of every change, and of every renewal.
Publish(r, lease) == told' = [told EXCEPT ![r] = lease]
-----------------------------------------------------------------------------
\* grant: refused while another holder's lease is live; the token is persisted
\* before there is a lease.  The holder itself may ask again: a new token.
Grant(h, r) ==
    LET lease == [holder |-> h, token |-> counter[r] + 1, expires |-> now + Ttl[r]]
    IN  /\ up /\ healthy
        /\ counter[r] < MaxToken
        /\ Live(r) => active[r].holder = h
        /\ counter' = [counter EXCEPT ![r] = lease.token]
        /\ active' = [active EXCEPT ![r] = lease]
        /\ Publish(r, lease)
        /\ UNCHANGED <<up, healthy, now, crashes>>

\* Mutant of Renew: a lease in the table is good enough, expired or not.
RenewLapsed(r) ==
    /\ up
    /\ active[r] # None
    /\ active' = [active EXCEPT ![r].expires = now + Ttl[r]]
    /\ Publish(r, active'[r])
    /\ UNCHANGED <<up, healthy, now, counter, crashes>>

\* renew, asked for with the lease that is live (any other throws): the same
\* token for longer, nothing written.
Renew(r) ==
    /\ up
    /\ Live(r)
    /\ active' = [active EXCEPT ![r].expires = now + Ttl[r]]
    /\ Publish(r, active'[r])
    /\ UNCHANGED <<up, healthy, now, counter, crashes>>
-----------------------------------------------------------------------------
\* In memory the leases of R are gone and the devices know.
Forget(R) ==
    /\ active' = [r \in Resource |-> IF r \in R THEN None ELSE active[r]]
    /\ told' = [r \in Resource |-> IF r \in R THEN None ELSE told[r]]

\* In the store their tokens are used up.
UseUp(R) == counter' = [r \in Resource |-> IF r \in R THEN counter[r] + 1 ELSE counter[r]]

\* Mutant of RevokeEachFaulting: when the write fails the lease stays.
RevokeWrittenFirst(R) ==
    /\ up
    /\ healthy
    /\ R # {}
    /\ healthy' = FALSE
    /\ \E written \in SUBSET R :
          /\ written # R
          /\ UseUp(written)
          /\ active' = [r \in Resource |-> IF r \in written THEN None ELSE active[r]]
          /\ told' = [r \in Resource |-> IF r \in R THEN None ELSE told[r]]
    /\ UNCHANGED <<up, now, crashes>>

\* revoke, for each of R in turn: memory first, then the store, whose failure
\* is logged and nothing else.
RevokeEach(R) ==
    /\ up
    /\ UseUp(IF healthy THEN R ELSE {})
    /\ Forget(R)
    /\ UNCHANGED <<up, healthy, now, crashes>>

\* The store fails at one of R: only those before it are persisted.  The fault
\* is reported at once (onFault) and the safety core downgrades on the spot,
\* in most modes by an emergency stop that revokes every lease.
RevokeEachFaulting(R) ==
    /\ up
    /\ healthy
    /\ R # {}
    /\ healthy' = FALSE
    /\ \E written \in SUBSET R : written # R /\ UseUp(written)
    /\ Forget(R) \/ Forget(Leased)
    /\ UNCHANGED <<up, now, crashes>>

Revoke(R) == RevokeEach(R) \/ RevokeEachFaulting(R)

\* The holder gives back its lease (facade release): only a valid one.
Release(h, r) == Live(r) /\ active[r].holder = h /\ Revoke({r})

\* The instance is disposed of: all it holds, expired or not.
RevokeHolder(h) == Revoke(Held(h))

\* Emergency stop, maintenance.
RevokeAll == Revoke(Leased)

\* A transaction of anything else, or of grant, fails: nothing is granted, the
\* store is out until the restart, and the safety core downgrades.
StoreFault ==
    /\ up
    /\ healthy
    /\ healthy' = FALSE
    /\ Forget({}) \/ Forget(Leased)
    /\ UNCHANGED <<up, now, counter, crashes>>
-----------------------------------------------------------------------------
Tick ==
    /\ now < MaxTime
    /\ now' = now + 1
    /\ UNCHANGED <<up, healthy, counter, active, told, crashes>>

\* The devices outlive the host: they go by what they were told.
Crash ==
    /\ up
    /\ crashes < MaxCrashes
    /\ up' = FALSE
    /\ active' = [r \in Resource |-> None]
    /\ crashes' = crashes + 1
    /\ UNCHANGED <<healthy, now, counter, told>>

\* Restart: no lease but the old counters; a device starts from "no token"
\* (the Stage service sends it on activation, before anyone can play).
Restart ==
    /\ ~up
    /\ up' = TRUE
    /\ healthy' = TRUE
    /\ told' = [r \in Resource |-> None]
    /\ UNCHANGED <<now, counter, active, crashes>>

Next ==
    \/ \E h \in Holder, r \in Resource : Grant(h, r) \/ Release(h, r)
    \/ \E r \in Resource : Renew(r)
    \/ \E h \in Holder : RevokeHolder(h)
    \/ RevokeAll \/ StoreFault \/ Tick \/ Crash \/ Restart

Spec == Init /\ [][Next]_vars
-----------------------------------------------------------------------------
(* Properties.                                                             *)

\* The tokens of live leases, and those the devices still go by, come from the
\* counter, so the next grant exceeds them all.
TokensAreCounted ==
    \A r \in Resource :
        /\ active[r] # None => active[r].token <= counter[r]
        /\ told[r] # None => told[r].token <= counter[r]

\* A token that was valid once and no longer is (expired, given back, revoked,
\* replaced, lost with the process) is never valid again, on the host or at a
\* device: not by renewing late, by another grant, after a failed write or
\* after a restart.
StaleTokensStayStale ==
    [][\A r \in Resource : \A token \in 1..counter[r] :
          /\ ~Valid(r, token) => ~Valid(r, token)'
          /\ ~DeviceAccepts(r, token) => ~DeviceAccepts(r, token)']_vars

\* While the host runs, a device that goes by what it was told last, and by its
\* own clock, accepts exactly the tokens the host calls valid: after every
\* grant, renewal and revocation, whether or not it could be written.
DevicesAgreeWithHost ==
    up => \A r \in Resource : \A token \in 1..counter[r] :
              DeviceAccepts(r, token) <=> Valid(r, token)

\* Host, devices and store agree: the state has its types, every token in use
\* comes from the counter, and a device accepts what the host calls valid
\* (leases.ts: grant, renew, revoke and what they publish).
LeasesAreSound == TypeOK /\ TokensAreCounted /\ DevicesAgreeWithHost
=============================================================================
