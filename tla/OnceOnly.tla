-------------------------------- MODULE OnceOnly --------------------------------
(***************************************************************************)
(* What the state store promises about side effects: an effect is carried  *)
(* out at most once, only after it was begun, and an effect that was closed*)
(* without having begun never begins.  A begun effect may still land after *)
(* it was closed: a request can outlive the call that made it.             *)
(***************************************************************************)
CONSTANT Key

VARIABLES
    begun,   \* effects recorded as begun
    acted,   \* how often each effect was carried out
    closed   \* effects with a final result

vars == <<begun, acted, closed>>

TypeOK ==
    /\ begun \subseteq Key
    /\ acted \in [Key -> {0, 1}]
    /\ \A k \in Key : acted[k] = 1 => k \in begun
    /\ closed \subseteq Key

Init ==
    /\ begun = {}
    /\ acted = [k \in Key |-> 0]
    /\ closed = {}

Begin(k) ==
    /\ k \notin begun \cup closed
    /\ begun' = begun \cup {k}
    /\ UNCHANGED <<acted, closed>>

Act(k) ==
    /\ k \in begun
    /\ acted[k] = 0
    /\ acted' = [acted EXCEPT ![k] = 1]
    /\ UNCHANGED <<begun, closed>>

\* One result, or all those a recovery gives at once.
Close(K) ==
    /\ closed' = closed \cup K
    /\ UNCHANGED <<begun, acted>>

Next ==
    \/ \E k \in Key : Begin(k) \/ Act(k)
    \/ \E K \in SUBSET Key : Close(K)

Spec == Init /\ [][Next]_vars
=============================================================================
