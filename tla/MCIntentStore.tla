----------------------------- MODULE MCIntentStore -----------------------------
(***************************************************************************)
(* An instance of IntentStore for TLC: two intents on one target, of which *)
(* one is a time-sensitive speech that recovery closes at once, and one    *)
(* that only the operator may resolve.                                     *)
(***************************************************************************)
EXTENDS IntentStore, TLC

CONSTANTS k1, k2, t1, c1, c2, p1, p2

MCTargetOf == (k1 :> t1) @@ (k2 :> t1)
MCSensitive == {k2}
MCInterruptible == {k2}
=============================================================================
