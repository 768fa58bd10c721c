------------------------------- MODULE MCWatchdog -------------------------------
(* The host and its watchdog, with as many accidents as a run allows.        *)
EXTENDS Watchdog
=============================================================================
