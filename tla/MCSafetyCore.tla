------------------------------ MODULE MCSafetyCore ------------------------------
(***************************************************************************)
(* A critical plugin and another, the leases of the Stage URL and of one   *)
(* output, one request to authorize: enough for a stop, a fault of the     *)
(* store and OBS to meet in the middle of each other.                      *)
(***************************************************************************)
EXTENDS SafetyCore

CONSTANTS url, voice, plugin, guest, say
=============================================================================
