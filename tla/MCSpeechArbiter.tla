-------------------------- MODULE MCSpeechArbiter --------------------------
(* Four utterances of rising rank and a queue of two, so that it has an order  *)
(* and drops its last while somebody speaks; two of them have no sentence.     *)
EXTENDS SpeechArbiter
CONSTANTS hello, reply, notice, warning

MCRequest == {hello, reply, notice, warning}
MCSource ==
    (hello :> "chatter") @@ (reply :> "danmaku") @@ (notice :> "scheduled") @@ (warning :> "safety")
MCSentences == (hello :> 0) @@ (reply :> 2) @@ (notice :> 0) @@ (warning :> 1)
MCPerishable == {reply}
=============================================================================
