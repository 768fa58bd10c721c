---------------------------- MODULE MCStagePlayback ----------------------------
(* Sentences of one chunk each: it is played, or lost, or not forwarded yet. *)
EXTENDS StagePlayback

CONSTANT s1

MCChunks == [s \in Sentence |-> 1]
=============================================================================
