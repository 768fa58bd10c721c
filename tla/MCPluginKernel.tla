---------------------------- MODULE MCPluginKernel -----------------------------
(***************************************************************************)
(* Profiles for TLC: a consumer in front of its provider, and a rival of   *)
(* the provider that offers one service more than it does.                 *)
(***************************************************************************)
EXTENDS PluginKernel, TLC

CONSTANTS speech, tts, rival, voice, lips

MCProvides == (tts :> {voice}) @@ (rival :> {voice, lips}) @@ (speech :> {})
MCNeeds == (tts :> {}) @@ (rival :> {}) @@ (speech :> {voice})

MCProfile == <<speech, tts, rival>>
MCVersions == <<{speech}, {tts, rival}, {rival}>>

PairProfile == <<speech, tts>>
PairVersions == <<{speech}, {tts, rival}>>

\* The profiles are of the kind that the theorems about the kernel ask for.
ASSUME ProfileIsLayered == Layered
=============================================================================
