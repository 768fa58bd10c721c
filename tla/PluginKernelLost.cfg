\* With the calls and the faults spent a settled kernel has nothing to do.
CHECK_DEADLOCK FALSE
SPECIFICATION Spec
CONSTANTS
  speech = speech
  tts = tts
  rival = rival
  voice = voice
  lips = lips
  Plugin = {speech, tts, rival}
  Service = {voice, lips}
  Provides <- MCProvides
  Needs <- MCNeeds
  Profile <- PairProfile
  Versions <- PairVersions
  Off = {}
  BadConfig = {}
  Retries = 1
  None = None
  MaxSwitches = 0
  MaxRepairs = 1
  MaxFaults = 1
INVARIANTS
  LostIsNotActive
