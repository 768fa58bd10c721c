\* With the calls and the faults spent a settled kernel has nothing to do.
CHECK_DEADLOCK FALSE
SPECIFICATION FairSpec
CONSTANTS
  speech = speech
  tts = tts
  rival = rival
  voice = voice
  lips = lips
  Plugin = {speech, tts, rival}
  Service = {voice, lips}
  Provides <- MCProvides
  Needs <- MCNeeds
  Profile <- MCProfile
  Versions <- MCVersions
  Off = {3}
  BadConfig = {3}
  Retries = 1
  None = None
  MaxSwitches = 2
  MaxRepairs = 1
  MaxFaults = 3
INVARIANTS
  KernelIsSound
  LeavesInOrder
PROPERTIES
  KernelGoesOn
