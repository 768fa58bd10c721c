\* Every state has a step: the operator can always ask for a mode.
SPECIFICATION FairSpec
CONSTANTS
  url = url
  voice = voice
  plugin = plugin
  guest = guest
  say = say
  Resource = {url, voice}
  StageUrl = url
  Holder = {plugin, guest}
  Critical = {plugin}
  Intent = {say}
  Exempt = {}
  Simulation = FALSE
  None = None
  MaxFuse = 4
INVARIANTS
  SafetyHolds
  ModeIsTrue
PROPERTIES
  ModeMovesSafely
  UnvouchedOutputEnds
