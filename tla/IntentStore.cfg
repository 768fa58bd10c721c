\* Two intents on a target, two concurrent callers, two payloads, one crash. With the crash spent and the store
\* unavailable nothing is left to do: the process waits for a restart.
CHECK_DEADLOCK FALSE
SPECIFICATION FairSpec
CONSTANTS
  k1 = k1
  k2 = k2
  t1 = t1
  c1 = c1
  c2 = c2
  p1 = p1
  p2 = p2
  Key = {k1, k2}
  Target = {t1}
  TargetOf <- MCTargetOf
  Sensitive <- MCSensitive
  Interruptible <- MCInterruptible
  Payload = {p1, p2}
  Caller = {c1, c2}
  None = None
  MaxCrashes = 1
INVARIANTS
  StoreIsSound
  TableIsReplayOfEvents
  EffectsAsIntended
  Quarantine
PROPERTIES
  ImplementsOnceOnly
  ExecutingSettles
