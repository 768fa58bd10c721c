\* With the clock and the crashes spent and every token used up nothing is left to do;
\* nor when every sentence, record, action or call has ended.
CHECK_DEADLOCK FALSE
SPECIFICATION DevicesSpec
CONSTANTS
  r1 = r1
  r2 = r2
  h1 = h1
  h2 = h2
  s1 = s1
  s2 = s2
  a1 = a1
  a2 = a2
  e1 = e1
  t1 = t1
  t2 = t2
  Resource = {r1, r2}
  Holder = {h1, h2}
  Ttl <- MCTtl
  None = None
  MaxTime = 4
  MaxToken = 3
  MaxCrashes = 1
INVARIANTS
  LeasesAreSound
PROPERTIES
  StaleTokensStayStale
  SentencesAreServed
  RecordsAreAccountedFor
  SidecarsAreInHand
  ObsIsInHand
  AvatarIsInHand
  SyncIsTrue
  StreamsAreTrue
  ModelCallsAreTrue
  PageIsLetIn
