SPECIFICATION FairSpec
CONSTANTS
  s1 = s1
  Sentence = {s1}
  Chunks <- MCChunks
  Patience = 1
  MaxOnWay = 2
  MaxToken = 1
  MaxBreaks = 0
  MaxStalls = 1
PROPERTIES
  PlaybackGoesOn
