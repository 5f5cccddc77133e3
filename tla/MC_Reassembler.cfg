CONSTANTS
  s1 = s1
  s2 = s2
  Zero = Zero
  Streams <- MCStreams
  Msgs <- MCMsgs
  OffMax = 3
  Frames <- MCFrames
  MaxResets = 1
SPECIFICATION OneHoleSpec
INVARIANTS
  IndexAgrees
  CoverageExact
  EmittedWhole
  NothingCompleteHeld
PROPERTIES
  RefinesMap
