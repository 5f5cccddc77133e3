SPECIFICATION Spec
CONSTANTS
  Symbols <- MCSymbols
  Specs <- MCSpecs
  Noise <- MCNoise
  kResyncWindow = 3
  kWord = 2
  kMaxFramePayload = 4
  MaxFrames = 2
  MaxFaults = 2
INVARIANTS
  SmallNoiseTolerated
  NoFalseFrame
  DamageNoticed
PROPERTIES
  DecodeEnds
CHECK_DEADLOCK FALSE
