CONSTANTS
  s1 = s1
  s2 = s2
  Streams <- MCStreams
  IdMod = 6
  Ids <- MCIds
  Window = 2
  MaxOffers = 7
  OffMax = 8
  kRleMaxTokenLen = 128
  kByteBits = 3
  kValueBits = 5
  kIntBits = 6
  kSizeBits = 4
  Families <- MCFamilies
  Codepoints <- MCCodepoints
SPECIFICATION UnitsSpec
INVARIANTS
  RleBound
CHECK_DEADLOCK FALSE
