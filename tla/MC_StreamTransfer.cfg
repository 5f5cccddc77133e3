CONSTANTS
  s1 = s1
  s2 = s2
  Zero = Zero
  Streams <- MCStreams
  Messages <- MCMessages
  PayloadLen <- MCPayloadLen
  max_fragment = 2
  MaxResets = 1
  MaxDrops = 1
  MaxDups = 1
  MaxSwaps = 1
  MaxFaults = 2
  SeqRange = 4
  IdMod = 4
  OffMax = 3
  Window = 1
  MaxOffers = 7
SPECIFICATION FairSpec
INVARIANTS
  DeliveryIntact
  StatsHonest
  NoSilentLoss
PROPERTIES
  AllArrive
CHECK_DEADLOCK FALSE
