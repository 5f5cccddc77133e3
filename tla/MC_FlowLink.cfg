CONSTANTS
  s1 = s1
  s2 = s2
  Streams <- MCStreams
  link = s1
  MaxU64 = 3
  Amounts <- MCAmounts
  Capacity = 2
  Total = 3
SPECIFICATION FairSpec
INVARIANTS
  WindowOrdered
  BlockedExact
  LinkSafe
PROPERTIES
  CountersMonotone
  AllConsumed
