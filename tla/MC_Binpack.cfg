SPECIFICATION Spec
CONSTANTS
  max_depth = 2
  kFloat = 2
  RecordSpecs <- MCRecords
  SectionTypes = {"FREE", "DATA", "METADATA"}
  Counts = {1}
  Garbage <- MCGarbage
  Options <- MCOptions
  MaxSections = 2
  MaxRecords = 2
  MaxDamage = 1
INVARIANTS
  RoundTrip
  DamageShows
  ReadersAgree
CHECK_DEADLOCK FALSE
