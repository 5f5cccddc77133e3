SPECIFICATION SpecAll
CONSTANTS
  kMaxDepth = 5
  Width = 3
  InlineThreshold = 1
  MaxText = 5
  Alphabets <- mcAlphabets
  Texts <- mcTexts
  Known <- mcKnown
  Paths <- mcPaths
  Rhs <- mcRhs
  Headers <- mcHeaders
  NoLabel = NoLabel
  IncludePath = inc
  MaxStatements = 5
  Mantissa = 1
  Schemas <- mcSchemas
INVARIANTS
  ParseExact
  EvaluateExact
  ScopeExact
  RoundTrip
  DiffIsPatch
  QueryExact
  SchemaHonest
CHECK_DEADLOCK FALSE
