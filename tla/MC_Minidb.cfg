CONSTANTS
  k1 = k1
  k2 = k2
  v1 = v1
  bad = bad
  Absent = Absent
  Keys <- MCKeys
  Values <- MCValues
  BadValues <- MCBadValues
  MaxEntries = 5
  Images <- MCImages
  page_size = 6
  page_count = 3
  string_table_page = 1
  max_pages = 2
  max_bytes = 7
  IndexKeys <- MCIndexKeys
  Locators <- MCLocators
  MaxMoves = 6
SPECIFICATION SpecMinidb
INVARIANTS
  ReplayExact
  SlotsConfined
  ChainExact
  ReadsExact
PROPERTY TruncationOnlyLoses
SYMMETRY KeySymmetry
CHECK_DEADLOCK FALSE
