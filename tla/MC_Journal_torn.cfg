CONSTANTS
  k1 = k1
  k2 = k2
  v1 = v1
  bad = bad
  Absent = Absent
  Keys <- MCKeys
  Values <- MCValues
  BadValues <- MCBadValues
  MaxEntries = 5
SPECIFICATION Spec
INVARIANT ValidPrefixKept
CHECK_DEADLOCK FALSE
