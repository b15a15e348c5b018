SPECIFICATION Spec
CONSTANTS
  long = long
  short = short
  blank = blank
  Null = Null
  Upload = {u1, u2}
  Content = {long, short}
  MaxChars = 2
  Part = {0, 1}
  PartsOf <- MCPartsOf
  Faults = {}
INVARIANTS UploadsAreIndexed
CHECK_DEADLOCK FALSE
