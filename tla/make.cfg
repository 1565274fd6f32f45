SPECIFICATION Spec
CONSTANTS
  None = None
  empty = empty
  plain = plain
  broken = broken
  long = long
  Command = {c1, c2, c3}
  Path = {p1, p2}
  Text = {empty, plain, broken, long}
  Bytes <- MCBytes
  Marshalled <- MCMarshalled
  Lifetime <- MCLifetime
  Files = {0, 2, 3}
  Amount = {0, 1, 3}
  Unit = {1, 6}
  MaxLabel = 2
  MaxFiles = 2
  MaxBytes = 2
  Cap = 4
SYMMETRY Symmetry
INVARIANTS TypeOK KeyBeforeRequest QuotaAsAsked MadeIsValid
PROPERTIES FilesOfOthersKept
