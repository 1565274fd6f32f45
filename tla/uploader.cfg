SPECIFICATION Spec
CONSTANTS
  None = None
  two = two
  empty = empty
  u1 = u1
  own = own
  other = other
  Upload = {u1}
  Manifest = {two, empty}
  Digest = {own, other}
  PlainSize <- MCPlainSize
  ChunkSize <- MCChunkSize
  MaxFiles = 1
  MaxBytes = 8
  Time = {0}
  Batch <- MCBatch
  IdOf <- MCIdOf
  Content <- MCContent
  Attempts = 3
  MaxLate = 2
INVARIANT TypeOK
PROPERTIES ReportedIsStored ConflictHasCause PageGoesOn
