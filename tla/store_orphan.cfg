SPECIFICATION Spec
CONSTANTS
  None = None
  one = one
  two = two
  big = big
  Handler = {h1}
  Upload = {u1}
  Manifest = {one}
  Digest = {x}
  PlainSize <- MCPlainSize
  ChunkSize <- MCChunkSize
  MaxFiles = 1
  MaxBytes = 6
  ExpiresAt = 1
  StaleAfter = 0
  MaxClock = 1
  DeleteAfterCollect = FALSE
PROPERTY PurgeSparesCompleted
