SPECIFICATION Spec
CONSTANTS
  None = None
  one = one
  two = two
  big = big
  Handler = {h1, h2}
  Upload = {u1, u2}
  Manifest = {one, big}
  Digest = {x}
  PlainSize <- MCPlainSize
  ChunkSize <- MCChunkSize
  MaxFiles = 2
  MaxBytes = 5
  ExpiresAt = 1
  StaleAfter = 0
  MaxClock = 0
  DeleteAfterCollect = FALSE
SYMMETRY Symmetry
INVARIANT QuotaRespected
