SPECIFICATION RetrievalSpec
CONSTANTS
  None = None
  one = one
  two = two
  Handler = {h1}
  Reader = {r1}
  Upload = {u1}
  Manifest = {one, two}
  Digest = {x}
  PlainSize <- MCPlainSize
  ChunkSize <- MCChunkSize
  MaxFiles = 1
  MaxBytes = 6
  ExpiresAt = 1
  StaleAfter = 0
  MaxClock = 1
  DeleteAfterCollect = TRUE
INVARIANTS ReaderTypeOK ServedAsListed
PROPERTY ListingGrows
