SPECIFICATION Spec
CONSTANTS
  None = None
  one = one
  two = two
  big = big
  Handler = {h1, h2}
  Upload = {u1}
  Manifest = {one, two}
  Digest = {x}
  PlainSize <- MCPlainSize
  ChunkSize <- MCChunkSize
  MaxFiles = 1
  MaxBytes = 6
  ExpiresAt = 2
  StaleAfter = 0
  MaxClock = 2
  DeleteAfterCollect = TRUE
SYMMETRY Symmetry
INVARIANTS ReceiptMatchesStored Inv HolderAtWork
PROPERTIES RetainedUntilReleased ImplementsIntake HandlersAdvance
