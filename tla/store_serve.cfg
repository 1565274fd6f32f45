SPECIFICATION Spec
CONSTANTS
  None = None
  one = one
  two = two
  big = big
  Handler = {h1, h2}
  Upload = {u1}
  Manifest = {one, two}
  Digest = {x, y}
  PlainSize <- MCPlainSize
  ChunkSize <- MCChunkSize
  MaxFiles = 1
  MaxBytes = 6
  ExpiresAt = 1
  StaleAfter = 0
  MaxClock = 1
  DeleteAfterCollect = FALSE
SYMMETRY Symmetry
INVARIANTS TypeOK ClosureFailsClosed ValidCapabilityAccepted
PROPERTIES ClosureStopsSubmissions NothingOverwritten ClosureStable AnswerIsDurable ImplementsIntake
