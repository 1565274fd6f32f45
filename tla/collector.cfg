SPECIFICATION Spec
CONSTANTS
  None = None
  u1 = u1
  u2 = u2
  a = a
  b = b
  d = d
  Collector = {c1, c2}
  Upload = {u1, u2}
  Body = {a, b, d}
  Sent <- MCSent
  Chunks <- MCChunks
  Name <- MCName
  Damaged = {d}
  MaxSuffix = 2
  ReadRetries = 1
  PollInterval = 1
  Option <- MCOption
INVARIANTS TypeOK SavedAsReceipted BatchAccounted
PROPERTIES PublishedKept ReleasedOnlyPublished CommandsAdvance CommandEnds
CHECK_DEADLOCK FALSE
