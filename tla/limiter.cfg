SPECIFICATION Spec
CONSTANTS
  None = None
  Overflow = Overflow
  c1 = c1
  c2 = c2
  c3 = c3
  p = p
  q = q
  junk = junk
  Handler = {h1, h2}
  Client = {c1, c2, c3, p}
  Text = {c1, c2, c3, p, q, junk}
  Trusted = {p}
  Denotes <- MCDenotes
  Forged <- MCForged
  Path <- MCPath
  Limit = 2
  Window = 2
  MaxBuckets = 3
  MaxClock = 5
SYMMETRY Symmetry
INVARIANTS TypeOK BucketBound OvershootBounded
PROPERTIES RunningWindowKept ChargedToSender
