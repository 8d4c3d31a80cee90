SPECIFICATION Spec
CONSTANTS
  r1 = r1
  d1 = d1
  s1 = s1
  o1 = o1
  o2 = o2
  zero = zero
  one = one
  NoData = NoData
  Ranges = {r1, d1}
  Offsets = {o1, o2}
  Values = {zero, one}
  Zero = zero
  Base <- MCBase
  Dropped = {d1}
  Small = {}
  PreloadMode = "default"
  PreloadList = {r1}
  BatchSize = 1
  RetryLimit = 3
  GuestWrites <- MCWrites
  MaxFailures = 0
  MaxBroken = 1
INVARIANTS
  TypeOK
  StoreIsPublished
  CacheIsCurrent
  NoLostRequest
  ProgressIsTrue
PROPERTY
  IsBlockDevice
SYMMETRY Symmetry
