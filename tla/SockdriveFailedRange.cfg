SPECIFICATION LiveSpec
CONSTANTS
  r1 = r1
  d1 = d1
  s1 = s1
  o1 = o1
  o2 = o2
  zero = zero
  one = one
  NoData = NoData
  Ranges = {r1}
  Offsets = {o1}
  Values = {zero, one}
  Zero = zero
  Base <- MCBase
  Dropped = {}
  Small = {}
  PreloadMode = "none"
  PreloadList = {}
  BatchSize = 4
  RetryLimit = 3
  GuestWrites <- MCLiveWrites
  MaxFailures = 3
  MaxBroken = 0
PROPERTY
  FailureIsReported
