SPECIFICATION LiveSpec
CONSTANTS
  r1 = r1
  d1 = d1
  s1 = s1
  o1 = o1
  o2 = o2
  zero = zero
  one = one
  NoData = NoData
  Ranges <- MCLiveRanges
  Offsets = {o1}
  Values = {zero, one}
  Zero = zero
  Base <- MCBase
  Dropped = {d1}
  Small = {s1}
  PreloadMode = "all"
  PreloadList = {}
  BatchSize = 1
  RetryLimit = 3
  GuestWrites <- MCLiveWrites
  MaxFailures = 2
  MaxBroken = 0
PROPERTIES
  ReadReturns
  PreloadEnds
