SPECIFICATION OperatorFairSpec
CONSTANTS
  i1 = i1  i2 = i2  s1 = s1  s2 = s2
  NoImage = NoImage
  Components <- UIOnly
  Images = {i1, i2}
  GoodImages = {i1}
  Versions = {1, 2}
  ReleaseImage <- Pinned
  Want <- OneReplica
  Slots = {s1, s2}
  Timeout = 1
  MaxEdits = 2
  MaxFaults = 1
  Events = {"lag", "fail", "podfail", "route", "pg", "operator"}
PROPERTIES BadImageReplaced OutageReported
