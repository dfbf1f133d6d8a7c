SPECIFICATION OperatorFairSpec
CONSTANTS
  i1 = i1  i2 = i2  s1 = s1  s2 = s2
  NoImage = NoImage
  Components <- AgentOnly
  Images = {i1, i2}
  GoodImages = {i1}
  Versions = {1}
  ReleaseImage <- Pinned
  Want <- OneReplica
  Slots = {s1}
  Timeout = 1
  MaxEdits = 3
  MaxFaults = 0
  Events = {"gate"}
PROPERTIES BadImageReplaced
