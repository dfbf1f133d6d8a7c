SPECIFICATION FairSpec
CONSTANTS
  i1 = i1  i2 = i2  s1 = s1  s2 = s2
  NoImage = NoImage
  Components <- Both
  Images = {i1}
  GoodImages = {i1}
  Versions = {1}
  ReleaseImage <- Pinned
  Want <- OneReplica
  Slots = {s1}
  Timeout = 1
  MaxEdits = 1
  MaxFaults = 1
  Events = {"gate", "install", "helm", "fail", "delete"}
PROPERTIES InstallCompletes
