SPECIFICATION FairSpec
CONSTANTS
  Images = {"pg15"}
  Major <- ServerMajor
  MajorInName <- ServerMajor
  StuckImages = {}
  HelmImage = "pg15"
  Sizes = {1, 2}
  MaxPasswords = 3
  MaxEdits = 4
  MaxFaults = 1
  Events = {"helm", "delete", "fail", "resize", "noexpand"}
INVARIANTS DataKeepsCredentials
PROPERTIES CredentialsAgree VolumeGrows TeardownErasesData
