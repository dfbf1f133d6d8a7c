SPECIFICATION FairSpec
CONSTANTS
  Images = {"pg15", "pg16", "stuck15"}
  Major <- ServerMajor
  MajorInName <- ServerMajor
  StuckImages = {"stuck15"}
  HelmImage = "pg15"
  Sizes = {1}
  MaxPasswords = 3
  MaxEdits = 2
  MaxFaults = 1
  Events = {"lag", "secret", "evict", "fail"}
INVARIANTS TypeOK DataMajorKept
PROPERTIES CredentialsAgree RolloutUnblocked
