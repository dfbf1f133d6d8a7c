SPECIFICATION FairSpec
CONSTANTS
  ClusterProxy = "cluster"
  HasACM = TRUE
  EnvRunner = "release"
  Hosts = {1, 2}
  MaxEdits = 1
  MaxFaults = 1
  Events = {"lag", "fail", "evict", "old", "spec", "rotate", "cookie", "restart", "route", "client"}
INVARIANTS TypeOK
PROPERTIES SignInWorks ConfigurationSettles DetectionSettles ClientSecretKept UserSettingsKept
