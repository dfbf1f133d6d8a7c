SPECIFICATION Spec
CONSTANTS
  Keys = {1, 2}
  NS <- Namespace
  BaseName <- Name
  Kinds = {"agent", "ui", "oauth"}
  MaxCRs = 3
  MaxEdits = 0
  MaxFaults = 1
  MaxLag = 2
  Events = {"lag", "fail"}
INVARIANTS TypeOK NoOrphans SoleHolder NoGhostSeries
PROPERTIES ChosenKeepsGrants ExistingInstallKeepsWorking
