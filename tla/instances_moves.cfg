SPECIFICATION FairSpec
CONSTANTS
  Keys = {1, 3}
  NS <- Namespace
  BaseName <- Name
  Kinds = {"mcp", "delegator"}
  MaxCRs = 2
  MaxEdits = 2
  MaxFaults = 1
  MaxLag = 1
  Events = {"fail", "namespace", "legacy"}
INVARIANTS NoOrphans
PROPERTIES RejectedLosesGrants
