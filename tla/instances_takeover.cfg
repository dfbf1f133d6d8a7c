SPECIFICATION FairSpec
CONSTANTS
  Keys = {1, 2}
  NS <- Namespace
  BaseName <- Name
  Kinds = {"agent", "oauth"}
  MaxCRs = 3
  MaxEdits = 0
  MaxFaults = 1
  MaxLag = 1
  Events = {"fail", "objlag"}
PROPERTIES ChosenIsSetUp DeletionCompletes
