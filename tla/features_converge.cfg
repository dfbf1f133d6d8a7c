SPECIFICATION FairSpec
CONSTANTS
  Toggled = {"render", "mcp", "temporalUI"}
  OnFirst = {"temporal"}
  UserObjects = {}
  AlienObjects = {}
  MaxEdits = 2
  MaxFaults = 1
  Events = {"fail", "lag", "slow"}
PROPERTIES TurnedOffIsRemoved TurnedOnIsComplete
