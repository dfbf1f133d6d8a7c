SPECIFICATION FairSpec
CONSTANTS
  Toggled = {"render", "mcp", "temporal", "temporalUI"}
  OnFirst = {"monitoring"}
  UserObjects = {"renderService", "mcpService"}
  AlienObjects = {"mcpDeploy", "temporalUIService"}
  MaxEdits = 4
  MaxFaults = 1
  Events = {"byhand", "evict"}
INVARIANTS TypeOK
PROPERTIES DependenciesFirst PreviewWorks AgentComesBack
