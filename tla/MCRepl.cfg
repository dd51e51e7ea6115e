SPECIFICATION Spec
CONSTANTS
  DefaultModels <- MCModels
  Presets <- MCPresets
  FirstProvider = "deepseek"
  Servers <- MCServers
  ToolsOf <- MCToolsOf
  Builtins <- MCBuiltins
  MAX_REGISTRY = 4
  MAX_MCP_TOOLS = 2
  Startups <- MCStartups
  Arguments <- MCArguments
  InitSettings <- MCSettings
  Environments <- MCEnvironments
  MaxRuns = 2
  MaxInputs = 2
  MaxRequests = 1
  MaxSettings = 2
INVARIANTS
  SessionIsTranscript
  UsageAccounted
  KeyFitsServer
  OfferedCallsArrive
CHECK_DEADLOCK FALSE
