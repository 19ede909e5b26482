SPECIFICATION ToolingLive
INVARIANTS
  AllTyped
  RunsOrdered
  Fresh
  OneCompiler
  CopyIsTheCookie
  EditorTold
  WritesSeen
PROPERTIES
  RunsEnd
  Settles
CHECK_DEADLOCK FALSE
CONSTANTS
  Servers = {1, 2, 3, 4}
  Plugins <- MCPlugins
  HooksOf <- MCHooksOf
  SetupSteps <- MCSetupSteps
  PipelineSteps <- MCSteps
  Parallel = {"Validate"}
  Runs = {1, 2, 3}
  Files = {"q", "f"}
  Gql = {"f"}
  Versions = {"v1", "v2"}
  DependsOn <- MCDependsOn
  MaxSaves = 3
  MaxSchema = 1
  Empty <- MCEmpty
  Writes <- MCWrites
  MaxSends = 2
  MaxMishaps = 1
  Broken = {"q"}
  NoText = "none"
  MaxEvents = 3
  MaxRestarts = 1
  Tables = {"docs"}
  Calls = {1, 2}
  MaxWrites = 9
  MaxFaults = 1
