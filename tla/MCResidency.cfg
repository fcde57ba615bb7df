SPECIFICATION Spec
CONSTANTS
  Parts <- MCParts
  Schemes <- MCSchemes
  Keyworded <- MCKeyworded
  Viewing <- MCViewing
  Suites <- MCSuites
  Timesteps = 2
INVARIANT ReadsNewest
INVARIANT NeverFaults
INVARIANT HostSeesResults
INVARIANT ReferencesBalanced
