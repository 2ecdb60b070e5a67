CONSTANTS
  mwA = mwA
  mwB = mwB
  Paths <- MCPaths
  GroupPaths <- MCGroupPaths
  Middleware <- MCMiddleware
  StaticPaths <- MCStatic
  Values <- MCValues
  DevMode = TRUE
  HasIslands = TRUE
  MaxCalls = 3
SPECIFICATION AppSpec
INVARIANT GroupMiddlewareApplies
