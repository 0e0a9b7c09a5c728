CONSTANTS
  Package <- MCPackage
  Executable <- MCExecutable
  Provides <- MCProvides
  Backend <- MCBackend
  Runtime <- MCRuntime
  Agent = "agent"
  Tool <- MCTool
  ToolDefinition <- MCToolDefinition
  Requests <- MCRequests
  Guests <- MCGuests
  MaxLosses = 1
  MaxRemoved = 1
SPECIFICATION Spec
CHECK_DEADLOCK FALSE
INVARIANT TypeOK
INVARIANT NothingPresentReplaced
INVARIANT VerifiedBeforeUse
