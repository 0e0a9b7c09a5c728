CONSTANTS
  Session <- MCSession
  Selected <- MCSelected
  Prepared <- MCPrepared
  Args <- MCArgs
  MaxCalls = 1
SPECIFICATION Spec
INVARIANT OwnState
