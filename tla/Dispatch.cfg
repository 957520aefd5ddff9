\* Two tenants, inline and pooled dispatch, two faults.
SPECIFICATION FairSpec
CONSTANTS
  a1 = a1
  b1 = b1
  q1 = q1
  A = A
  B = B
  None = None
  Runs <- MCRuns
  Requests <- MCRequests
  Tenants <- MCTenants
  TenantOf <- MCTenantOf
  PriorityOf <- MCPriorityOf
  Max = 2
  MaxPerCycle = 2
  MaxRetries = 1
  MaxNodes = 1
  MaxFaults = 2
INVARIANTS TypeOK  
PROPERTIES  ServableIsServed
CHECK_DEADLOCK FALSE
