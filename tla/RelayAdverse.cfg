CONSTANTS
  e1 = e1
  e2 = e2
  j1 = j1
  j2 = j2
  c1 = c1
  Nobody = Nobody
  Executor = {e1}
  Job = {j1}
  Cli = {c1}
  MaxAttempts = 1
  MaxSubmissions = 2
  MaxCrashes = 1
  MaxLapses = 1
  MaxFaults = 1
SPECIFICATION RelaySpec
INVARIANTS
  SuccessIsReal
CHECK_DEADLOCK FALSE
