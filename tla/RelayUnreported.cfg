CONSTANTS
  e1 = e1
  e2 = e2
  j1 = j1
  j2 = j2
  c1 = c1
  Nobody = Nobody
  Executor = {e1}
  Job = {j1}
  Cli = {}
  MaxAttempts = 1
  MaxSubmissions = 1
  MaxCrashes = 0
  MaxLapses = 0
  MaxFaults = 1
SPECIFICATION RelaySpec
INVARIANTS
  OutcomeIsPersisted
