CONSTANTS
  e1 = e1
  e2 = e2
  j1 = j1
  j2 = j2
  c1 = c1
  Nobody = Nobody
  Executor = {e1, e2}
  Job = {j1}
  Cli = {}
  MaxAttempts = 2
  MaxSubmissions = 2
  MaxCrashes = 1
  MaxLapses = 0
  MaxFaults = 1
SPECIFICATION FairRelaySpec
INVARIANTS
  RelayTypeOK
  NoDuplicateJobs
PROPERTIES
  OutcomeIsFinal
  AcceptedJobsFinish
CHECK_DEADLOCK FALSE
