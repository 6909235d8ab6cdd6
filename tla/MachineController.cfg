CONSTANTS
  op1 = op1
  r1 = r1
  m1 = m1
  Operator = {op1}
  Renter = {r1}
  Wallet = {}
  Machine = {m1}
  Zero = Zero
  Controller = {c1}
  c1 = c1
  MetadataHash = {h1}
  h1 = h1
  ProofKeyAsc = ProofKeyAsc
  MaxPrice = 1
  MaxDuration = 1
  MaxUint64 = 2
  Order = {o1, o2}
  o1 = o1
  o2 = o2
  MaxChanges = 2
  machineId = m1
  beneficiary = r1
  MaxFailures = 1
  MaxReads = 2
  Batches <- MCOneByOne
SPECIFICATION FairSpec
INVARIANTS
  LateReadNeverUnlocks
PROPERTIES
  LossOfAccessLocks
  ExpiryLocksByItself
  AuthorizationUnlocks
