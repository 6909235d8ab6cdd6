CONSTANTS
  op1 = op1
  r1 = r1
  m1 = m1
  Operator = {op1}
  Renter = {r1}
  Wallet = {}
  Machine = {m1}
  Zero = Zero
  Controller = {c1, c2}
  c1 = c1
  c2 = c2
  MetadataHash = {h1}
  h1 = h1
  ProofKeyAsc = ProofKeyAsc
  MaxPrice = 1
  MaxDuration = 1
  MaxUint64 = 2
  Order = {o1}
  o1 = o1
  MaxChanges = 0
  Nonce = {n1}
  n1 = n1
  Token = {k1}
  k1 = k1
  NoToken = NoToken
  HandoffTtl = 1
  Margin = 0
  MaxServerTime = 1
  MaxFaults = 1
  Tab = {t1}
  t1 = t1
  Browser = {b1}
  b1 = b1
  Warning = 1
  MaxReads = 1
  Batches <- MCOneByOne
SPECIFICATION Spec
INVARIANT SealedMeansStopped
CHECK_DEADLOCK FALSE
