CONSTANTS
  op1 = op1
  r1 = r1
  m1 = m1
  Operator = {op1}
  Renter = {r1}
  Wallet = {}
  Machine = {m1}
  Zero = Zero
  Controller = {c1, c2}
  c1 = c1
  c2 = c2
  MetadataHash = {h1}
  h1 = h1
  ProofKeyAsc = ProofKeyAsc
  MaxPrice = 1
  MaxDuration = 1
  MaxUint64 = 2
  Order = {o1}
  o1 = o1
  MaxChanges = 0
  Nonce = {n1}
  n1 = n1
  Token = {k1, k2}
  k2 = k2
  k1 = k1
  NoToken = NoToken
  HandoffTtl = 3
  Margin = 0
  MaxServerTime = 1
  MaxFaults = 0
  Tab = {t1, t2}
  t1 = t1
  t2 = t2
  Browser = {b1, b2}
  b1 = b1
  b2 = b2
  Warning = 1
  MaxReads = 1
  Batches <- MCAllAtOnce
SPECIFICATION Spec
INVARIANTS
  OneDevicePerNonce
  SealedSession
PROPERTIES
  ReceiptsFinal
CHECK_DEADLOCK FALSE
SYMMETRY MCSymmetry
