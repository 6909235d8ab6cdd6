CONSTANTS
  op1 = op1
  op2 = op2
  r1 = r1
  w1 = w1
  m1 = m1
  n1 = n1
  n2 = n2
  Operator = {op1, op2}
  Renter = {op2}
  Wallet = {}
  Machine = {m1}
  Zero = Zero
  Nonce = {n1}
  Registry = Registry
  Spender = {Registry, op2}
  ForeignContract = ForeignContract
  ForeignLog <- MCForeignLog
  ProofKeyAsc = ProofKeyAsc
  Controller = {c1}
  c1 = c1
  MetadataHash = {h1}
  h1 = h1
  MaxPrice = 2
  MaxDuration = 1
  MaxUint64 = 1
  MaxUint256 = 3
  TokenAmount = {2}
  MaxTransactions = 1
SPECIFICATION Spec
INVARIANTS
  OwnersHoldTheRevenue
PROPERTY GrantedAtCurrentPolicy
