CONSTANTS
  op1 = op1
  op2 = op2
  r1 = r1
  w1 = w1
  m1 = m1
  n1 = n1
  n2 = n2
  Operator = {op1}
  Renter = {r1}
  Wallet = {w1}
  Machine = {m1}
  Zero = Zero
  Nonce = {n1, n2}
  Registry = Registry
  Spender = {Registry}
  ForeignContract = ForeignContract
  ForeignLog <- MCForeignLog
  ProofKeyAsc = ProofKeyAsc
  Controller = {c1}
  c1 = c1
  MetadataHash = {h1}
  h1 = h1
  MaxPrice = 1
  MaxDuration = 2
  MaxUint64 = 2
  MaxUint256 = 4
  TokenAmount = {4}
  MaxTransactions = 2
SPECIFICATION FairSpec
INVARIANTS
  TypeOK
  OnePaymentPerOrder
  PaidOrdersAreLogged
  CredentialBacked
  OneProofPerOrder
  FurthestWindowWins
PROPERTIES
  ImplementsEntitlement
  EveryPaymentHonoured
