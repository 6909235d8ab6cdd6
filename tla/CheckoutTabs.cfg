\* Two pages open on the machine; nothing goes wrong.
CONSTANTS
  o1 = o1  r1 = r1  m1 = m1  c1 = c1  d1 = d1  t1 = t1  t2 = t2
  Zero = Zero  Registry = Registry  ForeignContract = ForeignContract
  Operator <- MCOperator
  Renter <- MCRenter
  Wallet <- MCNone
  Machine <- MCMachine
  RentedMachine = m1
  Controller <- MCController
  MetadataHash <- MCMetadataHash
  Spender <- MCSpender
  TokenAmount <- MCTokenAmount
  Nonce <- MCNonce
  ForeignLog <- MCNone
  Tab <- MCTwoTabs
  MaxPrice = 2
  MaxDuration = 2
  MaxUint64 = 1
  MaxUint256 = 60
  MaxTransactions = 4
  MaxBroadcast = 4
  MaxRentals = 1
  MaxMishaps = 0
SPECIFICATION Spec
PROPERTY StoredPaymentIsRecovered
CHECK_DEADLOCK FALSE
