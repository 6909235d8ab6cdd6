\* One page of a customer's browser: reloads, links, lost answers, replaced
\* transactions, a re-priced machine, two rentals in a row.
CONSTANTS
  o1 = o1  r1 = r1   m1 = m1  c1 = c1  d1 = d1  t1 = t1  t2 = t2
  Zero = Zero  Registry = Registry  ForeignContract = ForeignContract
  Operator <- MCOperator
  Renter <- MCRenter
  Wallet <- MCNone
  Machine <- MCMachine
  RentedMachine = m1
  Controller <- MCController
  MetadataHash <- MCMetadataHash
  Spender <- MCSpender
  TokenAmount <- MCTokenAmount
  Nonce <- MCNonce
  ForeignLog <- MCNone
  Tab <- MCOneTab
  MaxPrice = 2
  MaxDuration = 2
  MaxUint64 = 1
  MaxUint256 = 60
  MaxTransactions = 4
  MaxBroadcast = 4
  MaxRentals = 2
  MaxMishaps = 2
SPECIFICATION FairSpec
INVARIANTS NoDuplicateCharge ApprovalCapsCharge AccessIsEarned
PROPERTY CheckoutCompletes
CHECK_DEADLOCK FALSE
