\* The customer's activity view, the public proof page, and the live script.
CONSTANTS
  o1 = o1  o2 = o2  c1 = c1  m1 = m1  d1 = d1  d2 = d2  n1 = n1  n2 = n2
  Zero = Zero  Registry = Registry  ForeignContract = ForeignContract
  ProofKeyAsc = ProofKeyAsc
  Operator <- MCOperator
  Renter <- MCRenter
  Wallet <- MCNone
  Machine <- MCMachine
  RentedMachine = m1
  Customer = o1
  Controller <- MCController
  MetadataHash <- MCMetadataHash
  DemoMetadata = d1
  Spender <- MCSpender
  TokenAmount <- MCTokenAmount
  Nonce <- MCNonce
  Viewed = n1
  ForeignLog <- MCNone
  EarlierDuration <- MCEarlier
  DemoTariff = 1
  DemoDuration = 1
  MaxPrice = 2
  MaxDuration = 2
  MaxUint64 = 3
  MaxUint256 = 8
  MaxTransactions = 2
  MaxMishaps = 1
SPECIFICATION Spec
INVARIANTS WindowClosedIsFinal SupersededIsTrue MismatchHasReason RecordedRunsVerify
PROPERTIES RedeemedIsShown OutcomeIsShown
CHECK_DEADLOCK FALSE
