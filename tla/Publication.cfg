\* Publishing: two chains, two accounts, one browser and the seed command.  No
\* behaviour signs more than ten transactions, so MaxSent cuts nothing off.
CONSTANTS
  o1 = o1  o2 = o2  m1 = m1  d1 = d1  d2 = d2
  Zero = Zero  Registry = Registry  ForeignContract = ForeignContract
  Operator <- MCOperator
  Renter <- MCNone
  Wallet <- MCNone
  Machine <- MCMachine
  Controller <- MCController
  MetadataHash <- MCMetadataHash
  LocalMetadata <- MCLocalMetadata
  Spender <- MCSpender
  TokenAmount <- MCTokenAmount
  Nonce <- MCNonce
  ForeignLog <- MCNone
  Draft <- MCDraft
  Policy <- MCPolicy
  Deployer = o1
  Catalog <- MCCatalog
  MaxPrice = 2
  MaxDuration = 1
  MaxUint64 = 1
  MaxUint256 = 2
  MaxTransactions = 1
  MaxSent = 10
  MaxMishaps = 1
SPECIFICATION Spec
INVARIANTS ReplayMatchesState SessionIsConfirmed
PROPERTIES OnboardingCompletes DriftIsRepaired SeedConverges
CHECK_DEADLOCK FALSE
