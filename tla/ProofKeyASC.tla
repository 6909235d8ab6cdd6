----------------------------- MODULE ProofKeyASC -----------------------------
(***************************************************************************)
(* The authorization contract on Creditcoin (contracts/ProofKeyASC.sol).   *)
(* It reads the other chain only through Attestcoin's native verifier,     *)
(* which is external: a proof about the i-th mined transaction of Sepolia  *)
(* verifies once the block of that transaction is attested.                *)
(***************************************************************************)
EXTENDS UsagePaymentRegistry, AccessPass

VARIABLES
  processedQueries,  \* query ids consumed
  processedOrders,   \* order ids consumed
  attested           \* how many transactions of Sepolia lie in attested blocks

ascVars == <<processedQueries, processedOrders>>
creditcoinVars == <<machines, passVars, creditcoinTime, ascVars, attested>>

AuthorizeAccessAction == 0
SepoliaChainKey == 1
ChainKey == {SepoliaChainKey, 2}

\* keccak256 over chain key, block height and index of the transaction.
\* The mutated one forgets the index, with two transactions to a block.
QueryIdOfBlock(chainKey, i) == <<chainKey, (i + 1) \div 2>>
QueryId(chainKey, i) == <<chainKey, i>>

AscTypeOK ==
  /\ processedQueries \subseteq ({SepoliaChainKey} \X (1 .. MaxTransactions))
  /\ processedOrders \subseteq Order
  /\ attested \in 0 .. MaxTransactions
  /\ attested <= Len(transactions)

AscInit ==
  /\ processedQueries = {}
  /\ processedOrders = {}
  /\ attested = 0

Verified(i) == i \in 1 .. attested

Attest ==
  /\ attested < Len(transactions)
  /\ attested' = attested + 1
  /\ UNCHANGED <<machines, passVars, creditcoinTime, ascVars>>

CreditcoinTick ==
  /\ creditcoinTime < MaxUint64
  /\ creditcoinTime' = creditcoinTime + 1
  /\ UNCHANGED <<machines, passVars, ascVars, attested>>

\* Without the checks of the transaction's target and the log's emitter.
AuthenticFromAnyEmitter(tx) ==
  /\ tx.status = 1
  /\ Len(tx.logs) = 1
  /\ tx.logs[1].payer # Zero
  /\ tx.logs[1].payer = tx.from

\* The receipt is a successful one of the registry with its single UsagePaid.
AuthenticPayment(tx) ==
  /\ tx.to = Registry
  /\ tx.status = 1
  /\ Len(tx.logs) = 1
  /\ LET log == tx.logs[1] IN
       /\ log.address = Registry
       /\ log.payer # Zero
       /\ log.payer = tx.from

\* The parts of the policy check, each after the form a slip would give it.
PaidAnyone(log, machine) == TRUE
PaidOwner(log, machine) == log.beneficiary = machine.owner

LegalDurationStrict(duration) == duration # 0 /\ duration < MaxDuration
LegalDuration(duration) == duration # 0 /\ duration <= MaxDuration

AtLeastTariff(log, machine) == log.amount >= machine.tariff * log.duration
AtTariff(log, machine) == log.amount = machine.tariff * log.duration

\* The payment satisfies the machine's policy as it is now.
MatchesPolicy(log) ==
  LET machine == machines[log.machineId] IN
    /\ machine.owner # Zero
    /\ machine.active
    /\ PaidOwner(log, machine)
    /\ LegalDuration(log.duration)
    /\ AtTariff(log, machine)

ExpiresAt(log) == log.startTime + log.duration

LiveWindowUnguarded(log) == ExpiresAt(log) > creditcoinTime

\* uint64 addition that cannot overflow, and an end that is still ahead.
LiveWindow(log) ==
  /\ log.startTime <= MaxUint64 - log.duration
  /\ ExpiresAt(log) > creditcoinTime

ValidUsagePayment(tx) ==
  /\ AuthenticPayment(tx)
  /\ MatchesPolicy(tx.logs[1])
  /\ LiveWindow(tx.logs[1])

\* Anyone may call it; the relay does.
Execute(action, chainKey, i) ==
  /\ action = AuthorizeAccessAction
  /\ chainKey = SepoliaChainKey
  /\ QueryId(chainKey, i) \notin processedQueries
  /\ Verified(i)
  /\ ValidUsagePayment(transactions[i])
  /\ LET log == transactions[i].logs[1] IN
       /\ log.orderId \notin processedOrders
       /\ processedQueries' = processedQueries \cup {QueryId(chainKey, i)}
       /\ processedOrders' = processedOrders \cup {log.orderId}
       /\ GrantAccess(ProofKeyAsc, log.orderId, log.machineId, log.payer, ExpiresAt(log))
  /\ UNCHANGED <<machines, creditcoinTime, attested>>

CreditcoinNext ==
  \/ MachinesNext /\ UNCHANGED <<passVars, creditcoinTime, ascVars, attested>>
  \/ PassNext /\ UNCHANGED <<machines, creditcoinTime, ascVars, attested>>
  \/ \E action \in 0 .. 1, chainKey \in ChainKey, i \in 1 .. MaxTransactions :
       Execute(action, chainKey, i)
  \/ Attest
  \/ CreditcoinTick
=============================================================================
