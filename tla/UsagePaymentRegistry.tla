------------------------ MODULE UsagePaymentRegistry ------------------------
(***************************************************************************)
(* Settlement on Sepolia (contracts/UsagePaymentRegistry.sol) over the     *)
(* token it is constructed with.  The chain itself is visible as           *)
(* `transactions`: the mined transactions a proof can be about, each with  *)
(* its sender, target, receipt status and the UsagePaid-shaped logs of its *)
(* receipt.  A transaction's position identifies it (block height and      *)
(* index in the block).                                                    *)
(***************************************************************************)
EXTENDS MockUSDC

CONSTANTS
  Nonce,            \* payment nonces chosen by payers
  ForeignContract,  \* any other contract on Sepolia
  ForeignLog,       \* logs with UsagePaid's signature that it emits
  MaxTransactions   \* bound on the recorded transactions

VARIABLES
  owner,          \* owner of the registry
  machineOffers,  \* machineId -> offer, the zero record where none was set
  paidOrders,     \* the order ids whose flag is set
  transactions,   \* mined transactions, oldest first
  sepoliaTime     \* block.timestamp

registryVars == <<owner, machineOffers, paidOrders>>
sepoliaVars  == <<tokenVars, registryVars, transactions, sepoliaTime>>

\* keccak256 over chain id, contract, machine, payer and nonce: injective.
OrderId(machineId, payer, nonce) == <<machineId, payer, nonce>>
Order == Machine \X Account \X Nonce

Offer == [beneficiary : OrZero(Operator), pricePerSecond : Price, active : BOOLEAN]
NoOffer == [beneficiary |-> Zero, pricePerSecond |-> 0, active |-> FALSE]

UsagePaid ==
  [address : {Registry, ForeignContract}, orderId : Order, machineId : Machine,
   payer : OrZero(Account), beneficiary : Account, startTime : Timestamp,
   duration : Duration, amount : Amount]

Transaction ==
  [from : Account, to : {Registry, ForeignContract} \cup Wallet, status : {0, 1},
   logs : {<<>>} \cup {<<l>> : l \in UsagePaid}]

ASSUME RegistryIsNoWallet == Registry \notin Wallet
ASSUME SepoliaAssumption ==
  /\ Zero \notin Nonce
  /\ Zero \notin Order
  /\ ForeignContract # Registry
  /\ ForeignLog \subseteq {l \in UsagePaid : l.address = ForeignContract}
  /\ MaxTransactions \in Nat

RegistryTypeOK ==
  /\ owner \in Operator
  /\ machineOffers \in [OrZero(Machine) -> Offer]
  /\ paidOrders \subseteq Order
  /\ transactions \in Seq(Transaction)
  /\ Len(transactions) <= MaxTransactions
  /\ sepoliaTime \in Timestamp

RegistryInit ==
  /\ owner \in Operator
  /\ machineOffers = [m \in OrZero(Machine) |-> NoOffer]
  /\ paidOrders = {}
  /\ transactions = <<>>
  /\ sepoliaTime = 0

SetMachineOffer(caller, machineId, beneficiary, pricePerSecond, active) ==
  /\ caller = owner
  /\ machineId # Zero
  /\ beneficiary # Zero
  /\ pricePerSecond # 0
  /\ machineOffers' = [machineOffers EXCEPT ![machineId] =
        [beneficiary |-> beneficiary, pricePerSecond |-> pricePerSecond, active |-> active]]
  /\ UNCHANGED <<tokenVars, owner, paidOrders, transactions, sepoliaTime>>

\* setMachineActive of the registry; MachineRegistry has one of the same name.
SetOfferActive(caller, machineId, active) ==
  /\ caller = owner
  /\ machineOffers[machineId].beneficiary # Zero
  /\ machineOffers' = [machineOffers EXCEPT ![machineId].active = active]
  /\ UNCHANGED <<tokenVars, owner, paidOrders, transactions, sepoliaTime>>

TransferOwnership(caller, newOwner) ==
  /\ caller = owner
  /\ newOwner # Zero
  /\ owner' = newOwner
  /\ UNCHANGED <<tokenVars, machineOffers, paidOrders, transactions, sepoliaTime>>

Mine(transaction) ==
  /\ Len(transactions) < MaxTransactions
  /\ transactions' = Append(transactions, transaction)

\* The check and the flag against a second payment, and their omissions.
UnpaidUnchecked(orderId) == TRUE
Unpaid(orderId) == orderId \notin paidOrders

ForgetOrder(orderId) == UNCHANGED paidOrders
FlagOrder(orderId) == paidOrders' = paidOrders \cup {orderId}

\* `sender` is msg.sender: the transaction's own sender, or a contract wallet
\* that the transaction calls.
PayForUsage(from, sender, machineId, duration, nonce) ==
  LET offer   == machineOffers[machineId]
      orderId == OrderId(machineId, sender, nonce)
      amount  == offer.pricePerSecond * duration
  IN  /\ sender \in {from} \cup Wallet
      /\ offer.active
      /\ duration # 0 /\ duration <= MaxDuration
      /\ nonce # Zero
      /\ Unpaid(orderId)
      /\ FlagOrder(orderId)
      /\ TransferFrom(Registry, sender, offer.beneficiary, amount)
      /\ Mine([from |-> from, to |-> IF sender = from THEN Registry ELSE sender,
               status |-> 1,
               logs |-> <<[address |-> Registry, orderId |-> orderId,
                           machineId |-> machineId, payer |-> sender,
                           beneficiary |-> offer.beneficiary,
                           startTime |-> sepoliaTime, duration |-> duration,
                           amount |-> amount]>>])
      /\ UNCHANGED <<owner, machineOffers, sepoliaTime>>

\* Transactions a proof may also be about: a call of the registry that
\* reverted or paid nothing, and another contract's transaction whose log has
\* UsagePaid's signature.
MineOther(from) ==
  /\ \/ \E status \in {0, 1} :
          Mine([from |-> from, to |-> Registry, status |-> status, logs |-> <<>>])
     \/ \E log \in ForeignLog :
          Mine([from |-> from, to |-> ForeignContract, status |-> 1, logs |-> <<log>>])
  /\ UNCHANGED <<tokenVars, registryVars, sepoliaTime>>

SepoliaTick ==
  /\ sepoliaTime < MaxUint64
  /\ sepoliaTime' = sepoliaTime + 1
  /\ UNCHANGED <<tokenVars, registryVars, transactions>>

RegistryNext ==
  \/ TokenNext /\ UNCHANGED <<registryVars, transactions, sepoliaTime>>
  \/ \E caller \in Operator :
       \/ \E m \in OrZero(Machine), b \in OrZero(Operator), p \in Price, active \in BOOLEAN :
            SetMachineOffer(caller, m, b, p, active)
       \/ \E m \in OrZero(Machine), active \in BOOLEAN : SetOfferActive(caller, m, active)
       \/ \E newOwner \in OrZero(Operator) : TransferOwnership(caller, newOwner)
  \/ \E from \in Renter :
       \/ \E sender \in Payer, m \in OrZero(Machine), d \in Duration, n \in OrZero(Nonce) :
            PayForUsage(from, sender, m, d, n)
       \/ MineOther(from)
  \/ SepoliaTick

-----------------------------------------------------------------------------
\* The UsagePaid logs of a transaction that the registry itself emitted.
RegistryLogs(tx) == {l \in {tx.logs[k] : k \in DOMAIN tx.logs} : l.address = Registry}

(***************************************************************************)
(* An order is paid at most once on Sepolia: two transactions never carry  *)
(* a registry log of the same order (payForUsage: DuplicateOrder).         *)
(***************************************************************************)
OnePaymentPerOrder ==
  \A i, j \in DOMAIN transactions :
    \A k \in RegistryLogs(transactions[i]), l \in RegistryLogs(transactions[j]) :
      k.orderId = l.orderId => i = j

(***************************************************************************)
(* The flag that blocks a second payment, the receipt that proves the      *)
(* first and the identifiers in it agree: an order is flagged exactly when *)
(* a mined transaction paid it, and its id names the machine and payer of  *)
(* that payment (payForUsage sets the flag, pays and logs atomically).     *)
(***************************************************************************)
PaidOrdersAreLogged ==
  /\ paidOrders = UNION {{l.orderId : l \in RegistryLogs(transactions[i])} :
                          i \in DOMAIN transactions}
  /\ \A i \in DOMAIN transactions : \A l \in RegistryLogs(transactions[i]) :
       \E n \in Nonce : l.orderId = OrderId(l.machineId, l.payer, n)
=============================================================================
