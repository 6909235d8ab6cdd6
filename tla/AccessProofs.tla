---------------------------- MODULE AccessProofs ----------------------------
(***************************************************************************)
(* What the contracts of the two chains guarantee, for every set of        *)
(* accounts, machines and nonces and every bound: types, that an order is  *)
(* paid once, that access rests on a payment, that the payments for access *)
(* are with the machines' owners, and that Entitlement is implemented.     *)
(***************************************************************************)
EXTENDS ProofKey, FoldProofs

-----------------------------------------------------------------------------
(* Settlement on Sepolia.                                                  *)

(***************************************************************************)
(* Sepolia's half of the type invariant is inductive once one knows that   *)
(* the zero machine never gets an offer.                                   *)
(***************************************************************************)
SepoliaInv ==
  /\ TokenTypeOK
  /\ RegistryTypeOK
  /\ machineOffers[Zero] = NoOffer

LEMMA SepoliaInit == TokenInit /\ RegistryInit => SepoliaInv
BY TokenAssumption, BoundsAreNat, SepoliaAssumption
   DEF TokenInit, RegistryInit, SepoliaInv, TokenTypeOK, RegistryTypeOK, NoOffer, Offer,
       OrZero, Price, Amount, Timestamp

(***************************************************************************)
(* A transfer of a legal amount keeps balances and allowances in range.    *)
(***************************************************************************)
LEMMA TransferType ==
  ASSUME TokenTypeOK,
         NEW spender \in Spender, NEW from \in Account, NEW to \in OrZero(Account),
         NEW amount \in Amount,
         TransferFrom(spender, from, to, amount)
  PROVE  TokenTypeOK' /\ to \in Account
<1> DEFINE debited == [balanceOf EXCEPT ![from] = @ - amount]
<1>1. to \in Account
  BY DEF TransferFrom, OrZero
<1>2. balanceOf' \in [Account -> Amount]
  <2>1. debited \in [Account -> Amount]
    BY TokenAssumption DEF TransferFrom, TokenTypeOK, Amount
  <2>2. debited[to] + amount \in Amount
    BY <1>1, <2>1, TokenAssumption DEF TransferFrom, Fits, Moved, Amount
  <2>3. balanceOf' = [debited EXCEPT ![to] = @ + amount]
    BY DEF TransferFrom, Moved
  <2> QED
    BY <1>1, <2>1, <2>2, <2>3
<1>3. allowance' \in [Account -> [Spender -> Amount]]
  BY TokenAssumption DEF TransferFrom, TokenTypeOK, Amount
<1>4. totalSupply' \in Amount
  BY DEF TransferFrom, TokenTypeOK
<1> QED
  BY <1>1, <1>2, <1>3, <1>4 DEF TokenTypeOK

LEMMA TokenStepType == TokenTypeOK /\ TokenNext => TokenTypeOK'
<1> SUFFICES ASSUME TokenTypeOK, NEW amount \in TokenAmount,
       \/ \E holder \in Payer, spender \in Spender : Approve(holder, spender, amount)
       \/ \E spender \in Spender \ {Registry}, from \in Account, to \in OrZero(Account) :
            TransferFrom(spender, from, to, amount)
       \/ \E recipient \in OrZero(Payer) : Mint(recipient, amount)
     PROVE TokenTypeOK'
  BY DEF TokenNext
<1>0. amount \in Amount
  BY TokenAssumption
<1>1. ASSUME NEW holder \in Payer, NEW spender \in Spender, Approve(holder, spender, amount)
      PROVE  TokenTypeOK'
  BY <1>0, <1>1 DEF Approve, TokenTypeOK, Payer, Account
<1>2. ASSUME NEW spender \in Spender \ {Registry}, NEW from \in Account,
             NEW to \in OrZero(Account), TransferFrom(spender, from, to, amount)
      PROVE  TokenTypeOK'
  BY <1>0, <1>2, TransferType
<1>3. ASSUME NEW recipient \in OrZero(Payer), Mint(recipient, amount)
      PROVE  TokenTypeOK'
  <2>1. recipient \in Account
    BY <1>3 DEF Mint, OrZero, Payer, Account
  <2>2. totalSupply + amount \in Amount /\ balanceOf[recipient] + amount \in Amount
    BY <1>0, <1>3, <2>1, TokenAssumption DEF Mint, Fits, TokenTypeOK, Amount
  <2> QED
    BY <1>3, <2>1, <2>2 DEF Mint, TokenTypeOK
<1> QED
  BY <1>1, <1>2, <1>3

(***************************************************************************)
(* What a payment appends: a well-typed transaction whose single log is    *)
(* the registry's, under an order id made of its machine, payer and nonce. *)
(***************************************************************************)
Paid(tx, log) ==
  /\ tx \in Transaction
  /\ log \in UsagePaid
  /\ tx.logs = <<log>>
  /\ log.address = Registry
  /\ \E n \in Nonce : log.orderId = OrderId(log.machineId, log.payer, n)
  /\ tx.to = Registry => tx.from = log.payer

\* The registry has the token move the amount from the payer to the beneficiary.
Charges(log) ==
  /\ log.payer \in Payer
  /\ TransferFrom(Registry, log.payer, log.beneficiary, log.amount)

LEMMA PaymentEffect ==
  ASSUME SepoliaInv,
         NEW from \in Renter, NEW sender \in Payer, NEW m \in OrZero(Machine),
         NEW d \in Duration, NEW n \in OrZero(Nonce),
         PayForUsage(from, sender, m, d, n)
  PROVE  /\ TokenTypeOK'
         /\ \E tx, log :
              /\ Paid(tx, log)
              /\ Charges(log)
              /\ Mine(tx)
              /\ log.orderId \notin paidOrders
              /\ paidOrders' = paidOrders \cup {log.orderId}
         /\ UNCHANGED <<owner, machineOffers, sepoliaTime>>
<1> DEFINE offer  == machineOffers[m]
           amount == offer.pricePerSecond * d
           log == [address |-> Registry, orderId |-> OrderId(m, sender, n),
                   machineId |-> m, payer |-> sender,
                   beneficiary |-> offer.beneficiary,
                   startTime |-> sepoliaTime, duration |-> d, amount |-> amount]
           tx  == [from |-> from, to |-> IF sender = from THEN Registry ELSE sender,
                   status |-> 1, logs |-> <<log>>]
<1>1. /\ offer \in Offer
      /\ offer.pricePerSecond \in Price
      /\ offer.beneficiary \in OrZero(Account)
  BY DEF SepoliaInv, RegistryTypeOK, Offer, OrZero, Account
<1>2. m \in Machine /\ n \in Nonce /\ d \in 0 .. MaxDuration
  <2>1. m # Zero
    BY DEF PayForUsage, SepoliaInv, NoOffer
  <2>2. n # Zero
    BY DEF PayForUsage
  <2>3. d <= MaxDuration
    BY DEF PayForUsage
  <2> QED
    BY <2>1, <2>2, <2>3, BoundsAreNat DEF OrZero, Duration
<1>3. amount \in Amount
  BY <1>1, <1>2, TokenAssumption
<1>4. from \in Account /\ sender \in Account /\ sender \in {from} \cup Wallet
  BY DEF PayForUsage, Payer, Account
<1>5. TransferFrom(Registry, sender, offer.beneficiary, amount) /\ Mine(tx)
  BY DEF PayForUsage
<1>6. TokenTypeOK' /\ offer.beneficiary \in Account
  BY <1>1, <1>3, <1>4, <1>5, TokenAssumption, TransferType DEF SepoliaInv
<1>7. log \in UsagePaid
  BY <1>2, <1>3, <1>4, <1>6 DEF UsagePaid, SepoliaInv, RegistryTypeOK, OrZero, Order, OrderId
<1>8. tx \in Transaction
  BY <1>4, <1>7 DEF Transaction
<1>9. Paid(tx, log)
  <2>1. tx.to = Registry => tx.from = log.payer
    <3> SUFFICES ASSUME tx.to = Registry, sender # from PROVE FALSE
      OBVIOUS
    <3> QED
      BY <1>4, RegistryIsNoWallet
  <2> QED
    BY <1>2, <1>7, <1>8, <2>1 DEF Paid
<1>10. /\ log.orderId \notin paidOrders
       /\ paidOrders' = paidOrders \cup {log.orderId}
       /\ UNCHANGED <<owner, machineOffers, sepoliaTime>>
  BY DEF PayForUsage, Unpaid, FlagOrder
<1>11. Charges(log)
  BY <1>5 DEF Charges
<1> QED
  BY <1>5, <1>6, <1>9, <1>10, <1>11

(***************************************************************************)
(* Mining appends one transaction and disturbs no earlier one.             *)
(***************************************************************************)
LEMMA MineAppends ==
  ASSUME RegistryTypeOK, NEW tx \in Transaction, Mine(tx)
  PROVE  /\ transactions' \in Seq(Transaction)
         /\ Len(transactions') <= MaxTransactions
         /\ DOMAIN transactions = 1 .. Len(transactions)
         /\ DOMAIN transactions' = DOMAIN transactions \cup {Len(transactions) + 1}
         /\ Len(transactions) + 1 \notin DOMAIN transactions
         /\ Len(transactions') = Len(transactions) + 1
         /\ transactions'[Len(transactions) + 1] = tx
         /\ \A i \in DOMAIN transactions : transactions'[i] = transactions[i]
BY SepoliaAssumption DEF RegistryTypeOK, Mine

(***************************************************************************)
(* What any step of Sepolia does to its history: nothing, one transaction  *)
(* without a registry log, or one payment of an order nobody paid before.  *)
(***************************************************************************)
OtherTokens == TokenNext \/ UNCHANGED tokenVars

Quiet == UNCHANGED <<transactions, paidOrders>> /\ OtherTokens

Unrelated ==
  \E tx \in Transaction :
    /\ Mine(tx)
    /\ \A k \in DOMAIN tx.logs : tx.logs[k].address # Registry
    /\ UNCHANGED <<paidOrders, tokenVars>>

FreshPayment ==
  \E tx, log :
    /\ Paid(tx, log)
    /\ Charges(log)
    /\ Mine(tx)
    /\ log.orderId \notin paidOrders
    /\ paidOrders' = paidOrders \cup {log.orderId}

LEMMA OtherMined ==
  ASSUME NEW from \in Renter, MineOther(from)
  PROVE  Unrelated /\ UNCHANGED <<tokenVars, owner, machineOffers, sepoliaTime>>
<1>1. UNCHANGED <<tokenVars, owner, machineOffers, paidOrders, sepoliaTime>>
  BY DEF MineOther, registryVars
<1>2. from \in Account
  BY DEF Account
<1>3. ASSUME NEW status \in {0, 1},
             Mine([from |-> from, to |-> Registry, status |-> status, logs |-> <<>>])
      PROVE  Unrelated
  <2> DEFINE tx == [from |-> from, to |-> Registry, status |-> status, logs |-> <<>>]
  <2>1. tx \in Transaction
    BY <1>2 DEF Transaction
  <2>2. DOMAIN tx.logs = {}
    OBVIOUS
  <2> QED
    BY <1>1, <1>3, <2>1, <2>2 DEF Unrelated
<1>4. ASSUME NEW log \in ForeignLog,
             Mine([from |-> from, to |-> ForeignContract, status |-> 1, logs |-> <<log>>])
      PROVE  Unrelated
  <2> DEFINE tx == [from |-> from, to |-> ForeignContract, status |-> 1, logs |-> <<log>>]
  <2>1. log \in UsagePaid /\ log.address # Registry
    BY SepoliaAssumption
  <2>2. tx \in Transaction
    BY <1>2, <2>1 DEF Transaction
  <2>3. \A k \in DOMAIN tx.logs : tx.logs[k].address # Registry
    BY <2>1
  <2> QED
    BY <1>1, <1>4, <2>2, <2>3 DEF Unrelated
<1> QED
  BY <1>1, <1>3, <1>4 DEF MineOther

LEMMA SepoliaEffect ==
  ASSUME SepoliaInv, RegistryNext
  PROVE  /\ TokenTypeOK'
         /\ owner' \in Operator
         /\ machineOffers' \in [OrZero(Machine) -> Offer]
         /\ machineOffers'[Zero] = NoOffer
         /\ sepoliaTime' \in Timestamp
         /\ Quiet \/ Unrelated \/ FreshPayment
<1> USE DEF SepoliaInv, RegistryTypeOK
<1>0. Zero \in OrZero(Machine)
  BY DEF OrZero
<1>1. ASSUME TokenNext, UNCHANGED <<registryVars, transactions, sepoliaTime>>
      PROVE  TokenTypeOK' /\ Quiet /\ UNCHANGED <<owner, machineOffers, sepoliaTime>>
  BY <1>1, TokenStepType DEF registryVars, Quiet, OtherTokens
<1>2. ASSUME NEW caller \in Operator, NEW m \in OrZero(Machine), NEW b \in OrZero(Operator),
             NEW p \in Price, NEW active \in BOOLEAN, SetMachineOffer(caller, m, b, p, active)
      PROVE  /\ TokenTypeOK' /\ Quiet /\ UNCHANGED <<owner, sepoliaTime>>
             /\ machineOffers' \in [OrZero(Machine) -> Offer]
             /\ machineOffers'[Zero] = machineOffers[Zero]
  BY <1>0, <1>2 DEF SetMachineOffer, tokenVars, TokenTypeOK, Quiet, OtherTokens, Offer
<1>3. ASSUME NEW caller \in Operator, NEW m \in OrZero(Machine), NEW active \in BOOLEAN,
             SetOfferActive(caller, m, active)
      PROVE  /\ TokenTypeOK' /\ Quiet /\ UNCHANGED <<owner, sepoliaTime>>
             /\ machineOffers' \in [OrZero(Machine) -> Offer]
             /\ machineOffers'[Zero] = machineOffers[Zero]
  <2>1. m # Zero
    BY <1>3 DEF SetOfferActive, NoOffer
  <2>2. TokenTypeOK' /\ Quiet /\ UNCHANGED <<owner, sepoliaTime>>
    BY <1>3 DEF SetOfferActive, tokenVars, TokenTypeOK, Quiet, OtherTokens
  <2>3. machineOffers' = [machineOffers EXCEPT ![m].active = active]
    BY <1>3 DEF SetOfferActive
  <2>4. [machineOffers[m] EXCEPT !.active = active] \in Offer
    BY DEF Offer
  <2> QED
    BY <1>0, <2>1, <2>2, <2>3, <2>4
<1>4. ASSUME NEW caller \in Operator, NEW newOwner \in OrZero(Operator),
             TransferOwnership(caller, newOwner)
      PROVE  /\ TokenTypeOK' /\ Quiet /\ owner' \in Operator
             /\ UNCHANGED <<machineOffers, sepoliaTime>>
  BY <1>4 DEF TransferOwnership, tokenVars, TokenTypeOK, Quiet, OtherTokens, OrZero
<1>5. ASSUME NEW from \in Renter, NEW sender \in Payer, NEW m \in OrZero(Machine),
             NEW d \in Duration, NEW n \in OrZero(Nonce),
             PayForUsage(from, sender, m, d, n)
      PROVE  TokenTypeOK' /\ FreshPayment /\ UNCHANGED <<owner, machineOffers, sepoliaTime>>
  BY <1>5, PaymentEffect DEF FreshPayment
<1>6. ASSUME NEW from \in Renter, MineOther(from)
      PROVE  TokenTypeOK' /\ Unrelated /\ UNCHANGED <<owner, machineOffers, sepoliaTime>>
  BY <1>6, OtherMined DEF tokenVars, TokenTypeOK
<1>7. ASSUME SepoliaTick
      PROVE  /\ TokenTypeOK' /\ Quiet /\ UNCHANGED <<owner, machineOffers>>
             /\ sepoliaTime' \in Timestamp
  BY <1>7, BoundsAreNat
     DEF SepoliaTick, tokenVars, registryVars, TokenTypeOK, Quiet, OtherTokens, Timestamp
<1> QED
  BY <1>1, <1>2, <1>3, <1>4, <1>5, <1>6, <1>7 DEF RegistryNext

LEMMA SepoliaStepType == SepoliaInv /\ RegistryNext => SepoliaInv'
<1> SUFFICES ASSUME SepoliaInv, RegistryNext PROVE SepoliaInv'
  OBVIOUS
<1>1. RegistryTypeOK
  BY DEF SepoliaInv
<1>2. CASE Quiet
  BY <1>1, <1>2, SepoliaEffect DEF Quiet, SepoliaInv, RegistryTypeOK
<1>3. CASE Unrelated
  BY <1>1, <1>3, SepoliaEffect, MineAppends DEF Unrelated, SepoliaInv, RegistryTypeOK
<1>4. CASE FreshPayment
  <2>1. PICK tx, log : /\ Paid(tx, log)
                       /\ Mine(tx)
                       /\ paidOrders' = paidOrders \cup {log.orderId}
    BY <1>4 DEF FreshPayment
  <2>2. tx \in Transaction /\ log.orderId \in Order
    BY <2>1 DEF Paid, UsagePaid
  <2> QED
    BY <1>1, <2>1, <2>2, SepoliaEffect, MineAppends DEF SepoliaInv, RegistryTypeOK
<1> QED
  BY <1>2, <1>3, <1>4, SepoliaEffect

-----------------------------------------------------------------------------
(***************************************************************************)
(* Settlement: an order is paid once.                                      *)
(***************************************************************************)
SettlementInv ==
  /\ SepoliaInv
  /\ PaidOrdersAreLogged
  /\ OnePaymentPerOrder

LEMMA SettlementStep == SettlementInv /\ RegistryNext => SettlementInv'
<1> SUFFICES ASSUME SettlementInv, RegistryNext
             PROVE  PaidOrdersAreLogged' /\ OnePaymentPerOrder'
  BY SepoliaStepType DEF SettlementInv
<1> USE DEF SettlementInv
<1>0. SepoliaInv /\ RegistryTypeOK
  BY DEF SepoliaInv
<1>1. CASE Quiet
  BY <1>1 DEF Quiet, PaidOrdersAreLogged, OnePaymentPerOrder, RegistryLogs
<1>2. ASSUME NEW tx \in Transaction, Mine(tx)
      PROVE  \E n :
               /\ n \notin DOMAIN transactions
               /\ DOMAIN transactions' = DOMAIN transactions \cup {n}
               /\ transactions'[n] = tx
               /\ \A i \in DOMAIN transactions : transactions'[i] = transactions[i]
  BY <1>0, <1>2, MineAppends
<1>3. CASE Unrelated
  <2>1. PICK tx \in Transaction :
          /\ Mine(tx)
          /\ \A k \in DOMAIN tx.logs : tx.logs[k].address # Registry
          /\ UNCHANGED paidOrders
    BY <1>3 DEF Unrelated
  <2>2. RegistryLogs(tx) = {}
    BY <2>1 DEF RegistryLogs
  <2>3. PICK n : /\ n \notin DOMAIN transactions
                 /\ DOMAIN transactions' = DOMAIN transactions \cup {n}
                 /\ transactions'[n] = tx
                 /\ \A i \in DOMAIN transactions : transactions'[i] = transactions[i]
    BY <1>2, <2>1
  <2>4. PaidOrdersAreLogged'
    BY <2>1, <2>2, <2>3 DEF PaidOrdersAreLogged
  <2>5. OnePaymentPerOrder'
    BY <2>2, <2>3 DEF OnePaymentPerOrder
  <2> QED
    BY <2>4, <2>5
<1>4. CASE FreshPayment
  <2>1. PICK tx, log : /\ Paid(tx, log)
                       /\ Mine(tx)
                       /\ log.orderId \notin paidOrders
                       /\ paidOrders' = paidOrders \cup {log.orderId}
    BY <1>4 DEF FreshPayment
  <2>2. tx \in Transaction /\ tx.logs = <<log>> /\ log.address = Registry
    BY <2>1 DEF Paid
  <2>3. RegistryLogs(tx) = {log}
    BY <2>2 DEF RegistryLogs
  <2>4. PICK n : /\ n \notin DOMAIN transactions
                 /\ DOMAIN transactions' = DOMAIN transactions \cup {n}
                 /\ transactions'[n] = tx
                 /\ \A i \in DOMAIN transactions : transactions'[i] = transactions[i]
    BY <1>2, <2>1, <2>2
  <2>5. PaidOrdersAreLogged'
    <3>1. \A i \in DOMAIN transactions' : \A l \in RegistryLogs(transactions'[i]) :
            \E k \in Nonce : l.orderId = OrderId(l.machineId, l.payer, k)
      BY <2>1, <2>3, <2>4 DEF PaidOrdersAreLogged, Paid
    <3>2. paidOrders' = UNION {{l.orderId : l \in RegistryLogs(transactions'[i])} :
                                  i \in DOMAIN transactions'}
      BY <2>1, <2>3, <2>4 DEF PaidOrdersAreLogged
    <3> QED
      BY <3>1, <3>2 DEF PaidOrdersAreLogged
  <2>6. \A i \in DOMAIN transactions : \A l \in RegistryLogs(transactions[i]) :
          l.orderId # log.orderId
    BY <2>1 DEF PaidOrdersAreLogged
  <2>7. OnePaymentPerOrder'
    BY <2>3, <2>4, <2>6 DEF OnePaymentPerOrder
  <2> QED
    BY <2>5, <2>7
<1> QED
  BY <1>0, <1>1, <1>3, <1>4, SepoliaEffect

LEMMA SettlementInit == TokenInit /\ RegistryInit => SettlementInv
BY SepoliaInit DEF RegistryInit, SettlementInv, PaidOrdersAreLogged, OnePaymentPerOrder, RegistryLogs

(***************************************************************************)
(* On Sepolia no order is ever paid twice, and the paid flags are exactly  *)
(* the orders of the receipts, whatever the two chains do.                 *)
(***************************************************************************)
THEOREM OrdersPaidOnce == Spec => [](OnePaymentPerOrder /\ PaidOrdersAreLogged)
<1>1. Init => SettlementInv
  BY SettlementInit DEF Init
<1>2. SettlementInv /\ [Next]_vars => SettlementInv'
  <2>1. SettlementInv /\ UNCHANGED sepoliaVars => SettlementInv'
    BY DEF SettlementInv, SepoliaInv, TokenTypeOK, RegistryTypeOK, PaidOrdersAreLogged,
           OnePaymentPerOrder, RegistryLogs, sepoliaVars, tokenVars, registryVars
  <2> QED
    BY <2>1, SettlementStep DEF Next, SepoliaStep, CreditcoinStep, vars
<1>3. SettlementInv => OnePaymentPerOrder /\ PaidOrdersAreLogged
  BY DEF SettlementInv
<1> QED
  BY <1>1, <1>2, <1>3, PTL DEF Spec

(***************************************************************************)
(* The flags by themselves: a second payment is refused for exactly the    *)
(* orders a receipt proves.                                                *)
(***************************************************************************)
THEOREM FlagsMatchReceipts == Spec => []PaidOrdersAreLogged
BY OrdersPaidOnce, PTL

-----------------------------------------------------------------------------
(***************************************************************************)
(* Redemption on Creditcoin.  CredentialBacked alone is not inductive: it  *)
(* needs that consumed queries are about mined transactions, and that what *)
(* was redeemed was a payment to the machine's owner, whom nothing changes.*)
(***************************************************************************)
CreditcoinTypeOK ==
  /\ MachinesTypeOK
  /\ PassTypeOK(Order)
  /\ AscTypeOK

RedeemedWerePaid ==
  /\ \A q \in processedQueries : \E i \in DOMAIN transactions : q = QueryId(SepoliaChainKey, i)
  /\ \A i \in Redeemed :
       /\ i \in Payments
       /\ Payment(i).beneficiary = machines[Payment(i).machineId].owner

RedemptionInv ==
  /\ RedeemedWerePaid
  /\ CredentialBacked
  /\ OneProofPerOrder
  /\ FurthestWindowWins

AccessInv ==
  /\ SettlementInv
  /\ CreditcoinTypeOK
  /\ RedemptionInv

(***************************************************************************)
(* A payment's transaction has a single log, well typed.                   *)
(***************************************************************************)
LEMMA PaymentType ==
  ASSUME RegistryTypeOK, NEW i \in Payments
  PROVE  /\ i \in DOMAIN transactions
         /\ Payment(i) \in UsagePaid
         /\ Payment(i).payer \in Account
         /\ Payment(i) \in RegistryLogs(transactions[i])
<1>1. i \in DOMAIN transactions /\ transactions[i] \in Transaction
  BY DEF Payments, RegistryTypeOK
<1>2. PICK log \in RegistryLogs(transactions[i]) : log.payer = transactions[i].from
  BY DEF Payments
<1>3. PICK l \in UsagePaid : transactions[i].logs = <<l>>
  BY <1>1, <1>2 DEF Transaction, RegistryLogs
<1>4. Payment(i) = l /\ log = l
  BY <1>2, <1>3 DEF Payment, RegistryLogs
<1>5. transactions[i].from \in Account
  BY <1>1 DEF Transaction
<1> QED
  BY <1>1, <1>2, <1>4, <1>5

(***************************************************************************)
(* ProofKeyASC's reading of a receipt lets nothing but payments pass.      *)
(***************************************************************************)
LEMMA AuthenticArePayments ==
  ASSUME NEW i \in DOMAIN transactions, AuthenticPayment(transactions[i])
  PROVE  i \in Payments
<1>1. Payment(i) \in RegistryLogs(transactions[i]) /\ Payment(i).payer = transactions[i].from
  BY DEF AuthenticPayment, RegistryLogs, Payment
<1> QED
  BY <1>1 DEF Payments

(***************************************************************************)
(* Nothing changes the owner of a registered machine.                      *)
(***************************************************************************)
OwnersKept ==
  \A m \in Machine : machines[m].owner # Zero => machines'[m].owner = machines[m].owner

LEMMA MachineStep == MachinesTypeOK /\ MachinesNext => MachinesTypeOK' /\ OwnersKept
<1> SUFFICES ASSUME MachinesTypeOK,
                    NEW caller \in Operator, NEW m \in OrZero(Machine),
       \/ \E controller \in OrZero(Controller), hash \in OrZero(MetadataHash),
             tariff \in Price, active \in BOOLEAN :
            RegisterMachine(caller, m, controller, hash, tariff, active)
       \/ \E controller \in OrZero(Controller) : UpdateController(caller, m, controller)
       \/ \E hash \in OrZero(MetadataHash) : UpdateMetadataHash(caller, m, hash)
       \/ \E tariff \in Price : UpdateTariff(caller, m, tariff)
       \/ \E active \in BOOLEAN : SetMachineActive(caller, m, active)
     PROVE MachinesTypeOK' /\ OwnersKept
  BY DEF MachinesNext
<1> DEFINE Written(record) ==
             /\ record \in MachineRecord
             /\ machines' = [machines EXCEPT ![m] = record]
             /\ machines[m].owner # Zero => record.owner = machines[m].owner
<1>0. machines \in [OrZero(Machine) -> MachineRecord] /\ machines[m] \in MachineRecord
  BY DEF MachinesTypeOK
<1>1. ASSUME NEW controller \in OrZero(Controller), NEW hash \in OrZero(MetadataHash),
             NEW tariff \in Price, NEW active \in BOOLEAN,
             RegisterMachine(caller, m, controller, hash, tariff, active)
      PROVE  \E record : Written(record)
  <2> DEFINE record == [owner |-> caller, controller |-> controller, metadataHash |-> hash,
                        tariff |-> tariff, active |-> active]
  <2>1. record \in MachineRecord
    BY DEF MachineRecord, OrZero
  <2>2. Written(record)
    BY <1>1, <2>1 DEF RegisterMachine
  <2> QED
    BY <2>2
<1>2. ASSUME NEW controller \in OrZero(Controller), UpdateController(caller, m, controller)
      PROVE  \E record : Written(record)
  <2>1. Written([machines[m] EXCEPT !.controller = controller])
    BY <1>0, <1>2 DEF UpdateController, MachineRecord
  <2> QED
    BY <2>1
<1>3. ASSUME NEW hash \in OrZero(MetadataHash), UpdateMetadataHash(caller, m, hash)
      PROVE  \E record : Written(record)
  <2>1. Written([machines[m] EXCEPT !.metadataHash = hash])
    BY <1>0, <1>3 DEF UpdateMetadataHash, MachineRecord
  <2> QED
    BY <2>1
<1>4. ASSUME NEW tariff \in Price, UpdateTariff(caller, m, tariff)
      PROVE  \E record : Written(record)
  <2>1. Written([machines[m] EXCEPT !.tariff = tariff])
    BY <1>0, <1>4 DEF UpdateTariff, MachineRecord
  <2> QED
    BY <2>1
<1>5. ASSUME NEW active \in BOOLEAN, SetMachineActive(caller, m, active)
      PROVE  \E record : Written(record)
  <2>1. Written([machines[m] EXCEPT !.active = active])
    BY <1>0, <1>5 DEF SetMachineActive, MachineRecord
  <2> QED
    BY <2>1
<1>6. PICK record : Written(record)
  BY <1>1, <1>2, <1>3, <1>4, <1>5
<1> QED
  BY <1>0, <1>6 DEF MachinesTypeOK, OwnersKept, OrZero

(***************************************************************************)
(* Sepolia only ever adds to its history.                                  *)
(***************************************************************************)
HistoryKept ==
  /\ DOMAIN transactions \subseteq DOMAIN transactions'
  /\ \A i \in DOMAIN transactions : transactions'[i] = transactions[i]

LEMMA HistoryGrows ==
  ASSUME SepoliaInv, RegistryNext
  PROVE  HistoryKept /\ Len(transactions) <= Len(transactions')
<1>1. RegistryTypeOK /\ Len(transactions) \in Nat
  BY DEF SepoliaInv, RegistryTypeOK
<1>2. CASE Quiet
  BY <1>1, <1>2 DEF Quiet, HistoryKept
<1>3. ASSUME NEW tx \in Transaction, Mine(tx)
      PROVE  HistoryKept /\ Len(transactions) <= Len(transactions')
  BY <1>1, <1>3, MineAppends DEF HistoryKept
<1> QED
  BY <1>2, <1>3, SepoliaEffect DEF Unrelated, FreshPayment, Paid

-----------------------------------------------------------------------------
(***************************************************************************)
(* A step that consumes nothing, keeps the credentials, the history and    *)
(* the machines' owners disturbs nothing that was redeemed.                *)
(***************************************************************************)
LEMMA NothingRedeemed ==
  ASSUME AccessInv, HistoryKept, OwnersKept,
         UNCHANGED <<processedQueries, processedOrders, accessCredentials>>
  PROVE  RedemptionInv'
<1> USE DEF AccessInv, RedemptionInv
<1>1. Redeemed' = Redeemed
  BY DEF Redeemed, RedeemedWerePaid, QueryId, HistoryKept
<1>2. ASSUME NEW i \in Redeemed
      PROVE  /\ Payment(i)' = Payment(i)
             /\ i \in Payments'
             /\ Payment(i).machineId \in Machine
             /\ machines'[Payment(i).machineId].owner = machines[Payment(i).machineId].owner
  <2>1. i \in DOMAIN transactions /\ i \in Payments
    BY DEF Redeemed, RedeemedWerePaid
  <2>2. transactions'[i] = transactions[i] /\ i \in DOMAIN transactions'
    BY <2>1 DEF HistoryKept
  <2>3. Payment(i)' = Payment(i) /\ i \in Payments'
    BY <2>1, <2>2 DEF Payment, Payments
  <2>4. Payment(i) \in UsagePaid
    BY <2>1, PaymentType DEF SettlementInv, SepoliaInv
  <2>5. Payment(i).beneficiary # Zero /\ Payment(i).machineId \in Machine
    BY <2>4, ZeroIsReserved DEF UsagePaid
  <2>6. Payment(i).beneficiary = machines[Payment(i).machineId].owner
    BY DEF RedeemedWerePaid
  <2> QED
    BY <2>3, <2>5, <2>6 DEF OwnersKept
<1>3. RedeemedWerePaid'
  <2>1. \A q \in processedQueries' :
          \E i \in DOMAIN transactions' : q = QueryId(SepoliaChainKey, i)
    BY DEF RedeemedWerePaid, HistoryKept
  <2>2. ASSUME NEW i \in Redeemed'
        PROVE  i \in Payments' /\ (Payment(i).beneficiary = machines[Payment(i).machineId].owner)'
    BY <1>1, <1>2 DEF RedeemedWerePaid
  <2> QED
    BY <2>1, <2>2 DEF RedeemedWerePaid
<1>4. CredentialBacked'
  BY <1>1, <1>2 DEF CredentialBacked, ExpiresAt
<1>5. OneProofPerOrder'
  BY <1>1, <1>2 DEF OneProofPerOrder
<1>6. FurthestWindowWins'
  BY <1>1, <1>2 DEF FurthestWindowWins, ExpiresAt
<1> QED
  BY <1>3, <1>4, <1>5, <1>6

(***************************************************************************)
(* What execute does: the i-th transaction of Sepolia is an authentic      *)
(* payment of an order not consumed before; exactly its query and order    *)
(* become consumed, and only its payer's credential for its machine        *)
(* changes, to the end of the paid window, which lies further ahead.       *)
(***************************************************************************)
Redeems(i) ==
  /\ i \in Payments \ Redeemed
  /\ MatchesPolicy(Payment(i))
  /\ LiveWindow(Payment(i))
  /\ Payment(i).beneficiary = machines[Payment(i).machineId].owner
  /\ Payment(i).orderId \notin processedOrders
  /\ ExpiresAt(Payment(i)) \in Timestamp
  /\ ExpiresAt(Payment(i)) > accessCredentials[Payment(i).machineId][Payment(i).payer].expiresAt
  /\ processedQueries' = processedQueries \cup {QueryId(SepoliaChainKey, i)}
  /\ processedOrders' = processedOrders \cup {Payment(i).orderId}
  /\ accessCredentials' =
       [accessCredentials EXCEPT ![Payment(i).machineId][Payment(i).payer] =
          [authorizationId |-> Payment(i).orderId, expiresAt |-> ExpiresAt(Payment(i))]]
  /\ UNCHANGED <<machines, administrator, attestcoinAuthorizer, creditcoinTime, attested>>

LEMMA ExecuteEffect ==
  ASSUME SepoliaInv, CreditcoinTypeOK,
         NEW action \in 0 .. 1, NEW chainKey \in ChainKey, NEW i \in 1 .. MaxTransactions,
         Execute(action, chainKey, i)
  PROVE  Redeems(i)
<1>1. RegistryTypeOK /\ attested \in 0 .. MaxTransactions /\ attested <= Len(transactions)
  BY DEF SepoliaInv, CreditcoinTypeOK, AscTypeOK
<1>2. i \in DOMAIN transactions
  <2>1. i \in 1 .. attested
    BY DEF Execute, Verified
  <2>2. DOMAIN transactions = 1 .. Len(transactions) /\ Len(transactions) \in Nat
    BY <1>1 DEF RegistryTypeOK
  <2> QED
    BY <1>1, <2>1, <2>2, SepoliaAssumption
<1>3. i \in Payments
  BY <1>2, AuthenticArePayments DEF Execute, ValidUsagePayment
<1>4. /\ Payment(i) \in UsagePaid
      /\ Payment(i).payer \in Account
  BY <1>1, <1>3, PaymentType
<1>5. /\ QueryId(chainKey, i) \notin processedQueries
      /\ MatchesPolicy(Payment(i)) /\ LiveWindow(Payment(i))
      /\ Payment(i).orderId \notin processedOrders
      /\ processedQueries' = processedQueries \cup {QueryId(chainKey, i)}
      /\ processedOrders' = processedOrders \cup {Payment(i).orderId}
      /\ GrantAccess(ProofKeyAsc, Payment(i).orderId, Payment(i).machineId,
                     Payment(i).payer, ExpiresAt(Payment(i)))
      /\ UNCHANGED <<machines, creditcoinTime, attested>>
      /\ chainKey = SepoliaChainKey
  BY DEF Execute, ValidUsagePayment, Payment
<1>6. ExpiresAt(Payment(i)) \in Timestamp
  <2>1. /\ Payment(i).startTime \in Timestamp /\ Payment(i).duration \in Nat
        /\ Payment(i).startTime <= MaxUint64 - Payment(i).duration
    BY <1>4, <1>5, BoundsAreNat DEF UsagePaid, Duration, LiveWindow
  <2> QED
    BY <2>1, BoundsAreNat DEF ExpiresAt, Timestamp
<1>7. Payment(i).beneficiary = machines[Payment(i).machineId].owner
  BY <1>5 DEF MatchesPolicy, PaidOwner
<1> QED
  BY <1>3, <1>5, <1>6, <1>7 DEF Redeems, Redeemed, GrantAccess, Extends

LEMMA ExecuteType ==
  ASSUME SepoliaInv, CreditcoinTypeOK, NEW i \in 1 .. MaxTransactions, Redeems(i),
         UNCHANGED sepoliaVars
  PROVE  CreditcoinTypeOK'
<1>1. Payment(i) \in UsagePaid /\ Payment(i).payer \in Account /\ Payment(i).machineId \in Machine
      /\ Payment(i).orderId \in Order
  BY PaymentType DEF SepoliaInv, Redeems, UsagePaid
<1>2. accessCredentials' \in
        [Machine -> [Account -> [authorizationId : OrZero(Order), expiresAt : Timestamp]]]
  <2> DEFINE credential == [authorizationId |-> Payment(i).orderId,
                            expiresAt |-> ExpiresAt(Payment(i))]
             Credential == [authorizationId : OrZero(Order), expiresAt : Timestamp]
  <2>1. credential \in Credential
    BY <1>1 DEF Redeems, OrZero
  <2>2. accessCredentials \in [Machine -> [Account -> Credential]]
    BY DEF CreditcoinTypeOK, PassTypeOK
  <2>3. accessCredentials' =
          [accessCredentials EXCEPT ![Payment(i).machineId][Payment(i).payer] = credential]
    BY DEF Redeems
  <2> HIDE DEF credential, Credential
  <2>4. accessCredentials' \in [Machine -> [Account -> Credential]]
    BY <1>1, <2>1, <2>2, <2>3
  <2> QED
    BY <2>4 DEF Credential
<1>3. PassTypeOK(Order)'
  BY <1>2 DEF CreditcoinTypeOK, PassTypeOK, Redeems
<1>4. AscTypeOK'
  BY <1>1 DEF CreditcoinTypeOK, AscTypeOK, Redeems, QueryId, sepoliaVars
<1>5. MachinesTypeOK'
  BY DEF CreditcoinTypeOK, MachinesTypeOK, Redeems
<1> QED
  BY <1>3, <1>4, <1>5 DEF CreditcoinTypeOK

(***************************************************************************)
(* Redeeming one payment keeps everything that relates the two chains.     *)
(***************************************************************************)
LEMMA ExecuteStep ==
  ASSUME AccessInv, NEW i \in 1 .. MaxTransactions, Redeems(i), UNCHANGED sepoliaVars
  PROVE  RedemptionInv'
<1> USE DEF AccessInv, RedemptionInv
<1> DEFINE log == Payment(i)
<1>1. RegistryTypeOK /\ i \in Payments /\ i \in DOMAIN transactions
      /\ log \in UsagePaid /\ log.payer \in Account /\ log.machineId \in Machine
      /\ log.orderId \in Order
  BY PaymentType DEF SettlementInv, SepoliaInv, Redeems, UsagePaid
<1>2. UNCHANGED transactions /\ Payments' = Payments /\ \A j : Payment(j)' = Payment(j)
  BY DEF sepoliaVars, Payments, Payment
<1>3. Redeemed' = Redeemed \cup {i}
  BY <1>1, <1>2 DEF Redeemed, Redeems, QueryId
<1>4. \A j \in Redeemed :
        /\ j \in Payments
        /\ Payment(j).machineId \in Machine
        /\ Payment(j).payer \in Account
        /\ ExpiresAt(Payment(j)) \in Int
  <2> SUFFICES ASSUME NEW j \in Redeemed
               PROVE  /\ j \in Payments
                      /\ Payment(j).machineId \in Machine
                      /\ Payment(j).payer \in Account
                      /\ ExpiresAt(Payment(j)) \in Int
    OBVIOUS
  <2>1. j \in Payments
    BY DEF RedeemedWerePaid
  <2>2. Payment(j) \in UsagePaid /\ Payment(j).payer \in Account
    BY <1>1, <2>1, PaymentType
  <2> QED
    BY <2>1, <2>2, BoundsAreNat DEF UsagePaid, ExpiresAt, Timestamp, Duration
<1>5. /\ \A m \in Machine, a \in Account :
           m # log.machineId \/ a # log.payer =>
             accessCredentials'[m][a] = accessCredentials[m][a]
      /\ accessCredentials'[log.machineId][log.payer] =
           [authorizationId |-> log.orderId, expiresAt |-> ExpiresAt(log)]
  BY <1>1 DEF CreditcoinTypeOK, PassTypeOK, Redeems
<1>6. machines' = machines
  BY DEF Redeems
<1>7. RedeemedWerePaid'
  <2>1. \A q \in processedQueries' :
          \E j \in DOMAIN transactions' : q = QueryId(SepoliaChainKey, j)
    BY <1>1, <1>2 DEF RedeemedWerePaid, Redeems
  <2>2. \A j \in Redeemed' : /\ j \in Payments'
                             /\ Payment(j)'.beneficiary = machines'[Payment(j)'.machineId].owner
    BY <1>2, <1>3, <1>6 DEF RedeemedWerePaid, Redeems
  <2> QED
    BY <2>1, <2>2 DEF RedeemedWerePaid
<1>8. CredentialBacked'
  <2> SUFFICES ASSUME NEW m \in Machine, NEW a \in Account,
                      accessCredentials'[m][a] # NoCredential
               PROVE  \E j \in Payments \cap (Redeemed \cup {i}) :
                        /\ Payment(j).orderId = accessCredentials'[m][a].authorizationId
                        /\ Payment(j).machineId = m
                        /\ Payment(j).payer = a
                        /\ Payment(j).beneficiary = machines[m].owner
                        /\ ExpiresAt(Payment(j)) = accessCredentials'[m][a].expiresAt
    BY <1>2, <1>3, <1>6 DEF CredentialBacked, ExpiresAt
  <2>1. CASE m = log.machineId /\ a = log.payer
    BY <1>1, <1>5, <2>1 DEF Redeems
  <2>2. CASE m # log.machineId \/ a # log.payer
    BY <1>5, <2>2 DEF CredentialBacked
  <2> QED
    BY <2>1, <2>2
<1>9. OneProofPerOrder'
  <2>1. processedOrders = {Payment(j).orderId : j \in Redeemed}
    BY DEF OneProofPerOrder
  <2>2. log.orderId \notin processedOrders
    BY DEF Redeems
  <2>3. processedOrders' = processedOrders \cup {log.orderId}
    BY DEF Redeems
  <2>4. processedOrders' = {Payment(j).orderId : j \in Redeemed \cup {i}}
    BY <2>1, <2>3
  <2>5. \A j, k \in Redeemed \cup {i} : Payment(j).orderId = Payment(k).orderId => j = k
    BY <2>1, <2>2 DEF OneProofPerOrder
  <2> QED
    BY <1>2, <1>3, <2>4, <2>5 DEF OneProofPerOrder
<1>10. FurthestWindowWins'
  <2> SUFFICES ASSUME NEW j \in Redeemed \cup {i}
               PROVE  ExpiresAt(Payment(j)) <=
                        accessCredentials'[Payment(j).machineId][Payment(j).payer].expiresAt
    BY <1>2, <1>3 DEF FurthestWindowWins, ExpiresAt
  <2>1. ExpiresAt(log) \in Int /\ accessCredentials[log.machineId][log.payer].expiresAt \in Int
    BY <1>1, BoundsAreNat DEF Redeems, Timestamp, CreditcoinTypeOK, PassTypeOK
  <2>2. CASE j = i
    BY <1>5, <2>1, <2>2
  <2>3. CASE /\ j \in Redeemed
             /\ Payment(j).machineId = log.machineId /\ Payment(j).payer = log.payer
    <3>1. ExpiresAt(Payment(j)) <= accessCredentials[log.machineId][log.payer].expiresAt
      BY <2>3 DEF FurthestWindowWins
    <3>2. accessCredentials[log.machineId][log.payer].expiresAt < ExpiresAt(log)
      BY <2>1 DEF Redeems
    <3>3. ExpiresAt(Payment(j)) \in Int
      BY <1>4, <2>3
    <3> QED
      BY <1>5, <2>1, <2>3, <3>1, <3>2, <3>3
  <2>4. CASE /\ j \in Redeemed
             /\ Payment(j).machineId # log.machineId \/ Payment(j).payer # log.payer
    BY <1>4, <1>5, <2>4 DEF FurthestWindowWins
  <2> QED
    BY <2>2, <2>3, <2>4
<1> QED
  BY <1>7, <1>8, <1>9, <1>10

-----------------------------------------------------------------------------
(***************************************************************************)
(* Every other step keeps the types and consumes nothing.                  *)
(***************************************************************************)
Idle ==
  /\ CreditcoinTypeOK'
  /\ HistoryKept
  /\ OwnersKept
  /\ UNCHANGED <<processedQueries, processedOrders, accessCredentials>>
  /\ creditcoinTime' = creditcoinTime \/ creditcoinTime' > creditcoinTime

LEMMA SepoliaIdle ==
  ASSUME SepoliaInv, CreditcoinTypeOK, SepoliaStep
  PROVE  Idle
<1>1. HistoryKept /\ Len(transactions) <= Len(transactions') /\ UNCHANGED creditcoinVars
  BY HistoryGrows DEF SepoliaStep
<1>2. attested' <= Len(transactions')
  <2>1. attested \in Nat /\ Len(transactions) \in Nat /\ Len(transactions') \in Nat
    <3>1. RegistryTypeOK /\ RegistryTypeOK'
      BY SepoliaStepType DEF SepoliaStep, SepoliaInv
    <3> QED
      BY <3>1, SepoliaAssumption DEF RegistryTypeOK, CreditcoinTypeOK, AscTypeOK
  <2> QED
    BY <1>1, <2>1 DEF creditcoinVars, CreditcoinTypeOK, AscTypeOK
<1> QED
  BY <1>1, <1>2
     DEF Idle, creditcoinVars, passVars, ascVars, CreditcoinTypeOK, MachinesTypeOK, PassTypeOK,
         AscTypeOK, OwnersKept

LEMMA CreditcoinEffect ==
  ASSUME SepoliaInv, CreditcoinTypeOK, CreditcoinStep
  PROVE  Idle \/ \E i \in 1 .. MaxTransactions : Redeems(i)
<1> USE DEF CreditcoinTypeOK
<1>0. UNCHANGED sepoliaVars /\ HistoryKept
  BY DEF CreditcoinStep, HistoryKept, sepoliaVars
<1>1. ASSUME MachinesNext, UNCHANGED <<passVars, creditcoinTime, ascVars, attested>>
      PROVE  Idle
  BY <1>0, <1>1, MachineStep DEF Idle, passVars, ascVars, PassTypeOK, AscTypeOK, sepoliaVars
<1>2. ASSUME PassNext, UNCHANGED <<machines, creditcoinTime, ascVars, attested>>
      PROVE  Idle
  <2>1. /\ administrator' \in Operator
        /\ attestcoinAuthorizer' \in {Zero, ProofKeyAsc}
        /\ UNCHANGED accessCredentials
    BY <1>2 DEF PassNext, PassTypeOK, SetAttestcoinAuthorizer, TransferAdministration, HasCode,
                OrZero
  <2> QED
    BY <1>0, <1>2, <2>1 DEF Idle, ascVars, PassTypeOK, AscTypeOK, MachinesTypeOK, OwnersKept,
                            sepoliaVars
<1>3. ASSUME Attest
      PROVE  Idle
  <2>1. /\ attested' \in 0 .. MaxTransactions
        /\ attested' <= Len(transactions)
    <3>1. /\ attested \in Nat /\ attested < Len(transactions) /\ attested' = attested + 1
          /\ Len(transactions) \in Nat /\ Len(transactions) <= MaxTransactions
          /\ MaxTransactions \in Nat
      BY <1>3, SepoliaAssumption DEF Attest, AscTypeOK, SepoliaInv, RegistryTypeOK
    <3> QED
      BY <3>1
  <2> QED
    BY <1>0, <1>3, <2>1 DEF Attest, Idle, passVars, ascVars, PassTypeOK, AscTypeOK,
                            MachinesTypeOK, OwnersKept, sepoliaVars
<1>4. ASSUME CreditcoinTick
      PROVE  Idle
  BY <1>0, <1>4, BoundsAreNat
     DEF CreditcoinTick, Idle, passVars, ascVars, PassTypeOK, AscTypeOK, MachinesTypeOK,
         OwnersKept, Timestamp, sepoliaVars
<1>5. ASSUME NEW action \in 0 .. 1, NEW chainKey \in ChainKey, NEW i \in 1 .. MaxTransactions,
             Execute(action, chainKey, i)
      PROVE  \E j \in 1 .. MaxTransactions : Redeems(j)
  BY <1>5, ExecuteEffect
<1> QED
  BY <1>1, <1>2, <1>3, <1>4, <1>5 DEF CreditcoinStep, CreditcoinNext

LEMMA AccessInit == Init => AccessInv
<1> SUFFICES ASSUME Init PROVE AccessInv
  OBVIOUS
<1>1. SettlementInv /\ transactions = <<>>
  BY SettlementInit DEF Init, RegistryInit
<1>2. CreditcoinTypeOK
  BY <1>1, BoundsAreNat, SepoliaAssumption
     DEF Init, MachinesInit, PassInit, AscInit, CreditcoinTypeOK, MachinesTypeOK, PassTypeOK,
         AscTypeOK, NoMachine, MachineRecord, NoCredential, OrZero, Price, Timestamp
<1>3. Redeemed = {}
  BY DEF Init, AscInit, Redeemed
<1>4. RedeemedWerePaid /\ OneProofPerOrder /\ FurthestWindowWins
  BY <1>3 DEF Init, AscInit, RedeemedWerePaid, OneProofPerOrder, FurthestWindowWins
<1>5. CredentialBacked
  BY DEF Init, PassInit, CredentialBacked
<1> QED
  BY <1>1, <1>2, <1>4, <1>5 DEF AccessInv, RedemptionInv

LEMMA AccessStep == AccessInv /\ [Next]_vars => AccessInv'
<1> SUFFICES ASSUME AccessInv, [Next]_vars PROVE AccessInv'
  OBVIOUS
<1>0. SettlementInv /\ SepoliaInv /\ CreditcoinTypeOK /\ RedemptionInv
  BY DEF AccessInv, SettlementInv
<1>1. SettlementInv /\ UNCHANGED sepoliaVars => SettlementInv'
  BY DEF SettlementInv, SepoliaInv, TokenTypeOK, RegistryTypeOK, PaidOrdersAreLogged,
         OnePaymentPerOrder, RegistryLogs, sepoliaVars, tokenVars, registryVars
<1>2. ASSUME Idle PROVE CreditcoinTypeOK' /\ RedemptionInv'
  BY <1>2, NothingRedeemed DEF Idle
<1>3. CASE SepoliaStep
  BY <1>0, <1>2, <1>3, SettlementStep, SepoliaIdle DEF SepoliaStep, AccessInv
<1>4. CASE CreditcoinStep
  <2>1. UNCHANGED sepoliaVars
    BY <1>4 DEF CreditcoinStep
  <2>2. CASE Idle
    BY <1>0, <1>1, <1>2, <2>1, <2>2 DEF AccessInv
  <2>3. ASSUME NEW i \in 1 .. MaxTransactions, Redeems(i)
        PROVE  AccessInv'
    BY <1>0, <1>1, <2>1, <2>3, ExecuteType, ExecuteStep DEF AccessInv
  <2> QED
    BY <1>0, <1>4, <2>2, <2>3, CreditcoinEffect
<1>5. CASE UNCHANGED vars
  <2>1. UNCHANGED sepoliaVars /\ UNCHANGED creditcoinVars
    BY <1>5 DEF vars
  <2>2. Idle
    BY <1>0, <2>1 DEF Idle, HistoryKept, OwnersKept, sepoliaVars, creditcoinVars, passVars, ascVars,
                      CreditcoinTypeOK, MachinesTypeOK, PassTypeOK, AscTypeOK
  <2> QED
    BY <1>0, <1>1, <1>2, <2>1, <2>2 DEF AccessInv
<1> QED
  BY <1>3, <1>4, <1>5 DEF Next

(***************************************************************************)
(* No step but execute touches a credential or consumes an order.          *)
(***************************************************************************)
LEMMA StepEffect ==
  ASSUME AccessInv, [Next]_vars
  PROVE  \/ SepoliaStep
         \/ Idle /\ UNCHANGED sepoliaVars
         \/ UNCHANGED vars
         \/ \E i \in 1 .. MaxTransactions : Redeems(i) /\ UNCHANGED sepoliaVars
BY CreditcoinEffect DEF AccessInv, SettlementInv, Next, CreditcoinStep

LEMMA AccessAlways == Spec => []AccessInv
BY AccessInit, AccessStep, PTL DEF Spec

(***************************************************************************)
(* Every variable of both chains keeps its type: in particular no balance, *)
(* clock or credential end ever leaves its integer width.                  *)
(***************************************************************************)
THEOREM TypeCorrect == Spec => []TypeOK
<1>1. AccessInv => TypeOK
  BY DEF AccessInv, SettlementInv, SepoliaInv, CreditcoinTypeOK, TypeOK
<1> QED
  BY <1>1, AccessAlways, PTL

(***************************************************************************)
(* No account ever holds a credential that no payment of its own to the    *)
(* machine's owner backs, however deliveries of proofs are ordered.        *)
(***************************************************************************)
THEOREM NoAccessWithoutPayment == Spec => []CredentialBacked
<1>1. AccessInv => CredentialBacked
  BY DEF AccessInv, RedemptionInv
<1> QED
  BY <1>1, AccessAlways, PTL

(***************************************************************************)
(* A payment is redeemed at most once, through one proof.                  *)
(***************************************************************************)
THEOREM NoReplay == Spec => []OneProofPerOrder
<1>1. AccessInv => OneProofPerOrder
  BY DEF AccessInv, RedemptionInv
<1> QED
  BY <1>1, AccessAlways, PTL

(***************************************************************************)
(* The order in which proofs arrive does not shorten anybody's access.     *)
(***************************************************************************)
THEOREM ArrivalOrderIsHarmless == Spec => []FurthestWindowWins
<1>1. AccessInv => FurthestWindowWins
  BY DEF AccessInv, RedemptionInv
<1> QED
  BY <1>1, AccessAlways, PTL

(***************************************************************************)
(* A credential changes only through a payment that nobody consumed before *)
(* and that meets the machine's policy of that moment.                     *)
(***************************************************************************)
THEOREM PolicyEnforced == Spec => GrantedAtCurrentPolicy
<1> DEFINE Granted ==
      \A m \in Machine, a \in Account :
        accessCredentials'[m][a] # accessCredentials[m][a] =>
          /\ accessCredentials'[m][a].expiresAt > accessCredentials[m][a].expiresAt
          /\ accessCredentials'[m][a].expiresAt > creditcoinTime
          /\ machines[m].active
          /\ \E i \in (Payments \ Redeemed) \cap Redeemed' :
               /\ Payment(i).orderId = accessCredentials'[m][a].authorizationId
               /\ Payment(i).amount = machines[m].tariff * Payment(i).duration
<1>1. ASSUME AccessInv, [Next]_vars PROVE Granted
  <2>1. CASE UNCHANGED accessCredentials
    BY <2>1
  <2>2. ASSUME NEW i \in 1 .. MaxTransactions, Redeems(i), UNCHANGED sepoliaVars
        PROVE  Granted
    <3> DEFINE log == Payment(i)
    <3>1. log.payer \in Account /\ log.machineId \in Machine /\ i \in DOMAIN transactions
      BY <1>1, <2>2, PaymentType DEF AccessInv, SettlementInv, SepoliaInv, Redeems, UsagePaid
    <3>2. i \in (Payments \ Redeemed) \cap Redeemed'
      BY <2>2, <3>1 DEF Redeems, Redeemed, sepoliaVars
    <3>3. /\ machines[log.machineId].active
          /\ log.amount = machines[log.machineId].tariff * log.duration
          /\ ExpiresAt(log) > creditcoinTime
      BY <2>2 DEF Redeems, MatchesPolicy, AtTariff, LiveWindow
    <3>4. /\ \A m \in Machine, a \in Account :
               m # log.machineId \/ a # log.payer =>
                 accessCredentials'[m][a] = accessCredentials[m][a]
          /\ accessCredentials'[log.machineId][log.payer] =
               [authorizationId |-> log.orderId, expiresAt |-> ExpiresAt(log)]
      BY <1>1, <2>2, <3>1 DEF AccessInv, CreditcoinTypeOK, PassTypeOK, Redeems
    <3>5. ExpiresAt(log) > accessCredentials[log.machineId][log.payer].expiresAt
      BY <2>2 DEF Redeems
    <3> QED
      BY <3>2, <3>3, <3>4, <3>5
  <2>3. SepoliaStep => UNCHANGED accessCredentials
    BY DEF SepoliaStep, creditcoinVars, passVars
  <2>4. UNCHANGED vars => UNCHANGED accessCredentials
    BY DEF vars, creditcoinVars, passVars
  <2> QED
    BY <1>1, <2>1, <2>2, <2>3, <2>4, StepEffect DEF Idle
<1> QED
  BY <1>1, AccessAlways, PTL DEF Spec, GrantedAtCurrentPolicy

-----------------------------------------------------------------------------
(***************************************************************************)
(* Revenue.  OwnersHoldTheRevenue speaks of what was redeemed on           *)
(* Creditcoin; what is inductive speaks of Sepolia alone: an operator who  *)
(* never approves anybody holds all that was ever paid to it.              *)
(***************************************************************************)
Income(op) ==
  {i \in DOMAIN transactions :
     RegistryLogs(transactions[i]) # {} /\ Payment(i).beneficiary = op}

Earned(op) == SumFunctionOnSet([i \in DOMAIN transactions |-> Payment(i).amount], Income(op))

IncomeKept(op) ==
  /\ \A s \in Spender : allowance[op][s] = 0
  /\ Earned(op) <= balanceOf[op]

RevenueInv == AccessInv /\ \A op \in Operator \ Payer : IncomeKept(op)

LEMMA LoggedType ==
  ASSUME RegistryTypeOK, NEW i \in DOMAIN transactions, RegistryLogs(transactions[i]) # {}
  PROVE  Payment(i) \in UsagePaid /\ RegistryLogs(transactions[i]) = {Payment(i)}
<1>1. transactions[i] \in Transaction
  BY DEF RegistryTypeOK
<1>2. PICK l \in UsagePaid : transactions[i].logs = <<l>>
  BY <1>1 DEF Transaction, RegistryLogs
<1> QED
  BY <1>2 DEF Payment, RegistryLogs

LEMMA IncomeType ==
  ASSUME RegistryTypeOK, NEW op
  PROVE  /\ IsFiniteSet(Income(op))
         /\ Numbers([i \in DOMAIN transactions |-> Payment(i).amount], Income(op))
         /\ Earned(op) \in Nat
<1>1. IsFiniteSet(DOMAIN transactions)
  BY FS_Interval DEF RegistryTypeOK
<1>2. IsFiniteSet(Income(op))
  BY <1>1, FS_Subset DEF Income
<1>3. Numbers([i \in DOMAIN transactions |-> Payment(i).amount], Income(op))
  BY LoggedType, TokenAssumption DEF Numbers, Income, UsagePaid, Amount
<1> QED
  BY <1>2, <1>3, SumNat DEF Earned

(***************************************************************************)
(* What a transfer does to an account that approved nobody: its balance    *)
(* does not fall, and rises by what another account sends it.              *)
(***************************************************************************)
LEMMA TransferKeeps ==
  ASSUME TokenTypeOK, NEW op \in Account, \A s \in Spender : allowance[op][s] = 0,
         NEW spender \in Spender, NEW from \in Account, NEW to \in OrZero(Account),
         NEW amount \in Amount, TransferFrom(spender, from, to, amount)
  PROVE  /\ \A s \in Spender : allowance'[op][s] = 0
         /\ balanceOf[op] <= balanceOf'[op]
         /\ to = op /\ from # op => balanceOf'[op] = balanceOf[op] + amount
<1> DEFINE debited == [balanceOf EXCEPT ![from] = @ - amount]
<1>1. to \in Account
  BY TransferType
<1>2. balanceOf \in [Account -> Nat] /\ amount \in Nat
      /\ allowance \in [Account -> [Spender -> Nat]]
  BY TokenAssumption DEF TokenTypeOK, Amount
<1>3. balanceOf' = [debited EXCEPT ![to] = @ + amount]
  BY DEF TransferFrom, Moved
<1>4. allowance[from][spender] >= amount
  BY DEF TransferFrom
<1>5. CASE from = op
  <2>1. amount = 0
    BY <1>2, <1>4, <1>5
  <2>2. balanceOf'[op] = balanceOf[op]
    <3>1. debited[op] = balanceOf[op] /\ debited \in [Account -> Int]
      BY <1>2, <1>5, <2>1
    <3> QED
      BY <1>1, <1>2, <1>3, <2>1, <3>1
  <2>3. \A s \in Spender : allowance'[op][s] = 0
    BY <1>2, <1>5, <2>1 DEF TransferFrom
  <2>4. balanceOf[op] \in Nat
    BY <1>2
  <2> QED
    BY <1>5, <2>2, <2>3, <2>4
<1>6. CASE from # op
  <2>1. debited[op] = balanceOf[op] /\ debited \in [Account -> Int]
    BY <1>2, <1>6
  <2>2. balanceOf'[op] = IF to = op THEN balanceOf[op] + amount ELSE balanceOf[op]
    BY <1>1, <1>3, <2>1
  <2>3. \A s \in Spender : allowance'[op][s] = 0
    BY <1>2, <1>6 DEF TransferFrom
  <2>4. balanceOf[op] \in Nat
    BY <1>2
  <2> QED
    BY <1>2, <2>2, <2>3, <2>4
<1> QED
  BY <1>5, <1>6

LEMMA TokensKept ==
  ASSUME TokenTypeOK, OtherTokens, NEW op \in Operator \ Payer,
         \A s \in Spender : allowance[op][s] = 0
  PROVE  /\ \A s \in Spender : allowance'[op][s] = 0
         /\ balanceOf[op] <= balanceOf'[op]
<1>1. op \in Account /\ balanceOf[op] \in Nat
  BY TokenAssumption DEF Account, TokenTypeOK, Amount
<1>2. CASE UNCHANGED tokenVars
  BY <1>1, <1>2 DEF tokenVars
<1>3. ASSUME NEW amount \in TokenAmount, NEW holder \in Payer, NEW spender \in Spender,
             Approve(holder, spender, amount)
      PROVE  /\ \A s \in Spender : allowance'[op][s] = 0
             /\ balanceOf[op] <= balanceOf'[op]
  <2>1. holder # op
    OBVIOUS
  <2> QED
    BY <1>1, <1>3, <2>1 DEF Approve, TokenTypeOK
<1>4. ASSUME NEW amount \in TokenAmount, NEW spender \in Spender \ {Registry},
             NEW from \in Account, NEW to \in OrZero(Account),
             TransferFrom(spender, from, to, amount)
      PROVE  /\ \A s \in Spender : allowance'[op][s] = 0
             /\ balanceOf[op] <= balanceOf'[op]
  BY <1>1, <1>4, TransferKeeps, TokenAssumption
<1>5. ASSUME NEW amount \in TokenAmount, NEW recipient \in OrZero(Payer), Mint(recipient, amount)
      PROVE  /\ \A s \in Spender : allowance'[op][s] = 0
             /\ balanceOf[op] <= balanceOf'[op]
  <2>1. balanceOf'[op] = balanceOf[op] \/ balanceOf'[op] = balanceOf[op] + amount
    BY <1>1, <1>5 DEF Mint, TokenTypeOK
  <2>2. amount \in Nat
    BY TokenAssumption DEF Amount
  <2> QED
    BY <1>1, <1>5, <2>1, <2>2 DEF Mint
<1> QED
  BY <1>2, <1>3, <1>4, <1>5 DEF OtherTokens, TokenNext

(***************************************************************************)
(* A transaction more: the income grows by a payment's amount, or not at   *)
(* all.                                                                    *)
(***************************************************************************)
LEMMA MinedIncome ==
  ASSUME RegistryTypeOK, RegistryTypeOK', NEW tx \in Transaction, Mine(tx), NEW op
  PROVE  /\ RegistryLogs(tx) = {} => Earned(op)' = Earned(op)
         /\ \A log : tx.logs = <<log>> /\ log.address = Registry =>
              Earned(op)' = IF log.beneficiary = op THEN log.amount + Earned(op) ELSE Earned(op)
<1> DEFINE f == [i \in DOMAIN transactions |-> Payment(i).amount]
           h == f'
<1>1. PICK n : /\ n \notin DOMAIN transactions
               /\ DOMAIN transactions' = DOMAIN transactions \cup {n}
               /\ transactions'[n] = tx
               /\ \A i \in DOMAIN transactions : transactions'[i] = transactions[i]
  BY MineAppends
<1>2. /\ Income(op) \subseteq Income(op)' /\ Income(op)' \ {n} = Income(op)
      /\ n \notin Income(op)
  BY <1>1 DEF Income, Payment
<1>3. \A i \in Income(op) : f[i] = h[i]
  BY <1>1 DEF Income, Payment
<1>4. SumFunctionOnSet(f, Income(op)) = SumFunctionOnSet(h, Income(op))
  <2> HIDE DEF h, f
  <2>1. IsFiniteSet(Income(op)) /\ Numbers(f, Income(op))
    BY IncomeType DEF f
  <2> QED
    BY <1>3, <2>1, SumSame
<1>5. CASE n \notin Income(op)'
  <2>1. Earned(op)' = Earned(op)
    BY <1>2, <1>4, <1>5 DEF Earned
  <2>2. ASSUME NEW log, tx.logs = <<log>>, log.address = Registry
        PROVE  log.beneficiary # op
    BY <1>1, <1>5, <2>2 DEF Income, Payment, RegistryLogs
  <2> QED
    BY <2>1, <2>2
<1>6. CASE n \in Income(op)'
  <2>1. IsFiniteSet(Income(op)') /\ Numbers(h, Income(op)')
    <3>1. Income(op)' = Income(op) \cup {n}
      BY <1>2, <1>6
    <3>2. IsFiniteSet(Income(op)) /\ Numbers(f, Income(op))
      BY IncomeType
    <3>3. Payment(n)' \in UsagePaid
      BY <1>1, <1>6 DEF Income, Payment, Transaction, RegistryLogs
    <3>4. h[n] \in Nat
      BY <1>1, <3>3, TokenAssumption DEF UsagePaid, Amount
    <3>5. Numbers(h, Income(op)')
      <4> HIDE DEF f, h
      <4> QED
        BY <1>3, <3>1, <3>2, <3>4 DEF Numbers
    <3> QED
      BY <3>1, <3>2, <3>5, FS_AddElement
  <2>2. SumFunctionOnSet(h, Income(op)') = h[n] + SumFunctionOnSet(h, Income(op)' \ {n})
    <3> HIDE DEF h
    <3> QED
      BY <1>6, <2>1, SumRemove
  <2>3. h[n] = Payment(n)'.amount
    BY <1>1
  <2>4. Earned(op)' = Payment(n)'.amount + Earned(op)
    BY <1>2, <1>4, <2>2, <2>3 DEF Earned
  <2> QED
    BY <1>1, <1>6, <2>4 DEF Income, Payment
<1> QED
  BY <1>5, <1>6

LEMMA IncomeStep ==
  ASSUME SettlementInv, SettlementInv', RegistryNext, NEW op \in Operator \ Payer,
         IncomeKept(op)
  PROVE  IncomeKept(op)'
<1> USE DEF SettlementInv, SepoliaInv, IncomeKept
<1>1. /\ op \in Account /\ RegistryTypeOK /\ RegistryTypeOK'
      /\ TokenTypeOK /\ TokenTypeOK'
  BY DEF Account
<1>2. balanceOf[op] \in Nat /\ balanceOf'[op] \in Nat /\ Earned(op) \in Nat
  <2>1. Earned(op) \in Nat
    BY <1>1, IncomeType
  <2> QED
    BY <1>1, <2>1, TokenAssumption DEF TokenTypeOK, Amount
<1>3. CASE Quiet
  <2>1. Earned(op)' = Earned(op)
    BY <1>3 DEF Quiet, Earned, Income, Payment, RegistryLogs
  <2> QED
    BY <1>1, <1>2, <1>3, <2>1, TokensKept DEF Quiet
<1>4. CASE Unrelated
  <2>1. PICK tx \in Transaction : Mine(tx) /\ RegistryLogs(tx) = {} /\ UNCHANGED tokenVars
    BY <1>4 DEF Unrelated, RegistryLogs
  <2>2. Earned(op)' = Earned(op)
    BY <1>1, <2>1, MinedIncome
  <2> QED
    BY <2>1, <2>2 DEF tokenVars
<1>5. CASE FreshPayment
  <2>1. PICK tx, log : Paid(tx, log) /\ Charges(log) /\ Mine(tx)
    BY <1>5 DEF FreshPayment
  <2>2. /\ tx \in Transaction /\ tx.logs = <<log>> /\ log.address = Registry
        /\ log \in UsagePaid /\ log.beneficiary \in OrZero(Account) /\ log.amount \in Amount
    BY <2>1 DEF Paid, UsagePaid, OrZero
  <2>3. /\ log.payer \in Account /\ log.payer # op
        /\ TransferFrom(Registry, log.payer, log.beneficiary, log.amount)
    BY <2>1 DEF Charges, Payer, Account
  <2>4. /\ \A s \in Spender : allowance'[op][s] = 0
        /\ balanceOf[op] <= balanceOf'[op]
        /\ log.beneficiary = op => balanceOf'[op] = balanceOf[op] + log.amount
    BY <1>1, <2>2, <2>3, TransferKeeps, TokenAssumption
  <2>5. Earned(op)' = IF log.beneficiary = op THEN log.amount + Earned(op) ELSE Earned(op)
    BY <1>1, <2>1, <2>2, MinedIncome
  <2>6. log.amount \in Nat
    BY <2>2, TokenAssumption DEF Amount
  <2> QED
    BY <1>2, <2>4, <2>5, <2>6
<1> QED
  BY <1>3, <1>4, <1>5, SepoliaEffect

LEMMA RevenueStep == RevenueInv /\ [Next]_vars => RevenueInv'
<1> SUFFICES ASSUME RevenueInv, [Next]_vars, NEW op \in Operator \ Payer
             PROVE  IncomeKept(op)'
  BY AccessStep DEF RevenueInv
<1>1. SettlementInv /\ SettlementInv' /\ IncomeKept(op)
  BY AccessStep DEF RevenueInv, AccessInv
<1>2. CASE SepoliaStep
  BY <1>1, <1>2, IncomeStep DEF SepoliaStep
<1>3. CASE UNCHANGED sepoliaVars
  BY <1>1, <1>3 DEF IncomeKept, Earned, Income, Payment, RegistryLogs, sepoliaVars, tokenVars
<1> QED
  BY <1>2, <1>3 DEF Next, CreditcoinStep, vars

LEMMA RevenueInit == Init => RevenueInv
<1> SUFFICES ASSUME Init, NEW op \in Operator \ Payer PROVE IncomeKept(op)
  BY AccessInit DEF RevenueInv
<1>1. Income(op) = {}
  BY DEF Init, RegistryInit, Income
<1>2. Earned(op) = 0
  BY <1>1, SumEmpty DEF Earned
<1>3. op \in Account
  BY DEF Account
<1> QED
  BY <1>2, <1>3 DEF Init, TokenInit, IncomeKept

(***************************************************************************)
(* What was redeemed for an operator's machines was paid to that operator. *)
(***************************************************************************)
LEMMA RevenueIsEarned ==
  ASSUME AccessInv, NEW op
  PROVE  Revenue(op) \in Nat /\ Revenue(op) <= Earned(op)
<1> DEFINE f == [i \in DOMAIN transactions |-> Payment(i).amount]
           h == [i \in Redeemed |-> Payment(i).amount]
           redeemed == {i \in Redeemed : machines[Payment(i).machineId].owner = op}
<1>1. RegistryTypeOK /\ RedeemedWerePaid
  BY DEF AccessInv, SettlementInv, SepoliaInv, RedemptionInv
<1>2. redeemed \subseteq Income(op)
  BY <1>1, PaymentType DEF RedeemedWerePaid, Income
<1>3. /\ IsFiniteSet(Income(op)) /\ Numbers(f, Income(op))
  BY <1>1, IncomeType
<1>4. \A i \in redeemed : h[i] = f[i]
  BY DEF Redeemed
<1>5. IsFiniteSet(redeemed) /\ Numbers(f, redeemed) /\ Numbers(h, redeemed)
  <2>1. IsFiniteSet(redeemed) /\ Numbers(f, redeemed)
    BY <1>2, <1>3, FS_Subset DEF Numbers
  <2> QED
    BY <1>4, <2>1 DEF Numbers
<1> HIDE DEF f, h, redeemed
<1>6. SumFunctionOnSet(h, redeemed) = SumFunctionOnSet(f, redeemed)
  BY <1>4, <1>5, SumSame
<1>7. /\ SumFunctionOnSet(f, redeemed) \in Nat
      /\ SumFunctionOnSet(f, redeemed) <= SumFunctionOnSet(f, Income(op))
  BY <1>2, <1>3, SumGrows
<1> QED
  BY <1>6, <1>7 DEF Earned, Revenue, f, h, redeemed

(***************************************************************************)
(* Nobody can be let into a machine for money its owner does not have: an  *)
(* owner who has spent nothing holds the amounts of all payments ever      *)
(* redeemed for its machines, for any number of payments.                  *)
(***************************************************************************)
THEOREM AccessIsCovered == Spec => []OwnersHoldTheRevenue
<1>1. RevenueInv => OwnersHoldTheRevenue
  <2> SUFFICES ASSUME RevenueInv, NEW op \in Operator \ Payer
               PROVE  balanceOf[op] >= Revenue(op)
    BY DEF OwnersHoldTheRevenue
  <2>1. Revenue(op) \in Nat /\ Revenue(op) <= Earned(op)
    BY RevenueIsEarned DEF RevenueInv
  <2>2. RegistryTypeOK /\ TokenTypeOK
    BY DEF RevenueInv, AccessInv, SettlementInv, SepoliaInv
  <2>3. Earned(op) \in Nat /\ Earned(op) <= balanceOf[op]
    BY <2>2, IncomeType DEF RevenueInv, IncomeKept
  <2>4. balanceOf[op] \in Nat
    BY <2>2, TokenAssumption DEF TokenTypeOK, Amount, Account
  <2> QED
    BY <2>1, <2>3, <2>4
<1> QED
  BY <1>1, RevenueInit, RevenueStep, PTL DEF Spec

-----------------------------------------------------------------------------
(***************************************************************************)
(* Refinement: a payment maps to Buy, an accepted proof to Redeem, a block *)
(* of Creditcoin to TimePasses, and everything else to a stutter.          *)
(***************************************************************************)
Bought == {WindowOf(Payment(i)) : i \in Payments}

LEMMA WindowType ==
  ASSUME RegistryTypeOK, NEW i \in Payments
  PROVE  WindowOf(Payment(i)) \in Promise!Window
<1>1. Payment(i) \in UsagePaid /\ Payment(i).payer \in Account
  BY PaymentType
<1> QED
  BY <1>1, BoundsAreNat
     DEF WindowOf, Promise!Window, UsagePaid, ExpiresAt, Timestamp, Duration

(***************************************************************************)
(* Mining buys at most one window, under an order nobody had.              *)
(***************************************************************************)
LEMMA MiningBuys ==
  ASSUME AccessInv, AccessInv', NEW tx \in Transaction, Mine(tx), UNCHANGED creditcoinVars
  PROVE  UNCHANGED Bought \/ \E w \in Bought' \ Bought : Promise!Buy(w)
<1>0. RegistryTypeOK /\ RegistryTypeOK' /\ OnePaymentPerOrder'
  BY DEF AccessInv, SettlementInv, SepoliaInv
<1>1. PICK n : /\ n \notin DOMAIN transactions
               /\ DOMAIN transactions' = DOMAIN transactions \cup {n}
               /\ transactions'[n] = tx
               /\ \A i \in DOMAIN transactions : transactions'[i] = transactions[i]
  BY <1>0, MineAppends
<1>2. /\ \A i \in DOMAIN transactions : Payment(i)' = Payment(i)
      /\ Payments \subseteq Payments'
      /\ Payments' \subseteq Payments \cup {n}
  BY <1>1 DEF Payment, Payments
<1>3. Payments \subseteq DOMAIN transactions
  BY DEF Payments
<1>4. CASE n \notin Payments'
  BY <1>2, <1>3, <1>4 DEF Bought, WindowOf, ExpiresAt
<1>5. CASE n \in Payments'
  <2> DEFINE w == WindowOf(Payment(n)')
  <2>0. PICK l \in UsagePaid :
          tx.logs = <<l>> /\ Payment(n)' = l /\ l \in RegistryLogs(tx) /\ l.payer = tx.from
    <3>1. PICK log \in RegistryLogs(tx) : log.payer = tx.from
      BY <1>1, <1>5 DEF Payments
    <3>2. PICK l \in UsagePaid : tx.logs = <<l>>
      BY <3>1 DEF Transaction, RegistryLogs
    <3> QED
      BY <1>1, <3>1, <3>2 DEF Payment, RegistryLogs
  <2>1. Bought' = Bought \cup {w}
    BY <1>2, <1>3, <1>5 DEF Bought, WindowOf, ExpiresAt
  <2>2. \A i \in Payments : Payment(i).orderId # Payment(n)'.orderId
    <3> SUFFICES ASSUME NEW i \in Payments, Payment(i).orderId = Payment(n)'.orderId
                 PROVE  FALSE
      OBVIOUS
    <3>1. i \in DOMAIN transactions' /\ n \in DOMAIN transactions' /\ i # n
      BY <1>1, <1>3
    <3>2. Payment(i)' \in RegistryLogs(transactions'[i])
      BY <1>0, <1>2, <1>1, <1>3, PaymentType
    <3>3. Payment(n)' \in RegistryLogs(transactions'[n])
      BY <1>1, <2>0
    <3> QED
      BY <1>0, <1>2, <1>3, <3>1, <3>2, <3>3 DEF OnePaymentPerOrder
  <2>3. w \in Promise!Window
    <3>1. Payment(n)' \in UsagePaid /\ Payment(n)'.payer \in Account
      BY <2>0 DEF Transaction
    <3> QED
      BY <3>1, BoundsAreNat
         DEF WindowOf, Promise!Window, UsagePaid, ExpiresAt, Timestamp, Duration
  <2>4. \A other \in Bought : other.orderId # w.orderId
    BY <2>2 DEF Bought, WindowOf
  <2>5. Promise!Buy(w)
    BY <2>1, <2>3, <2>4 DEF Promise!Buy, Bought, creditcoinVars, passVars, ascVars
  <2> QED
    BY <2>1, <2>4, <2>5
<1> QED
  BY <1>4, <1>5

(***************************************************************************)
(* An accepted proof redeems the window its payment bought.                *)
(***************************************************************************)
LEMMA ExecuteRedeems ==
  ASSUME AccessInv, NEW i \in 1 .. MaxTransactions, Redeems(i), UNCHANGED sepoliaVars
  PROVE  \E w \in Bought : Promise!Redeem(w)
<1> DEFINE w == WindowOf(Payment(i))
<1>1. w \in Bought
  BY DEF Redeems, Bought
<1>2. Bought' = Bought
  BY DEF Bought, Payments, Payment, WindowOf, ExpiresAt, sepoliaVars
<1>3. Promise!Redeem(w)
  BY <1>1, <1>2 DEF Promise!Redeem, WindowOf, Redeems, LiveWindow, Bought
<1> QED
  BY <1>1, <1>3

LEMMA StepRefines ==
  ASSUME AccessInv, AccessInv', [Next]_vars
  PROVE  [Promise!PromiseNext]_<<Bought, processedOrders, accessCredentials, creditcoinTime>>
<1> DEFINE promised == <<Bought, processedOrders, accessCredentials, creditcoinTime>>
<1>1. CASE SepoliaStep
  <2>1. UNCHANGED creditcoinVars /\ RegistryNext
    BY <1>1 DEF SepoliaStep
  <2>2. UNCHANGED <<processedOrders, accessCredentials, creditcoinTime>>
    BY <2>1 DEF creditcoinVars, passVars, ascVars
  <2>3. CASE Quiet
    <3>1. UNCHANGED Bought
      BY <2>3 DEF Quiet, Bought, Payments, Payment, WindowOf, ExpiresAt
    <3> QED
      BY <2>2, <3>1
  <2>4. ASSUME NEW tx \in Transaction, Mine(tx)
        PROVE  [Promise!PromiseNext]_promised
    BY <2>1, <2>2, <2>4, MiningBuys DEF Promise!PromiseNext, Bought
  <2> QED
    BY <2>1, <2>3, <2>4, SepoliaEffect
       DEF Unrelated, FreshPayment, Paid, AccessInv, SettlementInv
<1>2. CASE Idle /\ UNCHANGED sepoliaVars
  <2>1. UNCHANGED Bought
    BY <1>2 DEF sepoliaVars, Bought, Payments, Payment, WindowOf, ExpiresAt
  <2> QED
    BY <1>2, <2>1 DEF Idle, Promise!PromiseNext, Promise!TimePasses, Bought
<1>3. CASE UNCHANGED vars
  BY <1>3 DEF vars, sepoliaVars, creditcoinVars, passVars, ascVars, Bought, Payments,
              Payment, WindowOf, ExpiresAt
<1>4. CASE \E i \in 1 .. MaxTransactions : Redeems(i) /\ UNCHANGED sepoliaVars
  BY <1>4, ExecuteRedeems DEF Promise!PromiseNext, Bought
<1> QED
  BY <1>1, <1>2, <1>3, <1>4, StepEffect

(***************************************************************************)
(* For every number of accounts, machines and payments, both chains with   *)
(* their contracts keep the promise of Entitlement.                        *)
(***************************************************************************)
THEOREM KeepsThePromise == Spec => ImplementsEntitlement
<1>1. Init => Promise!PromiseInit
  BY DEF Init, RegistryInit, PassInit, AscInit, Promise!PromiseInit, Payments, NoCredential
<1>2. AccessInv /\ AccessInv' /\ [Next]_vars => [Promise!PromiseNext]_(Promise!promiseVars)
  BY StepRefines DEF Promise!promiseVars, Bought
<1> QED
  BY <1>1, <1>2, AccessAlways, PTL DEF Spec, ImplementsEntitlement, Promise!PromiseSpec
=============================================================================
