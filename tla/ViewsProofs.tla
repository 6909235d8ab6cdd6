----------------------------- MODULE ViewsProofs -----------------------------
(***************************************************************************)
(* What the views of a customer's rentals say is true, for any nonces,     *)
(* durations, policies and clocks: answers of different moments are joined *)
(* only in an order that keeps the conclusion sound.                       *)
(***************************************************************************)
EXTENDS RentalViews, TLAPS

-----------------------------------------------------------------------------
(* The chains, as the views rely on them.                                  *)

LogOf(i) == transactions[i].logs[1]

RentalLog ==
  [address : {Registry}, orderId : {OrderOf(n) : n \in Nonce}, machineId : {RentedMachine},
   payer : {Customer}, beneficiary : Operator, startTime : Nat,
   duration : 1 .. MaxDuration, amount : Amount]
RentalTransaction ==
  [from : {Customer}, to : {Registry}, status : {1}, logs : Seq(RentalLog)]

\* Every transaction pays an order of its own.
HistoryOK ==
  /\ sepoliaTime \in Nat /\ creditcoinTime \in Nat
  /\ machineOffers \in [OrZero(Machine) -> Offer]
  /\ transactions \in Seq(RentalTransaction)
  /\ \A i \in DOMAIN transactions : Len(transactions[i].logs) = 1
  /\ \A i, j \in DOMAIN transactions : LogOf(i).orderId = LogOf(j).orderId => i = j
  /\ paidOrders = {LogOf(i).orderId : i \in DOMAIN transactions}

\* A redeemed order is the credential's, or a longer one has superseded it.
RedemptionOK ==
  /\ accessCredentials \in
       [Machine -> [Account -> [authorizationId : OrZero(Order), expiresAt : Nat]]]
  /\ processedOrders \subseteq paidOrders
  /\ Credential.authorizationId \in OrZero(processedOrders)
  /\ \A i \in DOMAIN transactions :
       /\ LogOf(i).orderId \in processedOrders => QueryId(SepoliaChainKey, i) \in processedQueries
       /\ Credential.authorizationId = LogOf(i).orderId =>
            Credential.expiresAt = ExpiresAt(LogOf(i))
       /\ LogOf(i).orderId \in processedOrders =>
            \/ Credential.authorizationId = LogOf(i).orderId
            \/ Credential.expiresAt > ExpiresAt(LogOf(i))

\* On the proof page's chains the customer is who is paid.
PolicyOK ==
  open = "proof" =>
    /\ MachinesTypeOK /\ machines[RentedMachine].owner = Customer
    /\ machineOffers[RentedMachine].beneficiary = Customer
    /\ \A i \in DOMAIN transactions : LogOf(i).beneficiary = Customer

JobOK == job = "completed" => Processed(Viewed)

ChainsInv == HistoryOK /\ RedemptionOK /\ PolicyOK /\ JobOK

-----------------------------------------------------------------------------
(* The views.                                                              *)

WindowOf(n) == ExpiresAt(PaymentOf(n))
Outlived(n) == Credential.expiresAt > WindowOf(n)

LoadOK ==
  /\ load = [listed |-> load.listed, block |-> load.block, job |-> load.job,
             processed |-> load.processed, pass |-> load.pass]
  /\ IsListed => Paid(Viewed)
  /\ load.block # <<>> =>
       /\ load.block[1].timestamp \in Nat /\ load.block[1].timestamp <= creditcoinTime
       /\ load.block[1].activated => Processed(Viewed)
  /\ load.processed # <<>> \/ load.pass # <<>> => IsListed /\ load.block # <<>>
  /\ load.processed # <<>> =>
       /\ load.processed[1] => Processed(Viewed)
       /\ ~load.processed[1] /\ WindowOf(Viewed) <= load.block[1].timestamp => ~Processed(Viewed)
  /\ load.pass # <<>> =>
       (load.block[1].activated /\ load.pass[1].credential.authorizationId # OrderOf(Viewed)
          => Outlived(Viewed))

ShownOK ==
  /\ shown = "Payment window expired before access" =>
       Paid(Viewed) /\ ~Processed(Viewed) /\ WindowOf(Viewed) <= creditcoinTime
  /\ shown = "Access superseded" => Processed(Viewed) /\ Outlived(Viewed)

ActivityInv == LoadOK /\ ShownOK

LookupOK ==
  /\ lookup = [evidence |-> lookup.evidence, source |-> lookup.source,
               machine |-> lookup.machine, processed |-> lookup.processed,
               credential |-> lookup.credential]
  /\ lookup.source = <<TRUE>> => Paid(Viewed)
  /\ lookup.machine # <<>> => lookup.machine[1].owner = Customer
  /\ lookup.processed # <<>> \/ lookup.credential # <<>> => lookup.evidence # <<>>
  /\ lookup.evidence # <<>> /\ lookup.evidence[1] = "completed" =>
       /\ Processed(Viewed)
       /\ lookup.processed # <<>> => lookup.processed[1]
       /\ lookup.credential # <<>> =>
            lookup.credential[1].expiresAt = WindowOf(Viewed) \/ Outlived(Viewed)

VerdictOK ==
  verdict.phase = "completed" =>
       /\ Processed(Viewed)
       /\ verdict.failed \subseteq {"expiry", "machine_active", "tariff"}
       /\ "expiry" \in verdict.failed => Outlived(Viewed)

ExplorerInv == LookupOK /\ VerdictOK

\* A credential that was this payment's ends when its window does.
Own(credential, n) ==
  credential.authorizationId = OrderOf(n) => credential.expiresAt = WindowOf(n)

Redeeming == {"prove", "credential", "authorized", "fixture", "evidence"}

RunOK ==
  /\ run = [at |-> run.at, plan |-> run.plan, source |-> run.source,
            credential |-> run.credential]
  /\ run.at \in Redeeming => run.source \in Nonce /\ Paid(run.source)
  /\ run.at \in Redeeming \ {"prove"} => Processed(run.source)
  /\ run.at \in {"authorized", "fixture", "evidence"} => Own(run.credential, run.source)
  /\ run.at \in {"fixture", "evidence"} =>
       run.credential.authorizationId = OrderOf(run.source)

EvidenceOK ==
  evidence # <<>> =>
       /\ evidence[1].source \in Nonce
       /\ Paid(evidence[1].source) /\ Processed(evidence[1].source)
       /\ evidence[1].orderId = OrderOf(evidence[1].source)
       /\ evidence[1].authorization.authorizationId = evidence[1].orderId
       /\ Own(evidence[1].authorization, evidence[1].source)

LiveInv == RunOK /\ EvidenceOK

ViewsInv == ChainsInv /\ ActivityInv /\ ExplorerInv /\ LiveInv

-----------------------------------------------------------------------------
(* Payments are found by their order, and stay where they are.             *)

LEMMA OneLog ==
  ASSUME HistoryOK, NEW i \in DOMAIN transactions
  PROVE  /\ transactions[i] \in RentalTransaction /\ LogOf(i) \in RentalLog
         /\ RegistryLogs(transactions[i]) = {LogOf(i)}
<1>1. transactions[i] \in RentalTransaction /\ Len(transactions[i].logs) = 1
  BY DEF HistoryOK
<1>2. /\ transactions[i].logs \in Seq(RentalLog) /\ DOMAIN transactions[i].logs = {1}
  BY <1>1 DEF RentalTransaction
<1>3. LogOf(i) \in RentalLog
  BY <1>2 DEF LogOf
<1>4. LogOf(i).address = Registry
  BY <1>3 DEF RentalLog
<1> QED
  BY <1>1, <1>2, <1>3, <1>4 DEF RegistryLogs, LogOf

LEMMA PaymentFound ==
  ASSUME HistoryOK, NEW n \in Nonce, Paid(n)
  PROVE  /\ SourceOf(n) \in DOMAIN transactions /\ PaymentOf(n) = LogOf(SourceOf(n))
         /\ PaymentOf(n).orderId = OrderOf(n) /\ PaymentOf(n) \in RentalLog
         /\ WindowOf(n) \in Nat
<1>1. \E i \in DOMAIN transactions : LogOf(i).orderId = OrderOf(n)
  BY DEF HistoryOK, Paid
<1>2. \A i \in DOMAIN transactions :
        (\E log \in RegistryLogs(transactions[i]) : log.orderId = OrderOf(n))
          <=> LogOf(i).orderId = OrderOf(n)
  BY OneLog
<1>3. /\ SourceOf(n) \in DOMAIN transactions
      /\ \E log \in RegistryLogs(transactions[SourceOf(n)]) : log.orderId = OrderOf(n)
  BY <1>1, <1>2 DEF SourceOf
<1>4. PaymentOf(n) = LogOf(SourceOf(n))
  BY DEF PaymentOf, LogOf
<1>5. PaymentOf(n) \in RentalLog
  BY <1>3, <1>4, OneLog
<1> QED
  BY <1>2, <1>3, <1>4, <1>5, RentalsAssumption DEF WindowOf, ExpiresAt, RentalLog

\* What a step of anybody leaves true of the past.
Later ==
  /\ creditcoinTime <= creditcoinTime'
  /\ Credential.expiresAt <= Credential'.expiresAt
  /\ \A n \in Nonce : Paid(n) => Paid(n)' /\ PaymentOf(n)' = PaymentOf(n)
  /\ \A n \in Nonce : Processed(n) => Processed(n)'
  /\ \A n \in Nonce : Paid(n) /\ ~Processed(n) /\ Processed(n)' =>
       WindowOf(n) > creditcoinTime'

Settled == HistoryOK /\ RedemptionOK /\ PolicyOK

LEMMA CustomerHasPass ==
  ASSUME RedemptionOK
  PROVE  /\ RentedMachine \in Machine /\ Customer \in Account
         /\ Credential \in [authorizationId : OrZero(Order), expiresAt : Nat]
BY RentalsAssumption DEF RedemptionOK, Credential, Account

\* The recorded transactions stay, and none is moved.
LEMMA PaymentsStay ==
  ASSUME HistoryOK, HistoryOK',
         \A i \in DOMAIN transactions :
           i \in DOMAIN transactions' /\ transactions'[i] = transactions[i]
  PROVE  \A n \in Nonce : Paid(n) => Paid(n)' /\ PaymentOf(n)' = PaymentOf(n)
<1> SUFFICES ASSUME NEW n \in Nonce, Paid(n)
             PROVE  Paid(n)' /\ PaymentOf(n)' = PaymentOf(n)
  OBVIOUS
<1>1. PICK i \in DOMAIN transactions : i = SourceOf(n) /\ LogOf(i).orderId = OrderOf(n)
  BY PaymentFound
<1>2. PaymentOf(n) = LogOf(i)
  BY <1>1, PaymentFound
<1>3. i \in DOMAIN transactions' /\ LogOf(i)' = LogOf(i)
  BY <1>1 DEF LogOf
<1>4. Paid(n)'
  BY <1>1, <1>3 DEF HistoryOK, Paid, OrderOf
<1>5. PICK j : j = SourceOf(n)'
  OBVIOUS
<1>6. j \in DOMAIN transactions' /\ PaymentOf(n)' = LogOf(j)' /\ LogOf(j)'.orderId = OrderOf(n)
  <2>1. (SourceOf(n) \in DOMAIN transactions /\ PaymentOf(n) = LogOf(SourceOf(n))
           /\ PaymentOf(n).orderId = OrderOf(n))'
    BY <1>4, PaymentFound, PTL
  <2> QED
    BY <1>5, <2>1 DEF LogOf, OrderOf
<1>7. j = i
  BY <1>1, <1>3, <1>6 DEF HistoryOK
<1> QED
  BY <1>2, <1>3, <1>4, <1>6, <1>7

\* No payment, redemption or policy change; time may pass.
LEMMA NothingSettles ==
  ASSUME Settled, UNCHANGED <<transactions, paidOrders, accessCredentials, processedQueries,
                              processedOrders, sepoliaTime, open>>,
         creditcoinTime' \in Nat, creditcoinTime <= creditcoinTime',
         machineOffers' \in [OrZero(Machine) -> Offer],
         open = "proof" => /\ machineOffers' = machineOffers
                           /\ MachinesTypeOK' /\ machines'[RentedMachine].owner = Customer
  PROVE  Settled' /\ Later
<1>1. HistoryOK'
  BY DEF Settled, HistoryOK, LogOf
<1>2. RedemptionOK'
  BY DEF Settled, RedemptionOK, LogOf, Credential
<1>3. PolicyOK'
  BY DEF Settled, PolicyOK, LogOf
<1>4. \A n \in Nonce : Paid(n) => Paid(n)' /\ PaymentOf(n)' = PaymentOf(n)
  BY <1>1, PaymentsStay DEF Settled
<1>5. \A n \in Nonce : Processed(n)' = Processed(n)
  BY DEF Processed
<1>6. Credential.expiresAt \in Nat /\ Credential' = Credential
  BY CustomerHasPass DEF Settled, Credential
<1> QED
  BY <1>1, <1>2, <1>3, <1>4, <1>5, <1>6 DEF Settled, Later

LEMMA PaySettles ==
  ASSUME Settled, NEW n \in Nonce, NEW duration \in 1 .. MaxDuration,
         Pay(n, duration), UNCHANGED open
  PROVE  Settled' /\ Later
<1>0. PICK offer, log, tx, k :
        /\ offer = machineOffers[RentedMachine]
        /\ log = [address |-> Registry, orderId |-> OrderOf(n), machineId |-> RentedMachine,
                  payer |-> Customer, beneficiary |-> offer.beneficiary,
                  startTime |-> sepoliaTime, duration |-> duration,
                  amount |-> offer.pricePerSecond * duration]
        /\ tx = [from |-> Customer, to |-> Registry, status |-> 1, logs |-> <<log>>]
        /\ k = Len(transactions) + 1
  OBVIOUS
<1>1. PayForUsage(Customer, Customer, RentedMachine, duration, n) /\ ~Paid(n)
      /\ UNCHANGED creditcoinVars
  BY DEF Pay
<1>2. /\ transactions' = Append(transactions, tx)
      /\ paidOrders' = paidOrders \cup {OrderOf(n)}
      /\ UNCHANGED <<owner, machineOffers, sepoliaTime>>
      /\ offer.beneficiary # Zero
  BY <1>0, <1>1 DEF PayForUsage, Mine, FlagOrder, OrderOf, TransferFrom
<1>3. offer \in Offer
  BY <1>0, RentalsAssumption DEF Settled, HistoryOK, OrZero
<1>4. offer.beneficiary \in Operator /\ offer.pricePerSecond * duration \in Amount
  BY <1>2, <1>3, TokenAssumption, RentalsAssumption DEF Offer, OrZero
<1>5. log \in RentalLog
  BY <1>0, <1>4 DEF RentalLog, Settled, HistoryOK
<1>6. log.orderId = OrderOf(n) /\ log.beneficiary = offer.beneficiary
  BY <1>0
<1>7. /\ tx \in RentalTransaction /\ Len(tx.logs) = 1 /\ tx.logs[1] = log
  BY <1>0, <1>5 DEF RentalTransaction
<1>8. transactions \in Seq(RentalTransaction)
  BY DEF Settled, HistoryOK
<1>9. /\ transactions' \in Seq(RentalTransaction) /\ DOMAIN transactions' = DOMAIN transactions \cup {k}
      /\ k \notin DOMAIN transactions /\ transactions'[k] = tx
      /\ \A i \in DOMAIN transactions : transactions'[i] = transactions[i]
  BY <1>0, <1>2, <1>7, <1>8
<1>10. /\ LogOf(k)' = log /\ \A i \in DOMAIN transactions : LogOf(i)' = LogOf(i)
  BY <1>7, <1>9 DEF LogOf
<1>11. \A i \in DOMAIN transactions : LogOf(i).orderId # OrderOf(n)
  BY <1>1 DEF Settled, HistoryOK, Paid
<1>12. HistoryOK'
  <2>1. \A i, j \in DOMAIN transactions' : LogOf(i)'.orderId = LogOf(j)'.orderId => i = j
    BY <1>6, <1>9, <1>10, <1>11 DEF Settled, HistoryOK
  <2>2. paidOrders' = {LogOf(i)'.orderId : i \in DOMAIN transactions'}
    BY <1>2, <1>6, <1>9, <1>10 DEF Settled, HistoryOK
  <2>3. \A i \in DOMAIN transactions' : Len(transactions'[i].logs) = 1
    BY <1>7, <1>9 DEF Settled, HistoryOK
  <2>4. UNCHANGED <<sepoliaTime, creditcoinTime, machineOffers>>
    BY <1>1, <1>2 DEF creditcoinVars
  <2> QED
    BY <1>9, <2>1, <2>2, <2>3, <2>4 DEF Settled, HistoryOK
<1>13. UNCHANGED <<accessCredentials, processedQueries, processedOrders, creditcoinTime, machines>>
  BY <1>1 DEF creditcoinVars, passVars, ascVars
<1>14. RedemptionOK'
  <2>1. OrderOf(n) \notin processedOrders /\ OrderOf(n) # Zero
    BY <1>1, SepoliaAssumption, RentalsAssumption
    DEF Settled, RedemptionOK, Paid, OrderOf, OrderId, Order, Account
  <2>2. Credential' = Credential /\ Credential.authorizationId # OrderOf(n)
    BY <1>13, <2>1 DEF Settled, RedemptionOK, OrZero, Credential
  <2>3. \A i \in DOMAIN transactions' :
          /\ LogOf(i)'.orderId \in processedOrders =>
               QueryId(SepoliaChainKey, i) \in processedQueries
          /\ Credential.authorizationId = LogOf(i)'.orderId =>
               Credential.expiresAt = ExpiresAt(LogOf(i)')
          /\ LogOf(i)'.orderId \in processedOrders =>
               \/ Credential.authorizationId = LogOf(i)'.orderId
               \/ Credential.expiresAt > ExpiresAt(LogOf(i)')
    BY <1>6, <1>9, <1>10, <2>1, <2>2 DEF Settled, RedemptionOK
  <2>4. processedOrders \subseteq paidOrders' /\ Credential.authorizationId \in OrZero(processedOrders)
    BY <1>2 DEF Settled, RedemptionOK
  <2> QED
    BY <1>13, <2>2, <2>3, <2>4 DEF Settled, RedemptionOK, ExpiresAt, QueryId
<1>15. PolicyOK'
  BY <1>0, <1>2, <1>6, <1>9, <1>10, <1>13 DEF Settled, PolicyOK, MachinesTypeOK
<1>16. \A m \in Nonce : Paid(m) => Paid(m)' /\ PaymentOf(m)' = PaymentOf(m)
  BY <1>9, <1>12, PaymentsStay DEF Settled
<1>17. /\ \A m \in Nonce : Processed(m)' = Processed(m)
       /\ Credential' = Credential /\ Credential.expiresAt \in Nat /\ creditcoinTime \in Nat
  BY <1>13, CustomerHasPass DEF Processed, Credential, Settled, HistoryOK
<1> QED
  BY <1>12, <1>13, <1>14, <1>15, <1>16, <1>17 DEF Settled, Later

LEMMA RedeemSettles ==
  ASSUME Settled, NEW i \in DOMAIN transactions,
         Execute(AuthorizeAccessAction, SepoliaChainKey, i), UNCHANGED <<sepoliaVars, open>>
  PROVE  /\ Settled' /\ Later
         /\ processedOrders' = processedOrders \cup {LogOf(i).orderId}
<1>1. /\ LogOf(i) \in RentalLog
      /\ LogOf(i).machineId = RentedMachine /\ LogOf(i).payer = Customer
      /\ ExpiresAt(LogOf(i)) \in Nat
  BY OneLog, RentalsAssumption DEF Settled, RentalLog, ExpiresAt
<1>2. /\ LogOf(i).orderId \notin processedOrders
      /\ processedQueries' = processedQueries \cup {QueryId(SepoliaChainKey, i)}
      /\ processedOrders' = processedOrders \cup {LogOf(i).orderId}
      /\ ExpiresAt(LogOf(i)) > creditcoinTime
      /\ ExpiresAt(LogOf(i)) > Credential.expiresAt
      /\ accessCredentials' = [accessCredentials EXCEPT ![RentedMachine][Customer] =
           [authorizationId |-> LogOf(i).orderId, expiresAt |-> ExpiresAt(LogOf(i))]]
  BY <1>1 DEF Execute, ValidUsagePayment, LiveWindow, GrantAccess, Extends, LogOf, Credential
<1>3. /\ UNCHANGED <<machines, creditcoinTime, transactions, paidOrders, machineOffers, sepoliaTime>>
  BY DEF Execute, sepoliaVars, registryVars
<1>4. LogOf(i).orderId \in paidOrders /\ LogOf(i).orderId \in Order
  <2>1. LogOf(i).orderId \in paidOrders
    BY DEF Settled, HistoryOK
  <2>2. PICK n \in Nonce : LogOf(i).orderId = OrderOf(n)
    BY <1>1 DEF RentalLog
  <2> QED
    BY <2>1, <2>2, RentalsAssumption DEF OrderOf, OrderId, Order, Account
<1>5. Credential' = [authorizationId |-> LogOf(i).orderId, expiresAt |-> ExpiresAt(LogOf(i))]
  BY <1>2, CustomerHasPass DEF Settled, RedemptionOK, Credential
<1>6. HistoryOK'
  BY <1>3 DEF Settled, HistoryOK, LogOf
<1>7. RedemptionOK'
  <2> DEFINE Credentials == [authorizationId : OrZero(Order), expiresAt : Nat]
  <2>1. accessCredentials' \in [Machine -> [Account -> Credentials]]
    <3>1. [authorizationId |-> LogOf(i).orderId, expiresAt |-> ExpiresAt(LogOf(i))] \in Credentials
      BY <1>1, <1>4 DEF OrZero
    <3>2. accessCredentials \in [Machine -> [Account -> Credentials]]
      BY DEF Settled, RedemptionOK
    <3> HIDE DEF Credentials
    <3> QED
      BY <1>2, <3>1, <3>2
  <2>2. ASSUME NEW j \in DOMAIN transactions
        PROVE  /\ LogOf(j).orderId \in processedOrders' =>
                    QueryId(SepoliaChainKey, j) \in processedQueries'
               /\ Credential'.authorizationId = LogOf(j).orderId =>
                    Credential'.expiresAt = ExpiresAt(LogOf(j))
               /\ LogOf(j).orderId \in processedOrders' =>
                    \/ Credential'.authorizationId = LogOf(j).orderId
                    \/ Credential'.expiresAt > ExpiresAt(LogOf(j))
    <3>1. CASE j = i
      BY <1>2, <1>5, <3>1
    <3>2. CASE j # i
      <4>1. LogOf(j).orderId # LogOf(i).orderId
        BY <3>2 DEF Settled, HistoryOK
      <4>2. ExpiresAt(LogOf(j)) \in Nat /\ Credential.expiresAt \in Nat
        BY OneLog, CustomerHasPass, RentalsAssumption DEF Settled, RentalLog, ExpiresAt
      <4> QED
        BY <1>1, <1>2, <1>5, <4>1, <4>2 DEF Settled, RedemptionOK
    <3> QED
      BY <3>1, <3>2
  <2>3. processedOrders' \subseteq paidOrders /\ Credential'.authorizationId \in OrZero(processedOrders')
    BY <1>2, <1>4, <1>5 DEF Settled, RedemptionOK, OrZero
  <2> QED
    BY <1>3, <2>1, <2>2, <2>3 DEF RedemptionOK, LogOf, ExpiresAt, QueryId
<1>8. PolicyOK'
  BY <1>3 DEF Settled, PolicyOK, LogOf, MachinesTypeOK
<1>9. \A n \in Nonce : Paid(n) => Paid(n)' /\ PaymentOf(n)' = PaymentOf(n)
  BY <1>3, <1>6, PaymentsStay DEF Settled
<1>10. ASSUME NEW n \in Nonce, Paid(n), ~Processed(n), Processed(n)'
       PROVE  WindowOf(n) > creditcoinTime'
  <2>1. LogOf(i).orderId = OrderOf(n)
    BY <1>2, <1>10 DEF Processed, OrderOf
  <2>2. LogOf(SourceOf(n)).orderId = OrderOf(n) /\ SourceOf(n) \in DOMAIN transactions
        /\ PaymentOf(n) = LogOf(SourceOf(n))
    BY <1>10, PaymentFound DEF Settled
  <2>3. SourceOf(n) = i
    BY <2>1, <2>2 DEF Settled, HistoryOK
  <2> QED
    BY <1>2, <1>3, <2>2, <2>3 DEF WindowOf
<1>11. /\ \A n \in Nonce : Processed(n) => Processed(n)'
       /\ Credential.expiresAt <= Credential'.expiresAt /\ creditcoinTime <= creditcoinTime'
  BY <1>1, <1>2, <1>3, <1>5, CustomerHasPass DEF Processed, OrderOf, Settled, HistoryOK
<1> QED
  BY <1>2, <1>6, <1>7, <1>8, <1>9, <1>10, <1>11 DEF Settled, Later

-----------------------------------------------------------------------------
(* Every step of the composition is one of these, for the chains.          *)

LEMMA ChainsStay ==
  ASSUME ChainsInv, UNCHANGED <<Chains, open>>
  PROVE  Settled' /\ Later
<1>1. UNCHANGED <<transactions, paidOrders, accessCredentials, processedQueries, processedOrders,
                  sepoliaTime, creditcoinTime, machineOffers, machines, open>>
  BY DEF Chains, sepoliaVars, registryVars, creditcoinVars, passVars, ascVars
<1>2. creditcoinTime \in Nat /\ machineOffers \in [OrZero(Machine) -> Offer]
  BY DEF ChainsInv, HistoryOK
<1>3. open = "proof" => MachinesTypeOK /\ machines[RentedMachine].owner = Customer
  BY DEF ChainsInv, PolicyOK
<1> QED
  BY <1>1, <1>2, <1>3, NothingSettles DEF ChainsInv, Settled, MachinesTypeOK

LEMMA OthersSettle ==
  ASSUME ChainsInv, ChainsNext, UNCHANGED open
  PROVE  Settled' /\ Later /\ UNCHANGED job
<1>0. /\ creditcoinTime \in Nat /\ machineOffers \in [OrZero(Machine) -> Offer] /\ Settled
  BY DEF ChainsInv, HistoryOK, Settled
<1>1. ASSUME NEW n \in Nonce, NEW duration \in 1 .. MaxDuration, Pay(n, duration)
      PROVE  Settled' /\ Later /\ UNCHANGED job
  BY <1>0, <1>1, PaySettles DEF Pay, rentalVars
<1>2. CASE Redeem
  BY <1>0, <1>2, RedeemSettles DEF Redeem, rentalVars
<1>3. CASE OwnerChangesPolicy
  <2>1. UNCHANGED <<transactions, paidOrders, accessCredentials, processedQueries,
                    processedOrders, sepoliaTime, creditcoinTime, machineOffers, job>>
    BY <1>3 DEF OwnerChangesPolicy, sepoliaVars, registryVars, passVars, ascVars
  <2>2. ASSUME open = "proof"
        PROVE  MachinesTypeOK' /\ machines'[RentedMachine].owner = Customer
    <3>1. /\ machines \in [OrZero(Machine) -> MachineRecord]
          /\ machines[RentedMachine].owner = Customer
      BY <2>2 DEF ChainsInv, PolicyOK, MachinesTypeOK
    <3>2. RentedMachine \in OrZero(Machine)
      BY RentalsAssumption DEF OrZero
    <3>3. ASSUME NEW tariff \in Price, UpdateTariff(Customer, RentedMachine, tariff)
          PROVE  MachinesTypeOK' /\ machines'[RentedMachine].owner = Customer
      <4>1. machines' = [machines EXCEPT ![RentedMachine] =
                           [machines[RentedMachine] EXCEPT !.tariff = tariff]]
        BY <3>3 DEF UpdateTariff
      <4>2. /\ [machines[RentedMachine] EXCEPT !.tariff = tariff] \in MachineRecord
            /\ [machines[RentedMachine] EXCEPT !.tariff = tariff].owner = Customer
        BY <3>1, <3>2, <3>3 DEF MachineRecord
      <4> QED
        BY <3>1, <3>2, <4>1, <4>2 DEF MachinesTypeOK
    <3>4. ASSUME NEW active \in BOOLEAN, SetMachineActive(Customer, RentedMachine, active)
          PROVE  MachinesTypeOK' /\ machines'[RentedMachine].owner = Customer
      <4>1. machines' = [machines EXCEPT ![RentedMachine] =
                           [machines[RentedMachine] EXCEPT !.active = active]]
        BY <3>4 DEF SetMachineActive
      <4>2. /\ [machines[RentedMachine] EXCEPT !.active = active] \in MachineRecord
            /\ [machines[RentedMachine] EXCEPT !.active = active].owner = Customer
        BY <3>1, <3>2, <3>4 DEF MachineRecord
      <4> QED
        BY <3>1, <3>2, <4>1, <4>2 DEF MachinesTypeOK
    <3> QED
      BY <1>3, <3>3, <3>4 DEF OwnerChangesPolicy
  <2> QED
    BY <1>0, <2>1, <2>2, NothingSettles
<1>4. CASE Clocks
  <2>1. UNCHANGED <<transactions, paidOrders, accessCredentials, processedQueries,
                    processedOrders, sepoliaTime, machineOffers, machines, job>>
    BY <1>4 DEF Clocks, Attest, CreditcoinTick, sepoliaVars, registryVars, passVars, ascVars,
                rentalVars
  <2>2. creditcoinTime' \in {creditcoinTime, creditcoinTime + 1}
    BY <1>4 DEF Clocks, Attest, CreditcoinTick
  <2>3. open = "proof" => MachinesTypeOK' /\ machines'[RentedMachine].owner = Customer
    BY <2>1 DEF ChainsInv, PolicyOK, MachinesTypeOK
  <2> QED
    BY <1>0, <2>1, <2>2, <2>3, NothingSettles
<1> QED
  BY <1>1, <1>2, <1>3, <1>4 DEF ChainsNext

LEMMA ScriptSettles ==
  ASSUME ChainsInv, LiveInv, LiveStep, open = "live", UNCHANGED open
  PROVE  Settled' /\ Later /\ UNCHANGED job
<1>0. /\ creditcoinTime \in Nat /\ machineOffers \in [OrZero(Machine) -> Offer] /\ Settled
  BY DEF ChainsInv, HistoryOK, Settled
<1>1. CASE UNCHANGED <<Chains, rentalVars>>
  BY <1>1, ChainsStay DEF rentalVars
<1>2. CASE Configure
  <2>1. UNCHANGED <<transactions, paidOrders, accessCredentials, processedQueries,
                    processedOrders, sepoliaTime, creditcoinTime, machineOffers, job>>
    BY <1>2 DEF Configure, sepoliaVars, registryVars, passVars, ascVars, rentalVars
  <2> QED
    BY <1>0, <2>1, NothingSettles
<1>3. CASE ConfigureOffer
  <2>1. UNCHANGED <<transactions, paidOrders, accessCredentials, processedQueries,
                    processedOrders, sepoliaTime, creditcoinTime, job>>
    BY <1>3 DEF ConfigureOffer, SetMachineOffer, sepoliaVars, registryVars, creditcoinVars,
                passVars, ascVars, rentalVars
  <2>2. machineOffers' \in [OrZero(Machine) -> Offer]
    <3>1. [beneficiary |-> Customer, pricePerSecond |-> DemoTariff, active |-> TRUE] \in Offer
      BY RentalsAssumption, LiveAssumption DEF Offer, OrZero
    <3>2. machineOffers' = machineOffers \/
          machineOffers' = [machineOffers EXCEPT ![RentedMachine] =
            [beneficiary |-> Customer, pricePerSecond |-> DemoTariff, active |-> TRUE]]
      BY <1>3 DEF ConfigureOffer, SetMachineOffer, sepoliaVars, registryVars
    <3> QED
      BY <1>0, <3>1, <3>2
  <2> QED
    BY <1>0, <2>1, <2>2, NothingSettles
<1>4. CASE MintMissing \/ ApproveMissing
  <2>1. UNCHANGED <<transactions, paidOrders, accessCredentials, processedQueries,
                    processedOrders, sepoliaTime, creditcoinTime, machineOffers, job>>
    BY <1>4 DEF MintMissing, ApproveMissing, registryVars, creditcoinVars, passVars, ascVars,
                rentalVars
  <2> QED
    BY <1>0, <2>1, NothingSettles
<1>5. CASE PayUsage
  <2>1. CASE \E n \in Nonce : Pay(n, DemoDuration)
    BY <1>0, <2>1, PaySettles, LiveAssumption DEF Pay, rentalVars
  <2> QED
    BY <1>1, <1>5, <2>1 DEF PayUsage, Quiet
<1>6. CASE SubmitProof
  <2>1. CASE /\ Execute(AuthorizeAccessAction, SepoliaChainKey, SourceOf(run.source))
             /\ UNCHANGED <<sepoliaVars, rentalVars>>
    <3>1. SourceOf(run.source) \in DOMAIN transactions
      BY <1>6, PaymentFound DEF SubmitProof, LiveInv, RunOK, Redeeming, ChainsInv
    <3> QED
      BY <1>0, <2>1, <3>1, RedeemSettles DEF rentalVars
  <2> QED
    BY <1>1, <1>6, <2>1 DEF SubmitProof, Quiet
<1> QED
  BY <1>1, <1>2, <1>3, <1>4, <1>5, <1>6
  DEF LiveStep, Start, ReadMachine, ChooseSource, ReadCredential, CheckActivation, WriteFixture,
      WriteEvidence, Quiet

LEMMA StepSettles ==
  ASSUME ViewsInv, [Next]_vars
  PROVE  ChainsInv' /\ Later
<1>0. ChainsInv /\ LiveInv /\ Viewed \in Nonce
  BY RentalsAssumption DEF ViewsInv
<1>1. CASE ChainsNext /\ UNCHANGED open
  <2>1. Settled' /\ Later /\ UNCHANGED job
    BY <1>0, <1>1, OthersSettle
  <2> QED
    BY <1>0, <2>1 DEF ChainsInv, Settled, JobOK, Later
<1>2. CASE open = "live" /\ LiveStep /\ UNCHANGED open
  <2>1. Settled' /\ Later /\ UNCHANGED job
    BY <1>0, <1>2, ScriptSettles
  <2> QED
    BY <1>0, <2>1 DEF ChainsInv, Settled, JobOK, Later
<1>3. CASE RelayNext /\ UNCHANGED open
  <2>1. UNCHANGED Chains /\ (job' = "completed" => job = "completed" \/ Processed(Viewed))
    BY <1>3 DEF RelayNext, Sign, Enqueue, RelayStep
  <2>2. Settled' /\ Later
    BY <1>0, <1>3, <2>1, ChainsStay
  <2> QED
    BY <1>0, <2>1, <2>2 DEF ChainsInv, Settled, JobOK, Later
<1>4. CASE UNCHANGED <<Chains, job, open>>
  <2>1. Settled' /\ Later
    BY <1>0, <1>4, ChainsStay
  <2> QED
    BY <1>0, <1>4, <2>1 DEF ChainsInv, Settled, JobOK, Later
<1>5. ActivityStep \/ ExplorerStep \/ LoadFails \/ LookupFails \/ Reopened \/ Dies =>
        UNCHANGED <<Chains, job>>
  BY DEF ActivityStep, ListRentals, ReadBlock, AskSources, Loaded, Asking, LoadFails,
         ExplorerStep, GetProof, NotIndexed, ReadSource, ReadCreditcoin, Hydrated, Looking,
         LookupFails, Reopened, Dies, rentalVars
<1> QED
  BY <1>1, <1>2, <1>3, <1>4, <1>5 DEF Next, Steps, Faults, Visits, vars, rentalVars

\* What a view may rely on, of any payment.
LEMMA FactsStay ==
  ASSUME ChainsInv, ChainsInv', Later, NEW n \in Nonce
  PROVE  /\ Paid(n) => /\ Paid(n)' /\ WindowOf(n)' = WindowOf(n) /\ WindowOf(n) \in Nat
                       /\ Outlived(n) => Outlived(n)'
                       /\ \A c : Own(c, n) => Own(c, n)'
         /\ Processed(n) => Paid(n) /\ Processed(n)'
<1>1. Processed(n) => Paid(n) /\ Processed(n)'
  BY DEF ChainsInv, RedemptionOK, Processed, Paid, Later
<1>2. ASSUME Paid(n)
      PROVE  Paid(n)' /\ WindowOf(n)' = WindowOf(n) /\ WindowOf(n) \in Nat
  <2>1. Paid(n)' /\ PaymentOf(n)' = PaymentOf(n)
    BY <1>2 DEF Later
  <2> QED
    BY <1>2, <2>1, PaymentFound DEF ChainsInv, WindowOf, ExpiresAt
<1>3. Credential.expiresAt \in Nat /\ Credential'.expiresAt \in Nat
      /\ Credential.expiresAt <= Credential'.expiresAt
  <2>1. Credential.expiresAt \in Nat
    BY CustomerHasPass DEF ChainsInv
  <2>2. RedemptionOK'
    BY DEF ChainsInv
  <2>3. (/\ RentedMachine \in Machine /\ Customer \in Account
         /\ Credential \in [authorizationId : OrZero(Order), expiresAt : Nat])'
    BY <2>2, CustomerHasPass, PTL
  <2> QED
    BY <2>1, <2>3 DEF Later
<1> QED
  BY <1>1, <1>2, <1>3 DEF Outlived, Own, OrderOf

\* The credential of a paid order is its own or a longer one.
LEMMA OwnOrOutlived ==
  ASSUME ChainsInv, NEW n \in Nonce, Paid(n)
  PROVE  /\ Own(Credential, n)
         /\ Processed(n) => Credential.authorizationId = OrderOf(n) \/ Outlived(n)
BY PaymentFound DEF ChainsInv, RedemptionOK, Own, Outlived, WindowOf, Processed

-----------------------------------------------------------------------------
(* The activity view.                                                      *)

LEMMA LoadStays ==
  ASSUME ChainsInv, ChainsInv', Later, LoadOK, UNCHANGED load
  PROVE  LoadOK'
<1>1. Viewed \in Nonce /\ creditcoinTime \in Nat /\ creditcoinTime' \in Nat
  BY RentalsAssumption DEF ChainsInv, HistoryOK
<1>2. /\ Paid(Viewed) => /\ Paid(Viewed)' /\ WindowOf(Viewed)' = WindowOf(Viewed)
                         /\ WindowOf(Viewed) \in Nat
                         /\ Outlived(Viewed) => Outlived(Viewed)'
      /\ Processed(Viewed) => Paid(Viewed) /\ Processed(Viewed)'
      /\ Paid(Viewed) /\ ~Processed(Viewed) /\ Processed(Viewed)' =>
           WindowOf(Viewed) > creditcoinTime'
  BY <1>1, FactsStay DEF Later
<1>3. creditcoinTime <= creditcoinTime'
  BY DEF Later
<1>4. IsListed' = IsListed
  BY DEF IsListed
<1>5. load.block # <<>> =>
       /\ load.block[1].timestamp \in Nat /\ load.block[1].timestamp <= creditcoinTime'
       /\ load.block[1].activated => Processed(Viewed)'
  BY <1>1, <1>2, <1>3 DEF LoadOK
<1>6. load.processed # <<>> =>
       /\ load.processed[1] => Processed(Viewed)'
       /\ ~load.processed[1] /\ WindowOf(Viewed)' <= load.block[1].timestamp => ~Processed(Viewed)'
  BY <1>1, <1>2, <1>3, <1>5 DEF LoadOK
<1> QED
  BY <1>2, <1>4, <1>5, <1>6 DEF LoadOK, Outlived

\* While the chains stand still the page may take any answer for true.
StandStill ==
  /\ UNCHANGED <<Chains, shown>>
  /\ Paid(Viewed)' = Paid(Viewed) /\ Processed(Viewed)' = Processed(Viewed)
  /\ Paid(Viewed) => WindowOf(Viewed)' = WindowOf(Viewed) /\ Outlived(Viewed)' = Outlived(Viewed)

LEMMA AskingStandsStill ==
  ASSUME ChainsInv, ChainsInv', Later, UNCHANGED <<Chains, shown>>
  PROVE  StandStill
<1>1. UNCHANGED <<transactions, paidOrders, processedOrders, accessCredentials, creditcoinTime>>
  BY DEF Chains, sepoliaVars, registryVars, creditcoinVars, passVars, ascVars
<1>2. Paid(Viewed)' = Paid(Viewed) /\ Processed(Viewed)' = Processed(Viewed)
      /\ Credential' = Credential
  BY <1>1 DEF Paid, Processed, Credential, OrderOf
<1>3. Paid(Viewed) => WindowOf(Viewed)' = WindowOf(Viewed)
  BY RentalsAssumption, FactsStay
<1> QED
  BY <1>2, <1>3 DEF StandStill, Outlived

LEMMA ShownStays ==
  ASSUME ChainsInv, ChainsInv', Later, ShownOK, UNCHANGED shown
  PROVE  ShownOK'
<1>1. /\ creditcoinTime \in Nat /\ creditcoinTime' \in Nat /\ creditcoinTime <= creditcoinTime'
      /\ Viewed \in Nonce
  BY RentalsAssumption DEF Later, ChainsInv, HistoryOK
<1>2. /\ Paid(Viewed) => /\ Paid(Viewed)' /\ WindowOf(Viewed)' = WindowOf(Viewed)
                         /\ WindowOf(Viewed) \in Nat
                         /\ Outlived(Viewed) => Outlived(Viewed)'
      /\ Processed(Viewed) => Paid(Viewed) /\ Processed(Viewed)'
      /\ Paid(Viewed) /\ ~Processed(Viewed) /\ Processed(Viewed)' =>
           WindowOf(Viewed) > creditcoinTime'
  BY <1>1, FactsStay DEF Later
<1>3. shown = "Access superseded" => Processed(Viewed)' /\ Outlived(Viewed)'
  BY <1>2 DEF ShownOK
<1>4. ASSUME shown = "Payment window expired before access"
      PROVE  Paid(Viewed)' /\ ~Processed(Viewed)' /\ WindowOf(Viewed)' <= creditcoinTime'
  <2>1. Paid(Viewed) /\ ~Processed(Viewed) /\ WindowOf(Viewed) <= creditcoinTime
    BY <1>4 DEF ShownOK
  <2>2. Paid(Viewed)' /\ WindowOf(Viewed)' = WindowOf(Viewed) /\ WindowOf(Viewed) \in Nat
    BY <1>2, <2>1
  <2>3. WindowOf(Viewed) <= creditcoinTime'
    BY <1>1, <2>1, <2>2
  <2>4. ~(WindowOf(Viewed) > creditcoinTime')
    BY <1>1, <2>2, <2>3
  <2> QED
    BY <1>2, <2>1, <2>2, <2>3, <2>4
<1> QED
  BY <1>3, <1>4 DEF ShownOK

\* An answer that is yes or no.
LEMMA TruthValue ==
  \A x, S : \E b \in BOOLEAN : b = (x \in S)
<1> SUFFICES ASSUME NEW x, NEW S
             PROVE  \E b \in BOOLEAN : b = (x \in S)
  OBVIOUS
<1>1. CASE x \in S
  <2>1. TRUE = (x \in S)
    BY <1>1
  <2> QED
    BY <2>1
<1>2. CASE x \notin S
  <2>1. FALSE = (x \in S)
    BY <1>2
  <2> QED
    BY <2>1
<1> QED
  BY <1>1, <1>2

LEMMA InOrder ==
  /\ \A a, b, c \in Nat : a <= b /\ b <= c => a <= c
  /\ \A a, b \in Nat : a > b => a # b
OBVIOUS

LEMMA ActivityKeeps ==
  ASSUME ChainsInv, ChainsInv', Later, ActivityInv, ActivityStep \/ LoadFails
  PROVE  ActivityInv'
<1>0. /\ LoadOK /\ ShownOK /\ Viewed \in Nonce /\ creditcoinTime \in Nat
      /\ load = [listed |-> load.listed, block |-> load.block, job |-> load.job,
                 processed |-> load.processed, pass |-> load.pass]
  BY RentalsAssumption DEF ActivityInv, ChainsInv, HistoryOK, LoadOK
<1> ShownOK /\ UNCHANGED shown => ShownOK'
  BY ShownStays
<1>1. CASE ListRentals
  <2>1. load' = [listed |-> <<[paid |-> Paid(Viewed), optimistic |-> stored]>>,
                 block |-> <<>>, job |-> <<>>, processed |-> <<>>, pass |-> <<>>]
    BY <1>1 DEF ListRentals, Answered, NoLoad
  <2>2. StandStill
    BY <1>1, AskingStandsStill DEF ListRentals, Asking
  <2>3. LoadOK'
    BY <2>1, <2>2 DEF LoadOK, StandStill, IsListed
  <2> QED
    BY <1>0, <2>2, <2>3 DEF ActivityInv, StandStill
<1>2. CASE ReadBlock
  <2>0. PICK b \in BOOLEAN : b = (ActivationLogs # {})
    OBVIOUS
  <2>1. /\ load' = [listed |-> load.listed,
                    block |-> <<[timestamp |-> creditcoinTime, activated |-> b]>>,
                    job |-> load.job, processed |-> load.processed, pass |-> load.pass]
        /\ load.block = <<>>
    BY <1>0, <1>2, <2>0 DEF ReadBlock, Answered
  <2>2. StandStill
    BY <1>2, AskingStandsStill DEF ReadBlock, Asking
  <2>3. b => Processed(Viewed)
    BY <2>0 DEF ActivationLogs, Processed
  <2>4. creditcoinTime' = creditcoinTime
    BY <2>2 DEF StandStill, Chains, creditcoinVars
  <2>5. LoadOK'
    BY <1>0, <2>1, <2>2, <2>3, <2>4 DEF LoadOK, StandStill, IsListed
  <2> QED
    BY <1>0, <2>2, <2>5 DEF ActivityInv, StandStill
<1>3. CASE AskSources
  <2>1. StandStill /\ IsListed /\ load.block # <<>>
    <3>1. UNCHANGED <<Chains, shown>>
      BY <1>3 DEF AskSources, Asking
    <3> QED
      BY <1>3, <3>1, AskingStandsStill DEF AskSources, BlockKnown
  <2>2. Paid(Viewed) /\ creditcoinTime' = creditcoinTime
    BY <1>0, <2>1 DEF LoadOK, StandStill, Chains, creditcoinVars
  <2>3. ASSUME NEW value, Answered("job", value)
        PROVE  LoadOK'
    <3>1. load' = [listed |-> load.listed, block |-> load.block, job |-> <<value>>,
                   processed |-> load.processed, pass |-> load.pass]
      BY <1>0, <2>3 DEF Answered
    <3> QED
      BY <1>0, <2>1, <2>2, <3>1 DEF LoadOK, StandStill, IsListed
  <2>4. ASSUME Answered("processed", Processed(Viewed))
        PROVE  LoadOK'
    <3>0. PICK b \in BOOLEAN : b = Processed(Viewed)
      BY TruthValue DEF Processed
    <3>1. load' = [listed |-> load.listed, block |-> load.block, job |-> load.job,
                   processed |-> <<b>>, pass |-> load.pass]
      BY <1>0, <2>4, <3>0 DEF Answered
    <3>2. b <=> Processed(Viewed)
      BY <3>0
    <3> QED
      BY <1>0, <2>1, <2>2, <3>1, <3>2 DEF LoadOK, StandStill, IsListed
  <2>5. ASSUME Answered("pass", [credential |-> Credential,
                                 authorized |-> IsAuthorized(RentedMachine, Customer)])
        PROVE  LoadOK'
    <3>1. load' = [listed |-> load.listed, block |-> load.block, job |-> load.job,
                   processed |-> load.processed,
                   pass |-> <<[credential |-> Credential,
                               authorized |-> IsAuthorized(RentedMachine, Customer)]>>]
      BY <1>0, <2>5 DEF Answered
    <3>2. load.block[1].activated /\ Credential.authorizationId # OrderOf(Viewed)
            => Outlived(Viewed)
      BY <1>0, <2>1, <2>2, OwnOrOutlived DEF LoadOK
    <3> QED
      BY <1>0, <2>1, <2>2, <3>1, <3>2 DEF LoadOK, StandStill, IsListed
  <2>6. ASSUME Answered("job", job) \/ Answered("job", "error")
        PROVE  LoadOK'
    <3>1. PICK phase : phase = job
      OBVIOUS
    <3>2. Answered("job", phase) \/ Answered("job", "error")
      BY <2>6, <3>1
    <3> QED
      BY <2>3, <3>2
  <2>7. LoadOK'
    BY <1>3, <2>4, <2>5, <2>6 DEF AskSources
  <2> QED
    BY <1>0, <2>1, <2>7 DEF ActivityInv, StandStill
<1>4. CASE Loaded
  <2>1. load' = NoLoad /\ shown' = mergeOptimisticRentals
        /\ (IsListed => load.processed # <<>> /\ load.pass # <<>>) /\ load.block # <<>>
        /\ UNCHANGED Chains
    BY <1>4 DEF Loaded
  <2>2. LoadOK'
    BY <2>1 DEF LoadOK, NoLoad, IsListed
  <2>3. shown' = "Payment window expired before access" =>
          /\ IsListed /\ ~load.processed[1]
          /\ WindowOf(Viewed) <= load.block[1].timestamp
    BY <2>1 DEF mergeOptimisticRentals, Corrected, correlateRental, Conflict, Answers, Active,
                Expired, WindowOf
  <2>4. shown' = "Access superseded" =>
          /\ IsListed /\ load.processed[1] /\ load.block[1].activated
          /\ load.pass[1].credential.authorizationId # OrderOf(Viewed)
    BY <2>1 DEF mergeOptimisticRentals, Corrected, correlateRental, Conflict, Answers, Active,
                Expired, OwnsCredential
  <2>5. /\ shown' = "Payment window expired before access" =>
             Paid(Viewed) /\ ~Processed(Viewed) /\ WindowOf(Viewed) <= creditcoinTime
        /\ shown' = "Access superseded" => Paid(Viewed) /\ Processed(Viewed) /\ Outlived(Viewed)
    <3>1. IsListed => Paid(Viewed) /\ WindowOf(Viewed) \in Nat
      BY <1>0, PaymentFound DEF LoadOK, ChainsInv
    <3>2. /\ load.block[1].timestamp \in Nat /\ load.block[1].timestamp <= creditcoinTime
          /\ creditcoinTime \in Nat
      BY <1>0, <2>1 DEF LoadOK
    <3>3. shown' = "Payment window expired before access" =>
             Paid(Viewed) /\ ~Processed(Viewed) /\ WindowOf(Viewed) <= creditcoinTime
      <4> SUFFICES ASSUME shown' = "Payment window expired before access"
                   PROVE  Paid(Viewed) /\ ~Processed(Viewed) /\ WindowOf(Viewed) <= creditcoinTime
        OBVIOUS
      <4>1. IsListed /\ ~load.processed[1] /\ WindowOf(Viewed) <= load.block[1].timestamp
            /\ load.processed # <<>>
        BY <2>1, <2>3
      <4>2. ~Processed(Viewed)
        BY <1>0, <4>1 DEF LoadOK
      <4>3. Paid(Viewed) /\ WindowOf(Viewed) \in Nat
        BY <3>1, <4>1
      <4>4. WindowOf(Viewed) <= load.block[1].timestamp /\ WindowOf(Viewed) \in Nat
        BY <4>1, <4>3
      <4>5. WindowOf(Viewed) <= creditcoinTime
        BY <3>2, <4>4, InOrder
      <4> QED
        BY <4>2, <4>3, <4>5
    <3>4. shown' = "Access superseded" => Paid(Viewed) /\ Processed(Viewed) /\ Outlived(Viewed)
      BY <1>0, <2>1, <2>4, <3>1 DEF LoadOK
    <3> QED
      BY <3>3, <3>4
  <2>6. UNCHANGED <<transactions, paidOrders, processedOrders, accessCredentials, creditcoinTime>>
    BY <2>1 DEF Chains, sepoliaVars, registryVars, creditcoinVars, passVars, ascVars
  <2>7. Processed(Viewed)' = Processed(Viewed) /\ creditcoinTime' = creditcoinTime
    BY <2>6 DEF Processed, OrderOf
  <2>8. ShownOK'
    BY <1>0, <2>5, <2>7, FactsStay DEF ShownOK
  <2> QED
    BY <2>2, <2>8 DEF ActivityInv
<1>5. CASE LoadFails
  <2>1. LoadOK'
    BY <1>5 DEF LoadFails, LoadOK, NoLoad, IsListed
  <2>2. StandStill
    BY <1>5, AskingStandsStill DEF LoadFails
  <2> QED
    BY <1>0, <2>1, <2>2 DEF ActivityInv, StandStill
<1> QED
  BY <1>1, <1>2, <1>3, <1>4, <1>5 DEF ActivityStep

LEMMA ActivityStays ==
  ASSUME ChainsInv, ChainsInv', Later, ActivityInv, UNCHANGED activityVars
  PROVE  ActivityInv'
<1>1. LoadOK'
  BY LoadStays DEF ActivityInv, activityVars
<1>2. ShownOK'
  BY ShownStays DEF ActivityInv, activityVars
<1> QED
  BY <1>1, <1>2 DEF ActivityInv

-----------------------------------------------------------------------------
(* The proof page.                                                         *)

LEMMA LookupStays ==
  ASSUME ChainsInv, ChainsInv', Later, LookupOK, UNCHANGED lookup
  PROVE  LookupOK'
<1>1. Viewed \in Nonce
  BY RentalsAssumption
<1>2. /\ Paid(Viewed) => /\ Paid(Viewed)' /\ WindowOf(Viewed)' = WindowOf(Viewed)
                         /\ Outlived(Viewed) => Outlived(Viewed)'
      /\ Processed(Viewed) => Paid(Viewed) /\ Processed(Viewed)'
  BY <1>1, FactsStay
<1> QED
  BY <1>2 DEF LookupOK

LEMMA VerdictStays ==
  ASSUME ChainsInv, ChainsInv', Later, VerdictOK, UNCHANGED verdict
  PROVE  VerdictOK'
<1>1. Viewed \in Nonce
  BY RentalsAssumption
<1>2. Processed(Viewed) =>
        Processed(Viewed)' /\ (Outlived(Viewed) => Outlived(Viewed)')
  BY <1>1, FactsStay
<1> QED
  BY <1>2 DEF VerdictOK

\* Of a redeemed payment, only these rows can fail.
LEMMA RowsHold ==
  ASSUME ChainsInv, LookupOK, open = "proof", lookup.source = <<TRUE>>,
         lookup.evidence # <<>>, lookup.evidence[1] = "completed",
         lookup.machine # <<>>, lookup.processed # <<>>, lookup.credential # <<>>
  PROVE  /\ FailedRows \subseteq {"expiry", "machine_active", "tariff"}
         /\ "expiry" \in FailedRows => Outlived(Viewed)
<1>1. PICK source, payment, machine, processed, credential :
        /\ source = transactions[SourceOf(Viewed)] /\ payment = PaymentOf(Viewed)
        /\ machine = lookup.machine[1] /\ processed = lookup.processed[1]
        /\ credential = lookup.credential[1]
  OBVIOUS
<1>2. /\ Paid(Viewed) /\ Viewed \in Nonce /\ processed
      /\ machine.owner = Customer
      /\ credential.expiresAt = WindowOf(Viewed) \/ Outlived(Viewed)
  BY <1>1, RentalsAssumption DEF LookupOK
<1>3. /\ SourceOf(Viewed) \in DOMAIN transactions /\ payment = LogOf(SourceOf(Viewed))
      /\ payment \in RentalLog /\ ExpiresAt(payment) = WindowOf(Viewed)
  BY <1>1, <1>2, PaymentFound DEF ChainsInv, WindowOf
<1>4. source.status = 1 /\ source.to = Registry /\ source.from = Customer
  BY <1>1, <1>3, OneLog DEF ChainsInv, RentalTransaction
<1>5. payment.payer = Customer /\ payment.beneficiary = Customer
      /\ payment.duration > 0 /\ payment.duration <= MaxDuration
  BY <1>3, RentalsAssumption DEF ChainsInv, PolicyOK, RentalLog
<1>6. PICK rows : rows = Rows("completed", source, payment, machine, processed, credential)
  OBVIOUS
<1>7. /\ DOMAIN rows = {"receipt", "source_contract", "chain_key", "covered_block", "payer",
                        "beneficiary", "machine_active", "tariff", "duration", "expiry", "replay"}
      /\ rows.receipt = Row(TRUE, source.status = 1)
      /\ rows.source_contract = Row(TRUE, source.to = Registry)
      /\ rows.chain_key = Row(TRUE, SepoliaChainKey = 1)
      /\ rows.covered_block = Row(TRUE, TRUE)
      /\ rows.payer = Row(TRUE, payment.payer = source.from)
      /\ rows.beneficiary = Row(TRUE, payment.beneficiary = machine.owner)
      /\ rows.duration = Row(TRUE, payment.duration > 0 /\ payment.duration <= MaxDuration)
      /\ rows.expiry = Row(TRUE, ExpiresAt(payment) = credential.expiresAt)
      /\ rows.replay = Row(TRUE, processed)
  BY <1>6 DEF Rows
<1>8. /\ rows.receipt = "pass" /\ rows.source_contract = "pass" /\ rows.chain_key = "pass"
      /\ rows.covered_block = "pass" /\ rows.payer = "pass" /\ rows.beneficiary = "pass"
      /\ rows.duration = "pass" /\ rows.replay = "pass"
  BY <1>2, <1>4, <1>5, <1>7 DEF Row, SepoliaChainKey
<1>9. rows.expiry = "fail" => Outlived(Viewed)
  BY <1>2, <1>3, <1>7 DEF Row
<1>10. FailedRows = {key \in DOMAIN rows : rows[key] = "fail"}
  BY <1>1, <1>6 DEF FailedRows
<1> QED
  BY <1>7, <1>8, <1>9, <1>10

LEMMA ExplorerKeeps ==
  ASSUME ChainsInv, ChainsInv', Later, ExplorerInv, open = "proof",
         ExplorerStep \/ LookupFails \/ Reopened
  PROVE  ExplorerInv'
<1>0. /\ LookupOK /\ VerdictOK /\ Viewed \in Nonce
      /\ lookup = [evidence |-> lookup.evidence, source |-> lookup.source,
                   machine |-> lookup.machine, processed |-> lookup.processed,
                   credential |-> lookup.credential]
  BY RentalsAssumption DEF ExplorerInv, LookupOK
<1>1. /\ Paid(Viewed) => /\ Paid(Viewed)' /\ WindowOf(Viewed)' = WindowOf(Viewed)
                         /\ Outlived(Viewed) => Outlived(Viewed)'
      /\ Processed(Viewed) => Paid(Viewed) /\ Processed(Viewed)'
  BY <1>0, FactsStay
<1>2. CASE GetProof
  <2>1. PICK phase : phase = job
    OBVIOUS
  <2>2. /\ lookup' = [evidence |-> <<phase>>, source |-> lookup.source,
                      machine |-> lookup.machine, processed |-> lookup.processed,
                      credential |-> lookup.credential]
        /\ lookup.evidence = <<>> /\ UNCHANGED verdict
    BY <1>0, <1>2, <2>1 DEF GetProof, Found, Looking
  <2>3. phase = "completed" => Processed(Viewed)
    BY <2>1 DEF ChainsInv, JobOK
  <2> QED
    BY <1>0, <1>1, <2>2, <2>3, VerdictStays DEF ExplorerInv, LookupOK
<1>3. CASE ReadSource
  <2>1. PICK b \in BOOLEAN : b = (OrderOf(Viewed) \in paidOrders)
    BY TruthValue
  <2>2. /\ lookup' = [evidence |-> lookup.evidence, source |-> <<b>>,
                      machine |-> lookup.machine, processed |-> lookup.processed,
                      credential |-> lookup.credential]
        /\ UNCHANGED verdict
    BY <1>0, <1>3, <2>1 DEF ReadSource, Found, Looking, Paid
  <2>3. b => Paid(Viewed)
    BY <2>1 DEF Paid
  <2> QED
    BY <1>0, <1>1, <2>2, <2>3, VerdictStays DEF ExplorerInv, LookupOK
<1>4. CASE ReadCreditcoin
  <2>0. /\ VerdictOK' /\ Paid(Viewed) /\ machines[RentedMachine].owner = Customer
        /\ lookup.evidence # <<>>
    BY <1>0, <1>4, VerdictStays DEF ReadCreditcoin, EvidenceKnown, Looking, LookupOK, ChainsInv, PolicyOK
  <2>1. ASSUME Found("machine", machines[RentedMachine])
        PROVE  LookupOK'
    <3>1. PICK machine : machine = machines[RentedMachine]
      OBVIOUS
    <3>2. lookup' = [evidence |-> lookup.evidence, source |-> lookup.source,
                     machine |-> <<machine>>, processed |-> lookup.processed,
                     credential |-> lookup.credential]
      BY <1>0, <2>1, <3>1 DEF Found
    <3> QED
      BY <1>0, <1>1, <2>0, <3>1, <3>2 DEF LookupOK
  <2>2. ASSUME Found("processed", Processed(Viewed))
        PROVE  LookupOK'
    <3>1. PICK b \in BOOLEAN : b = (OrderOf(Viewed) \in processedOrders)
      BY TruthValue
    <3>2. lookup' = [evidence |-> lookup.evidence, source |-> lookup.source,
                     machine |-> lookup.machine, processed |-> <<b>>,
                     credential |-> lookup.credential]
      BY <1>0, <2>2, <3>1 DEF Found, Processed
    <3>3. Processed(Viewed) => b
      BY <3>1 DEF Processed
    <3> QED
      BY <1>0, <1>1, <2>0, <3>2, <3>3 DEF LookupOK
  <2>3. ASSUME Found("credential", Credential)
        PROVE  LookupOK'
    <3>1. PICK credential : credential = Credential
      OBVIOUS
    <3>2. lookup' = [evidence |-> lookup.evidence, source |-> lookup.source,
                     machine |-> lookup.machine, processed |-> lookup.processed,
                     credential |-> <<credential>>]
      BY <1>0, <2>3, <3>1 DEF Found
    <3>3. Processed(Viewed) => credential.expiresAt = WindowOf(Viewed) \/ Outlived(Viewed)
      BY <1>0, <2>0, <3>1, OwnOrOutlived DEF Own
    <3> QED
      BY <1>0, <1>1, <2>0, <3>2, <3>3 DEF LookupOK
  <2> QED
    BY <1>4, <2>0, <2>1, <2>2, <2>3 DEF ReadCreditcoin, ExplorerInv
<1>5. CASE Hydrated
  <2>1. /\ lookup' = NoLookup /\ verdict' = [phase |-> lookup.evidence[1], failed |-> FailedRows]
        /\ lookup.evidence # <<>>
        /\ lookup.source = <<TRUE>> =>
             lookup.machine # <<>> /\ lookup.processed # <<>> /\ lookup.credential # <<>>
    BY <1>5 DEF Hydrated
  <2>2. LookupOK'
    BY <2>1 DEF LookupOK, NoLookup
  <2>3. ASSUME lookup.evidence[1] = "completed"
        PROVE  /\ FailedRows \subseteq {"expiry", "machine_active", "tariff"}
               /\ "expiry" \in FailedRows => Outlived(Viewed)
               /\ Processed(Viewed)
    <3>1. CASE lookup.source = <<TRUE>>
      BY <1>0, <2>1, <2>3, <3>1, RowsHold DEF LookupOK
    <3>2. CASE lookup.source # <<TRUE>>
      BY <1>0, <2>1, <2>3, <3>2 DEF LookupOK, FailedRows
    <3> QED
      BY <3>1, <3>2
  <2> QED
    BY <1>1, <2>1, <2>2, <2>3 DEF ExplorerInv, VerdictOK
<1>6. CASE NotIndexed \/ LookupFails \/ Reopened
  <2>1. lookup' \in {lookup, NoLookup} /\ verdict' \in {verdict, NoVerdict, Unavailable}
    BY <1>6 DEF NotIndexed, LookupFails, Reopened, Ended
  <2>2. VerdictOK'
    BY <1>0, <2>1, VerdictStays DEF VerdictOK, NoVerdict, Unavailable
  <2>3. CASE lookup' = lookup
    BY <1>0, <2>2, <2>3, LookupStays DEF ExplorerInv
  <2>4. CASE lookup' = NoLookup
    BY <2>2, <2>4 DEF ExplorerInv, LookupOK, NoLookup
  <2> QED
    BY <2>1, <2>3, <2>4
<1> QED
  BY <1>2, <1>3, <1>4, <1>5, <1>6 DEF ExplorerStep

LEMMA ExplorerStays ==
  ASSUME ChainsInv, ChainsInv', Later, ExplorerInv, UNCHANGED explorerVars
  PROVE  ExplorerInv'
BY LookupStays, VerdictStays DEF ExplorerInv, explorerVars

-----------------------------------------------------------------------------
(* The live script.                                                        *)

LEMMA RunStays ==
  ASSUME ChainsInv, ChainsInv', Later, RunOK, UNCHANGED run
  PROVE  RunOK'
<1>1. PICK r : r = run
  OBVIOUS
<1>2. ASSUME r.at \in Redeeming
      PROVE  /\ r.source \in Nonce /\ Paid(r.source)'
             /\ Processed(r.source) => Processed(r.source)'
             /\ Own(r.credential, r.source) => Own(r.credential, r.source)'
  BY <1>1, <1>2, FactsStay DEF RunOK
<1> QED
  BY <1>1, <1>2 DEF RunOK, Redeeming, OrderOf

LEMMA EvidenceStays ==
  ASSUME ChainsInv, ChainsInv', Later, EvidenceOK, UNCHANGED evidence
  PROVE  EvidenceOK'
<1>1. PICK e : e = evidence[1]
  OBVIOUS
<1>2. ASSUME evidence # <<>>
      PROVE  /\ e.source \in Nonce /\ Paid(e.source)' /\ Processed(e.source)'
             /\ Own(e.authorization, e.source)'
  BY <1>1, <1>2, FactsStay DEF EvidenceOK
<1> QED
  BY <1>1, <1>2 DEF EvidenceOK, OrderOf

\* A place from which nothing is redeemed yet.
Early == {"stopped", "machine", "configure", "source", "mint", "approve", "pay"}

LEMMA RunMoves ==
  ASSUME RunOK, NEW at, NEW plan,
         run' = [at |-> at, plan |-> plan, source |-> run.source, credential |-> run.credential],
         at \in Early
  PROVE  RunOK'
BY DEF RunOK, Redeeming, Early

LEMMA RunStops ==
  ASSUME Throws
  PROVE  RunOK'
BY DEF Throws, Stopped, RunOK, Redeeming

LEMMA LiveKeeps ==
  ASSUME ChainsInv, ChainsInv', Later, LiveInv, open = "live", UNCHANGED open,
         LiveStep \/ Dies
  PROVE  LiveInv'
<1>0. /\ RunOK /\ EvidenceOK
      /\ run = [at |-> run.at, plan |-> run.plan, source |-> run.source,
                credential |-> run.credential]
  BY DEF LiveInv, RunOK
<1>1. ASSUME NEW at \in Early, Goes(at)
      PROVE  RunOK'
  <2>1. run' = [at |-> at, plan |-> run.plan, source |-> run.source,
                credential |-> run.credential]
    BY <1>0, <1>1 DEF Goes
  <2> QED
    BY <1>0, <2>1, RunMoves
<1>2. ASSUME UNCHANGED evidence
      PROVE  EvidenceOK'
  BY <1>0, <1>2, EvidenceStays
<1>3. CASE Start \/ MintMissing \/ ApproveMissing \/ Dies
  <2>1. /\ UNCHANGED evidence
        /\ Goes("machine") \/ Goes("approve") \/ Goes("pay") \/ Throws
    BY <1>3 DEF Start, MintMissing, ApproveMissing, Dies, Files
  <2> QED
    BY <1>1, <1>2, <2>1, RunStops DEF Early, LiveInv
<1>4. CASE ReadMachine
  <2>1. PICK current : current = machines[RentedMachine]
    OBVIOUS
  <2>2. CASE current.owner \in {Zero, Customer}
    <3>1. run' = [at |-> "configure", plan |-> Differences(current), source |-> run.source,
                  credential |-> run.credential] /\ UNCHANGED evidence
      BY <1>0, <1>4, <2>1, <2>2 DEF ReadMachine, Files
    <3> QED
      BY <1>0, <1>2, <3>1, RunMoves DEF Early, LiveInv
  <2>3. CASE current.owner \notin {Zero, Customer}
    <3>1. Throws /\ UNCHANGED evidence
      BY <1>4, <2>1, <2>3 DEF ReadMachine, Throws, Files
    <3> QED
      BY <1>2, <3>1, RunStops DEF LiveInv
  <2> QED
    BY <2>2, <2>3
<1>5. CASE Configure
  <2>1. /\ run' = [at |-> "configure", plan |-> Tail(run.plan), source |-> run.source,
                   credential |-> run.credential]
        /\ UNCHANGED evidence
    BY <1>0, <1>5 DEF Configure, Files
  <2> QED
    BY <1>0, <1>2, <2>1, RunMoves DEF Early, LiveInv
<1>6. CASE ConfigureOffer
  <2>1. UNCHANGED evidence /\ (Throws \/ Goes("source"))
    BY <1>6 DEF ConfigureOffer, Files
  <2> QED
    BY <1>1, <1>2, <2>1, RunStops DEF Early, LiveInv
<1>7. ASSUME NEW n \in Nonce, Paid(n)', UNCHANGED evidence,
             run' = [run EXCEPT !.at = "prove", !.source = n]
      PROVE  LiveInv'
  <2>1. run' = [at |-> "prove", plan |-> run.plan, source |-> n, credential |-> run.credential]
    BY <1>0, <1>7
  <2>2. RunOK'
    BY <1>7, <2>1 DEF RunOK, Redeeming
  <2> QED
    BY <1>2, <1>7, <2>2 DEF LiveInv
<1>8. CASE ChooseSource
  <2>1. UNCHANGED evidence
    BY <1>8 DEF ChooseSource, Files
  <2>2. CASE Goes("mint")
    BY <1>1, <1>2, <2>1, <2>2 DEF Early, LiveInv
  <2>3. ASSUME NEW n \in Nonce, Paid(n), run' = [run EXCEPT !.at = "prove", !.source = n]
        PROVE  LiveInv'
    BY <1>7, <2>1, <2>3, FactsStay
  <2> QED
    BY <1>8, <2>2, <2>3 DEF ChooseSource
<1>9. CASE PayUsage
  <2>1. UNCHANGED evidence
    BY <1>9 DEF PayUsage, Files
  <2>2. CASE Throws
    BY <1>2, <2>1, <2>2, RunStops DEF LiveInv
  <2>3. ASSUME NEW n \in Nonce, Pay(n, DemoDuration),
               run' = [run EXCEPT !.at = "prove", !.source = n]
        PROVE  LiveInv'
    <3>1. Paid(n)'
      BY <2>3 DEF Pay, PayForUsage, FlagOrder, Paid, OrderOf
    <3> QED
      BY <1>7, <2>1, <2>3, <3>1
  <2> QED
    BY <1>9, <2>2, <2>3 DEF PayUsage
<1>10. CASE SubmitProof
  <2>1. UNCHANGED evidence /\ run.at = "prove"
    BY <1>10 DEF SubmitProof, Files
  <2>2. CASE Throws
    BY <1>2, <2>1, <2>2, RunStops DEF LiveInv
  <2>3. CASE /\ Execute(AuthorizeAccessAction, SepoliaChainKey, SourceOf(run.source))
             /\ Goes("credential") /\ UNCHANGED <<sepoliaVars, rentalVars>>
    <3>1. run.source \in Nonce /\ Paid(run.source)
      BY <1>0, <2>1 DEF RunOK, Redeeming
    <3>2. PICK i : i = SourceOf(run.source)
      OBVIOUS
    <3>3. i \in DOMAIN transactions /\ LogOf(i).orderId = OrderOf(run.source)
      BY <3>1, <3>2, PaymentFound DEF ChainsInv
    <3>4. Execute(AuthorizeAccessAction, SepoliaChainKey, i) /\ Settled
      BY <2>3, <3>2 DEF ChainsInv, Settled
    <3>5. processedOrders' = processedOrders \cup {OrderOf(run.source)}
      BY <2>3, <3>3, <3>4, RedeemSettles
    <3>6. run' = [at |-> "credential", plan |-> run.plan, source |-> run.source,
                  credential |-> run.credential]
      BY <1>0, <2>3 DEF Goes
    <3>7. PICK n \in Nonce : n = run.source
      BY <3>1
    <3>8. Paid(n)' /\ Processed(n)'
      BY <3>1, <3>5, <3>7, FactsStay DEF Processed, OrderOf
    <3>9. RunOK'
      BY <3>6, <3>7, <3>8 DEF RunOK, Redeeming
    <3> QED
      BY <1>2, <2>1, <3>9 DEF LiveInv
  <2> QED
    BY <1>10, <2>2, <2>3 DEF SubmitProof
<1>11. CASE ReadCredential
  <2>1. PICK n, credential : n = run.source /\ credential = Credential
    OBVIOUS
  <2>2. /\ run' = [at |-> "authorized", plan |-> run.plan, source |-> n,
                   credential |-> credential]
        /\ UNCHANGED evidence /\ run.at = "credential"
    BY <1>0, <1>11, <2>1 DEF ReadCredential, Files
  <2>3. n \in Nonce /\ Paid(n) /\ Processed(n)
    BY <1>0, <2>1, <2>2 DEF RunOK, Redeeming
  <2>4. Paid(n)' /\ Processed(n)' /\ Own(credential, n)'
    BY <2>1, <2>3, OwnOrOutlived, FactsStay
  <2>5. RunOK'
    BY <2>2, <2>3, <2>4 DEF RunOK, Redeeming
  <2> QED
    BY <1>2, <2>2, <2>5 DEF LiveInv
<1>12. CASE CheckActivation
  <2>1. UNCHANGED evidence /\ run.at = "authorized"
    BY <1>12 DEF CheckActivation, Files
  <2>2. CASE Throws
    BY <1>2, <2>1, <2>2, RunStops DEF LiveInv
  <2>3. CASE Activated(run.source, run.credential) /\ Goes("fixture")
    <3>1. PICK n, credential : n = run.source /\ credential = run.credential
      OBVIOUS
    <3>2. run' = [at |-> "fixture", plan |-> run.plan, source |-> n, credential |-> credential]
      BY <1>0, <2>3, <3>1 DEF Goes
    <3>3. /\ n \in Nonce /\ Paid(n) /\ Processed(n) /\ Own(credential, n)
          /\ credential.authorizationId = OrderOf(n)
      BY <1>0, <2>1, <2>3, <3>1 DEF RunOK, Redeeming, Activated
    <3>4. Paid(n)' /\ Processed(n)' /\ Own(credential, n)' /\ OrderOf(n)' = OrderOf(n)
      BY <3>3, FactsStay DEF OrderOf
    <3>5. RunOK'
      BY <3>2, <3>3, <3>4 DEF RunOK, Redeeming
    <3> QED
      BY <1>2, <2>1, <3>5 DEF LiveInv
  <2> QED
    BY <1>12, <2>2, <2>3 DEF CheckActivation
<1>13. CASE WriteFixture
  <2>1. PICK n, credential : n = run.source /\ credential = run.credential
    OBVIOUS
  <2>2. /\ run' = [at |-> "evidence", plan |-> run.plan, source |-> n,
                   credential |-> credential]
        /\ UNCHANGED evidence /\ run.at = "fixture"
    BY <1>0, <1>13, <2>1 DEF WriteFixture, Goes
  <2>3. /\ n \in Nonce /\ Paid(n) /\ Processed(n) /\ Own(credential, n)
        /\ credential.authorizationId = OrderOf(n)
    BY <1>0, <2>1, <2>2 DEF RunOK, Redeeming
  <2>4. Paid(n)' /\ Processed(n)' /\ Own(credential, n)' /\ OrderOf(n)' = OrderOf(n)
    BY <2>3, FactsStay DEF OrderOf
  <2>5. RunOK'
    BY <2>2, <2>3, <2>4 DEF RunOK, Redeeming
  <2> QED
    BY <1>2, <2>2, <2>5 DEF LiveInv
<1>14. CASE WriteEvidence
  <2>1. PICK n, credential, e :
          /\ n = run.source /\ credential = run.credential
          /\ e = [source |-> n, orderId |-> OrderOf(n), authorization |-> credential]
    OBVIOUS
  <2>2. evidence' = <<e>> /\ Throws /\ run.at = "evidence"
    BY <1>14, <2>1 DEF WriteEvidence
  <2>3. /\ n \in Nonce /\ Paid(n) /\ Processed(n) /\ Own(credential, n)
        /\ credential.authorizationId = OrderOf(n)
    BY <1>0, <2>1, <2>2 DEF RunOK, Redeeming
  <2>4. Paid(n)' /\ Processed(n)' /\ Own(credential, n)' /\ OrderOf(n)' = OrderOf(n)
    BY <2>3, FactsStay DEF OrderOf
  <2>5. e.source = n /\ e.orderId = OrderOf(n) /\ e.authorization = credential
    BY <2>1
  <2>6. EvidenceOK'
    BY <2>2, <2>3, <2>4, <2>5 DEF EvidenceOK
  <2> QED
    BY <2>2, <2>6, RunStops DEF LiveInv
<1> QED
  BY <1>3, <1>4, <1>5, <1>6, <1>8, <1>9, <1>10, <1>11, <1>12, <1>13, <1>14 DEF LiveStep

LEMMA LiveStays ==
  ASSUME ChainsInv, ChainsInv', Later, LiveInv, UNCHANGED liveVars
  PROVE  LiveInv'
BY RunStays, EvidenceStays DEF LiveInv, liveVars

-----------------------------------------------------------------------------
(* The invariant.                                                          *)

LEMMA EarlierPayment ==
  ASSUME NEW n \in Nonce, NEW duration \in 1 .. MaxDuration, Deployed, Rented(n, duration, DemoTariff),
         open # "live", job = "none", Configured(Customer, DemoMetadata)
  PROVE  ChainsInv
<1>1. PICK log, tx :
        /\ log = [address |-> Registry, orderId |-> OrderOf(n), machineId |-> RentedMachine,
                  payer |-> Customer, beneficiary |-> Customer, startTime |-> sepoliaTime,
                  duration |-> duration, amount |-> DemoTariff * duration]
        /\ tx = [from |-> Customer, to |-> Registry, status |-> 1, logs |-> <<log>>]
  OBVIOUS
<1>2. /\ sepoliaTime = 1 /\ creditcoinTime = 1 /\ paidOrders = {OrderOf(n)}
      /\ transactions = <<tx>> /\ processedOrders = {} /\ processedQueries = {}
      /\ accessCredentials = [m \in Machine |-> [a \in Account |-> NoCredential]]
  BY <1>1 DEF Deployed, Rented
<1>3. log \in RentalLog
  <2>1. DemoTariff * duration \in Amount
    <3>1. DemoTariff \in Price /\ duration \in 0 .. MaxDuration
      BY RentalsAssumption, LiveAssumption
    <3> QED
      BY <3>1, TokenAssumption
  <2> QED
    BY <1>1, <1>2, <2>1, RentalsAssumption DEF RentalLog
<1>4. tx \in RentalTransaction /\ Len(tx.logs) = 1 /\ tx.logs[1] = log /\ log.orderId = OrderOf(n)
      /\ log.beneficiary = Customer
  BY <1>1, <1>3 DEF RentalTransaction
<1>5. /\ transactions \in Seq(RentalTransaction) /\ DOMAIN transactions = {1}
      /\ transactions[1] = tx
  BY <1>2, <1>4
<1>6. LogOf(1) = log /\ \A i \in DOMAIN transactions : i = 1
  BY <1>4, <1>5 DEF LogOf
<1>7. /\ machineOffers \in [OrZero(Machine) -> Offer]
      /\ machineOffers[RentedMachine].beneficiary = Customer
  BY RentalsAssumption, LiveAssumption, BoundsAreNat
  DEF Configured, OwnOffer, NoOffer, Offer, OrZero, Price
<1>8. HistoryOK
  BY <1>2, <1>4, <1>5, <1>6, <1>7 DEF HistoryOK
<1>9. Credential = NoCredential
  BY <1>2, RentalsAssumption DEF Credential, Account
<1>10. RedemptionOK
  <2>1. accessCredentials \in [Machine -> [Account -> [authorizationId : OrZero(Order), expiresAt : Nat]]]
    BY <1>2 DEF NoCredential, OrZero
  <2>2. OrderOf(n) # Zero
    BY SepoliaAssumption, RentalsAssumption DEF OrderOf, OrderId, Order, Account
  <2> QED
    BY <1>2, <1>4, <1>6, <1>9, <2>1, <2>2 DEF RedemptionOK, NoCredential, OrZero
<1>11. MachinesTypeOK /\ machines[RentedMachine].owner = Customer
  BY RentalsAssumption, LiveAssumption, BoundsAreNat
  DEF Configured, OwnMachine, NoMachine, MachinesTypeOK, MachineRecord, OrZero, Price
<1>12. PolicyOK
  BY <1>4, <1>6, <1>7, <1>11 DEF PolicyOK
<1> QED
  BY <1>8, <1>10, <1>12 DEF ChainsInv, JobOK

LEMMA NoPayment ==
  ASSUME Deployed, Unrented, open = "live", job = "none",
         machineOffers \in [OrZero(Machine) -> Offer]
  PROVE  ChainsInv
<1>1. /\ sepoliaTime = 1 /\ creditcoinTime = 1 /\ paidOrders = {}
      /\ transactions = <<>> /\ processedOrders = {} /\ processedQueries = {}
      /\ accessCredentials = [m \in Machine |-> [a \in Account |-> NoCredential]]
  BY DEF Deployed, Unrented
<1>2. HistoryOK
  BY <1>1 DEF HistoryOK
<1>3. Credential = NoCredential
  BY <1>1, RentalsAssumption DEF Credential, Account
<1>4. accessCredentials \in [Machine -> [Account -> [authorizationId : OrZero(Order), expiresAt : Nat]]]
  BY <1>1 DEF NoCredential, OrZero
<1>5. RedemptionOK
  BY <1>1, <1>3, <1>4 DEF RedemptionOK, NoCredential, OrZero
<1> QED
  BY <1>2, <1>5 DEF ChainsInv, JobOK, PolicyOK

LEMMA ViewsInit ==
  Init => ViewsInv
<1> SUFFICES ASSUME Init
             PROVE  ViewsInv
  OBVIOUS
<1>1. Deployed /\ job = "none" /\ load = NoLoad /\ shown = "nothing" /\ lookup = NoLookup
      /\ verdict = NoVerdict /\ run = Stopped /\ evidence = <<>>
  BY DEF Init, RentalsInit, ActivityInit, ExplorerInit, LiveInit
<1>2. ActivityInv
  BY <1>1 DEF ActivityInv, LoadOK, ShownOK, NoLoad, IsListed
<1>3. ExplorerInv
  BY <1>1 DEF ExplorerInv, LookupOK, VerdictOK, NoLookup, NoVerdict
<1>4. LiveInv
  BY <1>1 DEF LiveInv, RunOK, EvidenceOK, Stopped, Redeeming
<1>5. CASE open \in {"activity", "proof"} /\ Configured(Customer, DemoMetadata)
           /\ \E n \in Nonce \ {Viewed}, duration \in 1 .. MaxDuration :
                Rented(n, duration, DemoTariff)
  <2>1. ChainsInv
    BY <1>1, <1>5, EarlierPayment
  <2> QED
    BY <1>2, <1>3, <1>4, <2>1 DEF ViewsInv
<1>6. CASE open = "live" /\ Unrented
           /\ (Unconfigured \/ \E controller \in Controller, hash \in MetadataHash :
                                 Configured(controller, hash))
  <2>1. machineOffers \in [OrZero(Machine) -> Offer]
    <3>1. OwnOffer(DemoTariff) \in Offer /\ NoOffer \in Offer
      BY RentalsAssumption, LiveAssumption, BoundsAreNat DEF OwnOffer, NoOffer, Offer, OrZero, Price
    <3> QED
      BY <1>6, <3>1 DEF Unconfigured, Configured
  <2>2. ChainsInv
    BY <1>1, <1>6, <2>1, NoPayment
  <2> QED
    BY <1>2, <1>3, <1>4, <2>2 DEF ViewsInv
<1> QED
  BY <1>5, <1>6, ViewsAssumption DEF Init

LEMMA ViewsNext ==
  ViewsInv /\ [Next]_vars => ViewsInv'
<1> SUFFICES ASSUME ViewsInv, [Next]_vars
             PROVE  ViewsInv'
  OBVIOUS
<1>1. ChainsInv /\ ChainsInv' /\ Later /\ ActivityInv /\ ExplorerInv /\ LiveInv
  BY StepSettles DEF ViewsInv
<1>2. ActivityInv'
  <2>1. (ActivityStep \/ LoadFails) \/ UNCHANGED activityVars
    BY DEF Next, Steps, Faults, Visits, vars
  <2> QED
    BY <1>1, <2>1, ActivityKeeps, ActivityStays
<1>3. ExplorerInv'
  <2>1. (open = "proof" /\ (ExplorerStep \/ LookupFails \/ Reopened)) \/ UNCHANGED explorerVars
    BY DEF Next, Steps, Faults, Visits, vars
  <2> QED
    BY <1>1, <2>1, ExplorerKeeps, ExplorerStays
<1>4. LiveInv'
  <2>1. (open = "live" /\ UNCHANGED open /\ (LiveStep \/ Dies)) \/ UNCHANGED liveVars
    BY DEF Next, Steps, Faults, Visits, vars
  <2> QED
    BY <1>1, <2>1, LiveKeeps, LiveStays
<1> QED
  BY <1>1, <1>2, <1>3, <1>4 DEF ViewsInv

(***************************************************************************)
(* What the three views have read, while they read it, stays sound: an     *)
(* answer may be overtaken by the chains, but only in the direction in     *)
(* which activity.ts, proof.ts and live-mvp.ts draw their conclusions.     *)
(***************************************************************************)
THEOREM ViewsInvariant == Spec => []ViewsInv
<1>1. Init => ViewsInv
  BY ViewsInit
<1>2. ViewsInv /\ [Next]_vars => ViewsInv'
  BY ViewsNext
<1> QED
  BY <1>1, <1>2, PTL DEF Spec

(***************************************************************************)
(* "Payment window expired before access" (correlateRental, activity.ts)   *)
(* is never taken back: the block whose time closed the window was read    *)
(* before the order was asked for, and a redemption after that time is     *)
(* refused by ProofKeyASC.                                                 *)
(***************************************************************************)
THEOREM ClosedWindows == Spec => []WindowClosedIsFinal
<1>1. ViewsInv => WindowClosedIsFinal
  BY DEF ViewsInv, ActivityInv, ShownOK, WindowClosedIsFinal
<1> QED
  BY <1>1, ViewsInvariant, PTL

(***************************************************************************)
(* A payment the activity view calls superseded was redeemed, and the      *)
(* customer's credential is now of another, longer payment: the activation *)
(* seen in an earlier block makes a credential of the order's own the only *)
(* alternative to a longer one.                                            *)
(***************************************************************************)
THEOREM SupersededPayments == Spec => []SupersededIsTrue
<1>1. ViewsInv => SupersededIsTrue
  <2> SUFFICES ASSUME ViewsInv, shown = "Access superseded"
               PROVE  /\ Processed(Viewed) /\ Credential.authorizationId # OrderOf(Viewed)
                      /\ Credential.expiresAt > ExpiresAt(PaymentOf(Viewed))
    BY DEF SupersededIsTrue
  <2>1. Processed(Viewed) /\ Outlived(Viewed) /\ ChainsInv /\ Viewed \in Nonce
    BY RentalsAssumption DEF ViewsInv, ActivityInv, ShownOK
  <2>2. Paid(Viewed)
    BY <2>1 DEF ChainsInv, RedemptionOK, Processed, Paid
  <2>3. WindowOf(Viewed) \in Nat /\ Credential.expiresAt > WindowOf(Viewed)
    BY <2>1, <2>2, PaymentFound DEF ChainsInv, Outlived
  <2>4. Own(Credential, Viewed)
    BY <2>1, <2>2, OwnOrOutlived
  <2>5. Credential.authorizationId # OrderOf(Viewed)
    <3>1. PICK window : window = WindowOf(Viewed)
      OBVIOUS
    <3>2. window \in Nat /\ Credential.expiresAt \in Nat /\ Credential.expiresAt > window
      BY <2>1, <2>3, <3>1, CustomerHasPass DEF ChainsInv
    <3>3. Credential.expiresAt # window
      BY <3>2, InOrder
    <3> QED
      BY <2>4, <3>1, <3>3 DEF Own
  <2> QED
    BY <2>1, <2>3, <2>5 DEF WindowOf
<1> QED
  BY <1>1, ViewsInvariant, PTL

(***************************************************************************)
(* The proof page shows "Invariant mismatch" for a settled payment only    *)
(* when a longer payment superseded its credential or the owner changed    *)
(* the policy: never because the rows of computeProofInvariants were       *)
(* filled from different moments of the redemption.                        *)
(***************************************************************************)
THEOREM Mismatches == Spec => []MismatchHasReason
<1>1. ViewsInv => MismatchHasReason
  BY DEF ViewsInv, ExplorerInv, VerdictOK, MismatchHasReason, Outlived, WindowOf
<1> QED
  BY <1>1, ViewsInvariant, PTL

(***************************************************************************)
(* verify-live.ts confirms what live-mvp.ts recorded, at any later moment, *)
(* unless the two files are of two runs or a longer payment has superseded *)
(* the recorded credential.                                                *)
(***************************************************************************)
THEOREM RecordsVerify == Spec => []RecordedRunsVerify
<1>1. ViewsInv => RecordedRunsVerify
  <2> SUFFICES ASSUME ViewsInv, evidence # <<>>, FixtureMatches,
                      ~(Credential.expiresAt > evidence[1].authorization.expiresAt)
               PROVE  VerifyLive
    BY DEF RecordedRunsVerify
  <2>1. PICK e : e = evidence[1]
    OBVIOUS
  <2>2. /\ e.source \in Nonce /\ Paid(e.source) /\ Processed(e.source)
        /\ e.orderId = OrderOf(e.source) /\ e.authorization.authorizationId = e.orderId
        /\ Own(e.authorization, e.source) /\ ChainsInv
    BY <2>1 DEF ViewsInv, LiveInv, EvidenceOK
  <2>3. e.authorization.expiresAt = WindowOf(e.source)
    BY <2>2 DEF Own
  <2>4. Credential.authorizationId = OrderOf(e.source) /\ Credential.expiresAt = WindowOf(e.source)
    BY <2>1, <2>2, <2>3, OwnOrOutlived DEF Own, Outlived
  <2>5. CredentialMatches
    BY <2>1, <2>2, <2>3, <2>4 DEF CredentialMatches
  <2>6. QueryId(SepoliaChainKey, SourceOf(e.source)) \in processedQueries
    BY <2>2, PaymentFound DEF ChainsInv, RedemptionOK, Processed
  <2> QED
    BY <2>1, <2>2, <2>5, <2>6 DEF VerifyLive, ReceiptsVerify
<1> QED
  BY <1>1, ViewsInvariant, PTL
=============================================================================
