------------------------------- MODULE Rentals -------------------------------
(***************************************************************************)
(* What the views of a customer's rentals read: the payments of one        *)
(* account for one machine on Sepolia, their redemption on Creditcoin, and *)
(* the relay's job of one of them, the viewed payment.  Payment nonces     *)
(* stand for transaction hashes: an order is paid by one transaction.      *)
(***************************************************************************)
EXTENDS ProofKeyASC

CONSTANTS
  RentedMachine,
  Customer,       \* the account whose rentals are shown
  Viewed,         \* nonce of the payment whose record is followed
  MaxMishaps      \* bound on policy changes, failed calls and crashes

VARIABLES
  stored,   \* the browser's record holds the viewed payment's hash
  job,      \* phase of the relay's job for the viewed payment
  mishaps

rentalVars == <<stored, job, mishaps>>
Chains == <<sepoliaVars, creditcoinVars>>

\* "queued" stands for the five phases of a relay at work, and "completed" for
\* "duplicate" too: the views tell them apart by their wording only.
FinalPhase == {"completed", "failed"}
JobPhase == {"none", "queued"} \cup FinalPhase

ASSUME RentalsAssumption ==
  /\ RentedMachine \in Machine /\ Customer \in Renter \cap Operator \cap Controller
  /\ Viewed \in Nonce
  /\ MaxMishaps \in Nat
  /\ MaxDuration \in Nat \ {0}

OrderOf(nonce) == OrderId(RentedMachine, Customer, nonce)
Paid(nonce) == OrderOf(nonce) \in paidOrders
SourceOf(nonce) ==
  CHOOSE i \in DOMAIN transactions :
    \E log \in RegistryLogs(transactions[i]) : log.orderId = OrderOf(nonce)
PaymentOf(nonce) == transactions[SourceOf(nonce)].logs[1]
Processed(nonce) == OrderOf(nonce) \in processedOrders
Credential == accessCredentials[RentedMachine][Customer]

\* The customer owns the machine and the registry, as the account of the
\* demonstration scripts does.
OwnMachine(controller, hash, tariff) ==
  [owner |-> Customer, controller |-> controller, metadataHash |-> hash, tariff |-> tariff,
   active |-> TRUE]
OwnOffer(tariff) ==
  [beneficiary |-> Customer, pricePerSecond |-> tariff, active |-> TRUE]

\* Contracts deployed and connected; Sepolia's clock stands at 1.
Deployed ==
  /\ administrator = Customer
  /\ attestcoinAuthorizer = ProofKeyAsc
  /\ accessCredentials = [m \in Machine |-> [a \in Account |-> NoCredential]]
  /\ processedQueries = {} /\ processedOrders = {}
  /\ sepoliaTime = 1 /\ creditcoinTime = 1
Unrented == paidOrders = {} /\ transactions = <<>> /\ attested = 0

\* An earlier payment, of any length, that nobody has redeemed yet.
Rented(nonce, duration, tariff) ==
  /\ paidOrders = {OrderOf(nonce)}
  /\ transactions =
       <<[from |-> Customer, to |-> Registry, status |-> 1,
          logs |-> <<[address |-> Registry, orderId |-> OrderOf(nonce),
                      machineId |-> RentedMachine, payer |-> Customer,
                      beneficiary |-> Customer, startTime |-> sepoliaTime,
                      duration |-> duration, amount |-> tariff * duration]>>]>>
  /\ attested = 1

RentalsInit ==
  /\ Deployed
  /\ stored = FALSE
  /\ job = "none"
  /\ mishaps = 0

Mishap == mishaps < MaxMishaps /\ mishaps' = mishaps + 1

-----------------------------------------------------------------------------
\* The checkout has the viewed payment signed and stores its hash.
Sign ==
  /\ ~stored /\ ~Paid(Viewed)
  /\ stored' = TRUE
  /\ UNCHANGED <<Chains, job, mishaps>>

\* A payment of the account is mined, whichever program signed it.
Pay(nonce, duration) ==
  /\ ~Paid(nonce)
  /\ PayForUsage(Customer, Customer, RentedMachine, duration, nonce)
  /\ UNCHANGED <<creditcoinVars, rentalVars>>

\* Anybody's proof, the relay's too.
Redeem ==
  /\ \E i \in DOMAIN transactions : Execute(AuthorizeAccessAction, SepoliaChainKey, i)
  /\ UNCHANGED <<sepoliaVars, rentalVars>>

OwnerChangesPolicy ==
  /\ \/ \E tariff \in Price : UpdateTariff(Customer, RentedMachine, tariff)
     \/ \E active \in BOOLEAN : SetMachineActive(Customer, RentedMachine, active)
  /\ machines' # machines
  /\ Mishap
  /\ UNCHANGED <<sepoliaVars, passVars, creditcoinTime, ascVars, attested, stored, job>>

Clocks ==
  /\ Attest \/ CreditcoinTick
  /\ UNCHANGED <<sepoliaVars, rentalVars>>

\* POST /jobs by the checkout, the activity view or anybody else.
Enqueue ==
  /\ job = "none" /\ (stored \/ Paid(Viewed))
  /\ job' = "queued"
  /\ UNCHANGED <<Chains, stored, mishaps>>

\* The relay reports success only for a processed order (Relay!SuccessIsReal).
RelayStep ==
  /\ job = "queued"
  /\ \/ Processed(Viewed) /\ job' = "completed"
     \/ job' = "failed"
  /\ UNCHANGED <<Chains, stored, mishaps>>

\* What anybody may do to the chains, and what the customer's pages and the
\* relay make of it.
ChainsNext ==
  \/ \E n \in Nonce, duration \in 1 .. MaxDuration : Pay(n, duration)
  \/ Redeem \/ OwnerChangesPolicy \/ Clocks

RelayNext == Sign \/ Enqueue \/ RelayStep
=============================================================================
