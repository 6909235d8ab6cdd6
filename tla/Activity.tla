------------------------------ MODULE Activity ------------------------------
(***************************************************************************)
(* The customer's activity view (apps/web/src/activity.ts under            *)
(* pages/ActivityPage.tsx).  Every 15 seconds it lists the account's       *)
(* payments, takes the time and the activation logs of Creditcoin's latest *)
(* block, asks four sources about each payment at once, and correlates the *)
(* answers.  The records do not depend on one another: the model follows   *)
(* the one of the viewed payment.                                          *)
(***************************************************************************)
EXTENDS Rentals

VARIABLES
  load,   \* answers of the load that is under way, <<>> for none yet
  shown   \* the state label the page shows for the viewed payment

activityVars == <<load, shown>>

NoLoad ==
  [listed |-> <<>>, block |-> <<>>, job |-> <<>>, processed |-> <<>>, pass |-> <<>>]

Active == "Machine access active"
Expired == {"Access expired", "Access superseded"}
ActivityInit == load = NoLoad /\ shown = "nothing"

Answered(field, value) == load' = [load EXCEPT ![field] = <<value>>]
Asking == UNCHANGED <<Chains, rentalVars, shown>>

-----------------------------------------------------------------------------
\* What the browser remembers, and the account's payments: the list follows the
\* page's render, so a remembered payment may be mined when it is not yet listed.
ListRentals ==
  /\ load = NoLoad
  /\ Answered("listed", [paid |-> Paid(Viewed), optimistic |-> stored])
  /\ Asking

\* The ProofKeyAccessActivated logs of the order up to the latest block.  With
\* the order's topic in the place of the query's there are none.
MisplacedTopic == {}
ActivationLogs == {OrderOf(Viewed)} \cap processedOrders

ReadBlock ==
  /\ load.listed # <<>> /\ load.block = <<>>
  /\ Answered("block", [timestamp |-> creditcoinTime, activated |-> ActivationLogs # {}])
  /\ Asking

\* The four sources are asked once the block is known, and not before.
Unordered == TRUE
BlockKnown == load.block # <<>>

IsListed == load.listed # <<>> /\ load.listed[1].paid

\* The relay, ProofKeyASC, and AccessPass with its two answers of one batch.
AskSources ==
  /\ IsListed /\ BlockKnown
  /\ \/ /\ load.job = <<>>
        /\ \/ Answered("job", job) /\ Asking
           \/ /\ Answered("job", "error") /\ Mishap
              /\ UNCHANGED <<Chains, stored, job, shown>>
     \/ load.processed = <<>> /\ Answered("processed", Processed(Viewed)) /\ Asking
     \/ /\ load.pass = <<>>
        /\ Answered("pass", [credential |-> Credential,
                             authorized |-> IsAuthorized(RentedMachine, Customer)])
        /\ Asking

-----------------------------------------------------------------------------
Answers ==
  [job |-> IF load.job[1] = "error" THEN "none" ELSE load.job[1],
   processed |-> load.processed[1], credential |-> load.pass[1].credential,
   authorized |-> load.pass[1].authorized, activated |-> load.block[1].activated,
   timestamp |-> load.block[1].timestamp]

\* Without the question for the activation's log.
TrustsProcessed(chain) == chain.job = "completed" /\ ~chain.processed

\* correlationConflict; that a job belongs to another payment cannot happen here.
Conflict(chain) ==
  \/ chain.processed /\ ~chain.activated
  \/ chain.job = "completed" /\ ~chain.processed

OwnsCredential(chain) == chain.credential.authorizationId = OrderOf(Viewed)

correlateRental(payment, chain) ==
  IF Conflict(chain) THEN "Correlation conflict"
  ELSE IF chain.processed
  THEN IF ~OwnsCredential(chain) THEN "Access superseded"
       ELSE IF chain.authorized /\ chain.credential.expiresAt > chain.timestamp THEN Active
       ELSE "Access expired"
  ELSE IF chain.job = "failed" THEN "Proof relay failed"
  ELSE IF ExpiresAt(payment) <= chain.timestamp THEN "Payment window expired before access"
  ELSE IF chain.job # "none" THEN "Relay at work"
  ELSE "Payment needs proof submission"

\* An unreachable relay overrides every state but those of settled access.
\* (One order has one UsagePaid log, so duplicateOrders finds nothing.)
Corrected(label) ==
  IF load.job[1] = "error" /\ label \notin {Active} \cup Expired
  THEN "Relay service unavailable" ELSE label

\* A remembered payment is shown until the chain has a record of it.
mergeOptimisticRentals ==
  IF IsListed THEN Corrected(correlateRental(PaymentOf(Viewed), Answers))
  ELSE IF load.listed[1].optimistic THEN "Waiting for Sepolia confirmation" ELSE "nothing"

Loaded ==
  /\ load.block # <<>>
  /\ IsListed => \A field \in {"job", "processed", "pass"} : load[field] # <<>>
  /\ shown' = mergeOptimisticRentals
  /\ load' = NoLoad
  /\ UNCHANGED <<Chains, rentalVars>>

\* A node does not answer: the load is repeated, the page keeps its records.
LoadFails ==
  /\ load # NoLoad
  /\ Mishap
  /\ load' = NoLoad
  /\ UNCHANGED <<Chains, stored, job, shown>>

ActivityStep == ListRentals \/ ReadBlock \/ AskSources \/ Loaded

-----------------------------------------------------------------------------
(***************************************************************************)
(* "Payment window expired before access" is final: the order it is shown  *)
(* for was not and will never be redeemed, though its proof may be on the  *)
(* way while the page asks (the block's time is read before the order).    *)
(***************************************************************************)
WindowClosedIsFinal ==
  shown = "Payment window expired before access" => ~Processed(Viewed)

(***************************************************************************)
(* Only an order redeemed in favour of a longer window shows as            *)
(* superseded.  The credential is asked for while the order is, so it may  *)
(* be older than the redemption; that the activation lay in a block read   *)
(* before excludes it.                                                     *)
(***************************************************************************)
SupersededIsTrue ==
  shown = "Access superseded" =>
    /\ Processed(Viewed)
    /\ Credential.authorizationId # OrderOf(Viewed)
    /\ Credential.expiresAt > ExpiresAt(PaymentOf(Viewed))
=============================================================================
