------------------------------- MODULE LiveRun -------------------------------
(***************************************************************************)
(* The live demonstration (apps/worker/src/live-mvp.ts) and the command    *)
(* that verifies its record (verify-live.ts).  One run configures the      *)
(* machine on both chains, pays for it or takes up a payment named by its  *)
(* environment, redeems the payment itself, and writes two files: the      *)
(* proof fixture and the evidence.  A run that dies is started again.      *)
(* Every transaction is awaited, so a send and its receipt are one step.   *)
(***************************************************************************)
EXTENDS Rentals

CONSTANTS DemoTariff, DemoDuration, DemoMetadata

VARIABLES
  run,      \* where the script is, what it has read and decided
  fixture,  \* recorded-live-proof.json: the payment proved, Zero for no file
  evidence  \* live-mvp.json, <<>> for no file

liveVars == <<run, fixture, evidence>>

ASSUME LiveAssumption ==
  /\ DemoTariff \in Price \ {0}
  /\ DemoDuration \in 1 .. MaxDuration
  /\ DemoMetadata \in MetadataHash

Stopped == [at |-> "stopped", plan |-> <<>>, source |-> Zero, credential |-> NoCredential]
LiveInit == run = Stopped /\ fixture = Zero /\ evidence = <<>>

Files == <<fixture, evidence>>
Quiet == UNCHANGED <<Chains, rentalVars>>
Goes(at) == run' = [run EXCEPT !.at = at]
Throws == run' = Stopped

DemoAmount == DemoTariff * DemoDuration

Start ==
  /\ run = Stopped
  /\ Goes("machine")
  /\ Quiet /\ UNCHANGED Files

\* configureMachine: the updates are decided from one read.
Differences(current) ==
  LET If(differs, method) == IF differs THEN <<method>> ELSE <<>> IN
  IF current.owner = Zero THEN <<"registerMachine">>
  ELSE If(current.controller # Customer, "updateController")
       \o If(current.metadataHash # DemoMetadata, "updateMetadataHash")
       \o If(current.tariff # DemoTariff, "updateTariff")
       \o If(~current.active, "setMachineActive")

ReadMachine ==
  /\ run.at = "machine"
  /\ LET current == machines[RentedMachine] IN
     run' = IF current.owner \in {Zero, Customer}
            THEN [run EXCEPT !.at = "configure", !.plan = Differences(current)] ELSE Stopped
  /\ Quiet /\ UNCHANGED Files

Configure ==
  /\ run.at = "configure" /\ run.plan # <<>>
  /\ \/ /\ Head(run.plan) = "registerMachine"
        /\ RegisterMachine(Customer, RentedMachine, Customer, DemoMetadata, DemoTariff, TRUE)
     \/ /\ Head(run.plan) = "updateController"
        /\ UpdateController(Customer, RentedMachine, Customer)
     \/ /\ Head(run.plan) = "updateMetadataHash"
        /\ UpdateMetadataHash(Customer, RentedMachine, DemoMetadata)
     \/ /\ Head(run.plan) = "updateTariff"
        /\ UpdateTariff(Customer, RentedMachine, DemoTariff)
     \/ /\ Head(run.plan) = "setMachineActive"
        /\ SetMachineActive(Customer, RentedMachine, TRUE)
  /\ run' = [run EXCEPT !.plan = Tail(@)]
  /\ UNCHANGED <<sepoliaVars, passVars, creditcoinTime, ascVars, attested, rentalVars, Files>>

ConfigureOffer ==
  /\ run.at = "configure" /\ run.plan = <<>>
  /\ \/ owner # Customer /\ Throws /\ UNCHANGED sepoliaVars
     \/ /\ owner = Customer /\ Goes("source")
        /\ IF machineOffers[RentedMachine] = OwnOffer(DemoTariff) THEN UNCHANGED sepoliaVars
           ELSE SetMachineOffer(Customer, RentedMachine, Customer, DemoTariff, TRUE)
  /\ UNCHANGED <<creditcoinVars, rentalVars, Files>>

\* DEMO_SOURCE_TRANSACTION_HASH names a payment made before, or is not set.
ChooseSource ==
  /\ run.at = "source"
  /\ \/ \E n \in Nonce :
          /\ Paid(n)
          /\ run' = [run EXCEPT !.at = "prove", !.source = n]
     \/ Goes("mint")
  /\ Quiet /\ UNCHANGED Files

\* The missing tokens, and an approval of exactly the amount.
MintMissing ==
  /\ run.at = "mint"
  /\ IF balanceOf[Customer] >= DemoAmount THEN UNCHANGED tokenVars
     ELSE Mint(Customer, DemoAmount - balanceOf[Customer])
  /\ Goes("approve")
  /\ UNCHANGED <<registryVars, transactions, sepoliaTime, creditcoinVars, rentalVars, Files>>

ApproveMissing ==
  /\ run.at = "approve"
  /\ IF allowance[Customer][Registry] >= DemoAmount THEN UNCHANGED tokenVars
     ELSE Approve(Customer, Registry, DemoAmount)
  /\ Goes("pay")
  /\ UNCHANGED <<registryVars, transactions, sepoliaTime, creditcoinVars, rentalVars, Files>>

\* Another program may have spent the approval: then the payment reverts.
PayUsage ==
  /\ run.at = "pay"
  /\ UNCHANGED Files
  /\ \/ \E n \in Nonce :
          /\ n = Viewed => ~stored   \* the browser's transaction is its own
          /\ Pay(n, DemoDuration)
          /\ run' = [run EXCEPT !.at = "prove", !.source = n]
     \/ /\ allowance[Customer][Registry] < machineOffers[RentedMachine].pricePerSecond
                                            * DemoDuration
        /\ Throws /\ Quiet

\* Attested, proved and submitted: execute succeeds or the script ends.
SubmitProof ==
  /\ run.at = "prove" /\ SourceOf(run.source) <= attested
  /\ \/ /\ Execute(AuthorizeAccessAction, SepoliaChainKey, SourceOf(run.source))
        /\ Goes("credential")
        /\ UNCHANGED <<sepoliaVars, rentalVars>>
     \/ /\ Processed(run.source) \/ ~ValidUsagePayment(transactions[SourceOf(run.source)])
           \/ Credential.expiresAt >= ExpiresAt(PaymentOf(run.source))
        /\ Throws /\ Quiet
  /\ UNCHANGED Files

ReadCredential ==
  /\ run.at = "credential"
  /\ run' = [run EXCEPT !.at = "authorized", !.credential = Credential]
  /\ Quiet /\ UNCHANGED Files

\* The credential must be this payment's, and the one that lets the payer in.
AnyAuthorization(source, credential) == IsAuthorized(RentedMachine, Customer)
Activated(source, credential) ==
  /\ IsAuthorized(RentedMachine, Customer)
  /\ credential.authorizationId = OrderOf(source)

CheckActivation ==
  /\ run.at = "authorized"
  /\ IF Activated(run.source, run.credential) THEN Goes("fixture") ELSE Throws
  /\ Quiet /\ UNCHANGED Files

WriteFixture ==
  /\ run.at = "fixture"
  /\ fixture' = run.source
  /\ Goes("evidence")
  /\ Quiet /\ UNCHANGED evidence

WriteEvidence ==
  /\ run.at = "evidence"
  /\ evidence' = <<[source |-> run.source, orderId |-> OrderOf(run.source),
                    authorization |-> run.credential]>>
  /\ Throws   \* the script ends
  /\ Quiet /\ UNCHANGED fixture

\* A crash, an RPC error or a timeout, between any two of these.
Dies ==
  /\ run # Stopped
  /\ Mishap
  /\ Throws
  /\ UNCHANGED <<Chains, stored, job, Files>>

LiveStep ==
  \/ Start \/ ReadMachine \/ Configure \/ ConfigureOffer \/ ChooseSource \/ MintMissing
  \/ ApproveMissing \/ PayUsage \/ SubmitProof \/ ReadCredential \/ CheckActivation
  \/ WriteFixture \/ WriteEvidence

-----------------------------------------------------------------------------
(* verify-live.ts: the recorded files against both chains.                 *)

FixtureMatches == fixture = evidence[1].source

ReceiptsVerify ==
  /\ Paid(evidence[1].source)
  /\ QueryId(SepoliaChainKey, SourceOf(evidence[1].source)) \in processedQueries

CredentialMatches ==
  /\ Processed(evidence[1].source)
  /\ Credential.authorizationId = evidence[1].orderId
  /\ evidence[1].authorization.authorizationId = evidence[1].orderId
  /\ Credential.expiresAt = evidence[1].authorization.expiresAt

VerifyLive == FixtureMatches /\ ReceiptsVerify /\ CredentialMatches

(***************************************************************************)
(* What a run recorded verifies: once the evidence is written, the command *)
(* confirms it whenever it is run, unless the files were left by two runs  *)
(* of which the second died between them, or a longer payment of the same  *)
(* account has superseded the recorded credential.                         *)
(***************************************************************************)
RecordedRunsVerify ==
  evidence # <<>> =>
    \/ VerifyLive
    \/ ~FixtureMatches
    \/ Credential.expiresAt > evidence[1].authorization.expiresAt
=============================================================================
