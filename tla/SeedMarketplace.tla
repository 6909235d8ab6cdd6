--------------------------- MODULE SeedMarketplace ---------------------------
(***************************************************************************)
(* The catalog maintenance command (apps/worker/src/seed-marketplace.ts):  *)
(* entry by entry it reads Creditcoin, sends what differs, then compares   *)
(* and repairs the Sepolia offer, and verifies both before it goes on.     *)
(* Each transaction is awaited, so a send and its receipt are one step.    *)
(***************************************************************************)
EXTENDS Marketplace

CONSTANTS
  Deployer,  \* the account of DEPLOYER_PRIVATE_KEY
  Catalog    \* the entries of machine-catalog.json, in order

VARIABLE seed

ASSUME SeedAssumption ==
  /\ Deployer \in Operator \cap Controller
  /\ Catalog \in Seq([machineId : Machine, metadataHash : MetadataHash, tariff : Price \ {0}])
  /\ Catalog # <<>>   \* assertCatalog asks for five entries and no duplicate
  /\ \A i, j \in DOMAIN Catalog : Catalog[i].machineId = Catalog[j].machineId => i = j

SeedTypeOK ==
  /\ seed.at \in {"idle", "reading", "updating", "offering", "verifying"}
  /\ seed.index \in 0 .. Len(Catalog)
  /\ Len(seed.plan) <= 4

Stopped == [at |-> "idle", index |-> 0, plan |-> <<>>]
SeedInit == seed = Stopped

Entry == Catalog[seed.index]
EntryCall(method, entry) ==
  [method |-> method, machineId |-> entry.machineId, controller |-> Deployer,
   metadataHash |-> entry.metadataHash, tariff |-> entry.tariff, active |-> TRUE,
   beneficiary |-> Deployer]

RegisteredAs(entry) ==
  machines[entry.machineId] =
    [owner |-> Deployer, controller |-> Deployer, metadataHash |-> entry.metadataHash,
     tariff |-> entry.tariff, active |-> TRUE]
OfferedAs(entry) ==
  machineOffers[entry.machineId] =
    [beneficiary |-> Deployer, pricePerSecond |-> entry.tariff, active |-> TRUE]
Published(entry) == RegisteredAs(entry) /\ OfferedAs(entry)

Quiet == UNCHANGED <<marketVars, tokenVars, paidOrders, transactions, sepoliaTime>>

SeedStart ==
  /\ seed = Stopped
  /\ owner = Deployer
  /\ seed' = [Stopped EXCEPT !.at = "reading", !.index = 1]
  /\ Quiet

OnlyTariff(current, entry) ==
  IF current.owner = Zero THEN <<EntryCall("registerMachine", entry)>>
  ELSE IF current.tariff = entry.tariff THEN <<>> ELSE <<EntryCall("updateTariff", entry)>>

\* The updates a registered machine needs, decided from one read.
Updates(current, entry) ==
  LET If(differs, method) == IF differs THEN <<EntryCall(method, entry)>> ELSE <<>> IN
  IF current.owner = Zero THEN <<EntryCall("registerMachine", entry)>>
  ELSE If(current.controller # Deployer, "updateController")
       \o If(current.metadataHash # entry.metadataHash, "updateMetadataHash")
       \o If(current.tariff # entry.tariff, "updateTariff")
       \o If(~current.active, "setMachineActive")

SeedRead ==
  /\ seed.at = "reading"
  /\ LET current == machines[Entry.machineId] IN
     seed' = IF current.owner \in {Zero, Deployer}
             THEN [seed EXCEPT !.at = "updating", !.plan = Updates(current, Entry)]
             ELSE Stopped
  /\ Quiet

\* A transaction that reverts ends the run.
SeedSubmit ==
  /\ seed.at = "updating" /\ seed.plan # <<>>
  /\ \/ /\ MachineTransaction(Deployer, Head(seed.plan))
        /\ seed' = [seed EXCEPT !.plan = Tail(@)]
     \/ /\ Head(seed.plan).method = "registerMachine"
        /\ machines[Entry.machineId].owner # Zero
        /\ seed' = Stopped
        /\ Quiet

SeedOffer ==
  /\ seed.at = "updating" /\ seed.plan = <<>>
  /\ seed' = [seed EXCEPT !.at = IF OfferedAs(Entry) THEN "verifying" ELSE "offering"]
  /\ Quiet

SeedSetOffer ==
  /\ seed.at = "offering"
  /\ \/ /\ OfferTransaction(Deployer, EntryCall("setMachineOffer", Entry))
        /\ seed' = [seed EXCEPT !.at = "verifying"]
     \/ owner # Deployer /\ seed' = Stopped /\ Quiet

NextEntry(index) ==
  IF index = Len(Catalog) THEN Stopped
  ELSE [at |-> "reading", index |-> index + 1, plan |-> <<>>]

SeedVerify ==
  /\ seed.at = "verifying"
  /\ seed' = IF Published(Entry) THEN NextEntry(seed.index) ELSE Stopped
  /\ Quiet

\* An RPC fault or a crash; what was sent stays sent.
SeedAborts ==
  /\ seed # Stopped
  /\ seed' = Stopped
  /\ Quiet

SeedStep ==
  SeedStart \/ SeedRead \/ SeedSubmit \/ SeedOffer \/ SeedSetOffer \/ SeedVerify
=============================================================================
