------------------------------- MODULE Listing -------------------------------
(***************************************************************************)
(* How the web application judges one machine from the two registries      *)
(* (apps/web/src/marketplace.ts, reconcileMarketplace), and the check the  *)
(* payment client repeats before money moves (contracts.ts, loadOffer).    *)
(***************************************************************************)
EXTENDS UsagePaymentRegistry, MachineRegistry

Synchronized(machine, offer) ==
  /\ offer # NoOffer
  /\ offer.beneficiary = machine.owner
  /\ offer.pricePerSecond = machine.tariff
  /\ offer.active = machine.active

ReconcileMarketplace(machine, offer, catalog) ==
  IF machine.metadataHash \notin catalog THEN "metadata-invalid"
  ELSE IF ~Synchronized(machine, offer) THEN "unsynchronized"
  ELSE IF machine.active /\ offer.active THEN "available" ELSE "inactive"

\* loadOffer throws unless owner and price agree; the offer it returns is
\* active only if both registries say so.
OfferLoads(machine, offer) ==
  /\ offer.beneficiary = machine.owner
  /\ offer.pricePerSecond = machine.tariff

OfferIsActive(machine, offer) == offer.active /\ machine.active
=============================================================================
