----------------------------- MODULE Marketplace -----------------------------
(***************************************************************************)
(* The public marketplace (apps/web/src/marketplace.ts): the event logs of *)
(* both registries are replayed into machines and offers, refreshed from   *)
(* contract state, and reconciled into one status per machine.  The        *)
(* operators' transactions appear here with the event each one emits.      *)
(***************************************************************************)
EXTENDS Listing, SequencesExt

CONSTANT LocalMetadata   \* commitments the web bundle itself can resolve

VARIABLES
  machineLogs,     \* events of MachineRegistry, oldest first
  offerLogs,       \* MachineOfferSet events of UsagePaymentRegistry
  machineMetadata  \* commitments of the documents the relay stores

marketVars == <<machines, machineOffers, owner, machineLogs, offerLogs, machineMetadata>>

ASSUME MetadataAssumption == LocalMetadata \subseteq MetadataHash

MarketInit ==
  /\ RegistryInit /\ TokenInit
  /\ MachinesInit
  /\ machineLogs = <<>>
  /\ offerLogs = <<>>
  /\ machineMetadata = {}

-----------------------------------------------------------------------------
(* The registries' transactions with their events.                         *)

EmitMachine(name, machineId) ==
  /\ machineLogs' = Append(machineLogs, [name |-> name, machineId |-> machineId,
                                         args |-> machines'[machineId]])
  /\ UNCHANGED <<sepoliaVars, offerLogs, machineMetadata>>

MachineTransaction(caller, call) ==
  LET m == call.machineId IN
  \/ /\ call.method = "registerMachine"
     /\ RegisterMachine(caller, m, call.controller, call.metadataHash, call.tariff, call.active)
     /\ EmitMachine("MachineRegistered", m)
  \/ /\ call.method = "updateController"
     /\ UpdateController(caller, m, call.controller)
     /\ EmitMachine("MachineControllerUpdated", m)
  \/ /\ call.method = "updateMetadataHash"
     /\ UpdateMetadataHash(caller, m, call.metadataHash)
     /\ EmitMachine("MachineMetadataUpdated", m)
  \/ /\ call.method = "updateTariff"
     /\ UpdateTariff(caller, m, call.tariff)
     /\ EmitMachine("MachineTariffUpdated", m)
  \/ /\ call.method = "setMachineActive"
     /\ SetMachineActive(caller, m, call.active)
     /\ EmitMachine("MachineStatusUpdated", m)

OfferTransaction(caller, call) ==
  /\ call.method = "setMachineOffer"
  /\ SetMachineOffer(caller, call.machineId, call.beneficiary, call.tariff, call.active)
  /\ offerLogs' = Append(offerLogs, [machineId |-> call.machineId,
                                     args |-> machineOffers'[call.machineId]])
  /\ UNCHANGED <<machines, machineLogs, machineMetadata>>

-----------------------------------------------------------------------------
(* Replay: logs in chain order, each overwriting the fields it names.      *)

OnlyRegistrations(replayed, log) ==
  IF log.name = "MachineRegistered" THEN [replayed EXCEPT ![log.machineId] = log.args]
  ELSE replayed

\* The fields a log names; only a registration makes a machine exist.
Overwritten(machine, log) ==
  CASE log.name = "MachineRegistered" -> log.args
    [] log.name = "MachineControllerUpdated" ->
         [machine EXCEPT !.controller = log.args.controller]
    [] log.name = "MachineMetadataUpdated" ->
         [machine EXCEPT !.metadataHash = log.args.metadataHash]
    [] log.name = "MachineTariffUpdated" -> [machine EXCEPT !.tariff = log.args.tariff]
    [] log.name = "MachineStatusUpdated" -> [machine EXCEPT !.active = log.args.active]

ReplayMachineLog(replayed, log) ==
  LET m == log.machineId IN
  IF log.name # "MachineRegistered" /\ replayed[m] = NoMachine THEN replayed
  ELSE [replayed EXCEPT ![m] = Overwritten(@, log)]

ReplayMachineLogs(logs) ==
  FoldLeft(ReplayMachineLog, [m \in OrZero(Machine) |-> NoMachine], logs)

ReplayOfferLog(replayed, log) == [replayed EXCEPT ![log.machineId] = log.args]

ReplayOfferLogs(logs) ==
  FoldLeft(ReplayOfferLog, [m \in OrZero(Machine) |-> NoOffer], logs)

\* Machines a replay lists; a machine whose event is not in it does not exist.
Listed(replayed) == {m \in Machine : replayed[m] # NoMachine}

-----------------------------------------------------------------------------
(***************************************************************************)
(* The event replay that discovers the machines and the contract state     *)
(* that prices them agree: replaying every log of both registries yields   *)
(* what machines() and machineOffers() return (marketplace.ts reads both   *)
(* and keeps the state; every mutator must emit the event of its change).  *)
(***************************************************************************)
ReplayMatchesState ==
  /\ ReplayMachineLogs(machineLogs) = machines
  /\ ReplayOfferLogs(offerLogs) = machineOffers
=============================================================================
