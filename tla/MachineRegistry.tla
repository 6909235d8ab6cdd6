--------------------------- MODULE MachineRegistry ---------------------------
(***************************************************************************)
(* Machine identity and policy on Creditcoin (contracts/MachineRegistry.sol)*)
(* Every mutator but registerMachine is restricted to the machine's owner, *)
(* whom nothing changes after registration.                                *)
(***************************************************************************)
EXTENDS Domain

CONSTANTS
  Controller,   \* addresses of the devices' signing keys
  MetadataHash  \* commitments to machine metadata documents

VARIABLE machines

NoMachine ==
  [owner |-> Zero, controller |-> Zero, metadataHash |-> Zero, tariff |-> 0,
   active |-> FALSE]

MachineRecord ==
  [owner : OrZero(Operator), controller : OrZero(Controller),
   metadataHash : OrZero(MetadataHash), tariff : Price, active : BOOLEAN]

ASSUME MachineAssumption == Zero \notin Controller \cup MetadataHash

MachinesTypeOK == machines \in [OrZero(Machine) -> MachineRecord]

MachinesInit == machines = [m \in OrZero(Machine) |-> NoMachine]

RegisterMachine(caller, machineId, controller, metadataHash, tariff, active) ==
  /\ machineId # Zero
  /\ machines[machineId].owner = Zero
  /\ controller # Zero
  /\ metadataHash # Zero
  /\ tariff # 0
  /\ machines' = [machines EXCEPT ![machineId] =
        [owner |-> caller, controller |-> controller, metadataHash |-> metadataHash,
         tariff |-> tariff, active |-> active]]

OnlyMachineOwner(caller, machineId) ==
  /\ machines[machineId].owner # Zero
  /\ machines[machineId].owner = caller

UpdateController(caller, machineId, controller) ==
  /\ OnlyMachineOwner(caller, machineId)
  /\ controller # Zero
  /\ machines' = [machines EXCEPT ![machineId].controller = controller]

UpdateMetadataHash(caller, machineId, metadataHash) ==
  /\ OnlyMachineOwner(caller, machineId)
  /\ metadataHash # Zero
  /\ machines' = [machines EXCEPT ![machineId].metadataHash = metadataHash]

UpdateTariff(caller, machineId, tariff) ==
  /\ OnlyMachineOwner(caller, machineId)
  /\ tariff # 0
  /\ machines' = [machines EXCEPT ![machineId].tariff = tariff]

SetMachineActive(caller, machineId, active) ==
  /\ OnlyMachineOwner(caller, machineId)
  /\ machines' = [machines EXCEPT ![machineId].active = active]

MachinesNext ==
  \E caller \in Operator, machineId \in OrZero(Machine) :
    \/ \E controller \in OrZero(Controller), hash \in OrZero(MetadataHash),
          tariff \in Price, active \in BOOLEAN :
         RegisterMachine(caller, machineId, controller, hash, tariff, active)
    \/ \E controller \in OrZero(Controller) : UpdateController(caller, machineId, controller)
    \/ \E hash \in OrZero(MetadataHash) : UpdateMetadataHash(caller, machineId, hash)
    \/ \E tariff \in Price : UpdateTariff(caller, machineId, tariff)
    \/ \E active \in BOOLEAN : SetMachineActive(caller, machineId, active)
=============================================================================
