----------------------------- MODULE AccessPass -----------------------------
(***************************************************************************)
(* Expiring, address-bound credentials on Creditcoin                       *)
(* (contracts/AccessPass.sol).  GrantAccess is an operator, not a step: the *)
(* only contract that can be the authorizer, ProofKeyASC, calls it from    *)
(* inside execute, and a revert in it reverts the whole transaction.       *)
(***************************************************************************)
EXTENDS MachineRegistry

CONSTANT ProofKeyAsc   \* address of the deployed ProofKeyASC contract

VARIABLES
  administrator,
  attestcoinAuthorizer,  \* Zero until the administrator sets it, once
  accessCredentials,     \* machineId -> beneficiary -> credential
  creditcoinTime         \* block.timestamp

passVars == <<administrator, attestcoinAuthorizer, accessCredentials>>

NoCredential == [authorizationId |-> Zero, expiresAt |-> 0]

ASSUME PassAssumption == ProofKeyAsc # Zero /\ ProofKeyAsc \notin Operator

\* Zero is also the authorization id of an unwritten credential.
PassTypeOK(Authorization) ==
  /\ administrator \in Operator
  /\ attestcoinAuthorizer \in {Zero, ProofKeyAsc}
  /\ accessCredentials \in
       [Machine -> [Account -> [authorizationId : OrZero(Authorization), expiresAt : Timestamp]]]
  /\ creditcoinTime \in Timestamp

PassInit ==
  /\ administrator \in Operator
  /\ attestcoinAuthorizer = Zero
  /\ accessCredentials = [m \in Machine |-> [a \in Account |-> NoCredential]]
  /\ creditcoinTime = 0

\* AccessNotExtended, and its omission.
ExtendsAnything(machineId, beneficiary, expiresAt) == TRUE
Extends(machineId, beneficiary, expiresAt) ==
  expiresAt > accessCredentials[machineId][beneficiary].expiresAt

GrantAccess(caller, authorizationId, machineId, beneficiary, expiresAt) ==
  /\ caller = attestcoinAuthorizer
  /\ authorizationId # Zero
  /\ beneficiary # Zero
  /\ expiresAt > creditcoinTime
  /\ machines[machineId].active
  /\ Extends(machineId, beneficiary, expiresAt)
  /\ accessCredentials' = [accessCredentials EXCEPT ![machineId][beneficiary] =
        [authorizationId |-> authorizationId, expiresAt |-> expiresAt]]
  /\ UNCHANGED <<administrator, attestcoinAuthorizer>>

\* A view: expiry and deactivation apply without a transaction.
IsAuthorized(machineId, beneficiary) ==
  /\ beneficiary # Zero
  /\ machines[machineId].active
  /\ accessCredentials[machineId][beneficiary].expiresAt > creditcoinTime

\* newAuthorizer.code.length # 0: of the addresses tried only ProofKeyASC has code.
HasCode(address) == address \in {ProofKeyAsc}

SetAttestcoinAuthorizer(caller, newAuthorizer) ==
  /\ caller = administrator
  /\ attestcoinAuthorizer = Zero
  /\ HasCode(newAuthorizer)
  /\ attestcoinAuthorizer' = newAuthorizer
  /\ UNCHANGED <<administrator, accessCredentials>>

TransferAdministration(caller, newAdministrator) ==
  /\ caller = administrator
  /\ newAdministrator # Zero
  /\ administrator' = newAdministrator
  /\ UNCHANGED <<attestcoinAuthorizer, accessCredentials>>

PassNext ==
  \E caller \in Operator :
    \/ \E newAuthorizer \in {Zero, ProofKeyAsc} \cup Operator :
         SetAttestcoinAuthorizer(caller, newAuthorizer)
    \/ \E newAdministrator \in OrZero(Operator) :
         TransferAdministration(caller, newAdministrator)
=============================================================================
