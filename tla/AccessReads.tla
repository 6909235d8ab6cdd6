---------------------------- MODULE AccessReads ----------------------------
(***************************************************************************)
(* Creditcoin as the terminals see it, and the reads they make of it.      *)
(* Terminals write nothing: the chain moves by executed payments, by the   *)
(* machine's owner and by its clock.                                       *)
(*                                                                         *)
(* A read is a Promise.all of separate calls, which the RPC answers from   *)
(* the state of the moment: the fields of one snapshot may stem from       *)
(* different blocks.  Batches says which calls are answered together; each *)
(* by itself is the general case, all at once the coarsest.                *)
(***************************************************************************)
EXTENDS AccessPass

CONSTANTS
  Order,      \* order ids of the payments relayed
  MaxChanges, \* bound on the owner's transactions
  Batches     \* a partition of Call

VARIABLES
  jobs,     \* completed relay jobs by order
  changes   \* the owner's transactions so far

chainVars == <<machines, passVars, creditcoinTime, jobs, changes>>

Call == {"isAuthorized", "accessCredentials", "machines", "getBlockNumber"}

NoJob == [machineId |-> Zero, payer |-> Zero, accessExpiresAt |-> 0]

Deployed(owner, controller, hash) ==
  [owner |-> owner, controller |-> controller, metadataHash |-> hash, tariff |-> MaxPrice,
   active |-> TRUE]

ASSUME ReadsAssumption == Zero \notin Order /\ MaxChanges \in Nat /\ MaxPrice > 0
ASSUME BatchesAssumption == UNION Batches = Call /\ {} \notin Batches

ChainTypeOK ==
  /\ MachinesTypeOK
  /\ PassTypeOK(Order)
  /\ jobs \in [Order ->
       [machineId : OrZero(Machine), payer : OrZero(Account), accessExpiresAt : Timestamp]]
  /\ changes \in 0 .. MaxChanges

ChainInit ==
  /\ \E owner \in Operator, controller \in Controller, hash \in MetadataHash :
       machines = [m \in OrZero(Machine) |->
                     IF m = Zero THEN NoMachine ELSE Deployed(owner, controller, hash)]
  /\ administrator \in Operator
  /\ attestcoinAuthorizer = ProofKeyAsc
  /\ accessCredentials = [m \in Machine |-> [a \in Account |-> NoCredential]]
  /\ creditcoinTime = 0
  /\ jobs = [o \in Order |-> NoJob]
  /\ changes = 0

\* A payment is relayed: ProofKeyASC grants its window, and its job completes.
CompleteJob(o) ==
  /\ jobs[o] = NoJob
  /\ \E m \in Machine, payer \in Payer, end \in Timestamp :
       /\ GrantAccess(ProofKeyAsc, o, m, payer, end)
       /\ jobs' = [jobs EXCEPT ![o] =
                     [machineId |-> m, payer |-> payer, accessExpiresAt |-> end]]
  /\ UNCHANGED <<machines, creditcoinTime, changes>>

OwnerActs ==
  /\ changes < MaxChanges
  /\ changes' = changes + 1
  /\ \E owner \in Operator, m \in Machine :
       \/ SetMachineActive(owner, m, ~machines[m].active)
       \/ \E controller \in Controller \ {machines[m].controller} :
            UpdateController(owner, m, controller)
  /\ UNCHANGED <<passVars, creditcoinTime, jobs>>

ChainTick ==
  /\ creditcoinTime < MaxUint64
  /\ creditcoinTime' = creditcoinTime + 1
  /\ UNCHANGED <<machines, passVars, jobs, changes>>

ChainNext == ChainTick \/ OwnerActs \/ \E o \in Order : CompleteJob(o)

\* overruled is bookkeeping: a read begun later has ended, and closed the terminal.
Snapshot ==
  [authorized : BOOLEAN, authorizationId : OrZero(Order), expiresAt : Timestamp,
   machineActive : BOOLEAN, controller : OrZero(Controller), blockTimestamp : Timestamp]
NoSnapshot ==
  [authorized |-> FALSE, authorizationId |-> Zero, expiresAt |-> 0,
   machineActive |-> FALSE, controller |-> Zero, blockTimestamp |-> 0]
Read == [pending : SUBSET Call, snapshot : Snapshot, overruled : BOOLEAN]

BeginRead(calls) == [pending |-> calls, snapshot |-> NoSnapshot, overruled |-> FALSE]

\* What the snapshot becomes by the chain's present answer to some calls.
Answered(s, calls, m, payer) ==
  [authorized      |-> IF "isAuthorized" \in calls THEN IsAuthorized(m, payer) ELSE s.authorized,
   authorizationId |-> IF "accessCredentials" \in calls
                       THEN accessCredentials[m][payer].authorizationId ELSE s.authorizationId,
   expiresAt       |-> IF "accessCredentials" \in calls
                       THEN accessCredentials[m][payer].expiresAt ELSE s.expiresAt,
   machineActive   |-> IF "machines" \in calls THEN machines[m].active ELSE s.machineActive,
   controller      |-> IF "machines" \in calls THEN machines[m].controller ELSE s.controller,
   blockTimestamp  |-> IF "getBlockNumber" \in calls THEN creditcoinTime ELSE s.blockTimestamp]

\* A batch is answered as a whole.
Awaited(read, calls) == calls \in Batches /\ calls \subseteq read.pending

AnswerCalls(read, calls, m, payer) ==
  [read EXCEPT !.pending = @ \ calls, !.snapshot = Answered(@, calls, m, payer)]

\* The i-th of the reads outstanding, in the order they began, has ended, and
\* closed the terminal or not.
EndRead(reads, i, closed) ==
  [j \in 1 .. Len(reads) - 1 |->
     IF j < i THEN [reads[j] EXCEPT !.overruled = closed \/ reads[i].overruled]
              ELSE reads[j + 1]]
=============================================================================
