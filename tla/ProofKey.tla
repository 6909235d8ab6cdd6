------------------------------ MODULE ProofKey ------------------------------
(***************************************************************************)
(* Both chains together: payments settle on Sepolia, Attestcoin attests    *)
(* its blocks, anybody relays a proof to Creditcoin, and the two block     *)
(* clocks advance independently.                                           *)
(***************************************************************************)
EXTENDS ProofKeyASC, Functions

vars == <<sepoliaVars, creditcoinVars>>

TypeOK ==
  /\ TokenTypeOK
  /\ RegistryTypeOK
  /\ MachinesTypeOK
  /\ PassTypeOK(Order)
  /\ AscTypeOK

Init ==
  /\ TokenInit
  /\ RegistryInit
  /\ MachinesInit
  /\ PassInit
  /\ AscInit

SepoliaStep == RegistryNext /\ UNCHANGED creditcoinVars

CreditcoinStep == CreditcoinNext /\ UNCHANGED sepoliaVars

Next == SepoliaStep \/ CreditcoinStep

Spec == Init /\ [][Next]_vars

\* Attestors keep covering Sepolia, and some relay keeps submitting every
\* proof: nobody but a relay is needed, and any account can be one.
Relay(i) == Execute(AuthorizeAccessAction, SepoliaChainKey, i) /\ UNCHANGED sepoliaVars

Fairness ==
  /\ WF_vars(Attest /\ UNCHANGED sepoliaVars)
  /\ \A i \in 1 .. MaxTransactions : WF_vars(Relay(i))

FairSpec == Spec /\ Fairness

-----------------------------------------------------------------------------
\* The transactions that are payments: the registry logged one made by the
\* transaction's own sender.
Payments ==
  {i \in DOMAIN transactions :
     \E log \in RegistryLogs(transactions[i]) : log.payer = transactions[i].from}
Payment(i) == transactions[i].logs[1]

\* The transactions whose proof ProofKeyASC accepted.
Redeemed == {i \in DOMAIN transactions : QueryId(SepoliaChainKey, i) \in processedQueries}

(***************************************************************************)
(* No access without payment: a credential anybody holds rests on a        *)
(* redeemed payment the Sepolia registry took from that holder for that    *)
(* machine to the machine's owner, and ends exactly when the paid window   *)
(* ends.  (AccessPass.grantAccess reached through ProofKeyASC.execute.)    *)
(***************************************************************************)
CredentialBacked ==
  \A m \in Machine, a \in Account :
    LET credential == accessCredentials[m][a] IN
    credential # NoCredential =>
      \E i \in Payments \cap Redeemed :
        /\ Payment(i).orderId = credential.authorizationId
        /\ Payment(i).machineId = m
        /\ Payment(i).payer = a
        /\ Payment(i).beneficiary = machines[m].owner
        /\ ExpiresAt(Payment(i)) = credential.expiresAt

(***************************************************************************)
(* Replay protection: the two sets execute keeps describe the same         *)
(* redemptions, one proof per order (processedQueries, processedOrders).   *)
(***************************************************************************)
OneProofPerOrder ==
  /\ processedOrders = {Payment(i).orderId : i \in Redeemed}
  /\ \A i, j \in Redeemed : Payment(i).orderId = Payment(j).orderId => i = j

(***************************************************************************)
(* Whatever order proofs arrive in, a holder's credential for a machine is *)
(* the redeemed payment that ends last (AccessNotExtended).                *)
(***************************************************************************)
FurthestWindowWins ==
  \A i \in Redeemed :
    LET log == Payment(i) IN
    ExpiresAt(log) <= accessCredentials[log.machineId][log.payer].expiresAt

\* The amounts of the payments redeemed for an operator's machines.
Revenue(op) ==
  SumFunctionOnSet([i \in Redeemed |-> Payment(i).amount],
                   {i \in Redeemed : machines[Payment(i).machineId].owner = op})

(***************************************************************************)
(* Access is covered by money: a machine owner who has spent nothing holds *)
(* on Sepolia at least the amounts of all payments redeemed on Creditcoin  *)
(* for the machines registered to that owner.                              *)
(***************************************************************************)
OwnersHoldTheRevenue == \A op \in Operator \ Payer : balanceOf[op] >= Revenue(op)

(***************************************************************************)
(* A credential changes only by consuming a registry payment nobody        *)
(* consumed before, only to a later end, and only if that payment was made *)
(* at the tariff the active machine has at that moment - however long ago  *)
(* and on whatever terms the Sepolia offer was settled.  Deactivation and  *)
(* time never rewrite a credential.                                        *)
(***************************************************************************)
GrantedAtCurrentPolicy ==
  [][\A m \in Machine, a \in Account :
       LET before == accessCredentials[m][a]
           after  == accessCredentials'[m][a]
       IN  after # before =>
             /\ after.expiresAt > before.expiresAt
             /\ after.expiresAt > creditcoinTime
             /\ machines[m].active
             /\ \E i \in (Payments \ Redeemed) \cap Redeemed' :
                  /\ Payment(i).orderId = after.authorizationId
                  /\ Payment(i).amount = machines[m].tariff * Payment(i).duration]_vars

\* All the reasons there can be for a payment not to give access now.
Refused(log) ==
  LET machine == machines[log.machineId] IN
    \/ machine.owner # log.beneficiary
    \/ ~machine.active
    \/ machine.tariff * log.duration # log.amount
    \/ ExpiresAt(log) <= creditcoinTime \/ ExpiresAt(log) > MaxUint64
    \/ accessCredentials[log.machineId][log.payer].expiresAt >= ExpiresAt(log)
    \/ attestcoinAuthorizer # ProofKeyAsc

(***************************************************************************)
(* Liveness: a payment is redeemed,           unless the machine's policy *)
(* no longer matches it, its window has closed, a credential that lasts at *)
(* least as long is already held, or AccessPass has no authorizer yet.     *)
(* Nothing else - a consumed query, another order - can stand in its way.  *)
(***************************************************************************)
EveryPaymentHonoured ==
  \A i \in 1 .. MaxTransactions :
    (i \in Payments) ~> (i \in Redeemed \/ (i \in Payments /\ Refused(Payment(i))))

(***************************************************************************)
(* The system implements the entitlement it promises.                      *)
(***************************************************************************)
WindowOf(log) ==
  [orderId |-> log.orderId, machineId |-> log.machineId, holder |-> log.payer,
   expiresAt |-> ExpiresAt(log)]

Promise == INSTANCE Entitlement WITH
  NoOrder  <- Zero,
  bought   <- {WindowOf(Payment(i)) : i \in Payments},
  redeemed <- processedOrders,
  pass     <- accessCredentials,
  now      <- creditcoinTime

ImplementsEntitlement == Promise!PromiseSpec
=============================================================================
