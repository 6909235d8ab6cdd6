---------------------------- MODULE ProofExplorer ----------------------------
(***************************************************************************)
(* The public proof page (apps/web/src/proof.ts, pages/ProofPage.tsx):     *)
(* it takes the relay's evidence of one payment, reads both chains, and    *)
(* recomputes ProofKeyASC's checks as rows.  While it holds evidence whose *)
(* phase is not final it loads again every five seconds; a page that got   *)
(* no evidence by its first load does not.                                 *)
(***************************************************************************)
EXTENDS Rentals

VARIABLES
  lookup,   \* answers of the load that is under way
  verdict   \* what the page holds: the phase, and the keys of the failed rows

explorerVars == <<lookup, verdict>>

NoLookup ==
  [evidence |-> <<>>, source |-> <<>>, machine |-> <<>>, processed |-> <<>>,
   credential |-> <<>>]
NoVerdict == [phase |-> "none", failed |-> {}]           \* the first load
Unavailable == [phase |-> "unavailable", failed |-> {}]  \* it ended with an error

ExplorerInit == lookup = NoLookup /\ verdict = NoVerdict

Found(field, value) == lookup' = [lookup EXCEPT ![field] = <<value>>]
Looking == UNCHANGED <<Chains, rentalVars, verdict>>

\* The first load is under way, or refetchInterval has evidence that is not
\* final; and the form that took a mismatch for the end.
StopsAtMismatch ==
  verdict.phase \notin FinalPhase \cup {"unavailable"} /\ verdict.failed = {}
Polls == verdict.phase \notin FinalPhase \cup {"unavailable"}

\* The query ends with an error: evidence it had stays, and is polled on.
Ended == IF verdict = NoVerdict THEN Unavailable ELSE verdict

\* GET /proofs/:identifier
GetProof ==
  /\ Polls
  /\ lookup.evidence = <<>>
  /\ job # "none"
  /\ Found("evidence", job)
  /\ Looking

\* 404, there is no job yet: the error that is not retried.
NotIndexed ==
  /\ Polls
  /\ lookup.evidence = <<>>
  /\ job = "none"
  /\ lookup' = NoLookup
  /\ verdict' = Ended
  /\ UNCHANGED <<Chains, rentalVars>>

\* The chains are read when the evidence is there, and not before.
AtOnce == TRUE
EvidenceKnown == lookup.evidence # <<>>

\* getTransaction and getTransactionReceipt: mined or not.
ReadSource ==
  /\ EvidenceKnown /\ lookup.source = <<>> /\ Polls
  /\ Found("source", Paid(Viewed))
  /\ Looking

ReadCreditcoin ==
  /\ EvidenceKnown /\ lookup.source = <<TRUE>>
  /\ \/ lookup.machine = <<>> /\ Found("machine", machines[RentedMachine])
     \/ lookup.processed = <<>> /\ Found("processed", Processed(Viewed))
     \/ lookup.credential = <<>> /\ Found("credential", Credential)
  /\ Looking

-----------------------------------------------------------------------------
(* computeProofInvariants.                                                 *)

Row(known, passes) == IF ~known THEN "pending" ELSE IF passes THEN "pass" ELSE "fail"

Rows(phase, source, payment, machine, processed, credential) ==
  LET settled == phase = "completed" IN
  [receipt |-> Row(TRUE, source.status = 1),
   source_contract |-> Row(TRUE, source.to = Registry),
   chain_key |-> Row(settled, SepoliaChainKey = 1),
   covered_block |-> Row(settled, TRUE),   \* a proof is built for the receipt's block
   payer |-> Row(TRUE, payment.payer = source.from),
   beneficiary |-> Row(TRUE, payment.beneficiary = machine.owner),
   machine_active |-> Row(TRUE, machine.active),
   tariff |-> Row(TRUE, payment.amount = machine.tariff * payment.duration),
   duration |-> Row(TRUE, payment.duration > 0 /\ payment.duration <= MaxDuration),
   expiry |-> Row(TRUE, ExpiresAt(payment) = credential.expiresAt),  \* 0 when there is none
   replay |-> Row(settled, processed)]

\* Until the payment is mined every row waits for evidence.
FailedRows ==
  IF lookup.source # <<TRUE>> THEN {}
  ELSE LET rows == Rows(lookup.evidence[1], transactions[SourceOf(Viewed)], PaymentOf(Viewed),
                        lookup.machine[1], lookup.processed[1], lookup.credential[1])
       IN  {key \in DOMAIN rows : rows[key] = "fail"}

Hydrated ==
  /\ lookup.evidence # <<>> /\ lookup.source # <<>>
  /\ lookup.source = <<TRUE>> =>
       \A field \in {"machine", "processed", "credential"} : lookup[field] # <<>>
  /\ verdict' = [phase |-> lookup.evidence[1], failed |-> FailedRows]
  /\ lookup' = NoLookup
  /\ UNCHANGED <<Chains, rentalVars>>

\* Any other error: the load is retried, twice at most, or ends.
LookupFails ==
  /\ Polls
  /\ Mishap
  /\ lookup' = NoLookup
  /\ verdict' \in {verdict, Ended}
  /\ UNCHANGED <<Chains, stored, job>>

\* The error has no button: the visitor opens the page again, or the browser
\* was offline and is not any more.
Reopened ==
  /\ verdict = Unavailable
  /\ verdict' = NoVerdict
  /\ UNCHANGED <<Chains, rentalVars, lookup>>

ExplorerStep == GetProof \/ NotIndexed \/ ReadSource \/ ReadCreditcoin \/ Hydrated

stateLabel ==
  IF verdict.failed # {} THEN "Invariant mismatch"
  ELSE IF verdict.phase = "completed" THEN "Verified access proof"
  ELSE verdict.phase

-----------------------------------------------------------------------------
(***************************************************************************)
(* A settled payment is put in doubt for a reason only: the page shows     *)
(* "Invariant mismatch" for a job that succeeded when a longer payment     *)
(* superseded the credential or the owner changed the policy since, and    *)
(* never because its answers were taken at different moments of the        *)
(* redemption (proof.ts reads the evidence before the chains).             *)
(***************************************************************************)
MismatchHasReason ==
  stateLabel = "Invariant mismatch" /\ verdict.phase = "completed" =>
    /\ verdict.failed \subseteq {"expiry", "machine_active", "tariff"}
    /\ "expiry" \in verdict.failed => Credential.expiresAt > ExpiresAt(PaymentOf(Viewed))
=============================================================================
