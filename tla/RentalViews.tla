----------------------------- MODULE RentalViews -----------------------------
(***************************************************************************)
(* The three programs that look at rentals, over the same chains.  None of *)
(* them but the live script changes what another reads, and what the       *)
(* script does to the chains anybody may do: so one of them is open in a   *)
(* behaviour.                                                              *)
(***************************************************************************)
EXTENDS Activity, ProofExplorer, LiveRun

CONSTANT EarlierDuration  \* lengths of a rental that was paid before

VARIABLE open

ASSUME ViewsAssumption == EarlierDuration \subseteq 1 .. MaxDuration

vars == <<Chains, rentalVars, activityVars, explorerVars, liveVars, open>>

Configured(controller, hash) ==
  /\ machines = [m \in OrZero(Machine) |->
        IF m = RentedMachine THEN OwnMachine(controller, hash, DemoTariff) ELSE NoMachine]
  /\ machineOffers = [m \in OrZero(Machine) |->
        IF m = RentedMachine THEN OwnOffer(DemoTariff) ELSE NoOffer]
Unconfigured ==
  /\ MachinesInit
  /\ machineOffers = [m \in OrZero(Machine) |-> NoOffer]

Funded(amount) ==
  /\ totalSupply = amount
  /\ balanceOf = [a \in Account |-> IF a = Customer THEN amount ELSE 0]
  /\ allowance = [a \in Account |->
        [s \in Spender |-> IF a = Customer /\ s = Registry THEN amount ELSE 0]]

\* A customer of the pages has tokens enough and has rented before; the script
\* finds nothing, or a machine that somebody configured in another way.
Init ==
  /\ RentalsInit /\ ActivityInit /\ ExplorerInit /\ LiveInit
  /\ \/ /\ open \in {"activity", "proof"}
        /\ owner = Customer /\ Configured(Customer, DemoMetadata) /\ Funded(MaxUint256)
        /\ \E n \in Nonce \ {Viewed}, duration \in EarlierDuration :
             Rented(n, duration, DemoTariff)
     \/ /\ open = "live" /\ Unrented /\ owner \in Operator
        /\ \/ Unconfigured /\ Funded(0)
           \/ /\ \E controller \in Controller, hash \in MetadataHash : Configured(controller, hash)
              /\ Funded(MaxUint256)

\* The steps of the program that is open.
Steps ==
  \/ open = "activity" /\ ActivityStep /\ UNCHANGED <<explorerVars, liveVars, open>>
  \/ open = "proof" /\ ExplorerStep /\ UNCHANGED <<activityVars, liveVars, open>>
  \/ open = "live" /\ LiveStep /\ UNCHANGED <<activityVars, explorerVars, open>>

Faults ==
  \/ open = "activity" /\ LoadFails /\ UNCHANGED <<explorerVars, liveVars, open>>
  \/ open = "proof" /\ LookupFails /\ UNCHANGED <<activityVars, liveVars, open>>
  \/ open = "live" /\ Dies /\ UNCHANGED <<activityVars, explorerVars, open>>
Visits == open = "proof" /\ Reopened /\ UNCHANGED <<activityVars, liveVars, open>>

Next ==
  \/ ChainsNext /\ UNCHANGED <<activityVars, explorerVars, liveVars, open>>
  \/ RelayNext /\ open # "live" /\ UNCHANGED <<activityVars, explorerVars, liveVars, open>>
  \/ Steps
  \/ Faults
  \/ Visits

\* A load that is under way goes on, and the next one begins where the page has
\* an interval: always on the activity view, on the proof page only while it
\* holds evidence that is not final.  Nothing else has to happen; nobody has to
\* open a page again.
Spec == Init /\ [][Next]_vars /\ WF_vars(Steps)

-----------------------------------------------------------------------------
(***************************************************************************)
(* Redeemed access reaches the customer: while the activity view is open,  *)
(* an order that was processed ends up shown as active or expired, whether *)
(* or not the relay answers; a conflict seen while its redemption was      *)
(* under way does not last (activity.ts, refetchInterval).                 *)
(***************************************************************************)
RedeemedIsShown ==
  open = "activity" /\ Processed(Viewed) ~> shown \in {Active} \cup Expired

(***************************************************************************)
(* The proof page gets to the end of the story.  Once it has evidence it   *)
(* polls, through failed loads, until it has shown the outcome of the      *)
(* relay's job; before that, its first load shows the outcome or ends with *)
(* an error, as it does when the page was opened before the job existed    *)
(* (ProofPage.tsx, refetchInterval and retry).                             *)
(***************************************************************************)
OutcomeIsShown ==
  /\ open = "proof" /\ job \in FinalPhase /\ verdict.phase = "queued" ~> verdict.phase = job
  /\ open = "proof" /\ job \in FinalPhase ~> verdict.phase \in {job, "unavailable"}
=============================================================================
