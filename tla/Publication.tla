----------------------------- MODULE Publication -----------------------------
(***************************************************************************)
(* Everyone who publishes machines, over the same two registries: the      *)
(* operator's console and the deployer's catalog command.                  *)
(***************************************************************************)
EXTENDS Onboarding, SeedMarketplace

vars == <<Chains, machineMetadata, consoleVars, seed>>

Init == MarketInit /\ owner = Deployer /\ ConsoleInit /\ SeedInit

SeedActs == SeedStep /\ UNCHANGED consoleVars

Browser(action) == action /\ UNCHANGED seed

Next ==
  \/ Browser(ConsoleNext)
  \/ SeedActs
  \/ SeedAborts /\ Mishap /\ UNCHANGED <<console, onboarding, account, sent>>

\* Queries that were sent are answered, prompts signed and transactions mined;
\* an operator who has connected presses at last a button the console keeps
\* offering: on with the wizard, Repair, Refresh.  Nothing makes an open page
\* send its queries again (no fairness of Reconnects): only a success and the
\* Refresh button do, and only for the marketplace.
Spec ==
  /\ Init /\ [][Next]_vars
  /\ WF_vars(Browser(Loads)) /\ WF_vars(Browser(Answers)) /\ WF_vars(Browser(Mines))
  /\ SF_vars(Browser(GoesOn)) /\ SF_vars(Browser(Repairs)) /\ WF_vars(Browser(Refresh))

-----------------------------------------------------------------------------
(***************************************************************************)
(* A session says only what the chains confirmed: past "metadata_uploaded" *)
(* its machine was registered by its account with the terms of its draft,  *)
(* and when complete its offer was published with them, so that with these *)
(* terms the marketplace lists the machine (OperatorPage.tsx saves a phase *)
(* after the receipt; an answer may arrive when another account is         *)
(* connected or the seed command has taken the label).                     *)
(***************************************************************************)
SessionIsConfirmed ==
  \A o \in Operator : onboarding[o] # <<>> =>
    LET s          == onboarding[o][1]
        registered == [owner |-> o, controller |-> s.draft.controller,
                       metadataHash |-> s.metadata, tariff |-> s.draft.tariff,
                       active |-> s.draft.active]
        published  == [beneficiary |-> o, pricePerSecond |-> s.draft.tariff,
                       active |-> s.draft.active]
    IN
    /\ s.account = o
    /\ s.phase \in {"cc3_confirmed", "complete"} =>
         [name |-> "MachineRegistered", machineId |-> s.draft.machineId, args |-> registered]
           \in ToSet(machineLogs)
    /\ s.phase = "complete" =>
         /\ [machineId |-> s.draft.machineId, args |-> published] \in ToSet(offerLogs)
         /\ ReconcileMarketplace(registered, published, LocalMetadata \cup machineMetadata)
              \in {"available", "inactive"}

-----------------------------------------------------------------------------
\* The page does not know that its account owns the registry: it read another
\* owner when it was mounted, or failed to, and does not ask again.
Unaware == console.authority # account /\ "authority" \notin console.due

\* Where the wizard offers the connected account no way on.
Stranded(s) ==
  \/ machines[s.draft.machineId].owner # Zero /\ s.phase = "metadata_uploaded"
       \* the label is taken, or the page missed the receipt of its own registration
  \/ s.phase = "cc3_confirmed" /\ (owner # s.account \/ Unaware)
       \* only the registry owner publishes, and only on a page that knows it
  \/ account # s.account                              \* another wallet is connected

(***************************************************************************)
(* An onboarding that is stored is finished: with an operator who goes on, *)
(* it reaches "complete" or one of the dead ends Stranded names.           *)
(***************************************************************************)
OnboardingCompletes ==
  \A o \in Operator :
    []<>(onboarding[o] = <<>> \/ onboarding[o][1].phase = "complete" \/ Stranded(onboarding[o][1]))

\* A page that lists no machine of its account has no Refresh button.
ShowsNone == OwnedMachines = {} /\ ~console.failed /\ ~Fetching

(***************************************************************************)
(* Drift is repaired: when the registry owner is connected and goes on,    *)
(* the machines it owns do not stay unsynchronized.  The console repairs   *)
(* from a cached marketplace that may be stale when it signs, and such a   *)
(* repair publishes terms that are no more the machine's: the reload after *)
(* it has to show the drift it left, and another repair to follow.         *)
(***************************************************************************)
DriftIsRepaired ==
  []<>(\/ account # owner \/ Unaware \/ ShowsNone
       \/ \A m \in Machine :
            machines[m].owner = account => Synchronized(machines[m], machineOffers[m]))

(***************************************************************************)
(* The seed command converges: a deployer who repeats it after crashes     *)
(* between any two of its transactions, whatever the console changed, ends *)
(* with every catalog entry published, unless the registry or a label      *)
(* belongs to another account.                                             *)
(***************************************************************************)
SeedConverges ==
  WF_vars(SeedActs) =>
    \/ []<>(\A i \in DOMAIN Catalog : Published(Catalog[i]))
    \/ []<>(owner # Deployer)
    \/ []<>(\E i \in DOMAIN Catalog :
              machines[Catalog[i].machineId].owner \notin {Zero, Deployer})
=============================================================================
