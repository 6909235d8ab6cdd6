----------------------------- MODULE Onboarding -----------------------------
(***************************************************************************)
(* The operator's console (apps/web/src/pages/OperatorPage.tsx over        *)
(* operator.ts): a machine is published by an upload to the relay, a       *)
(* transaction on Creditcoin and one on Sepolia, each confirmed before the *)
(* next; the inventory repairs drift from a cached marketplace and the     *)
(* editor changes a machine's policy.  One browser, whose wallet may       *)
(* change account at any time.                                             *)
(***************************************************************************)
EXTENDS Marketplace

CONSTANTS
  Draft,     \* the forms an operator may fill in
  Policy,    \* what an editor's form may hold
  MaxSent,   \* bound on the transactions the wallet signs
  MaxMishaps \* bound on what goes wrong or is done unusually

VARIABLES
  console,    \* what the page holds
  onboarding, \* localStorage: the onboarding session of each account
  account,    \* the connected account, Zero when there is none
  sent,       \* signed transactions, oldest first; the position is the hash
  mishaps

consoleVars == <<console, onboarding, account, sent, mishaps>>
Chains == <<sepoliaVars, machines, machineLogs, offerLogs>>

Call ==
  [method : {"registerMachine", "updateController", "updateMetadataHash", "updateTariff",
             "setMachineActive", "setMachineOffer"},
   machineId : Machine, controller : Controller, metadataHash : MetadataHash,
   tariff : Price \ {0}, active : BOOLEAN, beneficiary : Operator]

OperatorSession ==
  [account : Operator, phase : {"metadata_uploaded", "cc3_confirmed", "complete"},
   draft : Draft, metadata : MetadataHash]

Sent == [caller : Operator, call : Call, status : {"pending", "mined", "reverted"}]

Market == [listed : SUBSET Machine, machine : [Machine -> MachineRecord],
           offer : [Machine -> Offer]]

\* A value or nothing: <<x>> or <<>>.
IsMaybe(v, S) == v \in Seq(S) /\ Len(v) <= 1

ASSUME OnboardingAssumption ==
  /\ Draft \cup Policy \subseteq {[machineId |-> m, controller |-> c, metadataHash |-> d,
                       tariff |-> p, active |-> b] :
                        m \in Machine, c \in Controller, d \in MetadataHash,
                        p \in Price \ {0}, b \in BOOLEAN}
  /\ MaxSent \in Nat /\ MaxMishaps \in Nat

\* A draft, a policy and an offer as the arguments of a call.
CallOf(method, draft, beneficiary) ==
  [method |-> method, machineId |-> draft.machineId, controller |-> draft.controller,
   metadataHash |-> draft.metadataHash, tariff |-> draft.tariff, active |-> draft.active,
   beneficiary |-> beneficiary]

EmptyMarket ==
  [listed |-> {}, machine |-> [m \in Machine |-> NoMachine], offer |-> [m \in Machine |-> NoOffer]]

\* The page's queries; "due" holds those sent that have read nothing yet.
Queries == {"marketplace", "authority"}

\* What an awaiting handler captured: who signs what, and what it does then.
Idle == [at |-> "idle"]
IsStep(step) ==
  \/ step = Idle
  \/ step \in [at : {"uploading"}, session : OperatorSession]
  \/ step \in [at : {"committing"}, account : Operator, call : Call]
  \/ step \in [at : {"prompt"}, caller : Operator, call : Call,
                session : Seq(OperatorSession)]
  \/ step \in [at : {"waiting"}, hash : 1 .. MaxSent, session : Seq(OperatorSession)]
  \/ step \in [at : {"refreshing"}]   \* execute awaits invalidateQueries

ConsoleTypeOK ==
  /\ DOMAIN console =
       {"session", "step", "market", "loading", "authority", "due", "failed"}
  /\ IsStep(console.step)
  /\ IsMaybe(console.session, OperatorSession)
  /\ console.market \in Market /\ IsMaybe(console.loading, Market)
  /\ console.authority \in OrZero(Operator)
  /\ console.due \subseteq Queries /\ console.failed \in BOOLEAN
  /\ \A o \in Operator : IsMaybe(onboarding[o], OperatorSession)
  /\ account \in OrZero(Operator)
  /\ sent \in Seq(Sent) /\ Len(sent) <= MaxSent
  /\ machineMetadata \subseteq MetadataHash
  /\ mishaps \in 0 .. MaxMishaps

ForgetsSession(a) == <<>>

\* loadOperatorSession: what a mount and every change of account find.
SavedSession(a) == IF a = Zero THEN <<>> ELSE onboarding[a]

Mounted(a) ==
  [session |-> SavedSession(a), step |-> Idle, market |-> EmptyMarket, loading |-> <<>>,
   authority |-> Zero, due |-> Queries, failed |-> FALSE]

ConsoleInit ==
  /\ onboarding = [o \in Operator |-> <<>>]
  /\ account = Zero
  /\ console = [session |-> <<>>, step |-> Idle, market |-> EmptyMarket, loading |-> <<>>,
                authority |-> Zero, due |-> Queries, failed |-> FALSE]
  /\ sent = <<>>
  /\ mishaps = 0

-----------------------------------------------------------------------------
(* The page's two queries.  They are sent when the page mounts and when    *)
(* the browser is online again; the marketplace also after a handler's     *)
(* success and by a button.  Nothing repeats them: no interval, no focus.  *)

Mishap == mishaps < MaxMishaps /\ mishaps' = mishaps + 1

\* Where the page's data are behind what the chains now say.
Behind ==
  \E m \in Machine :
    \/ console.market.machine[m] # machines[m]
    \/ machines[m] # NoMachine /\ console.market.offer[m] # machineOffers[m]

OwnedMachines == {m \in console.market.listed : console.market.machine[m].owner = account}

Page(changed) ==
  /\ console' = changed
  /\ UNCHANGED <<Chains, machineMetadata, onboarding, account, sent>>

\* The marketplace was sent and is not answered.
Fetching == "marketplace" \in console.due \/ console.loading # <<>>

\* load reads Creditcoin (the logs name the machines, the contract their
\* terms), then Sepolia; a listing joins states of two moments.
LoadMachines ==
  /\ "marketplace" \in console.due
  /\ \E found \in {Listed(ReplayMachineLogs(machineLogs))}, offers \in {ReplayOfferLogs(offerLogs)} :
     Page([console EXCEPT !.due = @ \ {"marketplace"}, !.loading =
       <<[listed |-> found,
          machine |-> [m \in Machine |-> IF m \in found THEN machines[m] ELSE NoMachine],
          offer |-> [m \in Machine |-> offers[m]]]>>])
  /\ UNCHANGED mishaps

CurrentOffers(loaded) ==
  [m \in Machine |-> IF m \in loaded.listed /\ machineOffers[m].beneficiary # Zero
                     THEN machineOffers[m] ELSE loaded.offer[m]]

\* A handler that awaits the marketplace is done when it is answered.
Refreshed(step) == IF step.at = "refreshing" THEN Idle ELSE step

LoadOffers ==
  /\ console.loading # <<>>
  /\ LET loaded == console.loading[1] IN
     Page([console EXCEPT !.loading = <<>>, !.failed = FALSE, !.step = Refreshed(@),
             !.market = [loaded EXCEPT !.offer = CurrentOffers(loaded)]])
  /\ UNCHANGED mishaps

LoadAuthority ==
  /\ "authority" \in console.due
  /\ Page([console EXCEPT !.due = @ \ {"authority"}, !.authority = owner])
  /\ UNCHANGED mishaps

\* A query fails, and its one retry too: what the page had of it stays.
QueryFails ==
  /\ Mishap
  /\ \/ /\ "authority" \in console.due
        /\ Page([console EXCEPT !.due = @ \ {"authority"}])
     \/ /\ Fetching
        /\ Page([console EXCEPT !.due = @ \ {"marketplace"}, !.loading = <<>>,
                   !.failed = TRUE, !.step = Refreshed(@)])

\* "Refresh state" above the owned machines, or "Retry" after a failure.  A
\* press that would read what the page already shows is left out.
Refresh ==
  /\ account # Zero
  /\ OwnedMachines # {} \/ console.failed
  /\ ~Fetching /\ (Behind \/ console.failed)
  /\ Page([console EXCEPT !.due = @ \cup {"marketplace"}])
  /\ UNCHANGED mishaps

\* The browser is online again: the queries that are not under way are sent,
\* where that can change the page.
Reconnects ==
  LET resent == {q \in Queries \ console.due :
                   IF q = "authority" THEN console.authority # owner
                   ELSE ~Fetching /\ (Behind \/ console.failed)}
  IN
  /\ resent # {}
  /\ Page([console EXCEPT !.due = @ \cup resent])
  /\ UNCHANGED mishaps

-----------------------------------------------------------------------------
(* The wizard.                                                             *)

Ready == account # Zero /\ console.step = Idle
Await(step) ==
  /\ console' = [console EXCEPT !.step = step]
  /\ UNCHANGED <<Chains, machineMetadata, onboarding, account, sent, mishaps>>

\* Step of the wizard: the session's phase alone decides it.
InWizard(phase) == console.session # <<>> /\ console.session[1].phase = phase

UploadMetadata(draft) ==
  /\ Ready
  /\ console.session = <<>>
  /\ Await([at |-> "uploading", session |->
       [account |-> account, phase |-> "metadata_uploaded", draft |-> draft,
        metadata |-> draft.metadataHash]])

\* sendContractTransaction: the signer must be the account of the session.
Signs(caller, call, session) ==
  /\ caller = account
  /\ Await([at |-> "prompt", caller |-> caller, call |-> call, session |-> session])

PhaseAfter(phase) == IF phase = "metadata_uploaded" THEN "cc3_confirmed" ELSE "complete"
Advanced(session) == <<[session EXCEPT !.phase = PhaseAfter(@)]>>

RegisterStep ==
  /\ Ready /\ InWizard("metadata_uploaded")
  /\ LET s == console.session[1] IN
     Signs(s.account, CallOf("registerMachine", s.draft, s.account), Advanced(s))

RegistryOwner == account # Zero /\ console.authority = account

SynchronizeOffer ==
  /\ Ready /\ InWizard("cc3_confirmed") /\ RegistryOwner
  /\ LET s == console.session[1] IN
     Signs(s.account, CallOf("setMachineOffer", s.draft, s.account), Advanced(s))

StartNew ==
  /\ InWizard("complete") /\ account # Zero
  /\ onboarding' = [onboarding EXCEPT ![account] = <<>>]
  /\ console' = [console EXCEPT !.session = <<>>]
  /\ UNCHANGED <<Chains, machineMetadata, account, sent, mishaps>>

-----------------------------------------------------------------------------
(* Inventory and editor.                                                   *)

DriftOfPrice(m) ==
  console.market.offer[m].pricePerSecond = console.market.machine[m].tariff
DriftChecks(m) == Synchronized(console.market.machine[m], console.market.offer[m])

RepairOffer(m) ==
  /\ Ready /\ m \in OwnedMachines /\ ~console.failed /\ ~DriftChecks(m) /\ RegistryOwner
  /\ LET cached == console.market.machine[m] IN
     Signs(account, [method |-> "setMachineOffer", machineId |-> m,
                     controller |-> cached.controller, metadataHash |-> cached.metadataHash,
                     tariff |-> cached.tariff, active |-> cached.active,
                     beneficiary |-> cached.owner], <<>>)

\* The editor's forms (Manage opens it on an owned machine).  It stays open
\* when the account changes and signs as whoever is connected, so it may be
\* open on any listed machine.
Edit(m, policy) ==
  /\ Ready /\ m \in console.market.listed
  /\ Mishap
  /\ LET d == [policy EXCEPT !.machineId = m]
         edits(step) == console' = [console EXCEPT !.step = step]
     IN  \/ \E method \in {"updateController", "updateTariff", "setMachineActive"} :
              edits([at |-> "prompt", caller |-> account, call |-> CallOf(method, d, account),
                     session |-> <<>>])
         \/ edits([at |-> "committing", account |-> account,
                   call |-> CallOf("updateMetadataHash", d, account)])
  /\ UNCHANGED <<Chains, machineMetadata, onboarding, account, sent>>

-----------------------------------------------------------------------------
(* The answers.                                                            *)

\* execute's catch and finally.
Failed == console' = [console EXCEPT !.step = Idle]

\* execute after a success: the marketplace is sent again and awaited.
Invalidated ==
  [console EXCEPT !.step = [at |-> "refreshing"], !.loading = <<>>,
                  !.due = @ \cup {"marketplace"}]

\* saveSession: localStorage under the session's account, and the page.
SaveSession(session) ==
  /\ onboarding' = [onboarding EXCEPT ![session.account] = <<session>>]
  /\ console' = [Invalidated EXCEPT !.session = <<session>>]

\* POST /metadata: the relay keeps the document, then answers.
MetadataStored ==
  /\ \/ /\ console.step.at = "uploading"
        /\ machineMetadata' = machineMetadata \cup {console.step.session.metadata}
        /\ SaveSession(console.step.session)
     \/ /\ console.step.at = "committing"
        /\ machineMetadata' = machineMetadata \cup {console.step.call.metadataHash}
        /\ console' = [console EXCEPT !.step =
             [at |-> "prompt", caller |-> console.step.account, call |-> console.step.call,
              session |-> <<>>]]
        /\ UNCHANGED onboarding
  /\ UNCHANGED <<Chains, account, sent, mishaps>>

\* The relay fails or its answer is lost; the chain cannot be switched to;
\* the wallet refuses; the connection to the node breaks off.
Fault ==
  /\ console.step.at \notin {"idle", "refreshing"}
  /\ Mishap
  /\ Failed
  /\ \/ UNCHANGED machineMetadata
     \/ /\ console.step.at = "uploading"
        /\ machineMetadata' = machineMetadata \cup {console.step.session.metadata}
  /\ UNCHANGED <<Chains, onboarding, account, sent>>

\* The calls a contract would not revert.
Accepted(caller, call) ==
  CASE call.method = "registerMachine" -> machines[call.machineId].owner = Zero
    [] call.method = "setMachineOffer" -> caller = owner
    [] OTHER -> OnlyMachineOwner(caller, call.machineId)

Broadcast(step) ==
  /\ Accepted(step.caller, step.call)
  /\ Len(sent) < MaxSent
  /\ sent' = Append(sent, [caller |-> step.caller, call |-> step.call, status |-> "pending"])

\* The wallet's node estimates the gas before it shows the prompt: a call that
\* would revert is refused.
Refused ==
  /\ console.step.at = "prompt"
  /\ ~Accepted(console.step.caller, console.step.call)
  /\ Failed
  /\ UNCHANGED <<Chains, machineMetadata, onboarding, account, sent, mishaps>>

Sign ==
  /\ console.step.at = "prompt"
  /\ Broadcast(console.step)
  /\ console' = [console EXCEPT !.step =
       [at |-> "waiting", hash |-> Len(sent) + 1, session |-> console.step.session]]
  /\ UNCHANGED <<Chains, machineMetadata, onboarding, account, mishaps>>

\* The receipt.  Success saves the session's next phase, or leaves a mutation
\* done; either way the marketplace is loaded again.
IgnoresReceipt(status) == status # "pending"
Confirmed(status) == status = "mined"

Receipt ==
  /\ console.step.at = "waiting"
  /\ sent[console.step.hash].status # "pending"
  /\ IF ~Confirmed(sent[console.step.hash].status)
     THEN Failed /\ UNCHANGED onboarding
     ELSE IF console.step.session = <<>>
     THEN console' = Invalidated /\ UNCHANGED onboarding
     ELSE SaveSession(console.step.session[1])
  /\ UNCHANGED <<Chains, machineMetadata, account, sent, mishaps>>

-----------------------------------------------------------------------------
(* The chains and the browser.                                             *)

MineSent(h) ==
  /\ h \in DOMAIN sent /\ sent[h].status = "pending"
  /\ \A g \in 1 .. (h - 1) : sent[g].status = "pending" => sent[g].caller # sent[h].caller
  /\ LET tx == sent[h]
         settled(status) == sent' = [sent EXCEPT ![h].status = status]
     IN  \/ /\ MachineTransaction(tx.caller, tx.call) \/ OfferTransaction(tx.caller, tx.call)
            /\ settled("mined")
         \/ /\ ~Accepted(tx.caller, tx.call)
            /\ settled("reverted")
            /\ UNCHANGED <<Chains, machineMetadata>>
  /\ UNCHANGED <<console, onboarding, account, mishaps>>

\* The operator connects; later changes of account are unusual.
SwitchAccount(a) ==
  /\ a # account
  /\ IF account = Zero THEN UNCHANGED mishaps ELSE Mishap
  /\ account' = a
  /\ console' = [console EXCEPT !.session = SavedSession(a)]
  /\ UNCHANGED <<Chains, machineMetadata, onboarding, sent>>

\* A reload; a prompt that was open may be signed when its page is gone.
Reload ==
  /\ Mishap
  /\ console' = Mounted(account)
  /\ \/ UNCHANGED sent
     \/ console.step.at = "prompt" /\ Broadcast(console.step)
  /\ UNCHANGED <<Chains, machineMetadata, onboarding, account>>

OwnershipMoves(newOwner) ==
  /\ newOwner # owner
  /\ Mishap
  /\ TransferOwnership(owner, newOwner)
  /\ UNCHANGED <<machines, machineLogs, offerLogs, machineMetadata, console, onboarding,
                 account, sent>>

Loads == LoadMachines \/ LoadOffers \/ LoadAuthority
Starts == \E draft \in Draft : UploadMetadata(draft)
GoesOn == RegisterStep \/ SynchronizeOffer
Repairs == \E m \in Machine : RepairOffer(m)
Mines == \E h \in DOMAIN sent : MineSent(h)
Answers == MetadataStored \/ Refused \/ Sign \/ Receipt

ConsoleNext ==
  \/ Starts \/ GoesOn \/ Repairs \/ Answers \/ Fault \/ StartNew
  \/ Loads \/ QueryFails \/ Refresh \/ Reconnects
  \/ \E m \in Machine, policy \in Policy : Edit(m, policy)
  \/ Mines
  \/ \E a \in OrZero(Operator) : SwitchAccount(a) \/ OwnershipMoves(a)
  \/ Reload
=============================================================================
