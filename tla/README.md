# ProofKey in TLA+

A customer pays for a machine on Ethereum Sepolia and gets access to it on
Creditcoin, without a bridge: Attestcoin attests Sepolia's blocks, a relay
carries a proof of the payment's receipt to Creditcoin, and a contract there
turns the receipt into an expiring credential. This directory holds the formal
specification of that system, the model-checking configurations for it, and the
proofs. Paths below are relative to the repository's root.

## 1. The system

| Part | State it keeps | Operations | Talks to |
| --- | --- | --- | --- |
| `MockUSDC` (Sepolia) | balances, allowances, supply | `approve`, `transferFrom`, `mint` | called by payers and by the registry |
| `UsagePaymentRegistry` (Sepolia) | owner, offers, paid orders | `setMachineOffer`, `setMachineActive`, `transferOwnership`, `payForUsage` | token; its `UsagePaid` receipts are what is proven |
| Attestcoin (external) | attested blocks | attest, build a proof, verify it (`0x0FD2`) | Sepolia, the relay, `ProofKeyASC` |
| `MachineRegistry` (Creditcoin) | machines: owner, controller, metadata, tariff, active | register, four updates by the owner | read by `ProofKeyASC`, `AccessPass`, devices |
| `AccessPass` (Creditcoin) | administrator, authorizer, credentials | `grantAccess`, `setAttestcoinAuthorizer`, `transferAdministration` | granted by `ProofKeyASC`, read by devices |
| `ProofKeyASC` (Creditcoin) | consumed query ids and order ids | `execute` | verifier, `MachineRegistry`, `AccessPass` |
| Relay store (`apps/worker/src/store.ts`) | jobs with leases, handoffs, metadata in PostgreSQL | one SQL statement each | queue, executors, HTTP API |
| Relay (`relay.ts`, `retry.ts`, `executor.ts`, `queue.ts`, `adapter.ts`, `cli.ts`, `server.ts`) | the job in hand, lease, attempts | enqueue, claim, process, heartbeat, release | store, Sepolia, proof builder, Creditcoin |
| Relay HTTP API (`http.ts`, `usage-receipt.ts`) | rate limiter | jobs, handoffs, claims, receipts, metadata | store |
| Checkout (`RentPage.tsx`, `contracts.ts`, `rental.ts`, `flow.ts`, `worker.ts`) | a stored resume record, wallet | faucet, approve, pay, relay, poll | token, registry, relay API |
| Session and terminal pages (`SessionPage.tsx`, `DevicePage.tsx`, `device-session.ts`) | handoff, claim token, last authorization read | create, claim, start, end | relay API, Creditcoin |
| Device client (`apps/device`) | the last authorization read | refresh, tick | Creditcoin |
| Operator console (`OperatorPage.tsx`, `operator.ts`) | an onboarding session per account in `localStorage`, a cached marketplace | upload, register, offer; repair; edit | both chains, relay API |
| Marketplace (`marketplace.ts`) | a cached listing | replay the event logs, read the terms, reconcile | both chains, relay API |
| Activity and proof views (`activity.ts`, `proof.ts` and their pages) | the last answers | list, ask, correlate; poll until final | chains, relay API |
| Scripts (`seed-marketplace.ts`, `live-mvp.ts`, `verify-live.ts`) | two recorded files | publish a catalog; rent, prove and record; verify | both chains |
| Diagnostics, telemetry, deployment scripts | none of their own | probes, counters, one-shot deployment | chains, relay API |

What is hard in it:

- **Two chains, two clocks, one fact.** Policy lives on Creditcoin, money moves
  on Sepolia, and both can change between a payment and its proof. Proofs
  arrive late, twice, in any order, or never.
- **Anybody can relay.** Several executors, an operator at the command line and
  strangers race for the same order; only the contracts decide.
- **Crashes and leases.** A job survives the executor. A lease is renewed by a
  heartbeat and expires by the database's clock, and an executor whose lease
  lapsed does not notice.
- **Answers that get lost.** Every await in the relay, the pages and the device
  can fail after its effect took place.
- **Reads that overlap.** A terminal's view of Creditcoin is put together from
  calls answered at different blocks, and may be applied after a later one.
- **Tabs that share.** A claim token or a checkout lives in a browser's
  `localStorage`; every tab acts on its own copy of it.
- **A wallet in between.** A prompt outlives the page that opened it, an account
  changes under a handler that waits, a transaction is replaced by another.
- **Many transactions, one purpose.** Publishing a machine or paying for one is a
  sequence over both chains, with a reload or a crash between any two steps.

What makes each part correct:

| Part | Correct when |
| --- | --- |
| token, registry | money is conserved; an order is paid once; flag, receipt and identifiers agree |
| contracts together | no credential without a payment of its own by its holder to the machine's owner; each payment is used once; the furthest window wins; terms are those of the moment; nothing but the listed reasons refuses a payment for ever |
| relay | success on record is success on chain; a job is in one executor's hands; outcomes are final and persisted; accepted jobs end |
| handoff, device | a nonce has one device; the output is on only while Creditcoin says so; receipts are sealed once and by the controller |
| checkout | a rental is charged once, through reloads; an approval caps the charge; access shown is access earned; the customer gets there |
| operator, seed command | a session says what the chains confirmed; both chains end up with the same terms; the sequence can be finished |
| marketplace | events and state tell the same story |
| activity, proof views | what they call final is; a mismatch has a reason; settled access is shown |
| live script | what it recorded verifies |

## 2. The modules

| Module | Models | Depends on |
| --- | --- | --- |
| `Domain` | accounts, machines, bounded clocks and prices | |
| `MockUSDC` | `contracts/mocks/MockUSDC.sol` | `Domain` |
| `UsagePaymentRegistry` | `contracts/UsagePaymentRegistry.sol`, the mined transactions a proof can be about | `MockUSDC` |
| `MachineRegistry` | `contracts/MachineRegistry.sol` | `Domain` |
| `AccessPass` | `contracts/AccessPass.sol` | `MachineRegistry` |
| `ProofKeyASC` | `contracts/ProofKeyASC.sol`, the verifier | `UsagePaymentRegistry`, `AccessPass` |
| `Entitlement` | the promise: windows are bought and redeemed | |
| `ProofKey` | both chains composed; properties; the refinement mapping | `ProofKeyASC`, `Entitlement` |
| `JobStore` | `store.ts`: jobs and leases | |
| `Relay` | `relay.ts`, `retry.ts`, `executor.ts`, `queue.ts`, `adapter.ts`, `cli.ts`, `server.ts` | `JobStore` |
| `AccessReads` | Creditcoin as terminals see it, and a read of several calls | `AccessPass` |
| `MachineController` | `apps/device/src/state.ts` with the timers of `main.ts` | `AccessReads` |
| `DeviceHandoff` | the handoff endpoints of `http.ts`, `usage-receipt.ts`, the handoff table of `store.ts` | `AccessReads` |
| `SessionPage` | how `SessionPage.tsx` creates and remembers a handoff | `DeviceHandoff` |
| `DevicePage` | `DevicePage.tsx`, `device-session.ts` | `SessionPage` |
| `DeviceSession` | pages, API and chain composed; properties | `DevicePage` |
| `Listing` | how the web application judges one machine from two registries (`reconcileMarketplace`, `loadOffer`) | `UsagePaymentRegistry`, `MachineRegistry` |
| `Checkout` | `RentPage.tsx` over `rental.ts`, `contracts.ts`, `worker.ts`; the wallet | `Listing` |
| `Marketplace` | `marketplace.ts`: event logs, replay, listing | `Listing` |
| `Onboarding` | `OperatorPage.tsx` over `operator.ts`; `POST /metadata` | `Marketplace` |
| `SeedMarketplace` | `seed-marketplace.ts` | `Marketplace` |
| `Publication` | console and seed command composed; properties | `Onboarding`, `SeedMarketplace` |
| `Rentals` | what the views of rentals read: payments, redemptions, the relay's job | `ProofKeyASC` |
| `Activity` | `activity.ts`, `ActivityPage.tsx` | `Rentals` |
| `ProofExplorer` | `proof.ts`, `ProofPage.tsx` | `Rentals` |
| `LiveRun` | `live-mvp.ts`, `verify-live.ts` | `Rentals` |
| `RentalViews` | the three composed; properties | `Activity`, `ProofExplorer`, `LiveRun` |
| `MCProofKey`, `MCRelay`, `MCMachineController`, `MCDeviceSession`, `MCCheckout`, `MCPublication`, `MCRentalViews` | instances for TLC | |
| `FoldProofs` | lemmas about folds and sums over finite sets | |
| `AccessProofs` | theorems about the contracts and the refinement | `ProofKey`, `FoldProofs` |
| `RelayProofs` | theorems about the relay and its leases | `Relay` |
| `DeviceProofs` | theorems about sessions | `DeviceSession` |
| `ControllerProofs` | a theorem about the standalone terminal | `MachineController` |
| `CheckoutProofs` | theorems about the checkout | `Checkout` |
| `PublicationProofs` | theorems about publishing | `Publication`, `FoldProofs` |
| `ViewsProofs` | theorems about the views and the live script | `RentalViews` |

### How the code maps to the contract modules

One action is one transaction, since a transaction is atomic and one that
reverts changes nothing: a `require` is a guard, and an inner call's revert is
a guard of the whole action. `msg.sender` is a parameter. Hashes that only
serve as identifiers (`computeOrderId`, `_computeQueryId`) are tuples of what
they hash, which is the assumption that the hash is injective.

`transactions` is the history of Sepolia as a proof sees it: each mined
transaction with sender, target, receipt status and `UsagePaid`-shaped logs. A
transaction's position stands for block height and index. Besides payments the
history may hold calls of the registry that reverted or paid nothing, payments
made through a contract wallet (whose `msg.sender` is not the transaction's
sender) and transactions of a foreign contract that emits a log with the same
signature. `Verified(i)`, the native verifier, holds of transactions in
attested blocks; nothing is assumed about who submits a proof, when, or how
often. `block.timestamp` of the two chains advances independently
(`sepoliaTime`, `creditcoinTime`), so one may be far ahead of the other.

`GrantAccess` is an operator and not an action: `ProofKeyASC` is the only
contract that can be the authorizer, and it calls `grantAccess` from inside
`execute`. The reentrancy locks are not modelled: neither the token nor
`AccessPass` calls anybody back, so the lock is never found taken.

`Entitlement` knows of none of this. It says that a window is bought under a
fresh order, may be redeemed once while it is open and extends the pass, and
that nothing else touches a pass. `ImplementsEntitlement` maps the payments of
Sepolia to `bought`, the consumed orders to `redeemed`, the credentials to
`pass` and Creditcoin's clock to `now`.

`Payments` is the ground truth the properties speak of: transactions in which
the registry itself logged a payment by the transaction's own sender. It does
not repeat the checks of `_validateUsagePayment`.

### How the code maps to the relay modules

Each operation of `JobStore` is one SQL statement and therefore atomic. At its
caller a statement answers, or throws - after it took effect, or without
(`Answers`, `Throws`, `Lost`). A job is reduced to its phase, whether it
carries its source payment, and its Creditcoin transaction. A lease is an owner
and whether `lease_expires_at` has passed.

In `Relay` a worker's step is one awaited call and everything up to the next,
which is what the event loop of Node runs without interruption. `Writes` is the
table of the ten places at which `process` writes the job: the phase written,
where it goes on, and where an exception of the store takes it - to the `catch`
clause for the writes awaited inside `try`, out of `process` for the two saves
outside it and for the transitions that are returned without being awaited.
`Retry` is `withRetry`'s answer to a transient error or a timeout, `Recheck`
the one unretried `isOrderProcessed` after a failed submission. Executors die
of any exception in `claimNext` or `release` (`dead`), as `server.ts` does not
restart the loop. The command line (`Cli`) calls `process` without a lease, on
any hash.

The networks are external: what an adapter answers depends on whether the
source transaction confirmed as a payment (`source`), is attested
(`attested`), and whether its order is processed (`processed`), which a
stranger's relay may do at any moment (`RelayedElsewhere`). The relay's own
`execute` transactions are mined in any order and may revert.

### How the code maps to the device modules

`AccessReads` takes `AccessPass` and `MachineRegistry` as they are and lets
the chain move by executed payments (`CompleteJob`, which is `grantAccess` by
the authorizer and a completed relay job), by the machine's owner
(`setMachineActive`, `updateController`) and by its clock. A read is a record of
the calls of a `Promise.all` still pending and the snapshot so far: each answer
fills in its fields from the state of that moment (`Answered`), so a snapshot
may combine blocks. `Batches` partitions the calls into those answered
together; runs with large state spaces use coarser partitions. The field
`overruled` is bookkeeping and no program state: when a read ends with a
verdict that closes the terminal, `EndRead` marks the reads begun before it.

`MachineController` is the class of that name: `Refresh` with its in-flight
guard (`Idle`), the answer (`ReadCompletes`), the `catch` clause (`ReadFails`)
and the 250 ms timer (`Tick`), which derives the state again from the cached
snapshot and the device's own clock, also while the page is hidden.

In `DeviceHandoff` a handler is two steps, as it awaits the row, checks it, and
awaits one conditional `UPDATE`: `ClaimInTime` and `ClaimHandoff`, and
`AssertUsageReceipt` and `PutDeviceReceipt`. A receipt is its kind, its
controller and its times; its signature is always the declared controller's,
which is all the server can check. `DevicePage` keeps per tab what the
component keeps in state and refs, among it the stage of the claim, the copy of
the handoff, the last authorization with its clock, the error, the receipt on
its way and the reads outstanding - several, as the page starts one every four
seconds. `storage` is the `localStorage` of the browsers the tabs belong to. A
request that reaches the server may have its answer lost (`Fault`) or find the
tab closed; a tab may be closed or reloaded at any moment.
`DeriveDeviceSession` keeps the early returns of the code and their order.

### How the code maps to the checkout

A handler of `RentPage.tsx` is split where it awaits. What the code captured at
the click - account, price, duration - stays in the page's `step`, whose field
`at` names the answer it waits for, until that answer is processed: `Inspect`
and `InspectAnswer` are `inspectCheckout`; `PayOrResume`, `Check`,
`ApprovalMined`, `Sign` and `PaymentKnown` are `payOrResume` and the
`payForUsage` it calls; `Enqueued` and `Polled` are the relay's part. `Commit` is
the page's `commit`, which writes state and `localStorage` in one update;
`Paused` is every `catch` and `finally`. The buttons' `disabled` expressions are
the operators named `...Enabled`.

`page` holds one record per tab, `stored` the one record per browser, and
`Open` reads it (a mount is the only moment the page looks). The offer a page
shows comes from a query that nothing repeats while the page is open but a
browser that comes online again (`Refetch`), so `Check` may compare it with a
chain that has moved on, and refuse. `broadcast` is what
the wallet signed; a transaction's position stands for its hash and for the
random nonce of its order. It is pending, mined, reverted, or dropped when the
customer cancelled or replaced it. A copy the customer speeds up has the account
nonce of the original under another hash, and an account's transactions are mined
in the order of their nonces (`Oldest`). `lost` marks a transaction whose hash reached
no page: signed in a prompt whose page was left (`prompts`), or whose answer the
wallet did not deliver. Mining calls `MockUSDC` and `UsagePaymentRegistry` as
they are, so the registry charges what the offer says in that block.

Abstractions: an account on the wrong network is no account (`account = Zero`);
reads made inside one call of the payment client see one state; leaving a page
within the application is a reload. The relay is what `Relay` promises of it: a
job that is completed only for a payment, or that fails.

### How the code maps to publication

`Marketplace` gives each registry call the event it emits, replays the logs as
`marketplace.ts` does, and lists a machine only when its event was seen; terms
come from contract state. `LoadMachines` and `LoadOffers` are the two halves of
one load, between which the chains may move. `Onboarding` keeps `onboarding`
(the session per account in `localStorage`), the page's copy of it, the cached
marketplace and the registry owner it last read. The page has two queries, the
marketplace and the registry's owner, and `due` holds those that were sent and have
read nothing yet. Both are sent when the page mounts and when the browser is online
again (`Reconnects`); the marketplace also by the success of a handler, which awaits
the answer before it ends (`Invalidated`, step "refreshing"), and by the buttons
"Refresh state" and "Retry" (`Refresh`), of which the first is there only if the
page lists a machine of the account, and the second after a failure
(`QueryFails`). Nothing sends the owner's query again: no interval, no focus, no
button. `Call` is the transaction a handler captured before its prompt. The
wallet's node estimates its gas first, so a call that would revert reaches no
prompt (`Refused`); one that is signed may revert all the same, when another is
mined before it. `SaveSession` stores under the session's account even when
another is connected by then, as the code does. `Draft` holds what the wizard's
form may contain, `Policy` what the editor's may; `Edit` stands for the editor's
forms, which sign as whoever is connected. `SeedMarketplace` is one run of the
command: it reads, decides its updates from that one read, sends them in order,
compares the offer, verifies, and dies (`SeedAborts`) anywhere. `Publication` lets
both act on the same registries.

### How the code maps to the views of rentals

`Rentals` composes the contracts with the relay's job of one payment, the viewed
one, and a browser that may remember its hash. `Activity` and `ProofExplorer`
make each read a step: the activity view lists, then reads the latest block with
the activation logs up to it, then asks four sources in any order; the proof
page takes the relay's evidence and then asks both chains. The answers may thus
stem from before and after a redemption. The activity view begins its next load in
any case; the proof page does (`Polls`) while it holds evidence whose phase is not
final. If its first load ends with an error - the answer 404 while there is no job
(`NotIndexed`), which is not retried, or another after its retries (`LookupFails`) -
the page is "unavailable" and stays so until somebody opens it again (`Reopened`). `correlateRental` and `Rows` are the
two pure functions that judge them, branch by branch. `LiveRun` is the live
script from reading the machine to writing its two files, dying anywhere, and
`VerifyLive` is the verifying command as a predicate. One of the three programs
is open in a behaviour (`open`), because none changes what another reads except
by what anybody may do to the chains. The relay's five working phases are
`"queued"`, and `"completed"` stands for `duplicate` too; a nonce stands for the
hash of the transaction that pays it; the two answers of `AccessPass` come in one
batch; Sepolia's clock stands still.

## 3. What the runs check

| Run | Bounds | Properties | Shows |
| --- | --- | --- | --- |
| `ProofKey.cfg` | 1 operator, 1 user, 1 wallet, 2 nonces, 2 transactions, clocks 0..2, durations 0..3 | `TypeOK`, `OnePaymentPerOrder`, `PaidOrdersAreLogged`, `CredentialBacked`, `OneProofPerOrder`, `FurthestWindowWins`, `ImplementsEntitlement`, `EveryPaymentHonoured` | two payments of different ends proven in either order, replays, imitations; nothing but the listed reasons refuses a payment for ever |
| `Drift.cfg` | 2 operators, one of whom pays, also itself, and may move tokens by allowance; 1 transaction, prices 0..2, supply up to 3, clocks 0..1 | `OwnersHoldTheRevenue`, `GrantedAtCurrentPolicy` | the two chains' terms drift apart between payment and proof |
| `Relay.cfg` | 2 executors, 1 job, 2 attempts, 2 submissions, 1 crash, 1 failing statement, no lapse | `RelayTypeOK`, `NoDuplicateJobs`, `OutcomeIsFinal`, `AcceptedJobsFinish` | leases do their work as long as they hold; accepted jobs end, through a crash |
| `RelayAdverse.cfg` | 1 executor, 1 command line, 1 job, 1 attempt, 2 submissions, 1 crash, 1 fault, 1 lapse | `SuccessIsReal` | success on record is success on chain even when two processes share a job |
| `MachineController.cfg` | 2 orders, 2 owner's transactions, 1 failing read, clocks 0..2, every call answered by itself | `LateReadNeverUnlocks`, `LossOfAccessLocks`, `ExpiryLocksByItself`, `AuthorizationUnlocks` | the standalone terminal opens only on the latest verdict, and locks |
| `DeviceHandoffs.cfg` | 2 tabs, 2 browsers, 1 nonce, 2 tokens, 1 order, server clock 0..1 | `OneDevicePerNonce`, `SealedSession`, `ReceiptsFinal` | two terminals scan one code, and two tabs run one session |
| `DeviceSession.cfg` | 1 tab, 2 orders, 2 controllers, 1 owner's transaction, 1 fault, clocks 0..2, a read answered at once | `EnabledByStoredStart`, `ExpiryEndsSession`, `StartedSessionsSeal` | extension, deactivation or a new controller during a session; sessions stop and can be sealed |
| `DeviceLateRead.cfg` | 1 tab, 2 reads at once, 1 deactivation | `LateReadNeverUnlocks` | **violated**: see the findings |
| `Checkout.cfg` | 1 tab, 1 account, 2 rentals, 4 transactions, 2 mishaps, prices 0..2, durations 1..2 | `NoDuplicateCharge`, `ApprovalCapsCharge`, `AccessIsEarned`, `CheckoutCompletes` | a page twice wronged charges a rental once, within its approval, shows access only when earned, and is stuck only in the named dead ends |
| `CheckoutTabs.cfg` | 2 tabs, nothing goes wrong | `StoredPaymentIsRecovered` | **violated**: see the findings |
| `Publication.cfg` | 2 operators, 1 browser, 1 machine, 1 catalog entry, 1 draft, 1 policy, 1 mishap, as many signed transactions as anybody has reason to sign | `ReplayMatchesState`, `SessionIsConfirmed`, `OnboardingCompletes`, `DriftIsRepaired`, `SeedConverges` | console and seed command publish over the same registries and get there, through edits, stale repairs and lost answers, but for the named dead ends |
| `RentalViews.cfg` | 1 machine, 2 payments, the earlier of duration 2 and the viewed of 1 or 2, 2 tariffs, Creditcoin's clock to 3, 1 mishap | `WindowClosedIsFinal`, `SupersededIsTrue`, `MismatchHasReason`, `RecordedRunsVerify`, `RedeemedIsShown`, `OutcomeIsShown` | what is read from moving chains one answer at a time, or recorded between two crashes, is true of them |

Why the bounds are enough. A replay, a reordering and a double payment need two
transactions; an identity mix-up needs a second account (the wallet, or the
second operator). Clocks that reach 2 with windows of up to 2 let a window be
open, closed, and beyond the end of the clock's width (`MaxUint64` is the last
representable time, so the overflow checks are at work). Prices 0 to 2 give
zero, the tariff and another. In the relay, two attempts distinguish a retry
from the last one; two submissions let one be pending while another is mined;
one crash, one fault and one lapse are single faults at every possible moment.
The proofs below carry the contracts' results to every value of the constants.
For the terminals, clocks 0..2 give a time before, at and after an expiry; two
orders are an extension; two controllers a change of hands; two tabs that open
in one of two browsers every way to share or compete for a token. Each device
run keeps small what its question does not need: what tabs do to one another
(`DeviceHandoffs`, where the chain stands still but for its clock), what one
terminal reads and how it ends (`DeviceSession`), and that a late read enables
(`DeviceLateRead`). Symmetry is used only in runs without liveness that say so.
In the checkout, two mishaps let one break the page off and another hit its
recovery; four transactions are an approval and a payment, each repeated; two
rentals let a late transaction of the first meet the second; the allowance left
over from an earlier checkout is zero or enough. In `Publication` one machine is
both in the catalog and a label an operator may choose, with another document, and
the editor may withdraw it or change its document, so that the console and the
command disagree about it. The one mishap is an edit, a reload, a lost answer, a
failed query, a change of account or of the registry's owner, or the death of the
command. `MaxSent` cuts nothing off: no behaviour signs more than ten transactions
(raising the bound adds no state), so a chain of stale repairs is always followed to the repair
that mends it, and no property excuses the bound. In `RentalViews` two payments of different length are the least that
supersede one another, and the clock passes both ends; the earlier is the longer,
or as long (`EarlierDuration`), since nothing else supersedes the viewed one.
In `RelayAdverse` the command line stands for every process that works on a job
it has no lease for, a second executor after a lapse among them.

`CHECK_DEADLOCK FALSE` is set for the passing relay runs, as the relay may
stop: all jobs terminal, or the executor's loop dead. It is set for the device
session runs, whose clocks and transactions are bounded, and for the web runs: a
customer who has access, an operator who has published everything and a script
that has died may all stop, and so may a checkout at the bound of signed transactions.

### Fairness

`FairSpec` assumes that attestors keep covering Sepolia and that some relay
keeps submitting each proof - weak fairness of `Execute` per transaction, which
any funded account can provide. No fairness is assumed of payers, operators or
clocks. `FairRelaySpec` assumes that a running worker takes its next step
(the event loop, with adapters whose calls time out), that a dead process is
restarted by its supervisor, that a lease which is not renewed expires, and
that Creditcoin includes what was broadcast. It does not assume that Sepolia
includes or attests anything: then the timeouts end the job. Nor does it make a
database statement throw (the fair step is one that is answered), and
`AcceptedJobsFinish` speaks of the runs in which none does: `RelayUnreported`
shows what one costs.
`MachineController`'s `FairSpec` assumes that a visible page polls, that the
RPC answers or the read fails at last, and that the 250 ms timer fires. It does
not assume that the page is ever visible, nor anything of the device's clock:
`LossOfAccessLocks` and `AuthorizationUnlocks` say what they need of visibility
in their premises, and `ExpiryLocksByItself` needs neither. `DeviceSession`'s
`FairSpec` assumes that the one-second timer fires, that block follows block,
that a receipt on its way is answered or lost, and that the user of a terminal
that offers to stop stops. Its reads may hang for ever: `ExpiryEndsSession`
rests on the timer alone, and `StartedSessionsSeal` names in its premise what
the terminal must have read.
`Checkout`'s `FairSpec` assumes a customer who keeps pressing the one enabled
button of the page and signs what the wallet shows, and a chain and a relay that
answer; it assumes nothing of mishaps, which run out, and not that the page ever
reads the offer again. `AppProviders.tsx:72-76` turns refetching on focus off and the
marketplace query has no interval, so a page that is open at a re-price stays
`Outdated`, one of the dead ends. Its `CheckoutCompletes` is about such a customer only, and names in
`DeadEnd` each state in which the page offers no button that helps.
`Publication`'s `Spec` assumes an operator who has connected and who presses at last
a button that the console offers again and again: the wizard's next step (`GoesOn`),
Repair (`Repairs`), "Refresh state" or "Retry" (`Refresh`). The first two are strong,
since the page disables its buttons while a handler awaits, and a press that is
refused for ever (a label that is taken) would otherwise excuse an operator who never
tries the other. No fairness makes anybody start. It assumes that a query which was
sent is answered, that prompts are signed and transactions mined. It does not assume that
the page sends a query again by itself (no fairness of `Reconnects`): a page that read
another owner of the registry, or failed to read it, is `Unaware`, and one that lists
no machine of the account has no button to refresh (`ShowsNone`); the properties name
both. That the deployer repeats the seed command is the premise of `SeedConverges`
and not of the specification.
`RentalViews` assumes that a load that is under way goes on, and that the next one
begins where the page has an interval: always on the activity view
(`ActivityPage.tsx:61`), on the proof page only with evidence that is not final
(`ProofPage.tsx:54-59`). It assumes nothing of the chains, the relay or a visitor, who
need not open a page again.

### Findings

- `DeviceLateRead.cfg` (`LateReadNeverUnlocks`). `README.md:237` promises that
  clients lock on deactivation and RPC failure. The terminal page applies reads in
  the order they end: one begun before a deactivation and ending after the read
  that saw it enables the equipment again, until the next read. The standalone
  terminal has a guard against this, and `MachineController.cfg` shows that it
  suffices.
- `CheckoutTabs.cfg` (`StoredPaymentIsRecovered`). `RentPage.tsx:649-650` tells the
  customer that "A stored payment is always recovered before the relay runs,
  preventing duplicate charges." A page reads the record on mount only, so a
  second tab that was open when the first one paid has the customer sign a second
  payment and overwrites the stored hash of the first. `OnePageChargesOnce` is
  the theorem that one tab never does.

### Further disagreements

Three more configurations are kept beside the modules and are not among the
runs; TLC finds the violation in each.

- `RelayUnreported.cfg` (`OutcomeIsPersisted`). `executor.ts:80` discards the
  exception of `process` because "ProofRelay persists and reports the
  structured terminal failure". One database statement that throws outside the
  reach of the `catch` clause ends `process` with the job in a working phase.
- `RelayLapse.cfg` (`NoDuplicateJobs`). `README.md:244` says that leases "allow
  additional executors without duplicate jobs". Once the lease of a live
  executor has lapsed, another claims the job, and neither the ignored answer of
  `renewLease` nor `save` stops the first. `RelayAdverse.cfg` shows what remains
  true then: no success is recorded that did not happen.
- `DeviceStop.cfg` (`SealedMeansStopped`). `README.md:31` says that an end
  receipt "seals the measured duration". A terminal learns of the seal only from
  the answer to its own request. If that answer is lost, the receipt is stored
  while the terminal still derives a running session from its old copy, cannot
  stop it again, and runs on until a reload or the expiry.

### Observations

What the models show of the code and no document promises otherwise, or not so
clearly that it counts as a disagreement.

- Checkout. A page left while its payment prompt is open loses the hash when the
  customer then signs; the next attempt is a second order (`Declined`,
  `OrphanSigned`). A re-priced machine charges the new price up to what was
  approved; an allowance left over from before raises that limit. No button helps
  in phase "funds" after a reload or without gas, after an approval or payment
  that was reverted, dropped or sped up under another hash, after a relay job has
  failed, when the machine is no longer listed, or when the balance no longer
  covers a raised price. A page that is open when the machine is re-priced refuses
  every press (`contracts.ts:517-529`) until it is reloaded or the browser was
  offline; the message asks to "Review the latest price", which the page does not
  show before. A "Resume" link replaces the session of the machine.
- Onboarding. A reload between signing the registration and its receipt strands
  the session: registering again is refused, as the label is taken, also when another
  operator took it. Only the registry's owner can publish an offer. The text at
  `OperatorPage.tsx:1027-1031` offers to repair any drift; the offer of another
  operator's machine cannot be repaired. A repair may publish stale terms from the
  cache; the reload after it shows the drift and the next one mends it. An open page
  does not notice that its account became the registry's owner, nor does it ask again
  after its one query of the owner failed; it offers neither publication nor repair
  until it is mounted again. An inventory that lists no machine of the account has no
  button to refresh. `putMetadata` keeps the first document of a digest
  and silently drops a second commitment to it from another origin (the model has
  one origin).
- Activity view. A redemption between two answers shows as a conflict until the
  next load. A remembered payment whose transaction reverted waits for
  confirmation for ever. A deactivated machine shows "Access expired". For a
  failed job it says that the relay can be resumed, while failed is final.
- Proof page. It stops polling at a failed job although somebody else may redeem
  the payment later. Opened before its job exists, or after a first load that fails,
  it stops for good and has no button to retry (`OutcomeIsShown` names this). The expiry row fails
  ("Invariant mismatch") while a payment is unredeemed and after a longer one
  superseded it.
- Live script. Dying between payment and record makes the next run pay again
  unless `DEMO_SOURCE_TRANSACTION_HASH` names the payment; dying between
  submission and record makes that payment unrecordable; dying between the two
  files leaves them in disagreement. `README.md:184` says that the verifier "still
  confirms that the original order was processed and the credential matches", which
  it does until the same account rents the machine for longer.

## 4. What is proved

For all values of the constants that satisfy the named assumptions of the
modules (addresses are distinct from zero, wallets are contracts, a price times
a legal duration fits a uint256):

| Theorem | States |
| --- | --- |
| `OrdersPaidOnce` | `Spec => [](OnePaymentPerOrder /\ PaidOrdersAreLogged)` |
| `TypeCorrect` | `Spec => []TypeOK` |
| `NoAccessWithoutPayment` | `Spec => []CredentialBacked` |
| `NoReplay` | `Spec => []OneProofPerOrder` |
| `ArrivalOrderIsHarmless` | `Spec => []FurthestWindowWins` |
| `PolicyEnforced` | `Spec => GrantedAtCurrentPolicy` |
| `KeepsThePromise` | `Spec => ImplementsEntitlement` |
| `SessionTypes` | `DeviceSession`'s `Spec => []TypeOK` |
| `OneSessionSealed` | `Spec => []SealedSession` |
| `EvidenceIsFinal` | `Spec => ReceiptsFinal` |
| `QrCodesOpenOneDevice` | `Spec => []OneDevicePerNonce` |
| `StoredStartEnables` | `Spec => []EnabledByStoredStart` |
| `FlagsMatchReceipts` | `Spec => []PaidOrdersAreLogged` |
| `RelayTypes` | `RelaySpec => []RelayTypeOK` |
| `SuccessOnRecordIsReal` | `RelaySpec => []SuccessIsReal` |
| `OneExecutorPerJob` | with `MaxLapses = 0`: `RelaySpec => []NoDuplicateJobs` |
| `OutcomesStand` | with `MaxLapses = 0` and `Cli = {}`: `RelaySpec => OutcomeIsFinal` |
| `LateAnswersAreHarmless` | `MachineController`'s `Spec => []LateReadNeverUnlocks` |
| `AccessIsCovered` | `Spec => []OwnersHoldTheRevenue` |
| `ReplayIsState` | `Publication`'s `Spec => []ReplayMatchesState` |
| `SessionsAreConfirmed` | `Publication`'s `Spec => []SessionIsConfirmed` |
| `ConsoleType` | `Publication`'s `Spec => []ConsoleTypeOK` |
| `ClosedWindows` | `RentalViews`'s `Spec => []WindowClosedIsFinal` |
| `SupersededPayments` | `RentalViews`'s `Spec => []SupersededIsTrue` |
| `Mismatches` | `RentalViews`'s `Spec => []MismatchHasReason` |
| `RecordsVerify` | `RentalViews`'s `Spec => []RecordedRunsVerify` |
| `OnePageChargesOnce` | with `Tab = {t}`: `Checkout`'s `Spec => []NoDuplicateCharge` |
| `CheckoutInvariant` | `Checkout`'s `Spec => []EarnInv` |
| `CheckoutTypes` | `Checkout`'s `Spec => []CheckoutTypeOK` |
| `AccessIsPaidFor` | `Checkout`'s `Spec => []AccessIsEarned` |
| `ChargeIsCapped` | with `Tab = {t}`: `Checkout`'s `Spec => []ApprovalCapsCharge` |

The argument. On Sepolia, `SettlementInv` joins the types, the fact that the
zero machine never gets an offer (otherwise a payment could name it), and the
agreement of flags and receipts: a payment is possible only for an unflagged
order, whose receipt therefore cannot be in the history yet. None of these is
inductive alone. On Creditcoin, `AccessInv` adds `RedemptionInv`: everything
redeemed is a payment that was attested, with its order consumed, its machine
still owned by the beneficiary, and no longer than its holder's credential.
That owners never change (`MachineStep`) and that Sepolia's history only grows
(`HistoryGrows`) keep it stable under all steps but `execute`; `ExecuteEffect`
sums up what one accepted proof changes, and `ExecuteStep` shows that it
re-establishes each conjunct. The refinement proof maps a payment to `Buy` - at
most one window, under an unused order by `OrdersPaidOnce` -, an accepted proof
to `Redeem`, Creditcoin's clock to `TimePasses`, and all else to a stutter.

For the sessions, `SealedSession` is not inductive: the server checks a receipt
against a row it has read and stores it in a later step, with other requests in
between. `SessionInv` adds that a receipt checked but not yet stored agrees with
the row's start receipt (`TabBound`), which no step can change any more
(`RowKept`); that a row carries the expiry of its completed job (`RowBound`),
and jobs stay as they are; and that every open tab's nonce has a row.
`SessionStep` shows that every step keeps it and every row, from which
`EvidenceIsFinal` follows as well. `QrCodesOpenOneDevice` needs `HolderInv` on
top: a stored token is the row's, at most one browser has one for a nonce, and
a terminal opens only with a token its browser stored. The one step that stores
a token is the conditional `UPDATE` of a row without one, when by `HolderInv` no
browser has any. That two random tokens differ is not needed for it;
`Fresh` keeps to the tokens 32 random bytes give in practice.

What a terminal enables rests on copies: `TabsCopy` says that the handoff a tab
holds may be behind the server's row and never against it. A start receipt in
the copy is therefore the stored one, which stays as it is (`RowsKept`, as for
`EvidenceIsFinal`), and a terminal runs only on a copy that has one (`StoredStartEnables`).

For the relay, `SuccessIsReal` speaks of rows and is not inductive: a worker
writes back the copy it works on. `RelayInv` demands the same of every copy in
hand, and that a worker is at a step which records success only when it has seen
the order processed; processed orders stay processed. No assumption is made on
leases, so the theorem covers workers that should have stopped. `LeaseInv` is
what leases add while none lapses: whoever is inside `process` owns the unexpired
lease of its job, and a row has one owner. The assumption `MaxLapses = 0` says
what the code cannot ensure, namely that no executor is slower than its lease;
`RelayLapse.cfg` shows it to be needed. `WorkInv` adds that executors hold only
jobs without an outcome, which a command line (`Cli`) does not keep to.

For the standalone terminal the invariant is that the in-flight guard leaves at
most one read outstanding: then no read can be overruled by a later one, and
neither can the snapshot shown.

For the checkout, `ChargeInv` says that while the current rental has a standing
charge, the page and the browser's record both hold the hash of a payment and the
page is not on its way to another (`SourceKept`). The guard of `PayOrResume` lets
a page without a hash on its way; `Sign` puts page, record and transaction in
place at once; `StartAnother` forgets all three by counting on; a reload or a link
replaces the session only by one with a hash. That the stored record is the one
page's own is where `Tab = {t}` is used, and `CheckoutTabs.cfg` shows that it is
needed. The proof asks only that the fields are there: `Shaped` says so for *some*
set of values `V`, to which every step may add, so the chains' and the relay's
values need no types.

`AccessIsEarned` holds for any number of tabs, which share the stored record and
follow hashes of one another, so the invariant speaks of each hash a page can come
to hold. `Earned` - settled for this machine, job complete - is never lost again:
blocks and receipts stay, and a completed job stays complete. `EarnInv` adds to the
types that a page in phase `access`, or with a completed job, holds an earned
source (`SessionOK`, also of the record); that the hash a page follows is its
session's, or the session's is earned already; and that the hash in a page's link
is the one it holds or an earned one, until the page pays anew. The last is what a
change of account needs, which lets a link replace the session in the middle of
anything (`Connected`).

`ApprovalCapsCharge` is about the order in which an account's transactions are
mined. While the page waits for its approval, that approval has the largest nonce
of those its account may still have mined (`LastApproval`), so once it is mined
none is left, and the allowance is the approved total or, after older payments,
less (`Exact`). No approval can then be mined before the payment signed next,
whose nonce is smaller (`TxCapped`), and the registry takes no more than it is
allowed (`MinedPayments`). A copy of a transaction under its old nonce changes
nothing; mined in the order of hashes, a sped-up approval could raise the
allowance after the check. `Tab = {t}` is needed: a second page approves what the
first then spends. What the property excludes, an approval signed behind the
page's back, stays excluded in `CapInv` (`NoLostApproval`).

Two properties are about folds, and a fold is a recursion over data. `FoldProofs`
proves the laws they need: every set of finite subsets that contains a set
whenever it contains the set's parts by one element less contains them all
(`SubsetInduction`, from the well-foundedness of strict subsets in the library),
so two functions with one recursion equation agree (`FoldsAgree`), a sum does not
depend on which term is taken first (`SumRemove`), and a replay of one log more is that log
applied to the replay before (`InOrderAppend`). With them:

- `AccessIsCovered`. Redeemed payments are among the logged ones, so their sum is
  at most the income of the account, the sum over *all* payments to it. `RevenueInv`
  adds to `AccessInv` that an operator who does not pay has approved nobody and
  holds its income: `PayForUsage` moves the balance and the sum by one amount, and
  nothing else takes tokens away from it. (`Drift.cfg` checks the property with a
  supply of 3.)
- `ReplayIsState`. Each transaction on a registry appends one log, and replaying it
  last does to the replayed map what the transaction does to the registry's, because
  a log carries the whole new record and `Overwritten` takes the field it names.

`SessionIsConfirmed` needs what leads to a stored phase: `ConsoleInv` follows a
session through the page's step. A step that waits for a hash holds the call it
signed (`SentOK`), and a call that was mined is in the logs (`LoggedCall`), where it
stays: logs and documents only grow (`Grows`). An answer that comes after the
account changed is dropped or stored under the account that asked, which is what
the step captured (`StepOK`). The catalog of the seed command is assumed not to be
empty and its entries to be typed, as `assertCatalog` checks (`SeedAssumption`).

For the views, `ViewsInv` says what makes answers of different moments fit
together. `Later` collects what every step leaves true of the past: payments stay
where they are in the history, processed orders stay processed, the credential's
end only grows, and an order that becomes processed does so before its window
ends. From it follow `LoadStays` and `LookupStays`, that an answer in hand is never
contradicted, only overtaken: `WindowClosedIsFinal` holds because the block's time
was read before the order was asked for, and `SupersededIsTrue` because the
activation was seen before the credential. `RedemptionOK` carries the one fact
about redemptions: a processed order is the credential's own, or the credential
ends later than its window. With it a complete record of the live script
verifies, or the credential has a later end than the recorded one. The machine's
owner and beneficiary are the customer only where the proof page is open
(`PolicyOK`): the live script may find any machine.

Only model-checked: the liveness properties, since fairness and ENABLED are beyond
the prover.

## 5. Not modelled

- Cryptography, ABI and RLP decoding, gas amounts, and chain reorganisations
  (Attestcoin attests a canonical chain).
- Of the relay's HTTP API: the rate limiter, readiness and health answers,
  routing, CORS, JSON validation and telemetry. They keep no state that another
  part depends on.
- Of the event replay: the sort that brings logs into the chain's order
  (`marketplace.ts:100-107`). The model keeps logs in that order and does not return
  them in another, so `ReplayMatchesState` says nothing of an RPC that does.
- Of the live script's record: that an incomplete one is refused. The property is
  about complete records.
- Of the web application: filtering, paging and layout; the machine page and the
  customer session page's polling, which only display; the internals of wallet
  providers, which are third-party code and appear as accounts, prompts and their
  changes.
- The diagnostics page, telemetry, and the deployment and release scripts'
  outputs: straight-line programs over files and networks. Their effect on the
  contracts (constructor arguments, the authorizer) is in the initial states.
- The deployment manifest in which the seed command and the live script note each
  transaction, and `evidence.ts`, which projects a job for publication.
